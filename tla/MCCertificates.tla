--------------------------- MODULE MCCertificates ---------------------------
(***************************************************************************)
(* A small instance of Certificates for TLC: one certificate whose owner   *)
(* has an account, and one HR of the DZO.                                  *)
(***************************************************************************)
EXTENDS Certificates
OneEmpOf == [c \in Certs |-> CHOOSE e \in Emps : TRUE]
OneDzoOf == [e \in Emps |-> CHOOSE d \in Dzos : TRUE]
OneHrDzo == [h \in Hrs |-> CHOOSE d \in Dzos : TRUE]
=============================================================================
