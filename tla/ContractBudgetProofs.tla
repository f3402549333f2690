------------------------ MODULE ContractBudgetProofs ------------------------
(***************************************************************************)
(* Proofs about the abstract budget ledger, for any set of requests,       *)
(* contracts and amounts.                                                  *)
(***************************************************************************)
EXTENDS ContractBudget, FiniteSetTheorems, WellFoundedInduction, TLAPS

(* A row made for a price is a row of the ledger.                          *)
LEMMA RowType ==
  ASSUME NEW op \in Operations, NEW p \in Prices
  PROVE  Row(op, p) \in Rows
BY DEF Row, Rows, Prices

(* Every step keeps the balances integers and the ledgers sequences of     *)
(* ledger rows.                                                            *)
LEMMA TypeStep == TypeOK /\ [Next]_budgetVars => TypeOK'
<1> SUFFICES ASSUME TypeOK, [Next]_budgetVars PROVE TypeOK'
  OBVIOUS
<1> USE BudgetAssumption DEF TypeOK
<1>1. ASSUME NEW m \in Mains, NEW p \in Prices, Reserve(m, p) PROVE TypeOK'
  <2>1. p.amount \in Nat BY DEF Prices
  <2>2. Row("RESERVE", p) \in Rows BY RowType DEF Operations
  <2> QED BY <1>1, <2>1, <2>2 DEF Reserve
<1>2. ASSUME NEW m \in Mains, NEW p \in Prices, WriteOff(m, p) PROVE TypeOK'
  <2>1. Row("WRITE_OFF", p) \in Rows BY RowType DEF Operations
  <2> QED BY <1>2, <2>1 DEF WriteOff
<1>3. ASSUME NEW m \in Mains, NEW p \in Prices, GiveBack(m, p) PROVE TypeOK'
  <2>1. p.amount \in Nat BY DEF Prices
  <2>2. Row(IF Has(m, "WRITE_OFF") THEN "REFUND" ELSE "RELEASE", p) \in Rows
    BY RowType DEF Operations
  <2> QED BY <1>3, <2>1, <2>2 DEF GiveBack
<1>4. ASSUME NEW m \in Mains, NEW p \in Prices, NEW q \in Prices,
             ReserveAndWriteOff(m, p, q)
      PROVE  TypeOK'
  <2>1. p.amount \in Nat BY DEF Prices
  <2>2. /\ Row("RESERVE", p) \in Rows
        /\ Row("WRITE_OFF", q) \in Rows
    BY RowType DEF Operations
  <2> QED BY <1>4, <2>1, <2>2 DEF ReserveAndWriteOff
<1>5. CASE UNCHANGED budgetVars BY <1>5 DEF budgetVars
<1> QED BY <1>1, <1>2, <1>3, <1>4, <1>5 DEF Next

(* Type correctness of the ledger.                                         *)
THEOREM TypeCorrect == Spec => []TypeOK
<1>1. Init => TypeOK BY BudgetAssumption DEF Init, TypeOK
<1> QED BY <1>1, TypeStep, PTL DEF Spec

(* Every reservation is checked against the amount that is left, and       *)
(* giving back only adds.                                                  *)
LEMMA OverdraftStep == TypeOK /\ NoOverdraft /\ [Next]_budgetVars => NoOverdraft'
<1> SUFFICES ASSUME TypeOK, NoOverdraft, [Next]_budgetVars,
                    NEW c \in Contracts
             PROVE  remaining'[c] >= 0
  BY DEF NoOverdraft
<1> USE BudgetAssumption DEF TypeOK, NoOverdraft
<1>1. ASSUME NEW m \in Mains, NEW p \in Prices, Reserve(m, p)
      PROVE  remaining'[c] >= 0
  <2>1. p.amount \in Nat BY DEF Prices
  <2> QED BY <1>1, <2>1 DEF Reserve
<1>2. ASSUME NEW m \in Mains, NEW p \in Prices, GiveBack(m, p)
      PROVE  remaining'[c] >= 0
  <2>1. p.amount \in Nat BY DEF Prices
  <2> QED BY <1>2, <2>1 DEF GiveBack
<1>3. ASSUME NEW m \in Mains, NEW p \in Prices, NEW q \in Prices,
             ReserveAndWriteOff(m, p, q)
      PROVE  remaining'[c] >= 0
  <2>1. p.amount \in Nat BY DEF Prices
  <2> QED BY <1>3, <2>1 DEF ReserveAndWriteOff
<1>4. ASSUME NEW m \in Mains, NEW p \in Prices, WriteOff(m, p)
      PROVE  remaining'[c] >= 0
  BY <1>4 DEF WriteOff
<1>5. CASE UNCHANGED budgetVars BY <1>5 DEF budgetVars
<1> QED BY <1>1, <1>2, <1>3, <1>4, <1>5 DEF Next

(* No contract is ever overdrawn.                                          *)
THEOREM NeverOverdrawn == Spec => []NoOverdraft
<1>1. Init => NoOverdraft BY BudgetAssumption DEF Init, NoOverdraft
<1> QED BY <1>1, OverdraftStep, TypeCorrect, PTL DEF Spec

(* Rows are only ever appended, so what holds of the rows of a ledger goes *)
(* on holding of them.                                                     *)
LEMMA AppendKeeps ==
  ASSUME NEW S, NEW s \in Seq(S), NEW r \in S
  PROVE  /\ Len(Append(s, r)) = Len(s) + 1
         /\ Append(s, r)[Len(s) + 1] = r
         /\ \A i \in DOMAIN s : Append(s, r)[i] = s[i]
         /\ DOMAIN Append(s, r) = DOMAIN s \cup {Len(s) + 1}
OBVIOUS

(* The same for the two rows of a finalisation that reserves and writes    *)
(* off.                                                                    *)
LEMMA AppendTwoKeeps ==
  ASSUME NEW S, NEW s \in Seq(S), NEW r \in S, NEW t \in S
  PROVE  /\ Len(s \o <<r, t>>) = Len(s) + 2
         /\ (s \o <<r, t>>)[Len(s) + 1] = r
         /\ (s \o <<r, t>>)[Len(s) + 2] = t
         /\ \A i \in DOMAIN s : (s \o <<r, t>>)[i] = s[i]
         /\ DOMAIN (s \o <<r, t>>) = DOMAIN s \cup {Len(s) + 1, Len(s) + 2}
OBVIOUS

(* The order of the rows: REFUND after WRITE_OFF, RELEASE after RESERVE    *)
(* and not after WRITE_OFF.  The rows already there keep what precedes     *)
(* them; a row that gives back is added only when its cause is there.      *)
LEMMA ReturnsAfterOneRow ==
  ASSUME TypeOK, ReturnsFollow, NEW m \in Mains, NEW r \in Rows,
         ledger' = [ledger EXCEPT ![m] = Append(@, r)],
         r.op = "REFUND" => Has(m, "WRITE_OFF"),
         r.op = "RELEASE" => Has(m, "RESERVE") /\ ~Has(m, "WRITE_OFF")
  PROVE  ReturnsFollow'
<1> DEFINE s == ledger[m]
<1>1. s \in Seq(Rows) BY DEF TypeOK
<1>2. ledger'[m] = Append(s, r) BY DEF TypeOK
<1>3. /\ Len(Append(s, r)) = Len(s) + 1
      /\ Append(s, r)[Len(s) + 1] = r
      /\ \A i \in DOMAIN s : Append(s, r)[i] = s[i]
      /\ DOMAIN Append(s, r) = DOMAIN s \cup {Len(s) + 1}
  BY <1>1, AppendKeeps
<1>4. DOMAIN s = 1..Len(s) /\ Len(s) \in Nat BY <1>1
<1> HIDE DEF s
<1> SUFFICES ASSUME NEW n \in Mains, NEW i \in DOMAIN ledger'[n]
             PROVE  /\ ledger'[n][i].op = "REFUND" =>
                         \E j \in 1..(i - 1) : ledger'[n][j].op = "WRITE_OFF"
                    /\ ledger'[n][i].op = "RELEASE" =>
                         /\ \E j \in 1..(i - 1) : ledger'[n][j].op = "RESERVE"
                         /\ ~\E j \in 1..(i - 1) : ledger'[n][j].op = "WRITE_OFF"
  BY DEF ReturnsFollow
<1>5. CASE n # m
  <2>1. ledger'[n] = ledger[n] BY <1>5 DEF TypeOK
  <2> QED BY <2>1 DEF ReturnsFollow
<1>6. CASE n = m /\ i \in DOMAIN s
  <2>1. \A j \in 1..i : ledger'[m][j] = s[j] BY <1>2, <1>3, <1>4, <1>6
  <2>2. /\ s[i].op = "REFUND" => \E j \in 1..(i - 1) : s[j].op = "WRITE_OFF"
        /\ s[i].op = "RELEASE" => /\ \E j \in 1..(i - 1) : s[j].op = "RESERVE"
                                  /\ ~\E j \in 1..(i - 1) : s[j].op = "WRITE_OFF"
    BY <1>6 DEF ReturnsFollow, s
  <2>3. i \in 1..i /\ \A j \in 1..(i - 1) : j \in 1..i BY <1>4, <1>6
  <2> QED BY <2>1, <2>2, <2>3, <1>6
<1>7. CASE n = m /\ i = Len(s) + 1
  <2>1. 1..(i - 1) = DOMAIN s BY <1>4, <1>7
  <2>2. \A j \in 1..(i - 1) : ledger'[m][j] = s[j] BY <2>1, <1>2, <1>3
  <2>3. ledger'[m][i] = r BY <1>2, <1>3, <1>7
  <2> QED BY <2>1, <2>2, <2>3, <1>7 DEF Has, s
<1> QED BY <1>2, <1>3, <1>5, <1>6, <1>7

(* Two rows that give nothing back leave the order of the rows as it was.  *)
LEMMA ReturnsAfterTwoRows ==
  ASSUME TypeOK, ReturnsFollow, NEW m \in Mains, NEW r \in Rows, NEW t \in Rows,
         ledger' = [ledger EXCEPT ![m] = @ \o <<r, t>>],
         r.op \notin {"REFUND", "RELEASE"}, t.op \notin {"REFUND", "RELEASE"}
  PROVE  ReturnsFollow'
<1> DEFINE s == ledger[m]
<1>1. s \in Seq(Rows) BY DEF TypeOK
<1>2. ledger'[m] = s \o <<r, t>> BY DEF TypeOK
<1>3. /\ (s \o <<r, t>>)[Len(s) + 1] = r
      /\ (s \o <<r, t>>)[Len(s) + 2] = t
      /\ \A i \in DOMAIN s : (s \o <<r, t>>)[i] = s[i]
      /\ DOMAIN (s \o <<r, t>>) = DOMAIN s \cup {Len(s) + 1, Len(s) + 2}
  BY <1>1, AppendTwoKeeps
<1>4. DOMAIN s = 1..Len(s) /\ Len(s) \in Nat BY <1>1
<1> HIDE DEF s
<1> SUFFICES ASSUME NEW n \in Mains, NEW i \in DOMAIN ledger'[n],
                    ledger'[n][i].op \in {"REFUND", "RELEASE"}
             PROVE  /\ ledger'[n][i].op = "REFUND" =>
                         \E j \in 1..(i - 1) : ledger'[n][j].op = "WRITE_OFF"
                    /\ ledger'[n][i].op = "RELEASE" =>
                         /\ \E j \in 1..(i - 1) : ledger'[n][j].op = "RESERVE"
                         /\ ~\E j \in 1..(i - 1) : ledger'[n][j].op = "WRITE_OFF"
  BY DEF ReturnsFollow
<1>5. CASE n # m
  <2>1. ledger'[n] = ledger[n] BY <1>5 DEF TypeOK
  <2> QED BY <2>1 DEF ReturnsFollow
<1>6. CASE n = m
  <2>1. i \in DOMAIN s BY <1>2, <1>3, <1>6
  <2>2. \A j \in 1..i : ledger'[m][j] = s[j] BY <1>2, <1>3, <1>4, <2>1
  <2>3. /\ s[i].op = "REFUND" => \E j \in 1..(i - 1) : s[j].op = "WRITE_OFF"
        /\ s[i].op = "RELEASE" => /\ \E j \in 1..(i - 1) : s[j].op = "RESERVE"
                                  /\ ~\E j \in 1..(i - 1) : s[j].op = "WRITE_OFF"
    BY <2>1 DEF ReturnsFollow, s
  <2>4. i \in 1..i /\ \A j \in 1..(i - 1) : j \in 1..i BY <1>4, <2>1
  <2> QED BY <2>2, <2>3, <2>4, <1>6
<1> QED BY <1>5, <1>6

(* Every budget operation of requests.go keeps the order of the rows.      *)
LEMMA ReturnsStep == TypeOK /\ ReturnsFollow /\ [Next]_budgetVars => ReturnsFollow'
<1> SUFFICES ASSUME TypeOK, ReturnsFollow, [Next]_budgetVars PROVE ReturnsFollow'
  OBVIOUS
<1>1. CASE UNCHANGED budgetVars BY <1>1 DEF budgetVars, ReturnsFollow
<1>2. ASSUME NEW m \in Mains, NEW p \in Prices, Reserve(m, p) PROVE ReturnsFollow'
  <2>1. Row("RESERVE", p) \in Rows /\ Row("RESERVE", p).op = "RESERVE"
    BY RowType DEF Operations, Row
  <2> QED BY <1>2, <2>1, ReturnsAfterOneRow DEF Reserve
<1>3. ASSUME NEW m \in Mains, NEW p \in Prices, WriteOff(m, p) PROVE ReturnsFollow'
  <2>1. Row("WRITE_OFF", p) \in Rows /\ Row("WRITE_OFF", p).op = "WRITE_OFF"
    BY RowType DEF Operations, Row
  <2> QED BY <1>3, <2>1, ReturnsAfterOneRow DEF WriteOff
<1>4. ASSUME NEW m \in Mains, NEW p \in Prices, GiveBack(m, p) PROVE ReturnsFollow'
  <2> DEFINE op == IF Has(m, "WRITE_OFF") THEN "REFUND" ELSE "RELEASE"
  <2>1. Row(op, p) \in Rows /\ Row(op, p).op = op
    BY RowType DEF Operations, Row
  <2>2. /\ op = "REFUND" => Has(m, "WRITE_OFF")
        /\ op = "RELEASE" => Has(m, "RESERVE") /\ ~Has(m, "WRITE_OFF")
    BY <1>4 DEF GiveBack
  <2>3. ledger' = [ledger EXCEPT ![m] = Append(@, Row(op, p))]
    BY <1>4 DEF GiveBack
  <2> HIDE DEF op
  <2> QED BY <2>1, <2>2, <2>3, ReturnsAfterOneRow
<1>5. ASSUME NEW m \in Mains, NEW p \in Prices, NEW q \in Prices,
             ReserveAndWriteOff(m, p, q)
      PROVE  ReturnsFollow'
  <2>1. /\ Row("RESERVE", p) \in Rows /\ Row("RESERVE", p).op = "RESERVE"
        /\ Row("WRITE_OFF", q) \in Rows /\ Row("WRITE_OFF", q).op = "WRITE_OFF"
    BY RowType DEF Operations, Row
  <2> QED BY <1>5, <2>1, ReturnsAfterTwoRows DEF ReserveAndWriteOff
<1> QED BY <1>1, <1>2, <1>3, <1>4, <1>5 DEF Next

(* Money is given back only for what was taken or spent before.            *)
THEOREM ReturnsAreEarned == Spec => []ReturnsFollow
<1>1. Init => ReturnsFollow BY DEF Init, ReturnsFollow
<1> QED BY <1>1, ReturnsStep, TypeCorrect, PTL DEF Spec

(* What a row made for a price does to a balance.                          *)
LEMMA RowEffect ==
  ASSUME NEW p \in Prices, NEW c
  PROVE  /\ p.amount \in Nat
         /\ Effect(Row("RESERVE", p), c) = IF p.contract = c THEN p.amount ELSE 0
         /\ Effect(Row("WRITE_OFF", p), c) = 0
         /\ \A op \in {"RELEASE", "REFUND"} :
              Effect(Row(op, p), c) = IF p.contract = c THEN 0 - p.amount ELSE 0
<1>1. p.amount \in Nat BY BudgetAssumption DEF Prices
<1>2. \A op : /\ Row(op, p).op = op
              /\ Row(op, p).contract = p.contract
              /\ Row(op, p).amount = p.amount
  BY DEF Row
<1> HIDE DEF Row
<1> QED BY <1>1, <1>2 DEF Effect

(* Amounts in ledger rows are integers.                                    *)
LEMMA RowAmount == \A r \in Rows : r.amount \in Int
<1> TAKE r \in Rows
<1>1. r.amount \in Amounts BY DEF Rows
<1>2. r.amount \in Nat BY <1>1, BudgetAssumption
<1> QED BY <1>2

(* A step that appends one row and moves the balances by its effect is     *)
(* balanced.                                                               *)
LEMMA BalancedAfterOneRow ==
  ASSUME TypeOK, NEW m \in Mains, NEW r \in Rows,
         ledger' = [ledger EXCEPT ![m] = Append(@, r)],
         \A c \in Contracts : remaining[c] - remaining'[c] = Effect(r, c)
  PROVE  StepBalanced
<1>1. ledger[m] \in Seq(Rows) BY DEF TypeOK
<1>2. ledger'[m] = Append(ledger[m], r) BY DEF TypeOK
<1>3. /\ Len(ledger'[m]) = Len(ledger[m]) + 1
      /\ ledger'[m][Len(ledger[m]) + 1] = r
      /\ \A i \in DOMAIN ledger[m] : ledger'[m][i] = ledger[m][i]
  BY <1>1, <1>2, AppendKeeps
<1>4. Added(m, 1) = r BY <1>3 DEF Added
<1>5. \A n \in Mains \ {m} : ledger'[n] = ledger[n] BY DEF TypeOK
<1>6. \A c \in Contracts : Effect(r, c) \in Int
  <2>1. r.amount \in Int BY RowAmount
  <2> QED BY <2>1 DEF Effect
<1>7. \A c \in Contracts : remaining[c] - remaining'[c] = Effect(Added(m, 1), c) + 0
  BY <1>4, <1>6
<1> QED BY <1>3, <1>5, <1>7 DEF StepBalanced

(* A step that appends two rows and moves the balances by both is          *)
(* balanced.                                                               *)
LEMMA BalancedAfterTwoRows ==
  ASSUME TypeOK, NEW m \in Mains, NEW r \in Rows, NEW t \in Rows,
         ledger' = [ledger EXCEPT ![m] = @ \o <<r, t>>],
         \A c \in Contracts :
           remaining[c] - remaining'[c] = Effect(r, c) + Effect(t, c)
  PROVE  StepBalanced
<1>1. ledger[m] \in Seq(Rows) BY DEF TypeOK
<1>2. ledger'[m] = ledger[m] \o <<r, t>> BY DEF TypeOK
<1>3. /\ Len(ledger'[m]) = Len(ledger[m]) + 2
      /\ ledger'[m][Len(ledger[m]) + 1] = r
      /\ ledger'[m][Len(ledger[m]) + 2] = t
      /\ \A i \in DOMAIN ledger[m] : ledger'[m][i] = ledger[m][i]
  BY <1>1, <1>2, AppendTwoKeeps
<1>4. Added(m, 1) = r /\ Added(m, 2) = t BY <1>3 DEF Added
<1>5. \A n \in Mains \ {m} : ledger'[n] = ledger[n] BY DEF TypeOK
<1>6. \A c \in Contracts :
        remaining[c] - remaining'[c] = Effect(Added(m, 1), c) + Effect(Added(m, 2), c)
  BY <1>4
<1> QED BY <1>3, <1>5, <1>6 DEF StepBalanced

(* The UPDATE of a contract and the INSERT of the ledger row are one       *)
(* transaction: every step moves every balance by exactly what the rows it *)
(* appends say.                                                            *)
THEOREM StepsAreBalanced == Spec => [][StepBalanced]_budgetVars
<1>1. TypeOK /\ [Next]_budgetVars => [StepBalanced]_budgetVars
  <2> SUFFICES ASSUME TypeOK, Next PROVE StepBalanced
    OBVIOUS
  <2> USE BudgetAssumption
  <2>1. ASSUME NEW m \in Mains, NEW p \in Prices, Reserve(m, p) PROVE StepBalanced
    <3>1. Row("RESERVE", p) \in Rows BY RowType DEF Operations
    <3>2. \A c \in Contracts :
            remaining[c] - remaining'[c] = Effect(Row("RESERVE", p), c)
      BY <2>1, RowEffect DEF Reserve, TypeOK
    <3> QED BY <2>1, <3>1, <3>2, BalancedAfterOneRow DEF Reserve
  <2>2. ASSUME NEW m \in Mains, NEW p \in Prices, WriteOff(m, p) PROVE StepBalanced
    <3>1. Row("WRITE_OFF", p) \in Rows BY RowType DEF Operations
    <3>2. \A c \in Contracts :
            remaining[c] - remaining'[c] = Effect(Row("WRITE_OFF", p), c)
      BY <2>2, RowEffect DEF WriteOff, TypeOK
    <3> QED BY <2>2, <3>1, <3>2, BalancedAfterOneRow DEF WriteOff
  <2>3. ASSUME NEW m \in Mains, NEW p \in Prices, GiveBack(m, p) PROVE StepBalanced
    <3> DEFINE op == IF Has(m, "WRITE_OFF") THEN "REFUND" ELSE "RELEASE"
    <3>1. Row(op, p) \in Rows BY RowType DEF Operations
    <3>2. \A c \in Contracts : remaining[c] - remaining'[c] = Effect(Row(op, p), c)
      BY <2>3, RowEffect DEF GiveBack, TypeOK
    <3>3. ledger' = [ledger EXCEPT ![m] = Append(@, Row(op, p))]
      BY <2>3 DEF GiveBack
    <3> HIDE DEF op
    <3> QED BY <3>1, <3>2, <3>3, BalancedAfterOneRow
  <2>4. ASSUME NEW m \in Mains, NEW p \in Prices, NEW q \in Prices,
               ReserveAndWriteOff(m, p, q)
        PROVE  StepBalanced
    <3>1. /\ Row("RESERVE", p) \in Rows
          /\ Row("WRITE_OFF", q) \in Rows
      BY RowType DEF Operations
    <3>2. \A c \in Contracts :
            remaining[c] - remaining'[c] =
              Effect(Row("RESERVE", p), c) + Effect(Row("WRITE_OFF", q), c)
      BY <2>4, RowEffect DEF ReserveAndWriteOff, TypeOK
    <3> QED BY <2>4, <3>1, <3>2, BalancedAfterTwoRows DEF ReserveAndWriteOff
  <2> QED BY <2>1, <2>2, <2>3, <2>4 DEF Next
<1> QED BY <1>1, TypeCorrect, PTL DEF Spec
-----------------------------------------------------------------------------
(* Sums over finite sets.  MapThenSumSet is defined by recursion over the  *)
(* subsets of the set; what a sum is is proved with the induction below.   *)

(* Induction over the naturals, about a set: the library's theorem speaks  *)
(* of an operator, this one is first-order.  Every set of naturals has a   *)
(* least element.                                                          *)
LEMMA NatSetInduction ==
  ASSUME NEW T, 0 \in T, \A n \in Nat : n \in T => n + 1 \in T
  PROVE  Nat \subseteq T
<1> SUFFICES ASSUME Nat \ T # {} PROVE FALSE OBVIOUS
<1> DEFINE R == OpToRel(<, Nat)
<1>1. IsWellFoundedOn(R, Nat) BY NatLessThanWellFounded
<1>2. \A x, y \in Nat : x < y => <<x, y>> \in R BY DEF OpToRel
<1> HIDE DEF R
<1>3. PICK x \in Nat \ T : \A y \in Nat \ T : ~(<<y, x>> \in R)
  <2>1. Nat \ T \subseteq Nat OBVIOUS
  <2> QED BY <1>1, <2>1, WFMin
<1>4. x # 0 OBVIOUS
<1>5. x - 1 \in Nat /\ x - 1 < x BY <1>4
<1>6. x - 1 \in T BY <1>2, <1>3, <1>5
<1>7. (x - 1) + 1 \in T BY <1>5, <1>6
<1> QED BY <1>7

(* The element a sum takes next, and the recursive equation of a sum over  *)
(* the subsets of S.                                                       *)
Chosen(s) == CHOOSE x \in s : TRUE

IsSum(h, S, g) ==
  h = [s \in SUBSET S |-> IF s = {} THEN 0 ELSE g[Chosen(s)] + h[s \ {Chosen(s)}]]

LEMMA ChosenIn == ASSUME NEW s, s # {} PROVE Chosen(s) \in s
BY DEF Chosen

(* The recursion of a sum has a solution: by rank, up to the cardinality   *)
(* of S.                                                                   *)
LEMMA SumExists ==
  ASSUME NEW S, IsFiniteSet(S), NEW g
  PROVE  \E h : IsSum(h, S, g)
<1> DEFINE Good(h, s) == h[s] = IF s = {} THEN 0 ELSE g[Chosen(s)] + h[s \ {Chosen(s)}]
           Upto(n) == \E h : /\ h = [s \in SUBSET S |-> h[s]]
                             /\ \A s \in SUBSET S : Cardinality(s) <= n => Good(h, s)
           T == {n \in Nat : Upto(n)}
<1>1. \A s \in SUBSET S : IsFiniteSet(s) /\ Cardinality(s) \in Nat
  BY FS_Subset, FS_CardinalityType
<1>2. \A s \in SUBSET S : s # {} => Cardinality(s \ {Chosen(s)}) = Cardinality(s) - 1
  BY <1>1, ChosenIn, FS_RemoveElement
<1>3. 0 \in T
  <2> DEFINE h == [s \in SUBSET S |-> 0]
  <2>1. \A s \in SUBSET S : Cardinality(s) <= 0 => s = {} BY <1>1, FS_EmptySet
  <2>2. h = [s \in SUBSET S |-> h[s]] OBVIOUS
  <2>3. \A s \in SUBSET S : Cardinality(s) <= 0 => Good(h, s) BY <2>1
  <2>4. Upto(0) BY <2>2, <2>3
  <2> HIDE DEF Upto
  <2> QED BY <2>4
<1>4. ASSUME NEW n \in Nat, n \in T PROVE n + 1 \in T
  <2>1. PICK h : \A s \in SUBSET S : Cardinality(s) <= n => Good(h, s)
    BY <1>4
  <2> DEFINE up == [s \in SUBSET S |-> IF s = {} THEN 0 ELSE g[Chosen(s)] + h[s \ {Chosen(s)}]]
  <2>2. \A s \in SUBSET S : Cardinality(s) <= n => up[s] = h[s] BY <2>1
  <2>3. ASSUME NEW s \in SUBSET S, Cardinality(s) <= n + 1 PROVE Good(up, s)
    <3>1. CASE s = {} BY <3>1
    <3>2. CASE s # {}
      <4>1. Cardinality(s \ {Chosen(s)}) <= n BY <1>1, <1>2, <2>3, <3>2
      <4>2. up[s \ {Chosen(s)}] = h[s \ {Chosen(s)}] BY <2>2, <4>1
      <4> QED BY <3>2, <4>2
    <3> QED BY <3>1, <3>2
  <2>4. up = [s \in SUBSET S |-> up[s]] OBVIOUS
  <2> HIDE DEF up
  <2>5. Upto(n + 1) BY <2>3, <2>4
  <2> HIDE DEF Upto
  <2> QED BY <2>5
<1> HIDE DEF T
<1>5. Cardinality(S) \in T BY <1>1, <1>3, <1>4, NatSetInduction
<1>6. PICK h : /\ h = [s \in SUBSET S |-> h[s]]
               /\ \A s \in SUBSET S : Cardinality(s) <= Cardinality(S) => Good(h, s)
  BY <1>5 DEF T
<1>7. \A s \in SUBSET S : Cardinality(s) <= Cardinality(S) BY FS_Subset
<1> QED BY <1>6, <1>7 DEF IsSum

(* The sum of a function over a set.                                       *)
Total(g, S) == MapThenSumSet(LAMBDA x : g[x], S)

(* The library's sum is a solution of the equation, if there is one.       *)
LEMMA TotalDef ==
  ASSUME NEW g, NEW S
  PROVE  Total(g, S) = (CHOOSE h : IsSum(h, S, g))[S]
BY DEF Total, MapThenSumSet, MapThenFoldSet, IsSum, Chosen

(* Induction over the subsets of a finite set: strict inclusion is well-   *)
(* founded on them.                                                        *)
LEMMA SubsetInduction ==
  ASSUME NEW S, IsFiniteSet(S), NEW T,
         \A s \in SUBSET S : (\A r \in SUBSET s : r # s => r \in T) => s \in T
  PROVE  \A s \in SUBSET S : s \in T
<1> DEFINE Left == (SUBSET S) \ T
           R == StrictSubsetOrdering(S)
<1> SUFFICES ASSUME Left # {} PROVE FALSE OBVIOUS
<1>1. IsWellFoundedOn(R, SUBSET S)
  <2>1. FiniteSubsetsOf(S) = SUBSET S BY FS_FiniteSubsetsOfFinite
  <2>2. IsWellFoundedOn(StrictSubsetOrdering(S), FiniteSubsetsOf(S))
    BY FS_StrictSubsetOrderingWellFounded
  <2> QED BY <2>1, <2>2
<1>2. PICK s \in Left : \A r \in Left : ~(<<r, s>> \in R)
  <2>1. Left \subseteq SUBSET S OBVIOUS
  <2> HIDE DEF R, Left
  <2> QED BY <1>1, <2>1, WFMin
<1>3. ASSUME NEW r \in SUBSET s, r # s PROVE r \in T
  <2>1. <<r, s>> \in R BY <1>3 DEF StrictSubsetOrdering
  <2> QED BY <1>2, <1>3, <2>1
<1> QED BY <1>2, <1>3

(* Solutions agree on the sets they have in common.                        *)
LEMMA SumUnique ==
  ASSUME NEW S, IsFiniteSet(S), NEW R \in SUBSET S, NEW g, NEW k, \A x \in R : g[x] = k[x],
         NEW h, IsSum(h, S, g), NEW i, IsSum(i, R, k)
  PROVE  h[R] = i[R]
<1> DEFINE T == {s \in SUBSET R : h[s] = i[s]}
<1>1. IsFiniteSet(R) BY FS_Subset
<1>2. ASSUME NEW s \in SUBSET R, \A r \in SUBSET s : r # s => r \in T PROVE s \in T
  <2>1. CASE s = {} BY <2>1 DEF IsSum
  <2>2. CASE s # {}
    <3>1. Chosen(s) \in s BY <2>2, ChosenIn
    <3>2. h[s \ {Chosen(s)}] = i[s \ {Chosen(s)}] BY <1>2, <3>1
    <3> QED BY <2>2, <3>1, <3>2 DEF IsSum
  <2> QED BY <2>1, <2>2
<1>3. R \in T
  <2> HIDE DEF T
  <2> QED BY <1>1, <1>2, SubsetInduction
<1> QED BY <1>3

(* One solution gives the sums over all subsets.                           *)
LEMMA TotalIs ==
  ASSUME NEW S, IsFiniteSet(S), NEW g
  PROVE  \E h : IsSum(h, S, g) /\ \A R \in SUBSET S : Total(g, R) = h[R]
<1>1. PICK h : IsSum(h, S, g) BY SumExists
<1>2. ASSUME NEW R \in SUBSET S PROVE Total(g, R) = h[R]
  <2>1. IsFiniteSet(R) BY FS_Subset
  <2>2. \E i : IsSum(i, R, g) BY <2>1, SumExists
  <2>3. IsSum(CHOOSE i : IsSum(i, R, g), R, g) BY <2>2
  <2>4. h[R] = (CHOOSE i : IsSum(i, R, g))[R] BY <1>1, <2>3, SumUnique
  <2> QED BY <2>4, TotalDef
<1> QED BY <1>1, <1>2

(* The equation of a sum, empty and not empty.                             *)
LEMMA TotalSteps ==
  ASSUME NEW S, IsFiniteSet(S), NEW g
  PROVE  /\ Total(g, {}) = 0
         /\ S # {} => Chosen(S) \in S /\ Total(g, S) = g[Chosen(S)] + Total(g, S \ {Chosen(S)})
<1>1. PICK h : IsSum(h, S, g) /\ \A R \in SUBSET S : Total(g, R) = h[R] BY TotalIs
<1>2. S # {} => Chosen(S) \in S BY ChosenIn
<1> QED BY <1>1, <1>2 DEF IsSum

(* A sum depends on the values on its set only.                             *)
LEMMA TotalSame ==
  ASSUME NEW S, IsFiniteSet(S), NEW g, NEW k, \A x \in S : g[x] = k[x]
  PROVE  Total(g, S) = Total(k, S)
<1>1. PICK h : IsSum(h, S, g) /\ \A R \in SUBSET S : Total(g, R) = h[R] BY TotalIs
<1>2. PICK i : IsSum(i, S, k) /\ \A R \in SUBSET S : Total(k, R) = i[R] BY TotalIs
<1>3. S \in SUBSET S OBVIOUS
<1>4. h[S] = i[S] BY <1>1, <1>2, <1>3, SumUnique
<1> QED BY <1>1, <1>2, <1>3, <1>4

(* Sums of integers are integers.                                          *)
LEMMA TotalInt ==
  ASSUME NEW S, IsFiniteSet(S), NEW g, \A x \in S : g[x] \in Int
  PROVE  Total(g, S) \in Int
<1> DEFINE T == {s \in SUBSET S : Total(g, s) \in Int}
<1>1. ASSUME NEW s \in SUBSET S, \A r \in SUBSET s : r # s => r \in T PROVE s \in T
  <2>1. IsFiniteSet(s) BY FS_Subset
  <2>2. CASE s = {} BY <2>1, <2>2, TotalSteps
  <2>3. CASE s # {}
    <3>1. Chosen(s) \in s /\ Total(g, s) = g[Chosen(s)] + Total(g, s \ {Chosen(s)})
      BY <2>1, <2>3, TotalSteps
    <3>2. Total(g, s \ {Chosen(s)}) \in Int BY <1>1, <3>1
    <3> QED BY <3>1, <3>2
  <2> QED BY <2>2, <2>3
<1>2. S \in T
  <2> HIDE DEF T
  <2> QED BY <1>1, SubsetInduction
<1> QED BY <1>2

(* Any element may be taken out first.                                     *)
LEMMA TotalTakeOut ==
  ASSUME NEW S, IsFiniteSet(S), NEW g, \A x \in S : g[x] \in Int, NEW x \in S
  PROVE  Total(g, S) = g[x] + Total(g, S \ {x})
<1> DEFINE T == {s \in SUBSET S : \A y \in s : Total(g, s) = g[y] + Total(g, s \ {y})}
<1>1. \A s \in SUBSET S : IsFiniteSet(s) /\ Total(g, s) \in Int
  <2> TAKE s \in SUBSET S
  <2>1. IsFiniteSet(s) BY FS_Subset
  <2> QED BY <2>1, TotalInt
<1>2. ASSUME NEW s \in SUBSET S, \A r \in SUBSET s : r # s => r \in T PROVE s \in T
  <2> SUFFICES ASSUME NEW y \in s PROVE Total(g, s) = g[y] + Total(g, s \ {y})
    OBVIOUS
  <2>1. PICK c \in s : c = Chosen(s) /\ Total(g, s) = g[c] + Total(g, s \ {c})
    BY <1>1, TotalSteps
  <2>2. CASE y = c BY <2>1, <2>2
  <2>3. CASE y # c
    <3>1. Total(g, s \ {c}) = g[y] + Total(g, (s \ {c}) \ {y})
      <4>1. s \ {c} \in SUBSET s /\ s \ {c} # s /\ y \in s \ {c} BY <2>3
      <4> QED BY <1>2, <4>1
    <3>2. Total(g, s \ {y}) = g[c] + Total(g, (s \ {y}) \ {c})
      <4>1. s \ {y} \in SUBSET s /\ s \ {y} # s /\ c \in s \ {y} BY <2>3
      <4> QED BY <1>2, <4>1
    <3>3. (s \ {c}) \ {y} = (s \ {y}) \ {c} OBVIOUS
    <3>4. (s \ {c}) \ {y} \in SUBSET S OBVIOUS
    <3>5. g[y] \in Int /\ g[c] \in Int /\ Total(g, (s \ {c}) \ {y}) \in Int BY <1>1, <3>4
    <3>6. PICK t \in Int : t = Total(g, (s \ {c}) \ {y}) BY <3>5
    <3>7. Total(g, s \ {c}) = g[y] + t /\ Total(g, s \ {y}) = g[c] + t
      BY <3>1, <3>2, <3>3, <3>6
    <3>8. Total(g, s) = g[c] + (g[y] + t) BY <2>1, <3>7
    <3>9. \A a, b \in Int : a + (b + t) = b + (a + t) OBVIOUS
    <3> QED BY <3>5, <3>7, <3>8, <3>9, Zenon
  <2> QED BY <2>2, <2>3
<1>3. S \in T
  <2> HIDE DEF T
  <2> QED BY <1>2, SubsetInduction
<1> QED BY <1>3

(* When one value changes the sum moves by as much.                        *)
LEMMA TotalMoves ==
  ASSUME NEW S, IsFiniteSet(S), NEW g, NEW k, \A y \in S : g[y] \in Int /\ k[y] \in Int,
         NEW x \in S, \A y \in S \ {x} : k[y] = g[y]
  PROVE  Total(k, S) = Total(g, S) + k[x] - g[x]
<1>1. IsFiniteSet(S \ {x}) BY FS_Subset
<1>2. Total(k, S \ {x}) = Total(g, S \ {x}) BY <1>1, TotalSame
<1>3. Total(k, S) = k[x] + Total(k, S \ {x}) BY TotalTakeOut
<1>4. Total(g, S) = g[x] + Total(g, S \ {x}) BY TotalTakeOut
<1>5. Total(g, S \ {x}) \in Int BY <1>1, TotalInt
<1> QED BY <1>2, <1>3, <1>4, <1>5

(* The sum of zeros.                                                       *)
LEMMA TotalZero ==
  ASSUME NEW S, IsFiniteSet(S), NEW g, \A x \in S : g[x] = 0
  PROVE  Total(g, S) = 0
<1> DEFINE T == {s \in SUBSET S : Total(g, s) = 0}
<1>1. ASSUME NEW s \in SUBSET S, \A r \in SUBSET s : r # s => r \in T PROVE s \in T
  <2>1. IsFiniteSet(s) BY FS_Subset
  <2>2. CASE s = {} BY <2>1, <2>2, TotalSteps
  <2>3. CASE s # {}
    <3>1. Chosen(s) \in s /\ Total(g, s) = g[Chosen(s)] + Total(g, s \ {Chosen(s)})
      BY <2>1, <2>3, TotalSteps
    <3>2. Total(g, s \ {Chosen(s)}) = 0 BY <1>1, <3>1
    <3> QED BY <3>1, <3>2
  <2> QED BY <2>2, <2>3
<1>2. S \in T
  <2> HIDE DEF T
  <2> QED BY <1>1, SubsetInduction
<1> QED BY <1>2

-----------------------------------------------------------------------------

(* What a list of rows says it holds of contract c, and all the requests.  *)
HeldIn(s, c) == Total([i \in DOMAIN s |-> Effect(s[i], c)], DOMAIN s)
HeldBy(rows, c) == Total([m \in Mains |-> HeldIn(rows[m], c)], Mains)

(* The operators of ContractBudget, in one state and in the next, are      *)
(* these sums.                                                             *)
LEMMA BalanceIs ==
  ASSUME NEW c
  PROVE  /\ MapThenSumSet(LAMBDA m : Held(m, c), Mains) = HeldBy(ledger, c)
         /\ MapThenSumSet(LAMBDA m : Held(m, c)', Mains) = HeldBy(ledger', c)
<1>1. \A m \in Mains : Held(m, c) = HeldIn(ledger[m], c)
  BY DEF Held, HeldIn, Total, MapThenSumSet, MapThenFoldSet
<1>2. \A m \in Mains : Held(m, c)' = HeldIn(ledger'[m], c)
  BY DEF Held, HeldIn, Total, MapThenSumSet, MapThenFoldSet
<1>3. MapThenSumSet(LAMBDA m : Held(m, c), Mains) = Total([m \in Mains |-> Held(m, c)], Mains)
  BY DEF Total, MapThenSumSet, MapThenFoldSet
<1>4. MapThenSumSet(LAMBDA m : Held(m, c)', Mains) = Total([m \in Mains |-> Held(m, c)'], Mains)
  BY DEF Total, MapThenSumSet, MapThenFoldSet
<1> QED BY <1>1, <1>2, <1>3, <1>4 DEF HeldBy

(* What a row does to a balance, and what rows hold, are integers.         *)
LEMMA EffectInt == \A r \in Rows : \A c : Effect(r, c) \in Int
BY RowAmount DEF Effect

LEMMA HeldInt ==
  ASSUME NEW s \in Seq(Rows), NEW c
  PROVE  HeldIn(s, c) \in Int /\ IsFiniteSet(DOMAIN s)
<1>1. DOMAIN s = 1..Len(s) /\ Len(s) \in Nat /\ \A i \in DOMAIN s : s[i] \in Rows OBVIOUS
<1>2. IsFiniteSet(1..Len(s)) BY <1>1, FS_Interval
<1> DEFINE g == [i \in DOMAIN s |-> Effect(s[i], c)]
<1>3. \A i \in DOMAIN s : g[i] \in Int BY <1>1, EffectInt
<1> HIDE DEF g
<1>4. Total(g, DOMAIN s) \in Int BY <1>1, <1>2, <1>3, TotalInt
<1> QED BY <1>1, <1>2, <1>4 DEF HeldIn, g

(* What a ledger holds moves by the effect of the row that is added, or    *)
(* of both.                                                                *)
LEMMA OneRowMore ==
  ASSUME NEW s \in Seq(Rows), NEW u \in Seq(Rows), NEW c,
         Len(u) = Len(s) + 1, \A i \in DOMAIN s : u[i] = s[i]
  PROVE  HeldIn(u, c) = HeldIn(s, c) + Effect(u[Len(u)], c)
<1> DEFINE g == [i \in DOMAIN s |-> Effect(s[i], c)]
           k == [i \in DOMAIN u |-> Effect(u[i], c)]
           n == Len(u)
<1>1. /\ n \in DOMAIN u /\ DOMAIN s = DOMAIN u \ {n}
      /\ \A i \in DOMAIN u : u[i] \in Rows
  <2>1. Len(s) \in Nat /\ DOMAIN s = 1..Len(s) /\ DOMAIN u = 1..Len(u) OBVIOUS
  <2> QED BY <2>1
<1>2. \A i \in DOMAIN u : k[i] \in Int BY <1>1, EffectInt
<1>3. \A i \in DOMAIN s : k[i] = g[i] BY <1>1
<1>4. k[n] = Effect(u[n], c) BY <1>1
<1>5. HeldIn(s, c) = Total(g, DOMAIN s) /\ HeldIn(u, c) = Total(k, DOMAIN u) BY DEF HeldIn
<1> HIDE DEF g, k, n
<1>6. Total(k, DOMAIN u) = k[n] + Total(k, DOMAIN u \ {n}) BY <1>1, <1>2, HeldInt, TotalTakeOut
<1>7. Total(k, DOMAIN s) = Total(g, DOMAIN s) BY <1>3, HeldInt, TotalSame
<1>8. HeldIn(s, c) \in Int /\ k[n] \in Int BY <1>1, <1>2, HeldInt
<1>9. HeldIn(u, c) = k[n] + HeldIn(s, c) BY <1>1, <1>5, <1>6, <1>7
<1> QED BY <1>4, <1>8, <1>9 DEF n

LEMMA TwoRowsMore ==
  ASSUME NEW s \in Seq(Rows), NEW u \in Seq(Rows), NEW c,
         Len(u) = Len(s) + 2, \A i \in DOMAIN s : u[i] = s[i]
  PROVE  HeldIn(u, c) = HeldIn(s, c) + (Effect(u[Len(s) + 1], c) + Effect(u[Len(s) + 2], c))
<1>0. PICK n \in Nat : n = Len(s) OBVIOUS
<1> DEFINE v == SubSeq(u, 1, n + 1)
<1>1. /\ v \in Seq(Rows) /\ Len(v) = n + 1 /\ \A i \in 1..(n + 1) : v[i] = u[i]
  BY <1>0
<1>2. DOMAIN s = 1..n /\ DOMAIN v = 1..(n + 1) BY <1>0, <1>1
<1>3. \A i \in DOMAIN s : v[i] = s[i] BY <1>1, <1>2
<1>4. \A i \in DOMAIN v : u[i] = v[i] BY <1>1, <1>2
<1> HIDE DEF v
<1>5. HeldIn(v, c) = HeldIn(s, c) + Effect(v[Len(v)], c) BY <1>0, <1>1, <1>3, OneRowMore
<1>6. HeldIn(u, c) = HeldIn(v, c) + Effect(u[Len(u)], c) BY <1>0, <1>1, <1>4, OneRowMore
<1>7. v[n + 1] = u[n + 1] BY <1>1
<1>8. u[n + 1] \in Rows /\ u[n + 2] \in Rows BY <1>0
<1>9. Effect(u[n + 1], c) \in Int /\ Effect(u[n + 2], c) \in Int /\ HeldIn(s, c) \in Int
  BY <1>8, EffectInt, HeldInt
<1>10. HeldIn(v, c) = HeldIn(s, c) + Effect(u[n + 1], c) BY <1>1, <1>5, <1>7
<1>11. HeldIn(u, c) = (HeldIn(s, c) + Effect(u[n + 1], c)) + Effect(u[n + 2], c)
  BY <1>0, <1>6, <1>10
<1> QED BY <1>0, <1>9, <1>11

(* LedgerBalanced, in one state and in the next, in terms of these sums.   *)
LEMMA BalancedMeans ==
  /\ LedgerBalanced <=> \A c \in Contracts : remaining[c] = Opening[c] - HeldBy(ledger, c)
  /\ LedgerBalanced' <=> \A c \in Contracts : remaining'[c] = Opening[c] - HeldBy(ledger', c)
<1>1. ASSUME NEW c PROVE MapThenSumSet(LAMBDA m : Held(m, c), Mains) = HeldBy(ledger, c)
  BY BalanceIs
<1>2. ASSUME NEW c PROVE MapThenSumSet(LAMBDA m : Held(m, c)', Mains) = HeldBy(ledger', c)
  BY BalanceIs
<1> QED BY <1>1, <1>2 DEF LedgerBalanced

(* A balanced step: the sum over the requests moves by what the rows of    *)
(* one of them say, which is what the balance moved by.                    *)
LEMMA BalancedStep ==
  ASSUME IsFiniteSet(Mains), TypeOK, TypeOK', LedgerBalanced, StepBalanced
  PROVE  LedgerBalanced'
<1> SUFFICES ASSUME NEW c \in Contracts
             PROVE  remaining'[c] = Opening[c] - HeldBy(ledger', c)
  BY BalancedMeans
<1> DEFINE g == [m \in Mains |-> HeldIn(ledger[m], c)]
           k == [m \in Mains |-> HeldIn(ledger'[m], c)]
<1>1. \A m \in Mains : ledger[m] \in Seq(Rows) /\ ledger'[m] \in Seq(Rows) BY DEF TypeOK
<1>2. \A m \in Mains : g[m] \in Int /\ k[m] \in Int BY <1>1, HeldInt
<1>3. PICK m \in Mains :
        \E n \in {1, 2} :
          /\ \A j \in Mains \ {m} : ledger'[j] = ledger[j]
          /\ Len(ledger'[m]) = Len(ledger[m]) + n
          /\ \A i \in DOMAIN ledger[m] : ledger'[m][i] = ledger[m][i]
          /\ remaining[c] - remaining'[c] =
               Effect(Added(m, 1), c) + (IF n = 2 THEN Effect(Added(m, 2), c) ELSE 0)
  BY DEF StepBalanced
<1>4. PICK n \in {1, 2} :
        /\ \A j \in Mains \ {m} : ledger'[j] = ledger[j]
        /\ Len(ledger'[m]) = Len(ledger[m]) + n
        /\ \A i \in DOMAIN ledger[m] : ledger'[m][i] = ledger[m][i]
        /\ remaining[c] - remaining'[c] =
             Effect(Added(m, 1), c) + (IF n = 2 THEN Effect(Added(m, 2), c) ELSE 0)
  BY <1>3
<1>5. \A j \in Mains \ {m} : k[j] = g[j] BY <1>4
<1>6. remaining[c] \in Int /\ remaining'[c] \in Int /\ Opening[c] \in Int
  BY BudgetAssumption DEF TypeOK
<1>7. k[m] = g[m] + (remaining[c] - remaining'[c])
  <2>1. g[m] = HeldIn(ledger[m], c) /\ k[m] = HeldIn(ledger'[m], c) OBVIOUS
  <2> HIDE DEF g, k
  <2>2. CASE n = 1
    <3>1. HeldIn(ledger'[m], c) = HeldIn(ledger[m], c) + Effect(ledger'[m][Len(ledger'[m])], c)
      BY <1>1, <1>4, <2>2, OneRowMore
    <3>2. Added(m, 1) = ledger'[m][Len(ledger'[m])] BY <1>4, <2>2 DEF Added
    <3>3. remaining[c] - remaining'[c] = Effect(Added(m, 1), c) + 0 BY <1>4, <2>2
    <3>4. Effect(Added(m, 1), c) \in Int
      <4>1. Len(ledger'[m]) \in DOMAIN ledger'[m] BY <1>1, <1>4, <2>2
      <4>2. ledger'[m][Len(ledger'[m])] \in Rows BY <1>1, <4>1
      <4> QED BY <3>2, <4>2, EffectInt
    <3> QED BY <2>1, <3>1, <3>2, <3>3, <3>4
  <2>3. CASE n = 2
    <3>1. HeldIn(ledger'[m], c) =
            HeldIn(ledger[m], c) + (Effect(Added(m, 1), c) + Effect(Added(m, 2), c))
      BY <1>1, <1>4, <2>3, TwoRowsMore DEF Added
    <3>2. remaining[c] - remaining'[c] = Effect(Added(m, 1), c) + Effect(Added(m, 2), c)
      BY <1>4, <2>3
    <3> QED BY <2>1, <3>1, <3>2
  <2> QED BY <2>2, <2>3
<1>8. HeldBy(ledger, c) = Total(g, Mains) /\ HeldBy(ledger', c) = Total(k, Mains)
  BY DEF HeldBy
<1> HIDE DEF g, k
<1>9. Total(k, Mains) = Total(g, Mains) + k[m] - g[m] BY <1>2, <1>5, TotalMoves
<1>10. Total(g, Mains) \in Int BY <1>2, TotalInt
<1>11. remaining[c] = Opening[c] - Total(g, Mains) BY <1>8, BalancedMeans
<1>12. g[m] \in Int BY <1>2
<1> QED BY <1>6, <1>7, <1>8, <1>9, <1>10, <1>11, <1>12

(* At the start nothing is held and nothing is missing.                    *)
LEMMA BalancedAtStart == ASSUME IsFiniteSet(Mains), Init PROVE LedgerBalanced
<1> SUFFICES ASSUME NEW c \in Contracts
             PROVE  remaining[c] = Opening[c] - HeldBy(ledger, c)
  BY BalancedMeans
<1> DEFINE g == [m \in Mains |-> HeldIn(ledger[m], c)]
<1>1. \A m \in Mains : ledger[m] = <<>> BY DEF Init
<1>2. HeldIn(<<>>, c) = 0
  <2>1. DOMAIN <<>> = {} /\ IsFiniteSet({}) BY FS_EmptySet
  <2>2. Total([i \in {} |-> Effect(<<>>[i], c)], {}) = 0 BY <2>1, TotalSteps
  <2> QED BY <2>1, <2>2 DEF HeldIn
<1>3. \A m \in Mains : g[m] = 0 BY <1>1, <1>2
<1>4. HeldBy(ledger, c) = Total(g, Mains) BY DEF HeldBy
<1> HIDE DEF g
<1>5. Total(g, Mains) = 0 BY <1>3, TotalZero
<1>6. remaining[c] = Opening[c] /\ Opening[c] \in Int BY BudgetAssumption DEF Init
<1> QED BY <1>4, <1>5, <1>6

(* What is missing from a contract is, at any time, exactly what the       *)
(* ledger rows of all requests say they hold: reserveBudgetTx and          *)
(* refundBudgetTx write the balance and the row in one transaction.  The   *)
(* table of requests is finite.                                            *)
THEOREM LedgerStaysBalanced ==
  ASSUME IsFiniteSet(Mains)
  PROVE  Spec => []LedgerBalanced
<1>1. Init => LedgerBalanced BY BalancedAtStart
<1>2. TypeOK /\ TypeOK' /\ LedgerBalanced /\ [StepBalanced]_budgetVars => LedgerBalanced'
  <2>1. CASE StepBalanced BY <2>1, BalancedStep
  <2>2. ASSUME LedgerBalanced, UNCHANGED budgetVars PROVE LedgerBalanced'
    <3>1. remaining' = remaining /\ ledger' = ledger BY <2>2 DEF budgetVars
    <3> QED BY <2>2, <3>1, BalancedMeans
  <2> QED BY <2>1, <2>2
<1> QED BY <1>1, <1>2, TypeCorrect, StepsAreBalanced, PTL DEF Spec
=============================================================================
