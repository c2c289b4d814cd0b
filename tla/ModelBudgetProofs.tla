------------------------ MODULE ModelBudgetProofs ------------------------
(***************************************************************************)
(* The reservation protocol keeps one reservation a month and bounds the   *)
(* overshoot, for any number of calls, any caps and any provider costs.    *)
(*                                                                         *)
(* Route: a reservation is inserted only below the cap and fills the month *)
(* exactly to it (ReservationHoldsTheCap), so the sum every later          *)
(* admission reads is at the cap until that row is settled.  Settling      *)
(* replaces a positive headroom by at most MaxCost.                        *)
(***************************************************************************)
EXTENDS ModelBudget, FiniteSetTheorems, FunctionTheorems, TLAPS

----------------------------------------------------------------------------
(* The sum of a function, as the number of its units. *)

\* A call of cost n contributes n units.
LEMMA ColumnCardinality ==
    ASSUME NEW c, NEW n \in Nat
    PROVE  IsFiniteSet({c} \X (1..n)) /\ Cardinality({c} \X (1..n)) = n
<1>1. IsFiniteSet({c}) /\ Cardinality({c}) = 1
  BY FS_Singleton
<1>2. IsFiniteSet(1..n) /\ Cardinality(1..n) = n
  <2>1. IsFiniteSet(1..n) /\ Cardinality(1..n) = IF 1 > n THEN 0 ELSE n - 1 + 1
    BY FS_Interval
  <2> QED BY <2>1
<1>3. /\ IsFiniteSet({c} \X (1..n))
      /\ Cardinality({c} \X (1..n)) = Cardinality({c}) * Cardinality(1..n)
  BY <1>1, <1>2, FS_Product
<1> QED BY <1>1, <1>2, <1>3

\* A ledger over finitely many calls has finitely many units.
LEMMA UnitsFinite ==
    ASSUME NEW S, IsFiniteSet(S), NEW f \in [S -> Nat]
    PROVE  IsFiniteSet(Units(f))
<1> DEFINE column == [c \in S |-> {c} \X (1..f[c])]
<1>1. IsFiniteSet(Range(column))
  <2>1. column \in [S -> Range(column)]
    BY DEF Range
  <2>2. column \in Surjection(S, Range(column))
    BY <2>1, Fun_RangeProperties
  <2> HIDE DEF column
  <2> QED BY <2>2, FS_Surjection
<1>2. \A T \in Range(column) : IsFiniteSet(T)
  <2> SUFFICES ASSUME NEW d \in S PROVE IsFiniteSet({d} \X (1..f[d]))
    BY DEF Range
  <2>1. f[d] \in Nat
    OBVIOUS
  <2> QED BY <2>1, ColumnCardinality
<1>3. Units(f) = UNION Range(column)
  BY DEF Units, Range
<1> HIDE DEF column
<1> QED BY <1>1, <1>2, <1>3, FS_UNION

\* The sum is the value at one point plus the sum of the rest.
LEMMA TotalSplit ==
    ASSUME NEW S, IsFiniteSet(S), NEW f \in [S -> Nat], NEW c \in S
    PROVE  LET rest == [d \in S \ {c} |-> f[d]] IN
           /\ Total(rest) \in Nat
           /\ Total(f) = Total(rest) + f[c]
<1> DEFINE rest == [d \in S \ {c} |-> f[d]]
           column == {c} \X (1..f[c])
<1>1. IsFiniteSet(Units(rest))
  <2>1. IsFiniteSet(S \ {c})
    BY FS_RemoveElement
  <2>2. rest \in [S \ {c} -> Nat]
    OBVIOUS
  <2> HIDE DEF rest
  <2> QED BY <2>1, <2>2, UnitsFinite
<1>2. IsFiniteSet(column) /\ Cardinality(column) = f[c]
  BY ColumnCardinality
<1>3. Units(f) = Units(rest) \cup column
  BY DEF Units
<1>4. Units(rest) \cap column = {}
  BY DEF Units
<1>5. Cardinality(Units(rest)) \in Nat
  BY <1>1, FS_CardinalityType
<1>6. Cardinality(Units(rest) \cup column)
        = Cardinality(Units(rest)) + Cardinality(column) - Cardinality({})
  <2> HIDE DEF rest, column
  <2>1. Cardinality(Units(rest) \cup column)
          = Cardinality(Units(rest)) + Cardinality(column) - Cardinality(Units(rest) \cap column)
    BY <1>1, <1>2, FS_Union
  <2> QED BY <2>1, <1>4
<1>7. Cardinality({}) = 0
  BY FS_EmptySet
<1> QED BY <1>2, <1>3, <1>5, <1>6, <1>7 DEF Total

\* Changing one point changes the sum by the difference.
LEMMA TotalUpdate ==
    ASSUME NEW S, IsFiniteSet(S), NEW f \in [S -> Nat], NEW c \in S, NEW v \in Nat
    PROVE  /\ Total(f) \in Nat
           /\ f[c] <= Total(f)
           /\ Total([f EXCEPT ![c] = v]) = Total(f) - f[c] + v
<1> DEFINE g == [f EXCEPT ![c] = v]
           rest == [d \in S \ {c} |-> f[d]]
<1>1. Total(rest) \in Nat /\ Total(f) = Total(rest) + f[c]
  BY TotalSplit
<1>2. g \in [S -> Nat] /\ g[c] = v /\ [d \in S \ {c} |-> g[d]] = rest
  OBVIOUS
<1>3. Total(g) = Total(rest) + v
  <2> HIDE DEF g
  <2>1. Total(g) = Total([d \in S \ {c} |-> g[d]]) + g[c]
    BY <1>2, TotalSplit
  <2> QED BY <2>1, <1>2
<1> QED BY <1>1, <1>3

----------------------------------------------------------------------------
(* The ledger. *)

Rows == [status : {"none", "reserved", "ok", "ok_budget_warning", "error"},
         month : Months, cost : Nat]

\* What row r of a call adds to month m.
Adds(r, m) == IF r.month = m THEN r.cost ELSE 0

LEMMA SpendUpdate ==
    ASSUME TypeOK, NEW c \in Calls, NEW r \in Rows, NEW m \in Months,
           row' = [row EXCEPT ![c] = r]
    PROVE  /\ MonthlySpend(m) \in Nat
           /\ Adds(row[c], m) <= MonthlySpend(m)
           /\ MonthlySpend(m)' = MonthlySpend(m) - Adds(row[c], m) + Adds(r, m)
<1>1. CostIn(m) \in [Calls -> Nat] /\ CostIn(m)[c] = Adds(row[c], m)
  BY DEF TypeOK, CostIn, Adds
<1>2. CostIn(m)' = [CostIn(m) EXCEPT ![c] = Adds(r, m)]
  BY DEF TypeOK, CostIn, Adds
<1>3. Adds(r, m) \in Nat
  BY DEF Adds, Rows
<1>4. /\ Total(CostIn(m)) \in Nat
      /\ CostIn(m)[c] <= Total(CostIn(m))
      /\ Total([CostIn(m) EXCEPT ![c] = Adds(r, m)])
           = Total(CostIn(m)) - CostIn(m)[c] + Adds(r, m)
  BY <1>1, <1>3, CallsAssumption, TotalUpdate
<1>5. MonthlySpend(m)' = Total([CostIn(m) EXCEPT ![c] = Adds(r, m)])
  BY <1>2 DEF MonthlySpend
<1> QED BY <1>1, <1>4, <1>5 DEF MonthlySpend

LEMMA SpendUnchanged ==
    ASSUME UNCHANGED row, NEW m
    PROVE  MonthlySpend(m)' = MonthlySpend(m)
BY DEF MonthlySpend, CostIn

LEMMA SpendType ==
    ASSUME TypeOK, NEW m \in Months, NEW c \in Calls
    PROVE  MonthlySpend(m) \in Nat /\ Adds(row[c], m) <= MonthlySpend(m)
<1>1. CostIn(m) \in [Calls -> Nat] /\ CostIn(m)[c] = Adds(row[c], m)
  BY DEF TypeOK, CostIn, Adds
<1> QED BY <1>1, CallsAssumption, TotalUpdate DEF MonthlySpend

\* A call in flight owns a reservation; one not started owns no row; a
\* reservation holds a positive headroom.
PcMatchesRow ==
    \A c \in Calls : /\ pc[c] \in InFlight => row[c].status = "reserved"
                     /\ pc[c] = "idle" => row[c] = NoRow
                     /\ row[c].status = "reserved" => row[c].cost > 0

IInv ==
    /\ TypeOK
    /\ PcMatchesRow
    /\ OneReservationPerMonth
    /\ ReservationHoldsTheCap
    /\ OvershootBound

\* With no row in the ledger every month's spend is zero.
LEMMA InitSpend ==
    ASSUME Init, NEW m \in Months
    PROVE  MonthlySpend(m) = 0
<1>1. Units(CostIn(m)) = {}
  BY DEF Init, NoRow, CostIn, Units
<1> QED BY <1>1, FS_EmptySet DEF MonthlySpend, Total

LEMMA InitIInv == Init => IInv
<1> SUFFICES ASSUME Init PROVE IInv
  OBVIOUS
<1>1. TypeOK
  BY BoundsAssumption DEF Init, TypeOK, NoRow, Months, InFlight
<1>2. PcMatchesRow /\ OneReservationPerMonth /\ ReservationHoldsTheCap
  BY DEF Init, PcMatchesRow, OneReservationPerMonth, ReservationHoldsTheCap, NoRow, InFlight
<1>3. OvershootBound
  BY InitSpend, CapsAssumption, BoundsAssumption DEF OvershootBound
<1> QED BY <1>1, <1>2, <1>3 DEF IInv

(***************************************************************************)
(* A reservation is settled: the row keeps its month, is reserved no more, *)
(* and costs at most MaxCost.                                              *)
(***************************************************************************)
LEMMA Settling ==
    ASSUME IInv, NEW c \in Calls, NEW r \in Rows,
           row[c].status = "reserved", r.status # "reserved",
           r.cost <= MaxCost, r.month = row[c].month \/ r.cost = 0,
           row' = [row EXCEPT ![c] = r]
    PROVE  (OneReservationPerMonth /\ ReservationHoldsTheCap /\ OvershootBound)'
<1> USE DEF IInv
<1>1. \A m \in Months : /\ MonthlySpend(m) \in Nat
                        /\ MonthlySpend(m)' = MonthlySpend(m) - Adds(row[c], m) + Adds(r, m)
  BY SpendUpdate
<1>2. /\ row[c] \in Rows /\ row[c].month \in Months /\ row[c].cost \in Nat
      /\ row[c].cost > 0 /\ r.cost \in Nat
  BY DEF TypeOK, Rows, PcMatchesRow
<1>3. row'[c] = r /\ \A d \in Calls : d # c => row'[d] = row[d]
  BY DEF TypeOK
<1>4. \A d \in Calls : row'[d].status = "reserved" => d # c /\ row[d].month # row[c].month
  BY <1>3 DEF OneReservationPerMonth
<1>5. OneReservationPerMonth'
  BY <1>3, <1>4 DEF OneReservationPerMonth
<1>6. ReservationHoldsTheCap'
  <2> SUFFICES ASSUME NEW d \in Calls, row'[d].status = "reserved"
               PROVE  MonthlySpend(row[d].month)' = Hard
    BY <1>3, <1>4 DEF ReservationHoldsTheCap
  <2>1. d # c /\ row[d].status = "reserved" /\ row[d].month # row[c].month
    BY <1>3, <1>4
  <2>2. row[d].month \in Months /\ MonthlySpend(row[d].month) = Hard
    BY <2>1 DEF TypeOK, ReservationHoldsTheCap
  <2>3. Adds(row[c], row[d].month) = 0 /\ Adds(r, row[d].month) = 0
    BY <2>1 DEF Adds
  <2>4. MonthlySpend(row[d].month)' = MonthlySpend(row[d].month) - 0 + 0
    BY <1>1, <2>2, <2>3
  <2>5. row'[d].month = row[d].month
    BY <1>3, <2>1
  <2> QED BY <2>2, <2>4, CapsAssumption
<1>7. OvershootBound'
  <2> SUFFICES ASSUME NEW m \in Months PROVE MonthlySpend(m)' < Hard + MaxCost
    BY DEF OvershootBound
  <2>1. MonthlySpend(m) \in Nat /\ MonthlySpend(m) < Hard + MaxCost
    BY <1>1 DEF OvershootBound
  <2>2. MonthlySpend(m)' = MonthlySpend(m) - Adds(row[c], m) + Adds(r, m)
    BY <1>1
  <2>3. CASE m = row[c].month
    <3>1. MonthlySpend(m) = Hard
      BY <2>3 DEF ReservationHoldsTheCap
    <3>2. Adds(row[c], m) = row[c].cost /\ Adds(r, m) \in Nat /\ Adds(r, m) <= MaxCost
      BY <2>3, <1>2, BoundsAssumption DEF Adds
    <3> QED BY <2>2, <3>1, <3>2, <1>2, CapsAssumption, BoundsAssumption
  <2>4. CASE m # row[c].month
    <3>1. Adds(row[c], m) = 0 /\ Adds(r, m) = 0
      BY <2>4 DEF Adds
    <3> QED BY <2>1, <2>2, <3>1
  <2> QED BY <2>3, <2>4
<1> QED BY <1>5, <1>6, <1>7

\* A step that leaves the ledger alone.
LEMMA LedgerUnchanged ==
    ASSUME IInv, UNCHANGED row
    PROVE  (OneReservationPerMonth /\ ReservationHoldsTheCap /\ OvershootBound)'
BY SpendUnchanged DEF IInv, OneReservationPerMonth, ReservationHoldsTheCap, OvershootBound

(***************************************************************************)
(* An admission: the month was below its cap, so it held no reservation,   *)
(* and the new row brings it exactly to the cap.                           *)
(***************************************************************************)
LEMMA Reserving ==
    ASSUME IInv, NEW c \in Calls, Reserve(c)
    PROVE  (OneReservationPerMonth /\ ReservationHoldsTheCap /\ OvershootBound)'
<1> USE DEF IInv
<1> DEFINE spent == MonthlySpend(month)
           r == [status |-> "reserved", month |-> month, cost |-> Hard - spent]
<1>1. month \in Months /\ spent \in Nat /\ spent < Hard
  <2>1. month \in Months
    BY DEF TypeOK
  <2> QED BY <2>1, SpendType DEF Reserve, Admitted
<1>2. row[c] = NoRow /\ row' = [row EXCEPT ![c] = r]
  BY DEF Reserve, PcMatchesRow, Headroom
<1>3. r \in Rows /\ r.cost \in Nat /\ r.month = month /\ r.cost = Hard - spent
  BY <1>1, CapsAssumption DEF Rows
<1> HIDE DEF r
<1>4. \A m \in Months : MonthlySpend(m) \in Nat /\ MonthlySpend(m)' = MonthlySpend(m) + Adds(r, m)
  <2> SUFFICES ASSUME NEW m \in Months
               PROVE  MonthlySpend(m) \in Nat /\ MonthlySpend(m)' = MonthlySpend(m) + Adds(r, m)
    OBVIOUS
  <2>1. /\ MonthlySpend(m) \in Nat
        /\ MonthlySpend(m)' = MonthlySpend(m) - Adds(row[c], m) + Adds(r, m)
    BY <1>2, <1>3, SpendUpdate
  <2>2. Adds(row[c], m) = 0 /\ Adds(r, m) \in Nat
    BY <1>2, <1>3 DEF Adds, NoRow
  <2> QED BY <2>1, <2>2
<1>5. row'[c] = r /\ \A d \in Calls : d # c => row'[d] = row[d]
  BY <1>2 DEF TypeOK
<1>6. \A d \in Calls : row[d].status = "reserved" => row[d].month # month
  BY <1>1 DEF ReservationHoldsTheCap
<1>7. OneReservationPerMonth'
  BY <1>3, <1>5, <1>6 DEF OneReservationPerMonth
<1>8. MonthlySpend(month) + Adds(r, month) = Hard
  BY <1>1, <1>3, CapsAssumption DEF Adds
<1>9. ReservationHoldsTheCap'
  <2> SUFFICES ASSUME NEW d \in Calls, row'[d].status = "reserved", NEW m, m = row'[d].month
               PROVE  MonthlySpend(m)' = Hard
    BY DEF ReservationHoldsTheCap
  <2>1. CASE d = c
    BY <2>1, <1>1, <1>3, <1>4, <1>5, <1>8
  <2>2. CASE d # c
    <3>1. row[d].status = "reserved" /\ m = row[d].month /\ m \in Months /\ m # month
      BY <2>2, <1>5, <1>6 DEF TypeOK
    <3>2. Adds(r, m) = 0
      BY <3>1, <1>3 DEF Adds
    <3> QED BY <3>1, <3>2, <1>4, CapsAssumption DEF ReservationHoldsTheCap
  <2> QED BY <2>1, <2>2
<1>10. OvershootBound'
  <2> SUFFICES ASSUME NEW m \in Months PROVE MonthlySpend(m)' < Hard + MaxCost
    BY DEF OvershootBound
  <2>1. CASE m = month
    BY <2>1, <1>4, <1>8, CapsAssumption, BoundsAssumption
  <2>2. CASE m # month
    <3>1. Adds(r, m) = 0
      BY <2>2, <1>3 DEF Adds
    <3> QED BY <3>1, <1>4 DEF OvershootBound
  <2> QED BY <2>1, <2>2
<1> QED BY <1>7, <1>9, <1>10

----------------------------------------------------------------------------
(* Every step keeps the types and the relation of pc to the ledger. *)

LEMMA TypeStep == TypeOK /\ [Next]_vars => TypeOK'
<1> SUFFICES ASSUME TypeOK, [Next]_vars PROVE TypeOK'
  OBVIOUS
<1> USE CapsAssumption, BoundsAssumption DEF TypeOK, InFlight
<1>1. ASSUME NEW c \in Calls, Reserve(c) PROVE TypeOK'
  <2>1. MonthlySpend(month) \in Nat
    BY SpendType
  <2>2. Headroom(MonthlySpend(month)) \in Nat
    BY <1>1, <2>1 DEF Reserve, Admitted, Headroom
  <2> QED BY <1>1, <2>1, <2>2 DEF Reserve
<1>2. ASSUME NEW c \in Calls, Deny(c) PROVE TypeOK'
  BY <1>2 DEF Deny
<1>3. ASSUME NEW c \in Calls, EgressRefuses(c) PROVE TypeOK'
  BY <1>3 DEF EgressRefuses, NoRow, Months
<1>4. ASSUME NEW c \in Calls, ProviderAnswers(c) PROVE TypeOK'
  BY <1>4 DEF ProviderAnswers
<1>5. ASSUME NEW c \in Calls, AuditRetry(c) PROVE TypeOK'
  BY <1>5 DEF AuditRetry
<1>6. ASSUME NEW c \in Calls, AttemptFails(c) PROVE TypeOK'
  BY <1>6 DEF AttemptFails
<1>7. ASSUME NEW c \in Calls, Finalize(c) PROVE TypeOK'
  <2>1. PICK s \in {"ok", "ok_budget_warning"} :
            row' = [row EXCEPT ![c].status = s, ![c].cost = answer[c]]
    BY <1>7 DEF Finalize
  <2>2. answer[c] \in Nat
    <3>1. answer[c] \in 0..MaxCost
      OBVIOUS
    <3> QED BY <3>1
  <2>3. row' \in [Calls -> [status : {"none", "reserved", "ok", "ok_budget_warning", "error"},
                            month : Months, cost : Nat]]
    <3>1. [row[c] EXCEPT !.status = s, !.cost = answer[c]]
              \in [status : {"none", "reserved", "ok", "ok_budget_warning", "error"},
                  month : Months, cost : Nat]
      BY <2>2
    <3>2. row' = [row EXCEPT ![c] = [row[c] EXCEPT !.status = s, !.cost = answer[c]]]
      BY <2>1
    <3> QED BY <3>1, <3>2
  <2> QED BY <1>7, <2>3 DEF Finalize
<1>8. ASSUME NEW c \in Calls, Crash(c) PROVE TypeOK'
  BY <1>8 DEF Crash
<1>9. ASSUME MonthTurns PROVE TypeOK'
  BY <1>9 DEF MonthTurns, Months
<1>10. CASE UNCHANGED vars
  BY <1>10 DEF vars
<1> QED BY <1>1, <1>2, <1>3, <1>4, <1>5, <1>6, <1>7, <1>8, <1>9, <1>10 DEF Next

LEMMA PcStep == TypeOK /\ PcMatchesRow /\ [Next]_vars => PcMatchesRow'
<1> SUFFICES ASSUME TypeOK, PcMatchesRow, [Next]_vars PROVE PcMatchesRow'
  OBVIOUS
<1> USE DEF TypeOK, PcMatchesRow, InFlight
<1>1. ASSUME NEW c \in Calls, Reserve(c) PROVE PcMatchesRow'
  <2>1. MonthlySpend(month) \in Nat
    BY SpendType
  <2>2. Headroom(MonthlySpend(month)) > 0
    BY <1>1, <2>1, CapsAssumption DEF Reserve, Admitted, Headroom
  <2> QED BY <1>1, <2>2 DEF Reserve
<1>2. ASSUME NEW c \in Calls, Deny(c) PROVE PcMatchesRow'
  BY <1>2 DEF Deny
<1>3. ASSUME NEW c \in Calls, EgressRefuses(c) PROVE PcMatchesRow'
  BY <1>3 DEF EgressRefuses, NoRow
<1>4. ASSUME NEW c \in Calls, ProviderAnswers(c) PROVE PcMatchesRow'
  BY <1>4 DEF ProviderAnswers
<1>5. ASSUME NEW c \in Calls, AuditRetry(c) PROVE PcMatchesRow'
  BY <1>5 DEF AuditRetry
<1>6. ASSUME NEW c \in Calls, AttemptFails(c) PROVE PcMatchesRow'
  BY <1>6 DEF AttemptFails
<1>7. ASSUME NEW c \in Calls, Finalize(c) PROVE PcMatchesRow'
  BY <1>7 DEF Finalize
<1>8. ASSUME NEW c \in Calls, Crash(c) PROVE PcMatchesRow'
  BY <1>8 DEF Crash
<1>9. ASSUME MonthTurns PROVE PcMatchesRow'
  BY <1>9 DEF MonthTurns
<1>10. CASE UNCHANGED vars
  BY <1>10 DEF vars
<1> QED BY <1>1, <1>2, <1>3, <1>4, <1>5, <1>6, <1>7, <1>8, <1>9, <1>10 DEF Next

\* Every step keeps the facts about the ledger.
LEMMA LedgerStep ==
    ASSUME IInv, [Next]_vars
    PROVE  (OneReservationPerMonth /\ ReservationHoldsTheCap /\ OvershootBound)'
<1> DEFINE Facts == OneReservationPerMonth /\ ReservationHoldsTheCap /\ OvershootBound
<1>1. ASSUME NEW c \in Calls, EgressRefuses(c) PROVE Facts'
  <2>1. NoRow \in Rows /\ NoRow.status # "reserved" /\ NoRow.cost = 0
    BY BoundsAssumption DEF NoRow, Rows, Months
  <2>2. row[c].status = "reserved" /\ row' = [row EXCEPT ![c] = NoRow]
    BY <1>1 DEF EgressRefuses, IInv, PcMatchesRow, InFlight
  <2>3. NoRow.cost <= MaxCost
    BY <2>1, BoundsAssumption
  <2> HIDE DEF Facts
  <2> QED BY <2>1, <2>2, <2>3, Settling DEF Facts
<1>2. ASSUME NEW c \in Calls, Finalize(c) PROVE Facts'
  <2>0. PICK s \in {"ok", "ok_budget_warning"} :
            row' = [row EXCEPT ![c].status = s, ![c].cost = answer[c]]
    BY <1>2 DEF Finalize
  <2> DEFINE r == [row[c] EXCEPT !.status = s, !.cost = answer[c]]
  <2>1. row[c] \in Rows /\ row[c].status = "reserved" /\ answer[c] \in 0..MaxCost
    BY <1>2 DEF Finalize, IInv, TypeOK, Rows, PcMatchesRow, InFlight
  <2>5. answer[c] \in Nat
    BY <2>1, BoundsAssumption
  <2>2. /\ r \in Rows /\ r.status # "reserved" /\ r.cost = answer[c]
        /\ r.month = row[c].month
    BY <2>0, <2>1, <2>5 DEF Rows
  <2>3. row' = [row EXCEPT ![c] = r]
    BY <2>0 DEF IInv, TypeOK
  <2>4. r.cost <= MaxCost
    BY <2>1, <2>2, BoundsAssumption
  <2> HIDE DEF r, Facts
  <2> QED BY <2>1, <2>2, <2>3, <2>4, Settling DEF Facts
<1>3. ASSUME NEW c \in Calls, AttemptFails(c) PROVE Facts'
  <2>1. CASE UNCHANGED row
    BY <2>1, LedgerUnchanged
  <2>2. CASE row' = [row EXCEPT ![c].status = "error", ![c].cost = 0]
    <3> DEFINE r == [row[c] EXCEPT !.status = "error", !.cost = 0]
    <3>1. row[c] \in Rows /\ row[c].status = "reserved"
      BY <1>3 DEF AttemptFails, IInv, TypeOK, Rows, PcMatchesRow, InFlight
    <3>2. r \in Rows /\ r.status # "reserved" /\ r.cost = 0 /\ r.month = row[c].month
      BY <3>1 DEF Rows
    <3>3. row' = [row EXCEPT ![c] = r]
      BY <2>2 DEF IInv, TypeOK
    <3>4. r.cost <= MaxCost
      BY <3>2, BoundsAssumption
    <3> HIDE DEF r, Facts
    <3> QED BY <3>1, <3>2, <3>3, <3>4, Settling DEF Facts
  <2> QED BY <1>3, <2>1, <2>2 DEF AttemptFails
<1>4. ASSUME NEW c \in Calls,
             Deny(c) \/ ProviderAnswers(c) \/ AuditRetry(c) \/ Crash(c)
      PROVE  Facts'
  <2>1. UNCHANGED row
    BY <1>4 DEF Deny, ProviderAnswers, AuditRetry, Crash
  <2> QED BY <2>1, LedgerUnchanged
<1>5. ASSUME MonthTurns \/ UNCHANGED vars PROVE Facts'
  <2>1. UNCHANGED row
    BY <1>5 DEF MonthTurns, vars
  <2> QED BY <2>1, LedgerUnchanged
<1>6. ASSUME NEW c \in Calls, Reserve(c) PROVE Facts'
  BY <1>6, Reserving
<1> HIDE DEF Facts
<1>7. Facts'
  BY <1>1, <1>2, <1>3, <1>4, <1>5, <1>6 DEF Next
<1> QED BY <1>7 DEF Facts

LEMMA StepIInv == IInv /\ [Next]_vars => IInv'
<1> SUFFICES ASSUME IInv, [Next]_vars PROVE IInv'
  OBVIOUS
<1>1. TypeOK' /\ PcMatchesRow'
  BY TypeStep, PcStep DEF IInv
<1> QED BY <1>1, LedgerStep DEF IInv

\* Every reachable state satisfies the inductive invariant.
THEOREM Invariance == Spec => []IInv
BY InitIInv, StepIInv, PTL DEF Spec

\* The type invariant of the ledger and of the calls in flight.
THEOREM LedgerIsTyped == Spec => []TypeOK
<1>1. IInv => TypeOK
  BY DEF IInv
<1> QED BY <1>1, Invariance, PTL

\* Admission is race-free: a month never holds two outstanding reservations,
\* whatever the interleaving of reserveBudget, settlement and crashes.
THEOREM AdmissionIsExclusive == Spec => []OneReservationPerMonth
<1>1. IInv => OneReservationPerMonth
  BY DEF IInv
<1> QED BY <1>1, Invariance, PTL

\* A reservation left by a crash fails closed: its month stays at the cap.
THEOREM ReservationFailsClosed == Spec => []ReservationHoldsTheCap
<1>1. IInv => ReservationHoldsTheCap
  BY DEF IInv
<1> QED BY <1>1, Invariance, PTL

\* A month overshoots its hard cap by less than the cost of one call.
THEOREM OvershootIsBounded == Spec => []OvershootBound
<1>1. IInv => OvershootBound
  BY DEF IInv
<1> QED BY <1>1, Invariance, PTL
============================================================================
