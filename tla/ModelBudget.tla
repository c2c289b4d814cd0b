---------------------------- MODULE ModelBudget ----------------------------
(***************************************************************************)
(* The model-call ledger and its monthly hard cap                          *)
(* (packages/core/src/model/call-model.ts and budget.ts).                  *)
(*                                                                         *)
(* Every model call first RESERVES: one short transaction, under an        *)
(* advisory lock, sums the month's ledger and, below the hard cap, inserts *)
(* a 'reserved' row whose cost is the whole remaining headroom.  The       *)
(* provider is called outside that transaction; the row is then rewritten  *)
(* with the actual cost, or deleted when the egress gate refused.  A crash *)
(* leaves the reservation in the ledger.                                   *)
(*                                                                         *)
(* Money is counted in micro-dollars, so the code's rounding of the        *)
(* headroom up to a micro-dollar is exact here.                            *)
(***************************************************************************)
EXTENDS Integers, FiniteSets

CONSTANTS
    Calls,        \* the model calls, from any process
    Retrying,     \* those made with retryOnTransient (interactive cognition)
    MaxAttempts,  \* dispatch attempts of a retrying call (3 in the code)
    Soft, Hard,   \* the monthly caps
    MaxCost,      \* the largest cost the provider reports for one call
    MaxMonth      \* bound: months the model lives through

ASSUME CallsAssumption == IsFiniteSet(Calls) /\ Retrying \subseteq Calls
ASSUME CapsAssumption == /\ Soft \in Nat /\ Hard \in Nat
                         /\ 0 < Soft /\ Soft <= Hard
ASSUME BoundsAssumption == /\ MaxAttempts \in Nat \ {0}
                           /\ MaxCost \in Nat \ {0}
                           /\ MaxMonth \in Nat \ {0}

VARIABLES
    month,     \* the calendar month the database clock is in
    row,       \* model_calls: the ledger row of each call
    pc,        \* where each call stands in runModelCall
    attempt,   \* its dispatch attempts so far
    before,    \* monthSpendUsdBefore, the spend its admission read
    answer,    \* usage.costUsd of the provider's answer in hand
    received   \* history: the cost of every answer the provider returned to it

vars == <<month, row, pc, attempt, before, answer, received>>

Months == 1..MaxMonth
NoRow == [status |-> "none", month |-> 1, cost |-> 0]
InFlight == {"dispatching", "auditing", "answered"}

(***************************************************************************)
(* SUM(cost_usd) over the rows of month m, finalised and reserved alike.   *)
(* The sum of a function is the number of its units, <<call, 1..cost>>.    *)
(***************************************************************************)
Units(f) == UNION {{c} \X (1..f[c]) : c \in DOMAIN f}
Total(f) == Cardinality(Units(f))

\* Fault: the sum forgets the reservations still in flight.
CostInFinalizedOnly(m) ==
    [c \in Calls |-> IF row[c].month = m /\ row[c].status # "reserved"
                     THEN row[c].cost ELSE 0]

CostIn(m) == [c \in Calls |-> IF row[c].month = m THEN row[c].cost ELSE 0]
MonthlySpend(m) == Total(CostIn(m))

AttemptsOf(c) == IF c \in Retrying THEN MaxAttempts ELSE 1

TypeOK ==
    /\ month \in Months
    /\ row \in [Calls -> [status : {"none", "reserved", "ok", "ok_budget_warning", "error"},
                          month : Months, cost : Nat]]
    /\ pc \in [Calls -> InFlight \cup {"idle", "denied", "returned", "failed", "crashed"}]
    /\ attempt \in [Calls -> Nat]
    /\ before \in [Calls -> Nat]
    /\ answer \in [Calls -> 0..MaxCost]
    /\ received \in [Calls -> Nat]

Init ==
    /\ month = 1
    /\ row = [c \in Calls |-> NoRow]
    /\ pc = [c \in Calls |-> "idle"]
    /\ attempt = [c \in Calls |-> 0]
    /\ before = [c \in Calls |-> 0]
    /\ answer = [c \in Calls |-> 0]
    /\ received = [c \in Calls |-> 0]

----------------------------------------------------------------------------
(* Faults a change of this code could introduce: PROJECT.json's mutants.   *)

\* The reservation holds half of the headroom.
HeadroomHalf(spent) == (Hard - spent) \div 2

\* The reservation's subtraction the wrong way round.
HeadroomReversed(spent) == spent - Hard

\* A month exactly at its cap still admits a call.
AdmittedAtCap(spent) == spent <= Hard

----------------------------------------------------------------------------

\* reserveBudget's test and the amount it reserves.
Admitted(spent) == spent < Hard
Headroom(spent) == Hard - spent

\* reserveBudget under the hard cap: SUM and INSERT in one locked transaction.
Reserve(c) ==
    LET spent == MonthlySpend(month) IN
    /\ pc[c] = "idle"
    /\ Admitted(spent)
    /\ row' = [row EXCEPT ![c] = [status |-> "reserved", month |-> month,
                                  cost |-> Headroom(spent)]]
    /\ before' = [before EXCEPT ![c] = spent]
    /\ attempt' = [attempt EXCEPT ![c] = 1]
    /\ pc' = [pc EXCEPT ![c] = "dispatching"]
    /\ UNCHANGED <<month, answer, received>>

\* reserveBudget at or over the cap: nothing is written but the denial's audit.
Deny(c) ==
    /\ pc[c] = "idle"
    /\ ~Admitted(MonthlySpend(month))
    /\ pc' = [pc EXCEPT ![c] = "denied"]
    /\ UNCHANGED <<month, row, attempt, before, answer, received>>

\* The egress gate, or its wiring check, refuses this attempt: releaseReservation.
EgressRefuses(c) ==
    /\ pc[c] = "dispatching"
    /\ row' = [row EXCEPT ![c] = NoRow]
    /\ pc' = [pc EXCEPT ![c] = "denied"]
    /\ UNCHANGED <<month, attempt, before, answer, received>>

\* The provider answers.  An answer to a retry is audited before it is used.
ProviderAnswers(c) ==
    /\ pc[c] = "dispatching"
    /\ \E cost \in 0..MaxCost :
         /\ answer' = [answer EXCEPT ![c] = cost]
         /\ received' = [received EXCEPT ![c] = @ + cost]
    /\ pc' = [pc EXCEPT ![c] = IF attempt[c] > 1 THEN "auditing" ELSE "answered"]
    /\ UNCHANGED <<month, row, attempt, before>>

AuditRetry(c) ==
    /\ pc[c] = "auditing"
    /\ pc' = [pc EXCEPT ![c] = "answered"]
    /\ UNCHANGED <<month, row, attempt, before, answer, received>>

(***************************************************************************)
(* The catch block: an attempt failed, be it the dispatch or the audit     *)
(* write that follows a retry's answer inside the same try.  The last      *)
(* attempt closes the row as an error of cost zero; an earlier one keeps   *)
(* the reservation and dispatches again.                                   *)
(***************************************************************************)
AttemptFails(c) ==
    /\ pc[c] \in {"dispatching", "auditing"}
    /\ IF attempt[c] = AttemptsOf(c)
       THEN /\ row' = [row EXCEPT ![c].status = "error", ![c].cost = 0]
            /\ pc' = [pc EXCEPT ![c] = "failed"]
            /\ UNCHANGED attempt
       ELSE /\ attempt' = [attempt EXCEPT ![c] = @ + 1]
            /\ pc' = [pc EXCEPT ![c] = "dispatching"]
            /\ UNCHANGED row
    /\ UNCHANGED <<month, before, answer, received>>

\* finalizeReservation with the answer's cost.
Finalize(c) ==
    /\ pc[c] = "answered"
    /\ row' = [row EXCEPT ![c].status = IF before[c] >= Soft THEN "ok_budget_warning" ELSE "ok",
                          ![c].cost = answer[c]]
    /\ pc' = [pc EXCEPT ![c] = "returned"]
    /\ UNCHANGED <<month, attempt, before, answer, received>>

\* The process dies, or the closing write fails: the reservation stays.
Crash(c) ==
    /\ pc[c] \in InFlight
    /\ pc' = [pc EXCEPT ![c] = "crashed"]
    /\ UNCHANGED <<month, row, attempt, before, answer, received>>

MonthTurns ==
    /\ month < MaxMonth
    /\ month' = month + 1
    /\ UNCHANGED <<row, pc, attempt, before, answer, received>>

Next ==
    \/ \E c \in Calls : \/ Reserve(c) \/ Deny(c) \/ EgressRefuses(c)
                        \/ ProviderAnswers(c) \/ AuditRetry(c) \/ AttemptFails(c)
                        \/ Finalize(c) \/ Crash(c)
    \/ MonthTurns

Spec == Init /\ [][Next]_vars

----------------------------------------------------------------------------

\* A month's ledger holds at most one outstanding reservation: however the
\* calls interleave, and whatever crashes, reserveBudget admits nobody while a
\* call of the same month is in flight (call-model.ts, the reservation protocol).
OneReservationPerMonth ==
    \A c, d \in Calls :
        row[c].status = "reserved" /\ row[d].status = "reserved" /\ row[c].month = row[d].month
            => c = d

\* A reservation, crashed or live, holds its month exactly at the cap, so the
\* budget fails closed until it is settled (budget.ts, monthlyModelSpendUsd).
ReservationHoldsTheCap ==
    \A c \in Calls : row[c].status = "reserved" => MonthlySpend(row[c].month) = Hard

\* A month overshoots the hard cap by less than the cost of one call: parallel
\* calls cannot add their costs over the cap (call-model.ts, the overshoot bound).
OvershootBound == \A m \in Months : MonthlySpend(m) < Hard + MaxCost

\* The ledger row of a call that came to its end carries the cost of every answer
\* the provider returned for it ("on completion UPDATE the reservation with actuals").
AnswersRecorded ==
    \A c \in Calls : pc[c] \in {"returned", "failed"} => row[c].cost = received[c]
============================================================================
