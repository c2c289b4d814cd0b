--------------------------- MODULE OutcomePromise ---------------------------
(***************************************************************************)
(* What an accepted outcome promises its owner, with no executor, no wait, *)
(* no transaction and no database in sight:                                *)
(*                                                                         *)
(*   - it is handed to the owner, and stays there, only with no work under *)
(*     way;                                                                *)
(*   - while it is with the owner, or closing, criteria are only met;      *)
(*   - it starts to close only with every criterion met, and is completed  *)
(*     only from there;                                                    *)
(*   - completed and dropped are final: nothing is worked on or judged     *)
(*     after the one, and no criterion changes after the other, although   *)
(*     work that had begun may run on and clean up after itself.           *)
(*                                                                         *)
(* Mission, the executor and everyone around it, implements it.            *)
(***************************************************************************)
CONSTANT Criteria       \* what the outcome is judged by

VARIABLES
    phase,              \* open, withOwner, closing, completed or dropped
    met,                \* the criteria that are met
    working             \* is an assignment queued or running?

promise == <<phase, met, working>>

PromiseInit ==
    /\ phase = "open"
    /\ met = {}
    /\ working = FALSE

\* Work starts and ends, and rulings come and are replaced.
Work ==
    /\ phase = "open"
    /\ met' \in SUBSET Criteria
    /\ working' \in BOOLEAN
    /\ UNCHANGED phase

HandOver ==
    /\ phase = "open"
    /\ ~working
    /\ phase' = "withOwner"
    /\ UNCHANGED <<met, working>>

Judge ==
    /\ phase \in {"withOwner", "closing"}
    /\ met' \in SUBSET Criteria
    /\ met \subseteq met'
    /\ UNCHANGED <<phase, working>>

\* A transition decided on while the outcome waited takes it back.
TakeBack ==
    /\ phase \in {"withOwner", "closing"}
    /\ phase' = "open"
    /\ UNCHANGED <<met, working>>

Close ==
    /\ phase \in {"open", "withOwner"}
    /\ met = Criteria
    /\ phase' = "closing"
    /\ UNCHANGED <<met, working>>

Complete ==
    /\ phase = "closing"
    /\ phase' = "completed"
    /\ UNCHANGED <<met, working>>

Drop ==
    /\ phase \in {"open", "withOwner", "closing"}
    /\ phase' = "dropped"
    /\ UNCHANGED <<met, working>>

\* Nobody tells the executor that the outcome was dropped.
RunOn ==
    /\ phase = "dropped"
    /\ working' \in BOOLEAN
    /\ UNCHANGED <<phase, met>>

PromiseNext == Work \/ HandOver \/ Judge \/ TakeBack \/ Close \/ Complete \/ Drop \/ RunOn

PromiseSpec == PromiseInit /\ [][PromiseNext]_promise
=============================================================================
