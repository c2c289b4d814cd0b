--------------------------- MODULE OneShotChannel ---------------------------
(***************************************************************************)
(* What the program promises of the two things it does outside itself, a   *)
(* text given to the transport and an event written to a calendar, with no *)
(* agent, no lease, no lock and no clock in sight:                         *)
(*                                                                         *)
(*   - a message is handed over at most once;                              *)
(*   - it is acknowledged only after it was handed over (a control message *)
(*     is acknowledged without one, it has no text to send);               *)
(*   - it is refused only before it was handed over, and never after;      *)
(*   - whatever happens first, acknowledgement, refusal or lapse, is final;*)
(*     a hand-over that comes after the lapse is never acknowledged.       *)
(*                                                                         *)
(* EdgeDelivery, the queue and the edge agent of the code, implements it,  *)
(* and so does CalendarActions, a proposal with its code and its attempt.  *)
(***************************************************************************)
EXTENDS Naturals

CONSTANT Notes          \* the notifications, or the proposals

VARIABLES
    phase,              \* where each one stands for its creator
    control,            \* those that carry nothing (a notification of kind=typing)
    handed              \* how often the outside was given each one

cvars == <<phase, control, handed>>

Open(n) == phase[n] = "open"

ChannelInit ==
    /\ phase = [n \in Notes |-> "absent"]
    /\ control = {}
    /\ handed = [n \in Notes |-> 0]

Offer(n) ==
    /\ phase[n] = "absent"
    /\ phase' = [phase EXCEPT ![n] = "open"]
    /\ control' \in {control, control \union {n}}
    /\ UNCHANGED handed

HandOver(n) ==
    /\ phase[n] \in {"open", "lapsed"}
    /\ n \notin control
    /\ handed[n] = 0
    /\ handed' = [handed EXCEPT ![n] = 1]
    /\ UNCHANGED <<phase, control>>

Acknowledge(n) ==
    /\ Open(n)
    /\ n \in control \/ handed[n] = 1
    /\ phase' = [phase EXCEPT ![n] = "delivered"]
    /\ UNCHANGED <<control, handed>>

Refuse(n) ==
    /\ Open(n)
    /\ handed[n] = 0
    /\ phase' = [phase EXCEPT ![n] = "refused"]
    /\ UNCHANGED <<control, handed>>

Lapse(n) ==
    /\ Open(n)
    /\ phase' = [phase EXCEPT ![n] = "lapsed"]
    /\ UNCHANGED <<control, handed>>

\* The channel rests at most steps of an implementation. [ChannelNext]_cvars allows
\* that anyway; written first, it is what TLC tries first.
Rest == UNCHANGED cvars

ChannelNext ==
    \/ Rest
    \/ \E n \in Notes :
        \/ Offer(n)
        \/ HandOver(n)
        \/ Acknowledge(n)
        \/ Refuse(n)
        \/ Lapse(n)

ChannelSpec == ChannelInit /\ [][ChannelNext]_cvars
=============================================================================
