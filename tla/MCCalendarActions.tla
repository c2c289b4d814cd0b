------------------------ MODULE MCCalendarActions ------------------------
(***************************************************************************)
(* CalendarActions for TLC. One principal proposes, confirms and cancels,   *)
(* the other tries the codes. The turns and the codes are interchangeable:  *)
(* no action or property names one of them.                                *)
(***************************************************************************)
EXTENDS CalendarActions, TLC

CONSTANTS owner, partner

MCSends == (owner :> {"propose", "confirm", "cancel"} @@ partner :> {"confirm"})
MCSendsAlone == (owner :> {"propose", "confirm", "cancel"})

Symmetry == Permutations(Turns) \cup Permutations(Tokens)

=============================================================================
