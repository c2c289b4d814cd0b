--------------------------- MODULE MCEdgeDelivery ---------------------------
(***************************************************************************)
(* A small instance of EdgeDelivery: one owner, one guest, and one of each *)
(* kind of notification that the code treats differently.                  *)
(***************************************************************************)
EXTENDS EdgeDelivery, TLC

CONSTANTS owner, guest, ownerHandle, guestHandle

Plain(k) == [kind |-> k, imessage |-> TRUE, requester |-> Nobody, conversation |-> Nobody,
             thirdParty |-> TRUE, recipient |-> NoHandle, inColumn |-> FALSE]

Reply(p, c, h) == [kind |-> "reply", imessage |-> TRUE, requester |-> p, conversation |-> c,
                   thirdParty |-> FALSE, recipient |-> h, inColumn |-> TRUE]

MCOffers ==
    {Plain(k) : k \in {"escalation", "calendar-change", "typing"}}
    \union {Reply(guest, guest, guestHandle),
            Reply(guest, owner, guestHandle),
            [Reply(guest, guest, guestHandle) EXCEPT !.inColumn = FALSE],
            Reply(Nobody, guest, guestHandle),
            Reply(Nobody, Nobody, NoHandle)}

AgentSymmetry == Permutations(Agents)
=============================================================================
