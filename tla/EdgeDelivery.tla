---------------------------- MODULE EdgeDelivery ----------------------------
(***************************************************************************)
(* The notification queue, and the edge agents that empty it.              *)
(*                                                                         *)
(* A notification is a row of Postgres (notifications/service.ts). Policy  *)
(* or the owner approves it, an edge agent (apps/edge-agent/src/agent.ts)  *)
(* claims it over HTTP (apps/api/src/routes/harness.ts), hands its text to *)
(* the iMessage transport and reports it delivered. Nothing here runs in   *)
(* a transaction: every SQL statement is a step of its own, so claims,     *)
(* sweeps, quarantines and reports of several agents interleave, and a     *)
(* crash may fall between any two of them.                                 *)
(*                                                                         *)
(* An element of Agents is one claim/send/report cycle in flight, with the *)
(* API request that serves it: two of them are two agents, or one agent    *)
(* that was restarted while its last request was still being served.       *)
(***************************************************************************)
EXTENDS Naturals, FiniteSetsExt

CONSTANTS
    MaxNotes,           \* notifications 1..MaxNotes, numbered as created
    Agents,             \* cycles of edge agents in flight
    Principals, Handles, \* people, and the iMessage handles they can pair
    DefaultTarget,      \* the handle every message but a reply goes to
    ValidTargets,       \* the targets the transport's validators accept
    AutoApproveKinds,   \* policy.yaml: kinds approved at creation
    Offers,             \* what createNotification is called with
    Nobody, NoHandle,   \* null principal, null recipient
    NoNote,             \* an agent that holds nothing
    MaxCrashes          \* bound on requests and agents that die or are lost

Notes == 1..MaxNotes

Kinds == {"brief", "escalation", "custom", "calendar-change", "reply", "calibration",
          "grant-reminder", "typing", "attention"}
DeadLetterKinds == {"calibration", "grant-reminder", "calendar-change"}

\* thirdParty holds unless third_party_recipient is false; inColumn is FALSE
\* when the recipient is in the payload only.
Requests ==
    [kind : Kinds, imessage : BOOLEAN, requester : Principals \union {Nobody},
     conversation : Principals \union {Nobody}, thirdParty : BOOLEAN,
     recipient : Handles \union {NoHandle}, inColumn : BOOLEAN]
NoRequest == [kind |-> "custom", imessage |-> FALSE, requester |-> Nobody,
              conversation |-> Nobody, thirdParty |-> TRUE, recipient |-> NoHandle,
              inColumn |-> FALSE]

ASSUME ConstantsAssumption ==
    /\ MaxNotes \in Nat /\ MaxCrashes \in Nat
    /\ Nobody \notin Principals /\ NoHandle \notin Handles /\ NoNote \notin Notes
    /\ AutoApproveKinds \subseteq Kinds
    /\ Offers \subseteq Requests

VARIABLES
    status,             \* notifications.status, "absent" before the insert
    request,            \* the row's immutable columns
    ownerApproved,      \* rows with approved_by set
    claimed,            \* rows with claimed_at set
    overdue,            \* rows whose expires_at has passed
    verified,           \* transport_identities: <<principal, handle>>
    deadLetters,        \* rows with a system_feedback sentinel
    fingerprints,       \* sent_message_fingerprints
    sends,              \* how often the transport took each row's text
    sentTo,             \* the target it went to
    pc,                 \* where each cycle stands
    held,               \* the row it claimed
    asOf,               \* the rows that were overdue at the request's `now`
    due,                \* the rows its sweep still has to expire
    crashes

rows == <<status, request, ownerApproved, claimed>>
records == <<deadLetters, fingerprints>>
wire == <<sends, sentTo>>
cycle == <<pc, held, asOf, due>>
world == <<overdue, verified>>
vars == <<rows, records, wire, cycle, world, crashes>>

Undecided(n) == status[n] \in {"pending", "approved"}
Terminal == {"rejected", "delivered", "expired"}

Goto(a, label) == pc' = [pc EXCEPT ![a] = label]

\* The cycle ends; the agent's next one starts from nothing.
Idle(a) ==
    /\ Goto(a, "idle")
    /\ held' = [held EXCEPT ![a] = NoNote]
    /\ asOf' = [asOf EXCEPT ![a] = {}]
    /\ due' = [due EXCEPT ![a] = {}]

Init ==
    /\ status = [n \in Notes |-> "absent"]
    /\ request = [n \in Notes |-> NoRequest]
    /\ ownerApproved = {} /\ claimed = {} /\ overdue = {} /\ verified = {}
    /\ deadLetters = {} /\ fingerprints = {}
    /\ sends = [n \in Notes |-> 0]
    /\ sentTo = [n \in Notes |-> NoHandle]
    /\ pc = [a \in Agents |-> "idle"]
    /\ held = [a \in Agents |-> NoNote]
    /\ asOf = [a \in Agents |-> {}]
    /\ due = [a \in Agents |-> {}]
    /\ crashes = 0

-----------------------------------------------------------------------------
\* Creation, review, pairing and time.

\* Fault: the conversation leg is dropped.
ReplyApproved_NoConversationLeg(q) ==
    /\ q.imessage
    /\ <<q.requester, q.recipient>> \in verified
    /\ ~q.thirdParty

\* The conjunction that approves a reply at creation: every leg must hold.
ReplyApproved(q) ==
    /\ q.imessage
    /\ <<q.requester, q.recipient>> \in verified
    /\ q.conversation = q.requester
    /\ ~q.thirdParty

PolicyApproves(q) ==
    IF q.kind = "reply" THEN ReplyApproved(q) ELSE q.kind \in AutoApproveKinds

Create(n, q) ==
    /\ status[n] = "absent"
    /\ \A m \in 1..(n - 1) : status[m] # "absent"
    /\ status' = [status EXCEPT ![n] = IF PolicyApproves(q) THEN "approved" ELSE "pending"]
    /\ request' = [request EXCEPT ![n] = q]
    /\ UNCHANGED <<ownerApproved, claimed, records, wire, cycle, world, crashes>>

Approve(n) ==
    /\ status[n] = "pending"
    /\ status' = [status EXCEPT ![n] = "approved"]
    /\ ownerApproved' = ownerApproved \union {n}
    /\ UNCHANGED <<request, claimed, records, wire, cycle, world, crashes>>

\* Fault: the refusal no longer asks for a pending row.
Reject_AnyOpen(n) ==
    /\ Undecided(n)
    /\ status' = [status EXCEPT ![n] = "rejected"]
    /\ UNCHANGED <<request, ownerApproved, claimed, records, wire, cycle, world, crashes>>

Reject(n) ==
    /\ status[n] = "pending"
    /\ status' = [status EXCEPT ![n] = "rejected"]
    /\ UNCHANGED <<request, ownerApproved, claimed, records, wire, cycle, world, crashes>>

\* One handle, one principal, ever: handles are only added, and never twice.
Pair(p, h) ==
    /\ \A q \in Principals : <<q, h>> \notin verified
    /\ verified' = verified \union {<<p, h>>}
    /\ UNCHANGED <<rows, records, wire, cycle, overdue, crashes>>

TtlPasses(n) ==
    /\ status[n] # "absent" /\ n \notin overdue
    /\ overdue' = overdue \union {n}
    /\ UNCHANGED <<rows, records, wire, cycle, verified, crashes>>

-----------------------------------------------------------------------------
\* POST /harness/notifications/claim: sweep, claim, recheck the recipient.

\* Fault: rows nobody reviewed are never swept.
Expirable_ApprovedOnly(n) == status[n] = "approved"

\* The rows the one expiry writer flips.
Expirable(n) == Undecided(n)

\* The request reads the clock once, and selects the overdue rows.
Poll(a) ==
    /\ pc[a] = "idle"
    /\ Goto(a, "sweeping")
    /\ asOf' = [asOf EXCEPT ![a] = overdue]
    /\ due' = [due EXCEPT ![a] = {n \in overdue : Expirable(n)}]
    /\ UNCHANGED <<rows, held, records, wire, world, crashes>>

\* Fault: a leased row is reported as a dead letter too.
OwesSentinel_EvenClaimed(n) == request[n].kind \in DeadLetterKinds

\* A ratified kind that nobody ever claimed is a dead letter.
OwesSentinel(n) == request[n].kind \in DeadLetterKinds /\ n \notin claimed

Expire(n) ==
    /\ status' = [status EXCEPT ![n] = "expired"]
    /\ deadLetters' = IF OwesSentinel(n) THEN deadLetters \union {n} ELSE deadLetters

\* One turn of the sweep's loop; a row another request settled is skipped.
SweepOne(a, n) ==
    /\ pc[a] = "sweeping" /\ n \in due[a]
    /\ IF Expirable(n) THEN Expire(n) ELSE UNCHANGED <<status, deadLetters>>
    /\ due' = [due EXCEPT ![a] = @ \ {n}]
    /\ UNCHANGED <<request, ownerApproved, claimed, fingerprints, wire, pc, held, asOf,
                   world, crashes>>

\* The request dies after the row is flipped and before its sentinel.
SweepDies(a, n) ==
    /\ pc[a] = "sweeping" /\ n \in due[a] /\ Expirable(n)
    /\ crashes < MaxCrashes
    /\ crashes' = crashes + 1
    /\ status' = [status EXCEPT ![n] = "expired"]
    /\ Idle(a)
    /\ UNCHANGED <<request, ownerApproved, claimed, records, wire, world>>

\* Fault: the claim does not look at claimed_at.
Claimable_IgnoringTheLease(a, n) == status[n] = "approved" /\ n \notin asOf[a]

Claimable(a, n) == status[n] = "approved" /\ n \notin claimed /\ n \notin asOf[a]

\* The oldest claimable row is leased; the lease is not a status.
Claim(a) ==
    LET candidates == {n \in Notes : Claimable(a, n)} IN
    /\ pc[a] = "sweeping" /\ due[a] = {}
    /\ candidates # {}
    /\ \E n \in candidates :
        /\ \A m \in candidates : n <= m
        /\ claimed' = claimed \union {n}
        /\ held' = [held EXCEPT ![a] = n]
        /\ Goto(a, IF request[n].kind = "reply" THEN "rechecking" ELSE "holding")
    /\ UNCHANGED <<status, request, ownerApproved, records, wire, asOf, due, world, crashes>>

NothingToClaim(a) ==
    /\ pc[a] = "sweeping" /\ due[a] = {}
    /\ \A n \in Notes : ~Claimable(a, n)
    /\ Idle(a)
    /\ UNCHANGED <<rows, records, wire, world, crashes>>

HasRecipient(q) == q.recipient # NoHandle /\ q.inColumn

\* Fault: the claim-time recheck is skipped.
Recheck_Nothing(q) == "holding"

\* The claim-time recheck. A reply that names a recipient but no requester
\* makes the query fail on the cast of "null" to uuid: the lease stays.
RecheckOutcome(q) ==
    CASE ~HasRecipient(q) /\ q.requester # Nobody -> "quarantining"
      [] ~HasRecipient(q) /\ q.requester = Nobody -> "holding"
      [] HasRecipient(q) /\ q.requester = Nobody -> "failed"
      [] OTHER -> IF <<q.requester, q.recipient>> \in verified THEN "holding" ELSE "quarantining"

Recheck(a) ==
    LET outcome == RecheckOutcome(request[held[a]]) IN
    /\ pc[a] = "rechecking"
    /\ IF outcome = "failed"
       THEN Idle(a)
       ELSE Goto(a, outcome) /\ UNCHANGED <<held, asOf, due>>
    /\ UNCHANGED <<rows, records, wire, world, crashes>>

\* Back to the review queue, whatever the row's status has become meanwhile.
Quarantine(a) ==
    /\ pc[a] = "quarantining"
    /\ status' = [status EXCEPT ![held[a]] = "pending"]
    /\ claimed' = claimed \ {held[a]}
    /\ Idle(a)
    /\ UNCHANGED <<request, ownerApproved, records, wire, world, crashes>>

-----------------------------------------------------------------------------
\* The agent: render, send, report.

\* A recipient is honoured on a reply only.
Target(q) == IF q.kind = "reply" /\ HasRecipient(q) THEN q.recipient ELSE DefaultTarget

Sendable(a) ==
    /\ pc[a] = "holding"
    /\ request[held[a]].kind # "typing"
    /\ Target(request[held[a]]) \in ValidTargets

HandToTransport(n) ==
    /\ sends' = [sends EXCEPT ![n] = @ + 1]
    /\ sentTo' = [sentTo EXCEPT ![n] = Target(request[n])]

Send(a) ==
    /\ Sendable(a)
    /\ HandToTransport(held[a])
    /\ Goto(a, "reporting")
    /\ UNCHANGED <<rows, records, held, asOf, due, world, crashes>>

\* Fault: a transport error is reported as a delivery.
SendFails_ReportsAnyway(a) ==
    /\ Sendable(a)
    /\ UNCHANGED wire
    /\ Goto(a, "reporting")
    /\ UNCHANGED <<rows, records, held, asOf, due, world, crashes>>

\* The transport's error does not say whether the message left.
SendFails(a) ==
    /\ Sendable(a)
    /\ HandToTransport(held[a]) \/ UNCHANGED wire
    /\ Idle(a)
    /\ UNCHANGED <<rows, records, world, crashes>>

\* A target the validators refuse: not sent, not reported, left to its TTL.
RefuseTarget(a) ==
    /\ pc[a] = "holding"
    /\ request[held[a]].kind # "typing"
    /\ Target(request[held[a]]) \notin ValidTargets
    /\ Idle(a)
    /\ UNCHANGED <<rows, records, wire, world, crashes>>

\* A typing notification switches the bubble on and is closed out at once.
ShowTyping(a) ==
    /\ pc[a] = "holding"
    /\ request[held[a]].kind = "typing"
    /\ Goto(a, "reporting")
    /\ UNCHANGED <<rows, records, wire, held, asOf, due, world, crashes>>

\* POST /harness/notifications/:id/delivered, the report is in time...
ReportInTime(a) ==
    LET n == held[a] IN
    /\ pc[a] = "reporting"
    /\ status[n] = "approved" /\ n \notin overdue
    /\ status' = [status EXCEPT ![n] = "delivered"]
    /\ IF request[n].kind = "typing"
       THEN Idle(a)
       ELSE Goto(a, "recording") /\ UNCHANGED <<held, asOf, due>>
    /\ UNCHANGED <<request, ownerApproved, claimed, records, wire, world, crashes>>

\* ... or too late, when it expires a row no sweep has reached yet.
ReportTooLate(a) ==
    LET n == held[a] IN
    /\ pc[a] = "reporting"
    /\ ~(status[n] = "approved" /\ n \notin overdue)
    /\ IF status[n] = "approved" THEN Expire(n) ELSE UNCHANGED <<status, deadLetters>>
    /\ Idle(a)
    /\ UNCHANGED <<request, ownerApproved, claimed, fingerprints, wire, world, crashes>>

RecordFingerprint(a) ==
    /\ pc[a] = "recording"
    /\ fingerprints' = fingerprints \union {held[a]}
    /\ Idle(a)
    /\ UNCHANGED <<rows, deadLetters, wire, world, crashes>>

\* The agent or its request dies, or one of the two answers is lost.
Crash(a) ==
    /\ pc[a] # "idle"
    /\ crashes < MaxCrashes
    /\ crashes' = crashes + 1
    /\ Idle(a)
    /\ UNCHANGED <<rows, records, wire, world>>

-----------------------------------------------------------------------------
\* What a cycle does on its own, once started and every pollSeconds again.
Cycle(a) ==
    \/ Poll(a)
    \/ \E n \in Notes : SweepOne(a, n)
    \/ Claim(a) \/ NothingToClaim(a)
    \/ Recheck(a) \/ Quarantine(a)
    \/ Send(a) \/ SendFails(a) \/ RefuseTarget(a) \/ ShowTyping(a)
    \/ ReportInTime(a) \/ ReportTooLate(a) \/ RecordFingerprint(a)

Next ==
    \/ \E n \in Notes : \E q \in Offers : Create(n, q)
    \/ \E n \in Notes : Approve(n) \/ Reject(n) \/ TtlPasses(n)
    \/ \E p \in Principals, h \in Handles : Pair(p, h)
    \/ \E a \in Agents : Cycle(a) \/ Crash(a) \/ \E n \in Notes : SweepDies(a, n)

\* Time passes, and an agent keeps polling (runLoop).
Fairness ==
    /\ \A n \in Notes : WF_vars(TtlPasses(n))
    /\ \A a \in Agents : WF_vars(Cycle(a))

Spec == Init /\ [][Next]_vars /\ Fairness

-----------------------------------------------------------------------------
Labels == {"idle", "sweeping", "rechecking", "quarantining", "holding", "reporting",
           "recording"}

\* The type invariant of the queue, its records and the agents' cycles.
TypeOK ==
    /\ status \in [Notes -> {"absent", "pending", "approved"} \union Terminal]
    /\ request \in [Notes -> Requests]
    /\ ownerApproved \subseteq Notes /\ claimed \subseteq Notes /\ overdue \subseteq Notes
    /\ verified \subseteq Principals \X Handles
    /\ deadLetters \subseteq Notes /\ fingerprints \subseteq Notes
    /\ sends \in [Notes -> Nat]
    /\ sentTo \in [Notes -> Handles \union {NoHandle, DefaultTarget}]
    /\ pc \in [Agents -> Labels]
    /\ held \in [Agents -> Notes \union {NoNote}]
    /\ \A a \in Agents : pc[a] \in {"idle", "sweeping"} <=> held[a] = NoNote
    /\ asOf \in [Agents -> SUBSET Notes]
    /\ due \in [Agents -> SUBSET Notes]
    /\ crashes \in 0..MaxCrashes

\* The lease is what makes delivery happen once: whatever agents crash, poll
\* together or lose answers, the transport is given a notification's text at
\* most once (service.ts 681-695, agent.ts 203-216).
AtMostOnceSend == \A n \in Notes : sends[n] <= 1

\* "Jehad OS never records a false delivery" (agent.ts 209-210): a row is
\* delivered, and a fingerprint of its text kept, only if the text was sent.
DeliveredWasSent ==
    \A n \in Notes :
        /\ status[n] = "delivered" => request[n].kind = "typing" \/ sends[n] > 0
        /\ n \in fingerprints => status[n] = "delivered" /\ sends[n] > 0

\* A reply that was sent went to a handle its requester has paired, or names
\* no one and went to the owner's own handle; any other message went to the
\* owner. The claim-time recheck holds against approvals of any kind.
SentWhereItBelongs ==
    \A n \in Notes : sends[n] > 0 =>
        LET q == request[n] IN
        \/ sentTo[n] = DefaultTarget /\ (q.kind = "reply" => q.requester = Nobody)
        \/ q.kind = "reply" /\ <<q.requester, sentTo[n]>> \in verified

\* Nothing is sent on the strength of policy alone but the kinds policy lists
\* and a reply to the very person whose conversation it answers: a reply to
\* anybody else was approved by the owner (service.ts 241-312).
UnreviewedIsSelfAddressed ==
    \A n \in Notes : sends[n] > 0 /\ n \notin ownerApproved =>
        LET q == request[n] IN
        \/ q.kind # "reply" /\ q.kind \in AutoApproveKinds
        \/ /\ q.kind = "reply" /\ ~q.thirdParty /\ q.requester # Nobody
           /\ q.conversation = q.requester /\ sentTo[n] = q.recipient

\* A dead letter says that a promised message never left (service.ts 555-562):
\* its row is expired, no agent had leased it, and nothing was sent.
DeadLetterWasNeverSent ==
    \A n \in deadLetters : status[n] = "expired" /\ n \notin claimed /\ sends[n] = 0

\* Every notification reaches a terminal status and stays there, even one whose
\* agent died, whose owner never looked, or that is quarantined again and again:
\* its TTL passes and a polling agent sweeps it (service.ts 636-652).
EveryRowSettles ==
    \A n \in Notes : status[n] # "absent" ~> [](status[n] \in Terminal)

\* The module's header (service.ts 9-11) calls rejected and expired "terminal
\* exits": no step takes a row out of a terminal status.
TerminalIsFinal ==
    [][\A n \in Notes : status[n] \in Terminal => status'[n] = status[n]]_vars

-----------------------------------------------------------------------------
\* For its creator an expired row is still open while a claim of it may be put
\* back by the recheck; anything else expired has lapsed.
BeingRechecked(n) == \E a \in Agents : held[a] = n /\ pc[a] \in {"rechecking", "quarantining"}

PhaseOf(n) ==
    IF Undecided(n) \/ (status[n] = "expired" /\ BeingRechecked(n)) THEN "open"
    ELSE IF status[n] = "expired" THEN "lapsed"
    ELSE IF status[n] = "rejected" THEN "refused"
    ELSE status[n]

Channel == INSTANCE OneShotChannel WITH
    phase <- [n \in Notes |-> PhaseOf(n)],
    control <- {n \in Notes : status[n] # "absent" /\ request[n].kind = "typing"},
    handed <- sends

\* The queue and its agents, seen through PhaseOf, are a one-shot channel.
ImplementsOneShotChannel == Channel!ChannelSpec
=============================================================================
