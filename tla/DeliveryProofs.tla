--------------------------- MODULE DeliveryProofs ---------------------------
(***************************************************************************)
(* What reaches the owner's phone: the notification queue that the edge    *)
(* drains, and the follow-ups that the reminder sweep puts on it. The two  *)
(* machines share no variable; each has its own invariant here.            *)
(*                                                                         *)
(* The queue, for every number of rows, agents, people and handles. None of *)
(* its invariants is inductive. What carries them is that a lease has one  *)
(* holder: a row somebody holds is claimed, a claimed row is never pending, *)
(* and a row is unclaimed again only by its one holder, before it was sent. *)
(*                                                                         *)
(* The follow-ups, for every number of reminders, sweeps and turns, and    *)
(* every policy whose hours are in order. A claim compares the instant it  *)
(* listed and nothing else, so what carries the bounds is that an instant  *)
(* names one touch: what a sweep lists is behind the row, and a nudge is   *)
(* on a later day than any list that is still to be claimed.               *)
(***************************************************************************)
EXTENDS EdgeDelivery, Reminders, TLAPS

-----------------------------------------------------------------------------
(* The notification queue *)

Holds(a) == held[a] # NoNote

\* The leases: one holder each, on rows that are past their review.
LeaseInv ==
    /\ \A n \in claimed : status[n] \in {"approved", "delivered", "expired"}
    /\ \A a \in Agents : Holds(a) => held[a] \in claimed
    /\ \A a, b \in Agents : Holds(a) /\ held[a] = held[b] => a = b

\* A row is sent under a lease, once, and not before its recheck is over.
SendInv ==
    /\ \A n \in Notes : sends[n] \in {0, 1}
    /\ \A n \in Notes : sends[n] > 0 => n \in claimed
    /\ \A a \in Agents :
        pc[a] \in {"rechecking", "quarantining", "holding"} => sends[held[a]] = 0

\* What the recheck established for the row the agent now holds.
Rechecked(q) ==
    q.kind = "reply" =>
        IF q.requester = Nobody
        THEN ~HasRecipient(q)
        ELSE HasRecipient(q) /\ <<q.requester, q.recipient>> \in verified

RecheckInv ==
    /\ \A a \in Agents :
        pc[a] \in {"holding", "reporting", "recording"} => Rechecked(request[held[a]])
    /\ \A a \in Agents :
        pc[a] \in {"rechecking", "quarantining"} => request[held[a]].kind = "reply"

\* A row is past its review because the owner or the policy let it.
ReviewInv ==
    \A n \in Notes :
        status[n] = "approved" \/ n \in claimed =>
            n \in ownerApproved \/ PolicyApproves(request[n])

\* What a report says, and what its second half may rely on.
ReportInv ==
    /\ \A a \in Agents :
        pc[a] \in {"reporting", "recording"} =>
            request[held[a]].kind = "typing" \/ sends[held[a]] > 0
    /\ \A a \in Agents :
        pc[a] = "recording" => status[held[a]] = "delivered" /\ sends[held[a]] > 0

IInv ==
    /\ TypeOK
    /\ LeaseInv
    /\ SendInv
    /\ RecheckInv
    /\ ReviewInv
    /\ ReportInv
    /\ DeliveredWasSent
    /\ SentWhereItBelongs
    /\ UnreviewedIsSelfAddressed
    /\ DeadLetterWasNeverSent

-----------------------------------------------------------------------------
LEMMA InitIInv == Init => IInv
<1> SUFFICES ASSUME Init PROVE IInv
  OBVIOUS
<1> USE ConstantsAssumption DEF Init
<1>1. TypeOK
  BY DEF TypeOK, Labels, Requests, NoRequest, Kinds
<1>2. LeaseInv /\ SendInv /\ RecheckInv /\ ReviewInv /\ ReportInv
  BY DEF LeaseInv, SendInv, RecheckInv, ReviewInv, ReportInv, Holds
<1>3. DeliveredWasSent /\ SentWhereItBelongs /\ UnreviewedIsSelfAddressed
      /\ DeadLetterWasNeverSent
  BY DEF DeliveredWasSent, SentWhereItBelongs, UnreviewedIsSelfAddressed,
         DeadLetterWasNeverSent
<1>. QED
  BY <1>1, <1>2, <1>3 DEF IInv

LEMMA CreateStep ==
    ASSUME IInv, NEW n \in Notes, NEW q \in Offers, Create(n, q)
    PROVE  IInv'
<1> USE ConstantsAssumption DEF IInv, TypeOK, Create, Goto, Idle, rows, records, wire,
             cycle, world
<1>1. TypeOK'
  BY DEF Labels, Terminal, OwesSentinel
<1>2. LeaseInv' /\ SendInv'
  BY DEF LeaseInv, SendInv, Holds
<1>3. RecheckInv' /\ ReviewInv' /\ ReportInv'
  BY DEF RecheckInv, Rechecked, HasRecipient, ReviewInv, PolicyApproves, ReplyApproved,
         ReportInv, LeaseInv, SendInv, Holds
<1>4. DeliveredWasSent' /\ DeadLetterWasNeverSent'
  BY DEF DeliveredWasSent, DeadLetterWasNeverSent, OwesSentinel, SendInv, LeaseInv,
         ReportInv, RecheckInv, Holds
<1>5. SentWhereItBelongs' /\ UnreviewedIsSelfAddressed'
  BY DEF SentWhereItBelongs, UnreviewedIsSelfAddressed, SendInv, LeaseInv
<1>. QED
  BY <1>1, <1>2, <1>3, <1>4, <1>5

LEMMA ApproveStep ==
    ASSUME IInv, NEW n \in Notes, Approve(n)
    PROVE  IInv'
<1> USE ConstantsAssumption DEF IInv, TypeOK, Approve, Goto, Idle, rows, records, wire,
             cycle, world
<1>1. TypeOK'
  BY DEF Labels, Terminal, OwesSentinel
<1>2. LeaseInv' /\ SendInv'
  BY DEF LeaseInv, SendInv, Holds
<1>3. RecheckInv' /\ ReviewInv' /\ ReportInv'
  BY DEF RecheckInv, Rechecked, HasRecipient, ReviewInv, PolicyApproves, ReplyApproved,
         ReportInv, LeaseInv, SendInv, Holds
<1>4. DeliveredWasSent' /\ DeadLetterWasNeverSent'
  BY DEF DeliveredWasSent, DeadLetterWasNeverSent, OwesSentinel, SendInv, LeaseInv,
         ReportInv, RecheckInv, Holds
<1>5. SentWhereItBelongs' /\ UnreviewedIsSelfAddressed'
  BY DEF SentWhereItBelongs, UnreviewedIsSelfAddressed, SendInv, LeaseInv
<1>. QED
  BY <1>1, <1>2, <1>3, <1>4, <1>5

LEMMA RejectStep ==
    ASSUME IInv, NEW n \in Notes, Reject(n)
    PROVE  IInv'
<1> USE ConstantsAssumption DEF IInv, TypeOK, Reject, Goto, Idle, rows, records, wire,
             cycle, world
<1>1. TypeOK'
  BY DEF Labels, Terminal, OwesSentinel
<1>2. LeaseInv' /\ SendInv'
  BY DEF LeaseInv, SendInv, Holds
<1>3. RecheckInv' /\ ReviewInv' /\ ReportInv'
  BY DEF RecheckInv, Rechecked, HasRecipient, ReviewInv, PolicyApproves, ReplyApproved,
         ReportInv, LeaseInv, SendInv, Holds
<1>4. DeliveredWasSent' /\ DeadLetterWasNeverSent'
  BY DEF DeliveredWasSent, DeadLetterWasNeverSent, OwesSentinel, SendInv, LeaseInv,
         ReportInv, RecheckInv, Holds
<1>5. SentWhereItBelongs' /\ UnreviewedIsSelfAddressed'
  BY DEF SentWhereItBelongs, UnreviewedIsSelfAddressed, SendInv, LeaseInv
<1>. QED
  BY <1>1, <1>2, <1>3, <1>4, <1>5

LEMMA TtlPassesStep ==
    ASSUME IInv, NEW n \in Notes, TtlPasses(n)
    PROVE  IInv'
<1> USE ConstantsAssumption DEF IInv, TypeOK, TtlPasses, Goto, Idle, rows, records,
             wire, cycle, world
<1>1. TypeOK'
  BY DEF Labels, Terminal, OwesSentinel
<1>2. LeaseInv' /\ SendInv'
  BY DEF LeaseInv, SendInv, Holds
<1>3. RecheckInv' /\ ReviewInv' /\ ReportInv'
  BY DEF RecheckInv, Rechecked, HasRecipient, ReviewInv, PolicyApproves, ReplyApproved,
         ReportInv, LeaseInv, SendInv, Holds
<1>4. DeliveredWasSent' /\ DeadLetterWasNeverSent'
  BY DEF DeliveredWasSent, DeadLetterWasNeverSent, OwesSentinel, SendInv, LeaseInv,
         ReportInv, RecheckInv, Holds
<1>5. SentWhereItBelongs' /\ UnreviewedIsSelfAddressed'
  BY DEF SentWhereItBelongs, UnreviewedIsSelfAddressed, SendInv, LeaseInv
<1>. QED
  BY <1>1, <1>2, <1>3, <1>4, <1>5

LEMMA PairStep ==
    ASSUME IInv, NEW p \in Principals, NEW h \in Handles, Pair(p, h)
    PROVE  IInv'
<1> USE ConstantsAssumption DEF IInv, TypeOK, Pair, Goto, Idle, rows, records, wire,
             cycle, world
<1>1. TypeOK'
  BY DEF Labels, Terminal, OwesSentinel
<1>2. LeaseInv' /\ SendInv'
  BY DEF LeaseInv, SendInv, Holds
<1>3. RecheckInv' /\ ReviewInv' /\ ReportInv'
  BY DEF RecheckInv, Rechecked, HasRecipient, ReviewInv, PolicyApproves, ReplyApproved,
         ReportInv, LeaseInv, SendInv, Holds
<1>4. DeliveredWasSent' /\ DeadLetterWasNeverSent'
  BY DEF DeliveredWasSent, DeadLetterWasNeverSent, OwesSentinel, SendInv, LeaseInv,
         ReportInv, RecheckInv, Holds
<1>5. SentWhereItBelongs' /\ UnreviewedIsSelfAddressed'
  BY DEF SentWhereItBelongs, UnreviewedIsSelfAddressed, SendInv, LeaseInv
<1>. QED
  BY <1>1, <1>2, <1>3, <1>4, <1>5

LEMMA PollStep ==
    ASSUME IInv, NEW a \in Agents, Poll(a)
    PROVE  IInv'
<1> USE ConstantsAssumption DEF IInv, TypeOK, Poll, Goto, Idle, rows, records, wire,
             cycle, world
<1>1. TypeOK'
  BY DEF Labels, Terminal, OwesSentinel
<1>2. LeaseInv' /\ SendInv'
  BY DEF LeaseInv, SendInv, Holds
<1>3. RecheckInv' /\ ReviewInv' /\ ReportInv'
  BY DEF RecheckInv, Rechecked, HasRecipient, ReviewInv, PolicyApproves, ReplyApproved,
         ReportInv, LeaseInv, SendInv, Holds
<1>4. DeliveredWasSent' /\ DeadLetterWasNeverSent'
  BY DEF DeliveredWasSent, DeadLetterWasNeverSent, OwesSentinel, SendInv, LeaseInv,
         ReportInv, RecheckInv, Holds
<1>5. SentWhereItBelongs' /\ UnreviewedIsSelfAddressed'
  BY DEF SentWhereItBelongs, UnreviewedIsSelfAddressed, SendInv, LeaseInv
<1>. QED
  BY <1>1, <1>2, <1>3, <1>4, <1>5

LEMMA SweepOneStep ==
    ASSUME IInv, NEW a \in Agents, NEW n \in Notes, SweepOne(a, n)
    PROVE  IInv'
<1> USE ConstantsAssumption DEF IInv, TypeOK, SweepOne, Expire, Expirable, Undecided,
             Goto, Idle, rows, records, wire, cycle, world
<1>1. TypeOK'
  BY DEF Labels, Terminal, OwesSentinel
<1>2. LeaseInv' /\ SendInv'
  BY DEF LeaseInv, SendInv, Holds
<1>3. RecheckInv' /\ ReviewInv' /\ ReportInv'
  BY DEF RecheckInv, Rechecked, HasRecipient, ReviewInv, PolicyApproves, ReplyApproved,
         ReportInv, LeaseInv, SendInv, Holds
<1>4. DeliveredWasSent' /\ DeadLetterWasNeverSent'
  BY DEF DeliveredWasSent, DeadLetterWasNeverSent, OwesSentinel, SendInv, LeaseInv,
         ReportInv, RecheckInv, Holds
<1>5. SentWhereItBelongs' /\ UnreviewedIsSelfAddressed'
  BY DEF SentWhereItBelongs, UnreviewedIsSelfAddressed, SendInv, LeaseInv
<1>. QED
  BY <1>1, <1>2, <1>3, <1>4, <1>5

LEMMA SweepDiesStep ==
    ASSUME IInv, NEW a \in Agents, NEW n \in Notes, SweepDies(a, n)
    PROVE  IInv'
<1> USE ConstantsAssumption DEF IInv, TypeOK, SweepDies, Expirable, Undecided, Goto,
             Idle, rows, records, wire, cycle, world
<1>1. TypeOK'
  BY DEF Labels, Terminal, OwesSentinel
<1>2. LeaseInv' /\ SendInv'
  BY DEF LeaseInv, SendInv, Holds
<1>3. RecheckInv' /\ ReviewInv' /\ ReportInv'
  BY DEF RecheckInv, Rechecked, HasRecipient, ReviewInv, PolicyApproves, ReplyApproved,
         ReportInv, LeaseInv, SendInv, Holds
<1>4. DeliveredWasSent' /\ DeadLetterWasNeverSent'
  BY DEF DeliveredWasSent, DeadLetterWasNeverSent, OwesSentinel, SendInv, LeaseInv,
         ReportInv, RecheckInv, Holds
<1>5. SentWhereItBelongs' /\ UnreviewedIsSelfAddressed'
  BY DEF SentWhereItBelongs, UnreviewedIsSelfAddressed, SendInv, LeaseInv
<1>. QED
  BY <1>1, <1>2, <1>3, <1>4, <1>5

LEMMA ClaimStep ==
    ASSUME IInv, NEW a \in Agents, Claim(a)
    PROVE  IInv'
<1> USE ConstantsAssumption DEF IInv, TypeOK, Claim, Claimable, Goto, Idle, rows,
             records, wire, cycle, world
<1>1. TypeOK'
  BY DEF Labels, Terminal, OwesSentinel
<1>2. LeaseInv' /\ SendInv'
  BY DEF LeaseInv, SendInv, Holds
<1>3. RecheckInv' /\ ReviewInv' /\ ReportInv'
  BY DEF RecheckInv, Rechecked, HasRecipient, ReviewInv, PolicyApproves, ReplyApproved,
         ReportInv, LeaseInv, SendInv, Holds
<1>4. DeliveredWasSent' /\ DeadLetterWasNeverSent'
  BY DEF DeliveredWasSent, DeadLetterWasNeverSent, OwesSentinel, SendInv, LeaseInv,
         ReportInv, RecheckInv, Holds
<1>5. SentWhereItBelongs' /\ UnreviewedIsSelfAddressed'
  BY DEF SentWhereItBelongs, UnreviewedIsSelfAddressed, SendInv, LeaseInv
<1>. QED
  BY <1>1, <1>2, <1>3, <1>4, <1>5

LEMMA NothingToClaimStep ==
    ASSUME IInv, NEW a \in Agents, NothingToClaim(a)
    PROVE  IInv'
<1> USE ConstantsAssumption DEF IInv, TypeOK, NothingToClaim, Goto, Idle, rows, records,
             wire, cycle, world
<1>1. TypeOK'
  BY DEF Labels, Terminal, OwesSentinel
<1>2. LeaseInv' /\ SendInv'
  BY DEF LeaseInv, SendInv, Holds
<1>3. RecheckInv' /\ ReviewInv' /\ ReportInv'
  BY DEF RecheckInv, Rechecked, HasRecipient, ReviewInv, PolicyApproves, ReplyApproved,
         ReportInv, LeaseInv, SendInv, Holds
<1>4. DeliveredWasSent' /\ DeadLetterWasNeverSent'
  BY DEF DeliveredWasSent, DeadLetterWasNeverSent, OwesSentinel, SendInv, LeaseInv,
         ReportInv, RecheckInv, Holds
<1>5. SentWhereItBelongs' /\ UnreviewedIsSelfAddressed'
  BY DEF SentWhereItBelongs, UnreviewedIsSelfAddressed, SendInv, LeaseInv
<1>. QED
  BY <1>1, <1>2, <1>3, <1>4, <1>5

LEMMA RecheckStep ==
    ASSUME IInv, NEW a \in Agents, Recheck(a)
    PROVE  IInv'
<1> USE ConstantsAssumption DEF IInv, TypeOK, Recheck, RecheckOutcome, Goto, Idle, rows,
             records, wire, cycle, world
<1>1. TypeOK'
  BY DEF Labels, Terminal, OwesSentinel
<1>2. LeaseInv' /\ SendInv'
  BY DEF LeaseInv, SendInv, Holds
<1>3. RecheckInv' /\ ReviewInv' /\ ReportInv'
  <2>1. pc'[a] = "holding" => Rechecked(request[held[a]])
    BY DEF Rechecked
  <2>2. RecheckInv'
    BY <2>1 DEF RecheckInv, Rechecked
  <2>3. ReviewInv'
    BY DEF ReviewInv, PolicyApproves, ReplyApproved, HasRecipient
  <2>4. ReportInv'
    BY DEF ReportInv
  <2> QED BY <2>2, <2>3, <2>4
<1>4. DeliveredWasSent' /\ DeadLetterWasNeverSent'
  BY DEF DeliveredWasSent, DeadLetterWasNeverSent, OwesSentinel, SendInv, LeaseInv,
         ReportInv, RecheckInv, Holds
<1>5. SentWhereItBelongs' /\ UnreviewedIsSelfAddressed'
  BY DEF SentWhereItBelongs, UnreviewedIsSelfAddressed, SendInv, LeaseInv
<1>. QED
  BY <1>1, <1>2, <1>3, <1>4, <1>5

LEMMA QuarantineStep ==
    ASSUME IInv, NEW a \in Agents, Quarantine(a)
    PROVE  IInv'
<1> USE ConstantsAssumption DEF IInv, TypeOK, Quarantine, Goto, Idle, rows, records,
             wire, cycle, world
<1>1. TypeOK'
  BY DEF Labels, Terminal, OwesSentinel
<1>2. LeaseInv' /\ SendInv'
  BY DEF LeaseInv, SendInv, Holds
<1>3. RecheckInv' /\ ReviewInv' /\ ReportInv'
  BY DEF RecheckInv, Rechecked, HasRecipient, ReviewInv, PolicyApproves, ReplyApproved,
         ReportInv, LeaseInv, SendInv, Holds
<1>4. DeliveredWasSent' /\ DeadLetterWasNeverSent'
  BY DEF DeliveredWasSent, DeadLetterWasNeverSent, OwesSentinel, SendInv, LeaseInv,
         ReportInv, RecheckInv, Holds
<1>5. SentWhereItBelongs' /\ UnreviewedIsSelfAddressed'
  BY DEF SentWhereItBelongs, UnreviewedIsSelfAddressed, SendInv, LeaseInv
<1>. QED
  BY <1>1, <1>2, <1>3, <1>4, <1>5

\* The one step that sends: the row's lease, review and recheck are behind it.
LEMMA SendingIsSafe ==
    ASSUME IInv, NEW a \in Agents, Sendable(a), HandToTransport(held[a]),
           UNCHANGED <<request, ownerApproved, verified>>
    PROVE  SentWhereItBelongs' /\ UnreviewedIsSelfAddressed'
<1> DEFINE n == held[a]
<1> DEFINE q == request[n]
<1>1. n \in claimed /\ sends[n] = 0 /\ Rechecked(q) /\ n \in Notes
  BY ConstantsAssumption DEF IInv, TypeOK, LeaseInv, Holds, SendInv, RecheckInv, Sendable
<1>2. n \in ownerApproved \/ PolicyApproves(q)
  BY <1>1 DEF IInv, ReviewInv
<1>3. /\ sentTo'[n] = Target(q)
      /\ \A m \in Notes \ {n} : sends'[m] = sends[m] /\ sentTo'[m] = sentTo[m]
  BY <1>1 DEF IInv, TypeOK, HandToTransport
<1>4. SentWhereItBelongs'
  BY <1>1, <1>3 DEF IInv, SentWhereItBelongs, Rechecked, Target
<1>5. UnreviewedIsSelfAddressed'
  <2> SUFFICES ASSUME NEW m \in Notes, sends'[m] > 0, m \notin ownerApproved
               PROVE  \/ request[m].kind # "reply" /\ request[m].kind \in AutoApproveKinds
                      \/ /\ request[m].kind = "reply" /\ ~request[m].thirdParty
                         /\ request[m].requester # Nobody
                         /\ request[m].conversation = request[m].requester
                         /\ sentTo'[m] = request[m].recipient
    BY DEF UnreviewedIsSelfAddressed
  <2>1. CASE m = n
    <3>1. CASE q.kind = "reply"
      <4>1. ReplyApproved(q)
        BY <1>2, <2>1, <3>1 DEF PolicyApproves
      <4>2. q.requester # Nobody
        BY <4>1, ConstantsAssumption DEF IInv, TypeOK, ReplyApproved
      <4>. QED
        BY <1>1, <1>3, <2>1, <3>1, <4>1, <4>2 DEF ReplyApproved, Rechecked, Target
    <3>2. CASE q.kind # "reply"
      BY <1>2, <2>1, <3>2 DEF PolicyApproves
    <3>. QED
      BY <3>1, <3>2
  <2>2. CASE m # n
    BY <1>3, <2>2 DEF IInv, UnreviewedIsSelfAddressed
  <2>. QED
    BY <2>1, <2>2
<1>. QED
  BY <1>4, <1>5

LEMMA SendStep ==
    ASSUME IInv, NEW a \in Agents, Send(a)
    PROVE  IInv'
<1> USE ConstantsAssumption DEF IInv, TypeOK, Send, Sendable, HandToTransport, Goto,
             Idle, rows, records, wire, cycle, world
<1>1. TypeOK'
  BY DEF Labels, Terminal, OwesSentinel, Target, HasRecipient, Requests
<1>2. LeaseInv' /\ SendInv'
  BY DEF LeaseInv, SendInv, Holds
<1>3. RecheckInv' /\ ReviewInv' /\ ReportInv'
  BY DEF RecheckInv, Rechecked, HasRecipient, ReviewInv, PolicyApproves, ReplyApproved,
         ReportInv, LeaseInv, SendInv, Holds
<1>4. DeliveredWasSent' /\ DeadLetterWasNeverSent'
  BY DEF DeliveredWasSent, DeadLetterWasNeverSent, OwesSentinel, SendInv, LeaseInv,
         ReportInv, RecheckInv, Holds
<1>5. SentWhereItBelongs' /\ UnreviewedIsSelfAddressed'
  BY SendingIsSafe
<1>. QED
  BY <1>1, <1>2, <1>3, <1>4, <1>5

LEMMA SendFailsStep ==
    ASSUME IInv, NEW a \in Agents, SendFails(a)
    PROVE  IInv'
<1> USE ConstantsAssumption DEF IInv, TypeOK, SendFails, Sendable, HandToTransport,
             Goto, Idle, rows, records, wire, cycle, world
<1>1. TypeOK'
  <2>1. Target(request[held[a]]) \in Handles \union {NoHandle, DefaultTarget}
    BY DEF Target, HasRecipient, Requests, Labels
  <2> QED BY <2>1 DEF Labels, Terminal, OwesSentinel
<1>2. LeaseInv' /\ SendInv'
  BY DEF LeaseInv, SendInv, Holds
<1>3. RecheckInv' /\ ReviewInv' /\ ReportInv'
  <2>1. RecheckInv' /\ ReviewInv'
    BY DEF RecheckInv, Rechecked, HasRecipient, ReviewInv, PolicyApproves, ReplyApproved
  <2>2. ReportInv'
    BY DEF ReportInv, LeaseInv, SendInv, Holds
  <2>. QED
    BY <2>1, <2>2
<1>4. DeliveredWasSent' /\ DeadLetterWasNeverSent'
  BY DEF DeliveredWasSent, DeadLetterWasNeverSent, OwesSentinel, SendInv, LeaseInv,
         ReportInv, RecheckInv, Holds
<1>5. SentWhereItBelongs' /\ UnreviewedIsSelfAddressed'
  <2>1. CASE HandToTransport(held[a])
    BY <2>1, SendingIsSafe
  <2>2. CASE UNCHANGED wire
    BY <2>2 DEF SentWhereItBelongs, UnreviewedIsSelfAddressed
  <2>. QED
    BY <2>1, <2>2
<1>. QED
  BY <1>1, <1>2, <1>3, <1>4, <1>5

LEMMA RefuseTargetStep ==
    ASSUME IInv, NEW a \in Agents, RefuseTarget(a)
    PROVE  IInv'
<1> USE ConstantsAssumption DEF IInv, TypeOK, RefuseTarget, Goto, Idle, rows, records,
             wire, cycle, world
<1>1. TypeOK'
  BY DEF Labels, Terminal, OwesSentinel
<1>2. LeaseInv' /\ SendInv'
  BY DEF LeaseInv, SendInv, Holds
<1>3. RecheckInv' /\ ReviewInv' /\ ReportInv'
  BY DEF RecheckInv, Rechecked, HasRecipient, ReviewInv, PolicyApproves, ReplyApproved,
         ReportInv, LeaseInv, SendInv, Holds
<1>4. DeliveredWasSent' /\ DeadLetterWasNeverSent'
  BY DEF DeliveredWasSent, DeadLetterWasNeverSent, OwesSentinel, SendInv, LeaseInv,
         ReportInv, RecheckInv, Holds
<1>5. SentWhereItBelongs' /\ UnreviewedIsSelfAddressed'
  BY DEF SentWhereItBelongs, UnreviewedIsSelfAddressed, SendInv, LeaseInv
<1>. QED
  BY <1>1, <1>2, <1>3, <1>4, <1>5

LEMMA ShowTypingStep ==
    ASSUME IInv, NEW a \in Agents, ShowTyping(a)
    PROVE  IInv'
<1> USE ConstantsAssumption DEF IInv, TypeOK, ShowTyping, Goto, Idle, rows, records,
             wire, cycle, world
<1>1. TypeOK'
  BY DEF Labels, Terminal, OwesSentinel
<1>2. LeaseInv' /\ SendInv'
  BY DEF LeaseInv, SendInv, Holds
<1>3. RecheckInv' /\ ReviewInv' /\ ReportInv'
  BY DEF RecheckInv, Rechecked, HasRecipient, ReviewInv, PolicyApproves, ReplyApproved,
         ReportInv, LeaseInv, SendInv, Holds
<1>4. DeliveredWasSent' /\ DeadLetterWasNeverSent'
  BY DEF DeliveredWasSent, DeadLetterWasNeverSent, OwesSentinel, SendInv, LeaseInv,
         ReportInv, RecheckInv, Holds
<1>5. SentWhereItBelongs' /\ UnreviewedIsSelfAddressed'
  BY DEF SentWhereItBelongs, UnreviewedIsSelfAddressed, SendInv, LeaseInv
<1>. QED
  BY <1>1, <1>2, <1>3, <1>4, <1>5

LEMMA ReportInTimeStep ==
    ASSUME IInv, NEW a \in Agents, ReportInTime(a)
    PROVE  IInv'
<1> USE ConstantsAssumption DEF IInv, TypeOK, ReportInTime, Goto, Idle, rows, records,
             wire, cycle, world
<1>1. TypeOK'
  BY DEF Labels, Terminal, OwesSentinel
<1>2. LeaseInv' /\ SendInv'
  BY DEF LeaseInv, SendInv, Holds
<1>3. RecheckInv' /\ ReviewInv' /\ ReportInv'
  BY DEF RecheckInv, Rechecked, HasRecipient, ReviewInv, PolicyApproves, ReplyApproved,
         ReportInv, LeaseInv, SendInv, Holds
<1>4. DeliveredWasSent' /\ DeadLetterWasNeverSent'
  BY DEF DeliveredWasSent, DeadLetterWasNeverSent, OwesSentinel, SendInv, LeaseInv,
         ReportInv, RecheckInv, Holds
<1>5. SentWhereItBelongs' /\ UnreviewedIsSelfAddressed'
  BY DEF SentWhereItBelongs, UnreviewedIsSelfAddressed, SendInv, LeaseInv
<1>. QED
  BY <1>1, <1>2, <1>3, <1>4, <1>5

LEMMA ReportTooLateStep ==
    ASSUME IInv, NEW a \in Agents, ReportTooLate(a)
    PROVE  IInv'
<1> USE ConstantsAssumption DEF IInv, TypeOK, ReportTooLate, Expire, Goto, Idle, rows,
             records, wire, cycle, world
<1>1. TypeOK'
  BY DEF Labels, Terminal, OwesSentinel
<1>2. LeaseInv' /\ SendInv'
  BY DEF LeaseInv, SendInv, Holds
<1>3. RecheckInv' /\ ReviewInv' /\ ReportInv'
  BY DEF RecheckInv, Rechecked, HasRecipient, ReviewInv, PolicyApproves, ReplyApproved,
         ReportInv, LeaseInv, SendInv, Holds
<1>4. DeliveredWasSent' /\ DeadLetterWasNeverSent'
  BY DEF DeliveredWasSent, DeadLetterWasNeverSent, OwesSentinel, SendInv, LeaseInv,
         ReportInv, RecheckInv, Holds
<1>5. SentWhereItBelongs' /\ UnreviewedIsSelfAddressed'
  BY DEF SentWhereItBelongs, UnreviewedIsSelfAddressed, SendInv, LeaseInv
<1>. QED
  BY <1>1, <1>2, <1>3, <1>4, <1>5

LEMMA RecordFingerprintStep ==
    ASSUME IInv, NEW a \in Agents, RecordFingerprint(a)
    PROVE  IInv'
<1> USE ConstantsAssumption DEF IInv, TypeOK, RecordFingerprint, Goto, Idle, rows,
             records, wire, cycle, world
<1>1. TypeOK'
  BY DEF Labels, Terminal, OwesSentinel
<1>2. LeaseInv' /\ SendInv'
  BY DEF LeaseInv, SendInv, Holds
<1>3. RecheckInv' /\ ReviewInv' /\ ReportInv'
  BY DEF RecheckInv, Rechecked, HasRecipient, ReviewInv, PolicyApproves, ReplyApproved,
         ReportInv, LeaseInv, SendInv, Holds
<1>4. DeliveredWasSent' /\ DeadLetterWasNeverSent'
  BY DEF DeliveredWasSent, DeadLetterWasNeverSent, OwesSentinel, SendInv, LeaseInv,
         ReportInv, RecheckInv, Holds
<1>5. SentWhereItBelongs' /\ UnreviewedIsSelfAddressed'
  BY DEF SentWhereItBelongs, UnreviewedIsSelfAddressed, SendInv, LeaseInv
<1>. QED
  BY <1>1, <1>2, <1>3, <1>4, <1>5

LEMMA CrashStep ==
    ASSUME IInv, NEW a \in Agents, Crash(a)
    PROVE  IInv'
<1> USE ConstantsAssumption DEF IInv, TypeOK, Crash, Goto, Idle, rows, records, wire,
             cycle, world
<1>1. TypeOK'
  BY DEF Labels, Terminal, OwesSentinel
<1>2. LeaseInv' /\ SendInv'
  BY DEF LeaseInv, SendInv, Holds
<1>3. RecheckInv' /\ ReviewInv' /\ ReportInv'
  BY DEF RecheckInv, Rechecked, HasRecipient, ReviewInv, PolicyApproves, ReplyApproved,
         ReportInv, LeaseInv, SendInv, Holds
<1>4. DeliveredWasSent' /\ DeadLetterWasNeverSent'
  BY DEF DeliveredWasSent, DeadLetterWasNeverSent, OwesSentinel, SendInv, LeaseInv,
         ReportInv, RecheckInv, Holds
<1>5. SentWhereItBelongs' /\ UnreviewedIsSelfAddressed'
  BY DEF SentWhereItBelongs, UnreviewedIsSelfAddressed, SendInv, LeaseInv
<1>. QED
  BY <1>1, <1>2, <1>3, <1>4, <1>5

-----------------------------------------------------------------------------
\* IInv is inductive: every step, and every stutter, preserves it.
LEMMA StepIInv == IInv /\ [Next]_vars => IInv'
<1> SUFFICES ASSUME IInv, [Next]_vars PROVE IInv'
  OBVIOUS
<1>1. CASE \E n \in Notes : \E q \in Offers : Create(n, q)
  BY <1>1, CreateStep
<1>2. CASE \E n \in Notes : Approve(n) \/ Reject(n) \/ TtlPasses(n)
  BY <1>2, ApproveStep, RejectStep, TtlPassesStep
<1>3. CASE \E p \in Principals, h \in Handles : Pair(p, h)
  BY <1>3, PairStep
<1>4. ASSUME NEW a \in Agents, Cycle(a) PROVE IInv'
  BY <1>4, PollStep, SweepOneStep, ClaimStep, NothingToClaimStep, RecheckStep,
     QuarantineStep, SendStep, SendFailsStep, RefuseTargetStep, ShowTypingStep,
     ReportInTimeStep, ReportTooLateStep, RecordFingerprintStep DEF Cycle
<1>5. CASE \E a \in Agents : Crash(a) \/ \E n \in Notes : SweepDies(a, n)
  BY <1>5, CrashStep, SweepDiesStep
<1>6. CASE UNCHANGED vars
  BY <1>6 DEF vars, rows, records, wire, cycle, world, IInv, TypeOK, LeaseInv, Holds,
     SendInv, RecheckInv, Rechecked, HasRecipient, ReviewInv, PolicyApproves,
     ReplyApproved, ReportInv, DeliveredWasSent, SentWhereItBelongs,
     UnreviewedIsSelfAddressed, DeadLetterWasNeverSent
<1>. QED
  BY <1>1, <1>2, <1>3, <1>4, <1>5, <1>6 DEF Next

LEMMA Invariance == Spec => []IInv
<1>. QED
  BY InitIInv, StepIInv, PTL DEF Spec

\* The type invariant of the queue, its records and the agents' cycles.
THEOREM QueueIsTyped == Spec => []TypeOK
BY Invariance, PTL DEF IInv

\* However many agents poll, crash and lose answers, the transport is given the
\* text of a notification at most once (service.ts 681-695, agent.ts 203-216).
THEOREM EachTextIsSentOnce == Spec => []AtMostOnceSend
<1>1. IInv => AtMostOnceSend
  BY DEF IInv, SendInv, AtMostOnceSend
<1>. QED
  BY <1>1, Invariance, PTL

\* A row is delivered, and fingerprinted, only if its text was sent, or if it is
\* a typing notification, which has none (agent.ts 169-183, 208-214).
THEOREM NoFalseDelivery == Spec => []DeliveredWasSent
BY Invariance, PTL DEF IInv

\* A reply goes to a handle its requester paired, or, when it names nobody, to
\* the owner; everything else goes to the owner (service.ts 698-746).
THEOREM RepliesReachTheirRequester == Spec => []SentWhereItBelongs
BY Invariance, PTL DEF IInv

\* What was sent without the owner's approval is of a kind policy lists, or
\* answers the very person it is sent to (service.ts 241-312, 389-404).
THEOREM NothingSlipsPastReview == Spec => []UnreviewedIsSelfAddressed
BY Invariance, PTL DEF IInv

\* A dead letter's row is expired, was never leased and never sent
\* (service.ts 555-633).
THEOREM DeadLettersAreTrue == Spec => []DeadLetterWasNeverSent
BY Invariance, PTL DEF IInv

-----------------------------------------------------------------------------
\* The queue implements the one-shot channel.

Phase == [n \in Notes |-> PhaseOf(n)]
Control == {n \in Notes : status[n] # "absent" /\ request[n].kind = "typing"}

\* A step that leaves every row where it is, or lets one open row lapse, is a
\* stutter or a step of the channel.
LEMMA Quiet ==
    ASSUME UNCHANGED sends, Control' = Control, \A m \in Notes : PhaseOf(m)' = PhaseOf(m)
    PROVE  UNCHANGED Channel!cvars
<1>1. Phase' = Phase
  BY DEF Phase
<1>. QED
  BY <1>1 DEF Channel!cvars, Phase, Control

LEMMA QuietOrLapse ==
    ASSUME NEW n \in Notes, UNCHANGED sends, Control' = Control,
           \A m \in Notes \ {n} : PhaseOf(m)' = PhaseOf(m),
           PhaseOf(n)' = PhaseOf(n) \/ (PhaseOf(n) = "open" /\ PhaseOf(n)' = "lapsed")
    PROVE  [Channel!ChannelNext]_(Channel!cvars)
<1>1. CASE PhaseOf(n)' = PhaseOf(n)
  BY <1>1, Quiet
<1>2. CASE PhaseOf(n) = "open" /\ PhaseOf(n)' = "lapsed"
  <2>1. Phase' = [Phase EXCEPT ![n] = "lapsed"]
    BY <1>2 DEF Phase
  <2>2. Channel!Lapse(n)
    BY <1>2, <2>1 DEF Channel!Lapse, Channel!Open, Phase, Control
  <2>. QED
    BY <2>2 DEF Channel!ChannelNext
<1>. QED
  BY <1>1, <1>2

LEMMA InitChannel == Init => Channel!ChannelInit
BY DEF Init, Channel!ChannelInit, PhaseOf, Undecided

\* The steps the channel does not see.
LEMMA QuietSteps ==
    ASSUME IInv, NEW a \in Agents,
           \/ Poll(a) \/ Claim(a) \/ NothingToClaim(a) \/ RefuseTarget(a)
           \/ ShowTyping(a) \/ RecordFingerprint(a) \/ Quarantine(a)
    PROVE  UNCHANGED Channel!cvars
<1> USE ConstantsAssumption DEF IInv, TypeOK, Goto, Idle, rows, records, wire, cycle, world,
             Control, PhaseOf, Undecided, BeingRechecked
<1>1. CASE Poll(a)
  BY <1>1, Quiet DEF Poll
<1>2. CASE Claim(a)
  BY <1>2, Quiet DEF Claim, Claimable
<1>3. CASE NothingToClaim(a)
  BY <1>3, Quiet DEF NothingToClaim
<1>4. CASE RefuseTarget(a)
  BY <1>4, Quiet DEF RefuseTarget
<1>5. CASE ShowTyping(a)
  BY <1>5, Quiet DEF ShowTyping
<1>6. CASE RecordFingerprint(a)
  BY <1>6, Quiet DEF RecordFingerprint
<1>7. CASE Quarantine(a)
  <2>0. PICK n \in Notes : n = held[a]
    BY <1>7 DEF Quarantine
  <2>1. status[n] \in {"approved", "expired"} /\ pc[a] = "quarantining"
    BY <1>7, <2>0 DEF Quarantine, LeaseInv, Holds, SendInv, RecheckInv, DeliveredWasSent
  <2>2. PhaseOf(n)' = PhaseOf(n)
    BY <1>7, <2>0, <2>1 DEF Quarantine
  <2>3. \A m \in Notes \ {n} : PhaseOf(m)' = PhaseOf(m)
    BY <1>7, <2>0 DEF Quarantine
  <2>. QED
    BY <1>7, <2>2, <2>3, Quiet DEF Quarantine
<1>. QED
  BY <1>1, <1>2, <1>3, <1>4, <1>5, <1>6, <1>7

\* The steps that may let the row an agent or a sweep is at lapse.
LEMMA LapsingSteps ==
    ASSUME IInv, NEW a \in Agents,
           \/ Recheck(a) \/ Crash(a) \/ ReportTooLate(a)
           \/ \E n \in Notes : SweepOne(a, n) \/ SweepDies(a, n)
    PROVE  [Channel!ChannelNext]_(Channel!cvars)
<1> USE ConstantsAssumption DEF IInv, TypeOK, Goto, Idle, rows, records, wire, cycle, world,
             Control, PhaseOf, Undecided, BeingRechecked, Expire
<1>1. CASE Recheck(a)
  <2>1. PICK n \in Notes : n = held[a]
    BY <1>1 DEF Recheck
  <2>2. \A m \in Notes \ {n} : PhaseOf(m)' = PhaseOf(m)
    BY <1>1, <2>1 DEF Recheck, RecheckOutcome
  <2>3. PhaseOf(n)' = PhaseOf(n) \/ (PhaseOf(n) = "open" /\ PhaseOf(n)' = "lapsed")
    BY <1>1, <2>1 DEF Recheck, RecheckOutcome
  <2>. QED
    BY <1>1, <2>1, <2>2, <2>3, QuietOrLapse DEF Recheck
<1>2. CASE Crash(a)
  <2>1. CASE pc[a] = "sweeping"
    BY <1>2, <2>1, Quiet DEF Crash
  <2>2. CASE pc[a] # "sweeping"
    <3>1. PICK n \in Notes : n = held[a]
      BY <1>2, <2>2 DEF Crash
    <3>2. \A m \in Notes \ {n} : PhaseOf(m)' = PhaseOf(m)
      BY <1>2, <3>1 DEF Crash
    <3>3. PhaseOf(n)' = PhaseOf(n) \/ (PhaseOf(n) = "open" /\ PhaseOf(n)' = "lapsed")
      BY <1>2, <3>1 DEF Crash
    <3>. QED
      BY <1>2, <3>1, <3>2, <3>3, QuietOrLapse DEF Crash
  <2>. QED
    BY <2>1, <2>2
<1>3. CASE ReportTooLate(a)
  <2>1. PICK n \in Notes : n = held[a]
    BY <1>3 DEF ReportTooLate
  <2>2. \A m \in Notes \ {n} : PhaseOf(m)' = PhaseOf(m)
    BY <1>3, <2>1 DEF ReportTooLate
  <2>3. PhaseOf(n)' = PhaseOf(n) \/ (PhaseOf(n) = "open" /\ PhaseOf(n)' = "lapsed")
    BY <1>3, <2>1 DEF ReportTooLate
  <2>. QED
    BY <1>3, <2>1, <2>2, <2>3, QuietOrLapse DEF ReportTooLate
<1>4. ASSUME NEW n \in Notes, SweepOne(a, n) \/ SweepDies(a, n)
      PROVE  [Channel!ChannelNext]_(Channel!cvars)
  <2>1. \A m \in Notes \ {n} : PhaseOf(m)' = PhaseOf(m)
    BY <1>4 DEF SweepOne, SweepDies
  <2>2. PhaseOf(n)' = PhaseOf(n) \/ (PhaseOf(n) = "open" /\ PhaseOf(n)' = "lapsed")
    BY <1>4 DEF SweepOne, SweepDies, Expirable
  <2>. QED
    BY <1>4, <2>1, <2>2, QuietOrLapse DEF SweepOne, SweepDies
<1>. QED
  BY <1>1, <1>2, <1>3, <1>4

\* The steps the channel knows by name.
LEMMA OfferStep ==
    ASSUME IInv, NEW n \in Notes, NEW q \in Offers, Create(n, q)
    PROVE  Channel!Offer(n)
<1> USE ConstantsAssumption DEF IInv, TypeOK, rows, records, wire, cycle, world, Create
<1>1. PhaseOf(n) = "absent" /\ PhaseOf(n)' = "open"
  BY DEF PhaseOf, Undecided
<1>2. \A m \in Notes \ {n} : PhaseOf(m)' = PhaseOf(m)
  BY DEF PhaseOf, Undecided, BeingRechecked
<1>3. Phase' = [Phase EXCEPT ![n] = "open"]
  BY <1>1, <1>2 DEF Phase
<1>4. Control' \in {Control, Control \union {n}}
  BY DEF Control
<1>. QED
  BY <1>1, <1>3, <1>4 DEF Channel!Offer, Phase, Control

LEMMA HandOverStep ==
    ASSUME IInv, NEW a \in Agents, Send(a) \/ SendFails(a)
    PROVE  [Channel!ChannelNext]_(Channel!cvars)
<1> USE ConstantsAssumption DEF IInv, TypeOK, Goto, Idle, rows, records, wire, cycle, world,
             Sendable, HandToTransport
<1> DEFINE n == held[a]
<1>1. n \in Notes /\ sends[n] = 0 /\ status[n] \in {"approved", "expired"}
  BY DEF Send, SendFails, LeaseInv, SendInv, Holds, DeliveredWasSent
<1>2. \A m \in Notes : PhaseOf(m)' = PhaseOf(m)
  BY DEF Send, SendFails, PhaseOf, Undecided, BeingRechecked
<1>3. Control' = Control /\ n \notin Control
  BY DEF Send, SendFails, Control
<1>4. CASE UNCHANGED wire
  BY <1>2, <1>3, <1>4, Quiet
<1>5. CASE HandToTransport(n)
  <2>1. PhaseOf(n) \in {"open", "lapsed"}
    BY <1>1 DEF PhaseOf, Undecided
  <2>2. Phase' = Phase
    BY <1>2 DEF Phase
  <2>3. Channel!HandOver(n)
    BY <1>1, <1>3, <1>5, <2>1, <2>2 DEF Channel!HandOver, Phase, Control
  <2>. QED
    BY <1>1, <2>3 DEF Channel!ChannelNext
<1>. QED
  BY <1>4, <1>5 DEF Send, SendFails

LEMMA AcknowledgeStep ==
    ASSUME IInv, NEW a \in Agents, ReportInTime(a)
    PROVE  \E n \in Notes : Channel!Acknowledge(n)
<1> USE ConstantsAssumption DEF IInv, TypeOK, Goto, Idle, rows, records, wire, cycle, world,
             ReportInTime
<1>0. PICK n \in Notes : n = held[a]
  OBVIOUS
<1>1. request[n].kind = "typing" \/ sends[n] = 1
  BY <1>0 DEF ReportInv, SendInv
<1>2. PhaseOf(n) = "open" /\ PhaseOf(n)' = "delivered"
  BY <1>0 DEF PhaseOf, Undecided
<1>3. \A m \in Notes \ {n} : PhaseOf(m)' = PhaseOf(m)
  BY <1>0 DEF PhaseOf, Undecided, BeingRechecked
<1>4. Phase' = [Phase EXCEPT ![n] = "delivered"]
  BY <1>2, <1>3 DEF Phase
<1>5. Control' = Control
  BY DEF Control
<1>6. n \in Control \/ sends[n] = 1
  BY <1>0, <1>1 DEF Control
<1>. QED
  BY <1>0, <1>1, <1>2, <1>4, <1>5, <1>6
     DEF Channel!Acknowledge, Channel!Open, Phase, Control

LEMMA RefuseStep ==
    ASSUME IInv, NEW n \in Notes, Reject(n)
    PROVE  Channel!Refuse(n)
<1> USE DEF IInv, TypeOK, rows, records, wire, cycle, world, Reject
<1>1. sends[n] = 0
  BY DEF LeaseInv, SendInv
<1>2. PhaseOf(n) = "open" /\ PhaseOf(n)' = "refused"
  BY DEF PhaseOf, Undecided
<1>3. \A m \in Notes \ {n} : PhaseOf(m)' = PhaseOf(m)
  BY DEF PhaseOf, Undecided, BeingRechecked
<1>4. Phase' = [Phase EXCEPT ![n] = "refused"]
  BY <1>2, <1>3 DEF Phase
<1>5. Control' = Control
  BY DEF Control
<1>. QED
  BY <1>1, <1>2, <1>4, <1>5 DEF Channel!Refuse, Channel!Open, Phase, Control

LEMMA StepChannel == IInv /\ [Next]_vars => [Channel!ChannelNext]_(Channel!cvars)
<1> SUFFICES ASSUME IInv, [Next]_vars PROVE [Channel!ChannelNext]_(Channel!cvars)
  OBVIOUS
<1>1. CASE \E n \in Notes : \E q \in Offers : Create(n, q)
  BY <1>1, OfferStep DEF Channel!ChannelNext
<1>2. ASSUME NEW n \in Notes, Approve(n) \/ TtlPasses(n)
      PROVE  UNCHANGED Channel!cvars
  BY <1>2, Quiet DEF Approve, TtlPasses, IInv, TypeOK, rows, records, wire, cycle, world,
     Control, PhaseOf, Undecided, BeingRechecked
<1>3. CASE \E n \in Notes : Reject(n)
  BY <1>3, RefuseStep DEF Channel!ChannelNext
<1>4. CASE \E p \in Principals, h \in Handles : Pair(p, h)
  BY <1>4, Quiet DEF Pair, rows, records, wire, cycle, Control, PhaseOf, Undecided,
     BeingRechecked
<1>5. ASSUME NEW a \in Agents, Cycle(a)
      PROVE  [Channel!ChannelNext]_(Channel!cvars)
  <2>1. CASE ReportInTime(a)
    BY <2>1, AcknowledgeStep DEF Channel!ChannelNext
  <2>. QED
    BY <1>5, <2>1, QuietSteps, LapsingSteps, HandOverStep DEF Cycle
<1>6. CASE \E a \in Agents : Crash(a) \/ \E n \in Notes : SweepDies(a, n)
  BY <1>6, LapsingSteps
<1>7. CASE UNCHANGED vars
  BY <1>7, Quiet DEF vars, rows, records, wire, cycle, world, Control, PhaseOf, Undecided,
     BeingRechecked
<1>. QED
  BY <1>1, <1>2, <1>3, <1>4, <1>5, <1>6, <1>7 DEF Next

\* The queue with its leases, sweeps, quarantines and crashes implements the
\* one-shot channel its callers rely on: one hand-over, no acknowledgement
\* without it, and a first outcome that is final.
THEOREM QueueImplementsChannel == Spec => ImplementsOneShotChannel
<1>. QED
  BY InitChannel, StepChannel, Invariance, PTL
     DEF Spec, ImplementsOneShotChannel, Channel!ChannelSpec

-----------------------------------------------------------------------------
(* The follow-ups *)

\* The turn's renegotiating write is still ahead.
Renegotiates == turn.pc = "write" /\ turn.verb = "renegotiate"

\* A promise about to be written names a touch outside quiet hours; a capture
\* writes it to a row nobody else knows of, a renegotiation on the day it names
\* at the latest.
PromiseInv ==
    /\ turn.pc \in {"arm", "write", "todo"} => turn.r \in Reminders
    /\ turn.pc = "arm" \/ Renegotiates =>
          turn.at \in Instants /\ ~IsQuietHour(turn.at.hour)
    /\ turn.pc = "arm" => row[turn.r].status = "none"
    /\ Renegotiates => now.day <= turn.at.day
    /\ turn.pc = "write" => turn.verb \in {"done", "stop", "renegotiate"}
    /\ turn.pc = "todo" => turn.verb \in {"done", "renegotiate"}

\* A sweep lists what was due when it started.
Listed(s) ==
    /\ ~Before(s.now, s.at) /\ s.now.day <= now.day
    /\ s.kind = "nudge" => s.esc < NudgeCap
    /\ row[s.r].status # "none"

\* What it lists is behind the row: the row's touch is on the same day or a later
\* one, and where it is the same instant on a row that is being nudged, it is the
\* same nudge.
Behind(s) ==
    Armed(s.r) /\ row[s.r].at # Never =>
        /\ s.at.day <= row[s.r].at.day
        /\ row[s.r].kind = "nudge" /\ s.at = row[s.r].at =>
              s.kind = "nudge" /\ s.esc = row[s.r].esc

ListInv == \A t \in Ticks : \A s \in listed[t] : Listed(s) /\ Behind(s)

\* What a row has counted agrees with the follow-up it is at.
CountInv ==
    \A r \in Reminders :
        /\ row[r].status = "none" => row[r] = NoRow
        /\ row[r].status = "none" \/ row[r].kind \in {"morning", "probe"} =>
              touches[r]["probe"] = 0 /\ touches[r]["nudge"] = 0 /\ row[r].esc = 0
        /\ row[r].kind = "nudge" =>
              touches[r]["nudge"] <= row[r].esc /\ row[r].esc < NudgeCap

ParkInv == \A t \in Ticks : tick[t].pc = "park" => tick[t].held \in Reminders

RemindersIInv ==
    /\ RemindersTypeOK /\ PromiseInv /\ ListInv /\ CountInv /\ ParkInv
    /\ FollowUpsAreBounded /\ ArmedHasATouch

-----------------------------------------------------------------------------
(* The schedule *)

\* An instant is a record of its day and its hour; Never is none.
LEMMA InstantsAreRecords ==
    /\ Never \notin Instants
    /\ \A t \in Instants : t.day \in Nat /\ t.hour \in 0..23
  BY DEF Instants, Never, NoHour, At

\* The policy's own hours are outside quiet hours.
LEMMA PolicyHours ==
    /\ WorkdayStart \in 0..23 /\ ~IsQuietHour(WorkdayStart)
    /\ ProbeTime \in 0..23 /\ ~IsQuietHour(ProbeTime)
    /\ ProbeLatest \in 0..23 /\ ~IsQuietHour(ProbeLatest)
  BY RemindersAssumption DEF IsQuietHour

\* A later hour is an instant, of the same day or the next.
LEMMA LaterIsAnInstant ==
    ASSUME NEW t \in Instants, NEW n \in 1..23
    PROVE  /\ Later(t, n) \in Instants
           /\ Later(t, n).day \in {t.day, t.day + 1}
           /\ Later(t, n).day = t.day => Later(t, n).hour = t.hour + n
<1>1. t.day \in Nat /\ t.hour \in 0..23
  BY InstantsAreRecords
<1>2. CASE t.hour + n < 24
  <2>1. Later(t, n) = At(t.day, t.hour + n) /\ t.hour + n \in 0..23
    BY <1>1, <1>2 DEF Later
  <2>. QED
    BY <1>1, <2>1 DEF At, Instants
<1>3. CASE ~(t.hour + n < 24)
  <2>1. Later(t, n) = At(t.day + 1, t.hour + n - 24) /\ t.hour + n - 24 \in 0..23
    BY <1>1, <1>3 DEF Later
  <2>. QED
    BY <1>1, <2>1 DEF At, Instants
<1>. QED
  BY <1>2, <1>3

\* The next working day's start is an instant outside quiet hours.
LEMMA NextWorkdayIsAwake ==
    ASSUME NEW t, t.day \in Nat
    PROVE  /\ NextWorkday(t) \in Instants /\ ~IsQuietHour(NextWorkday(t).hour)
           /\ NextWorkday(t).day = t.day + 1
<1>1. t.day + 1 \in Nat /\ NextWorkday(t) = At(t.day + 1, WorkdayStart)
  BY DEF NextWorkday
<1>. QED
  BY <1>1, PolicyHours DEF At, Instants

\* A first touch on a day that has come is at a waking hour of that day or later.
LEMMA ComputedTouch ==
    ASSUME NEW t \in Instants, NEW d \in Nat, t.day <= d, NEW h \in 0..23 \cup {NoHour}
    PROVE  /\ ComputeFirstTouch(d, h, t) \in Instants
           /\ ~IsQuietHour(ComputeFirstTouch(d, h, t).hour)
           /\ t.day <= ComputeFirstTouch(d, h, t).day
<1> DEFINE c == FirstCandidate(d, h, t)
<1>0. t.day \in Nat /\ t.hour \in 0..23
  BY InstantsAreRecords
<1>1. c = Later(t, 1) \/ \E g \in 0..23 : c = At(d, g)
  BY PolicyHours DEF FirstCandidate
<1>2. ComputeFirstTouch(d, h, t) = IF IsQuietHour(c.hour) THEN NextWorkday(c) ELSE c
  BY DEF ComputeFirstTouch
<1> HIDE DEF c
<1>3. c \in Instants /\ t.day <= c.day /\ c.day \in Nat
  <2>1. ASSUME NEW g \in 0..23, c = At(d, g)
        PROVE  c \in Instants /\ t.day <= c.day /\ c.day \in Nat
    BY <2>1 DEF At, Instants
  <2>2. CASE c = Later(t, 1)
    <3>1. c \in Instants /\ c.day \in {t.day, t.day + 1}
      BY <2>2, LaterIsAnInstant
    <3>. QED
      BY <1>0, <3>1
  <2>. QED
    BY <1>1, <2>1, <2>2
<1>4. CASE IsQuietHour(c.hour)
  BY <1>0, <1>2, <1>3, <1>4, NextWorkdayIsAwake
<1>5. CASE ~IsQuietHour(c.hour)
  BY <1>2, <1>3, <1>5
<1>. QED
  BY <1>4, <1>5

\* A first touch, asked for today or later, is at a waking hour of today or later.
LEMMA FirstTouchIsAwake ==
    ASSUME NEW t \in Instants, NEW d \in {t.day, t.day + 1}, NEW h \in Asked
    PROVE  /\ FirstTouch(d, h, t) \in Instants
           /\ ~IsQuietHour(FirstTouch(d, h, t).hour)
           /\ t.day <= FirstTouch(d, h, t).day
<1>1. t.day \in Nat
  BY InstantsAreRecords
<1>2. h \in 0..23 \cup {NoHour}
  BY RemindersAssumption DEF Asked
<1>3. RolledDay(d, h, t) \in {d, t.day + 1}
  BY DEF RolledDay
<1>4. RolledDay(d, h, t) \in Nat /\ t.day <= RolledDay(d, h, t)
  BY <1>1, <1>3
<1>. QED
  BY <1>2, <1>4, ComputedTouch DEF FirstTouch

\* A probe after the probe time comes the same day, before quiet hours, or the
\* next working day.
LEMMA LateProbeIsAwake ==
    ASSUME NEW at \in Instants, at.hour > ProbeTime
    PROVE  /\ LateProbe(at) \in Instants /\ ~IsQuietHour(LateProbe(at).hour)
           /\ at.day <= LateProbe(at).day /\ ~Before(LateProbe(at), at)
<1> DEFINE o == Later(at, ProbeOffset)
           c == IF o.hour > ProbeLatest THEN At(o.day, ProbeLatest) ELSE o
<1>1. at.day \in Nat /\ at.hour \in 0..23
  BY InstantsAreRecords
<1>2. ProbeOffset \in 1..23
  BY RemindersAssumption
<1>3. o \in Instants
  BY <1>2, LaterIsAnInstant
<1>4. o.day \in Nat /\ o.hour \in 0..23
  BY <1>3, InstantsAreRecords
<1>5. c \in Instants /\ c.hour <= ProbeLatest /\ c.day \in Nat /\ c.hour \in 0..23
  BY <1>3, <1>4, PolicyHours DEF At, Instants
<1>6. LateProbe(at) = IF c.day # at.day \/ ~Before(at, c) THEN NextWorkday(at) ELSE c
  BY DEF LateProbe
<1> HIDE DEF c, o
<1>7. CASE c.day # at.day \/ ~Before(at, c)
  <2>1. /\ LateProbe(at) \in Instants /\ ~IsQuietHour(LateProbe(at).hour)
        /\ LateProbe(at).day = at.day + 1
    BY <1>1, <1>6, <1>7, NextWorkdayIsAwake
  <2>. QED
    BY <1>1, <2>1 DEF Before
<1>8. CASE c.day = at.day /\ Before(at, c)
  <2>1. at.hour < c.hour
    BY <1>1, <1>5, <1>8 DEF Before
  <2>2. ~IsQuietHour(c.hour)
    BY <1>1, <1>5, <2>1, PolicyHours, RemindersAssumption DEF IsQuietHour
  <2>3. ~Before(c, at)
    BY <1>1, <1>5, <1>8, <2>1 DEF Before
  <2>. QED
    BY <1>1, <1>5, <1>6, <1>8, <2>2, <2>3
<1>. QED
  BY <1>7, <1>8

\* What follows an unanswered touch: a probe after the morning, then nudges, each
\* on the next working day, until the cap.
LEMMA FollowUp ==
    ASSUME NEW at \in Instants, NEW kind \in TouchKinds, NEW esc \in Nat,
           NEW next, next = ScheduleAfterTouch(kind, at, esc)
    PROVE  \/ /\ kind = "nudge" /\ ~(esc < NudgeCap - 1)
              /\ next.at = Never /\ next.kind = None
           \/ /\ next.at \in Instants /\ next.at # Never /\ ~IsQuietHour(next.at.hour)
              /\ ~Before(next.at, at)
              /\ kind = "morning" => next.kind = "probe" /\ at.day <= next.at.day
              /\ kind # "morning" => next.kind = "nudge" /\ next.at.day = at.day + 1
              /\ kind = "nudge" => esc < NudgeCap - 1
<1>1. at.day \in Nat /\ at.hour \in 0..23 /\ Never \notin Instants
  BY InstantsAreRecords
<1>2. CASE kind = "morning" /\ at.hour <= ProbeTime
  <2>1. next = [at |-> At(at.day, ProbeTime), kind |-> "probe"]
    BY <1>2 DEF ScheduleAfterTouch
  <2>. QED
    BY <1>1, <1>2, <2>1, PolicyHours DEF At, Instants, Before
<1>3. CASE kind = "morning" /\ ~(at.hour <= ProbeTime)
  <2>1. next = [at |-> LateProbe(at), kind |-> "probe"]
    BY <1>3 DEF ScheduleAfterTouch
  <2>2. at.hour > ProbeTime
    BY <1>1, <1>3, PolicyHours
  <2>. QED
    BY <1>1, <1>3, <2>1, <2>2, LateProbeIsAwake
<1>4. CASE kind = "probe" \/ (kind = "nudge" /\ esc < NudgeCap - 1)
  <2>1. next = [at |-> NextWorkday(at), kind |-> "nudge"]
    BY <1>4 DEF ScheduleAfterTouch
  <2>2. next.at \in Instants /\ ~IsQuietHour(next.at.hour) /\ next.at.day = at.day + 1
    BY <1>1, <2>1, NextWorkdayIsAwake
  <2>3. ~Before(next.at, at)
    BY <1>1, <2>2 DEF Before
  <2>. QED
    BY <1>1, <1>4, <2>1, <2>2, <2>3
<1>5. CASE kind = "nudge" /\ ~(esc < NudgeCap - 1)
  <2>1. next = [at |-> Never, kind |-> None]
    BY <1>5 DEF ScheduleAfterTouch
  <2>. QED
    BY <1>5, <2>1
<1>. QED
  BY <1>2, <1>3, <1>4, <1>5 DEF TouchKinds

-----------------------------------------------------------------------------
(* The steps *)

\* The clock moves on, and no promise is left to be written on a later day.
LEMMA ClockStep == RemindersIInv /\ Clock => RemindersIInv'
<1> SUFFICES ASSUME RemindersIInv, Clock PROVE RemindersIInv'
  OBVIOUS
<1> USE DEF RemindersIInv
<1>1. /\ now' \in Instants /\ now.day <= now'.day /\ TurnIsOverBy(now')
      /\ UNCHANGED <<row, todo, tick, listed, turn, probe, touches, stranded, torn, turns, upsets>>
  <2>1. now.day \in Nat /\ ClockHours \subseteq 0..23
    BY RemindersAssumption DEF Instants, RemindersTypeOK
  <2>2. now' \in [day : {now.day, now.day + 1}, hour : ClockHours]
    BY DEF Clock, NextStop
  <2>3. PICK d \in {now.day, now.day + 1}, h \in ClockHours : now' = [day |-> d, hour |-> h]
    BY <2>2
  <2>4. now' \in Instants /\ now.day <= now'.day
    BY <2>1, <2>3 DEF Instants
  <2>. QED
    BY <2>4 DEF Clock
<1>2. RemindersTypeOK'
  BY <1>1 DEF RemindersTypeOK
<1>3. PromiseInv'
  BY <1>1 DEF PromiseInv, Renegotiates, TurnIsOverBy
<1>4. ListInv'
  BY <1>1 DEF ListInv, Listed, Behind, Armed, RemindersTypeOK, Snaps, Instants
<1>5. CountInv' /\ ParkInv' /\ FollowUpsAreBounded' /\ ArmedHasATouch'
  BY <1>1 DEF CountInv, ParkInv, FollowUpsAreBounded, ArmedHasATouch, Armed
<1>. QED
  BY <1>2, <1>3, <1>4, <1>5

\* A step that leaves the rows, the sweeps and the clock alone.
LEMMA QuietStep ==
    ASSUME RemindersIInv, RemindersTypeOK', PromiseInv',
           UNCHANGED <<now, row, tick, listed, touches, stranded>>
    PROVE  RemindersIInv'
<1> USE DEF RemindersIInv
<1>1. ListInv'
  BY DEF ListInv, Listed, Behind, Armed
<1>2. CountInv' /\ ParkInv' /\ FollowUpsAreBounded' /\ ArmedHasATouch'
  BY DEF CountInv, ParkInv, FollowUpsAreBounded, ArmedHasATouch, Armed
<1>. QED
  BY <1>1, <1>2

\* A capture: the promise is worked out, its row not yet written.
LEMMA CaptureStep ==
    ASSUME RemindersIInv, NEW r \in Reminders, CaptureSome(r)
    PROVE  RemindersIInv'
<1> USE DEF RemindersIInv
<1>1. PICK d \in {now.day, now.day + 1}, h \in Asked, lane \in Lanes, written \in BOOLEAN :
           Capture(r, d, h, lane, written)
  BY DEF CaptureSome
<1>2. FirstTouch(d, h, now) \in Instants /\ ~IsQuietHour(FirstTouch(d, h, now).hour)
  BY FirstTouchIsAwake DEF RemindersTypeOK
<1>3. RemindersTypeOK'
  BY <1>1, <1>2, RemindersAssumption DEF RemindersTypeOK, Capture, TurnStarts
<1>4. PromiseInv'
  BY <1>1, <1>2 DEF PromiseInv, Renegotiates, Capture, TurnStarts
<1>. QED
  BY <1>1, <1>3, <1>4, QuietStep DEF Capture

\* An answer: the row is read, its write still ahead.
LEMMA ReplyStep ==
    ASSUME RemindersIInv, NEW r \in Reminders, ReplySome(r)
    PROVE  RemindersIInv'
<1> USE DEF RemindersIInv
<1>1. PICK d \in {now.day, now.day + 1}, h \in Asked, lane \in Lanes, verb \in Verbs :
           Reply(r, verb, d, h, lane)
  BY DEF ReplySome
<1>2. /\ FirstTouch(d, h, now) \in Instants /\ ~IsQuietHour(FirstTouch(d, h, now).hour)
      /\ now.day <= FirstTouch(d, h, now).day
  BY FirstTouchIsAwake DEF RemindersTypeOK
<1>3. ASSUME Armed(r) PROVE RemindersTypeOK' /\ PromiseInv'
  <2> DEFINE promised == IF verb = "renegotiate" THEN FirstTouch(d, h, now) ELSE Never
  <2>1. /\ turn' = [pc |-> IF verb = "not_done" THEN "clear" ELSE "write", r |-> r,
                    verb |-> verb, lane |-> lane, at |-> promised]
        /\ promised \in Instants \cup {Never}
        /\ verb = "renegotiate" => promised = FirstTouch(d, h, now)
    BY <1>1, <1>2, <1>3 DEF Reply
  <2> HIDE DEF promised
  <2>2. RemindersTypeOK'
    BY <1>1, <2>1, RemindersAssumption
    DEF RemindersTypeOK, Reply, TurnStarts, Lanes
  <2>3. PromiseInv'
    BY <1>1, <1>2, <2>1 DEF PromiseInv, Renegotiates, Reply, Verbs
  <2>. QED
    BY <2>2, <2>3
<1>4. ASSUME ~Armed(r) PROVE RemindersTypeOK' /\ PromiseInv'
  <2>1. turn' = [pc |-> "clear", r |-> None, verb |-> None, at |-> Never, lane |-> lane]
    BY <1>1, <1>4 DEF Reply, IdleTurn
  <2>2. RemindersTypeOK'
    BY <1>1, <2>1, RemindersAssumption
    DEF RemindersTypeOK, Reply, TurnStarts, Lanes
  <2>3. PromiseInv'
    BY <2>1 DEF PromiseInv, Renegotiates
  <2>. QED
    BY <2>2, <2>3
<1>. QED
  BY <1>1, <1>3, <1>4, QuietStep DEF Reply

\* The to-do's writes, the probe's and the death of a turn.
LEMMA TodoStep ==
    ASSUME RemindersIInv,
           \/ Transition \/ ClearProbe \/ TurnDies
           \/ \E r \in Reminders, s \in {"met", "renegotiated", "missed"} : CloseTodo(r, s)
    PROVE  RemindersIInv'
<1> USE DEF RemindersIInv
<1>1. RemindersTypeOK'
  <2>1. CASE Transition
    BY <2>1 DEF RemindersTypeOK, Transition, PromiseInv, Settled
  <2>2. CASE ClearProbe
    BY <2>2 DEF RemindersTypeOK, ClearProbe, IdleTurn
  <2>3. CASE TurnDies
    BY <2>3, RemindersAssumption DEF RemindersTypeOK, TurnDies, IdleTurn, PromiseInv
  <2>4. CASE \E r \in Reminders, s \in {"met", "renegotiated", "missed"} : CloseTodo(r, s)
    BY <2>4, RemindersAssumption DEF RemindersTypeOK, CloseTodo, TurnStarts
  <2>. QED
    BY <2>1, <2>2, <2>3, <2>4
<1>2. PromiseInv'
  <2>1. CASE Transition
    BY <2>1 DEF PromiseInv, Renegotiates, Transition, RemindersTypeOK
  <2>2. CASE ClearProbe
    BY <2>2 DEF PromiseInv, Renegotiates, ClearProbe, IdleTurn
  <2>3. CASE TurnDies
    BY <2>3 DEF PromiseInv, Renegotiates, TurnDies, IdleTurn
  <2>4. CASE \E r \in Reminders, s \in {"met", "renegotiated", "missed"} : CloseTodo(r, s)
    BY <2>4 DEF PromiseInv, Renegotiates, CloseTodo
  <2>. QED
    BY <2>1, <2>2, <2>3, <2>4
<1>. QED
  BY <1>1, <1>2, QuietStep DEF Transition, ClearProbe, TurnDies, CloseTodo

\* The row is written: nobody has listed it, and it has counted nothing.
LEMMA ArmStep == RemindersIInv /\ Arm => RemindersIInv'
<1> SUFFICES ASSUME RemindersIInv, Arm PROVE RemindersIInv'
  OBVIOUS
<1> USE DEF RemindersIInv
<1>1. /\ turn.r \in Reminders /\ row[turn.r].status = "none" /\ row[turn.r].esc = 0
      /\ turn.at \in Instants /\ ~IsQuietHour(turn.at.hour) /\ turn.at # Never
  BY InstantsAreRecords DEF Arm, PromiseInv, CountInv, NoRow
<1>2. PICK new : new = [status |-> "armed", at |-> turn.at, kind |-> "morning", esc |-> 0]
  OBVIOUS
<1>3. /\ row' = [row EXCEPT ![turn.r] = new] /\ turn' = IdleTurn
      /\ UNCHANGED <<now, todo, tick, listed, probe, touches, stranded, torn, turns, upsets>>
  BY <1>2 DEF Arm
<1>4. new \in Rows /\ new.kind # None
  BY <1>1, <1>2, RemindersAssumption DEF Rows, TouchKinds, None
<1>5. RemindersTypeOK'
  BY <1>1, <1>2, <1>3, <1>4 DEF RemindersTypeOK, IdleTurn
<1>6. PromiseInv'
  BY <1>3 DEF PromiseInv, Renegotiates, IdleTurn
<1>7. ListInv'
  BY <1>1, <1>3 DEF ListInv, Listed, Behind, Armed, RemindersTypeOK
<1>8. CountInv'
  BY <1>1, <1>2, <1>3 DEF CountInv, RemindersTypeOK
<1>9. ParkInv' /\ FollowUpsAreBounded' /\ ArmedHasATouch'
  BY <1>1, <1>2, <1>3 DEF ParkInv, FollowUpsAreBounded, ArmedHasATouch, Armed, RemindersTypeOK
<1>. QED
  BY <1>5, <1>6, <1>7, <1>8, <1>9

\* What closing a row leaves.
LEMMA ClosedRow ==
    ASSUME RemindersTypeOK, NEW r \in Reminders, NEW final \in {"completed", "cancelled", "parked"}
    PROVE  /\ Closed(r, final) \in Rows /\ Closed(r, final).status = final
           /\ Closed(r, final).at = Never /\ Closed(r, final).kind = None
           /\ Closed(r, final).esc = row[r].esc
<1>1. row[r] \in Rows
  BY DEF RemindersTypeOK
<1>2. PICK old \in Rows : old = row[r]
  BY <1>1
<1>3. Closed(r, final) = [old EXCEPT !.status = final, !.at = Never, !.kind = None]
  BY <1>2 DEF Closed
<1>4. Closed(r, final) \in Rows
  BY <1>3 DEF Rows
<1>5. /\ Closed(r, final).status = final /\ Closed(r, final).at = Never
      /\ Closed(r, final).kind = None /\ Closed(r, final).esc = row[r].esc
  BY <1>2, <1>3 DEF Rows
<1>. QED
  BY <1>4, <1>5

\* A row that is armed may be closed by whoever finds it so.
LEMMA Closing ==
    ASSUME RemindersIInv, NEW r \in Reminders, Armed(r),
           NEW final \in {"completed", "cancelled", "parked"},
           row' = [row EXCEPT ![r] = Closed(r, final)],
           UNCHANGED <<now, listed, touches, stranded>>,
           \A t \in Ticks : tick'[t] = tick[t] \/ (tick[t].held = r /\ tick'[t].pc # "park")
    PROVE  ListInv' /\ CountInv' /\ ParkInv' /\ FollowUpsAreBounded' /\ ArmedHasATouch'
<1> USE DEF RemindersIInv
<1> DEFINE new == Closed(r, final)
<1>1. new.status = final /\ new.at = Never /\ new.kind = None /\ new.status # "none"
  BY ClosedRow
<1>2. row'[r] = new /\ \A q \in Reminders : q # r => row'[q] = row[q]
  BY DEF RemindersTypeOK
<1> HIDE DEF new
<1>3. ListInv'
  BY <1>1, <1>2 DEF ListInv, Listed, Behind, Armed, RemindersTypeOK, Snaps
<1>4. CountInv'
  BY <1>1, <1>2 DEF CountInv, None
<1>5. ParkInv' /\ FollowUpsAreBounded'
  BY <1>1, <1>2 DEF ParkInv, FollowUpsAreBounded
<1>6. ArmedHasATouch'
  BY <1>1, <1>2 DEF ArmedHasATouch, Armed
<1>. QED
  BY <1>3, <1>4, <1>5, <1>6

\* The guarded write: a row closed, or promised again and its counts forgotten.
LEMMA WriteStep == RemindersIInv /\ Write => RemindersIInv'
<1> SUFFICES ASSUME RemindersIInv, Write PROVE RemindersIInv'
  OBVIOUS
<1> USE DEF RemindersIInv
<1> DEFINE r == turn.r
<1>1. /\ r \in Reminders /\ turn.pc = "write" /\ turn.verb \in {"done", "stop", "renegotiate"}
      /\ UNCHANGED <<now, todo, tick, listed, probe, stranded, torn, turns, upsets>>
  BY DEF Write, PromiseInv
<1>2. CASE ~Armed(r)
  <2>1. turn' = IdleTurn /\ UNCHANGED <<row, touches>>
    BY <1>2 DEF Write
  <2>2. RemindersTypeOK'
    BY <1>1, <2>1 DEF RemindersTypeOK, IdleTurn
  <2>3. PromiseInv'
    BY <2>1 DEF PromiseInv, Renegotiates, IdleTurn
  <2>. QED
    BY <1>1, <2>1, <2>2, <2>3, QuietStep
<1>3. CASE Armed(r)
  <2>1. /\ row' = [row EXCEPT ![r] = Answered(r)]
        /\ touches' = IF turn.verb = "renegotiate"
                      THEN [touches EXCEPT ![r] = NoTouches] ELSE touches
        /\ turn' = AfterWrite(r)
    BY <1>3 DEF Write
  <2>2. turn'.pc \in {"todo", "clear"} /\ (turn'.pc = "todo" => turn.verb # "stop")
        /\ turn' = [turn EXCEPT !.pc = turn'.pc]
    BY <2>1 DEF AfterWrite, RemindersTypeOK
  <2>3. PromiseInv'
    BY <1>1, <2>2 DEF PromiseInv, Renegotiates, RemindersTypeOK
  <2>4. CASE turn.verb = "renegotiate"
    <3>1. /\ turn.at \in Instants /\ ~IsQuietHour(turn.at.hour) /\ turn.at # Never
          /\ now.day <= turn.at.day
      BY <1>1, <2>4, InstantsAreRecords DEF PromiseInv, Renegotiates
    <3>2. PICK new : new = [status |-> "armed", at |-> turn.at, kind |-> "morning", esc |-> 0]
      OBVIOUS
    <3>3. /\ row' = [row EXCEPT ![r] = new]
          /\ touches' = [touches EXCEPT ![r] = NoTouches]
      BY <2>1, <2>4, <3>2 DEF Answered
    <3>4. /\ row'[r] = new /\ \A q \in Reminders : q # r => row'[q] = row[q]
          /\ touches'[r] = NoTouches /\ \A q \in Reminders : q # r => touches'[q] = touches[q]
      BY <1>1, <3>3 DEF RemindersTypeOK
    <3>5. /\ NoTouches["probe"] = 0 /\ NoTouches["nudge"] = 0 /\ NoTouches \in [TouchKinds -> Nat]
      BY DEF NoTouches, TouchKinds
    <3>6. new \in Rows /\ new.kind # None
      BY <3>1, <3>2, RemindersAssumption DEF Rows, TouchKinds, None
    <3>7. RemindersTypeOK'
      BY <1>1, <2>2, <3>1, <3>2, <3>3, <3>4, <3>5, <3>6 DEF RemindersTypeOK
    <3>8. ListInv'
      <4>1. ASSUME NEW t \in Ticks, NEW s \in listed[t]
            PROVE  Listed(s)' /\ Behind(s)'
        <5>1. /\ s \in Snaps /\ Listed(s) /\ Behind(s)
          BY <4>1 DEF ListInv, RemindersTypeOK
        <5>2. /\ s.r \in Reminders /\ s.at.day \in Nat /\ s.now.day \in Nat
              /\ now.day \in Nat /\ turn.at.day \in Nat
          BY <3>1, <5>1, InstantsAreRecords DEF Snaps, RemindersTypeOK
        <5>3. s.at.day <= turn.at.day
          BY <3>1, <5>1, <5>2 DEF Listed, Before
        <5>. QED
          BY <1>1, <3>2, <3>4, <5>1, <5>2, <5>3 DEF Listed, Behind, Armed
      <4>. QED
        BY <1>1, <4>1 DEF ListInv
    <3>9. CountInv'
      BY <3>2, <3>4, <3>5 DEF CountInv
    <3>10. ParkInv' /\ FollowUpsAreBounded' /\ ArmedHasATouch'
      BY <1>1, <3>1, <3>2, <3>4, <3>5, RemindersAssumption
      DEF ParkInv, FollowUpsAreBounded, ArmedHasATouch, Armed
    <3>. QED
      BY <2>3, <3>7, <3>8, <3>9, <3>10
  <2>5. CASE turn.verb # "renegotiate"
    <3>1. PICK final \in {"completed", "cancelled"} : row' = [row EXCEPT ![r] = Closed(r, final)]
      BY <1>1, <2>1, <2>5 DEF Answered
    <3>2. touches' = touches
      BY <2>1, <2>5
    <3>3. RemindersTypeOK'
      <4>1. /\ Closed(r, final) \in Rows
            /\ Closed(r, final).at = Never /\ Closed(r, final).kind = None
        BY <1>1, ClosedRow
      <4>. QED
        BY <1>1, <2>2, <3>1, <3>2, <4>1 DEF RemindersTypeOK
    <3>. QED
      BY <1>1, <1>3, <2>3, <3>1, <3>2, <3>3, Closing
  <2>. QED
    BY <2>4, <2>5
<1>. QED
  BY <1>2, <1>3

\* The select: what is listed is the row as it stands.
LEMMA DueTouchesStep ==
    ASSUME RemindersIInv, NEW t \in Ticks, DueTouches(t)
    PROVE  RemindersIInv'
<1> USE DEF RemindersIInv
<1> DEFINE new == {Snap(r) : r \in {s \in Reminders : DueNow(s, now)}}
<1>1. /\ listed' = [listed EXCEPT ![t] = new] /\ tick' = [tick EXCEPT ![t] = Looping]
      /\ UNCHANGED <<now, row, todo, turn, probe, touches, stranded, torn, turns, upsets>>
      /\ tick[t].pc = "idle"
  BY DEF DueTouches
<1>2. ASSUME NEW s \in new
      PROVE  s \in Snaps /\ Listed(s) /\ Behind(s)
  <2>1. PICK r \in Reminders : DueNow(r, now) /\ s = Snap(r)
    OBVIOUS
  <2>2. /\ row[r] \in Rows /\ Armed(r) /\ row[r].at # Never /\ ~Before(now, row[r].at)
        /\ row[r].kind # None /\ now \in Instants
    BY <2>1 DEF DueNow, RemindersTypeOK
  <2>3. /\ s.r = r /\ s.at = row[r].at /\ s.kind = row[r].kind /\ s.esc = row[r].esc
        /\ s.now = now
    BY <2>1 DEF Snap
  <2>4. s \in Snaps
    BY <2>1, <2>2 DEF Snap, Snaps, Rows
  <2>5. s.at.day \in Nat /\ now.day \in Nat
    BY <2>2, <2>3, <2>4, InstantsAreRecords DEF Snaps
  <2>6. row[r].kind = "nudge" => row[r].esc < NudgeCap
    BY DEF CountInv
  <2>7. Listed(s)
    BY <2>2, <2>3, <2>5, <2>6 DEF Listed, Armed
  <2>8. Behind(s)
    BY <2>3, <2>5 DEF Behind
  <2>. QED
    BY <2>4, <2>7, <2>8
<1> HIDE DEF new
<1>3. RemindersTypeOK'
  <2>1. new \in SUBSET Snaps
    BY <1>2
  <2>. QED
    BY <1>1, <2>1 DEF RemindersTypeOK, Looping, IdleTick
<1>4. PromiseInv' /\ CountInv' /\ FollowUpsAreBounded'
  BY <1>1 DEF PromiseInv, Renegotiates, CountInv, FollowUpsAreBounded
<1>5. ListInv'
  <2>1. ASSUME NEW u \in Ticks, NEW s \in listed'[u]
        PROVE  Listed(s) /\ Behind(s)
    BY <1>1, <1>2 DEF ListInv, RemindersTypeOK
  <2>. QED
    BY <1>1, <2>1 DEF ListInv, Listed, Behind, Armed
<1>6. ParkInv' /\ ArmedHasATouch'
  BY <1>1 DEF ParkInv, ArmedHasATouch, Armed, Looping, IdleTick, RemindersTypeOK
<1>. QED
  BY <1>3, <1>4, <1>5, <1>6

\* A sweep that leaves the rows alone and does not stop at a park.
LEMMA SweepMovesOn ==
    ASSUME RemindersIInv, RemindersTypeOK', NEW t \in Ticks,
           UNCHANGED <<now, row, turn, touches>>,
           \A u \in Ticks : listed'[u] \subseteq listed[u],
           \A u \in Ticks \ {t} : tick'[u] = tick[u],
           tick'[t].pc # "park", stranded \subseteq stranded',
           tick[t].pc = "park" => tick[t].held \in stranded' \/ ~Armed(tick[t].held)
    PROVE  RemindersIInv'
<1> USE DEF RemindersIInv
<1>1. PromiseInv' /\ CountInv' /\ FollowUpsAreBounded'
  BY DEF PromiseInv, Renegotiates, CountInv, FollowUpsAreBounded
<1>2. ListInv'
  BY DEF ListInv, Listed, Behind, Armed
<1>3. ParkInv'
  BY DEF ParkInv
<1>4. ArmedHasATouch'
  BY DEF ArmedHasATouch, Armed
<1>. QED
  BY <1>1, <1>2, <1>3, <1>4

\* The text is queued and the sweep goes on.
LEMMA SendTouchStep ==
    ASSUME RemindersIInv, NEW t \in Ticks, SendTouch(t)
    PROVE  RemindersIInv'
<1> USE DEF RemindersIInv
<1>1. /\ tick' = [tick EXCEPT ![t] = Onward(listed[t])] /\ tick[t].pc = "send"
      /\ probe' = IF tick[t].kind = "morning" THEN probe ELSE tick[t].held
      /\ UNCHANGED <<now, row, todo, listed, turn, touches, stranded, torn, turns, upsets>>
  BY DEF SendTouch
<1>2. Onward(listed[t]) \in {IdleTick, Looping}
  BY DEF Onward
<1>3. RemindersTypeOK' /\ tick'[t].pc # "park"
  BY <1>1, <1>2 DEF RemindersTypeOK, Looping, IdleTick
<1>. QED
  BY <1>1, <1>3, SweepMovesOn DEF RemindersTypeOK

\* A sweep dies; between its claim and its park it leaves the row stranded.
LEMMA TickDiesStep ==
    ASSUME RemindersIInv, NEW t \in Ticks, TickDies(t)
    PROVE  RemindersIInv'
<1> USE DEF RemindersIInv
<1>1. /\ tick' = [tick EXCEPT ![t] = IdleTick] /\ listed' = [listed EXCEPT ![t] = {}]
      /\ stranded' = IF tick[t].pc = "park" THEN stranded \cup {tick[t].held} ELSE stranded
      /\ upsets < MaxUpsets /\ upsets' = upsets + 1
      /\ UNCHANGED <<now, row, todo, turn, probe, touches, torn, turns>>
  BY DEF TickDies
<1>2. RemindersTypeOK' /\ tick'[t].pc # "park"
  BY <1>1, RemindersAssumption DEF RemindersTypeOK, IdleTick, ParkInv
<1>. QED
  BY <1>1, <1>2, SweepMovesOn DEF RemindersTypeOK

\* The park: an armed row is closed, any other ends the sweep.
LEMMA ParkStep ==
    ASSUME RemindersIInv, NEW t \in Ticks, Park(t)
    PROVE  RemindersIInv'
<1> USE DEF RemindersIInv
<1> DEFINE r == tick[t].held
<1>1. /\ tick[t].pc = "park" /\ r \in Reminders
      /\ UNCHANGED <<now, todo, turn, probe, touches, stranded, torn, turns, upsets>>
  BY DEF Park, ParkInv
<1>2. CASE Armed(r)
  <2>1. /\ row' = [row EXCEPT ![r] = Closed(r, "parked")]
        /\ tick' = [tick EXCEPT ![t].pc = "send"] /\ UNCHANGED listed
    BY <1>2 DEF Park
  <2>2. RemindersTypeOK'
    <3>1. /\ Closed(r, "parked") \in Rows
          /\ Closed(r, "parked").at = Never /\ Closed(r, "parked").kind = None
      BY <1>1, ClosedRow
    <3>. QED
      BY <1>1, <2>1, <3>1 DEF RemindersTypeOK
  <2>3. PromiseInv'
    BY <1>1, <1>2, <2>1 DEF PromiseInv, Renegotiates, Armed, RemindersTypeOK
  <2>4. \A u \in Ticks : tick'[u] = tick[u] \/ (tick[u].held = r /\ tick'[u].pc # "park")
    BY <2>1 DEF RemindersTypeOK
  <2>. QED
    BY <1>1, <1>2, <2>1, <2>2, <2>3, <2>4, Closing
<1>3. CASE ~Armed(r)
  <2>1. /\ tick' = [tick EXCEPT ![t] = IdleTick]
        /\ listed' = [listed EXCEPT ![t] = {}] /\ UNCHANGED row
    BY <1>3 DEF Park
  <2>2. RemindersTypeOK' /\ tick'[t].pc # "park"
    BY <1>1, <2>1 DEF RemindersTypeOK, IdleTick
  <2>. QED
    BY <1>1, <1>3, <2>1, <2>2, SweepMovesOn DEF RemindersTypeOK
<1>. QED
  BY <1>2, <1>3

\* What a claim finds: the counts fit the touch it read, whatever the row has
\* become since it was listed.
LEMMA WhatAClaimFinds ==
    ASSUME RemindersIInv, NEW t \in Ticks, NEW snap \in listed[t], ClaimableTouch(snap)
    PROVE  /\ snap \in Snaps /\ row[snap.r] \in Rows /\ Armed(snap.r)
           /\ row[snap.r].at = snap.at /\ snap.at # Never
           /\ snap.at.day \in Nat /\ snap.now.day \in Nat /\ snap.at.day <= snap.now.day
           /\ ~Before(snap.now, snap.at)
           /\ row[snap.r].kind \in TouchKinds
           /\ row[snap.r].kind = "nudge" => snap.kind = "nudge" /\ snap.esc = row[snap.r].esc
           /\ snap.kind = "nudge" => snap.esc < NudgeCap
<1> USE DEF RemindersIInv
<1>1. snap \in Snaps /\ Listed(snap) /\ Behind(snap)
  BY DEF ListInv, RemindersTypeOK
<1>2. /\ Armed(snap.r) /\ row[snap.r].at = snap.at /\ row[snap.r] \in Rows
      /\ snap.at \in Instants /\ snap.now \in Instants
  BY <1>1 DEF ClaimableTouch, RemindersTypeOK, Snaps
<1>3. snap.at # Never /\ snap.at.day \in Nat /\ snap.now.day \in Nat
  BY <1>2, InstantsAreRecords
<1>4. row[snap.r].kind \in TouchKinds
  BY <1>1, <1>2, <1>3 DEF RemindersTypeOK, Rows, Snaps
<1>5. snap.at.day <= snap.now.day
  BY <1>1, <1>3 DEF Listed, Before
<1>. QED
  BY <1>1, <1>2, <1>3, <1>4, <1>5 DEF Listed, Behind

\* The row a claim leaves: its follow-up is at a waking hour, no earlier than any
\* touch that was listed, and the counts move on with it.
LEMMA WhatAClaimLeaves ==
    ASSUME RemindersIInv, NEW t \in Ticks, NEW snap \in listed[t], ClaimableTouch(snap),
           NEW next, next = ScheduleAfterTouch(snap.kind, snap.now, snap.esc),
           NEW new, new = Claimed(snap, next)
    PROVE  /\ new \in Rows /\ new.status = "armed" /\ new.at = next.at /\ new.kind = next.kind
           /\ new.at = Never <=> new.kind = None
           /\ new.at # Never => /\ ~IsQuietHour(new.at.hour) /\ new.at.day \in Nat
                                /\ snap.now.day <= new.at.day
                                /\ new.at \in Instants /\ ~Before(new.at, snap.now)
           /\ new.kind \in {"probe", "nudge", None}
           /\ new.kind = "probe" => /\ snap.kind = "morning" /\ new.esc = 0
                                    /\ row[snap.r].kind \in {"morning", "probe"}
           /\ new.kind = "nudge" => /\ new.at.day = snap.now.day + 1 /\ new.esc < NudgeCap
                                    /\ snap.kind \in {"probe", "nudge"}
           /\ new.kind = None => snap.kind = "nudge"
           /\ new.esc = IF snap.kind = "nudge" THEN row[snap.r].esc + 1 ELSE row[snap.r].esc
<1> USE DEF RemindersIInv
<1>1. /\ snap \in Snaps /\ row[snap.r] \in Rows /\ Armed(snap.r)
      /\ snap.now.day \in Nat /\ row[snap.r].kind \in TouchKinds
      /\ row[snap.r].kind = "nudge" => snap.kind = "nudge" /\ snap.esc = row[snap.r].esc
      /\ snap.kind = "nudge" => snap.esc < NudgeCap
  BY WhatAClaimFinds
<1>2. /\ snap.r \in Reminders /\ snap.kind \in TouchKinds /\ snap.esc \in 0..NudgeCap
      /\ snap.now \in Instants /\ NudgeCap \in Nat \ {0} /\ row[snap.r].esc \in 0..NudgeCap
  BY <1>1, RemindersAssumption DEF Snaps, Rows
<1>3. \/ /\ snap.kind = "nudge" /\ ~(snap.esc < NudgeCap - 1)
         /\ next.at = Never /\ next.kind = None
      \/ /\ next.at \in Instants /\ next.at # Never /\ ~IsQuietHour(next.at.hour)
         /\ ~Before(next.at, snap.now)
         /\ snap.kind = "morning" => next.kind = "probe" /\ snap.now.day <= next.at.day
         /\ snap.kind # "morning" => next.kind = "nudge" /\ next.at.day = snap.now.day + 1
         /\ snap.kind = "nudge" => snap.esc < NudgeCap - 1
  BY <1>2, FollowUp
<1>4. /\ row[snap.r].kind \in {"morning", "probe"} => row[snap.r].esc = 0
      /\ row[snap.r].kind = "nudge" => row[snap.r].esc < NudgeCap
  BY <1>2 DEF CountInv
<1>5. PICK old \in Rows : old = row[snap.r]
  BY <1>1
<1>6. PICK esc : esc = IF snap.kind = "nudge" THEN old.esc + 1 ELSE old.esc
  OBVIOUS
<1>7. new = [old EXCEPT !.at = next.at, !.kind = next.kind, !.esc = esc]
  BY <1>5, <1>6 DEF Claimed
<1>8. esc \in 0..NudgeCap
  BY <1>1, <1>2, <1>4, <1>5, <1>6 DEF TouchKinds
<1>9. /\ next.at \in Instants \cup {Never} /\ next.kind \in TouchKinds \cup {None}
  BY <1>3 DEF TouchKinds
<1>10. new \in Rows
  BY <1>7, <1>8, <1>9 DEF Rows
<1>11. /\ new.status = old.status /\ new.at = next.at /\ new.kind = next.kind /\ new.esc = esc
  BY <1>7 DEF Rows
<1>12. new.status = "armed"
  BY <1>1, <1>5, <1>11 DEF Armed
<1>13. new.at # Never => new.at.day \in Nat
  BY <1>9, <1>11, InstantsAreRecords
<1>14. CASE snap.kind = "morning"
  <2>1. /\ next.kind = "probe" /\ next.at # Never /\ ~IsQuietHour(next.at.hour)
        /\ snap.now.day <= next.at.day
        /\ next.at \in Instants /\ ~Before(next.at, snap.now)
    BY <1>3, <1>14
  <2>2. row[snap.r].kind \in {"morning", "probe"} /\ esc = 0
    BY <1>1, <1>4, <1>5, <1>6, <1>14 DEF TouchKinds
  <2>. QED
    BY <1>5, <1>6, <1>10, <1>11, <1>12, <1>13, <1>14, <2>1, <2>2 DEF None
<1>15. CASE snap.kind # "morning" /\ next.kind = "nudge" /\ next.at # Never
  <2>1. /\ ~IsQuietHour(next.at.hour) /\ next.at.day = snap.now.day + 1
        /\ next.at \in Instants /\ ~Before(next.at, snap.now)
        /\ snap.kind = "nudge" => snap.esc < NudgeCap - 1
    BY <1>3, <1>15 DEF None
  <2>2. esc < NudgeCap
    BY <1>1, <1>2, <1>4, <1>5, <1>6, <2>1 DEF TouchKinds
  <2>. QED
    BY <1>1, <1>2, <1>5, <1>6, <1>10, <1>11, <1>12, <1>13, <1>15, <2>1, <2>2 DEF None, TouchKinds
<1>16. CASE snap.kind = "nudge" /\ next.kind = None /\ next.at = Never
  BY <1>5, <1>6, <1>10, <1>11, <1>12, <1>16 DEF None
<1>. QED
  BY <1>2, <1>3, <1>14, <1>15, <1>16 DEF TouchKinds

\* The claim: lost, or the row moves on to its follow-up.
LEMMA ClaimTouchStep ==
    ASSUME RemindersIInv, NEW t \in Ticks, NEW snap \in listed[t], ClaimTouch(t, snap)
    PROVE  RemindersIInv'
<1> USE DEF RemindersIInv
<1>1. PICK next : next = ScheduleAfterTouch(snap.kind, snap.now, snap.esc)
  OBVIOUS
<1>2. /\ tick[t].pc = "loop" /\ listed' = [listed EXCEPT ![t] = @ \ {snap}]
      /\ UNCHANGED <<now, todo, turn, probe, stranded, torn, turns, upsets>>
  BY DEF ClaimTouch
<1>3. /\ snap.r \in Reminders /\ snap.kind \in TouchKinds
      /\ \A u \in Ticks : listed'[u] \subseteq listed[u]
      /\ listed' \in [Ticks -> SUBSET Snaps]
  BY <1>2 DEF RemindersTypeOK, Snaps
<1>4. CASE ~ClaimableTouch(snap)
  <2>1. tick' = [tick EXCEPT ![t] = Onward(listed'[t])] /\ UNCHANGED <<row, touches>>
    BY <1>4 DEF ClaimTouch
  <2>2. Onward(listed'[t]) \in {IdleTick, Looping}
    BY DEF Onward
  <2>3. RemindersTypeOK' /\ tick'[t].pc # "park"
    BY <1>2, <1>3, <2>1, <2>2 DEF RemindersTypeOK, Looping, IdleTick
  <2>. QED
    BY <1>2, <1>3, <2>1, <2>3, SweepMovesOn DEF RemindersTypeOK
<1>5. CASE ClaimableTouch(snap)
  <2> DEFINE r == snap.r
  <2>1. PICK new : new = Claimed(snap, next)
    OBVIOUS
  <2>2. /\ row' = [row EXCEPT ![r] = new]
        /\ touches' = [touches EXCEPT ![r][snap.kind] = @ + 1]
        /\ tick' = [tick EXCEPT ![t] = Holding(snap, next)]
    BY <1>1, <1>5, <2>1 DEF ClaimTouch
  <2>3. /\ row[r] \in Rows /\ Armed(r) /\ row[r].at = snap.at /\ snap.at # Never
        /\ snap.at.day \in Nat /\ snap.now.day \in Nat /\ snap.at.day <= snap.now.day
        /\ row[r].kind \in TouchKinds
        /\ row[r].kind = "nudge" => snap.kind = "nudge" /\ snap.esc = row[r].esc
        /\ snap.kind = "nudge" => snap.esc < NudgeCap
    BY <1>5, WhatAClaimFinds
  <2>4. /\ new \in Rows /\ new.status = "armed" /\ new.at = next.at /\ new.kind = next.kind
        /\ new.at = Never <=> new.kind = None
        /\ new.at # Never => /\ ~IsQuietHour(new.at.hour) /\ new.at.day \in Nat
                             /\ snap.now.day <= new.at.day
        /\ new.kind \in {"probe", "nudge", None}
        /\ new.kind = "probe" => /\ snap.kind = "morning" /\ new.esc = 0
                                 /\ row[r].kind \in {"morning", "probe"}
        /\ new.kind = "nudge" => /\ new.at.day = snap.now.day + 1 /\ new.esc < NudgeCap
                                 /\ snap.kind \in {"probe", "nudge"}
        /\ new.kind = None => snap.kind = "nudge"
        /\ new.esc = IF snap.kind = "nudge" THEN row[r].esc + 1 ELSE row[r].esc
    BY <1>1, <1>5, <2>1, WhatAClaimLeaves
  <2>5. /\ row'[r] = new /\ \A q \in Reminders : q # r => row'[q] = row[q]
    BY <1>3, <2>2 DEF RemindersTypeOK
  <2>6. /\ touches[r] \in [TouchKinds -> Nat]
        /\ touches'[r] = [touches[r] EXCEPT ![snap.kind] = @ + 1]
        /\ \A q \in Reminders : q # r => touches'[q] = touches[q]
    BY <1>3, <2>2 DEF RemindersTypeOK
  <2>7. /\ touches[r]["probe"] \in Nat /\ touches[r]["nudge"] \in Nat
        /\ touches'[r]["probe"] = IF snap.kind = "probe" THEN touches[r]["probe"] + 1
                                                         ELSE touches[r]["probe"]
        /\ touches'[r]["nudge"] = IF snap.kind = "nudge" THEN touches[r]["nudge"] + 1
                                                         ELSE touches[r]["nudge"]
    BY <1>3, <2>6 DEF TouchKinds
  <2>8. /\ touches[r]["probe"] <= 1
        /\ row[r].kind \in {"morning", "probe"} =>
              touches[r]["probe"] = 0 /\ touches[r]["nudge"] = 0 /\ row[r].esc = 0
        /\ row[r].kind = "nudge" => touches[r]["nudge"] <= row[r].esc /\ row[r].esc < NudgeCap
        /\ row[r].esc \in 0..NudgeCap /\ NudgeCap \in Nat \ {0}
    BY <1>3, <2>3, RemindersAssumption DEF CountInv, FollowUpsAreBounded, Rows
  <2>9. RemindersTypeOK'
    <3>1. Holding(snap, next) \in [pc : {"idle", "loop", "park", "send"},
                                   held : Reminders \cup {None}, kind : TouchKinds \cup {None}]
      BY <1>3 DEF Holding
    <3>2. touches' \in [Reminders -> [TouchKinds -> Nat]]
      BY <1>3, <2>2 DEF RemindersTypeOK
    <3>. QED
      BY <1>2, <1>3, <2>2, <2>4, <2>5, <3>1, <3>2 DEF RemindersTypeOK
  <2>10. PromiseInv'
    BY <1>2, <1>3, <2>3, <2>5 DEF PromiseInv, Renegotiates, Armed
  <2>11. ListInv'
    <3>1. ASSUME NEW u \in Ticks, NEW s \in listed'[u]
          PROVE  Listed(s)' /\ Behind(s)'
      <4>1. /\ s \in Snaps /\ Listed(s) /\ Behind(s) /\ s.r \in Reminders
            /\ s.at \in Instants
        BY <1>3, <3>1 DEF ListInv, RemindersTypeOK, Snaps
      <4>2. s.at.day \in Nat
        BY <4>1, InstantsAreRecords
      <4>3. Listed(s)'
        BY <1>2, <2>4, <2>5, <4>1 DEF Listed
      <4>4. CASE s.r # r
        BY <2>5, <4>1, <4>3, <4>4 DEF Behind, Armed
      <4>5. CASE s.r = r
        <5>1. s.at.day <= snap.at.day
          BY <2>3, <4>1, <4>5 DEF Behind
        <5>2. new.at # Never => s.at.day <= new.at.day
          BY <2>3, <2>4, <4>2, <5>1
        <5>3. new.kind = "nudge" => s.at # new.at
          BY <2>3, <2>4, <4>2, <5>1
        <5>. QED
          BY <2>5, <4>3, <4>5, <5>2, <5>3 DEF Behind, Armed
      <4>. QED
        BY <4>4, <4>5
    <3>. QED
      BY <3>1 DEF ListInv
  <2>12. CountInv'
    BY <2>3, <2>4, <2>5, <2>6, <2>7, <2>8 DEF CountInv, TouchKinds, None
  <2>13. FollowUpsAreBounded'
    BY <2>3, <2>4, <2>5, <2>6, <2>7, <2>8 DEF FollowUpsAreBounded, TouchKinds
  <2>14. ParkInv' /\ ArmedHasATouch'
    <3>1. /\ tick'[t] = Holding(snap, next) /\ \A u \in Ticks : u # t => tick'[u] = tick[u]
          /\ Holding(snap, next).held = r
          /\ next.at = Never => Holding(snap, next).pc = "park"
      BY <2>2 DEF RemindersTypeOK, Holding
    <3>2. ParkInv'
      BY <1>3, <3>1 DEF ParkInv
    <3>3. ASSUME NEW q \in Reminders, Armed(q)', row'[q].at = Never
          PROVE  q \in stranded' \/ \E u \in Ticks : tick'[u].pc = "park" /\ tick'[u].held = q
      <4>1. CASE q = r
        BY <2>4, <2>5, <3>1, <3>3, <4>1
      <4>2. CASE q # r
        <5>1. Armed(q) /\ row[q].at = Never
          BY <2>5, <3>3, <4>2 DEF Armed
        <5>2. q \in stranded \/ \E u \in Ticks : tick[u].pc = "park" /\ tick[u].held = q
          BY <5>1 DEF ArmedHasATouch
        <5>. QED
          BY <1>2, <3>1, <5>2
      <4>. QED
        BY <4>1, <4>2
    <3>. QED
      BY <3>2, <3>3 DEF ArmedHasATouch
  <2>. QED
    BY <2>9, <2>10, <2>11, <2>12, <2>13, <2>14
<1>. QED
  BY <1>4, <1>5

\* Nothing is armed, listed or promised.
LEMMA InitReminders == RemindersInit => RemindersIInv
<1> SUFFICES ASSUME RemindersInit PROVE RemindersIInv
  OBVIOUS
<1>1. now \in Instants
  <2>1. PICK h \in ClockHours : now = At(0, h)
    BY DEF RemindersInit
  <2>. QED
    BY <2>1, RemindersAssumption DEF Instants, At
<1>2. /\ NoRow \in Rows /\ NoRow.status = "none" /\ NoRow.at = Never /\ NoRow.kind = None
      /\ NoRow.esc = 0
  BY RemindersAssumption DEF NoRow, Rows
<1>3. NoTouches \in [TouchKinds -> Nat] /\ NoTouches["probe"] = 0 /\ NoTouches["nudge"] = 0
  BY DEF NoTouches, TouchKinds
<1>4. RemindersTypeOK
  BY <1>1, <1>2, <1>3, RemindersAssumption DEF RemindersInit, RemindersTypeOK, IdleTick, IdleTurn
<1>5. PromiseInv /\ ListInv /\ ParkInv
  BY DEF RemindersInit, PromiseInv, Renegotiates, ListInv, ParkInv, IdleTick, IdleTurn
<1>6. CountInv /\ FollowUpsAreBounded /\ ArmedHasATouch
  BY <1>2, <1>3, RemindersAssumption
  DEF RemindersInit, CountInv, FollowUpsAreBounded, ArmedHasATouch, Armed, None
<1>. QED
  BY <1>4, <1>5, <1>6 DEF RemindersIInv

\* Every step of every actor.
LEMMA StepReminders == RemindersIInv /\ [RemindersNext]_reminderVars => RemindersIInv'
<1> SUFFICES ASSUME RemindersIInv, [RemindersNext]_reminderVars PROVE RemindersIInv'
  OBVIOUS
<1>1. CASE Clock
  BY <1>1, ClockStep
<1>2. ASSUME NEW r \in Reminders, CaptureSome(r) PROVE RemindersIInv'
  BY <1>2, CaptureStep
<1>3. ASSUME NEW r \in Reminders, ReplySome(r) PROVE RemindersIInv'
  BY <1>3, ReplyStep
<1>4. ASSUME NEW r \in Reminders, NEW s \in {"met", "renegotiated", "missed"}, CloseTodo(r, s)
      PROVE  RemindersIInv'
  BY <1>4, TodoStep
<1>5. CASE Arm
  BY <1>5, ArmStep
<1>6. CASE Write
  BY <1>6, WriteStep
<1>7. CASE Transition \/ ClearProbe \/ TurnDies
  BY <1>7, TodoStep
<1>8. ASSUME NEW t \in Ticks, DueTouches(t) PROVE RemindersIInv'
  BY <1>8, DueTouchesStep
<1>9. ASSUME NEW t \in Ticks, NEW snap \in listed[t], ClaimTouch(t, snap) PROVE RemindersIInv'
  BY <1>9, ClaimTouchStep
<1>10. ASSUME NEW t \in Ticks, Park(t) PROVE RemindersIInv'
  BY <1>10, ParkStep
<1>11. ASSUME NEW t \in Ticks, SendTouch(t) PROVE RemindersIInv'
  BY <1>11, SendTouchStep
<1>12. ASSUME NEW t \in Ticks, TickDies(t) PROVE RemindersIInv'
  BY <1>12, TickDiesStep
<1>13. CASE UNCHANGED reminderVars
  <2>1. UNCHANGED <<now, row, todo, tick, listed, turn, probe, touches, stranded, torn, turns, upsets>>
    BY <1>13 DEF reminderVars
  <2>2. RemindersTypeOK' /\ PromiseInv'
    BY <2>1 DEF RemindersIInv, RemindersTypeOK, PromiseInv, Renegotiates
  <2>. QED
    BY <2>1, <2>2, QuietStep
<1>. QED
  BY <1>1, <1>2, <1>3, <1>4, <1>5, <1>6, <1>7, <1>8, <1>9, <1>10, <1>11, <1>12, <1>13
  DEF RemindersNext, TurnStep, TickStep

LEMMA RemindersInvariance == RemindersSpec => []RemindersIInv
  BY InitReminders, StepReminders, PTL DEF RemindersSpec

-----------------------------------------------------------------------------
(* A reminder only moves on *)

\* What PromisesOnlyMoveOn asks of a step, of one reminder.
MovesOn(r) ==
    /\ row[r].status \in {"completed", "cancelled", "parked"} =>
          row'[r] = row[r] /\ touches'[r] = touches[r]
    /\ row'[r].kind \in {"probe", "nudge"} => ~Before(row'[r].at, row[r].at)
    /\ row[r].kind = "nudge" =>
          /\ row'[r].kind # "probe"
          /\ touches'[r]["morning"] <= touches[r]["morning"]
          /\ touches'[r]["probe"] <= touches[r]["probe"]

\* No instant is before itself, and being no earlier is transitive.
LEMMA NoEarlier ==
    /\ \A a \in Instants \cup {Never} : ~Before(a, a)
    /\ \A a, b, c \in Instants : ~Before(b, a) /\ ~Before(c, b) => ~Before(c, a)
<1>1. ASSUME NEW a \in Instants \cup {Never}
      PROVE  ~Before(a, a)
  <2>1. a.day \in Nat /\ a.hour \in 0..24
    BY InstantsAreRecords DEF Never, At, NoHour
  <2>. QED
    BY <2>1 DEF Before
<1>2. ASSUME NEW a \in Instants, NEW b \in Instants, NEW c \in Instants,
             ~Before(b, a), ~Before(c, b)
      PROVE  ~Before(c, a)
  <2>1. /\ a.day \in Nat /\ b.day \in Nat /\ c.day \in Nat
        /\ a.hour \in 0..23 /\ b.hour \in 0..23 /\ c.hour \in 0..23
    BY InstantsAreRecords
  <2>. QED
    BY <1>2, <2>1 DEF Before
<1>. QED
  BY <1>1, <1>2

\* A reminder whose row and counts a step leaves alone.
LEMMA LeftAlone ==
    ASSUME RemindersTypeOK, NEW r \in Reminders, row'[r] = row[r], touches'[r] = touches[r]
    PROVE  MovesOn(r)
<1>1. row[r] \in Rows /\ touches[r] \in [TouchKinds -> Nat]
  BY DEF RemindersTypeOK
<1>2. ~Before(row[r].at, row[r].at)
  BY <1>1, NoEarlier DEF Rows
<1>3. touches[r]["morning"] \in Nat /\ touches[r]["probe"] \in Nat
  BY <1>1 DEF TouchKinds
<1>. QED
  BY <1>2, <1>3 DEF MovesOn

\* A new promise: a row nobody has closed starts over.
LEMMA PromiseMovesOn ==
    ASSUME RemindersIInv, Arm \/ Write, NEW r \in Reminders
    PROVE  MovesOn(r)
<1> USE DEF RemindersIInv
<1>1. CASE Arm
  <2>1. CASE turn.r = r
    <3>1. row[r].status = "none"
      BY <1>1, <2>1 DEF Arm, PromiseInv
    <3>2. row'[r].kind = "morning" /\ row[r].kind = None
      BY <1>1, <2>1, <3>1 DEF Arm, RemindersTypeOK, CountInv, NoRow
    <3>. QED
      BY <3>1, <3>2 DEF MovesOn, None
  <2>2. CASE turn.r # r
    <3>1. row'[r] = row[r] /\ touches'[r] = touches[r]
      BY <1>1, <2>2 DEF Arm, RemindersTypeOK
    <3>. QED
      BY <3>1, LeftAlone
  <2>. QED
    BY <2>1, <2>2
<1>2. CASE Write
  <2>1. CASE turn.r = r /\ Armed(r)
    <3>1. /\ row' = [row EXCEPT ![r] = Answered(r)]
          /\ touches' \in {touches, [touches EXCEPT ![r] = NoTouches]}
      BY <1>2, <2>1 DEF Write
    <3>2. row'[r] = Answered(r) /\ touches'[r] \in {touches[r], NoTouches}
      BY <3>1 DEF RemindersTypeOK
    <3>3. Answered(r).kind \in {None, "morning"}
      <4>1. \A final \in {"completed", "cancelled"} : Closed(r, final).kind = None
        BY ClosedRow
      <4>. QED
        BY <4>1 DEF Answered
    <3>4. touches[r] \in [TouchKinds -> Nat] /\ NoTouches["morning"] = 0 /\ NoTouches["probe"] = 0
      BY DEF RemindersTypeOK, NoTouches, TouchKinds
    <3>5. touches[r]["morning"] \in Nat /\ touches[r]["probe"] \in Nat
      BY <3>4 DEF TouchKinds
    <3>6. row[r].status = "armed"
      BY <2>1 DEF Armed
    <3>7. row'[r].kind \notin {"probe", "nudge"}
      BY <3>2, <3>3 DEF None
    <3>8. touches'[r]["morning"] <= touches[r]["morning"] /\ touches'[r]["probe"] <= touches[r]["probe"]
      BY <3>2, <3>4, <3>5
    <3>. QED
      BY <3>6, <3>7, <3>8 DEF MovesOn
  <2>2. CASE ~(turn.r = r /\ Armed(r))
    <3>1. row'[r] = row[r] /\ touches'[r] = touches[r]
      BY <1>2, <2>2 DEF Write, RemindersTypeOK
    <3>. QED
      BY <3>1, LeftAlone
  <2>. QED
    BY <2>1, <2>2
<1>. QED
  BY <1>1, <1>2

\* The park closes an armed row, and counts nothing.
LEMMA ParkMovesOn ==
    ASSUME RemindersIInv, NEW t \in Ticks, Park(t), NEW r \in Reminders
    PROVE  MovesOn(r)
<1> USE DEF RemindersIInv
<1>1. touches' = touches
  BY DEF Park
<1>2. CASE tick[t].held = r /\ Armed(r)
  <2>1. row'[r] = Closed(r, "parked")
    BY <1>2 DEF Park, RemindersTypeOK
  <2>2. Closed(r, "parked").kind = None
    BY ClosedRow
  <2>3. touches[r]["morning"] \in Nat /\ touches[r]["probe"] \in Nat
    BY DEF RemindersTypeOK, TouchKinds
  <2>. QED
    BY <1>1, <1>2, <2>1, <2>2, <2>3 DEF MovesOn, Armed, None
<1>3. CASE ~(tick[t].held = r /\ Armed(r))
  <2>1. row'[r] = row[r]
    BY <1>3 DEF Park, RemindersTypeOK
  <2>. QED
    BY <1>1, <2>1, LeftAlone
<1>. QED
  BY <1>2, <1>3

\* The claim: its follow-up is after the clock the list was read at, which is
\* after the touch; on a row that is being nudged it is that nudge.
LEMMA ClaimMovesOn ==
    ASSUME RemindersIInv, NEW t \in Ticks, NEW snap \in listed[t], ClaimTouch(t, snap),
           NEW r \in Reminders
    PROVE  MovesOn(r)
<1> USE DEF RemindersIInv
<1>1. snap \in Snaps
  BY DEF RemindersTypeOK
<1>2. snap.r \in Reminders /\ snap.kind \in TouchKinds /\ snap.at \in Instants /\ snap.now \in Instants
  BY <1>1 DEF Snaps
<1>3. CASE snap.r = r /\ ClaimableTouch(snap)
  <2>1. PICK next : next = ScheduleAfterTouch(snap.kind, snap.now, snap.esc)
    OBVIOUS
  <2>2. PICK new : new = Claimed(snap, next)
    OBVIOUS
  <2>3. /\ row' = [row EXCEPT ![r] = new]
        /\ touches' = [touches EXCEPT ![r][snap.kind] = @ + 1]
    BY <1>3, <2>1, <2>2 DEF ClaimTouch
  <2>4. row'[r] = new /\ touches'[r] = [touches[r] EXCEPT ![snap.kind] = @ + 1]
    BY <1>2, <2>3 DEF RemindersTypeOK
  <2>5. /\ Armed(r) /\ row[r].at = snap.at /\ ~Before(snap.now, snap.at)
        /\ row[r].kind = "nudge" => snap.kind = "nudge"
    BY <1>3, WhatAClaimFinds
  <2>6. /\ new.at = Never <=> new.kind = None
        /\ new.at # Never => new.at \in Instants /\ ~Before(new.at, snap.now)
        /\ new.kind = "probe" => snap.kind = "morning"
    BY <1>3, <2>1, <2>2, WhatAClaimLeaves
  <2>7. new.kind \in {"probe", "nudge"} => ~Before(new.at, row[r].at)
    BY <1>2, <2>5, <2>6, NoEarlier DEF None
  <2>8. row[r].kind = "nudge" =>
           /\ touches'[r]["morning"] <= touches[r]["morning"]
           /\ touches'[r]["probe"] <= touches[r]["probe"]
    <3>1. touches[r] \in [TouchKinds -> Nat]
      BY DEF RemindersTypeOK
    <3>2. touches[r]["morning"] \in Nat /\ touches[r]["probe"] \in Nat
      BY <3>1 DEF TouchKinds
    <3>3. snap.kind = "nudge" => /\ touches'[r]["morning"] = touches[r]["morning"]
                                 /\ touches'[r]["probe"] = touches[r]["probe"]
      BY <2>4, <3>1 DEF TouchKinds
    <3>. QED
      BY <2>5, <3>2, <3>3
  <2>. QED
    BY <2>4, <2>5, <2>6, <2>7, <2>8 DEF MovesOn, Armed
<1>4. CASE ~(snap.r = r /\ ClaimableTouch(snap))
  <2>1. row'[r] = row[r] /\ touches'[r] = touches[r]
    BY <1>2, <1>4 DEF ClaimTouch, RemindersTypeOK
  <2>. QED
    BY <2>1, LeftAlone
<1>. QED
  BY <1>3, <1>4

LEMMA EveryStepMovesOn ==
    ASSUME RemindersIInv, [RemindersNext]_reminderVars, NEW r \in Reminders
    PROVE  MovesOn(r)
<1>1. RemindersTypeOK
  BY DEF RemindersIInv
<1>2. ASSUME UNCHANGED <<row, touches>> PROVE MovesOn(r)
  BY <1>1, <1>2, LeftAlone
<1>3. CASE Clock \/ Transition \/ ClearProbe \/ TurnDies \/ UNCHANGED reminderVars
  BY <1>2, <1>3 DEF Clock, Transition, ClearProbe, TurnDies, reminderVars
<1>4. ASSUME NEW q \in Reminders,
             \/ CaptureSome(q) \/ ReplySome(q)
             \/ \E s \in {"met", "renegotiated", "missed"} : CloseTodo(q, s)
      PROVE  MovesOn(r)
  BY <1>2, <1>4 DEF CaptureSome, Capture, ReplySome, Reply, CloseTodo
<1>5. CASE Arm \/ Write
  BY <1>5, PromiseMovesOn
<1>6. ASSUME NEW t \in Ticks, DueTouches(t) \/ SendTouch(t) \/ TickDies(t)
      PROVE  MovesOn(r)
  BY <1>2, <1>6 DEF DueTouches, SendTouch, TickDies
<1>7. ASSUME NEW t \in Ticks, NEW snap \in listed[t], ClaimTouch(t, snap)
      PROVE  MovesOn(r)
  BY <1>7, ClaimMovesOn
<1>8. ASSUME NEW t \in Ticks, Park(t)
      PROVE  MovesOn(r)
  BY <1>8, ParkMovesOn
<1>. QED
  BY <1>3, <1>4, <1>5, <1>6, <1>7, <1>8 DEF RemindersNext, TurnStep, TickStep

-----------------------------------------------------------------------------
\* Rows, lists, turns and sweeps keep their shape, however many of each there are
\* (migration 021's checks; queries.ts).
THEOREM RemindersAreTyped == RemindersSpec => []RemindersTypeOK
  BY RemindersInvariance, PTL DEF RemindersIInv

\* One promise is followed up by one probe and at most NudgeCap nudges, outside
\* quiet hours, for any number of reminders, overlapping sweeps, turns and deaths
\* (runReminderSweepTick's claim, scheduleAfterTouch).
THEOREM FollowUpsHold == RemindersSpec => []FollowUpsAreBounded
  BY RemindersInvariance, PTL DEF RemindersIInv

\* An armed reminder has a touch ahead, or a sweep about to park it, or one that
\* died before it could (claimDueTouch, parkReminder).
THEOREM NoReminderIsForgotten == RemindersSpec => []ArmedHasATouch
  BY RemindersInvariance, PTL DEF RemindersIInv

\* A closed reminder stays closed and untouched; until the next promise a touch is
\* never earlier than the one before it, and what is being nudged is neither
\* announced nor asked again (the 'armed' guard of every UPDATE, the claim).
THEOREM RemindersMoveOn == RemindersSpec => PromisesOnlyMoveOn
<1>1. RemindersIInv /\ [RemindersNext]_reminderVars =>
         [\A r \in Reminders : MovesOn(r)]_reminderVars
  BY EveryStepMovesOn
<1>. QED
  BY <1>1, RemindersInvariance, PTL DEF RemindersSpec, PromisesOnlyMoveOn, MovesOn
=============================================================================
