-------------------------- MODULE MissionProofs --------------------------
(***************************************************************************)
(* What a mission promises, for every number of criteria, plan, budget,    *)
(* replay of the body and request of the owner.                            *)
(*                                                                         *)
(* The executor, the owner and the reaper each read a status, and act on   *)
(* it later. Two arguments carry the proof. The first follows the          *)
(* executor's labels: what it has read of the plan and of its assignments  *)
(* still holds when it uses it, since nobody else writes either. The       *)
(* second is about the end: once anybody has seen the outcome with the     *)
(* owner, or verifying, no verdict will be applied any more, so a          *)
(* criterion that is met stays met until the outcome is closed, although   *)
(* the gate of a completion is looked at one step before it commits.       *)
(*                                                                         *)
(* The last part shows that the mission implements OutcomePromise. It adds *)
(* to the invariant what is true from the moment the outcome is, or is     *)
(* about to be, with the owner: either nothing is under way and nothing    *)
(* can start, or the criteria are met and the body is on its way to close. *)
(***************************************************************************)
EXTENDS Mission, FiniteSetTheorems, SequenceTheorems, TLAPS

USE DEF ex, ow, rp

----------------------------------------------------------------------------
(* The inductive invariant *)

Job == [role : {"research", "verifier"}, status : JobStatuses,
        called : BOOLEAN, charged : Nat, spent : Nat, evidence : BOOLEAN]
Row == [status : Statuses, addressed : BOOLEAN, signaled : BOOLEAN,
        plan : SUBSET {"wait", "assign"}]
Criterion == [status : {"pending", "waived_by_owner"} \cup Rulings,
              proof : SUBSET {"owner", "verifier"}]
Calls == [to : Statuses, cur : Statuses \cup {"unread"}, open : BOOLEAN]
Run == [engine : {"invoke", "body", "signal", "approval", "ended", "dead"},
        resumes : Nat, expired : BOOLEAN, attempts : 0 .. MaxAttempts]

DataTyped ==
    /\ outcome \in Row /\ criteria \in [Criteria -> Criterion]
    /\ waits \in Seq({"waiting", "satisfied", "expired"}) /\ jobs \in Seq(Job)

\* Where each actor can be, and the transition that holds the lock.
Places(p) ==
    CASE p = ex -> Labels
      [] p = ow -> {"idle", "list", "done", "finish"}
      [] OTHER  -> {"idle", "expire", "touched"}

ControlTyped ==
    /\ DOMAIN pc = Actors /\ pc = [p \in Actors |-> pc[p]] /\ \A p \in Actors : pc[p] \in Places(p)
    /\ call \in [Actors -> {NoCall} \cup Calls]
    /\ tx \in {NoTx} \cup [by : Actors, to : Statuses]
    /\ \A p \in Actors : call[p] # NoCall /\ call[p].open => tx = [by |-> p, to |-> call[p].to]

\* An executor that is under way has an attempt left, and a turn of its wait loop.
RunTyped ==
    /\ run \in Run /\ seen \in Statuses /\ rechecks \in 0..MaxRechecks
    /\ run.engine \in {"invoke", "body", "signal", "approval"} => run.attempts < MaxAttempts
    /\ pc[ex] # "off" \/ call[ex] # NoCall => run.engine = "body"
    /\ pc[ex] \notin {"off", "recheck", "consume"} => rechecks < MaxRechecks

RestTyped ==
    /\ todo \in [{ex, ow} -> SUBSET Criteria] /\ verdict \in [Criteria -> Rulings]
    /\ found \in Statuses /\ scan \in {"idle", "stamp"} /\ policy \subseteq {"research", "verifier"}

Typed == DataTyped /\ ControlTyped /\ RunTyped /\ RestTyped

\* Labels at which an assignment is in hand.
InHand == {"dispatch", "model", "spend", "judge"}

\* Research that was called for.
Called == {j \in DOMAIN jobs : jobs[j].role = "research" /\ jobs[j].called}

\* The verifier that confirmed something, and the builder it looked at.
Backing ==
    /\ \E j \in DOMAIN jobs : /\ jobs[j].role = "verifier" /\ jobs[j].evidence
                              /\ jobs[j].status = "succeeded"
    /\ Has("research", {"succeeded"})

\* Nothing is left to do that would have a verdict applied.
Settled ==
    \/ Unmet = {}
    \/ outcome.plan = {} /\ LiveJobs = {} /\ ~VerifierDue

\* At label l a verdict is applied, or may come to be.
Ruling(l) == (l = "apply") \/ (l \in InHand /\ jobs[Last].role = "verifier")

\* Somebody has seen the outcome with the owner, or verifying.
Ending == {"waiting_user", "verifying", "completed"}
Ended ==
    \/ outcome.status \in {"waiting_user", "verifying"}
    \/ \E p \in Actors : call[p].to \in Ending
    \/ pc[ow] \in {"list", "done", "finish"}

\* What the executor knows at label l: of the plan, of its assignments, of what
\* was called for, and that no verdict can come after the end of the work.
KnownAt(l) ==
    /\ l \in {"assign", "unplan"} => outcome.plan = {"assign"}
    /\ l \in InHand \cup {"verify", "park"} => outcome.plan = {}
    /\ l = "park" => ~VerifierDue
    /\ l \in InHand \cup {"unplan"} => jobs # <<>> /\ Live(Last)
    /\ l = "unplan" => jobs[Last].role = "research"
    /\ l \in InHand /\ jobs[Last].role = "verifier" => Has("research", {"succeeded"})
    /\ l \in {"dispatch", "model"} /\ jobs[Last].role = "research" => Called = {}
    /\ l = "apply" /\ (\E c \in Criteria : verdict[c] = "verified") => Backing
    /\ l = "complete" => Settled
    /\ Ruling(l) => ~Ended

OverInv == Ended => Settled

\* A completion that was let through the gate, and who hands the outcome over.
GateInv ==
    /\ \A p \in Actors : call[p] # NoCall /\ call[p].open /\ call[p].to = "completed"
                            => Unmet = {}
    /\ \A p \in Actors : call[p].to = "waiting_user" => p = ex /\ LiveJobs = {}

PaidInv ==
    /\ \A i, j \in Called : i = j
    /\ "assign" \in outcome.plan => Called = {}

WaitInv ==
    \A v, w \in DOMAIN waits :
        waits[v] \in {"waiting", "satisfied"} /\ waits[w] \in {"waiting", "satisfied"} => v = w

Core ==
    /\ KnownAt(pc[ex]) /\ OverInv /\ GateInv /\ PaidInv /\ WorkerVerifiedIsBacked
    /\ CompletedMeansCriteriaMet

IInv == Typed /\ Core /\ WaitInv
----------------------------------------------------------------------------
(* What control alone leaves of the invariant *)

Fresh(to) == [to |-> to, cur |-> "unread", open |-> FALSE]

\* Actor p goes to l, and its transition, if any, holds no lock.
Control(p, l, k) ==
    /\ pc' = [pc EXCEPT ![p] = l] /\ call' = [call EXCEPT ![p] = k]
    /\ l \in Places(p) /\ (k = NoCall \/ (k \in Calls /\ ~k.open))

LEMMA FreshIsCall ==
    ASSUME NEW to \in Statuses
    PROVE  /\ Fresh(to) \in Calls /\ ~Fresh(to).open /\ Fresh(to).to = to /\ Fresh(to) # NoCall
BY DEF Fresh, Calls, NoCall

LEMMA ControlFields ==
    ASSUME ControlTyped, NEW p \in Actors, NEW l, NEW k, Control(p, l, k)
    PROVE  /\ pc'[p] = l /\ call'[p] = k
           /\ \A q \in Actors \ {p} : pc'[q] = pc[q] /\ call'[q] = call[q]
BY DEF ControlTyped, Control

LEMMA ControlKeepsTypes ==
    ASSUME ControlTyped, NEW p \in Actors, NEW l, NEW k, Control(p, l, k),
           tx' = tx \/ tx' = IF tx.by = p THEN NoTx ELSE tx
    PROVE  ControlTyped'
<1>1. /\ pc'[p] = l /\ call'[p] = k
      /\ \A q \in Actors \ {p} : pc'[q] = pc[q] /\ call'[q] = call[q]
  BY ControlFields
<1>2. DOMAIN pc' = Actors /\ pc' = [q \in Actors |-> pc'[q]]
  BY DEF ControlTyped, Control
<1>3. \A q \in Actors : pc'[q] \in Places(q)
  BY <1>1 DEF ControlTyped, Control
<1>4. call' \in [Actors -> {NoCall} \cup Calls]
  BY DEF ControlTyped, Control
<1>5. ASSUME NEW q \in Actors, call'[q] # NoCall, call'[q].open
      PROVE  tx' = [by |-> q, to |-> call'[q].to]
  <2>1. q # p
    BY <1>1, <1>5 DEF Control
  <2>2. tx = [by |-> q, to |-> call[q].to] /\ call'[q] = call[q]
    BY <1>1, <1>5, <2>1 DEF ControlTyped
  <2>3. tx.by = q
    BY <2>2
  <2>. QED
    BY <2>1, <2>2, <2>3
<1>6. (\A q \in Actors : pc[q] \in Places(q))' <=> \A q \in Actors : pc'[q] \in Places(q)
  BY DEF Places
<1>7. tx' \in {NoTx} \cup [by : Actors, to : Statuses]
  BY DEF ControlTyped
<1>. QED
  BY <1>1, <1>2, <1>3, <1>4, <1>5, <1>6, <1>7 DEF ControlTyped

\* What the invariant says of the data reads only this much of it.
SameData ==
    /\ UNCHANGED <<criteria, jobs, policy>>
    /\ outcome'.status = outcome.status /\ outcome'.plan = outcome.plan

LEMMA SameDataSame ==
    ASSUME SameData
    PROVE  /\ Unmet' = Unmet /\ LiveJobs' = LiveJobs /\ Called' = Called /\ Last' = Last
           /\ (VerifierDue' <=> VerifierDue) /\ (Backing' <=> Backing) /\ (Settled' <=> Settled)
<1>1. criteria' = criteria /\ jobs' = jobs /\ policy' = policy
  BY DEF SameData
<1>2. Unmet' = Unmet
  BY <1>1 DEF Unmet, Met
<1>3. LiveJobs' = LiveJobs
  BY <1>1 DEF LiveJobs, Live
<1>4. Called' = Called /\ Last' = Last
  BY <1>1 DEF Called, Last
<1>5. VerifierDue' <=> VerifierDue
  BY <1>1 DEF VerifierDue, Has
<1>6. Backing' <=> Backing
  BY <1>1 DEF Backing, Has
<1>. QED
  BY <1>2, <1>3, <1>4, <1>5, <1>6 DEF Settled, SameData

\* A move of actor p that leaves the data alone.
LEMMA CoreControl ==
    ASSUME Typed, Core, NEW p \in Actors, NEW l, NEW k, Control(p, l, k), SameData,
           p = ex => KnownAt(l) /\ l # "apply",
           p # ex => verdict' = verdict,
           k # NoCall /\ k.to \in Ending => Settled /\ ~Ruling(IF p = ex THEN l ELSE pc[ex]),
           k # NoCall /\ k.to = "waiting_user" => p = ex /\ LiveJobs = {},
           p = ow /\ l \in {"list", "done", "finish"} => Settled /\ ~Ruling(pc[ex])
    PROVE  Core'
<1>1. /\ pc'[p] = l /\ call'[p] = k
      /\ \A q \in Actors \ {p} : pc'[q] = pc[q] /\ call'[q] = call[q]
      /\ ex \in Actors /\ ow \in Actors
  BY ControlFields DEF Typed, Actors
<1>2. NoCall.to \notin Ending /\ NoCall.to # "waiting_user"
  BY DEF NoCall, Ending
<1>3. /\ Unmet' = Unmet /\ LiveJobs' = LiveJobs /\ Called' = Called /\ Last' = Last
      /\ (VerifierDue' <=> VerifierDue) /\ (Backing' <=> Backing) /\ (Settled' <=> Settled)
      /\ criteria' = criteria /\ jobs' = jobs /\ policy' = policy
      /\ outcome'.status = outcome.status /\ outcome'.plan = outcome.plan
  BY SameDataSame DEF SameData
<1>4. PICK here : here = IF p = ex THEN l ELSE pc[ex]
  OBVIOUS
<1>5. pc'[ex] = here /\ KnownAt(here) /\ (here = "apply" => verdict' = verdict)
  BY <1>1, <1>4 DEF Core
<1>6. Ended' => Settled /\ ~Ruling(here)
  <2>1. Ended => Settled /\ ~Ruling(here)
    BY <1>5 DEF Core, OverInv, KnownAt
  <2>2. CASE outcome'.status \in {"waiting_user", "verifying"}
    BY <1>3, <2>1, <2>2 DEF Ended
  <2>3. ASSUME NEW q \in Actors, call'[q].to \in Ending PROVE Settled /\ ~Ruling(here)
    <3>1. CASE q = p
      BY <1>1, <1>2, <1>4, <2>3, <3>1
    <3>2. CASE q # p
      BY <1>1, <2>1, <2>3, <3>2 DEF Ended
    <3>. QED
      BY <3>1, <3>2
  <2>4. CASE pc'[ow] \in {"list", "done", "finish"}
    <3>1. CASE p = ow
      BY <1>1, <1>4, <2>4, <3>1
    <3>2. CASE p # ow
      BY <1>1, <2>1, <2>4, <3>2 DEF Ended
    <3>. QED
      BY <3>1, <3>2
  <2>. QED
    BY <2>2, <2>3, <2>4 DEF Ended
<1>7. OverInv'
  BY <1>3, <1>6 DEF OverInv
<1>8. KnownAt(here)'
  <2>1. Ruling(here)' <=> Ruling(here)
    BY <1>3 DEF Ruling
  <2>2. Live(Last)' <=> Live(Last)
    BY <1>3 DEF Live
  <2>3. Has("research", {"succeeded"})' <=> Has("research", {"succeeded"})
    BY <1>3 DEF Has
  <2>. QED
    BY <1>3, <1>5, <1>6, <2>1, <2>2, <2>3 DEF KnownAt
<1>9. GateInv'
  <2>1. ASSUME NEW q \in Actors PROVE /\ call'[q] # NoCall /\ call'[q].open /\ call'[q].to = "completed" => Unmet = {}
                                      /\ call'[q].to = "waiting_user" => q = ex /\ LiveJobs = {}
    <3>1. CASE q = p
      BY <1>1, <1>2, <3>1 DEF Control
    <3>2. CASE q # p
      BY <1>1, <3>2 DEF Core, GateInv
    <3>. QED
      BY <3>1, <3>2
  <2>. QED
    BY <1>3, <2>1 DEF GateInv
<1>10. PaidInv' /\ CompletedMeansCriteriaMet'
  BY <1>3 DEF Core, PaidInv, CompletedMeansCriteriaMet, Met
<1>11. WorkerVerifiedIsBacked'
  BY <1>3 DEF Core, WorkerVerifiedIsBacked, Has
<1>. QED
  BY <1>5, <1>7, <1>8, <1>9, <1>10, <1>11 DEF Core

----------------------------------------------------------------------------
(* The executor: control *)

\* Waits that are no longer than they were leave at most one live.
LEMMA WaitsShrink ==
    ASSUME WaitInv, waits' \in Seq({"waiting", "satisfied", "expired"}),
           DOMAIN waits' = DOMAIN waits,
           \A w \in DOMAIN waits : waits'[w] \in {"waiting", "satisfied"}
                                      => waits[w] \in {"waiting", "satisfied"}
    PROVE  WaitInv'
BY DEF WaitInv

LEMMA StillWaiting ==
    ASSUME IInv, UNCHANGED waits
    PROVE  waits' \in Seq({"waiting", "satisfied", "expired"}) /\ WaitInv'
BY DEF IInv, Typed, DataTyped, WaitInv

\* The executor goes on at l, in a transition k or in none.
LEMMA ExecutorMoves ==
    ASSUME IInv, pc[ex] # "off", NEW l \in Labels \ {"apply"}, NEW k,
           k = NoCall \/ \E to \in Statuses : k = Fresh(to),
           pc' = [pc EXCEPT ![ex] = l], call' = [call EXCEPT ![ex] = k],
           UNCHANGED <<criteria, jobs, tx, run, envVars>>, todo' \in [{ex, ow} -> SUBSET Criteria],
           waits' \in Seq({"waiting", "satisfied", "expired"}), WaitInv',
           outcome' \in Row, outcome'.status = outcome.status, outcome'.plan = outcome.plan,
           verdict' \in [Criteria -> Rulings], seen' \in Statuses, rechecks' \in 0..MaxRechecks,
           l \notin {"off", "recheck", "consume"} => rechecks' < MaxRechecks,
           KnownAt(l), k # NoCall /\ k.to \in Ending => Settled /\ ~Ruling(l),
           k # NoCall /\ k.to = "waiting_user" => LiveJobs = {}
    PROVE  IInv'
<1>1. /\ Typed /\ Core /\ ex \in Actors /\ l \in Places(ex)
      /\ k = NoCall \/ (k \in Calls /\ ~k.open)
  BY FreshIsCall DEF IInv, Actors, Places
<1>2. Control(ex, l, k)
  BY <1>1 DEF Control
<1>3. SameData
  BY DEF SameData, envVars
<1>4. Core'
  BY <1>1, <1>2, <1>3, CoreControl
<1>5. ControlTyped' /\ pc'[ex] = l
  BY <1>1, <1>2, ControlKeepsTypes, ControlFields DEF Typed
<1>6. RunTyped'
  BY <1>1, <1>5 DEF Typed, RunTyped
<1>7. DataTyped'
  BY <1>1 DEF Typed, DataTyped
<1>8. RestTyped'
  BY <1>1 DEF Typed, RestTyped, envVars
<1>. QED
  BY <1>4, <1>5, <1>6, <1>7, <1>8 DEF IInv, Typed

\* What the executor's step leaves alone when it only goes on.
Quiet == UNCHANGED <<durable, tx, run, todo, verdict, envVars>> /\ seen' \in Statuses

LEMMA ExecutorBegins ==
    ASSUME IInv, pc[ex] # "off", NEW to \in Statuses, NEW l \in Labels,
           l \notin {"apply", "off", "recheck", "consume"}, Begin(ex, to, l), Quiet,
           rechecks' \in 0..MaxRechecks, rechecks' < MaxRechecks,
           KnownAt(l), to \in Ending => Settled /\ ~Ruling(l),
           to = "waiting_user" => LiveJobs = {}
    PROVE  IInv'
<1>1. /\ pc' = [pc EXCEPT ![ex] = l] /\ call' = [call EXCEPT ![ex] = Fresh(to)]
      /\ Fresh(to).to = to
  BY FreshIsCall DEF Begin, Goto, Fresh
<1>2. /\ UNCHANGED <<criteria, waits, jobs, tx, run, envVars>> /\ seen' \in Statuses
      /\ todo' \in [{ex, ow} -> SUBSET Criteria]
      /\ outcome' \in Row /\ outcome'.status = outcome.status /\ outcome'.plan = outcome.plan
      /\ verdict' \in [Criteria -> Rulings]
  BY DEF Quiet, durable, IInv, Typed, DataTyped, RestTyped
<1>. QED
  BY <1>1, <1>2, StillWaiting, ExecutorMoves

LEMMA ExecutorGoes ==
    ASSUME IInv, At(ex, pc[ex]), pc[ex] # "off", NEW l \in Labels \ {"apply"},
           Goto(ex, l), call' = call, Quiet, rechecks' \in 0..MaxRechecks,
           l \notin {"off", "recheck", "consume"} => rechecks' < MaxRechecks, KnownAt(l)
    PROVE  IInv'
<1>1. pc' = [pc EXCEPT ![ex] = l] /\ call' = [call EXCEPT ![ex] = NoCall]
  BY DEF Goto, At, IInv, Typed, ControlTyped
<1>2. /\ UNCHANGED <<criteria, waits, jobs, tx, run, envVars>> /\ seen' \in Statuses
      /\ todo' \in [{ex, ow} -> SUBSET Criteria]
      /\ outcome' \in Row /\ outcome'.status = outcome.status /\ outcome'.plan = outcome.plan
      /\ verdict' \in [Criteria -> Rulings]
  BY DEF Quiet, durable, IInv, Typed, DataTyped, RestTyped
<1>. QED
  BY <1>1, <1>2, StillWaiting, ExecutorMoves

\* Labels at which nothing has to be known.
Plain == Labels \ ({"assign", "unplan", "verify", "park", "apply", "complete"} \cup InHand)

LEMMA PlainKnown ==
    ASSUME NEW l \in Plain
    PROVE  KnownAt(l) /\ ~Ruling(l) /\ l \in Labels
BY DEF Plain, KnownAt, Ruling, InHand

LEMMA StatusNames ==
    {"accepted", "queued", "running", "waiting_external", "waiting_user", "blocked",
     "verifying", "completed", "failed"} \subseteq Statuses
BY DEF Statuses, Terminal

LEMMA StartStep ==
    ASSUME IInv, Start
    PROVE  IInv'
<1>1. /\ pc[ex] = "start" /\ At(ex, pc[ex]) /\ Quiet /\ rechecks' \in 0..MaxRechecks
      /\ rechecks' < MaxRechecks
  BY DEF Start, At, ExUnchanged, Quiet, bodyVars, IInv, Typed, RunTyped
<1>2. {"started", "reread"} \subseteq Plain
  BY DEF Plain, Labels, InHand
<1>3. CASE Begin(ex, "queued", "started")
  BY <1>1, <1>2, <1>3, PlainKnown, StatusNames, ExecutorBegins DEF Ending
<1>4. CASE Begin(ex, "running", "reread")
  BY <1>1, <1>2, <1>4, PlainKnown, StatusNames, ExecutorBegins DEF Ending
<1>5. CASE Goto(ex, "reread") /\ UNCHANGED call
  BY <1>1, <1>2, <1>5, PlainKnown, ExecutorGoes
<1>. QED
  BY <1>3, <1>4, <1>5 DEF Start

LEMMA StartedStep ==
    ASSUME IInv, Started
    PROVE  IInv'
<1>1. /\ pc[ex] = "started" /\ Quiet /\ rechecks' \in 0..MaxRechecks /\ rechecks' < MaxRechecks
      /\ Begin(ex, "running", "reread")
  BY DEF Started, At, ExUnchanged, Quiet, bodyVars, IInv, Typed, RunTyped
<1>2. "reread" \in Plain
  BY DEF Plain, Labels, InHand
<1>. QED
  BY <1>1, <1>2, PlainKnown, StatusNames, ExecutorBegins DEF Ending

LEMMA RereadStep ==
    ASSUME IInv, Reread
    PROVE  IInv'
<1>1. /\ pc[ex] = "reread" /\ At(ex, pc[ex]) /\ rechecks' \in 0..MaxRechecks
      /\ rechecks' < MaxRechecks /\ Goto(ex, "gate") /\ call' = call
  BY DEF Reread, At, bodyVars, IInv, Typed, RunTyped
<1>2. Quiet
  BY DEF Reread, ExUnchanged, Quiet, bodyVars, IInv, Typed, DataTyped, Row
<1>3. "gate" \in Plain
  BY DEF Plain, Labels, InHand
<1>. QED
  BY <1>1, <1>2, <1>3, PlainKnown, ExecutorGoes

LEMMA GateStep ==
    ASSUME IInv, Gate
    PROVE  IInv'
<1>1. /\ pc[ex] = "gate" /\ At(ex, pc[ex]) /\ Quiet /\ rechecks' \in 0..MaxRechecks
      /\ rechecks' < MaxRechecks
  BY DEF Gate, At, ExUnchanged, Quiet, bodyVars, IInv, Typed, RunTyped
<1>2. {"complete", "wait", "assign", "verify"} \subseteq Labels \ ({"apply", "off"} \cup InHand)
  BY DEF Labels, InHand
<1>3. CASE Unmet = {} /\ Begin(ex, "verifying", "complete")
  <2>1. KnownAt("complete") /\ ~Ruling("complete") /\ Settled
    BY <1>3 DEF KnownAt, Ruling, InHand, Settled
  <2>. QED
    BY <1>1, <1>2, <1>3, <2>1, StatusNames, ExecutorBegins
<1>4. CASE Goto(ex, "wait") /\ UNCHANGED call
  <2>1. "wait" \in Plain
    BY DEF Plain, Labels, InHand
  <2>. QED
    BY <1>1, <1>2, <1>4, <2>1, PlainKnown, ExecutorGoes
<1>5. CASE outcome.plan = {"assign"} /\ Goto(ex, "assign") /\ UNCHANGED call
  <2>1. KnownAt("assign")
    BY <1>5 DEF KnownAt, Ruling, InHand
  <2>. QED
    BY <1>1, <1>2, <1>5, <2>1, ExecutorGoes
<1>6. CASE outcome.plan = {} /\ Goto(ex, "verify") /\ UNCHANGED call
  <2>1. KnownAt("verify")
    BY <1>6 DEF KnownAt, Ruling, InHand
  <2>. QED
    BY <1>1, <1>2, <1>6, <2>1, ExecutorGoes
<1>. QED
  BY <1>3, <1>4, <1>5, <1>6 DEF Gate

LEMMA CompleteStep ==
    ASSUME IInv, Complete
    PROVE  IInv'
<1>1. /\ pc[ex] = "complete" /\ Quiet /\ rechecks' \in 0..MaxRechecks /\ rechecks' < MaxRechecks
      /\ Begin(ex, "completed", "return")
  BY DEF Complete, At, ExUnchanged, Quiet, bodyVars, IInv, Typed, RunTyped
<1>2. Settled
  BY <1>1 DEF IInv, Core, KnownAt
<1>3. "return" \in Plain
  BY DEF Plain, Labels, InHand
<1>. QED
  BY <1>1, <1>2, <1>3, PlainKnown, StatusNames, ExecutorBegins

LEMMA BlockStep ==
    ASSUME IInv, Block
    PROVE  IInv'
<1>1. /\ pc[ex] = "block" /\ Quiet /\ rechecks' \in 0..MaxRechecks /\ rechecks' < MaxRechecks
      /\ Begin(ex, "blocked", "return")
  BY DEF Block, At, ExUnchanged, Quiet, bodyVars, IInv, Typed, RunTyped
<1>2. "return" \in Plain
  BY DEF Plain, Labels, InHand
<1>. QED
  BY <1>1, <1>2, PlainKnown, StatusNames, ExecutorBegins DEF Ending

LEMMA RecheckStep ==
    ASSUME IInv, Recheck
    PROVE  IInv'
<1>1. /\ pc[ex] = "recheck" /\ At(ex, pc[ex]) /\ Quiet /\ rechecks' = rechecks
      /\ rechecks \in 0..MaxRechecks /\ call' = call
  BY DEF Recheck, At, ExUnchanged, Quiet, bodyVars, IInv, Typed, RunTyped
<1>2. {"await", "consume"} \subseteq Plain
  BY DEF Plain, Labels, InHand
<1>3. CASE Goto(ex, "consume")
  BY <1>1, <1>2, <1>3, PlainKnown, ExecutorGoes
<1>4. CASE Goto(ex, "await") /\ ~(rechecks >= MaxRechecks)
  <2>1. rechecks < MaxRechecks
    BY <1>1, <1>4, MissionAssumption
  <2>. QED
    BY <1>1, <1>2, <1>4, <2>1, PlainKnown, ExecutorGoes
<1>. QED
  BY <1>3, <1>4 DEF Recheck

LEMMA AddressStep ==
    ASSUME IInv, Address
    PROVE  IInv'
<1>1. /\ pc[ex] = "address" /\ rechecks' \in 0..MaxRechecks /\ rechecks' < MaxRechecks
      /\ UNCHANGED <<criteria, waits, jobs, tx, run, envVars>> /\ seen' \in Statuses
      /\ todo' \in [{ex, ow} -> SUBSET Criteria]
      /\ verdict' \in [Criteria -> Rulings]
      /\ pc' = [pc EXCEPT ![ex] = "await"]
      /\ call' = [call EXCEPT ![ex] = Fresh("waiting_external")]
  BY DEF Address, At, ExUnchanged, bodyVars, IInv, Typed, RunTyped, RestTyped, Begin, Goto, Fresh
<1>2. outcome' \in Row /\ outcome'.status = outcome.status /\ outcome'.plan = outcome.plan
  BY DEF Address, IInv, Typed, DataTyped, Row
<1>3. "await" \in Plain /\ Fresh("waiting_external").to = "waiting_external"
  BY DEF Plain, Labels, InHand, Fresh
<1>4. Fresh("waiting_external").to \notin Ending
  BY <1>3 DEF Ending
<1>. QED
  BY <1>1, <1>2, <1>3, <1>4, PlainKnown, StatusNames, StillWaiting, ExecutorMoves

\* An invocation that is over: the body returns, registers a wait or fails.
LEMMA ExecutorLeaves ==
    ASSUME IInv, pc' = [pc EXCEPT ![ex] = "off"], call' = [call EXCEPT ![ex] = NoCall],
           UNCHANGED <<durable, tx, envVars>>, run' \in Run, run'.attempts < MaxAttempts
              \/ run'.engine \in {"ended", "dead"}, seen' = "accepted",
           rechecks' \in 0..MaxRechecks, verdict' \in [Criteria -> Rulings],
           todo' \in [{ex, ow} -> SUBSET Criteria]
    PROVE  IInv'
<1>1. /\ Typed /\ Core /\ ex \in Actors /\ "off" \in Places(ex) /\ KnownAt("off")
  BY DEF IInv, Actors, Places, Labels, KnownAt, Ruling, InHand
<1>2. Control(ex, "off", NoCall)
  BY <1>1 DEF Control
<1>3. SameData
  BY DEF SameData, envVars, durable
<1>4. Core'
  BY <1>1, <1>2, <1>3, CoreControl
<1>5. ControlTyped' /\ pc'[ex] = "off" /\ call'[ex] = NoCall
  BY <1>1, <1>2, ControlKeepsTypes, ControlFields DEF Typed
<1>6. RunTyped'
  BY <1>5, StatusNames DEF RunTyped
<1>7. DataTyped' /\ RestTyped'
  BY <1>1 DEF Typed, DataTyped, RestTyped, envVars, durable
<1>8. WaitInv'
  BY DEF IInv, WaitInv, durable
<1>. QED
  BY <1>4, <1>5, <1>6, <1>7, <1>8 DEF IInv, Typed

LEMMA EndStep ==
    ASSUME IInv, End
    PROVE  IInv'
<1>1. /\ pc' = [pc EXCEPT ![ex] = "off"] /\ call' = [call EXCEPT ![ex] = NoCall]
      /\ UNCHANGED <<durable, tx, envVars>> /\ seen' = "accepted"
      /\ rechecks' \in 0..MaxRechecks /\ verdict' \in [Criteria -> Rulings]
      /\ todo' \in [{ex, ow} -> SUBSET Criteria]
  BY DEF End, At, Leave, Goto, ExUnchanged, bodyVars, IInv, Typed, RunTyped, RestTyped, ControlTyped
<1>2. run' \in Run /\ run'.engine = "ended"
  BY DEF End, IInv, Typed, RunTyped, Run
<1>. QED
  BY <1>1, <1>2, ExecutorLeaves

LEMMA AwaitStep ==
    ASSUME IInv, Await
    PROVE  IInv'
<1>1. /\ pc[ex] = "await" /\ At(ex, pc[ex]) /\ rechecks \in Nat /\ rechecks < MaxRechecks
      /\ MaxRechecks \in Nat /\ run \in Run /\ run.attempts < MaxAttempts /\ call' = call
  BY MissionAssumption DEF Await, At, IInv, Typed, RunTyped
<1>2. CASE rechecks' = rechecks + 1 /\ Goto(ex, "recheck") /\ UNCHANGED <<run, seen>>
  <2>1. "recheck" \in Plain
    BY DEF Plain, Labels, InHand
  <2>2. Quiet
    BY <1>2 DEF Await, ExUnchanged, Quiet, IInv, Typed, RunTyped
  <2>3. rechecks' \in 0..MaxRechecks
    BY <1>1, <1>2
  <2>. QED
    BY <1>1, <1>2, <2>1, <2>2, <2>3, PlainKnown, ExecutorGoes
<1>3. CASE run' = [run EXCEPT !.engine = "signal"] /\ Leave /\ rechecks' = 0
  <2>1. /\ pc' = [pc EXCEPT ![ex] = "off"] /\ call' = [call EXCEPT ![ex] = NoCall]
        /\ UNCHANGED <<durable, tx, envVars>> /\ seen' = "accepted"
        /\ rechecks' \in 0..MaxRechecks /\ verdict' \in [Criteria -> Rulings]
        /\ todo' \in [{ex, ow} -> SUBSET Criteria]
    BY <1>1, <1>3 DEF Await, At, Leave, Goto, ExUnchanged, IInv, Typed, RestTyped, ControlTyped
  <2>2. run' \in Run /\ run'.attempts < MaxAttempts
    BY <1>1, <1>3 DEF Run
  <2>. QED
    BY <2>1, <2>2, ExecutorLeaves
<1>. QED
  BY <1>2, <1>3 DEF Await

LEMMA PauseStep ==
    ASSUME IInv, Pause
    PROVE  IInv'
<1>1. /\ pc[ex] = "pause" /\ rechecks' \in 0..MaxRechecks /\ rechecks' < MaxRechecks
      /\ run \in Run /\ run.attempts < MaxAttempts /\ UNCHANGED <<durable, tx, todo, verdict, envVars>>
  BY DEF Pause, At, ExUnchanged, bodyVars, IInv, Typed, RunTyped
<1>2. CASE run' = [run EXCEPT !.engine = "approval"] /\ Leave /\ UNCHANGED call
  <2>1. /\ pc' = [pc EXCEPT ![ex] = "off"] /\ call' = [call EXCEPT ![ex] = NoCall]
        /\ seen' = "accepted" /\ verdict' \in [Criteria -> Rulings]
        /\ todo' \in [{ex, ow} -> SUBSET Criteria]
    BY <1>1, <1>2 DEF Pause, At, Leave, Goto, IInv, Typed, RestTyped, ControlTyped
  <2>2. run' \in Run /\ run'.attempts < MaxAttempts
    BY <1>1, <1>2 DEF Run
  <2>. QED
    BY <1>1, <2>1, <2>2, ExecutorLeaves
<1>3. CASE Begin(ex, "failed", "return") /\ UNCHANGED <<run, seen>>
  <2>1. "return" \in Plain
    BY DEF Plain, Labels, InHand
  <2>2. Quiet
    BY <1>1, <1>3 DEF Quiet, IInv, Typed, RunTyped
  <2>. QED
    BY <1>1, <1>3, <2>1, <2>2, PlainKnown, StatusNames, ExecutorBegins DEF Ending
<1>. QED
  BY <1>2, <1>3 DEF Pause

\* An exception: the actor is where it rests, and what it had open is undone.
LEMMA RaiseStep ==
    ASSUME IInv, NEW p \in Actors, Raise(p), p = ex => run.engine = "body",
           UNCHANGED durable, UNCHANGED <<scan, policy>>, found' \in Statuses,
           rechecks' \in 0..MaxRechecks, todo' \in [{ex, ow} -> SUBSET Criteria],
           verdict' \in [Criteria -> Rulings], p # ex => verdict' = verdict /\ rechecks' = rechecks
    PROVE  IInv'
<1> DEFINE l == Rest[p]
<1>1. /\ Typed /\ Core /\ ex \in Actors /\ l \in Places(p) /\ (p = ex => l = "off")
      /\ (p = ow => l = "idle") /\ KnownAt("off")
  BY DEF IInv, Actors, Places, Labels, KnownAt, Ruling, InHand, Rest
<1>2. Control(p, l, NoCall) /\ tx' = IF tx.by = p THEN NoTx ELSE tx
  BY <1>1 DEF Control, Raise
<1> HIDE DEF l
<1>3. SameData
  BY DEF SameData, durable
<1>4. Core'
  <2>1. p = ow => l \notin {"list", "done", "finish"}
    BY <1>1
  <2>. QED
    BY <1>1, <1>2, <1>3, <2>1, CoreControl
<1>5. /\ ControlTyped' /\ pc'[p] = l /\ call'[p] = NoCall
      /\ \A q \in Actors \ {p} : pc'[q] = pc[q] /\ call'[q] = call[q]
  BY <1>1, <1>2, ControlKeepsTypes, ControlFields DEF Typed
<1>6. RunTyped'
  <2>1. CASE p = ex
    <3>1. run' = [run EXCEPT !.attempts = @ + 1,
                             !.engine = IF run.attempts + 1 < MaxAttempts THEN "invoke" ELSE "dead"]
          /\ seen' = "accepted"
      BY <2>1 DEF Raise
    <3>2. run \in Run /\ run.attempts < MaxAttempts /\ MaxAttempts \in Nat
      BY <1>1, <2>1, MissionAssumption DEF Typed, RunTyped
    <3>3. /\ run'.attempts = run.attempts + 1 /\ run.attempts \in Nat
          /\ run'.engine = IF run.attempts + 1 < MaxAttempts THEN "invoke" ELSE "dead"
          /\ run'.attempts \in 0..MaxAttempts
      BY <3>1, <3>2 DEF Run
    <3>4. run' \in Run
      BY <3>1, <3>2, <3>3 DEF Run
    <3>5. pc'[ex] = "off" /\ call'[ex] = NoCall
      BY <1>1, <1>5, <2>1
    <3>. QED
      BY <3>1, <3>3, <3>4, <3>5, StatusNames DEF RunTyped
  <2>2. CASE p # ex
    <3>1. /\ run' = run /\ seen' = seen /\ rechecks' = rechecks
          /\ pc'[ex] = pc[ex] /\ call'[ex] = call[ex]
      BY <1>1, <1>5, <2>2 DEF Raise
    <3>. QED
      BY <1>1, <3>1 DEF Typed, RunTyped
  <2>. QED
    BY <2>1, <2>2
<1>7. DataTyped' /\ RestTyped'
  BY <1>1 DEF Typed, DataTyped, RestTyped, durable
<1>8. WaitInv'
  BY DEF IInv, WaitInv, durable
<1>. QED
  BY <1>4, <1>5, <1>6, <1>7, <1>8 DEF IInv, Typed

LEMMA CrashStep ==
    ASSUME IInv, Crash
    PROVE  IInv'
<1>1. /\ Raise(ex) /\ run.engine = "body" /\ UNCHANGED durable /\ UNCHANGED <<scan, policy>>
      /\ ex \in Actors /\ found' \in Statuses /\ rechecks' \in 0..MaxRechecks
      /\ todo' \in [{ex, ow} -> SUBSET Criteria]
  BY MissionAssumption DEF Crash, envVars, Actors, IInv, Typed, RestTyped
<1>2. verdict' \in [Criteria -> Rulings]
  BY DEF Crash, NoVerdict, Rulings
<1>. QED
  BY <1>1, <1>2, RaiseStep

LEMMA RequestDiesStep ==
    ASSUME IInv, RequestDies
    PROVE  IInv'
<1>1. /\ Raise(ow) /\ UNCHANGED durable /\ UNCHANGED <<scan, policy>> /\ verdict' = verdict
      /\ rechecks' = rechecks /\ ow \in Actors /\ ow # ex /\ found' = "accepted"
      /\ todo' \in [{ex, ow} -> SUBSET Criteria] /\ rechecks' \in 0..MaxRechecks
      /\ verdict' \in [Criteria -> Rulings]
  BY DEF RequestDies, Actors, IInv, Typed, RestTyped, RunTyped
<1>. QED
  BY <1>1, StatusNames, RaiseStep

\* The engine invokes the body, or a wait of it runs out.
LEMMA InvokeStep ==
    ASSUME IInv, Invoke
    PROVE  IInv'
<1>1. /\ pc[ex] = "off" /\ call[ex] = NoCall /\ run \in Run /\ run.attempts < MaxAttempts
      /\ Typed /\ Core /\ ex \in Actors /\ "start" \in Places(ex)
      /\ run' = [run EXCEPT !.engine = "body"] /\ rechecks' = 0
  BY DEF Invoke, IInv, Typed, RunTyped, Actors, Places, Labels
<1>2. Control(ex, "start", NoCall) /\ tx' = tx
  BY <1>1 DEF Control, Invoke, Goto, Typed, ControlTyped
<1>3. SameData
  BY DEF SameData, Invoke, durable, envVars
<1>4. "start" \in Plain
  BY DEF Plain, Labels, InHand
<1>5. Core'
  BY <1>1, <1>2, <1>3, <1>4, PlainKnown, CoreControl
<1>6. ControlTyped' /\ pc'[ex] = "start"
  BY <1>1, <1>2, ControlKeepsTypes, ControlFields DEF Typed
<1>7. RunTyped'
  <2>1. run' \in Run /\ run'.attempts = run.attempts /\ run'.engine = "body"
    BY <1>1 DEF Run
  <2>2. seen' \in Statuses
    BY <1>1 DEF Invoke, Typed, DataTyped, Row
  <2>. QED
    BY <1>1, <1>6, <2>1, <2>2, MissionAssumption DEF RunTyped
<1>8. DataTyped' /\ RestTyped' /\ WaitInv'
  BY <1>1 DEF Invoke, Typed, DataTyped, RestTyped, durable, envVars, IInv, WaitInv
<1>. QED
  BY <1>5, <1>6, <1>7, <1>8 DEF IInv, Typed

----------------------------------------------------------------------------
(* The scanner, time, and the moves of the owner and the reaper *)

\* A step of none of the actors.
LEMMA OffStage ==
    ASSUME IInv, UNCHANGED <<criteria, jobs, tx, pc, call, seen, bodyVars, found, policy>>,
           outcome' \in Row, outcome'.status = outcome.status, outcome'.plan = outcome.plan,
           waits' \in Seq({"waiting", "satisfied", "expired"}), WaitInv',
           run' \in Run, run'.attempts = run.attempts,
           run' = run \/ (run.engine # "body" /\ run.attempts < MaxAttempts),
           scan' \in {"idle", "stamp"}
    PROVE  IInv'
<1>1. Typed /\ Core /\ SameData
  BY DEF IInv, SameData
<1>2. /\ Unmet' = Unmet /\ LiveJobs' = LiveJobs /\ Called' = Called /\ Last' = Last
      /\ (VerifierDue' <=> VerifierDue) /\ (Backing' <=> Backing) /\ (Settled' <=> Settled)
      /\ criteria' = criteria /\ jobs' = jobs /\ pc' = pc /\ call' = call /\ verdict' = verdict
  BY <1>1, SameDataSame DEF SameData, bodyVars
<1>3. Ended' <=> Ended
  BY <1>1, <1>2 DEF Ended
<1>4. KnownAt(pc[ex])'
  <2>1. Ruling(pc[ex])' <=> Ruling(pc[ex])
    BY <1>2 DEF Ruling
  <2>2. (Live(Last)' <=> Live(Last))
        /\ (Has("research", {"succeeded"})' <=> Has("research", {"succeeded"}))
    BY <1>2 DEF Live, Has
  <2>. QED
    BY <1>1, <1>2, <1>3, <2>1, <2>2 DEF Core, KnownAt
<1>5. OverInv' /\ GateInv'
  BY <1>1, <1>2, <1>3 DEF Core, OverInv, GateInv
<1>6. PaidInv' /\ CompletedMeansCriteriaMet'
  BY <1>1, <1>2 DEF Core, PaidInv, CompletedMeansCriteriaMet, Met
<1>7. WorkerVerifiedIsBacked'
  BY <1>1, <1>2 DEF Core, WorkerVerifiedIsBacked, Has
<1>8. DataTyped' /\ RestTyped'
  BY <1>1 DEF Typed, DataTyped, RestTyped, bodyVars
<1>9. ControlTyped'
  BY <1>1 DEF Typed, ControlTyped, Places
<1>10. RunTyped'
  BY <1>1 DEF Typed, RunTyped, bodyVars
<1>. QED
  BY <1>4, <1>5, <1>6, <1>7, <1>8, <1>9, <1>10 DEF IInv, Typed, Core

LEMMA SatisfyStep ==
    ASSUME IInv, Satisfy
    PROVE  IInv'
<1>1. PICK w \in DOMAIN waits : waits[w] = "waiting" /\ waits' = [waits EXCEPT ![w] = "satisfied"]
  BY DEF Satisfy
<1>2. waits \in Seq({"waiting", "satisfied", "expired"})
  BY DEF IInv, Typed, DataTyped
<1>3. waits' \in Seq({"waiting", "satisfied", "expired"}) /\ DOMAIN waits' = DOMAIN waits
  BY <1>1, <1>2
<1>4. WaitInv'
  BY <1>1, <1>2, <1>3, WaitsShrink DEF IInv
<1>5. /\ UNCHANGED <<criteria, jobs, tx, pc, call, seen, bodyVars, found, policy>>
      /\ outcome' \in Row /\ outcome'.status = outcome.status /\ outcome'.plan = outcome.plan
      /\ run' = run /\ run' \in Run /\ scan' \in {"idle", "stamp"}
  BY DEF Satisfy, ScanUnchanged, IInv, Typed, DataTyped, RunTyped, RestTyped
<1>. QED
  BY <1>3, <1>4, <1>5, OffStage

\* The row is signaled or read; the run is woken or its wait runs out.
LEMMA WakingStep ==
    ASSUME IInv, Signal \/ Stamp \/ StampAges \/ SignalTimesOut \/ ApprovalTimesOut \/ Decide
                 \/ DeadlinePasses \/ WaitFallsDue
    PROVE  IInv'
<1>1. /\ UNCHANGED <<criteria, waits, jobs, tx, pc, call, seen, bodyVars, found, policy>>
  BY DEF Signal, Stamp, StampAges, SignalTimesOut, ApprovalTimesOut, Decide, Request,
         DeadlinePasses, WaitFallsDue, ScanUnchanged, durable, envVars
<1>2. outcome \in Row /\ run \in Run /\ scan \in {"idle", "stamp"}
      /\ (run.engine \in {"signal", "approval"} => run.attempts < MaxAttempts)
  BY DEF IInv, Typed, DataTyped, RunTyped, RestTyped
<1>3. outcome' \in Row /\ outcome'.status = outcome.status /\ outcome'.plan = outcome.plan
  <2>1. CASE outcome' = outcome
    BY <1>2, <2>1
  <2>2. CASE Stamp \/ StampAges
    BY <1>2, <2>2 DEF Stamp, StampAges, Row
  <2>. QED
    BY <2>1, <2>2 DEF Signal, SignalTimesOut, ApprovalTimesOut, Decide, DeadlinePasses,
                      WaitFallsDue, durable
<1>4. scan' \in {"idle", "stamp"}
  BY <1>2 DEF Signal, Stamp, StampAges, SignalTimesOut, ApprovalTimesOut, Decide,
              DeadlinePasses, WaitFallsDue, ScanUnchanged, envVars
<1>5. /\ run' \in Run /\ run'.attempts = run.attempts
      /\ run' = run \/ (run.engine # "body" /\ run.attempts < MaxAttempts)
  <2>1. CASE run' = run
    BY <1>2, <2>1
  <2>2. CASE run.engine = "signal" /\ run' = [run EXCEPT !.engine = "invoke", !.resumes = @ + 1]
    <3>1. run.resumes \in Nat
      BY <1>2 DEF Run
    <3>2. run.resumes + 1 \in Nat
      BY <3>1
    <3>. QED
      BY <1>2, <2>2, <3>2 DEF Run
  <2>3. Signal \/ SignalTimesOut => (run' = run) \/
          (run.engine = "signal" /\ run' = [run EXCEPT !.engine = "invoke", !.resumes = @ + 1])
    BY DEF Signal, SignalTimesOut
  <2>4. CASE ApprovalTimesOut
    BY <1>2, <2>4 DEF ApprovalTimesOut, Run
  <2>5. CASE Decide /\ run.engine = "approval"
    BY <1>2, <2>1, <2>5 DEF Decide, Run
  <2>. QED
    BY <2>1, <2>2, <2>3, <2>4, <2>5 DEF Signal, Stamp, StampAges, Decide, DeadlinePasses,
                                        WaitFallsDue, ScanUnchanged
<1>. QED
  BY <1>1, <1>3, <1>4, <1>5, StillWaiting, OffStage

\* The owner or the reaper goes on at l, in a transition k or in none.
LEMMA OtherMoves ==
    ASSUME IInv, NEW p \in {ow, rp}, NEW l \in Places(p), NEW k,
           k = NoCall \/ \E to \in Statuses : k = Fresh(to),
           pc' = [pc EXCEPT ![p] = l], call' = [call EXCEPT ![p] = k],
           UNCHANGED <<outcome, criteria, jobs, tx, run, seen, rechecks, verdict, scan, policy>>,
           waits' \in Seq({"waiting", "satisfied", "expired"}), WaitInv',
           todo' \in [{ex, ow} -> SUBSET Criteria], found' \in Statuses,
           k # NoCall /\ k.to \in Ending => Ended, k # NoCall => k.to # "waiting_user",
           p = ow /\ l \in {"list", "done", "finish"} => Ended
    PROVE  IInv'
<1>1. /\ Typed /\ Core /\ SameData /\ p \in Actors /\ p # ex /\ ex \in Actors
      /\ (k = NoCall \/ (k \in Calls /\ ~k.open))
  BY FreshIsCall DEF IInv, Actors, SameData
<1>2. Control(p, l, k)
  BY <1>1 DEF Control
<1>3. Ended => Settled /\ ~Ruling(pc[ex])
  BY <1>1 DEF Core, OverInv, KnownAt
<1>4. Core'
  BY <1>1, <1>2, <1>3, CoreControl
<1>5. ControlTyped' /\ pc'[ex] = pc[ex] /\ call'[ex] = call[ex]
  BY <1>1, <1>2, ControlKeepsTypes, ControlFields DEF Typed
<1>6. RunTyped'
  BY <1>1, <1>5 DEF Typed, RunTyped
<1>7. DataTyped' /\ RestTyped'
  BY <1>1 DEF Typed, DataTyped, RestTyped
<1>. QED
  BY <1>4, <1>5, <1>6, <1>7 DEF IInv, Typed

\* A step of the owner or the reaper that is control and no more begins k, or none.
OtherControl(p, l, k) ==
    /\ l \in Places(p) /\ (k = NoCall \/ \E to \in Statuses : k = Fresh(to))
    /\ pc' = [pc EXCEPT ![p] = l] /\ call' = [call EXCEPT ![p] = k]
    /\ UNCHANGED <<outcome, criteria, jobs, tx, run, seen, rechecks, verdict, scan, policy>>

LEMMA OtherBegins ==
    ASSUME NEW p \in {ow, rp}, NEW to \in Statuses, NEW l \in Places(p), Begin(p, to, l),
           UNCHANGED <<outcome, criteria, jobs, tx, run, seen, rechecks, verdict, scan, policy>>
    PROVE  OtherControl(p, l, Fresh(to))
BY DEF OtherControl, Begin, Goto, Fresh

LEMMA OtherGoes ==
    ASSUME IInv, NEW p \in {ow, rp}, NEW l \in Places(p), At(p, pc[p]), Goto(p, l), call' = call,
           UNCHANGED <<outcome, criteria, jobs, tx, run, seen, rechecks, verdict, scan, policy>>
    PROVE  OtherControl(p, l, NoCall)
BY DEF OtherControl, Goto, At, IInv, Typed, ControlTyped

LEMMA OtherPlaces ==
    /\ Places(ow) = {"idle", "list", "done", "finish"} /\ Places(rp) = {"idle", "expire", "touched"}
    /\ ow # rp /\ NoCall.to = "none"
BY DEF Places, NoCall

LEMMA OwnerControl ==
    ASSUME IInv, MissionDone \/ ListUnmet \/ MarkDone \/ FinishDone \/ MissionFailed
    PROVE  IInv'
<1>1. /\ UNCHANGED <<outcome, criteria, waits, jobs, tx, run, seen, rechecks, verdict, scan, policy>>
      /\ ow \in {ow, rp}
  BY DEF MissionDone, ListUnmet, MarkDone, FinishDone, MissionFailed, OwnerUnchanged, durable, Request
<1>2. todo' \in [{ex, ow} -> SUBSET Criteria] /\ found' \in Statuses
  <2>1. todo \in [{ex, ow} -> SUBSET Criteria] /\ found \in Statuses /\ outcome.status \in Statuses
        /\ Unmet \subseteq Criteria
    BY DEF IInv, Typed, RestTyped, DataTyped, Row, Unmet
  <2>. QED
    BY <2>1, StatusNames DEF MissionDone, ListUnmet, MarkDone, FinishDone, MissionFailed
<1>3. waits' \in Seq({"waiting", "satisfied", "expired"}) /\ WaitInv'
  BY <1>1, StillWaiting
<1>4. SUFFICES \E l \in Places(ow) : \E k :
                  /\ OtherControl(ow, l, k) /\ (k # NoCall /\ k.to \in Ending => Ended)
                  /\ k # NoCall => k.to # "waiting_user"
                  /\ l \in {"list", "done", "finish"} => Ended
  BY <1>1, <1>2, <1>3, OtherMoves DEF OtherControl
<1>5. pc[ow] \in {"list", "done", "finish"} => Ended
  BY DEF Ended
<1>6. CASE MissionDone
  <2>1. outcome.status \in {"waiting_user", "verifying"} /\ At(ow, pc[ow]) /\ Goto(ow, "list")
        /\ call' = call
    BY <1>6 DEF MissionDone, DoneFrom, Request, At
  <2>2. OtherControl(ow, "list", NoCall) /\ Ended
    BY <1>1, <2>1, OtherGoes, OtherPlaces DEF Ended
  <2>. QED
    BY <2>2, OtherPlaces
<1>7. CASE ListUnmet
  <2>1. pc[ow] = "list" /\ At(ow, pc[ow]) /\ Goto(ow, "done") /\ call' = call
    BY <1>7 DEF ListUnmet, At
  <2>2. OtherControl(ow, "done", NoCall) /\ Ended
    BY <1>1, <1>5, <2>1, OtherGoes, OtherPlaces
  <2>. QED
    BY <2>2, OtherPlaces
<1>8. CASE MarkDone \/ FinishDone
  <2>1. Ended
    BY <1>5, <1>8 DEF MarkDone, FinishDone, At
  <2>2. PICK to \in {"verifying", "completed"} : \E l \in {"finish", "idle"} : Begin(ow, to, l)
    BY <1>8 DEF MarkDone, FinishDone
  <2>3. PICK l \in {"finish", "idle"} : Begin(ow, to, l)
    BY <2>2
  <2>4. to \in Statuses /\ Fresh(to).to = to /\ l \in Places(ow)
    BY StatusNames, OtherPlaces DEF Fresh
  <2>5. OtherControl(ow, l, Fresh(to))
    BY <1>1, <2>3, <2>4, OtherBegins
  <2>. QED
    BY <2>1, <2>4, <2>5
<1>9. CASE MissionFailed
  <2>1. Begin(ow, "failed", "idle")
    BY <1>9 DEF MissionFailed
  <2>2. "failed" \in Statuses /\ Fresh("failed").to = "failed" /\ "idle" \in Places(ow)
    BY StatusNames, OtherPlaces DEF Fresh
  <2>3. OtherControl(ow, "idle", Fresh("failed"))
    BY <1>1, <2>1, <2>2, OtherBegins
  <2>. QED
    BY <2>2, <2>3 DEF Ending
<1>. QED
  BY <1>6, <1>7, <1>8, <1>9

LEMMA ReaperStep ==
    ASSUME IInv, ReapOverdue \/ ReapExpired \/ ReapTouched \/ TickDies
    PROVE  IInv'
<1>1. /\ UNCHANGED <<outcome, criteria, jobs, tx, run, seen, rechecks, verdict, scan, policy>>
      /\ UNCHANGED <<todo, found>> /\ rp \in {ow, rp}
  BY DEF ReapOverdue, ReapExpired, ReapTouched, TickDies, ReapUnchanged, durable, bodyVars, envVars
<1>2. todo' \in [{ex, ow} -> SUBSET Criteria] /\ found' \in Statuses
  BY <1>1 DEF IInv, Typed, RestTyped
<1>3. waits' \in Seq({"waiting", "satisfied", "expired"}) /\ WaitInv'
  <2>1. CASE waits' = waits
    BY <2>1, StillWaiting
  <2>2. CASE ReapExpired
    <3>1. waits \in Seq({"waiting", "satisfied", "expired"}) /\ WaitInv
      BY DEF IInv, Typed, DataTyped
    <3>2. waits' = [w \in DOMAIN waits |-> IF w \in Expired THEN "expired" ELSE waits[w]]
      BY <2>2 DEF ReapExpired
    <3>3. /\ DOMAIN waits' = DOMAIN waits
          /\ \A w \in DOMAIN waits : waits'[w] \in {waits[w], "expired"}
      BY <3>2
    <3>4. waits' \in Seq({"waiting", "satisfied", "expired"})
      BY <3>1, <3>2
    <3>. QED
      BY <3>1, <3>3, <3>4, WaitsShrink
  <2>. QED
    BY <2>1, <2>2 DEF ReapOverdue, ReapTouched, TickDies, durable
<1>4. SUFFICES \E l \in Places(rp) : \E k :
                  /\ OtherControl(rp, l, k) /\ (k # NoCall => k.to \notin Ending)
  BY <1>1, <1>2, <1>3, OtherMoves, OtherPlaces DEF OtherControl, Ending
<1>5. CASE \E to \in {"failed", "blocked"}, l \in {"idle", "expire"} : Begin(rp, to, l)
  <2>1. PICK to \in {"failed", "blocked"}, l \in {"idle", "expire"} : Begin(rp, to, l)
    BY <1>5
  <2>2. to \in Statuses /\ Fresh(to).to = to /\ l \in Places(rp)
    BY StatusNames, OtherPlaces DEF Fresh
  <2>3. OtherControl(rp, l, Fresh(to))
    BY <1>1, <2>1, <2>2, OtherBegins
  <2>. QED
    BY <2>2, <2>3 DEF Ending
<1>6. CASE call' = call /\ At(rp, pc[rp]) /\ \E l \in {"idle", "touched"} : Goto(rp, l)
  <2>1. PICK l \in {"idle", "touched"} : Goto(rp, l)
    BY <1>6
  <2>2. OtherControl(rp, l, NoCall) /\ l \in Places(rp)
    BY <1>1, <1>6, <2>1, OtherGoes, OtherPlaces
  <2>. QED
    BY <2>2
<1>. QED
  BY <1>5, <1>6 DEF ReapOverdue, ReapExpired, ReapTouched, TickDies, At

----------------------------------------------------------------------------
(* The executor: a wait, and what it does without touching an assignment *)

LEMMA OpenWaitStep ==
    ASSUME IInv, OpenWait
    PROVE  IInv'
<1>1. /\ pc[ex] = "wait" /\ rechecks' \in 0..MaxRechecks /\ rechecks' < MaxRechecks
      /\ UNCHANGED <<criteria, jobs, tx, run, envVars>> /\ seen' \in Statuses
      /\ todo' \in [{ex, ow} -> SUBSET Criteria]
      /\ verdict' \in [Criteria -> Rulings] /\ outcome' \in Row /\ outcome' = outcome
      /\ pc' = [pc EXCEPT ![ex] = "address"] /\ call' = [call EXCEPT ![ex] = NoCall]
  BY DEF OpenWait, At, Goto, ExUnchanged, bodyVars, IInv, Typed, DataTyped, ControlTyped, RunTyped,
         RestTyped
<1>2. waits' \in Seq({"waiting", "satisfied", "expired"}) /\ WaitInv'
  <2>1. waits \in Seq({"waiting", "satisfied", "expired"}) /\ WaitInv
    BY DEF IInv, Typed, DataTyped
  <2>2. CASE Reusable # {}
    <3>1. waits' = waits
      BY <2>2 DEF OpenWait
    <3>. QED
      BY <3>1, StillWaiting
  <2>3. CASE Reusable = {}
    <3>1. waits' = Append(waits, "waiting")
      BY <2>3 DEF OpenWait
    <3>2. /\ DOMAIN waits = 1..Len(waits) /\ DOMAIN waits' = 1..(Len(waits) + 1) /\ Len(waits) \in Nat
          /\ \A w \in 1..Len(waits) : waits'[w] = waits[w]
      BY <2>1, <3>1
    <3>3. \A w \in 1..Len(waits) : waits[w] \notin {"waiting", "satisfied"}
      BY <2>3, <3>2 DEF Reusable
    <3>4. \A w \in DOMAIN waits' : waits'[w] \in {"waiting", "satisfied"} => w = Len(waits) + 1
      BY <3>2, <3>3
    <3>5. WaitInv'
      BY <3>4 DEF WaitInv
    <3>. QED
      BY <2>1, <3>1, <3>5
  <2>. QED
    BY <2>2, <2>3
<1>3. "address" \in Plain
  BY DEF Plain, Labels, InHand
<1>. QED
  BY <1>1, <1>2, <1>3, PlainKnown, ExecutorMoves

LEMMA AppliedStep ==
    ASSUME IInv, Applied
    PROVE  IInv'
<1>1. /\ pc[ex] = "apply" /\ rechecks' \in 0..MaxRechecks /\ rechecks' < MaxRechecks
      /\ UNCHANGED <<criteria, jobs, tx, run, envVars>> /\ UNCHANGED waits
      /\ todo' \in [{ex, ow} -> SUBSET Criteria]
      /\ seen' \in Statuses /\ outcome' \in Row /\ outcome' = outcome
      /\ pc' = [pc EXCEPT ![ex] = "reread"] /\ call' = [call EXCEPT ![ex] = NoCall]
  BY DEF Applied, At, Goto, ExUnchanged, durable, IInv, Typed, DataTyped, ControlTyped, RunTyped,
         RestTyped
<1>2. verdict' \in [Criteria -> Rulings]
  BY DEF Applied, NoVerdict, Rulings
<1>3. "reread" \in Plain
  BY DEF Plain, Labels, InHand
<1>. QED
  BY <1>1, <1>2, <1>3, PlainKnown, StillWaiting, ExecutorMoves

\* A worker the policy does not enable, a verifier that is not due, an outcome
\* that is parked or left alone.
LEMMA WithoutWork ==
    ASSUME IInv, Assign \/ Verify \/ Park, jobs' = jobs
    PROVE  IInv'
<1>1. /\ At(ex, pc[ex]) /\ pc[ex] \in {"assign", "verify", "park"} /\ rechecks' \in 0..MaxRechecks
      /\ rechecks' < MaxRechecks
  BY DEF Assign, Verify, Park, At, bodyVars, IInv, Typed, RunTyped
<1>2. Quiet
  BY DEF Assign, Verify, Park, ExUnchanged, Quiet, durable, bodyVars, IInv, Typed, RunTyped
<1>3. {"return", "pause"} \subseteq Plain
  BY DEF Plain, Labels, InHand
<1>4. CASE Begin(ex, "blocked", "return")
  BY <1>1, <1>2, <1>3, <1>4, PlainKnown, StatusNames, ExecutorBegins DEF Ending
<1>5. CASE Goto(ex, "return") /\ UNCHANGED call
  BY <1>1, <1>2, <1>3, <1>5, PlainKnown, ExecutorGoes
<1>6. CASE pc[ex] = "verify" /\ ~VerifierDue /\ Goto(ex, "park") /\ UNCHANGED call
  <2>1. KnownAt("park") /\ "park" \in Labels \ {"apply"}
    BY <1>6 DEF KnownAt, IInv, Core, InHand, Ruling, Labels
  <2>. QED
    BY <1>1, <1>2, <1>6, <2>1, ExecutorGoes
<1>7. CASE pc[ex] = "park" /\ LiveJobs = {} /\ Begin(ex, "waiting_user", "pause")
  <2>1. Settled
    BY <1>7 DEF Settled, KnownAt, IInv, Core
  <2>. QED
    BY <1>1, <1>2, <1>3, <1>7, <2>1, PlainKnown, StatusNames, ExecutorBegins
<1>8. jobs \in Seq(Job) /\ jobs' = jobs
  BY DEF IInv, Typed, DataTyped
<1>9. ~Mint("research") /\ ~Mint("verifier")
  BY <1>8 DEF Mint
<1>10. ~ \E j \in LiveJobs : SetJob(j, "failed")
  <2>1. ASSUME NEW j \in LiveJobs, SetJob(j, "failed") PROVE FALSE
    <3>1. j \in DOMAIN jobs /\ jobs[j].status \in {"queued", "running"} /\ jobs[j] \in Job
      BY <1>8 DEF LiveJobs, Live
    <3>2. jobs'[j].status = "failed"
      BY <2>1, <3>1 DEF SetJob, Job
    <3>. QED
      BY <1>8, <3>1, <3>2
  <2>. QED
    BY <2>1
<1>11. CASE Assign
  BY <1>4, <1>9, <1>11 DEF Assign
<1>12. CASE Verify
  BY <1>6, <1>9, <1>12 DEF Verify, At
<1>13. CASE Park
  BY <1>5, <1>7, <1>10, <1>13 DEF Park, At
<1>. QED
  BY <1>11, <1>12, <1>13

----------------------------------------------------------------------------
(* The executor: assignments *)

LEMMA PlainKnownNext ==
    ASSUME NEW l \in Plain
    PROVE  KnownAt(l)'
BY DEF Plain, KnownAt, Ruling, InHand

\* Where the executor stands tells nothing of the end.
LEMMA EndedSame ==
    ASSUME Typed, NEW l, pc' = [pc EXCEPT ![ex] = l], call' = call, outcome'.status = outcome.status
    PROVE  Ended' <=> Ended
<1>1. pc'[ow] = pc[ow]
  BY DEF Typed, ControlTyped, Actors
<1>. QED
  BY <1>1 DEF Ended

\* What has succeeded is not rewritten.
Keeps == \A j \in DOMAIN jobs : jobs[j].status = "succeeded"
                                   => j \in DOMAIN jobs' /\ jobs'[j] = jobs[j]

LEMMA KeepsBacking ==
    ASSUME Keeps
    PROVE  /\ Has("research", {"succeeded"}) => Has("research", {"succeeded"})'
           /\ Backing => Backing'
BY DEF Keeps, Has, Backing

\* The executor's step on its assignments that leads to l.
JobStep(l) ==
    /\ At(ex, pc[ex]) /\ Goto(ex, l) /\ call' = call
    /\ UNCHANGED <<outcome, criteria, waits, tx, run, seen, rechecks, envVars>>
    /\ jobs' \in Seq(Job) /\ Keeps

LEMMA JobsMove ==
    ASSUME IInv, pc[ex] \notin {"off", "recheck", "consume"},
           NEW l \in Labels \ {"off", "recheck", "consume"}, JobStep(l),
           todo' \in [{ex, ow} -> SUBSET Criteria], verdict' \in [Criteria -> Rulings],
           Ended => Unmet = {}, KnownAt(l)', PaidInv'
    PROVE  IInv'
<1>1. /\ Typed /\ Core /\ ex \in Actors /\ ow \in Actors /\ rechecks < MaxRechecks
      /\ pc' = [pc EXCEPT ![ex] = l] /\ call[ex] = NoCall /\ call' = call /\ outcome' = outcome
      /\ criteria' = criteria /\ Keeps
  BY DEF IInv, Actors, JobStep, At, Goto, Typed, RunTyped
<1>2. Control(ex, l, NoCall)
  BY <1>1 DEF Control, Places, Typed, ControlTyped
<1>3. ControlTyped' /\ pc'[ex] = l
  BY <1>1, <1>2, ControlKeepsTypes, ControlFields DEF Typed, JobStep
<1>4. RunTyped'
  BY <1>1, <1>3 DEF Typed, RunTyped, JobStep
<1>5. DataTyped' /\ RestTyped'
  BY <1>1 DEF Typed, DataTyped, RestTyped, JobStep, envVars
<1>6. WaitInv'
  BY DEF IInv, WaitInv, JobStep
<1>7. Unmet' = Unmet
  BY <1>1 DEF Unmet, Met
<1>8. OverInv'
  BY <1>1, <1>7, EndedSame DEF OverInv, Settled
<1>9. GateInv'
  <2>1. NoCall.to # "waiting_user"
    BY DEF NoCall
  <2>. QED
    BY <1>1, <1>7, <2>1 DEF Core, GateInv
<1>10. CompletedMeansCriteriaMet'
  BY <1>1 DEF Core, CompletedMeansCriteriaMet, Met
<1>11. WorkerVerifiedIsBacked'
  <2>1. ASSUME NEW c \in Criteria, "verifier" \in criteria'[c].proof PROVE Backing'
    <3>1. Backing
      BY <1>1, <2>1 DEF Core, WorkerVerifiedIsBacked, Backing
    <3>. QED
      BY <1>1, <3>1, KeepsBacking
  <2>. QED
    BY <2>1 DEF WorkerVerifiedIsBacked, Backing
<1>. QED
  BY <1>3, <1>4, <1>5, <1>6, <1>8, <1>9, <1>10, <1>11 DEF IInv, Typed, Core

\* One live assignment is rewritten.
Rewrites(i, r) ==
    /\ jobs' \in Seq(Job) /\ Len(jobs') = Len(jobs) /\ DOMAIN jobs' = DOMAIN jobs
    /\ jobs'[i] = r /\ \A j \in DOMAIN jobs \ {i} : jobs'[j] = jobs[j]

LEMMA Rewriting ==
    ASSUME jobs \in Seq(Job), NEW i \in DOMAIN jobs, NEW r \in Job, jobs' = [jobs EXCEPT ![i] = r]
    PROVE  Rewrites(i, r)
BY DEF Rewrites

LEMMA SettingStatus ==
    ASSUME jobs \in Seq(Job), NEW i \in DOMAIN jobs, NEW st \in JobStatuses, SetJob(i, st)
    PROVE  LET r == [jobs[i] EXCEPT !.status = st]
           IN  /\ Rewrites(i, r) /\ r \in Job /\ r.role = jobs[i].role /\ r.status = st
               /\ r.called = jobs[i].called
<1>1. jobs[i] \in Job
  OBVIOUS
<1>2. [jobs[i] EXCEPT !.status = st] \in Job
  BY <1>1 DEF Job
<1>3. jobs' = [jobs EXCEPT ![i] = [jobs[i] EXCEPT !.status = st]]
  BY DEF SetJob
<1>. QED
  BY <1>1, <1>2, <1>3, Rewriting DEF Job

\* The one rewritten had not succeeded, and its role stays.
LEMMA RewritesKeeps ==
    ASSUME NEW i \in DOMAIN jobs, Live(i), NEW r, Rewrites(i, r), r.role = jobs[i].role
    PROVE  /\ Keeps /\ Called \ {i} = Called' \ {i}
           /\ r.called = jobs[i].called => Called' = Called
BY DEF Rewrites, Keeps, Live, Called

\* A live assignment means that nothing is settled but by its criteria.
LEMMA LiveUnsettled ==
    ASSUME IInv, NEW j \in DOMAIN jobs, Live(j)
    PROVE  Ended => Unmet = {}
BY DEF IInv, Core, OverInv, Settled, LiveJobs

\* The executor's steps on the assignment in hand, and on one a crash left behind.
WorkStep ==
    /\ ExUnchanged /\ UNCHANGED <<outcome, criteria, waits, run, call, seen, bodyVars>>
    /\ At(ex, pc[ex]) /\ pc[ex] \notin {"off", "recheck", "consume"}

LEMMA WorkRewrites ==
    ASSUME IInv, WorkStep, NEW l \in Labels \ {"off", "recheck", "consume"}, Goto(ex, l),
           NEW i \in DOMAIN jobs, Live(i), NEW r \in Job, Rewrites(i, r), r.role = jobs[i].role,
           r.called = jobs[i].called, KnownAt(l)'
    PROVE  IInv'
<1>1. Keeps /\ Called' = Called
  BY RewritesKeeps
<1>2. JobStep(l)
  BY <1>1 DEF WorkStep, JobStep, ExUnchanged, bodyVars, Rewrites
<1>3. Ended => Unmet = {}
  BY LiveUnsettled
<1>4. PaidInv'
  BY <1>1 DEF IInv, Core, PaidInv, WorkStep
<1>5. todo' \in [{ex, ow} -> SUBSET Criteria] /\ verdict' \in [Criteria -> Rulings]
  BY DEF WorkStep, bodyVars, IInv, Typed, RestTyped
<1>. QED
  BY <1>2, <1>3, <1>4, <1>5, JobsMove DEF WorkStep

\* Of an assignment in hand: there is one, it is live, and the plan is empty.
LEMMA HandKnown ==
    ASSUME IInv, pc[ex] \in InHand
    PROVE  /\ Last \in DOMAIN jobs /\ jobs \in Seq(Job) /\ jobs[Last] \in Job /\ Live(Last)
           /\ KnownAt(pc[ex]) /\ outcome.plan = {} /\ jobs # <<>>
           /\ jobs[Last].role = "verifier" => Has("research", {"succeeded"}) /\ ~Ended
<1>1. jobs # <<>> /\ Live(Last) /\ jobs \in Seq(Job) /\ KnownAt(pc[ex]) /\ outcome.plan = {}
      /\ (jobs[Last].role = "verifier" => Has("research", {"succeeded"}) /\ ~Ended)
  BY DEF IInv, Typed, DataTyped, Core, KnownAt, Ruling
<1>2. Last \in DOMAIN jobs
  BY <1>1 DEF Last
<1>3. jobs[Last] \in Job
  BY <1>1, <1>2
<1>. QED
  BY <1>1, <1>2, <1>3

\* What is known of it is still known when its row was rewritten.
LEMMA StillInHand ==
    ASSUME IInv, WorkStep, pc[ex] \in InHand, NEW l \in InHand, Goto(ex, l),
           NEW r, Rewrites(Last, r), r.role = jobs[Last].role, r.status \in {"queued", "running"},
           l = "model" /\ r.role = "research" => Called' = {}, l # "dispatch"
    PROVE  KnownAt(l)'
<1>1. /\ Last \in DOMAIN jobs /\ Live(Last) /\ outcome.plan = {} /\ jobs # <<>>
      /\ (jobs[Last].role = "verifier" => Has("research", {"succeeded"}) /\ ~Ended)
      /\ jobs \in Seq(Job) /\ Last' = Last /\ jobs'[Last] = r /\ jobs' # <<>>
  BY HandKnown DEF Rewrites, Last
<1>2. Keeps
  BY <1>1, RewritesKeeps
<1>3. r.role = "verifier" => Has("research", {"succeeded"})'
  BY <1>1, <1>2, KeepsBacking
<1>4. r.role = "verifier" => ~Ended'
  BY <1>1, EndedSame DEF WorkStep, Goto, IInv
<1>5. Live(Last)'
  BY <1>1 DEF Live
<1>6. outcome'.plan = {}
  BY <1>1 DEF WorkStep
<1>. QED
  BY <1>1, <1>3, <1>4, <1>5, <1>6 DEF KnownAt, Ruling, InHand

\* The assignment i ends as st, and the executor goes where nothing has to be known.
LEMMA WorkEnds ==
    ASSUME IInv, WorkStep, NEW i \in DOMAIN jobs, Live(i), NEW st \in JobStatuses, SetJob(i, st),
           Goto(ex, "block")
    PROVE  IInv'
<1>1. PICK r : r = [jobs[i] EXCEPT !.status = st]
  OBVIOUS
<1>2. /\ Rewrites(i, r) /\ r \in Job /\ r.role = jobs[i].role /\ r.called = jobs[i].called
  BY <1>1, SettingStatus DEF IInv, Typed, DataTyped
<1>3. "block" \in Plain /\ "block" \in Labels
  BY DEF Plain, Labels, InHand
<1>4. KnownAt("block")'
  BY <1>3, PlainKnownNext
<1>. QED
  BY <1>2, <1>3, <1>4, WorkRewrites

LEMMA DispatchStep ==
    ASSUME IInv, Dispatch
    PROVE  IInv'
<1>1. WorkStep /\ pc[ex] = "dispatch" /\ pc[ex] \in InHand
  BY DEF Dispatch, WorkStep, At, InHand
<1>2. /\ Last \in DOMAIN jobs /\ jobs \in Seq(Job) /\ Live(Last) /\ KnownAt("dispatch")
  BY <1>1, HandKnown
<1>3. PICK last : last = Last
  OBVIOUS
<1>4. CASE SetJob(Last, "running") /\ Goto(ex, "model")
  <2>1. PICK r : r = [jobs[last] EXCEPT !.status = "running"]
    OBVIOUS
  <2>2. /\ Rewrites(last, r) /\ r \in Job /\ r.role = jobs[last].role /\ r.status = "running"
        /\ r.called = jobs[last].called
    BY <1>2, <1>3, <1>4, <2>1, SettingStatus DEF JobStatuses
  <2>3. Called' = Called
    BY <1>2, <1>3, <2>2, RewritesKeeps
  <2>4. "model" \in InHand /\ "model" \in Labels /\ (r.role = "research" => Called' = {})
    BY <1>2, <1>3, <2>2, <2>3 DEF InHand, Labels, KnownAt
  <2>5. KnownAt("model")'
    BY <1>1, <1>3, <1>4, <2>2, <2>4, StillInHand
  <2>. QED
    BY <1>1, <1>2, <1>3, <1>4, <2>2, <2>4, <2>5, WorkRewrites
<1>5. CASE SetJob(Last, "failed") /\ Goto(ex, "block")
  <2>1. "failed" \in JobStatuses
    BY DEF JobStatuses
  <2>. QED
    BY <1>1, <1>2, <1>3, <1>5, <2>1, WorkEnds
<1>. QED
  BY <1>4, <1>5 DEF Dispatch

LEMMA RejectStep ==
    ASSUME IInv, RejectResult
    PROVE  IInv'
<1>1. WorkStep /\ pc[ex] \in InHand /\ Goto(ex, "block")
  BY DEF RejectResult, WorkStep, At, InHand
<1>2. PICK st \in {"failed", "blocked"} : SetJob(Last, st)
  BY DEF RejectResult
<1>3. PICK last : last = Last
  OBVIOUS
<1>4. last \in DOMAIN jobs /\ Live(last) /\ SetJob(last, st) /\ st \in JobStatuses
  BY <1>1, <1>2, <1>3, HandKnown DEF JobStatuses
<1>. QED
  BY <1>1, <1>4, WorkEnds

LEMMA ParkStep ==
    ASSUME IInv, Park
    PROVE  IInv'
<1>1. CASE jobs' = jobs
  BY <1>1, WithoutWork
<1>2. CASE (\E j \in LiveJobs : SetJob(j, "failed")) /\ Goto(ex, "block") /\ UNCHANGED call
  <2>1. PICK j \in LiveJobs : SetJob(j, "failed")
    BY <1>2
  <2>2. j \in DOMAIN jobs /\ Live(j) /\ "failed" \in JobStatuses
    BY DEF LiveJobs, JobStatuses
  <2>3. WorkStep
    BY <1>2 DEF Park, WorkStep, At
  <2>. QED
    BY <1>2, <2>1, <2>2, <2>3, WorkEnds
<1>. QED
  BY <1>1, <1>2 DEF Park

LEMMA CallModelStep ==
    ASSUME IInv, CallModel
    PROVE  IInv'
<1>1. /\ At(ex, pc[ex]) /\ pc[ex] = "model" /\ pc[ex] \in InHand /\ Goto(ex, "spend")
      /\ UNCHANGED <<outcome, criteria, waits, tx, run, call, seen, bodyVars, envVars>>
      /\ Core /\ Typed /\ WorkStep
  BY DEF CallModel, At, InHand, ExUnchanged, IInv, WorkStep
<1>2. PICK last : last = Last
  OBVIOUS
<1>3. /\ last \in DOMAIN jobs /\ jobs \in Seq(Job) /\ jobs[last] \in Job /\ Live(last)
      /\ KnownAt("model") /\ outcome.plan = {}
  BY <1>1, <1>2, HandKnown
<1>4. PICK cost \in Costs :
         jobs' = [jobs EXCEPT ![last].called = TRUE, ![last].charged = cost]
  BY <1>2 DEF CallModel
<1>5. PICK r : r = [jobs[last] EXCEPT !.called = TRUE, !.charged = cost]
  OBVIOUS
<1>6. /\ r \in Job /\ r.role = jobs[last].role /\ r.status = jobs[last].status
      /\ r.status \in {"queued", "running"}
  BY <1>3, <1>5, MissionAssumption DEF Job, Live
<1>7. jobs' = [jobs EXCEPT ![last] = r]
  BY <1>3, <1>4, <1>5
<1>8. Rewrites(last, r)
  BY <1>3, <1>6, <1>7, Rewriting
<1>9. Keeps /\ Called \ {last} = Called' \ {last}
  BY <1>3, <1>6, <1>8, RewritesKeeps
<1>10. KnownAt("spend")' /\ "spend" \in Labels
  <2>1. "spend" \in InHand /\ "spend" \in Labels
    BY DEF InHand, Labels
  <2>. QED
    BY <1>1, <1>2, <1>6, <1>8, <2>1, StillInHand
<1>11. PaidInv'
  <2>1. CASE r.role = "research"
    <3>1. Called = {}
      BY <1>2, <1>3, <1>6, <2>1 DEF KnownAt
    <3>. QED
      BY <1>1, <1>3, <1>9, <3>1 DEF PaidInv
  <2>2. CASE r.role # "research"
    <3>1. Called' = Called
      BY <1>3, <1>6, <1>8, <1>9, <2>2 DEF Called, Rewrites
    <3>. QED
      BY <1>1, <3>1 DEF Core, PaidInv
  <2>. QED
    BY <2>1, <2>2
<1>12. JobStep("spend")
  BY <1>1, <1>8, <1>9 DEF JobStep, Rewrites, bodyVars
<1>13. Ended => Unmet = {}
  BY <1>3, LiveUnsettled
<1>14. todo' \in [{ex, ow} -> SUBSET Criteria] /\ verdict' \in [Criteria -> Rulings]
  BY <1>1 DEF bodyVars, Typed, RestTyped
<1>. QED
  BY <1>1, <1>10, <1>11, <1>12, <1>13, <1>14, JobsMove

LEMMA SpendStep ==
    ASSUME IInv, Spend
    PROVE  IInv'
<1>1. WorkStep /\ pc[ex] = "spend" /\ pc[ex] \in InHand
  BY DEF Spend, WorkStep, At, InHand
<1>2. PICK last : last = Last
  OBVIOUS
<1>3. /\ last \in DOMAIN jobs /\ jobs \in Seq(Job) /\ jobs[last] \in Job /\ Live(last)
  BY <1>1, <1>2, HandKnown
<1>4. CASE SetJob(Last, "failed") /\ Goto(ex, "block")
  <2>1. "failed" \in JobStatuses
    BY DEF JobStatuses
  <2>. QED
    BY <1>1, <1>2, <1>3, <1>4, <2>1, WorkEnds
<1>5. CASE /\ jobs' = [jobs EXCEPT ![Last].spent = @ + jobs[Last].charged]
           /\ Goto(ex, "judge")
  <2>1. PICK sum : sum = jobs[last].spent + jobs[last].charged
    OBVIOUS
  <2>2. jobs[last].spent \in Nat /\ jobs[last].charged \in Nat
    BY <1>3 DEF Job
  <2>3. sum \in Nat
    BY <2>1, <2>2
  <2>4. PICK r : r = [jobs[last] EXCEPT !.spent = sum]
    OBVIOUS
  <2>5. /\ r \in Job /\ r.role = jobs[last].role /\ r.status \in {"queued", "running"}
        /\ r.called = jobs[last].called
    BY <1>3, <2>3, <2>4 DEF Job, Live
  <2>6. jobs' = [jobs EXCEPT ![last] = r]
    BY <1>2, <1>3, <1>5, <2>1, <2>4
  <2>7. Rewrites(last, r)
    BY <1>3, <2>5, <2>6, Rewriting
  <2>8. "judge" \in InHand /\ "judge" \in Labels
    BY DEF InHand, Labels
  <2>9. KnownAt("judge")'
    BY <1>1, <1>2, <1>5, <2>5, <2>7, <2>8, StillInHand
  <2>. QED
    BY <1>1, <1>3, <1>5, <2>5, <2>7, <2>8, <2>9, WorkRewrites
<1>. QED
  BY <1>4, <1>5 DEF Spend

LEMMA AcceptResearchStep ==
    ASSUME IInv, AcceptResearch
    PROVE  IInv'
<1>1. WorkStep /\ pc[ex] \in InHand /\ Goto(ex, "reread")
  BY DEF AcceptResearch, WorkStep, At, InHand
<1>2. PICK last : last = Last
  OBVIOUS
<1>3. /\ last \in DOMAIN jobs /\ jobs \in Seq(Job) /\ jobs[last] \in Job /\ Live(last)
  BY <1>1, <1>2, HandKnown
<1>4. PICK claim \in Claims :
         jobs' = [jobs EXCEPT ![last].status = "succeeded", ![last].spent = claim]
  BY <1>2 DEF AcceptResearch
<1>5. PICK r : r = [jobs[last] EXCEPT !.status = "succeeded", !.spent = claim]
  OBVIOUS
<1>6. r \in Job /\ r.role = jobs[last].role /\ r.called = jobs[last].called
  BY <1>3, <1>5, MissionAssumption DEF Job, JobStatuses
<1>7. jobs' = [jobs EXCEPT ![last] = r]
  BY <1>3, <1>4, <1>5
<1>8. Rewrites(last, r)
  BY <1>3, <1>6, <1>7, Rewriting
<1>9. "reread" \in Plain /\ "reread" \in Labels
  BY DEF Plain, Labels, InHand
<1>10. KnownAt("reread")'
  BY <1>9, PlainKnownNext
<1>. QED
  BY <1>1, <1>3, <1>6, <1>8, <1>9, <1>10, WorkRewrites

LEMMA AcceptVerdictStep ==
    ASSUME IInv, AcceptVerdict
    PROVE  IInv'
<1>1. /\ At(ex, pc[ex]) /\ pc[ex] = "judge" /\ pc[ex] \in InHand /\ Goto(ex, "apply")
      /\ UNCHANGED <<outcome, criteria, waits, tx, run, call, seen, rechecks, envVars>>
      /\ Core /\ Typed /\ jobs[Last].role = "verifier" /\ todo' = [todo EXCEPT ![ex] = Criteria]
  BY DEF AcceptVerdict, At, InHand, ExUnchanged, IInv
<1>2. PICK last : last = Last
  OBVIOUS
<1>3. /\ last \in DOMAIN jobs /\ jobs \in Seq(Job) /\ jobs[last] \in Job /\ Live(last)
      /\ outcome.plan = {} /\ Has("research", {"succeeded"}) /\ ~Ended
  BY <1>1, <1>2, HandKnown
<1>4. PICK v \in [Criteria -> Rulings] :
         /\ verdict' = v
         /\ jobs' = [jobs EXCEPT ![last].status = "succeeded",
                                 ![last].spent = jobs[last].charged,
                                 ![last].evidence = \E c \in Criteria : v[c] = "verified"]
  BY <1>2 DEF AcceptVerdict
<1>5. PICK confirmed \in BOOLEAN : confirmed = \E c \in Criteria : v[c] = "verified"
  OBVIOUS
<1>6. PICK r : r = [jobs[last] EXCEPT !.status = "succeeded", !.spent = jobs[last].charged,
                                      !.evidence = confirmed]
  OBVIOUS
<1>7. /\ r \in Job /\ r.role = "verifier" /\ r.role = jobs[last].role /\ r.status = "succeeded"
      /\ r.called = jobs[last].called /\ r.evidence = confirmed
  BY <1>1, <1>2, <1>3, <1>6 DEF Job, JobStatuses
<1>8. jobs' = [jobs EXCEPT ![last] = r]
  BY <1>3, <1>4, <1>5, <1>6
<1>9. Rewrites(last, r)
  BY <1>3, <1>7, <1>8, Rewriting
<1>10. Keeps /\ Called' = Called
  BY <1>3, <1>7, <1>9, RewritesKeeps
<1>11. confirmed => Backing'
  <2>1. last \in DOMAIN jobs' /\ jobs'[last] = r
    BY <1>3, <1>9 DEF Rewrites
  <2>2. Has("research", {"succeeded"})'
    BY <1>3, <1>10, KeepsBacking
  <2>. QED
    BY <1>7, <2>1, <2>2 DEF Backing
<1>12. ~Ended'
  BY <1>1, <1>3, EndedSame DEF Goto
<1>13. KnownAt("apply")'
  BY <1>4, <1>5, <1>11, <1>12 DEF KnownAt, Ruling, InHand
<1>14. PaidInv'
  BY <1>1, <1>10 DEF Core, PaidInv
<1>15. JobStep("apply") /\ "apply" \in Labels
  BY <1>1, <1>9, <1>10 DEF JobStep, Rewrites, Labels
<1>16. todo' \in [{ex, ow} -> SUBSET Criteria] /\ verdict' \in [Criteria -> Rulings]
  BY <1>1, <1>4 DEF Typed, RestTyped
<1>. QED
  BY <1>1, <1>3, <1>13, <1>14, <1>15, <1>16, JobsMove

\* An assignment is minted: for the plan's entry, or for the verifier.
LEMMA Minting ==
    ASSUME jobs \in Seq(Job), NEW role \in {"research", "verifier"}, Mint(role)
    PROVE  /\ jobs' \in Seq(Job) /\ jobs' # <<>> /\ Keeps /\ Called' = Called
           /\ Live(Last)' /\ jobs'[Last'].role = role
<1>1. NewJob(role) \in Job
  BY DEF NewJob, Job, JobStatuses
<1>2. PICK n : n = Len(jobs)
  OBVIOUS
<1>3. /\ jobs' \in Seq(Job) /\ DOMAIN jobs = 1..n /\ DOMAIN jobs' = 1..(n + 1) /\ n \in Nat
      /\ jobs'[n + 1] = NewJob(role) /\ Len(jobs') = n + 1
      /\ \A j \in 1..n : jobs'[j] = jobs[j]
  BY <1>1, <1>2 DEF Mint
<1>4. n + 1 \in 1..(n + 1) /\ 1..n \subseteq 1..(n + 1) /\ 1..(n + 1) = (1..n) \cup {n + 1}
  BY <1>3
<1>5. Keeps
  BY <1>3, <1>4 DEF Keeps
<1>6. Called' = Called
  BY <1>3, <1>4 DEF Called, NewJob
<1>7. jobs' # <<>> /\ Last' = n + 1
  BY <1>3 DEF Last
<1>. QED
  BY <1>3, <1>5, <1>6, <1>7 DEF Live, NewJob

LEMMA MintStep ==
    ASSUME IInv, Assign \/ Verify, jobs' # jobs
    PROVE  IInv'
<1>1. /\ Core /\ Typed /\ jobs \in Seq(Job) /\ At(ex, pc[ex]) /\ call' = call
      /\ pc[ex] \notin {"off", "recheck", "consume"}
      /\ UNCHANGED <<outcome, criteria, waits, tx, run, seen, rechecks, envVars>>
      /\ UNCHANGED <<todo, verdict>>
  BY DEF Assign, Verify, At, ExUnchanged, bodyVars, IInv, Typed, DataTyped
<1>2. todo' \in [{ex, ow} -> SUBSET Criteria] /\ verdict' \in [Criteria -> Rulings]
  BY <1>1 DEF Typed, RestTyped
<1>3. CASE pc[ex] = "assign" /\ Mint("research") /\ Goto(ex, "unplan")
  <2>1. /\ jobs' \in Seq(Job) /\ jobs' # <<>> /\ Keeps /\ Called' = Called
        /\ Live(Last)' /\ jobs'[Last'].role = "research"
    BY <1>1, <1>3, Minting
  <2>2. outcome.plan = {"assign"}
    BY <1>1, <1>3 DEF Core, KnownAt
  <2>3. Ended => Unmet = {}
    BY <1>1, <2>2 DEF Core, OverInv, Settled
  <2>4. PaidInv'
    BY <1>1, <2>1 DEF Core, PaidInv
  <2>5. KnownAt("unplan")' /\ "unplan" \in Labels
    BY <1>1, <2>1, <2>2 DEF KnownAt, Ruling, InHand, Labels
  <2>6. JobStep("unplan")
    BY <1>1, <1>3, <2>1 DEF JobStep
  <2>. QED
    BY <1>1, <1>2, <2>3, <2>4, <2>5, <2>6, JobsMove
<1>4. CASE pc[ex] = "verify" /\ VerifierDue /\ Mint("verifier") /\ Goto(ex, "dispatch")
  <2>1. /\ jobs' \in Seq(Job) /\ jobs' # <<>> /\ Keeps /\ Called' = Called
        /\ Live(Last)' /\ jobs'[Last'].role = "verifier"
    BY <1>1, <1>4, Minting
  <2>2. outcome.plan = {} /\ Has("research", {"succeeded"}) /\ Unmet # {}
    BY <1>1, <1>4 DEF Core, KnownAt, VerifierDue, Unmet, Met
  <2>3. ~Ended
    BY <1>1, <1>4, <2>2 DEF Core, OverInv, Settled
  <2>4. PaidInv'
    BY <1>1, <2>1 DEF Core, PaidInv
  <2>5. ~Ended'
    BY <1>1, <1>4, <2>3, EndedSame DEF Goto
  <2>6. KnownAt("dispatch")' /\ "dispatch" \in Labels
    BY <1>1, <2>1, <2>2, <2>5, KeepsBacking DEF KnownAt, Ruling, InHand, Labels
  <2>7. JobStep("dispatch")
    BY <1>1, <1>4, <2>1 DEF JobStep
  <2>. QED
    BY <1>1, <1>2, <2>3, <2>4, <2>6, <2>7, JobsMove
<1>. QED
  BY <1>3, <1>4 DEF Assign, Verify, At

----------------------------------------------------------------------------
(* The executor: its plan *)

\* An entry of the plan is consumed.
LEMMA PlanMoves ==
    ASSUME IInv, pc[ex] # "off", NEW l \in Labels \ {"off", "recheck", "consume"}, NEW k,
           k = NoCall \/ k = Fresh("running"),
           pc' = [pc EXCEPT ![ex] = l], call' = [call EXCEPT ![ex] = k],
           UNCHANGED <<criteria, waits, jobs, tx, run, seen, todo, verdict, envVars>>,
           outcome' \in Row, outcome'.status = outcome.status, outcome'.plan \subseteq outcome.plan,
           rechecks' \in 0..MaxRechecks, rechecks' < MaxRechecks, KnownAt(l)'
    PROVE  IInv'
<1>1. /\ Typed /\ Core /\ ex \in Actors /\ l \in Places(ex)
      /\ k = NoCall \/ (k \in Calls /\ ~k.open)
      /\ k.to \notin Ending \cup {"waiting_user"}
  BY FreshIsCall, StatusNames DEF IInv, Actors, Places, NoCall, Ending
<1>2. Control(ex, l, k)
  BY <1>1 DEF Control
<1>3. /\ ControlTyped' /\ pc'[ex] = l /\ call'[ex] = k
      /\ \A q \in Actors \ {ex} : pc'[q] = pc[q] /\ call'[q] = call[q]
  BY <1>1, <1>2, ControlKeepsTypes, ControlFields DEF Typed
<1>4. RunTyped' /\ DataTyped' /\ RestTyped'
  BY <1>1, <1>3 DEF Typed, RunTyped, DataTyped, RestTyped, envVars
<1>5. WaitInv'
  BY DEF IInv, WaitInv
<1>6. /\ Unmet' = Unmet /\ LiveJobs' = LiveJobs /\ Called' = Called
      /\ (VerifierDue' <=> VerifierDue)
  BY DEF Unmet, Met, LiveJobs, Live, Called, VerifierDue, Has, envVars
<1>7. Settled => Settled'
  BY <1>6 DEF Settled
<1>8. Ended' => Ended
  BY <1>1, <1>3 DEF Ended, Actors
<1>9. OverInv'
  BY <1>1, <1>7, <1>8 DEF Core, OverInv
<1>10. GateInv'
  BY <1>1, <1>3, <1>6 DEF Core, GateInv
<1>11. PaidInv' /\ CompletedMeansCriteriaMet'
  BY <1>1, <1>6 DEF Core, PaidInv, CompletedMeansCriteriaMet, Met
<1>12. WorkerVerifiedIsBacked'
  BY <1>1 DEF Core, WorkerVerifiedIsBacked, Has
<1>. QED
  BY <1>3, <1>4, <1>5, <1>9, <1>10, <1>11, <1>12 DEF IInv, Typed, Core

LEMMA UnplanStep ==
    ASSUME IInv, Unplan
    PROVE  IInv'
<1>1. /\ pc[ex] = "unplan" /\ Core /\ Typed
      /\ pc' = [pc EXCEPT ![ex] = "dispatch"] /\ call' = [call EXCEPT ![ex] = NoCall] /\ call' = call
      /\ UNCHANGED <<criteria, waits, jobs, tx, run, seen, todo, verdict, envVars>>
      /\ rechecks' \in 0..MaxRechecks /\ rechecks' < MaxRechecks
  BY DEF Unplan, At, Goto, ExUnchanged, bodyVars, IInv, Typed, ControlTyped, RunTyped
<1>2. /\ outcome.plan = {"assign"} /\ jobs # <<>> /\ Live(Last) /\ jobs[Last].role = "research"
  BY <1>1 DEF Core, KnownAt, InHand
<1>3. Called = {}
  BY <1>1, <1>2 DEF Core, PaidInv
<1>4. outcome' \in Row /\ outcome'.status = outcome.status /\ outcome'.plan = {}
  BY <1>1, <1>2 DEF Unplan, Typed, DataTyped, Row
<1>5. KnownAt("dispatch")' /\ "dispatch" \in Labels
  <2>1. Called' = Called /\ Last' = Last /\ (Live(Last)' <=> Live(Last)) /\ jobs' = jobs
    BY <1>1 DEF Called, Last, Live
  <2>. QED
    BY <1>2, <1>3, <1>4, <2>1 DEF KnownAt, Ruling, InHand, Labels
<1>. QED
  BY <1>1, <1>4, <1>5, PlanMoves

LEMMA ConsumeStep ==
    ASSUME IInv, Consume
    PROVE  IInv'
<1>1. /\ pc[ex] = "consume" /\ pc' = [pc EXCEPT ![ex] = "gate"]
      /\ call' = [call EXCEPT ![ex] = Fresh("running")]
      /\ UNCHANGED <<criteria, waits, jobs, tx, run, seen, todo, verdict, envVars>>
      /\ rechecks' \in 0..MaxRechecks /\ rechecks' < MaxRechecks
  BY MissionAssumption DEF Consume, At, Begin, Goto, Fresh, ExUnchanged, bodyVars
<1>2. /\ outcome' \in Row /\ outcome'.status = outcome.status
      /\ outcome'.plan \subseteq outcome.plan
  BY DEF Consume, IInv, Typed, DataTyped, Row
<1>3. "gate" \in Plain /\ "gate" \in Labels
  BY DEF Plain, Labels, InHand
<1>4. KnownAt("gate")'
  BY <1>3, PlainKnownNext
<1>. QED
  BY <1>1, <1>2, <1>3, <1>4, PlanMoves

----------------------------------------------------------------------------
(* Criteria: the verifier's rulings and the owner's *)

LEMMA FirstIsOne ==
    ASSUME NEW S \in SUBSET Criteria, S # {}
    PROVE  First(S) \in S
<1> DEFINE Down(k) == 0..k
           Downs == {Down(k) : k \in S}
<1>1. S \subseteq Nat
  BY MissionAssumption
<1>2. Downs \subseteq FiniteSubsetsOf(Nat) /\ Downs # {}
  <2>1. ASSUME NEW k \in S PROVE Down(k) \in FiniteSubsetsOf(Nat)
    <3>1. k \in Int /\ 0 \in Int /\ Down(k) \in SUBSET Nat
      BY <1>1
    <3>2. IsFiniteSet(Down(k))
      BY <3>1, FS_Interval
    <3>. QED
      BY <3>1, <3>2 DEF FiniteSubsetsOf
  <2>. QED
    BY <2>1
<1>3. \E u \in Downs : \A v \in Downs : <<v, u>> \notin StrictSubsetOrdering(Nat)
  BY <1>2, WFMin, FS_StrictSubsetOrderingWellFounded, Zenon
<1>4. PICK x \in S : \A y \in S : <<Down(y), Down(x)>> \notin StrictSubsetOrdering(Nat)
  BY <1>3
<1>5. ASSUME NEW y \in S, y < x PROVE FALSE
  <2>1. Down(y) \subseteq Down(x) /\ Down(x) \in SUBSET Nat
    BY <1>1, <1>5
  <2>2. x \in Down(x) /\ x \notin Down(y)
    BY <1>1, <1>5
  <2>3. <<Down(y), Down(x)>> \in StrictSubsetOrdering(Nat)
    BY <2>1, <2>2 DEF StrictSubsetOrdering
  <2>. QED
    BY <1>4, <2>3
<1>6. \E c \in S : \A d \in S : c <= d
  BY <1>1, <1>5
<1>. QED
  BY <1>6, Zenon DEF First

\* No criterion becomes unmet, or pending, that was not.
Advances == /\ Unmet' \subseteq Unmet
            /\ \A c \in Criteria : criteria'[c].status = "pending" => criteria[c].status = "pending"

\* Someone rules on a criterion of an outcome that is open.
LEMMA CriteriaMove ==
    ASSUME IInv, outcome.status \notin Terminal,
           UNCHANGED <<outcome, waits, jobs, tx, run, pc, call, seen, rechecks, verdict, scan, policy>>,
           criteria' \in [Criteria -> Criterion], todo' \in [{ex, ow} -> SUBSET Criteria],
           found' \in Statuses, pc[ex] = "apply" \/ Advances,
           \A c \in Criteria : "verifier" \in criteria'[c].proof
                                  => "verifier" \in criteria[c].proof \/ Backing
    PROVE  IInv'
<1>1. Typed /\ Core
  BY DEF IInv
<1>2. /\ LiveJobs' = LiveJobs /\ Called' = Called /\ (Backing' <=> Backing)
      /\ (Ended' <=> Ended) /\ Last' = Last
  BY DEF LiveJobs, Live, Called, Backing, Has, Ended, Last
<1>3. Advances => (Settled => Settled') /\ (VerifierDue' => VerifierDue)
  BY DEF Advances, Settled, VerifierDue, Has, LiveJobs, Live
<1>4. Ended => Advances
  BY <1>1 DEF Core, KnownAt, Ruling
<1>5. OverInv'
  BY <1>1, <1>2, <1>3, <1>4 DEF Core, OverInv
<1>6. KnownAt(pc[ex])'
  <2>1. (Ruling(pc[ex])' <=> Ruling(pc[ex])) /\ (Live(Last)' <=> Live(Last))
        /\ (Has("research", {"succeeded"})' <=> Has("research", {"succeeded"}))
    BY <1>2 DEF Ruling, Live, Has
  <2>. QED
    BY <1>1, <1>2, <1>3, <2>1 DEF Core, KnownAt
<1>7. GateInv'
  <2>1. ASSUME NEW p \in Actors, call[p] # NoCall, call[p].open, call[p].to = "completed"
        PROVE  Unmet' = {}
    <3>1. Ended /\ Unmet = {}
      BY <1>1, <2>1 DEF Core, GateInv, Ended, Ending
    <3>. QED
      BY <1>4, <3>1 DEF Advances
  <2>. QED
    BY <1>1, <1>2, <2>1 DEF Core, GateInv
<1>8. PaidInv' /\ CompletedMeansCriteriaMet'
  BY <1>1, <1>2 DEF Core, PaidInv, CompletedMeansCriteriaMet, Terminal
<1>9. WorkerVerifiedIsBacked'
  <2>1. ASSUME NEW c \in Criteria, "verifier" \in criteria'[c].proof PROVE Backing'
    BY <1>1, <1>2, <2>1 DEF Core, WorkerVerifiedIsBacked, Backing
  <2>. QED
    BY <2>1 DEF WorkerVerifiedIsBacked, Backing
<1>10. Typed'
  BY <1>1 DEF Typed, DataTyped, ControlTyped, RunTyped, RestTyped, Places
<1>11. WaitInv'
  BY DEF IInv, WaitInv
<1>. QED
  BY <1>5, <1>6, <1>7, <1>8, <1>9, <1>10, <1>11 DEF IInv, Core

\* What one ruling does to the criteria.
LEMMA Setting ==
    ASSUME criteria \in [Criteria -> Criterion], NEW c \in Criteria,
           NEW st \in {"waived_by_owner"} \cup Rulings, NEW with \in SUBSET {"owner", "verifier"},
           SetCriterion(c, st, with)
    PROVE  /\ criteria' \in [Criteria -> Criterion]
           /\ criteria'[c].status = st /\ criteria'[c].proof = criteria[c].proof \cup with
           /\ \A d \in Criteria \ {c} : criteria'[d] = criteria[d]
           /\ st \in {"verified", "waived_by_owner"} => Advances
<1>1. PICK r : r = [status |-> st, proof |-> criteria[c].proof \cup with]
  OBVIOUS
<1>2. criteria[c] \in Criterion /\ criteria[c].proof \in SUBSET {"owner", "verifier"}
  BY DEF Criterion
<1>3. r.proof \in SUBSET {"owner", "verifier"} /\ r \in Criterion
  BY <1>1, <1>2 DEF Criterion
<1>4. criteria' = [criteria EXCEPT ![c] = r]
  BY <1>1 DEF SetCriterion
<1>5. /\ criteria' \in [Criteria -> Criterion] /\ criteria'[c] = r
      /\ \A d \in Criteria \ {c} : criteria'[d] = criteria[d]
  BY <1>3, <1>4
<1>6. ASSUME st \in {"verified", "waived_by_owner"} PROVE Advances
  <2>1. \A d \in Criteria : Met(d) => criteria'[d].status \in {"verified", "waived_by_owner"}
    BY <1>1, <1>5, <1>6 DEF Met
  <2>2. Unmet' \subseteq Unmet
    BY <2>1 DEF Unmet, Met
  <2>. QED
    BY <1>1, <1>5, <1>6, <2>2 DEF Advances
<1>. QED
  BY <1>1, <1>5, <1>6

LEMMA OwnerRules ==
    ASSUME IInv, outcome.status \notin Terminal, NEW c \in Criteria,
           SetCriterion(c, "verified", {"owner"}) \/ SetCriterion(c, "waived_by_owner", {}),
           UNCHANGED <<outcome, waits, jobs, tx, run, pc, call, seen, rechecks, verdict, scan, policy>>,
           todo' \in [{ex, ow} -> SUBSET Criteria], found' \in Statuses
    PROVE  IInv'
<1>1. criteria \in [Criteria -> Criterion]
  BY DEF IInv, Typed, DataTyped
<1>2. /\ criteria' \in [Criteria -> Criterion] /\ Advances
      /\ \A d \in Criteria : "verifier" \in criteria'[d].proof => "verifier" \in criteria[d].proof
  <2>1. CASE SetCriterion(c, "verified", {"owner"})
    BY <1>1, <2>1, Setting DEF Rulings
  <2>2. CASE SetCriterion(c, "waived_by_owner", {})
    BY <1>1, <2>2, Setting
  <2>. QED
    BY <2>1, <2>2
<1>. QED
  BY <1>2, CriteriaMove

LEMMA OwnerCriterionStep ==
    ASSUME IInv, NEW c \in Criteria, OwnerVerifies(c) \/ OwnerWaives(c)
    PROVE  IInv'
<1>1. todo' \in [{ex, ow} -> SUBSET Criteria] /\ found' \in Statuses
  BY DEF OwnerVerifies, OwnerWaives, IInv, Typed, RestTyped
<1>. QED
  BY <1>1, OwnerRules DEF OwnerVerifies, OwnerWaives, OwnerUnchanged

LEMMA JudgeStep ==
    ASSUME IInv, JudgeCriterion
    PROVE  IInv'
<1>1. /\ todo \in [{ex, ow} -> SUBSET Criteria] /\ found' \in Statuses /\ At(ow, "done")
      /\ UNCHANGED <<outcome, waits, jobs, tx, run, call, seen, rechecks, verdict, scan, policy>>
  BY StatusNames DEF JudgeCriterion, OwnerUnchanged, IInv, Typed, RestTyped
<1>2. CASE outcome.status \notin Terminal
  <2>1. PICK c : c = First(todo[ow])
    OBVIOUS
  <2>2. c \in Criteria
    BY <1>1, <2>1, FirstIsOne DEF JudgeCriterion
  <2>3. /\ SetCriterion(c, "verified", {"owner"}) /\ pc' = pc
        /\ todo' = [todo EXCEPT ![ow] = @ \ {First(@)}]
    BY <1>2, <2>1 DEF JudgeCriterion
  <2>4. todo' \in [{ex, ow} -> SUBSET Criteria]
    BY <1>1, <2>3
  <2>. QED
    BY <1>1, <1>2, <2>2, <2>3, <2>4, OwnerRules
<1>3. CASE outcome.status \in Terminal
  <2>1. todo' = [todo EXCEPT ![ow] = {}] /\ Goto(ow, "idle") /\ criteria' = criteria
    BY <1>3 DEF JudgeCriterion
  <2>2. todo' \in [{ex, ow} -> SUBSET Criteria]
    BY <1>1, <2>1
  <2>3. OtherControl(ow, "idle", NoCall) /\ "idle" \in Places(ow)
    BY <1>1, <2>1, OtherGoes, OtherPlaces DEF At
  <2>. QED
    BY <1>1, <2>2, <2>3, StillWaiting, OtherMoves DEF OtherControl
<1>. QED
  BY <1>2, <1>3

LEMMA ApplyVerdictStep ==
    ASSUME IInv, ApplyVerdict
    PROVE  IInv'
<1>1. /\ pc[ex] = "apply" /\ Core /\ Typed /\ criteria \in [Criteria -> Criterion]
      /\ todo \in [{ex, ow} -> SUBSET Criteria] /\ verdict \in [Criteria -> Rulings]
      /\ UNCHANGED <<outcome, waits, jobs, tx, run, seen, rechecks, envVars>>
      /\ rechecks' \in 0..MaxRechecks /\ rechecks' < MaxRechecks /\ seen' \in Statuses
  BY DEF ApplyVerdict, At, ExUnchanged, IInv, Typed, DataTyped, RestTyped, RunTyped
<1>2. CASE outcome.status \notin Terminal
  <2>1. PICK c : c = First(todo[ex])
    OBVIOUS
  <2>2. c \in Criteria /\ verdict[c] \in Rulings
    BY <1>1, <2>1, FirstIsOne DEF ApplyVerdict
  <2>3. PICK with : with = IF verdict[c] = "verified" THEN {"verifier"} ELSE {}
    OBVIOUS
  <2>4. /\ SetCriterion(c, verdict[c], with) /\ UNCHANGED <<call, pc, verdict>>
        /\ todo' = [todo EXCEPT ![ex] = @ \ {c}]
    BY <1>2, <2>1, <2>3 DEF ApplyVerdict
  <2>5. /\ criteria' \in [Criteria -> Criterion] /\ criteria'[c].proof = criteria[c].proof \cup with
        /\ \A d \in Criteria \ {c} : criteria'[d] = criteria[d]
    BY <1>1, <2>2, <2>3, <2>4, Setting
  <2>6. \A d \in Criteria : "verifier" \in criteria'[d].proof
                               => "verifier" \in criteria[d].proof \/ Backing
    <3>1. with # {} => Backing
      BY <1>1, <2>2, <2>3 DEF Core, KnownAt
    <3>. QED
      BY <2>5, <3>1
  <2>7. todo' \in [{ex, ow} -> SUBSET Criteria] /\ found' \in Statuses
    BY <1>1, <2>4 DEF envVars, Typed, RestTyped
  <2>. QED
    BY <1>1, <1>2, <2>4, <2>5, <2>6, <2>7, CriteriaMove DEF envVars
<1>3. CASE outcome.status \in Terminal
  <2>1. /\ pc' = [pc EXCEPT ![ex] = "return"] /\ call' = [call EXCEPT ![ex] = Fresh("blocked")]
        /\ criteria' = criteria /\ verdict' = NoVerdict /\ todo' = [todo EXCEPT ![ex] = {}]
    BY <1>3 DEF ApplyVerdict, Begin, Goto, Fresh
  <2>2. /\ todo' \in [{ex, ow} -> SUBSET Criteria] /\ verdict' \in [Criteria -> Rulings]
        /\ outcome' \in Row /\ outcome' = outcome
    BY <1>1, <2>1 DEF NoVerdict, Rulings, Typed, DataTyped
  <2>3. "return" \in Plain /\ Fresh("blocked").to = "blocked" /\ "blocked" \notin Ending
    BY DEF Plain, Labels, InHand, Fresh, Ending
  <2>. QED
    BY <1>1, <2>1, <2>2, <2>3, PlainKnown, StatusNames, StillWaiting, ExecutorMoves
<1>. QED
  BY <1>2, <1>3

----------------------------------------------------------------------------
(* Transitions *)

\* A transition's step: the status is what it was, or what the transition makes it.
LEMMA TransitionMoves ==
    ASSUME IInv, NEW p \in Actors, call[p] # NoCall, NEW k,
           k = NoCall \/ (k \in Calls /\ k.to = call[p].to), call' = [call EXCEPT ![p] = k],
           UNCHANGED <<criteria, waits, jobs, run, pc, bodyVars, envVars>>,
           seen' \in Statuses, outcome' \in Row, outcome'.plan = outcome.plan,
           outcome'.status = outcome.status \/ outcome'.status = call[p].to,
           outcome'.status = "completed" => outcome.status = "completed" \/ Unmet = {},
           k # NoCall /\ k.open /\ k.to = "completed" => Unmet = {},
           tx' \in {NoTx} \cup [by : Actors, to : Statuses],
           \A q \in Actors : call'[q] # NoCall /\ call'[q].open => tx' = [by |-> q, to |-> call'[q].to]
    PROVE  IInv'
<1>1. /\ Typed /\ Core /\ ex \in Actors /\ ow \in Actors /\ call'[p] = k
      /\ \A q \in Actors \ {p} : call'[q] = call[q]
  BY DEF IInv, Actors, Typed, ControlTyped
<1>2. /\ Unmet' = Unmet /\ LiveJobs' = LiveJobs /\ Called' = Called /\ Last' = Last
      /\ (VerifierDue' <=> VerifierDue) /\ (Backing' <=> Backing) /\ (Settled' <=> Settled)
      /\ criteria' = criteria /\ jobs' = jobs /\ verdict' = verdict /\ pc' = pc
  <2>1. criteria' = criteria /\ jobs' = jobs /\ policy' = policy /\ pc' = pc /\ verdict' = verdict
    BY DEF envVars, bodyVars
  <2>2. Unmet' = Unmet
    BY <2>1 DEF Unmet, Met
  <2>3. LiveJobs' = LiveJobs
    BY <2>1 DEF LiveJobs, Live
  <2>4. Called' = Called /\ Last' = Last
    BY <2>1 DEF Called, Last
  <2>5. VerifierDue' <=> VerifierDue
    BY <2>1 DEF VerifierDue, Has
  <2>6. Backing' <=> Backing
    BY <2>1 DEF Backing, Has
  <2>. QED
    BY <2>1, <2>2, <2>3, <2>4, <2>5, <2>6 DEF Settled
<1>3. NoCall.to \notin Ending /\ NoCall.to # "waiting_user"
  BY DEF NoCall, Ending
<1>4. \A q \in Actors : call'[q].to = call[q].to \/ call'[q] = NoCall
  BY <1>1
<1>5. Ended' => Ended
  <2>1. ASSUME outcome'.status \in {"waiting_user", "verifying"} PROVE Ended
    <3>1. outcome.status \in {"waiting_user", "verifying"} \/ call[p].to \in Ending
      BY <2>1 DEF Ending
    <3>. QED
      BY <3>1 DEF Ended
  <2>2. ASSUME NEW q \in Actors, call'[q].to \in Ending PROVE Ended
    BY <1>3, <1>4, <2>2 DEF Ended
  <2>. QED
    BY <1>2, <2>1, <2>2 DEF Ended
<1>6. OverInv'
  BY <1>1, <1>2, <1>5 DEF Core, OverInv
<1>7. KnownAt(pc[ex])'
  <2>1. (Ruling(pc[ex])' <=> Ruling(pc[ex])) /\ (Live(Last)' <=> Live(Last))
        /\ (Has("research", {"succeeded"})' <=> Has("research", {"succeeded"}))
    BY <1>2 DEF Ruling, Live, Has
  <2>. QED
    BY <1>1, <1>2, <1>5, <2>1 DEF Core, KnownAt
<1>8. GateInv'
  <2>1. ASSUME NEW q \in Actors
        PROVE  /\ call'[q] # NoCall /\ call'[q].open /\ call'[q].to = "completed" => Unmet = {}
               /\ call'[q].to = "waiting_user" => q = ex /\ LiveJobs = {}
    <3>1. CASE q = p
      BY <1>1, <1>3, <3>1 DEF Core, GateInv
    <3>2. CASE q # p
      BY <1>1, <3>2 DEF Core, GateInv
    <3>. QED
      BY <3>1, <3>2
  <2>. QED
    BY <1>2, <2>1 DEF GateInv
<1>9. PaidInv'
  BY <1>1, <1>2 DEF Core, PaidInv
<1>10. CompletedMeansCriteriaMet'
  BY <1>1, <1>2 DEF Core, CompletedMeansCriteriaMet, Unmet, Met
<1>11. WorkerVerifiedIsBacked'
  BY <1>1, <1>2 DEF Core, WorkerVerifiedIsBacked, Has
<1>12. ControlTyped'
  <2>1. call' \in [Actors -> {NoCall} \cup Calls]
    BY <1>1 DEF Typed, ControlTyped
  <2>. QED
    BY <1>1, <1>2, <2>1 DEF Typed, ControlTyped, Places
<1>13. RunTyped'
  <2>1. call'[ex] # NoCall => call[ex] # NoCall
    BY <1>1
  <2>. QED
    BY <1>1, <2>1 DEF Typed, RunTyped, bodyVars
<1>14. DataTyped' /\ RestTyped'
  BY <1>1 DEF Typed, DataTyped, RestTyped, bodyVars, envVars
<1>15. WaitInv'
  BY DEF IInv, WaitInv
<1>. QED
  BY <1>2, <1>6, <1>7, <1>8, <1>9, <1>10, <1>11, <1>12, <1>13, <1>14, <1>15 DEF IInv, Typed, Core

\* It returns without a change, and the executor keeps the status it found.
LEMMA ReturnStep ==
    ASSUME IInv, NEW p \in Actors, call[p] # NoCall, Return(p, outcome.status),
           UNCHANGED <<durable, tx, run, pc, bodyVars, envVars>>
    PROVE  IInv'
<1>1. /\ call' = [call EXCEPT ![p] = NoCall] /\ seen' \in Statuses /\ outcome' \in Row
      /\ outcome' = outcome /\ UNCHANGED <<criteria, waits, jobs>> /\ Typed /\ Core
  BY DEF Return, durable, IInv, Typed, DataTyped, RunTyped, Row
<1>2. /\ tx' \in {NoTx} \cup [by : Actors, to : Statuses]
      /\ \A q \in Actors : call'[q] # NoCall /\ call'[q].open => tx' = [by |-> q, to |-> call'[q].to]
  BY <1>1 DEF Typed, ControlTyped
<1>. QED
  BY <1>1, <1>2, TransitionMoves

LEMMA ReadCurrentStep ==
    ASSUME IInv, NEW p \in Actors, ReadCurrent(p)
    PROVE  IInv'
<1>1. call[p] # NoCall /\ UNCHANGED <<durable, tx, run, pc, bodyVars, envVars>>
  BY DEF ReadCurrent
<1>2. CASE Return(p, outcome.status)
  BY <1>1, <1>2, ReturnStep
<1>3. CASE call' = [call EXCEPT ![p].cur = outcome.status] /\ UNCHANGED seen
  <2>1. /\ outcome' \in Row /\ outcome' = outcome /\ outcome.status \in Statuses
        /\ UNCHANGED <<criteria, waits, jobs>> /\ seen' \in Statuses /\ Typed /\ Core
        /\ call \in [Actors -> {NoCall} \cup Calls] /\ call[p] \in Calls
    BY <1>1, <1>3 DEF durable, IInv, Typed, DataTyped, RunTyped, Row, ControlTyped
  <2>2. PICK k : k = [call[p] EXCEPT !.cur = outcome.status]
    OBVIOUS
  <2>3. k \in Calls /\ k.to = call[p].to /\ k.open = call[p].open
    BY <2>1, <2>2 DEF Calls
  <2>4. call' = [call EXCEPT ![p] = k]
    BY <1>3, <2>1, <2>2
  <2>5. k # NoCall /\ k.open /\ k.to = "completed" => Unmet = {}
    BY <1>1, <2>1, <2>3 DEF Core, GateInv
  <2>6. /\ tx' \in {NoTx} \cup [by : Actors, to : Statuses]
        /\ \A q \in Actors : call'[q] # NoCall /\ call'[q].open
                                => tx' = [by |-> q, to |-> call'[q].to]
    BY <1>1, <2>1, <2>3, <2>4 DEF Typed, ControlTyped
  <2>. QED
    BY <1>1, <2>1, <2>3, <2>4, <2>5, <2>6, TransitionMoves
<1>. QED
  BY <1>2, <1>3 DEF ReadCurrent

LEMMA UpdateStep ==
    ASSUME IInv, NEW p \in Actors, Update(p)
    PROVE  IInv'
<1>1. call[p] # NoCall /\ tx = NoTx /\ UNCHANGED <<durable, bodyVars, envVars>> /\ Typed /\ Core
  BY DEF Update, IInv
<1>2. CASE Return(p, outcome.status) /\ UNCHANGED <<tx, run, pc>>
  BY <1>1, <1>2, ReturnStep
<1>3. CASE Raise(p)
  <2>1. p = ex => run.engine = "body"
    BY <1>1 DEF Typed, RunTyped
  <2>2. /\ UNCHANGED <<scan, policy>> /\ found' \in Statuses /\ rechecks' \in 0..MaxRechecks
        /\ todo' \in [{ex, ow} -> SUBSET Criteria] /\ verdict' \in [Criteria -> Rulings]
        /\ verdict' = verdict /\ rechecks' = rechecks
    BY <1>1 DEF bodyVars, envVars, Typed, RunTyped, RestTyped
  <2>. QED
    BY <1>1, <1>3, <2>1, <2>2, RaiseStep
<1>4. CASE /\ Allowed(p) /\ tx' = [by |-> p, to |-> call[p].to]
           /\ call' = [call EXCEPT ![p].open = TRUE] /\ UNCHANGED <<run, pc, seen>>
  <2>1. /\ outcome' \in Row /\ outcome' = outcome /\ UNCHANGED <<criteria, waits, jobs>>
        /\ seen' \in Statuses /\ call \in [Actors -> {NoCall} \cup Calls] /\ call[p] \in Calls
    BY <1>1, <1>4 DEF durable, Typed, DataTyped, RunTyped, ControlTyped
  <2>2. PICK k : k = [call[p] EXCEPT !.open = TRUE]
    OBVIOUS
  <2>3. k \in Calls /\ k.to = call[p].to /\ k.to \in Statuses
    BY <2>1, <2>2 DEF Calls
  <2>4. call' = [call EXCEPT ![p] = k]
    BY <1>4, <2>1, <2>2
  <2>5. k.to = "completed" => Unmet = {}
    BY <1>4, <2>3 DEF Allowed, GateOpen
  <2>6. \A q \in Actors : ~(call[q] # NoCall /\ call[q].open)
    BY <1>1 DEF Typed, ControlTyped, NoTx, Actors
  <2>7. /\ tx' \in {NoTx} \cup [by : Actors, to : Statuses]
        /\ \A q \in Actors : call'[q] # NoCall /\ call'[q].open
                                => tx' = [by |-> q, to |-> call'[q].to]
    BY <1>4, <2>1, <2>3, <2>4, <2>6
  <2>. QED
    BY <1>1, <1>4, <2>1, <2>3, <2>4, <2>5, <2>7, TransitionMoves
<1>. QED
  BY <1>2, <1>3, <1>4 DEF Update

LEMMA CommitStep ==
    ASSUME IInv, NEW p \in Actors, Commit(p)
    PROVE  /\ IInv'
           /\ outcome'.status = "waiting_user" => LiveJobs = {}
<1>1. /\ Typed /\ Core /\ call[p] # NoCall /\ call[p].open /\ tx = [by |-> p, to |-> call[p].to]
      /\ call[p] \in Calls /\ tx.to = call[p].to /\ tx.to \in Statuses /\ outcome \in Row
      /\ UNCHANGED <<criteria, waits, jobs, run, pc, bodyVars, envVars>> /\ tx' = NoTx
      /\ call' = [call EXCEPT ![p] = NoCall] /\ call \in [Actors -> {NoCall} \cup Calls]
  BY DEF Commit, Return, IInv, Typed, DataTyped, ControlTyped, Calls
<1>2. /\ outcome' \in Row /\ outcome'.status = call[p].to /\ outcome'.plan = outcome.plan
  <2>1. PICK to \in Statuses : to = call[p].to
    BY <1>1
  <2>2. PICK parks \in BOOLEAN : parks <=> to \in {"waiting_external", "waiting_user"}
    BY Zenon
  <2>3. outcome' = [outcome EXCEPT !.status = to, !.addressed = parks, !.signaled = FALSE]
    BY <1>1, <2>1, <2>2 DEF Commit
  <2>. QED
    BY <1>1, <2>1, <2>3 DEF Row
<1>3. seen' \in Statuses
  BY <1>1 DEF Commit, Return, Typed, RunTyped
<1>4. outcome'.status = "completed" => Unmet = {}
  BY <1>1, <1>2 DEF Core, GateInv
<1>5. \A q \in Actors : ~(call'[q] # NoCall /\ call'[q].open)
  <2>1. ASSUME NEW q \in Actors \ {p}, call[q] # NoCall, call[q].open PROVE FALSE
    <3>1. tx = [by |-> q, to |-> call[q].to] /\ tx.by = q
      BY <1>1, <2>1 DEF Typed, ControlTyped
    <3>2. tx.by = p
      BY <1>1
    <3>. QED
      BY <3>1, <3>2
  <2>. QED
    BY <1>1, <2>1
<1>6. IInv'
  BY <1>1, <1>2, <1>3, <1>4, <1>5, TransitionMoves
<1>7. outcome'.status = "waiting_user" => LiveJobs = {}
  BY <1>1, <1>2 DEF Core, GateInv
<1>. QED
  BY <1>6, <1>7

----------------------------------------------------------------------------
(* The theorems *)

LEMMA InitIInv == Init => IInv
<1> SUFFICES ASSUME Init PROVE IInv
  OBVIOUS
<1>1. PICK offer \in Offers :
         /\ outcome = [status |-> "accepted", addressed |-> FALSE, signaled |-> FALSE,
                       plan |-> offer.plan]
         /\ policy = offer.roles
  BY DEF Init
<1>2. offer.plan \subseteq {"wait", "assign"} /\ offer.roles \subseteq {"research", "verifier"}
  BY MissionAssumption
<1>3. /\ criteria = [c \in Criteria |-> [status |-> "pending", proof |-> {}]]
      /\ waits = <<>> /\ jobs = <<>> /\ tx = NoTx /\ pc = Rest
      /\ run = [engine |-> "invoke", resumes |-> 0, expired |-> FALSE, attempts |-> 0]
      /\ call = [p \in Actors |-> NoCall] /\ seen = "accepted" /\ rechecks = 0
      /\ todo = [p \in {ex, ow} |-> {}] /\ verdict = NoVerdict /\ found = "accepted"
      /\ scan = "idle"
  BY DEF Init
<1>4. DataTyped
  <2>1. [status |-> "pending", proof |-> {}] \in Criterion
    BY DEF Criterion
  <2>2. outcome \in Row
    BY <1>1, <1>2, StatusNames DEF Row
  <2>. QED
    BY <1>3, <2>1, <2>2 DEF DataTyped
<1>5. ControlTyped
  BY <1>3 DEF ControlTyped, Rest, Actors, Places, Labels
<1>6. RunTyped
  <2>1. run \in Run /\ run.attempts < MaxAttempts
    BY <1>3, MissionAssumption DEF Run
  <2>2. pc[ex] = "off" /\ call[ex] = NoCall
    BY <1>3 DEF Rest, Actors
  <2>. QED
    BY <1>3, <2>1, <2>2, MissionAssumption, StatusNames DEF RunTyped
<1>7. RestTyped
  BY <1>1, <1>2, <1>3, StatusNames DEF RestTyped, NoVerdict, Rulings
<1>8. /\ pc[ex] = "off" /\ pc[ow] = "idle" /\ outcome.status = "accepted"
      /\ \A p \in Actors : call[p] = NoCall /\ call[p].to = "none"
      /\ \A c \in Criteria : criteria[c].proof = {}
  BY <1>1, <1>3 DEF Rest, Actors, NoCall
<1>9. ~Ended
  BY <1>8 DEF Ended, Ending
<1>10. Called = {}
  BY <1>3 DEF Called
<1>11. Core
  BY <1>8, <1>9, <1>10 DEF Core, KnownAt, Ruling, InHand, OverInv, GateInv, PaidInv,
                           WorkerVerifiedIsBacked, CompletedMeansCriteriaMet
<1>12. WaitInv
  BY <1>3 DEF WaitInv
<1>. QED
  BY <1>4, <1>5, <1>6, <1>7, <1>11, <1>12 DEF IInv, Typed

LEMMA AssignVerifyStep ==
    ASSUME IInv, Assign \/ Verify
    PROVE  IInv'
BY MintStep, WithoutWork

LEMMA NextIInv == IInv /\ [Next]_vars => IInv'
<1> SUFFICES ASSUME IInv, [Next]_vars PROVE IInv'
  OBVIOUS
<1>1. CASE Body
  <2>1. CASE Invoke \/ Start \/ Started \/ Reread \/ Gate \/ Complete \/ End
    BY <2>1, InvokeStep, StartStep, StartedStep, RereadStep, GateStep, CompleteStep, EndStep
  <2>2. CASE OpenWait \/ Address \/ Await \/ Recheck \/ Consume
    BY <2>2, OpenWaitStep, AddressStep, AwaitStep, RecheckStep, ConsumeStep
  <2>3. CASE Assign \/ Unplan \/ Verify \/ Dispatch \/ CallModel \/ Spend
    BY <2>3, AssignVerifyStep, UnplanStep, DispatchStep, CallModelStep, SpendStep
  <2>4. CASE RejectResult \/ AcceptResearch \/ AcceptVerdict \/ ApplyVerdict \/ Applied
    BY <2>4, RejectStep, AcceptResearchStep, AcceptVerdictStep, ApplyVerdictStep, AppliedStep
  <2>5. CASE Block \/ Park \/ Pause
    BY <2>5, BlockStep, ParkStep, PauseStep
  <2>. QED
    BY <1>1, <2>1, <2>2, <2>3, <2>4, <2>5 DEF Body
<1>2. ASSUME NEW p \in Actors, Transition(p) PROVE IInv'
  BY <1>2, ReadCurrentStep, UpdateStep, CommitStep DEF Transition
<1>3. CASE Scanner
  BY <1>3, WakingStep DEF Scanner
<1>4. CASE Reaper
  BY <1>4, ReaperStep DEF Reaper
<1>5. CASE Owner
  BY <1>5, OwnerControl, JudgeStep, WakingStep, OwnerCriterionStep DEF Owner
<1>6. CASE World
  BY <1>6, SatisfyStep, WakingStep, CrashStep, RequestDiesStep, ReaperStep DEF World
<1>7. CASE UNCHANGED vars
  <2>1. /\ UNCHANGED <<criteria, waits, jobs, tx, pc, call, seen, bodyVars, found, policy>>
        /\ outcome' = outcome /\ run' = run /\ scan' = scan
    BY <1>7 DEF vars, durable, envVars
  <2>2. outcome' \in Row /\ run' \in Run /\ scan' \in {"idle", "stamp"}
    BY <2>1 DEF IInv, Typed, DataTyped, RunTyped, RestTyped
  <2>. QED
    BY <2>1, <2>2, StillWaiting, OffStage
<1>. QED
  BY <1>1, <1>2, <1>3, <1>4, <1>5, <1>6, <1>7 DEF Next

\* Its inductive invariant holds in every reachable state; the theorems below are read
\* off it.
THEOREM Invariance == Spec => []IInv
BY InitIInv, NextIInv, PTL DEF Spec

\* Every variable stays in its type, and only the transition that updated the row
\* holds its lock (status.ts transitionOutcome).
THEOREM TypeCorrect == Spec => []TypeOK
<1>1. IInv => TypeOK
  <2> SUFFICES ASSUME IInv PROVE TypeOK
    OBVIOUS
  <2>1. DataTyped /\ ControlTyped /\ RunTyped /\ RestTyped
    BY DEF IInv, Typed
  <2>2. pc \in [Actors -> Labels \cup {"idle", "list", "done", "finish", "expire", "touched"}]
    <3>1. \A p \in Actors : Places(p) \subseteq Labels \cup {"idle", "list", "done", "finish",
                                                             "expire", "touched"}
      BY DEF Places
    <3>. QED
      BY <2>1, <3>1 DEF ControlTyped
  <2>. QED
    BY <2>1, <2>2 DEF TypeOK, DataTyped, ControlTyped, RunTyped, RestTyped, Row, Criterion, Job, Run
<1>. QED
  BY <1>1, Invariance, PTL

\* An outcome is completed only with every criterion verified or waived: nothing
\* unmakes one between the gate's look and the commit (migrations 024 and 027).
THEOREM CompletionIsEarned == Spec => []CompletedMeansCriteriaMet
<1>1. IInv => CompletedMeansCriteriaMet
  BY DEF IInv, Core
<1>. QED
  BY <1>1, Invariance, PTL

\* What the verifier confirmed rests on a succeeded verifier that landed evidence
\* and on a succeeded builder, whatever was terminated since (verdict.ts).
THEOREM VerdictsAreBacked == Spec => []WorkerVerifiedIsBacked
<1>1. IInv => WorkerVerifiedIsBacked
  BY DEF IInv, Core
<1>. QED
  BY <1>1, Invariance, PTL

\* A set without two members has no more than one.
LEMMA AtMostOne ==
    ASSUME NEW S, \A x, y \in S : x = y
    PROVE  Cardinality(S) <= 1
<1>1. CASE S = {}
  BY <1>1, FS_EmptySet
<1>2. CASE S # {}
  <2>1. PICK x \in S : S = {x}
    BY <1>2
  <2>. QED
    BY <2>1, FS_Singleton
<1>. QED
  BY <1>1, <1>2

\* The plan's one assignment buys at most one model call, however often the body
\* is replayed (outcome-workflows.ts consumes the entry when it mints).
THEOREM OneCallPerAssignment == Spec => []ResearchIsPaidOnce
<1>1. IInv => ResearchIsPaidOnce
  <2>1. IInv => \A i, j \in Called : i = j
    BY DEF IInv, Core, PaidInv
  <2>. QED
    BY <2>1, AtMostOne DEF ResearchIsPaidOnce, Called
<1>. QED
  BY <1>1, Invariance, PTL

\* A replayed body finds the wait it made: at most one is ever live.
THEOREM WaitsAreNotDoubled == Spec => []OneLiveWait
<1>1. IInv => OneLiveWait
  <2> DEFINE live == {w \in DOMAIN waits : waits[w] \in {"waiting", "satisfied"}}
  <2>1. IInv => \A v, w \in live : v = w
    BY DEF IInv, WaitInv
  <2>2. IInv => Cardinality(live) <= 1
    BY <2>1, AtMostOne
  <2>. QED
    BY <2>2 DEF OneLiveWait
<1>. QED
  BY <1>1, Invariance, PTL

\* A step that is not a commit leaves the status alone.
LEMMA StatusMoves ==
    ASSUME IInv, Next, \A p \in Actors : ~Commit(p)
    PROVE  outcome'.status = outcome.status
<1>1. outcome \in Row
  BY DEF IInv, Typed, DataTyped
<1>2. CASE Body
  BY <1>1, <1>2 DEF Row, durable, Body, Invoke, Start, Started, Reread, Gate, Complete, End, OpenWait,
                    Address, Await, Recheck, Consume, Assign, Unplan, Verify, Dispatch, CallModel,
                    Spend, RejectResult, AcceptResearch, AcceptVerdict, ApplyVerdict, Applied,
                    Block, Park, Pause
<1>3. ASSUME NEW p \in Actors, Transition(p) PROVE outcome' = outcome
  BY <1>3 DEF Transition, ReadCurrent, Update, durable
<1>4. CASE Scanner \/ Reaper
  BY <1>1, <1>4 DEF Row, durable, Scanner, Signal, Stamp, Reaper, ReapOverdue, ReapExpired, ReapTouched
<1>5. CASE Owner
  BY <1>5 DEF Owner, MissionDone, ListUnmet, JudgeCriterion, MarkDone, FinishDone, MissionFailed,
              Decide, OwnerVerifies, OwnerWaives, durable
<1>6. CASE World
  BY <1>1, <1>6 DEF Row, durable, World, Satisfy, StampAges, SignalTimesOut, ApprovalTimesOut,
                    DeadlinePasses, WaitFallsDue, Crash, RequestDies, TickDies
<1>. QED
  BY <1>2, <1>3, <1>4, <1>5, <1>6 DEF Next

\* The outcome is handed to the owner only when no assignment is queued or running:
\* what the executor saw before it began to park still holds when it commits.
THEOREM HandedOverIdle ==
    Spec => [][outcome'.status = "waiting_user" /\ outcome.status # "waiting_user"
                  => LiveJobs = {}]_vars
<1>1. IInv /\ [Next]_vars =>
        [outcome'.status = "waiting_user" /\ outcome.status # "waiting_user"
            => LiveJobs = {}]_vars
  BY StatusMoves, CommitStep
<1>. QED
  BY <1>1, Invariance, PTL DEF Spec
----------------------------------------------------------------------------
(* The promise: what the invariant lacks to keep it *)

\* Nothing is under way, and nothing the body could still start.
Idle == LiveJobs = {} /\ outcome.plan = {} /\ ~VerifierDue

\* From these labels the body reaches an outcome whose criteria are met and closes
\* it without touching an assignment.
Safe == {"off", "start", "started", "reread", "gate", "complete", "return"}

Closing == {"verifying", "completed"}
Over == Ended \/ outcome.status = "completed"

\* A transition that holds the row lock is legal from the status the row has.
LegalInv ==
    \A p \in Actors : call[p] # NoCall /\ call[p].open
                         => call[p].to \in LegalNext[outcome.status]

HandedInv ==
    (outcome.status = "waiting_user" \/ \E p \in Actors : call[p].to = "waiting_user") => Idle

\* Whoever closes the outcome has seen every criterion met.
Closes ==
    \/ outcome.status \in Closing \/ \E p \in Actors : call[p].to \in Closing
    \/ pc[ow] = "finish" \/ pc[ex] = "complete"
EarnedInv == /\ Closes => Unmet = {}
             /\ pc[ow] = "done" => Unmet \subseteq todo[ow]

StillInv == Over => Idle \/ pc[ex] \in Safe

PromiseInv == LegalInv /\ HandedInv /\ EarnedInv /\ StillInv

----------------------------------------------------------------------------
(* The promise: what no step does *)

LEMMA PlanShrinks ==
    ASSUME IInv, Next
    PROVE  policy' = policy /\ outcome'.plan \subseteq outcome.plan
<1>1. outcome \in Row
  BY DEF IInv, Typed, DataTyped
<1>2. CASE Body
  BY <1>1, <1>2 DEF Row, durable, envVars, ExUnchanged, Body, Invoke, Start, Started, Reread, Gate,
                    Complete, End, OpenWait, Address, Await, Recheck, Consume, Assign, Unplan, Verify,
                    Dispatch, CallModel, Spend, RejectResult, AcceptResearch, AcceptVerdict,
                    ApplyVerdict, Applied, Block, Park, Pause
<1>3. ASSUME NEW p \in Actors, Transition(p)
      PROVE  policy' = policy /\ outcome'.plan \subseteq outcome.plan
  BY <1>1, <1>3 DEF Row, Transition, ReadCurrent, Update, Commit, durable, envVars
<1>4. CASE Scanner \/ Reaper
  BY <1>1, <1>4 DEF Row, durable, envVars, Scanner, Signal, Stamp, ScanUnchanged, Reaper,
                    ReapOverdue, ReapExpired, ReapTouched, ReapUnchanged
<1>5. CASE Owner
  BY <1>5 DEF Owner, MissionDone, ListUnmet, JudgeCriterion, MarkDone, FinishDone, MissionFailed,
              Decide, OwnerVerifies, OwnerWaives, OwnerUnchanged, durable
<1>6. CASE World
  BY <1>1, <1>6 DEF Row, durable, envVars, World, Satisfy, StampAges, SignalTimesOut,
                    ApprovalTimesOut, DeadlinePasses, WaitFallsDue, Crash, RequestDies, TickDies,
                    ScanUnchanged, ReapUnchanged
<1>. QED
  BY <1>2, <1>3, <1>4, <1>5, <1>6 DEF Next

\* Only the verifier unmakes a criterion, nobody makes one pending, and a terminal
\* outcome's are left alone.
LEMMA CriteriaAdvance ==
    ASSUME IInv, Next
    PROVE  /\ \A c \in Criteria : criteria'[c].status = "pending" => criteria[c].status = "pending"
           /\ pc[ex] # "apply" => Unmet' \subseteq Unmet
           /\ outcome.status \in Terminal => criteria' = criteria
<1>1. /\ criteria \in [Criteria -> Criterion] /\ todo \in [{ex, ow} -> SUBSET Criteria]
      /\ verdict \in [Criteria -> Rulings]
  BY DEF IInv, Typed, DataTyped, RestTyped
<1>2. CASE criteria' = criteria
  BY <1>2 DEF Unmet, Met
<1>3. ASSUME outcome.status \notin Terminal, Advances
      PROVE  /\ \A c \in Criteria : criteria'[c].status = "pending" => criteria[c].status = "pending"
             /\ Unmet' \subseteq Unmet
  BY <1>3 DEF Advances
<1>4. ASSUME NEW c \in Criteria, OwnerVerifies(c) \/ OwnerWaives(c)
      PROVE  outcome.status \notin Terminal /\ Advances
  BY <1>1, <1>4, Setting DEF OwnerVerifies, OwnerWaives, Rulings
<1>5. ASSUME JudgeCriterion, outcome.status \notin Terminal
      PROVE  Advances
  <2>1. PICK c : c = First(todo[ow])
    OBVIOUS
  <2>2. c \in Criteria /\ SetCriterion(c, "verified", {"owner"})
    BY <1>1, <1>5, <2>1, FirstIsOne DEF JudgeCriterion
  <2>. QED
    BY <1>1, <2>2, Setting DEF Rulings
<1>6. ASSUME ApplyVerdict, outcome.status \notin Terminal
      PROVE  /\ \A c \in Criteria : criteria'[c].status = "pending" => criteria[c].status = "pending"
             /\ pc[ex] = "apply"
  <2>1. PICK c : c = First(todo[ex])
    OBVIOUS
  <2>2. c \in Criteria /\ verdict[c] \in Rulings /\ pc[ex] = "apply"
    BY <1>1, <1>6, <2>1, FirstIsOne DEF ApplyVerdict, At
  <2>3. PICK with \in SUBSET {"owner", "verifier"} : SetCriterion(c, verdict[c], with)
    BY <1>6, <2>1 DEF ApplyVerdict
  <2>4. criteria'[c].status = verdict[c] /\ \A d \in Criteria \ {c} : criteria'[d] = criteria[d]
    BY <1>1, <2>2, <2>3, Setting
  <2>. QED
    BY <2>2, <2>4 DEF Rulings
<1>7. \/ criteria' = criteria
      \/ \E c \in Criteria : OwnerVerifies(c) \/ OwnerWaives(c)
      \/ JudgeCriterion /\ outcome.status \notin Terminal
      \/ ApplyVerdict /\ outcome.status \notin Terminal
  <2>1. CASE Body
    BY <2>1 DEF durable, Body, Invoke, Start, Started, Reread, Gate, Complete, End, OpenWait, Address,
                Await, Recheck, Consume, Assign, Unplan, Verify, Dispatch, CallModel, Spend,
                RejectResult, AcceptResearch, AcceptVerdict, ApplyVerdict, Applied, Block, Park, Pause
  <2>2. ASSUME NEW p \in Actors, Transition(p) PROVE criteria' = criteria
    BY <2>2 DEF Transition, ReadCurrent, Update, Commit, durable
  <2>3. CASE Scanner \/ Reaper \/ World
    BY <2>3 DEF durable, Scanner, Signal, Stamp, Reaper, ReapOverdue, ReapExpired, ReapTouched, World,
                Satisfy, StampAges, SignalTimesOut, ApprovalTimesOut, DeadlinePasses, WaitFallsDue,
                Crash, RequestDies, TickDies
  <2>4. CASE Owner
    BY <2>4 DEF Owner, MissionDone, ListUnmet, JudgeCriterion, MarkDone, FinishDone, MissionFailed,
                Decide, durable
  <2>. QED
    BY <2>1, <2>2, <2>3, <2>4 DEF Next
<1>. QED
  BY <1>2, <1>3, <1>4, <1>5, <1>6, <1>7

\* Only the body touches an assignment, and it has one in hand, a plan entry to
\* mint from, a verifier due or an interrupted one to terminate.
LEMMA JobsByTheBody ==
    ASSUME IInv, Next, jobs' # jobs
    PROVE  pc[ex] \notin Safe /\ ~Idle
<1>1. KnownAt(pc[ex])
  BY DEF IInv, Core
<1>2. Body
  <2>1. \A p \in Actors : ~Transition(p)
    BY DEF Transition, ReadCurrent, Update, Commit, durable
  <2>2. ~Scanner /\ ~Reaper /\ ~World
    BY DEF durable, Scanner, Signal, Stamp, Reaper, ReapOverdue, ReapExpired, ReapTouched, World,
           Satisfy, StampAges, SignalTimesOut, ApprovalTimesOut, DeadlinePasses, WaitFallsDue,
           Crash, RequestDies, TickDies
  <2>3. ~Owner
    BY DEF Owner, MissionDone, ListUnmet, JudgeCriterion, MarkDone, FinishDone, MissionFailed,
           Decide, OwnerVerifies, OwnerWaives, durable
  <2>. QED
    BY <2>1, <2>2, <2>3 DEF Next
<1>3. \/ pc[ex] = "assign" \/ pc[ex] \in InHand
      \/ pc[ex] = "verify" /\ VerifierDue
      \/ pc[ex] = "park" /\ LiveJobs # {}
  BY <1>2 DEF durable, Body, Invoke, Start, Started, Reread, Gate, Complete, End, OpenWait, Address,
              Await, Recheck, Consume, Assign, Unplan, Verify, Dispatch, CallModel, Spend,
              RejectResult, AcceptResearch, AcceptVerdict, ApplyVerdict, Applied, Block, Park, Pause,
              At, InHand
<1>4. pc[ex] \in InHand => LiveJobs # {}
  <2>1. pc[ex] \in InHand => Live(Last) /\ Last \in DOMAIN jobs
    <3>1. jobs \in Seq(Job)
      BY DEF IInv, Typed, DataTyped
    <3>. QED
      BY <1>1, <3>1 DEF KnownAt, Last
  <2>. QED
    BY <2>1 DEF LiveJobs
<1>. QED
  BY <1>1, <1>3, <1>4 DEF KnownAt, Safe, InHand, Idle

LEMMA IdleStays ==
    ASSUME IInv, Next, Idle
    PROVE  Idle' /\ jobs' = jobs
<1>1. jobs' = jobs
  BY JobsByTheBody
<1>2. LiveJobs' = {} /\ outcome'.plan = {}
  BY <1>1, PlanShrinks DEF Idle, LiveJobs, Live
<1>3. ~VerifierDue'
  BY <1>1, PlanShrinks, CriteriaAdvance DEF Idle, VerifierDue, Has
<1>. QED
  BY <1>1, <1>2, <1>3 DEF Idle

LEMMA SafeStays ==
    ASSUME IInv, Next, pc[ex] \in Safe, Unmet = {}
    PROVE  pc'[ex] \in Safe
<1>1. DOMAIN pc = Actors /\ ex \in Actors /\ ow \in Actors /\ rp \in Actors
  BY DEF IInv, Typed, ControlTyped, Actors
<1>2. CASE Body
  BY <1>1, <1>2 DEF Safe, durable, Body, Invoke, Start, Started, Reread, Gate, Complete, End, OpenWait,
                    Address, Await, Recheck, Consume, Assign, Unplan, Verify, Dispatch, CallModel,
                    Spend, RejectResult, AcceptResearch, AcceptVerdict, ApplyVerdict, Applied, Block,
                    Park, Pause, At, Goto, Begin, Leave
<1>3. ASSUME NEW p \in Actors, Transition(p) PROVE pc'[ex] \in Safe
  BY <1>1, <1>3 DEF Safe, Transition, ReadCurrent, Update, Commit, Raise, Rest, Return
<1>4. CASE Scanner \/ Reaper
  BY <1>1, <1>4 DEF Scanner, Signal, Stamp, ScanUnchanged, Reaper, ReapOverdue, ReapExpired,
                    ReapTouched, Goto, Begin
<1>5. CASE Owner
  BY <1>1, <1>5 DEF Owner, MissionDone, ListUnmet, JudgeCriterion, MarkDone, FinishDone, MissionFailed,
                    Decide, OwnerVerifies, OwnerWaives, OwnerUnchanged, Goto, Begin
<1>6. CASE World
  BY <1>1, <1>6 DEF World, Satisfy, StampAges, SignalTimesOut, ApprovalTimesOut, DeadlinePasses,
                    WaitFallsDue, Crash, RequestDies, TickDies, ScanUnchanged, Raise, Rest, Goto, Safe
<1>. QED
  BY <1>2, <1>3, <1>4, <1>5, <1>6 DEF Next

----------------------------------------------------------------------------
(* The promise: who begins what *)

\* Where a transition to the end of the outcome is begun.
BegunAt(p, to) ==
    to \in Ending =>
        \/ p = ex /\ pc[ex] = "gate" /\ Unmet = {} /\ to = "verifying"
        \/ p = ex /\ pc[ex] = "complete" /\ to = "completed"
        \/ p = ex /\ pc[ex] = "park" /\ to = "waiting_user" /\ LiveJobs = {}
        \/ p = ow /\ pc[ow] = "done" /\ todo[ow] = {} /\ to \in Closing
        \/ p = ow /\ pc[ow] = "finish" /\ to = "completed"

\* What a step may do to p's call: nothing, end it, take it further, or begin one.
CallStep(p) ==
    \/ call'[p] = NoCall
    \/ call'[p] = call[p]
    \/ /\ call[p] # NoCall /\ call'[p].to = call[p].to /\ call'[p].open = call[p].open
    \/ /\ call[p] # NoCall /\ call'[p].to = call[p].to
       /\ call[p].to \in LegalNext[outcome.status]
    \/ \E to \in Statuses : call'[p] = Fresh(to) /\ BegunAt(p, to)

LEMMA TransitionCalls ==
    ASSUME IInv, NEW p \in Actors, NEW q \in Actors, Transition(q)
    PROVE  CallStep(p)
<1>1. /\ call \in [Actors -> {NoCall} \cup Calls] /\ call[q] # NoCall /\ call[q] \in Calls
  BY DEF IInv, Typed, ControlTyped, Transition, ReadCurrent, Update, Commit
<1>2. CASE p # q
  BY <1>1, <1>2 DEF CallStep, Transition, ReadCurrent, Update, Commit, Return, Raise
<1>3. CASE p = q
  <2>1. CASE call' = [call EXCEPT ![q] = NoCall]
    BY <1>1, <1>3, <2>1 DEF CallStep
  <2>2. CASE call' = [call EXCEPT ![q].cur = outcome.status]
    <3>1. call'[q] = [call[q] EXCEPT !.cur = outcome.status]
      BY <1>1, <2>2
    <3>2. call'[q].to = call[q].to /\ call'[q].open = call[q].open
      BY <1>1, <3>1 DEF Calls
    <3>. QED
      BY <1>1, <1>3, <3>2 DEF CallStep
  <2>3. CASE call' = [call EXCEPT ![q].open = TRUE] /\ ~Lost(q) /\ Allowed(q)
    <3>1. call'[q] = [call[q] EXCEPT !.open = TRUE]
      BY <1>1, <2>3
    <3>2. call'[q].to = call[q].to
      BY <1>1, <3>1 DEF Calls
    <3>. QED
      BY <1>1, <1>3, <2>3, <3>2 DEF CallStep, Lost, Allowed
  <2>. QED
    BY <2>1, <2>2, <2>3 DEF Transition, ReadCurrent, Update, Commit, Return, Raise
<1>. QED
  BY <1>2, <1>3

\* A begun transition at l, seen from actor p.
LEMMA BeginCalls ==
    ASSUME IInv, NEW p \in Actors, NEW q \in Actors, NEW to \in Statuses, NEW l,
           Begin(q, to, l), BegunAt(q, to)
    PROVE  CallStep(p)
<1>1. call' = [call EXCEPT ![q] = Fresh(to)] /\ call \in [Actors -> {NoCall} \cup Calls]
  BY DEF Begin, Fresh, IInv, Typed, ControlTyped
<1>. QED
  BY <1>1 DEF CallStep

LEMMA BodyCalls ==
    ASSUME IInv, NEW p \in Actors, Body
    PROVE  CallStep(p)
<1>1. /\ ex \in Actors
      /\ {"queued", "running", "blocked", "failed", "waiting_external"} \subseteq Statuses \ Ending
      /\ {"verifying", "completed", "waiting_user"} \subseteq Statuses
  BY StatusNames DEF Actors, Ending
<1>2. CASE \E to \in Statuses \ Ending, l \in Labels : Begin(ex, to, l)
  <2>1. PICK to \in Statuses \ Ending, l \in Labels : Begin(ex, to, l)
    BY <1>2
  <2>2. BegunAt(ex, to)
    BY <2>1 DEF BegunAt
  <2>. QED
    BY <1>1, <2>1, <2>2, BeginCalls
<1>3. CASE call' = call
  BY <1>3 DEF CallStep
<1>4. CASE pc[ex] = "gate" /\ Unmet = {} /\ Begin(ex, "verifying", "complete")
  <2>1. BegunAt(ex, "verifying")
    BY <1>4 DEF BegunAt
  <2>. QED
    BY <1>1, <1>4, <2>1, BeginCalls
<1>5. CASE pc[ex] = "complete" /\ Begin(ex, "completed", "return")
  <2>1. BegunAt(ex, "completed")
    BY <1>5 DEF BegunAt
  <2>. QED
    BY <1>1, <1>5, <2>1, BeginCalls
<1>6. CASE pc[ex] = "park" /\ LiveJobs = {} /\ Begin(ex, "waiting_user", "pause")
  <2>1. BegunAt(ex, "waiting_user")
    BY <1>6 DEF BegunAt
  <2>. QED
    BY <1>1, <1>6, <2>1, BeginCalls
<1>7. CASE Invoke \/ Start \/ Started \/ Reread \/ Gate \/ Complete \/ End \/ OpenWait \/ Address
  BY <1>1, <1>2, <1>3, <1>4, <1>5, <1>7
     DEF Invoke, Start, Started, Reread, Gate, Complete, End, OpenWait, Address, At, Labels
<1>8. CASE \/ Await \/ Recheck \/ Consume \/ Assign \/ Unplan \/ Verify \/ Dispatch \/ CallModel
           \/ Spend \/ RejectResult \/ AcceptResearch \/ AcceptVerdict
  BY <1>1, <1>2, <1>3, <1>8
     DEF Await, Recheck, Consume, Assign, Unplan, Verify, Dispatch, CallModel, Spend, RejectResult,
         AcceptResearch, AcceptVerdict, Labels
<1>9. CASE ApplyVerdict \/ Applied \/ Block \/ Park \/ Pause
  BY <1>1, <1>2, <1>3, <1>6, <1>9 DEF ApplyVerdict, Applied, Block, Park, Pause, At, Labels
<1>. QED
  BY <1>7, <1>8, <1>9 DEF Body

LEMMA OwnerCalls ==
    ASSUME IInv, NEW p \in Actors, Owner
    PROVE  CallStep(p)
<1>1. ow \in Actors /\ {"failed", "verifying", "completed"} \subseteq Statuses /\ "failed" \notin Ending
  BY StatusNames DEF Actors, Ending
<1>2. CASE call' = call
  BY <1>2 DEF CallStep
<1>3. CASE MarkDone \/ FinishDone
  <2>1. \E to \in Closing : \E l \in {"finish", "idle"} :
           /\ Begin(ow, to, l)
           /\ (pc[ow] = "done" /\ todo[ow] = {}) \/ (pc[ow] = "finish" /\ to = "completed")
    <3>1. CASE MarkDone
      BY <3>1 DEF MarkDone, At, Closing
    <3>2. CASE FinishDone
      BY <3>2 DEF FinishDone, At, Closing
    <3>. QED
      BY <1>3, <3>1, <3>2
  <2>2. PICK to \in Closing, l \in {"finish", "idle"} :
           /\ Begin(ow, to, l)
           /\ (pc[ow] = "done" /\ todo[ow] = {}) \/ (pc[ow] = "finish" /\ to = "completed")
    BY <2>1
  <2>3. BegunAt(ow, to) /\ to \in Statuses
    BY <1>1, <2>2 DEF BegunAt, Closing
  <2>. QED
    BY <1>1, <2>2, <2>3, BeginCalls
<1>4. CASE MissionFailed
  <2>1. Begin(ow, "failed", "idle") /\ BegunAt(ow, "failed")
    BY <1>1, <1>4 DEF MissionFailed, BegunAt
  <2>. QED
    BY <1>1, <2>1, BeginCalls
<1>. QED
  BY <1>2, <1>3, <1>4 DEF Owner, MissionDone, ListUnmet, JudgeCriterion, Decide, OwnerVerifies,
                          OwnerWaives

LEMMA CallsMove ==
    ASSUME IInv, Next, NEW p \in Actors
    PROVE  CallStep(p)
<1>1. CASE call' = call
  BY <1>1 DEF CallStep
<1>2. CASE Reaper
  <2>1. rp \in Actors /\ {"failed", "blocked"} \subseteq Statuses \ Ending
    BY StatusNames DEF Actors, Ending
  <2>2. CASE \E to \in {"failed", "blocked"}, l \in {"expire", "idle"} : Begin(rp, to, l)
    <3>1. PICK to \in {"failed", "blocked"}, l \in {"expire", "idle"} : Begin(rp, to, l)
      BY <2>2
    <3>2. BegunAt(rp, to) /\ to \in Statuses
      BY <2>1 DEF BegunAt
    <3>. QED
      BY <2>1, <3>1, <3>2, BeginCalls
  <2>. QED
    BY <1>1, <1>2, <2>2 DEF Reaper, ReapOverdue, ReapExpired, ReapTouched
<1>3. CASE Scanner \/ World
  <2>1. \/ call' = call
        \/ \E q \in Actors : call' = [call EXCEPT ![q] = NoCall]
    BY <1>3 DEF Scanner, Signal, Stamp, ScanUnchanged, World, Satisfy, StampAges, SignalTimesOut,
                ApprovalTimesOut, DeadlinePasses, WaitFallsDue, Crash, RequestDies, TickDies, Raise,
                Actors
  <2>2. ASSUME NEW q \in Actors, call' = [call EXCEPT ![q] = NoCall] PROVE CallStep(p)
    BY <2>2 DEF CallStep, IInv, Typed, ControlTyped
  <2>. QED
    BY <1>1, <2>1, <2>2
<1>. QED
  BY <1>2, <1>3, BodyCalls, OwnerCalls, TransitionCalls DEF Next

\* Where the owner's request and the body arrive.
LEMMA Arrivals ==
    ASSUME IInv, Next
    PROVE  /\ pc'[ow] = "list" => pc[ow] = "list" \/ outcome.status \in DoneFrom
           /\ pc'[ow] = "done" => pc[ow] \in {"list", "done"}
           /\ pc'[ow] = "finish" => pc[ow] = "finish" \/ (pc[ow] = "done" /\ todo[ow] = {})
           /\ pc'[ex] = "complete" => pc[ex] = "complete" \/ (pc[ex] = "gate" /\ Unmet = {})
<1>1. DOMAIN pc = Actors /\ ex \in Actors /\ ow \in Actors /\ rp \in Actors
  BY DEF IInv, Typed, ControlTyped, Actors
<1>2. CASE Body
  BY <1>1, <1>2 DEF durable, Body, Invoke, Start, Started, Reread, Gate, Complete, End, OpenWait,
                    Address, Await, Recheck, Consume, Assign, Unplan, Verify, Dispatch, CallModel,
                    Spend, RejectResult, AcceptResearch, AcceptVerdict, ApplyVerdict, Applied, Block,
                    Park, Pause, At, Goto, Begin, Leave
<1>3. CASE \E p \in Actors : Transition(p)
  BY <1>1, <1>3 DEF Transition, ReadCurrent, Update, Commit, Raise, Rest, Return
<1>4. CASE Scanner \/ Reaper
  BY <1>1, <1>4 DEF Scanner, Signal, Stamp, ScanUnchanged, Reaper, ReapOverdue, ReapExpired,
                    ReapTouched, Goto, Begin
<1>5. CASE Owner
  BY <1>1, <1>5 DEF Owner, MissionDone, ListUnmet, JudgeCriterion, MarkDone, FinishDone, MissionFailed,
                    Decide, OwnerVerifies, OwnerWaives, OwnerUnchanged, Goto, Begin, At, Request
<1>6. CASE World
  BY <1>1, <1>6 DEF World, Satisfy, StampAges, SignalTimesOut, ApprovalTimesOut, DeadlinePasses,
                    WaitFallsDue, Crash, RequestDies, TickDies, ScanUnchanged, Raise, Rest, Goto
<1>. QED
  BY <1>2, <1>3, <1>4, <1>5, <1>6 DEF Next

\* The owner's list covers whatever is unmet, and shrinks with it.
LEMMA DoneCovers ==
    ASSUME IInv, Next, Unmet' \subseteq Unmet,
           pc[ow] = "done" => Unmet \subseteq todo[ow], pc'[ow] = "done"
    PROVE  Unmet' \subseteq todo'[ow]
<1>1. /\ DOMAIN pc = Actors /\ ex \in Actors /\ ow \in Actors /\ rp \in Actors
      /\ todo \in [{ex, ow} -> SUBSET Criteria] /\ criteria \in [Criteria -> Criterion]
  BY DEF IInv, Typed, ControlTyped, DataTyped, RestTyped, Actors
<1>2. CASE ListUnmet
  BY <1>1, <1>2 DEF ListUnmet
<1>3. CASE JudgeCriterion
  <2>1. outcome.status \notin Terminal
    BY <1>1, <1>3 DEF JudgeCriterion, Goto
  <2>2. PICK c : c = First(todo[ow])
    OBVIOUS
  <2>3. /\ c \in Criteria /\ SetCriterion(c, "verified", {"owner"})
        /\ todo' = [todo EXCEPT ![ow] = @ \ {c}]
    BY <1>1, <1>3, <2>1, <2>2, FirstIsOne DEF JudgeCriterion
  <2>4. criteria'[c].status = "verified"
    BY <1>1, <2>3, Setting DEF Rulings
  <2>5. c \notin Unmet'
    BY <2>4 DEF Unmet, Met
  <2>. QED
    BY <1>1, <1>3, <2>3, <2>5 DEF JudgeCriterion, At
<1>4. ASSUME ~ListUnmet, ~JudgeCriterion PROVE pc[ow] = "done" /\ todo'[ow] = todo[ow]
  <2>1. CASE Body
    BY <1>1, <2>1 DEF durable, bodyVars, Body, Invoke, Start, Started, Reread, Gate, Complete, End,
                      OpenWait, Address, Await, Recheck, Consume, Assign, Unplan, Verify, Dispatch,
                      CallModel, Spend, RejectResult, AcceptResearch, AcceptVerdict, ApplyVerdict,
                      Applied, Block, Park, Pause, Goto, Begin, Leave
  <2>2. CASE \E p \in Actors : Transition(p)
    BY <1>1, <2>2 DEF Transition, ReadCurrent, Update, Commit, Raise, Rest, Return, bodyVars
  <2>3. CASE Scanner \/ Reaper
    BY <1>1, <2>3 DEF Scanner, Signal, Stamp, ScanUnchanged, Reaper, ReapOverdue, ReapExpired,
                      ReapTouched, ReapUnchanged, Goto, Begin, bodyVars
  <2>4. CASE Owner
    BY <1>1, <1>4, <2>4 DEF Owner, MissionDone, MarkDone, FinishDone, MissionFailed, Decide,
                            OwnerVerifies, OwnerWaives, OwnerUnchanged, Goto, Begin, bodyVars
  <2>5. CASE World
    BY <1>1, <2>5 DEF World, Satisfy, StampAges, SignalTimesOut, ApprovalTimesOut, DeadlinePasses,
                      WaitFallsDue, Crash, RequestDies, TickDies, ScanUnchanged, ReapUnchanged, Raise,
                      Rest, Goto, bodyVars
  <2>. QED
    BY <2>1, <2>2, <2>3, <2>4, <2>5 DEF Next
<1>. QED
  BY <1>2, <1>3, <1>4

----------------------------------------------------------------------------
(* The promise: its invariant *)

\* What a commit leaves: the status its transition asked for, and nobody with the lock.
LEMMA CommitEffect ==
    ASSUME IInv, NEW p \in Actors, Commit(p)
    PROVE  /\ call[p] # NoCall /\ call[p].open /\ outcome'.status = call[p].to
           /\ UNCHANGED <<criteria, jobs, pc, todo>>
           /\ \A q \in Actors : ~(call'[q] # NoCall /\ call'[q].open)
<1>1. /\ call[p] # NoCall /\ call[p].open /\ tx = [by |-> p, to |-> call[p].to]
      /\ UNCHANGED <<criteria, jobs, pc, todo>> /\ outcome \in Row /\ Typed
      /\ call' = [call EXCEPT ![p] = NoCall] /\ call \in [Actors -> {NoCall} \cup Calls]
  BY DEF Commit, Return, IInv, Typed, DataTyped, ControlTyped, bodyVars
<1>2. tx.to = call[p].to /\ tx.by = p
  BY <1>1
<1>3. outcome'.status = call[p].to
  BY <1>1, <1>2 DEF Commit, Row
<1>4. ASSUME NEW q \in Actors \ {p}, call[q] # NoCall, call[q].open PROVE FALSE
  <2>1. tx = [by |-> q, to |-> call[q].to]
    BY <1>1, <1>4 DEF Typed, ControlTyped
  <2>. QED
    BY <1>2, <2>1
<1>. QED
  BY <1>1, <1>3, <1>4

LEMMA LegalKept ==
    ASSUME IInv, PromiseInv, Next
    PROVE  LegalInv'
<1>1. CASE \E p \in Actors : Commit(p)
  BY <1>1, CommitEffect DEF LegalInv
<1>2. CASE \A p \in Actors : ~Commit(p)
  <2>1. outcome'.status = outcome.status
    BY <1>2, StatusMoves
  <2>2. ASSUME NEW p \in Actors, call'[p] # NoCall, call'[p].open
        PROVE  call'[p].to \in LegalNext[outcome.status]
    <3>1. call[p] # NoCall /\ call[p].open => call[p].to \in LegalNext[outcome.status]
      BY DEF PromiseInv, LegalInv
    <3>2. CASE call'[p] = call[p]
      BY <2>2, <3>1, <3>2
    <3>3. CASE call[p] # NoCall /\ call'[p].to = call[p].to /\ call'[p].open = call[p].open
      BY <2>2, <3>1, <3>3
    <3>4. CASE \E to \in Statuses : call'[p] = Fresh(to)
      BY <2>2, <3>4 DEF Fresh
    <3>. QED
      BY <2>2, <3>2, <3>3, <3>4, CallsMove DEF CallStep
  <2>. QED
    BY <2>1, <2>2 DEF LegalInv
<1>. QED
  BY <1>1, <1>2

\* A status that is new was asked for by a transition, and a transition that is
\* new was begun at a known place.
LEMMA HandedKept ==
    ASSUME IInv, PromiseInv, Next
    PROVE  HandedInv'
<1> SUFFICES ASSUME outcome'.status = "waiting_user" \/ \E p \in Actors : call'[p].to = "waiting_user"
             PROVE  Idle'
  BY DEF HandedInv
<1>1. SUFFICES Idle
  BY IdleStays
<1>2. CASE outcome'.status = "waiting_user"
  BY <1>2, StatusMoves, CommitEffect DEF PromiseInv, HandedInv
<1>3. ASSUME NEW p \in Actors, call'[p].to = "waiting_user" PROVE Idle
  <2>1. CASE call[p].to = "waiting_user"
    BY <2>1 DEF PromiseInv, HandedInv
  <2>2. CASE call[p].to # "waiting_user"
    <3>1. PICK to \in Statuses : call'[p] = Fresh(to) /\ BegunAt(p, to)
      BY <1>3, <2>2, CallsMove DEF CallStep, NoCall
    <3>2. to = "waiting_user"
      BY <1>3, <3>1 DEF Fresh
    <3>3. pc[ex] = "park" /\ LiveJobs = {}
      BY <3>1, <3>2 DEF BegunAt, Ending, Closing
    <3>. QED
      BY <3>3 DEF Idle, IInv, Core, KnownAt
  <2>. QED
    BY <2>1, <2>2
<1>. QED
  BY <1>2, <1>3

\* Over, no verdict is being applied.
LEMMA OverIsSettled ==
    ASSUME IInv, Over
    PROVE  Settled /\ (pc[ex] = "apply" => outcome.status = "completed")
BY DEF Over, IInv, Core, OverInv, KnownAt, Ruling, CompletedMeansCriteriaMet, Settled, Unmet

LEMMA OverIsMet ==
    ASSUME IInv, Over, Next
    PROVE  Unmet' \subseteq Unmet
<1>1. CASE outcome.status = "completed"
  BY <1>1, CriteriaAdvance DEF Terminal, Unmet, Met
<1>2. CASE outcome.status # "completed"
  BY <1>2, OverIsSettled, CriteriaAdvance
<1>. QED
  BY <1>1, <1>2

LEMMA EarnedKept ==
    ASSUME IInv, PromiseInv, Next
    PROVE  EarnedInv'
<1>1. ASSUME Closes' PROVE Unmet' = {}
  <2>1. Unmet = {} /\ Unmet' \subseteq Unmet
    <3>1. CASE Closes
      <4>1. Unmet = {}
        BY <3>1 DEF PromiseInv, EarnedInv
      <4>2. CASE Over
        BY <4>1, <4>2, OverIsMet
      <4>3. CASE ~Over
        <5>1. pc[ex] = "complete"
          BY <3>1, <4>3 DEF Closes, Closing, Over, Ended, Ending
        <5>. QED
          BY <4>1, <5>1, CriteriaAdvance
      <4>. QED
        BY <4>2, <4>3
    <3>2. CASE ~Closes
      <4>1. outcome'.status = outcome.status \/ outcome'.status \notin Closing
        BY <3>2, StatusMoves, CommitEffect DEF Closes
      <4>2. ASSUME NEW p \in Actors, call'[p].to \in Closing
            PROVE  Unmet = {} /\ (pc[ex] = "gate" \/ Over)
        <5>1. PICK to \in Statuses : call'[p] = Fresh(to) /\ BegunAt(p, to)
          BY <3>2, <4>2, CallsMove DEF CallStep, NoCall, Closes, Closing
        <5>2. to \in Closing
          BY <4>2, <5>1 DEF Fresh
        <5>3. (pc[ex] = "gate" /\ Unmet = {}) \/ (pc[ow] = "done" /\ todo[ow] = {})
          BY <3>2, <5>1, <5>2 DEF BegunAt, Closing, Ending, Closes
        <5>. QED
          BY <5>3 DEF PromiseInv, EarnedInv, Over, Ended
      <4>3. ASSUME pc'[ow] = "finish" \/ pc'[ex] = "complete"
            PROVE  Unmet = {} /\ (pc[ex] = "gate" \/ Over)
        <5>1. (pc[ex] = "gate" /\ Unmet = {}) \/ (pc[ow] = "done" /\ todo[ow] = {})
          BY <3>2, <4>3, Arrivals DEF Closes
        <5>. QED
          BY <5>1 DEF PromiseInv, EarnedInv, Over, Ended
      <4>4. Unmet = {} /\ (pc[ex] = "gate" \/ Over)
        BY <1>1, <3>2, <4>1, <4>2, <4>3 DEF Closes
      <4>5. pc[ex] = "gate" => Unmet' \subseteq Unmet
        BY CriteriaAdvance
      <4>. QED
        BY <4>4, <4>5, OverIsMet
    <3>. QED
      BY <3>1, <3>2
  <2>. QED
    BY <2>1
<1>2. ASSUME pc'[ow] = "done" PROVE Unmet' \subseteq todo'[ow]
  <2>1. CASE pc[ow] \in {"list", "done"}
    <3>1. Unmet' \subseteq Unmet
      BY <2>1, OverIsMet DEF Over, Ended
    <3>. QED
      BY <1>2, <3>1, DoneCovers DEF PromiseInv, EarnedInv
  <2>2. CASE pc[ow] \notin {"list", "done"}
    BY <1>2, <2>2, Arrivals
  <2>. QED
    BY <2>1, <2>2
<1>. QED
  BY <1>1, <1>2 DEF EarnedInv

LEMMA StillKept ==
    ASSUME IInv, PromiseInv, Next
    PROVE  StillInv'
<1> SUFFICES ASSUME Over', ~Idle PROVE pc'[ex] \in Safe
  BY IdleStays DEF StillInv
<1>1. SUFFICES pc[ex] \in Safe /\ Unmet = {}
  BY SafeStays
<1>2. CASE Over
  BY <1>2, OverIsSettled DEF PromiseInv, StillInv, Settled, Idle
<1>3. CASE ~Over
  <2>1. outcome'.status \notin Ending
    BY <1>3, StatusMoves, CommitEffect DEF Over, Ended, Ending
  <2>2. pc'[ow] \notin {"list", "done", "finish"}
    BY <1>3, Arrivals DEF Over, Ended, DoneFrom
  <2>3. PICK p \in Actors : call'[p].to \in Ending
    BY <2>1, <2>2 DEF Over, Ended, Ending
  <2>4. PICK to \in Statuses : call'[p] = Fresh(to) /\ BegunAt(p, to)
    BY <1>3, <2>3, CallsMove DEF CallStep, NoCall, Over, Ended, Ending
  <2>5. to \in Ending
    BY <2>3, <2>4 DEF Fresh
  <2>6. \/ pc[ex] = "gate" /\ Unmet = {}
        \/ pc[ex] = "complete"
        \/ pc[ex] = "park" /\ LiveJobs = {}
    BY <1>3, <2>4, <2>5 DEF BegunAt, Over, Ended
  <2>7. pc[ex] # "park"
    BY <2>6 DEF Idle, IInv, Core, KnownAt
  <2>. QED
    BY <2>6, <2>7 DEF Safe, PromiseInv, EarnedInv, Closes
<1>. QED
  BY <1>2, <1>3

LEMMA InitPromiseInv == Init => PromiseInv
<1> SUFFICES ASSUME Init PROVE PromiseInv
  OBVIOUS
<1>1. /\ outcome.status = "accepted" /\ pc[ex] = "off" /\ pc[ow] = "idle"
      /\ \A p \in Actors : call[p] = NoCall /\ call[p].to = "none"
  BY DEF Init, Rest, Actors, NoCall
<1>. QED
  BY <1>1 DEF PromiseInv, LegalInv, HandedInv, EarnedInv, StillInv, Closes, Closing, Safe

LEMMA NextPromiseInv == IInv /\ PromiseInv /\ [Next]_vars => PromiseInv'
<1> SUFFICES ASSUME IInv, PromiseInv, [Next]_vars PROVE PromiseInv'
  OBVIOUS
<1>1. CASE Next
  BY <1>1, LegalKept, HandedKept, EarnedKept, StillKept DEF PromiseInv
<1>2. CASE UNCHANGED vars
  BY <1>2 DEF vars, durable, bodyVars, envVars, PromiseInv, LegalInv, HandedInv, EarnedInv, StillInv,
              Over, Ended, Closes, Idle, LiveJobs, Live, VerifierDue, Has, Unmet, Met
<1>. QED
  BY <1>1, <1>2

\* What the invariant lacks to keep the promise holds in every reachable state too.
THEOREM PromiseInvariance == Spec => []PromiseInv
BY InitPromiseInv, NextPromiseInv, Invariance, PTL DEF Spec

----------------------------------------------------------------------------
(* The promise, kept step by step *)

LEMMA Phases ==
    /\ PhaseOf["waiting_user"] = "withOwner" /\ PhaseOf["verifying"] = "closing"
    /\ PhaseOf["completed"] = "completed"
    /\ \A st \in {"failed", "cancelled"} : PhaseOf[st] = "dropped"
    /\ \A st \in Statuses \ ({"waiting_user", "verifying"} \cup Terminal) : PhaseOf[st] = "open"
BY DEF PhaseOf, Statuses, Terminal

\* A commit moves the phase, and nothing else the owner sees.
LEMMA CommitPromise ==
    ASSUME IInv, PromiseInv, NEW p \in Actors, Commit(p)
    PROVE  [Promise!PromiseNext]_(Promise!promise)
<1>1. /\ UNCHANGED <<criteria, jobs>> /\ outcome.status \in Statuses
      /\ outcome'.status = call[p].to /\ call[p].to \in LegalNext[outcome.status]
  BY CommitEffect DEF PromiseInv, LegalInv, IInv, Typed, DataTyped, Row
<1>2. (Criteria \ Unmet)' = Criteria \ Unmet /\ (LiveJobs # {})' = (LiveJobs # {})
  BY <1>1 DEF Unmet, Met, LiveJobs, Live
<1>3. PICK from \in Statuses : from = outcome.status
  BY <1>1
<1>4. PICK to : to = outcome'.status
  OBVIOUS
<1>5. to \in LegalNext[from] /\ to \in Statuses
  BY <1>1, <1>3, <1>4 DEF LegalNext, Statuses, Terminal
<1>6. CASE to = "waiting_user"
  <2>1. from \in {"running", "blocked"}
    BY <1>5, <1>6 DEF LegalNext, Statuses, Terminal
  <2>2. LiveJobs = {}
    BY <1>1, <1>4, <1>6 DEF PromiseInv, HandedInv, Idle
  <2>3. Promise!HandOver
    BY <1>2, <1>3, <1>4, <1>6, <2>1, <2>2, Phases DEF Promise!HandOver, Statuses, Terminal
  <2>. QED
    BY <2>3 DEF Promise!PromiseNext
<1>7. CASE to = "verifying"
  <2>1. from \in {"running", "blocked", "waiting_user"}
    BY <1>5, <1>7 DEF LegalNext, Statuses, Terminal
  <2>2. Unmet = {}
    BY <1>1, <1>4, <1>7 DEF PromiseInv, EarnedInv, Closes, Closing
  <2>3. Promise!Close
    BY <1>2, <1>3, <1>4, <1>7, <2>1, <2>2, Phases DEF Promise!Close, Statuses, Terminal
  <2>. QED
    BY <2>3 DEF Promise!PromiseNext
<1>8. CASE to = "completed"
  <2>1. from = "verifying"
    BY <1>5, <1>8 DEF LegalNext, Statuses, Terminal
  <2>2. Promise!Complete
    BY <1>2, <1>3, <1>4, <1>8, <2>1, Phases DEF Promise!Complete
  <2>. QED
    BY <2>2 DEF Promise!PromiseNext
<1>9. CASE to \in {"failed", "cancelled"}
  <2>1. from \notin Terminal
    BY <1>5 DEF LegalNext, Statuses, Terminal
  <2>2. PhaseOf[from] \in {"open", "withOwner", "closing"}
    BY <2>1, Phases
  <2>3. Promise!Drop
    BY <1>2, <1>3, <1>4, <1>9, <2>2, Phases DEF Promise!Drop
  <2>. QED
    BY <2>3 DEF Promise!PromiseNext
<1>10. CASE to \notin {"waiting_user", "verifying"} \cup Terminal
  <2>1. PhaseOf[to] = "open"
    BY <1>5, <1>10, Phases
  <2>2. from \notin Terminal
    BY <1>5 DEF LegalNext, Statuses, Terminal
  <2>3. CASE from \in {"waiting_user", "verifying"}
    <3>1. Promise!TakeBack
      BY <1>2, <1>3, <1>4, <2>1, <2>3, Phases DEF Promise!TakeBack
    <3>. QED
      BY <3>1 DEF Promise!PromiseNext
  <2>4. CASE from \notin {"waiting_user", "verifying"}
    <3>1. UNCHANGED Promise!promise
      BY <1>2, <1>3, <1>4, <2>1, <2>2, <2>4, Phases DEF Promise!promise
    <3>. QED
      BY <3>1
  <2>. QED
    BY <2>3, <2>4
<1>. QED
  BY <1>6, <1>7, <1>8, <1>9, <1>10 DEF Terminal

\* Any other step leaves the phase, and does to the criteria and to the assignments
\* what the phase allows.
LEMMA OtherPromise ==
    ASSUME IInv, PromiseInv, Next, \A p \in Actors : ~Commit(p)
    PROVE  [Promise!PromiseNext]_(Promise!promise)
<1>1. outcome'.status = outcome.status /\ outcome.status \in Statuses
  BY StatusMoves DEF IInv, Typed, DataTyped, Row
<1>2. /\ PhaseOf[outcome.status]' = PhaseOf[outcome.status]
      /\ (Criteria \ Unmet)' \in SUBSET Criteria /\ (LiveJobs # {})' \in BOOLEAN
  BY <1>1 DEF PhaseOf
<1>3. CASE PhaseOf[outcome.status] = "open"
  <2>1. Promise!Work
    BY <1>2, <1>3 DEF Promise!Work
  <2>. QED
    BY <2>1 DEF Promise!PromiseNext
<1>4. CASE outcome.status \in {"failed", "cancelled"}
  <2>1. criteria' = criteria
    BY <1>4, CriteriaAdvance DEF Terminal
  <2>2. (Criteria \ Unmet)' = Criteria \ Unmet
    BY <2>1 DEF Unmet, Met
  <2>3. Promise!RunOn
    BY <1>2, <1>4, <2>2, Phases DEF Promise!RunOn
  <2>. QED
    BY <2>3 DEF Promise!PromiseNext
<1>5. CASE outcome.status \in Ending
  <2>1. Over
    BY <1>5 DEF Over, Ended, Ending
  <2>2. jobs' = jobs /\ Unmet' \subseteq Unmet
    BY <2>1, JobsByTheBody, OverIsMet DEF PromiseInv, StillInv
  <2>3. (LiveJobs # {})' = (LiveJobs # {})
    BY <2>2 DEF LiveJobs, Live
  <2>4. CASE outcome.status = "completed"
    <3>1. criteria' = criteria
      BY <2>4, CriteriaAdvance DEF Terminal
    <3>2. (Criteria \ Unmet)' = Criteria \ Unmet
      BY <3>1 DEF Unmet, Met
    <3>3. UNCHANGED Promise!promise
      BY <1>2, <2>3, <3>2 DEF Promise!promise
    <3>. QED
      BY <3>3
  <2>5. CASE outcome.status \in {"waiting_user", "verifying"}
    <3>1. Promise!Judge
      BY <1>2, <2>2, <2>3, <2>5, Phases DEF Promise!Judge
    <3>. QED
      BY <3>1 DEF Promise!PromiseNext
  <2>. QED
    BY <1>5, <2>4, <2>5 DEF Ending
<1>. QED
  BY <1>1, <1>3, <1>4, <1>5, Phases DEF Terminal, Ending

LEMMA InitPromise == Init => Promise!PromiseInit
<1> SUFFICES ASSUME Init PROVE Promise!PromiseInit
  OBVIOUS
<1>1. outcome.status = "accepted" /\ jobs = <<>> /\ \A c \in Criteria : criteria[c].status = "pending"
  BY DEF Init
<1>2. PhaseOf[outcome.status] = "open"
  BY <1>1, Phases, StatusNames DEF Terminal
<1>3. Criteria \ Unmet = {} /\ LiveJobs = {}
  BY <1>1 DEF Unmet, Met, LiveJobs
<1>. QED
  BY <1>2, <1>3 DEF Promise!PromiseInit

LEMMA StepPromise == IInv /\ PromiseInv /\ [Next]_vars => [Promise!PromiseNext]_(Promise!promise)
<1> SUFFICES ASSUME IInv, PromiseInv, [Next]_vars PROVE [Promise!PromiseNext]_(Promise!promise)
  OBVIOUS
<1>1. CASE Next
  BY <1>1, CommitPromise, OtherPromise
<1>2. CASE UNCHANGED vars
  BY <1>2 DEF vars, durable, Promise!promise, PhaseOf, Unmet, Met, LiveJobs, Live
<1>. QED
  BY <1>1, <1>2

\* Every step of the mission, whoever takes it, is a step the owner was promised, or
\* one the owner does not see (status.ts, outcome-workflows.ts, verdict.ts, mission-done).
THEOREM MissionKeepsItsPromise == Spec => ImplementsOutcomePromise
<1>1. Spec => [](IInv /\ PromiseInv)
  BY Invariance, PromiseInvariance, PTL
<1>. QED
  BY <1>1, InitPromise, StepPromise, PTL DEF Spec, ImplementsOutcomePromise, Promise!PromiseSpec
=============================================================================
