------------------------------ MODULE Mission ------------------------------
(***************************************************************************)
(* One delegated outcome ("mission") from acceptance to a terminal status: *)
(* the executor that works it (packages/workflow/src/outcome-workflows.ts),*)
(* the resume scanner and the hourly reaper beside it, and the owner, who  *)
(* judges criteria from the web pages and the operator CLI while they run. *)
(* All of them meet in PostgreSQL: the outcome row, its criteria, its      *)
(* durable waits and its assignments.                                      *)
(*                                                                         *)
(* The workflow engine re-invokes the executor's body from its first line  *)
(* whenever a durable wait resolves and whenever an attempt fails; what it *)
(* remembers between invocations is only the waits that have resolved.     *)
(* Everything else the body knows it reads back from the database.         *)
(*                                                                         *)
(* A status transition is a pool-level read followed by a transaction that *)
(* updates the row on that status, so it spans three steps here: read,     *)
(* update (row lock and trigger checks), commit.                           *)
(***************************************************************************)
EXTENDS Naturals, Sequences, FiniteSets, OutcomeStatus

CONSTANTS
    Criteria,      \* ordinals of the outcome's criteria
    OwnerJudged,   \* those whose verification method is owner_judgment
    Offers,        \* plans missions are accepted with, under which policy
    Costs,         \* what one model call may be charged
    Claims,        \* what a worker may report as costUsd in its envelope
    Budget,        \* an assignment's budget
    MaxRechecks,   \* bound of the wait loop
    MaxAttempts,   \* executions the engine grants a run
    MaxRequests    \* requests the owner makes

ASSUME MissionAssumption ==
    /\ Criteria \subseteq Nat /\ IsFiniteSet(Criteria) /\ Criteria # {}
    /\ OwnerJudged \subseteq Criteria
    /\ Offers \subseteq [plan : SUBSET {"wait", "assign"},
                         roles : SUBSET {"research", "verifier"}]
    /\ Costs \subseteq Nat /\ Claims \subseteq Nat /\ Budget \in Nat
    /\ MaxRechecks \in Nat \ {0} /\ MaxAttempts \in Nat \ {0}
    /\ MaxRequests \in Nat

VARIABLES
    outcome,    \* the row: status, waiting_on (addressed, signaled), plan
    criteria,   \* per criterion: status and what it was verified with
    waits,      \* the outcome_waits rows, oldest first
    jobs,       \* the assignments rows, oldest first
    tx,         \* the transaction that holds the outcome's row lock
    run,        \* what the engine keeps of the executor's run
    pc, call,   \* per actor: where it is, and the transition it is making
    seen,       \* the executor's in-memory copy of the outcome's status
    rechecks,   \* turns of the wait loop in this invocation
    todo,       \* per actor: criteria still to be written
    verdict,    \* the verifier's verdict being applied
    found,      \* the status the owner's mission-done request read
    scan,       \* where a scanner tick is
    world,      \* time passed: the deadline, the wait's expiry
    requests,   \* requests the owner has made
    policy      \* the worker roles policy.yaml enables

durable == <<outcome, criteria, waits, jobs>>
bodyVars == <<rechecks, todo, verdict>>
envVars == <<found, scan, world, requests, policy>>
vars == <<durable, tx, run, pc, call, seen, bodyVars, envVars>>

Actors == {"executor", "owner", "reaper"}
NoCall == [to |-> "none"]
NoTx == [by |-> "none", to |-> "none"]
Rest == [executor |-> "off", owner |-> "idle", reaper |-> "idle"]

Met(c) == criteria[c].status \in {"verified", "waived_by_owner"}
\* Fault: only criteria nobody has ruled on count as unmet.
Unmet_PendingOnly == {c \in Criteria : criteria[c].status = "pending"}

Unmet == {c \in Criteria : ~Met(c)}

Live(j) == jobs[j].status \in {"queued", "running"}
LiveJobs == {j \in DOMAIN jobs : Live(j)}
Has(role, sts) == \E j \in DOMAIN jobs : jobs[j].role = role /\ jobs[j].status \in sts
Last == Len(jobs)

\* The completion gates the database enforces on the transition to completed:
\* every criterion met (024), and worker-verified ones backed by a succeeded
\* verifier that landed evidence (027).
GateOpen ==
    /\ Unmet = {}
    /\ (\E c \in Criteria : "verifier" \in criteria[c].proof)
          => \E j \in DOMAIN jobs : /\ jobs[j].role = "verifier"
                                    /\ jobs[j].status = "succeeded"
                                    /\ jobs[j].evidence

----------------------------------------------------------------------------
(* Status transitions *)

At(p, l) == call[p] = NoCall /\ pc[p] = l
Goto(p, l) == pc' = [pc EXCEPT ![p] = l]

\* Actor p calls transitionOutcome(to) and continues at l.
Begin(p, to, l) ==
    /\ call' = [call EXCEPT ![p] = [to |-> to, cur |-> "unread", open |-> FALSE]]
    /\ Goto(p, l)

\* transitionOutcome returns to its caller, which may keep the returned row.
Return(p, st) ==
    /\ call' = [call EXCEPT ![p] = NoCall]
    /\ seen' = IF p = "executor" THEN st ELSE seen

\* An exception: the executor's attempt fails and the engine schedules the next,
\* a request or a tick ends; PostgreSQL rolls back what p had open.
Raise(p) ==
    /\ call' = [call EXCEPT ![p] = NoCall]
    /\ pc' = [pc EXCEPT ![p] = Rest[p]]
    /\ tx' = IF tx.by = p THEN NoTx ELSE tx
    /\ run' = IF p # "executor" THEN run
              ELSE [run EXCEPT !.attempts = @ + 1,
                               !.engine = IF run.attempts + 1 < MaxAttempts
                                          THEN "invoke" ELSE "dead"]
    /\ seen' = IF p = "executor" THEN "accepted" ELSE seen

ReadCurrent(p) ==
    /\ call[p] # NoCall /\ call[p].cur = "unread"
    /\ \/ /\ outcome.status = call[p].to
          /\ Return(p, outcome.status)
       \/ /\ outcome.status # call[p].to
          /\ call' = [call EXCEPT ![p].cur = outcome.status]
          /\ UNCHANGED seen
    /\ UNCHANGED <<durable, tx, run, pc, bodyVars, envVars>>

Lost(p) == outcome.status # call[p].cur
Allowed(p) ==
    /\ call[p].to \in LegalNext[call[p].cur]
    /\ call[p].to = "completed" => GateOpen

\* Fault: the update runs outside a transaction and takes no lock.
Update_WithoutLock(p) ==
    /\ call[p] # NoCall /\ call[p].cur # "unread" /\ ~call[p].open
    /\ \/ Lost(p) /\ Return(p, outcome.status) /\ UNCHANGED <<tx, run, pc>>
       \/ ~Lost(p) /\ ~Allowed(p) /\ Raise(p)
       \/ /\ ~Lost(p) /\ Allowed(p)
          /\ tx' = [by |-> p, to |-> call[p].to]
          /\ call' = [call EXCEPT ![p].open = TRUE]
          /\ UNCHANGED <<run, pc, seen>>
    /\ UNCHANGED <<durable, bodyVars, envVars>>

\* The compare-and-set UPDATE; it waits for the row lock.
Update(p) ==
    /\ call[p] # NoCall /\ call[p].cur # "unread" /\ ~call[p].open /\ tx = NoTx
    /\ \/ Lost(p) /\ Return(p, outcome.status) /\ UNCHANGED <<tx, run, pc>>
       \/ ~Lost(p) /\ ~Allowed(p) /\ Raise(p)
       \/ /\ ~Lost(p) /\ Allowed(p)
          /\ tx' = [by |-> p, to |-> call[p].to]
          /\ call' = [call EXCEPT ![p].open = TRUE]
          /\ UNCHANGED <<run, pc, seen>>
    /\ UNCHANGED <<durable, bodyVars, envVars>>

\* The event, attention and audit rows of the transaction are left out; the
\* transition's waiting_on names the run only when the executor parks.
Commit(p) ==
    /\ call[p] # NoCall /\ call[p].open
    /\ outcome' = [outcome EXCEPT
                     !.status = tx.to,
                     !.addressed = tx.to \in {"waiting_external", "waiting_user"},
                     !.signaled = FALSE]
    /\ tx' = NoTx
    /\ Return(p, tx.to)
    /\ UNCHANGED <<criteria, waits, jobs, run, pc, bodyVars, envVars>>

----------------------------------------------------------------------------
(* The executor: start, criteria gate, plan waits *)

ex == "executor"
ExUnchanged == UNCHANGED <<tx, envVars>>
\* The invocation is over, and its memory with it.
Leave == Goto(ex, "off") /\ seen' = "accepted"

\* The engine invokes the body from the top.
Invoke ==
    /\ run.engine = "invoke"
    /\ run' = [run EXCEPT !.engine = "body"]
    /\ Goto(ex, "start") /\ rechecks' = 0 /\ seen' = outcome.status
    /\ UNCHANGED <<durable, tx, call, todo, verdict, envVars>>

Start ==
    /\ At(ex, "start")
    /\ \/ seen = "accepted" /\ Begin(ex, "queued", "started")
       \/ seen = "queued" /\ Begin(ex, "running", "reread")
       \/ seen \notin {"accepted", "queued"} /\ Goto(ex, "reread") /\ UNCHANGED call
    /\ ExUnchanged /\ UNCHANGED <<durable, run, seen, bodyVars>>

Started ==
    /\ At(ex, "started") /\ Begin(ex, "running", "reread")
    /\ ExUnchanged /\ UNCHANGED <<durable, run, seen, bodyVars>>

Reread ==
    /\ At(ex, "reread") /\ Goto(ex, "gate") /\ seen' = outcome.status
    /\ ExUnchanged /\ UNCHANGED <<durable, run, call, bodyVars>>

\* 1. All criteria resolved: verify and complete. Otherwise the first lane with
\* work: a plan wait, a plan assignment, the verifier.
Gate ==
    /\ At(ex, "gate")
    /\ \/ Unmet = {} /\ Begin(ex, "verifying", "complete")
       \/ Unmet # {} /\ "wait" \in outcome.plan /\ Goto(ex, "wait") /\ UNCHANGED call
       \/ /\ Unmet # {} /\ outcome.plan = {"assign"}
          /\ Goto(ex, "assign") /\ UNCHANGED call
       \/ Unmet # {} /\ outcome.plan = {} /\ Goto(ex, "verify") /\ UNCHANGED call
    /\ ExUnchanged /\ UNCHANGED <<durable, run, seen, bodyVars>>

Complete ==
    /\ At(ex, "complete") /\ Begin(ex, "completed", "return")
    /\ ExUnchanged /\ UNCHANGED <<durable, run, seen, bodyVars>>

\* The body returns: the run is over.
End ==
    /\ At(ex, "return") /\ Leave
    /\ run' = [run EXCEPT !.engine = "ended"]
    /\ ExUnchanged /\ UNCHANGED <<durable, call, bodyVars>>

\* Fault: a wait that was satisfied meanwhile is not found again.
Reusable_WaitingOnly == {w \in DOMAIN waits : waits[w] = "waiting"}

\* Rows an earlier invocation may have left for this wait entry.
Reusable == {w \in DOMAIN waits : waits[w] \in {"waiting", "satisfied"}}

\* 2. Find the wait row of this plan entry, or create it.
OpenWait ==
    /\ At(ex, "wait") /\ Goto(ex, "address")
    /\ waits' = IF Reusable # {} THEN waits ELSE Append(waits, "waiting")
    /\ ExUnchanged /\ UNCHANGED <<outcome, criteria, jobs, run, call, seen, bodyVars>>

\* The row in hand is the newest one: it was found live or just appended.
CurrentWait == Len(waits)

\* waiting_on is written unconditionally, then the transition is made.
Address ==
    /\ At(ex, "address") /\ tx = NoTx
    /\ outcome' = [outcome EXCEPT !.addressed = TRUE, !.signaled = FALSE]
    /\ Begin(ex, "waiting_external", "await")
    /\ ExUnchanged /\ UNCHANGED <<criteria, waits, jobs, run, seen, bodyVars>>

\* waitForSignal: a wait that already resolved in an earlier invocation returns
\* at once; otherwise it is registered and the invocation ends.
Await ==
    /\ At(ex, "await")
    /\ \/ /\ rechecks < run.resumes
          /\ rechecks' = rechecks + 1 /\ Goto(ex, "recheck") /\ UNCHANGED <<run, seen>>
       \/ /\ rechecks >= run.resumes
          /\ run' = [run EXCEPT !.engine = "signal"]
          /\ Leave /\ rechecks' = 0
    /\ ExUnchanged /\ UNCHANGED <<durable, call, todo, verdict>>

\* The handshake's re-read; eight fruitless rechecks fall through as well.
Recheck ==
    /\ At(ex, "recheck")
    /\ Goto(ex, IF waits[CurrentWait] = "satisfied" \/ rechecks >= MaxRechecks
                THEN "consume" ELSE "await")
    /\ ExUnchanged /\ UNCHANGED <<durable, run, call, seen, bodyVars>>

Consume ==
    /\ At(ex, "consume") /\ tx = NoTx /\ rechecks' = 0
    /\ outcome' = [outcome EXCEPT !.plan = @ \ {"wait"}]
    /\ Begin(ex, "running", "gate")
    /\ ExUnchanged /\ UNCHANGED <<criteria, waits, jobs, run, seen, todo, verdict>>

----------------------------------------------------------------------------
(* The executor: assignments, shared by the worker and the verifier lane *)

NewJob(role) == [role |-> role, status |-> "queued", called |-> FALSE,
                 charged |-> 0, spent |-> 0, evidence |-> FALSE]
Mint(role) == jobs' = Append(jobs, NewJob(role))
SetJob(j, st) == jobs' = [jobs EXCEPT ![j].status = st]

\* 2.5 The worker role's policy, then the assignment row; the plan entry is
\* consumed by a second statement.
Assign ==
    /\ At(ex, "assign")
    /\ \/ "research" \notin policy /\ Begin(ex, "blocked", "return") /\ UNCHANGED jobs
       \/ "research" \in policy /\ Mint("research") /\ Goto(ex, "unplan") /\ UNCHANGED call
    /\ ExUnchanged /\ UNCHANGED <<outcome, criteria, waits, run, seen, bodyVars>>

\* Fault: the entry is left in the plan until the result is in.
Unplan_LeavesTheEntry ==
    /\ At(ex, "unplan") /\ tx = NoTx /\ Goto(ex, "dispatch")
    /\ ExUnchanged /\ UNCHANGED <<durable, run, call, seen, bodyVars>>

Unplan ==
    /\ At(ex, "unplan") /\ tx = NoTx /\ Goto(ex, "dispatch")
    /\ outcome' = [outcome EXCEPT !.plan = @ \ {"assign"}]
    /\ ExUnchanged /\ UNCHANGED <<criteria, waits, jobs, run, call, seen, bodyVars>>

\* 2.7 One verifier for a succeeded builder, when a pending criterion is not the
\* owner's to judge.
VerifierDue ==
    /\ "verifier" \in policy
    /\ \E c \in Criteria \ OwnerJudged : criteria[c].status = "pending"
    /\ Has("research", {"succeeded"})
    /\ ~Has("verifier", {"queued", "running", "succeeded"})

Verify ==
    /\ At(ex, "verify")
    /\ \/ VerifierDue /\ Mint("verifier") /\ Goto(ex, "dispatch")
       \/ ~VerifierDue /\ Goto(ex, "park") /\ UNCHANGED jobs
    /\ ExUnchanged /\ UNCHANGED <<outcome, criteria, waits, run, call, seen, bodyVars>>

\* The grant is issued and bound and the row set running; a deadline that passed
\* meanwhile fails the worker's assignment instead.
Dispatch ==
    /\ At(ex, "dispatch")
    /\ \/ SetJob(Last, "running") /\ Goto(ex, "model")
       \/ jobs[Last].role = "research" /\ SetJob(Last, "failed") /\ Goto(ex, "block")
    /\ ExUnchanged /\ UNCHANGED <<outcome, criteria, waits, run, call, seen, bodyVars>>

CallModel ==
    /\ At(ex, "model") /\ Goto(ex, "spend")
    /\ \E cost \in Costs :
         jobs' = [jobs EXCEPT ![Last].called = TRUE, ![Last].charged = cost]
    /\ ExUnchanged /\ UNCHANGED <<outcome, criteria, waits, run, call, seen, bodyVars>>

\* recordAssignmentSpend refuses what the budget does not cover.
Spend ==
    /\ At(ex, "spend")
    /\ \/ /\ jobs[Last].spent + jobs[Last].charged <= Budget
          /\ jobs' = [jobs EXCEPT ![Last].spent = @ + jobs[Last].charged]
          /\ Goto(ex, "judge")
       \/ /\ jobs[Last].spent + jobs[Last].charged > Budget
          /\ SetJob(Last, "failed") /\ Goto(ex, "block")
    /\ ExUnchanged /\ UNCHANGED <<outcome, criteria, waits, run, call, seen, bodyVars>>

\* A failed call, an unusable envelope, or one completeAssignment refuses.
RejectResult ==
    /\ At(ex, "judge") /\ Goto(ex, "block")
    /\ \E st \in {"failed", "blocked"} : SetJob(Last, st)
    /\ ExUnchanged /\ UNCHANGED <<outcome, criteria, waits, run, call, seen, bodyVars>>

\* completeAssignment stores the envelope, its costUsd over spent_usd included.
AcceptResearch ==
    /\ At(ex, "judge") /\ jobs[Last].role = "research" /\ Goto(ex, "reread")
    /\ \E claim \in Claims :
         jobs' = [jobs EXCEPT ![Last].status = "succeeded", ![Last].spent = claim]
    /\ ExUnchanged /\ UNCHANGED <<outcome, criteria, waits, run, call, seen, bodyVars>>

Rulings == {"verified", "failed", "unverified"}
NoVerdict == [c \in Criteria |-> "unverified"]

\* Fault: the verdict is applied before its assignment is completed.
AcceptVerdict_BeforeCompletion ==
    /\ At(ex, "judge") /\ jobs[Last].role = "verifier" /\ Goto(ex, "apply")
    /\ verdict' \in [Criteria -> Rulings]
    /\ todo' = [todo EXCEPT ![ex] = Criteria]
    /\ ExUnchanged /\ UNCHANGED <<durable, run, call, seen, rechecks>>

\* The verdict covers every criterion; the citations of confirmed ones are the
\* verifier's evidence rows.
AcceptVerdict ==
    /\ At(ex, "judge") /\ jobs[Last].role = "verifier" /\ Goto(ex, "apply")
    /\ \E v \in [Criteria -> Rulings] :
         /\ verdict' = v
         /\ jobs' = [jobs EXCEPT ![Last].status = "succeeded",
                                 ![Last].spent = jobs[Last].charged,
                                 ![Last].evidence = \E c \in Criteria : v[c] = "verified"]
    /\ todo' = [todo EXCEPT ![ex] = Criteria]
    /\ ExUnchanged /\ UNCHANGED <<outcome, criteria, waits, run, call, seen, rechecks>>

First(S) == CHOOSE c \in S : \A d \in S : c <= d

\* setCriterionStatus: refused once the outcome is terminal. It takes no lock on
\* the outcome row, so an open transition does not stop it.
SetCriterion(c, st, with) ==
    criteria' = [criteria EXCEPT ![c] = [status |-> st, proof |-> @.proof \cup with]]

\* applyVerifierVerdict, one criterion per statement, in order.
ApplyVerdict ==
    /\ At(ex, "apply") /\ todo[ex] # {}
    /\ \/ /\ outcome.status \notin Terminal
          /\ LET c == First(todo[ex]) IN
               /\ SetCriterion(c, verdict[c],
                               IF verdict[c] = "verified" THEN {"verifier"} ELSE {})
               /\ todo' = [todo EXCEPT ![ex] = @ \ {c}]
          /\ UNCHANGED <<call, pc>>
       \/ /\ outcome.status \in Terminal
          /\ Begin(ex, "blocked", "return")
          /\ todo' = [todo EXCEPT ![ex] = {}] /\ UNCHANGED criteria
    /\ verdict' = IF outcome.status \in Terminal THEN NoVerdict ELSE verdict
    /\ ExUnchanged /\ UNCHANGED <<outcome, waits, jobs, run, seen, rechecks>>

Applied ==
    /\ At(ex, "apply") /\ todo[ex] = {} /\ Goto(ex, "reread")
    /\ verdict' = NoVerdict
    /\ ExUnchanged /\ UNCHANGED <<durable, run, call, seen, rechecks, todo>>

\* The statement after terminateAssignment: the outcome is blocked.
Block ==
    /\ At(ex, "block") /\ Begin(ex, "blocked", "return")
    /\ ExUnchanged /\ UNCHANGED <<durable, run, seen, bodyVars>>

----------------------------------------------------------------------------
(* The executor: parking with the owner *)

\* Fault: an interrupted assignment does not keep the outcome from the owner.
Park_OverRunningWork ==
    /\ At(ex, "park")
    /\ \/ seen = "blocked" /\ Goto(ex, "return") /\ UNCHANGED call
       \/ seen # "blocked" /\ Begin(ex, "waiting_user", "pause")
    /\ ExUnchanged /\ UNCHANGED <<durable, run, seen, bodyVars>>

\* 3. A blocked outcome is left alone, an interrupted assignment is terminated
\* and blocks it, anything else waits for the owner.
Park ==
    /\ At(ex, "park")
    /\ \/ seen = "blocked" /\ Goto(ex, "return") /\ UNCHANGED <<jobs, call>>
       \/ /\ seen # "blocked"
          /\ \E j \in LiveJobs : SetJob(j, "failed")
          /\ Goto(ex, "block") /\ UNCHANGED call
       \/ /\ seen # "blocked" /\ LiveJobs = {}
          /\ Begin(ex, "waiting_user", "pause") /\ UNCHANGED jobs
    /\ ExUnchanged /\ UNCHANGED <<outcome, criteria, waits, run, seen, bodyVars>>

\* pauseForApproval: registered the first time, resolved by the time-out in a
\* later invocation, which fails the outcome.
Pause ==
    /\ At(ex, "pause")
    /\ \/ ~run.expired /\ run' = [run EXCEPT !.engine = "approval"]
          /\ Leave /\ UNCHANGED call
       \/ run.expired /\ Begin(ex, "failed", "return") /\ UNCHANGED <<run, seen>>
    /\ ExUnchanged /\ UNCHANGED <<durable, bodyVars>>

\* A crash of the worker, or any statement of the body failing.
Crash ==
    /\ run.engine = "body" /\ run.attempts < MaxAttempts
    /\ Raise(ex)
    /\ rechecks' = 0 /\ verdict' = NoVerdict /\ todo' = [todo EXCEPT ![ex] = {}]
    /\ UNCHANGED <<durable, envVars>>

\* Seven days without a signal, thirty without an approval.
SignalTimesOut ==
    /\ run.engine = "signal"
    /\ run' = [run EXCEPT !.engine = "invoke", !.resumes = @ + 1]
    /\ UNCHANGED <<durable, tx, pc, call, seen, bodyVars, envVars>>

ApprovalTimesOut ==
    /\ run.engine = "approval"
    /\ run' = [run EXCEPT !.engine = "invoke", !.expired = TRUE]
    /\ UNCHANGED <<durable, tx, pc, call, seen, bodyVars, envVars>>

----------------------------------------------------------------------------
(* The resume scanner *)

ScanUnchanged == UNCHANGED <<tx, pc, call, seen, bodyVars, found, world,
                             requests, policy>>

\* An event matched a wait that has not expired: compare-and-set.
Satisfy ==
    /\ \E w \in DOMAIN waits :
         /\ waits[w] = "waiting" /\ ~world.due
         /\ waits' = [waits EXCEPT ![w] = "satisfied"]
    /\ UNCHANGED <<outcome, criteria, jobs, run, scan>> /\ ScanUnchanged

\* The reconciler half signals every parked outcome whose wait is satisfied. A
\* signal nobody is registered for is lost.
Signal ==
    /\ scan = "idle" /\ ~outcome.signaled
    /\ outcome.status = "waiting_external" /\ outcome.addressed
    /\ \E w \in DOMAIN waits : waits[w] = "satisfied"
    /\ run' = IF run.engine = "signal"
              THEN [run EXCEPT !.engine = "invoke", !.resumes = @ + 1] ELSE run
    /\ scan' = "stamp"
    /\ UNCHANGED durable /\ ScanUnchanged

\* Then it stamps waiting_on, whatever that has become.
Stamp ==
    /\ scan = "stamp" /\ tx = NoTx /\ scan' = "idle"
    /\ outcome' = [outcome EXCEPT !.signaled = outcome.addressed]
    /\ UNCHANGED <<criteria, waits, jobs, run>> /\ ScanUnchanged

\* Fault: the stamp holds signals back for as long as the outcome is parked.
StampAges_OnceResumed ==
    /\ outcome.signaled /\ outcome.status # "waiting_external"
    /\ outcome' = [outcome EXCEPT !.signaled = FALSE]
    /\ UNCHANGED <<criteria, waits, jobs, run, scan>> /\ ScanUnchanged

\* Five minutes later the stamp no longer holds the next signal back.
StampAges ==
    /\ outcome.signaled /\ outcome' = [outcome EXCEPT !.signaled = FALSE]
    /\ UNCHANGED <<criteria, waits, jobs, run, scan>> /\ ScanUnchanged

----------------------------------------------------------------------------
(* The reaper: deadlines, then expired waits, then outcomes left without one *)

rp == "reaper"
ReapUnchanged == UNCHANGED <<tx, run, seen, bodyVars, envVars>>

\* Fault: blocked outcomes are left out of the deadline sweep.
Overdue_ButBlocked == world.overdue /\ outcome.status \notin Terminal \cup {"blocked"}

Overdue == world.overdue /\ outcome.status \notin Terminal
Expired == {w \in DOMAIN waits : waits[w] = "waiting" /\ world.due}

ReapOverdue ==
    /\ At(rp, "idle") /\ Overdue /\ Begin(rp, "failed", "expire")
    /\ UNCHANGED durable /\ ReapUnchanged

\* Waits are looked at after the overdue outcomes; a tick that finds nothing to
\* do changes nothing.
ReapExpired ==
    /\ (At(rp, "idle") /\ ~Overdue) \/ At(rp, "expire")
    /\ waits' = [w \in DOMAIN waits |-> IF w \in Expired THEN "expired" ELSE waits[w]]
    /\ Goto(rp, IF Expired # {} THEN "touched" ELSE "idle")
    /\ UNCHANGED <<outcome, criteria, jobs, call>> /\ ReapUnchanged

ReapTouched ==
    /\ At(rp, "touched")
    /\ \/ /\ outcome.status = "waiting_external"
          /\ \A w \in DOMAIN waits : waits[w] # "waiting"
          /\ Begin(rp, "blocked", "idle")
       \/ /\ outcome.status # "waiting_external"
          /\ Goto(rp, "idle") /\ UNCHANGED call
       \/ /\ outcome.status = "waiting_external"
          /\ \E w \in DOMAIN waits : waits[w] = "waiting"
          /\ Goto(rp, "idle") /\ UNCHANGED call
    /\ UNCHANGED durable /\ ReapUnchanged

----------------------------------------------------------------------------
(* The owner: mission-done, mission-failed, one criterion, ops decide *)

ow == "owner"
OwnerUnchanged == UNCHANGED <<tx, run, seen, rechecks, verdict, scan, world, policy>>
Request ==
    /\ At(ow, "idle") /\ requests < MaxRequests
    /\ requests' = requests + 1

DoneFrom == {"waiting_user", "verifying"}
FailedFrom == {"waiting_user", "blocked", "verifying"}

\* /ui/mission-done reads the status first, the criteria next.
MissionDone ==
    /\ Request /\ outcome.status \in DoneFrom
    /\ found' = outcome.status /\ Goto(ow, "list")
    /\ UNCHANGED <<durable, call, todo>> /\ OwnerUnchanged

\* Fault: only criteria nobody has ruled on are the owner's to verify.
ListUnmet_PendingOnly ==
    /\ At(ow, "list") /\ Goto(ow, "done")
    /\ todo' = [todo EXCEPT ![ow] = {c \in Criteria : criteria[c].status = "pending"}]
    /\ UNCHANGED <<durable, call, found, requests>> /\ OwnerUnchanged

ListUnmet ==
    /\ At(ow, "list") /\ Goto(ow, "done") /\ todo' = [todo EXCEPT ![ow] = Unmet]
    /\ UNCHANGED <<durable, call, found, requests>> /\ OwnerUnchanged

\* Every unmet criterion is verified on the owner's judgment.
JudgeCriterion ==
    /\ At(ow, "done") /\ todo[ow] # {}
    /\ \/ /\ outcome.status \notin Terminal
          /\ SetCriterion(First(todo[ow]), "verified", {"owner"})
          /\ todo' = [todo EXCEPT ![ow] = @ \ {First(@)}]
          /\ UNCHANGED pc
       \/ /\ outcome.status \in Terminal
          /\ todo' = [todo EXCEPT ![ow] = {}] /\ Goto(ow, "idle") /\ UNCHANGED criteria
    /\ found' = IF outcome.status \in Terminal THEN "accepted" ELSE found
    /\ UNCHANGED <<outcome, waits, jobs, call, requests>> /\ OwnerUnchanged

MarkDone ==
    /\ At(ow, "done") /\ todo[ow] = {}
    /\ \/ found = "waiting_user" /\ Begin(ow, "verifying", "finish")
       \/ found # "waiting_user" /\ Begin(ow, "completed", "idle")
    /\ found' = "accepted"
    /\ UNCHANGED <<durable, todo, requests>> /\ OwnerUnchanged

FinishDone ==
    /\ At(ow, "finish") /\ Begin(ow, "completed", "idle")
    /\ UNCHANGED <<durable, todo, found, requests>> /\ OwnerUnchanged

MissionFailed ==
    /\ Request /\ outcome.status \in FailedFrom /\ Begin(ow, "failed", "idle")
    /\ UNCHANGED <<durable, todo, found>> /\ OwnerUnchanged

\* One criterion from its page or from `ops criterion`.
OwnerVerifies(c) ==
    /\ Request /\ outcome.status \notin Terminal
    /\ SetCriterion(c, "verified", {"owner"})
    /\ UNCHANGED <<outcome, waits, jobs, pc, call, todo, found>>
    /\ OwnerUnchanged

\* A waiver carries neither evidence nor verifier (CHECK of migration 024).
OwnerWaives(c) ==
    /\ Request /\ outcome.status \notin Terminal /\ criteria[c].proof = {}
    /\ SetCriterion(c, "waived_by_owner", {})
    /\ UNCHANGED <<outcome, waits, jobs, pc, call, todo, found>>
    /\ OwnerUnchanged

\* Identifiers as sequences of character classes: NAME_RE of workflow/names.ts,
\* the id the executor pauses under and the one `ops decide` addresses.
IsWorkflowToken(id) ==
    /\ Head(id) \in {"lower", "digit"}
    /\ \A i \in DOMAIN id : id[i] \in {"lower", "digit", "hyphen"}
PauseId == <<"lower", "hyphen", "digit", "lower">>    \* verify-7kq
DecideId == <<"lower", "colon", "digit", "upper">>    \* verify:7KQ

\* `ops decide <ref> approve` on an outcome that names a run.
Decide ==
    /\ Request /\ outcome.addressed
    /\ run' = IF /\ IsWorkflowToken(DecideId) /\ DecideId = PauseId
                 /\ run.engine = "approval"
              THEN [run EXCEPT !.engine = "invoke"] ELSE run
    /\ UNCHANGED <<durable, tx, pc, call, seen, bodyVars, found, scan, world, policy>>

\* The owner's request dies between two of its statements, or in its transaction.
RequestDies ==
    /\ call[ow] # NoCall \/ pc[ow] # "idle"
    /\ Raise(ow)
    /\ todo' = [todo EXCEPT ![ow] = {}] /\ found' = "accepted"
    /\ UNCHANGED <<durable, rechecks, verdict, scan, world, requests, policy>>

\* A tick dies after the waits expired and before their outcome is blocked; a tick
\* that dies in its transaction leaves what one that never ran leaves.
TickDies ==
    /\ At(rp, "touched") /\ Goto(rp, "idle")
    /\ UNCHANGED <<durable, call>> /\ ReapUnchanged

\* Time is noticed only where it matters: before the end, with a wait at hand.
DeadlinePasses ==
    /\ ~world.overdue /\ outcome.status \notin Terminal
    /\ world' = [world EXCEPT !.overdue = TRUE]
    /\ UNCHANGED <<durable, tx, run, pc, call, seen, bodyVars, found, scan,
                   requests, policy>>

WaitFallsDue ==
    /\ ~world.due /\ (waits # <<>> \/ "wait" \in outcome.plan)
    /\ world' = [world EXCEPT !.due = TRUE]
    /\ UNCHANGED <<durable, tx, run, pc, call, seen, bodyVars, found, scan,
                   requests, policy>>

----------------------------------------------------------------------------

\* createOutcome inserts the row accepted and its criteria pending, with the plan
\* its caller composed; the policy file may enable either worker role.
Init ==
    /\ \E offer \in Offers :
         /\ outcome = [status |-> "accepted", addressed |-> FALSE, signaled |-> FALSE,
                       plan |-> offer.plan]
         /\ policy = offer.roles
    /\ criteria = [c \in Criteria |-> [status |-> "pending", proof |-> {}]]
    /\ waits = <<>> /\ jobs = <<>> /\ tx = NoTx
    /\ run = [engine |-> "invoke", resumes |-> 0, expired |-> FALSE, attempts |-> 0]
    /\ pc = Rest /\ call = [p \in Actors |-> NoCall]
    /\ seen = "accepted" /\ rechecks = 0
    /\ todo = [p \in {ex, ow} |-> {}]
    /\ verdict = NoVerdict
    /\ found = "accepted" /\ scan = "idle"
    /\ world = [overdue |-> FALSE, due |-> FALSE]
    /\ requests = 0

\* The body's own steps; transitions of all actors are the shared three steps.
Body ==
    \/ Invoke \/ Start \/ Started \/ Reread \/ Gate \/ Complete \/ End
    \/ OpenWait \/ Address \/ Await \/ Recheck \/ Consume
    \/ Assign \/ Unplan \/ Verify \/ Dispatch \/ CallModel \/ Spend
    \/ RejectResult \/ AcceptResearch \/ AcceptVerdict \/ ApplyVerdict \/ Applied
    \/ Block \/ Park \/ Pause
Transition(p) == ReadCurrent(p) \/ Update(p) \/ Commit(p)
Scanner == Signal \/ Stamp
Reaper == ReapOverdue \/ ReapExpired \/ ReapTouched
Owner ==
    \/ MissionDone \/ ListUnmet \/ JudgeCriterion \/ MarkDone \/ FinishDone
    \/ MissionFailed \/ Decide
    \/ \E c \in Criteria : OwnerVerifies(c) \/ OwnerWaives(c)
World ==
    \/ Satisfy \/ StampAges \/ SignalTimesOut \/ ApprovalTimesOut
    \/ DeadlinePasses \/ WaitFallsDue \/ Crash \/ RequestDies \/ TickDies

Next == Body \/ (\E p \in Actors : Transition(p)) \/ Scanner \/ Reaper \/ Owner \/ World

\* The engine keeps invoking, the crons keep firing, an open transaction ends.
\* Nothing is assumed of the owner, of arriving events, of crashes or of time-outs.
Fairness ==
    /\ WF_vars(Body) /\ \A p \in Actors : WF_vars(Transition(p))
    /\ WF_vars(Scanner) /\ WF_vars(StampAges) /\ WF_vars(Reaper)

Spec == Init /\ [][Next]_vars
FairSpec == Spec /\ Fairness

----------------------------------------------------------------------------

JobStatuses == {"queued", "running", "succeeded", "failed", "blocked"}
Labels == {"off", "start", "started", "reread", "gate", "complete", "return", "wait",
           "address", "await", "recheck", "consume", "assign", "unplan", "verify",
           "dispatch", "model", "spend", "judge", "apply", "block", "park", "pause"}

\* Every variable stays in its type; only the lock holder has a transition open.
TypeOK ==
    /\ outcome \in [status : Statuses, addressed : BOOLEAN, signaled : BOOLEAN,
                    plan : SUBSET {"wait", "assign"}]
    /\ criteria \in [Criteria -> [status : {"pending", "waived_by_owner"} \cup Rulings,
                                  proof : SUBSET {"owner", "verifier"}]]
    /\ waits \in Seq({"waiting", "satisfied", "expired"})
    /\ jobs \in Seq([role : {"research", "verifier"}, status : JobStatuses,
                     called : BOOLEAN, charged : Nat, spent : Nat, evidence : BOOLEAN])
    /\ tx \in {NoTx} \cup [by : Actors, to : Statuses]
    /\ \A p \in Actors : call[p] # NoCall /\ call[p].open
                            => tx = [by |-> p, to |-> call[p].to]
    /\ run \in [engine : {"invoke", "body", "signal", "approval", "ended", "dead"},
                resumes : Nat, expired : BOOLEAN, attempts : 0 .. MaxAttempts]
    /\ pc \in [Actors -> Labels \cup {"idle", "list", "done", "finish", "expire",
                                      "touched"}]
    /\ seen \in Statuses /\ rechecks \in 0 .. MaxRechecks
    /\ scan \in {"idle", "stamp"}

\* A completed outcome has every criterion verified or waived, whether the executor
\* or the owner's page completes it and however their reads of the criteria, the
\* verifier's rulings and the two transitions interleave (outcome-workflows.ts
\* criteria gate, mission-done, migration 024).
CompletedMeansCriteriaMet ==
    outcome.status = "completed" => \A c \in Criteria : Met(c)

\* A criterion the verifier confirmed rests on a succeeded verifier assignment that
\* landed evidence, and on a succeeded builder (verdict.ts applyVerifierVerdict).
WorkerVerifiedIsBacked ==
    \A c \in Criteria : "verifier" \in criteria[c].proof =>
        /\ \E j \in DOMAIN jobs : /\ jobs[j].role = "verifier" /\ jobs[j].evidence
                                  /\ jobs[j].status = "succeeded"
        /\ Has("research", {"succeeded"})

\* However often the body is replayed, the plan's one assignment buys at most one
\* model call (outcome-workflows.ts: the entry is consumed at mint time).
ResearchIsPaidOnce ==
    Cardinality({j \in DOMAIN jobs : jobs[j].role = "research" /\ jobs[j].called}) <= 1

\* A replayed body reuses its wait: no duplicate outlives the satisfied original.
OneLiveWait ==
    Cardinality({w \in DOMAIN waits : waits[w] \in {"waiting", "satisfied"}}) <= 1

\* What the owner sees of a status: the executor's and the gate's business is "open".
PhaseOf ==
    [st \in Statuses |-> CASE st = "waiting_user"           -> "withOwner"
                          [] st = "verifying"              -> "closing"
                          [] st = "completed"              -> "completed"
                          [] st \in {"failed", "cancelled"} -> "dropped"
                          [] OTHER                         -> "open"]

Promise == INSTANCE OutcomePromise WITH
    phase <- PhaseOf[outcome.status],
    met <- Criteria \ Unmet,
    working <- LiveJobs # {}

\* The mission keeps the promise, however the replays of the body, the transitions
\* of three actors and the owner's judgments interleave: it is with the owner only
\* with nothing under way, no criterion is unmade then, closing and ending are
\* earned, and what has ended stays as it is (status.ts, mission-done, verdict.ts).
ImplementsOutcomePromise == Promise!PromiseSpec

\* A satisfied wait wakes its outcome, although a signal sent before the executor
\* registered is lost: the scanner's reconciler sends another. Only a run the
\* engine has given up on stays behind.
NoLostWakeup ==
    (outcome.status = "waiting_external" /\ \E w \in DOMAIN waits : waits[w] = "satisfied")
        ~> (outcome.status # "waiting_external" \/ run.engine = "dead")

\* Past its deadline every outcome ends, whatever it was doing.
DeadlineEndsTheMission == world.overdue ~> outcome.status \in Terminal

\* What the sources say of the executor, and it does not do.

\* outcome-workflows.ts:153 "the system records actual spend itself".
SpendIsRecorded ==
    \A j \in DOMAIN jobs : jobs[j].status = "succeeded" => jobs[j].spent = jobs[j].charged

\* outcome-workflows.ts:826-831: interrupted work is blocked honestly "instead of
\* parking 'with you' over work that never finished".
ParkIsHonest ==
    outcome.status = "waiting_user" =>
        \A j \in DOMAIN jobs : jobs[j].status = "succeeded"

\* outcome-workflows.ts:823-824: "the approval resume (josctl ops decide) signals
\* this run, the one actually parked below".
DecideWakesTheRun ==
    [][Decide /\ run.engine = "approval" => run'.engine = "invoke"]_vars

============================================================================
