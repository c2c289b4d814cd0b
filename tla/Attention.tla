----------------------------- MODULE Attention -----------------------------
(***************************************************************************)
(* The attention items of one delegated outcome: raised and closed by the  *)
(* transaction that moves the outcome (attention/outcome-producer.ts),     *)
(* closed, snoozed and reopened by the owner (attention/service.ts), swept *)
(* and pushed again by the five-minute liveness tick                       *)
(* (workflow/attention-workflows.ts, attention/delivery.ts).               *)
(*                                                                         *)
(* An outcome holds at most one condition at a time: parked with the owner *)
(* ("ready"), blocked, failed. Each condition has one item row. The push   *)
(* is a projection of the item: it is queued after the transaction has     *)
(* committed, may be lost there, and is stamped on the item only when the  *)
(* delivery route reports it. The hour and the age of the last push are    *)
(* not tracked: where the code reads them either reading is possible.      *)
(***************************************************************************)
EXTENDS Naturals, FiniteSets, OutcomeStatus

CONSTANTS
    Reached,    \* statuses the outcome takes
    Ticks,      \* concurrent executions of the liveness workflow
    MaxMoves,   \* outcome transitions
    MaxQueue,   \* undelivered notifications of one item
    MaxUpsets   \* owner requests, enqueues that fail, processes that die, ticks
                \* in quiet hours, kill switches thrown, retention periods that
                \* end, in all; what reverts one of them is free

ASSUME AttentionAssumption ==
    /\ Reached \subseteq Statuses /\ IsFiniteSet(Ticks)
    /\ MaxMoves \in Nat /\ MaxQueue \in Nat \ {0} /\ MaxUpsets \in Nat

VARIABLES
    outcome,    \* the outcome's status
    item,       \* the attention_items row of each condition
    pending,    \* pushes owed by processes that have committed a transition
    queue,      \* approved and unexpired notifications of each item
    tick,       \* where each liveness tick is
    todo,       \* the rows its SELECT returned and it has not handled yet
    verdict,    \* the row it holds between a read and the write it leads to
    enabled,    \* policy.yaml attention.enabled, which every tick reads
    loaded,     \* the producer's copy, read once per process
    produced,   \* whether the last transition ran its producer
    moves,      \* transitions made
    upsets      \* upsets so far

ticks == <<tick, todo, verdict>>
policy == <<enabled, loaded, produced>>
vars == <<outcome, item, pending, queue, ticks, policy, moves, upsets>>

Conditions == {"ready", "blocked", "failed"}
NoItem == "none"
LiveStates == {"open", "seen", "snoozed"}
Closed == {"resolved", "dismissed"}

\* State, who closed it, snoozed_until as the clock sees it, whether it was pushed.
NoRow == [state |-> "none", by |-> "nobody", until |-> "null", pushed |-> FALSE]

Live(c) == item[c].state \in LiveStates

\* The condition an outcome status holds, if any (PRODUCED_KINDS).
Held(st) == CASE st = "waiting_user" -> "ready"
              [] st = "blocked"      -> "blocked"
              [] st = "failed"       -> "failed"
              [] OTHER               -> NoItem

Upset == upsets < MaxUpsets /\ upsets' = upsets + 1

----------------------------------------------------------------------------
(* The salience ladder *)

Snoozing(it) == it.state = "snoozed" /\ it.until = "ahead"

\* Whether the ladder lets an item through at an hour, so long after its last
\* push. Outcome items are of level inbox and carry no safety class, so no gate
\* is bypassed, and every occurrence of theirs counts as changed.
Deliver(it, quiet, cooled) ==
    /\ ~Snoozing(it)
    /\ ~quiet
    /\ it.pushed => cooled

----------------------------------------------------------------------------
(* The producer: part of the transaction that moves the outcome *)

\* A close leaves snoozed_until as it was.
Close(it, by) == [it EXCEPT !.state = "resolved", !.by = by]

\* The conditions a status ends. Parking and blocking end one another; every
\* other status ends whatever the outcome still holds.
Ends(to, c) == CASE to = "blocked"      -> c = "ready"
                 [] to = "waiting_user" -> c = "blocked"
                 [] OTHER               -> TRUE

Closing(to, its) ==
    [c \in Conditions |-> IF its[c].state \in LiveStates /\ Ends(to, c)
                          THEN Close(its[c], "producer") ELSE its[c]]

\* openOrBumpOrReopen. A live row is bumped, and a snoozed one wakes: the
\* occurrence identity carries the time of the transition, so it differs.
Woken(it) ==
    IF it.state = "snoozed" THEN [it EXCEPT !.state = "open", !.until = "null"] ELSE it

Raised(it) ==
    IF it.state \in LiveStates THEN Woken(it)
    ELSE [it EXCEPT !.state = "open", !.by = "nobody", !.until = "null"]

Raising(to, its) ==
    IF Held(to) = NoItem THEN its ELSE [its EXCEPT ![Held(to)] = Raised(@)]

\* A first or renewed item is news, pushed whatever the hour; a bump asks the
\* ladder about the row as it is after waking.
PushNow(it, quiet, cooled) == it.state \in LiveStates => Deliver(Woken(it), quiet, cooled)

\* Fault: the new item is raised before the old ones are closed.
Produced_RaiseFirst(to) == Closing(to, Raising(to, item))

\* What the producer leaves behind: the conditions that ended are closed first.
Produced(to) == Raising(to, Closing(to, item))

\* transitionOutcome: the status, the closed items and the raised one commit
\* together; the push is still owed.
Move(to) ==
    /\ moves < MaxMoves /\ moves' = moves + 1
    /\ to \in LegalNext[outcome] \cap Reached
    /\ outcome' = to
    /\ produced' = loaded
    /\ item' = IF loaded THEN Produced(to) ELSE item
    /\ \E quiet, cooled \in BOOLEAN :
          pending' = IF /\ loaded /\ Held(to) # NoItem
                        /\ PushNow(Closing(to, item)[Held(to)], quiet, cooled)
                     THEN [pending EXCEPT ![Held(to)] = @ + 1] ELSE pending
    /\ UNCHANGED <<queue, ticks, enabled, loaded, upsets>>

\* deliverOutcomeAttentionNow: the notification is queued after the commit.
Enqueue(c) ==
    /\ pending[c] > 0 /\ queue[c] < MaxQueue
    /\ pending' = [pending EXCEPT ![c] = @ - 1]
    /\ queue' = [queue EXCEPT ![c] = @ + 1]
    /\ UNCHANGED <<outcome, item, ticks, policy, moves, upsets>>

\* The enqueue throws and is swallowed, or the process dies before it.
EnqueueLost(c) ==
    /\ pending[c] > 0 /\ Upset
    /\ pending' = [pending EXCEPT ![c] = @ - 1]
    /\ UNCHANGED <<outcome, item, queue, ticks, policy, moves>>

----------------------------------------------------------------------------
(* The edge: a queued notification is reported delivered, or expires *)

Leaves(c) == queue[c] > 0 /\ queue' = [queue EXCEPT ![c] = @ - 1]

Report(c) ==
    /\ Leaves(c)
    /\ item' = [item EXCEPT ![c].pushed = TRUE]
    /\ UNCHANGED <<outcome, pending, ticks, policy, moves, upsets>>

\* The row's TTL passes; or it is delivered and the route dies after marking
\* the notification and before stamping the item.
Expire(c) ==
    /\ Leaves(c)
    /\ UNCHANGED <<outcome, item, pending, ticks, policy, moves, upsets>>

----------------------------------------------------------------------------
(* The owner *)

Write(c, it) ==
    /\ item' = [item EXCEPT ![c] = it]
    /\ UNCHANGED <<outcome, queue, pending, ticks, policy, moves>>

Ask(c, it) == Upset /\ Write(c, it)

See(c) == item[c].state = "open" /\ Ask(c, [item[c] EXCEPT !.state = "seen"])

Resolve(c) == Live(c) /\ Ask(c, Close(item[c], "owner"))

Dismiss(c) ==
    Live(c) /\ Ask(c, [item[c] EXCEPT !.state = "dismissed", !.by = "owner"])

Snooze(c) == Live(c) /\ Ask(c, [item[c] EXCEPT !.state = "snoozed", !.until = "ahead"])

\* reopenAttentionByOwner, within the day after the close; it pushes nothing.
Undo(c) ==
    /\ item[c].state \in Closed /\ item[c].by = "owner"
    /\ Write(c, [item[c] EXCEPT !.state = "open", !.by = "nobody"])
    /\ UNCHANGED upsets

SnoozeRunsOut(c) ==
    /\ item[c].until = "ahead"
    /\ item' = [item EXCEPT ![c].until = "past"]
    /\ UNCHANGED <<outcome, queue, pending, ticks, policy, moves, upsets>>

\* An edit of policy.yaml reaches the next tick, and the producer when its
\* process restarts.
Toggle ==
    /\ enabled' = ~enabled
    /\ IF enabled THEN Upset ELSE UNCHANGED upsets
    /\ UNCHANGED <<outcome, item, pending, queue, ticks, loaded, produced, moves>>

Restart ==
    /\ loaded # enabled /\ loaded' = enabled
    /\ UNCHANGED <<outcome, item, pending, queue, ticks, enabled, produced, moves, upsets>>

----------------------------------------------------------------------------
(* The liveness tick: wake, sweep, collect, push again *)

At(t, l) == tick[t] = l
Goto(t, l) == tick' = [tick EXCEPT ![t] = l]
Keep(t, c) == verdict' = [verdict EXCEPT ![t] = c]
Drop(t, c) == todo' = [todo EXCEPT ![t] = @ \ {c}]

\* Fault: the wake looks at the time alone, and a missing time fails open.
Wake_AnyState ==
    [c \in Conditions |-> IF item[c].state # "none" /\ item[c].until # "ahead"
                          THEN [item[c] EXCEPT !.state = "open", !.until = "null"]
                          ELSE item[c]]

\* Fault: the wake looks at the state alone.
Wake_AnyTime == [c \in Conditions |-> Woken(item[c])]

Wake == [c \in Conditions |->
            IF item[c].state = "snoozed" /\ item[c].until = "past"
            THEN Woken(item[c]) ELSE item[c]]

\* Snoozes that have run out are woken, then the open and seen rows are listed.
StartSweep(t) ==
    /\ At(t, "idle") /\ enabled
    /\ Goto(t, "sweep")
    /\ item' = Wake
    /\ todo' = [todo EXCEPT ![t] = {c \in Conditions : Wake[c].state \in {"open", "seen"}}]
    /\ UNCHANGED <<outcome, queue, pending, verdict, policy, moves, upsets>>

\* Fault: a parked mission that moved on is taken for live.
Gone_BlockedOnly(c) == c = "blocked" /\ Held(outcome) # c

\* outcomeAttentionResolver; a failed item is the owner's to acknowledge.
Gone(c) == c \in {"ready", "blocked"} /\ Held(outcome) # c

\* The resolver reads the outcome of one listed row.
Check(t, c) ==
    /\ At(t, "sweep") /\ verdict[t] = NoItem /\ c \in todo[t]
    /\ Drop(t, c)
    /\ Keep(t, IF Gone(c) THEN c ELSE NoItem)
    /\ UNCHANGED <<outcome, item, queue, pending, tick, policy, moves, upsets>>

\* resolveAttentionBySource names the outcome and no fingerprint: every live
\* item of the outcome is closed, whichever condition was found gone.
CloseGone(t) ==
    /\ At(t, "sweep") /\ verdict[t] # NoItem
    /\ Keep(t, NoItem)
    /\ item' = [c \in Conditions |-> IF Live(c) THEN Close(item[c], "liveness") ELSE item[c]]
    /\ UNCHANGED <<outcome, queue, pending, tick, todo, policy, moves, upsets>>

\* Rows closed longer ago than the retention period are deleted; no
\* notification outlives that period.
Expendable(c) == item[c].state \in Closed /\ queue[c] = 0 /\ pending[c] = 0

Collect(old) == item' = [c \in Conditions |-> IF c \in old THEN NoRow ELSE item[c]]

\* Fault: an item the owner has looked at is not pushed again.
Undelivered_OpenOnly(c) ==
    item[c].state = "open" /\ ~item[c].pushed /\ queue[c] = 0

\* The rows of the retry's SELECT: a snooze that the owner's undo has kept on an
\* open row defers it too.
Undelivered(c) ==
    /\ Live(c) /\ item[c].until # "ahead"
    /\ item[c].state = "snoozed" => item[c].until = "past"
    /\ ~item[c].pushed
    /\ queue[c] = 0

\* The terminal rows are collected, and the retry begins.
EndSweep(t) ==
    /\ At(t, "sweep") /\ verdict[t] = NoItem /\ todo[t] = {}
    /\ Goto(t, "retry")
    /\ todo' = [todo EXCEPT ![t] = {c \in Conditions : Undelivered(c)}]
    /\ \/ UNCHANGED <<item, upsets>>
       \/ Upset /\ \E c \in Conditions : Expendable(c) /\ Collect({c})
    /\ UNCHANGED <<outcome, queue, pending, verdict, policy, moves>>

\* Outside 07:00 to 22:00 the tick ends with the sweep.
EndSweepAtNight(t) ==
    /\ At(t, "sweep") /\ verdict[t] = NoItem /\ todo[t] = {}
    /\ Upset
    /\ Goto(t, "idle")
    /\ UNCHANGED <<outcome, item, queue, pending, todo, verdict, policy, moves>>

\* The retry reads one listed row again and asks the ladder, at the hour the
\* tick began.
Reread(t, c) ==
    /\ At(t, "retry") /\ verdict[t] = NoItem /\ c \in todo[t]
    /\ Drop(t, c)
    /\ \E cooled \in BOOLEAN :
          Keep(t, IF Live(c) /\ Deliver(item[c], FALSE, cooled) THEN c ELSE NoItem)
    /\ UNCHANGED <<outcome, item, queue, pending, tick, policy, moves, upsets>>

\* notifyAttentionItem.
PushAgain(t) ==
    /\ At(t, "retry") /\ verdict[t] # NoItem
    /\ queue[verdict[t]] < MaxQueue
    /\ queue' = [queue EXCEPT ![verdict[t]] = @ + 1]
    /\ Keep(t, NoItem)
    /\ UNCHANGED <<outcome, item, pending, tick, todo, policy, moves, upsets>>

EndRetry(t) ==
    /\ At(t, "retry") /\ verdict[t] = NoItem /\ todo[t] = {}
    /\ Goto(t, "idle")
    /\ UNCHANGED <<outcome, item, queue, pending, todo, verdict, policy, moves, upsets>>

TickDies(t) ==
    /\ ~At(t, "idle") /\ Upset
    /\ Goto(t, "idle")
    /\ todo' = [todo EXCEPT ![t] = {}]
    /\ Keep(t, NoItem)
    /\ UNCHANGED <<outcome, item, queue, pending, policy, moves>>

----------------------------------------------------------------------------

\* The mission has just been parked with the owner.
Init ==
    /\ outcome = "waiting_user"
    /\ item = [[c \in Conditions |-> NoRow] EXCEPT !["ready"].state = "open"]
    /\ pending = [c \in Conditions |-> IF c = "ready" THEN 1 ELSE 0]
    /\ queue = [c \in Conditions |-> 0]
    /\ tick = [t \in Ticks |-> "idle"]
    /\ todo = [t \in Ticks |-> {}]
    /\ verdict = [t \in Ticks |-> NoItem]
    /\ enabled = TRUE /\ loaded = TRUE /\ produced = TRUE
    /\ moves = 0 /\ upsets = 0

OwnerActs ==
    \/ \E c \in Conditions : See(c) \/ Resolve(c) \/ Dismiss(c) \/ Snooze(c) \/ Undo(c)
    \/ Toggle \/ Restart

Working(t) ==
    \/ \E c \in Conditions : Check(t, c) \/ Reread(t, c)
    \/ CloseGone(t) \/ EndSweep(t) \/ EndSweepAtNight(t) \/ PushAgain(t) \/ EndRetry(t)

Next ==
    \/ \E to \in Statuses : Move(to)
    \/ \E c \in Conditions : \/ Enqueue(c) \/ EnqueueLost(c)
                             \/ Report(c) \/ Expire(c) \/ SnoozeRunsOut(c)
    \/ \E t \in Ticks : StartSweep(t) \/ Working(t) \/ TickDies(t)
    \/ OwnerActs

\* The engine starts a tick every five minutes and runs it to its end; snoozes
\* run out and notifications expire by the clock; a committed transition goes
\* on to its enqueue.
Fairness ==
    /\ \A t \in Ticks : WF_vars(StartSweep(t) \/ Working(t))
    /\ WF_vars(\E c \in Conditions : SnoozeRunsOut(c))
    /\ WF_vars(\E c \in Conditions : Enqueue(c) \/ Expire(c))

Spec == Init /\ [][Next]_vars /\ Fairness

----------------------------------------------------------------------------
(* Properties *)

TypeOK ==
    /\ outcome \in Statuses
    /\ item \in [Conditions -> [state : {"none"} \cup LiveStates \cup Closed,
                                by : {"nobody", "owner", "producer", "liveness"},
                                until : {"null", "ahead", "past"},
                                pushed : BOOLEAN]]
    /\ pending \in [Conditions -> 0..MaxMoves + 1]
    /\ queue \in [Conditions -> 0..MaxQueue]
    /\ tick \in [Ticks -> {"idle", "sweep", "retry"}]
    /\ todo \in [Ticks -> SUBSET Conditions]
    /\ verdict \in [Ticks -> Conditions \cup {NoItem}]
    /\ enabled \in BOOLEAN /\ loaded \in BOOLEAN /\ produced \in BOOLEAN
    /\ moves \in 0..MaxMoves /\ upsets \in 0..MaxUpsets

\* While the outcome is in a status, the item that status raised has not been
\* closed by its own producer: emitOutcomeAttention closes what ended before it
\* raises what began. The owner may close it, and so may a tick that found an
\* earlier condition gone.
HeldConditionStaysRaised ==
    produced /\ Held(outcome) # NoItem => item[Held(outcome)].by # "producer"

\* An item the owner closed comes back only by the owner's undo or by a new
\* occurrence; neither a snooze that runs out nor the tick brings it back. An item
\* the owner snoozed stays snoozed until its time, a new occurrence or its close.
OwnerAnswerStands ==
    [][\A c \in Conditions :
          /\ item[c].by = "owner" /\ Live(c)' => outcome' # outcome \/ Undo(c)
          /\ Snoozing(item[c]) /\ Live(c)' /\ ~Snoozing(item[c])'
                => outcome' # outcome \/ SnoozeRunsOut(c)]_vars

Unheard(c) == enabled /\ Live(c) /\ ~item[c].pushed /\ queue[c] = 0

\* A live item that was never pushed does not stay without a notification,
\* whatever enqueue, tick or report was lost on the way (delivery.ts: deferred,
\* not dropped).
NewsIsQueued == \A c \in Conditions : []<>~Unheard(c)

Stale(c) == enabled /\ Live(c) /\ c # "failed" /\ Held(outcome) # c

\* An item whose condition has ended does not stay on the owner's list, also
\* when the owner brought it back or the policy was off when it ended.
StaleItemsClose == \A c \in Conditions : []<>~Stale(c)

\* "The failed item never auto-resolves - owner ack only" (outcome-producer.ts).
FailedIsTheOwnersToClose == item["failed"].by \in {"nobody", "owner"}

============================================================================
