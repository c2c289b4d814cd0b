-------------------------- MODULE CalendarActions --------------------------
(***************************************************************************)
(* The one external effect the program has: an event on the owner's        *)
(* calendar (imessage/calendar-actions.ts over actions/action-service.ts). *)
(* A message proposes it, a second message confirms it by its code, and    *)
(* the confirming turn approves, prepares, obtains a grant, inserts the    *)
(* attempt, calls the provider and records what it saw.                    *)
(*                                                                         *)
(* Turns of one principal take an advisory lock held by a connection of    *)
(* its own, which the turn does not notice losing. A turn judges expiry    *)
(* and the day by the clock it read before it waited for the lock. Intents *)
(* are numbered in the order of their rows. The payload and its hash are   *)
(* left out: nothing writes a payload after the proposal.                  *)
(***************************************************************************)
EXTENDS Naturals, FiniteSets

CONSTANTS
    MaxIntents,     \* proposals made
    Principals,     \* paired people with a converse grant
    Sends,          \* the verbs that each of them is seen to send
    Turns,          \* concurrent inbound messages
    Tokens,         \* confirmation codes
    LastDay,        \* UTC days, from 0
    MaxProposals,   \* policy maxProposalsPerDay
    MaxDispatches,  \* policy maxDispatchesPerDay
    MaxUpsets       \* crashes, lost locks, lapsed grants, failed writes, midnights, in all

NoTurn == "no-turn"

ASSUME CalendarAssumption ==
    /\ {MaxIntents, LastDay, MaxProposals, MaxDispatches, MaxUpsets} \subseteq Nat
    /\ Sends \in [Principals -> SUBSET {"propose", "confirm", "cancel"}]
    /\ IsFiniteSet(Tokens) /\ Cardinality(Tokens) >= MaxIntents
    /\ IsFiniteSet(Turns) /\ NoTurn \notin Turns

Intents == 1..MaxIntents
Days == 0..LastDay

Bare == "bare"
NoToken == "no-token"
Nobody == "nobody"

VARIABLES
    intent,     \* the action_intents row
    attempt,    \* its newest action_attempts row
    events,     \* events the provider created for it
    flying,     \* requests that left and may still be served
    spilled,    \* intents whose first outcome write failed after the effect
    turn,       \* where each message's handler is
    lock,       \* who holds the advisory lock of each principal
    aged,       \* intents whose expiresAt has passed
    day,        \* the database's day
    losses,     \* locks lost
    upsets      \* upsets so far

rows == <<intent, attempt, spilled>>
provider == <<events, flying>>
clock == <<aged, day>>
vars == <<rows, provider, turn, lock, clock, losses, upsets>>

NoIntent == [status |-> "none", owner |-> Nobody, token |-> NoToken, born |-> 0]
NoAttempt == [outcome |-> "none", day |-> 0]
Idle == [pc |-> "idle", who |-> Nobody, verb |-> "propose", tok |-> NoToken,
         day |-> 0, stale |-> {}, i |-> 0, saw |-> "none", reply |-> "none"]

Status(i) == intent[i].status

\* intentByTokenHash: the newest row that ever carried the code, whatever its status.
Carriers(tok) == {i \in Intents : intent[i].token = tok}
Newest(tok) == CHOOSE i \in Carriers(tok) : \A j \in Carriers(tok) : j <= i

\* proposalsToday and dispatchesToday, from the start of the turn's day on.
ProposedSince(p, d) ==
    Cardinality({i \in Intents : intent[i].owner = p /\ intent[i].born >= d})
DispatchedSince(p, d) ==
    Cardinality({i \in Intents : /\ intent[i].owner = p
                                 /\ attempt[i].outcome # "none" /\ attempt[i].day >= d})

Upset == upsets < MaxUpsets /\ upsets' = upsets + 1

At(t, pc) == turn[t].pc = pc
Goto(t, pc) == turn' = [turn EXCEPT ![t].pc = pc]
\* What is kept of a handler that has answered: the intent whose effect its answer
\* speaks of, and whether it named a code.
Answered(h, text) ==
    [Idle EXCEPT !.pc = "done", !.reply = text,
                 !.i = IF text \in {"proposed", "denied", "already-used"} THEN 0 ELSE h.i,
                 !.tok = IF h.tok = Bare THEN Bare ELSE NoToken]
Reply(t, text) == turn' = [turn EXCEPT ![t] = Answered(@, text)]

\* An exception: the handler ends, the lock is released, nothing is said.
Release(t) == lock' = [p \in Principals |-> IF lock[p] = t THEN NoTurn ELSE lock[p]]
Throw(t) == turn' = [turn EXCEPT ![t] = Idle] /\ Release(t)

----------------------------------------------------------------------------
(* A message and its lock *)

Receive(t) ==
    /\ At(t, "idle")
    /\ \E p \in Principals : \E verb \in Sends[p],
                                 tok \in Tokens \cup {Bare, NoToken} :
         /\ verb = "propose" <=> tok = NoToken
         /\ turn' = [turn EXCEPT ![t] = [Idle EXCEPT !.pc = "waiting", !.who = p, !.verb = verb,
                           !.tok = tok, !.day = day,
                           !.stale = {i \in aged : tok \in {Bare, intent[i].token}}]]
    /\ UNCHANGED <<rows, provider, lock, clock, losses, upsets>>

TakeLock(t) ==
    /\ At(t, "waiting") /\ lock[turn[t].who] = NoTurn
    /\ lock' = [lock EXCEPT ![turn[t].who] = t]
    /\ Goto(t, CASE turn[t].verb = "propose" -> "count"
                 [] turn[t].tok = Bare       -> "sole"
                 [] OTHER                    -> "lookup")
    /\ UNCHANGED <<rows, provider, clock, losses, upsets>>

Finish(t) ==
    /\ At(t, "done")
    /\ Throw(t)
    /\ UNCHANGED <<rows, provider, clock, losses, upsets>>

\* A bare verb resolves the only live proposal, then looks up the empty code:
\* normalizeConfirmToken refuses it.
Sole(t) ==
    LET live == {i \in Intents : /\ Status(i) = "proposed" /\ intent[i].token # NoToken
                                 /\ i \notin turn[t].stale /\ intent[i].owner = turn[t].who}
    IN  /\ At(t, "sole")
        /\ Reply(t, CASE live = {}              -> "none"
                      [] Cardinality(live) = 1  -> "denied"
                      [] OTHER                  -> "ambiguous")
        /\ UNCHANGED <<rows, provider, lock, clock, losses, upsets>>

----------------------------------------------------------------------------
(* Propose *)

\* The bound: a row is left for every turn about to insert one.
RoomLeft ==
    Cardinality({i \in Intents : Status(i) = "none"}) > Cardinality({u \in Turns : At(u, "insert")})

CountProposals(t) ==
    /\ At(t, "count")
    /\ \/ Reply(t, "refused")      \* the policy gate, or a violation of the payload's rules
       \/ /\ ProposedSince(turn[t].who, turn[t].day) >= MaxProposals
          /\ Reply(t, "capped")
       \/ /\ ProposedSince(turn[t].who, turn[t].day) < MaxProposals
          /\ RoomLeft
          /\ turn' = [turn EXCEPT ![t].pc = "insert", ![t].day = 0]
    /\ UNCHANGED <<rows, provider, lock, clock, losses, upsets>>

InsertIntent(t) ==
    /\ At(t, "insert")
    /\ \E i \in Intents :
          /\ Status(i) = "none" /\ \A j \in 1..(i - 1) : Status(j) # "none"
          /\ intent' = [intent EXCEPT ![i] = [NoIntent EXCEPT !.status = "proposed",
                                                !.owner = turn[t].who, !.born = day]]
          /\ turn' = [turn EXCEPT ![t].pc = "mint", ![t].i = i]
    /\ UNCHANGED <<attempt, spilled, provider, lock, clock, losses, upsets>>

\* A code that a proposed intent carries is drawn again, and the index refuses
\* it. That the drawing ends in that refusal is left out.
Clash(tok) == Carriers(tok) # {} /\ Status(Newest(tok)) = "proposed"

MintToken(t) ==
    /\ At(t, "mint")
    /\ \E tok \in Tokens :
          /\ ~Clash(tok)
          /\ intent' = [intent EXCEPT ![turn[t].i].token = tok]
    /\ Reply(t, "proposed")
    /\ UNCHANGED <<attempt, spilled, provider, lock, clock, losses, upsets>>

----------------------------------------------------------------------------
(* Confirm and cancel *)

\* Fault: the proposal's owner is not compared with the sender.
Refusal_AnySender(t, i) ==
    CASE Status(i) = "cancelled"       -> "cancelled"
      [] Status(i) # "proposed"        -> "already-used"
      [] OTHER                         -> "none"

\* Why a turn may not act on a row, if it may not.
Refusal(t, i) ==
    CASE intent[i].owner # turn[t].who -> "denied"
      [] Status(i) = "cancelled"       -> "cancelled"
      [] Status(i) # "proposed"        -> "already-used"
      [] OTHER                         -> "none"

\* The outcome lane sees every code first, counts one that is not an outcome's as
\* a bad one and, with too many in an hour, refuses it itself: whether it does is
\* left open. An expired proposal goes to its cancellation, as does an
\* owner's cancel.
Lookup(t) ==
    /\ At(t, "lookup")
    /\ \/ Reply(t, "denied")
       \/ IF Carriers(turn[t].tok) = {} THEN Reply(t, "denied")
          ELSE LET i == Newest(turn[t].tok)
                   next == IF turn[t].verb = "cancel" \/ i \in turn[t].stale
                           THEN "look" ELSE "quota"
               IN  IF Refusal(t, i) = "none"
                   THEN turn' = [turn EXCEPT ![t].i = i, ![t].pc = next]
                   ELSE turn' = [turn EXCEPT ![t] = Answered([@ EXCEPT !.i = i], Refusal(t, i))]
    /\ UNCHANGED <<rows, provider, lock, clock, losses, upsets>>

\* cancelIntent, its read: only a proposed or an approved intent is cancelled.
\* A confirming turn answers "expired" whether or not it could cancel.
CancelRead(t) ==
    LET i == turn[t].i IN
    /\ At(t, "look")
    /\ IF Status(i) \in {"proposed", "approved"}
       THEN turn' = [turn EXCEPT ![t].pc = "cancel", ![t].saw = Status(i)] /\ UNCHANGED lock
       ELSE IF turn[t].verb = "confirm" THEN Reply(t, "expired") /\ UNCHANGED lock ELSE Throw(t)
    /\ UNCHANGED <<rows, provider, clock, losses, upsets>>

\* Fault: the UPDATE of cancelIntent is not conditional on the status read.
CancelWrite_Blind(t) ==
    /\ At(t, "cancel")
    /\ intent' = [intent EXCEPT ![turn[t].i].status = "cancelled"]
    /\ Reply(t, IF turn[t].verb = "confirm" THEN "expired" ELSE "cancelled")
    /\ UNCHANGED <<attempt, spilled, provider, lock, clock, losses, upsets>>

\* cancelIntent, its write, conditional on the status it read.
CancelWrite(t) ==
    LET i == turn[t].i
        won == Status(i) = turn[t].saw
    IN  /\ At(t, "cancel")
        /\ intent' = IF won THEN [intent EXCEPT ![i].status = "cancelled"] ELSE intent
        /\ CASE turn[t].verb = "confirm" -> Reply(t, "expired") /\ UNCHANGED lock
             [] turn[t].verb = "cancel" /\ won -> Reply(t, "cancelled") /\ UNCHANGED lock
             [] OTHER -> Throw(t)
        /\ UNCHANGED <<attempt, spilled, provider, clock, losses, upsets>>

\* Fault: the day's dispatches are compared with the cap off by one.
CountDispatches_Extra(t) ==
    /\ At(t, "quota")
    /\ IF DispatchedSince(turn[t].who, turn[t].day) > MaxDispatches
       THEN Reply(t, "capped")
       ELSE turn' = [turn EXCEPT ![t].pc = "approve", ![t].day = 0]
    /\ UNCHANGED <<rows, provider, lock, clock, losses, upsets>>

CountDispatches(t) ==
    /\ At(t, "quota")
    /\ IF DispatchedSince(turn[t].who, turn[t].day) >= MaxDispatches
       THEN Reply(t, "capped")
       ELSE turn' = [turn EXCEPT ![t].pc = "approve", ![t].day = 0]
    /\ UNCHANGED <<rows, provider, lock, clock, losses, upsets>>

\* Fault: the UPDATE of approveIntent is not conditional on 'proposed'.
Approve_Blind(t) ==
    /\ At(t, "approve")
    /\ intent' = [intent EXCEPT ![turn[t].i].status = "approved"] /\ Goto(t, "prepare")
    /\ UNCHANGED <<attempt, spilled, provider, lock, clock, losses, upsets>>

\* proposed -> approved is the consumption of the code: one turn wins it.
Approve(t) ==
    LET i == turn[t].i IN
    /\ At(t, "approve")
    /\ IF Status(i) = "proposed"
       THEN intent' = [intent EXCEPT ![i].status = "approved"] /\ Goto(t, "prepare")
       ELSE UNCHANGED intent /\ Reply(t, "already-used")
    /\ UNCHANGED <<attempt, spilled, provider, lock, clock, losses, upsets>>

\* prepareIntent throws when an expiry cancelled the intent meanwhile.
Prepare(t) ==
    LET i == turn[t].i IN
    /\ At(t, "prepare")
    /\ IF Status(i) = "approved"
       THEN intent' = [intent EXCEPT ![i].status = "prepared"] /\ Goto(t, "attempt") /\ UNCHANGED lock
       ELSE UNCHANGED intent /\ Throw(t)
    /\ UNCHANGED <<attempt, spilled, provider, clock, losses, upsets>>

\* startAttempt up to the provider: a prepared intent, a grant that verifies, the
\* attempt's row. The grant's life is counted from the turn's clock, so a turn
\* that waited long enough finds it lapsed.
StartAttempt(t) ==
    LET i == turn[t].i IN
    /\ At(t, "attempt")
    /\ \/ /\ attempt' = [attempt EXCEPT ![i] = [outcome |-> "executing", day |-> day]]
          /\ Goto(t, "post") /\ UNCHANGED upsets
       \/ Upset /\ Reply(t, "grant-denied") /\ UNCHANGED attempt
    /\ UNCHANGED <<intent, spilled, provider, lock, clock, losses>>

\* The POST. An answer that does not come back says nothing of the effect, and
\* the request may be served later still; a 4xx says there was none.
Post(t) ==
    LET i == turn[t].i IN
    /\ At(t, "post")
    /\ \E got \in {"succeeded", "unknown", "failed"} :
          /\ turn' = [turn EXCEPT ![t].pc = "record", ![t].saw = got]
          /\ CASE got = "succeeded" -> events' = [events EXCEPT ![i] = @ + 1] /\ UNCHANGED flying
               [] got = "unknown"   -> flying' = flying \cup {i} /\ UNCHANGED events
               [] OTHER             -> UNCHANGED provider
    /\ UNCHANGED <<rows, lock, clock, losses, upsets>>

\* The provider serves a request whose answer is lost.
Serve(i) ==
    /\ i \in flying
    /\ flying' = flying \ {i}
    /\ events' = [events EXCEPT ![i] = @ + 1]
    /\ UNCHANGED <<rows, turn, lock, clock, losses, upsets>>

\* Fault: a lost answer is recorded as a failure.
Record_LostIsFailed(t) ==
    LET i == turn[t].i
        saw == IF turn[t].saw = "unknown" THEN "failed" ELSE turn[t].saw IN
    /\ At(t, "record") /\ attempt[i].outcome = "executing"
    /\ attempt' = [attempt EXCEPT ![i].outcome = saw]
    /\ Reply(t, saw) /\ UNCHANGED <<spilled, lock, upsets>>
    /\ UNCHANGED <<intent, provider, clock, losses>>

\* recordOutcome, executing -> what was seen. When the write after a success
\* fails, startAttempt's own catch records a failure; when another one fails,
\* the exception ends the turn and the attempt stays executing.
Record(t) ==
    LET i == turn[t].i IN
    /\ At(t, "record") /\ attempt[i].outcome = "executing"
    /\ \/ /\ attempt' = [attempt EXCEPT ![i].outcome = turn[t].saw]
          /\ Reply(t, turn[t].saw) /\ UNCHANGED <<spilled, lock, upsets>>
       \/ /\ Upset
          /\ IF turn[t].saw = "succeeded"
             THEN /\ attempt' = [attempt EXCEPT ![i].outcome = "failed"]
                  /\ spilled' = spilled \cup {i}
                  /\ Reply(t, "failed") /\ UNCHANGED lock
             ELSE Throw(t) /\ UNCHANGED <<attempt, spilled>>
    /\ UNCHANGED <<intent, provider, clock, losses>>

\* Fault: an attempt is reconciled without an event to point at.
Reconcile_Trusting(i) ==
    /\ attempt[i].outcome = "unknown"
    /\ attempt' = [attempt EXCEPT ![i].outcome = "reconciled"]
    /\ UNCHANGED <<intent, spilled, provider, turn, lock, clock, losses, upsets>>

\* reconcileCalendarAction: an event found under the attempt's key resolves it;
\* none found leaves it unknown.
Reconcile(i) ==
    /\ attempt[i].outcome = "unknown" /\ events[i] > 0
    /\ attempt' = [attempt EXCEPT ![i].outcome = "reconciled"]
    /\ UNCHANGED <<intent, spilled, provider, turn, lock, clock, losses, upsets>>

----------------------------------------------------------------------------
(* Time and failures *)

Age(i) ==
    /\ Status(i) = "proposed" /\ intent[i].token # NoToken /\ i \notin aged
    /\ aged' = aged \cup {i}
    /\ UNCHANGED <<rows, provider, turn, lock, day, losses, upsets>>

DayTurns ==
    /\ day < LastDay /\ Upset /\ day' = day + 1
    /\ UNCHANGED <<rows, provider, turn, lock, aged, losses>>

\* The process dies; a request already sent is not called back.
Crash(t) ==
    /\ ~At(t, "idle") /\ Upset
    /\ Throw(t)
    /\ flying' = IF At(t, "post") THEN flying \cup {turn[t].i} ELSE flying
    /\ UNCHANGED <<rows, events, clock, losses>>

\* The lock's connection is lost; the turn goes on through the pool.
LoseLock(p) ==
    /\ lock[p] # NoTurn /\ Upset
    /\ lock' = [lock EXCEPT ![p] = NoTurn]
    /\ losses' = losses + 1
    /\ UNCHANGED <<rows, provider, turn, clock>>

----------------------------------------------------------------------------
Init ==
    /\ intent = [i \in Intents |-> NoIntent] /\ attempt = [i \in Intents |-> NoAttempt]
    /\ events = [i \in Intents |-> 0] /\ flying = {} /\ spilled = {}
    /\ turn = [t \in Turns |-> Idle] /\ lock = [p \in Principals |-> NoTurn]
    /\ aged = {} /\ day = 0 /\ losses = 0 /\ upsets = 0

TurnNext(t) ==
    \/ Receive(t) \/ TakeLock(t) \/ Finish(t) \/ Sole(t)
    \/ CountProposals(t) \/ InsertIntent(t) \/ MintToken(t)
    \/ Lookup(t) \/ CancelRead(t) \/ CancelWrite(t) \/ CountDispatches(t)
    \/ Approve(t) \/ Prepare(t) \/ StartAttempt(t) \/ Post(t) \/ Record(t)
    \/ Crash(t)

Next ==
    \/ \E t \in Turns : TurnNext(t)
    \/ \E i \in Intents : Serve(i) \/ Reconcile(i) \/ Age(i)
    \/ \E p \in Principals : LoseLock(p)
    \/ DayTurns

Spec == Init /\ [][Next]_vars

----------------------------------------------------------------------------
(* Properties *)

\* The rows and the turns hold values of their columns, and an attempt belongs
\* to a prepared intent (action_intents and action_attempts, migrations/001 and
\* 002).
TypeOK ==
    /\ intent \in [Intents -> [status : {"none", "proposed", "approved", "prepared", "cancelled"},
                               owner : Principals \cup {Nobody},
                               token : Tokens \cup {NoToken}, born : Days]]
    /\ attempt \in [Intents -> [outcome : {"none", "executing", "succeeded", "failed",
                                           "unknown", "reconciled"}, day : Days]]
    /\ events \in [Intents -> Nat] /\ flying \subseteq Intents /\ spilled \subseteq Intents
    /\ lock \in [Principals -> Turns \cup {NoTurn}]
    /\ aged \subseteq Intents /\ day \in Days
    /\ upsets \in 0..MaxUpsets /\ losses \in 0..upsets
    /\ \A i \in Intents : attempt[i].outcome # "none" => Status(i) = "prepared"

\* One confirmation is worth one event, whatever the retries of the owner, the
\* locks lost and the processes that die: the key's request is sent once
\* (confirmIntentRow's single-use consumption over startAttempt).
AtMostOneEvent ==
    \A i \in Intents : events[i] + (IF i \in flying THEN 1 ELSE 0) <= 1

\* The request leaves for the calendar only from a turn of the person the
\* proposal was made to, who sent the code it was shown under before it expired
\* (confirmCalendarAction).
EffectHasConsent ==
    [][\A i \in Intents :
         (attempt[i].outcome = "none" /\ attempt'[i].outcome # "none") =>
            \E t \in Turns : /\ At(t, "attempt") /\ turn[t].i = i
                             /\ turn[t].verb = "confirm" /\ turn[t].tok = intent[i].token
                             /\ turn[t].who = intent[i].owner /\ i \notin turn[t].stale]_vars

\* An outcome that names an event has one, and a failure means there is none,
\* unless the write of the success itself failed (recordOutcome,
\* reconcileAttempt; calendar-actions.ts "Nothing was changed").
OutcomesAreHonest ==
    \A i \in Intents :
        /\ attempt[i].outcome \in {"succeeded", "reconciled"} => events[i] = 1
        /\ attempt[i].outcome = "failed" => i \in spilled \/ (events[i] = 0 /\ i \notin flying)

\* What a turn tells the owner is so: "created" when it was, "nothing was
\* created" when nothing was and nothing on its way will be. A turn that shares
\* its principal with another one, having lost the lock, may call expired or
\* capped what the other one creates (replyForAttempt and confirmIntentRow).
RepliesAreHonest ==
    \A t \in Turns : At(t, "done") =>
        LET i == turn[t].i
            nothing == events[i] = 0 /\ i \notin flying
        IN  /\ turn[t].reply = "succeeded" => events[i] = 1
            /\ turn[t].reply = "failed" => nothing \/ i \in spilled
            /\ turn[t].reply \in {"cancelled", "grant-denied"} => nothing
            /\ turn[t].reply \in {"expired", "capped"} /\ i # 0 /\ losses = 0 => nothing

\* A principal's dispatches of a day stay within the cap, but for one more with
\* each lock lost between the count and the attempt (dispatchesToday).
DispatchOvershoot ==
    \A p \in Principals, d \in Days :
        Cardinality({i \in Intents : /\ intent[i].owner = p
                                     /\ attempt[i].outcome # "none" /\ attempt[i].day = d})
            <= MaxDispatches + losses

\* What a proposal is for the person it was made to: open until it is cancelled,
\* fails or succeeds; an effect whose record failed has lapsed.
StandingOf(i) ==
    CASE attempt[i].outcome \in {"executing", "unknown"}      -> "open"
      [] attempt[i].outcome \in {"succeeded", "reconciled"}   -> "delivered"
      [] attempt[i].outcome = "failed" /\ i \in spilled       -> "lapsed"
      [] attempt[i].outcome = "failed" /\ i \notin spilled    -> "refused"
      [] attempt[i].outcome = "none" /\ Status(i) = "none"      -> "absent"
      [] attempt[i].outcome = "none" /\ Status(i) = "cancelled" -> "refused"
      [] OTHER                                                -> "open"

Channel == INSTANCE OneShotChannel WITH
    Notes <- Intents,
    phase <- [i \in Intents |-> StandingOf(i)],
    control <- {},
    handed <- events

\* The proposals, their codes and their attempts, seen through StandingOf, are a
\* one-shot channel: one event each, none after a refusal, no success recorded
\* without it, and the first outcome is final (calendar-actions.ts,
\* action-service.ts).
ImplementsOneShotChannel == Channel!ChannelSpec

\* The claim of conversation.ts:956-957, "bare verbs resolve the SOLE live
\* proposal for this principal": a bare verb with exactly one of them waiting is
\* not refused.
BareVerbResolves ==
    \A t \in Turns : At(t, "done") /\ turn[t].tok = Bare => turn[t].reply # "denied"

=============================================================================
