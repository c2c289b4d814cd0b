------------------------------ MODULE Reminders ------------------------------
(***************************************************************************)
(* Reminders: the promises the owner captures and answers in conversation  *)
(* (imessage/operations.ts, imessage/conversation.ts), their schedule      *)
(* (reminders/lifecycle.ts), their guarded writes (reminders/queries.ts)   *)
(* and the sweep that texts what is due (workflow/reminder-workflows.ts).  *)
(*                                                                         *)
(* Time is a civil day and an hour of it in the policy's zone; the clock   *)
(* stands at a few hours of each day. The ten minutes of the first-touch   *)
(* fallback are one hour. Ticks may overlap (a step is retried, a cron run *)
(* is late); turns of the principal are serialised by the turn lock. The   *)
(* sweep takes no lock the turn takes.                                     *)
(***************************************************************************)
EXTENDS Integers, FiniteSets

CONSTANTS
    Reminders,      \* reminders that can be captured
    Ticks,          \* executions of the sweep that can overlap
    ClockHours,     \* hours of a day at which something happens
    DueHours,       \* clock times the owner asks for
    LastDay,        \* the clock stops after this day
    WorkdayStart, ProbeTime, ProbeOffset, ProbeLatest, QuietStart, QuietEnd,
    NudgeCap,       \* REMINDER_POLICY
    MaxTurns,       \* turns of the principal
    MaxUpsets       \* processes that die

\* REMINDER_POLICY's hours are those of a waking day, in this order; the probe
\* offset is less than a day.
ASSUME RemindersAssumption ==
    /\ IsFiniteSet(Reminders) /\ IsFiniteSet(Ticks)
    /\ ClockHours \subseteq 0..23 /\ DueHours \subseteq 0..23
    /\ LastDay \in Nat /\ MaxUpsets \in Nat /\ MaxTurns \in Nat /\ NudgeCap \in Nat \ {0}
    /\ WorkdayStart \in Nat /\ ProbeTime \in Nat /\ ProbeLatest \in Nat
    /\ QuietStart \in 0..23 /\ QuietEnd \in 0..23 /\ ProbeOffset \in 1..23
    /\ QuietEnd <= WorkdayStart /\ WorkdayStart <= ProbeTime
    /\ ProbeTime <= ProbeLatest /\ ProbeLatest < QuietStart

VARIABLES
    now,        \* the clock
    row,        \* reminders
    todo,       \* status of the commitment written with each reminder
    tick,       \* where each sweep is, and the row it holds
    listed,     \* rows its SELECT returned and it has not handled yet
    turn,       \* where the principal's turn is
    probe,      \* pendingProbe of the active thread
    touches,    \* touches claimed since the promise was last made
    stranded,   \* reminders whose sweep died between its claim and its park
    torn,       \* reminders whose turn died between its two writes
    turns, upsets

reminderVars == <<now, row, todo, tick, listed, turn, probe, touches, stranded, torn, turns, upsets>>

None == "none"
TouchKinds == {"morning", "probe", "nudge"}
Verbs == {"done", "stop", "not_done", "renegotiate"}
At(d, h) == [day |-> d, hour |-> h]

Instants == [day : Nat, hour : 0..23]
NoHour == 24
Never == At(0, NoHour)

Before(a, b) == a.day < b.day \/ (a.day = b.day /\ a.hour < b.hour)

----------------------------------------------------------------------------
(* The schedule *)

IsQuietHour(h) == h >= QuietStart \/ h < QuietEnd

NextWorkday(t) == At(t.day + 1, WorkdayStart)

Later(t, hours) ==
    IF t.hour + hours < 24 THEN At(t.day, t.hour + hours)
                           ELSE At(t.day + 1, t.hour + hours - 24)

\* With no clock time the touch is the workday start, or that day's probe time,
\* or soon, whichever still lies ahead.
FirstCandidate(d, h, t) ==
    CASE h # NoHour                        -> At(d, h)
      [] h = NoHour /\ Before(t, At(d, WorkdayStart)) -> At(d, WorkdayStart)
      [] h = NoHour /\ ~Before(t, At(d, WorkdayStart)) /\ Before(t, At(d, ProbeTime)) ->
            At(d, ProbeTime)
      [] OTHER                             -> Later(t, 1)

ComputeFirstTouch(d, h, t) ==
    LET c == FirstCandidate(d, h, t) IN
    IF IsQuietHour(c.hour) THEN NextWorkday(c) ELSE c

\* A clock time already past is asked of the next day instead.
RolledDay(d, h, t) ==
    IF h # NoHour /\ ~Before(t, ComputeFirstTouch(d, h, t)) THEN t.day + 1 ELSE d

FirstTouch(d, h, t) == ComputeFirstTouch(RolledDay(d, h, t), h, t)

\* The probe of a touch sent after the probe time.
LateProbe(at) ==
    LET o == Later(at, ProbeOffset)
        c == IF o.hour > ProbeLatest THEN At(o.day, ProbeLatest) ELSE o
    IN  IF c.day # at.day \/ ~Before(at, c) THEN NextWorkday(at) ELSE c

\* What follows an unanswered touch; nothing follows the last nudge.
ScheduleAfterTouch(kind, at, esc) ==
    CASE kind = "morning" ->
            [at |-> IF at.hour <= ProbeTime THEN At(at.day, ProbeTime) ELSE LateProbe(at),
             kind |-> "probe"]
      [] kind = "probe" \/ (kind = "nudge" /\ esc < NudgeCap - 1) ->
            [at |-> NextWorkday(at), kind |-> "nudge"]
      [] OTHER -> [at |-> Never, kind |-> None]

----------------------------------------------------------------------------
NoRow == [status |-> "none", at |-> Never, kind |-> None, esc |-> 0]
IdleTick == [pc |-> "idle", held |-> None, kind |-> None]
Looping == [IdleTick EXCEPT !.pc = "loop"]
Onward(rest) == IF rest = {} THEN IdleTick ELSE Looping
IdleTurn == [pc |-> "idle", r |-> None, verb |-> None, at |-> Never, lane |-> None]
NoTouches == [k \in TouchKinds |-> 0]

Armed(r) == row[r].status = "armed"
DueNow(r, t) == Armed(r) /\ row[r].at # Never /\ ~Before(t, row[r].at)

RemindersInit ==
    /\ \E h \in ClockHours : now = At(0, h) /\ \A g \in ClockHours : h <= g
    /\ row = [r \in Reminders |-> NoRow]
    /\ todo = [r \in Reminders |-> None]
    /\ tick = [t \in Ticks |-> IdleTick]
    /\ listed = [t \in Ticks |-> {}]
    /\ turn = IdleTurn
    /\ probe = None
    /\ touches = [r \in Reminders |-> NoTouches]
    /\ stranded = {} /\ torn = {} /\ turns = 0 /\ upsets = 0

\* The clock moves to the next hour of the day, or to the first of the next day.
NextStop(t) ==
    {u \in [day : {t.day, t.day + 1}, hour : ClockHours] :
        /\ Before(t, u)
        /\ \A h \in ClockHours : ~(Before(t, At(u.day, h)) /\ Before(At(u.day, h), u))
        /\ u.day # t.day => \A h \in ClockHours : h <= t.hour}

\* A turn lasts minutes: its model calls have a timeout of a minute and at most
\* three attempts. No touch falls in the quiet hours before midnight, so a new
\* promise is written on the day it names at the latest.
TurnIsOverBy(t) == turn.pc = "write" /\ turn.verb = "renegotiate" => t.day <= turn.at.day

Clock ==
    /\ now' \in NextStop(now) /\ now'.day <= LastDay /\ TurnIsOverBy(now')
    /\ UNCHANGED <<row, todo, tick, listed, turn, probe, touches, stranded, torn, turns, upsets>>

----------------------------------------------------------------------------
(* The principal's turn *)

TurnStarts == turn.pc = "idle" /\ turns < MaxTurns /\ turns' = turns + 1

\* A request to be reminded: the commitment is written first. The conversation
\* lane goes on without one when that write is refused, the operation lane fails.
Capture(r, d, h, lane, written) ==
    /\ TurnStarts /\ row[r].status = "none" /\ todo[r] = None
    /\ lane = "operation" => written
    /\ todo' = IF written THEN [todo EXCEPT ![r] = "open"] ELSE todo
    /\ turn' = [pc |-> "arm", r |-> r, verb |-> None, at |-> FirstTouch(d, h, now),
                lane |-> None]
    /\ UNCHANGED <<now, row, tick, listed, probe, touches, stranded, torn, upsets>>

\* createReminder
Arm ==
    /\ turn.pc = "arm"
    /\ row' = [row EXCEPT ![turn.r] = [status |-> "armed", at |-> turn.at,
                                       kind |-> "morning", esc |-> 0]]
    /\ turn' = IdleTurn
    /\ UNCHANGED <<now, todo, tick, listed, probe, touches, stranded, torn, turns, upsets>>

\* An answer names the probed reminder in the conversation lane, and any armed
\* one in the operation lane. The row is read here; the times of a new promise
\* are worked out from the turn's own clock.
Reply(r, verb, d, h, lane) ==
    /\ TurnStarts
    /\ lane = "conversation" => probe = r
    /\ IF Armed(r)
       THEN turn' = [pc |-> IF verb = "not_done" THEN "clear" ELSE "write", r |-> r,
                     verb |-> verb, lane |-> lane,
                     at |-> IF verb = "renegotiate" THEN FirstTouch(d, h, now) ELSE Never]
       ELSE /\ lane = "conversation"
            /\ turn' = [IdleTurn EXCEPT !.pc = "clear", !.lane = lane]
    /\ UNCHANGED <<now, row, todo, tick, listed, probe, touches, stranded, torn, upsets>>

Closed(r, status) == [row[r] EXCEPT !.status = status, !.at = Never, !.kind = None]

\* What completeReminder, cancelReminder and renegotiateReminder leave.
Answered(r) ==
    CASE turn.verb = "done" -> Closed(r, "completed")
      [] turn.verb = "stop" -> Closed(r, "cancelled")
      [] OTHER -> [status |-> "armed", at |-> turn.at, kind |-> "morning", esc |-> 0]

AfterWrite(r) ==
    CASE turn.verb # "stop" /\ todo[r] # None -> [turn EXCEPT !.pc = "todo"]
      [] OTHER                                -> [turn EXCEPT !.pc = "clear"]

\* Fault: the write of a reply does not ask whether the row is still armed.
Write_Blind ==
    /\ turn.pc = "write"
    /\ row' = [row EXCEPT ![turn.r] = Answered(turn.r)]
    /\ touches' = IF turn.verb = "renegotiate"
                  THEN [touches EXCEPT ![turn.r] = NoTouches] ELSE touches
    /\ turn' = AfterWrite(turn.r)
    /\ UNCHANGED <<now, todo, tick, listed, probe, stranded, torn, turns, upsets>>

\* The guarded write; a row that left 'armed' makes it throw and ends the turn.
Write ==
    LET r == turn.r IN
    /\ turn.pc = "write"
    /\ IF Armed(r)
       THEN /\ row' = [row EXCEPT ![r] = Answered(r)]
            /\ touches' = IF turn.verb = "renegotiate"
                          THEN [touches EXCEPT ![r] = NoTouches] ELSE touches
            /\ turn' = AfterWrite(r)
       ELSE turn' = IdleTurn /\ UNCHANGED <<row, touches>>
    /\ UNCHANGED <<now, todo, tick, listed, probe, stranded, torn, turns, upsets>>

Settled(verb) == IF verb = "done" THEN "met" ELSE "renegotiated"

\* applyCommitmentTransition: open, or left as it is.
Transition ==
    /\ turn.pc = "todo"
    /\ todo' = [todo EXCEPT ![turn.r] = IF @ = "open" THEN Settled(turn.verb) ELSE @]
    /\ turn' = [turn EXCEPT !.pc = "clear"]
    /\ UNCHANGED <<now, row, tick, listed, probe, touches, stranded, torn, turns, upsets>>

\* setThreadPendingProbe(null), in the conversation lane only.
ClearProbe ==
    /\ turn.pc = "clear"
    /\ probe' = IF turn.lane = "conversation" THEN None ELSE probe
    /\ turn' = IdleTurn
    /\ UNCHANGED <<now, row, todo, tick, listed, touches, stranded, torn, turns, upsets>>

\* The commitment's own verbs close it in another turn; the reminder is not told.
CloseTodo(r, status) ==
    /\ TurnStarts /\ todo[r] = "open"
    /\ todo' = [todo EXCEPT ![r] = status]
    /\ UNCHANGED <<now, row, tick, listed, turn, probe, touches, stranded, torn, upsets>>

TurnDies ==
    /\ turn.pc # "idle" /\ upsets < MaxUpsets
    /\ upsets' = upsets + 1
    /\ torn' = IF turn.pc = "todo" THEN torn \cup {turn.r} ELSE torn
    /\ turn' = IdleTurn
    /\ UNCHANGED <<now, row, todo, tick, listed, probe, touches, stranded, turns>>

----------------------------------------------------------------------------
(* The sweep *)

\* A row of the list, with the time the tick read at its start.
Snap(r) == [r |-> r, at |-> row[r].at, kind |-> row[r].kind, esc |-> row[r].esc, now |-> now]

\* dueTouches. In quiet hours every row is skipped.
DueTouches(t) ==
    /\ tick[t].pc = "idle" /\ ~IsQuietHour(now.hour)
    /\ \E r \in Reminders : DueNow(r, now)
    /\ listed' = [listed EXCEPT ![t] = {Snap(r) : r \in {s \in Reminders : DueNow(s, now)}}]
    /\ tick' = [tick EXCEPT ![t] = Looping]
    /\ UNCHANGED <<now, row, todo, turn, probe, touches, stranded, torn, turns, upsets>>

\* Fault: the claim checks the status alone, as recordTouch does.
ClaimableTouch_ArmedOnly(snap) == Armed(snap.r)

\* The compare-and-set of the claim; the fresh read before it asks the same.
ClaimableTouch(snap) == Armed(snap.r) /\ row[snap.r].at = snap.at

Claimed(snap, next) ==
    [row[snap.r] EXCEPT !.at = next.at, !.kind = next.kind,
                        !.esc = IF snap.kind = "nudge" THEN @ + 1 ELSE @]

Oldest(t, snap) == snap \in listed[t] /\ \A o \in listed[t] : ~Before(o.at, snap.at)

\* Fault: the cap is reached and the row is left as the claim made it.
Holding_NoPark(snap, next) == [pc |-> "send", held |-> snap.r, kind |-> snap.kind]

\* A claim with nothing after it parks the row before it texts.
Holding(snap, next) ==
    [pc |-> IF next.at = Never THEN "park" ELSE "send", held |-> snap.r, kind |-> snap.kind]

\* claimDueTouch, before anything is sent. A lost claim skips the row.
ClaimTouch(t, snap) ==
    LET next == ScheduleAfterTouch(snap.kind, snap.now, snap.esc) IN
    /\ tick[t].pc = "loop" /\ Oldest(t, snap)
    /\ listed' = [listed EXCEPT ![t] = @ \ {snap}]
    /\ IF ClaimableTouch(snap)
       THEN /\ row' = [row EXCEPT ![snap.r] = Claimed(snap, next)]
            /\ touches' = [touches EXCEPT ![snap.r][snap.kind] = @ + 1]
            /\ tick' = [tick EXCEPT ![t] = Holding(snap, next)]
       ELSE /\ tick' = [tick EXCEPT ![t] = Onward(listed'[t])]
            /\ UNCHANGED <<row, touches>>
    /\ UNCHANGED <<now, todo, turn, probe, stranded, torn, turns, upsets>>

\* parkReminder, a second statement. It throws on a row the owner has closed
\* since, which ends the tick; it parks a row the owner has moved since.
Park(t) ==
    LET r == tick[t].held IN
    /\ tick[t].pc = "park"
    /\ IF Armed(r)
       THEN /\ row' = [row EXCEPT ![r] = Closed(r, "parked")]
            /\ tick' = [tick EXCEPT ![t].pc = "send"] /\ UNCHANGED listed
       ELSE /\ tick' = [tick EXCEPT ![t] = IdleTick]
            /\ listed' = [listed EXCEPT ![t] = {}] /\ UNCHANGED row
    /\ UNCHANGED <<now, todo, turn, probe, touches, stranded, torn, turns, upsets>>

\* The audit row, the text queued as a brief, and for a question the probe
\* attached to the thread, which holds one: the last one asked.
SendTouch(t) ==
    /\ tick[t].pc = "send"
    /\ probe' = IF tick[t].kind = "morning" THEN probe ELSE tick[t].held
    /\ tick' = [tick EXCEPT ![t] = Onward(listed[t])]
    /\ UNCHANGED <<now, row, todo, listed, turn, touches, stranded, torn, turns, upsets>>

\* The worker dies, or a statement fails and the step is run again from the start.
TickDies(t) ==
    /\ tick[t].pc # "idle" /\ upsets < MaxUpsets
    /\ upsets' = upsets + 1
    /\ stranded' = IF tick[t].pc = "park" THEN stranded \cup {tick[t].held} ELSE stranded
    /\ tick' = [tick EXCEPT ![t] = IdleTick]
    /\ listed' = [listed EXCEPT ![t] = {}]
    /\ UNCHANGED <<now, row, todo, turn, probe, touches, torn, turns>>

----------------------------------------------------------------------------
Asked == DueHours \cup {NoHour}
Lanes == {"conversation", "operation"}

\* No due hour, or one of them, today or tomorrow.
CaptureSome(r) ==
    \E d \in {now.day, now.day + 1}, h \in Asked, lane \in Lanes, written \in BOOLEAN :
        Capture(r, d, h, lane, written)

ReplySome(r) ==
    \E d \in {now.day, now.day + 1}, h \in Asked, lane \in Lanes, verb \in Verbs :
        Reply(r, verb, d, h, lane)

TurnStep == Arm \/ Write \/ Transition \/ ClearProbe

TickStep(t) ==
    \/ DueTouches(t) \/ (\E snap \in listed[t] : ClaimTouch(t, snap))
    \/ Park(t) \/ SendTouch(t)

RemindersNext ==
    \/ Clock
    \/ \E r \in Reminders :
          \/ CaptureSome(r) \/ ReplySome(r)
          \/ \E s \in {"met", "renegotiated", "missed"} : CloseTodo(r, s)
    \/ TurnStep \/ TurnDies
    \/ \E t \in Ticks : TickStep(t) \/ TickDies(t)

RemindersSpec == RemindersInit /\ [][RemindersNext]_reminderVars

----------------------------------------------------------------------------
(* Properties *)

Rows == [status : {"none", "armed", "completed", "cancelled", "parked"},
         at : Instants \cup {Never}, kind : TouchKinds \cup {None}, esc : 0..NudgeCap]

Snaps == [r : Reminders, at : Instants, kind : TouchKinds, esc : 0..NudgeCap, now : Instants]

\* Every row has the shape the table's columns and checks allow: a touch that is
\* due has a kind, and no row has counted more nudges than the cap.
RemindersTypeOK ==
    /\ now \in Instants
    /\ row \in [Reminders -> Rows]
    /\ \A r \in Reminders : row[r].at = Never <=> row[r].kind = None
    /\ todo \in [Reminders -> {None, "open", "met", "renegotiated", "missed"}]
    /\ tick \in [Ticks -> [pc : {"idle", "loop", "park", "send"},
                           held : Reminders \cup {None}, kind : TouchKinds \cup {None}]]
    /\ listed \in [Ticks -> SUBSET Snaps]
    /\ turn \in [pc : {"idle", "arm", "write", "todo", "clear"}, r : Reminders \cup {None},
                 verb : Verbs \cup {None}, at : Instants \cup {Never}, lane : Lanes \cup {None}]
    /\ probe \in Reminders \cup {None}
    /\ touches \in [Reminders -> [TouchKinds -> Nat]]
    /\ stranded \subseteq Reminders /\ torn \subseteq Reminders
    /\ turns \in 0..MaxTurns /\ upsets \in 0..MaxUpsets

\* However ticks overlap and whenever the owner answers, one promise is followed
\* up by at most one probe and by at most NudgeCap nudges, and no touch is left
\* for a quiet hour: the claim is a compare-and-set on the touch it read.
FollowUpsAreBounded ==
    \A r \in Reminders :
        /\ touches[r]["probe"] <= 1
        /\ touches[r]["nudge"] <= NudgeCap
        /\ row[r].at # Never => ~IsQuietHour(row[r].at.hour)

\* An armed reminder has a touch ahead of it, so it cannot be forgotten, except
\* while the sweep stands between the claim of the last nudge and the park, and
\* for good when it dies there.
ArmedHasATouch ==
    \A r \in Reminders :
        Armed(r) /\ row[r].at = Never =>
            r \in stranded \/ \E t \in Ticks : tick[t].pc = "park" /\ tick[t].held = r

\* Between two promises a reminder only moves on, whatever lists the sweeps still
\* hold: a closed row stays as it was closed and is not touched, the next touch is
\* never earlier than the last one, and a reminder that is being nudged is neither
\* announced nor asked again (the 'armed' guard of every UPDATE, the claim).
PromisesOnlyMoveOn ==
    [][\A r \in Reminders :
         /\ row[r].status \in {"completed", "cancelled", "parked"} =>
               row'[r] = row[r] /\ touches'[r] = touches[r]
         /\ row'[r].kind \in {"probe", "nudge"} => ~Before(row'[r].at, row[r].at)
         /\ row[r].kind = "nudge" =>
               /\ row'[r].kind # "probe"
               /\ touches'[r]["morning"] <= touches[r]["morning"]
               /\ touches'[r]["probe"] <= touches[r]["probe"]]_reminderVars

\* queries.ts on the claim: an overlapping tick or a replayed step can never
\* double-send. A promise is announced once.
AnnouncedOnce == \A r \in Reminders : touches[r]["morning"] <= 1

\* cognitive-turn.ts tells the model that a reply to a check-in resolves it and
\* any linked to-do. A completed reminder's commitment has been met.
DoneMeetsTheTodo ==
    \A r \in Reminders :
        /\ row[r].status = "completed" /\ todo[r] # None /\ r \notin torn
        /\ turn.pc # "todo"
        => todo[r] \in {"met", "missed"}
=============================================================================
