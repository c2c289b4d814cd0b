--------------------------- MODULE AttentionProofs ---------------------------
(***************************************************************************)
(* The safety of an outcome's attention items, for every set of reachable  *)
(* statuses, every number of concurrent ticks and every bound.             *)
(*                                                                         *)
(* Neither property is inductive: both need that a live row has been       *)
(* closed by nobody, so that a row which is woken, seen, snoozed or bumped *)
(* does not carry the close of an earlier occurrence with it.              *)
(***************************************************************************)
EXTENDS Attention, TLAPS

\* Who closed a row is known of closed rows only.
LiveRowsAreUnclosed == \A c \in Conditions : Live(c) => item[c].by = "nobody"

\* A push is owed by a transition that was made.
PushesAreOwed == \A c \in Conditions : pending[c] <= moves + 1

IInv ==
    /\ TypeOK
    /\ LiveRowsAreUnclosed
    /\ PushesAreOwed
    /\ HeldConditionStaysRaised

Rows == [state : {"none"} \cup LiveStates \cup Closed,
         by : {"nobody", "owner", "producer", "liveness"},
         until : {"null", "ahead", "past"},
         pushed : BOOLEAN]

-----------------------------------------------------------------------------
(* What the operators do to a row *)

\* Closing a row and waking or raising one give rows again.
LEMMA RowOperators ==
    ASSUME NEW it \in Rows, NEW by \in {"nobody", "owner", "producer", "liveness"}
    PROVE  /\ Close(it, by) \in Rows
           /\ Woken(it) \in Rows
           /\ Raised(it) \in Rows
BY DEF Rows, Close, Woken, Raised, LiveStates, Closed

\* A raised row is live and closed by nobody, whatever it was before.
LEMMA RaisedIsUnclosed ==
    ASSUME NEW it \in Rows, it.state \in LiveStates => it.by = "nobody"
    PROVE  Raised(it).state \in LiveStates /\ Raised(it).by = "nobody"
BY DEF Rows, Raised, Woken, LiveStates

\* The producer: the row of the status that is entered is raised after the
\* closes, every other live row is closed by it or left alone.
LEMMA ProducedRows ==
    ASSUME TypeOK, LiveRowsAreUnclosed, NEW to \in Statuses
    PROVE  /\ Produced(to) \in [Conditions -> Rows]
           /\ \A c \in Conditions :
                 Produced(to)[c].state \in LiveStates => Produced(to)[c].by = "nobody"
           /\ Held(to) # NoItem => Produced(to)[Held(to)].by = "nobody"
<1> DEFINE its == Closing(to, item)
<1>0. item \in [Conditions -> Rows]
  BY DEF TypeOK, Rows
<1>1. its \in [Conditions -> Rows]
  BY <1>0, RowOperators DEF Closing
<1>2. \A c \in Conditions : its[c].state \in LiveStates => its[c].by = "nobody"
  BY <1>0 DEF Closing, Close, LiveRowsAreUnclosed, Live, LiveStates, Rows
<1>3. CASE Held(to) = NoItem
  BY <1>1, <1>2, <1>3 DEF Produced, Raising
<1>4. CASE Held(to) # NoItem
  <2>1. Held(to) \in Conditions
    BY <1>4 DEF Held, Conditions, NoItem
  <2>2. Raised(its[Held(to)]) \in Rows
    BY <1>1, <2>1, RowOperators
  <2>3. Raised(its[Held(to)]).by = "nobody"
    BY <1>1, <1>2, <2>1, RaisedIsUnclosed
  <2>4. Produced(to) = [its EXCEPT ![Held(to)] = Raised(its[Held(to)])]
    BY <1>4 DEF Produced, Raising
  <2> HIDE DEF its
  <2>. QED
    BY <1>1, <1>2, <2>1, <2>2, <2>3, <2>4
<1>. QED
  BY <1>3, <1>4

\* A legal transition is to another status.
LEMMA TransitionsMove ==
    ASSUME outcome \in Statuses, NEW to \in LegalNext[outcome]
    PROVE  to \in Statuses /\ to # outcome
BY DEF LegalNext, Statuses, Terminal

-----------------------------------------------------------------------------
LEMMA InitIInv == Init => IInv
<1> SUFFICES ASSUME Init PROVE IInv
  OBVIOUS
<1>1. TypeOK
  <2>1. item \in [Conditions -> Rows]
    BY DEF Init, NoRow, Conditions, LiveStates, Rows
  <2>2. outcome \in Statuses
    BY DEF Init, Statuses
  <2>3. pending \in [Conditions -> 0..MaxMoves + 1]
    BY AttentionAssumption DEF Init
  <2>4. queue \in [Conditions -> 0..MaxQueue] /\ moves \in 0..MaxMoves
        /\ upsets \in 0..MaxUpsets
    BY AttentionAssumption DEF Init
  <2>. QED
    BY <2>1, <2>2, <2>3, <2>4 DEF Init, TypeOK, Rows, NoItem
<1>2. LiveRowsAreUnclosed /\ PushesAreOwed /\ HeldConditionStaysRaised
  BY DEF Init, LiveRowsAreUnclosed, PushesAreOwed, HeldConditionStaysRaised, NoRow,
         Conditions, Live, LiveStates, Held, NoItem
<1>. QED
  BY <1>1, <1>2 DEF IInv

LEMMA MoveStep ==
    ASSUME IInv, NEW to \in Statuses, Move(to)
    PROVE  IInv'
<1> USE DEF IInv, Move, ticks, policy
<1>1. /\ Produced(to) \in [Conditions -> Rows]
      /\ \A c \in Conditions :
            Produced(to)[c].state \in LiveStates => Produced(to)[c].by = "nobody"
      /\ Held(to) # NoItem => Produced(to)[Held(to)].by = "nobody"
  BY ProducedRows
<1>2. Held(to) \in Conditions \cup {NoItem}
  BY DEF Held, Conditions, NoItem
<1>3. PushesAreOwed'
  BY <1>2 DEF PushesAreOwed, TypeOK
<1>4. pending' \in [Conditions -> 0..MaxMoves + 1]
  BY <1>2, AttentionAssumption DEF TypeOK, PushesAreOwed
<1>5. TypeOK'
  BY <1>1, <1>4, AttentionAssumption DEF TypeOK, Rows
<1>6. LiveRowsAreUnclosed'
  BY <1>1 DEF LiveRowsAreUnclosed, Live
<1>7. HeldConditionStaysRaised'
  BY <1>1 DEF HeldConditionStaysRaised
<1>. QED
  BY <1>3, <1>5, <1>6, <1>7

\* Steps that leave the rows alone, or change only whether they were pushed.
LEMMA QueueStep ==
    ASSUME IInv, NEW c \in Conditions,
           \/ Enqueue(c) \/ EnqueueLost(c) \/ Report(c) \/ Expire(c) \/ SnoozeRunsOut(c)
    PROVE  IInv'
<1> USE DEF IInv, ticks, policy, Enqueue, EnqueueLost, Report, Expire, SnoozeRunsOut,
            Leaves, Upset
<1>0. item \in [Conditions -> Rows]
  BY DEF TypeOK, Rows
<1>1. item' \in [Conditions -> Rows] /\ \A d \in Conditions : item'[d].by = item[d].by
                                      /\ item'[d].state = item[d].state
  <2>1. CASE Report(c)
    BY <1>0, <2>1 DEF Rows
  <2>2. CASE SnoozeRunsOut(c)
    BY <1>0, <2>2 DEF Rows
  <2>3. CASE item' = item
    BY <1>0, <2>3
  <2>. QED
    BY <2>1, <2>2, <2>3
<1>2. /\ pending' \in [Conditions -> 0..MaxMoves + 1]
      /\ \A d \in Conditions : pending'[d] <= pending[d]
  <2>1. CASE pending' = pending
    BY <2>1, AttentionAssumption DEF TypeOK
  <2>2. CASE pending[c] > 0 /\ pending' = [pending EXCEPT ![c] = @ - 1]
    BY <2>2, AttentionAssumption DEF TypeOK
  <2>. QED
    BY <2>1, <2>2
<1>3. queue' \in [Conditions -> 0..MaxQueue] /\ upsets' \in 0..MaxUpsets
  <2>1. CASE queue' = queue
    BY <2>1, AttentionAssumption DEF TypeOK
  <2>2. CASE Enqueue(c) \/ Leaves(c)
    BY <2>2, AttentionAssumption DEF TypeOK
  <2>3. upsets' \in 0..MaxUpsets
    BY AttentionAssumption DEF TypeOK
  <2>. QED
    BY <2>1, <2>2, <2>3
<1>4. outcome' = outcome /\ produced' = produced /\ moves' = moves
  OBVIOUS
<1>5. TypeOK'
  BY <1>1, <1>2, <1>3 DEF TypeOK, Rows
<1>6. PushesAreOwed'
  BY <1>2, <1>4, AttentionAssumption DEF PushesAreOwed, TypeOK
<1>7. LiveRowsAreUnclosed'
  BY <1>1 DEF LiveRowsAreUnclosed, Live
<1>8. HeldConditionStaysRaised'
  BY <1>1, <1>4 DEF HeldConditionStaysRaised, Held, Conditions, NoItem
<1>. QED
  BY <1>5, <1>6, <1>7, <1>8

LEMMA OwnerStep ==
    ASSUME IInv, NEW c \in Conditions,
           \/ See(c) \/ Resolve(c) \/ Dismiss(c) \/ Snooze(c) \/ Undo(c)
    PROVE  IInv'
<1> USE DEF IInv, ticks, policy, See, Resolve, Dismiss, Snooze, Undo, Ask, Write, Close,
            Upset
<1>1. PICK it \in Rows : /\ item' = [item EXCEPT ![c] = it]
                         /\ it.state \in LiveStates => it.by = "nobody"
                         /\ it.by \in {item[c].by, "owner", "nobody"}
  <2>1. item[c] \in Rows /\ (Live(c) => item[c].by = "nobody")
    BY DEF TypeOK, Rows, LiveRowsAreUnclosed
  <2> DEFINE Fits(it) == /\ it \in Rows
                         /\ it.state \in LiveStates => it.by = "nobody"
                         /\ it.by \in {item[c].by, "owner", "nobody"}
  <2>2. item[c].state = "open" => Fits([item[c] EXCEPT !.state = "seen"])
    BY <2>1 DEF Rows, Live, LiveStates
  <2>3. Fits([item[c] EXCEPT !.state = "resolved", !.by = "owner"])
        /\ Fits([item[c] EXCEPT !.state = "dismissed", !.by = "owner"])
    BY <2>1 DEF Rows, LiveStates, Closed
  <2>4. Live(c) => Fits([item[c] EXCEPT !.state = "snoozed", !.until = "ahead"])
    BY <2>1 DEF Rows, LiveStates
  <2>5. Fits([item[c] EXCEPT !.state = "open", !.by = "nobody"])
    BY <2>1 DEF Rows, LiveStates
  <2> HIDE DEF Fits
  <2>6. \E it : Fits(it) /\ item' = [item EXCEPT ![c] = it]
    BY <2>2, <2>3, <2>4, <2>5
  <2>. QED
    BY <2>6 DEF Fits
<1>2. upsets' \in 0..MaxUpsets
  <2>1. UNCHANGED upsets \/ (upsets < MaxUpsets /\ upsets' = upsets + 1)
    OBVIOUS
  <2>. QED
    BY <2>1, AttentionAssumption DEF TypeOK
<1>3. UNCHANGED <<outcome, queue, pending, ticks, policy, moves>>
  OBVIOUS
<1>4. TypeOK' /\ PushesAreOwed'
  BY <1>1, <1>2, <1>3 DEF TypeOK, Rows, PushesAreOwed
<1>5. LiveRowsAreUnclosed'
  BY <1>1 DEF LiveRowsAreUnclosed, Live, TypeOK
<1>6. HeldConditionStaysRaised'
  BY <1>1, <1>3 DEF HeldConditionStaysRaised, TypeOK
<1>. QED
  BY <1>4, <1>5, <1>6

LEMMA PolicyStep ==
    ASSUME IInv, Toggle \/ Restart
    PROVE  IInv'
<1> USE DEF IInv, ticks, policy, Toggle, Restart, Upset
<1>1. TypeOK' /\ PushesAreOwed'
  <2>1. enabled' \in BOOLEAN /\ loaded' \in BOOLEAN
    <3>1. enabled' = ~enabled \/ enabled' = enabled
      OBVIOUS
    <3>2. loaded' = enabled \/ loaded' = loaded
      OBVIOUS
    <3>. QED
      BY <3>1, <3>2 DEF TypeOK
  <2>0. upsets' \in 0..MaxUpsets
    BY AttentionAssumption DEF TypeOK
  <2>2. UNCHANGED <<outcome, item, pending, queue, tick, todo, verdict, produced, moves>>
    OBVIOUS
  <2>. QED
    BY <2>0, <2>1, <2>2 DEF TypeOK, PushesAreOwed
<1>2. LiveRowsAreUnclosed' /\ HeldConditionStaysRaised'
  BY DEF LiveRowsAreUnclosed, Live, HeldConditionStaysRaised
<1>. QED
  BY <1>1, <1>2

\* The tick's steps that write rows: the wake, the close of what is gone, the
\* collection.
LEMMA SweepStep ==
    ASSUME IInv, NEW t \in Ticks, StartSweep(t) \/ CloseGone(t) \/ EndSweep(t)
    PROVE  IInv'
<1> USE DEF IInv, TypeOK, ticks, policy, At, Goto, Keep, Upset
<1>1. CASE StartSweep(t)
  <2>1. Wake \in [Conditions -> Rows]
    BY RowOperators DEF Wake, Rows
  <2>2. \A c \in Conditions : Wake[c].by = item[c].by
                              /\ (Wake[c].state \in LiveStates => Live(c))
    BY DEF Wake, Woken, Live, LiveStates
  <2>3. TypeOK' /\ PushesAreOwed'
    BY <1>1, <2>1 DEF StartSweep, Rows, PushesAreOwed
  <2>4. LiveRowsAreUnclosed' /\ HeldConditionStaysRaised'
    BY <1>1, <2>2 DEF StartSweep, LiveRowsAreUnclosed, Live, HeldConditionStaysRaised, Held,
                      Conditions, NoItem
  <2>. QED
    BY <2>3, <2>4
<1>2. CASE CloseGone(t)
  <2>1. \A c \in Conditions : Close(item[c], "liveness") \in Rows
    BY RowOperators DEF Rows
  <2>2. TypeOK' /\ PushesAreOwed'
    BY <1>2, <2>1 DEF CloseGone, Rows, PushesAreOwed
  <2>3. LiveRowsAreUnclosed' /\ HeldConditionStaysRaised'
    BY <1>2 DEF CloseGone, Close, LiveRowsAreUnclosed, Live, LiveStates,
                HeldConditionStaysRaised, Held, Conditions, NoItem
  <2>. QED
    BY <2>2, <2>3
<1>3. CASE EndSweep(t)
  <2>1. NoRow \in Rows /\ NoRow.by = "nobody"
    BY DEF Rows, NoRow
  <2>2. TypeOK' /\ PushesAreOwed'
    BY <1>3, <2>1, AttentionAssumption DEF EndSweep, Collect, Rows, PushesAreOwed
  <2>3. LiveRowsAreUnclosed' /\ HeldConditionStaysRaised'
    BY <1>3, <2>1 DEF EndSweep, Collect, LiveRowsAreUnclosed, Live, HeldConditionStaysRaised,
                      Held, Conditions, NoItem
  <2>. QED
    BY <2>2, <2>3
<1>. QED
  BY <1>1, <1>2, <1>3

\* The tick's other steps write no row.
LEMMA TickStep ==
    ASSUME IInv, NEW t \in Ticks,
           \/ \E c \in Conditions : Check(t, c) \/ Reread(t, c)
           \/ EndSweepAtNight(t) \/ PushAgain(t) \/ EndRetry(t) \/ TickDies(t)
    PROVE  IInv'
<1> USE DEF IInv, ticks, policy, At, Goto, Keep, Drop, Upset, Check, Reread,
            EndSweepAtNight, PushAgain, EndRetry, TickDies
<1>1. TypeOK' /\ PushesAreOwed'
  <2>1. todo' \in [Ticks -> SUBSET Conditions]
    <3>1. \E s \in SUBSET Conditions : todo' = todo \/ todo' = [todo EXCEPT ![t] = s]
      BY DEF TypeOK
    <3>. QED
      BY <3>1 DEF TypeOK
  <2>2. verdict' \in [Ticks -> Conditions \cup {NoItem}]
    <3>1. \E v \in Conditions \cup {NoItem} :
            verdict' = verdict \/ verdict' = [verdict EXCEPT ![t] = v]
      OBVIOUS
    <3>. QED
      BY <3>1 DEF TypeOK
  <2>3. tick' \in [Ticks -> {"idle", "sweep", "retry"}]
    BY DEF TypeOK
  <2>4. queue' \in [Conditions -> 0..MaxQueue] /\ upsets' \in 0..MaxUpsets
    <3>1. UNCHANGED upsets \/ (upsets < MaxUpsets /\ upsets' = upsets + 1)
      OBVIOUS
    <3>2. UNCHANGED queue \/ PushAgain(t)
      OBVIOUS
    <3>3. verdict[t] # NoItem => verdict[t] \in Conditions
      BY DEF TypeOK
    <3>. QED
      BY <3>1, <3>2, <3>3, AttentionAssumption DEF TypeOK
  <2>. QED
    BY <2>1, <2>2, <2>3, <2>4 DEF TypeOK, PushesAreOwed
<1>2. UNCHANGED <<item, outcome, produced>>
  OBVIOUS
<1>3. LiveRowsAreUnclosed' /\ HeldConditionStaysRaised'
  BY <1>2 DEF LiveRowsAreUnclosed, Live, HeldConditionStaysRaised
<1>. QED
  BY <1>1, <1>3

LEMMA NextIInv == IInv /\ [Next]_vars => IInv'
<1> SUFFICES ASSUME IInv, [Next]_vars PROVE IInv'
  OBVIOUS
<1>1. CASE UNCHANGED vars
  BY <1>1 DEF vars, ticks, policy, IInv, TypeOK, LiveRowsAreUnclosed, Live, PushesAreOwed,
              HeldConditionStaysRaised
<1>2. CASE Next
  BY <1>2, MoveStep, QueueStep, OwnerStep, PolicyStep, SweepStep, TickStep
     DEF Next, OwnerActs, Working
<1>. QED
  BY <1>1, <1>2

LEMMA Invariance == Spec => []IInv
<1>. QED
  BY InitIInv, NextIInv, PTL DEF Spec

\* The rows, the queue and the ticks hold values of their columns, and no more
\* pushes are owed than transitions were made.
THEOREM TypeCorrect == Spec => []TypeOK
<1>1. IInv => TypeOK
  BY DEF IInv
<1>. QED
  BY <1>1, Invariance, PTL

\* The item of the condition the outcome holds has not been closed by its own
\* producer, in whatever order ticks, the owner and transitions come. It says
\* nothing of the other two who close items, the owner and the tick.
THEOREM HeldConditionIsRaised == Spec => []HeldConditionStaysRaised
<1>1. IInv => HeldConditionStaysRaised
  BY DEF IInv
<1>. QED
  BY <1>1, Invariance, PTL

-----------------------------------------------------------------------------
(* The owner's answer *)

\* One step of the system, for one item the owner has closed.
LEMMA AnswerStep ==
    ASSUME IInv, Next, NEW c \in Conditions, item[c].by = "owner", Live(c)'
    PROVE  outcome' # outcome \/ Undo(c)
<1> USE DEF IInv
<1>0. ~Live(c) /\ item \in [Conditions -> Rows]
  BY DEF LiveRowsAreUnclosed, TypeOK, Rows
<1>1. CASE \E to \in Statuses : Move(to)
  BY <1>1, TransitionsMove DEF Move, TypeOK
<1>2. CASE \E d \in Conditions : Enqueue(d) \/ EnqueueLost(d) \/ Report(d) \/ Expire(d)
                                 \/ SnoozeRunsOut(d)
  BY <1>0, <1>2 DEF Enqueue, EnqueueLost, Report, Expire, SnoozeRunsOut, Live, Rows
<1>3. ASSUME NEW d \in Conditions, See(d) \/ Resolve(d) \/ Dismiss(d) \/ Snooze(d) \/ Undo(d)
      PROVE  Undo(c)
  BY <1>0, <1>3 DEF See, Resolve, Dismiss, Snooze, Undo, Ask, Write, Close, Live, LiveStates,
                    Rows
<1>4. CASE Toggle \/ Restart
  BY <1>0, <1>4 DEF Toggle, Restart, Live
<1>5. ASSUME NEW t \in Ticks, StartSweep(t) \/ CloseGone(t) \/ EndSweep(t)
      PROVE  FALSE
  <2>1. CASE StartSweep(t)
    BY <1>0, <2>1 DEF StartSweep, Wake, Live, LiveStates
  <2>2. CASE CloseGone(t)
    BY <1>0, <2>2 DEF CloseGone, Live
  <2>3. CASE EndSweep(t)
    BY <1>0, <2>3 DEF EndSweep, Collect, NoRow, Live, LiveStates
  <2>. QED
    BY <1>5, <2>1, <2>2, <2>3
<1>6. ASSUME NEW t \in Ticks,
             \/ \E d \in Conditions : Check(t, d) \/ Reread(t, d)
             \/ EndSweepAtNight(t) \/ PushAgain(t) \/ EndRetry(t) \/ TickDies(t)
      PROVE  FALSE
  BY <1>0, <1>6 DEF Check, Reread, EndSweepAtNight, PushAgain, EndRetry, TickDies, Live
<1>. QED
  BY <1>1, <1>2, <1>3, <1>4, <1>5, <1>6 DEF Next, OwnerActs, Working

\* One step of the system, for one item the owner has snoozed. A wake takes the
\* rows whose time is up; the owner's own requests leave a snooze or close the row.
LEMMA SnoozeStep ==
    ASSUME IInv, Next, NEW c \in Conditions,
           Snoozing(item[c]), Live(c)', ~Snoozing(item[c])'
    PROVE  outcome' # outcome \/ SnoozeRunsOut(c)
<1> USE DEF IInv
<1>0. /\ item \in [Conditions -> Rows] /\ item[c] \in Rows
      /\ item[c].state = "snoozed" /\ item[c].until = "ahead"
  BY DEF TypeOK, Rows, Snoozing
<1>1. CASE \E to \in Statuses : Move(to)
  BY <1>1, TransitionsMove DEF Move, TypeOK
<1>2. ASSUME NEW d \in Conditions, Enqueue(d) \/ EnqueueLost(d) \/ Expire(d)
      PROVE  FALSE
  BY <1>2 DEF Enqueue, EnqueueLost, Expire, Snoozing
<1>3. ASSUME NEW d \in Conditions, Report(d)
      PROVE  FALSE
  BY <1>0, <1>3 DEF Report, Snoozing, Rows
<1>4. ASSUME NEW d \in Conditions, SnoozeRunsOut(d)
      PROVE  SnoozeRunsOut(c)
  BY <1>0, <1>4 DEF SnoozeRunsOut, Snoozing, Rows
<1>5. ASSUME NEW d \in Conditions, See(d) \/ Resolve(d) \/ Dismiss(d) \/ Snooze(d) \/ Undo(d)
      PROVE  FALSE
  BY <1>0, <1>5 DEF See, Resolve, Dismiss, Snooze, Undo, Ask, Write, Close, Closed, Live,
                    LiveStates, Snoozing, Rows
<1>6. CASE Toggle \/ Restart
  BY <1>0, <1>6 DEF Toggle, Restart, Snoozing
<1>7. ASSUME NEW t \in Ticks, StartSweep(t) \/ CloseGone(t) \/ EndSweep(t)
      PROVE  FALSE
  <2>1. CASE StartSweep(t)
    BY <1>0, <2>1 DEF StartSweep, Wake, Snoozing
  <2>2. CASE CloseGone(t)
    BY <1>0, <2>2 DEF CloseGone, Close, Live, LiveStates, Rows
  <2>3. CASE EndSweep(t)
    BY <1>0, <2>3 DEF EndSweep, Collect, Expendable, Closed, NoRow, Live, LiveStates, Snoozing
  <2>. QED
    BY <1>7, <2>1, <2>2, <2>3
<1>8. ASSUME NEW t \in Ticks,
             \/ \E d \in Conditions : Check(t, d) \/ Reread(t, d)
             \/ EndSweepAtNight(t) \/ PushAgain(t) \/ EndRetry(t) \/ TickDies(t)
      PROVE  FALSE
  BY <1>0, <1>8 DEF Check, Reread, EndSweepAtNight, PushAgain, EndRetry, TickDies, Snoozing
<1>. QED
  BY <1>1, <1>2, <1>3, <1>4, <1>5, <1>6, <1>7, <1>8 DEF Next, OwnerActs, Working

\* What the owner closed stays closed until the owner's undo or a transition of
\* the outcome, and what the owner snoozed is not woken before its time but by a
\* transition: no report and no tick brings it back.
THEOREM OwnerAnswerIsFinal == Spec => OwnerAnswerStands
<1>1. IInv /\ [Next]_vars =>
        [\A c \in Conditions :
            /\ item[c].by = "owner" /\ Live(c)' => outcome' # outcome \/ Undo(c)
            /\ Snoozing(item[c]) /\ Live(c)' /\ ~Snoozing(item[c])'
                  => outcome' # outcome \/ SnoozeRunsOut(c)]_vars
  BY AnswerStep, SnoozeStep
<1>. QED
  BY <1>1, Invariance, PTL DEF Spec, OwnerAnswerStands
=============================================================================
