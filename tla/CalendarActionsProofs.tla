------------------------ MODULE CalendarActionsProofs ------------------------
(***************************************************************************)
(* The safety of the calendar actions, for every number of proposals,      *)
(* people, turns, codes and upsets, and for every cap.                     *)
(*                                                                         *)
(* None of the invariants the runs check is inductive. They rest on three  *)
(* facts: the step from proposed to approved is taken once, so that one    *)
(* turn at most is past it for each intent; what a turn read at the lookup *)
(* (owner, code and expiry) is never written again; and until a lock is    *)
(* lost, the turns that hold an intent of one principal hold that          *)
(* principal's lock. From the same invariant, the proposals implement the  *)
(* one-shot channel.                                                       *)
(***************************************************************************)
EXTENDS CalendarActions, FiniteSetTheorems, TLAPS

Labels == {"idle", "waiting", "count", "sole", "lookup", "insert", "mint", "done", "look",
           "cancel", "quota", "approve", "prepare", "attempt", "post", "record"}
Replies == {"none", "denied", "ambiguous", "refused", "capped", "proposed", "expired",
            "cancelled", "already-used", "grant-denied", "succeeded", "unknown", "failed"}
Sights == {"none", "proposed", "approved", "succeeded", "unknown", "failed"}

Handlers == [pc : Labels, who : Principals \cup {Nobody},
             verb : {"propose", "confirm", "cancel"}, tok : Tokens \cup {Bare, NoToken},
             day : Days, stale : SUBSET Intents, i : Intents \cup {0}, saw : Sights,
             reply : Replies]

\* Turns before any work, without an intent, with one, confirming it, deciding
\* about it, past its approval.
Resting == {"idle", "waiting", "done"}
Searching == {"waiting", "count", "sole", "lookup", "insert"}
Acting == {"look", "cancel", "quota", "approve", "prepare", "attempt", "post", "record"}
Confirming == {"quota", "approve", "prepare", "attempt", "post", "record"}
Deciding == {"look", "cancel", "quota", "approve"}
Winning == {"prepare", "attempt", "post", "record"}

In(t, set) == turn[t].pc \in set
Nothing(i) == events[i] = 0 /\ i \notin flying

-----------------------------------------------------------------------------
(* The inductive invariant *)

\* A message is what its sender may send, and searches without an intent.
TurnInv ==
    /\ turn \in [Turns -> Handlers]
    /\ \A t \in Turns :
          /\ turn[t].day <= day
          /\ ~In(t, {"idle", "done"}) => turn[t].who \in Principals
          /\ In(t, Searching) => turn[t].i = 0
          /\ At(t, "waiting") => (turn[t].verb = "propose" <=> turn[t].tok = NoToken)
          /\ In(t, {"sole", "lookup"} \cup Acting) =>
                turn[t].verb # "propose" /\ turn[t].tok # NoToken

\* An inserted row has no code until its own turn, the only one, mints it.
RowInv ==
    /\ \A i \in Intents : Status(i) = "none" => intent[i].token = NoToken
    /\ \A t \in Turns :
          At(t, "mint") =>
            /\ turn[t].i \in Intents /\ Status(turn[t].i) # "none"
            /\ intent[turn[t].i].token = NoToken
    /\ \A t, u \in Turns :
          At(t, "mint") /\ At(u, "mint") /\ turn[t].i = turn[u].i => t = u

\* What the lookup established of the row a turn acts on.
ConsentInv ==
    \A t \in Turns :
        /\ In(t, Acting) =>
              /\ turn[t].i \in Intents
              /\ intent[turn[t].i].owner = turn[t].who
              /\ intent[turn[t].i].token = turn[t].tok
        /\ In(t, Confirming) => turn[t].verb = "confirm" /\ turn[t].i \notin turn[t].stale
        /\ At(t, "cancel") => turn[t].saw \in {"proposed", "approved"}

\* One turn at most is past the approval of an intent.
WinnerInv ==
    /\ \A t, u \in Turns :
          In(t, Winning) /\ In(u, Winning) /\ turn[t].i = turn[u].i => t = u
    /\ \A t \in Turns :
          /\ At(t, "prepare") => Status(turn[t].i) \in {"approved", "cancelled"}
          /\ At(t, "attempt") => /\ Status(turn[t].i) = "prepared"
                                 /\ attempt[turn[t].i].outcome = "none"
          /\ At(t, "post") => /\ attempt[turn[t].i].outcome = "executing"
                              /\ Nothing(turn[t].i)
          /\ At(t, "record") =>
                /\ attempt[turn[t].i].outcome = "executing"
                /\ turn[t].saw \in {"succeeded", "unknown", "failed"}
                /\ turn[t].saw = "succeeded" => events[turn[t].i] = 1
                /\ turn[t].saw = "failed" => Nothing(turn[t].i)

\* Nothing has happened before the attempt's row is written.
EffectInv == \A i \in Intents : attempt[i].outcome = "none" => Nothing(i)

\* What an answer rests on, when it is given and after.
AnswerInv ==
    \A t \in Turns : At(t, "done") =>
        LET i == turn[t].i IN
        /\ turn[t].reply \in {"succeeded", "failed", "cancelled", "grant-denied"} =>
              i \in Intents
        /\ turn[t].reply = "succeeded" => events[i] = 1
        /\ turn[t].reply = "failed" => attempt[i].outcome = "failed"
        /\ turn[t].reply = "cancelled" => Status(i) = "cancelled"
        /\ turn[t].reply = "grant-denied" =>
              /\ Status(i) = "prepared" /\ attempt[i].outcome = "none"
              /\ \A u \in Turns : In(u, Winning) => turn[u].i # i

\* As long as no lock was lost, a turn at work has its principal to itself.
LockInv ==
    losses = 0 => \A t \in Turns :
        /\ ~In(t, Resting) => lock[turn[t].who] = t
        /\ In(t, Deciding) => Status(turn[t].i) = "proposed"
        /\ At(t, "cancel") => turn[t].saw = "proposed"
        /\ At(t, "done") /\ turn[t].reply \in {"expired", "capped"} /\ turn[t].i # 0 =>
              /\ turn[t].i \in Intents /\ intent[turn[t].i].owner \in Principals
              /\ lock[intent[turn[t].i].owner] = t
              /\ Status(turn[t].i) \in {"proposed", "cancelled"}

\* Dispatches of a day, turns counted in but not yet dispatched, turns at work
\* without their lock.
Dispatched(p, d) ==
    {i \in Intents : /\ intent[i].owner = p
                     /\ attempt[i].outcome # "none" /\ attempt[i].day = d}
InFlight(p) == {t \in Turns : turn[t].who = p /\ In(t, {"approve", "prepare", "attempt"})}
Unlocked(p) == {t \in Turns : turn[t].who = p /\ ~In(t, Resting) /\ lock[p] # t}

QuotaInv ==
    /\ \A i \in Intents : attempt[i].outcome # "none" => attempt[i].day <= day
    /\ \A p \in Principals : Cardinality(Unlocked(p)) <= losses
    /\ \A p \in Principals :
          Cardinality(Dispatched(p, day)) + Cardinality(InFlight(p)) <= MaxDispatches + losses

Core ==
    /\ TypeOK
    /\ TurnInv
    /\ RowInv
    /\ ConsentInv
    /\ WinnerInv
    /\ EffectInv
    /\ AtMostOneEvent
    /\ OutcomesAreHonest
    /\ AnswerInv
    /\ LockInv

IInv == Core /\ QuotaInv /\ DispatchOvershoot

-----------------------------------------------------------------------------
(* Lemmas *)

\* The newest row of a code that some row carries carries it.
LEMMA NewestCarries ==
    ASSUME MaxIntents \in Nat, NEW tok, Carriers(tok) # {}
    PROVE  Newest(tok) \in Carriers(tok)
<1> DEFINE S == Carriers(tok)
           Up(k) == k..MaxIntents
           Ups == {Up(k) : k \in S}
<1>0. S \subseteq 1..MaxIntents
  BY DEF Carriers, Intents
<1>1. Ups \subseteq FiniteSubsetsOf(Nat) /\ Ups # {}
  <2>1. ASSUME NEW k \in S PROVE Up(k) \in FiniteSubsetsOf(Nat)
    <3>1. k \in Int /\ MaxIntents \in Int /\ Up(k) \in SUBSET Nat
      BY <1>0
    <3>2. IsFiniteSet(Up(k))
      BY <3>1, FS_Interval
    <3>. QED
      BY <3>1, <3>2 DEF FiniteSubsetsOf
  <2>. QED
    BY <2>1
<1>2. \E u \in Ups : \A v \in Ups : <<v, u>> \notin StrictSubsetOrdering(Nat)
  BY <1>1, WFMin, FS_StrictSubsetOrderingWellFounded, Zenon
<1>3. PICK x \in S : \A y \in S : <<Up(y), Up(x)>> \notin StrictSubsetOrdering(Nat)
  BY <1>2
<1>4. ASSUME NEW y \in S, x < y PROVE FALSE
  <2>1. Up(y) \subseteq Up(x) /\ Up(x) \in SUBSET Nat
    BY <1>0, <1>4
  <2>2. x \in Up(x) /\ x \notin Up(y)
    BY <1>0, <1>4
  <2>3. <<Up(y), Up(x)>> \in StrictSubsetOrdering(Nat)
    BY <2>1, <2>2 DEF StrictSubsetOrdering
  <2>. QED
    BY <1>3, <2>3
<1>5. \A y \in S : y <= x
  BY <1>0, <1>4
<1>. QED
  BY <1>5 DEF Newest

\* The fields of a handler that has answered.
LEMMA AnsweredFields ==
    ASSUME NEW h \in Handlers, NEW text \in Replies
    PROVE  /\ Answered(h, text) \in Handlers
           /\ Answered(h, text).pc = "done" /\ Answered(h, text).reply = text
           /\ Answered(h, text).day = 0
           /\ Answered(h, text).i \in {0, h.i}
           /\ text \in {"succeeded", "failed", "cancelled", "grant-denied", "expired",
                        "capped"} => Answered(h, text).i = h.i
<1>1. 0 \in Days
  BY CalendarAssumption DEF Days
<1>2. Idle \in Handlers
  BY <1>1 DEF Idle, Handlers, Labels, Sights, Replies
<1>3. Idle.day = 0
  BY DEF Idle
<1>4. h.i \in Intents \cup {0}
  BY DEF Handlers
<1> HIDE DEF Idle
<1>5. /\ Answered(h, text).pc = "done" /\ Answered(h, text).reply = text
      /\ Answered(h, text).day = Idle.day
  BY <1>2 DEF Answered, Handlers
<1>6. Answered(h, text).i =
        IF text \in {"proposed", "denied", "already-used"} THEN 0 ELSE h.i
  BY <1>2 DEF Answered, Handlers
<1>7. Answered(h, text) \in Handlers
  <2>1. PICK j \in Intents \cup {0}, c \in Tokens \cup {Bare, NoToken} :
          Answered(h, text) = [Idle EXCEPT !.pc = "done", !.reply = text, !.i = j, !.tok = c]
    BY <1>4 DEF Answered
  <2>2. "done" \in Labels
    BY DEF Labels
  <2>. QED
    BY <1>2, <2>1, <2>2 DEF Handlers
<1>. QED
  BY <1>3, <1>4, <1>5, <1>6, <1>7

\* Sets of intents and of turns are finite.
LEMMA FiniteSubsets ==
    /\ \A S : S \subseteq Intents => IsFiniteSet(S)
    /\ \A S : S \subseteq Turns => IsFiniteSet(S)
<1>1. IsFiniteSet(Intents)
  BY FS_Interval, CalendarAssumption DEF Intents
<1>. QED
  BY <1>1, FS_Subset, CalendarAssumption

\* A smaller set is not more numerous.
LEMMA Fewer ==
    ASSUME NEW T, NEW S, S \subseteq T, T \subseteq Intents \/ T \subseteq Turns
    PROVE  /\ Cardinality(S) \in Nat /\ Cardinality(T) \in Nat
           /\ Cardinality(S) <= Cardinality(T)
BY FiniteSubsets, FS_Subset, FS_CardinalityType

\* The caps hold on when no dispatch, no turn counted in and no turn without
\* its lock is added.
LEMMA QuotaFrame ==
    ASSUME IInv, UNCHANGED <<day, losses>>,
           \A p \in Principals : /\ \A d \in Days : Dispatched(p, d)' \subseteq Dispatched(p, d)
                                 /\ InFlight(p)' \subseteq InFlight(p)
                                 /\ Unlocked(p)' \subseteq Unlocked(p),
           \A i \in Intents : attempt'[i].outcome # "none" => attempt'[i].day <= day
    PROVE  QuotaInv' /\ DispatchOvershoot'
<1>1. ASSUME NEW p \in Principals, NEW d \in Days
      PROVE  /\ Cardinality(Dispatched(p, d)') <= Cardinality(Dispatched(p, d))
             /\ Cardinality(InFlight(p)') <= Cardinality(InFlight(p))
             /\ Cardinality(Unlocked(p)') <= Cardinality(Unlocked(p))
             /\ Cardinality(Dispatched(p, d)) \in Nat /\ Cardinality(Dispatched(p, d)') \in Nat
             /\ Cardinality(InFlight(p)) \in Nat /\ Cardinality(InFlight(p)') \in Nat
             /\ Cardinality(Unlocked(p)) \in Nat /\ Cardinality(Unlocked(p)') \in Nat
  <2>1. /\ Dispatched(p, d) \subseteq Intents
        /\ InFlight(p) \subseteq Turns /\ Unlocked(p) \subseteq Turns
    BY DEF Dispatched, InFlight, Unlocked
  <2>2. /\ Dispatched(p, d)' \subseteq Dispatched(p, d)
        /\ InFlight(p)' \subseteq InFlight(p) /\ Unlocked(p)' \subseteq Unlocked(p)
    OBVIOUS
  <2>. QED
    BY <2>1, <2>2, Fewer
<1>2. day \in Days /\ losses \in Nat /\ MaxDispatches \in Nat
  BY CalendarAssumption DEF IInv, Core, TypeOK, QuotaInv
<1>3. DispatchOvershoot'
  <2> SUFFICES ASSUME NEW p \in Principals, NEW d \in Days
               PROVE  Cardinality(Dispatched(p, d)') <= MaxDispatches + losses'
    BY DEF DispatchOvershoot, Dispatched
  <2>1. Cardinality(Dispatched(p, d)) <= MaxDispatches + losses
    BY DEF IInv, DispatchOvershoot, Dispatched
  <2>. QED
    BY <1>1, <1>2, <2>1
<1>4. QuotaInv'
  <2>1. ASSUME NEW p \in Principals
        PROVE  /\ Cardinality(Unlocked(p)') <= losses
               /\ Cardinality(Dispatched(p, day)') + Cardinality(InFlight(p)')
                    <= MaxDispatches + losses
    BY <1>1, <1>2 DEF IInv, QuotaInv
  <2>. QED
    BY <2>1 DEF QuotaInv
<1>. QED
  BY <1>3, <1>4

\* The same, for a step of one turn: it may come to rest, or go on with its lock
\* or as it was.
LEMMA TurnQuota ==
    ASSUME IInv, NEW t \in Turns, NEW h \in Handlers, turn' = [turn EXCEPT ![t] = h],
           UNCHANGED <<day, losses>>,
           \A i \in Intents : attempt'[i].outcome # "none" =>
              /\ attempt[i].outcome # "none" /\ attempt'[i].day = attempt[i].day
              /\ intent'[i].owner = intent[i].owner,
           \A p \in Principals, u \in Turns \ {t} : lock[p] = u => lock'[p] = u,
           \/ h.pc \in Resting
           \/ lock'[h.who] = t /\ h.pc \notin {"approve", "prepare", "attempt"}
           \/ /\ UNCHANGED lock /\ h.who = turn[t].who /\ ~In(t, Resting)
              /\ h.pc \in {"approve", "prepare", "attempt"} =>
                    In(t, {"approve", "prepare", "attempt"})
    PROVE  QuotaInv' /\ DispatchOvershoot'
<1>0. turn'[t] = h /\ \A u \in Turns : u # t => turn'[u] = turn[u]
  BY DEF IInv, Core, TurnInv
<1>1. ASSUME NEW p \in Principals
      PROVE  InFlight(p)' \subseteq InFlight(p)
  BY <1>0 DEF InFlight, In, Resting
<1>2. ASSUME NEW p \in Principals
      PROVE  Unlocked(p)' \subseteq Unlocked(p)
  BY <1>0 DEF Unlocked, In, Resting
<1>3. ASSUME NEW p \in Principals, NEW d \in Days
      PROVE  Dispatched(p, d)' \subseteq Dispatched(p, d)
  BY DEF Dispatched
<1>4. \A i \in Intents : attempt'[i].outcome # "none" => attempt'[i].day <= day
  BY DEF IInv, QuotaInv
<1>. QED
  BY <1>1, <1>2, <1>3, <1>4, QuotaFrame

\* What the rest of the invariant asks of a handler h that the turn t enters while
\* the rows stay as they are and the locks become lk: it has no row in the
\* making and no approved intent.
Sound(t, h, lk) ==
    /\ h.pc \notin Winning \cup {"mint"}
    /\ h.day <= day
    /\ h.pc \notin {"idle", "done"} => h.who \in Principals
    /\ h.pc \in Searching => h.i = 0
    /\ h.pc = "waiting" => (h.verb = "propose" <=> h.tok = NoToken)
    /\ h.pc \in {"sole", "lookup"} \cup Acting => h.verb # "propose" /\ h.tok # NoToken
    /\ h.pc \in Acting => /\ h.i \in Intents
                          /\ intent[h.i].owner = h.who /\ intent[h.i].token = h.tok
    /\ h.pc \in Confirming => h.verb = "confirm" /\ h.i \notin h.stale
    /\ h.pc = "cancel" => h.saw \in {"proposed", "approved"}
    /\ h.pc = "done" =>
          /\ h.reply \notin {"succeeded", "failed"}
          /\ h.reply = "cancelled" => h.i \in Intents /\ Status(h.i) = "cancelled"
          /\ h.reply = "grant-denied" =>
                /\ h.i \in Intents /\ Status(h.i) = "prepared"
                /\ attempt[h.i].outcome = "none"
                /\ \A u \in Turns \ {t} : In(u, Winning) => turn[u].i # h.i
    /\ losses = 0 =>
          /\ h.pc \notin Resting => lk[h.who] = t
          /\ h.pc \in Deciding => Status(h.i) = "proposed"
          /\ h.pc = "cancel" => h.saw = "proposed"
          /\ h.pc = "done" /\ h.reply \in {"expired", "capped"} /\ h.i # 0 =>
                /\ h.i \in Intents /\ intent[h.i].owner \in Principals
                /\ lk[intent[h.i].owner] = t /\ Status(h.i) \in {"proposed", "cancelled"}

\* A step of one turn that writes no row preserves the invariant when the
\* handler it leads to is sound.
LEMMA TurnStep ==
    ASSUME IInv, NEW t \in Turns, NEW h \in Handlers, turn' = [turn EXCEPT ![t] = h],
           UNCHANGED <<rows, provider, clock, losses>>,
           upsets' \in 0..MaxUpsets, upsets <= upsets',
           lock' \in [Principals -> Turns \cup {NoTurn}],
           \A p \in Principals, u \in Turns \ {t} : lock[p] = u => lock'[p] = u,
           Sound(t, h, lock')
    PROVE  Core'
<1> USE DEF IInv, Core
<1>1. turn'[t] = h /\ \A u \in Turns : u # t => turn'[u] = turn[u]
  BY DEF TurnInv
<1>2. TypeOK' /\ EffectInv' /\ AtMostOneEvent' /\ OutcomesAreHonest'
  BY CalendarAssumption
     DEF TypeOK, EffectInv, AtMostOneEvent, OutcomesAreHonest, Nothing, Status, rows, provider,
         clock
<1>3. TurnInv'
  BY <1>1 DEF TurnInv, Sound, In, At, Searching, Acting, clock
<1>4. RowInv' /\ ConsentInv'
  BY <1>1 DEF RowInv, ConsentInv, Sound, In, At, Status, rows
<1>5. WinnerInv'
  BY <1>1 DEF WinnerInv, Sound, In, At, Winning, Status, Nothing, rows, provider
<1>6. AnswerInv'
  BY <1>1 DEF AnswerInv, Sound, In, At, Winning, Status, rows, provider
<1>7. LockInv'
  <2>1. ASSUME losses = 0, NEW u \in Turns, ~In(u, Resting)'
        PROVE  lock'[turn'[u].who] = u
    BY <1>1, <2>1 DEF LockInv, TurnInv, Sound, In, Resting
  <2>2. ASSUME losses = 0, NEW u \in Turns, In(u, Deciding)'
        PROVE  Status(turn[u].i)' = "proposed" /\ (At(u, "cancel")' => turn'[u].saw = "proposed")
    BY <1>1, <2>2 DEF LockInv, Sound, In, At, Status, rows
  <2>3. ASSUME losses = 0, NEW u \in Turns, At(u, "done")',
               turn'[u].reply \in {"expired", "capped"}, turn'[u].i # 0
        PROVE  /\ turn'[u].i \in Intents /\ intent'[turn'[u].i].owner \in Principals
               /\ lock'[intent'[turn'[u].i].owner] = u
               /\ Status(turn[u].i)' \in {"proposed", "cancelled"}
    BY <1>1, <2>3 DEF LockInv, Sound, At, Status, rows
  <2>. QED
    BY <2>1, <2>2, <2>3 DEF LockInv, In, At, Deciding
<1>. QED
  BY <1>2, <1>3, <1>4, <1>5, <1>6, <1>7

-----------------------------------------------------------------------------
LEMMA InitIInv == Init => IInv
<1> SUFFICES ASSUME Init PROVE IInv
  OBVIOUS
<1> USE CalendarAssumption DEF Init
<1>0. \A t \in Turns : turn[t] = Idle
  OBVIOUS
<1>1. TypeOK
  BY DEF TypeOK, NoIntent, NoAttempt, Status, Days
<1>2. TurnInv
  <2>1. Idle \in Handlers
    BY DEF Idle, Handlers, Labels, Sights, Replies, Days
  <2>. QED
    BY <2>1 DEF TurnInv, Idle, In, At, Searching, Acting, Days
<1>3. RowInv /\ ConsentInv /\ WinnerInv /\ AnswerInv /\ LockInv
  BY <1>0 DEF RowInv, ConsentInv, WinnerInv, AnswerInv, LockInv, At, In, Idle, Acting, Confirming,
         Winning, Deciding, Resting, Status, NoIntent
<1>4. EffectInv /\ AtMostOneEvent /\ OutcomesAreHonest
  BY DEF EffectInv, AtMostOneEvent, OutcomesAreHonest, Nothing, NoAttempt
<1>5. QuotaInv /\ DispatchOvershoot
  <2>1. \A p \in Principals : /\ Dispatched(p, day) = {} /\ InFlight(p) = {}
                              /\ Unlocked(p) = {}
    BY <1>0 DEF Dispatched, NoAttempt, InFlight, Unlocked, In, Idle, Resting
  <2>2. \A p \in Principals, d \in Days : Dispatched(p, d) = {}
    BY DEF Dispatched, NoAttempt
  <2>3. Cardinality({}) = 0 /\ MaxDispatches \in Nat /\ losses = 0
    BY FS_EmptySet
  <2>4. DispatchOvershoot
    <3> SUFFICES ASSUME NEW p \in Principals, NEW d \in Days
                 PROVE  Cardinality(Dispatched(p, d)) <= MaxDispatches + losses
      BY DEF DispatchOvershoot, Dispatched
    <3>. QED
      BY <2>2, <2>3
  <2>5. \A i \in Intents : attempt[i].outcome = "none"
    BY DEF NoAttempt
  <2>6. ASSUME NEW p \in Principals
        PROVE  /\ Cardinality(Unlocked(p)) <= losses
               /\ Cardinality(Dispatched(p, day)) + Cardinality(InFlight(p))
                     <= MaxDispatches + losses
    <3>1. /\ Cardinality(Dispatched(p, day)) = 0 /\ Cardinality(InFlight(p)) = 0
          /\ Cardinality(Unlocked(p)) = 0
      BY <2>1, <2>3
    <3>. QED
      BY <2>3, <3>1
  <2>7. QuotaInv
    BY <2>5, <2>6 DEF QuotaInv
  <2>. QED
    BY <2>4, <2>7
<1>. QED
  BY <1>1, <1>2, <1>3, <1>4, <1>5 DEF IInv, Core

LEMMA ReceiveStep ==
    ASSUME IInv, NEW t \in Turns, Receive(t)
    PROVE  IInv'
<1> USE CalendarAssumption
<1>1. PICK h \in Handlers :
        /\ turn' = [turn EXCEPT ![t] = h]
        /\ h.pc = "waiting" /\ h.i = 0 /\ h.day = day /\ h.who \in Principals
        /\ h.verb = "propose" <=> h.tok = NoToken
  <2>1. day \in Days
    BY DEF IInv, Core, TypeOK
  <2>2. PICK p \in Principals, verb \in {"propose", "confirm", "cancel"},
             tok \in Tokens \cup {Bare, NoToken}, gone \in SUBSET Intents :
          /\ verb = "propose" <=> tok = NoToken
          /\ turn' = [turn EXCEPT ![t] = [Idle EXCEPT !.pc = "waiting", !.who = p,
                        !.verb = verb, !.tok = tok, !.day = day, !.stale = gone]]
    <3>1. PICK p \in Principals : \E verb \in Sends[p], tok \in Tokens \cup {Bare, NoToken} :
            /\ verb = "propose" <=> tok = NoToken
            /\ turn' = [turn EXCEPT ![t] = [Idle EXCEPT !.pc = "waiting", !.who = p,
                          !.verb = verb, !.tok = tok, !.day = day,
                          !.stale = {i \in aged : tok \in {Bare, intent[i].token}}]]
      BY DEF Receive
    <3>2. \A tok : {i \in aged : tok \in {Bare, intent[i].token}} \in SUBSET Intents
      BY DEF IInv, Core, TypeOK
    <3>3. Sends[p] \subseteq {"propose", "confirm", "cancel"}
      OBVIOUS
    <3>4. PICK verb \in {"propose", "confirm", "cancel"}, tok \in Tokens \cup {Bare, NoToken} :
            /\ verb = "propose" <=> tok = NoToken
            /\ turn' = [turn EXCEPT ![t] = [Idle EXCEPT !.pc = "waiting", !.who = p,
                          !.verb = verb, !.tok = tok, !.day = day,
                          !.stale = {i \in aged : tok \in {Bare, intent[i].token}}]]
      BY <3>1, <3>3
    <3>. QED
      BY <3>2, <3>4
  <2>3. Idle \in Handlers
    BY DEF Idle, Handlers, Labels, Sights, Replies, Days
  <2>4. [Idle EXCEPT !.pc = "waiting", !.who = p, !.verb = verb, !.tok = tok, !.day = day,
                     !.stale = gone] \in Handlers
    BY <2>1, <2>3 DEF Handlers, Labels
  <2>. QED
    BY <2>2, <2>4 DEF Idle
<1>2. UNCHANGED <<rows, provider, lock, clock, losses, upsets>>
  BY DEF Receive
<1>3. Sound(t, h, lock')
  BY <1>1, <1>2 DEF Sound, Winning, Searching, Acting, Confirming, Resting, Deciding, IInv, Core,
                    TypeOK, Days
<1>4. Core'
  <2>1. /\ upsets' \in 0..MaxUpsets /\ upsets <= upsets'
        /\ lock' \in [Principals -> Turns \cup {NoTurn}]
        /\ \A p \in Principals, u \in Turns \ {t} : lock[p] = u => lock'[p] = u
    BY <1>2 DEF IInv, Core, TypeOK
  <2>. QED
    BY <1>1, <1>2, <1>3, <2>1, TurnStep
<1>5. QuotaInv' /\ DispatchOvershoot'
  BY <1>1, <1>2, TurnQuota DEF rows, clock, Resting
<1>. QED
  BY <1>4, <1>5 DEF IInv

LEMMA TakeLockStep ==
    ASSUME IInv, NEW t \in Turns, TakeLock(t)
    PROVE  IInv'
<1> USE CalendarAssumption
<1> DEFINE l == CASE turn[t].verb = "propose" -> "count"
                  [] turn[t].tok = Bare       -> "sole"
                  [] OTHER                    -> "lookup"
           h == [turn[t] EXCEPT !.pc = l]
<1>0. turn[t] \in Handlers /\ turn \in [Turns -> Handlers]
  BY DEF IInv, Core, TurnInv
<1>1. /\ h \in Handlers /\ turn' = [turn EXCEPT ![t] = h]
      /\ h.pc \in {"count", "sole", "lookup"}
      /\ h.pc = "count" <=> turn[t].verb = "propose"
      /\ h.who = turn[t].who /\ h.verb = turn[t].verb /\ h.tok = turn[t].tok
      /\ h.day = turn[t].day /\ h.i = turn[t].i
  <2>1. l \in {"count", "sole", "lookup"} /\ (l = "count" <=> turn[t].verb = "propose")
    <3>1. CASE turn[t].verb = "propose"
      <4>1. turn[t].tok # Bare
        BY <3>1 DEF TakeLock, IInv, Core, TurnInv, Bare, NoToken
      <4>. QED
        BY <3>1, <4>1
    <3>2. CASE turn[t].verb # "propose" /\ turn[t].tok = Bare
      BY <3>2
    <3>3. CASE turn[t].verb # "propose" /\ turn[t].tok # Bare
      BY <3>3
    <3>. QED
      BY <3>1, <3>2, <3>3
  <2>2. turn' = [turn EXCEPT ![t] = h]
    BY <1>0 DEF TakeLock, Goto
  <2> HIDE DEF l
  <2>. QED
    BY <1>0, <2>1, <2>2 DEF Handlers, Labels
<1> HIDE DEF h, l
<1>2. UNCHANGED <<rows, provider, clock, losses, upsets>> /\ At(t, "waiting")
  BY DEF TakeLock
<1>3. /\ turn[t].who \in Principals /\ lock[turn[t].who] = NoTurn
      /\ lock' = [lock EXCEPT ![turn[t].who] = t]
      /\ lock \in [Principals -> Turns \cup {NoTurn}]
  BY <1>2 DEF TakeLock, IInv, Core, TurnInv, TypeOK, In, At
<1>4. /\ lock' \in [Principals -> Turns \cup {NoTurn}]
      /\ \A p \in Principals, u \in Turns \ {t} : lock[p] = u => lock'[p] = u
      /\ lock'[h.who] = t
  BY <1>1, <1>3
<1>5. Sound(t, h, lock')
  BY <1>1, <1>2, <1>3, <1>4
     DEF Sound, Winning, Searching, Acting, Confirming, Deciding, IInv, Core, TurnInv, In, At
<1>6. Core'
  <2>1. upsets' \in 0..MaxUpsets /\ upsets <= upsets'
    BY <1>2 DEF IInv, Core, TypeOK
  <2>. QED
    BY <1>1, <1>2, <1>4, <1>5, <2>1, TurnStep
<1>7. QuotaInv' /\ DispatchOvershoot'
  BY <1>1, <1>2, <1>4, TurnQuota DEF rows, clock
<1>. QED
  BY <1>6, <1>7 DEF IInv

\* A turn that ends without an answer lets go of its lock.
LEMMA ThrowStep ==
    ASSUME IInv, NEW t \in Turns, Throw(t),
           UNCHANGED <<rows, provider, clock, losses>>,
           upsets' \in 0..MaxUpsets, upsets <= upsets'
    PROVE  IInv'
<1> USE CalendarAssumption
<1>1. Idle \in Handlers /\ Idle.pc = "idle" /\ Idle.day = 0
  BY DEF Idle, Handlers, Labels, Sights, Replies, Days
<1>2. turn' = [turn EXCEPT ![t] = Idle]
  BY DEF Throw
<1>3. /\ lock' \in [Principals -> Turns \cup {NoTurn}]
      /\ \A p \in Principals, u \in Turns \ {t} : lock[p] = u => lock'[p] = u
  BY DEF Throw, Release, IInv, Core, TypeOK
<1>4. Sound(t, Idle, lock')
  BY <1>1 DEF Sound, Winning, Searching, Acting, Confirming, Deciding, Resting, IInv, Core,
              TypeOK, Days
<1>5. Core'
  BY <1>1, <1>2, <1>3, <1>4, TurnStep
<1>6. QuotaInv' /\ DispatchOvershoot'
  BY <1>1, <1>2, <1>3, TurnQuota DEF rows, clock, Resting
<1>. QED
  BY <1>5, <1>6 DEF IInv

\* A turn that answers keeps its lock. h is its handler, with the intent the answer
\* is about.
LEMMA ReplyStep ==
    ASSUME IInv, NEW t \in Turns, NEW h \in Handlers,
           NEW text \in Replies \ {"succeeded", "failed"},
           turn' = [turn EXCEPT ![t] = Answered(h, text)],
           UNCHANGED <<rows, provider, lock, clock, losses>>,
           upsets' \in 0..MaxUpsets, upsets <= upsets',
           text = "cancelled" => h.i \in Intents /\ Status(h.i) = "cancelled",
           text = "grant-denied" =>
              /\ h.i \in Intents /\ Status(h.i) = "prepared" /\ attempt[h.i].outcome = "none"
              /\ \A u \in Turns \ {t} : In(u, Winning) => turn[u].i # h.i,
           losses = 0 /\ text \in {"expired", "capped"} /\ h.i # 0 =>
              /\ h.i \in Intents /\ intent[h.i].owner \in Principals
              /\ lock[intent[h.i].owner] = t /\ Status(h.i) \in {"proposed", "cancelled"}
    PROVE  IInv'
<1> USE CalendarAssumption
<1> DEFINE a == Answered(h, text)
<1>1. /\ a \in Handlers /\ a.pc = "done" /\ a.reply = text /\ a.day = 0
      /\ text \in {"cancelled", "grant-denied", "expired", "capped"} => a.i = h.i
  BY AnsweredFields
<1> HIDE DEF a
<1>2. Sound(t, a, lock')
  BY <1>1 DEF Sound, Winning, Searching, Acting, Confirming, Deciding, Resting, IInv, Core,
              TypeOK, Days
<1>3. Core'
  BY <1>1, <1>2, TurnStep DEF a, IInv, Core, TypeOK
<1>4. QuotaInv' /\ DispatchOvershoot'
  BY <1>1, TurnQuota DEF a, rows, clock, Resting
<1>. QED
  BY <1>3, <1>4 DEF IInv

LEMMA UpsetBound ==
    ASSUME IInv, UNCHANGED upsets \/ Upset
    PROVE  upsets' \in 0..MaxUpsets /\ upsets <= upsets'
BY CalendarAssumption DEF IInv, Core, TypeOK, Upset

LEMMA FinishStep ==
    ASSUME IInv, NEW t \in Turns, Finish(t)
    PROVE  IInv'
BY ThrowStep, UpsetBound DEF Finish

LEMMA SoleStep ==
    ASSUME IInv, NEW t \in Turns, Sole(t)
    PROVE  IInv'
<1>1. turn[t] \in Handlers
  BY DEF IInv, Core, TurnInv
<1>2. PICK text \in {"none", "denied", "ambiguous"} : Reply(t, text)
  BY DEF Sole
<1>3. turn' = [turn EXCEPT ![t] = Answered(turn[t], text)]
  BY <1>2 DEF Reply
<1>4. UNCHANGED <<rows, provider, lock, clock, losses, upsets>>
  BY DEF Sole
<1>5. text \in Replies \ {"succeeded", "failed", "cancelled", "grant-denied", "expired", "capped"}
  BY <1>2 DEF Replies
<1>. QED
  BY <1>1, <1>3, <1>4, <1>5, ReplyStep, UpsetBound

LEMMA CountProposalsStep ==
    ASSUME IInv, NEW t \in Turns, CountProposals(t)
    PROVE  IInv'
<1>1. turn[t] \in Handlers /\ turn[t].i = 0 /\ At(t, "count")
  BY DEF CountProposals, IInv, Core, TurnInv, In, At, Searching
<1>2. UNCHANGED <<rows, provider, lock, clock, losses, upsets>>
  BY DEF CountProposals
<1>3. ASSUME NEW text \in {"refused", "capped"}, Reply(t, text)
      PROVE  IInv'
  <2>1. turn' = [turn EXCEPT ![t] = Answered(turn[t], text)]
    BY <1>3 DEF Reply
  <2>2. text \in Replies \ {"succeeded", "failed", "cancelled", "grant-denied", "expired"}
    BY DEF Replies
  <2>. QED
    BY <1>1, <1>2, <2>1, <2>2, ReplyStep, UpsetBound
<1>4. CASE turn' = [turn EXCEPT ![t].pc = "insert", ![t].day = 0]
  <2> DEFINE h == [turn[t] EXCEPT !.pc = "insert", !.day = 0]
  <2>1. 0 \in Days /\ 0 <= day
    BY CalendarAssumption DEF Days, IInv, Core, TypeOK
  <2>2. /\ h \in Handlers /\ turn' = [turn EXCEPT ![t] = h]
        /\ h.pc = "insert" /\ h.day = 0 /\ h.i = 0 /\ h.who = turn[t].who
    BY <1>1, <1>4, <2>1 DEF Handlers, Labels, IInv, Core, TurnInv
  <2> HIDE DEF h
  <2>3. h.who \in Principals /\ (losses = 0 => lock[h.who] = t) /\ ~In(t, Resting)
    BY <1>1, <2>2 DEF IInv, Core, TurnInv, LockInv, In, At, Resting
  <2>4. Sound(t, h, lock')
    BY <1>2, <2>1, <2>2, <2>3 DEF Sound, Winning, Searching, Acting, Confirming, Deciding
  <2>5. Core'
    <3>1. lock' \in [Principals -> Turns \cup {NoTurn}]
          /\ \A p \in Principals, u \in Turns \ {t} : lock[p] = u => lock'[p] = u
      BY <1>2 DEF IInv, Core, TypeOK
    <3>. QED
      BY <1>2, <2>2, <2>4, <3>1, TurnStep, UpsetBound
  <2>6. QuotaInv' /\ DispatchOvershoot'
    BY <1>2, <2>2, <2>3, TurnQuota DEF rows, clock
  <2>. QED
    BY <2>5, <2>6 DEF IInv
<1>. QED
  BY <1>3, <1>4 DEF CountProposals

LEMMA LookupStep ==
    ASSUME IInv, NEW t \in Turns, Lookup(t)
    PROVE  IInv'
<1>1. /\ turn[t] \in Handlers /\ At(t, "lookup")
      /\ turn[t].verb # "propose" /\ turn[t].tok # NoToken /\ turn[t].who \in Principals
      /\ turn[t].day <= day
      /\ losses = 0 => lock[turn[t].who] = t
      /\ ~In(t, Resting)
  BY DEF Lookup, IInv, Core, TurnInv, LockInv, In, At, Resting
<1>2. UNCHANGED <<rows, provider, lock, clock, losses, upsets>>
  BY DEF Lookup
<1>3. CASE Reply(t, "denied")
  <2>1. turn' = [turn EXCEPT ![t] = Answered(turn[t], "denied")]
    BY <1>3 DEF Reply
  <2>2. "denied" \in Replies \ {"succeeded", "failed"}
    BY DEF Replies
  <2>. QED
    BY <1>1, <1>2, <2>1, <2>2, ReplyStep, UpsetBound
<1>4. ASSUME Carriers(turn[t].tok) # {}
      PROVE  LET i == Newest(turn[t].tok)
             IN  /\ i \in Intents /\ intent[i].token = turn[t].tok
                 /\ [turn[t] EXCEPT !.i = i] \in Handlers
  <2>1. Newest(turn[t].tok) \in Carriers(turn[t].tok)
    BY <1>4, NewestCarries, CalendarAssumption
  <2>. QED
    BY <1>1, <2>1 DEF Carriers, Handlers
<1>5. ASSUME Carriers(turn[t].tok) # {}, NEW i, i = Newest(turn[t].tok),
             Refusal(t, i) # "none",
             turn' = [turn EXCEPT ![t] = Answered([turn[t] EXCEPT !.i = i], Refusal(t, i))]
      PROVE  IInv'
  <2>1. Refusal(t, i) \in {"denied", "cancelled", "already-used"}
        /\ (Refusal(t, i) = "cancelled" => Status(i) = "cancelled")
    BY <1>5 DEF Refusal
  <2>2. Refusal(t, i) \in Replies \ {"succeeded", "failed", "grant-denied", "expired", "capped"}
    BY <2>1 DEF Replies
  <2>3. [turn[t] EXCEPT !.i = i].i = i
    BY <1>1 DEF Handlers
  <2>. QED
    BY <1>2, <1>4, <1>5, <2>1, <2>2, <2>3, ReplyStep, UpsetBound
<1>6. ASSUME Carriers(turn[t].tok) # {}, NEW i, i = Newest(turn[t].tok),
             Refusal(t, i) = "none", NEW next \in {"look", "quota"},
             next = "quota" => turn[t].verb # "cancel" /\ i \notin turn[t].stale,
             turn' = [turn EXCEPT ![t].i = i, ![t].pc = next]
      PROVE  IInv'
  <2> DEFINE h == [turn[t] EXCEPT !.i = i, !.pc = next]
  <2>1. i \in Intents /\ intent[i].token = turn[t].tok
    BY <1>4, <1>6
  <2>2. intent[i].owner = turn[t].who /\ Status(i) = "proposed"
    BY <1>6 DEF Refusal
  <2>3. /\ h \in Handlers /\ turn' = [turn EXCEPT ![t] = h]
        /\ h.pc = next /\ h.i = i /\ h.who = turn[t].who /\ h.verb = turn[t].verb
        /\ h.tok = turn[t].tok /\ h.stale = turn[t].stale /\ h.day = turn[t].day
    BY <1>1, <1>6, <2>1 DEF Handlers, Labels, IInv, Core, TurnInv
  <2>4. next = "quota" => h.verb = "confirm"
    BY <1>1, <1>6, <2>3 DEF Handlers
  <2> HIDE DEF h
  <2>5. Sound(t, h, lock')
    BY <1>1, <1>2, <1>6, <2>1, <2>2, <2>3, <2>4
       DEF Sound, Winning, Searching, Acting, Confirming, Deciding
  <2>6. Core'
    <3>1. lock' \in [Principals -> Turns \cup {NoTurn}]
          /\ \A p \in Principals, u \in Turns \ {t} : lock[p] = u => lock'[p] = u
      BY <1>2 DEF IInv, Core, TypeOK
    <3>. QED
      BY <1>2, <2>3, <2>5, <3>1, TurnStep, UpsetBound
  <2>7. QuotaInv' /\ DispatchOvershoot'
    BY <1>1, <1>2, <1>6, <2>3, TurnQuota DEF rows, clock
  <2>. QED
    BY <2>6, <2>7 DEF IInv
<1>. QED
  BY <1>3, <1>5, <1>6 DEF Lookup

LEMMA CancelReadStep ==
    ASSUME IInv, NEW t \in Turns, CancelRead(t)
    PROVE  IInv'
<1>1. /\ turn[t] \in Handlers /\ At(t, "look")
      /\ turn[t].verb # "propose" /\ turn[t].tok # NoToken /\ turn[t].who \in Principals
      /\ turn[t].day <= day
      /\ turn[t].i \in Intents /\ intent[turn[t].i].owner = turn[t].who
      /\ intent[turn[t].i].token = turn[t].tok
      /\ losses = 0 => lock[turn[t].who] = t /\ Status(turn[t].i) = "proposed"
      /\ ~In(t, Resting)
  BY DEF CancelRead, IInv, Core, TurnInv, ConsentInv, LockInv, In, At, Resting, Acting, Deciding
<1>2. UNCHANGED <<rows, provider, clock, losses, upsets>>
  BY DEF CancelRead
<1>3. CASE Throw(t)
  BY <1>2, <1>3, ThrowStep, UpsetBound
<1>4. ASSUME Status(turn[t].i) \notin {"proposed", "approved"}, Reply(t, "expired"),
             UNCHANGED lock
      PROVE  IInv'
  <2>1. turn' = [turn EXCEPT ![t] = Answered(turn[t], "expired")]
    BY <1>4 DEF Reply
  <2>2. "expired" \in Replies \ {"succeeded", "failed"}
    BY DEF Replies
  <2>. QED
    BY <1>1, <1>2, <1>4, <2>1, <2>2, ReplyStep, UpsetBound
<1>5. ASSUME Status(turn[t].i) \in {"proposed", "approved"}, UNCHANGED lock,
             turn' = [turn EXCEPT ![t].pc = "cancel", ![t].saw = Status(turn[t].i)]
      PROVE  IInv'
  <2> DEFINE h == [turn[t] EXCEPT !.pc = "cancel", !.saw = Status(turn[t].i)]
  <2>1. /\ h \in Handlers /\ turn' = [turn EXCEPT ![t] = h]
        /\ h.pc = "cancel" /\ h.i = turn[t].i /\ h.who = turn[t].who /\ h.verb = turn[t].verb
        /\ h.tok = turn[t].tok /\ h.day = turn[t].day /\ h.saw = Status(turn[t].i)
    BY <1>1, <1>5 DEF Handlers, Labels, Sights, IInv, Core, TurnInv
  <2> HIDE DEF h
  <2>2. Sound(t, h, lock')
    BY <1>1, <1>2, <1>5, <2>1 DEF Sound, Winning, Searching, Acting, Confirming, Deciding
  <2>3. Core'
    <3>1. lock' \in [Principals -> Turns \cup {NoTurn}]
          /\ \A p \in Principals, u \in Turns \ {t} : lock[p] = u => lock'[p] = u
      BY <1>5 DEF IInv, Core, TypeOK
    <3>. QED
      BY <1>2, <2>1, <2>2, <3>1, TurnStep, UpsetBound
  <2>4. QuotaInv' /\ DispatchOvershoot'
    BY <1>1, <1>2, <1>5, <2>1, TurnQuota DEF rows, clock
  <2>. QED
    BY <2>3, <2>4 DEF IInv
<1>. QED
  BY <1>3, <1>4, <1>5 DEF CancelRead

\* The count of the day, and with it every turn counted in before, leaves room for
\* this turn.
LEMMA CountDispatchesStep ==
    ASSUME IInv, NEW t \in Turns, CountDispatches(t)
    PROVE  IInv'
<1> DEFINE w == turn[t].who
<1>1. /\ turn[t] \in Handlers /\ At(t, "quota")
      /\ turn[t].verb = "confirm" /\ turn[t].tok # NoToken /\ w \in Principals
      /\ turn[t].day <= day /\ turn[t].i \notin turn[t].stale
      /\ turn[t].i \in Intents /\ intent[turn[t].i].owner = w
      /\ intent[turn[t].i].token = turn[t].tok
      /\ losses = 0 => lock[w] = t /\ Status(turn[t].i) = "proposed"
      /\ ~In(t, Resting)
  BY DEF CountDispatches, IInv, Core, TurnInv, ConsentInv, LockInv, In, At, Resting, Acting,
         Confirming, Deciding
<1>2. UNCHANGED <<rows, provider, lock, clock, losses, upsets>>
  BY DEF CountDispatches
<1>3. CASE Reply(t, "capped")
  <2>1. turn' = [turn EXCEPT ![t] = Answered(turn[t], "capped")]
    BY <1>3 DEF Reply
  <2>2. "capped" \in Replies \ {"succeeded", "failed"}
    BY DEF Replies
  <2>. QED
    BY <1>1, <1>2, <2>1, <2>2, ReplyStep, UpsetBound
<1>4. ASSUME DispatchedSince(w, turn[t].day) < MaxDispatches,
             turn' = [turn EXCEPT ![t].pc = "approve", ![t].day = 0]
      PROVE  IInv'
  <2> DEFINE h == [turn[t] EXCEPT !.pc = "approve", !.day = 0]
  <2>0. 0 \in Days /\ 0 <= day /\ day \in Days /\ losses \in Nat /\ MaxDispatches \in Nat
    BY CalendarAssumption DEF Days, IInv, Core, TypeOK
  <2>1. /\ h \in Handlers /\ turn' = [turn EXCEPT ![t] = h]
        /\ h.pc = "approve" /\ h.i = turn[t].i /\ h.who = w /\ h.verb = turn[t].verb
        /\ h.tok = turn[t].tok /\ h.day = 0 /\ h.stale = turn[t].stale
    BY <1>1, <1>4, <2>0 DEF Handlers, Labels, IInv, Core, TurnInv
  <2> HIDE DEF h
  <2>2. Sound(t, h, lock')
    BY <1>1, <1>2, <2>0, <2>1 DEF Sound, Winning, Searching, Acting, Confirming, Deciding
  <2>3. Core'
    <3>1. lock' \in [Principals -> Turns \cup {NoTurn}]
          /\ \A p \in Principals, u \in Turns \ {t} : lock[p] = u => lock'[p] = u
      BY <1>2 DEF IInv, Core, TypeOK
    <3>. QED
      BY <1>2, <2>1, <2>2, <3>1, TurnStep, UpsetBound
  <2>4. turn'[t] = h /\ \A u \in Turns : u # t => turn'[u] = turn[u]
    BY <2>1 DEF IInv, Core, TurnInv
  <2>5. \A p : Dispatched(p, day)' = Dispatched(p, day)
    BY <1>2 DEF Dispatched, rows, clock
  <2>6. \A p \in Principals : Unlocked(p)' \subseteq Unlocked(p)
    BY <1>1, <1>2, <2>1, <2>4 DEF Unlocked, In, Resting
  <2>7. Cardinality(Dispatched(w, day)) < MaxDispatches
        /\ Cardinality(Dispatched(w, day)) \in Nat
    <3> DEFINE S == {i \in Intents : /\ intent[i].owner = w /\ attempt[i].outcome # "none"
                                     /\ attempt[i].day >= turn[t].day}
    <3>1. Dispatched(w, day) \subseteq S /\ S \subseteq Intents
      BY <1>1 DEF Dispatched
    <3>2. Cardinality(S) < MaxDispatches
      BY <1>4 DEF DispatchedSince
    <3> HIDE DEF S
    <3>3. /\ Cardinality(Dispatched(w, day)) \in Nat /\ Cardinality(S) \in Nat
          /\ Cardinality(Dispatched(w, day)) <= Cardinality(S)
      BY <3>1, Fewer
    <3>. QED
      BY <2>0, <3>2, <3>3
  <2>8. Cardinality(InFlight(w)') <= losses + 1 /\ Cardinality(InFlight(w)') \in Nat
    <3> DEFINE U == Unlocked(w) \cup {lock[w]}
    <3>0. U = Unlocked(w) \cup {lock[w]}
      OBVIOUS
    <3>1. InFlight(w)' \subseteq U
      BY <1>1, <2>1, <2>4 DEF InFlight, Unlocked, In, Resting
    <3> HIDE DEF U
    <3>2. Unlocked(w) \subseteq Turns
      BY DEF Unlocked
    <3>3. IsFiniteSet(U) /\ Cardinality(U) <= Cardinality(Unlocked(w)) + 1
          /\ Cardinality(Unlocked(w)) \in Nat
      <4>1. IsFiniteSet(Unlocked(w))
        BY <3>2, FiniteSubsets
      <4>2. Cardinality(Unlocked(w)) \in Nat
        BY <4>1, FS_CardinalityType
      <4>3. /\ IsFiniteSet(U)
            /\ Cardinality(U) = Cardinality(Unlocked(w)) \/ Cardinality(U) = Cardinality(Unlocked(w)) + 1
        BY <3>0, <4>1, FS_AddElement
      <4>. QED
        BY <4>2, <4>3
    <3>4. Cardinality(Unlocked(w)) <= losses
      BY <1>1 DEF IInv, QuotaInv
    <3>5. IsFiniteSet(InFlight(w)') /\ Cardinality(InFlight(w)') <= Cardinality(U)
      BY <3>1, <3>3, FS_Subset
    <3>6. Cardinality(U) \in Nat /\ Cardinality(InFlight(w)') \in Nat
      BY <3>3, <3>5, FS_CardinalityType
    <3>. QED
      BY <2>0, <3>3, <3>4, <3>5, <3>6
  <2> HIDE DEF w
  <2>9. ASSUME NEW p \in Principals
        PROVE  /\ Cardinality(Unlocked(p)') <= losses
               /\ Cardinality(Dispatched(p, day)') + Cardinality(InFlight(p)')
                     <= MaxDispatches + losses
    <3>1. Cardinality(Unlocked(p)') <= losses
      <4>1. Unlocked(p) \subseteq Turns
        BY DEF Unlocked
      <4>2. Cardinality(Unlocked(p)) <= losses
        BY DEF IInv, QuotaInv
      <4>3. Unlocked(p)' \subseteq Unlocked(p)
        BY <2>6
      <4>4. /\ Cardinality(Unlocked(p)') \in Nat /\ Cardinality(Unlocked(p)) \in Nat
            /\ Cardinality(Unlocked(p)') <= Cardinality(Unlocked(p))
        BY <4>1, <4>3, Fewer
      <4>. QED
        BY <2>0, <4>2, <4>4
    <3>2. CASE p = w
      <4>1. Cardinality(Dispatched(p, day)') < MaxDispatches
            /\ Cardinality(Dispatched(p, day)') \in Nat
        BY <2>5, <2>7, <3>2
      <4>2. Cardinality(InFlight(p)') <= losses + 1 /\ Cardinality(InFlight(p)') \in Nat
        <5>0. w' = p
          BY <2>1, <2>4, <3>2 DEF w
        <5>1. InFlight(p)' = InFlight(w)'
          BY <5>0 DEF InFlight, In
        <5>. QED
          BY <2>8, <5>1
      <4>. QED
        BY <2>0, <3>1, <4>1, <4>2
    <3>3. CASE p # w
      <4>1. InFlight(p)' = InFlight(p)
        BY <2>1, <2>4, <3>3 DEF InFlight, In, w
      <4>. QED
        BY <2>5, <3>1, <4>1 DEF IInv, QuotaInv
    <3>. QED
      BY <3>2, <3>3
  <2>10. QuotaInv'
    BY <1>2, <2>9 DEF IInv, QuotaInv, rows, clock
  <2>11. DispatchOvershoot'
    BY <1>2 DEF IInv, DispatchOvershoot, rows
  <2>. QED
    BY <2>3, <2>10, <2>11 DEF IInv
<1>. QED
  <2>1. DispatchedSince(w, turn[t].day) \in Nat /\ MaxDispatches \in Nat
    BY FiniteSubsets, FS_CardinalityType, CalendarAssumption DEF DispatchedSince
  <2>. QED
    BY <1>3, <1>4, <2>1 DEF CountDispatches

-----------------------------------------------------------------------------
(* The steps that write a row *)

\* No turn speaks of a row that is not inserted yet.
LEMMA InsertIntentStep ==
    ASSUME IInv, NEW t \in Turns, InsertIntent(t)
    PROVE  IInv'
<1> USE DEF IInv, Core
<1>1. /\ turn[t] \in Handlers /\ At(t, "insert") /\ ~In(t, Resting)
      /\ turn[t].who \in Principals /\ turn[t].day <= day
      /\ losses = 0 => lock[turn[t].who] = t
  BY DEF InsertIntent, TurnInv, LockInv, In, At, Resting
<1>2. UNCHANGED <<attempt, spilled, provider, lock, clock, losses, upsets>>
  BY DEF InsertIntent
<1>3. PICK i \in Intents :
        /\ Status(i) = "none"
        /\ intent' = [intent EXCEPT ![i] = [NoIntent EXCEPT !.status = "proposed",
                                              !.owner = turn[t].who, !.born = day]]
        /\ turn' = [turn EXCEPT ![t].pc = "mint", ![t].i = i]
  BY DEF InsertIntent
<1> DEFINE h == [turn[t] EXCEPT !.pc = "mint", !.i = i]
<1>4. /\ h \in Handlers /\ turn' = [turn EXCEPT ![t] = h]
      /\ h.pc = "mint" /\ h.i = i /\ h.who = turn[t].who /\ h.day = turn[t].day
  BY <1>1, <1>3 DEF Handlers, Labels, TurnInv
<1> HIDE DEF h
<1>5. turn'[t] = h /\ \A u \in Turns : u # t => turn'[u] = turn[u]
  BY <1>4 DEF TurnInv
<1>6. /\ intent' \in [Intents -> [status : {"none", "proposed", "approved", "prepared", "cancelled"},
                                  owner : Principals \cup {Nobody},
                                  token : Tokens \cup {NoToken}, born : Days]]
      /\ intent'[i].status = "proposed" /\ intent'[i].token = NoToken
      /\ intent'[i].owner = turn[t].who
      /\ \A j \in Intents : j # i => intent'[j] = intent[j]
  BY <1>1, <1>3 DEF TypeOK, NoIntent
<1>7. attempt[i].outcome = "none" /\ intent[i].token = NoToken
  BY <1>3 DEF TypeOK, RowInv
<1>8. ASSUME NEW u \in Turns, In(u, Acting \cup {"mint"})
      PROVE  turn[u].i # i /\ turn[u].i \in Intents
  BY <1>3, <1>7, <1>8 DEF TurnInv, RowInv, ConsentInv, In, At
<1>9. TypeOK'
  BY <1>2, <1>6, <1>7 DEF TypeOK, Status, provider, clock
<1>10. TurnInv'
  BY <1>1, <1>2, <1>4, <1>5 DEF TurnInv, In, At, Searching, Acting, clock
<1>11. RowInv'
  <2>1. \A u \in Turns : At(u, "mint") => turn[u].i # i /\ turn[u].i \in Intents
    BY <1>8 DEF In, At
  <2>2. \A j \in Intents : Status(j)' = "none" => intent'[j].token = NoToken
    BY <1>6 DEF RowInv, Status
  <2>3. \A u \in Turns :
           At(u, "mint")' => /\ turn'[u].i \in Intents /\ Status(turn[u].i)' # "none"
                             /\ intent'[turn'[u].i].token = NoToken
    BY <1>4, <1>5, <1>6, <2>1 DEF RowInv, At, Status
  <2>4. \A u, v \in Turns :
           At(u, "mint")' /\ At(v, "mint")' /\ turn'[u].i = turn'[v].i => u = v
    BY <1>4, <1>5, <2>1 DEF RowInv, At
  <2>. QED
    BY <2>2, <2>3, <2>4 DEF RowInv
<1>12. ConsentInv'
  <2>1. h.pc \notin Acting /\ h.pc \notin Confirming /\ h.pc # "cancel"
    BY <1>4 DEF Acting, Confirming
  <2>2. \A u \in Turns : In(u, Acting) => turn[u].i # i
    BY <1>8 DEF In
  <2>. QED
    BY <1>5, <1>6, <2>1, <2>2 DEF ConsentInv, In, At
<1>13. WinnerInv'
  <2>1. h.pc \notin Winning
    BY <1>4 DEF Winning
  <2>2. \A u \in Turns : In(u, Winning) => turn[u].i # i /\ turn[u].i \in Intents
    BY <1>8 DEF In, Winning, Acting
  <2>. QED
    BY <1>2, <1>5, <1>6, <2>1, <2>2 DEF WinnerInv, In, At, Status, Nothing, provider, Winning
<1>14. EffectInv' /\ AtMostOneEvent' /\ OutcomesAreHonest'
  BY <1>2 DEF EffectInv, AtMostOneEvent, OutcomesAreHonest, Nothing, provider
<1>15. AnswerInv'
  <2>1. h.pc \notin Winning /\ h.pc # "done"
    BY <1>4 DEF Winning
  <2>2. ASSUME NEW u \in Turns, At(u, "done"), turn[u].reply \in {"cancelled", "grant-denied"}
        PROVE  turn[u].i \in Intents /\ intent'[turn[u].i] = intent[turn[u].i]
    BY <1>3, <1>6, <2>2 DEF AnswerInv, Status
  <2>3. ASSUME NEW u \in Turns, At(u, "done")'
        PROVE  turn'[u] = turn[u] /\ At(u, "done")
    BY <1>5, <2>1, <2>3 DEF At
  <2>4. ASSUME NEW u \in Turns, In(u, Winning)'
        PROVE  turn'[u] = turn[u] /\ In(u, Winning)
    BY <1>5, <2>1, <2>4 DEF In
  <2>5. ASSUME NEW u \in Turns, At(u, "done")'
        PROVE  /\ turn'[u].reply \in {"succeeded", "failed", "cancelled", "grant-denied"} =>
                     turn'[u].i \in Intents
               /\ turn'[u].reply = "succeeded" => events'[turn'[u].i] = 1
               /\ turn'[u].reply = "failed" => attempt'[turn'[u].i].outcome = "failed"
               /\ turn'[u].reply = "cancelled" => Status(turn[u].i)' = "cancelled"
               /\ turn'[u].reply = "grant-denied" =>
                     /\ Status(turn[u].i)' = "prepared" /\ attempt'[turn'[u].i].outcome = "none"
                     /\ \A v \in Turns : In(v, Winning)' => turn'[v].i # turn'[u].i
    BY <1>2, <2>2, <2>3, <2>4, <2>5 DEF AnswerInv, Status, provider
  <2>. QED
    BY <2>5 DEF AnswerInv
<1>16. LockInv'
  <2>1. h.pc \notin Deciding /\ h.pc # "done" /\ h.pc # "cancel"
    BY <1>4 DEF Deciding
  <2>2. \A u \in Turns : In(u, Deciding) => turn[u].i # i /\ turn[u].i \in Intents
    BY <1>8 DEF In, Deciding, Acting
  <2>3. ASSUME losses = 0, NEW u \in Turns, ~In(u, Resting)'
        PROVE  lock'[turn'[u].who] = u
    BY <1>1, <1>2, <1>4, <1>5, <2>3 DEF LockInv, In
  <2>4. ASSUME losses = 0, NEW u \in Turns, In(u, Deciding)'
        PROVE  Status(turn[u].i)' = "proposed" /\ (At(u, "cancel")' => turn'[u].saw = "proposed")
    BY <1>5, <1>6, <2>1, <2>2, <2>4 DEF LockInv, In, At, Status
  <2>5. ASSUME losses = 0, NEW u \in Turns, At(u, "done")',
               turn'[u].reply \in {"expired", "capped"}, turn'[u].i # 0
        PROVE  /\ turn'[u].i \in Intents /\ intent'[turn'[u].i].owner \in Principals
               /\ lock'[intent'[turn'[u].i].owner] = u
               /\ Status(turn[u].i)' \in {"proposed", "cancelled"}
    <3>1. turn'[u] = turn[u] /\ At(u, "done")
      BY <1>5, <2>1, <2>5 DEF At
    <3>2. /\ turn[u].i \in Intents /\ Status(turn[u].i) \in {"proposed", "cancelled"}
          /\ intent[turn[u].i].owner \in Principals /\ lock[intent[turn[u].i].owner] = u
      BY <2>5, <3>1 DEF LockInv
    <3>. QED
      BY <1>2, <1>3, <1>6, <3>1, <3>2 DEF Status
  <2>. QED
    BY <1>2, <2>3, <2>4, <2>5 DEF LockInv, In, At, Deciding
<1>17. QuotaInv' /\ DispatchOvershoot'
  <2>1. \A j \in Intents : attempt'[j].outcome # "none" =>
           /\ attempt[j].outcome # "none" /\ attempt'[j].day = attempt[j].day
           /\ intent'[j].owner = intent[j].owner
    BY <1>2, <1>6, <1>7
  <2>. QED
    BY <1>1, <1>2, <1>4, <2>1, TurnQuota DEF clock
<1>. QED
  BY <1>9, <1>10, <1>11, <1>12, <1>13, <1>14, <1>15, <1>16, <1>17

\* The code goes to a row that has none, so no turn holds the row by its code.
LEMMA MintTokenStep ==
    ASSUME IInv, NEW t \in Turns, MintToken(t)
    PROVE  IInv'
<1> USE DEF IInv, Core
<1> DEFINE i == turn[t].i
<1>1. /\ turn[t] \in Handlers /\ At(t, "mint")
      /\ i \in Intents /\ Status(i) # "none" /\ intent[i].token = NoToken
  BY DEF MintToken, TurnInv, RowInv
<1>2. UNCHANGED <<attempt, spilled, provider, lock, clock, losses, upsets>>
  BY DEF MintToken
<1>3. PICK tok \in Tokens : intent' = [intent EXCEPT ![i].token = tok]
  BY DEF MintToken
<1> DEFINE h == Answered(turn[t], "proposed")
<1>4. /\ h \in Handlers /\ turn' = [turn EXCEPT ![t] = h]
      /\ h.pc = "done" /\ h.reply = "proposed" /\ h.day = 0
  BY <1>1, AnsweredFields DEF MintToken, Reply, Replies
<1> HIDE DEF h
<1>5. turn'[t] = h /\ \A u \in Turns : u # t => turn'[u] = turn[u]
  BY <1>4 DEF TurnInv
<1>6. /\ intent' \in [Intents -> [status : {"none", "proposed", "approved", "prepared", "cancelled"},
                                  owner : Principals \cup {Nobody},
                                  token : Tokens \cup {NoToken}, born : Days]]
      /\ \A j \in Intents : /\ intent'[j].status = intent[j].status
                            /\ intent'[j].owner = intent[j].owner
                            /\ j # i => intent'[j].token = intent[j].token
  BY <1>1, <1>3 DEF TypeOK
<1>7. ASSUME NEW u \in Turns, In(u, Acting) \/ (u # t /\ At(u, "mint"))
      PROVE  turn[u].i # i /\ turn[u].i \in Intents
  BY <1>1, <1>7 DEF TurnInv, RowInv, ConsentInv, In, At
<1> HIDE DEF i
<1>8. TypeOK'
  BY <1>2, <1>6 DEF TypeOK, Status, provider, clock
<1>9. TurnInv'
  <2>1. 0 <= day
    BY CalendarAssumption DEF TypeOK, Days
  <2>. QED
    BY <1>2, <1>4, <1>5, <2>1 DEF TurnInv, In, At, Searching, Acting, clock
<1>10. RowInv'
  BY <1>1, <1>4, <1>5, <1>6, <1>7 DEF RowInv, At, Status
<1>11. ConsentInv'
  <2>1. h.pc \notin Acting /\ h.pc \notin Confirming /\ h.pc # "cancel"
    BY <1>4 DEF Acting, Confirming
  <2>. QED
    BY <1>5, <1>6, <1>7, <2>1 DEF ConsentInv, In, At
<1>12. WinnerInv'
  <2>1. h.pc \notin Winning
    BY <1>4 DEF Winning
  <2>2. \A u \in Turns : In(u, Winning) => turn[u].i \in Intents
    BY <1>7 DEF In, Winning, Acting
  <2>. QED
    BY <1>2, <1>5, <1>6, <2>1, <2>2 DEF WinnerInv, In, At, Status, Nothing, provider, Winning
<1>13. EffectInv' /\ AtMostOneEvent' /\ OutcomesAreHonest'
  BY <1>2 DEF EffectInv, AtMostOneEvent, OutcomesAreHonest, Nothing, provider
<1>14. AnswerInv'
  <2>1. h.pc \notin Winning
    BY <1>4 DEF Winning
  <2>. QED
    BY <1>2, <1>4, <1>5, <1>6, <2>1 DEF AnswerInv, In, At, Status, provider
<1>15. LockInv'
  <2>1. h.pc \notin Deciding /\ h.pc # "cancel"
    BY <1>4 DEF Deciding
  <2>2. \A u \in Turns : In(u, Deciding) => turn[u].i \in Intents
    BY <1>7 DEF In, Deciding, Acting
  <2>. QED
    BY <1>2, <1>4, <1>5, <1>6, <2>1, <2>2 DEF LockInv, In, At, Status, Resting
<1>16. QuotaInv' /\ DispatchOvershoot'
  BY <1>2, <1>4, <1>6, TurnQuota DEF clock, Resting
<1>. QED
  BY <1>8, <1>9, <1>10, <1>11, <1>12, <1>13, <1>14, <1>15, <1>16

\* A turn moves the status of the row it acts on, which has no attempt yet: it
\* approves a proposed intent, prepares the one it approved, or cancels one of the
\* two and says so. Nobody past the approval relies on the status it leaves, and
\* before a lock is lost no other turn acts on the row.
LEMMA StatusStep ==
    ASSUME IInv, NEW t \in Turns, NEW h \in Handlers, turn' = [turn EXCEPT ![t] = h],
           NEW s \in {"approved", "prepared", "cancelled"},
           intent' = [intent EXCEPT ![turn[t].i].status = s],
           UNCHANGED <<attempt, spilled, provider, lock, clock, losses, upsets>>,
           In(t, {"cancel", "approve", "prepare"}),
           Status(turn[t].i) \in {"proposed", "approved"},
           h.day <= day, h.i = turn[t].i,
           \/ /\ h.pc = "prepare" /\ s = "approved"
              /\ At(t, "approve") /\ Status(turn[t].i) = "proposed"
           \/ h.pc = "attempt" /\ s = "prepared" /\ At(t, "prepare")
           \/ h.pc = "done" /\ s = "cancelled" /\ h.reply \in {"expired", "cancelled"},
           h.pc # "done" => /\ h.who = turn[t].who /\ h.verb = turn[t].verb
                            /\ h.tok = turn[t].tok /\ h.stale = turn[t].stale
    PROVE  IInv'
<1> USE DEF IInv, Core
<1> DEFINE i == turn[t].i
<1>1. /\ In(t, Acting) /\ ~In(t, Resting) /\ ~At(t, "done") /\ ~At(t, "mint")
      /\ i \in Intents /\ intent[i].owner = turn[t].who /\ turn[t].who \in Principals
      /\ intent[i].token = turn[t].tok /\ turn[t].tok # NoToken /\ turn[t].verb # "propose"
      /\ losses = 0 => lock[turn[t].who] = t
      /\ At(t, "approve") => turn[t].verb = "confirm" /\ i \notin turn[t].stale
      /\ At(t, "prepare") => turn[t].verb = "confirm" /\ i \notin turn[t].stale
  BY DEF TurnInv, ConsentInv, LockInv, In, At, Acting, Confirming, Resting
<1>2. turn'[t] = h /\ \A u \in Turns : u # t => turn'[u] = turn[u]
  BY DEF TurnInv
<1>3. /\ intent' \in [Intents -> [status : {"none", "proposed", "approved", "prepared", "cancelled"},
                                  owner : Principals \cup {Nobody},
                                  token : Tokens \cup {NoToken}, born : Days]]
      /\ intent'[i].status = s
      /\ \A j \in Intents : /\ intent'[j].owner = intent[j].owner
                            /\ intent'[j].token = intent[j].token
                            /\ j # i => intent'[j] = intent[j]
  <2>1. s \in {"none", "proposed", "approved", "prepared", "cancelled"}
    OBVIOUS
  <2>2. intent' = [intent EXCEPT ![i].status = s]
    OBVIOUS
  <2> HIDE DEF i
  <2>3. /\ i \in Intents /\ intent'[i] = [intent[i] EXCEPT !.status = s]
        /\ intent[i] \in [status : {"none", "proposed", "approved", "prepared", "cancelled"},
                          owner : Principals \cup {Nobody},
                          token : Tokens \cup {NoToken}, born : Days]
    BY <1>1, <2>2 DEF TypeOK
  <2>4. /\ [intent[i] EXCEPT !.status = s]
              \in [status : {"none", "proposed", "approved", "prepared", "cancelled"},
                   owner : Principals \cup {Nobody},
                   token : Tokens \cup {NoToken}, born : Days]
        /\ intent'[i].status = s /\ intent'[i].owner = intent[i].owner
        /\ intent'[i].token = intent[i].token
    BY <2>1, <2>3
  <2>5. /\ DOMAIN intent = Intents /\ DOMAIN intent' = Intents
        /\ intent' = [j \in Intents |-> intent'[j]]
        /\ \A j \in Intents : j # i => intent'[j] = intent[j]
    BY <2>2 DEF TypeOK
  <2>6. \A j \in Intents :
           intent'[j] \in [status : {"none", "proposed", "approved", "prepared", "cancelled"},
                           owner : Principals \cup {Nobody},
                           token : Tokens \cup {NoToken}, born : Days]
    BY <2>3, <2>4, <2>5 DEF TypeOK
  <2>. QED
    BY <2>3, <2>4, <2>5, <2>6
<1>4. attempt[i].outcome = "none"
  BY <1>1 DEF TypeOK
<1>5. h.pc \in {"prepare", "attempt", "done"} /\ h.i = i
  OBVIOUS
<1> HIDE DEF i
<1>6. TypeOK'
  BY <1>1, <1>3, <1>4 DEF TypeOK, Status, provider, clock
<1>7. TurnInv'
  BY <1>1, <1>2, <1>5 DEF TurnInv, In, At, Searching, Acting, clock
<1>8. RowInv'
  <2>1. \A j \in Intents : Status(j)' = "none" => intent'[j].token = NoToken
    BY <1>1, <1>3 DEF RowInv, Status
  <2>2. ASSUME NEW u \in Turns, At(u, "mint")'
        PROVE  turn'[u] = turn[u] /\ At(u, "mint")
    BY <1>2, <1>5, <2>2 DEF At
  <2>3. \A j \in Intents : Status(j)' = "none" => Status(j) = "none"
    BY <1>3 DEF Status
  <2>. QED
    BY <1>3, <2>1, <2>2, <2>3 DEF RowInv, Status
<1>9. ConsentInv'
  <2>1. h.pc # "done" => /\ h.verb = "confirm" /\ i \notin h.stale
                         /\ h.who = turn[t].who /\ h.tok = turn[t].tok
    BY <1>1
  <2>2. h.pc # "cancel" /\ (h.pc = "done" => h.pc \notin Acting /\ h.pc \notin Confirming)
    BY <1>5 DEF Acting, Confirming
  <2>. QED
    BY <1>1, <1>2, <1>3, <1>5, <2>1, <2>2 DEF ConsentInv, In, At
<1>10. ASSUME NEW u \in Turns, In(u, Winning)
       PROVE  /\ turn[u].i \in Intents
              /\ turn[u].i = i => /\ At(u, "prepare")
                                  /\ Status(i) = "approved"
  BY <1>1, <1>4, <1>10 DEF WinnerInv, ConsentInv, In, At, Winning, Acting, i
<1>11. ASSUME NEW u \in Turns \ {t}, In(u, Winning), h.pc # "done"
       PROVE  turn[u].i # i
  BY <1>10, <1>11 DEF WinnerInv, In, At, Winning, i
<1>12. WinnerInv'
  <2>1. ASSUME NEW u \in Turns, NEW v \in Turns, In(u, Winning)', In(v, Winning)',
               turn'[u].i = turn'[v].i
        PROVE  u = v
    <3>1. CASE h.pc = "done"
      BY <1>2, <2>1, <3>1 DEF WinnerInv, In, Winning
    <3>2. CASE h.pc # "done"
      BY <1>2, <1>5, <1>11, <2>1, <3>2 DEF WinnerInv, In
    <3>. QED
      BY <3>1, <3>2
  <2>2. ASSUME NEW u \in Turns, In(u, Winning)'
        PROVE  /\ At(u, "prepare")' => Status(turn[u].i)' \in {"approved", "cancelled"}
               /\ At(u, "attempt")' => /\ Status(turn[u].i)' = "prepared"
                                       /\ attempt'[turn'[u].i].outcome = "none"
               /\ At(u, "post")' => attempt'[turn'[u].i].outcome = "executing" /\ Nothing(turn[u].i)'
               /\ At(u, "record")' =>
                     /\ attempt'[turn'[u].i].outcome = "executing"
                     /\ turn'[u].saw \in {"succeeded", "unknown", "failed"}
                     /\ turn'[u].saw = "succeeded" => events'[turn'[u].i] = 1
                     /\ turn'[u].saw = "failed" => Nothing(turn[u].i)'
    <3>1. CASE u = t
      BY <1>2, <1>3, <1>4, <1>5, <3>1 DEF At, Status, i
    <3>2. CASE u # t /\ turn[u].i = i
      <4>1. turn'[u] = turn[u] /\ In(u, Winning)
        BY <1>2, <2>2, <3>2 DEF In
      <4>2. h.pc = "done" /\ At(u, "prepare")
        BY <1>10, <1>11, <3>2, <4>1
      <4>. QED
        BY <1>3, <3>2, <4>1, <4>2 DEF At, Status
    <3>3. CASE u # t /\ turn[u].i # i
      <4>1. turn'[u] = turn[u] /\ In(u, Winning)
        BY <1>2, <2>2, <3>3 DEF In
      <4>2. intent'[turn[u].i] = intent[turn[u].i]
        BY <1>3, <1>10, <3>3, <4>1
      <4>3. /\ attempt' = attempt /\ events' = events /\ flying' = flying
            /\ Status(turn[u].i)' = Status(turn[u].i)
        BY <4>1, <4>2 DEF Status, provider
      <4>. QED
        BY <4>1, <4>3 DEF WinnerInv, At, Nothing
    <3>. QED
      BY <3>1, <3>2, <3>3
  <2>. QED
    BY <2>1, <2>2 DEF WinnerInv, In, At, Winning
<1>13. EffectInv' /\ AtMostOneEvent' /\ OutcomesAreHonest'
  BY DEF EffectInv, AtMostOneEvent, OutcomesAreHonest, Nothing, provider
<1>14. AnswerInv'
  <2>1. ASSUME NEW u \in Turns \ {t}, At(u, "done")'
        PROVE  turn'[u] = turn[u] /\ At(u, "done")
    BY <1>2, <2>1 DEF At
  <2>2. ASSUME NEW u \in Turns \ {t}, At(u, "done"),
               turn[u].reply \in {"cancelled", "grant-denied"}
        PROVE  /\ turn[u].i \in Intents /\ turn[u].i # i
               /\ intent'[turn[u].i] = intent[turn[u].i]
    <3>1. turn[u].i \in Intents /\ turn[u].i # i
      BY <2>2 DEF AnswerInv, i
    <3>. QED
      BY <1>3, <3>1
  <2>3. ASSUME NEW v \in Turns, In(v, Winning)'
        PROVE  turn'[v].i = i \/ (turn'[v].i = turn[v].i /\ In(v, Winning))
    BY <1>2, <1>5, <2>3 DEF In
  <2>4. ASSUME NEW u \in Turns, At(u, "done")'
        PROVE  /\ turn'[u].reply \in {"succeeded", "failed", "cancelled", "grant-denied"} =>
                     turn'[u].i \in Intents
               /\ turn'[u].reply = "succeeded" => events'[turn'[u].i] = 1
               /\ turn'[u].reply = "failed" => attempt'[turn'[u].i].outcome = "failed"
               /\ turn'[u].reply = "cancelled" => Status(turn[u].i)' = "cancelled"
               /\ turn'[u].reply = "grant-denied" =>
                     /\ Status(turn[u].i)' = "prepared" /\ attempt'[turn'[u].i].outcome = "none"
                     /\ \A v \in Turns : In(v, Winning)' => turn'[v].i # turn'[u].i
    <3>1. CASE u = t
      <4>1. h.pc = "done"
        BY <1>2, <2>4, <3>1 DEF At
      <4>2. /\ turn'[u].reply \in {"expired", "cancelled"} /\ turn'[u].i = i
            /\ Status(turn[u].i)' = "cancelled"
        BY <1>2, <1>3, <1>5, <3>1, <4>1 DEF Status
      <4>. QED
        BY <1>1, <4>2
    <3>2. CASE u # t
      <4>1. turn'[u] = turn[u] /\ At(u, "done")
        BY <2>1, <2>4, <3>2
      <4>. QED
        BY <2>2, <2>3, <3>2, <4>1 DEF AnswerInv, Status, provider
    <3>. QED
      BY <3>1, <3>2
  <2>. QED
    BY <2>4 DEF AnswerInv
<1>15. LockInv'
  <2>1. ASSUME losses = 0, NEW u \in Turns \ {t}, In(u, Deciding)
        PROVE  turn[u].i # i /\ turn[u].i \in Intents
    BY <1>1, <2>1 DEF LockInv, ConsentInv, In, Deciding, Acting, Resting, i
  <2>2. ASSUME losses = 0, NEW u \in Turns, ~In(u, Resting)'
        PROVE  lock'[turn'[u].who] = u
    BY <1>1, <1>2, <1>5, <2>2 DEF LockInv, In, Resting
  <2>3. ASSUME losses = 0, NEW u \in Turns, In(u, Deciding)'
        PROVE  Status(turn[u].i)' = "proposed" /\ (At(u, "cancel")' => turn'[u].saw = "proposed")
    <3>1. u # t /\ turn'[u] = turn[u] /\ In(u, Deciding)
      BY <1>2, <1>5, <2>3 DEF In, Deciding
    <3>. QED
      BY <1>3, <2>1, <2>3, <3>1 DEF LockInv, At, Status
  <2>4. ASSUME losses = 0, NEW u \in Turns, At(u, "done")',
               turn'[u].reply \in {"expired", "capped"}, turn'[u].i # 0
        PROVE  /\ turn'[u].i \in Intents /\ intent'[turn'[u].i].owner \in Principals
               /\ lock'[intent'[turn'[u].i].owner] = u
               /\ Status(turn[u].i)' \in {"proposed", "cancelled"}
    <3>1. CASE u = t
      <4>1. turn'[u].i = i /\ s = "cancelled"
        BY <1>2, <1>5, <2>4, <3>1 DEF At
      <4>. QED
        BY <1>1, <1>3, <2>4, <3>1, <4>1 DEF Status
    <3>2. CASE u # t
      <4>1. turn'[u] = turn[u] /\ At(u, "done")
        BY <1>2, <2>4, <3>2 DEF At
      <4>2. /\ turn[u].i \in Intents /\ Status(turn[u].i) \in {"proposed", "cancelled"}
            /\ intent[turn[u].i].owner \in Principals /\ lock[intent[turn[u].i].owner] = u
        BY <2>4, <4>1 DEF LockInv
      <4>3. turn[u].i # i
        BY <1>1, <2>4, <3>2, <4>2
      <4>. QED
        BY <1>3, <4>1, <4>2, <4>3 DEF Status
    <3>. QED
      BY <3>1, <3>2
  <2>. QED
    BY <2>2, <2>3, <2>4 DEF LockInv, In, At, Deciding
<1>16. QuotaInv' /\ DispatchOvershoot'
  <2>1. \/ h.pc \in Resting
        \/ /\ UNCHANGED lock /\ h.who = turn[t].who /\ ~In(t, Resting)
           /\ h.pc \in {"approve", "prepare", "attempt"} =>
                 In(t, {"approve", "prepare", "attempt"})
    BY <1>1 DEF Resting, In, At
  <2>2. \A j \in Intents : attempt'[j].outcome # "none" =>
           /\ attempt[j].outcome # "none" /\ attempt'[j].day = attempt[j].day
           /\ intent'[j].owner = intent[j].owner
    BY <1>3
  <2>. QED
    BY <2>1, <2>2, TurnQuota DEF clock
<1>. QED
  BY <1>6, <1>7, <1>8, <1>9, <1>12, <1>13, <1>14, <1>15, <1>16

LEMMA CancelWriteStep ==
    ASSUME IInv, NEW t \in Turns, CancelWrite(t)
    PROVE  IInv'
<1> DEFINE i == turn[t].i
<1>1. /\ turn[t] \in Handlers /\ At(t, "cancel") /\ i \in Intents
      /\ turn[t].verb \in {"confirm", "cancel"} /\ turn[t].saw \in {"proposed", "approved"}
      /\ losses = 0 => Status(i) = "proposed" /\ turn[t].saw = "proposed"
  BY DEF CancelWrite, IInv, Core, TurnInv, ConsentInv, LockInv, Handlers, In, At, Acting, Deciding
<1>2. UNCHANGED <<attempt, spilled, provider, clock, losses, upsets>>
  BY DEF CancelWrite
<1>3. CASE Status(i) # turn[t].saw
  <2>1. UNCHANGED intent /\ losses # 0
    BY <1>1, <1>3 DEF CancelWrite
  <2>2. CASE turn[t].verb = "confirm"
    <3>1. turn' = [turn EXCEPT ![t] = Answered(turn[t], "expired")] /\ UNCHANGED lock
      BY <2>2 DEF CancelWrite, Reply
    <3>2. "expired" \in Replies \ {"succeeded", "failed"}
      BY DEF Replies
    <3>. QED
      BY <1>1, <1>2, <2>1, <3>1, <3>2, ReplyStep, UpsetBound DEF rows
  <2>3. CASE turn[t].verb = "cancel"
    <3>1. Throw(t)
      BY <1>3, <2>3 DEF CancelWrite
    <3>. QED
      BY <1>2, <2>1, <3>1, ThrowStep, UpsetBound DEF rows
  <2>. QED
    BY <1>1, <2>2, <2>3
<1>4. CASE Status(i) = turn[t].saw
  <2>1. PICK text \in {"expired", "cancelled"} : Reply(t, text) /\ UNCHANGED lock
    BY <1>1, <1>4 DEF CancelWrite
  <2> DEFINE h == Answered(turn[t], text)
  <2>2. /\ h \in Handlers /\ turn' = [turn EXCEPT ![t] = h]
        /\ h.pc = "done" /\ h.reply = text /\ h.day = 0 /\ h.i = i
    BY <1>1, <2>1, AnsweredFields DEF Reply, Replies
  <2> HIDE DEF h
  <2>3. 0 <= day
    BY CalendarAssumption DEF IInv, Core, TypeOK, Days
  <2>4. intent' = [intent EXCEPT ![i].status = "cancelled"]
    BY <1>4 DEF CancelWrite
  <2>5. In(t, {"cancel", "approve", "prepare"})
    BY <1>1 DEF In, At
  <2>. QED
    BY <1>1, <1>2, <1>4, <2>1, <2>2, <2>3, <2>4, <2>5, StatusStep
<1>. QED
  BY <1>3, <1>4

LEMMA ApproveStep ==
    ASSUME IInv, NEW t \in Turns, Approve(t)
    PROVE  IInv'
<1> DEFINE i == turn[t].i
<1>1. turn[t] \in Handlers /\ At(t, "approve") /\ turn[t].day <= day
  BY DEF Approve, IInv, Core, TurnInv
<1>2. UNCHANGED <<attempt, spilled, provider, lock, clock, losses, upsets>>
  BY DEF Approve
<1>3. CASE Status(i) = "proposed"
  <2> DEFINE h == [turn[t] EXCEPT !.pc = "prepare"]
  <2>1. /\ h \in Handlers /\ turn' = [turn EXCEPT ![t] = h]
        /\ h.pc = "prepare" /\ h.i = i /\ h.day = turn[t].day
        /\ h.who = turn[t].who /\ h.verb = turn[t].verb
        /\ h.tok = turn[t].tok /\ h.stale = turn[t].stale
    BY <1>1, <1>3 DEF Approve, Goto, Handlers, Labels, IInv, Core, TurnInv
  <2> HIDE DEF h
  <2>2. intent' = [intent EXCEPT ![i].status = "approved"]
    BY <1>3 DEF Approve
  <2>3. In(t, {"cancel", "approve", "prepare"})
    BY <1>1 DEF In, At
  <2>. QED
    BY <1>1, <1>2, <1>3, <2>1, <2>2, <2>3, StatusStep
<1>4. CASE Status(i) # "proposed"
  <2>1. turn' = [turn EXCEPT ![t] = Answered(turn[t], "already-used")] /\ UNCHANGED intent
    BY <1>4 DEF Approve, Reply
  <2>2. "already-used" \in Replies \ {"succeeded", "failed"}
    BY DEF Replies
  <2>. QED
    BY <1>1, <1>2, <2>1, <2>2, ReplyStep, UpsetBound DEF rows
<1>. QED
  BY <1>3, <1>4

LEMMA PrepareStep ==
    ASSUME IInv, NEW t \in Turns, Prepare(t)
    PROVE  IInv'
<1> DEFINE i == turn[t].i
<1>1. turn[t] \in Handlers /\ At(t, "prepare") /\ turn[t].day <= day
  BY DEF Prepare, IInv, Core, TurnInv
<1>2. UNCHANGED <<attempt, spilled, provider, clock, losses, upsets>>
  BY DEF Prepare
<1>3. CASE Status(i) = "approved"
  <2> DEFINE h == [turn[t] EXCEPT !.pc = "attempt"]
  <2>1. /\ h \in Handlers /\ turn' = [turn EXCEPT ![t] = h]
        /\ h.pc = "attempt" /\ h.i = i /\ h.day = turn[t].day
        /\ h.who = turn[t].who /\ h.verb = turn[t].verb
        /\ h.tok = turn[t].tok /\ h.stale = turn[t].stale
    BY <1>1, <1>3 DEF Prepare, Goto, Handlers, Labels, IInv, Core, TurnInv
  <2> HIDE DEF h
  <2>2. intent' = [intent EXCEPT ![i].status = "prepared"] /\ UNCHANGED lock
    BY <1>3 DEF Prepare
  <2>3. In(t, {"cancel", "approve", "prepare"})
    BY <1>1 DEF In, At
  <2>. QED
    BY <1>1, <1>2, <1>3, <2>1, <2>2, <2>3, StatusStep
<1>4. CASE Status(i) # "approved"
  BY <1>2, <1>4, ThrowStep, UpsetBound DEF Prepare, rows
<1>. QED
  BY <1>3, <1>4

-----------------------------------------------------------------------------
(* The steps of the attempt and of the provider *)

\* What a turn past the approval does to the attempt of its intent, a, and to what
\* the provider has of it, e events and perhaps a request, on its way to h.
Effect(t, h, a, e) ==
    LET i == turn[t].i IN
    /\ turn' = [turn EXCEPT ![t] = h]
    /\ attempt' = [attempt EXCEPT ![i] = a] /\ events' = [events EXCEPT ![i] = e]
    /\ events[i] <= e /\ e + (IF i \in flying' THEN 1 ELSE 0) <= 1
    /\ flying' \subseteq Intents
    /\ \A j \in Intents : j # i => (j \in flying' <=> j \in flying)
    /\ spilled \subseteq spilled' /\ spilled' \subseteq Intents
    /\ a.outcome = "succeeded" => e = 1
    /\ a.outcome = "failed" => i \in spilled' \/ (e = 0 /\ i \notin flying')
    /\ h.day <= day
    /\ \/ h.pc = "idle"
       \/ /\ h.pc = "done" /\ h.reply \in {"succeeded", "unknown", "failed"} /\ h.i = i
          /\ h.reply = "succeeded" => e = 1
          /\ h.reply = "failed" => a.outcome = "failed"
       \/ /\ h.pc \in {"post", "record"} /\ UNCHANGED lock
          /\ h.i = i /\ h.who = turn[t].who /\ h.verb = turn[t].verb
          /\ h.tok = turn[t].tok /\ h.stale = turn[t].stale
          /\ a.outcome = "executing"
          /\ h.pc = "post" => e = 0 /\ i \notin flying'
          /\ h.pc = "record" => /\ h.saw \in {"succeeded", "unknown", "failed"}
                                /\ h.saw = "succeeded" => e = 1
                                /\ h.saw = "failed" => e = 0 /\ i \notin flying'

\* Nobody else is past the approval of that intent, and no answer was given about
\* it but by a refusal.
LEMMA EffectStep ==
    ASSUME IInv, NEW t \in Turns, NEW h \in Handlers, NEW e \in Nat,
           NEW a \in [outcome : {"executing", "succeeded", "failed", "unknown"}, day : Days],
           Effect(t, h, a, e), In(t, {"attempt", "post", "record"}),
           UNCHANGED <<intent, clock, losses>>,
           upsets' \in 0..MaxUpsets, upsets <= upsets',
           lock' \in [Principals -> Turns \cup {NoTurn}],
           \A p \in Principals, u \in Turns \ {t} : lock[p] = u => lock'[p] = u
    PROVE  Core'
<1> USE DEF IInv, Core, Effect
<1> DEFINE i == turn[t].i
<1>1. /\ In(t, Acting) /\ In(t, Winning) /\ ~In(t, Resting) /\ i \in Intents
      /\ intent[i].owner = turn[t].who /\ intent[i].token = turn[t].tok
      /\ turn[t].verb = "confirm" /\ i \notin turn[t].stale
      /\ turn[t].who \in Principals /\ turn[t].tok # NoToken
      /\ losses = 0 => lock[turn[t].who] = t
  BY DEF TurnInv, ConsentInv, LockInv, In, Acting, Winning, Confirming, Resting
<1>2. turn'[t] = h /\ \A u \in Turns : u # t => turn'[u] = turn[u]
  BY DEF TurnInv
<1>3. h.pc \in {"idle", "done", "post", "record"}
  OBVIOUS
<1>4. /\ attempt'[i] = a /\ \A j \in Intents : j # i => attempt'[j] = attempt[j]
      /\ events'[i] = e /\ \A j \in Intents : j # i => events'[j] = events[j]
  BY <1>1 DEF TypeOK
<1>5. /\ Status(i) = "prepared"
      /\ attempt[i].outcome \in {"none", "executing"}
  BY <1>1 DEF WinnerInv, TypeOK, In, At
<1>6. a.outcome \in {"executing", "succeeded", "failed", "unknown"}
  OBVIOUS
<1>7. ASSUME NEW u \in Turns \ {t}, In(u, Winning)
      PROVE  turn[u].i # i /\ turn[u].i \in Intents
  BY <1>1, <1>7 DEF WinnerInv, ConsentInv, In, Winning, Acting
<1>8. TypeOK'
  <2>1. attempt' \in [Intents -> [outcome : {"none", "executing", "succeeded", "failed",
                                             "unknown", "reconciled"}, day : Days]]
        /\ events' \in [Intents -> Nat]
    <3>1. a \in [outcome : {"none", "executing", "succeeded", "failed",
                            "unknown", "reconciled"}, day : Days]
      OBVIOUS
    <3>. QED
      BY <3>1 DEF TypeOK
  <2>. QED
    BY <1>4, <1>5, <2>1 DEF TypeOK, Status, clock
<1> HIDE DEF i
<1>9. TurnInv'
  <2>1. turn' \in [Turns -> Handlers]
    BY DEF TurnInv
  <2>2. UNCHANGED day
    BY DEF clock
  <2>3. h.pc \notin Searching /\ h.pc \notin {"waiting", "sole", "lookup"}
    BY <1>3 DEF Searching
  <2>4. h.pc \notin {"idle", "done"} =>
           h.who \in Principals /\ h.verb # "propose" /\ h.tok # NoToken
    BY <1>1
  <2>5. h.pc \in {"idle", "done"} => h.pc \notin Acting
    BY DEF Acting
  <2>. QED
    BY <1>2, <2>1, <2>2, <2>3, <2>4, <2>5 DEF TurnInv, In, At
<1>10. RowInv'
  <2>1. ASSUME NEW u \in Turns, At(u, "mint")'
        PROVE  turn'[u] = turn[u] /\ At(u, "mint")
    BY <1>2, <1>3, <2>1 DEF At
  <2>. QED
    BY <2>1 DEF RowInv, Status
<1>11. ConsentInv'
  <2>1. h.pc # "cancel" /\ (h.pc \in {"idle", "done"} => h.pc \notin Acting \cup Confirming)
    BY <1>3 DEF Acting, Confirming
  <2>2. h.pc \notin {"idle", "done"} => /\ h.i = i /\ h.who = turn[t].who /\ h.verb = turn[t].verb
                                        /\ h.tok = turn[t].tok /\ h.stale = turn[t].stale
    BY DEF i
  <2>. QED
    BY <1>1, <1>2, <2>1, <2>2 DEF ConsentInv, In, At
<1>12. WinnerInv'
  <2>1. ASSUME NEW u \in Turns, In(u, Winning)', u # t
        PROVE  /\ turn'[u] = turn[u] /\ In(u, Winning)
               /\ turn[u].i \in Intents /\ turn[u].i # i
    BY <1>2, <1>7, <2>1 DEF In
  <2>2. In(t, Winning)' => h.pc \in {"post", "record"} /\ h.i = i
    BY <1>2, <1>3 DEF In, Winning, i
  <2>3. ASSUME NEW u \in Turns, NEW v \in Turns, In(u, Winning)', In(v, Winning)',
               turn'[u].i = turn'[v].i
        PROVE  u = v
    <3>1. CASE u = t /\ v # t
      BY <1>2, <2>1, <2>2, <2>3, <3>1
    <3>2. CASE u # t /\ v = t
      BY <1>2, <2>1, <2>2, <2>3, <3>2
    <3>3. CASE u # t /\ v # t
      BY <2>1, <2>3, <3>3 DEF WinnerInv
    <3>. QED
      BY <3>1, <3>2, <3>3
  <2>4. ASSUME NEW u \in Turns, In(u, Winning)'
        PROVE  /\ At(u, "prepare")' => Status(turn[u].i)' \in {"approved", "cancelled"}
               /\ At(u, "attempt")' => /\ Status(turn[u].i)' = "prepared"
                                       /\ attempt'[turn'[u].i].outcome = "none"
               /\ At(u, "post")' => attempt'[turn'[u].i].outcome = "executing" /\ Nothing(turn[u].i)'
               /\ At(u, "record")' =>
                     /\ attempt'[turn'[u].i].outcome = "executing"
                     /\ turn'[u].saw \in {"succeeded", "unknown", "failed"}
                     /\ turn'[u].saw = "succeeded" => events'[turn'[u].i] = 1
                     /\ turn'[u].saw = "failed" => Nothing(turn[u].i)'
    <3>1. CASE u = t
      <4>1. h.pc \in {"post", "record"} /\ h.i = i /\ turn'[u] = h
        BY <1>2, <2>2, <2>4, <3>1
      <4>. QED
        BY <1>4, <4>1 DEF At, Nothing, i
    <3>2. CASE u # t
      <4>1. /\ turn'[u] = turn[u] /\ In(u, Winning)
            /\ turn[u].i \in Intents /\ turn[u].i # i
        BY <2>1, <2>4, <3>2
      <4>2. /\ attempt'[turn[u].i] = attempt[turn[u].i] /\ events'[turn[u].i] = events[turn[u].i]
            /\ turn[u].i \in flying' <=> turn[u].i \in flying
        BY <1>4, <4>1 DEF i
      <4>. QED
        BY <4>1, <4>2 DEF WinnerInv, At, Status, Nothing
    <3>. QED
      BY <3>1, <3>2
  <2>. QED
    BY <2>3, <2>4 DEF WinnerInv, In, At, Winning
<1>13. EffectInv' /\ AtMostOneEvent' /\ OutcomesAreHonest'
  <2> SUFFICES ASSUME NEW j \in Intents
               PROVE  /\ attempt'[j].outcome = "none" => Nothing(j)'
                      /\ events'[j] + (IF j \in flying' THEN 1 ELSE 0) <= 1
                      /\ attempt'[j].outcome \in {"succeeded", "reconciled"} => events'[j] = 1
                      /\ attempt'[j].outcome = "failed" =>
                            j \in spilled' \/ (events'[j] = 0 /\ j \notin flying')
    BY DEF EffectInv, AtMostOneEvent, OutcomesAreHonest
  <2>1. CASE j = i
    BY <1>4, <1>6, <2>1 DEF i
  <2>2. CASE j # i
    <3>1. attempt'[j] = attempt[j] /\ events'[j] = events[j] /\ (j \in flying' <=> j \in flying)
      BY <1>4, <2>2 DEF i
    <3>. QED
      BY <3>1 DEF EffectInv, AtMostOneEvent, OutcomesAreHonest, Nothing
  <2>. QED
    BY <2>1, <2>2
<1>14. AnswerInv'
  <2>1. ASSUME NEW v \in Turns, In(v, Winning)'
        PROVE  turn'[v].i = turn[v].i /\ In(v, Winning)
    BY <1>1, <1>2, <1>3, <2>1 DEF In, Winning
  <2>2. ASSUME NEW u \in Turns, At(u, "done")'
        PROVE  /\ turn'[u].reply \in {"succeeded", "failed", "cancelled", "grant-denied"} =>
                     turn'[u].i \in Intents
               /\ turn'[u].reply = "succeeded" => events'[turn'[u].i] = 1
               /\ turn'[u].reply = "failed" => attempt'[turn'[u].i].outcome = "failed"
               /\ turn'[u].reply = "cancelled" => Status(turn[u].i)' = "cancelled"
               /\ turn'[u].reply = "grant-denied" =>
                     /\ Status(turn[u].i)' = "prepared" /\ attempt'[turn'[u].i].outcome = "none"
                     /\ \A v \in Turns : In(v, Winning)' => turn'[v].i # turn'[u].i
    <3>1. CASE u = t
      <4>1. h.pc = "done" /\ turn'[u] = h
        BY <1>2, <2>2, <3>1 DEF At
      <4>2. h.reply \in {"succeeded", "unknown", "failed"} /\ h.i = i
        BY <4>1 DEF i
      <4>3. h.reply = "succeeded" => e = 1
        BY <4>1
      <4>4. h.reply = "failed" => a.outcome = "failed"
        BY <4>1
      <4>. QED
        BY <1>1, <1>4, <4>1, <4>2, <4>3, <4>4
    <3>2. CASE u # t
      <4>1. turn'[u] = turn[u] /\ At(u, "done")
        BY <1>2, <2>2, <3>2 DEF At
      <4>2. turn[u].reply \in {"succeeded", "failed", "cancelled", "grant-denied"} =>
               turn[u].i \in Intents
        BY <4>1 DEF AnswerInv
      <4>3. ASSUME turn[u].reply = "succeeded"
            PROVE  events'[turn[u].i] = 1
        <5>1. events[turn[u].i] = 1 /\ turn[u].i \in Intents
          BY <4>1, <4>2, <4>3 DEF AnswerInv
        <5>2. e <= 1
          OBVIOUS
        <5>. QED
          BY <1>4, <5>1, <5>2 DEF i
      <4>4. ASSUME turn[u].reply = "failed"
            PROVE  attempt'[turn[u].i].outcome = "failed"
        <5>1. attempt[turn[u].i].outcome = "failed" /\ turn[u].i \in Intents
          BY <4>1, <4>2, <4>4 DEF AnswerInv
        <5>. QED
          BY <1>4, <1>5, <5>1
      <4>5. ASSUME turn[u].reply = "cancelled"
            PROVE  Status(turn[u].i)' = "cancelled"
        BY <4>1, <4>5 DEF AnswerInv, Status
      <4>6. ASSUME turn[u].reply = "grant-denied"
            PROVE  /\ Status(turn[u].i)' = "prepared" /\ attempt'[turn[u].i].outcome = "none"
                   /\ \A v \in Turns : In(v, Winning)' => turn'[v].i # turn[u].i
        <5>1. /\ Status(turn[u].i) = "prepared" /\ attempt[turn[u].i].outcome = "none"
              /\ \A v \in Turns : In(v, Winning) => turn[v].i # turn[u].i
              /\ turn[u].i \in Intents
          BY <4>1, <4>2, <4>6 DEF AnswerInv
        <5>2. turn[u].i # i
          BY <1>1, <5>1 DEF i
        <5>. QED
          BY <1>4, <2>1, <4>1, <5>1, <5>2 DEF Status
      <4>. QED
        BY <4>1, <4>2, <4>3, <4>4, <4>5, <4>6
    <3>. QED
      BY <3>1, <3>2
  <2>. QED
    BY <2>2 DEF AnswerInv
<1>15. LockInv'
  <2>1. ASSUME losses = 0, NEW u \in Turns, ~In(u, Resting)'
        PROVE  lock'[turn'[u].who] = u
    <3>1. CASE u = t
      BY <1>1, <1>2, <1>3, <2>1, <3>1 DEF In, Resting
    <3>2. CASE u # t
      BY <1>2, <2>1, <3>2 DEF LockInv, TurnInv, In, Resting
    <3>. QED
      BY <3>1, <3>2
  <2>2. ASSUME losses = 0, NEW u \in Turns, In(u, Deciding)'
        PROVE  Status(turn[u].i)' = "proposed" /\ (At(u, "cancel")' => turn'[u].saw = "proposed")
    <3>1. u # t /\ turn'[u] = turn[u] /\ In(u, Deciding)
      BY <1>2, <1>3, <2>2 DEF In, Deciding
    <3>. QED
      BY <2>2, <3>1 DEF LockInv, At, Status
  <2>3. ASSUME losses = 0, NEW u \in Turns, At(u, "done")',
               turn'[u].reply \in {"expired", "capped"}, turn'[u].i # 0
        PROVE  /\ turn'[u].i \in Intents /\ intent'[turn'[u].i].owner \in Principals
               /\ lock'[intent'[turn'[u].i].owner] = u
               /\ Status(turn[u].i)' \in {"proposed", "cancelled"}
    <3>1. u # t
      BY <1>2, <2>3 DEF At
    <3>2. turn'[u] = turn[u] /\ At(u, "done")
      BY <1>2, <2>3, <3>1 DEF At
    <3>. QED
      BY <2>3, <3>1, <3>2 DEF LockInv, Status
  <2>. QED
    BY <2>1, <2>2, <2>3 DEF LockInv, In, At, Deciding
<1>. QED
  BY <1>8, <1>9, <1>10, <1>11, <1>12, <1>13, <1>14, <1>15

\* The attempt's row takes the place of the turn in the count of the day.
LEMMA StartAttemptStep ==
    ASSUME IInv, NEW t \in Turns, StartAttempt(t)
    PROVE  IInv'
<1> USE DEF IInv, Core
<1>1. /\ turn[t] \in Handlers /\ At(t, "attempt") /\ turn[t].day <= day
      /\ turn[t].i \in Intents /\ Status(turn[t].i) = "prepared"
      /\ attempt[turn[t].i].outcome = "none" /\ Nothing(turn[t].i)
      /\ intent[turn[t].i].owner = turn[t].who /\ turn[t].who \in Principals
      /\ \A u \in Turns \ {t} : In(u, Winning) => turn[u].i # turn[t].i
  BY DEF StartAttempt, TurnInv, ConsentInv, WinnerInv, EffectInv, In, At, Acting, Winning
<1>2. UNCHANGED <<intent, spilled, provider, lock, clock, losses>>
  BY DEF StartAttempt
<1>3. CASE Upset /\ Reply(t, "grant-denied") /\ UNCHANGED attempt
  <2>1. turn' = [turn EXCEPT ![t] = Answered(turn[t], "grant-denied")]
    BY <1>3 DEF Reply
  <2>2. "grant-denied" \in Replies \ {"succeeded", "failed"}
    BY DEF Replies
  <2>. QED
    BY <1>1, <1>2, <1>3, <2>1, <2>2, ReplyStep, UpsetBound DEF rows
<1>4. ASSUME attempt' = [attempt EXCEPT ![turn[t].i] = [outcome |-> "executing", day |-> day]],
             Goto(t, "post"), UNCHANGED upsets
      PROVE  IInv'
  <2> DEFINE h == [turn[t] EXCEPT !.pc = "post"]
             a == [outcome |-> "executing", day |-> day]
  <2>1. /\ h \in Handlers /\ turn' = [turn EXCEPT ![t] = h]
        /\ h.pc = "post" /\ h.i = turn[t].i /\ h.day = turn[t].day
        /\ h.who = turn[t].who /\ h.verb = turn[t].verb
        /\ h.tok = turn[t].tok /\ h.stale = turn[t].stale
    BY <1>1, <1>4 DEF Goto, Handlers, Labels, TurnInv
  <2>2. /\ a \in [outcome : {"executing", "succeeded", "failed", "unknown"}, day : Days]
        /\ a.outcome = "executing" /\ a.day = day
    BY DEF TypeOK
  <2>3. attempt' = [attempt EXCEPT ![turn[t].i] = a]
    BY <1>4
  <2> HIDE DEF h, a
  <2>4. 0 \in Nat /\ events' = [events EXCEPT ![turn[t].i] = 0] /\ events[turn[t].i] = 0
        /\ flying' = flying /\ turn[t].i \notin flying /\ flying \subseteq Intents
        /\ spilled' = spilled /\ spilled \subseteq Intents
    BY <1>1, <1>2 DEF TypeOK, Nothing, provider
  <2>5. /\ upsets' \in 0..MaxUpsets /\ upsets <= upsets'
        /\ lock' \in [Principals -> Turns \cup {NoTurn}] /\ UNCHANGED lock
        /\ \A p \in Principals, u \in Turns \ {t} : lock[p] = u => lock'[p] = u
    BY <1>2, <1>4, UpsetBound DEF TypeOK
  <2>6. In(t, {"attempt", "post", "record"})
    BY <1>1 DEF In, At
  <2>7. Core'
    <3>1. Effect(t, h, a, 0)
      BY <1>1, <2>1, <2>2, <2>3, <2>4, <2>5 DEF Effect
    <3>. QED
      BY <1>2, <2>1, <2>2, <2>4, <2>5, <2>6, <3>1, EffectStep
  <2>8. turn'[t] = h /\ \A u \in Turns : u # t => turn'[u] = turn[u]
    BY <2>1 DEF TurnInv
  <2>9. /\ attempt'[turn[t].i] = a
        /\ \A j \in Intents : j # turn[t].i => attempt'[j] = attempt[j]
    BY <1>1, <2>3 DEF TypeOK
  <2>10. ASSUME NEW p \in Principals
         PROVE  /\ Cardinality(Unlocked(p)') <= losses
                /\ p # turn[t].who => InFlight(p)' \subseteq InFlight(p)
                /\ \A d \in Days : p # turn[t].who \/ d # day =>
                      Dispatched(p, d)' \subseteq Dispatched(p, d)
    <3>1. Unlocked(p)' \subseteq Unlocked(p)
      BY <1>1, <1>2, <2>1, <2>8 DEF Unlocked, In, At, Resting
    <3>2. Unlocked(p) \subseteq Turns
      BY DEF Unlocked
    <3>3. /\ Cardinality(Unlocked(p)') \in Nat /\ Cardinality(Unlocked(p)) \in Nat
          /\ Cardinality(Unlocked(p)') <= Cardinality(Unlocked(p))
      BY <3>1, <3>2, Fewer
    <3>4. Cardinality(Unlocked(p)) <= losses /\ losses \in Nat
      BY DEF QuotaInv, TypeOK
    <3>5. p # turn[t].who => InFlight(p)' \subseteq InFlight(p)
      BY <2>1, <2>8 DEF InFlight, In
    <3>6. \A d \in Days : p # turn[t].who \/ d # day =>
             Dispatched(p, d)' \subseteq Dispatched(p, d)
      BY <1>1, <1>2, <2>2, <2>9 DEF Dispatched
    <3>. QED
      BY <3>3, <3>4, <3>5, <3>6
  <2>11. ASSUME NEW p \in Principals, p = turn[t].who
         PROVE  Cardinality(Dispatched(p, day)') + Cardinality(InFlight(p)')
                  <= MaxDispatches + losses
    <3>1. /\ Dispatched(p, day) \subseteq Intents /\ InFlight(p) \subseteq Turns
          /\ t \in InFlight(p) /\ turn[t].i \notin Dispatched(p, day)
      BY <1>1, <2>11 DEF Dispatched, InFlight, In, At
    <3>2. Dispatched(p, day)' \subseteq Dispatched(p, day) \cup {turn[t].i}
      BY <1>2, <2>9 DEF Dispatched, clock
    <3>3. InFlight(p)' \subseteq InFlight(p) \ {t}
      BY <2>1, <2>8 DEF InFlight, In
    <3>4. IsFiniteSet(Dispatched(p, day)) /\ IsFiniteSet(InFlight(p))
      BY <3>1, FiniteSubsets
    <3>5. /\ IsFiniteSet(Dispatched(p, day) \cup {turn[t].i})
          /\ Cardinality(Dispatched(p, day) \cup {turn[t].i}) = Cardinality(Dispatched(p, day)) + 1
      BY <3>1, <3>4, FS_AddElement
    <3>6. /\ IsFiniteSet(InFlight(p) \ {t})
          /\ Cardinality(InFlight(p) \ {t}) = Cardinality(InFlight(p)) - 1
      BY <3>1, <3>4, FS_RemoveElement
    <3>7. /\ IsFiniteSet(Dispatched(p, day)')
          /\ Cardinality(Dispatched(p, day)') <= Cardinality(Dispatched(p, day) \cup {turn[t].i})
      BY <3>2, <3>5, FS_Subset
    <3>8. /\ IsFiniteSet(InFlight(p)')
          /\ Cardinality(InFlight(p)') <= Cardinality(InFlight(p) \ {t})
      BY <3>3, <3>6, FS_Subset
    <3>9. /\ Cardinality(Dispatched(p, day)) \in Nat /\ Cardinality(Dispatched(p, day)') \in Nat
          /\ Cardinality(InFlight(p)) \in Nat /\ Cardinality(InFlight(p)') \in Nat
      BY <3>4, <3>7, <3>8, FS_CardinalityType
    <3>10. /\ Cardinality(Dispatched(p, day)) + Cardinality(InFlight(p)) <= MaxDispatches + losses
           /\ losses \in Nat /\ MaxDispatches \in Nat
      BY CalendarAssumption DEF QuotaInv, TypeOK
    <3>11. /\ Cardinality(Dispatched(p, day)') <= Cardinality(Dispatched(p, day)) + 1
           /\ Cardinality(InFlight(p)') <= Cardinality(InFlight(p)) - 1
      BY <3>5, <3>6, <3>7, <3>8
    <3>. QED
      BY <3>9, <3>10, <3>11
  <2>12. ASSUME NEW p \in Principals, p # turn[t].who
         PROVE  Cardinality(Dispatched(p, day)') + Cardinality(InFlight(p)')
                  <= MaxDispatches + losses
    <3>1. /\ Dispatched(p, day)' \subseteq Dispatched(p, day)
          /\ InFlight(p)' \subseteq InFlight(p)
      BY <1>2, <2>10, <2>12 DEF TypeOK, clock
    <3>2. Dispatched(p, day) \subseteq Intents /\ InFlight(p) \subseteq Turns
      BY DEF Dispatched, InFlight
    <3>3. /\ Cardinality(Dispatched(p, day)) \in Nat /\ Cardinality(Dispatched(p, day)') \in Nat
          /\ Cardinality(InFlight(p)) \in Nat /\ Cardinality(InFlight(p)') \in Nat
          /\ Cardinality(Dispatched(p, day)') <= Cardinality(Dispatched(p, day))
          /\ Cardinality(InFlight(p)') <= Cardinality(InFlight(p))
      BY <3>1, <3>2, Fewer
    <3>4. /\ Cardinality(Dispatched(p, day)) + Cardinality(InFlight(p)) <= MaxDispatches + losses
          /\ losses \in Nat /\ MaxDispatches \in Nat
      BY CalendarAssumption DEF QuotaInv, TypeOK
    <3>. QED
      BY <3>3, <3>4
  <2>13. \A j \in Intents : attempt'[j].outcome # "none" => attempt'[j].day <= day
    BY <2>2, <2>9 DEF QuotaInv, TypeOK, Days
  <2>14. QuotaInv'
    BY <1>2, <2>10, <2>11, <2>12, <2>13 DEF QuotaInv, clock
  <2>15. DispatchOvershoot'
    <3> SUFFICES ASSUME NEW p \in Principals, NEW d \in Days
                 PROVE  Cardinality(Dispatched(p, d)') <= MaxDispatches + losses
      BY <1>2 DEF DispatchOvershoot, Dispatched
    <3>0. /\ losses \in Nat /\ MaxDispatches \in Nat
          /\ Cardinality(Dispatched(p, d)) <= MaxDispatches + losses
      BY CalendarAssumption DEF DispatchOvershoot, Dispatched, TypeOK
    <3>1. CASE p = turn[t].who /\ d = day
      <4>1. Dispatched(p, d)' = Dispatched(p, day)'
        BY <1>2, <3>1 DEF Dispatched, clock
      <4>2. Dispatched(p, day)' \subseteq Intents /\ InFlight(p)' \subseteq Turns
        BY DEF Dispatched, InFlight
      <4>3. Cardinality(Dispatched(p, day)') \in Nat /\ Cardinality(InFlight(p)') \in Nat
        BY <4>2, Fewer
      <4>. QED
        BY <2>11, <3>0, <3>1, <4>1, <4>3
    <3>2. CASE p # turn[t].who \/ d # day
      <4>1. Dispatched(p, d)' \subseteq Dispatched(p, d)
        BY <2>10, <3>2
      <4>2. Dispatched(p, d) \subseteq Intents
        BY DEF Dispatched
      <4>3. /\ Cardinality(Dispatched(p, d)') \in Nat /\ Cardinality(Dispatched(p, d)) \in Nat
            /\ Cardinality(Dispatched(p, d)') <= Cardinality(Dispatched(p, d))
        BY <4>1, <4>2, Fewer
      <4>. QED
        BY <3>0, <4>3
    <3>. QED
      BY <3>1, <3>2
  <2>. QED
    BY <2>7, <2>14, <2>15
<1>. QED
  BY <1>3, <1>4 DEF StartAttempt

\* What is at the attempt of a turn that has one.
LEMMA Executing ==
    ASSUME IInv, NEW t \in Turns, At(t, "post") \/ At(t, "record")
    PROVE  /\ turn[t] \in Handlers /\ turn[t].day <= day /\ turn[t].i \in Intents
           /\ attempt[turn[t].i].outcome = "executing" /\ attempt[turn[t].i].day \in Days
           /\ attempt = [attempt EXCEPT ![turn[t].i] = attempt[turn[t].i]]
           /\ attempt[turn[t].i] \in [outcome : {"executing", "succeeded", "failed", "unknown"},
                                      day : Days]
           /\ events[turn[t].i] \in Nat
           /\ events = [events EXCEPT ![turn[t].i] = events[turn[t].i]]
           /\ events[turn[t].i] + (IF turn[t].i \in flying THEN 1 ELSE 0) <= 1
           /\ flying \subseteq Intents /\ spilled \subseteq Intents
           /\ In(t, {"attempt", "post", "record"}) /\ ~In(t, Resting)
           /\ lock \in [Principals -> Turns \cup {NoTurn}]
<1> USE DEF IInv, Core
<1>1. /\ turn[t] \in Handlers /\ turn[t].day <= day /\ turn[t].i \in Intents
      /\ attempt[turn[t].i].outcome = "executing"
      /\ In(t, {"attempt", "post", "record"}) /\ ~In(t, Resting)
  BY DEF TurnInv, ConsentInv, WinnerInv, In, At, Acting, Resting
<1>2. /\ events[turn[t].i] \in Nat
      /\ events = [events EXCEPT ![turn[t].i] = events[turn[t].i]]
      /\ flying \subseteq Intents /\ spilled \subseteq Intents
      /\ lock \in [Principals -> Turns \cup {NoTurn}]
      /\ attempt = [attempt EXCEPT ![turn[t].i] = attempt[turn[t].i]]
  BY <1>1 DEF TypeOK
<1>3. events[turn[t].i] + (IF turn[t].i \in flying THEN 1 ELSE 0) <= 1
  BY <1>1 DEF AtMostOneEvent
<1>4. attempt[turn[t].i] \in [outcome : {"none", "executing", "succeeded", "failed",
                                           "unknown", "reconciled"}, day : Days]
  BY <1>1 DEF TypeOK
<1>. QED
  BY <1>1, <1>2, <1>3, <1>4

LEMMA PostStep ==
    ASSUME IInv, NEW t \in Turns, Post(t)
    PROVE  IInv'
<1> DEFINE i == turn[t].i
<1>1. At(t, "post") /\ Nothing(i)
  BY DEF Post, IInv, Core, WinnerInv
<1>2. PICK got \in {"succeeded", "unknown", "failed"} :
        /\ turn' = [turn EXCEPT ![t].pc = "record", ![t].saw = got]
        /\ CASE got = "succeeded" -> events' = [events EXCEPT ![i] = @ + 1] /\ UNCHANGED flying
             [] got = "unknown"   -> flying' = flying \cup {i} /\ UNCHANGED events
             [] OTHER             -> UNCHANGED provider
  BY DEF Post
<1>3. UNCHANGED <<rows, lock, clock, losses, upsets>>
  BY DEF Post
<1> DEFINE h == [turn[t] EXCEPT !.pc = "record", !.saw = got]
<1>4. /\ h \in Handlers /\ turn' = [turn EXCEPT ![t] = h]
      /\ h.pc = "record" /\ h.i = i /\ h.saw = got /\ h.day = turn[t].day
      /\ h.who = turn[t].who /\ h.verb = turn[t].verb
      /\ h.tok = turn[t].tok /\ h.stale = turn[t].stale
  <2>1. turn[t] \in Handlers /\ got \in Sights /\ "record" \in Labels /\ turn \in [Turns -> Handlers]
    BY <1>1, Executing DEF Sights, Labels, IInv, Core, TurnInv
  <2>2. turn' = [turn EXCEPT ![t] = h]
    BY <1>2, <2>1
  <2>. QED
    BY <2>1, <2>2 DEF Handlers
<1> HIDE DEF h
<1>5. PICK e \in {0, 1} :
        /\ events' = [events EXCEPT ![i] = e] /\ events[i] = 0
        /\ flying' \subseteq Intents
        /\ \A j \in Intents : j # i => (j \in flying' <=> j \in flying)
        /\ e + (IF i \in flying' THEN 1 ELSE 0) <= 1
        /\ got = "succeeded" => e = 1
        /\ got = "failed" => e = 0 /\ i \notin flying'
  <2>1. events[i] = 0 /\ i \notin flying /\ i \in Intents /\ flying \subseteq Intents
        /\ events = [events EXCEPT ![i] = 0]
    BY <1>1, Executing DEF Nothing
  <2> HIDE DEF i
  <2>2. CASE got = "succeeded"
    BY <1>2, <2>1, <2>2
  <2>3. CASE got = "unknown"
    BY <1>2, <2>1, <2>3
  <2>4. CASE got = "failed"
    BY <1>2, <2>1, <2>4 DEF provider
  <2>. QED
    BY <2>2, <2>3, <2>4
<1>6. /\ upsets' \in 0..MaxUpsets /\ upsets <= upsets' /\ UNCHANGED lock
      /\ \A p \in Principals, u \in Turns \ {t} : lock[p] = u => lock'[p] = u
      /\ lock' \in [Principals -> Turns \cup {NoTurn}]
  BY <1>1, <1>3, UpsetBound, Executing
<1>7. attempt' = attempt /\ spilled' = spilled /\ intent' = intent
  BY <1>3 DEF rows
<1>8. Core'
  <2>1. e \in Nat
    OBVIOUS
  <2>2. attempt' = [attempt EXCEPT ![i] = attempt[i]]
    BY <1>1, <1>7, Executing
  <2>3. Effect(t, h, attempt[i], e)
    <3>1. /\ turn[t].day <= day /\ attempt[i].outcome = "executing" /\ spilled \subseteq Intents
          /\ events[i] <= e
      BY <1>1, <1>5, Executing
    <3> HIDE DEF i
    <3>. QED
      BY <1>4, <1>5, <1>6, <1>7, <2>2, <3>1 DEF Effect, i
  <2>4. /\ In(t, {"attempt", "post", "record"})
        /\ attempt[i] \in [outcome : {"executing", "succeeded", "failed", "unknown"}, day : Days]
    BY <1>1, Executing
  <2>. QED
    BY <1>3, <1>4, <1>6, <1>7, <2>1, <2>3, <2>4, EffectStep
<1>9. QuotaInv' /\ DispatchOvershoot'
  BY <1>1, <1>3, <1>4, <1>7, Executing, TurnQuota DEF clock
<1>. QED
  BY <1>8, <1>9 DEF IInv

\* An outcome is written over the one attempt that is executing; when the write
\* fails, the turn ends as by any exception.
LEMMA RecordStep ==
    ASSUME IInv, NEW t \in Turns, Record(t)
    PROVE  IInv'
<1> DEFINE i == turn[t].i
<1>1. /\ At(t, "record") /\ turn[t].saw \in {"succeeded", "unknown", "failed"}
      /\ turn[t].saw = "succeeded" => events[i] = 1
      /\ turn[t].saw = "failed" => Nothing(i)
  BY DEF Record, IInv, Core, WinnerInv
<1>2. UNCHANGED <<intent, provider, clock, losses>>
  BY DEF Record
<1>3. CASE Upset /\ Throw(t) /\ UNCHANGED <<attempt, spilled>>
  BY <1>2, <1>3, ThrowStep, UpsetBound DEF rows
<1>4. ASSUME NEW got \in {"succeeded", "unknown", "failed"},
             attempt' = [attempt EXCEPT ![i].outcome = got], Reply(t, got),
             got = "succeeded" => events[i] = 1,
             got = "failed" => i \in spilled' \/ Nothing(i),
             spilled' \in {spilled, spilled \cup {i}},
             UNCHANGED lock, UNCHANGED upsets \/ Upset
      PROVE  IInv'
  <2> DEFINE h == Answered(turn[t], got)
             a == [attempt[i] EXCEPT !.outcome = got]
  <2>1. /\ h \in Handlers /\ turn' = [turn EXCEPT ![t] = h]
        /\ h.pc = "done" /\ h.reply = got /\ h.day = 0
        /\ got \in {"succeeded", "failed"} => h.i = i
    BY <1>1, <1>4, Executing, AnsweredFields DEF Reply, Replies
  <2>2. h.i = i
    BY <1>1, Executing DEF Answered, Idle, Handlers
  <2>3. /\ a \in [outcome : {"executing", "succeeded", "failed", "unknown"}, day : Days]
        /\ a.outcome = got /\ a.day = attempt[i].day
        /\ attempt' = [attempt EXCEPT ![i] = a]
    BY <1>1, <1>4, Executing
  <2> HIDE DEF h, a
  <2>4. /\ upsets' \in 0..MaxUpsets /\ upsets <= upsets'
        /\ \A p \in Principals, u \in Turns \ {t} : lock[p] = u => lock'[p] = u
        /\ lock' \in [Principals -> Turns \cup {NoTurn}]
        /\ spilled \subseteq spilled' /\ spilled' \subseteq Intents /\ 0 <= day
    BY <1>1, <1>4, UpsetBound, Executing, CalendarAssumption DEF IInv, Core, TypeOK, Days
  <2>5. /\ events' = [events EXCEPT ![i] = events[i]] /\ flying' = flying
        /\ flying' \subseteq Intents /\ events[i] \in Nat
        /\ \A j \in Intents : j # i => (j \in flying' <=> j \in flying)
        /\ events[i] + (IF i \in flying' THEN 1 ELSE 0) <= 1
    BY <1>1, <1>2, Executing DEF provider
  <2>6. got = "failed" => i \in spilled' \/ (events[i] = 0 /\ i \notin flying')
    BY <1>4, <2>5 DEF Nothing
  <2>7. Core'
    <3>1. Effect(t, h, a, events[i])
      <4>1. events[i] <= events[i]
        BY <2>5
      <4>2. /\ h.pc = "done" /\ h.reply \in {"succeeded", "unknown", "failed"} /\ h.i = i
            /\ h.reply = "succeeded" => events[i] = 1
            /\ h.reply = "failed" => a.outcome = "failed"
        BY <1>4, <2>1, <2>2, <2>3
      <4>3. /\ a.outcome = "succeeded" => events[i] = 1
            /\ a.outcome = "failed" => i \in spilled' \/ (events[i] = 0 /\ i \notin flying')
        BY <1>4, <2>3, <2>6
      <4> HIDE DEF i
      <4>. QED
        BY <2>1, <2>3, <2>4, <2>5, <4>1, <4>2, <4>3 DEF Effect, i
    <3>2. In(t, {"attempt", "post", "record"})
      BY <1>1, Executing
    <3>. QED
      BY <1>2, <2>1, <2>3, <2>4, <2>5, <3>1, <3>2, EffectStep
  <2>8. \A j \in Intents : attempt'[j].outcome # "none" =>
           /\ attempt[j].outcome # "none" /\ attempt'[j].day = attempt[j].day
           /\ intent'[j].owner = intent[j].owner
    BY <1>1, <1>2, <2>3, Executing DEF IInv, Core, TypeOK
  <2>9. QuotaInv' /\ DispatchOvershoot'
    BY <1>2, <2>1, <2>4, <2>8, TurnQuota DEF clock, Resting
  <2>. QED
    BY <2>7, <2>9 DEF IInv
<1>5. ASSUME Upset, turn[t].saw = "succeeded", attempt' = [attempt EXCEPT ![i].outcome = "failed"],
             spilled' = spilled \cup {i}, Reply(t, "failed"), UNCHANGED lock
      PROVE  IInv'
  BY <1>4, <1>5
<1>. QED
  BY <1>1, <1>3, <1>4, <1>5 DEF Record

\* The caps do not change when no turn moves and no attempt begins.
LEMMA StillQuota ==
    ASSUME IInv, UNCHANGED <<intent, turn, lock, day, losses>>,
           \A i \in Intents : attempt'[i].outcome # "none" =>
              attempt[i].outcome # "none" /\ attempt'[i].day = attempt[i].day
    PROVE  QuotaInv' /\ DispatchOvershoot'
<1>1. \A p \in Principals : /\ \A d \in Days : Dispatched(p, d)' \subseteq Dispatched(p, d)
                            /\ InFlight(p)' \subseteq InFlight(p)
                            /\ Unlocked(p)' \subseteq Unlocked(p)
  BY DEF Dispatched, InFlight, Unlocked, In
<1>2. \A i \in Intents : attempt'[i].outcome # "none" => attempt'[i].day <= day
  BY DEF IInv, QuotaInv
<1>. QED
  BY <1>1, <1>2, QuotaFrame

\* A turn that relies on nothing having happened, or on what has, is not about a
\* request still on its way.
LEMMA ServeStep ==
    ASSUME IInv, NEW i \in Intents, Serve(i)
    PROVE  IInv'
<1> USE DEF IInv, Core
<1>1. UNCHANGED <<rows, turn, lock, clock, losses, upsets>>
  BY DEF Serve
<1>2. /\ i \in flying /\ events[i] = 0 /\ i \notin flying' /\ events'[i] = 1
      /\ events' \in [Intents -> Nat] /\ flying' \subseteq Intents
      /\ \A j \in Intents : j # i => events'[j] = events[j] /\ (j \in flying' <=> j \in flying)
  BY DEF Serve, TypeOK, AtMostOneEvent
<1>3. TypeOK' /\ TurnInv' /\ RowInv' /\ ConsentInv' /\ LockInv'
  BY <1>1, <1>2 DEF TypeOK, TurnInv, RowInv, ConsentInv, LockInv, Status, In, At, rows, clock
<1>4. ~Nothing(i) /\ attempt[i].outcome # "none"
  BY <1>2 DEF Nothing, EffectInv
<1>5. \A j \in Intents : j # i => (Nothing(j)' <=> Nothing(j))
  BY <1>2 DEF Nothing
<1>6. WinnerInv'
  <2>1. \A u \in Turns : In(u, Winning) => turn[u].i \in Intents
    BY DEF ConsentInv, In, Winning, Acting
  <2>2. \A u \in Turns : In(u, Winning)' <=> In(u, Winning)
    BY <1>1 DEF In
  <2>3. ASSUME NEW u \in Turns, In(u, Winning)
        PROVE  /\ At(u, "post")' => Nothing(turn[u].i)'
               /\ At(u, "record")' =>
                     /\ turn'[u].saw = "succeeded" => events'[turn'[u].i] = 1
                     /\ turn'[u].saw = "failed" => Nothing(turn[u].i)'
    BY <1>1, <1>2, <1>4, <1>5, <2>1, <2>3 DEF WinnerInv, At
  <2>. QED
    BY <1>1, <2>2, <2>3 DEF WinnerInv, In, At, Winning, Status, rows
<1>7. EffectInv' /\ AtMostOneEvent' /\ OutcomesAreHonest'
  BY <1>1, <1>2, <1>4, <1>5 DEF EffectInv, AtMostOneEvent, OutcomesAreHonest, rows
<1>8. AnswerInv'
  BY <1>1, <1>2 DEF AnswerInv, In, At, Status, rows
<1>9. QuotaInv' /\ DispatchOvershoot'
  BY <1>1, StillQuota DEF rows, clock
<1>. QED
  BY <1>3, <1>6, <1>7, <1>8, <1>9

LEMMA ReconcileStep ==
    ASSUME IInv, NEW i \in Intents, Reconcile(i)
    PROVE  IInv'
<1> USE DEF IInv, Core
<1>1. UNCHANGED <<intent, spilled, provider, turn, lock, clock, losses, upsets>>
  BY DEF Reconcile
<1>2. /\ attempt[i].outcome = "unknown" /\ events[i] = 1
      /\ attempt' \in [Intents -> [outcome : {"none", "executing", "succeeded", "failed",
                                              "unknown", "reconciled"}, day : Days]]
      /\ attempt'[i].outcome = "reconciled" /\ attempt'[i].day = attempt[i].day
      /\ \A j \in Intents : j # i => attempt'[j] = attempt[j]
  BY DEF Reconcile, TypeOK, AtMostOneEvent
<1>3. TypeOK'
  BY <1>1, <1>2 DEF TypeOK, Status, provider, clock
<1>4. TurnInv' /\ RowInv' /\ ConsentInv' /\ LockInv'
  BY <1>1, <1>2 DEF TurnInv, RowInv, ConsentInv, LockInv, Status, In, At, clock
<1>5. EffectInv' /\ AtMostOneEvent' /\ OutcomesAreHonest'
  BY <1>1, <1>2 DEF EffectInv, AtMostOneEvent, OutcomesAreHonest, Nothing, provider
<1>6. WinnerInv'
  <2>1. \A u \in Turns : In(u, Winning) => turn[u].i \in Intents
    BY DEF ConsentInv, In, Winning, Acting
  <2>2. ASSUME NEW u \in Turns, In(u, {"attempt", "post", "record"})
        PROVE  attempt'[turn[u].i] = attempt[turn[u].i]
    BY <1>2, <2>1, <2>2 DEF WinnerInv, In, At, Winning
  <2>. QED
    BY <1>1, <2>2 DEF WinnerInv, In, At, Status, Nothing, provider
<1>7. AnswerInv'
  BY <1>1, <1>2 DEF AnswerInv, In, At, Status, provider
<1>8. QuotaInv' /\ DispatchOvershoot'
  BY <1>1, <1>2, StillQuota DEF clock
<1>. QED
  BY <1>3, <1>4, <1>5, <1>6, <1>7, <1>8

LEMMA AgeStep ==
    ASSUME IInv, NEW i \in Intents, Age(i)
    PROVE  IInv'
<1> USE DEF IInv, Core
<1>1. UNCHANGED <<rows, provider, turn, lock, day, losses, upsets>> /\ aged' = aged \cup {i}
  BY DEF Age
<1>2. TypeOK' /\ TurnInv' /\ RowInv' /\ ConsentInv' /\ WinnerInv'
  BY <1>1 DEF TypeOK, TurnInv, RowInv, ConsentInv, WinnerInv, Nothing, Status, In, At, rows, provider
<1>3. EffectInv' /\ AtMostOneEvent' /\ OutcomesAreHonest'
  BY <1>1 DEF EffectInv, AtMostOneEvent, OutcomesAreHonest, Nothing, rows, provider
<1>4. AnswerInv' /\ LockInv'
  BY <1>1 DEF AnswerInv, LockInv, Status, In, At, rows, provider
<1>5. QuotaInv' /\ DispatchOvershoot'
  BY <1>1, StillQuota DEF rows
<1>. QED
  BY <1>2, <1>3, <1>4, <1>5

\* No dispatch is of the new day.
LEMMA DayTurnsStep ==
    ASSUME IInv, DayTurns
    PROVE  IInv'
<1> USE DEF IInv, Core
<1>1. /\ UNCHANGED <<rows, provider, turn, lock, aged, losses>> /\ day' = day + 1
      /\ day \in Nat /\ day' \in Days /\ losses \in 0..upsets
      /\ upsets' \in 0..MaxUpsets /\ upsets <= upsets'
  <2>1. upsets' \in 0..MaxUpsets /\ upsets <= upsets'
    BY UpsetBound DEF DayTurns
  <2>. QED
    BY <2>1, CalendarAssumption DEF DayTurns, TypeOK, Days
<1>2. TypeOK'
  BY <1>1, CalendarAssumption DEF TypeOK, Status, rows, provider
<1>3. TurnInv'
  <2>1. \A u \in Turns : turn[u].day \in Nat
    BY CalendarAssumption DEF TurnInv, Handlers, Days
  <2>2. \A u \in Turns : turn[u].day <= day'
    BY <1>1, <2>1 DEF TurnInv
  <2>. QED
    BY <1>1, <2>2 DEF TurnInv, In, At
<1>4. RowInv' /\ ConsentInv' /\ WinnerInv'
  BY <1>1 DEF RowInv, ConsentInv, WinnerInv, Nothing, Status, In, At, rows, provider
<1>5. EffectInv' /\ AtMostOneEvent' /\ OutcomesAreHonest'
  BY <1>1 DEF EffectInv, AtMostOneEvent, OutcomesAreHonest, Nothing, rows, provider
<1>6. AnswerInv' /\ LockInv'
  BY <1>1 DEF AnswerInv, LockInv, Status, In, At, rows, provider
<1>7. DispatchOvershoot'
  BY <1>1 DEF DispatchOvershoot, rows
<1>8. ASSUME NEW p \in Principals
      PROVE  /\ Cardinality(Unlocked(p)') <= losses
             /\ Cardinality(Dispatched(p, day)') + Cardinality(InFlight(p)')
                  <= MaxDispatches + losses
  <2>1. Unlocked(p)' = Unlocked(p) /\ InFlight(p)' = InFlight(p)
    BY <1>1 DEF Unlocked, InFlight, In
  <2>2. Dispatched(p, day)' = {}
    <3>1. \A j \in Intents : attempt[j].day \in Nat
      BY CalendarAssumption DEF TypeOK, Days
    <3>. QED
      BY <1>1, <3>1 DEF Dispatched, QuotaInv, rows
  <2>3. Dispatched(p, day) \subseteq Intents /\ InFlight(p) \subseteq Turns
    BY DEF Dispatched, InFlight
  <2>4. Cardinality(Dispatched(p, day)) \in Nat /\ Cardinality(InFlight(p)) \in Nat
    BY <2>3, Fewer
  <2>5. Cardinality(Dispatched(p, day)') = 0
    BY <2>2, FS_EmptySet
  <2>6. /\ Cardinality(Unlocked(p)) <= losses
        /\ Cardinality(Dispatched(p, day)) + Cardinality(InFlight(p)) <= MaxDispatches + losses
        /\ losses \in Nat /\ MaxDispatches \in Nat
    BY CalendarAssumption DEF QuotaInv, TypeOK
  <2>. QED
    BY <2>1, <2>4, <2>5, <2>6
<1>9. \A j \in Intents : attempt'[j].outcome # "none" => attempt'[j].day <= day'
  <2>1. \A j \in Intents : attempt[j].day \in Nat
    BY CalendarAssumption DEF TypeOK, Days
  <2>. QED
    BY <1>1, <2>1 DEF QuotaInv, rows
<1>10. QuotaInv'
  BY <1>1, <1>8, <1>9 DEF QuotaInv
<1>. QED
  BY <1>2, <1>3, <1>4, <1>5, <1>6, <1>7, <1>10

\* The process dies; only a request that has left outlives it.
LEMMA CrashStep ==
    ASSUME IInv, NEW t \in Turns, Crash(t)
    PROVE  IInv'
<1>1. /\ Throw(t) /\ UNCHANGED <<rows, events, clock, losses>>
      /\ upsets' \in 0..MaxUpsets /\ upsets <= upsets'
  BY UpsetBound DEF Crash
<1>2. CASE ~At(t, "post")
  <2>1. UNCHANGED provider
    BY <1>1, <1>2 DEF Crash, provider
  <2>. QED
    BY <1>1, <2>1, ThrowStep
<1>3. CASE At(t, "post")
  <2> DEFINE i == turn[t].i
  <2>1. Nothing(i) /\ flying' = flying \cup {i}
    BY <1>3 DEF Crash, IInv, Core, WinnerInv
  <2>2. Idle \in Handlers /\ Idle.pc = "idle" /\ Idle.day = 0
    BY CalendarAssumption DEF Idle, Handlers, Labels, Sights, Replies, Days
  <2>3. turn' = [turn EXCEPT ![t] = Idle]
    BY <1>1 DEF Throw
  <2>4. /\ lock' \in [Principals -> Turns \cup {NoTurn}]
        /\ \A p \in Principals, u \in Turns \ {t} : lock[p] = u => lock'[p] = u
    BY <1>1 DEF Throw, Release, IInv, Core, TypeOK
  <2>5. /\ attempt' = [attempt EXCEPT ![i] = attempt[i]] /\ events' = [events EXCEPT ![i] = 0]
        /\ events[i] = 0 /\ i \in Intents /\ flying' \subseteq Intents
        /\ spilled' = spilled /\ spilled \subseteq Intents
        /\ attempt[i].outcome = "executing" /\ 0 <= day
    <3>1. attempt' = attempt /\ events' = events /\ spilled' = spilled
      BY <1>1 DEF rows
    <3>2. 0 <= day
      BY CalendarAssumption DEF IInv, Core, TypeOK, Days
    <3>. QED
      BY <1>3, <2>1, <3>1, <3>2, Executing DEF Nothing
  <2>6. Effect(t, Idle, attempt[i], 0)
    <3> HIDE DEF i
    <3>. QED
      BY <2>1, <2>2, <2>3, <2>5 DEF Effect, i
  <2>7. Core'
    <3>1. /\ In(t, {"attempt", "post", "record"}) /\ 0 \in Nat
          /\ attempt[i] \in [outcome : {"executing", "succeeded", "failed", "unknown"}, day : Days]
      BY <1>3, Executing
    <3>2. UNCHANGED <<intent, clock, losses>>
      BY <1>1 DEF rows
    <3>. QED
      BY <1>1, <2>2, <2>4, <2>6, <3>1, <3>2, EffectStep
  <2>8. QuotaInv' /\ DispatchOvershoot'
    BY <1>1, <2>2, <2>3, <2>4, TurnQuota DEF rows, clock, Resting
  <2>. QED
    BY <2>7, <2>8 DEF IInv
<1>. QED
  BY <1>2, <1>3

\* A lost lock leaves one turn more at work without it.
LEMMA LoseLockStep ==
    ASSUME IInv, NEW p \in Principals, LoseLock(p)
    PROVE  IInv'
<1> USE DEF IInv, Core
<1>1. UNCHANGED <<rows, provider, turn, clock>>
  BY DEF LoseLock
<1>2. /\ lock' \in [Principals -> Turns \cup {NoTurn}]
      /\ losses \in Nat /\ losses' = losses + 1
      /\ upsets' \in 0..MaxUpsets /\ losses' \in 0..upsets'
  BY CalendarAssumption DEF LoseLock, TypeOK, Upset
<1>3. TypeOK'
  BY <1>1, <1>2 DEF TypeOK, Status, rows, provider, clock
<1>4. TurnInv' /\ RowInv' /\ ConsentInv' /\ WinnerInv'
  BY <1>1 DEF TurnInv, RowInv, ConsentInv, WinnerInv, Nothing, Status, In, At, rows, provider, clock
<1>5. EffectInv' /\ AtMostOneEvent' /\ OutcomesAreHonest' /\ AnswerInv'
  BY <1>1 DEF EffectInv, AtMostOneEvent, OutcomesAreHonest, AnswerInv, Nothing, Status, In, At, rows,
              provider
<1>6. LockInv'
  BY <1>2 DEF LockInv
<1>7. ASSUME NEW q \in Principals, NEW d \in Days
      PROVE  /\ Cardinality(Unlocked(q)') <= losses'
             /\ Cardinality(Dispatched(q, d)') = Cardinality(Dispatched(q, d))
             /\ Cardinality(InFlight(q)') = Cardinality(InFlight(q))
             /\ Cardinality(Dispatched(q, d)) \in Nat /\ Cardinality(InFlight(q)) \in Nat
  <2>1. Unlocked(q)' \subseteq Unlocked(q) \cup {lock[q]}
    BY <1>1, <1>2 DEF LoseLock, Unlocked, In, TypeOK
  <2>2. Dispatched(q, d)' = Dispatched(q, d) /\ InFlight(q)' = InFlight(q)
    BY <1>1 DEF Dispatched, InFlight, In, rows
  <2>3. /\ Unlocked(q) \subseteq Turns /\ Dispatched(q, d) \subseteq Intents
        /\ InFlight(q) \subseteq Turns
    BY DEF Unlocked, Dispatched, InFlight
  <2>4. IsFiniteSet(Unlocked(q)) /\ Cardinality(Unlocked(q)) \in Nat
    BY <2>3, FiniteSubsets, FS_CardinalityType
  <2>5. /\ IsFiniteSet(Unlocked(q) \cup {lock[q]})
        /\ \/ Cardinality(Unlocked(q) \cup {lock[q]}) = Cardinality(Unlocked(q))
           \/ Cardinality(Unlocked(q) \cup {lock[q]}) = Cardinality(Unlocked(q)) + 1
    BY <2>4, FS_AddElement
  <2>6. /\ IsFiniteSet(Unlocked(q)')
        /\ Cardinality(Unlocked(q)') <= Cardinality(Unlocked(q) \cup {lock[q]})
    BY <2>1, <2>5, FS_Subset
  <2>7. Cardinality(Unlocked(q)') \in Nat
    BY <2>6, FS_CardinalityType
  <2>8. Cardinality(Unlocked(q)) <= losses
    BY DEF QuotaInv
  <2>9. Cardinality(Unlocked(q)') <= losses'
    BY <1>2, <2>4, <2>5, <2>6, <2>7, <2>8
  <2>. QED
    BY <2>2, <2>3, <2>9, Fewer
<1>8. MaxDispatches \in Nat /\ day \in Days /\ day' = day
  BY <1>1, CalendarAssumption DEF TypeOK, clock
<1>9. DispatchOvershoot'
  <2> SUFFICES ASSUME NEW q \in Principals, NEW d \in Days
               PROVE  Cardinality(Dispatched(q, d)') <= MaxDispatches + losses'
    BY DEF DispatchOvershoot, Dispatched
  <2>1. Cardinality(Dispatched(q, d)) <= MaxDispatches + losses
    BY DEF DispatchOvershoot, Dispatched
  <2>. QED
    BY <1>2, <1>7, <1>8, <2>1
<1>10. ASSUME NEW q \in Principals
       PROVE  /\ Cardinality(Unlocked(q)') <= losses'
              /\ Cardinality(Dispatched(q, day)') + Cardinality(InFlight(q)')
                   <= MaxDispatches + losses'
  <2>1. PICK d \in Days : d = day
    BY <1>8
  <2>2. Dispatched(q, day)' = Dispatched(q, d)' /\ Dispatched(q, day) = Dispatched(q, d)
    BY <1>8, <2>1 DEF Dispatched
  <2>3. Cardinality(Dispatched(q, d)) + Cardinality(InFlight(q)) <= MaxDispatches + losses
    BY <2>1 DEF QuotaInv
  <2>4. Cardinality(Dispatched(q, d)') + Cardinality(InFlight(q)') <= MaxDispatches + losses'
    BY <1>2, <1>7, <1>8, <2>3
  <2>. QED
    BY <1>7, <2>1, <2>2, <2>4
<1>11. QuotaInv'
  BY <1>1, <1>10 DEF QuotaInv, rows, clock
<1>. QED
  BY <1>3, <1>4, <1>5, <1>6, <1>9, <1>11

LEMMA StutterStep ==
    ASSUME IInv, UNCHANGED vars
    PROVE  IInv'
<1> USE DEF IInv, Core, vars
<1>1. TypeOK' /\ TurnInv' /\ RowInv' /\ ConsentInv' /\ WinnerInv'
  BY DEF TypeOK, TurnInv, RowInv, ConsentInv, WinnerInv, Nothing, Status, In, At, rows, provider,
         clock
<1>2. EffectInv' /\ AtMostOneEvent' /\ OutcomesAreHonest' /\ AnswerInv' /\ LockInv'
  BY DEF EffectInv, AtMostOneEvent, OutcomesAreHonest, AnswerInv, LockInv, Nothing, Status, In, At,
         rows, provider
<1>3. QuotaInv' /\ DispatchOvershoot'
  BY StillQuota DEF rows, clock
<1>. QED
  BY <1>1, <1>2, <1>3

LEMMA NextIInv ==
    ASSUME IInv, [Next]_vars
    PROVE  IInv'
<1>1. ASSUME NEW t \in Turns, TurnNext(t)
      PROVE  IInv'
  BY <1>1, ReceiveStep, TakeLockStep, FinishStep, SoleStep, CountProposalsStep, InsertIntentStep,
     MintTokenStep, LookupStep, CancelReadStep, CancelWriteStep, CountDispatchesStep, ApproveStep,
     PrepareStep, StartAttemptStep, PostStep, RecordStep, CrashStep DEF TurnNext
<1>2. ASSUME NEW i \in Intents, Serve(i) \/ Reconcile(i) \/ Age(i)
      PROVE  IInv'
  BY <1>2, ServeStep, ReconcileStep, AgeStep
<1>. QED
  BY <1>1, <1>2, LoseLockStep, DayTurnsStep, StutterStep DEF Next

\* The invariant holds in every state of every behaviour.
LEMMA Invariance == Spec => []IInv
BY InitIInv, NextIInv, PTL DEF Spec

-----------------------------------------------------------------------------
(* What the owner relies on *)

\* The rows, the handlers' locks and the counters hold values of their columns,
\* and an attempt belongs to a prepared intent (action_intents and
\* action_attempts).
THEOREM TypeCorrect == Spec => []TypeOK
BY Invariance, PTL DEF IInv, Core

\* However many turns race, lose their locks or die, one intent is worth one event
\* at the provider, counting the request that may still be served
\* (confirmIntentRow over startAttempt).
THEOREM OneEventPerIntent == Spec => []AtMostOneEvent
BY Invariance, PTL DEF IInv, Core

\* A recorded success or reconciliation has its event, and a recorded failure has
\* none unless the write of the success failed (recordOutcome, reconcileAttempt).
THEOREM RecordedOutcomesHold == Spec => []OutcomesAreHonest
BY Invariance, PTL DEF IInv, Core

\* What a handler told the owner stays true while the answer stands
\* (replyForAttempt, confirmIntentRow).
THEOREM AnswersHold == Spec => []RepliesAreHonest
<1>1. IInv => RepliesAreHonest
  <2> SUFFICES ASSUME IInv, NEW t \in Turns, At(t, "done")
               PROVE  /\ turn[t].reply = "succeeded" => events[turn[t].i] = 1
                      /\ turn[t].reply = "failed" => Nothing(turn[t].i) \/ turn[t].i \in spilled
                      /\ turn[t].reply \in {"cancelled", "grant-denied"} => Nothing(turn[t].i)
                      /\ turn[t].reply \in {"expired", "capped"} /\ turn[t].i # 0 /\ losses = 0
                            => Nothing(turn[t].i)
    BY DEF RepliesAreHonest, Nothing
  <2>1. \A i \in Intents : Status(i) # "prepared" => Nothing(i)
    BY DEF IInv, Core, TypeOK, EffectInv
  <2>2. turn[t].reply = "failed" => Nothing(turn[t].i) \/ turn[t].i \in spilled
    BY DEF IInv, Core, AnswerInv, OutcomesAreHonest, Nothing
  <2>3. turn[t].reply = "cancelled" => Nothing(turn[t].i)
    BY <2>1 DEF IInv, Core, AnswerInv
  <2>4. turn[t].reply = "grant-denied" => Nothing(turn[t].i)
    BY DEF IInv, Core, AnswerInv, EffectInv
  <2>5. turn[t].reply \in {"expired", "capped"} /\ turn[t].i # 0 /\ losses = 0
          => Nothing(turn[t].i)
    BY <2>1 DEF IInv, Core, LockInv
  <2>6. turn[t].reply = "succeeded" => events[turn[t].i] = 1
    BY DEF IInv, Core, AnswerInv
  <2>. QED
    BY <2>2, <2>3, <2>4, <2>5, <2>6
<1>. QED
  BY Invariance, <1>1, PTL

\* The cap on a day's dispatches is overshot by at most one for each lock lost
\* between the count and the attempt's row (dispatchesToday).
THEOREM CapHolds == Spec => []DispatchOvershoot
BY Invariance, PTL DEF IInv

\* An attempt begins only in a turn of the person the proposal was made to, who
\* sent its code with "confirm" before it expired (confirmCalendarAction).
THEOREM ConsentPrecedesEffect == Spec => EffectHasConsent
<1> DEFINE Consented ==
        \A i \in Intents :
          (attempt[i].outcome = "none" /\ attempt'[i].outcome # "none") =>
             \E t \in Turns : /\ At(t, "attempt") /\ turn[t].i = i
                              /\ turn[t].verb = "confirm" /\ turn[t].tok = intent[i].token
                              /\ turn[t].who = intent[i].owner /\ i \notin turn[t].stale
<1>1. ASSUME IInv, [Next]_vars
      PROVE  Consented
  <2> SUFFICES ASSUME NEW i \in Intents, attempt[i].outcome = "none",
                      attempt'[i].outcome # "none"
               PROVE  \E t \in Turns : /\ At(t, "attempt") /\ turn[t].i = i
                                       /\ turn[t].verb = "confirm" /\ turn[t].tok = intent[i].token
                                       /\ turn[t].who = intent[i].owner /\ i \notin turn[t].stale
    OBVIOUS
  <2>1. attempt' # attempt
    OBVIOUS
  <2>2. \A j : Serve(j) \/ Age(j) => UNCHANGED attempt
    BY DEF Serve, Age, rows
  <2>3. \A j \in Intents : ~Reconcile(j)
    <3>1. ASSUME NEW j \in Intents, Reconcile(j)
          PROVE  FALSE
      <4>1. attempt[j].outcome = "unknown" /\ attempt' = [attempt EXCEPT ![j].outcome = "reconciled"]
        BY <3>1 DEF Reconcile
      <4>2. attempt'[i] = attempt[i]
        BY <4>1 DEF IInv, Core, TypeOK
      <4>. QED
        BY <4>2
    <3>. QED
      BY <3>1
  <2>4. PICK t \in Turns : TurnNext(t)
    BY <1>1, <2>1, <2>2, <2>3 DEF Next, LoseLock, DayTurns, vars, rows
  <2>5. ~Record(t)
    <3>1. ASSUME Record(t)
          PROVE  attempt[turn[t].i].outcome = "executing"
      BY <3>1 DEF Record
    <3>2. ASSUME Record(t)
          PROVE  \/ UNCHANGED attempt
                 \/ \E s : attempt' = [attempt EXCEPT ![turn[t].i].outcome = s]
      BY <3>2 DEF Record
    <3>. QED
      BY <1>1, <3>1, <3>2 DEF IInv, Core, TypeOK
  <2>6. StartAttempt(t)
    BY <2>1, <2>4, <2>5
       DEF TurnNext, Receive, TakeLock, Finish, Sole, CountProposals, InsertIntent, MintToken, Lookup,
           CancelRead, CancelWrite, CountDispatches, Approve, Prepare, Post, Crash, rows
  <2>7. At(t, "attempt") /\ turn[t].i = i
    BY <1>1, <2>1, <2>6 DEF StartAttempt, IInv, Core, TypeOK
  <2>8. /\ turn[t].verb = "confirm" /\ turn[t].tok = intent[i].token
        /\ turn[t].who = intent[i].owner /\ i \notin turn[t].stale
    BY <1>1, <2>7 DEF IInv, Core, ConsentInv, In, At, Acting, Confirming
  <2>. QED
    BY <2>7, <2>8
<1>2. IInv /\ [Next]_vars => [Consented]_vars
  BY <1>1
<1>3. EffectHasConsent <=> [][Consented]_vars
  BY DEF EffectHasConsent
<1>. QED
  BY Invariance, <1>2, <1>3, PTL DEF Spec

-----------------------------------------------------------------------------
(* The proposals implement the one-shot channel *)

Standing == [i \in Intents |-> StandingOf(i)]

\* The channel sees nothing but the rows' standing and the events.
LEMMA Unseen ==
    ASSUME UNCHANGED events, \A i \in Intents : StandingOf(i)' = StandingOf(i)
    PROVE  UNCHANGED Channel!cvars
<1>1. Standing' = Standing
  BY DEF Standing
<1>. QED
  BY <1>1 DEF Channel!cvars, Standing

LEMMA RowsAsTheyWere ==
    ASSUME UNCHANGED <<intent, attempt, spilled, events>>
    PROVE  UNCHANGED Channel!cvars
<1>1. \A i \in Intents : StandingOf(i)' = StandingOf(i)
  BY DEF StandingOf, Status
<1>. QED
  BY <1>1, Unseen

\* One row moves and the others stay.
LEMMA OneStanding ==
    ASSUME NEW i \in Intents, NEW s, StandingOf(i)' = s,
           \A j \in Intents \ {i} : StandingOf(j)' = StandingOf(j)
    PROVE  Standing' = [Standing EXCEPT ![i] = s]
BY DEF Standing

LEMMA InitOneShot == Init => Channel!ChannelInit
BY DEF Init, NoIntent, NoAttempt, Status, StandingOf, Channel!ChannelInit

\* The turns at work that leave the rows alone.
LEMMA UnseenSteps ==
    ASSUME IInv, NEW t \in Turns,
           \/ Receive(t) \/ TakeLock(t) \/ Finish(t) \/ Sole(t) \/ CountProposals(t) \/ Lookup(t)
           \/ CancelRead(t) \/ CountDispatches(t) \/ Crash(t)
    PROVE  UNCHANGED Channel!cvars
<1>1. UNCHANGED <<intent, attempt, spilled, events>>
  BY DEF Receive, TakeLock, Finish, Sole, CountProposals, Lookup, CancelRead, CountDispatches,
         Crash, rows, provider
<1>. QED
  BY <1>1, RowsAsTheyWere

\* A code, an approval, a preparation and an attempt's row leave the proposal open.
LEMMA OpenSteps ==
    ASSUME IInv, NEW t \in Turns, MintToken(t) \/ Approve(t) \/ Prepare(t) \/ StartAttempt(t)
    PROVE  UNCHANGED Channel!cvars
<1> USE DEF IInv, Core
<1>0. PICK i : i = turn[t].i
  OBVIOUS
<1>1. CASE MintToken(t)
  <2>1. i \in Intents /\ UNCHANGED <<attempt, spilled, events>>
    BY <1>0, <1>1 DEF MintToken, RowInv, provider
  <2>2. PICK tok \in Tokens : intent' = [intent EXCEPT ![i].token = tok]
    BY <1>0, <1>1 DEF MintToken
  <2>3. \A j \in Intents : Status(j)' = Status(j)
    BY <2>1, <2>2 DEF TypeOK, Status
  <2>4. \A j \in Intents : StandingOf(j)' = StandingOf(j)
    BY <2>1, <2>3 DEF StandingOf
  <2>. QED
    BY <2>1, <2>4, Unseen
<1>2. ASSUME Approve(t) \/ Prepare(t)
      PROVE  UNCHANGED Channel!cvars
  <2>1. i \in Intents /\ UNCHANGED <<attempt, spilled, events>>
    BY <1>0, <1>2 DEF Approve, Prepare, ConsentInv, In, At, Acting, provider
  <2>2. \/ UNCHANGED intent
        \/ /\ Status(i) \in {"proposed", "approved"}
           /\ \E s \in {"approved", "prepared"} : intent' = [intent EXCEPT ![i].status = s]
    BY <1>0, <1>2 DEF Approve, Prepare
  <2>3. CASE UNCHANGED intent
    BY <2>1, <2>3, RowsAsTheyWere
  <2>4. ASSUME NEW s \in {"approved", "prepared"}, intent' = [intent EXCEPT ![i].status = s],
               Status(i) \in {"proposed", "approved"}
        PROVE  UNCHANGED Channel!cvars
    <3>1. attempt[i].outcome = "none"
      BY <2>1, <2>4 DEF TypeOK
    <3>2. \A j \in Intents \ {i} : StandingOf(j)' = StandingOf(j)
      BY <2>1, <2>4 DEF TypeOK, Status, StandingOf
    <3>3. StandingOf(i) = "open" /\ StandingOf(i)' = "open"
      BY <2>1, <2>4, <3>1 DEF TypeOK, Status, StandingOf
    <3>. QED
      BY <2>1, <3>2, <3>3, Unseen
  <2>. QED
    BY <2>2, <2>3, <2>4
<1>3. CASE StartAttempt(t)
  <2>1. /\ i \in Intents /\ UNCHANGED <<intent, spilled, events>>
        /\ Status(i) = "prepared" /\ attempt[i].outcome = "none"
    BY <1>0, <1>3 DEF StartAttempt, ConsentInv, WinnerInv, In, At, Acting, provider
  <2>2. \/ UNCHANGED attempt
        \/ attempt' = [attempt EXCEPT ![i] = [outcome |-> "executing", day |-> day]]
    BY <1>0, <1>3 DEF StartAttempt
  <2>3. \A j \in Intents : attempt'[j] = attempt[j] \/ (j = i /\ attempt'[j].outcome = "executing")
    BY <2>1, <2>2 DEF TypeOK
  <2>4. \A j \in Intents : StandingOf(j)' = StandingOf(j)
    BY <2>1, <2>3 DEF StandingOf, Status
  <2>. QED
    BY <2>1, <2>4, Unseen
<1>. QED
  BY <1>1, <1>2, <1>3

\* A row inserted is an offer.
LEMMA InsertOffers ==
    ASSUME IInv, NEW t \in Turns, InsertIntent(t)
    PROVE  \E i \in Intents : Channel!Offer(i)
<1> USE DEF IInv, Core
<1>1. UNCHANGED <<attempt, spilled, events>>
  BY DEF InsertIntent, provider
<1>2. PICK i \in Intents :
        /\ Status(i) = "none"
        /\ intent' = [intent EXCEPT ![i] = [NoIntent EXCEPT !.status = "proposed",
                                                            !.owner = turn[t].who, !.born = day]]
  BY DEF InsertIntent
<1>3. Status(i)' = "proposed" /\ \A j \in Intents \ {i} : Status(j)' = Status(j)
  BY <1>2 DEF TypeOK, NoIntent, Status
<1>4. attempt[i].outcome = "none"
  BY <1>2 DEF TypeOK
<1>5. StandingOf(i) = "absent" /\ StandingOf(i)' = "open"
  BY <1>1, <1>2, <1>3, <1>4 DEF StandingOf
<1>6. Standing' = [Standing EXCEPT ![i] = "open"]
  <2>1. \A j \in Intents \ {i} : StandingOf(j)' = StandingOf(j)
    BY <1>1, <1>3 DEF StandingOf
  <2>. QED
    BY <1>5, <2>1, OneStanding
<1>. QED
  BY <1>1, <1>5, <1>6 DEF Channel!Offer, Standing

\* A proposal cancelled by its conditional write was not yet prepared: nothing
\* had left for the calendar.
LEMMA CancelRefuses ==
    ASSUME IInv, NEW t \in Turns, CancelWrite(t)
    PROVE  [Channel!ChannelNext]_(Channel!cvars)
<1> USE DEF IInv, Core
<1>0. PICK i : i = turn[t].i
  OBVIOUS
<1>1. UNCHANGED <<attempt, spilled, events>> /\ i \in Intents
  BY <1>0 DEF CancelWrite, ConsentInv, In, At, Acting, provider
<1>2. CASE UNCHANGED intent
  BY <1>1, <1>2, RowsAsTheyWere
<1>3. CASE Status(i) = turn[t].saw /\ intent' = [intent EXCEPT ![i].status = "cancelled"]
  <2>1. Status(i) \in {"proposed", "approved"}
    BY <1>0, <1>3 DEF CancelWrite, ConsentInv
  <2>2. attempt[i].outcome = "none" /\ events[i] = 0
    BY <1>1, <2>1 DEF TypeOK, EffectInv, Nothing
  <2>3. Status(i)' = "cancelled" /\ \A j \in Intents \ {i} : Status(j)' = Status(j)
    BY <1>1, <1>3 DEF TypeOK, Status
  <2>4. StandingOf(i) = "open" /\ StandingOf(i)' = "refused"
    <3>1. attempt'[i].outcome = "none"
      BY <1>1, <2>2
    <3>. QED
      BY <2>1, <2>2, <2>3, <3>1 DEF StandingOf
  <2>5. \A j \in Intents \ {i} : StandingOf(j)' = StandingOf(j)
    BY <1>1, <2>3 DEF StandingOf
  <2>6. Standing' = [Standing EXCEPT ![i] = "refused"]
    BY <1>1, <2>4, <2>5, OneStanding
  <2>7. Channel!Refuse(i)
    BY <1>1, <2>2, <2>4, <2>6 DEF Channel!Refuse, Channel!Open, Standing
  <2>. QED
    BY <1>1, <2>7 DEF Channel!ChannelNext
<1>. QED
  BY <1>0, <1>2, <1>3 DEF CancelWrite

\* An event the provider makes is a hand-over: of a proposal that is open, or that
\* had lapsed.
LEMMA EventHandsOver ==
    ASSUME IInv, NEW i \in Intents, events[i] = 0, events' = [events EXCEPT ![i] = @ + 1],
           UNCHANGED rows, StandingOf(i) \in {"open", "lapsed"}
    PROVE  [Channel!ChannelNext]_(Channel!cvars)
<1>1. events' = [events EXCEPT ![i] = 1]
  OBVIOUS
<1>2. Standing' = Standing
  BY DEF Standing, StandingOf, Status, rows
<1>3. Channel!HandOver(i)
  BY <1>1, <1>2 DEF Channel!HandOver, Standing
<1>. QED
  BY <1>3 DEF Channel!ChannelNext

LEMMA PostHandsOver ==
    ASSUME IInv, NEW t \in Turns, Post(t)
    PROVE  [Channel!ChannelNext]_(Channel!cvars)
<1> USE DEF IInv, Core
<1>0. PICK i : i = turn[t].i
  OBVIOUS
<1>1. /\ i \in Intents /\ attempt[i].outcome = "executing" /\ events[i] = 0
      /\ UNCHANGED rows
  BY <1>0, Executing DEF Post, WinnerInv, Nothing
<1>2. UNCHANGED events \/ events' = [events EXCEPT ![i] = @ + 1]
  BY <1>0 DEF Post, provider
<1>3. StandingOf(i) = "open"
  BY <1>1 DEF TypeOK, StandingOf
<1>. QED
  BY <1>1, <1>2, <1>3, EventHandsOver, RowsAsTheyWere DEF rows

LEMMA ServeHandsOver ==
    ASSUME IInv, NEW i \in Intents, Serve(i)
    PROVE  [Channel!ChannelNext]_(Channel!cvars)
<1> USE DEF IInv, Core
<1>1. i \in flying /\ events' = [events EXCEPT ![i] = @ + 1] /\ UNCHANGED rows
  BY DEF Serve
<1>2. events[i] = 0
  BY <1>1 DEF TypeOK, AtMostOneEvent
<1>3. /\ attempt[i].outcome \notin {"none", "succeeded", "reconciled"}
      /\ attempt[i].outcome = "failed" => i \in spilled
  BY <1>1, <1>2 DEF OutcomesAreHonest, EffectInv, Nothing
<1>4. Status(i) = "prepared"
  BY <1>3 DEF TypeOK
<1>5. StandingOf(i) \in {"open", "lapsed"}
  BY <1>3, <1>4 DEF StandingOf
<1>. QED
  BY <1>1, <1>2, <1>5, EventHandsOver

\* What an executing attempt's record makes of the proposal.
LEMMA RecordDecides ==
    ASSUME IInv, NEW t \in Turns, Record(t)
    PROVE  [Channel!ChannelNext]_(Channel!cvars)
<1> USE DEF IInv, Core
<1>0. PICK i : i = turn[t].i
  OBVIOUS
<1>1. /\ i \in Intents /\ attempt[i].outcome = "executing"
      /\ UNCHANGED <<intent, events>> /\ At(t, "record")
  BY <1>0, Executing DEF Record, provider
<1>2. /\ turn[t].saw \in {"succeeded", "unknown", "failed"}
      /\ turn[t].saw = "succeeded" => events[i] = 1
      /\ turn[t].saw = "failed" => events[i] = 0
  BY <1>0, <1>1 DEF WinnerInv, Nothing
<1>3. Status(i) = "prepared" /\ StandingOf(i) = "open"
  BY <1>1 DEF TypeOK, StandingOf
<1>4. CASE UNCHANGED <<attempt, spilled>>
  BY <1>1, <1>4, RowsAsTheyWere
<1>5. ASSUME NEW s \in {"succeeded", "unknown", "failed"}, spilled \subseteq spilled',
             attempt' = [attempt EXCEPT ![i].outcome = s], \A j \in spilled' \ spilled : j = i,
             s = "failed" => events[i] = 0 \/ i \in spilled',
             s = "succeeded" => events[i] = 1
      PROVE  [Channel!ChannelNext]_(Channel!cvars)
  <2>1. attempt'[i].outcome = s /\ \A j \in Intents \ {i} : attempt'[j] = attempt[j]
    BY <1>1, <1>5 DEF TypeOK
  <2>2. \A j \in Intents \ {i} : StandingOf(j)' = StandingOf(j)
    BY <1>1, <1>5, <2>1 DEF StandingOf, Status
  <2>3. Status(i)' = "prepared"
    BY <1>1, <1>3 DEF Status
  <2>4. CASE s = "unknown"
    <3>1. StandingOf(i)' = "open"
      BY <2>1, <2>3, <2>4 DEF StandingOf
    <3>. QED
      BY <1>1, <1>3, <2>2, <3>1, Unseen
  <2>5. CASE s = "succeeded"
    <3>1. StandingOf(i)' = "delivered"
      BY <2>1, <2>3, <2>5 DEF StandingOf
    <3>2. Standing' = [Standing EXCEPT ![i] = "delivered"]
      BY <1>1, <2>2, <3>1, OneStanding
    <3>3. Channel!Acknowledge(i)
      BY <1>1, <1>3, <1>5, <2>5, <3>2 DEF Channel!Acknowledge, Channel!Open, Standing
    <3>. QED
      BY <1>1, <3>3 DEF Channel!ChannelNext
  <2>6. CASE s = "failed" /\ i \notin spilled'
    <3>1. StandingOf(i)' = "refused"
      BY <2>1, <2>3, <2>6 DEF StandingOf
    <3>2. Standing' = [Standing EXCEPT ![i] = "refused"]
      BY <1>1, <2>2, <3>1, OneStanding
    <3>3. Channel!Refuse(i)
      BY <1>1, <1>3, <1>5, <2>6, <3>2 DEF Channel!Refuse, Channel!Open, Standing
    <3>. QED
      BY <1>1, <3>3 DEF Channel!ChannelNext
  <2>7. CASE s = "failed" /\ i \in spilled'
    <3>1. StandingOf(i)' = "lapsed"
      BY <2>1, <2>3, <2>7 DEF StandingOf
    <3>2. Standing' = [Standing EXCEPT ![i] = "lapsed"]
      BY <1>1, <2>2, <3>1, OneStanding
    <3>3. Channel!Lapse(i)
      BY <1>1, <1>3, <3>2 DEF Channel!Lapse, Channel!Open, Standing
    <3>. QED
      BY <1>1, <3>3 DEF Channel!ChannelNext
  <2>. QED
    BY <2>4, <2>5, <2>6, <2>7
<1>6. CASE attempt' = [attempt EXCEPT ![i].outcome = turn[t].saw] /\ UNCHANGED spilled
  BY <1>2, <1>5, <1>6
<1>7. CASE /\ attempt' = [attempt EXCEPT ![i].outcome = "failed"]
           /\ spilled' = spilled \cup {i}
  BY <1>5, <1>7
<1>. QED
  BY <1>0, <1>4, <1>6, <1>7 DEF Record

\* An attempt reconciled points at its event.
LEMMA ReconcileAcknowledges ==
    ASSUME IInv, NEW i \in Intents, Reconcile(i)
    PROVE  Channel!Acknowledge(i)
<1> USE DEF IInv, Core
<1>1. /\ attempt[i].outcome = "unknown" /\ events[i] > 0
      /\ attempt' = [attempt EXCEPT ![i].outcome = "reconciled"]
      /\ UNCHANGED <<intent, spilled, events>>
  BY DEF Reconcile, provider
<1>2. Status(i) = "prepared" /\ events[i] = 1
  BY <1>1 DEF TypeOK, AtMostOneEvent
<1>3. /\ attempt'[i].outcome = "reconciled" /\ Status(i)' = "prepared"
      /\ \A j \in Intents \ {i} : attempt'[j] = attempt[j]
  BY <1>1, <1>2 DEF TypeOK, Status
<1>4. StandingOf(i) = "open" /\ StandingOf(i)' = "delivered"
  BY <1>1, <1>2, <1>3 DEF StandingOf
<1>5. \A j \in Intents \ {i} : StandingOf(j)' = StandingOf(j)
  BY <1>1, <1>3 DEF StandingOf, Status
<1>6. Standing' = [Standing EXCEPT ![i] = "delivered"]
  BY <1>4, <1>5, OneStanding
<1>. QED
  BY <1>1, <1>2, <1>4, <1>6 DEF Channel!Acknowledge, Channel!Open, Standing

LEMMA StepOneShot == IInv /\ [Next]_vars => [Channel!ChannelNext]_(Channel!cvars)
<1> SUFFICES ASSUME IInv, [Next]_vars PROVE [Channel!ChannelNext]_(Channel!cvars)
  OBVIOUS
<1>1. ASSUME NEW t \in Turns, TurnNext(t)
      PROVE  [Channel!ChannelNext]_(Channel!cvars)
  <2>1. CASE InsertIntent(t)
    BY <2>1, InsertOffers DEF Channel!ChannelNext
  <2>. QED
    BY <1>1, <2>1, UnseenSteps, OpenSteps, CancelRefuses, PostHandsOver, RecordDecides DEF TurnNext
<1>2. CASE \E i \in Intents : Serve(i) \/ Reconcile(i) \/ Age(i)
  <2>1. CASE \E i \in Intents : Serve(i)
    BY <2>1, ServeHandsOver
  <2>2. CASE \E i \in Intents : Reconcile(i)
    BY <2>2, ReconcileAcknowledges DEF Channel!ChannelNext
  <2>3. CASE \E i \in Intents : Age(i)
    BY <2>3, RowsAsTheyWere DEF Age, rows, provider
  <2>. QED
    BY <1>2, <2>1, <2>2, <2>3
<1>3. CASE (\E p \in Principals : LoseLock(p)) \/ DayTurns \/ UNCHANGED vars
  BY <1>3, RowsAsTheyWere DEF LoseLock, DayTurns, vars, rows, provider
<1>. QED
  BY <1>1, <1>2, <1>3 DEF Next

\* The proposals with their codes, locks, attempts and lost answers implement the
\* one-shot channel their owner relies on: one event, none for a proposal that was
\* cancelled or failed before it, no success without its event, and a first outcome
\* that is final (confirmCalendarAction, recordOutcome, reconcileCalendarAction).
THEOREM ProposalsAreOneShot == Spec => ImplementsOneShotChannel
<1>. QED
  BY InitOneShot, StepOneShot, Invariance, PTL
     DEF Spec, ImplementsOneShotChannel, Channel!ChannelSpec

=============================================================================
