-------------------------- MODULE ConversationProofs --------------------------
(***************************************************************************)
(* What the parked offers of a conversation promise, for every number of   *)
(* threads, offers, turns, sweeps and upsets.                              *)
(*                                                                         *)
(* The metadata is read and written back in two steps by a turn and by the *)
(* sweep, and turns overlap once a lock is lost, so a list can be old when *)
(* it is written. The proof follows every copy an offer can come back      *)
(* from: a thread's metadata, what a turn has read, what the sweep has     *)
(* read. An offer is in the copies of its own thread only. Of the turns at *)
(* one offer a single one began with nobody beside it; as long as that one *)
(* has carried nothing out, and whenever nobody is at an offer that can    *)
(* still be answered, every time it was carried out is accounted for.      *)
(***************************************************************************)
EXTENDS Conversation, FiniteSetTheorems, WellFoundedInduction, TLAPS

----------------------------------------------------------------------------
(* The inductive invariant *)

Known == 1..parked
SweepStates == [pc : {"idle", "write"}, th : Threads \cup {NoThread}, base : Metas]
ThreadStates == [status : {"none", "active", "closed"}, meta : Metas]
OfferStates == [type : Types \cup {"none"}, th : Threads \cup {NoThread}, token : BOOLEAN]

\* The single slot points at the last entry of the list whenever there is one.
Slotted(m) == m.list # {} => m.latest = LastOf(m.list)

Typed ==
    /\ thread \in [Threads -> ThreadStates] /\ \E t \in Threads : thread[t].status = "active"
    /\ offer \in [Offers -> OfferStates] /\ parked \in 0..MaxOffers
    /\ turn \in [Turns -> TurnStates] /\ sweep \in SweepStates
    /\ turns \in Nat /\ \A n \in Turns : n > turns => turn[n] = IdleTurn
    /\ made \in [Offers -> Nat] /\ excuse \in [Offers -> Nat] /\ calm \in BOOLEAN
    /\ \A t \in Threads : Slotted(Meta(t))
    /\ \A n \in Turns : Slotted(turn[n].base)
    /\ Slotted(sweep.base)

\* Offers that were in a list, or whose turn died before they were; those of a thread.
Aired == {o \in Known : \A n \in Turns : o \notin turn[n].fresh}
Of(t) == {o \in Aired : offer[o].th = t}

\* What turn n has read is of its thread; what it parks is nowhere else.
CopyInv(n) ==
    LET t == turn[n] IN
    /\ IF t.pc = "idle" THEN t = IdleTurn ELSE t.th \in Threads
    /\ t.list \ t.fresh \subseteq Of(t.th) /\ Pending(t.base) \subseteq Of(t.th)
    /\ IF t.op \in Answers THEN t.o \in Of(t.th) ELSE t.o = NoOffer
    /\ t.pc = "apply" \/ t.applied => t.op \in Answers
    /\ t.pc = "apply" => ~t.applied
    /\ t.pc = "list" => t.op = "token"
    /\ t.o \notin t.list
    /\ t.fresh # {} => t.op = "park"
    /\ t.fresh \subseteq t.list /\ t.fresh \subseteq Known
    /\ \A f \in t.fresh : /\ offer[f].th = t.th
                          /\ \A o \in t.list \ t.fresh : offer[o].type # offer[f].type

PlaceInv ==
    /\ \A n \in Turns : CopyInv(n)
    /\ \A n, m \in Turns : n # m => turn[n].fresh \cap turn[m].fresh = {}
    /\ \A t \in Threads : Pending(Meta(t)) \subseteq Of(t)
    /\ IF sweep.pc = "idle" THEN sweep = IdleSweep ELSE sweep.th \in Threads
    /\ Pending(sweep.base) \subseteq Of(sweep.th)
    /\ standing \subseteq Aired
    /\ \A o \in Offers \ Aired : made[o] = 0

Paid(o) == made[o] <= excuse[o]
Listed == UNION {Pending(Meta(t)) : t \in Threads}

\* The turn that came first to offer o, of those that are at it.
First(n, o) == turn[n].o = o /\ ~turn[n].beside

\* Every time an offer was carried out is accounted for but the one of the turn that
\* came first to it.
MadeInv ==
    /\ \A o \in Offers : made[o] <= 1 + excuse[o]
    /\ \A o \in Offers : \A n \in Turns : First(n, o) /\ ~turn[n].applied => Paid(o)
    /\ \A o \in Listed \cup standing : (\A n \in Turns : ~First(n, o)) => Paid(o)
    /\ \A o \in Offers : \A n, m \in Turns : First(n, o) /\ First(m, o) => n = m

\* While the lock is kept one turn is at work, and what it has read is what there is.
CalmInv ==
    calm =>
      /\ \A n \in Turns : turn[n].pc # "idle" =>
            /\ n = lock
            /\ turn[n].list \ turn[n].fresh \subseteq Pending(Meta(turn[n].th))
            /\ Pending(turn[n].base) \subseteq Pending(Meta(turn[n].th))
      /\ \A n \in Turns : ~turn[n].beside
      /\ \A o \in Offers : excuse[o] = 0
      /\ revived = {}

\* The two halves of OffersMatchAnswers that hold in a calm run and in any other.
MatchInv == standing \subseteq Listed \cup dropped /\ Listed \subseteq standing \cup revived

IInv == Typed /\ PlaceInv /\ MadeInv /\ CalmInv /\ MatchInv

----------------------------------------------------------------------------
(* The metadata's writers *)

LEMMA LastOfLists ==
    ASSUME NEW S \in SUBSET Offers
    PROVE  /\ LastOf(S) \in Offers \cup {NoOffer} /\ (S = {} => LastOf(S) = NoOffer)
           /\ S # {} => LastOf(S) \in S
<1> DEFINE Up(k) == (k + 1)..MaxOffers
           Ups == {Up(k) : k \in S}
<1>1. MaxOffers \in Nat /\ S \subseteq 1..MaxOffers
  BY ConversationAssumption DEF Offers
<1>2. CASE S = {}
  BY <1>2 DEF LastOf
<1>3. CASE S # {}
  <2>1. Ups \subseteq FiniteSubsetsOf(Nat) /\ Ups # {}
    <3>1. ASSUME NEW k \in S PROVE Up(k) \in FiniteSubsetsOf(Nat)
      <4>1. k + 1 \in Int /\ MaxOffers \in Int /\ Up(k) \in SUBSET Nat
        BY <1>1
      <4>2. IsFiniteSet(Up(k))
        BY <4>1, FS_Interval
      <4>. QED
        BY <4>1, <4>2 DEF FiniteSubsetsOf
    <3>. QED
      BY <1>3, <3>1
  <2>2. \E u \in Ups : \A v \in Ups : <<v, u>> \notin StrictSubsetOrdering(Nat)
    BY <2>1, WFMin, FS_StrictSubsetOrderingWellFounded, Zenon
  <2>3. PICK x \in S : \A y \in S : <<Up(y), Up(x)>> \notin StrictSubsetOrdering(Nat)
    BY <2>2
  <2>4. ASSUME NEW y \in S, x < y PROVE FALSE
    <3>1. Up(y) \subseteq Up(x) /\ Up(x) \in SUBSET Nat
      BY <1>1, <2>4
    <3>2. y \in Up(x) /\ y \notin Up(y)
      BY <1>1, <2>4
    <3>3. <<Up(y), Up(x)>> \in StrictSubsetOrdering(Nat)
      BY <3>1, <3>2 DEF StrictSubsetOrdering
    <3>. QED
      BY <2>3, <3>3
  <2>5. \E z \in S : \A y \in S : z >= y
    BY <1>1, <2>4
  <2>6. Max(S) \in S
    BY <2>5, Zenon DEF Max
  <2>. QED
    BY <1>1, <1>3, <2>6 DEF LastOf, Offers
<1>. QED
  BY <1>2, <1>3

LEMMA PendingIsOffers ==
    ASSUME NEW m \in Metas
    PROVE  Pending(m) \subseteq Offers /\ (m.list \subseteq Pending(m))
BY DEF Pending, Metas

LEMMA EmptyMetaFacts == EmptyMeta \in Metas /\ Slotted(EmptyMeta) /\ Pending(EmptyMeta) = {}
BY DEF EmptyMeta, Metas, Slotted, Pending, NoOffer

\* A list is written whole.
LEMMA WithOffersFacts ==
    ASSUME NEW m \in Metas, NEW S \in SUBSET Offers
    PROVE  /\ WithOffers(m, S) \in Metas /\ Slotted(WithOffers(m, S))
           /\ Pending(WithOffers(m, S)) = S
<1>1. /\ LastOf(S) \in Offers \cup {NoOffer} /\ (S = {} => LastOf(S) = NoOffer)
  BY LastOfLists
<1>2. PICK last \in Offers \cup {NoOffer} : last = LastOf(S)
  BY <1>1
<1>3. WithOffers(m, S) = [m EXCEPT !.list = S, !.latest = last]
  BY <1>2 DEF WithOffers
<1>. QED
  BY <1>1, <1>2, <1>3 DEF Metas, Slotted, Pending

\* The writers for something else add nothing.
LEMMA OtherWriters ==
    ASSUME NEW m \in Metas, Slotted(m)
    PROVE  \A w \in {WithoutProbe(m), WithOverride(m), WithProbe(m), m} :
              w \in Metas /\ Slotted(w) /\ Pending(w) \subseteq Pending(m)
<1>1. /\ \A w \in {WithoutProbe(m), WithOverride(m)} :
            w \in Metas /\ w.list = {} /\ w.latest = m.latest
      /\ WithProbe(m) \in Metas /\ WithProbe(m).list = m.list /\ WithProbe(m).latest = m.latest
  BY DEF WithoutProbe, WithOverride, WithProbe, Metas
<1>2. m.list \in SUBSET Offers
  BY DEF Metas
<1>3. m.latest # NoOffer => m.latest \in Pending(m)
  BY <1>2, LastOfLists DEF Slotted, Pending
<1>. QED
  BY <1>1, <1>3 DEF Slotted, Pending

LEMMA WithProbeKeeps ==
    ASSUME NEW m \in Metas
    PROVE  Pending(WithProbe(m)) = Pending(m)
BY DEF WithProbe, Pending, Metas

----------------------------------------------------------------------------
(* What the invariant says of a thread, of a turn and of the lists *)

LEMMA IdleTurnFacts ==
    /\ IdleTurn \in TurnStates /\ IdleTurn.pc = "idle" /\ IdleTurn.th = NoThread
    /\ IdleTurn.op = "none" /\ IdleTurn.o = NoOffer /\ IdleTurn.list = {} /\ IdleTurn.fresh = {}
    /\ IdleTurn.base = EmptyMeta /\ ~IdleTurn.applied /\ ~IdleTurn.beside
    /\ IdleTurn.op \notin Answers
BY EmptyMetaFacts DEF IdleTurn, TurnStates, NoThread, NoOffer, Lists, Answers

LEMMA IdleSweepFacts ==
    /\ IdleSweep \in SweepStates /\ IdleSweep.pc = "idle" /\ IdleSweep.th = NoThread
    /\ IdleSweep.base = EmptyMeta /\ \A t \in Threads : t # NoThread
BY EmptyMetaFacts DEF IdleSweep, SweepStates, NoThread, Threads

LEMMA ActiveIsThread ==
    ASSUME Typed
    PROVE  Active \in Threads
BY DEF Typed, Active

\* What a thread's metadata lists.
LEMMA ListedOf ==
    ASSUME IInv
    PROVE  /\ Listed \subseteq Aired /\ Aired \subseteq Offers /\ Aired \subseteq Known
           /\ NoOffer \notin Offers
           /\ \A t \in Threads :
                 /\ Pending(Meta(t)) \subseteq Of(t) /\ Pending(Meta(t)) \subseteq Listed
                 /\ Meta(t) \in Metas /\ Slotted(Meta(t)) /\ Meta(t).list \subseteq Pending(Meta(t))
<1>1. ASSUME NEW t \in Threads
      PROVE  /\ Pending(Meta(t)) \subseteq Of(t) /\ Pending(Meta(t)) \subseteq Listed
             /\ Meta(t) \in Metas /\ Slotted(Meta(t)) /\ Meta(t).list \subseteq Pending(Meta(t))
  <2>1. Meta(t) \in Metas /\ Slotted(Meta(t)) /\ Pending(Meta(t)) \subseteq Of(t)
    BY DEF IInv, Typed, PlaceInv, Meta, ThreadStates
  <2>2. Pending(Meta(t)) \subseteq Listed
    BY DEF Listed
  <2>. QED
    BY <2>1, <2>2, PendingIsOffers
<1>2. Aired \subseteq Known /\ Known \subseteq Offers /\ NoOffer \notin Offers
  BY ConversationAssumption DEF IInv, Typed, Aired, Known, Offers, NoOffer
<1>3. Listed \subseteq Aired
  <2>1. \A t \in Threads : Pending(Meta(t)) \subseteq Aired
    BY <1>1 DEF Of
  <2>. QED
    BY <2>1 DEF Listed
<1>. QED
  BY <1>1, <1>2, <1>3

\* What a turn is.
LEMMA TurnFacts ==
    ASSUME IInv, NEW n \in Turns
    PROVE  /\ turn[n] \in TurnStates /\ CopyInv(n) /\ Slotted(turn[n].base)
           /\ IF turn[n].op \in Answers
              THEN turn[n].o \in Of(turn[n].th) /\ turn[n].o \in Aired /\ turn[n].o \in Offers
              ELSE turn[n].o = NoOffer
           /\ turn[n].pc # "idle" => turn[n].th \in Threads
BY ListedOf DEF IInv, Typed, PlaceInv, CopyInv, Of, NoOffer

\* A turn that is not touched knows what it knew.
LEMMA CopiesStay ==
    ASSUME NEW n \in Turns, CopyInv(n), turn'[n] = turn[n],
           Known \subseteq Known', Aired \subseteq Aired', \A o \in Known : offer'[o] = offer[o]
    PROVE  CopyInv(n)'
<1>1. Aired \subseteq Known
  BY DEF Aired
<1>2. \A t : Of(t) \subseteq Of(t)'
  BY <1>1 DEF Of
<1>3. PICK t : t = turn[n]
  OBVIOUS
<1>4. Of(t.th) \subseteq Of(t.th)' /\ Of(t.th) \subseteq Known
  BY <1>1, <1>2 DEF Of
<1>5. \A f \in t.fresh : /\ offer'[f].th = t.th
                         /\ \A o \in t.list \ t.fresh : offer'[o].type # offer'[f].type
  BY <1>3, <1>4 DEF CopyInv
<1>6. turn'[n] = t
  BY <1>3
<1>7. t.list \ t.fresh \subseteq Of(t.th)' /\ Pending(t.base) \subseteq Of(t.th)'
  BY <1>3, <1>4 DEF CopyInv
<1>8. IF t.op \in Answers THEN t.o \in Of(t.th)' ELSE t.o = NoOffer
  BY <1>3, <1>4 DEF CopyInv
<1>9. t.fresh \subseteq Known'
  BY <1>3 DEF CopyInv
<1>10. Of(turn[n].th)' = Of(t.th)'
  BY <1>6 DEF Of
<1>. QED
  BY <1>3, <1>5, <1>6, <1>7, <1>8, <1>9, <1>10 DEF CopyInv

LEMMA IdleCopy ==
    ASSUME NEW n \in Turns, turn'[n] = IdleTurn
    PROVE  CopyInv(n)'
BY IdleTurnFacts, EmptyMetaFacts DEF CopyInv

\* The threads' lists stay where they belong when nothing is moved.
LEMMA ListsStay ==
    ASSUME IInv, thread' = thread, Known \subseteq Known', Aired \subseteq Aired',
           \A o \in Known : offer'[o] = offer[o]
    PROVE  /\ \A t \in Threads : Meta(t)' = Meta(t) /\ Pending(Meta(t))' \subseteq Of(t)'
           /\ \A t : Of(t) \subseteq Of(t)'
           /\ Listed' = Listed
<1>1. \A t : Of(t) \subseteq Of(t)'
  BY DEF Of, Aired
<1>2. \A t \in Threads : Meta(t)' = Meta(t)
  BY DEF Meta
<1>3. Listed' = Listed
  BY <1>2 DEF Listed
<1>4. ASSUME NEW t \in Threads PROVE Pending(Meta(t))' \subseteq Of(t)'
  <2>1. Pending(Meta(t))' = Pending(Meta(t)) /\ Pending(Meta(t)) \subseteq Of(t)
    BY <1>2 DEF IInv, PlaceInv
  <2>. QED
    BY <1>1, <2>1
<1>. QED
  BY <1>1, <1>2, <1>3, <1>4

----------------------------------------------------------------------------
(* A turn begins *)

\* Turn next begins: it answers an offer of its thread, parks new ones, or writes for
\* something else.
Begins(next) ==
    /\ next.th \in Threads /\ next.pc \in {"apply", "list", "read"}
    /\ ~next.applied /\ next.base = EmptyMeta
    /\ next.list \ next.fresh \subseteq Pending(Meta(next.th)) /\ next.o \notin next.list
    /\ IF next.op \in Answers THEN next.o \in Pending(Meta(next.th)) ELSE next.o = NoOffer
    /\ next.pc = "apply" => next.op \in Answers
    /\ next.pc = "list" => next.op = "token"
    /\ next.fresh # {} => next.op = "park"
    /\ next.fresh \subseteq next.list /\ next.fresh \cap Known = {}
    /\ \A f \in next.fresh : /\ offer'[f].th = next.th
                             /\ \A o \in next.list \ next.fresh : offer'[o].type # offer'[f].type

\* What else the step that takes the lock does.
Opens(next) ==
    /\ UNCHANGED <<thread, sweep, standing, dropped, revived, made, excuse, calm>>
    /\ parked' \in 0..MaxOffers /\ offer' \in [Offers -> OfferStates]
    /\ Known' = Known \cup next.fresh /\ \A o \in Known : offer'[o] = offer[o]

LEMMA BeginStep ==
    ASSUME IInv, NEW next \in TurnStates, TakesLock(next), Begins(next), Opens(next)
    PROVE  IInv'
<1>1. PICK k : k = turns + 1
  OBVIOUS
<1>2. PICK b \in BOOLEAN : b <=> (next.o # NoOffer /\ \E n \in Turns : turn[n].o = next.o)
  BY Zenon
<1>3. PICK t : t = [next EXCEPT !.beside = b]
  OBVIOUS
<1>4. /\ t \in TurnStates /\ t.pc = next.pc /\ t.th = next.th /\ t.op = next.op /\ t.o = next.o
      /\ t.list = next.list /\ t.fresh = next.fresh /\ t.base = next.base
      /\ t.applied = next.applied /\ t.beside = b
  BY <1>3 DEF TurnStates
<1>5. /\ lock = NoTurn /\ turns < MaxTurns /\ turns' = k /\ lock' = k
      /\ turn' = [turn EXCEPT ![k] = [next EXCEPT !.beside =
                     (next.o # NoOffer /\ \E n \in Turns : turn[n].o = next.o)]]
  BY <1>1 DEF TakesLock
<1>6. turn' = [turn EXCEPT ![k] = t]
  BY <1>2, <1>3, <1>5, Zenon
<1>7. /\ Typed /\ k \in Turns /\ k > turns /\ turn[k] = IdleTurn
      /\ turn' \in [Turns -> TurnStates] /\ turn'[k] = t
      /\ \A n \in Turns : n # k => turn'[n] = turn[n]
  BY <1>1, <1>4, <1>5, <1>6, ConversationAssumption DEF IInv, Typed, Turns
<1>8. Known \subseteq Known' /\ Aired' = Aired
  <2>1. \A o \in Known : (\A n \in Turns : o \notin turn[n].fresh)
                            <=> (\A n \in Turns : o \notin turn'[n].fresh)
    BY <1>4, <1>7, IdleTurnFacts DEF Begins
  <2>. QED
    BY <1>4, <1>7, <2>1 DEF Aired, Opens
<1>9. /\ \A c \in Threads : Meta(c)' = Meta(c) /\ Pending(Meta(c))' \subseteq Of(c)'
      /\ \A c : Of(c) \subseteq Of(c)'
      /\ Listed' = Listed
  BY <1>8, ListsStay DEF Opens
<1>10. /\ Pending(Meta(next.th)) \subseteq Of(next.th) /\ Pending(Meta(next.th)) \subseteq Listed
       /\ Listed \subseteq Aired /\ Aired \subseteq Offers /\ Aired \subseteq Known
       /\ NoOffer \notin Offers
  BY ListedOf DEF Begins
<1>11. Typed'
  <2>1. \A n \in Turns : Slotted(turn'[n].base)
    BY <1>4, <1>7, EmptyMetaFacts DEF Begins, Typed
  <2>2. turns' \in Nat /\ \A n \in Turns : n > turns' => turn'[n] = IdleTurn
    BY <1>1, <1>5, <1>7 DEF Typed, Turns
  <2>3. \A n \in Turns : Slotted(turn[n].base)'
    BY <2>1 DEF Slotted
  <2>4. /\ thread' = thread /\ sweep' = sweep /\ made' = made /\ excuse' = excuse /\ calm' = calm
        /\ parked' \in 0..MaxOffers /\ offer' \in [Offers -> OfferStates]
    BY DEF Opens
  <2>. QED
    BY <1>7, <2>2, <2>3, <2>4 DEF Typed, Slotted, Meta
<1>12. PlaceInv'
  <2>1. CopyInv(k)'
    <3>1. \A x : Pending(EmptyMeta) \subseteq x
      BY EmptyMetaFacts
    <3>2. Of(turn[k].th)' = Of(t.th)'
      BY <1>7 DEF Of
    <3>3. IF t.op \in Answers THEN t.o \in Of(t.th)' ELSE t.o = NoOffer
      BY <1>4, <1>9, <1>10 DEF Begins
    <3>4. t.list \ t.fresh \subseteq Of(t.th)'
      BY <1>4, <1>9, <1>10 DEF Begins
    <3>5. t.th \in Threads /\ t.pc # "idle"
      BY <1>4 DEF Begins
    <3>6. t.base = EmptyMeta /\ t.fresh \subseteq Known'
      BY <1>4 DEF Begins, Opens
    <3>7. \A f \in t.fresh : /\ offer'[f].th = t.th
                             /\ \A o \in t.list \ t.fresh : offer'[o].type # offer'[f].type
      BY <1>4 DEF Begins
    <3>8. /\ (t.pc = "apply" \/ t.applied => t.op \in Answers)
          /\ (t.pc = "apply" => ~t.applied) /\ (t.pc = "list" => t.op = "token")
          /\ t.o \notin t.list /\ (t.fresh # {} => t.op = "park") /\ t.fresh \subseteq t.list
      BY <1>4 DEF Begins
    <3>. QED
      BY <1>7, <3>1, <3>2, <3>3, <3>4, <3>5, <3>6, <3>7, <3>8 DEF CopyInv
  <2>2. ASSUME NEW n \in Turns PROVE CopyInv(n)'
    <3>1. CASE n = k
      BY <2>1, <3>1
    <3>2. CASE n # k
      BY <1>7, <1>8, <3>2, TurnFacts, CopiesStay DEF Opens
    <3>. QED
      BY <3>1, <3>2
  <2>3. ASSUME NEW n \in Turns, NEW m \in Turns, n # m
        PROVE  turn'[n].fresh \cap turn'[m].fresh = {}
    <3>1. \A x \in Turns : turn[x].fresh \subseteq Known
      BY TurnFacts DEF CopyInv
    <3>2. t.fresh \cap Known = {}
      BY <1>4 DEF Begins
    <3>. QED
      BY <1>7, <2>3, <3>1, <3>2 DEF IInv, PlaceInv
  <2>4. /\ IF sweep'.pc = "idle" THEN sweep' = IdleSweep ELSE sweep'.th \in Threads
        /\ Pending(sweep.base)' \subseteq Of(sweep.th)'
    <3>1. sweep' = sweep /\ Pending(sweep.base) \subseteq Of(sweep.th)
      BY DEF Opens, IInv, PlaceInv
    <3>2. Pending(sweep.base)' = Pending(sweep.base) /\ Of(sweep.th) \subseteq Of(sweep.th)'
      <4>1. PICK s : s = sweep.th
        OBVIOUS
      <4>2. Of(s) \subseteq Of(s)' /\ sweep'.th = s
        BY <1>9, <3>1, <4>1
      <4>3. Of(sweep.th)' = Of(s)'
        BY <4>2 DEF Of
      <4>. QED
        BY <3>1, <4>1, <4>2, <4>3
    <3>. QED
      BY <3>1, <3>2 DEF IInv, PlaceInv
  <2>5. standing' \subseteq Aired' /\ \A o \in Offers \ Aired' : made'[o] = 0
    BY <1>8 DEF Opens, IInv, PlaceInv
  <2>. QED
    BY <1>9, <2>2, <2>3, <2>4, <2>5 DEF PlaceInv
<1>13. MadeInv'
  <2>1. \A o : Paid(o)' <=> Paid(o)
    BY DEF Paid, Opens
  <2>2. \A o \in Offers : ~First(k, o)
    BY <1>7, <1>10, IdleTurnFacts DEF First
  <2>3. \A o \in Offers : First(k, o)' => t.o = o /\ ~b /\ \A n \in Turns : turn[n].o # o
    BY <1>2, <1>4, <1>7, <1>10 DEF First
  <2>4. \A o \in Offers, n \in Turns : n # k => (First(n, o)' <=> First(n, o))
    BY <1>7 DEF First
  <2>5. \A o \in Offers : First(k, o)' => Paid(o) /\ \A n \in Turns : ~First(n, o)
    <3>1. ASSUME NEW o \in Offers, First(k, o)' PROVE Paid(o) /\ \A n \in Turns : ~First(n, o)
      <4>1. \A n \in Turns : ~First(n, o)
        BY <2>3, <3>1 DEF First
      <4>2. o \in Listed
        BY <1>4, <1>10, <2>3, <3>1 DEF Begins
      <4>. QED
        BY <4>1, <4>2 DEF IInv, MadeInv
    <3>. QED
      BY <3>1
  <2>6. \A o \in Offers : \A n \in Turns : First(n, o)' /\ ~turn'[n].applied => Paid(o)'
    BY <1>7, <2>1, <2>4, <2>5 DEF IInv, MadeInv
  <2>7. \A o \in Listed \cup standing : (\A n \in Turns : ~First(n, o)') => Paid(o)'
    <3>1. standing \subseteq Aired
      BY DEF IInv, PlaceInv
    <3>. QED
      BY <1>10, <2>1, <2>2, <2>4, <3>1 DEF IInv, MadeInv
  <2>8. \A o \in Offers : \A n, m \in Turns : First(n, o)' /\ First(m, o)' => n = m
    BY <2>4, <2>5 DEF IInv, MadeInv
  <2>9. \A o \in Offers : made'[o] <= 1 + excuse'[o]
    BY DEF Opens, IInv, MadeInv
  <2>10. Listed' = Listed /\ standing' = standing
    BY <1>9 DEF Opens
  <2>. QED
    BY <2>6, <2>7, <2>8, <2>9, <2>10 DEF MadeInv
<1>14. CalmInv'
  <2> SUFFICES ASSUME calm PROVE CalmInv'
    BY DEF CalmInv, Opens
  <2>1. \A n \in Turns : turn[n] = IdleTurn
    <3>1. \A n \in Turns : n # lock
      BY <1>5 DEF NoTurn, Turns
    <3>. QED
      BY <3>1, TurnFacts DEF IInv, CalmInv, CopyInv
  <2>2. ~b
    BY <1>2, <2>1, IdleTurnFacts
  <2>3. \A n \in Turns : turn'[n].pc # "idle" => n = k
    BY <1>7, <2>1, IdleTurnFacts
  <2>4. \A n \in Turns : ~turn'[n].beside
    BY <1>4, <1>7, <2>1, <2>2, IdleTurnFacts
  <2>5. /\ t.list \ t.fresh \subseteq Pending(Meta(t.th))'
        /\ Pending(t.base) \subseteq Pending(Meta(t.th))'
    <3>1. Pending(Meta(t.th))' = Pending(Meta(t.th))
      BY <1>4, <1>9 DEF Begins
    <3>. QED
      BY <1>4, <3>1, EmptyMetaFacts DEF Begins
  <2>6. Pending(Meta(turn[k].th))' = Pending(Meta(t.th))'
    BY <1>7 DEF Meta
  <2>. QED
    BY <1>5, <1>7, <2>3, <2>4, <2>5, <2>6 DEF CalmInv, Opens, IInv
<1>15. MatchInv'
  BY <1>9 DEF MatchInv, IInv, Opens
<1>. QED
  BY <1>11, <1>12, <1>13, <1>14, <1>15 DEF IInv

\* A turn that begins and parks nothing.
LEMMA StartStep ==
    ASSUME IInv, NEW next \in TurnStates, StartTurn(next), Begins(next), next.fresh = {}
    PROVE  IInv'
<1>1. /\ TakesLock(next) /\ UNCHANGED <<world, sweep, ghosts>>
  BY DEF StartTurn
<1>2. Opens(next)
  BY <1>1 DEF Opens, world, ghosts, accounts, Known, IInv, Typed
<1>. QED
  BY <1>1, <1>2, BeginStep

\* The turn that does op to offer o of thread a, from label l, with this list.
Doing(next, a, op, o, l, list) ==
    /\ next \in TurnStates /\ next.pc = l /\ next.th = a /\ next.op = op /\ next.o = o
    /\ next.list = list /\ next.fresh = {} /\ next.base = EmptyMeta /\ ~next.applied

LEMMA DoingIs ==
    ASSUME NEW a \in Threads, NEW op \in Answers \cup {"probe", "override", "state"},
           NEW o \in Offers \cup {NoOffer}, NEW l \in {"apply", "list", "read"},
           NEW list \in SUBSET Offers, NEW next,
           next = [IdleTurn EXCEPT !.th = a, !.op = op, !.pc = l, !.o = o, !.list = list]
    PROVE  Doing(next, a, op, o, l, list)
BY IdleTurnFacts DEF Doing, TurnStates, Lists

LEMMA DoingStep ==
    ASSUME IInv, NEW next, StartTurn(next), NEW a \in Threads,
           NEW l \in {"apply", "list", "read"},
           NEW op \in Answers \cup {"probe", "override", "state"},
           NEW o, NEW list \in SUBSET (Pending(Meta(a)) \ {o}),
           IF op \in Answers THEN o \in Pending(Meta(a)) ELSE o = NoOffer /\ l = "read",
           l = "list" => op = "token", Doing(next, a, op, o, l, list)
    PROVE  IInv'
<1>1. Begins(next) /\ next \in TurnStates /\ next.fresh = {}
  BY DEF Doing, Begins
<1>. QED
  BY <1>1, StartStep

LEMMA AnswerStep ==
    ASSUME IInv, Answer
    PROVE  IInv'
<1>1. PICK a \in Threads : a = Active
  BY ActiveIsThread DEF IInv
<1>2. \A t \in Threads : /\ Pending(Meta(t)) \subseteq Offers
                         /\ Meta(t).list \subseteq Pending(Meta(t))
  BY ListedOf
<1>3. PICK o \in Offers : \/ LegacyConfirm(o) \/ \E decline \in BOOLEAN : Resolve(o, decline)
                          \/ \E bare, cancel \in BOOLEAN : Token(o, bare, cancel)
  BY DEF Answer
<1>4. /\ "confirm" \in Answers /\ "resolve" \in Answers /\ "token" \in Answers
      /\ Answers \subseteq Answers \cup {"probe", "override", "state"}
      /\ Offers \subseteq Offers \cup {NoOffer}
  BY DEF Answers
<1>5. CASE LegacyConfirm(o)
  <2>1. PICK list : list = Pending(Meta(a)) \ {o}
    OBVIOUS
  <2>2. PICK next : next = [On("confirm") EXCEPT !.pc = "apply", !.o = o, !.list = list]
    OBVIOUS
  <2>3. StartTurn(next) /\ o \in Pending(Meta(a))
    BY <1>1, <1>5, <2>1, <2>2 DEF LegacyConfirm
  <2>4. next = [IdleTurn EXCEPT !.th = a, !.op = "confirm", !.pc = "apply", !.o = o,
                                !.list = list]
    BY <1>1, <2>2 DEF On
  <2>5. Doing(next, a, "confirm", o, "apply", list)
    BY <1>2, <1>4, <2>1, <2>4, DoingIs
  <2>. QED
    BY <1>4, <2>1, <2>3, <2>5, DoingStep
<1>6. ASSUME NEW decline \in BOOLEAN, Resolve(o, decline) PROVE IInv'
  <2>1. PICK list \in SUBSET (Pending(Meta(a)) \ {o}) : list = Meta(a).list \ {o}
    BY <1>2
  <2>2. PICK l \in {"read", "apply"} : l = IF decline THEN "read" ELSE "apply"
    OBVIOUS
  <2>3. PICK next : next = [On("resolve") EXCEPT !.pc = l, !.o = o, !.list = list]
    OBVIOUS
  <2>4. StartTurn(next) /\ o \in Meta(a).list
    BY <1>1, <1>6, <2>1, <2>2, <2>3 DEF Resolve
  <2>5. next = [IdleTurn EXCEPT !.th = a, !.op = "resolve", !.pc = l, !.o = o, !.list = list]
    BY <1>1, <2>3 DEF On
  <2>6. list \in SUBSET Offers /\ l \in {"apply", "list", "read"} /\ l # "list"
    BY <1>2, <2>1, <2>2
  <2>7. Doing(next, a, "resolve", o, l, list)
    <3>1. PICK op \in Answers \cup {"probe", "override", "state"}, p \in Offers \cup {NoOffer} :
             op = "resolve" /\ p = o
      BY <1>4
    <3>. QED
      BY <2>5, <2>6, <3>1, DoingIs
  <2>. QED
    BY <1>2, <1>4, <2>1, <2>4, <2>6, <2>7, DoingStep
<1>7. ASSUME NEW bare \in BOOLEAN, NEW cancel \in BOOLEAN, Token(o, bare, cancel) PROVE IInv'
  <2>1. PICK h \in Named(o, bare) :
           StartTurn([IdleTurn EXCEPT !.th = h[1], !.op = "token", !.o = h[2],
                                      !.pc = IF cancel THEN "list" ELSE "apply"])
    BY <1>7 DEF Token
  <2>2. h \in Hits
    BY DEF Named, LiveHits
  <2>3. PICK t \in Threads, p \in Offers : t = h[1] /\ p = h[2] /\ p \in Meta(t).list
    BY <2>2 DEF Hits
  <2>4. PICK l \in {"list", "apply"} : l = IF cancel THEN "list" ELSE "apply"
    OBVIOUS
  <2>5. PICK next : next = [IdleTurn EXCEPT !.th = t, !.op = "token", !.o = p, !.pc = l]
    OBVIOUS
  <2>6. StartTurn(next)
    BY <2>1, <2>3, <2>4, <2>5
  <2>7. Doing(next, t, "token", p, l, {})
    <3>1. PICK op \in Answers \cup {"probe", "override", "state"}, q \in Offers \cup {NoOffer},
               list \in SUBSET Offers, m \in {"apply", "list", "read"} :
             op = "token" /\ q = p /\ list = {} /\ m = l
      BY <1>4, <2>4
    <3>2. next = [IdleTurn EXCEPT !.th = t, !.op = op, !.pc = m, !.o = q, !.list = list]
      BY <2>5, <3>1, IdleTurnFacts DEF IdleTurn
    <3>. QED
      BY <3>1, <3>2, DoingIs
  <2>. QED
    BY <1>2, <1>4, <2>3, <2>6, <2>7, DoingStep
<1>. QED
  BY <1>3, <1>5, <1>6, <1>7

LEMMA TouchStep ==
    ASSUME IInv, NEW op \in {"probe", "override", "state"}, Touch(op)
    PROVE  IInv'
<1>1. PICK a \in Threads : a = Active
  BY ActiveIsThread DEF IInv
<1>2. PICK next : next = [IdleTurn EXCEPT !.th = a, !.op = op, !.pc = "read"]
  OBVIOUS
<1>3. StartTurn(next) /\ op \notin Answers
  BY <1>1, <1>2 DEF Touch, On, Answers
<1>4. Doing(next, a, op, NoOffer, "read", {})
  <2>1. PICK q \in Offers \cup {NoOffer}, list \in SUBSET Offers, l \in {"apply", "list", "read"} :
           q = NoOffer /\ list = {} /\ l = "read"
    OBVIOUS
  <2>2. next = [IdleTurn EXCEPT !.th = a, !.op = op, !.pc = l, !.o = q, !.list = list]
    BY <1>2, <2>1, IdleTurnFacts DEF IdleTurn
  <2>. QED
    BY <2>1, <2>2, DoingIs
<1>. QED
  BY <1>3, <1>4, DoingStep

----------------------------------------------------------------------------
(* Parking *)

LEMMA ParkStep ==
    ASSUME IInv, NEW types \in SUBSET Types, Park(types)
    PROVE  IInv'
<1> DEFINE a == Active
           n == Cardinality(types)
           fresh == (parked + 1)..(parked + n)
           kept == {o \in Joined : offer[o].type \notin types}
           list == kept \cup fresh
           next == [On("park") EXCEPT !.pc = "read", !.list = list, !.fresh = fresh]
<1>1. /\ Typed /\ parked \in Nat /\ a \in Threads
      /\ UNCHANGED <<routing, thread, expired, sweep, ghosts, sweeps, upsets>>
      /\ parked' = parked + n /\ parked + n <= MaxOffers /\ MaxOffers \in Nat
  BY ActiveIsThread, ConversationAssumption DEF Park, IInv, Typed
<1>2. n \in Nat /\ n >= 1
  <2>1. IsFiniteSet(types) /\ types # {}
    <3>1. IsFiniteSet(Types)
      <4>1. IsFiniteSet({"outcome_spec"}) /\ Types = {"outcome_spec"} \cup {"task_batch"}
        BY FS_Singleton DEF Types
      <4>. QED
        BY <4>1, FS_AddElement
    <3>. QED
      BY <3>1, FS_Subset DEF Park
  <2>. QED
    BY <2>1, FS_CardinalityType, FS_EmptySet
<1>3. PICK f \in [fresh -> types] :
         /\ offer' = [o \in Offers |->
               IF o \in fresh
               THEN [type |-> f[o], th |-> a,
                     token |-> routing = "single" /\ f[o] = "outcome_spec"]
               ELSE offer[o]]
         /\ TakesLock(next)
  BY DEF Park
<1>4. /\ fresh \subseteq Offers /\ fresh \cap Known = {} /\ Known' = Known \cup fresh
      /\ parked' \in 0..MaxOffers
  BY <1>1, <1>2 DEF Known, Offers
<1>5. /\ Meta(a).list \subseteq Pending(Meta(a)) /\ Pending(Meta(a)) \subseteq Known
      /\ Pending(Meta(a)) \subseteq Offers /\ NoOffer \notin Offers
  BY <1>1, ListedOf
<1>6. Joined \subseteq Pending(Meta(a))
  BY <1>5 DEF Joined
<1>7. /\ kept \subseteq Pending(Meta(a)) /\ list \ fresh \subseteq kept
      /\ list \subseteq Offers /\ fresh \subseteq list
  BY <1>4, <1>5, <1>6
<1>8. ASSUME NEW o \in Offers
      PROVE  /\ offer'[o] \in OfferStates
             /\ o \in fresh => offer'[o].type = f[o] /\ offer'[o].th = a
             /\ o \notin fresh => offer'[o] = offer[o]
  <2>1. CASE o \in fresh
    <3>1. PICK token \in BOOLEAN : token <=> (routing = "single" /\ f[o] = "outcome_spec")
      BY Zenon
    <3>2. offer'[o] = [type |-> f[o], th |-> a, token |-> token]
      BY <1>3, <2>1, <3>1
    <3>. QED
      BY <1>1, <2>1, <3>2 DEF OfferStates
  <2>2. CASE o \notin fresh
    BY <1>1, <1>3, <2>2 DEF Typed
  <2>. QED
    BY <2>1, <2>2
<1>9. offer' \in [Offers -> OfferStates]
  BY <1>3, <1>8
<1>10. \A p \in fresh : /\ offer'[p].th = a
                        /\ \A o \in list \ fresh : offer'[o].type # offer'[p].type
  <2>1. \A p \in fresh : offer'[p].th = a /\ offer'[p].type \in types
    BY <1>4, <1>8
  <2>2. \A o \in list \ fresh : offer'[o].type \notin types
    BY <1>7, <1>8
  <2>. QED
    BY <2>1, <2>2
<1> HIDE DEF a, fresh, kept, list
<1>11. /\ next \in TurnStates /\ next.pc = "read" /\ next.th = a /\ next.op = "park"
       /\ next.o = NoOffer /\ next.list = list /\ next.fresh = fresh
       /\ next.base = EmptyMeta /\ ~next.applied
  <2>1. next = [IdleTurn EXCEPT !.th = a, !.op = "park", !.pc = "read", !.list = list,
                                !.fresh = fresh]
    BY DEF On, IdleTurn, a
  <2>2. fresh \in SUBSET Offers /\ list \in SUBSET Offers /\ "park" \in Lists
    BY <1>4, <1>7 DEF Lists
  <2>. QED
    BY <1>1, <2>1, <2>2, IdleTurnFacts DEF TurnStates
<1>12. Begins(next)
  <2>1. "park" \notin Answers /\ NoOffer \notin list
    BY <1>5, <1>7 DEF Answers
  <2>. QED
    BY <1>1, <1>4, <1>7, <1>10, <1>11, <2>1 DEF Begins
<1>13. Opens(next)
  <2>1. \A o \in Known : offer'[o] = offer[o]
    BY <1>1, <1>4, <1>8 DEF Known, Offers
  <2>. QED
    BY <1>1, <1>4, <1>9, <1>11, <2>1 DEF Opens, ghosts, accounts
<1>. QED
  BY <1>3, <1>11, <1>12, <1>13, BeginStep

----------------------------------------------------------------------------
(* A turn ends, or goes on *)

\* The threads, the offers and the sweep are as they were.
Frozen == UNCHANGED <<thread, offer, parked, sweep, standing, dropped, revived, turns>>

LEMMA GoesFacts ==
    ASSUME Typed, NEW n \in Turns, NEW next \in TurnStates, Goes(n, next)
    PROVE  /\ turn' \in [Turns -> TurnStates] /\ turn'[n] = next
           /\ \A m \in Turns : m # n => turn'[m] = turn[m]
           /\ lock' = IF next.pc = "idle" /\ lock = n THEN NoTurn ELSE lock
BY DEF Typed, Goes

\* An offer a turn does not park any more is one that was.
LEMMA AiredGrows ==
    ASSUME IInv, NEW n \in Turns, parked' = parked,
           \A m \in Turns : m # n => turn'[m] = turn[m], turn'[n].fresh \subseteq turn[n].fresh
    PROVE  Known' = Known /\ Aired \subseteq Aired'
BY DEF Known, Aired

LEMMA GoesStep ==
    ASSUME IInv, NEW n \in Turns, NEW next \in TurnStates, Goes(n, next), Frozen,
           turn[n].pc # "idle", next.fresh \subseteq turn[n].fresh, Slotted(next.base),
           made' \in [Offers -> Nat], excuse' \in [Offers -> Nat], calm' \in BOOLEAN,
           \A o \in Offers \ Aired : made'[o] = 0, CopyInv(n)', MadeInv', CalmInv'
    PROVE  IInv'
<1>1. /\ Typed /\ turn' \in [Turns -> TurnStates] /\ turn'[n] = next
      /\ \A m \in Turns : m # n => turn'[m] = turn[m]
  BY GoesFacts DEF IInv
<1>2. Known' = Known /\ Aired \subseteq Aired'
  BY <1>1, AiredGrows DEF Frozen
<1>3. /\ \A c \in Threads : Meta(c)' = Meta(c) /\ Pending(Meta(c))' \subseteq Of(c)'
      /\ \A c : Of(c) \subseteq Of(c)'
      /\ Listed' = Listed
  BY <1>2, ListsStay DEF Frozen
<1>4. Typed'
  <2>1. \A m \in Turns : Slotted(turn'[m].base)
    BY <1>1 DEF Typed
  <2>2. turns' = turns /\ \A m \in Turns : m > turns => turn'[m] = IdleTurn
    BY <1>1, IdleTurnFacts DEF Typed, Frozen
  <2>3. \A m \in Turns : Slotted(turn[m].base)'
    BY <2>1 DEF Slotted
  <2>. QED
    BY <1>1, <2>2, <2>3 DEF Typed, Slotted, Meta, Frozen
<1>5. PlaceInv'
  <2>1. ASSUME NEW m \in Turns PROVE CopyInv(m)'
    <3>1. CASE m # n
      BY <1>1, <1>2, <3>1, TurnFacts, CopiesStay DEF Frozen
    <3>. QED
      BY <3>1
  <2>2. \A k, m \in Turns : k # m => turn'[k].fresh \cap turn'[m].fresh = {}
    BY <1>1 DEF IInv, PlaceInv
  <2>3. Pending(sweep.base)' \subseteq Of(sweep.th)'
    <3>1. PICK s : s = sweep.th
      OBVIOUS
    <3>2. Pending(sweep.base) \subseteq Of(s) /\ sweep' = sweep
      BY <3>1 DEF IInv, PlaceInv, Frozen
    <3>3. Of(sweep.th)' = Of(s)' /\ Pending(sweep.base)' = Pending(sweep.base)
      BY <3>1, <3>2 DEF Of
    <3>. QED
      BY <1>3, <3>2, <3>3
  <2>4. /\ IF sweep'.pc = "idle" THEN sweep' = IdleSweep ELSE sweep'.th \in Threads
        /\ standing' \subseteq Aired' /\ \A o \in Offers \ Aired' : made'[o] = 0
    BY <1>2 DEF IInv, PlaceInv, Frozen
  <2>. QED
    BY <1>3, <2>1, <2>2, <2>3, <2>4 DEF PlaceInv
<1>6. MatchInv'
  BY <1>3 DEF IInv, MatchInv, Frozen
<1>. QED
  BY <1>4, <1>5, <1>6 DEF IInv

\* What a turn is at while the lists and the accounts of the others do not change.
LEMMA FirstFacts ==
    ASSUME IInv, NEW n \in Turns, \A m \in Turns : m # n => turn'[m] = turn[m]
    PROVE  /\ NoOffer \notin Offers /\ Listed \cup standing \subseteq Offers
           /\ \A o \in Offers, m \in Turns : m # n => (First(m, o)' <=> First(m, o))
           /\ \A o \in Offers : First(n, o) => o = turn[n].o /\ turn[n].op \in Answers
BY ListedOf, TurnFacts DEF First, IInv, PlaceInv

\* A turn that ends without a write leaves all as it was, if what it carried out is
\* accounted for.
LEMMA TurnStops ==
    ASSUME IInv, NEW n \in Turns, Goes(n, IdleTurn), Frozen, turn[n].pc # "idle",
           made' = made, excuse' \in [Offers -> Nat], \A o \in Offers : excuse[o] <= excuse'[o],
           turn[n].applied /\ ~turn[n].beside => made[turn[n].o] <= excuse'[turn[n].o],
           calm' \in BOOLEAN, calm' => calm /\ excuse' = excuse
    PROVE  IInv'
<1>1. /\ Typed /\ turn'[n] = IdleTurn /\ \A m \in Turns : m # n => turn'[m] = turn[m]
      /\ lock' = IF lock = n THEN NoTurn ELSE lock
  BY GoesFacts, IdleTurnFacts DEF IInv
<1>2. CopyInv(n)' /\ Slotted(IdleTurn.base) /\ IdleTurn.fresh = {} /\ IdleTurn \in TurnStates
  BY <1>1, IdleCopy, IdleTurnFacts, EmptyMetaFacts
<1>3. /\ \A c \in Threads : Meta(c)' = Meta(c)
      /\ Listed' = Listed /\ standing' = standing
  BY DEF Frozen, Meta, Listed
<1>4. \A o \in Offers : made[o] \in Nat /\ excuse[o] \in Nat /\ excuse'[o] \in Nat
  BY <1>1 DEF Typed
<1>5. /\ NoOffer \notin Offers /\ Listed \cup standing \subseteq Offers
      /\ \A o \in Offers, m \in Turns : m # n => (First(m, o)' <=> First(m, o))
      /\ \A o \in Offers : First(n, o) => o = turn[n].o /\ turn[n].op \in Answers
  BY <1>1, FirstFacts
<1>6. \A o \in Offers : ~First(n, o)'
  BY <1>1, <1>5, IdleTurnFacts DEF First
<1>7. \A o \in Offers : Paid(o) => Paid(o)'
  BY <1>4 DEF Paid
<1>8. \A o \in Offers : First(n, o) => Paid(o)'
  <2>1. ASSUME NEW o \in Offers, First(n, o) PROVE Paid(o)'
    <3>1. CASE turn[n].applied
      BY <2>1, <3>1 DEF First, Paid
    <3>2. CASE ~turn[n].applied
      BY <1>7, <2>1, <3>2 DEF IInv, MadeInv
    <3>. QED
      BY <3>1, <3>2
  <2>. QED
    BY <2>1
<1>9. MadeInv'
  <2>1. \A o \in Offers : made'[o] <= 1 + excuse'[o]
    BY <1>4 DEF IInv, MadeInv
  <2>2. \A o \in Offers : \A m \in Turns : First(m, o)' /\ ~turn'[m].applied => Paid(o)'
    BY <1>1, <1>5, <1>6, <1>7 DEF IInv, MadeInv
  <2>3. \A o \in Listed \cup standing : (\A m \in Turns : ~First(m, o)') => Paid(o)'
    BY <1>5, <1>7, <1>8 DEF IInv, MadeInv
  <2>4. \A o \in Offers : \A k, m \in Turns : First(k, o)' /\ First(m, o)' => k = m
    BY <1>5, <1>6 DEF IInv, MadeInv
  <2>. QED
    BY <1>3, <2>1, <2>2, <2>3, <2>4 DEF MadeInv
<1>10. CalmInv'
  <2> SUFFICES ASSUME calm' PROVE CalmInv'
    BY DEF CalmInv
  <2>1. calm /\ excuse' = excuse /\ revived' = revived
    BY DEF Frozen
  <2>2. \A m \in Turns : turn[m].pc # "idle" => m = n
    BY <2>1 DEF IInv, CalmInv
  <2>3. \A m \in Turns : turn'[m].pc = "idle" /\ ~turn'[m].beside
    BY <1>1, <2>1, <2>2, IdleTurnFacts DEF IInv, CalmInv
  <2>. QED
    BY <2>1, <2>3 DEF IInv, CalmInv
<1>11. \A o \in Offers \ Aired : made'[o] = 0
  BY DEF IInv, PlaceInv
<1>12. made' \in [Offers -> Nat]
  BY <1>1 DEF Typed
<1>. QED
  BY <1>2, <1>9, <1>10, <1>11, <1>12, GoesStep

\* A turn that goes on knows what it knew, and what it has read now.
LEMMA TurnGoesOn ==
    ASSUME IInv, NEW n \in Turns, NEW next \in TurnStates, Goes(n, next), Frozen, calm' = calm,
           turn[n].pc # "idle", next.pc \in {"list", "read", "write"},
           next.th = turn[n].th, next.op = turn[n].op, next.o = turn[n].o,
           next.fresh = turn[n].fresh, next.beside = turn[n].beside, Slotted(next.base),
           next.base \in {turn[n].base, Meta(turn[n].th)},
           \/ next.list = turn[n].list
           \/ /\ next.list \subseteq Pending(Meta(turn[n].th)) \ {turn[n].o}
              /\ turn[n].fresh = {},
           next.applied => turn[n].applied \/ turn[n].op \in Answers,
           next.pc = "list" => turn[n].op = "token",
           made' \in [Offers -> Nat], excuse' \in [Offers -> Nat], calm => excuse' = excuse,
           \A o \in Offers \ Aired : made'[o] = 0, MadeInv'
    PROVE  IInv'
<1>1. /\ Typed /\ turn'[n] = next /\ \A m \in Turns : m # n => turn'[m] = turn[m]
      /\ lock' = lock
  BY GoesFacts DEF IInv
<1>2. PICK t : t = turn[n]
  OBVIOUS
<1>3. PICK a \in Threads : a = t.th
  BY <1>2, TurnFacts
<1>4. Known' = Known /\ Aired \subseteq Aired'
  BY <1>1, AiredGrows DEF Frozen
<1>5. /\ \A c \in Threads : Meta(c)' = Meta(c)
      /\ \A c : Of(c) \subseteq Of(c)'
      /\ Pending(Meta(a)) \subseteq Of(a)
  BY <1>4, ListsStay, ListedOf DEF Frozen
<1>6. CopyInv(n)
  BY TurnFacts
<1>7. CopyInv(n)'
  <2>1. next.list \ next.fresh \subseteq Of(a) /\ Pending(next.base) \subseteq Of(a)
    BY <1>2, <1>3, <1>5, <1>6 DEF CopyInv
  <2>2. /\ next.o \notin next.list /\ next.fresh \subseteq next.list
        /\ next.fresh \subseteq Known'
    BY <1>2, <1>4, <1>6 DEF CopyInv
  <2>3. \A f \in next.fresh : /\ offer'[f].th = a
                              /\ \A o \in next.list \ next.fresh : offer'[o].type # offer'[f].type
    BY <1>2, <1>3, <1>6 DEF CopyInv, Frozen
  <2>4. IF next.op \in Answers THEN next.o \in Of(a) ELSE next.o = NoOffer
    BY <1>2, <1>3, <1>6 DEF CopyInv
  <2>5. Of(turn[n].th)' = Of(a)'
    BY <1>1, <1>2, <1>3 DEF Of
  <2>6. /\ (next.pc = "apply" \/ next.applied => next.op \in Answers)
        /\ next.pc # "apply" /\ next.pc # "idle"
        /\ (next.pc = "list" => next.op = "token") /\ (next.fresh # {} => next.op = "park")
    BY <1>6 DEF CopyInv
  <2>7. next.th = a
    BY <1>2, <1>3
  <2>. QED
    BY <1>1, <1>5, <2>1, <2>2, <2>3, <2>4, <2>5, <2>6, <2>7 DEF CopyInv
<1>8. CalmInv'
  <2> SUFFICES ASSUME calm PROVE CalmInv'
    BY DEF CalmInv
  <2>1. excuse' = excuse /\ revived' = revived
    BY DEF Frozen
  <2>2. /\ \A m \in Turns : turn[m].pc # "idle" => m = lock
        /\ t.list \ t.fresh \subseteq Pending(Meta(a)) /\ Pending(t.base) \subseteq Pending(Meta(a))
        /\ \A m \in Turns : ~turn[m].beside
    BY <1>2, <1>3 DEF IInv, CalmInv
  <2>3. next.list \ next.fresh \subseteq Pending(Meta(a)) /\ Pending(next.base) \subseteq Pending(Meta(a))
    BY <1>2, <1>3, <2>2
  <2>4. Pending(Meta(turn[n].th))' = Pending(Meta(a))
    <3>1. Pending(Meta(a))' = Pending(Meta(a)) /\ turn'[n].th = a
      BY <1>1, <1>2, <1>3, <1>5
    <3>. QED
      BY <3>1 DEF Meta
  <2>5. \A m \in Turns : turn'[m].pc # "idle" => m = n
    BY <1>1, <2>2
  <2>6. \A m \in Turns : ~turn'[m].beside
    BY <1>1, <2>2
  <2>7. n = lock'
    BY <1>1, <2>2
  <2>. QED
    BY <1>1, <2>1, <2>3, <2>4, <2>5, <2>6, <2>7 DEF CalmInv, IInv
<1>9. calm' \in BOOLEAN
  BY <1>1 DEF Typed
<1>. QED
  BY <1>7, <1>8, <1>9, GoesStep

\* Reading changes nothing of what was carried out.
LEMMA MadeStays ==
    ASSUME IInv, NEW n \in Turns, \A m \in Turns : m # n => turn'[m] = turn[m],
           turn'[n].o = turn[n].o, turn'[n].beside = turn[n].beside,
           turn'[n].applied = turn[n].applied,
           UNCHANGED <<thread, standing, made, excuse>>
    PROVE  MadeInv'
<1>1. \A o : Paid(o)' <=> Paid(o)
  BY DEF Paid
<1>2. \A o, m : m \in Turns => (First(m, o)' <=> First(m, o))
                               /\ turn'[m].applied = turn[m].applied
  BY DEF First
<1>3. Listed' = Listed
  BY DEF Listed, Meta
<1>. QED
  BY <1>1, <1>2, <1>3 DEF IInv, MadeInv

LEMMA ReadListStep ==
    ASSUME IInv, NEW n \in Turns, ReadList(n)
    PROVE  IInv'
<1>0. PICK a \in Threads : a = turn[n].th
  BY TurnFacts DEF ReadList
<1>1. PICK t : t = turn[n] /\ a = t.th
  BY <1>0
<1>2. PICK list : list = Meta(a).list \ {t.o}
  OBVIOUS
<1>3. PICK next : next = [t EXCEPT !.list = list, !.pc = "read"]
  OBVIOUS
<1>4. /\ t \in TurnStates /\ Slotted(t.base) /\ t.op = "token" /\ t.fresh = {} /\ Typed
      /\ Pending(Meta(a)) \subseteq Offers /\ Meta(a).list \subseteq Pending(Meta(a))
  BY <1>1, TurnFacts, ListedOf DEF ReadList, CopyInv, IInv
<1>5. list \subseteq Pending(Meta(a)) \ {t.o} /\ list \in SUBSET Offers
  BY <1>2, <1>4
<1>6. /\ next \in TurnStates /\ next.pc = "read" /\ next.th = a /\ next.op = t.op
      /\ next.o = t.o /\ next.list = list /\ next.fresh = t.fresh /\ next.base = t.base
      /\ next.applied = t.applied /\ next.beside = t.beside
  BY <1>1, <1>3, <1>4, <1>5 DEF TurnStates
<1>7. /\ Goes(n, next) /\ Frozen /\ UNCHANGED <<thread, standing, made, excuse, calm>>
      /\ turn[n].pc = "list"
  BY <1>1, <1>2, <1>3 DEF ReadList, Frozen, world, ghosts, accounts, counts
<1>8. turn'[n] = next /\ \A m \in Turns : m # n => turn'[m] = turn[m]
  BY <1>4, <1>6, <1>7, GoesFacts
<1>9. MadeInv'
  BY <1>1, <1>6, <1>7, <1>8, MadeStays
<1>10. /\ made' \in [Offers -> Nat] /\ excuse' \in [Offers -> Nat]
       /\ \A o \in Offers \ Aired : made'[o] = 0
  BY <1>7 DEF IInv, Typed, PlaceInv
<1>. QED
  BY <1>1, <1>4, <1>5, <1>6, <1>7, <1>9, <1>10, TurnGoesOn

LEMMA ReadMetaStep ==
    ASSUME IInv, NEW n \in Turns, ReadMeta(n)
    PROVE  IInv'
<1>0. PICK a \in Threads : a = turn[n].th
  BY TurnFacts DEF ReadMeta
<1>1. PICK t : t = turn[n] /\ a = t.th
  BY <1>0
<1>2. PICK m : m = Meta(a)
  OBVIOUS
<1>3. PICK next : next = [t EXCEPT !.base = m, !.pc = "write"]
  OBVIOUS
<1>4. t \in TurnStates /\ m \in Metas /\ Slotted(m) /\ Typed
  BY <1>1, <1>2, TurnFacts, ListedOf DEF IInv
<1>5. /\ next \in TurnStates /\ next.pc = "write" /\ next.th = a /\ next.op = t.op
      /\ next.o = t.o /\ next.list = t.list /\ next.fresh = t.fresh /\ next.base = m
      /\ next.applied = t.applied /\ next.beside = t.beside
  BY <1>1, <1>3, <1>4 DEF TurnStates
<1>6. /\ Goes(n, next) /\ Frozen /\ UNCHANGED <<thread, standing, made, excuse, calm>>
      /\ turn[n].pc = "read"
  BY <1>1, <1>2, <1>3 DEF ReadMeta, Frozen, world, ghosts, accounts, counts
<1>7. turn'[n] = next /\ \A k \in Turns : k # n => turn'[k] = turn[k]
  BY <1>4, <1>5, <1>6, GoesFacts
<1>8. MadeInv'
  BY <1>1, <1>5, <1>6, <1>7, MadeStays
<1>9. /\ made' \in [Offers -> Nat] /\ excuse' \in [Offers -> Nat]
      /\ \A o \in Offers \ Aired : made'[o] = 0
  BY <1>6 DEF IInv, Typed, PlaceInv
<1>10. next.base \in {turn[n].base, Meta(turn[n].th)}
  BY <1>1, <1>2, <1>5
<1>. QED
  BY <1>1, <1>4, <1>5, <1>6, <1>8, <1>9, <1>10, TurnGoesOn

LEMMA TurnDiesStep ==
    ASSUME IInv, NEW n \in Turns, TurnDies(n)
    PROVE  IInv'
<1>1. PICK t : t = turn[n]
  OBVIOUS
<1>2. /\ Goes(n, IdleTurn) /\ Frozen /\ made' = made /\ Typed /\ t.pc # "idle" /\ ~calm'
      /\ excuse' = IF t.applied /\ ~t.beside THEN [excuse EXCEPT ![t.o] = @ + 1] ELSE excuse
      /\ calm' \in BOOLEAN
  BY <1>1 DEF TurnDies, Frozen, world, IInv
<1>3. \A o \in Offers : excuse[o] \in Nat /\ made[o] \in Nat
  BY <1>2 DEF Typed
<1>4. t.applied => t.o \in Offers
  BY <1>1, TurnFacts DEF CopyInv
<1>5. /\ excuse' \in [Offers -> Nat]
      /\ \A o \in Offers : excuse'[o] = IF t.applied /\ ~t.beside /\ o = t.o THEN excuse[o] + 1
                                                                            ELSE excuse[o]
  BY <1>2, <1>4 DEF Typed
<1>6. \A o \in Offers : excuse[o] <= excuse'[o]
  BY <1>3, <1>5
<1>7. t.applied /\ ~t.beside => made[t.o] <= excuse'[t.o]
  BY <1>3, <1>4, <1>5 DEF IInv, MadeInv
<1>. QED
  BY <1>1, <1>2, <1>5, <1>6, <1>7, TurnStops

----------------------------------------------------------------------------
(* An offer is carried out *)

LEMMA ApplyStep ==
    ASSUME IInv, NEW n \in Turns, Apply(n)
    PROVE  IInv'
<1>1. PICK t : t = turn[n]
  OBVIOUS
<1>2. PICK o : o = t.o
  OBVIOUS
<1>3. /\ Typed /\ Frozen /\ calm' = calm /\ t.pc = "apply" /\ t \in TurnStates /\ Slotted(t.base)
      /\ ~t.applied /\ t.op \in Answers /\ o \in Offers /\ o \in Aired
      /\ UNCHANGED <<thread, standing>>
  BY <1>1, <1>2, TurnFacts DEF Apply, Frozen, world, counts, IInv, CopyInv
<1>4. \A p \in Offers : excuse[p] \in Nat /\ made[p] \in Nat
  BY <1>3 DEF Typed
<1>5. /\ made \in [Offers -> Nat] /\ excuse \in [Offers -> Nat] /\ calm \in BOOLEAN
      /\ \A p \in Offers \ Aired : made[p] = 0
  BY <1>3 DEF Typed, IInv, PlaceInv
<1>6. CASE Refused(n)
  <2>1. Goes(n, IdleTurn) /\ made' = made /\ excuse' = excuse
    BY <1>6 DEF Refused
  <2>2. \A p \in Offers : excuse[p] <= excuse'[p]
    BY <1>4, <2>1
  <2>. QED
    BY <1>1, <1>3, <1>5, <2>1, <2>2, TurnStops
<1>7. ASSUME NEW applied \in BOOLEAN, NEW next,
             next = AfterApply([t EXCEPT !.applied = applied])
      PROVE  /\ next \in TurnStates /\ next.pc \in {"list", "read"}
             /\ next.pc = "list" => t.op = "token"
             /\ next.th = t.th /\ next.op = t.op /\ next.o = t.o /\ next.list = t.list
             /\ next.fresh = t.fresh /\ next.base = t.base /\ next.beside = t.beside
             /\ next.applied = applied
  <2>1. PICK l \in {"list", "read"} : l = IF t.op = "token" THEN "list" ELSE "read"
    OBVIOUS
  <2>2. next = [[t EXCEPT !.applied = applied] EXCEPT !.pc = l]
    BY <1>3, <1>7, <2>1 DEF AfterApply, TurnStates
  <2>. QED
    BY <1>3, <2>1, <2>2 DEF TurnStates
<1>8. CASE ComesToNothing(n)
  <2>1. PICK next : next = AfterApply([t EXCEPT !.applied = FALSE])
    OBVIOUS
  <2>2. t = [t EXCEPT !.applied = FALSE]
    BY <1>3 DEF TurnStates
  <2>3. Goes(n, next) /\ made' = made /\ excuse' = excuse
    BY <1>1, <1>8, <2>1, <2>2 DEF ComesToNothing
  <2>4. /\ next \in TurnStates /\ next.pc \in {"list", "read"}
        /\ next.pc = "list" => t.op = "token"
        /\ next.th = t.th /\ next.op = t.op /\ next.o = t.o /\ next.list = t.list
        /\ next.fresh = t.fresh /\ next.base = t.base /\ next.beside = t.beside
        /\ next.applied = t.applied
    <3>1. t.applied = FALSE
      <4>1. t.applied \in BOOLEAN
        BY <1>3 DEF TurnStates
      <4>. QED
        BY <1>3, <4>1, Zenon
    <3>2. next.applied = FALSE
      BY <1>7, <2>1
    <3>. QED
      BY <1>7, <2>1, <3>1, <3>2
  <2>5. turn'[n] = next /\ \A m \in Turns : m # n => turn'[m] = turn[m]
    BY <1>3, <2>3, <2>4, GoesFacts
  <2>6. MadeInv'
    BY <1>1, <1>3, <2>3, <2>4, <2>5, MadeStays
  <2>. QED
    BY <1>1, <1>3, <1>5, <2>3, <2>4, <2>6, TurnGoesOn
<1>9. CASE CarriesOut(n)
  <2>1. PICK next : next = AfterApply([t EXCEPT !.applied = TRUE])
    OBVIOUS
  <2>2. /\ Goes(n, next) /\ made' = [made EXCEPT ![o] = @ + 1]
        /\ excuse' = IF t.beside THEN [excuse EXCEPT ![o] = @ + 1] ELSE excuse
    BY <1>1, <1>2, <1>9, <2>1 DEF CarriesOut
  <2>3. /\ next \in TurnStates /\ next.pc \in {"list", "read"}
        /\ next.pc = "list" => t.op = "token"
        /\ next.th = t.th /\ next.op = t.op /\ next.o = t.o /\ next.list = t.list
        /\ next.fresh = t.fresh /\ next.base = t.base /\ next.beside = t.beside
        /\ next.applied
    BY <1>7, <2>1
  <2>4. turn'[n] = next /\ \A m \in Turns : m # n => turn'[m] = turn[m]
    BY <1>3, <2>2, <2>3, GoesFacts
  <2>5. /\ made' \in [Offers -> Nat] /\ excuse' \in [Offers -> Nat]
        /\ made'[o] = made[o] + 1 /\ excuse'[o] = IF t.beside THEN excuse[o] + 1 ELSE excuse[o]
        /\ \A p \in Offers : p # o => made'[p] = made[p] /\ excuse'[p] = excuse[p]
    BY <1>3, <1>5, <2>2
  <2>6. /\ NoOffer \notin Offers /\ Listed \cup standing \subseteq Offers
        /\ \A p \in Offers, m \in Turns : m # n => (First(m, p)' <=> First(m, p))
    BY <2>4, FirstFacts
  <2>7. \A p \in Offers : First(n, p)' <=> First(n, p)
    BY <1>1, <2>3, <2>4 DEF First
  <2>8. \A p \in Offers : First(n, p) => p = o
    BY <1>1, <1>2 DEF First
  <2>9. First(n, o) <=> ~t.beside
    BY <1>1, <1>2 DEF First
  <2>10. MadeInv'
    <3>1. \A p \in Offers : p # o => (Paid(p)' <=> Paid(p))
      BY <2>5 DEF Paid
    <3>2. t.beside => (Paid(o) => Paid(o)')
      BY <1>3, <1>4, <2>5 DEF Paid
    <3>3. ~t.beside => Paid(o)
      BY <1>1, <1>3, <2>9 DEF IInv, MadeInv
    <3>4. \A p \in Offers : made'[p] <= 1 + excuse'[p]
      <4>1. made'[o] <= 1 + excuse'[o]
        BY <1>3, <1>4, <2>5, <3>3 DEF Paid, IInv, MadeInv
      <4>. QED
        BY <2>5, <4>1 DEF IInv, MadeInv
    <3>5. \A p \in Offers : \A m \in Turns : First(m, p)' /\ ~turn'[m].applied => Paid(p)'
      <4>1. ASSUME NEW p \in Offers, NEW m \in Turns, First(m, p)', ~turn'[m].applied
            PROVE  Paid(p)'
        <5>1. m # n /\ First(m, p) /\ ~turn[m].applied /\ Paid(p)
          BY <2>3, <2>4, <2>6, <4>1 DEF IInv, MadeInv
        <5>2. p = o => t.beside
          BY <1>3, <2>9, <5>1 DEF IInv, MadeInv
        <5>. QED
          BY <3>1, <3>2, <5>1, <5>2
      <4>. QED
        BY <4>1
    <3>6. \A p \in Listed \cup standing : (\A m \in Turns : ~First(m, p)') => Paid(p)'
      <4>1. ASSUME NEW p \in Listed \cup standing, \A m \in Turns : ~First(m, p)'
            PROVE  Paid(p)'
        <5>1. p \in Offers /\ (\A m \in Turns : ~First(m, p)) /\ Paid(p)
          BY <2>6, <2>7, <4>1 DEF IInv, MadeInv
        <5>2. p = o => t.beside
          BY <2>9, <5>1
        <5>. QED
          BY <3>1, <3>2, <5>1, <5>2
      <4>. QED
        BY <4>1
    <3>7. \A p \in Offers : \A k, m \in Turns : First(k, p)' /\ First(m, p)' => k = m
      BY <2>6, <2>7 DEF IInv, MadeInv
    <3>8. Listed' = Listed /\ standing' = standing
      BY <1>3 DEF Listed, Meta
    <3>. QED
      BY <3>4, <3>5, <3>6, <3>7, <3>8 DEF MadeInv
  <2>11. calm => excuse' = excuse
    BY <1>1, <2>2 DEF IInv, CalmInv
  <2>12. \A p \in Offers \ Aired : made'[p] = 0
    BY <1>3, <1>5, <2>5
  <2>. QED
    BY <1>1, <1>3, <2>2, <2>3, <2>5, <2>10, <2>11, <2>12, TurnGoesOn
<1>. QED
  BY <1>6, <1>8, <1>9 DEF Apply


----------------------------------------------------------------------------
(* The lists are written *)

\* One thread's metadata is replaced by w.
LEMMA StoreFacts ==
    ASSUME IInv, NEW a \in Threads, NEW w \in Metas, Slotted(w), Store(a, w)
    PROVE  /\ thread' \in [Threads -> ThreadStates]
           /\ \E t \in Threads : thread'[t].status = "active"
           /\ \A t \in Threads : Meta(t)' = IF t = a THEN w ELSE Meta(t)
           /\ \A t \in Threads : Slotted(Meta(t))'
<1>1. thread \in [Threads -> ThreadStates] /\ Typed
  BY DEF Typed, IInv
<1>2. PICK row : row = [thread[a] EXCEPT !.meta = w]
  OBVIOUS
<1>3. thread' = [thread EXCEPT ![a] = row]
  BY <1>1, <1>2 DEF Store
<1>4. row \in ThreadStates /\ row.meta = w /\ row.status = thread[a].status
  BY <1>1, <1>2 DEF ThreadStates
<1>5. /\ thread' \in [Threads -> ThreadStates]
      /\ \A t \in Threads : thread'[t] = IF t = a THEN row ELSE thread[t]
  BY <1>1, <1>3, <1>4
<1>6. \A t \in Threads : thread'[t].meta = IF t = a THEN w ELSE thread[t].meta
  BY <1>4, <1>5
<1>7. \A t \in Threads : thread'[t].status = thread[t].status
  BY <1>4, <1>5
<1>8. \A t \in Threads : Slotted(thread'[t].meta)
  BY <1>1, <1>6 DEF Typed, Meta
<1>. QED
  BY <1>1, <1>5, <1>6, <1>7, <1>8 DEF Typed, Meta

\* What the write does to the lists: other threads' are as they were.
LEMMA ListsMove ==
    ASSUME IInv, NEW a \in Threads, NEW w \in Metas, Slotted(w), Store(a, w)
    PROVE  /\ Pending(w) \subseteq Listed'
           /\ Pending(Meta(a)) \subseteq Of(a) /\ Pending(Meta(a)) \subseteq Listed
           /\ \A p \in Listed : p \in Pending(Meta(a)) \/ p \in Listed'
           /\ \A p \in Listed' : p \in Pending(w) \/ (p \in Listed /\ p \notin Of(a))
           /\ \A t \in Threads : Pending(Meta(t))' = IF t = a THEN Pending(w) ELSE Pending(Meta(t))
<1>1. \A t \in Threads : Pending(Meta(t))' = IF t = a THEN Pending(w) ELSE Pending(Meta(t))
  BY StoreFacts
<1>2. \A t \in Threads : Pending(Meta(t))' \subseteq Listed'
  BY DEF Listed
<1>3. Pending(w) \subseteq Listed' /\ \A t \in Threads : t # a => Pending(Meta(t)) \subseteq Listed'
  BY <1>1, <1>2
<1>4. \A t \in Threads : Pending(Meta(t)) \subseteq Of(t) /\ Pending(Meta(t)) \subseteq Listed
  BY ListedOf
<1>5. \A p \in Listed : p \in Pending(Meta(a)) \/ p \in Listed'
  <2>1. ASSUME NEW p \in Listed PROVE p \in Pending(Meta(a)) \/ p \in Listed'
    <3>1. PICK t \in Threads : p \in Pending(Meta(t))
      BY <2>1 DEF Listed
    <3>. QED
      BY <1>3, <3>1
  <2>. QED
    BY <2>1
<1>6. \A p \in Listed' : p \in Pending(w) \/ (p \in Listed /\ p \notin Of(a))
  <2>1. ASSUME NEW p \in Listed', p \notin Pending(w) PROVE p \in Listed /\ p \notin Of(a)
    <3>1. PICK t \in Threads : p \in Pending(Meta(t))'
      BY <2>1 DEF Listed
    <3>2. t # a /\ p \in Of(t) /\ p \in Listed
      BY <1>1, <1>4, <2>1, <3>1
    <3>. QED
      BY <3>2 DEF Of
  <2>. QED
    BY <2>1
<1>. QED
  BY <1>1, <1>3, <1>4, <1>5, <1>6

\* What is put back is accounted for.
LEMMA RevivesFacts ==
    ASSUME IInv, NEW back, Revives(back), made' = made
    PROVE  /\ excuse' \in [Offers -> Nat]
           /\ \A o \in Offers : made'[o] <= 1 + excuse'[o]
           /\ \A o \in Offers : Paid(o) => Paid(o)'
           /\ \A o \in Offers : o \in back => Paid(o)'
           /\ back = {} => \A o \in Offers : excuse'[o] = excuse[o]
           /\ revived' = revived \cup back
<1>1. /\ made \in [Offers -> Nat] /\ excuse \in [Offers -> Nat]
      /\ \A o \in Offers : made[o] <= 1 + excuse[o]
  BY DEF IInv, Typed, MadeInv
<1>2. /\ excuse' \in [Offers -> Nat] /\ revived' = revived \cup back
      /\ \A o \in Offers : excuse'[o] = IF o \in back THEN excuse[o] + 1 ELSE excuse[o]
  BY <1>1 DEF Revives
<1>3. \A o \in Offers : excuse[o] \in Nat /\ made[o] \in Nat
  BY <1>1
<1>. QED
  BY <1>1, <1>2, <1>3 DEF Paid

LEMMA WriteMetaStep ==
    ASSUME IInv, NEW n \in Turns, WriteMeta(n)
    PROVE  IInv'
<1>1. PICK a \in Threads : a = turn[n].th
  BY TurnFacts DEF WriteMeta
<1>2. PICK t : t = turn[n] /\ a = t.th
  BY <1>1
<1>3. PICK w, was, is, fresh, o, back :
         /\ w = Written(n) /\ was = Pending(Meta(a)) /\ is = Pending(w) /\ fresh = t.fresh
         /\ o = t.o /\ back = Back(is \ fresh, was)
  OBVIOUS
<1>4. /\ Typed /\ t \in TurnStates /\ Slotted(t.base) /\ t.base \in Metas
      /\ t.list \in SUBSET Offers /\ NoOffer \notin Offers /\ CopyInv(n)
      /\ t.pc = "write"
  BY <1>2, TurnFacts, ListedOf DEF IInv, TurnStates, WriteMeta
<1>5. /\ Store(a, w) /\ standing' = StandingAfter(n, was) /\ dropped' = dropped \cup LeftOut(n, was)
      /\ Revives(back) /\ Goes(n, IdleTurn)
      /\ UNCHANGED <<offer, parked, sweep, made, calm, turns>>
  BY <1>2, <1>3 DEF WriteMeta, counts
<1>6. /\ turn' \in [Turns -> TurnStates] /\ turn'[n] = IdleTurn
      /\ \A m \in Turns : m # n => turn'[m] = turn[m]
  BY <1>4, <1>5, IdleTurnFacts, GoesFacts
<1>7. /\ w \in Metas /\ Slotted(w)
      /\ IF t.op \in Lists THEN is = t.list ELSE is \subseteq Pending(t.base)
  <2>1. CASE t.op \in Lists
    <3>1. w = WithOffers(t.base, t.list)
      BY <1>2, <1>3, <2>1 DEF Written, Lists, Answers
    <3>. QED
      BY <1>3, <1>4, <2>1, <3>1, WithOffersFacts
  <2>2. CASE t.op \notin Lists
    <3>1. w \in {WithoutProbe(t.base), WithOverride(t.base), WithProbe(t.base), t.base}
      BY <1>2, <1>3, <2>2 DEF Written
    <3>. QED
      BY <1>3, <1>4, <2>2, <3>1, OtherWriters
  <2>. QED
    BY <2>1, <2>2
\* What the turn knows.
<1>8. /\ is \ fresh \subseteq Of(a) /\ fresh \subseteq Known
      /\ (t.op \in Answers => o \in Of(a) /\ o \notin is /\ fresh = {})
      /\ (t.op \notin Answers => o = NoOffer)
      /\ (fresh # {} => t.op = "park") /\ (t.op = "park" => fresh \subseteq is)
      /\ (t.op \notin Lists => fresh = {} /\ t.op \notin Answers /\ t.op # "park")
      /\ \A f \in fresh : offer[f].th = a /\ \A p \in is \ fresh : offer[p].type # offer[f].type
  <2>1. /\ t.list \ fresh \subseteq Of(a) /\ Pending(t.base) \subseteq Of(a) /\ fresh \subseteq Known
        /\ (IF t.op \in Answers THEN o \in Of(a) ELSE o = NoOffer) /\ o \notin t.list
        /\ (fresh # {} => t.op = "park") /\ fresh \subseteq t.list
        /\ \A f \in fresh : offer[f].th = a
                            /\ \A p \in t.list \ fresh : offer[p].type # offer[f].type
    BY <1>2, <1>3, <1>4 DEF CopyInv
  <2>2. /\ "park" \notin Answers /\ "park" \in Lists /\ \A op \in Answers : op \in Lists
    BY DEF Answers, Lists
  <2>. QED
    BY <1>7, <2>1, <2>2
<1>9. /\ Known' = Known /\ Aired \subseteq Aired' /\ fresh \subseteq Aired' /\ fresh \cap Aired = {}
      /\ fresh \subseteq Offers
  <2>1. Known' = Known /\ Aired \subseteq Aired' /\ Known \subseteq Offers
    <3>1. turn'[n].fresh \subseteq turn[n].fresh
      BY <1>6, IdleTurnFacts
    <3>2. Known' = Known /\ Aired \subseteq Aired'
      BY <1>5, <1>6, <3>1, AiredGrows
    <3>3. Known \subseteq Offers
      BY <1>4, ConversationAssumption DEF Known, Typed, Offers
    <3>. QED
      BY <3>2, <3>3
  <2>2. \A m \in Turns : fresh \cap turn'[m].fresh = {}
    BY <1>2, <1>3, <1>6, IdleTurnFacts DEF IInv, PlaceInv
  <2>3. fresh \cap Aired = {}
    BY <1>2, <1>3 DEF Aired
  <2>4. fresh \subseteq Aired'
    BY <1>8, <2>1, <2>2 DEF Aired
  <2>. QED
    BY <1>8, <2>1, <2>3, <2>4
<1>10. \A c : Of(c) \subseteq Of(c)'
  BY <1>5, <1>9 DEF Of
<1>11. /\ is \subseteq Listed' /\ was \subseteq Of(a) /\ was \subseteq Listed
       /\ \A p \in Listed : p \in was \/ p \in Listed'
       /\ \A p \in Listed' : p \in is \/ (p \in Listed /\ p \notin Of(a))
       /\ \A c \in Threads : Pending(Meta(c))' = IF c = a THEN is ELSE Pending(Meta(c))
  BY <1>3, <1>5, <1>7, ListsMove
<1>12. /\ thread' \in [Threads -> ThreadStates]
       /\ \E c \in Threads : thread'[c].status = "active"
       /\ \A c \in Threads : Meta(c)' = IF c = a THEN w ELSE Meta(c)
       /\ \A c \in Threads : Slotted(Meta(c))'
  BY <1>5, <1>7, StoreFacts
<1>13. /\ excuse' \in [Offers -> Nat]
       /\ \A p \in Offers : made'[p] <= 1 + excuse'[p]
       /\ \A p \in Offers : Paid(p) => Paid(p)'
       /\ \A p \in Offers : p \in back => Paid(p)'
       /\ (back = {} => \A p \in Offers : excuse'[p] = excuse[p])
       /\ revived' = revived \cup back
  BY <1>5, RevivesFacts
<1>14. /\ (t.op = "park" => standing' = (standing \ (Replaced(n) \cap was)) \cup fresh)
       /\ (t.op \in Answers => standing' = standing \ {o})
       /\ (t.op \notin Lists => standing' = standing)
       /\ Replaced(n) = {p \in Offers : \E f \in fresh : offer[f].type = offer[p].type} \ fresh
       /\ dropped' = dropped \cup (IF t.op \in Lists THEN was \ (t.list \cup Replaced(n) \cup {o})
                                                     ELSE was \ is)
       /\ back = ((is \ fresh) \ was) \ standing
       /\ (t.op \in Lists => t.op = "park" \/ t.op \in Answers)
  <2>1. "park" \notin Answers
    BY DEF Answers
  <2>2. standing' = CASE t.op = "park"    -> (standing \ (Replaced(n) \cap was)) \cup fresh
                      [] t.op \in Answers -> standing \ {o}
                      [] OTHER            -> standing
    BY <1>2, <1>3, <1>5 DEF StandingAfter
  <2>3. dropped' = dropped \cup (IF t.op \in Lists THEN was \ (t.list \cup Replaced(n) \cup {o})
                                                   ELSE was \ is)
    BY <1>2, <1>3, <1>5 DEF LeftOut
  <2>4. Replaced(n) = {p \in Offers : \E f \in fresh : offer[f].type = offer[p].type} \ fresh
    BY <1>2, <1>3 DEF Replaced
  <2>5. /\ (t.op \in Lists => t.op = "park" \/ t.op \in Answers)
        /\ (t.op \notin Lists => t.op # "park" /\ t.op \notin Answers)
    BY DEF Lists
  <2>. QED
    BY <1>3, <2>1, <2>2, <2>3, <2>4, <2>5 DEF Back
<1>15. standing \subseteq Aired /\ Aired \subseteq Offers /\ Listed \subseteq Aired
  BY ListedOf DEF IInv, PlaceInv
<1>16. standing' \subseteq standing \cup fresh
  BY <1>14
<1>17. Typed'
  <2>1. \A m \in Turns : Slotted(turn'[m].base)
    BY <1>4, <1>6, IdleTurnFacts, EmptyMetaFacts DEF Typed
  <2>2. turns' = turns /\ \A m \in Turns : m > turns => turn'[m] = IdleTurn
    BY <1>4, <1>5, <1>6 DEF Typed
  <2>3. /\ \A m \in Turns : Slotted(turn[m].base)'
        /\ \A c \in Threads : Slotted(Meta(c)')
    BY <1>12, <2>1 DEF Slotted
  <2>4. /\ offer' = offer /\ parked' = parked /\ sweep' = sweep /\ made' = made /\ calm' = calm
        /\ offer \in [Offers -> OfferStates] /\ parked \in 0..MaxOffers /\ sweep \in SweepStates
        /\ made \in [Offers -> Nat] /\ calm \in BOOLEAN /\ turns \in Nat /\ Slotted(sweep.base)
    BY <1>4, <1>5 DEF Typed
  <2>5. Slotted(sweep.base)'
    BY <2>4 DEF Slotted
  <2>. QED
    BY <1>6, <1>12, <1>13, <2>2, <2>3, <2>4, <2>5 DEF Typed
<1>18. PlaceInv'
  <2>1. ASSUME NEW m \in Turns PROVE CopyInv(m)'
    <3>1. CASE m = n
      BY <1>6, <3>1, IdleCopy
    <3>2. CASE m # n
      BY <1>5, <1>6, <1>9, <3>2, TurnFacts, CopiesStay
    <3>. QED
      BY <3>1, <3>2
  <2>2. \A k, m \in Turns : k # m => turn'[k].fresh \cap turn'[m].fresh = {}
    BY <1>6, IdleTurnFacts DEF IInv, PlaceInv
  <2>3. \A c \in Threads : Pending(Meta(c))' \subseteq Of(c)'
    <3>1. fresh \subseteq Of(a)'
      BY <1>5, <1>8, <1>9 DEF Of
    <3>2. is \subseteq Of(a)'
      BY <1>8, <1>10, <3>1
    <3>3. \A c \in Threads : Pending(Meta(c)) \subseteq Of(c)
      BY DEF IInv, PlaceInv
    <3>. QED
      BY <1>10, <1>11, <3>2, <3>3
  <2>4. Pending(sweep.base)' \subseteq Of(sweep.th)'
    <3>1. PICK s : s = sweep.th
      OBVIOUS
    <3>2. Pending(sweep.base) \subseteq Of(s) /\ sweep' = sweep
      BY <1>5, <3>1 DEF IInv, PlaceInv
    <3>3. Of(sweep.th)' = Of(s)' /\ Pending(sweep.base)' = Pending(sweep.base)
      BY <3>1, <3>2 DEF Of
    <3>. QED
      BY <1>10, <3>2, <3>3
  <2>5. /\ IF sweep'.pc = "idle" THEN sweep' = IdleSweep ELSE sweep'.th \in Threads
        /\ \A p \in Offers \ Aired' : made'[p] = 0
    BY <1>5, <1>9 DEF IInv, PlaceInv
  <2>6. standing' \subseteq Aired'
    BY <1>9, <1>15, <1>16
  <2>. QED
    BY <2>1, <2>2, <2>3, <2>4, <2>5, <2>6 DEF PlaceInv
<1>19. MadeInv'
  <2>1. /\ \A p \in Offers, m \in Turns : m # n => (First(m, p)' <=> First(m, p))
        /\ \A p \in Offers : First(n, p) => p = o /\ t.op \in Answers
    BY <1>2, <1>3, <1>6, FirstFacts
  <2>2. \A p \in Offers : ~First(n, p)'
    BY <1>4, <1>6, IdleTurnFacts DEF First
  <2>3. \A p \in Offers : \A m \in Turns : First(m, p)' /\ ~turn'[m].applied => Paid(p)'
    BY <1>6, <1>13, <2>1, <2>2 DEF IInv, MadeInv
  <2>4. ASSUME NEW p \in Listed' \cup standing', \A m \in Turns : ~First(m, p)'
        PROVE  Paid(p)'
    <3>1. CASE p \in fresh
      <4>1. p \in Offers /\ made[p] = 0 /\ excuse[p] \in Nat
        BY <1>4, <1>9, <3>1 DEF IInv, PlaceInv, Typed
      <4>. QED
        BY <1>13, <3>1, <4>1 DEF Paid
    <3>2. CASE p \in back
      <4>1. p \in Offers
        BY <1>8, <1>14, <1>15, <3>2 DEF Of
      <4>. QED
        BY <1>13, <3>2, <4>1
    <3>3. CASE p \notin fresh /\ p \notin back
      <4>1. p \in Listed \cup standing /\ p \in Offers
        BY <1>11, <1>14, <1>15, <1>16, <2>4, <3>3
      <4>2. ~First(n, p)
        <5>1. p = o /\ t.op \in Answers => p \notin Listed' \cup standing'
          BY <1>8, <1>11, <1>14
        <5>. QED
          BY <2>1, <2>4, <4>1, <5>1
      <4>3. \A m \in Turns : ~First(m, p)
        BY <2>1, <2>4, <4>1, <4>2
      <4>. QED
        BY <1>13, <4>1, <4>3 DEF IInv, MadeInv
    <3>. QED
      BY <3>1, <3>2, <3>3
  <2>5. \A p \in Offers : \A k, m \in Turns : First(k, p)' /\ First(m, p)' => k = m
    BY <2>1, <2>2 DEF IInv, MadeInv
  <2>. QED
    BY <1>13, <2>3, <2>4, <2>5 DEF MadeInv
<1>20. CalmInv'
  <2> SUFFICES ASSUME calm PROVE CalmInv'
    BY <1>5 DEF CalmInv
  <2>1. \A m \in Turns : turn[m].pc # "idle" => m = n
    BY <1>2, <1>4 DEF IInv, CalmInv
  <2>2. \A m \in Turns : turn'[m].pc = "idle" /\ ~turn'[m].beside
    BY <1>6, <2>1, IdleTurnFacts DEF IInv, CalmInv
  <2>3. t.list \ fresh \subseteq was /\ Pending(t.base) \subseteq was
    BY <1>2, <1>3, <1>4 DEF IInv, CalmInv
  <2>4. back = {}
    BY <1>7, <1>14, <2>3
  <2>. QED
    BY <1>13, <2>2, <2>4 DEF IInv, CalmInv
<1>21. standing \subseteq Listed \cup dropped /\ Listed \subseteq standing \cup revived
  BY DEF IInv, MatchInv
<1>22. standing' \subseteq Listed' \cup dropped'
  <2>1. ASSUME NEW s \in standing', s \notin Listed', s \notin dropped' PROVE FALSE
    <3>1. s \notin fresh /\ s \in standing
      BY <1>8, <1>11, <1>16, <2>1
    <3>2. s \in was /\ s \in Offers
      BY <1>11, <1>14, <1>15, <1>21, <2>1, <3>1
    <3>3. CASE t.op \in Lists
      <4>1. s \notin t.list /\ s \in Replaced(n) \cup {o}
        BY <1>7, <1>11, <1>14, <2>1, <3>2, <3>3
      <4>2. CASE t.op = "park"
        <5>1. s # o
          BY <1>4, <1>8, <3>2, <4>2 DEF Answers
        <5>. QED
          BY <1>14, <2>1, <3>1, <3>2, <4>1, <4>2, <5>1
      <4>3. CASE t.op \in Answers
        BY <1>8, <1>14, <2>1, <4>1, <4>3
      <4>. QED
        BY <1>14, <3>3, <4>2, <4>3
    <3>4. CASE t.op \notin Lists
      BY <1>11, <1>14, <2>1, <3>2, <3>4
    <3>. QED
      BY <3>3, <3>4
  <2>. QED
    BY <2>1
<1>23. Listed' \subseteq standing' \cup revived'
  <2>1. ASSUME NEW p \in Listed', p \notin revived' PROVE p \in standing'
    <3>1. CASE p \in fresh
      BY <1>8, <1>14, <3>1
    <3>2. CASE p \notin fresh
      <4>1. p \in standing
        BY <1>11, <1>13, <1>14, <1>21, <2>1, <3>2
      <4>2. CASE t.op = "park"
        <5>1. p \in is => p \notin Replaced(n)
          BY <1>8, <1>14, <3>2
        <5>2. p \notin is => p \notin was
          BY <1>11, <2>1
        <5>. QED
          BY <1>14, <4>1, <4>2, <5>1, <5>2
      <4>3. CASE t.op \in Answers
        BY <1>8, <1>11, <1>14, <2>1, <4>1, <4>3
      <4>4. CASE t.op \notin Lists
        BY <1>14, <4>1, <4>4
      <4>. QED
        BY <1>14, <4>2, <4>3, <4>4
    <3>. QED
      BY <3>1, <3>2
  <2>. QED
    BY <2>1
<1>24. MatchInv'
  BY <1>22, <1>23 DEF MatchInv
<1>. QED
  BY <1>17, <1>18, <1>19, <1>20, <1>24 DEF IInv

\* The sweep writes back what it has read.
LEMMA SweepWritesStep ==
    ASSUME IInv, SweepWrites
    PROVE  IInv'
<1>0. PICK a \in Threads : a = sweep.th
  BY DEF IInv, PlaceInv, SweepWrites
<1>1. PICK b, w, was, is, back :
         /\ b = sweep.base /\ w = WithProbe(b) /\ was = Pending(Meta(a)) /\ is = Pending(b)
         /\ back = Back(is, was)
  OBVIOUS
<1>2. /\ Typed /\ b \in Metas /\ Slotted(b) /\ is \subseteq Of(a)
  BY <1>0, <1>1 DEF IInv, Typed, PlaceInv, SweepStates
<1>3. /\ Store(a, w) /\ sweep' = IdleSweep /\ Revives(back) /\ calm' = FALSE
      /\ dropped' = dropped \cup (was \ is)
      /\ UNCHANGED <<offer, parked, turn, made, standing, turns>>
  BY <1>0, <1>1 DEF SweepWrites, counts
<1>4. w \in Metas /\ Slotted(w) /\ Pending(w) = is
  BY <1>1, <1>2, OtherWriters, WithProbeKeeps
<1>5. /\ thread' \in [Threads -> ThreadStates]
      /\ \E c \in Threads : thread'[c].status = "active"
      /\ \A c \in Threads : Meta(c)' = IF c = a THEN w ELSE Meta(c)
      /\ \A c \in Threads : Slotted(Meta(c))'
  BY <1>3, <1>4, StoreFacts
<1>6. /\ is \subseteq Listed' /\ was \subseteq Listed
      /\ \A p \in Listed : p \in was \/ p \in Listed'
      /\ \A p \in Listed' : p \in is \/ p \in Listed
      /\ \A c \in Threads : Pending(Meta(c))' = IF c = a THEN is ELSE Pending(Meta(c))
  BY <1>1, <1>3, <1>4, ListsMove
<1>7. /\ excuse' \in [Offers -> Nat]
      /\ \A p \in Offers : made'[p] <= 1 + excuse'[p]
      /\ \A p \in Offers : Paid(p) => Paid(p)'
      /\ \A p \in Offers : p \in back => Paid(p)'
      /\ revived' = revived \cup back
  BY <1>3, RevivesFacts
<1>8. /\ Known' = Known /\ Aired' = Aired /\ back = (is \ was) \ standing
      /\ standing \subseteq Aired /\ Listed \subseteq Aired /\ Aired \subseteq Offers
  BY <1>1, <1>3, ListedOf DEF Known, Aired, Back, IInv, PlaceInv
<1>9. /\ \A c : Of(c)' = Of(c)
      /\ \A m \in Turns : turn'[m] = turn[m]
  BY <1>3, <1>8 DEF Of
<1>10. Typed'
  <2>1. \A m \in Turns : Slotted(turn[m].base)'
    BY <1>2, <1>3 DEF Typed, Slotted
  <2>2. /\ sweep' \in SweepStates /\ Slotted(sweep.base)'
    BY <1>3, IdleSweepFacts, EmptyMetaFacts DEF Slotted
  <2>. QED
    BY <1>2, <1>3, <1>5, <1>7, <2>1, <2>2 DEF Typed
<1>11. PlaceInv'
  <2>1. ASSUME NEW m \in Turns PROVE CopyInv(m)'
    BY <1>3, <1>8, <1>9, TurnFacts, CopiesStay
  <2>2. \A c \in Threads : Pending(Meta(c))' \subseteq Of(c)'
    BY <1>2, <1>6, <1>9 DEF IInv, PlaceInv
  <2>3. Pending(sweep.base)' = {}
    BY <1>3, IdleSweepFacts, EmptyMetaFacts
  <2>4. /\ \A p \in Offers \ Aired' : made'[p] = 0
        /\ standing' \subseteq Aired'
        /\ \A k, m \in Turns : k # m => turn'[k].fresh \cap turn'[m].fresh = {}
    BY <1>3, <1>8 DEF IInv, PlaceInv
  <2>. QED
    BY <1>3, <2>1, <2>2, <2>3, <2>4, IdleSweepFacts DEF PlaceInv
<1>12. MadeInv'
  <2>1. \A p, m : First(m, p)' <=> First(m, p)
    BY <1>3 DEF First
  <2>2. ASSUME NEW p \in Listed' \cup standing', \A m \in Turns : ~First(m, p)'
        PROVE  Paid(p)'
    <3>1. CASE p \in back
      BY <1>2, <1>7, <1>8, <3>1 DEF Of
    <3>2. CASE p \notin back
      <4>1. p \in Listed \cup standing /\ p \in Offers
        BY <1>3, <1>6, <1>8, <2>2, <3>2
      <4>2. \A m \in Turns : ~First(m, p)
        BY <2>1, <2>2
      <4>. QED
        BY <1>7, <4>1, <4>2 DEF IInv, MadeInv
    <3>. QED
      BY <3>1, <3>2
  <2>3. \A p \in Offers : \A m \in Turns : First(m, p)' /\ ~turn'[m].applied => Paid(p)'
    BY <1>7, <1>9, <2>1 DEF IInv, MadeInv
  <2>4. \A p \in Offers : \A k, m \in Turns : First(k, p)' /\ First(m, p)' => k = m
    BY <2>1 DEF IInv, MadeInv
  <2>. QED
    BY <1>7, <2>2, <2>3, <2>4 DEF MadeInv
<1>13. CalmInv'
  BY <1>3 DEF CalmInv
<1>14. MatchInv'
  BY <1>3, <1>6, <1>7, <1>8 DEF IInv, MatchInv
<1>. QED
  BY <1>10, <1>11, <1>12, <1>13, <1>14 DEF IInv

----------------------------------------------------------------------------
(* Steps that write no list *)

LEMMA MetasKept ==
    ASSUME IInv,
           UNCHANGED <<offer, parked, turn, made, excuse, standing, dropped, revived, turns>>,
           thread' \in [Threads -> ThreadStates], \E t \in Threads : thread'[t].status = "active",
           \A t \in Threads : Meta(t)' = Meta(t),
           sweep' \in SweepStates, Slotted(sweep'.base),
           IF sweep'.pc = "idle" THEN sweep' = IdleSweep ELSE sweep'.th \in Threads,
           Pending(sweep'.base) \subseteq Of(sweep'.th),
           calm' \in BOOLEAN, calm' => calm /\ lock' = lock
    PROVE  IInv'
<1>1. /\ Known' = Known /\ Aired' = Aired /\ Listed' = Listed
      /\ \A c : Of(c)' = Of(c)
      /\ \A t \in Threads : Pending(Meta(t))' = Pending(Meta(t))
  BY DEF Known, Aired, Listed, Of
<1>2. /\ Typed /\ PlaceInv /\ MadeInv /\ CalmInv /\ MatchInv
      /\ \A m \in Turns : turn'[m] = turn[m]
  BY DEF IInv
<1>3. Typed'
  <2>1. /\ \A t \in Threads : Slotted(Meta(t))'
        /\ \A m \in Turns : Slotted(turn[m].base)'
        /\ Slotted(sweep.base)'
    BY <1>2 DEF Typed, Slotted
  <2>. QED
    BY <1>2, <2>1 DEF Typed
<1>4. PlaceInv'
  <2>1. ASSUME NEW m \in Turns PROVE CopyInv(m)'
    BY <1>1, <1>2, TurnFacts, CopiesStay
  <2>2. Pending(sweep.base)' \subseteq Of(sweep.th)'
    <3>1. PICK s : s = sweep'.th
      OBVIOUS
    <3>2. Of(sweep.th)' = Of(s)'
      BY <3>1 DEF Of
    <3>. QED
      BY <1>1, <3>1, <3>2
  <2>3. /\ \A t \in Threads : Pending(Meta(t))' \subseteq Of(t)'
        /\ \A k, m \in Turns : k # m => turn'[k].fresh \cap turn'[m].fresh = {}
        /\ standing' \subseteq Aired' /\ \A o \in Offers \ Aired' : made'[o] = 0
    BY <1>1, <1>2 DEF PlaceInv
  <2>. QED
    BY <2>1, <2>2, <2>3 DEF PlaceInv
<1>5. MadeInv'
  BY <1>1, <1>2 DEF MadeInv, First, Paid
<1>6. CalmInv'
  <2> SUFFICES ASSUME calm' PROVE CalmInv'
    BY DEF CalmInv
  <2>1. ASSUME NEW m \in Turns, turn[m].pc # "idle"
        PROVE  /\ m = lock' /\ turn'[m].list \ turn'[m].fresh \subseteq Pending(Meta(turn[m].th))'
               /\ Pending(turn'[m].base) \subseteq Pending(Meta(turn[m].th))'
    <3>1. PICK a \in Threads : a = turn[m].th
      BY <2>1, TurnFacts
    <3>2. Pending(Meta(turn[m].th))' = Pending(Meta(a))'
      BY <1>2, <3>1 DEF Meta
    <3>. QED
      BY <1>1, <1>2, <2>1, <3>1, <3>2 DEF CalmInv
  <2>. QED
    BY <1>2, <2>1 DEF CalmInv
<1>7. MatchInv'
  BY <1>1, <1>2 DEF MatchInv
<1>. QED
  BY <1>3, <1>4, <1>5, <1>6, <1>7 DEF IInv

LEMMA TurnoverStep ==
    ASSUME IInv, NEW idle \in BOOLEAN, Turnover(idle)
    PROVE  IInv'
<1>1. PICK a \in Threads : a = Active
  BY ActiveIsThread DEF IInv
<1>2. /\ thread' = [thread EXCEPT ![a].status = "closed", ![a + 1].status = "active"]
      /\ a < MaxThreads /\ Typed
      /\ UNCHANGED <<offer, parked, turn, sweep, made, excuse, standing, dropped, revived, turns,
                     calm, lock>>
  BY <1>1 DEF Turnover, IInv, ghosts, accounts, counts
<1>3. PICK c \in Threads : c = a + 1 /\ c # a
  BY <1>2, ConversationAssumption DEF Threads
<1>4. PICK old, new : /\ old = [thread[a] EXCEPT !.status = "closed"]
                      /\ new = [thread[c] EXCEPT !.status = "active"]
  OBVIOUS
<1>5. /\ old \in ThreadStates /\ old.meta = thread[a].meta
      /\ new \in ThreadStates /\ new.meta = thread[c].meta /\ new.status = "active"
  BY <1>2, <1>4 DEF Typed, ThreadStates
<1>6. thread \in [Threads -> ThreadStates]
  BY <1>2 DEF Typed
<1>7. thread' = [thread EXCEPT ![a] = old, ![c] = new]
  BY <1>2, <1>3, <1>4, <1>6
<1>8. \A t \in Threads : thread'[t] = IF t = c THEN new ELSE IF t = a THEN old ELSE thread[t]
  BY <1>6, <1>7
<1>9. /\ thread' \in [Threads -> ThreadStates] /\ thread'[c].status = "active"
      /\ \A t \in Threads : thread'[t].meta = thread[t].meta
  BY <1>5, <1>6, <1>7, <1>8
<1>10. \A t \in Threads : Meta(t)' = Meta(t)
  BY <1>9 DEF Meta
<1>11. /\ sweep' \in SweepStates /\ Slotted(sweep'.base) /\ calm' \in BOOLEAN
       /\ IF sweep'.pc = "idle" THEN sweep' = IdleSweep ELSE sweep'.th \in Threads
       /\ Pending(sweep'.base) \subseteq Of(sweep'.th)
  BY <1>2 DEF IInv, Typed, PlaceInv
<1>. QED
  BY <1>2, <1>3, <1>9, <1>10, <1>11, MetasKept

LEMMA SweepReadsStep ==
    ASSUME IInv, SweepReads
    PROVE  IInv'
<1>1. PICK a \in Threads : a = Active
  BY ActiveIsThread DEF IInv
<1>2. PICK m : m = Meta(a)
  OBVIOUS
<1>3. /\ sweep' = [pc |-> "write", th |-> a, base |-> m] /\ Typed
      /\ UNCHANGED <<thread, offer, parked, turn, made, excuse, standing, dropped, revived, turns,
                     calm, lock>>
  BY <1>1, <1>2 DEF SweepReads, IInv, ghosts, accounts, world
<1>4. m \in Metas /\ Slotted(m) /\ Pending(m) \subseteq Of(a)
  BY <1>2, ListedOf
<1>5. sweep' \in SweepStates /\ sweep'.pc = "write" /\ sweep'.th = a /\ sweep'.base = m
  BY <1>3, <1>4 DEF SweepStates
<1>6. /\ \A t \in Threads : Meta(t)' = Meta(t)
      /\ thread' \in [Threads -> ThreadStates] /\ \E t \in Threads : thread'[t].status = "active"
      /\ calm' \in BOOLEAN
  BY <1>3 DEF Meta, Typed
<1>. QED
  BY <1>3, <1>4, <1>5, <1>6, MetasKept

\* The sweep is over, or as it was; the lock may be lost.
LEMMA ListsKept ==
    ASSUME IInv,
           UNCHANGED <<thread, offer, parked, turn, made, excuse, standing, dropped, revived, turns>>,
           sweep' = sweep \/ sweep' = IdleSweep,
           calm' \in BOOLEAN, calm' => calm /\ lock' = lock
    PROVE  IInv'
<1>1. /\ \A t \in Threads : Meta(t)' = Meta(t)
      /\ thread' \in [Threads -> ThreadStates] /\ \E t \in Threads : thread'[t].status = "active"
  BY DEF Meta, IInv, Typed
<1>2. /\ sweep' \in SweepStates /\ Slotted(sweep'.base)
      /\ IF sweep'.pc = "idle" THEN sweep' = IdleSweep ELSE sweep'.th \in Threads
      /\ Pending(sweep'.base) \subseteq Of(sweep'.th)
  BY IdleSweepFacts, EmptyMetaFacts DEF IInv, Typed, PlaceInv
<1>. QED
  BY <1>1, <1>2, MetasKept

----------------------------------------------------------------------------
(* The theorems *)

LEMMA InitIInv ==
    ASSUME Init
    PROVE  IInv
<1>1. /\ turn = [n \in Turns |-> IdleTurn] /\ sweep = IdleSweep /\ parked = 0
      /\ \A n \in Turns : turn[n] = IdleTurn
      /\ \A t \in Threads : Meta(t) = EmptyMeta
      /\ \A o \in Offers : made[o] = 0 /\ excuse[o] = 0
      /\ standing = {} /\ revived = {}
  BY DEF Init, Meta
<1>2. Known = {} /\ Aired = {}
  BY <1>1 DEF Known, Aired
<1>3. /\ \A t \in Threads : Pending(Meta(t)) = {} /\ Slotted(Meta(t))
      /\ Listed = {}
  BY <1>1, EmptyMetaFacts DEF Listed
<1>4. Typed
  <2>1. 1 \in Threads /\ MaxOffers \in Nat
    BY ConversationAssumption DEF Threads
  <2>2. thread \in [Threads -> ThreadStates]
    BY EmptyMetaFacts DEF Init, ThreadStates
  <2>3. thread[1].status = "active"
    BY <2>1 DEF Init
  <2>4. offer \in [Offers -> OfferStates]
    BY DEF Init, OfferStates
  <2>5. /\ made \in [Offers -> Nat] /\ excuse \in [Offers -> Nat] /\ turns \in Nat
        /\ calm \in BOOLEAN
    BY DEF Init
  <2>6. parked \in 0..MaxOffers
    BY <1>1, <2>1
  <2>7. /\ turn \in [Turns -> TurnStates] /\ \A n \in Turns : Slotted(turn[n].base)
    BY <1>1, IdleTurnFacts, EmptyMetaFacts
  <2>8. sweep \in SweepStates /\ Slotted(sweep.base)
    BY <1>1, IdleSweepFacts, EmptyMetaFacts
  <2>. QED
    BY <1>1, <1>3, <2>1, <2>2, <2>3, <2>4, <2>5, <2>6, <2>7, <2>8 DEF Typed
<1>5. PlaceInv
  <2>1. ASSUME NEW n \in Turns PROVE CopyInv(n)
    BY <1>1, IdleTurnFacts, EmptyMetaFacts DEF CopyInv
  <2>2. \A n, m \in Turns : turn[n].fresh \cap turn[m].fresh = {}
    BY <1>1, IdleTurnFacts
  <2>3. Pending(sweep.base) = {} /\ sweep.pc = "idle"
    BY <1>1, IdleSweepFacts, EmptyMetaFacts
  <2>. QED
    BY <1>1, <1>3, <2>1, <2>2, <2>3 DEF PlaceInv
<1>6. MadeInv
  <2>1. \A n \in Turns, o \in Offers : ~First(n, o)
    BY <1>1, IdleTurnFacts, ConversationAssumption DEF First, Offers, NoOffer
  <2>. QED
    BY <1>1, <1>3, <2>1 DEF MadeInv
<1>7. CalmInv /\ MatchInv
  BY <1>1, <1>3, IdleTurnFacts DEF CalmInv, MatchInv
<1>. QED
  BY <1>4, <1>5, <1>6, <1>7 DEF IInv

LEMMA NextIInv ==
    ASSUME IInv, [Next]_vars
    PROVE  IInv'
<1>0. calm \in BOOLEAN
  BY DEF IInv, Typed
<1>1. CASE Answer
  BY <1>1, AnswerStep
<1>2. ASSUME NEW types \in SUBSET Types, Park(types) PROVE IInv'
  BY <1>2, ParkStep
<1>3. ASSUME NEW op \in {"probe", "override", "state"}, Touch(op) PROVE IInv'
  BY <1>3, TouchStep
<1>4. ASSUME NEW n \in Turns, Apply(n) PROVE IInv'
  BY <1>4, ApplyStep
<1>5. ASSUME NEW n \in Turns, ReadList(n) PROVE IInv'
  BY <1>5, ReadListStep
<1>6. ASSUME NEW n \in Turns, ReadMeta(n) PROVE IInv'
  BY <1>6, ReadMetaStep
<1>7. ASSUME NEW n \in Turns, WriteMeta(n) PROVE IInv'
  BY <1>7, WriteMetaStep
<1>8. ASSUME NEW n \in Turns, TurnDies(n) PROVE IInv'
  BY <1>8, TurnDiesStep
<1>9. ASSUME NEW idle \in BOOLEAN, Turnover(idle) PROVE IInv'
  BY <1>9, TurnoverStep
<1>10. CASE SweepReads
  BY <1>10, SweepReadsStep
<1>11. CASE SweepWrites
  BY <1>11, SweepWritesStep
<1>12. CASE LoseLock
  BY <1>12, ListsKept DEF LoseLock, world
<1>13. CASE SweepDies
  BY <1>0, <1>13, ListsKept DEF SweepDies, world, ghosts, accounts
<1>14. CASE Expire
  BY <1>0, <1>14, ListsKept DEF Expire, ghosts, accounts
<1>15. CASE Flip
  BY <1>0, <1>15, ListsKept DEF Flip, ghosts, accounts
<1>16. CASE UNCHANGED vars
  BY <1>0, <1>16, ListsKept DEF vars, world, ghosts, accounts, counts
<1>. QED
  BY <1>1, <1>2, <1>3, <1>4, <1>5, <1>6, <1>7, <1>8, <1>9, <1>10, <1>11, <1>12, <1>13, <1>14,
     <1>15, <1>16 DEF Next

\* The knowledge of every turn and of every copy of the metadata, in every reachable
\* state, turns that overlap after a lost lock included (withPerPrincipalTurnLock,
\* setThreadPendingProposals, attachPendingProbe): what the theorems below are read off.
THEOREM Invariance == Spec => []IInv
<1>1. Init => IInv
  BY InitIInv
<1>2. IInv /\ [Next]_vars => IInv'
  BY NextIInv
<1>. QED
  BY <1>1, <1>2, PTL DEF Spec

\* What the owner agreed to once is carried out once more only for a turn that died
\* between carrying it out and taking it out of the list, for an answer taken while a
\* turn that has lost the lock is still at the offer, or for an older list written back
\* after the answer; while no lock is lost, no turn dies and no sweep writes, it is
\* carried out once (executeResolutions, the confirm lanes, removePark, the turn lock).
THEOREM AgreedOnceDoneOnce == Spec => []AppliedOnce
<1>1. IInv => AppliedOnce
  BY DEF IInv, Typed, MadeInv, CalmInv, AppliedOnce
<1>. QED
  BY <1>1, Invariance, PTL

\* The lists say what the owner still has to answer, but for what a writer left out
\* that had read before it came, and for what an older list brought back, which takes
\* a sweep or a turn that works without the lock (setThreadPendingProposals and its
\* callers).
THEOREM ListsSayWhatIsOpen == Spec => []OffersMatchAnswers
<1>1. IInv => OffersMatchAnswers
  BY DEF IInv, CalmInv, MatchInv, Listed, OffersMatchAnswers
<1>. QED
  BY <1>1, Invariance, PTL
=============================================================================
