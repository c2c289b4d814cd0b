------------------------- MODULE GmailSyncProofs -------------------------
(***************************************************************************)
(* What the Gmail sensor's cursor promises, and its day's cap, for every   *)
(* number of overlapping ticks, messages and pages.                        *)
(*                                                                         *)
(* The cursor is a promise about everything below it, and the ticks that   *)
(* move it overlap. The invariant is therefore about what each tick may    *)
(* still promise: an incremental one has dealt with all up to its token    *)
(* but what is left of its page, which is all later than the id it would   *)
(* save; a bootstrap, listing downwards, with all between its token and    *)
(* the newest message there was when it began. No tick can break that of   *)
(* another, since what has been dealt with stays so.                       *)
(***************************************************************************)
EXTENDS GmailSync, FiniteSetTheorems, WellFoundedInduction, TLAPS

----------------------------------------------------------------------------
(* The inductive invariant *)

\* Messages no tick has to come back to.
Dealt == content \cup unsaved \cup bare \cup skipped \cup passed \cup OutOfInbox(kind, archived)

\* What is noted of a message is noted of one with an event.
NotedInv ==
    /\ unsaved \cup bare \subseteq events
    /\ \A m \in events : kind[m] # "other"

CursorInv == \A m \in 1..cursor : m \in Dealt

\* What tick k has dealt with and where it stands, given what is dealt with and
\* known, and the mailbox's newest message and history.
Incremental(k, dealt) ==
    /\ k.last <= k.token
    /\ \A m \in 1..k.token : m \in dealt \cup k.page
    /\ \A p \in k.page : k.last < p /\ p <= k.token
    /\ k.pc = "history" => k.page = {}

Listing(k, dealt) ==
    /\ k.last = 0
    /\ k.pc = "list" => k.token = 0 /\ k.page = {}
    /\ k.pc # "list" => k.token >= 1 /\ \A m \in k.token..k.start : m \in dealt \cup k.page

Working(k, known) ==
    /\ k.msg \in k.page /\ k.msg \in known
    /\ k.mode = "incremental" => \A p \in k.page : k.msg <= p

Sound(k, dealt, known, newest, records) ==
    /\ k.newest \in records \cup {0} /\ k.token <= newest
    /\ k.pc = "off" <=> k.mode = "none"
    /\ k.pc \in {"list", "profile"} => k.mode = "bootstrap"
    /\ k.pc = "history" => k.mode = "incremental"
    /\ k.mode = "incremental" => Incremental(k, dealt)
    /\ k.mode = "bootstrap" => Listing(k, dealt)
    /\ k.pc \in {"land", "persist"} => Working(k, known)

TickInv == \A t \in Ticks : Sound(tick[t], Dealt, events, Newest, ends)

\* The ticks that have counted the day's candidates and not landed theirs.
Landing == {t \in Ticks : tick[t].pc = "land"}

QuotaInv ==
    Cardinality(candidates) + Cardinality(Landing) <= DailyCap + Cardinality(Ticks) - 1

IInv == TypeOK /\ NotedInv /\ CursorInv /\ TickInv /\ QuotaInv
----------------------------------------------------------------------------
(* Facts about the operators *)

\* The greatest and the least of some numbers up to n.
LEMMA Greatest ==
    ASSUME NEW n \in Nat, NEW S \in SUBSET (0..n), S # {}
    PROVE  Max(S) \in S /\ \A y \in S : y <= Max(S)
<1> DEFINE Up(k) == k..n
           Ups == {Up(k) : k \in S}
<1>1. Ups \subseteq FiniteSubsetsOf(Nat) /\ Ups # {}
  <2>1. ASSUME NEW k \in S PROVE Up(k) \in FiniteSubsetsOf(Nat)
    <3>1. k \in Int /\ n \in Int /\ Up(k) \in SUBSET Nat
      OBVIOUS
    <3>2. IsFiniteSet(Up(k))
      BY <3>1, FS_Interval
    <3>. QED
      BY <3>1, <3>2 DEF FiniteSubsetsOf
  <2>. QED
    BY <2>1
<1>2. \E u \in Ups : \A v \in Ups : <<v, u>> \notin StrictSubsetOrdering(Nat)
  BY <1>1, WFMin, FS_StrictSubsetOrderingWellFounded, Zenon
<1>3. PICK x \in S : \A y \in S : <<Up(y), Up(x)>> \notin StrictSubsetOrdering(Nat)
  BY <1>2
<1>4. ASSUME NEW y \in S, x < y PROVE FALSE
  <2>1. Up(y) \subseteq Up(x) /\ Up(x) \in SUBSET Nat
    BY <1>4
  <2>2. x \in Up(x) /\ x \notin Up(y)
    BY <1>4
  <2>3. <<Up(y), Up(x)>> \in StrictSubsetOrdering(Nat)
    BY <2>1, <2>2 DEF StrictSubsetOrdering
  <2>. QED
    BY <1>3, <2>3
<1>5. \E z \in S : \A y \in S : z >= y
  BY <1>4
<1>6. Max(S) \in S /\ \A y \in S : Max(S) >= y
  BY <1>5, Zenon DEF Max
<1>. QED
  BY <1>6

LEMMA Least ==
    ASSUME NEW n \in Nat, NEW S \in SUBSET (0..n), S # {}
    PROVE  Min(S) \in S /\ \A y \in S : Min(S) <= y
<1> DEFINE Down(k) == 0..k
           Downs == {Down(k) : k \in S}
<1>1. Downs \subseteq FiniteSubsetsOf(Nat) /\ Downs # {}
  <2>1. ASSUME NEW k \in S PROVE Down(k) \in FiniteSubsetsOf(Nat)
    <3>1. k \in Int /\ 0 \in Int /\ Down(k) \in SUBSET Nat
      OBVIOUS
    <3>2. IsFiniteSet(Down(k))
      BY <3>1, FS_Interval
    <3>. QED
      BY <3>1, <3>2 DEF FiniteSubsetsOf
  <2>. QED
    BY <2>1
<1>2. \E u \in Downs : \A v \in Downs : <<v, u>> \notin StrictSubsetOrdering(Nat)
  BY <1>1, WFMin, FS_StrictSubsetOrderingWellFounded, Zenon
<1>3. PICK x \in S : \A y \in S : <<Down(y), Down(x)>> \notin StrictSubsetOrdering(Nat)
  BY <1>2
<1>4. ASSUME NEW y \in S, y < x PROVE FALSE
  <2>1. Down(y) \subseteq Down(x) /\ Down(x) \in SUBSET Nat
    BY <1>4
  <2>2. x \in Down(x) /\ x \notin Down(y)
    BY <1>4
  <2>3. <<Down(y), Down(x)>> \in StrictSubsetOrdering(Nat)
    BY <2>1, <2>2 DEF StrictSubsetOrdering
  <2>. QED
    BY <1>3, <2>3
<1>5. \E z \in S : \A y \in S : z <= y
  BY <1>4
<1>6. Min(S) \in S /\ \A y \in S : Min(S) <= y
  BY <1>5, Zenon DEF Min
<1>. QED
  BY <1>6

\* The mailbox's messages are numbered without a gap.
LEMMA Numbered ==
    ASSUME TypeOK
    PROVE  /\ Newest \in Nat /\ Newest >= 1 /\ Newest \in ends /\ Arrived = 1..Newest
           /\ ends \subseteq 1..Newest /\ cursor \in Nat /\ cursor <= Newest
BY GmailSyncAssumption DEF TypeOK, NoCursor

\* The next message of a page is one of it, and the first of an incremental one.
LEMMA NextOfPage ==
    ASSUME TypeOK, NEW t \in Ticks, tick[t].page # {}
    PROVE  /\ NextRef(t) \in tick[t].page
           /\ tick[t].mode # "bootstrap" => \A p \in tick[t].page : NextRef(t) <= p
<1>1. Newest \in Nat /\ Arrived = 1..Newest /\ tick[t].page \subseteq Arrived
  BY Numbered DEF TypeOK, Tick
<1>2. tick[t].page \in SUBSET (0..Newest)
  BY <1>1
<1>3. Max(tick[t].page) \in tick[t].page
  BY <1>1, <1>2, Greatest
<1>4. Min(tick[t].page) \in tick[t].page /\ \A p \in tick[t].page : Min(tick[t].page) <= p
  BY <1>1, <1>2, Least
<1>. QED
  BY <1>3, <1>4 DEF NextRef

\* A page of history ends within the mailbox, no earlier than it begins.
LEMMA HistoryPage ==
    ASSUME TypeOK, NEW t \in Ticks, tick[t].token <= Newest
    PROVE  PageEnd(t) \in Nat /\ tick[t].token <= PageEnd(t) /\ PageEnd(t) <= Newest
<1> DEFINE after == {e \in ends : e > tick[t].token}
           fits == {e \in after : Cardinality({d \in after : d <= e}) <= PageSize}
<1>1. /\ Newest \in Nat /\ after \in SUBSET (0..Newest) /\ fits \subseteq after
      /\ tick[t].token \in Nat /\ PageSize \in Nat /\ PageSize >= 1
  <2>1. Newest \in Nat /\ ends \subseteq 1..Newest
    BY Numbered
  <2>2. tick[t].token \in Nat
    BY DEF TypeOK, Tick
  <2>3. PageSize \in Nat /\ PageSize >= 1
    BY GmailSyncAssumption
  <2>4. ends \subseteq 0..Newest
    BY <2>1
  <2>5. after \in SUBSET (0..Newest) /\ fits \subseteq after
    BY <2>4
  <2>. QED
    BY <2>1, <2>2, <2>3, <2>5
<1>2. PageEnd(t) = IF after = {} THEN tick[t].token ELSE Max(fits)
  BY DEF PageEnd
<1>3. ASSUME after # {} PROVE fits # {}
  <2>1. PICK e \in after : \A y \in after : e <= y
    BY <1>1, <1>3, Least
  <2>2. {d \in after : d <= e} = {e}
    BY <1>1, <2>1
  <2>3. Cardinality({d \in after : d <= e}) = 1
    BY <2>2, FS_Singleton
  <2>. QED
    BY <1>1, <2>3
<1>4. ASSUME after # {} PROVE Max(fits) \in fits
  BY <1>1, <1>3, <1>4, Greatest
<1>5. CASE after = {}
  BY <1>1, <1>2, <1>5
<1>6. CASE after # {}
  <2>1. Max(fits) \in 0..Newest /\ Max(fits) > tick[t].token
    BY <1>1, <1>4, <1>6
  <2>2. PageEnd(t) = Max(fits)
    BY <1>2, <1>6
  <2>. QED
    BY <1>1, <2>1, <2>2
<1>. QED
  BY <1>5, <1>6

----------------------------------------------------------------------------
(* What a step leaves of the invariant *)

\* What a tick has dealt with stays dealt with.
LEMMA StillSound ==
    ASSUME NEW k, NEW d1, NEW d2, NEW e1, NEW e2, NEW n1 \in Nat, NEW n2 \in Nat,
           NEW r1, NEW r2, k.token \in Nat,
           d1 \subseteq d2, e1 \subseteq e2, n1 <= n2, r1 \subseteq r2,
           Sound(k, d1, e1, n1, r1)
    PROVE  Sound(k, d2, e2, n2, r2)
BY DEF Sound, Incremental, Listing, Working

\* A step of a tick's: the mailbox is as it was, and what was written stays.
Writes ==
    /\ UNCHANGED mailbox
    /\ events \subseteq events' /\ content \subseteq content' /\ skipped \subseteq skipped'
    /\ unsaved \subseteq unsaved' /\ passed \subseteq passed' /\ bare \subseteq bare'

LEMMA WritesKeep ==
    ASSUME Writes
    PROVE  /\ Arrived' = Arrived /\ Newest' = Newest /\ ends' = ends /\ Tick' = Tick
           /\ Dealt \subseteq Dealt'
BY DEF Writes, mailbox, Arrived, Newest, Tick, Dealt, OutOfInbox

\* What the invariant says of everything but the candidates' number.
Core == TypeOK /\ NotedInv /\ CursorInv /\ TickInv

LEMMA TickStep ==
    ASSUME Core, Writes, NEW t \in Ticks, NEW h \in Tick, tick' = [tick EXCEPT ![t] = h],
           Sound(h, Dealt', events', Newest, ends),
           events' \subseteq Arrived, candidates' \cup content' \cup unsaved' \cup bare' \subseteq events',
           skipped' \cup passed' \subseteq Arrived, \A m \in events' : kind[m] # "other",
           cursor' \in ends \cup {NoCursor}, \A m \in 1..cursor' : m \in Dealt',
           upsets' \in 0..MaxUpsets
    PROVE  Core'
<1>1. /\ Arrived' = Arrived /\ Newest' = Newest /\ ends' = ends /\ Tick' = Tick
      /\ Dealt \subseteq Dealt' /\ UNCHANGED mailbox /\ events \subseteq events'
  BY WritesKeep DEF Writes
<1>2. TypeOK'
  BY <1>1 DEF Core, TypeOK, mailbox
<1>3. NotedInv'
  BY <1>1 DEF NotedInv, mailbox
<1>4. CursorInv'
  BY DEF CursorInv
<1>5. TickInv'
  <2>1. ASSUME NEW u \in Ticks \ {t} PROVE Sound(tick[u], Dealt', events', Newest, ends)
    <3>1. Newest \in Nat /\ tick[u].token \in Nat
      BY Numbered DEF Core, TypeOK, Tick
    <3>2. Sound(tick[u], Dealt, events, Newest, ends)
      BY DEF Core, TickInv
    <3>. QED
      BY <1>1, <3>1, <3>2, StillSound
  <2>2. \A u \in Ticks : tick'[u] = IF u = t THEN h ELSE tick[u]
    BY DEF Core, TypeOK
  <2>3. \A u \in Ticks : Sound(tick'[u], Dealt', events', Newest', ends')
    BY <1>1, <2>1, <2>2
  <2>. QED
    BY <2>3 DEF TickInv
<1>. QED
  BY <1>2, <1>3, <1>4, <1>5 DEF Core

\* A tick that writes nothing.
LEMMA QuietStep ==
    ASSUME Core, NEW t \in Ticks, NEW h \in Tick, tick' = [tick EXCEPT ![t] = h],
           UNCHANGED <<mailbox, cursor, store, trail>>, upsets' \in 0..MaxUpsets,
           Sound(h, Dealt, events, Newest, ends)
    PROVE  Core'
<1>1. Writes /\ Dealt' = Dealt
  BY DEF Writes, store, trail, mailbox, Dealt, OutOfInbox
<1>2. /\ candidates \cup content \cup unsaved \cup bare \subseteq events /\ events \subseteq Arrived
      /\ skipped \cup passed \subseteq Arrived /\ \A m \in events : kind[m] # "other"
      /\ cursor \in ends \cup {NoCursor} /\ \A m \in 1..cursor : m \in Dealt
  BY DEF Core, TypeOK, NotedInv, CursorInv
<1>3. /\ events' = events /\ candidates' = candidates /\ content' = content /\ unsaved' = unsaved
      /\ bare' = bare /\ skipped' = skipped /\ passed' = passed /\ cursor' = cursor
  BY DEF store, trail
<1>. QED
  BY <1>1, <1>2, <1>3, TickStep

\* A step of a tick's that adds no candidate and does not count them.
LEMMA QuotaKept ==
    ASSUME IInv, NEW t \in Ticks, NEW h, tick' = [tick EXCEPT ![t] = h], h.pc # "land",
           UNCHANGED candidates
    PROVE  QuotaInv'
<1>1. Landing' \subseteq Landing
  BY DEF Landing, IInv, TypeOK
<1>2. IsFiniteSet(Landing)
  BY GmailSyncAssumption, FS_Subset DEF Landing
<1>3. Cardinality(Landing') <= Cardinality(Landing) /\ IsFiniteSet(Landing')
  BY <1>1, <1>2, FS_Subset
<1>4. IsFiniteSet(candidates)
  <2>1. IsFiniteSet(1..Newest)
    BY Numbered, FS_Interval DEF IInv
  <2>. QED
    BY <2>1, FS_Subset DEF IInv, TypeOK
<1>5. /\ Cardinality(Landing) \in Nat /\ Cardinality(Landing') \in Nat
      /\ Cardinality(candidates) \in Nat /\ Cardinality(Ticks) \in Nat /\ DailyCap \in Nat
  BY <1>2, <1>3, <1>4, FS_CardinalityType, GmailSyncAssumption
<1>6. Cardinality(candidates)' = Cardinality(candidates)
  OBVIOUS
<1>. QED
  BY <1>3, <1>5, <1>6 DEF IInv, QuotaInv

LEMMA UpsetBound ==
    ASSUME TypeOK, Upset \/ UNCHANGED upsets
    PROVE  upsets' \in 0..MaxUpsets
BY GmailSyncAssumption DEF TypeOK, Upset

----------------------------------------------------------------------------
(* The steps of a tick *)

\* What is known of a tick.
LEMMA TickFields ==
    ASSUME Core, NEW t \in Ticks
    PROVE  /\ tick \in [Ticks -> Tick] /\ tick[t] \in Tick /\ tick[t].token \in Nat
           /\ tick[t].page \subseteq 1..Newest /\ Newest \in Nat
           /\ Sound(tick[t], Dealt, events, Newest, ends)
BY Numbered DEF Core, TypeOK, Tick, TickInv

LEMMA OffIsSound ==
    ASSUME Core
    PROVE  /\ Off \in Tick /\ Sound(Off, Dealt, events, Newest, ends)
           /\ Bootstrap \in Tick /\ Sound(Bootstrap, Dealt, events, Newest, ends)
<1>1. 0 \in 0..Cap /\ Newest \in Nat
  BY GmailSyncAssumption, Numbered DEF Core
<1>2. Off \in Tick
  BY <1>1 DEF Off, Tick, NoMessage
<1>3. /\ Bootstrap.pc = "list" /\ Bootstrap.mode = "bootstrap" /\ Bootstrap.token = 0
      /\ Bootstrap.page = {} /\ Bootstrap.newest = 0 /\ Bootstrap.last = 0
  BY DEF Bootstrap, Off
<1>4. Bootstrap \in Tick
  BY <1>2 DEF Bootstrap, Tick
<1>5. Sound(Off, Dealt, events, Newest, ends)
  BY <1>1 DEF Off, Sound
<1>6. Sound(Bootstrap, Dealt, events, Newest, ends)
  BY <1>1, <1>3 DEF Sound, Listing
<1>. QED
  BY <1>2, <1>4, <1>5, <1>6

LEMMA BeginStep ==
    ASSUME IInv, NEW t \in Ticks, Begin(t)
    PROVE  IInv'
<1>1. /\ Core /\ upsets' \in 0..MaxUpsets
      /\ UNCHANGED <<mailbox, cursor, store, trail>> /\ UNCHANGED candidates
  BY UpsetBound DEF Begin, IInv, Core, store
<1>2. CASE cursor = NoCursor
  <2>1. tick' = [tick EXCEPT ![t] = Bootstrap] /\ Bootstrap.pc # "land"
    BY <1>2 DEF Begin, Bootstrap, Off
  <2>. QED
    BY <1>1, <2>1, OffIsSound, QuietStep, QuotaKept DEF IInv, Core
<1>3. CASE cursor # NoCursor
  <2> DEFINE h == [Off EXCEPT !.pc = "history", !.mode = "incremental",
                              !.start = cursor, !.token = cursor, !.last = cursor]
  <2>1. tick' = [tick EXCEPT ![t] = h]
    BY <1>3 DEF Begin
  <2>2. /\ h.pc = "history" /\ h.mode = "incremental" /\ h.token = cursor /\ h.last = cursor
        /\ h.page = {} /\ h.newest = 0
    BY DEF Off
  <2>3. /\ cursor \in ends /\ cursor \in Nat /\ cursor <= Newest /\ 0 \in 0..Cap
        /\ \A m \in 1..cursor : m \in Dealt
    BY <1>1, <1>3, Numbered, GmailSyncAssumption DEF Core, TypeOK, CursorInv
  <2>4. h \in Tick
    BY <1>1, <2>3, OffIsSound DEF Tick
  <2> HIDE DEF h
  <2>5. Sound(h, Dealt, events, Newest, ends)
    BY <2>2, <2>3 DEF Sound, Incremental
  <2>. QED
    BY <1>1, <2>1, <2>2, <2>4, <2>5, QuietStep, QuotaKept DEF IInv, Core
<1>. QED
  BY <1>2, <1>3

LEMMA AbortStep ==
    ASSUME IInv, NEW t \in Ticks, Abort(t)
    PROVE  IInv'
<1>1. /\ Core /\ upsets' \in 0..MaxUpsets /\ tick' = [tick EXCEPT ![t] = Off]
      /\ UNCHANGED <<mailbox, cursor, store, trail>> /\ UNCHANGED candidates
      /\ Off.pc # "land"
  BY UpsetBound DEF Abort, IInv, Core, store, Off
<1>. QED
  BY <1>1, OffIsSound, QuietStep, QuotaKept DEF IInv, Core

LEMMA ListStep ==
    ASSUME IInv, NEW t \in Ticks, List(t)
    PROVE  IInv'
<1> DEFINE k == tick[t]
           first == k.token = 0
           above == IF first THEN Newest + 1 ELSE k.token
           low == IF above > PageSize THEN above - PageSize ELSE 1
           newest == IF first THEN Newest ELSE k.start
           h == [k EXCEPT !.pc = "profile", !.page = low..(above - 1), !.token = low,
                          !.start = newest]
<1>1. /\ Core /\ upsets' \in 0..MaxUpsets /\ UNCHANGED <<mailbox, cursor, store, trail>>
      /\ UNCHANGED candidates
  BY UpsetBound DEF List, IInv, Core, store
<1>2. /\ k \in Tick /\ tick \in [Ticks -> Tick] /\ k.token \in Nat /\ k.token <= Newest
      /\ k.start \in Nat /\ Newest \in Nat /\ Newest >= 1 /\ Arrived = 1..Newest
      /\ Sound(k, Dealt, events, Newest, ends)
  BY <1>1, TickFields, Numbered DEF Core, Tick, Sound
<1>3. /\ k.mode = "bootstrap" /\ k.last = 0
      /\ \/ k.pc = "list"
         \/ k.pc = "take" /\ k.page = {} /\ k.token > 1
  <2>1. CASE k.pc = "list"
    BY <1>2, <2>1 DEF Sound, Listing
  <2>2. CASE TurnsPage(t, "bootstrap")
    BY <1>2, <2>2 DEF TurnsPage, PageDone, MorePages, Sound, Listing
  <2>. QED
    BY <2>1, <2>2 DEF List
<1>4. /\ first => k.pc = "list"
      /\ ~first => /\ k.token > 1 /\ k.pc = "take"
                   /\ \A m \in k.token..k.start : m \in Dealt
  BY <1>1, <1>2, <1>3 DEF Sound, Listing
<1>5. PageSize \in Nat /\ PageSize >= 1
  BY GmailSyncAssumption
<1>6. /\ above \in Nat /\ above >= 2 /\ above <= Newest + 1
      /\ low \in Nat /\ low >= 1 /\ low < above /\ newest \in Nat
      /\ low..(above - 1) \subseteq 1..Newest
  BY <1>2, <1>4, <1>5
<1>7. \A m \in low..newest : m \in Dealt \cup (low..(above - 1))
  BY <1>2, <1>4, <1>6
<1>8. tick' = [tick EXCEPT ![t] = h]
  BY <1>2 DEF List
<1>9. /\ h.pc = "profile" /\ h.mode = "bootstrap" /\ h.page = low..(above - 1) /\ h.token = low
      /\ h.start = newest /\ h.last = 0 /\ h.newest = k.newest
  BY <1>2, <1>3 DEF Tick
<1>10. h \in Tick
  BY <1>2, <1>6 DEF Tick
<1> HIDE DEF h, low, above, newest, first
<1>11. Sound(h, Dealt, events, Newest, ends)
  BY <1>2, <1>6, <1>7, <1>9 DEF Sound, Listing
<1>. QED
  BY <1>1, <1>8, <1>9, <1>10, <1>11, QuietStep, QuotaKept DEF IInv, Core

LEMMA HistoryStep ==
    ASSUME IInv, NEW t \in Ticks, History(t)
    PROVE  IInv'
<1> DEFINE k == tick[t]
           h == [k EXCEPT !.pc = "take", !.page = (k.token + 1)..PageEnd(t),
                          !.token = PageEnd(t), !.newest = Newest]
<1>1. /\ Core /\ upsets' \in 0..MaxUpsets /\ UNCHANGED <<mailbox, cursor, store, trail>>
      /\ UNCHANGED candidates
  BY UpsetBound DEF History, IInv, Core, store
<1>2. CASE k.start < horizon
  <2>1. tick' = [tick EXCEPT ![t] = Bootstrap] /\ Bootstrap.pc # "land"
    BY <1>2 DEF History, Bootstrap, Off
  <2>. QED
    BY <1>1, <2>1, OffIsSound, QuietStep, QuotaKept DEF IInv, Core
<1>3. CASE ~(k.start < horizon)
  <2>1. /\ k \in Tick /\ tick \in [Ticks -> Tick] /\ k.token \in Nat /\ k.token <= Newest
        /\ Newest \in Nat /\ Newest \in ends /\ Arrived = 1..Newest /\ ends \subseteq 1..Newest
        /\ k.last \in Nat /\ Sound(k, Dealt, events, Newest, ends)
    BY <1>1, TickFields, Numbered DEF Core, Tick, Sound
  <2>2. k.mode = "incremental" /\ k.page = {}
    BY <2>1 DEF History, TurnsPage, PageDone, Sound, Incremental
  <2>3. k.last <= k.token /\ \A m \in 1..k.token : m \in Dealt
    BY <2>1, <2>2 DEF Sound, Incremental
  <2>4. PageEnd(t) \in Nat /\ k.token <= PageEnd(t) /\ PageEnd(t) <= Newest
    BY <1>1, <2>1, HistoryPage DEF Core
  <2>5. tick' = [tick EXCEPT ![t] = h]
    BY <1>3, <2>1 DEF History
  <2>6. /\ h.pc = "take" /\ h.mode = "incremental" /\ h.page = (k.token + 1)..PageEnd(t)
        /\ h.token = PageEnd(t) /\ h.newest = Newest /\ h.last = k.last
    BY <2>1, <2>2 DEF Tick
  <2>7. h \in Tick
    <3>1. (k.token + 1)..PageEnd(t) \subseteq Arrived /\ Newest \in Arrived
      BY <2>1, <2>4
    <3>. QED
      BY <2>1, <2>4, <3>1 DEF Tick
  <2> HIDE DEF h
  <2>8. \A m \in 1..PageEnd(t) : m \in Dealt \cup ((k.token + 1)..PageEnd(t))
    BY <2>1, <2>3, <2>4
  <2>9. Incremental(h, Dealt)
    BY <2>1, <2>3, <2>4, <2>6, <2>8 DEF Incremental
  <2>10. Sound(h, Dealt, events, Newest, ends)
    BY <2>1, <2>4, <2>6, <2>9 DEF Sound
  <2>. QED
    BY <1>1, <2>5, <2>6, <2>7, <2>10, QuietStep, QuotaKept DEF IInv, Core
<1>. QED
  BY <1>2, <1>3

LEMMA ProfileStep ==
    ASSUME IInv, NEW t \in Ticks, Profile(t)
    PROVE  IInv'
<1> DEFINE k == tick[t]
           h == [k EXCEPT !.pc = "take", !.newest = Newest, !.page = Unknown(@)]
<1>1. /\ Core /\ upsets' \in 0..MaxUpsets /\ Writes /\ UNCHANGED candidates
      /\ UNCHANGED <<mailbox, cursor, store, skipped, unsaved, passed>>
      /\ bare' = bare \cup ((k.page \cap events) \ content)
  BY UpsetBound DEF Profile, IInv, Core, store, Writes
<1>2. /\ k \in Tick /\ tick \in [Ticks -> Tick] /\ Newest \in ends /\ ends \subseteq 1..Newest
      /\ Newest \in Nat /\ Arrived = 1..Newest /\ Sound(k, Dealt, events, Newest, ends)
  BY <1>1, TickFields, Numbered DEF Core
<1>3. k.pc = "profile" /\ k.mode = "bootstrap"
  BY <1>2 DEF Profile, Sound
<1>4. tick' = [tick EXCEPT ![t] = h]
  BY <1>2 DEF Profile
<1>5. /\ h.pc = "take" /\ h.mode = "bootstrap" /\ h.page = k.page \ events /\ h.token = k.token
      /\ h.newest = Newest /\ h.last = k.last /\ h.start = k.start
  BY <1>2, <1>3 DEF Tick, Unknown
<1>6. h \in Tick
  BY <1>2 DEF Tick, Unknown
<1> HIDE DEF h
<1>7. Dealt \subseteq Dealt' /\ k.page \cap events \subseteq Dealt'
  BY <1>1, WritesKeep DEF Dealt, store
<1>8. Sound(h, Dealt', events', Newest, ends)
  <2>1. Listing(k, Dealt) /\ k.token <= Newest
    BY <1>2, <1>3 DEF Sound
  <2>2. Listing(h, Dealt')
    BY <1>3, <1>5, <1>7, <2>1 DEF Listing
  <2>. QED
    BY <1>2, <1>5, <2>1, <2>2 DEF Sound
<1>9. /\ events' = events /\ candidates' = candidates /\ content' = content
      /\ unsaved' = unsaved /\ skipped' = skipped /\ passed' = passed /\ cursor' = cursor
  BY <1>1 DEF store
<1>10. /\ candidates \cup content \cup unsaved \cup bare' \subseteq events
       /\ events \subseteq Arrived /\ skipped \cup passed \subseteq Arrived
       /\ (\A m \in events : kind[m] # "other") /\ cursor \in ends \cup {NoCursor}
       /\ \A m \in 1..cursor : m \in Dealt
  BY <1>1 DEF Core, TypeOK, NotedInv, CursorInv
<1>11. /\ candidates' \cup content' \cup unsaved' \cup bare' \subseteq events'
       /\ events' \subseteq Arrived /\ skipped' \cup passed' \subseteq Arrived
       /\ (\A m \in events' : kind[m] # "other") /\ cursor' \in ends \cup {NoCursor}
       /\ \A m \in 1..cursor' : m \in Dealt'
  BY <1>7, <1>9, <1>10
<1>12. Core'
  BY <1>1, <1>4, <1>6, <1>8, <1>11, TickStep
<1>. QED
  BY <1>1, <1>4, <1>5, <1>12, QuotaKept DEF IInv, Core

\* A tick that is done with the message it was at goes on with its page.
LEMMA DoneIsSound ==
    ASSUME Core, NEW t \in Ticks, NEW m \in tick[t].page, Done(t, m),
           tick[t].pc \in {"take", "land", "persist"},
           tick[t].mode = "incremental" => \A p \in tick[t].page : m <= p,
           tick[t].msg = m \/ tick[t].fetched < Cap,
           NEW dealt, Dealt \cup {m} \subseteq dealt, NEW known
    PROVE  \E h \in Tick : /\ tick' = [tick EXCEPT ![t] = h] /\ h.pc = "take"
                           /\ Sound(h, dealt, known, Newest, ends)
<1> DEFINE k == tick[t]
           fetched == IF k.msg = m THEN k.fetched ELSE k.fetched + 1
           last == IF k.mode = "incremental" /\ m \in ends THEN m ELSE k.last
           h == [k EXCEPT !.pc = "take", !.page = k.page \ {m}, !.msg = NoMessage,
                          !.fetched = fetched, !.last = last]
<1>1. /\ k \in Tick /\ tick \in [Ticks -> Tick] /\ Newest \in Nat /\ k.page \subseteq 1..Newest
      /\ k.token \in Nat /\ k.last \in Nat /\ Sound(k, Dealt, events, Newest, ends)
  BY TickFields, Numbered DEF Core, Tick
<1>2. tick' = [tick EXCEPT ![t] = h]
  BY <1>1 DEF Done
<1>3. /\ h.pc = "take" /\ h.mode = k.mode /\ h.page = k.page \ {m} /\ h.token = k.token
      /\ h.newest = k.newest /\ h.last = last /\ h.start = k.start
  BY <1>1 DEF Tick
<1>4. h \in Tick
  <2>1. fetched \in 0..Cap
    BY <1>1, GmailSyncAssumption DEF Tick
  <2>2. last \in ends \cup {0}
    BY <1>1 DEF Tick
  <2>. QED
    BY <1>1, <2>1, <2>2 DEF Tick, NoMessage
<1> HIDE DEF h
<1>5. k.mode = "incremental" => Incremental(h, dealt)
  <2> SUFFICES ASSUME k.mode = "incremental" PROVE Incremental(h, dealt)
    OBVIOUS
  <2>1. /\ k.last <= k.token /\ \A q \in 1..k.token : q \in Dealt \cup k.page
        /\ \A p \in k.page : k.last < p /\ p <= k.token
    BY <1>1 DEF Sound, Incremental
  <2>2. last <= k.token /\ \A p \in k.page \ {m} : last < p
    BY <1>1, <2>1
  <2>. QED
    BY <1>3, <2>1, <2>2 DEF Incremental
<1>6. k.mode = "bootstrap" => Listing(h, dealt)
  <2> SUFFICES ASSUME k.mode = "bootstrap" PROVE Listing(h, dealt)
    OBVIOUS
  <2>1. /\ k.last = 0 /\ k.token >= 1
        /\ \A q \in k.token..k.start : q \in Dealt \cup k.page
    BY <1>1 DEF Sound, Listing
  <2>. QED
    BY <1>3, <2>1 DEF Listing
<1>7. k.newest \in ends \cup {0} /\ k.token <= Newest /\ k.mode # "none"
  BY <1>1 DEF Sound
<1>8. Sound(h, dealt, known, Newest, ends)
  BY <1>3, <1>5, <1>6, <1>7 DEF Sound
<1>. QED
  BY <1>2, <1>3, <1>4, <1>8

\* What a tick that can fetch knows of the next message.
LEMMA NextIsLeft ==
    ASSUME Core, NEW t \in Ticks, CanFetch(t)
    PROVE  /\ NextRef(t) \in tick[t].page /\ NextRef(t) \in Arrived
           /\ tick[t].pc = "take" /\ tick[t].fetched < Cap
           /\ tick[t].mode = "incremental" => \A p \in tick[t].page : NextRef(t) <= p
<1>1. tick[t].page # {} /\ tick[t].page \subseteq Arrived
  BY TickFields, Numbered DEF CanFetch, Core
<1>. QED
  BY <1>1, NextOfPage DEF CanFetch, Core

\* What the invariant says of the cursor and of what is written.
LEMMA Written ==
    ASSUME Core
    PROVE  /\ candidates \cup content \cup unsaved \cup bare \subseteq events
           /\ events \subseteq Arrived /\ skipped \cup passed \subseteq Arrived
           /\ \A m \in events : kind[m] # "other"
           /\ cursor \in ends \cup {NoCursor} /\ \A m \in 1..cursor : m \in Dealt
BY DEF Core, TypeOK, NotedInv, CursorInv

LEMMA FetchFailsStep ==
    ASSUME IInv, NEW t \in Ticks, FetchFails(t)
    PROVE  IInv'
<1> DEFINE m == NextRef(t)
<1>1. /\ Core /\ upsets' \in 0..MaxUpsets /\ Writes /\ Done(t, m) /\ CanFetch(t)
      /\ skipped' = skipped \cup {m} /\ cursor' = cursor /\ events' = events
      /\ candidates' = candidates /\ content' = content /\ unsaved' = unsaved
      /\ passed' = passed /\ bare' = bare
  BY UpsetBound DEF FetchFails, IInv, Core, store, Writes
<1>2. /\ m \in tick[t].page /\ m \in Arrived /\ tick[t].pc = "take" /\ tick[t].fetched < Cap
      /\ tick[t].mode = "incremental" => \A p \in tick[t].page : m <= p
  BY <1>1, NextIsLeft
<1> HIDE DEF m
<1>3. Dealt \cup {m} \subseteq Dealt'
  BY <1>1, WritesKeep DEF Dealt
<1>4. PICK h \in Tick : /\ tick' = [tick EXCEPT ![t] = h] /\ h.pc = "take"
                        /\ Sound(h, Dealt', events', Newest, ends)
  BY <1>1, <1>2, <1>3, DoneIsSound
<1>5. skipped' \cup passed' \subseteq Arrived /\ \A q \in 1..cursor' : q \in Dealt'
  BY <1>1, <1>2, <1>3, Written
<1>6. Core'
  BY <1>1, <1>4, <1>5, Written, TickStep
<1>. QED
  BY <1>1, <1>4, <1>6, QuotaKept DEF IInv, Core

\* A tick that is through with a message it had fetched.
LEMMA PersistingStep ==
    ASSUME IInv, NEW t \in Ticks, tick[t].pc = "persist", Done(t, tick[t].msg),
           Writes, cursor' = cursor, events' = events, candidates' = candidates,
           skipped' = skipped, passed' = passed, bare' = bare, upsets' \in 0..MaxUpsets,
           content' \cup unsaved' = content \cup unsaved \cup {tick[t].msg}
    PROVE  IInv'
<1> DEFINE m == tick[t].msg
<1>1. Core /\ UNCHANGED candidates
  BY DEF IInv, Core
<1>2. /\ m \in tick[t].page /\ m \in events
      /\ tick[t].mode = "incremental" => \A p \in tick[t].page : m <= p
  BY <1>1, TickFields DEF Sound, Working
<1>3. Dealt \cup {m} \subseteq Dealt'
  BY <1>1, WritesKeep DEF Dealt
<1>4. PICK h \in Tick : /\ tick' = [tick EXCEPT ![t] = h] /\ h.pc = "take"
                        /\ Sound(h, Dealt', events', Newest, ends)
  BY <1>1, <1>2, <1>3, DoneIsSound
<1>5. /\ candidates' \cup content' \cup unsaved' \cup bare' \subseteq events'
      /\ \A q \in 1..cursor' : q \in Dealt'
  BY <1>1, <1>2, <1>3, Written
<1>6. Core'
  BY <1>1, <1>4, <1>5, Written, TickStep
<1>. QED
  BY <1>1, <1>4, <1>6, QuotaKept DEF IInv, Core

LEMMA PersistStep ==
    ASSUME IInv, NEW t \in Ticks, Persist(t)
    PROVE  IInv'
<1>1. /\ upsets' \in 0..MaxUpsets /\ Writes /\ cursor' = cursor /\ events' = events
      /\ candidates' = candidates /\ skipped' = skipped /\ passed' = passed /\ bare' = bare
      /\ content' \cup unsaved' = content \cup unsaved \cup {tick[t].msg}
  BY UpsetBound DEF Persist, IInv, trail, Writes
<1>. QED
  BY <1>1, PersistingStep DEF Persist

LEMMA PersistFailsStep ==
    ASSUME IInv, NEW t \in Ticks, PersistFails(t)
    PROVE  IInv'
<1>1. /\ upsets' \in 0..MaxUpsets /\ Writes /\ cursor' = cursor /\ events' = events
      /\ candidates' = candidates /\ skipped' = skipped /\ passed' = passed /\ bare' = bare
      /\ content' \cup unsaved' = content \cup unsaved \cup {tick[t].msg}
  BY UpsetBound DEF PersistFails, IInv, store, Writes
<1>. QED
  BY <1>1, PersistingStep DEF PersistFails

\* A step after which the day's cap is exceeded by no more than one each.
LEMMA FetchQuota ==
    ASSUME IInv, NEW t \in Ticks, UnderDailyCap, UNCHANGED candidates
    PROVE  QuotaInv'
<1>1. Landing' \subseteq Ticks
  BY DEF Landing
<1>2. Cardinality(Landing') <= Cardinality(Ticks) /\ IsFiniteSet(Landing')
  BY <1>1, FS_Subset, GmailSyncAssumption
<1>3. Cardinality(candidates) < DailyCap
  BY DEF UnderDailyCap
<1>4. IsFiniteSet(candidates)
  <2>1. IsFiniteSet(1..Newest) /\ candidates \subseteq 1..Newest
    BY Numbered, FS_Interval DEF IInv, TypeOK
  <2>. QED
    BY <2>1, FS_Subset
<1>5. /\ Cardinality(Landing') \in Nat /\ Cardinality(candidates) \in Nat
      /\ Cardinality(Ticks) \in Nat /\ DailyCap \in Nat
  BY <1>2, <1>4, FS_CardinalityType, GmailSyncAssumption
<1>6. Cardinality(candidates)' = Cardinality(candidates)
  OBVIOUS
<1>. QED
  BY <1>2, <1>3, <1>5, <1>6 DEF QuotaInv

LEMMA FetchStep ==
    ASSUME IInv, NEW t \in Ticks, Fetch(t)
    PROVE  IInv'
<1> DEFINE k == tick[t]
           m == NextRef(t)
<1>1. /\ Core /\ CanFetch(t) /\ upsets' \in 0..MaxUpsets /\ UNCHANGED mailbox
      /\ cursor' = cursor /\ candidates' = candidates /\ content' = content
      /\ skipped' = skipped /\ unsaved' = unsaved /\ passed' = passed /\ bare' = bare
  BY UpsetBound DEF Fetch, IInv, Core, trail
<1>2. /\ m \in k.page /\ m \in Arrived /\ k.pc = "take" /\ k.fetched < Cap
      /\ k.mode = "incremental" => \A p \in k.page : m <= p
  BY <1>1, NextIsLeft
<1>3. CASE m \in OutOfInbox(kind, archived)
  <2>1. Done(t, m) /\ events' = events
    BY <1>3 DEF Fetch
  <2>2. Writes /\ Dealt' = Dealt /\ m \in Dealt
    BY <1>1, <1>3, <2>1 DEF Writes, mailbox, Dealt, OutOfInbox
  <2> HIDE DEF m
  <2>3. PICK h \in Tick : /\ tick' = [tick EXCEPT ![t] = h] /\ h.pc = "take"
                          /\ Sound(h, Dealt', events', Newest, ends)
    BY <1>1, <1>2, <2>1, <2>2, DoneIsSound
  <2>4. Core'
    BY <1>1, <2>1, <2>2, <2>3, Written, TickStep
  <2>. QED
    BY <1>1, <2>3, <2>4, QuotaKept DEF IInv, Core
<1>4. CASE m \notin OutOfInbox(kind, archived)
  <2> DEFINE due == Extracts(m) /\ UnderDailyCap
             pc == IF due THEN "land" ELSE "persist"
             h == [k EXCEPT !.pc = pc, !.msg = m, !.fetched = @ + 1]
  <2>1. events' = events \cup {m}
    BY <1>4 DEF Fetch, Accept
  <2>2. Writes /\ Dealt' = Dealt
    BY <1>1, <2>1 DEF Writes, mailbox, Dealt, OutOfInbox
  <2>3. /\ k \in Tick /\ tick \in [Ticks -> Tick] /\ Sound(k, Dealt, events, Newest, ends)
    BY <1>1, TickFields
  <2>4. tick' = [tick EXCEPT ![t] = h]
    BY <1>4, <2>3 DEF Fetch
  <2>5. /\ h.pc = pc /\ h.mode = k.mode /\ h.page = k.page /\ h.token = k.token
        /\ h.newest = k.newest /\ h.last = k.last /\ h.start = k.start /\ h.msg = m
        /\ pc \in {"land", "persist"}
    BY <2>3 DEF Tick
  <2>6. h \in Tick
    <3>1. k.fetched + 1 \in 0..Cap
      BY <1>2, <2>3, GmailSyncAssumption DEF Tick
    <3>. QED
      BY <1>2, <2>3, <2>5, <3>1 DEF Tick
  <2>7. kind[m] # "other"
    BY <1>2, <1>4 DEF OutOfInbox, Arrived
  <2>8. due => UnderDailyCap
    OBVIOUS
  <2>9. pc = "land" => UnderDailyCap
    OBVIOUS
  <2> HIDE DEF h, m, pc, due
  <2>10. Sound(h, Dealt, events', Newest, ends)
    <3>1. k.newest \in ends \cup {0} /\ k.token <= Newest /\ k.mode # "none"
      BY <1>2, <2>3 DEF Sound
    <3>2. k.mode = "incremental" => Incremental(h, Dealt)
      BY <1>2, <2>3, <2>5 DEF Sound, Incremental
    <3>3. k.mode = "bootstrap" => Listing(h, Dealt)
      BY <1>2, <2>3, <2>5 DEF Sound, Listing
    <3>4. Working(h, events')
      BY <1>2, <2>1, <2>5 DEF Working
    <3>. QED
      BY <2>5, <3>1, <3>2, <3>3, <3>4 DEF Sound
  <2>11. /\ candidates' \cup content' \cup unsaved' \cup bare' \subseteq events'
         /\ events' \subseteq Arrived /\ skipped' \cup passed' \subseteq Arrived
         /\ (\A q \in events' : kind[q] # "other") /\ cursor' \in ends \cup {NoCursor}
         /\ \A q \in 1..cursor' : q \in Dealt'
    BY <1>1, <1>2, <2>1, <2>2, <2>7, Written
  <2>12. Core'
    BY <1>1, <2>2, <2>4, <2>6, <2>10, <2>11, TickStep
  <2>13. QuotaInv'
    <3>1. CASE pc = "land"
      BY <1>1, <2>9, <3>1, FetchQuota
    <3>2. CASE pc = "persist"
      BY <1>1, <2>4, <2>5, <3>2, QuotaKept
    <3>. QED
      BY <2>5, <3>1, <3>2
  <2>. QED
    BY <2>12, <2>13 DEF IInv, Core
<1>. QED
  BY <1>3, <1>4

LEMMA LandStep ==
    ASSUME IInv, NEW t \in Ticks, Land(t)
    PROVE  IInv'
<1> DEFINE k == tick[t]
           m == k.msg
           h == [k EXCEPT !.pc = "persist"]
<1>1. /\ Core /\ k.pc = "land" /\ upsets' \in 0..MaxUpsets /\ Writes
      /\ candidates' = candidates \cup {m} /\ cursor' = cursor /\ events' = events
      /\ content' = content /\ skipped' = skipped /\ unsaved' = unsaved
      /\ passed' = passed /\ bare' = bare
  BY UpsetBound DEF Land, IInv, Core, trail, Writes
<1>2. /\ k \in Tick /\ tick \in [Ticks -> Tick] /\ Sound(k, Dealt, events, Newest, ends)
  BY <1>1, TickFields
<1>3. tick' = [tick EXCEPT ![t] = h]
  BY <1>2 DEF Land
<1>4. /\ h.pc = "persist" /\ h.mode = k.mode /\ h.page = k.page /\ h.token = k.token
      /\ h.newest = k.newest /\ h.last = k.last /\ h.start = k.start /\ h.msg = m
  BY <1>2 DEF Tick
<1>5. h \in Tick
  BY <1>2 DEF Tick
<1> HIDE DEF h
<1>6. Working(k, events) /\ m \in events
  BY <1>1, <1>2 DEF Sound, Working
<1>7. Sound(h, Dealt, events, Newest, ends)
  <2>1. k.newest \in ends \cup {0} /\ k.token <= Newest /\ k.mode # "none"
    BY <1>1, <1>2 DEF Sound
  <2>2. k.mode = "incremental" => Incremental(h, Dealt)
    BY <1>1, <1>2, <1>4 DEF Sound, Incremental
  <2>3. k.mode = "bootstrap" => Listing(h, Dealt)
    BY <1>1, <1>2, <1>4 DEF Sound, Listing
  <2>4. Working(h, events)
    BY <1>4, <1>6 DEF Working
  <2>. QED
    BY <1>4, <2>1, <2>2, <2>3, <2>4 DEF Sound
<1>8. Dealt' = Dealt
  BY <1>1 DEF Dealt, Writes, mailbox, OutOfInbox
<1>9. /\ candidates' \cup content' \cup unsaved' \cup bare' \subseteq events'
      /\ \A q \in 1..cursor' : q \in Dealt'
  BY <1>1, <1>6, <1>8, Written
<1>10. Core'
  BY <1>1, <1>3, <1>5, <1>7, <1>8, <1>9, Written, TickStep
<1>11. QuotaInv'
  <2>1. IsFiniteSet(Landing) /\ t \in Landing /\ Landing' = Landing \ {t}
    <3>1. IsFiniteSet(Landing)
      BY GmailSyncAssumption, FS_Subset DEF Landing
    <3>2. t \in Landing /\ Landing' = Landing \ {t}
      BY <1>1, <1>2, <1>3, <1>4 DEF Landing
    <3>. QED
      BY <3>1, <3>2
  <2>2. IsFiniteSet(candidates)
    <3>1. IsFiniteSet(1..Newest) /\ candidates \subseteq 1..Newest
      BY Numbered, FS_Interval DEF IInv, TypeOK
    <3>. QED
      BY <3>1, FS_Subset
  <2>3. /\ Cardinality(Landing') = Cardinality(Landing) - 1
        /\ Cardinality(candidates)' <= Cardinality(candidates) + 1
    <3>1. Cardinality(Landing') = Cardinality(Landing) - 1
      BY <2>1, FS_RemoveElement
    <3>2. Cardinality(candidates \cup {m}) =
            IF m \in candidates THEN Cardinality(candidates) ELSE Cardinality(candidates) + 1
      BY <2>2, FS_AddElement
    <3>3. Cardinality(candidates) \in Nat
      BY <2>2, FS_CardinalityType
    <3>. QED
      BY <1>1, <3>1, <3>2, <3>3
  <2>4. /\ Cardinality(Landing) \in Nat /\ Cardinality(candidates) \in Nat
        /\ Cardinality(candidates)' \in Nat /\ Cardinality(Ticks) \in Nat /\ DailyCap \in Nat
    <3>1. IsFiniteSet(candidates \cup {m})
      BY <2>2, FS_AddElement
    <3>. QED
      BY <1>1, <2>1, <2>2, <3>1, FS_CardinalityType, GmailSyncAssumption
  <2>. QED
    BY <2>3, <2>4 DEF IInv, QuotaInv
<1>. QED
  BY <1>10, <1>11 DEF IInv, Core

\* A tick that ends and leaves a cursor.
LEMMA EndStep ==
    ASSUME IInv, NEW t \in Ticks, tick' = [tick EXCEPT ![t] = Off],
           UNCHANGED <<mailbox, store, skipped, unsaved, bare>>, UNCHANGED upsets,
           passed \subseteq passed', passed' \subseteq Arrived,
           cursor' \in ends \cup {NoCursor}, \A m \in 1..cursor' : m \in Dealt'
    PROVE  IInv'
<1>1. /\ Core /\ upsets' \in 0..MaxUpsets /\ Writes /\ events' = events
      /\ candidates' = candidates /\ content' = content
      /\ skipped' = skipped /\ unsaved' = unsaved /\ bare' = bare
  BY UpsetBound DEF IInv, Core, store, Writes
<1>2. Dealt \subseteq Dealt'
  BY <1>1, WritesKeep
<1>3. Off \in Tick /\ Sound(Off, Dealt', events', Newest, ends)
  BY <1>1, OffIsSound, Numbered DEF Core, Sound, Off
<1>4. Core'
  BY <1>1, <1>3, Written, TickStep
<1>5. Off.pc # "land"
  BY DEF Off
<1>. QED
  BY <1>1, <1>4, <1>5, QuotaKept DEF IInv, Core

LEMMA CappedStep ==
    ASSUME IInv, NEW t \in Ticks, Capped(t)
    PROVE  IInv'
<1> DEFINE k == tick[t]
<1>1. /\ Core /\ k \in Tick /\ Sound(k, Dealt, events, Newest, ends) /\ k.pc = "take"
      /\ k.last \in ends \cup {0} /\ k.last \in Nat /\ k.token \in Nat
  BY TickFields, Numbered DEF IInv, Core, Tick, Capped
<1>2. /\ UNCHANGED <<mailbox, store, skipped, unsaved, bare>> /\ UNCHANGED upsets
      /\ passed' = passed /\ Dealt' = Dealt /\ tick' = [tick EXCEPT ![t] = Off]
  BY DEF Capped, trail, store, mailbox, Dealt, OutOfInbox
<1>3. cursor' \in ends \cup {NoCursor} /\ \A m \in 1..cursor' : m \in Dealt
  <2>1. CASE k.mode = "bootstrap"
    BY <2>1 DEF Capped, NoCursor
  <2>2. CASE k.mode # "bootstrap"
    <3>1. k.mode = "incremental" /\ cursor' = k.last
      BY <1>1, <2>2 DEF Capped, Sound, Tick
    <3>2. /\ k.last <= k.token /\ \A m \in 1..k.token : m \in Dealt \cup k.page
          /\ \A p \in k.page : k.last < p
      BY <1>1, <3>1 DEF Sound, Incremental
    <3>. QED
      BY <1>1, <3>1, <3>2 DEF NoCursor
  <2>. QED
    BY <2>1, <2>2
<1>. QED
  BY <1>1, <1>2, <1>3, Written, EndStep

LEMMA DrainedStep ==
    ASSUME IInv, NEW t \in Ticks, Drained(t)
    PROVE  IInv'
<1> DEFINE k == tick[t]
           S == {k.newest, k.last}
<1>1. /\ Core /\ k \in Tick /\ Sound(k, Dealt, events, Newest, ends) /\ k.pc = "take"
      /\ k.page = {} /\ ~MorePages(t)
      /\ k.newest \in ends \cup {0} /\ k.last \in ends \cup {0}
      /\ k.newest \in Nat /\ k.last \in Nat /\ k.token \in Nat /\ k.start \in Nat
      /\ S \in SUBSET (0..Newest) /\ Newest \in Nat /\ Arrived = 1..Newest
  BY TickFields, Numbered DEF IInv, Core, Tick, Drained, PageDone, Sound
<1>2. /\ UNCHANGED <<mailbox, store, skipped, unsaved, bare>> /\ UNCHANGED upsets
      /\ tick' = [tick EXCEPT ![t] = Off] /\ cursor' = Max(S)
  BY DEF Drained
<1>3. Max(S) \in S /\ k.newest <= Max(S) /\ k.last <= Max(S)
  BY <1>1, Greatest
<1>4. passed \subseteq passed' /\ passed' \subseteq Arrived
  <2>1. (k.start + 1)..k.newest \subseteq Arrived
    BY <1>1
  <2>. QED
    BY <1>1, <2>1, Written DEF Drained
<1>5. Dealt' = Dealt \cup passed'
  BY <1>2, <1>4 DEF Dealt, store, mailbox, OutOfInbox
<1> HIDE DEF S
<1>6. cursor' \in ends \cup {NoCursor}
  BY <1>1, <1>2, <1>3 DEF S, NoCursor
<1>7. \A m \in 1..cursor' : m \in Dealt'
  <2>1. CASE k.mode = "bootstrap"
    <3>1. /\ k.last = 0 /\ k.token >= 1 /\ \A m \in k.token..k.start : m \in Dealt
          /\ k.token <= 1
      BY <1>1, <2>1 DEF Sound, Listing, MorePages
    <3>2. passed' = passed \cup ((k.start + 1)..k.newest)
      BY <2>1 DEF Drained
    <3>3. cursor' = k.newest
      BY <1>1, <1>2, <1>3, <3>1 DEF S
    <3>4. \A m \in 1..k.newest : m \in k.token..k.start \/ m \in (k.start + 1)..k.newest
      BY <1>1, <3>1
    <3>. QED
      BY <1>5, <3>1, <3>2, <3>3, <3>4
  <2>2. CASE k.mode # "bootstrap"
    <3>1. k.mode = "incremental" /\ ~(k.token < k.newest)
      BY <1>1, <2>2 DEF Sound, Tick, MorePages
    <3>2. k.last <= k.token /\ \A m \in 1..k.token : m \in Dealt
      BY <1>1, <3>1 DEF Sound, Incremental
    <3>3. cursor' \in Nat /\ cursor' <= k.token
      BY <1>1, <1>2, <1>3, <3>1, <3>2 DEF S
    <3>. QED
      BY <1>1, <1>5, <3>2, <3>3
  <2>. QED
    BY <2>1, <2>2
<1>. QED
  BY <1>1, <1>2, <1>4, <1>6, <1>7, EndStep

----------------------------------------------------------------------------
(* The steps of the mailbox *)

LEMMA MailboxStep ==
    ASSUME IInv, UNCHANGED <<cursor, store, trail, tick>>, TypeOK',
           Newest <= Newest', ends \subseteq ends',
           OutOfInbox(kind, archived) \subseteq OutOfInbox(kind', archived'),
           \A m \in Arrived : kind'[m] = kind[m]
    PROVE  IInv'
<1>1. /\ events' = events /\ content' = content /\ candidates' = candidates
      /\ unsaved' = unsaved /\ bare' = bare /\ skipped' = skipped /\ passed' = passed
      /\ cursor' = cursor /\ tick' = tick
  BY DEF store, trail
<1>2. Core
  BY DEF IInv, Core
<1>3. Dealt \subseteq Dealt'
  BY <1>1 DEF Dealt
<1>4. NotedInv'
  BY <1>1, <1>2, Written DEF IInv, NotedInv
<1>5. CursorInv'
  BY <1>1, <1>3 DEF IInv, CursorInv
<1>6. TickInv'
  <2>1. Newest \in Nat /\ Newest' \in Nat
    <3>1. TypeOK' => Newest' \in Nat
      BY GmailSyncAssumption DEF TypeOK
    <3>. QED
      BY <3>1, Numbered DEF IInv
  <2>2. ASSUME NEW u \in Ticks PROVE Sound(tick[u], Dealt', events, Newest', ends')
    <3>1. Sound(tick[u], Dealt, events, Newest, ends) /\ tick[u].token \in Nat
      BY <1>2, TickFields
    <3>. QED
      BY <1>3, <2>1, <3>1, StillSound
  <2>3. \A u \in Ticks : Sound(tick'[u], Dealt', events', Newest', ends')
    BY <1>1, <2>2
  <2>. QED
    BY <2>3 DEF TickInv
<1>7. QuotaInv'
  BY <1>1 DEF IInv, QuotaInv, Landing
<1>. QED
  BY <1>4, <1>5, <1>6, <1>7 DEF IInv

LEMMA ArriveStep ==
    ASSUME IInv, Arrive
    PROVE  IInv'
<1>1. PICK n \in 1..MaxRecord :
          /\ Newest + n <= MaxMessages /\ kind' \in [1..(Newest + n) -> Kinds]
          /\ \A m \in Arrived : kind'[m] = kind[m]
          /\ ends' = ends \cup {Newest + n}
          /\ UNCHANGED <<archived, horizon, cursor, store, trail, tick, upsets>>
  BY DEF Arrive
<1>2. /\ Newest \in Nat /\ Newest >= 1 /\ Arrived = 1..Newest /\ ends \subseteq 1..Newest
      /\ n \in Nat /\ n >= 1
  BY Numbered, GmailSyncAssumption DEF IInv
<1>3. Arrived' = 1..(Newest + n) /\ Newest' = Newest + n
  <2>1. Arrived' = 1..(Newest + n)
    BY <1>1 DEF Arrived
  <2>2. Cardinality(1..(Newest + n)) = Newest + n
    BY <1>2, FS_Interval
  <2>. QED
    BY <2>1, <2>2 DEF Newest
<1>4. Arrived \subseteq Arrived' /\ ends \subseteq ends' /\ Newest <= Newest'
  BY <1>1, <1>2, <1>3
<1>5. TypeOK'
  <2>1. Arrived' = 1..Newest' /\ Newest' \in 1..MaxMessages /\ kind' \in [Arrived' -> Kinds]
    BY <1>1, <1>2, <1>3, GmailSyncAssumption
  <2>2. ends' \subseteq Arrived' /\ Newest' \in ends'
    BY <1>1, <1>2, <1>3
  <2>3. Tick \subseteq Tick'
    BY <1>4 DEF Tick
  <2>4. tick' \in [Ticks -> Tick']
    BY <1>1, <2>3 DEF IInv, TypeOK
  <2>. QED
    BY <1>1, <1>4, <2>1, <2>2, <2>4 DEF IInv, TypeOK, store, trail
<1>6. OutOfInbox(kind, archived) \subseteq OutOfInbox(kind', archived')
  BY <1>1, <1>4 DEF OutOfInbox, Arrived
<1>. QED
  BY <1>1, <1>4, <1>5, <1>6, MailboxStep

LEMMA ArchiveStep ==
    ASSUME IInv, Archive
    PROVE  IInv'
<1>1. PICK m \in Arrived : archived' = archived \cup {m}
  BY DEF Archive
<1>2. /\ UNCHANGED <<kind, ends, horizon, cursor, store, trail, tick>>
      /\ upsets' \in 0..MaxUpsets /\ TypeOK
  BY UpsetBound DEF Archive, IInv
<1>3. Arrived' = Arrived /\ Newest' = Newest /\ Tick' = Tick
  BY <1>2 DEF Arrived, Newest, Tick
<1>4. TypeOK'
  BY <1>1, <1>2, <1>3 DEF TypeOK, store, trail
<1>5. OutOfInbox(kind, archived) \subseteq OutOfInbox(kind', archived')
  BY <1>1, <1>2 DEF OutOfInbox
<1>6. Newest <= Newest'
  BY <1>2, <1>3, Numbered
<1>. QED
  BY <1>2, <1>4, <1>5, <1>6, MailboxStep

LEMMA ExpireStep ==
    ASSUME IInv, Expire
    PROVE  IInv'
<1>1. PICK e \in ends : horizon' = e
  BY DEF Expire
<1>2. /\ UNCHANGED <<kind, archived, ends, cursor, store, trail, tick>>
      /\ upsets' \in 0..MaxUpsets /\ TypeOK
  BY UpsetBound DEF Expire, IInv
<1>3. Arrived' = Arrived /\ Newest' = Newest /\ Tick' = Tick
  BY <1>2 DEF Arrived, Newest, Tick
<1>4. TypeOK'
  BY <1>1, <1>2, <1>3 DEF TypeOK, store, trail
<1>5. Newest <= Newest'
  BY <1>2, <1>3, Numbered
<1>. QED
  BY <1>2, <1>4, <1>5, MailboxStep

----------------------------------------------------------------------------
(* The theorems *)

LEMMA InitIInv ==
    ASSUME Init
    PROVE  IInv
<1>1. PICK n \in 1..MaxMessages : kind \in [1..n -> Kinds]
  BY DEF Init
<1>2. n \in Nat /\ n >= 1
  BY GmailSyncAssumption
<1>3. Arrived = 1..n /\ Newest = n
  BY <1>1, <1>2, FS_Interval DEF Arrived, Newest
<1>4. TypeOK
  <2>1. 0 \in 0..Cap /\ 0 \in 0..MaxUpsets
    BY GmailSyncAssumption
  <2>2. Off \in Tick
    BY <2>1 DEF Off, Tick, NoMessage
  <2>3. Arrived = 1..Newest /\ Newest \in 1..MaxMessages /\ Newest \in Arrived
        /\ kind \in [Arrived -> Kinds]
    BY <1>1, <1>2, <1>3
  <2>. QED
    BY <2>1, <2>2, <2>3 DEF Init, TypeOK, NoCursor
<1>5. NotedInv /\ CursorInv
  BY DEF Init, NotedInv, CursorInv, NoCursor
<1>6. TickInv
  <2>1. Sound(Off, Dealt, events, Newest, ends)
    BY <1>2, <1>3 DEF Off, Sound
  <2>. QED
    BY <2>1 DEF Init, TickInv
<1>7. QuotaInv
  <2>1. Landing = {} /\ candidates = {}
    BY DEF Init, Landing, Off
  <2>2. Cardinality({}) = 0
    BY FS_EmptySet
  <2>3. Cardinality(Ticks) \in Nat /\ DailyCap \in Nat /\ DailyCap >= 1
    BY GmailSyncAssumption, FS_CardinalityType
  <2>. QED
    BY <2>1, <2>2, <2>3 DEF QuotaInv
<1>. QED
  BY <1>4, <1>5, <1>6, <1>7 DEF IInv

LEMMA NextIInv ==
    ASSUME IInv, [Next]_vars
    PROVE  IInv'
<1>1. CASE Arrive
  BY <1>1, ArriveStep
<1>2. CASE Archive
  BY <1>2, ArchiveStep
<1>3. CASE Expire
  BY <1>3, ExpireStep
<1>4. ASSUME NEW t \in Ticks,
             Begin(t) \/ Work(t) \/ FetchFails(t) \/ PersistFails(t) \/ Abort(t)
      PROVE  IInv'
  BY <1>4, BeginStep, ListStep, ProfileStep, HistoryStep, FetchStep, LandStep, PersistStep,
     DrainedStep, CappedStep, FetchFailsStep, PersistFailsStep, AbortStep DEF Work
<1>5. CASE UNCHANGED vars
  <2>1. TypeOK'
    BY <1>5 DEF IInv, vars, mailbox, store, trail, TypeOK, Tick, Arrived, Newest
  <2>2. Newest' = Newest /\ Newest <= Newest'
    BY <1>5, Numbered DEF IInv, vars, mailbox, Arrived, Newest
  <2>. QED
    BY <1>5, <2>1, <2>2, MailboxStep DEF vars, mailbox, OutOfInbox
<1>. QED
  BY <1>1, <1>2, <1>3, <1>4, <1>5 DEF Next

\* Its inductive invariant holds in every reachable state; the theorems below are read
\* off it.
THEOREM Invariance == Spec => []IInv
BY InitIInv, NextIInv, PTL DEF Spec

\* A tick works on messages of the mailbox within its budget, and every cursor,
\* the saved one and the one a tick would save, is the id of a history record.
THEOREM TypeCorrect == Spec => []TypeOK
BY Invariance, PTL DEF IInv

\* The cursor never passes a message that was not taken in, whatever ticks
\* overlap, fail or bootstrap, but for the code's two losses (runBootstrap,
\* runIncremental).
THEOREM CursorPassesNothing == Spec => []NothingIsStranded
<1>1. IInv => NothingIsStranded
  <2> SUFFICES ASSUME IInv, NEW m \in Arrived, m <= cursor
               PROVE  m \in events \cup skipped \cup passed \cup OutOfInbox(kind, archived)
    BY DEF NothingIsStranded
  <2>1. m \in 1..cursor
    BY Numbered DEF IInv
  <2>2. m \in Dealt
    BY <2>1 DEF IInv, CursorInv
  <2>. QED
    BY <2>2 DEF Dealt, IInv, TypeOK, NotedInv
<1>. QED
  BY <1>1, Invariance, PTL

\* An event the cursor has passed carries its content, or one of the code's own
\* excuses (processMessage, knownEventKeys).
THEOREM PassedEventsCarryContent == Spec => []EventsCarryContent
<1>1. IInv => EventsCarryContent
  <2> SUFFICES ASSUME IInv, NEW m \in events \ content, ~(cursor < m)
               PROVE  m \in unsaved \cup bare \cup archived \cup skipped \cup passed
    BY DEF EventsCarryContent
  <2>1. m \in 1..cursor
    BY Numbered DEF IInv, TypeOK
  <2>2. m \in Dealt /\ kind[m] # "other"
    BY <2>1 DEF IInv, CursorInv, NotedInv
  <2>. QED
    BY <2>2 DEF Dealt, OutOfInbox
<1>. QED
  BY <1>1, Invariance, PTL

\* Ticks that counted together go over the day's cap by no more than there are
\* ticks but one (landGmailCandidates).
THEOREM DailyCapHolds == Spec => []CandidateOvershoot
<1>1. IInv => CandidateOvershoot
  <2> SUFFICES ASSUME IInv PROVE CandidateOvershoot
    OBVIOUS
  <2>1. IsFiniteSet(candidates) /\ IsFiniteSet(Landing)
    <3>1. IsFiniteSet(1..Newest) /\ candidates \subseteq 1..Newest
      BY Numbered, FS_Interval DEF IInv, TypeOK
    <3>2. Landing \subseteq Ticks
      BY DEF Landing
    <3>. QED
      BY <3>1, <3>2, FS_Subset, GmailSyncAssumption
  <2>2. /\ Cardinality(candidates) \in Nat /\ Cardinality(Landing) \in Nat
        /\ Cardinality(Ticks) \in Nat /\ DailyCap \in Nat
    BY <2>1, FS_CardinalityType, GmailSyncAssumption
  <2>. QED
    BY <2>2 DEF IInv, QuotaInv, CandidateOvershoot
<1>. QED
  BY <1>1, Invariance, PTL
=============================================================================
