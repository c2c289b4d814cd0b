----------------------------- MODULE GmailSync -----------------------------
(***************************************************************************)
(* The Gmail sensor: syncGmail (core/gmail/sync.ts) over the workflow's    *)
(* port (workflow/gmail-workflows.ts) and the read-only adapter. A tick    *)
(* with a cursor walks the mailbox's history; one without lists the whole  *)
(* window, newest first, and keeps the cursor empty until it has drained   *)
(* it. Each inbox message becomes one event in the event store, perhaps a  *)
(* candidate for review, and a content row. Ticks overlap: the schedule    *)
(* starts one every five minutes, a failed step is retried, and the owner  *)
(* may run one by hand.                                                    *)
(*                                                                         *)
(* Messages are numbered in the order they arrive, and the id of a history *)
(* record is the number of its last message. Every message is inside the   *)
(* bootstrap window, and one day is modelled, so the retention sweep,      *)
(* which deletes content days later, is left out.                          *)
(***************************************************************************)
EXTENDS Naturals, FiniteSets, FiniteSetsExt

CONSTANTS
    Ticks,          \* runs of the sync that may overlap
    Cron,           \* the one the schedule keeps starting
    MaxMessages,    \* messages that arrive
    Kinds,          \* what may arrive: "inbox", "bill", "other"
    MaxRecord,      \* messages one history record may add
    MaxOthers,      \* messages that are not, or no longer, in the inbox
    PageSize,       \* refs on a page of the listing, records on a page of history
    Cap,            \* policy.maxMessagesPerPoll
    DailyCap,       \* policy.maxCandidatesPerDay
    MaxUpsets       \* overlaps, crashes, API errors, failed calls, expiries, archivings

ASSUME GmailSyncAssumption ==
    /\ Cron \in Ticks /\ IsFiniteSet(Ticks)
    /\ MaxMessages \in Nat /\ MaxOthers \in Nat /\ MaxUpsets \in Nat
    /\ {MaxRecord, PageSize, Cap, DailyCap} \subseteq Nat \ {0}
    /\ Kinds \subseteq {"inbox", "bill", "other"}

VARIABLES
    kind,        \* what each message that arrived is
    archived,    \* messages that have left the inbox since
    ends,        \* the ids of the mailbox's history records
    horizon,     \* history up to this id has expired
    cursor,      \* gmail_sync_state.cursor_history_id
    events,      \* messages with an event
    candidates,  \* messages with a candidate in review
    content,     \* messages with a content row
    skipped,     \* messages a fetch of which failed (audit "message-skipped")
    unsaved,     \* messages a write of whose content failed (audit)
    passed,      \* messages a bootstrap's cursor passed without listing them
    bare,        \* messages without content that a bootstrap took for known
    tick,        \* each tick
    upsets

mailbox == <<kind, archived, ends, horizon>>
store == <<events, candidates, content>>
trail == <<skipped, unsaved, passed, bare>>
vars == <<mailbox, cursor, store, trail, tick, upsets>>

NoCursor == 0
NoMessage == 0

Arrived == DOMAIN kind
Newest == Cardinality(Arrived)
OutOfInbox(k, gone) == gone \union {m \in DOMAIN k : k[m] = "other"}

\* A tick between runs, and one that starts a bootstrap.
Off == [pc |-> "off", mode |-> "none", start |-> 0, token |-> 0, page |-> {},
        newest |-> 0, last |-> 0, fetched |-> 0, msg |-> NoMessage]
Bootstrap == [Off EXCEPT !.pc = "list", !.mode = "bootstrap"]

Upset == upsets < MaxUpsets /\ upsets' = upsets + 1

Init ==
    /\ kind \in UNION {[1..n -> Kinds] : n \in 1..MaxMessages}
    /\ archived = {} /\ Cardinality(OutOfInbox(kind, {})) <= MaxOthers
    /\ ends = Arrived /\ horizon = 0 /\ cursor = NoCursor
    /\ events = {} /\ candidates = {} /\ content = {}
    /\ skipped = {} /\ unsaved = {} /\ passed = {} /\ bare = {}
    /\ tick = [t \in Ticks |-> Off] /\ upsets = 0

----------------------------------------------------------------------------
(* The mailbox *)

\* One history record adds messages.
Arrive ==
    \E n \in 1..MaxRecord :
        /\ Newest + n <= MaxMessages
        /\ kind' \in [1..(Newest + n) -> Kinds]
        /\ \A m \in Arrived : kind'[m] = kind[m]
        /\ Cardinality(OutOfInbox(kind', archived)) <= MaxOthers
        /\ ends' = ends \union {Newest + n}
        /\ UNCHANGED <<archived, horizon, cursor, store, trail, tick, upsets>>

\* A message loses its INBOX label.
Archive ==
    /\ Upset
    /\ \E m \in Arrived \ OutOfInbox(kind, archived) : archived' = archived \union {m}
    /\ Cardinality(OutOfInbox(kind, archived')) <= MaxOthers
    /\ UNCHANGED <<kind, ends, horizon, cursor, store, trail, tick>>

\* Old history expires.
Expire ==
    /\ Upset
    /\ \E e \in ends : e > horizon /\ horizon' = e
    /\ UNCHANGED <<kind, archived, ends, cursor, store, trail, tick>>

----------------------------------------------------------------------------
(* A tick *)

\* The cursor is read once, at the start. A run beside the schedule's, a retry of
\* a step or one by hand, is an upset.
Begin(t) ==
    /\ tick[t].pc = "off"
    /\ IF t = Cron THEN UNCHANGED upsets ELSE Upset
    /\ tick' = [tick EXCEPT ![t] =
                    IF cursor = NoCursor THEN Bootstrap
                    ELSE [Off EXCEPT !.pc = "history", !.mode = "incremental",
                                     !.start = cursor, !.token = cursor, !.last = cursor]]
    /\ UNCHANGED <<mailbox, cursor, store, trail>>

\* The loop is through with a page; there are more.
PageDone(t) == tick[t].pc = "take" /\ tick[t].page = {}

MorePages(t) ==
    IF tick[t].mode = "bootstrap" THEN tick[t].token > 1 ELSE tick[t].token < tick[t].newest

TurnsPage(t, mode) == tick[t].mode = mode /\ PageDone(t) /\ MorePages(t)

\* A page of the listing, newest first: the page token names the last message
\* listed, and start the newest message when the listing began.
List(t) ==
    LET first == tick[t].token = 0
        above == IF first THEN Newest + 1 ELSE tick[t].token
        low == IF above > PageSize THEN above - PageSize ELSE 1
    IN  /\ tick[t].pc = "list" \/ TurnsPage(t, "bootstrap")
        /\ tick' = [tick EXCEPT ![t].pc = "profile", ![t].page = low..(above - 1), ![t].token = low,
                                ![t].start = IF first THEN Newest ELSE @]
        /\ UNCHANGED <<mailbox, cursor, store, trail, upsets>>

\* knownEventKeys: the refs that have no event yet.
Unknown(refs) == refs \ events

\* Fault: a bootstrap fetches known refs again.
Profile_Refetches(t) ==
    /\ tick[t].pc = "profile"
    /\ tick' = [tick EXCEPT ![t].pc = "take", ![t].newest = Newest]
    /\ UNCHANGED <<mailbox, cursor, store, trail, upsets>>

\* The port resolves the mailbox's history id from the profile, with a call of
\* its own, and the refs that already have an event are dropped unfetched.
Profile(t) ==
    /\ tick[t].pc = "profile"
    /\ tick' = [tick EXCEPT ![t].pc = "take", ![t].newest = Newest, ![t].page = Unknown(@)]
    /\ bare' = bare \union ((tick[t].page \intersect events) \ content)
    /\ UNCHANGED <<mailbox, cursor, store, skipped, unsaved, passed, upsets>>

\* Where a page of history after the token ends.
PageEnd(t) ==
    LET after == {e \in ends : e > tick[t].token}
    IN  IF after = {} THEN tick[t].token
        ELSE Max({e \in after : Cardinality({d \in after : d <= e}) <= PageSize})

\* A page of history, oldest first, or 404: the tick's tally is dropped and it
\* bootstraps instead.
History(t) ==
    /\ tick[t].pc = "history" \/ TurnsPage(t, "incremental")
    /\ tick' = [tick EXCEPT ![t] =
                    IF tick[t].start < horizon THEN Bootstrap
                    ELSE [@ EXCEPT !.pc = "take", !.page = (tick[t].token + 1)..PageEnd(t),
                                   !.token = PageEnd(t), !.newest = Newest]]
    /\ UNCHANGED <<mailbox, cursor, store, trail, upsets>>

----------------------------------------------------------------------------
(* processMessage, and the records it completes *)

NextRef(t) == IF tick[t].mode = "bootstrap" THEN Max(tick[t].page) ELSE Min(tick[t].page)

\* The tick is done with message m; a history record is done with its last one.
Done(t, m) ==
    tick' = [tick EXCEPT ![t].pc = "take", ![t].page = @ \ {m}, ![t].msg = NoMessage,
                         ![t].fetched = IF tick[t].msg = m THEN @ ELSE @ + 1,
                         ![t].last = IF tick[t].mode = "incremental" /\ m \in ends THEN m ELSE @]

\* The budget is looked at before each ref that would be fetched.
CanFetch(t) == tick[t].pc = "take" /\ tick[t].page # {} /\ tick[t].fetched < Cap

\* Fault: the day's candidates are not counted.
UnderDailyCap_Never == TRUE

\* The candidates landed today leave room for another.
UnderDailyCap == Cardinality(candidates) < DailyCap

\* extractCandidates: the mail of a sender on the list that names what is due.
Extracts(m) == kind[m] = "bill"

\* acceptEvent: one event per message, whoever is first.
Accept(m) == events' = events \union {m}

\* Fault: a message whose event was there already is not gone on with.
Fetch_OnlyNew(t) ==
    LET m == NextRef(t)
    IN  /\ CanFetch(t)
        /\ IF m \in OutOfInbox(kind, archived) \union events
           THEN Done(t, m) /\ UNCHANGED events
           ELSE /\ Accept(m)
                /\ tick' = [tick EXCEPT
                       ![t].pc = IF Extracts(m) /\ UnderDailyCap THEN "land" ELSE "persist",
                       ![t].msg = m, ![t].fetched = @ + 1]
        /\ UNCHANGED <<mailbox, cursor, candidates, content, trail, upsets>>

\* The message is fetched and, when it is in the inbox, its event accepted. A
\* message something is extracted from is due a candidate if the count of the
\* day's, read now, is under the cap. The three calls are one action: between
\* them another tick could only bring that count nearer the cap.
Fetch(t) ==
    LET m == NextRef(t)
    IN  /\ CanFetch(t)
        /\ IF m \in OutOfInbox(kind, archived)
           THEN Done(t, m) /\ UNCHANGED events
           ELSE /\ Accept(m)
                /\ tick' = [tick EXCEPT
                       ![t].pc = IF Extracts(m) /\ UnderDailyCap THEN "land" ELSE "persist",
                       ![t].msg = m, ![t].fetched = @ + 1]
        /\ UNCHANGED <<mailbox, cursor, candidates, content, trail, upsets>>

\* A failure that is not a quota error skips the message for good.
FetchFails(t) ==
    LET m == NextRef(t)
    IN  /\ CanFetch(t) /\ Upset
        /\ Done(t, m) /\ skipped' = skipped \union {m}
        /\ UNCHANGED <<mailbox, cursor, store, unsaved, passed, bare>>

\* The insert of the candidate, whose id is the message's: a second is a no-op.
Land(t) ==
    /\ tick[t].pc = "land"
    /\ candidates' = candidates \union {tick[t].msg}
    /\ tick' = [tick EXCEPT ![t].pc = "persist"]
    /\ UNCHANGED <<mailbox, cursor, events, content, trail, upsets>>

\* The upsert of the content row; every message is taken to have a text.
Persist(t) ==
    /\ tick[t].pc = "persist"
    /\ content' = content \union {tick[t].msg}
    /\ Done(t, tick[t].msg)
    /\ UNCHANGED <<mailbox, cursor, events, candidates, trail, upsets>>

\* A content row that cannot be written does not hold the tick up.
PersistFails(t) ==
    /\ tick[t].pc = "persist" /\ Upset
    /\ unsaved' = unsaved \union {tick[t].msg}
    /\ Done(t, tick[t].msg)
    /\ UNCHANGED <<mailbox, cursor, store, skipped, passed, bare>>

----------------------------------------------------------------------------
(* The end of a tick: the cursor is written last *)

Drained(t) ==
    /\ PageDone(t) /\ ~MorePages(t)
    /\ cursor' = Max({tick[t].newest, tick[t].last})
    /\ passed' = IF tick[t].mode = "bootstrap"
                 THEN passed \union ((tick[t].start + 1)..tick[t].newest) ELSE passed
    /\ tick' = [tick EXCEPT ![t] = Off]
    /\ UNCHANGED <<mailbox, store, skipped, unsaved, bare, upsets>>

\* Fault: a capped incremental tick saves the mailbox's id.
Capped_Newest(t) ==
    /\ tick[t].pc = "take" /\ tick[t].page # {} /\ tick[t].fetched >= Cap
    /\ cursor' = IF tick[t].mode = "bootstrap" THEN NoCursor ELSE tick[t].newest
    /\ tick' = [tick EXCEPT ![t] = Off]
    /\ UNCHANGED <<mailbox, store, trail, upsets>>

\* The budget is spent and refs are left.
Capped(t) ==
    /\ tick[t].pc = "take" /\ tick[t].page # {} /\ tick[t].fetched >= Cap
    /\ cursor' = IF tick[t].mode = "bootstrap" THEN NoCursor ELSE tick[t].last
    /\ tick' = [tick EXCEPT ![t] = Off]
    /\ UNCHANGED <<mailbox, store, trail, upsets>>

\* A quota or another API error, or the end of the process: nothing is saved.
Abort(t) ==
    /\ tick[t].pc # "off" /\ Upset
    /\ tick' = [tick EXCEPT ![t] = Off]
    /\ UNCHANGED <<mailbox, cursor, store, trail>>

----------------------------------------------------------------------------
Work(t) ==
    \/ List(t) \/ Profile(t) \/ History(t)
    \/ Fetch(t) \/ Land(t) \/ Persist(t)
    \/ Drained(t) \/ Capped(t)

Next ==
    \/ Arrive \/ Archive \/ Expire
    \/ \E t \in Ticks : Begin(t) \/ Work(t) \/ FetchFails(t) \/ PersistFails(t) \/ Abort(t)

\* The schedule keeps starting one tick, and a tick that runs goes on.
Fairness == WF_vars(Begin(Cron)) /\ \A t \in Ticks : WF_vars(Work(t))

Spec == Init /\ [][Next]_vars /\ Fairness

----------------------------------------------------------------------------
Tick ==
    [pc : {"off", "list", "profile", "history", "take", "land", "persist"},
     mode : {"none", "bootstrap", "incremental"},
     start : Nat, token : Nat, page : SUBSET Arrived, newest : Arrived \union {0},
     last : ends \union {0}, fetched : 0..Cap, msg : Arrived \union {NoMessage}]

\* The type invariant: a tick works on messages of the mailbox, within its
\* budget, and what it means to save is the id of a history record.
TypeOK ==
    /\ Arrived = 1..Newest /\ Newest \in 1..MaxMessages /\ kind \in [Arrived -> Kinds]
    /\ ends \subseteq Arrived /\ Newest \in ends
    /\ archived \subseteq Arrived /\ horizon \in ends \union {0}
    /\ cursor \in ends \union {NoCursor}
    /\ candidates \subseteq events /\ content \subseteq events /\ events \subseteq Arrived
    /\ skipped \union unsaved \union passed \union bare \subseteq Arrived
    /\ tick \in [Ticks -> Tick] /\ upsets \in 0..MaxUpsets

\* The cursor never passes work (runBootstrap, runIncremental): every message at
\* or below it has its event, has left the inbox, or is one of this code's two
\* losses: a fetch that failed, and a message that arrived between a bootstrap's
\* first page and its last look at the profile.
NothingIsStranded ==
    \A m \in Arrived : m <= cursor =>
        m \in events \union skipped \union passed \union OutOfInbox(kind, archived)

\* An event without its content (processMessage dies between the two writes, or
\* has not come to the second) is one a tick will still be shown, unless the
\* write failed, a bootstrap took the message for known, or it was not read again.
EventsCarryContent ==
    \A m \in events \ content :
        \/ cursor < m
        \/ m \in unsaved \union bare \union archived \union skipped \union passed

\* Ticks that counted before either inserted go over the day's cap by no more
\* than one candidate each (landGmailCandidates).
CandidateOvershoot == Cardinality(candidates) <= DailyCap + Cardinality(Ticks) - 1

\* Every inbox message is taken in sooner or later, whatever ticks overlap, die
\* or lose their history, but for the two losses above (syncGmail): the budget
\* of a tick moves on to messages the ticks before it have not had.
MailIsTakenIn ==
    []<>(Arrived \subseteq events \union skipped \union passed \union OutOfInbox(kind, archived))

\* A capped window converges across ticks (the comment above runBootstrap): the
\* cursor does not stay empty.
BootstrapDrains == cursor = NoCursor ~> cursor # NoCursor
=============================================================================
