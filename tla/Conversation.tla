---------------------------- MODULE Conversation ----------------------------
(***************************************************************************)
(* The offers one principal's conversation holds: what the assistant       *)
(* proposes, parks in the metadata of an interaction thread                *)
(* (imessage/threads.ts) and carries out once the owner agrees             *)
(* (imessage/conversation.ts, cognitive-turn.ts, outcome-confirm.ts).      *)
(*                                                                         *)
(* The metadata is one JSON value. Every writer reads it FOR UPDATE, but   *)
(* as a statement of its own, so the row is free again before the whole    *)
(* value is written back: a read and a write are two steps here. Turns of  *)
(* the principal are serialised by the turn lock, a session lock on a      *)
(* connection of its own: when that connection is lost the turn works on,  *)
(* and another one begins beside it. The reminder sweep, which attaches a  *)
(* probe to the active thread, does not take the lock.                     *)
(*                                                                         *)
(* An offer is one parked proposal; what it proposes is left out but for   *)
(* whether a confirm token is needed. Offers are numbered in the order     *)
(* they are parked, which is their order in the list.                      *)
(***************************************************************************)
EXTENDS Naturals, FiniteSets, FiniteSetsExt

CONSTANTS
    MaxThreads,     \* threads of the principal
    MaxOffers,      \* offers parked
    MaxTurns,       \* turns of the principal
    MaxSweeps,      \* probes the sweep attaches
    MaxUpsets       \* locks lost, turns and sweeps that die, policy changes, days that pass

ASSUME ConversationAssumption ==
    /\ MaxThreads \in Nat \ {0} /\ MaxOffers \in Nat
    /\ MaxTurns \in Nat /\ MaxSweeps \in Nat /\ MaxUpsets \in Nat

VARIABLES
    routing,    \* gateway.routing: who writes the replies
    thread,     \* status and metadata of each thread
    offer,      \* type, thread and lane of each parked offer
    parked,     \* how many offers were parked
    expired,    \* offers whose expiresAt has passed
    turn,       \* where each of the principal's turns is
    lock,       \* the turn that holds the turn lock
    sweep,      \* where the sweep is
    made,       \* how often each offer was carried out
    excuse,     \* repeats of an offer that a death or an overlap explains
    standing,   \* offers the owner has neither answered nor had replaced
    dropped,    \* offers a write left out that neither answered nor replaced them
    revived,    \* answered or replaced offers that an older list put back
    calm,       \* no turn has lost the lock or died, no sweep has written
    turns, sweeps, upsets

accounts == <<excuse, standing, dropped, revived, calm>>
ghosts == <<made, accounts>>
counts == <<turns, sweeps, upsets>>
world == <<routing, thread, offer, parked, expired>>
vars == <<world, turn, lock, sweep, ghosts, counts>>

Threads == 1..MaxThreads
Turns == 1..MaxTurns
Offers == 1..MaxOffers
Types == {"outcome_spec", "task_batch"}
NoThread == 0
NoTurn == 0
NoOffer == 0

----------------------------------------------------------------------------
(* Metadata and its writers *)

\* pendingProposals, pendingProposal (NoOffer when absent), pendingProbe.
EmptyMeta == [list |-> {}, latest |-> NoOffer, probe |-> FALSE]

LastOf(S) == IF S = {} THEN NoOffer ELSE Max(S)

\* The legacy lanes and the park read the single slot when there is no list.
Pending(m) ==
    IF m.list # {} THEN m.list ELSE {o \in {m.latest} : o # NoOffer}

\* Fault: the writer for one proposal is used: the new one replaces its siblings.
WithOffers_Single(m, S) ==
    [m EXCEPT !.list = {o \in S : o = LastOf(S)}, !.latest = LastOf(S)]

\* setThreadPendingProposals
WithOffers(m, S) == [m EXCEPT !.list = S, !.latest = LastOf(S)]

\* setThreadPendingProbe(null) and setThreadProfileOverride copy the keys they
\* know, which do not include the list.
WithoutProbe(m) == [m EXCEPT !.list = {}, !.probe = FALSE]
WithOverride(m) == [m EXCEPT !.list = {}]

\* The sweep's own writer merges into whatever it has read.
WithProbe(m) == [m EXCEPT !.probe = TRUE]

----------------------------------------------------------------------------
IdleTurn == [pc |-> "idle", th |-> NoThread, op |-> "none", o |-> NoOffer, list |-> {},
             fresh |-> {}, base |-> EmptyMeta, applied |-> FALSE, beside |-> FALSE]
IdleSweep == [pc |-> "idle", th |-> NoThread, base |-> EmptyMeta]

Init ==
    /\ routing \in {"legacy", "single"}
    /\ thread = [t \in Threads |-> [status |-> IF t = 1 THEN "active" ELSE "none",
                                    meta |-> EmptyMeta]]
    /\ offer = [o \in Offers |-> [type |-> "none", th |-> NoThread, token |-> FALSE]]
    /\ parked = 0 /\ expired = {}
    /\ turn = [n \in Turns |-> IdleTurn] /\ lock = NoTurn /\ sweep = IdleSweep
    /\ made = [o \in Offers |-> 0] /\ excuse = [o \in Offers |-> 0]
    /\ standing = {} /\ dropped = {} /\ revived = {} /\ calm = TRUE
    /\ turns = 0 /\ sweeps = 0 /\ upsets = 0

Upset == upsets < MaxUpsets /\ upsets' = upsets + 1

Active == CHOOSE t \in Threads : thread[t].status = "active"
Meta(t) == thread[t].meta
Store(t, m) == thread' = [thread EXCEPT ![t].meta = m]

\* The turn lock is waited for, and the turn then works on one thing. That another
\* turn is still at the offer it answers is noted: one of the two has lost the lock.
TakesLock(next) ==
    /\ lock = NoTurn /\ turns < MaxTurns
    /\ turns' = turns + 1 /\ lock' = turns'
    /\ turn' = [turn EXCEPT ![turns'] =
                   [next EXCEPT !.beside = /\ next.o # NoOffer
                                           /\ \E n \in Turns : turn[n].o = next.o]]

StartTurn(next) ==
    /\ TakesLock(next)
    /\ UNCHANGED <<world, sweep, ghosts, sweeps, upsets>>

\* A turn goes on as next; when it is over it gives the lock back, if it has it.
Goes(n, next) ==
    /\ turn' = [turn EXCEPT ![n] = next]
    /\ lock' = IF next.pc = "idle" /\ lock = n THEN NoTurn ELSE lock

On(op) == [IdleTurn EXCEPT !.th = Active, !.op = op]

----------------------------------------------------------------------------
(* Parking *)

\* Proposals of one reply, at most one per type. The list they join is read first.
\* The conversation lane joins the list alone, the operation lane falls back on
\* the single slot.
Joined == IF routing = "single" THEN Pending(Meta(Active)) ELSE Meta(Active).list

Park(types) ==
    /\ types # {} /\ (routing = "single" => Cardinality(types) = 1)
    /\ parked + Cardinality(types) <= MaxOffers
    /\ LET fresh == (parked + 1)..(parked + Cardinality(types))
           kept == {o \in Joined : offer[o].type \notin types}
       IN  \E f \in [fresh -> types] :
              /\ \A o, p \in fresh : f[o] = f[p] => o = p
              /\ offer' = [o \in Offers |->
                    IF o \in fresh
                    THEN [type |-> f[o], th |-> Active,
                          token |-> routing = "single" /\ f[o] = "outcome_spec"]
                    ELSE offer[o]]
              /\ parked' = parked + Cardinality(types)
              /\ TakesLock([On("park") EXCEPT !.pc = "read", !.list = kept \cup fresh,
                                              !.fresh = fresh])
    /\ UNCHANGED <<routing, thread, expired, sweep, ghosts, sweeps, upsets>>

----------------------------------------------------------------------------
(* Answers *)

\* An exact verb takes the offer of its type, an affirmative the last one unless
\* several were made in the same turn: any offer can be the one. The lane does not
\* look at the expiry, and asks for no token.
LegacyConfirm(o) ==
    LET list == Pending(Meta(Active)) IN
    /\ routing = "legacy"
    /\ o \in list
    /\ StartTurn([On("confirm") EXCEPT !.pc = "apply", !.o = o, !.list = list \ {o}])

\* executeResolutions: an offer that needs a token is refused, one that has
\* expired too. Declining needs neither, but the list.
Resolve(o, decline) ==
    LET list == Meta(Active).list IN
    /\ routing = "single"
    /\ o \in list /\ o \notin expired
    /\ decline \/ offer[o].type # "outcome_spec"
    /\ StartTurn([On("resolve") EXCEPT !.pc = IF decline THEN "read" ELSE "apply",
                                       !.o = o, !.list = list \ {o}])

\* findParkHits: offers with a token in the lists of all threads.
Hits == {h \in Threads \X Offers :
            /\ thread[h[1]].status # "none"
            /\ h[2] \in Meta(h[1]).list /\ offer[h[2]].token}

LiveHits == {h \in Hits : h[2] \notin expired}

\* The code names an offer; the bare verb names the only one that is live.
Named(o, bare) ==
    IF bare THEN {h \in LiveHits : LiveHits = {h}} ELSE {h \in LiveHits : h[2] = o}

\* confirmOutcomeToken and cancelOutcomeToken, which run under both routings.
\* The list the park is removed from is read when it is removed.
Token(o, bare, cancel) ==
    \E h \in Named(o, bare) :
        StartTurn([IdleTurn EXCEPT !.th = h[1], !.op = "token", !.o = h[2],
                                   !.pc = IF cancel THEN "list" ELSE "apply"])

Answers == {"confirm", "resolve", "token"}

\* Fault: the lane replies without taking the offer out.
AfterApply_Replies(t) == IdleTurn

\* The turn takes the offer out of the list.
AfterApply(t) == [t EXCEPT !.pc = IF t.op = "token" THEN "list" ELSE "read"]

\* The proposal is carried out; a repeat beside a turn that is at the same offer is
\* explained by the lock one of the two has lost.
CarriesOut(n) ==
    LET o == turn[n].o IN
    /\ Goes(n, AfterApply([turn[n] EXCEPT !.applied = TRUE]))
    /\ made' = [made EXCEPT ![o] = @ + 1]
    /\ excuse' = IF turn[n].beside THEN [excuse EXCEPT ![o] = @ + 1] ELSE excuse

\* Nothing comes of it and the offer is taken out all the same: a batch the lane
\* could not apply, an outcome that does not parse, what the tool gateway rejects.
ComesToNothing(n) ==
    /\ Goes(n, AfterApply(turn[n]))
    /\ UNCHANGED <<made, excuse>>

\* An outcome may be refused (policy, cap), and so may anything the model resolves
\* through the tool gateway: the offer is kept.
Refused(n) ==
    /\ offer[turn[n].o].type = "outcome_spec" \/ turn[n].op = "resolve"
    /\ Goes(n, IdleTurn)
    /\ UNCHANGED <<made, excuse>>

Apply(n) ==
    /\ turn[n].pc = "apply"
    /\ CarriesOut(n) \/ ComesToNothing(n) \/ Refused(n)
    /\ UNCHANGED <<world, sweep, standing, dropped, revived, calm, counts>>

\* removePark reads the list it filters.
ReadList(n) ==
    /\ turn[n].pc = "list"
    /\ Goes(n, [turn[n] EXCEPT !.list = Meta(turn[n].th).list \ {turn[n].o}, !.pc = "read"])
    /\ UNCHANGED <<world, sweep, ghosts, counts>>

\* Turns that write the metadata for another reason: the answer to a check-in, a
\* persona directive for this conversation (both conversation lane), and the
\* state every reply leaves, which keeps all keys.
Touch(op) ==
    /\ op \in {"probe", "override"} => routing = "legacy"
    /\ op = "probe" => Meta(Active).probe
    /\ StartTurn([On(op) EXCEPT !.pc = "read"])

----------------------------------------------------------------------------
(* The write back *)

ReadMeta(n) ==
    /\ turn[n].pc = "read"
    /\ Goes(n, [turn[n] EXCEPT !.base = Meta(turn[n].th), !.pc = "write"])
    /\ UNCHANGED <<world, sweep, ghosts, counts>>

Lists == Answers \cup {"park"}

Written(n) ==
    CASE turn[n].op \in Lists      -> WithOffers(turn[n].base, turn[n].list)
      [] turn[n].op = "probe"      -> WithoutProbe(turn[n].base)
      [] turn[n].op = "override"   -> WithOverride(turn[n].base)
      [] OTHER                     -> turn[n].base

\* Offers of the same types the new ones take the place of.
Replaced(n) ==
    {o \in Offers : \E f \in turn[n].fresh : offer[f].type = offer[o].type} \ turn[n].fresh

\* What a write over the offers was leaves the owner to answer.
StandingAfter(n, was) ==
    CASE turn[n].op = "park"       -> (standing \ (Replaced(n) \cap was)) \cup turn[n].fresh
      [] turn[n].op \in Answers    -> standing \ {turn[n].o}
      [] OTHER                     -> standing

\* A writer for something else leaves offers out, and undoes what was parked since it
\* read. A park and an answer leave out what their list lacks: it came since they
\* read the list, or is in the single slot alone.
LeftOut(n, was) ==
    IF turn[n].op \in Lists
    THEN was \ (turn[n].list \cup Replaced(n) \cup {turn[n].o})
    ELSE was \ Pending(Written(n))

\* What a write of the offers is over the offers was puts back, answered as they are.
Back(is, was) == (is \ was) \ standing

Revives(back) ==
    /\ revived' = revived \cup back
    /\ excuse' = [o \in Offers |-> IF o \in back THEN excuse[o] + 1 ELSE excuse[o]]

WriteMeta(n) ==
    LET was == Pending(Meta(turn[n].th)) IN
    /\ turn[n].pc = "write"
    /\ Store(turn[n].th, Written(n))
    /\ standing' = StandingAfter(n, was)
    /\ dropped' = dropped \cup LeftOut(n, was)
    /\ Revives(Back(Pending(Written(n)) \ turn[n].fresh, was))
    /\ Goes(n, IdleTurn)
    /\ UNCHANGED <<routing, offer, parked, expired, sweep, made, calm, counts>>

----------------------------------------------------------------------------
(* Threads, and the sweep *)

\* /new, or the first activity after the idle horizon, when all its offers have
\* expired: the thread is closed with what it holds and a new one is opened.
Turnover(idle) ==
    LET t == Active IN
    /\ lock = NoTurn /\ t < MaxThreads
    /\ idle => \A o \in Pending(Meta(t)) : o \in expired
    /\ thread' = [thread EXCEPT ![t].status = "closed", ![t + 1].status = "active"]
    /\ UNCHANGED <<routing, offer, parked, expired, turn, lock, sweep, ghosts, counts>>

\* attachPendingProbe
SweepReads ==
    /\ sweep.pc = "idle" /\ sweeps < MaxSweeps
    /\ sweeps' = sweeps + 1
    /\ sweep' = [pc |-> "write", th |-> Active, base |-> Meta(Active)]
    /\ UNCHANGED <<world, turn, lock, ghosts, turns, upsets>>

\* The whole value is written back, with whatever a turn has changed undone.
SweepWrites ==
    LET was == Pending(Meta(sweep.th))
        is == Pending(sweep.base)
    IN
    /\ sweep.pc = "write"
    /\ Store(sweep.th, WithProbe(sweep.base))
    /\ dropped' = dropped \cup (was \ is)
    /\ Revives(Back(is, was))
    /\ sweep' = IdleSweep /\ calm' = FALSE
    /\ UNCHANGED <<routing, offer, parked, expired, turn, lock, made, standing, counts>>

----------------------------------------------------------------------------
(* Upsets *)

\* The connection that holds the lock is lost: the database frees it, the turn that
\* took it does not know and goes on.
LoseLock ==
    /\ lock # NoTurn /\ Upset
    /\ lock' = NoTurn /\ calm' = FALSE
    /\ UNCHANGED <<world, turn, sweep, made, excuse, standing, dropped, revived, turns, sweeps>>

\* A turn that dies after it has carried an offer out leaves the offer parked.
TurnDies(n) ==
    /\ turn[n].pc # "idle" /\ Upset
    /\ excuse' = IF turn[n].applied /\ ~turn[n].beside
                 THEN [excuse EXCEPT ![turn[n].o] = @ + 1] ELSE excuse
    /\ Goes(n, IdleTurn) /\ calm' = FALSE
    /\ UNCHANGED <<world, sweep, made, standing, dropped, revived, turns, sweeps>>

SweepDies ==
    /\ sweep.pc # "idle" /\ Upset
    /\ sweep' = IdleSweep
    /\ UNCHANGED <<world, turn, lock, ghosts, turns, sweeps>>

\* A day passes, longer than any turn: every offer parked so far has expired.
Expire ==
    /\ Upset /\ \A n \in Turns : turn[n].pc = "idle"
    /\ expired' = 1..parked
    /\ UNCHANGED <<routing, thread, offer, parked, turn, lock, sweep, ghosts, turns, sweeps>>

\* The routing flag is flipped; offers parked under one are answered under the other.
\* A turn reads it once, when it begins.
Flip ==
    /\ Upset
    /\ routing' = IF routing = "legacy" THEN "single" ELSE "legacy"
    /\ UNCHANGED <<thread, offer, parked, expired, turn, lock, sweep, ghosts, turns, sweeps>>

----------------------------------------------------------------------------
Answer ==
    \E o \in Offers :
        \/ LegacyConfirm(o)
        \/ \E decline \in BOOLEAN : Resolve(o, decline)
        \/ \E bare, cancel \in BOOLEAN : Token(o, bare, cancel)

Next ==
    \/ \E types \in SUBSET Types : Park(types)
    \/ Answer
    \/ \E op \in {"probe", "override", "state"} : Touch(op)
    \/ \E n \in Turns : Apply(n) \/ ReadList(n) \/ ReadMeta(n) \/ WriteMeta(n) \/ TurnDies(n)
    \/ \E idle \in BOOLEAN : Turnover(idle)
    \/ SweepReads \/ SweepWrites
    \/ LoseLock \/ SweepDies \/ Expire \/ Flip

Spec == Init /\ [][Next]_vars

----------------------------------------------------------------------------
(* Properties *)

Metas == [list : SUBSET Offers, latest : Offers \cup {NoOffer}, probe : BOOLEAN]

TurnStates ==
    [pc : {"idle", "apply", "list", "read", "write"}, th : Threads \cup {NoThread},
     op : Lists \cup {"none", "probe", "override", "state"}, o : Offers \cup {NoOffer},
     list : SUBSET Offers, fresh : SUBSET Offers, base : Metas,
     applied : BOOLEAN, beside : BOOLEAN]

\* The shape of the metadata, of the turns and of the sweep: the single slot points
\* at the last entry of the list whenever there is one, a list has one offer per
\* type, one thread is active (setThreadPendingProposals, resolveActiveThread).
TypeOK ==
    /\ routing \in {"legacy", "single"}
    /\ thread \in [Threads -> [status : {"none", "active", "closed"}, meta : Metas]]
    /\ Cardinality({t \in Threads : thread[t].status = "active"}) = 1
    /\ \A t \in Threads :
          LET m == Meta(t) IN
          /\ m.list # {} => m.latest = LastOf(m.list)
          /\ \A o, p \in m.list : offer[o].type = offer[p].type => o = p
    /\ offer \in [Offers -> [type : Types \cup {"none"}, th : Threads \cup {NoThread},
                             token : BOOLEAN]]
    /\ parked \in 0..MaxOffers /\ expired \subseteq 1..parked
    /\ turn \in [Turns -> TurnStates] /\ lock \in Turns \cup {NoTurn}
    /\ sweep \in [pc : {"idle", "write"}, th : Threads \cup {NoThread}, base : Metas]
    /\ made \in [Offers -> Nat] /\ excuse \in [Offers -> Nat] /\ calm \in BOOLEAN
    /\ standing \cup dropped \cup revived \subseteq 1..parked
    /\ turns \in 0..MaxTurns /\ sweeps \in 0..MaxSweeps /\ upsets \in 0..MaxUpsets

\* What the owner agreed to once is carried out once, whichever lane takes the
\* answer and whichever routing parked the offer (executeResolutions, the confirm
\* lanes, removePark). A repeat needs a turn that died between carrying it out and
\* taking it out of the list, a second answer taken while a turn that has lost the
\* lock is still at the offer, or an older list written back after the answer; in a
\* calm run, with no lock lost, no death and no sweep, there is none.
AppliedOnce ==
    \A o \in Offers : made[o] <= 1 + excuse[o] /\ (calm => made[o] <= 1)

\* The lists say what the owner still has to answer: an offer neither answered nor
\* replaced is in a list unless a write that read before it came, or that was for
\* something else, left it out; an offer answered or replaced is in none unless an
\* older list was written back, which takes a sweep or a turn that works without
\* the lock (setThreadPendingProposals and its callers).
OffersMatchAnswers ==
    LET listed == UNION {Pending(Meta(t)) : t \in Threads} IN
    /\ standing \subseteq listed \cup dropped
    /\ listed \subseteq standing \cup revived
    /\ calm => revived = {}

\* A writer of the probe keeps the offers (threads.ts:1199-1203: "sibling preservation").
ProbeKeepsOffers ==
    [][\A n \in Turns :
          turn[n].op = "probe" /\ thread'[turn[n].th] # thread[turn[n].th] /\ sweep' = sweep
             => Pending(turn[n].base) \subseteq Pending(thread'[turn[n].th].meta)]_vars
=============================================================================
