------------------------------- MODULE Sensor -------------------------------
(***************************************************************************)
(* The iMessage sensor and the ingest it feeds. The sensor                 *)
(* (apps/imessage-sensor) reads the rows of chat.db behind its cursor,     *)
(* posts them in batches and moves the cursor once the answer is back; the *)
(* server (core/imessage/service.ts) stores each row once and starts a     *)
(* conversation turn for each message it has taken in for the first time.  *)
(*                                                                         *)
(* Only messages from the paired handle are modelled. A row's text is in   *)
(* its text column, in a body that decodes, or in one that does not.       *)
(***************************************************************************)
EXTENDS Naturals, Sequences, FiniteSets, FiniteSetsExt, SequencesExt

CONSTANTS
    MaxMessages,     \* messages that arrive
    BatchCap,        \* config.batchCap
    DriftThreshold,  \* config.driftThreshold
    MaxUpsets,       \* crashes, lost calls and answers, resets
    Acks             \* config.rebaseline: rowids an operator acknowledges; the
                     \* greatest there can be stands for "explicit-max-rowid"

ASSUME SensorAssumption ==
    /\ MaxMessages \in Nat /\ MaxUpsets \in Nat
    /\ BatchCap \in Nat \ {0} /\ DriftThreshold \in Nat \ {0}
    /\ Acks \subseteq 0..MaxMessages

VARIABLES
    body,       \* what each message that arrived carries
    db,         \* the message table: the message at each rowid
    disk,       \* the cursor in the state file
    sensor,     \* the sensor process
    accepted,   \* imessage_transport_events: messages stored
    pending,    \* messages of committed batches whose turn has not run
    turns,      \* turns started for each message
    skipped,    \* messages a baseline or an acknowledged rebaseline left behind
    overtaken,  \* messages that got a rowid the cursor had already passed
    upsets

vars == <<body, db, disk, sensor, accepted, pending, turns, skipped, overtaken, upsets>>

Messages == 1..MaxMessages
Bodies == {"text", "blob", "bad"}
NoFile == MaxMessages + 1
NoAck == MaxMessages + 1

Rows == ToSet(db)

Off == [pc |-> "down", cursor |-> 0, run |-> 0, stopped |-> FALSE, alerted |-> FALSE,
        ack |-> NoAck, paired |-> FALSE, batch |-> <<>>, fresh |-> {}]

Init ==
    /\ body = <<>> /\ db = <<>> /\ disk = NoFile /\ sensor = Off
    /\ accepted = {} /\ pending = {} /\ turns = [m \in Messages |-> 0]
    /\ skipped = {} /\ overtaken = {} /\ upsets = 0

Upset == upsets < MaxUpsets /\ upsets' = upsets + 1

----------------------------------------------------------------------------
(* chat.db *)

\* The last rowid the cursor stands on or is about to.
Reach ==
    IF sensor.pc = "down" THEN (IF disk = NoFile THEN 0 ELSE disk)
    ELSE sensor.cursor + Len(sensor.batch)

Arrive(b) ==
    LET m == Len(body) + 1 IN
    /\ m \in Messages
    /\ body' = Append(body, b)
    /\ db' = Append(db, m)
    /\ overtaken' = IF Len(db') <= Reach THEN overtaken \cup {m} ELSE overtaken
    /\ UNCHANGED <<disk, sensor, accepted, pending, turns, skipped, upsets>>

\* The table is replaced by an older one, or its newest rows are deleted.
Reset ==
    /\ Upset
    /\ \E n \in 0..(Len(db) - 1) : db' = SubSeq(db, 1, n)
    /\ UNCHANGED <<body, disk, sensor, accepted, pending, turns, skipped, overtaken>>

----------------------------------------------------------------------------
(* The sensor *)

\* A health post primes the cache of paired handles; one that fails empties it.
Primed(s) ==
    \/ sensor' = [s EXCEPT !.paired = TRUE] /\ UNCHANGED upsets
    \/ sensor' = [s EXCEPT !.paired = FALSE] /\ Upset

\* The first start stands on the newest row; a chat.db that does not open leaves
\* the cursor at the beginning, in memory only and without a first health post.
Start(ack) ==
    LET up(c) == [Off EXCEPT !.pc = "idle", !.cursor = c, !.ack = ack] IN
    /\ sensor.pc = "down"
    /\ \/ /\ disk # NoFile
          /\ Primed(up(disk)) /\ UNCHANGED <<disk, skipped>>
       \/ /\ disk = NoFile
          /\ disk' = Len(db) /\ skipped' = skipped \cup Rows
          /\ Primed(up(Len(db)))
       \/ /\ disk = NoFile
          /\ Upset /\ sensor' = up(0) /\ UNCHANGED <<disk, skipped>>
    /\ UNCHANGED <<body, db, accepted, pending, turns, overtaken>>

\* A cycle that cannot open chat.db, or finds columns missing, only posts its health.
CannotOpen ==
    /\ sensor.pc = "idle" /\ Upset
    /\ \E p \in BOOLEAN : sensor' = [sensor EXCEPT !.paired = p]
    /\ UNCHANGED <<body, db, disk, accepted, pending, turns, skipped, overtaken>>

\* The newest row is below the cursor: the sensor stops, or, when the operator has
\* acknowledged the gap, goes back to the row named or to the newest, and reads on.
ResetCycle ==
    LET target == Min({sensor.ack, Len(db)}) IN
    /\ sensor.pc = "idle" /\ Len(db) < sensor.cursor
    /\ IF sensor.ack # NoAck
       THEN /\ disk' = target /\ skipped' = skipped \cup ToSet(SubSeq(db, 1, target))
            /\ sensor' = [sensor EXCEPT !.cursor = target, !.alerted = FALSE]
       ELSE /\ sensor' = [sensor EXCEPT !.pc = "beat", !.alerted = TRUE]
            /\ UNCHANGED <<disk, skipped>>
    /\ UNCHANGED <<body, db, accepted, pending, turns, overtaken, upsets>>

Batch == SubSeq(db, sensor.cursor + 1, Min({sensor.cursor + BatchCap, Len(db)}))

\* Consecutive decode failures: those after the last success of the batch, or
\* all of them on top of the earlier ones when none succeeded. Rows with a text
\* are not decoded and count neither way.
Failures(batch, run) ==
    LET tried == SelectSeq(batch, LAMBDA m : body[m] # "text")
        good == {i \in DOMAIN tried : body[tried[i]] = "blob"}
    IN  IF good = {} THEN run + Len(tried) ELSE Len(tried) - Max(good)

\* A batch is read; it is posted unless the decoder has drifted.
PollCycle ==
    LET run == Failures(Batch, sensor.run)
        capped == Min({run, DriftThreshold})
        stopped == run >= DriftThreshold
    IN
    /\ sensor.pc = "idle" /\ Len(db) >= sensor.cursor
    /\ sensor' = [sensor EXCEPT
          !.run = capped, !.stopped = stopped,
          !.pc = IF Batch # <<>> /\ ~stopped THEN "post" ELSE "beat",
          !.batch = IF stopped THEN <<>> ELSE Batch]
    /\ UNCHANGED <<body, db, disk, accepted, pending, turns, skipped, overtaken, upsets>>

Heartbeat ==
    LET s == [sensor EXCEPT !.pc = "idle"] IN
    /\ sensor.pc = "beat"
    /\ \/ sensor' = s /\ UNCHANGED upsets    \* not due yet
       \/ Primed(s)
    /\ UNCHANGED <<body, db, disk, accepted, pending, turns, skipped, overtaken>>

\* The answer is back: the cursor moves over the batch, in memory and on disk.
\* Fault: a batch of duplicates alone does not move it.
Advance_IfAccepted ==
    LET c == IF sensor.fresh = {} THEN sensor.cursor
             ELSE sensor.cursor + Len(sensor.batch) IN
    /\ sensor' = [sensor EXCEPT !.pc = "beat", !.cursor = c, !.batch = <<>>, !.fresh = {}]
    /\ disk' = c

Advance ==
    LET c == sensor.cursor + Len(sensor.batch) IN
    /\ sensor' = [sensor EXCEPT !.pc = "beat", !.cursor = c, !.batch = <<>>, !.fresh = {}]
    /\ disk' = c

\* Fault: the cursor is moved before the answer is looked at.
Freeze_Moves ==
    [sensor EXCEPT !.pc = "beat", !.cursor = @ + Len(sensor.batch), !.batch = <<>>, !.fresh = {}]

\* No answer: the cursor stays, the rows are read again in the next cycle.
Freeze == [sensor EXCEPT !.pc = "beat", !.batch = <<>>, !.fresh = {}]

----------------------------------------------------------------------------
(* Ingest *)

\* The rows are stored in one transaction, each guid once. A message with its
\* text is routed to a turn only when its row is new; the sensor sends the text
\* of a paired handle alone.
Routed(new) == {m \in new : sensor.paired /\ body[m] # "bad"}

Ingest ==
    LET new == ToSet(sensor.batch) \ accepted IN
    /\ sensor.pc = "post"
    /\ accepted' = accepted \cup new
    /\ pending' = pending \cup Routed(new)
    /\ sensor' = [sensor EXCEPT !.pc = "wait", !.fresh = new]
    /\ UNCHANGED <<body, db, disk, turns, skipped, overtaken, upsets>>

\* Turns run after the commit; the text is in memory only.
RunTurn(m) ==
    /\ m \in pending
    /\ turns' = [turns EXCEPT ![m] = @ + 1]
    /\ pending' = pending \ {m}
    /\ UNCHANGED <<body, db, disk, sensor, accepted, skipped, overtaken, upsets>>

\* The answer follows the last turn of the batch.
Answer ==
    /\ sensor.pc = "wait" /\ sensor.fresh \cap pending = {}
    /\ Advance
    /\ UNCHANGED <<body, db, accepted, pending, turns, skipped, overtaken, upsets>>

\* The post fails before it arrives, or its answer is lost; the server goes on.
PostFails ==
    /\ sensor.pc \in {"post", "wait"} /\ Upset
    /\ sensor' = Freeze
    /\ UNCHANGED <<body, db, disk, accepted, pending, turns, skipped, overtaken>>

----------------------------------------------------------------------------
(* Crashes *)

SensorCrash ==
    /\ sensor.pc # "down" /\ Upset
    /\ sensor' = Off
    /\ UNCHANGED <<body, db, disk, accepted, pending, turns, skipped, overtaken>>

\* The texts of messages whose turn has not run are gone with the process.
ServerCrash ==
    /\ pending # {} /\ Upset
    /\ pending' = {}
    /\ sensor' = IF sensor.pc = "wait" THEN Freeze ELSE sensor
    /\ UNCHANGED <<body, db, disk, accepted, turns, skipped, overtaken>>

----------------------------------------------------------------------------
Cycle == ResetCycle \/ PollCycle
Starts == \E ack \in Acks \cup {NoAck} : Start(ack)
Turn == \E m \in Messages : RunTurn(m)

Next ==
    \/ \E b \in Bodies : Arrive(b)
    \/ Reset \/ Starts \/ CannotOpen \/ Cycle \/ Heartbeat
    \/ Ingest \/ Turn \/ Answer \/ PostFails
    \/ SensorCrash \/ ServerCrash

\* The sensor is kept alive and loops for ever, the server serves what it has
\* received; nothing is promised of arrivals and upsets.
Fairness ==
    /\ WF_vars(Starts) /\ WF_vars(Cycle) /\ WF_vars(Heartbeat)
    /\ WF_vars(Ingest) /\ WF_vars(Turn) /\ WF_vars(Answer)

Spec == Init /\ [][Next]_vars /\ Fairness

----------------------------------------------------------------------------
(* Properties *)

\* The shape of the state: a batch is what follows the cursor, an answer is
\* awaited only for what was stored, only stored messages have turns
\* (runSensorCycle, ingestBatch).
TypeOK ==
    /\ body \in BoundedSeq(Bodies, MaxMessages)
    /\ db \in BoundedSeq(Messages, MaxMessages) /\ Rows \subseteq DOMAIN body
    /\ disk \in 0..MaxMessages \cup {NoFile}
    /\ sensor \in [pc : {"down", "idle", "post", "wait", "beat"}, cursor : 0..MaxMessages,
                   run : 0..DriftThreshold, stopped : BOOLEAN, alerted : BOOLEAN,
                   ack : Acks \cup {NoAck}, paired : BOOLEAN,
                   batch : BoundedSeq(Messages, BatchCap), fresh : SUBSET Messages]
    /\ sensor.pc \in {"post", "wait"} <=> sensor.batch # <<>>
    /\ sensor.fresh \subseteq accepted /\ pending \subseteq accepted
    /\ turns \in [Messages -> Nat] /\ \A m \in Messages : turns[m] > 0 => m \in accepted
    /\ upsets \in 0..MaxUpsets

\* At least once on the wire, exactly once behind it: the cursor, in memory and
\* in the state file, has passed no row that the server has not stored, but for
\* rows left behind on purpose and rows a replaced chat.db put under it; and no
\* message starts two turns, however often its row is posted (ingestBatch's
\* "Dedupe on guid (at-least-once -> exactly-once)").
ExactlyOnce ==
    /\ \A c \in {sensor.cursor, disk} \ {NoFile} :
          \A i \in 1..Len(db) : i <= c => db[i] \in accepted \cup skipped \cup overtaken
    /\ \A m \in Messages : turns[m] <= 1

\* A message that has arrived is in the end stored, unless the table loses it, a
\* baseline leaves it behind, or the sensor has stopped itself: drifted, or
\* waiting for a reset to be acknowledged (runSensorLoop's retries).
BacklogIsForwarded ==
    \A m \in Messages :
        (m \in Rows) ~> \/ m \in accepted \cup skipped \cup overtaken
                        \/ m \notin Rows \/ sensor.stopped \/ sensor.alerted
=============================================================================
