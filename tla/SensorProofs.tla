---------------------------- MODULE SensorProofs ----------------------------
(***************************************************************************)
(* What the sensor's cursor passes is stored, and a stored message starts  *)
(* one turn, for every number of messages, every batch size, drift         *)
(* threshold and number of upsets.                                         *)
(*                                                                         *)
(* The property is not inductive: the cursor moves by the length of a      *)
(* batch that was read earlier, and chat.db may have been replaced since.  *)
(* The invariant follows the batch: what stands in its place now is the    *)
(* message that was read, or one that came into a replaced table under it. *)
(* Nothing is said of the decoder's count, on which safety does not rest.  *)
(***************************************************************************)
EXTENDS Sensor, SequenceTheorems, TLAPS

\* The sensor is a record of these fields, started with one of the acknowledgements.
Shape ==
    /\ sensor = [pc |-> sensor.pc, cursor |-> sensor.cursor, run |-> sensor.run,
                 stopped |-> sensor.stopped, alerted |-> sensor.alerted, ack |-> sensor.ack,
                 paired |-> sensor.paired, batch |-> sensor.batch, fresh |-> sensor.fresh]
    /\ sensor.ack \in Acks \cup {NoAck}

Kept == accepted \cup skipped \cup overtaken

\* Every row up to c is stored, or was left behind or overtaken.
Passed(c) == \A i \in 1..Len(db) : i <= c => db[i] \in Kept

Typed ==
    /\ body \in Seq(Bodies) /\ Len(body) <= MaxMessages
    /\ db \in Seq(Messages) /\ Len(db) <= Len(body)
    /\ disk \in 0..MaxMessages \cup {NoFile}
    /\ sensor.cursor \in 0..MaxMessages /\ sensor.batch \in Seq(Messages)
    /\ sensor.cursor + Len(sensor.batch) <= MaxMessages
    /\ accepted \subseteq Messages /\ pending \subseteq accepted
    /\ turns \in [Messages -> Nat]

\* A turn is owed or has been run, for stored messages only.
TurnInv == \A m \in Messages : /\ turns[m] <= 1
                               /\ turns[m] > 0 => m \in accepted \ pending

\* A running sensor agrees with its file, and holds a batch only between the
\* read and the answer.
CursorInv ==
    /\ IF sensor.pc = "down" THEN sensor.cursor = 0 ELSE disk \in {NoFile, sensor.cursor}
    /\ sensor.pc \notin {"post", "wait"} => sensor.batch = <<>>
    /\ Passed(sensor.cursor) /\ (disk # NoFile => Passed(disk))

\* Where the batch was read there is the batch, or what overtook it.
BatchInv ==
    /\ \A j \in 1..Len(sensor.batch) :
          sensor.cursor + j <= Len(db) =>
             db[sensor.cursor + j] \in {sensor.batch[j]} \cup overtaken
    /\ sensor.pc = "wait" => \A j \in 1..Len(sensor.batch) : sensor.batch[j] \in accepted

IInv == Shape /\ Typed /\ TurnInv /\ CursorInv /\ BatchInv

-----------------------------------------------------------------------------
(* Lemmas *)

\* The smaller of two numbers.
LEMMA MinOfTwo ==
    ASSUME NEW a \in Nat, NEW b \in Nat
    PROVE  Min({a, b}) \in {a, b} /\ Min({a, b}) <= a /\ Min({a, b}) <= b
<1>1. \E x \in {a, b} : \A y \in {a, b} : x <= y
  <2>1. CASE a <= b
    BY <2>1
  <2>2. CASE b <= a
    BY <2>2
  <2>. QED
    BY <2>1, <2>2
<1>2. Min({a, b}) \in {a, b} /\ \A y \in {a, b} : Min({a, b}) <= y
  BY <1>1, Zenon DEF Min
<1>. QED
  BY <1>2

\* The batch that is read is what follows the cursor.
LEMMA BatchFollows ==
    ASSUME IInv, Len(db) >= sensor.cursor
    PROVE  /\ Batch \in Seq(Messages)
           /\ sensor.cursor + Len(Batch) <= Len(db)
           /\ \A j \in 1..Len(Batch) : Batch[j] = db[sensor.cursor + j]
<1> DEFINE n == Min({sensor.cursor + BatchCap, Len(db)})
<1>1. /\ sensor.cursor \in Nat /\ Len(db) \in Nat /\ BatchCap \in Nat
      /\ db \in Seq(Messages)
  BY SensorAssumption DEF IInv, Typed
<1>2. n \in {sensor.cursor + BatchCap, Len(db)} /\ n <= Len(db)
  BY <1>1, MinOfTwo
<1>3. n \in Nat /\ sensor.cursor <= n
  BY <1>1, <1>2
<1>4. Batch = SubSeq(db, sensor.cursor + 1, n)
  BY DEF Batch
<1> HIDE DEF n
<1>5. /\ Batch \in Seq(Messages) /\ Len(Batch) = n - sensor.cursor
      /\ \A j \in 1..Len(Batch) : Batch[j] = db[sensor.cursor + j]
  <2>1. sensor.cursor + 1 \in Int /\ n \in Int
    BY <1>1, <1>3
  <2>2. \A i \in (sensor.cursor + 1)..n : db[i] \in Messages
    BY <1>1, <1>2, <1>3
  <2>3. /\ Batch \in Seq(Messages)
        /\ Len(Batch) = IF sensor.cursor + 1 <= n THEN n - (sensor.cursor + 1) + 1 ELSE 0
        /\ \A j \in 1..(n - (sensor.cursor + 1) + 1) :
              Batch[j] = db[(sensor.cursor + 1) + j - 1]
    BY <1>4, <2>1, <2>2, SubSeqProperties
  <2>4. Len(Batch) = n - sensor.cursor
    BY <1>1, <1>3, <2>3
  <2>5. ASSUME NEW j \in 1..Len(Batch)
        PROVE  Batch[j] = db[sensor.cursor + j]
    <3>1. /\ j \in 1..(n - (sensor.cursor + 1) + 1)
          /\ (sensor.cursor + 1) + j - 1 = sensor.cursor + j
      BY <1>1, <1>3, <2>4
    <3>. QED
      BY <2>3, <3>1
  <2>. QED
    BY <2>3, <2>4, <2>5
<1>. QED
  BY <1>1, <1>2, <1>3, <1>5

\* A step that changes the sensor alone keeps the invariant when the batch stays
\* or is dropped and the cursor stays.
LEMMA SensorStep ==
    ASSUME IInv, UNCHANGED <<body, db, disk, accepted, turns, skipped, overtaken>>,
           pending' \subseteq pending, Shape',
           sensor'.cursor = sensor.cursor, sensor'.pc \in {"idle", "beat"},
           sensor.pc # "down", sensor'.batch = <<>>
    PROVE  IInv'
<1> USE DEF IInv
<1>1. Typed' /\ TurnInv'
  BY DEF Typed, TurnInv
<1>2. CursorInv'
  BY DEF CursorInv, Passed, Kept
<1>3. BatchInv'
  BY DEF BatchInv
<1>. QED
  BY <1>1, <1>2, <1>3

-----------------------------------------------------------------------------
(* The steps *)

LEMMA InitIInv == Init => IInv
<1> SUFFICES ASSUME Init PROVE IInv
  OBVIOUS
<1>1. Shape /\ Typed
  BY SensorAssumption DEF Init, Off, Shape, Typed, Messages, Bodies
<1>2. TurnInv /\ CursorInv /\ BatchInv
  BY SensorAssumption DEF Init, Off, TurnInv, CursorInv, BatchInv, Passed
<1>. QED
  BY <1>1, <1>2 DEF IInv

\* A message that gets a rowid within reach of the cursor is overtaken.
LEMMA ArriveStep ==
    ASSUME IInv, NEW b \in Bodies, Arrive(b)
    PROVE  IInv'
<1> USE DEF IInv
<1> DEFINE m == Len(body) + 1
<1>1. /\ m \in Messages /\ db' = Append(db, m) /\ body' = Append(body, b)
      /\ UNCHANGED <<disk, sensor, accepted, pending, turns, skipped, upsets>>
      /\ overtaken' = IF Len(db') <= Reach THEN overtaken \cup {m} ELSE overtaken
  BY DEF Arrive
<1>2. /\ db' \in Seq(Messages) /\ Len(db') = Len(db) + 1 /\ db'[Len(db) + 1] = m
      /\ \A i \in 1..Len(db) : db'[i] = db[i]
      /\ body' \in Seq(Bodies) /\ Len(body') = Len(body) + 1
      /\ Len(db) \in Nat /\ Len(body) \in Nat
  BY <1>1 DEF Typed
<1> HIDE DEF m
<1>3. Shape' /\ Typed' /\ TurnInv'
  <2>1. Len(body') <= MaxMessages
    BY <1>1, <1>2, SensorAssumption DEF m, Messages
  <2>. QED
    BY <1>1, <1>2, <2>1 DEF Shape, Typed, TurnInv
<1>4. /\ sensor.cursor <= Reach /\ (disk # NoFile => disk <= Reach)
      /\ sensor.cursor + Len(sensor.batch) <= Reach
      /\ Reach \in Nat
  <2>0. sensor.cursor \in Nat /\ Len(sensor.batch) \in Nat /\ (disk # NoFile => disk \in Nat)
    BY SensorAssumption DEF Typed
  <2>1. CASE sensor.pc = "down"
    <3>1. sensor.cursor = 0 /\ Len(sensor.batch) = 0
      BY <2>1 DEF CursorInv
    <3>2. Reach = IF disk = NoFile THEN 0 ELSE disk
      BY <2>1 DEF Reach
    <3>. QED
      BY <2>0, <3>1, <3>2
  <2>2. CASE sensor.pc # "down"
    BY <2>0, <2>2 DEF CursorInv, Reach
  <2>. QED
    BY <2>1, <2>2
<1>5. ASSUME NEW c \in Nat, Passed(c), c <= Reach
      PROVE  Passed(c)'
  <2> SUFFICES ASSUME NEW i \in 1..Len(db'), i <= c
               PROVE  db'[i] \in Kept'
    BY DEF Passed
  <2>1. CASE i <= Len(db)
    BY <1>1, <1>2, <1>5, <2>1 DEF Passed, Kept
  <2>2. CASE i = Len(db) + 1
    BY <1>1, <1>2, <1>4, <1>5, <2>2 DEF Kept
  <2>. QED
    BY <1>2, <2>1, <2>2
<1>6. CursorInv'
  <2>1. sensor.cursor \in Nat /\ (disk # NoFile => disk \in Nat)
    BY SensorAssumption DEF Typed
  <2>. QED
    BY <1>1, <1>4, <1>5, <2>1 DEF CursorInv
<1>7. BatchInv'
  <2>1. ASSUME NEW j \in 1..Len(sensor.batch), sensor.cursor + j <= Len(db')
        PROVE  db'[sensor.cursor + j] \in {sensor.batch[j]} \cup overtaken'
    <3>1. sensor.cursor \in Nat /\ Len(sensor.batch) \in Nat
      BY DEF Typed
    <3>2. CASE sensor.cursor + j <= Len(db)
      BY <1>1, <1>2, <3>1, <3>2 DEF BatchInv
    <3>3. CASE sensor.cursor + j = Len(db) + 1
      BY <1>1, <1>2, <1>4, <3>1, <3>3
    <3>. QED
      BY <1>2, <2>1, <3>1, <3>2, <3>3
  <2>. QED
    BY <1>1, <2>1 DEF BatchInv
<1>. QED
  BY <1>3, <1>6, <1>7

LEMMA ResetStep ==
    ASSUME IInv, Reset
    PROVE  IInv'
<1> USE DEF IInv
<1>1. PICK n \in 0..(Len(db) - 1) : db' = SubSeq(db, 1, n)
  BY DEF Reset
<1>2. UNCHANGED <<body, disk, sensor, accepted, pending, turns, skipped, overtaken>>
  BY DEF Reset
<1>3. /\ db' \in Seq(Messages) /\ Len(db') = n /\ \A i \in 1..n : db'[i] = db[i]
      /\ Len(db) \in Nat /\ n \in Nat /\ n <= Len(db) /\ Len(body) \in Nat
  BY <1>1 DEF Typed
<1>4. Shape' /\ Typed' /\ TurnInv'
  BY <1>2, <1>3 DEF Shape, Typed, TurnInv
<1>5. CursorInv'
  BY <1>2, <1>3 DEF CursorInv, Passed, Kept
<1>6. BatchInv'
  <2>1. ASSUME NEW j \in 1..Len(sensor.batch), sensor.cursor + j <= n
        PROVE  db'[sensor.cursor + j] \in {sensor.batch[j]} \cup overtaken
    <3>1. sensor.cursor + j \in 1..n
      <4>1. sensor.cursor \in Nat /\ Len(sensor.batch) \in Nat /\ j \in Nat /\ j >= 1
        BY DEF Typed
      <4>. QED
        BY <1>3, <2>1, <4>1
    <3>. QED
      BY <1>3, <2>1, <3>1 DEF BatchInv
  <2>. QED
    BY <1>2, <1>3, <2>1 DEF BatchInv
<1>. QED
  BY <1>4, <1>5, <1>6

\* A start takes up the file, or stands on the newest row and leaves the rows
\* behind, or begins at the beginning.
LEMMA StartStep ==
    ASSUME IInv, NEW ack \in Acks \cup {NoAck}, Start(ack)
    PROVE  IInv'
<1> USE DEF IInv
<1> DEFINE up(c) == [Off EXCEPT !.pc = "idle", !.cursor = c, !.ack = ack]
<1>1. PICK c \in {0, disk, Len(db)} :
        /\ \/ sensor' = up(c) \/ sensor' = [up(c) EXCEPT !.paired = TRUE]
           \/ sensor' = [up(c) EXCEPT !.paired = FALSE]
        /\ \/ disk # NoFile /\ c = disk /\ UNCHANGED <<disk, skipped>>
           \/ disk = NoFile /\ c = Len(db) /\ disk' = c /\ skipped' = skipped \cup Rows
           \/ disk = NoFile /\ c = 0 /\ UNCHANGED <<disk, skipped>>
  <2>1. CASE disk # NoFile
    BY <2>1 DEF Start, Primed
  <2>2. CASE disk = NoFile
    BY <2>2 DEF Start, Primed
  <2>. QED
    BY <2>1, <2>2
<1>2. UNCHANGED <<body, db, accepted, pending, turns, overtaken>>
  BY DEF Start
<1>3. c \in 0..MaxMessages
  BY <1>1, SensorAssumption DEF Typed, NoFile
<1>4. Shape' /\ sensor'.cursor = c /\ sensor'.pc = "idle" /\ sensor'.batch = <<>>
  BY <1>1 DEF Off, Shape
<1>5. Typed' /\ TurnInv'
  BY <1>1, <1>2, <1>3, <1>4, SensorAssumption DEF Typed, TurnInv
<1>6. Passed(c)'
  <2>1. CASE UNCHANGED skipped
    BY <1>1, <1>2, <1>3, <2>1 DEF CursorInv, Passed, Kept, Rows, ToSet
  <2>2. CASE skipped' = skipped \cup Rows
    <3>1. \A i \in 1..Len(db) : db[i] \in Rows
      BY DEF Rows, ToSet, Typed
    <3>. QED
      BY <1>2, <2>2, <3>1 DEF Passed, Kept
  <2>. QED
    BY <1>1, <2>1, <2>2
<1>7. CursorInv'
  BY <1>1, <1>4, <1>6 DEF CursorInv
<1>8. BatchInv'
  BY <1>4 DEF BatchInv
<1>. QED
  BY <1>4, <1>5, <1>7, <1>8

LEMMA CannotOpenStep ==
    ASSUME IInv, CannotOpen
    PROVE  IInv'
<1>1. /\ sensor.pc = "idle" /\ sensor.batch = <<>>
      /\ UNCHANGED <<body, db, disk, accepted, pending, turns, skipped, overtaken>>
  BY DEF CannotOpen, IInv, CursorInv
<1>2. PICK p \in BOOLEAN : sensor' = [sensor EXCEPT !.paired = p]
  BY DEF CannotOpen
<1>3. /\ Shape' /\ sensor'.cursor = sensor.cursor /\ sensor'.pc = "idle"
      /\ sensor'.batch = <<>>
  BY <1>1, <1>2 DEF IInv, Shape
<1>. QED
  BY <1>1, <1>3, SensorStep

\* The rows up to the one acknowledged are left behind; those after it are read again.
LEMMA ResetCycleStep ==
    ASSUME IInv, ResetCycle
    PROVE  IInv'
<1> USE DEF IInv
<1>1. /\ sensor.pc = "idle" /\ sensor.batch = <<>>
      /\ UNCHANGED <<body, db, accepted, pending, turns, overtaken>>
  BY DEF ResetCycle, CursorInv
<1>2. CASE sensor.ack = NoAck
  <2>1. sensor' = [sensor EXCEPT !.pc = "beat", !.alerted = TRUE] /\ UNCHANGED <<disk, skipped>>
    BY <1>2 DEF ResetCycle
  <2>2. /\ Shape' /\ sensor'.cursor = sensor.cursor /\ sensor'.pc = "beat"
        /\ sensor'.batch = <<>>
    BY <1>1, <2>1 DEF Shape
  <2>. QED
    BY <1>1, <2>1, <2>2, SensorStep
<1>3. CASE sensor.ack # NoAck
  <2>1. PICK c : c = Min({sensor.ack, Len(db)})
    OBVIOUS
  <2>2. /\ sensor' = [sensor EXCEPT !.cursor = c, !.alerted = FALSE]
        /\ disk' = c /\ skipped' = skipped \cup ToSet(SubSeq(db, 1, c))
    BY <1>3, <2>1 DEF ResetCycle
  <2>3. Shape' /\ sensor'.cursor = c /\ sensor'.pc = "idle" /\ sensor'.batch = <<>>
    BY <1>1, <2>2 DEF Shape
  <2>4. db \in Seq(Messages) /\ Len(db) \in Nat /\ Len(db) <= MaxMessages /\ MaxMessages \in Nat
    BY SensorAssumption DEF Typed
  <2>5. c \in Nat /\ c <= Len(db)
    <3>1. PICK k : k = sensor.ack
      OBVIOUS
    <3>2. k \in Nat
      BY <1>3, <3>1, SensorAssumption DEF Shape
    <3>3. Min({k, Len(db)}) \in {k, Len(db)} /\ Min({k, Len(db)}) <= Len(db)
      BY <2>4, <3>2, MinOfTwo
    <3>. QED
      BY <2>1, <2>4, <3>1, <3>2, <3>3
  <2>6. Typed' /\ TurnInv'
    <3>1. sensor'.cursor + Len(sensor'.batch) <= MaxMessages /\ c \in 0..MaxMessages
      BY <2>3, <2>4, <2>5
    <3>. QED
      BY <1>1, <2>2, <2>3, <3>1 DEF Typed, TurnInv
  <2>7. \A i \in 1..Len(db) : i <= c => db[i] \in ToSet(SubSeq(db, 1, c))
    <3>1. PICK s : s = SubSeq(db, 1, c)
      OBVIOUS
    <3>2. s \in Seq(Messages) /\ Len(s) = c /\ \A i \in 1..c : s[i] = db[i]
      BY <2>4, <2>5, <3>1
    <3>3. \A i \in 1..c : s[i] \in ToSet(s)
      BY <3>2 DEF ToSet
    <3>. QED
      BY <2>5, <3>1, <3>2, <3>3
  <2>8. CursorInv' /\ BatchInv'
    BY <1>1, <2>2, <2>3, <2>7 DEF CursorInv, BatchInv, Passed, Kept
  <2>. QED
    BY <2>3, <2>6, <2>8
<1>. QED
  BY <1>2, <1>3

LEMMA PollCycleStep ==
    ASSUME IInv, PollCycle
    PROVE  IInv'
<1> USE DEF IInv
<1>1. /\ sensor.pc = "idle" /\ Len(db) >= sensor.cursor
      /\ UNCHANGED <<body, db, disk, accepted, pending, turns, skipped, overtaken>>
  BY DEF PollCycle
<1>2. PICK run, stopped :
        sensor' = [sensor EXCEPT
          !.run = run, !.stopped = stopped,
          !.pc = IF Batch # <<>> /\ ~stopped THEN "post" ELSE "beat",
          !.batch = IF stopped THEN <<>> ELSE Batch]
  BY DEF PollCycle
<1>3. Shape' /\ sensor'.cursor = sensor.cursor
  BY <1>2 DEF Shape
<1>4. \/ sensor'.pc = "beat" /\ sensor'.batch = <<>>
      \/ sensor'.pc = "post" /\ sensor'.batch = Batch
  BY <1>2 DEF Shape
<1>5. CASE sensor'.pc = "beat" /\ sensor'.batch = <<>>
  BY <1>1, <1>3, <1>5, SensorStep
<1>6. CASE sensor'.pc = "post" /\ sensor'.batch = Batch
  <2>1. /\ Batch \in Seq(Messages) /\ sensor.cursor + Len(Batch) <= Len(db)
        /\ \A j \in 1..Len(Batch) : Batch[j] = db[sensor.cursor + j]
    BY <1>1, BatchFollows
  <2>2. Len(db) \in Nat /\ Len(body) \in Nat /\ Len(Batch) \in Nat
    BY <2>1 DEF Typed
  <2>3. Typed' /\ TurnInv'
    BY <1>1, <1>3, <1>6, <2>1, <2>2, SensorAssumption DEF Typed, TurnInv
  <2>4. CursorInv'
    BY <1>1, <1>3, <1>6 DEF CursorInv, Passed, Kept
  <2>5. BatchInv'
    BY <1>1, <1>3, <1>6, <2>1 DEF BatchInv
  <2>. QED
    BY <1>3, <2>3, <2>4, <2>5
<1>. QED
  BY <1>4, <1>5, <1>6

LEMMA HeartbeatStep ==
    ASSUME IInv, Heartbeat
    PROVE  IInv'
<1>1. /\ sensor.pc = "beat" /\ sensor.batch = <<>>
      /\ UNCHANGED <<body, db, disk, accepted, pending, turns, skipped, overtaken>>
  BY DEF Heartbeat, IInv, CursorInv
<1>2. \/ sensor' = [sensor EXCEPT !.pc = "idle"]
      \/ \E p \in BOOLEAN : sensor' = [[sensor EXCEPT !.pc = "idle"] EXCEPT !.paired = p]
  BY DEF Heartbeat, Primed
<1>3. /\ Shape' /\ sensor'.cursor = sensor.cursor /\ sensor'.pc = "idle"
      /\ sensor'.batch = <<>>
  BY <1>1, <1>2 DEF IInv, Shape
<1>. QED
  BY <1>1, <1>3, SensorStep

\* Only a message stored for the first time is routed to a turn.
LEMMA IngestStep ==
    ASSUME IInv, Ingest
    PROVE  IInv'
<1> USE DEF IInv
<1> DEFINE new == ToSet(sensor.batch) \ accepted
<1>1. /\ sensor.pc = "post" /\ accepted' = accepted \cup new
      /\ pending' = pending \cup Routed(new)
      /\ sensor' = [sensor EXCEPT !.pc = "wait", !.fresh = new]
      /\ UNCHANGED <<body, db, disk, turns, skipped, overtaken, upsets>>
  BY DEF Ingest
<1>2. Routed(new) \subseteq new
  BY DEF Routed
<1>3. /\ \A j \in 1..Len(sensor.batch) : sensor.batch[j] \in ToSet(sensor.batch)
      /\ ToSet(sensor.batch) \subseteq Messages
  BY DEF ToSet, Typed
<1>4. /\ \A j \in 1..Len(sensor.batch) : sensor.batch[j] \in accepted'
      /\ accepted \subseteq accepted' /\ accepted' \subseteq Messages
      /\ pending' \subseteq accepted'
      /\ \A m \in pending' : m \in pending \/ m \notin accepted
  BY <1>1, <1>2, <1>3 DEF Typed
<1> HIDE DEF new
<1>5. /\ Shape' /\ sensor'.pc = "wait" /\ sensor'.cursor = sensor.cursor
      /\ sensor'.batch = sensor.batch
  BY <1>1 DEF Shape
<1>6. Typed' /\ TurnInv'
  BY <1>1, <1>4, <1>5 DEF Typed, TurnInv
<1>7. CursorInv'
  BY <1>1, <1>4, <1>5 DEF CursorInv, Passed, Kept
<1>8. BatchInv'
  BY <1>1, <1>4, <1>5 DEF BatchInv
<1>. QED
  BY <1>5, <1>6, <1>7, <1>8

LEMMA RunTurnStep ==
    ASSUME IInv, NEW m \in Messages, RunTurn(m)
    PROVE  IInv'
<1> USE DEF IInv
<1>1. /\ m \in pending /\ turns' = [turns EXCEPT ![m] = @ + 1] /\ pending' = pending \ {m}
      /\ UNCHANGED <<body, db, disk, sensor, accepted, skipped, overtaken, upsets>>
  BY DEF RunTurn
<1>2. turns[m] = 0 /\ m \in accepted
  BY <1>1 DEF TurnInv, Typed
<1>3. Shape' /\ Typed'
  BY <1>1 DEF Shape, Typed
<1>4. TurnInv'
  BY <1>1, <1>2 DEF TurnInv, Typed
<1>5. CursorInv' /\ BatchInv'
  BY <1>1 DEF CursorInv, BatchInv, Passed, Kept
<1>. QED
  BY <1>3, <1>4, <1>5

\* The cursor moves over a batch of which every row is stored, or overtaken.
LEMMA AnswerStep ==
    ASSUME IInv, Answer
    PROVE  IInv'
<1> USE DEF IInv
<1> DEFINE c == sensor.cursor + Len(sensor.batch)
<1>1. /\ sensor.pc = "wait" /\ disk' = c
      /\ sensor' = [sensor EXCEPT !.pc = "beat", !.cursor = c, !.batch = <<>>, !.fresh = {}]
      /\ UNCHANGED <<body, db, accepted, pending, turns, skipped, overtaken, upsets>>
  BY DEF Answer, Advance
<1>2. Shape' /\ sensor'.pc = "beat" /\ sensor'.cursor = c /\ sensor'.batch = <<>>
  BY <1>1 DEF Shape
<1>3. c \in 0..MaxMessages /\ sensor.cursor \in Nat /\ Len(sensor.batch) \in Nat
      /\ Len(db) \in Nat
  BY SensorAssumption DEF Typed
<1>4. Passed(c)
  <2> SUFFICES ASSUME NEW i \in 1..Len(db), i <= c
               PROVE  db[i] \in Kept
    BY DEF Passed
  <2>1. CASE i <= sensor.cursor
    BY <2>1 DEF CursorInv, Passed
  <2>2. CASE i > sensor.cursor
    <3> DEFINE j == i - sensor.cursor
    <3>1. j \in 1..Len(sensor.batch) /\ sensor.cursor + j = i
      BY <1>3, <2>2
    <3> HIDE DEF j
    <3>2. sensor.batch[j] \in accepted
      BY <1>1, <3>1 DEF BatchInv
    <3>3. db[i] \in {sensor.batch[j]} \cup overtaken
      BY <3>1 DEF BatchInv
    <3>. QED
      BY <3>2, <3>3 DEF Kept
  <2>. QED
    BY <1>3, <2>1, <2>2
<1> HIDE DEF c
<1>5. Typed' /\ TurnInv'
  BY <1>1, <1>2, <1>3, SensorAssumption DEF Typed, TurnInv
<1>6. CursorInv' /\ BatchInv'
  BY <1>1, <1>2, <1>4 DEF CursorInv, BatchInv, Passed, Kept
<1>. QED
  BY <1>2, <1>5, <1>6

LEMMA PostFailsStep ==
    ASSUME IInv, PostFails
    PROVE  IInv'
<1>1. /\ sensor.pc \in {"post", "wait"} /\ sensor' = Freeze
      /\ UNCHANGED <<body, db, disk, accepted, pending, turns, skipped, overtaken>>
  BY DEF PostFails
<1>2. /\ Shape' /\ sensor'.pc = "beat" /\ sensor'.cursor = sensor.cursor
      /\ sensor'.batch = <<>>
  BY <1>1 DEF IInv, Shape, Freeze
<1>. QED
  BY <1>1, <1>2, SensorStep

LEMMA SensorCrashStep ==
    ASSUME IInv, SensorCrash
    PROVE  IInv'
<1> USE DEF IInv
<1>1. /\ sensor' = Off
      /\ UNCHANGED <<body, db, disk, accepted, pending, turns, skipped, overtaken>>
  BY DEF SensorCrash
<1>2. Shape' /\ sensor'.pc = "down" /\ sensor'.cursor = 0 /\ sensor'.batch = <<>>
  BY <1>1 DEF Shape, Off
<1>3. Typed' /\ TurnInv'
  BY <1>1, <1>2, SensorAssumption DEF Typed, TurnInv
<1>4. Passed(0)
  BY DEF Passed
<1>5. CursorInv' /\ BatchInv'
  BY <1>1, <1>2, <1>4 DEF CursorInv, BatchInv, Passed, Kept
<1>. QED
  BY <1>2, <1>3, <1>5

LEMMA ServerCrashStep ==
    ASSUME IInv, ServerCrash
    PROVE  IInv'
<1> USE DEF IInv
<1>1. /\ pending' = {} /\ sensor' = IF sensor.pc = "wait" THEN Freeze ELSE sensor
      /\ UNCHANGED <<body, db, disk, accepted, turns, skipped, overtaken>>
  BY DEF ServerCrash
<1>2. CASE sensor.pc = "wait"
  <2>1. /\ Shape' /\ sensor'.pc = "beat" /\ sensor'.cursor = sensor.cursor
        /\ sensor'.batch = <<>>
    BY <1>1, <1>2 DEF Shape, Freeze
  <2>. QED
    BY <1>1, <1>2, <2>1, SensorStep
<1>3. CASE sensor.pc # "wait"
  BY <1>1, <1>3 DEF Shape, Typed, TurnInv, CursorInv, BatchInv, Passed, Kept
<1>. QED
  BY <1>2, <1>3

LEMMA NextIInv ==
    ASSUME IInv, [Next]_vars
    PROVE  IInv'
<1>1. CASE UNCHANGED vars
  BY <1>1 DEF vars, IInv, Shape, Typed, TurnInv, CursorInv, BatchInv, Passed, Kept
<1>. QED
  BY <1>1, ArriveStep, ResetStep, StartStep, CannotOpenStep, ResetCycleStep, PollCycleStep,
     HeartbeatStep, IngestStep, RunTurnStep, AnswerStep, PostFailsStep, SensorCrashStep,
     ServerCrashStep DEF Next, Starts, Cycle, Turn

-----------------------------------------------------------------------------
\* No row is lost behind the cursor and no message starts two turns, however the
\* sensor and the server crash, posts and answers are lost and chat.db is replaced
\* (runSensorCycle, ingestBatch).
THEOREM DeliveredExactlyOnce == Spec => []ExactlyOnce
<1>1. Spec => []IInv
  BY InitIInv, NextIInv, PTL DEF Spec
<1>2. IInv => ExactlyOnce
  BY DEF IInv, TurnInv, CursorInv, Passed, Kept, ExactlyOnce
<1>. QED
  BY <1>1, <1>2, PTL
=============================================================================
