-------------------------- MODULE WriteQueueProofs ---------------------------
(***************************************************************************)
(* For any threads, any faults and any ends of the process: one writer at  *)
(* a time answers for the log, no table that is needed is deleted, and the *)
(* logs are in the order of the calls.  But for two faults, what has been  *)
(* acknowledged is found again.                                            *)
(***************************************************************************)
EXTENDS WriteQueue, SequenceTheorems, TLAPS

Active == {"room", "delayed", "waiting for room", "append", "sync", "finish"}
Logging == {"append", "sync", "finish"}

-----------------------------------------------------------------------------
(* The queue *)

QueueType ==
  /\ queue \in Seq(Writers)
  /\ pc \in [Writers -> Places]
  /\ done \in [Writers -> {Nil, "ok", "error"}]

\* Whoever is not answered is still in the queue.
Unanswered == \A w \in Writers : pc[w] = "queued" /\ done[w] = Nil => w \in Elements(queue)

\* The group that is being written is a beginning of the queue.
GroupIsQueued == (\E w \in Writers : pc[w] \in Logging) => last \in Elements(queue)

QueueInv == QueueType /\ Unanswered /\ GroupIsQueued /\ OneLogger

queueView == <<queue, pc, done, last>>

LEMMA ElementsOfSeq ==
  ASSUME NEW S, NEW s \in Seq(S)
  PROVE  Elements(s) \subseteq S /\ (s # <<>> => s[1] \in Elements(s))
BY DEF Elements

LEMMA ElementsAppend ==
  ASSUME NEW S, NEW s \in Seq(S), NEW x \in S
  PROVE  /\ Elements(s) \subseteq Elements(Append(s, x)) /\ x \in Elements(Append(s, x))
         /\ Append(s, x) \in Seq(S) /\ Append(s, x) # <<>>
         /\ s # <<>> => Append(s, x)[1] = s[1]
         /\ s = <<>> => Append(s, x)[1] = x
<1>1. /\ Append(s, x) \in Seq(S) /\ Len(Append(s, x)) = Len(s) + 1 /\ Len(s) \in Nat
      /\ \A i \in 1..Len(s) : Append(s, x)[i] = s[i]
      /\ Append(s, x)[Len(s) + 1] = x
  OBVIOUS
<1>2. DOMAIN s = 1..Len(s) /\ DOMAIN Append(s, x) = 1..Len(s) + 1
  BY <1>1
<1>3. Elements(s) \subseteq Elements(Append(s, x)) /\ x \in Elements(Append(s, x))
  BY <1>1, <1>2 DEF Elements
<1>4. s # <<>> => Len(s) > 0
  BY EmptySeq
<1>5. s = <<>> => Len(s) = 0
  OBVIOUS
<1> QED
  BY <1>1, <1>2, <1>3, <1>4, <1>5

\* The first writer goes on, with a group when it goes to the log.
LEMMA LeaderGoes ==
  ASSUME QueueInv, NEW w \in Writers, NEW at \in Places \ {"queued"}, GoTo(w, at),
         queue # <<>>, w = Front, UNCHANGED <<queue, done>>,
         at \in Logging => last' \in Elements(queue)
  PROVE  QueueInv'
<1>1. pc' \in [Writers -> Places] /\ pc'[w] = at /\ \A v \in Writers \ {w} : pc'[v] = pc[v]
  BY DEF GoTo, QueueInv, QueueType
<1>2. \A v \in Writers \ {w} : pc[v] \notin Active
  BY DEF QueueInv, OneLogger, Active
<1>3. QueueType'
  BY <1>1 DEF QueueInv, QueueType
<1>4. Unanswered'
  BY <1>1 DEF QueueInv, Unanswered
<1>5. OneLogger'
  BY <1>1, <1>2 DEF OneLogger, Active, Front
<1>6. GroupIsQueued'
  BY <1>1, <1>2 DEF GroupIsQueued, Logging, Active
<1> QED
  BY <1>3, <1>4, <1>5, <1>6 DEF QueueInv

\* A thread that does not answer for the log goes on elsewhere.
LEMMA OtherGoes ==
  ASSUME QueueInv, NEW w \in Writers, NEW at \in Places \ {"queued"}, pc' = [pc EXCEPT ![w] = at],
         at \notin Active, UNCHANGED <<queue, last>>, done' \in [Writers -> {Nil, "ok", "error"}],
         \A v \in Writers \ {w} : done'[v] = done[v]
  PROVE  QueueInv'
<1>1. pc' \in [Writers -> Places] /\ pc'[w] = at /\ \A v \in Writers \ {w} : pc'[v] = pc[v]
  BY DEF QueueInv, QueueType
<1>2. QueueType'
  BY <1>1 DEF QueueInv, QueueType
<1>3. Unanswered'
  BY <1>1 DEF QueueInv, Unanswered
<1>4. OneLogger'
  BY <1>1 DEF QueueInv, OneLogger, Active, Front
<1>5. GroupIsQueued'
  BY <1>1 DEF QueueInv, GroupIsQueued, Logging, Active
<1> QED
  BY <1>2, <1>3, <1>4, <1>5 DEF QueueInv

LEMMA QueueViewUnchanged ==
  ASSUME QueueInv, UNCHANGED queueView
  PROVE  QueueInv'
BY DEF queueView, QueueInv, QueueType, Unanswered, GroupIsQueued, OneLogger, Front

LEMMA WriteKeeps ==
  ASSUME QueueInv, NEW w \in Writers, NEW sync, NEW null, Write(w, sync, null)
  PROVE  QueueInv'
<1>1. /\ pc[w] = "idle" /\ queue' = Append(queue, w) /\ UNCHANGED <<done, last>>
      /\ queue \in Seq(Writers)
  BY DEF Write, QueueInv, QueueType
<1>2. PICK at \in {"room", "queued"} :
         GoTo(w, at) /\ (queue = <<>> => at = "room") /\ (queue # <<>> => at = "queued")
  BY DEF Write
<1>3. pc' \in [Writers -> Places] /\ pc'[w] = at /\ \A v \in Writers \ {w} : pc'[v] = pc[v]
  BY <1>2 DEF GoTo, QueueInv, QueueType, Places
<1>4. /\ Elements(queue) \subseteq Elements(queue') /\ w \in Elements(queue')
      /\ queue' \in Seq(Writers) /\ queue' # <<>>
      /\ queue # <<>> => queue'[1] = queue[1]
      /\ queue = <<>> => queue'[1] = w
  BY <1>1, ElementsAppend
<1>5. QueueType'
  BY <1>1, <1>3, <1>4 DEF QueueInv, QueueType
<1>6. Unanswered'
  BY <1>1, <1>3, <1>4 DEF QueueInv, Unanswered
<1>7. OneLogger'
  BY <1>1, <1>2, <1>3, <1>4 DEF QueueInv, OneLogger, Front
<1>8. GroupIsQueued'
  BY <1>1, <1>2, <1>3, <1>4 DEF QueueInv, GroupIsQueued, Logging
<1> QED
  BY <1>5, <1>6, <1>7, <1>8 DEF QueueInv

LEMMA WakeUpKeeps ==
  ASSUME QueueInv, NEW w \in Writers, WakeUp(w)
  PROVE  QueueInv'
<1>1. pc[w] = "queued" /\ UNCHANGED <<queue, last>>
  BY DEF WakeUp, Runs
<1>2. CASE /\ done[w] # Nil /\ Return(w, done[w])
           /\ done' = [done EXCEPT ![w] = Nil]
  <2>1. done' \in [Writers -> {Nil, "ok", "error"}] /\ \A v \in Writers \ {w} : done'[v] = done[v]
    BY <1>2 DEF QueueInv, QueueType
  <2>2. PICK at \in {"flush", "idle"} : pc' = [pc EXCEPT ![w] = at]
    BY <1>2 DEF Return
  <2> QED
    BY <1>1, <2>1, <2>2, OtherGoes DEF Places, Active
<1>3. CASE Leads(w) /\ GoTo(w, "room") /\ UNCHANGED done
  <2>1. w \in Elements(queue) /\ w = Front
    BY <1>1, <1>3 DEF Leads, QueueInv, Unanswered
  <2>2. queue # <<>>
    BY <2>1 DEF Elements
  <2> QED
    BY <1>1, <1>3, <2>1, <2>2, LeaderGoes DEF Places, Logging
<1>4. CASE UNCHANGED <<pc, done>>
  BY <1>1, <1>4, QueueViewUnchanged DEF queueView
<1> QED
  BY <1>2, <1>3, <1>4 DEF WakeUp

LEMMA MakeRoomKeeps ==
  ASSUME QueueInv, NEW w \in Writers, MakeRoom(w)
  PROVE  QueueInv'
<1>1. pc[w] = "room" /\ UNCHANGED <<queue, done>>
  BY DEF MakeRoom
<1>2. queue # <<>> /\ w = Front /\ queue \in Seq(Writers)
  BY <1>1 DEF QueueInv, QueueType, OneLogger
<1>3. w \in Elements(queue)
  BY <1>2, ElementsOfSeq DEF Front
<1>4. CASE RoomError(w)
  BY <1>1, <1>2, <1>3, <1>4, LeaderGoes DEF RoomError, Places
<1>5. CASE RoomDelay(w)
  BY <1>1, <1>2, <1>5, LeaderGoes DEF RoomDelay, Places, Logging
<1>6. CASE RoomFound(w)
  <2>1. CASE last' = w /\ GoTo(w, "finish")
    BY <1>1, <1>2, <1>3, <2>1, LeaderGoes DEF Places
  <2>2. CASE GoTo(w, "append") /\ \E n \in GroupEnds : last' = queue[n]
    <3>1. GroupEnds \subseteq DOMAIN queue
      BY <1>2 DEF GroupEnds
    <3>2. last' \in Elements(queue)
      BY <2>2, <3>1 DEF Elements
    <3> QED
      BY <1>1, <1>2, <2>2, <3>2, LeaderGoes DEF Places
  <2> QED
    BY <1>6, <2>1, <2>2 DEF RoomFound
<1>7. CASE RoomWait(w)
  BY <1>1, <1>2, <1>7, LeaderGoes DEF RoomWait, Places, Logging
<1>8. CASE RoomSwitch(w)
  <2>1. CASE UNCHANGED <<pc, last>>
    BY <1>1, <2>1, QueueViewUnchanged DEF queueView
  <2>2. CASE last' = w /\ GoTo(w, "finish")
    BY <1>1, <1>2, <1>3, <2>2, LeaderGoes DEF Places
  <2> QED
    BY <1>8, <2>1, <2>2 DEF RoomSwitch
<1> QED
  BY <1>4, <1>5, <1>6, <1>7, <1>8 DEF MakeRoom

LEMMA BackInRoomKeeps ==
  ASSUME QueueInv, NEW w \in Writers, BackInRoom(w)
  PROVE  QueueInv'
<1>1. /\ pc[w] \in Active /\ GoTo(w, "room")
      /\ UNCHANGED <<queue, done>>
  BY DEF BackInRoom, Runs, queueVars, Active
<1>2. queue # <<>> /\ w = Front
  BY <1>1 DEF QueueInv, OneLogger, Active
<1> QED
  BY <1>1, <1>2, LeaderGoes DEF Places, Logging

\* Both steps of a group that is being written.
LEMMA LoggingGoes ==
  ASSUME QueueInv, NEW w \in Writers, pc[w] \in Logging, UNCHANGED queueVars,
         NEW at \in Logging, GoTo(w, at)
  PROVE  QueueInv'
<1>1. queue # <<>> /\ w = Front /\ last \in Elements(queue)
  BY DEF QueueInv, OneLogger, GroupIsQueued, Logging
<1>2. UNCHANGED <<queue, done, last>>
  BY DEF queueVars
<1> QED
  BY <1>1, <1>2, LeaderGoes DEF Places, Logging

LEMMA AddRecordKeeps ==
  ASSUME QueueInv, NEW w \in Writers, AddRecord(w)
  PROVE  QueueInv'
<1>1. pc[w] \in Logging /\ UNCHANGED queueVars
  BY DEF AddRecord, Logging
<1>2. GoTo(w, "sync") \/ GoTo(w, "finish")
  BY DEF AddRecord, InsertInto
<1> QED
  BY <1>1, <1>2, LoggingGoes DEF Logging

LEMMA SyncKeeps ==
  ASSUME QueueInv, NEW w \in Writers, Sync(w)
  PROVE  QueueInv'
<1>1. pc[w] \in Logging /\ UNCHANGED queueVars
  BY DEF Sync, Logging
<1>2. GoTo(w, "finish")
  BY DEF Sync, InsertInto
<1> QED
  BY <1>1, <1>2, LoggingGoes DEF Logging

\* What a sequence holds, by its indices.
LEMMA ElementsByIndex ==
  ASSUME NEW S, NEW s \in Seq(S), NEW x
  PROVE  x \in Elements(s) <=> \E i \in 1..Len(s) : x = s[i]
BY DEF Elements

\* A writer behind the group is in what remains of the queue.
LEMMA GroupLeaves ==
  ASSUME NEW q \in Seq(Writers), NEW n \in DOMAIN q
  PROVE  /\ SubSeq(q, n + 1, Len(q)) \in Seq(Writers)
         /\ Elements(q) \subseteq Elements(SubSeq(q, 1, n)) \cup Elements(SubSeq(q, n + 1, Len(q)))
         /\ q[1] \in Elements(SubSeq(q, 1, n))
<1> DEFINE group == SubSeq(q, 1, n)
           rest == SubSeq(q, n + 1, Len(q))
<1>1. Len(q) \in Nat /\ n \in 1..Len(q)
  OBVIOUS
<1>2. /\ group \in Seq(Writers) /\ Len(group) = n
      /\ \A i \in 1..n : group[i] = q[i]
  BY <1>1
<1>3. /\ rest \in Seq(Writers) /\ Len(rest) = Len(q) - n
      /\ \A i \in 1..Len(q) - n : rest[i] = q[n + i]
  BY <1>1
<1> HIDE DEF group, rest
<1>4. \A i \in 1..n : q[i] \in Elements(group)
  BY <1>2, ElementsByIndex
<1>5. ASSUME NEW i \in n + 1..Len(q) PROVE q[i] \in Elements(rest)
  <2>1. i - n \in 1..Len(rest) /\ rest[i - n] = q[i]
    BY <1>1, <1>3
  <2> QED
    BY <1>3, <2>1, ElementsByIndex
<1>6. ASSUME NEW x \in Elements(q) PROVE x \in Elements(group) \cup Elements(rest)
  <2>1. PICK i \in 1..Len(q) : x = q[i]
    BY ElementsByIndex
  <2>2. i \in 1..n \/ i \in n + 1..Len(q)
    BY <1>1, <2>1
  <2> QED
    BY <1>4, <1>5, <2>1, <2>2
<1>7. q[1] \in Elements(group)
  BY <1>1, <1>4
<1> QED
  BY <1>3, <1>6, <1>7 DEF group, rest

LEMMA FinishKeeps ==
  ASSUME QueueInv, NEW w \in Writers, Finish(w)
  PROVE  QueueInv'
<1> DEFINE members == Elements(SubSeq(queue, 1, Length)) \ {w}
           status == IF outcome = "ok" THEN "ok" ELSE "error"
<1>1. /\ pc[w] = "finish" /\ UNCHANGED last
      /\ queue' = SubSeq(queue, Length + 1, Len(queue))
      /\ done' = [m \in Writers |-> IF m \in members THEN status ELSE done[m]]
      /\ Return(w, status)
  BY DEF Finish, Rest
<1>2. queue \in Seq(Writers) /\ w = Front /\ last \in Elements(queue)
  BY <1>1 DEF QueueInv, QueueType, OneLogger, GroupIsQueued, Logging
<1>3. Length \in DOMAIN queue
  BY <1>2 DEF Length, Elements
<1>4. /\ queue' \in Seq(Writers)
      /\ Elements(queue) \subseteq members \cup {w} \cup Elements(queue')
  BY <1>1, <1>2, <1>3, GroupLeaves
<1>5. PICK at \in {"flush", "idle"} : pc' = [pc EXCEPT ![w] = at]
  BY <1>1 DEF Return
<1>6. pc' \in [Writers -> Places] /\ pc'[w] = at /\ \A v \in Writers \ {w} : pc'[v] = pc[v]
  BY <1>5 DEF QueueInv, QueueType, Places
<1>7. done' \in [Writers -> {Nil, "ok", "error"}]
  BY <1>1 DEF QueueInv, QueueType
<1>8. \A v \in Writers : pc'[v] \notin Active
  BY <1>2, <1>6 DEF QueueInv, OneLogger, Active
<1>9. QueueType'
  BY <1>4, <1>6, <1>7 DEF QueueType
<1>10. Unanswered'
  <2> SUFFICES ASSUME NEW v \in Writers, pc'[v] = "queued", done'[v] = Nil
               PROVE  v \in Elements(queue')
    BY DEF Unanswered
  <2>1. v # w /\ pc[v] = "queued"
    BY <1>6
  <2>2. v \notin members /\ done[v] = Nil
    BY <1>1, NilAssumption
  <2> QED
    BY <1>4, <2>1, <2>2 DEF QueueInv, Unanswered
<1>11. OneLogger' /\ GroupIsQueued'
  BY <1>8 DEF OneLogger, GroupIsQueued, Active, Logging
<1> QED
  BY <1>9, <1>10, <1>11 DEF QueueInv

LEMMA CompactMemoryKeeps ==
  ASSUME QueueInv, NEW w \in Writers, CompactMemory(w)
  PROVE  QueueInv'
<1>1. UNCHANGED <<queue, last, done>>
  BY DEF CompactMemory, queueVars
<1>2. PICK at \in {"waiting for flush", "idle"} : pc' = [pc EXCEPT ![w] = at]
  BY DEF CompactMemory, GoTo
<1> QED
  BY <1>1, <1>2, OtherGoes DEF Places, Active, QueueInv, QueueType

LEMMA NoProcessKeeps ==
  ASSUME NoProcess
  PROVE  QueueInv'
<1>1. /\ queue' = <<>> /\ pc' = [w \in Writers |-> "idle"] /\ done' = [w \in Writers |-> Nil]
  BY DEF NoProcess
<1>2. QueueType'
  BY <1>1 DEF QueueType, Places
<1> QED
  BY <1>1, <1>2 DEF QueueInv, Unanswered, GroupIsQueued, OneLogger, Logging

LEMMA BackgroundKeepsQueue ==
  ASSUME Background
  PROVE  UNCHANGED queueView
<1>1. CASE BackgroundCall
  BY <1>1 DEF BackgroundCall, queueVars, queueView
<1>2. CASE CompactWithin
  BY <1>2 DEF CompactWithin, queueVars, queueView
<1>3. CASE BuildTable
  BY <1>3 DEF BuildTable, queueVars, queueView
<1>4. CASE InstallFlush
  BY <1>4 DEF InstallFlush, queueVars, queueView
<1>5. CASE InstallCompaction
  BY <1>5 DEF InstallCompaction, queueVars, queueView
<1> QED
  BY <1>1, <1>2, <1>3, <1>4, <1>5 DEF Background

LEMMA QueueInit == Init => QueueInv
<1> SUFFICES ASSUME Init PROVE QueueInv
  OBVIOUS
<1>1. queue = <<>> /\ pc = [w \in Writers |-> "idle"] /\ done = [w \in Writers |-> Nil]
  BY DEF Init
<1>2. QueueType
  BY <1>1 DEF QueueType, Places
<1> QED
  BY <1>1, <1>2 DEF QueueInv, Unanswered, GroupIsQueued, OneLogger, Logging

LEMMA QueueStep == QueueInv /\ [Next]_vars => QueueInv'
<1> SUFFICES ASSUME QueueInv, [Next]_vars PROVE QueueInv'
  OBVIOUS
<1>1. ASSUME NEW w \in Callers, NEW sync, NEW null, Write(w, sync, null) PROVE QueueInv'
  <2>1. w \in Writers
    BY <1>1 DEF Callers, Idle
  <2> QED
    BY <1>1, <2>1, WriteKeeps
<1>2. ASSUME NEW w \in Writers, Thread(w) PROVE QueueInv'
  BY <1>2, WakeUpKeeps, MakeRoomKeeps, BackInRoomKeeps, AddRecordKeeps, SyncKeeps,
     FinishKeeps, CompactMemoryKeeps DEF Thread
<1>3. ASSUME NEW w \in Writers, Spurious(w) PROVE QueueInv'
  <2>1. UNCHANGED queueView
    BY <1>3 DEF Spurious, queueVars, queueView
  <2> QED
    BY <2>1, QueueViewUnchanged
<1>4. CASE Background
  BY <1>4, BackgroundKeepsQueue, QueueViewUnchanged
<1>5. CASE Close
  <2>1. UNCHANGED queueView
    BY <1>5 DEF Close, queueVars, queueView
  <2> QED
    BY <2>1, QueueViewUnchanged
<1>6. CASE Closed \/ ProcessEnds \/ MachineEnds
  <2>1. NoProcess
    BY <1>6 DEF Closed, ProcessEnds, MachineEnds
  <2> QED
    BY <2>1, NoProcessKeeps
<1>7. CASE Open
  <2>1. UNCHANGED queueView
    BY <1>7 DEF Open, queueVars, queueView
  <2> QED
    BY <2>1, QueueViewUnchanged
<1>8. CASE OpenFails
  <2>1. UNCHANGED queueView
    BY <1>8 DEF OpenFails, queueVars, queueView
  <2> QED
    BY <2>1, QueueViewUnchanged
<1>9. CASE UNCHANGED vars
  <2>1. UNCHANGED queueView
    BY <1>9 DEF vars, queueVars, queueView
  <2> QED
    BY <2>1, QueueViewUnchanged
<1> QED
  BY <1>1, <1>2, <1>3, <1>4, <1>5, <1>6, <1>7, <1>8, <1>9 DEF Next

\* One writer at a time is between the head of the queue and its return (Write,
\* db_impl.cc:1162): with any number of threads, whatever fails, whoever wakes up
\* without a signal, and whenever the process ends.
THEOREM LoggersNeverMeet == Spec => []OneLogger
<1>1. QueueInv => OneLogger
  BY DEF QueueInv
<1> QED
  BY <1>1, QueueInit, QueueStep, PTL DEF Spec

-----------------------------------------------------------------------------
(* The tables *)

NumbersAreNatural == log \in Nat /\ faults \in Nat /\ DOMAIN logs \subseteq Nat

\* The memtable that is flushed is not the one that is written to.
ImmIsOld == imm # Nil => imm # log /\ imm \in DOMAIN mems

\* What is flushed is there to be flushed, and its table before the manifest names it.
FlushHasTable ==
  /\ bg \in {"table", "manifest"} => imm # Nil
  /\ bg = "manifest" => ImmTable \in tables

\* Nothing happens without a process.
Quiet == ~opened => bg = "idle" /\ imm = Nil /\ \A w \in Writers : pc[w] = "idle"

\* Without an error the version in memory is the one on disk.
InSync == opened /\ ~bgError => manifest.tables \subseteq version

TablesInv == /\ NumbersAreNatural /\ ImmIsOld /\ FlushHasTable /\ Quiet /\ InSync
             /\ NeededTablesExist

\* Steps that only move threads, or set bg_error_.
LEMMA ThreadsMove ==
  ASSUME TablesInv, opened, UNCHANGED <<opened, memVars, version, bg, diskVars, faults>>,
         bgError => bgError'
  PROVE  TablesInv'
BY DEF TablesInv, NumbersAreNatural, ImmIsOld, FlushHasTable, Quiet, InSync, NeededTablesExist,
       ImmTable, memVars, diskVars

LEMMA ThreadNeedsProcess ==
  ASSUME TablesInv, NEW w \in Writers, pc[w] # "idle"
  PROVE  opened
BY DEF TablesInv, Quiet

LEMMA SwitchKeepsTables ==
  ASSUME TablesInv, NEW w \in Writers, MakeRoom(w)
  PROVE  TablesInv'
<1>1. /\ pc[w] = "room"
      /\ UNCHANGED <<opened, version, bgError, tables, manifest>>
  BY DEF MakeRoom, versionVars, lifeVars
<1>2. opened
  BY <1>1, ThreadNeedsProcess
<1>3. CASE UNCHANGED <<memVars, bg, logs, faults>>
  BY <1>1, <1>2, <1>3, ThreadsMove DEF diskVars
<1>4. CASE /\ RoomSwitch(w) /\ Fails("newlog") /\ UNCHANGED <<memVars, bg, logs>>
  <2>1. faults' \in Nat
    BY <1>4 DEF Fails, TablesInv, NumbersAreNatural
  <2> QED
    BY <1>1, <1>2, <1>4, <2>1 DEF TablesInv, NumbersAreNatural, ImmIsOld, FlushHasTable, Quiet, InSync,
       NeededTablesExist, ImmTable, memVars
<1>5. CASE /\ imm = Nil /\ log' = log + 1 /\ imm' = log /\ UNCHANGED faults
           /\ mems' = [n \in {log, log + 1} |-> IF n = log THEN mems[n] ELSE {}]
           /\ logs' = [n \in DOMAIN logs \cup {log + 1} |->
                         IF n = log + 1 THEN [groups |-> <<>>, synced |-> 0] ELSE logs[n]]
           /\ MaybeSchedule
  <2>1. NumbersAreNatural' /\ log' # log
    BY <1>5 DEF TablesInv, NumbersAreNatural
  <2>2. ImmIsOld'
    BY <1>5, <2>1 DEF ImmIsOld
  <2>3. bg' \in {bg, "scheduled"} /\ bg \notin {"table", "manifest"}
    BY <1>5 DEF MaybeSchedule, TablesInv, FlushHasTable
  <2>4. FlushHasTable'
    BY <2>3 DEF FlushHasTable
  <2>5. Quiet' /\ InSync' /\ NeededTablesExist'
    BY <1>1, <1>2 DEF TablesInv, Quiet, InSync, NeededTablesExist
  <2> QED
    BY <2>1, <2>2, <2>4, <2>5 DEF TablesInv
<1> QED
  BY <1>3, <1>4, <1>5 DEF MakeRoom, RoomError, RoomDelay, RoomFound, RoomWait, RoomSwitch, Works

\* A group goes to the log and to the memtable that is written to.
LEMMA LogKeepsTables ==
  ASSUME TablesInv, opened,
         UNCHANGED <<opened, log, imm, version, bg, bgError, tables, manifest>>,
         faults' \in Nat, DOMAIN logs' = DOMAIN logs, DOMAIN mems' = DOMAIN mems,
         \A n \in DOMAIN mems : n # log => mems'[n] = mems[n]
  PROVE  TablesInv'
<1>1. imm # Nil => mems'[imm] = mems[imm]
  BY DEF TablesInv, ImmIsOld
<1>2. FlushHasTable'
  BY <1>1 DEF TablesInv, FlushHasTable, ImmTable
<1>3. NumbersAreNatural' /\ ImmIsOld' /\ Quiet' /\ InSync' /\ NeededTablesExist'
  BY DEF TablesInv, NumbersAreNatural, ImmIsOld, Quiet, InSync, NeededTablesExist
<1> QED
  BY <1>2, <1>3 DEF TablesInv

LEMMA FailsOrWorks ==
  ASSUME TablesInv, NEW what, Works \/ Fails(what)
  PROVE  faults' \in Nat
BY DEF TablesInv, NumbersAreNatural, Works, Fails

LEMMA InsertKeepsMems ==
  ASSUME NEW w, InsertInto(w) \/ UNCHANGED mems
  PROVE  DOMAIN mems' = DOMAIN mems /\ \A n \in DOMAIN mems : n # log => mems'[n] = mems[n]
BY DEF InsertInto

LEMMA AddRecordKeepsTables ==
  ASSUME TablesInv, NEW w \in Writers, AddRecord(w)
  PROVE  TablesInv'
<1>1. /\ pc[w] = "append"
      /\ UNCHANGED <<opened, log, imm, version, bg, bgError, tables, manifest>>
  BY DEF AddRecord, versionVars, bgVars, lifeVars
<1>2. faults' \in Nat
  BY FailsOrWorks DEF AddRecord
<1>3. DOMAIN logs' = DOMAIN logs /\ (InsertInto(w) \/ UNCHANGED mems)
  BY DEF AddRecord
<1> QED
  BY <1>1, <1>2, <1>3, InsertKeepsMems, LogKeepsTables, ThreadNeedsProcess

LEMMA SyncKeepsTables ==
  ASSUME TablesInv, NEW w \in Writers, Sync(w)
  PROVE  TablesInv'
<1>1. /\ pc[w] = "sync"
      /\ UNCHANGED <<opened, log, imm, version, bg, bgError, tables, manifest>>
  BY DEF Sync, versionVars, bgVars, lifeVars
<1>2. faults' \in Nat
  BY FailsOrWorks DEF Sync
<1>3. DOMAIN logs' = DOMAIN logs /\ (InsertInto(w) \/ UNCHANGED mems)
  BY DEF Sync
<1> QED
  BY <1>1, <1>2, <1>3, InsertKeepsMems, LogKeepsTables, ThreadNeedsProcess

LEMMA ThreadKeepsTables ==
  ASSUME TablesInv, NEW w \in Writers, Thread(w)
  PROVE  TablesInv'
<1>1. CASE WakeUp(w)
  <2>1. pc[w] # "idle"
    BY <1>1 DEF WakeUp, Runs
  <2> QED
    BY <1>1, <2>1, ThreadNeedsProcess, ThreadsMove DEF WakeUp, versionVars, bgVars, lifeVars
<1>2. CASE BackInRoom(w)
  <2>1. pc[w] # "idle"
    BY <1>2 DEF BackInRoom, Runs
  <2> QED
    BY <1>2, <2>1, ThreadNeedsProcess, ThreadsMove DEF BackInRoom, versionVars, bgVars, lifeVars
<1>3. CASE Finish(w)
  <2>1. pc[w] # "idle" /\ (bgError => bgError')
    BY <1>3 DEF Finish
  <2>2. UNCHANGED <<opened, memVars, version, bg, diskVars, faults>>
    BY <1>3 DEF Finish, versionVars, bgVars, lifeVars
  <2> QED
    BY <2>1, <2>2, ThreadNeedsProcess, ThreadsMove
<1>4. CASE CompactMemory(w)
  <2>1. pc[w] # "idle"
    BY <1>4 DEF CompactMemory, Runs
  <2> QED
    BY <1>4, <2>1, ThreadNeedsProcess, ThreadsMove DEF CompactMemory, versionVars, bgVars, lifeVars
<1> QED
  BY <1>1, <1>2, <1>3, <1>4, SwitchKeepsTables, AddRecordKeepsTables, SyncKeepsTables DEF Thread

\* What is deleted is in no version, unless an error hides which version is on disk.
LEMMA DeletionSpares ==
  ASSUME TablesInv, DeleteObsoleteFiles, faults' \in Nat, UNCHANGED log
  PROVE  /\ tables \cap version' \subseteq tables' /\ tables' \subseteq tables
         /\ bgError' => tables' = tables
         /\ NumbersAreNatural'
BY DEF DeleteObsoleteFiles, TablesInv, NumbersAreNatural

LEMMA BackgroundNeedsProcess ==
  ASSUME TablesInv, bg # "idle"
  PROVE  opened
BY DEF TablesInv, Quiet

LEMMA BackgroundCallKeepsTables ==
  ASSUME TablesInv, BackgroundCall
  PROVE  TablesInv'
<1>1. /\ bg = "scheduled"
      /\ UNCHANGED <<imm, bgError, log, mems, version, logs, tables, manifest, opened, faults>>
  BY DEF BackgroundCall, diskVars, lifeVars
<1>2. opened
  BY <1>1, BackgroundNeedsProcess
<1>3. bg' \notin {"table", "manifest"} \/ (bg' = "table" /\ imm # Nil)
  <2>1. EndCall \/ (bg' = "table" /\ imm # Nil) \/ bg' = "compact"
    BY DEF BackgroundCall
  <2>2. EndCall => bg' \in {"scheduled", "idle"}
    BY DEF EndCall
  <2> QED
    BY <2>1, <2>2
<1> QED
  BY <1>1, <1>2, <1>3 DEF TablesInv, NumbersAreNatural, ImmIsOld, FlushHasTable, Quiet, InSync,
     NeededTablesExist

LEMMA CompactWithinKeepsTables ==
  ASSUME TablesInv, CompactWithin
  PROVE  TablesInv'
<1>1. /\ bg = "compact" /\ bg' = "table" /\ imm # Nil
      /\ UNCHANGED <<imm, bgError, log, mems, version, logs, tables, manifest, opened, faults>>
  BY DEF CompactWithin, memVars, versionVars, diskVars, lifeVars
<1>2. opened
  BY <1>1, BackgroundNeedsProcess
<1> QED
  BY <1>1, <1>2 DEF TablesInv, NumbersAreNatural, ImmIsOld, FlushHasTable, Quiet, InSync,
     NeededTablesExist

LEMMA BuildTableKeepsTables ==
  ASSUME TablesInv, BuildTable
  PROVE  TablesInv'
<1>1. /\ bg = "table"
      /\ UNCHANGED <<imm, log, mems, version, logs, manifest, opened>>
  BY DEF BuildTable, diskVars, lifeVars
<1>2. opened /\ imm # Nil /\ ImmTable' = ImmTable
  BY <1>1, BackgroundNeedsProcess DEF TablesInv, FlushHasTable, ImmTable
<1>3. faults \in Nat /\ faults' \in Nat
  BY FailsOrWorks DEF BuildTable, TablesInv, NumbersAreNatural
<1>4. tables \subseteq tables' /\ (faults' = faults => ImmTable \in tables')
  BY <1>3 DEF BuildTable, Works, Fails
<1>5. \/ bg' = "manifest" /\ faults' = faults /\ UNCHANGED bgError
      \/ bg' \notin {"table", "manifest"} /\ bgError'
  BY DEF BuildTable, EndFlush, EndCall
<1> QED
  BY <1>1, <1>2, <1>3, <1>4, <1>5 DEF TablesInv, NumbersAreNatural, ImmIsOld, FlushHasTable, Quiet,
     InSync, NeededTablesExist

LEMMA InstallFlushKeepsTables ==
  ASSUME TablesInv, InstallFlush
  PROVE  TablesInv'
<1> DEFINE installed == [tables |-> manifest.tables \cup {ImmTable}, log |-> log]
<1>1. bg = "manifest" /\ UNCHANGED <<log, opened>> /\ bg' \notin {"table", "manifest"}
  BY DEF InstallFlush, EndFlush, EndCall, lifeVars
<1>2. opened /\ ImmTable \in tables
  BY <1>1, BackgroundNeedsProcess DEF TablesInv, FlushHasTable
<1>3. Quiet' /\ FlushHasTable'
  BY <1>1, <1>2 DEF Quiet, FlushHasTable
<1>4. CASE /\ Works /\ manifest' = installed /\ version' = version \cup {ImmTable}
           /\ imm' = Nil /\ UNCHANGED bgError /\ DeleteObsoleteFiles
  <2>1. /\ tables \cap version' \subseteq tables' /\ tables' \subseteq tables
        /\ bgError' => tables' = tables
        /\ NumbersAreNatural'
    BY <1>1, <1>4, FailsOrWorks, DeletionSpares
  <2>2. InSync' /\ NeededTablesExist'
    BY <1>2, <1>4, <2>1 DEF TablesInv, InSync, NeededTablesExist
  <2>3. ImmIsOld'
    BY <1>4 DEF ImmIsOld
  <2> QED
    BY <1>3, <2>1, <2>2, <2>3 DEF TablesInv
<1>5. CASE /\ Fails("manifest") /\ manifest' \in {manifest, installed} /\ bgError'
           /\ UNCHANGED <<versionVars, imm, mems, logs, tables>>
  <2>1. faults' \in Nat
    BY <1>5, FailsOrWorks
  <2>2. NumbersAreNatural' /\ ImmIsOld'
    BY <1>1, <1>5, <2>1 DEF TablesInv, NumbersAreNatural, ImmIsOld
  <2>3. InSync' /\ NeededTablesExist'
    BY <1>2, <1>5 DEF TablesInv, InSync, NeededTablesExist, versionVars
  <2> QED
    BY <1>3, <2>2, <2>3 DEF TablesInv
<1> QED
  BY <1>4, <1>5 DEF InstallFlush

LEMMA InstallCompactionKeepsTables ==
  ASSUME TablesInv, InstallCompaction
  PROVE  TablesInv'
<1>1. /\ bg = "compact" /\ UNCHANGED <<log, opened, imm, mems, version>>
      /\ bg' \notin {"table", "manifest"} /\ DeleteObsoleteFiles
      /\ bgError' \/ UNCHANGED bgError
  BY DEF InstallCompaction, EndCall, lifeVars
<1>2. opened
  BY <1>1, BackgroundNeedsProcess
<1>3. Quiet' /\ FlushHasTable' /\ ImmIsOld'
  BY <1>1, <1>2 DEF Quiet, FlushHasTable, ImmIsOld, TablesInv
<1>4. manifest'.tables = manifest.tables
  BY DEF InstallCompaction
<1>5. faults' \in Nat
  BY FailsOrWorks DEF InstallCompaction
<1>6. /\ tables \cap version' \subseteq tables' /\ tables' \subseteq tables
      /\ bgError' => tables' = tables
      /\ NumbersAreNatural'
  BY <1>1, <1>5, DeletionSpares
<1>7. InSync' /\ NeededTablesExist'
  BY <1>1, <1>2, <1>4, <1>6 DEF TablesInv, InSync, NeededTablesExist
<1> QED
  BY <1>3, <1>6, <1>7 DEF TablesInv

LEMMA NoProcessKeepsTables ==
  ASSUME TablesInv, NoProcess, DOMAIN logs' = DOMAIN logs
  PROVE  TablesInv'
<1>1. /\ ~opened' /\ imm' = Nil /\ bg' = "idle" /\ log' = 0 /\ version' = {}
      /\ pc' = [w \in Writers |-> "idle"] /\ UNCHANGED <<tables, manifest, faults>>
  BY DEF NoProcess
<1>2. NumbersAreNatural'
  BY <1>1 DEF TablesInv, NumbersAreNatural
<1> QED
  BY <1>1, <1>2 DEF TablesInv, ImmIsOld, FlushHasTable, Quiet, InSync, NeededTablesExist

LEMMA OpenKeepsTables ==
  ASSUME TablesInv, Open
  PROVE  TablesInv'
<1>1. /\ ~opened /\ opened' /\ UNCHANGED imm
      /\ version' = manifest.tables \cup level0' /\ manifest'.tables = version'
      /\ tables' = version' /\ DOMAIN logs' = {log'}
  BY DEF Open
<1>2. imm = Nil /\ bg = "idle"
  BY <1>1 DEF TablesInv, Quiet
<1>3. bg' \in {"idle", "scheduled"}
  BY <1>2 DEF Open, MaybeSchedule
<1>4. PICK newest \in NeededLogs : log' = newest + 1
  BY DEF Open
<1>5. faults' \in Nat
  BY FailsOrWorks DEF Open
<1>6. NumbersAreNatural'
  BY <1>1, <1>4, <1>5 DEF TablesInv, NumbersAreNatural, NeededLogs, NeededIn
<1> QED
  BY <1>1, <1>2, <1>3, <1>6 DEF TablesInv, ImmIsOld, FlushHasTable, Quiet, InSync, NeededTablesExist

LEMMA OpenFailsKeepsTables ==
  ASSUME TablesInv, OpenFails
  PROVE  TablesInv'
<1>1. UNCHANGED <<opened, memVars, version, bg, bgError, diskVars, pc>>
  BY DEF OpenFails, versionVars, bgVars, lifeVars
<1>2. faults' \in Nat
  BY FailsOrWorks DEF OpenFails
<1> QED
  BY <1>1, <1>2 DEF TablesInv, NumbersAreNatural, ImmIsOld, FlushHasTable, Quiet, InSync,
     NeededTablesExist, ImmTable, memVars, diskVars

LEMMA TablesInit == Init => TablesInv
BY DEF Init, TablesInv, NumbersAreNatural, ImmIsOld, FlushHasTable, Quiet, InSync, NeededTablesExist

LEMMA TablesStep == TablesInv /\ [Next]_vars => TablesInv'
<1> SUFFICES ASSUME TablesInv, [Next]_vars PROVE TablesInv'
  OBVIOUS
<1>1. ASSUME NEW w, NEW sync, NEW null, Write(w, sync, null) PROVE TablesInv'
  BY <1>1, ThreadsMove DEF Write, versionVars, bgVars, lifeVars
<1>2. ASSUME NEW w \in Writers, Spurious(w) PROVE TablesInv'
  <2>1. pc[w] # "idle"
    BY <1>2 DEF Spurious, Waiting
  <2> QED
    BY <1>2, <2>1, ThreadNeedsProcess, ThreadsMove DEF Spurious, versionVars, bgVars, lifeVars
<1>3. CASE Background
  BY <1>3, BackgroundCallKeepsTables, CompactWithinKeepsTables, BuildTableKeepsTables,
     InstallFlushKeepsTables, InstallCompactionKeepsTables DEF Background
<1>4. CASE Close
  BY <1>4, ThreadsMove DEF Close, versionVars, bgVars
<1>5. CASE Closed \/ ProcessEnds \/ MachineEnds
  <2>1. NoProcess /\ DOMAIN logs' = DOMAIN logs
    BY <1>5 DEF Closed, ProcessEnds, MachineEnds
  <2> QED
    BY <2>1, NoProcessKeepsTables
<1>6. CASE UNCHANGED vars
  BY <1>6 DEF vars, TablesInv, NumbersAreNatural, ImmIsOld, FlushHasTable, Quiet, InSync,
     NeededTablesExist, ImmTable, memVars, versionVars, bgVars, diskVars, lifeVars
<1> QED
  BY <1>1, <1>2, <1>3, <1>4, <1>5, <1>6, ThreadKeepsTables, OpenKeepsTables, OpenFailsKeepsTables
  DEF Next

\* No table is deleted that the version in memory, or any version the disk may lead
\* to, still names (DeleteObsoleteFiles, db_impl.cc:218): with any writes, any failed
\* operation on a file, and any ends of the process or the machine.
THEOREM NeededTablesStay == Spec => []NeededTablesExist
<1>1. TablesInv => NeededTablesExist
  BY DEF TablesInv
<1> QED
  BY <1>1, TablesInit, TablesStep, PTL DEF Spec

-----------------------------------------------------------------------------
(* The places of the calls in the queue *)

Call == [batch : Nat \ {0}, sync : BOOLEAN, null : BOOLEAN]

\* What a thread asked for, as long as its call lasts.
CallsType ==
  /\ calls \in Nat /\ op \in [Writers -> Call \cup {Nil}]
  /\ \A w \in Writers : pc[w] # "idle" => op[w] \in Call /\ op[w].batch <= calls

\* Whoever is in the queue has no answer, and whoever has one has to wake up.
Outside == {"idle", "flush", "waiting for flush"}
QueuedWait == \A w \in Elements(queue) : pc[w] \notin Outside /\ done[w] = Nil
AnsweredSleep == \A w \in Writers : done[w] # Nil => pc[w] = "queued"

\* The queue is in the order of the calls.
QueueInOrder ==
  \A i, j \in DOMAIN queue : i < j => op[queue[i]].batch < op[queue[j]].batch

PlacesInv == CallsType /\ QueuedWait /\ AnsweredSleep /\ QueueInOrder

LEMMA QueuedCalls ==
  ASSUME QueueType, PlacesInv, NEW i \in DOMAIN queue
  PROVE  /\ queue[i] \in Writers /\ queue[i] \in Elements(queue)
         /\ op[queue[i]] \in Call /\ op[queue[i]].batch \in 1..calls
         /\ pc[queue[i]] \notin Outside /\ done[queue[i]] = Nil
<1>1. queue[i] \in Writers /\ queue[i] \in Elements(queue)
  BY DEF QueueType, Elements
<1>2. pc[queue[i]] \notin Outside /\ done[queue[i]] = Nil
  BY <1>1 DEF PlacesInv, QueuedWait
<1>3. op[queue[i]] \in Call /\ op[queue[i]].batch <= calls /\ calls \in Nat
  BY <1>1, <1>2 DEF PlacesInv, CallsType, Outside
<1> QED
  BY <1>1, <1>2, <1>3 DEF Call

\* A thread has one place.
LEMMA OnePlace ==
  ASSUME QueueType, PlacesInv, NEW i \in DOMAIN queue, NEW j \in DOMAIN queue, queue[i] = queue[j]
  PROVE  i = j
<1>1. i \in Nat /\ j \in Nat
  BY DEF QueueType
<1>2. op[queue[i]].batch \in Nat
  BY QueuedCalls
<1>3. ~(i < j) /\ ~(j < i)
  BY <1>2 DEF PlacesInv, QueueInOrder
<1> QED
  BY <1>1, <1>3

LEMMA PlaceOf ==
  ASSUME QueueType, PlacesInv, NEW i \in DOMAIN queue
  PROVE  (CHOOSE n \in DOMAIN queue : queue[n] = queue[i]) = i
<1> DEFINE n == CHOOSE m \in DOMAIN queue : queue[m] = queue[i]
<1>1. n \in DOMAIN queue /\ queue[n] = queue[i]
  OBVIOUS
<1> HIDE DEF n
<1>2. n = i
  BY <1>1, OnePlace
<1> QED
  BY <1>2 DEF n

\* A thread without an answer goes on in its call, or leaves it outside the queue.
LEMMA MoveKeepsPlaces ==
  ASSUME QueueType, PlacesInv, NEW w \in Writers, NEW at, pc' = [pc EXCEPT ![w] = at], pc[w] # "idle",
         UNCHANGED <<queue, op, calls>>,
         at \in Outside => w \notin Elements(queue),
         done' = [done EXCEPT ![w] = Nil]
  PROVE  PlacesInv'
<1>1. /\ pc'[w] = at /\ \A v \in Writers \ {w} : pc'[v] = pc[v]
      /\ done'[w] = Nil /\ \A v \in Writers \ {w} : done'[v] = done[v]
  BY DEF QueueType
<1>2. CallsType'
  BY <1>1 DEF PlacesInv, CallsType
<1>3. QueuedWait'
  <2>1. Elements(queue) \subseteq Writers
    BY ElementsOfSeq DEF QueueType
  <2> QED
    BY <1>1, <2>1 DEF PlacesInv, QueuedWait
<1>4. AnsweredSleep'
  BY <1>1 DEF PlacesInv, AnsweredSleep
<1>5. QueueInOrder'
  BY DEF PlacesInv, QueueInOrder
<1> QED
  BY <1>2, <1>3, <1>4, <1>5 DEF PlacesInv

LEMMA PlacesUnchanged ==
  ASSUME PlacesInv, UNCHANGED <<queue, op, done, calls, pc>>
  PROVE  PlacesInv'
BY DEF PlacesInv, CallsType, QueuedWait, AnsweredSleep, QueueInOrder

\* The thread that answers for the log goes on.
LEMMA LeaderKeepsPlaces ==
  ASSUME QueueType, PlacesInv, NEW w \in Writers, pc[w] \in Active, NEW at, GoTo(w, at),
         at \notin Outside, UNCHANGED <<queue, op, done, calls>>
  PROVE  PlacesInv'
<1>1. pc[w] # "idle" /\ done[w] = Nil
  BY DEF PlacesInv, AnsweredSleep, Active
<1>2. done' = [done EXCEPT ![w] = Nil]
  BY <1>1 DEF QueueType
<1> QED
  BY <1>1, <1>2, MoveKeepsPlaces DEF GoTo

LEMMA WriteKeepsPlaces ==
  ASSUME QueueInv, PlacesInv, NEW w \in Writers, NEW sync \in BOOLEAN, NEW null \in BOOLEAN,
         Write(w, sync, null)
  PROVE  PlacesInv'
<1>1. /\ pc[w] = "idle" /\ queue' = Append(queue, w) /\ UNCHANGED done
      /\ calls' = calls + 1
      /\ op' = [op EXCEPT ![w] = [batch |-> calls + 1, sync |-> sync, null |-> null]]
      /\ queue \in Seq(Writers) /\ calls \in Nat
  BY DEF Write, QueueInv, QueueType, PlacesInv, CallsType
<1>2. PICK at \in {"room", "queued"} : pc' = [pc EXCEPT ![w] = at]
  BY DEF Write, GoTo
<1>3. pc'[w] = at /\ \A v \in Writers \ {w} : pc'[v] = pc[v]
  BY <1>2 DEF QueueInv, QueueType
<1>4. [batch |-> calls + 1, sync |-> sync, null |-> null] \in Call
  BY <1>1 DEF Call
<1>5. /\ op' \in [Writers -> Call \cup {Nil}] /\ op'[w] \in Call /\ op'[w].batch = calls + 1
      /\ \A v \in Writers \ {w} : op'[v] = op[v]
  BY <1>1, <1>4 DEF PlacesInv, CallsType
<1>6. CallsType'
  <2>1. \A v \in Writers \ {w} : pc'[v] # "idle" => op'[v] \in Call /\ op'[v].batch <= calls + 1
    <3> SUFFICES ASSUME NEW v \in Writers \ {w}, pc'[v] # "idle"
                 PROVE  op'[v] \in Call /\ op'[v].batch <= calls + 1
      OBVIOUS
    <3>1. op[v] \in Call /\ op[v].batch <= calls
      BY <1>3 DEF PlacesInv, CallsType
    <3>2. op[v].batch \in Nat
      BY <3>1 DEF Call
    <3> QED
      BY <1>1, <1>5, <3>1, <3>2
  <2>2. calls' \in Nat /\ op'[w].batch <= calls'
    BY <1>1, <1>5
  <2> QED
    BY <1>1, <1>5, <2>1, <2>2 DEF CallsType
<1>7. /\ Len(queue) \in Nat /\ DOMAIN queue = 1..Len(queue) /\ DOMAIN queue' = 1..Len(queue) + 1
      /\ \A i \in 1..Len(queue) : queue'[i] = queue[i]
      /\ queue'[Len(queue) + 1] = w
  BY <1>1
<1>8. \A i \in DOMAIN queue : queue[i] \in Writers \ {w}
  BY <1>1, QueuedCalls DEF Outside, QueueInv
<1>9. QueuedWait'
  <2> SUFFICES ASSUME NEW i \in DOMAIN queue'
               PROVE  pc'[queue'[i]] \notin Outside /\ done'[queue'[i]] = Nil
    BY DEF QueuedWait, Elements
  <2>1. CASE i = Len(queue) + 1
    BY <1>1, <1>3, <1>7, <2>1 DEF PlacesInv, AnsweredSleep, Outside
  <2>2. CASE i \in DOMAIN queue
    BY <1>1, <1>3, <1>7, <1>8, <2>2, QueuedCalls DEF QueueInv
  <2> QED
    BY <1>7, <2>1, <2>2
<1>10. AnsweredSleep'
  BY <1>1, <1>3 DEF PlacesInv, AnsweredSleep
<1>11. QueueInOrder'
  <2> SUFFICES ASSUME NEW i \in DOMAIN queue', NEW j \in DOMAIN queue', i < j
               PROVE  op'[queue'[i]].batch < op'[queue'[j]].batch
    BY DEF QueueInOrder
  <2>1. i \in DOMAIN queue /\ queue'[i] = queue[i] /\ op'[queue[i]] = op[queue[i]]
    BY <1>5, <1>7, <1>8
  <2>2. CASE j = Len(queue) + 1
    <3>1. op[queue[i]].batch \in 1..calls
      BY <2>1, QueuedCalls DEF QueueInv
    <3> QED
      BY <1>1, <1>5, <1>7, <2>1, <2>2, <3>1
  <2>3. CASE j \in DOMAIN queue
    <3>1. queue'[j] = queue[j] /\ op'[queue[j]] = op[queue[j]]
      BY <1>5, <1>7, <1>8, <2>3
    <3> QED
      BY <2>1, <2>3, <3>1 DEF PlacesInv, QueueInOrder
  <2> QED
    BY <1>7, <2>2, <2>3
<1> QED
  BY <1>6, <1>9, <1>10, <1>11 DEF PlacesInv

LEMMA WakeUpKeepsPlaces ==
  ASSUME QueueInv, PlacesInv, NEW w \in Writers, WakeUp(w)
  PROVE  PlacesInv'
<1>1. pc[w] = "queued" /\ UNCHANGED <<queue, op, calls>>
  BY DEF WakeUp, Runs
<1>2. CASE done[w] # Nil /\ Return(w, done[w]) /\ done' = [done EXCEPT ![w] = Nil]
  <2>1. w \notin Elements(queue)
    BY <1>2 DEF PlacesInv, QueuedWait
  <2>2. PICK at \in {"flush", "idle"} : pc' = [pc EXCEPT ![w] = at]
    BY <1>2 DEF Return
  <2> QED
    BY <1>1, <1>2, <2>1, <2>2, MoveKeepsPlaces DEF QueueInv
<1>3. CASE Leads(w) /\ GoTo(w, "room") /\ UNCHANGED done
  <2>1. done' = [done EXCEPT ![w] = Nil]
    BY <1>3 DEF Leads, QueueInv, QueueType
  <2> QED
    BY <1>1, <1>3, <2>1, MoveKeepsPlaces DEF QueueInv, GoTo, Outside
<1>4. CASE UNCHANGED <<pc, done>>
  BY <1>1, <1>4, PlacesUnchanged
<1> QED
  BY <1>2, <1>3, <1>4 DEF WakeUp

\* MakeRoom, BackInRoom, AddRecord and Sync.
LEMMA LeaderStepKeepsPlaces ==
  ASSUME QueueInv, PlacesInv, NEW w \in Writers,
         MakeRoom(w) \/ BackInRoom(w) \/ AddRecord(w) \/ Sync(w)
  PROVE  PlacesInv'
<1>1. pc[w] \in Active /\ UNCHANGED <<queue, op, done, calls>>
  BY DEF MakeRoom, BackInRoom, AddRecord, Sync, Runs, queueVars, Active
<1>2. UNCHANGED pc \/ \E at \in Active : GoTo(w, at)
  <2>1. CASE MakeRoom(w)
    BY <2>1 DEF MakeRoom, RoomError, RoomDelay, RoomFound, RoomWait, RoomSwitch, Active
  <2>2. CASE BackInRoom(w)
    BY <2>2 DEF BackInRoom, Active
  <2>3. CASE AddRecord(w)
    BY <2>3 DEF AddRecord, InsertInto, Active
  <2>4. CASE Sync(w)
    BY <2>4 DEF Sync, InsertInto, Active
  <2> QED
    BY <2>1, <2>2, <2>3, <2>4
<1>3. CASE UNCHANGED pc
  BY <1>1, <1>3, PlacesUnchanged
<1>4. ASSUME NEW at \in Active, GoTo(w, at) PROVE PlacesInv'
  <2>1. at \notin Outside
    BY <1>4 DEF Active, Outside
  <2> QED
    BY <1>1, <1>4, <2>1, LeaderKeepsPlaces DEF QueueInv
<1> QED
  BY <1>2, <1>3, <1>4

\* The first writer's group: the places up to Length, and the writers in them.
LEMMA FinishLeaves ==
  ASSUME QueueInv, PlacesInv, NEW w \in Writers, Finish(w)
  PROVE  /\ pc[w] = "finish" /\ w = Front /\ Len(queue) \in Nat
         /\ Length \in 1..Len(queue) /\ 1 \in DOMAIN queue /\ DOMAIN queue = 1..Len(queue)
         /\ queue' \in Seq(Writers) /\ DOMAIN queue' = 1..Len(queue) - Length
         /\ \A i \in 1..Len(queue) - Length : queue'[i] = queue[Length + i]
         /\ \A v \in Writers :
              IF \E i \in 2..Length : v = queue[i]
                THEN /\ pc[v] = "queued" /\ done[v] = Nil /\ v # w
                     /\ done'[v] = IF outcome = "ok" THEN "ok" ELSE "error"
                ELSE done'[v] = done[v]
<1>1. /\ pc[w] = "finish"
      /\ queue' = SubSeq(queue, Length + 1, Len(queue))
      /\ done' = [m \in Writers |-> IF m \in Elements(SubSeq(queue, 1, Length)) \ {w}
                                      THEN IF outcome = "ok" THEN "ok" ELSE "error" ELSE done[m]]
  BY DEF Finish, Rest
<1>2. queue \in Seq(Writers) /\ queue # <<>> /\ w = Front /\ last \in Elements(queue)
  BY <1>1 DEF QueueInv, QueueType, OneLogger, GroupIsQueued, Logging
<1>3. Length \in DOMAIN queue
  BY <1>2 DEF Length, Elements
<1> DEFINE n == Length
<1>4. Len(queue) \in Nat /\ DOMAIN queue = 1..Len(queue) /\ n \in 1..Len(queue)
  BY <1>2, <1>3
<1> HIDE DEF n
<1>5. /\ SubSeq(queue, n + 1, Len(queue)) \in Seq(Writers)
      /\ DOMAIN SubSeq(queue, n + 1, Len(queue)) = 1..Len(queue) - n
      /\ \A i \in 1..Len(queue) - n : SubSeq(queue, n + 1, Len(queue))[i] = queue[n + i]
  BY <1>2, <1>4
<1>6. /\ SubSeq(queue, 1, n) \in Seq(Writers) /\ Len(SubSeq(queue, 1, n)) = n
      /\ \A i \in 1..n : SubSeq(queue, 1, n)[i] = queue[i]
  BY <1>2, <1>4
<1>7. \A v : v \in Elements(SubSeq(queue, 1, n)) <=> \E i \in 1..n : v = queue[i]
  <2> SUFFICES ASSUME NEW v PROVE v \in Elements(SubSeq(queue, 1, n)) <=> \E i \in 1..n : v = queue[i]
    OBVIOUS
  <2>1. v \in Elements(SubSeq(queue, 1, n)) <=> \E i \in 1..Len(SubSeq(queue, 1, n)) : v = SubSeq(queue, 1, n)[i]
    BY <1>6, ElementsByIndex
  <2> QED
    BY <1>6, <2>1
<1>8. 1 \in DOMAIN queue /\ w = queue[1]
  BY <1>2, <1>4 DEF Front
<1>9. \A v \in Writers : v \in Elements(SubSeq(queue, 1, n)) \ {w} <=> \E i \in 2..n : v = queue[i]
  <2>1. \A i \in 2..n : i \in DOMAIN queue /\ queue[i] # w
    <3> SUFFICES ASSUME NEW i \in 2..n PROVE i \in DOMAIN queue /\ queue[i] # w
      OBVIOUS
    <3>1. i \in DOMAIN queue /\ i # 1
      BY <1>4
    <3> QED
      BY <1>8, <3>1, OnePlace DEF QueueInv
  <2>2. 1..n = {1} \cup 2..n
    BY <1>4
  <2> QED
    BY <1>7, <1>8, <2>1, <2>2
<1>10. \A i \in 2..n : pc[queue[i]] = "queued" /\ done[queue[i]] = Nil /\ queue[i] # w
  <2> SUFFICES ASSUME NEW i \in 2..n PROVE pc[queue[i]] = "queued" /\ done[queue[i]] = Nil /\ queue[i] # w
    OBVIOUS
  <2>1. i \in DOMAIN queue /\ i # 1
    BY <1>4
  <2>2. queue[i] # Front /\ queue[i] \in Writers
    BY <1>2, <1>8, <2>1, OnePlace, QueuedCalls DEF QueueInv
  <2>3. pc[queue[i]] \in Places /\ pc[queue[i]] \notin Outside /\ pc[queue[i]] \notin Active
    BY <2>1, <2>2, QueuedCalls DEF QueueInv, QueueType, OneLogger, Active
  <2>4. pc[queue[i]] = "queued"
    BY <2>3 DEF Places, Outside, Active
  <2> QED
    BY <1>2, <2>1, <2>2, <2>4, QueuedCalls DEF QueueInv
<1>11. \A v \in Writers :
         IF \E i \in 2..n : v = queue[i]
           THEN /\ pc[v] = "queued" /\ done[v] = Nil /\ v # w
                /\ done'[v] = IF outcome = "ok" THEN "ok" ELSE "error"
           ELSE done'[v] = done[v]
  BY <1>1, <1>9, <1>10 DEF n
<1>12. queue' = SubSeq(queue, n + 1, Len(queue))
  BY <1>1 DEF n
<1> QED
  BY <1>1, <1>2, <1>4, <1>5, <1>8, <1>11, <1>12 DEF n

LEMMA FinishKeepsPlaces ==
  ASSUME QueueInv, PlacesInv, NEW w \in Writers, Finish(w)
  PROVE  PlacesInv'
<1>1. UNCHANGED <<op, calls>> /\ pc[w] = "finish" /\ w = Front /\ 1 \in DOMAIN queue
  BY FinishLeaves DEF Finish
<1>2. PICK at \in {"flush", "idle"} : pc' = [pc EXCEPT ![w] = at]
  BY DEF Finish, Return
<1>3. pc'[w] = at /\ \A v \in Writers \ {w} : pc'[v] = pc[v]
  BY <1>2 DEF QueueInv, QueueType
<1>4. CallsType'
  BY <1>1, <1>3 DEF PlacesInv, CallsType
<1> DEFINE n == Length
<1>5. /\ Len(queue) \in Nat /\ n \in 1..Len(queue) /\ DOMAIN queue = 1..Len(queue)
      /\ DOMAIN queue' = 1..Len(queue) - n
      /\ \A i \in 1..Len(queue) - n : queue'[i] = queue[n + i]
  BY FinishLeaves
<1>6. \A v \in Writers :
        IF \E i \in 2..n : v = queue[i]
          THEN pc[v] = "queued" /\ done[v] = Nil /\ v # w
          ELSE done'[v] = done[v]
  BY FinishLeaves
<1> HIDE DEF n
<1>7. \A i \in DOMAIN queue' : n + i \in DOMAIN queue /\ queue'[i] = queue[n + i] /\ n + i # 1
  BY <1>5
<1>8. QueuedWait'
  <2> SUFFICES ASSUME NEW i \in DOMAIN queue'
               PROVE  pc'[queue'[i]] \notin Outside /\ done'[queue'[i]] = Nil
    BY DEF QueuedWait, Elements
  <2>1. /\ n + i \in DOMAIN queue /\ queue'[i] = queue[n + i] /\ queue[n + i] \in Writers
        /\ pc[queue[n + i]] \notin Outside /\ done[queue[n + i]] = Nil
    BY <1>7, QueuedCalls DEF QueueInv
  <2>2. queue[n + i] # w
    BY <1>1, <1>7, <2>1, OnePlace DEF QueueInv, Front
  <2>3. ~ \E j \in 2..n : queue[n + i] = queue[j]
    <3> SUFFICES ASSUME NEW j \in 2..n, queue[n + i] = queue[j] PROVE FALSE
      OBVIOUS
    <3>1. j \in DOMAIN queue /\ n + i # j
      BY <1>5
    <3> QED
      BY <2>1, <3>1, OnePlace DEF QueueInv
  <2> QED
    BY <1>3, <1>6, <2>1, <2>2, <2>3
<1>9. AnsweredSleep'
  BY <1>1, <1>3, <1>6 DEF PlacesInv, AnsweredSleep
<1>10. QueueInOrder'
  <2> SUFFICES ASSUME NEW i \in DOMAIN queue', NEW j \in DOMAIN queue', i < j
               PROVE  op[queue'[i]].batch < op[queue'[j]].batch
    BY <1>1 DEF QueueInOrder
  <2>1. n + i < n + j
    BY <1>5
  <2> QED
    BY <1>7, <2>1 DEF PlacesInv, QueueInOrder
<1> QED
  BY <1>4, <1>8, <1>9, <1>10 DEF PlacesInv

LEMMA CompactMemoryKeepsPlaces ==
  ASSUME QueueInv, PlacesInv, NEW w \in Writers, CompactMemory(w)
  PROVE  PlacesInv'
<1>1. pc[w] \in {"flush", "waiting for flush"} /\ UNCHANGED <<queue, op, done, calls>>
  BY DEF CompactMemory, queueVars, Runs
<1>2. PICK at \in {"waiting for flush", "idle"} : pc' = [pc EXCEPT ![w] = at]
  BY DEF CompactMemory, GoTo
<1>3. w \notin Elements(queue)
  BY <1>1 DEF PlacesInv, QueuedWait, Outside
<1>4. done[w] = Nil /\ pc[w] # "idle"
  BY <1>1 DEF PlacesInv, AnsweredSleep
<1>5. done' = [done EXCEPT ![w] = Nil]
  BY <1>1, <1>4 DEF QueueInv, QueueType
<1> QED
  BY <1>1, <1>2, <1>3, <1>4, <1>5, MoveKeepsPlaces DEF QueueInv

LEMMA NoProcessKeepsPlaces ==
  ASSUME PlacesInv, NoProcess
  PROVE  PlacesInv'
<1>1. /\ queue' = <<>> /\ pc' = [w \in Writers |-> "idle"] /\ done' = [w \in Writers |-> Nil]
      /\ op' = [w \in Writers |-> Nil] /\ UNCHANGED calls
  BY DEF NoProcess
<1>2. CallsType'
  BY <1>1 DEF PlacesInv, CallsType
<1> QED
  BY <1>1, <1>2 DEF PlacesInv, QueuedWait, AnsweredSleep, QueueInOrder, Elements

LEMMA PlacesInit == Init => PlacesInv
<1> SUFFICES ASSUME Init PROVE PlacesInv
  OBVIOUS
<1>1. /\ queue = <<>> /\ pc = [w \in Writers |-> "idle"] /\ done = [w \in Writers |-> Nil]
      /\ op = [w \in Writers |-> Nil] /\ calls = 0
  BY DEF Init
<1>2. CallsType
  BY <1>1 DEF CallsType
<1> QED
  BY <1>1, <1>2 DEF PlacesInv, QueuedWait, AnsweredSleep, QueueInOrder, Elements

LEMMA PlacesStep == QueueInv /\ PlacesInv /\ [Next]_vars => PlacesInv'
<1> SUFFICES ASSUME QueueInv, PlacesInv, [Next]_vars PROVE PlacesInv'
  OBVIOUS
<1>1. ASSUME NEW w \in Callers, NEW sync \in BOOLEAN, NEW null \in BOOLEAN, Write(w, sync, null)
      PROVE  PlacesInv'
  <2>1. w \in Writers
    BY <1>1 DEF Callers, Idle
  <2> QED
    BY <1>1, <2>1, WriteKeepsPlaces
<1>2. ASSUME NEW w \in Writers, Thread(w) PROVE PlacesInv'
  BY <1>2, WakeUpKeepsPlaces, LeaderStepKeepsPlaces, FinishKeepsPlaces, CompactMemoryKeepsPlaces
  DEF Thread
<1>3. CASE Closed \/ ProcessEnds \/ MachineEnds
  <2>1. NoProcess
    BY <1>3 DEF Closed, ProcessEnds, MachineEnds
  <2> QED
    BY <2>1, NoProcessKeepsPlaces
<1>4. CASE (\E w \in Writers : Spurious(w)) \/ Close \/ Open \/ OpenFails \/ UNCHANGED vars
  <2>1. UNCHANGED <<queue, op, done, calls, pc>>
    BY <1>4 DEF Spurious, Close, Open, OpenFails, vars, queueVars
  <2> QED
    BY <2>1, PlacesUnchanged
<1>5. CASE Background
  <2>1. UNCHANGED <<queue, op, done, calls, pc>>
    BY <1>5 DEF Background, BackgroundCall, CompactWithin, BuildTable, InstallFlush,
                InstallCompaction, queueVars
  <2> QED
    BY <2>1, PlacesUnchanged
<1> QED
  BY <1>1, <1>2, <1>3, <1>4, <1>5 DEF Next

-----------------------------------------------------------------------------
(* The logs of the memtables *)

MemsHaveLogs ==
  opened =>
    /\ DOMAIN mems = {log, imm} \ {Nil} /\ DOMAIN mems \subseteq DOMAIN logs
    /\ logNumber \in Nat /\ \A n \in DOMAIN mems : n \in Nat /\ logNumber <= n
    /\ \A n \in DOMAIN logs : n <= log

LEMMA MemsKeepLogs ==
  ASSUME MemsHaveLogs, UNCHANGED <<opened, log, imm, logNumber>>,
         DOMAIN mems' = DOMAIN mems, DOMAIN logs' \subseteq DOMAIN logs,
         opened => \A n \in DOMAIN logs : logNumber <= n => n \in DOMAIN logs'
  PROVE  MemsHaveLogs'
BY DEF MemsHaveLogs

LEMMA SwitchKeepsLogs ==
  ASSUME TablesInv, MemsHaveLogs, NEW w \in Writers, MakeRoom(w)
  PROVE  MemsHaveLogs'
<1>1. UNCHANGED <<opened, logNumber>>
  BY DEF MakeRoom, versionVars, lifeVars
<1>2. CASE UNCHANGED <<memVars, logs>>
  BY <1>1, <1>2, MemsKeepLogs DEF memVars
<1>3. CASE /\ imm = Nil /\ log' = log + 1 /\ imm' = log
           /\ mems' = [n \in {log, log + 1} |-> IF n = log THEN mems[n] ELSE {}]
           /\ logs' = [n \in DOMAIN logs \cup {log + 1} |->
                         IF n = log + 1 THEN [groups |-> <<>>, synced |-> 0] ELSE logs[n]]
  <2>1. log \in Nat /\ DOMAIN logs \subseteq Nat /\ Nil \notin Nat
    BY NilAssumption DEF TablesInv, NumbersAreNatural
  <2>2. DOMAIN mems' = {log, log + 1} /\ DOMAIN logs' = DOMAIN logs \cup {log + 1}
    BY <1>3
  <2>3. {log', imm'} \ {Nil} = {log, log + 1}
    BY <1>3, <2>1
  <2>4. opened => log \in DOMAIN mems
    BY <2>1 DEF MemsHaveLogs
  <2>5. opened => /\ log \in DOMAIN logs /\ logNumber \in Nat /\ logNumber <= log
                  /\ \A n \in DOMAIN logs : n <= log
    BY <2>4 DEF MemsHaveLogs
  <2>6. opened => /\ \A n \in DOMAIN logs' : n <= log'
                  /\ \A n \in DOMAIN mems' : n \in Nat /\ logNumber <= n
    BY <1>3, <2>1, <2>2, <2>5
  <2> QED
    BY <1>1, <2>2, <2>3, <2>5, <2>6 DEF MemsHaveLogs
<1> QED
  BY <1>2, <1>3 DEF MakeRoom, RoomError, RoomDelay, RoomFound, RoomWait, RoomSwitch

LEMMA ThreadKeepsLogs ==
  ASSUME TablesInv, MemsHaveLogs, NEW w \in Writers, Thread(w)
  PROVE  MemsHaveLogs'
<1>1. CASE WakeUp(w) \/ BackInRoom(w) \/ Finish(w) \/ CompactMemory(w)
  <2>1. UNCHANGED <<opened, log, imm, mems, logNumber, logs>>
    BY <1>1 DEF WakeUp, BackInRoom, Finish, CompactMemory, memVars, versionVars, diskVars, lifeVars
  <2> QED
    BY <2>1, MemsKeepLogs
<1>2. CASE AddRecord(w) \/ Sync(w)
  <2>1. UNCHANGED <<opened, log, imm, logNumber>> /\ DOMAIN logs' = DOMAIN logs
    BY <1>2 DEF AddRecord, Sync, versionVars, lifeVars
  <2>2. DOMAIN mems' = DOMAIN mems
    BY <1>2, InsertKeepsMems DEF AddRecord, Sync
  <2> QED
    BY <2>1, <2>2, MemsKeepLogs
<1> QED
  BY <1>1, <1>2, SwitchKeepsLogs DEF Thread

\* The logs that the background thread deletes are older than log_number_.
LEMMA DeletionKeepsLogs ==
  ASSUME DeleteObsoleteFiles
  PROVE  /\ DOMAIN logs' \subseteq DOMAIN logs /\ \A n \in DOMAIN logs' : logs'[n] = logs[n]
         /\ \A n \in DOMAIN logs : n >= logNumber' => n \in DOMAIN logs'
BY DEF DeleteObsoleteFiles

LEMMA BackgroundKeepsLogs ==
  ASSUME TablesInv, MemsHaveLogs, Background
  PROVE  MemsHaveLogs'
<1>1. log \in Nat /\ Nil \notin Nat
  BY NilAssumption DEF TablesInv, NumbersAreNatural
<1>2. CASE BackgroundCall \/ CompactWithin \/ BuildTable
  <2>1. UNCHANGED <<opened, log, imm, mems, logNumber, logs>>
    BY <1>2 DEF BackgroundCall, CompactWithin, BuildTable, memVars, versionVars, diskVars, lifeVars
  <2> QED
    BY <2>1, MemsKeepLogs
<1>3. CASE InstallFlush
  <2>1. UNCHANGED <<opened, log>>
    BY <1>3 DEF InstallFlush, lifeVars
  <2>2. CASE UNCHANGED <<logNumber, imm, mems, logs>>
    BY <2>1, <2>2, MemsKeepLogs
  <2>3. CASE logNumber' = log /\ imm' = Nil /\ mems' = [n \in {log} |-> mems[n]] /\ DeleteObsoleteFiles
    <3>1. /\ DOMAIN logs' \subseteq DOMAIN logs
          /\ \A n \in DOMAIN logs : n >= log => n \in DOMAIN logs'
      BY <2>3, DeletionKeepsLogs
    <3>2. DOMAIN mems' = {log} /\ {log', imm'} \ {Nil} = {log}
      BY <1>1, <2>1, <2>3
    <3>3. opened => log \in DOMAIN logs
      BY <1>1 DEF MemsHaveLogs
    <3>4. opened => log \in DOMAIN logs'
      BY <1>1, <3>1, <3>3
    <3>5. opened => \A n \in DOMAIN logs' : n <= log
      BY <3>1 DEF MemsHaveLogs
    <3> QED
      BY <1>1, <2>1, <2>3, <3>2, <3>4, <3>5 DEF MemsHaveLogs
  <2> QED
    BY <1>3, <2>2, <2>3 DEF InstallFlush, versionVars
<1>4. CASE InstallCompaction
  <2>1. UNCHANGED <<opened, log, imm, mems, logNumber>> /\ DeleteObsoleteFiles
    BY <1>4 DEF InstallCompaction, lifeVars
  <2>2. /\ DOMAIN logs' \subseteq DOMAIN logs
        /\ \A n \in DOMAIN logs : n >= logNumber => n \in DOMAIN logs'
    BY <2>1, DeletionKeepsLogs
  <2>3. opened => logNumber \in Nat
    BY DEF MemsHaveLogs
  <2>4. opened => \A n \in DOMAIN logs : logNumber <= n => n \in DOMAIN logs'
    BY <2>2, <2>3 DEF TablesInv, NumbersAreNatural
  <2> QED
    BY <2>1, <2>2, <2>4, MemsKeepLogs
<1> QED
  BY <1>2, <1>3, <1>4 DEF Background

LEMMA OpenKeepsLogs ==
  ASSUME TablesInv, Open
  PROVE  MemsHaveLogs'
<1>1. imm' = Nil /\ logNumber' = log' /\ DOMAIN mems' = {log'} /\ DOMAIN logs' = {log'}
  BY DEF Open, TablesInv, Quiet
<1>2. log' \in Nat /\ Nil \notin Nat
  BY NilAssumption, OpenKeepsTables DEF TablesInv, NumbersAreNatural
<1> QED
  BY <1>1, <1>2 DEF MemsHaveLogs

LEMMA MemsInit == Init => MemsHaveLogs
<1> SUFFICES ASSUME Init PROVE MemsHaveLogs
  OBVIOUS
<1>1. log = 1 /\ imm = Nil /\ DOMAIN mems = {1} /\ DOMAIN logs = {1} /\ logNumber = 1
  BY DEF Init
<1>2. 1 # Nil
  BY NilAssumption
<1> QED
  BY <1>1, <1>2 DEF MemsHaveLogs

LEMMA MemsStep == TablesInv /\ MemsHaveLogs /\ [Next]_vars => MemsHaveLogs'
<1> SUFFICES ASSUME TablesInv, MemsHaveLogs, [Next]_vars PROVE MemsHaveLogs'
  OBVIOUS
<1>1. ASSUME NEW w, NEW sync, NEW null, Write(w, sync, null) PROVE MemsHaveLogs'
  <2>1. UNCHANGED <<opened, log, imm, mems, logNumber, logs>>
    BY <1>1 DEF Write, memVars, versionVars, diskVars, lifeVars
  <2> QED
    BY <2>1, MemsKeepLogs
<1>2. CASE (\E w \in Writers : Spurious(w)) \/ Close \/ OpenFails \/ UNCHANGED vars
  <2>1. UNCHANGED <<opened, log, imm, mems, logNumber, logs>>
    BY <1>2 DEF Spurious, Close, OpenFails, vars, memVars, versionVars, diskVars, lifeVars
  <2> QED
    BY <2>1, MemsKeepLogs
<1>3. CASE Closed \/ ProcessEnds \/ MachineEnds
  <2>1. opened' = FALSE
    BY <1>3 DEF Closed, ProcessEnds, MachineEnds, NoProcess
  <2> QED
    BY <2>1 DEF MemsHaveLogs
<1> QED
  BY <1>1, <1>2, <1>3, ThreadKeepsLogs, BackgroundKeepsLogs, OpenKeepsLogs DEF Next

-----------------------------------------------------------------------------
(* The order of the logs *)

\* A group has its batches at their places in the queue.
Groups == UNION {[places -> Nat] : places \in SUBSET Nat}
LogsType ==
  \A n \in DOMAIN logs :
    logs[n] \in [groups : Seq(Groups), synced : Nat] /\ logs[n].synced <= Len(logs[n].groups)

\* What is in the logs was called before what is not.
Written == IF \E w \in Writers : pc[w] \in {"sync", "finish"} THEN Length ELSE 0
LoggedBefore ==
  \A n \in DOMAIN logs : \A i \in DOMAIN logs[n].groups : \A k \in DOMAIN logs[n].groups[i] :
    /\ logs[n].groups[i][k] <= calls
    /\ \A j \in DOMAIN queue : Written < j => logs[n].groups[i][k] < op[queue[j]].batch

OrderInv == LogsType /\ LoggedBefore /\ LoggedInOrder
AllButOrder == QueueInv /\ PlacesInv /\ TablesInv /\ MemsHaveLogs

LEMMA GroupsType ==
  /\ Torn \in Groups
  /\ \A g \in Groups : DOMAIN g \subseteq Nat /\ \A k \in DOMAIN g : g[k] \in Nat
<1>1. Torn \in [{1} -> Nat]
  BY DEF Torn
<1>2. {1} \in SUBSET Nat
  OBVIOUS
<1> QED
  BY <1>1, <1>2 DEF Groups

LEMMA LoggedType ==
  ASSUME LogsType, NEW n \in DOMAIN logs
  PROVE  /\ logs[n].groups \in Seq(Groups) /\ Len(logs[n].groups) \in Nat
         /\ DOMAIN logs[n].groups = 1..Len(logs[n].groups)
         /\ \A i \in DOMAIN logs[n].groups :
              /\ logs[n].groups[i] \in Groups /\ DOMAIN logs[n].groups[i] \subseteq Nat
              /\ \A k \in DOMAIN logs[n].groups[i] : logs[n].groups[i][k] \in Nat
<1>1. logs[n].groups \in Seq(Groups)
  BY DEF LogsType
<1>2. \A i \in DOMAIN logs[n].groups : logs[n].groups[i] \in Groups
  BY <1>1
<1> QED
  BY <1>1, <1>2, GroupsType

\* What a reader finds in a beginning of a log, it finds in the log.
LEMMA ReadablePrefix ==
  ASSUME NEW g \in Seq(Groups), NEW h, \A i \in DOMAIN g : i \in DOMAIN h /\ g[i] = h[i]
  PROVE  Readable(g) \subseteq Readable(h)
<1>1. \A i \in DOMAIN g : 1..i \subseteq DOMAIN g
  OBVIOUS
<1>2. ASSUME NEW b \in Readable(g) PROVE b \in Readable(h)
  <2>1. PICK i \in DOMAIN g : (\A k \in 1..i : g[k] # Torn) /\ b \in Elements(g[i])
    BY <1>2 DEF Readable
  <2>2. i \in DOMAIN h /\ (\A k \in 1..i : h[k] # Torn) /\ b \in Elements(h[i])
    BY <1>1, <2>1
  <2> QED
    BY <2>2 DEF Readable
<1> QED
  BY <1>2

\* Of each log a beginning is left, and empty logs may be new.
Shortened ==
  \A n \in DOMAIN logs' :
    /\ logs'[n] \in [groups : Seq(Groups), synced : Nat] /\ logs'[n].synced <= Len(logs'[n].groups)
    /\ \A i \in DOMAIN logs'[n].groups :
         n \in DOMAIN logs /\ i \in DOMAIN logs[n].groups /\ logs'[n].groups[i] = logs[n].groups[i]

\* Who is in the queue and not in the logs was there, or calls now.
QueueGoesOn ==
  /\ calls' \in Nat /\ calls <= calls'
  /\ \A j \in DOMAIN queue' : Written' < j =>
       \/ op'[queue'[j]].batch = calls + 1
       \/ \E i \in DOMAIN queue : Written < i /\ op'[queue'[j]].batch = op[queue[i]].batch

LEMMA ShortenedKeepsOrder ==
  ASSUME OrderInv, Shortened
  PROVE  LogsType' /\ LoggedInOrder'
<1>1. LogsType'
  BY DEF Shortened, LogsType
<1>2. ASSUME NEW n \in DOMAIN logs', NEW b \in Readable(logs'[n].groups)
      PROVE  n \in DOMAIN logs /\ b \in Readable(logs[n].groups)
  <2>1. /\ logs'[n].groups \in Seq(Groups)
        /\ \A i \in DOMAIN logs'[n].groups :
             n \in DOMAIN logs /\ i \in DOMAIN logs[n].groups /\ logs'[n].groups[i] = logs[n].groups[i]
    BY DEF Shortened
  <2>2. n \in DOMAIN logs
    BY <1>2, <2>1 DEF Readable
  <2>3. Readable(logs'[n].groups) \subseteq Readable(logs[n].groups)
    BY <2>1, ReadablePrefix
  <2> QED
    BY <1>2, <2>2, <2>3
<1>3. LoggedInOrder'
  <2>1. ASSUME NEW n \in DOMAIN logs', NEW i \in DOMAIN logs'[n].groups, NEW j \in DOMAIN logs'[n].groups,
               NEW k \in DOMAIN logs'[n].groups[i], NEW l \in DOMAIN logs'[n].groups[j],
               i < j \/ (i = j /\ k < l)
        PROVE  logs'[n].groups[j] = Torn \/ logs'[n].groups[i][k] < logs'[n].groups[j][l]
    BY <2>1 DEF Shortened, OrderInv, LoggedInOrder
  <2>2. ASSUME NEW m \in DOMAIN logs', NEW n \in DOMAIN logs', m < n,
               NEW a \in Readable(logs'[m].groups), NEW b \in Readable(logs'[n].groups)
        PROVE  a < b
    BY <1>2, <2>2 DEF OrderInv, LoggedInOrder
  <2> QED
    BY <2>1, <2>2 DEF LoggedInOrder
<1> QED
  BY <1>1, <1>3

LEMMA ShortenedGoesOn ==
  ASSUME OrderInv, PlacesInv, Shortened, QueueGoesOn
  PROVE  OrderInv'
<1>1. LogsType' /\ LoggedInOrder'
  BY ShortenedKeepsOrder
<1>2. LoggedBefore'
  <2> SUFFICES ASSUME NEW n \in DOMAIN logs', NEW i \in DOMAIN logs'[n].groups,
                      NEW k \in DOMAIN logs'[n].groups[i]
               PROVE  /\ logs'[n].groups[i][k] <= calls'
                      /\ \A j \in DOMAIN queue' : Written' < j =>
                           logs'[n].groups[i][k] < op'[queue'[j]].batch
    BY DEF LoggedBefore
  <2>1. /\ n \in DOMAIN logs /\ i \in DOMAIN logs[n].groups /\ k \in DOMAIN logs[n].groups[i]
        /\ logs'[n].groups[i] = logs[n].groups[i]
    BY DEF Shortened
  <2>2. logs[n].groups[i][k] \in Nat
    BY <2>1, LoggedType DEF OrderInv
  <2>3. /\ logs[n].groups[i][k] <= calls
        /\ \A j \in DOMAIN queue : Written < j => logs[n].groups[i][k] < op[queue[j]].batch
    BY <2>1 DEF OrderInv, LoggedBefore
  <2>4. calls \in Nat /\ calls' \in Nat /\ calls <= calls'
    BY DEF PlacesInv, CallsType, QueueGoesOn
  <2>5. ASSUME NEW j \in DOMAIN queue', Written' < j
        PROVE  logs[n].groups[i][k] < op'[queue'[j]].batch
    <3>1. CASE op'[queue'[j]].batch = calls + 1
      BY <2>2, <2>3, <2>4, <3>1
    <3>2. ASSUME NEW m \in DOMAIN queue, Written < m, op'[queue'[j]].batch = op[queue[m]].batch
          PROVE  logs[n].groups[i][k] < op'[queue'[j]].batch
      BY <2>3, <3>2
    <3> QED
      BY <2>5, <3>1, <3>2 DEF QueueGoesOn
  <2> QED
    BY <2>1, <2>2, <2>3, <2>4, <2>5
<1> QED
  BY <1>1, <1>2 DEF OrderInv

LEMMA SameLogsShortened ==
  ASSUME LogsType, DOMAIN logs' \subseteq DOMAIN logs, \A n \in DOMAIN logs' : logs'[n] = logs[n]
  PROVE  Shortened
BY DEF Shortened, LogsType

\* How much of the queue is in the log, by the place of the thread that answers for it.
LEMMA WrittenIs ==
  ASSUME QueueInv, NEW w \in Writers, pc[w] \in Active
  PROVE  Written = IF pc[w] \in {"sync", "finish"} THEN Length ELSE 0
<1>1. \A v \in Writers : pc[v] \in {"sync", "finish"} => v = w
  BY DEF QueueInv, OneLogger, Active
<1> QED
  BY <1>1 DEF Written

LEMMA LengthIsPlace ==
  ASSUME QueueInv, NEW w \in Writers, pc[w] \in Logging
  PROVE  Length \in DOMAIN queue /\ queue[Length] = last
BY DEF QueueInv, GroupIsQueued, Length, Elements

LEMMA WrittenType ==
  ASSUME QueueInv
  PROVE  Written \in Nat
<1>1. CASE \E w \in Writers : pc[w] \in {"sync", "finish"}
  <2>1. Length \in DOMAIN queue
    BY <1>1, LengthIsPlace DEF Logging
  <2> QED
    BY <1>1, <2>1 DEF Written, QueueInv, QueueType
<1>2. CASE ~ \E w \in Writers : pc[w] \in {"sync", "finish"}
  BY <1>2 DEF Written
<1> QED
  BY <1>1, <1>2

\* The queue stays, and no less of it is in the log, or nothing was.
LEMMA SameQueueGoesOn ==
  ASSUME QueueInv, PlacesInv, UNCHANGED <<queue, op, calls>>, Written' = Written \/ Written = 0,
         Written' \in Nat
  PROVE  QueueGoesOn
<1>1. calls \in Nat /\ DOMAIN queue = 1..Len(queue) /\ Len(queue) \in Nat
  BY DEF PlacesInv, CallsType, QueueInv, QueueType
<1>2. \A j \in DOMAIN queue : Written' < j => Written < j
  BY <1>1
<1> QED
  BY <1>1, <1>2 DEF QueueGoesOn

LEMMA WrittenSame ==
  ASSUME UNCHANGED <<queue, last>>,
         (\E v \in Writers : pc'[v] \in {"sync", "finish"}) <=> (\E v \in Writers : pc[v] \in {"sync", "finish"})
  PROVE  Written' = Written
BY DEF Written, Length

\* All steps but those to the log, the calls and the returns.
LEMMA ThreadGoesOn ==
  ASSUME QueueInv, QueueInv', PlacesInv, NEW w \in Writers,
         WakeUp(w) \/ MakeRoom(w) \/ BackInRoom(w) \/ AddRecord(w) \/ Sync(w) \/ CompactMemory(w)
  PROVE  QueueGoesOn
<1>1. UNCHANGED <<queue, op, calls>>
  BY DEF WakeUp, MakeRoom, BackInRoom, AddRecord, Sync, CompactMemory, queueVars
<1>2. Written' \in Nat
  <2>1. CASE \E v \in Writers : pc'[v] \in {"sync", "finish"}
    <3>1. last' \in Elements(queue') /\ DOMAIN queue' \subseteq Nat
      BY <2>1 DEF QueueInv, GroupIsQueued, QueueType, Logging
    <3>2. (CHOOSE n \in DOMAIN queue' : queue'[n] = last') \in DOMAIN queue'
      BY <3>1 DEF Elements
    <3> QED
      BY <2>1, <3>1, <3>2 DEF Written, Length
  <2>2. CASE ~ \E v \in Writers : pc'[v] \in {"sync", "finish"}
    BY <2>2 DEF Written
  <2> QED
    BY <2>1, <2>2
<1>3. CASE MakeRoom(w) \/ BackInRoom(w) \/ AddRecord(w)
  <2>1. pc[w] \in Active \ {"sync", "finish"}
    BY <1>3 DEF MakeRoom, BackInRoom, AddRecord, Runs, Active
  <2>2. Written = 0
    BY <2>1, WrittenIs
  <2> QED
    BY <1>1, <1>2, <2>2, SameQueueGoesOn
<1>4. CASE Sync(w)
  <2>1. pc[w] = "sync" /\ GoTo(w, "finish") /\ UNCHANGED last
    BY <1>4 DEF Sync, InsertInto, queueVars
  <2>2. pc'[w] = "finish"
    BY <2>1 DEF GoTo, QueueInv, QueueType
  <2>3. Written' = Written
    BY <1>1, <2>1, <2>2, WrittenSame
  <2> QED
    BY <1>1, <1>2, <2>3, SameQueueGoesOn
<1>5. ASSUME NEW at \in Outside, pc' = [pc EXCEPT ![w] = at], pc[w] \notin Active, UNCHANGED last
      PROVE  QueueGoesOn
  <2>1. pc'[w] = at /\ \A v \in Writers \ {w} : pc'[v] = pc[v]
    BY <1>5 DEF QueueInv, QueueType
  <2>2. Written' = Written
    BY <1>1, <1>5, <2>1, WrittenSame DEF Outside, Active
  <2> QED
    BY <1>1, <1>2, <2>2, SameQueueGoesOn
<1>6. CASE CompactMemory(w)
  <2>1. pc[w] \notin Active /\ UNCHANGED last /\ \E at \in Outside : pc' = [pc EXCEPT ![w] = at]
    BY <1>6 DEF CompactMemory, Runs, GoTo, Active, Outside, queueVars
  <2> QED
    BY <1>5, <2>1
<1>7. CASE WakeUp(w)
  <2>1. pc[w] = "queued" /\ UNCHANGED last
    BY <1>7 DEF WakeUp, Runs
  <2>2. CASE Return(w, done[w])
    <3>1. \E at \in Outside : pc' = [pc EXCEPT ![w] = at]
      BY <2>2 DEF Return, Outside
    <3> QED
      BY <1>5, <2>1, <3>1 DEF Active
  <2>3. CASE Leads(w)
    <3>1. \A v \in Writers : pc[v] \notin Active
      BY <2>1, <2>3 DEF Leads, QueueInv, OneLogger, Active
    <3>2. Written = 0
      BY <3>1 DEF Written, Active
    <3> QED
      BY <1>1, <1>2, <3>2, SameQueueGoesOn
  <2>4. CASE UNCHANGED pc
    <3>1. Written' = Written
      BY <1>1, <2>1, <2>4, WrittenSame
    <3> QED
      BY <1>1, <1>2, <3>1, SameQueueGoesOn
  <2> QED
    BY <1>7, <2>2, <2>3, <2>4 DEF WakeUp
<1> QED
  BY <1>3, <1>4, <1>6, <1>7

LEMMA FinishGoesOn ==
  ASSUME QueueInv, PlacesInv, NEW w \in Writers, Finish(w)
  PROVE  QueueGoesOn
<1>1. UNCHANGED <<op, calls>> /\ calls \in Nat
  BY DEF Finish, PlacesInv, CallsType
<1> DEFINE n == Length
<1>2. /\ pc[w] = "finish" /\ Len(queue) \in Nat /\ n \in 1..Len(queue) /\ DOMAIN queue = 1..Len(queue)
      /\ DOMAIN queue' = 1..Len(queue) - n
      /\ \A i \in 1..Len(queue) - n : queue'[i] = queue[n + i]
  BY FinishLeaves
<1>3. Written = n
  BY <1>2, WrittenIs DEF Active
<1> HIDE DEF n
<1>4. \A j \in DOMAIN queue' : n + j \in DOMAIN queue /\ n < n + j /\ queue'[j] = queue[n + j]
  BY <1>2
<1> QED
  BY <1>1, <1>3, <1>4 DEF QueueGoesOn

LEMMA PlaceIn ==
  ASSUME NEW q, NEW i \in DOMAIN q, \A j \in DOMAIN q : q[j] = q[i] => j = i
  PROVE  (CHOOSE n \in DOMAIN q : q[n] = q[i]) = i
OBVIOUS

\* A call joins at the end: the group that is being written is not touched.
LEMMA WriteLeavesGroup ==
  ASSUME QueueInv, PlacesInv, NEW w \in Writers, NEW sync, NEW null, Write(w, sync, null)
  PROVE  /\ Len(queue) \in Nat /\ DOMAIN queue = 1..Len(queue) /\ DOMAIN queue' = 1..Len(queue) + 1
         /\ \A i \in DOMAIN queue : queue'[i] = queue[i] /\ queue[i] # w /\ op'[queue[i]] = op[queue[i]]
         /\ queue'[Len(queue) + 1] = w /\ op'[w].batch = calls + 1
         /\ \A at \in {"append", "sync", "finish"}, v \in Writers :
              pc'[v] = at <=> pc[v] = at /\ v # w
         /\ (\E v \in Writers : pc[v] \in Logging) => Length' = Length /\ Length \in DOMAIN queue
<1>1. /\ pc[w] = "idle" /\ queue' = Append(queue, w) /\ UNCHANGED last
      /\ op' = [op EXCEPT ![w] = [batch |-> calls + 1, sync |-> sync, null |-> null]]
      /\ queue \in Seq(Writers) /\ op \in [Writers -> Call \cup {Nil}]
  BY DEF Write, QueueInv, QueueType, PlacesInv, CallsType
<1>2. PICK at \in {"room", "queued"} : pc' = [pc EXCEPT ![w] = at]
  BY DEF Write, GoTo
<1>3. pc'[w] = at /\ \A v \in Writers \ {w} : pc'[v] = pc[v]
  BY <1>2 DEF QueueInv, QueueType
<1>4. /\ Len(queue) \in Nat /\ DOMAIN queue = 1..Len(queue) /\ DOMAIN queue' = 1..Len(queue) + 1
      /\ \A i \in 1..Len(queue) : queue'[i] = queue[i]
      /\ queue'[Len(queue) + 1] = w
  BY <1>1
<1>5. \A i \in DOMAIN queue : queue[i] \in Writers /\ queue[i] # w
  BY <1>1, QueuedCalls DEF Outside, QueueInv
<1>6. ASSUME NEW v \in Writers, pc[v] \in Logging
      PROVE  Length' = Length /\ Length \in DOMAIN queue
  <2>1. Length \in DOMAIN queue /\ queue[Length] = last
    BY <1>6, LengthIsPlace
  <2> DEFINE n == Length
  <2>2. n \in DOMAIN queue /\ queue[n] = last
    BY <2>1
  <2> HIDE DEF n
  <2>3. n \in DOMAIN queue' /\ queue'[n] = last
    BY <1>4, <2>2
  <2>4. \A j \in DOMAIN queue' : queue'[j] = queue'[n] => j = n
    <3> SUFFICES ASSUME NEW j \in DOMAIN queue', queue'[j] = queue'[n] PROVE j = n
      OBVIOUS
    <3>1. j \in DOMAIN queue
      BY <1>4, <1>5, <2>2
    <3> QED
      BY <1>4, <2>2, <3>1, OnePlace DEF QueueInv
  <2>5. (CHOOSE m \in DOMAIN queue' : queue'[m] = queue'[n]) = n
    BY <2>3, <2>4, PlaceIn
  <2>6. Length' = n
    BY <1>1, <2>3, <2>5 DEF Length
  <2> QED
    BY <2>2, <2>6 DEF n
<1> QED
  BY <1>1, <1>3, <1>4, <1>5, <1>6

LEMMA WriteGoesOn ==
  ASSUME QueueInv, PlacesInv, NEW w \in Writers, NEW sync, NEW null, Write(w, sync, null)
  PROVE  QueueGoesOn
<1>1. calls' = calls + 1 /\ calls \in Nat
  BY DEF Write, PlacesInv, CallsType
<1>2. /\ Len(queue) \in Nat /\ DOMAIN queue = 1..Len(queue) /\ DOMAIN queue' = 1..Len(queue) + 1
      /\ \A i \in DOMAIN queue : queue'[i] = queue[i] /\ op'[queue[i]] = op[queue[i]]
      /\ queue'[Len(queue) + 1] = w /\ op'[w].batch = calls + 1
  BY WriteLeavesGroup
<1>3. Written' = Written
  <2>1. pc[w] = "idle"
    BY DEF Write
  <2>2. \A at \in {"sync", "finish"}, v \in Writers : pc'[v] = at <=> pc[v] = at
    BY <2>1, WriteLeavesGroup
  <2>3. (\E v \in Writers : pc[v] \in {"sync", "finish"}) => Length' = Length
    BY WriteLeavesGroup DEF Logging
  <2> QED
    BY <2>2, <2>3 DEF Written
<1>4. ASSUME NEW j \in DOMAIN queue', Written' < j
      PROVE  \/ op'[queue'[j]].batch = calls + 1
             \/ \E i \in DOMAIN queue : Written < i /\ op'[queue'[j]].batch = op[queue[i]].batch
  <2>1. j = Len(queue) + 1 \/ j \in DOMAIN queue
    BY <1>2
  <2> QED
    BY <1>2, <1>3, <1>4, <2>1
<1> QED
  BY <1>1, <1>4 DEF QueueGoesOn

\* What a record that is appended adds to what a reader finds.
LEMMA ReadableAppend ==
  ASSUME NEW h \in Seq(Groups), NEW g \in Groups
  PROVE  /\ Append(h, g) \in Seq(Groups) /\ Len(Append(h, g)) = Len(h) + 1 /\ Len(h) \in Nat
         /\ DOMAIN h = 1..Len(h) /\ DOMAIN Append(h, g) = 1..Len(h) + 1
         /\ \A i \in DOMAIN h : Append(h, g)[i] = h[i]
         /\ Append(h, g)[Len(h) + 1] = g
         /\ \A b \in Readable(Append(h, g)) : b \in Readable(h) \/ (g # Torn /\ b \in Elements(g))
<1> DEFINE more == Append(h, g)
<1>1. /\ more \in Seq(Groups) /\ Len(more) = Len(h) + 1 /\ Len(h) \in Nat
      /\ \A i \in 1..Len(h) : more[i] = h[i]
      /\ more[Len(h) + 1] = g
  BY AppendProperties
<1> HIDE DEF more
<1>2. DOMAIN h = 1..Len(h) /\ DOMAIN more = 1..Len(h) + 1
  BY <1>1
<1>3. ASSUME NEW b \in Readable(more) PROVE b \in Readable(h) \/ (g # Torn /\ b \in Elements(g))
  <2>1. PICK i \in DOMAIN more : (\A k \in 1..i : more[k] # Torn) /\ b \in Elements(more[i])
    BY <1>3 DEF Readable
  <2>2. CASE i = Len(h) + 1
    <3>1. i \in 1..i
      BY <1>1, <2>2
    <3> QED
      BY <1>1, <2>1, <2>2, <3>1
  <2>3. CASE i \in DOMAIN h
    <3>1. \A k \in 1..i : k \in 1..Len(h)
      BY <1>2, <2>3
    <3>2. (\A k \in 1..i : h[k] # Torn) /\ b \in Elements(h[i])
      BY <1>1, <1>2, <2>1, <2>3, <3>1
    <3> QED
      BY <2>3, <3>2 DEF Readable
  <2> QED
    BY <1>1, <1>2, <2>2, <2>3
<1> QED
  BY <1>1, <1>2, <1>3 DEF more

\* The first writer's group is appended, or a torn record.
LEMMA AppendKeepsOrder ==
  ASSUME QueueInv, PlacesInv, TablesInv, MemsHaveLogs, OrderInv, NEW w \in Writers,
         pc[w] = "append", pc' \in [Writers -> Places], pc'[w] \in {"sync", "finish"},
         UNCHANGED <<queue, op, calls, last>>,
         NEW g \in Groups, logs' = [logs EXCEPT ![log].groups = Append(@, g)],
         g # Torn => \A k \in DOMAIN g : k \in 1..Length /\ g[k] = op[queue[k]].batch
  PROVE  OrderInv'
<1>1. opened
  BY ThreadNeedsProcess
<1>2. log \in Nat /\ log \in DOMAIN logs /\ DOMAIN logs \subseteq Nat /\ \A n \in DOMAIN logs : n <= log
  <2>1. log \in Nat /\ log # Nil /\ DOMAIN logs \subseteq Nat
    BY NilAssumption DEF TablesInv, NumbersAreNatural
  <2> QED
    BY <1>1, <2>1 DEF MemsHaveLogs
<1> DEFINE n0 == Length
           h == logs[log].groups
<1>3. n0 \in DOMAIN queue /\ DOMAIN queue = 1..Len(queue) /\ Len(queue) \in Nat
  BY LengthIsPlace DEF Logging, QueueInv, QueueType
<1>4. Written = 0
  BY WrittenIs DEF Active
<1>5. Written' = n0
  BY DEF Written, Length
<1>6. h \in Seq(Groups) /\ Len(h) \in Nat
  BY <1>2, LoggedType DEF OrderInv
<1>7. g # Torn => \A k \in DOMAIN g : k \in 1..n0 /\ g[k] = op[queue[k]].batch
  OBVIOUS
<1> HIDE DEF n0
<1>8. calls \in Nat /\ \A k \in DOMAIN g : g[k] \in Nat
  BY GroupsType DEF PlacesInv, CallsType
<1>9. ASSUME NEW k \in DOMAIN g
      PROVE  /\ g[k] <= calls
             /\ \A j \in DOMAIN queue : n0 < j => g[k] < op[queue[j]].batch
  <2>1. CASE g = Torn
    <3>1. g[k] = 0
      BY <2>1 DEF Torn
    <3>2. \A j \in DOMAIN queue : 0 < op[queue[j]].batch
      BY QueuedCalls DEF QueueInv
    <3> QED
      BY <1>8, <3>1, <3>2
  <2>2. CASE g # Torn
    <3>1. k \in 1..n0 /\ k \in DOMAIN queue /\ g[k] = op[queue[k]].batch
      BY <1>3, <1>7, <2>2
    <3>2. op[queue[k]].batch \in 1..calls
      BY <3>1, QueuedCalls DEF QueueInv
    <3>3. \A j \in DOMAIN queue : n0 < j => k < j
      BY <1>3, <3>1
    <3> QED
      BY <1>8, <3>1, <3>2, <3>3 DEF PlacesInv, QueueInOrder
  <2> QED
    BY <2>1, <2>2
<1> DEFINE more == Append(h, g)
<1>10. /\ more \in Seq(Groups) /\ Len(more) = Len(h) + 1
       /\ DOMAIN h = 1..Len(h) /\ DOMAIN more = 1..Len(h) + 1
       /\ \A i \in DOMAIN h : more[i] = h[i]
       /\ more[Len(h) + 1] = g
       /\ \A b \in Readable(more) : b \in Readable(h) \/ (g # Torn /\ b \in Elements(g))
  BY <1>6, ReadableAppend
<1>11. /\ DOMAIN logs' = DOMAIN logs /\ \A n \in DOMAIN logs : n # log => logs'[n] = logs[n]
       /\ logs'[log].groups = more /\ logs'[log].synced = logs[log].synced
       /\ logs'[log] = [groups |-> more, synced |-> logs[log].synced]
  <2>1. logs[log] \in [groups : Seq(Groups), synced : Nat]
    BY <1>2 DEF OrderInv, LogsType
  <2> QED
    BY <1>2, <2>1
<1> HIDE DEF more, h
<1>12. LogsType'
  <2>1. logs[log].synced \in Nat /\ logs[log].synced <= Len(h)
    BY <1>2 DEF OrderInv, LogsType, h
  <2>2. [groups |-> more, synced |-> logs[log].synced] \in [groups : Seq(Groups), synced : Nat]
    BY <1>10, <2>1
  <2>3. logs'[log].synced <= Len(logs'[log].groups)
    BY <1>6, <1>10, <1>11, <2>1
  <2> QED
    BY <1>11, <2>2, <2>3 DEF OrderInv, LogsType
<1>13. ASSUME NEW n \in DOMAIN logs', NEW i \in DOMAIN logs'[n].groups
       PROVE  \/ n = log /\ i = Len(h) + 1 /\ logs'[n].groups[i] = g
              \/ n \in DOMAIN logs /\ i \in DOMAIN logs[n].groups /\ logs'[n].groups[i] = logs[n].groups[i]
  <2>1. CASE n # log
    BY <1>11, <2>1
  <2>2. CASE n = log
    <3>1. i \in DOMAIN more /\ logs'[n].groups[i] = more[i] /\ logs[n].groups = h
      BY <1>11, <1>13, <2>2 DEF h
    <3> QED
      BY <1>2, <1>6, <1>10, <2>2, <3>1
  <2> QED
    BY <2>1, <2>2
<1>14. LoggedBefore'
  <2> SUFFICES ASSUME NEW n \in DOMAIN logs', NEW i \in DOMAIN logs'[n].groups,
                      NEW k \in DOMAIN logs'[n].groups[i]
               PROVE  /\ logs'[n].groups[i][k] <= calls
                      /\ \A j \in DOMAIN queue : n0 < j => logs'[n].groups[i][k] < op[queue[j]].batch
    BY <1>5 DEF LoggedBefore
  <2>1. CASE logs'[n].groups[i] = g
    BY <1>9, <2>1
  <2>2. CASE n \in DOMAIN logs /\ i \in DOMAIN logs[n].groups /\ logs'[n].groups[i] = logs[n].groups[i]
    BY <1>3, <1>4, <2>2 DEF OrderInv, LoggedBefore
  <2> QED
    BY <1>13, <2>1, <2>2
<1>15. ASSUME NEW n \in DOMAIN logs', NEW i \in DOMAIN logs'[n].groups, NEW j \in DOMAIN logs'[n].groups,
              NEW k \in DOMAIN logs'[n].groups[i], NEW l \in DOMAIN logs'[n].groups[j],
              i < j \/ (i = j /\ k < l)
       PROVE  logs'[n].groups[j] = Torn \/ logs'[n].groups[i][k] < logs'[n].groups[j][l]
  <2>1. CASE j \in DOMAIN logs[n].groups /\ n \in DOMAIN logs /\ logs'[n].groups[j] = logs[n].groups[j]
    <3>1. i \in DOMAIN logs[n].groups /\ logs'[n].groups[i] = logs[n].groups[i]
      <4>1. n = log => j \in 1..Len(h)
        BY <1>10, <2>1 DEF h
      <4>2. ~(n = log /\ i = Len(h) + 1)
        BY <1>6, <1>15, <4>1
      <4> QED
        BY <1>13, <4>2
    <3> QED
      BY <1>15, <2>1, <3>1 DEF OrderInv, LoggedInOrder
  <2>2. CASE n = log /\ j = Len(h) + 1 /\ logs'[n].groups[j] = g /\ g # Torn
    <3>1. l \in 1..n0 /\ l \in DOMAIN queue /\ g[l] = op[queue[l]].batch /\ 0 < l
      BY <1>3, <1>7, <2>2
    <3>2. CASE i = Len(h) + 1
      <4>1. k < l /\ logs'[n].groups[i] = g
        BY <1>6, <1>15, <2>2, <3>2
      <4>2. k \in DOMAIN queue /\ g[k] = op[queue[k]].batch
        BY <1>3, <1>7, <2>2, <4>1
      <4> QED
        BY <2>2, <3>1, <4>1, <4>2 DEF PlacesInv, QueueInOrder
    <3>3. CASE n \in DOMAIN logs /\ i \in DOMAIN logs[n].groups /\ logs'[n].groups[i] = logs[n].groups[i]
      BY <1>4, <2>2, <3>1, <3>3 DEF OrderInv, LoggedBefore
    <3> QED
      BY <1>13, <3>2, <3>3
  <2> QED
    BY <1>13, <2>1, <2>2
<1>16. ASSUME NEW m \in DOMAIN logs', NEW n \in DOMAIN logs', m < n,
              NEW a \in Readable(logs'[m].groups), NEW b \in Readable(logs'[n].groups)
       PROVE  a < b
  <2>1. m # log /\ logs'[m] = logs[m] /\ m \in DOMAIN logs /\ a \in Readable(logs[m].groups)
    BY <1>2, <1>11, <1>16
  <2>2. CASE n \in DOMAIN logs /\ b \in Readable(logs[n].groups)
    BY <1>16, <2>1, <2>2 DEF OrderInv, LoggedInOrder
  <2>3. CASE g # Torn /\ b \in Elements(g)
    <3>1. PICK l \in DOMAIN g : b = g[l]
      BY <2>3 DEF Elements
    <3>2. l \in DOMAIN queue /\ 0 < l /\ b = op[queue[l]].batch
      BY <1>3, <1>7, <2>3, <3>1
    <3>3. PICK i \in DOMAIN logs[m].groups : a \in Elements(logs[m].groups[i])
      BY <2>1 DEF Readable
    <3>4. PICK k \in DOMAIN logs[m].groups[i] : a = logs[m].groups[i][k]
      BY <3>3 DEF Elements
    <3> QED
      BY <1>4, <2>1, <3>2, <3>4 DEF OrderInv, LoggedBefore
  <2> QED
    BY <1>10, <1>11, <1>16, <2>2, <2>3 DEF h
<1>17. LoggedInOrder'
  BY <1>15, <1>16 DEF LoggedInOrder
<1> QED
  BY <1>12, <1>14, <1>17 DEF OrderInv

\* The group of the first writer.
LEMMA GroupType ==
  ASSUME QueueInv, PlacesInv, NEW w \in Writers, pc[w] = "append"
  PROVE  /\ Group \in Groups /\ Group # Torn
         /\ \A k \in DOMAIN Group : k \in 1..Length /\ Group[k] = op[queue[k]].batch
<1> DEFINE n == Length
           places == {j \in 1..n : ~op[queue[j]].null}
<1>1. n \in DOMAIN queue /\ DOMAIN queue = 1..Len(queue) /\ Len(queue) \in Nat
  BY LengthIsPlace DEF Logging, QueueInv, QueueType
<1>2. Group = [i \in places |-> op[queue[i]].batch]
  BY DEF Group, Batches
<1> HIDE DEF n
<1>3. \A i \in places : i \in DOMAIN queue
  BY <1>1
<1>4. \A i \in places : op[queue[i]].batch \in Nat \ {0}
  <2> SUFFICES ASSUME NEW i \in places PROVE op[queue[i]].batch \in Nat \ {0}
    OBVIOUS
  <2>1. op[queue[i]] \in Call
    BY <1>3, QueuedCalls DEF QueueInv
  <2> QED
    BY <2>1 DEF Call
<1>5. places \in SUBSET Nat
  BY <1>1
<1>6. Group \in [places -> Nat] /\ DOMAIN Group = places /\ \A i \in places : Group[i] = op[queue[i]].batch
  BY <1>2, <1>4
<1>7. Group \in Groups
  BY <1>5, <1>6 DEF Groups
<1>8. Group # Torn
  <2>1. DOMAIN Torn = {1} /\ Torn[1] = 0
    BY DEF Torn
  <2> QED
    BY <1>4, <1>6, <2>1
<1>9. \A k \in DOMAIN Group : k \in 1..n /\ Group[k] = op[queue[k]].batch
  BY <1>6
<1> QED
  BY <1>7, <1>8, <1>9 DEF n

LEMMA AddRecordKeepsOrder ==
  ASSUME AllButOrder, QueueInv', OrderInv, NEW w \in Writers, AddRecord(w)
  PROVE  OrderInv'
<1>1. pc[w] = "append" /\ UNCHANGED <<queue, op, calls, last>>
  BY DEF AddRecord, queueVars
<1>2. GoTo(w, "sync") \/ GoTo(w, "finish")
  BY DEF AddRecord, InsertInto
<1>3. pc' \in [Writers -> Places] /\ pc'[w] \in {"sync", "finish"}
  BY <1>2 DEF GoTo, AllButOrder, QueueInv, QueueType, Places
<1>4. CASE logs' = [logs EXCEPT ![log].groups = Append(@, Group)]
  BY <1>1, <1>3, <1>4, GroupType, AppendKeepsOrder DEF AllButOrder
<1>5. CASE logs' = [logs EXCEPT ![log].groups = Append(@, Torn)]
  BY <1>1, <1>3, <1>5, GroupsType, AppendKeepsOrder DEF AllButOrder
<1>6. CASE logs' = logs
  <2>1. Shortened
    BY <1>6, SameLogsShortened DEF OrderInv
  <2> QED
    BY <2>1, ThreadGoesOn, ShortenedGoesOn DEF AllButOrder
<1> QED
  BY <1>4, <1>5, <1>6 DEF AddRecord

LEMMA SyncShortens ==
  ASSUME LogsType, NEW w \in Writers, Sync(w)
  PROVE  Shortened
<1>1. CASE logs' = logs
  BY <1>1, SameLogsShortened
<1>2. CASE logs' = [logs EXCEPT ![log].synced = Len(logs[log].groups)]
  <2>1. \A n \in DOMAIN logs : Len(logs[n].groups) \in Nat /\ Len(logs[n].groups) <= Len(logs[n].groups)
    BY LoggedType
  <2>2. DOMAIN logs' = DOMAIN logs /\ \A n \in DOMAIN logs : n # log => logs'[n] = logs[n]
    BY <1>2
  <2>3. ASSUME log \in DOMAIN logs
        PROVE  /\ logs'[log] \in [groups : Seq(Groups), synced : Nat]
               /\ logs'[log].groups = logs[log].groups /\ logs'[log].synced = Len(logs[log].groups)
    BY <1>2, <2>1, <2>3 DEF LogsType
  <2> QED
    BY <2>1, <2>2, <2>3 DEF Shortened, LogsType
<1> QED
  BY <1>1, <1>2 DEF Sync

LEMMA MakeRoomShortens ==
  ASSUME LogsType, NEW w \in Writers, MakeRoom(w)
  PROVE  Shortened
<1>1. CASE logs' = logs
  BY <1>1, SameLogsShortened
<1>2. CASE logs' = [n \in DOMAIN logs \cup {log + 1} |->
                      IF n = log + 1 THEN [groups |-> <<>>, synced |-> 0] ELSE logs[n]]
  <2>1. <<>> \in Seq(Groups) /\ Len(<<>>) = 0 /\ DOMAIN <<>> = {}
    OBVIOUS
  <2>2. \A n \in DOMAIN logs' :
          logs'[n] = [groups |-> <<>>, synced |-> 0] \/ (n \in DOMAIN logs /\ logs'[n] = logs[n])
    BY <1>2
  <2>3. ASSUME NEW n \in DOMAIN logs', logs'[n] = [groups |-> <<>>, synced |-> 0]
        PROVE  /\ logs'[n] \in [groups : Seq(Groups), synced : Nat] /\ logs'[n].synced <= Len(logs'[n].groups)
               /\ DOMAIN logs'[n].groups = {}
    BY <2>1, <2>3
  <2> QED
    BY <2>2, <2>3 DEF Shortened, LogsType
<1> QED
  BY <1>1, <1>2 DEF MakeRoom, RoomError, RoomDelay, RoomFound, RoomWait, RoomSwitch

LEMMA ThreadKeepsOrder ==
  ASSUME AllButOrder, QueueInv', OrderInv, NEW w \in Writers, Thread(w)
  PROVE  OrderInv'
<1>1. CASE AddRecord(w)
  BY <1>1, AddRecordKeepsOrder
<1>2. CASE WakeUp(w) \/ BackInRoom(w) \/ CompactMemory(w) \/ Finish(w)
  <2>1. logs' = logs
    BY <1>2 DEF WakeUp, BackInRoom, CompactMemory, Finish, diskVars
  <2>2. Shortened
    BY <2>1, SameLogsShortened DEF OrderInv
  <2>3. QueueGoesOn
    BY <1>2, ThreadGoesOn, FinishGoesOn DEF AllButOrder
  <2> QED
    BY <2>2, <2>3, ShortenedGoesOn DEF AllButOrder
<1>3. CASE Sync(w) \/ MakeRoom(w)
  <2>1. Shortened
    BY <1>3, SyncShortens, MakeRoomShortens DEF OrderInv
  <2>2. QueueGoesOn
    BY <1>3, ThreadGoesOn DEF AllButOrder
  <2> QED
    BY <2>1, <2>2, ShortenedGoesOn DEF AllButOrder
<1> QED
  BY <1>1, <1>2, <1>3 DEF Thread

\* Steps that move no thread.
LEMMA StillGoesOn ==
  ASSUME QueueInv, PlacesInv, UNCHANGED <<queue, op, calls, pc, last>>
  PROVE  QueueGoesOn
<1>1. Written' = Written /\ Written \in Nat
  BY WrittenSame, WrittenType
<1> QED
  BY <1>1, SameQueueGoesOn

LEMMA BackgroundKeepsOrder ==
  ASSUME AllButOrder, OrderInv, Background
  PROVE  OrderInv'
<1>1. UNCHANGED <<queue, op, calls, pc, last>>
  BY DEF Background, BackgroundCall, CompactWithin, BuildTable, InstallFlush, InstallCompaction, queueVars
<1>2. logs' = logs \/ DeleteObsoleteFiles
  BY DEF Background, BackgroundCall, CompactWithin, BuildTable, InstallFlush, InstallCompaction, diskVars
<1>3. DOMAIN logs' \subseteq DOMAIN logs /\ \A n \in DOMAIN logs' : logs'[n] = logs[n]
  BY <1>2, DeletionKeepsLogs
<1> QED
  BY <1>1, <1>3, SameLogsShortened, StillGoesOn, ShortenedGoesOn DEF AllButOrder, OrderInv

\* What the end of the machine leaves of the logs.
LEMMA MachineShortens ==
  ASSUME LogsType, MachineEnds
  PROVE  /\ Shortened /\ DOMAIN logs' = DOMAIN logs
         /\ \A n \in DOMAIN logs :
              /\ logs[n].synced <= Len(logs'[n].groups) /\ Len(logs'[n].groups) <= Len(logs[n].groups)
              /\ \A i \in DOMAIN logs'[n].groups : logs'[n].groups[i] = logs[n].groups[i]
              /\ logs'[n].synced = Len(logs'[n].groups)
<1>1. PICK kept \in [DOMAIN logs -> 0..MaxCalls] :
        /\ \A n \in DOMAIN logs : logs[n].synced <= kept[n] /\ kept[n] <= Len(logs[n].groups)
        /\ logs' = [n \in DOMAIN logs |-> [groups |-> SubSeq(logs[n].groups, 1, kept[n]), synced |-> kept[n]]]
  BY DEF MachineEnds
<1>2. DOMAIN logs' = DOMAIN logs
  BY <1>1
<1>3. ASSUME NEW n \in DOMAIN logs
      PROVE  /\ logs'[n] \in [groups : Seq(Groups), synced : Nat] /\ logs'[n].synced = Len(logs'[n].groups)
             /\ Len(logs'[n].groups) = kept[n] /\ kept[n] \in Nat
             /\ \A i \in DOMAIN logs'[n].groups :
                  i \in DOMAIN logs[n].groups /\ logs'[n].groups[i] = logs[n].groups[i]
  <2> DEFINE h == logs[n].groups
             k == kept[n]
  <2>1. h \in Seq(Groups) /\ Len(h) \in Nat /\ k \in Nat /\ k <= Len(h)
    BY <1>1, LoggedType, SizesAssumption
  <2>2. logs'[n] = [groups |-> SubSeq(h, 1, k), synced |-> k]
    BY <1>1
  <2> HIDE DEF h, k
  <2>3. /\ SubSeq(h, 1, k) \in Seq(Groups) /\ Len(SubSeq(h, 1, k)) = k
        /\ \A i \in 1..k : SubSeq(h, 1, k)[i] = h[i]
    BY <2>1
  <2>4. DOMAIN SubSeq(h, 1, k) = 1..k /\ 1..k \subseteq DOMAIN h
    BY <2>1, <2>3
  <2> QED
    BY <2>1, <2>2, <2>3, <2>4 DEF h, k
<1>4. Shortened
  <2>1. \A n \in DOMAIN logs : logs'[n].synced <= Len(logs'[n].groups)
    BY <1>3
  <2> QED
    BY <1>2, <1>3, <2>1 DEF Shortened
<1>5. \A n \in DOMAIN logs :
        logs[n].synced <= Len(logs'[n].groups) /\ Len(logs'[n].groups) <= Len(logs[n].groups)
  BY <1>1, <1>3
<1> QED
  BY <1>2, <1>3, <1>4, <1>5

LEMMA EndKeepsOrder ==
  ASSUME AllButOrder, OrderInv, Closed \/ ProcessEnds \/ MachineEnds
  PROVE  OrderInv'
<1>1. queue' = <<>> /\ UNCHANGED calls /\ calls \in Nat
  BY DEF Closed, ProcessEnds, MachineEnds, NoProcess, AllButOrder, PlacesInv, CallsType
<1>2. QueueGoesOn
  BY <1>1 DEF QueueGoesOn
<1>3. Shortened
  <2>1. CASE logs' = logs
    BY <2>1, SameLogsShortened DEF OrderInv
  <2>2. CASE MachineEnds
    BY <2>2, MachineShortens DEF OrderInv
  <2> QED
    BY <2>1, <2>2 DEF Closed, ProcessEnds
<1> QED
  BY <1>2, <1>3, ShortenedGoesOn DEF AllButOrder

LEMMA OpenKeepsOrder ==
  ASSUME AllButOrder, OrderInv, Open
  PROVE  OrderInv'
<1>1. /\ UNCHANGED <<queue, op, calls, pc, last>>
      /\ logs' = [n \in {log'} |-> [groups |-> <<>>, synced |-> 0]]
  BY DEF Open, queueVars
<1>2. <<>> \in Seq(Groups) /\ Len(<<>>) = 0 /\ DOMAIN <<>> = {}
  OBVIOUS
<1>3. ASSUME NEW n \in DOMAIN logs'
      PROVE  /\ logs'[n] \in [groups : Seq(Groups), synced : Nat] /\ logs'[n].synced <= Len(logs'[n].groups)
             /\ DOMAIN logs'[n].groups = {}
  <2>1. logs'[n] = [groups |-> <<>>, synced |-> 0]
    BY <1>1
  <2> QED
    BY <1>2, <2>1
<1>4. Shortened
  BY <1>3 DEF Shortened
<1> QED
  BY <1>1, <1>4, StillGoesOn, ShortenedGoesOn DEF AllButOrder

LEMMA OrderInit == Init => OrderInv
<1> SUFFICES ASSUME Init PROVE OrderInv
  OBVIOUS
<1>1. logs = [n \in {1} |-> [groups |-> <<>>, synced |-> 0]]
  BY DEF Init
<1>2. <<>> \in Seq(Groups) /\ Len(<<>>) = 0 /\ DOMAIN <<>> = {}
  OBVIOUS
<1>3. ASSUME NEW n \in DOMAIN logs
      PROVE  /\ logs[n] \in [groups : Seq(Groups), synced : Nat] /\ logs[n].synced <= Len(logs[n].groups)
             /\ DOMAIN logs[n].groups = {}
  <2>1. logs[n] = [groups |-> <<>>, synced |-> 0]
    BY <1>1
  <2> QED
    BY <1>2, <2>1
<1>4. LogsType /\ LoggedBefore
  BY <1>3 DEF LogsType, LoggedBefore
<1>5. LoggedInOrder
  <2>1. \A n \in DOMAIN logs : Readable(logs[n].groups) = {}
    BY <1>3 DEF Readable
  <2> QED
    BY <1>3, <2>1 DEF LoggedInOrder
<1> QED
  BY <1>4, <1>5 DEF OrderInv

LEMMA OrderStep == AllButOrder /\ QueueInv' /\ OrderInv /\ [Next]_vars => OrderInv'
<1> SUFFICES ASSUME AllButOrder, QueueInv', OrderInv, [Next]_vars PROVE OrderInv'
  OBVIOUS
<1>1. ASSUME NEW w \in Callers, NEW sync, NEW null, Write(w, sync, null) PROVE OrderInv'
  <2>1. w \in Writers /\ logs' = logs
    BY <1>1 DEF Callers, Idle, Write, diskVars
  <2> QED
    BY <1>1, <2>1, SameLogsShortened, WriteGoesOn, ShortenedGoesOn DEF AllButOrder, OrderInv
<1>2. CASE (\E w \in Writers : Spurious(w)) \/ Close \/ OpenFails \/ UNCHANGED vars
  <2>1. UNCHANGED <<queue, op, calls, pc, last, logs>>
    BY <1>2 DEF Spurious, Close, OpenFails, vars, queueVars, diskVars
  <2> QED
    BY <2>1, SameLogsShortened, StillGoesOn, ShortenedGoesOn DEF AllButOrder, OrderInv
<1> QED
  BY <1>1, <1>2, ThreadKeepsOrder, BackgroundKeepsOrder, EndKeepsOrder, OpenKeepsOrder DEF Next

LEMMA AllInit == Init => AllButOrder /\ OrderInv
BY QueueInit, PlacesInit, TablesInit, MemsInit, OrderInit DEF AllButOrder

LEMMA AllStep == AllButOrder /\ OrderInv /\ [Next]_vars => AllButOrder' /\ OrderInv'
<1> SUFFICES ASSUME AllButOrder, OrderInv, [Next]_vars PROVE AllButOrder' /\ OrderInv'
  OBVIOUS
<1>1. QueueInv' /\ PlacesInv' /\ TablesInv' /\ MemsHaveLogs'
  BY QueueStep, PlacesStep, TablesStep, MemsStep DEF AllButOrder
<1>2. OrderInv'
  BY <1>1, OrderStep
<1> QED
  BY <1>1, <1>2 DEF AllButOrder

\* Batches are in the logs in the order of the calls, over all files, and none is
\* there twice (Write, db_impl.cc:1162, BuildBatchGroup and AddRecord): whatever
\* fails, and after any ends of the process or the machine.
THEOREM LogsAreInOrder == Spec => []LoggedInOrder
<1>1. OrderInv => LoggedInOrder
  BY DEF OrderInv
<1> QED
  BY <1>1, AllInit, AllStep, PTL DEF Spec

-----------------------------------------------------------------------------
(* What is acknowledged *)

\* An append that fails leaves no torn record in front of later ones, and no log that
\* cannot be read is passed over: what the two findings about them show without this.
Tidy == Faults \cap {"append", "recoverEarlier"} = {}

\* A sync write behind the first of a group is there only if that one is, too.
SyncJoinsSync ==
  \A w \in Writers : pc[w] \in {"append", "sync"} =>
    \A i \in 1..Length : op[queue[i]].sync => op[w].sync

NoneTorn == \A n \in DOMAIN logs : \A i \in DOMAIN logs[n].groups : logs[n].groups[i] # Torn

\* What is synced next is in the log.
GroupIsLogged ==
  \A w \in Writers : pc[w] = "sync" =>
    \A i \in 1..Length : ~op[queue[i]].null => op[queue[i]].batch \in Readable(logs[log].groups)

\* Where a batch is read from: a table, or a memtable, with its log where it was synced.
Synced(n) == Readable(SubSeq(logs[n].groups, 1, logs[n].synced))
Home(batch, sync) ==
  \/ \E t \in version : batch \in t.batches
  \/ \E n \in DOMAIN mems : batch \in mems[n] /\ (sync => batch \in Synced(n))

AckedHaveHome ==
  /\ acked \subseteq [batch : Nat, sync : BOOLEAN]
  /\ opened => \A a \in acked : Home(a.batch, a.sync)
AnsweredHaveHome ==
  \A w \in Writers : done[w] = "ok" /\ ~op[w].null => Home(op[w].batch, op[w].sync)
GroupHasHome ==
  outcome = "ok" /\ (\E w \in Writers : pc[w] = "finish") =>
    \A i \in 1..Length : ~op[queue[i]].null => Home(op[queue[i]].batch, op[queue[i]].sync)

\* A memtable is in its log, and that one or a table is what the manifest leads to.
MemsAreLogged ==
  opened =>
    /\ version \subseteq manifest.tables /\ manifest.log \in Nat /\ manifest.log <= log
    /\ \A n \in DOMAIN mems :
         /\ mems[n] \subseteq Readable(logs[n].groups)
         /\ n >= manifest.log \/ \E t \in manifest.tables : mems[n] \subseteq t.batches

ClosedKeeps == ~opened => AcknowledgedSurvives

AckInv ==
  /\ SyncJoinsSync /\ NoneTorn /\ GroupIsLogged /\ AckedHaveHome /\ AnsweredHaveHome /\ GroupHasHome
  /\ MemsAreLogged /\ ClosedKeeps
Base == AllButOrder /\ LogsType

\* Whatever has a home keeps one.
HomesStay == \A b \in Nat, s \in BOOLEAN : Home(b, s) => Home(b, s)'

LEMMA HomesMove ==
  ASSUME version \subseteq version',
         \A n \in DOMAIN mems :
           \/ n \in DOMAIN mems' /\ mems[n] \subseteq mems'[n] /\ Synced(n) \subseteq Synced(n)'
           \/ \E t \in version' : mems[n] \subseteq t.batches
  PROVE  HomesStay
<1> SUFFICES ASSUME NEW b \in Nat, NEW s \in BOOLEAN, Home(b, s) PROVE Home(b, s)'
  BY DEF HomesStay
<1>1. CASE \E t \in version : b \in t.batches
  BY <1>1 DEF Home
<1>2. ASSUME NEW n \in DOMAIN mems, b \in mems[n], s => b \in Synced(n)
      PROVE  Home(b, s)'
  BY <1>2 DEF Home
<1> QED
  BY <1>1, <1>2 DEF Home

LEMMA SyncedPrefix ==
  ASSUME LogsType, NEW n \in DOMAIN logs
  PROVE  /\ SubSeq(logs[n].groups, 1, logs[n].synced) \in Seq(Groups)
         /\ DOMAIN SubSeq(logs[n].groups, 1, logs[n].synced) = 1..logs[n].synced
         /\ \A i \in 1..logs[n].synced :
              /\ i \in DOMAIN logs[n].groups
              /\ SubSeq(logs[n].groups, 1, logs[n].synced)[i] = logs[n].groups[i]
         /\ Synced(n) \subseteq Readable(logs[n].groups)
<1> DEFINE h == logs[n].groups
           k == logs[n].synced
           g == SubSeq(h, 1, k)
<1>1. h \in Seq(Groups) /\ k \in Nat /\ k <= Len(h) /\ Len(h) \in Nat
  BY LoggedType DEF LogsType
<1> HIDE DEF h, k
<1>2. g \in Seq(Groups) /\ Len(g) = k /\ \A i \in 1..k : g[i] = h[i]
  BY <1>1
<1> HIDE DEF g
<1>3. DOMAIN g = 1..k /\ 1..k \subseteq DOMAIN h
  BY <1>1, <1>2
<1>4. Readable(g) \subseteq Readable(h)
  BY <1>2, <1>3, ReadablePrefix
<1> QED
  BY <1>2, <1>3, <1>4 DEF g, h, k, Synced

LEMMA LogIsThere ==
  ASSUME Base, opened
  PROVE  /\ log \in Nat /\ log \in DOMAIN mems /\ log \in DOMAIN logs /\ log # Nil
         /\ logNumber \in Nat /\ logNumber <= log /\ Nil \notin Nat
         /\ DOMAIN mems = {log, imm} \ {Nil} /\ DOMAIN mems \subseteq DOMAIN logs
         /\ \A n \in DOMAIN mems : n \in Nat /\ logNumber <= n
<1>1. log \in Nat /\ Nil \notin Nat /\ log # Nil
  BY NilAssumption DEF Base, AllButOrder, TablesInv, NumbersAreNatural
<1> QED
  BY <1>1 DEF Base, AllButOrder, MemsHaveLogs

\* Where a batch is found when the log is read, all of it or what was synced.
Found(b, synced) ==
  \/ \E t \in manifest.tables : b \in t.batches
  \/ \E n \in DOMAIN logs : n >= manifest.log /\ b \in IF synced THEN Synced(n) ELSE Readable(logs[n].groups)

LEMMA RecoverableIs ==
  ASSUME NEW disk, NEW b
  PROVE  b \in Recoverable(disk) <=>
           \/ \E t \in manifest.tables : b \in t.batches
           \/ \E n \in DOMAIN disk : n >= manifest.log /\ b \in Readable(disk[n].groups)
<1>1. b \in Recoverable(disk) <=> b \in InTables \/ b \in InNeeded(disk)
  BY DEF Recoverable
<1>2. b \in InNeeded(disk) <=> \E n \in NeededIn(disk) : b \in Readable(disk[n].groups)
  BY DEF InNeeded
<1>3. b \in InTables <=> \E t \in manifest.tables : b \in t.batches
  BY DEF InTables
<1> QED
  BY <1>1, <1>2, <1>3 DEF NeededIn

LEMMA FoundIs ==
  /\ \A b : b \in Recoverable(logs) <=> Found(b, FALSE)
  /\ \A b : b \in Recoverable(SyncedPart) <=> Found(b, TRUE)
<1>1. DOMAIN SyncedPart = DOMAIN logs
  BY DEF SyncedPart
<1>2. \A n \in DOMAIN logs : Readable(SyncedPart[n].groups) = Synced(n)
  BY DEF SyncedPart, Synced
<1>3. ASSUME NEW b PROVE b \in Recoverable(logs) <=> Found(b, FALSE)
  BY RecoverableIs DEF Found
<1>4. ASSUME NEW b PROVE b \in Recoverable(SyncedPart) <=> Found(b, TRUE)
  <2>1. b \in Recoverable(SyncedPart) <=>
          \/ \E t \in manifest.tables : b \in t.batches
          \/ \E n \in DOMAIN SyncedPart : n >= manifest.log /\ b \in Readable(SyncedPart[n].groups)
    BY RecoverableIs
  <2> QED
    BY <1>1, <1>2, <2>1 DEF Found
<1> QED
  BY <1>3, <1>4

LEMMA SurvivesIs ==
  AcknowledgedSurvives <=> \A a \in acked : Found(a.batch, FALSE) /\ (a.sync => Found(a.batch, TRUE))
BY FoundIs DEF AcknowledgedSurvives

\* With a process, what is acknowledged survives its end and the machine's.
LEMMA OpenSurvives ==
  ASSUME Base, AckInv, opened
  PROVE  AcknowledgedSurvives
<1> SUFFICES ASSUME NEW a \in acked PROVE Found(a.batch, FALSE) /\ (a.sync => Found(a.batch, TRUE))
  BY SurvivesIs
<1>1. Home(a.batch, a.sync)
  BY DEF AckInv, AckedHaveHome
<1>2. CASE \E t \in version : a.batch \in t.batches
  BY <1>2 DEF AckInv, MemsAreLogged, Found
<1>3. ASSUME NEW n \in DOMAIN mems, a.batch \in mems[n], a.sync => a.batch \in Synced(n)
      PROVE  Found(a.batch, FALSE) /\ (a.sync => Found(a.batch, TRUE))
  <2>1. n \in DOMAIN logs
    BY LogIsThere
  <2>2. CASE \E t \in manifest.tables : mems[n] \subseteq t.batches
    BY <1>3, <2>2 DEF Found
  <2>3. CASE n >= manifest.log
    <3>1. a.batch \in Readable(logs[n].groups)
      BY <1>3 DEF AckInv, MemsAreLogged
    <3> QED
      BY <1>3, <2>1, <2>3, <3>1 DEF Found
  <2> QED
    BY <2>2, <2>3 DEF AckInv, MemsAreLogged
<1> QED
  BY <1>1, <1>2, <1>3 DEF Home

LEMMA AlwaysSurvives ==
  ASSUME Base, AckInv
  PROVE  AcknowledgedSurvives
BY OpenSurvives DEF AckInv, ClosedKeeps

-----------------------------------------------------------------------------
(* The steps of the threads *)

\* Who has been promised something, when no group has just been written.
LEMMA PromisesStay ==
  ASSUME AckInv, Base, HomesStay, UNCHANGED <<opened, acked, op>>,
         \A w \in Writers : done'[w] = "ok" => done[w] = "ok"
  PROVE  AckedHaveHome' /\ AnsweredHaveHome'
<1>1. AckedHaveHome'
  <2>1. acked \subseteq [batch : Nat, sync : BOOLEAN]
    BY DEF AckInv, AckedHaveHome
  <2>2. ASSUME opened, NEW a \in acked PROVE Home(a.batch, a.sync)'
    <3>1. a.batch \in Nat /\ a.sync \in BOOLEAN
      BY <2>1
    <3>2. Home(a.batch, a.sync)
      BY <2>2 DEF AckInv, AckedHaveHome
    <3> QED
      BY <3>1, <3>2 DEF HomesStay
  <2> QED
    BY <2>1, <2>2 DEF AckedHaveHome
<1>2. AnsweredHaveHome'
  <2> SUFFICES ASSUME NEW w \in Writers, done'[w] = "ok", ~op[w].null
               PROVE  Home(op[w].batch, op[w].sync)'
    BY DEF AnsweredHaveHome
  <2>1. done[w] = "ok"
    OBVIOUS
  <2>2. Home(op[w].batch, op[w].sync)
    BY <2>1 DEF AckInv, AnsweredHaveHome
  <2>3. op[w] \in Call
    <3>1. pc[w] = "queued"
      BY <2>1, NilAssumption DEF Base, AllButOrder, PlacesInv, AnsweredSleep
    <3> QED
      BY <3>1 DEF Base, AllButOrder, PlacesInv, CallsType
  <2>4. op[w].batch \in Nat /\ op[w].sync \in BOOLEAN
    BY <2>3 DEF Call
  <2> QED
    BY <2>2, <2>4 DEF HomesStay
<1> QED
  BY <1>1, <1>2

\* The group that is being written, when neither it nor the log changes.
LEMMA GroupStays ==
  ASSUME AckInv, Base, HomesStay,
         \A v \in Writers, at \in Logging : pc'[v] = at => pc[v] = at,
         UNCHANGED <<queue, last, op, outcome, log>>,
         (\E v \in Writers : pc[v] = "sync") => logs'[log].groups = logs[log].groups
  PROVE  SyncJoinsSync' /\ GroupIsLogged' /\ GroupHasHome'
<1>1. Length' = Length
  BY DEF Length
<1>2. SyncJoinsSync'
  BY <1>1 DEF AckInv, SyncJoinsSync, Logging
<1>3. GroupIsLogged'
  BY <1>1 DEF AckInv, GroupIsLogged, Logging
<1>4. GroupHasHome'
  <2> SUFFICES ASSUME NEW v \in Writers, pc'[v] = "finish", outcome = "ok",
                      NEW i \in 1..Length, ~op[queue[i]].null
               PROVE  Home(op[queue[i]].batch, op[queue[i]].sync)'
    BY <1>1 DEF GroupHasHome
  <2>1. pc[v] = "finish"
    BY DEF Logging
  <2>2. Home(op[queue[i]].batch, op[queue[i]].sync)
    BY <2>1 DEF AckInv, GroupHasHome
  <2>3. Length \in DOMAIN queue /\ DOMAIN queue = 1..Len(queue) /\ Len(queue) \in Nat
    BY <2>1, LengthIsPlace DEF Logging, Base, AllButOrder, QueueInv, QueueType
  <2> DEFINE n == Length
  <2>4. n \in DOMAIN queue /\ i \in 1..n
    BY <2>3
  <2> HIDE DEF n
  <2>5. i \in DOMAIN queue
    BY <2>3, <2>4
  <2>6. op[queue[i]] \in Call
    BY <2>5, QueuedCalls DEF Base, AllButOrder, QueueInv
  <2>7. op[queue[i]].batch \in Nat /\ op[queue[i]].sync \in BOOLEAN
    BY <2>6 DEF Call
  <2> QED
    BY <2>2, <2>7 DEF HomesStay
<1> QED
  BY <1>2, <1>3, <1>4

\* Steps that leave the files and the memory as they are.
LEMMA DataStays ==
  ASSUME AckInv, UNCHANGED <<opened, memVars, version, logNumber, logs, manifest>>
  PROVE  HomesStay /\ NoneTorn' /\ MemsAreLogged'
<1>1. \A n \in DOMAIN mems : n \in DOMAIN mems' /\ mems[n] \subseteq mems'[n] /\ Synced(n) \subseteq Synced(n)'
  BY DEF memVars, Synced
<1>2. HomesStay
  BY <1>1, HomesMove
<1>3. NoneTorn' /\ MemsAreLogged'
  BY DEF AckInv, NoneTorn, MemsAreLogged, memVars
<1> QED
  BY <1>2, <1>3

LEMMA StillAcked ==
  ASSUME AckInv, Base, UNCHANGED <<opened, memVars, version, logNumber, logs, manifest, acked, op, done, queue, last, outcome>>,
         \A v \in Writers, at \in Logging : pc'[v] = at => pc[v] = at
  PROVE  AckInv'
<1>1. HomesStay /\ NoneTorn' /\ MemsAreLogged'
  BY DataStays
<1>2. AckedHaveHome' /\ AnsweredHaveHome'
  BY <1>1, PromisesStay
<1>3. UNCHANGED log
  BY DEF memVars
<1>4. SyncJoinsSync' /\ GroupIsLogged' /\ GroupHasHome'
  BY <1>1, <1>3, GroupStays
<1>5. ClosedKeeps'
  BY DEF AckInv, ClosedKeeps, AcknowledgedSurvives, Recoverable, InTables, InNeeded, NeededIn, SyncedPart
<1> QED
  BY <1>1, <1>2, <1>4, <1>5 DEF AckInv

\* What a return or the end of a group promises had a home before.
HasHome(v) == op[v] \in Call /\ Home(op[v].batch, op[v].sync)

LEMMA PromisesKept ==
  ASSUME AckInv, HomesStay, opened, UNCHANGED op,
         \A a \in acked' : \/ a \in acked
                           \/ \E v \in Writers : HasHome(v) /\ a = [batch |-> op[v].batch, sync |-> op[v].sync],
         \A v \in Writers : done'[v] = "ok" /\ ~op[v].null => HasHome(v)
  PROVE  AckedHaveHome' /\ AnsweredHaveHome'
<1>1. ASSUME NEW v \in Writers, HasHome(v)
      PROVE  op[v].batch \in Nat /\ op[v].sync \in BOOLEAN /\ Home(op[v].batch, op[v].sync)'
  <2>1. op[v].batch \in Nat /\ op[v].sync \in BOOLEAN
    BY <1>1 DEF HasHome, Call
  <2> QED
    BY <1>1, <2>1 DEF HasHome, HomesStay
<1>2. ASSUME NEW a \in acked'
      PROVE  a \in [batch : Nat, sync : BOOLEAN] /\ Home(a.batch, a.sync)'
  <2>1. CASE a \in acked
    <3>1. a \in [batch : Nat, sync : BOOLEAN] /\ Home(a.batch, a.sync)
      BY <2>1 DEF AckInv, AckedHaveHome
    <3> QED
      BY <3>1 DEF HomesStay
  <2>2. ASSUME NEW v \in Writers, HasHome(v), a = [batch |-> op[v].batch, sync |-> op[v].sync]
        PROVE  a \in [batch : Nat, sync : BOOLEAN] /\ Home(a.batch, a.sync)'
    BY <1>1, <2>2
  <2> QED
    BY <2>1, <2>2
<1>3. AckedHaveHome'
  BY <1>2 DEF AckedHaveHome
<1>4. AnsweredHaveHome'
  <2> SUFFICES ASSUME NEW v \in Writers, done'[v] = "ok", ~op[v].null PROVE Home(op[v].batch, op[v].sync)'
    BY DEF AnsweredHaveHome
  <2> QED
    BY <1>1
<1> QED
  BY <1>3, <1>4

\* An answer that was given has a home.
LEMMA AnswerHasHome ==
  ASSUME Base, AckInv, NEW v \in Writers, done[v] = "ok", ~op[v].null
  PROVE  HasHome(v)
<1>1. pc[v] = "queued"
  BY NilAssumption DEF Base, AllButOrder, PlacesInv, AnsweredSleep
<1>2. op[v] \in Call
  BY <1>1 DEF Base, AllButOrder, PlacesInv, CallsType
<1> QED
  BY <1>2 DEF AckInv, AnsweredHaveHome, HasHome

LEMMA WakeUpKeepsAcked ==
  ASSUME Base, AckInv, NEW w \in Writers, WakeUp(w)
  PROVE  AckInv'
<1>1. /\ pc[w] = "queued"
      /\ UNCHANGED <<opened, memVars, version, logNumber, logs, manifest, op, queue, last, outcome>>
  BY DEF WakeUp, Runs, versionVars, diskVars, lifeVars
<1>2. opened
  BY <1>1, ThreadNeedsProcess DEF Base, AllButOrder
<1>3. pc \in [Writers -> Places] /\ done \in [Writers -> {Nil, "ok", "error"}]
  BY DEF Base, AllButOrder, QueueInv, QueueType
<1>4. PICK at : pc' = [pc EXCEPT ![w] = at] /\ at \in {"queued", "room", "idle", "flush"}
  <2>1. pc' = pc => pc' = [pc EXCEPT ![w] = "queued"]
    BY <1>1, <1>3
  <2> QED
    BY <2>1 DEF WakeUp, GoTo, Return
<1>5. \A v \in Writers, place \in Logging : pc'[v] = place => pc[v] = place
  BY <1>3, <1>4 DEF Logging
<1>6. CASE UNCHANGED <<done, acked>>
  BY <1>1, <1>5, <1>6, StillAcked
<1>7. CASE done[w] # Nil /\ Return(w, done[w]) /\ done' = [done EXCEPT ![w] = Nil]
  <2>1. HomesStay /\ NoneTorn' /\ MemsAreLogged'
    BY <1>1, DataStays
  <2>2. \A v \in Writers : done'[v] = "ok" => done[v] = "ok"
    BY <1>3, <1>7, NilAssumption
  <2>3. \A v \in Writers : done'[v] = "ok" /\ ~op[v].null => HasHome(v)
    BY <2>2, AnswerHasHome
  <2>4. \A a \in acked' : \/ a \in acked
                          \/ \E v \in Writers : HasHome(v) /\ a = [batch |-> op[v].batch, sync |-> op[v].sync]
    BY <1>7, AnswerHasHome DEF Return
  <2>5. AckedHaveHome' /\ AnsweredHaveHome'
    BY <1>1, <1>2, <2>1, <2>3, <2>4, PromisesKept
  <2>6. UNCHANGED log
    BY <1>1 DEF memVars
  <2>7. SyncJoinsSync' /\ GroupIsLogged' /\ GroupHasHome'
    BY <1>1, <1>5, <2>1, <2>6, GroupStays
  <2>8. ClosedKeeps'
    BY <1>1, <1>2 DEF ClosedKeeps
  <2> QED
    BY <2>1, <2>5, <2>7, <2>8 DEF AckInv
<1> QED
  BY <1>6, <1>7 DEF WakeUp

\* The thread that answers for the log is the only one that is about to write.
LEMMA OnlyLeaderLogs ==
  ASSUME Base, NEW w \in Writers, pc[w] \in Active, NEW at, pc' = [pc EXCEPT ![w] = at]
  PROVE  pc'[w] = at /\ \A v \in Writers : pc'[v] \in Logging => v = w
<1>1. pc \in [Writers -> Places]
  BY DEF Base, AllButOrder, QueueInv, QueueType
<1>2. \A v \in Writers : pc[v] \in Active => v = w
  BY DEF Base, AllButOrder, QueueInv, OneLogger, Active
<1>3. Logging \subseteq Active
  BY DEF Logging, Active
<1> QED
  BY <1>1, <1>2, <1>3

\* Nothing is promised for the group when it is not being written, or has failed.
LEMMA NothingForGroup ==
  ASSUME \A v \in Writers : pc'[v] \in Logging => pc'[v] = "finish" /\ outcome' # "ok"
  PROVE  SyncJoinsSync' /\ GroupIsLogged' /\ GroupHasHome'
<1>1. \A v \in Writers : pc'[v] \notin {"append", "sync"} /\ (pc'[v] = "finish" => outcome' # "ok")
  BY DEF Logging
<1> QED
  BY <1>1 DEF SyncJoinsSync, GroupIsLogged, GroupHasHome

\* Which group is chosen, when there is room: none for a NULL batch.
LEMMA RoomChoosesGroup ==
  ASSUME Base, AckInv, NEW w \in Writers, MakeRoom(w)
  PROVE  SyncJoinsSync' /\ GroupIsLogged' /\ GroupHasHome'
<1>1. pc[w] = "room" /\ UNCHANGED <<queue, op>>
  BY DEF MakeRoom
<1>2. /\ queue \in Seq(Writers) /\ queue # <<>> /\ w = queue[1] /\ pc \in [Writers -> Places]
      /\ QueueType /\ PlacesInv
  BY <1>1 DEF Base, AllButOrder, QueueInv, QueueType, OneLogger, Front
<1>3. 1 \in DOMAIN queue /\ DOMAIN queue = 1..Len(queue) /\ Len(queue) \in Nat
  BY <1>2
<1>4. pc[w] \in Active
  BY <1>1 DEF Active
<1>5. CASE pc' = pc
  <2>1. \A v \in Writers : pc'[v] \notin Logging
    BY <1>1, <1>4, <1>5, <1>2, OnlyLeaderLogs DEF Logging
  <2> QED
    BY <2>1, NothingForGroup
<1>6. CASE GoTo(w, "delayed") \/ GoTo(w, "waiting for room")
  <2>1. \A v \in Writers : pc'[v] \notin Logging
    BY <1>4, <1>6, OnlyLeaderLogs DEF Logging, GoTo
  <2> QED
    BY <2>1, NothingForGroup
<1>7. CASE outcome' = "error" /\ GoTo(w, "finish")
  <2>1. \A v \in Writers : pc'[v] \in Logging => pc'[v] = "finish" /\ outcome' # "ok"
    BY <1>4, <1>7, OnlyLeaderLogs DEF Logging, GoTo
  <2> QED
    BY <2>1, NothingForGroup
<1>8. CASE op[w].null /\ last' = w /\ outcome' = "ok" /\ GoTo(w, "finish")
  <2>1. pc'[w] = "finish" /\ \A v \in Writers : pc'[v] \in Logging => v = w
    BY <1>4, <1>8, OnlyLeaderLogs DEF GoTo
  <2>2. \A v \in Writers : pc'[v] \notin {"append", "sync"}
    BY <2>1 DEF Logging
  <2>3. Length' = 1
    BY <1>1, <1>2, <1>3, <1>8, PlaceOf DEF Length
  <2>4. \A i \in 1..1 : op[queue[i]].null
    BY <1>2, <1>8
  <2> QED
    BY <1>1, <2>2, <2>3, <2>4 DEF SyncJoinsSync, GroupIsLogged, GroupHasHome
<1>9. ASSUME NEW n \in GroupEnds, last' = queue[n], GoTo(w, "append")
      PROVE  SyncJoinsSync' /\ GroupIsLogged' /\ GroupHasHome'
  <2>1. pc'[w] = "append" /\ \A v \in Writers : pc'[v] \in Logging => v = w
    BY <1>4, <1>9, OnlyLeaderLogs DEF GoTo
  <2>2. n \in DOMAIN queue /\ \A i \in 2..n : op[queue[i]].sync => op[w].sync
    BY <1>2, <1>3 DEF GroupEnds, Front
  <2>3. Length' = n
    BY <1>1, <1>2, <1>9, <2>2, PlaceOf DEF Length
  <2>4. \A i \in 1..n : i = 1 \/ i \in 2..n
    BY <1>3, <2>2
  <2>5. \A i \in 1..n : op[queue[i]].sync => op[w].sync
    BY <1>2, <2>2, <2>4
  <2>6. SyncJoinsSync'
    BY <1>1, <2>1, <2>3, <2>5 DEF SyncJoinsSync, Logging
  <2>7. \A v \in Writers : pc'[v] \notin {"sync", "finish"}
    BY <2>1 DEF Logging
  <2> QED
    BY <2>6, <2>7 DEF GroupIsLogged, GroupHasHome
<1> QED
  BY <1>5, <1>6, <1>7, <1>8, <1>9 DEF MakeRoom, RoomError, RoomDelay, RoomFound, RoomWait, RoomSwitch

\* The memtable that is switched is still read, and its log is there.
LEMMA SwitchKeepsHomes ==
  ASSUME Base, AckInv, opened, UNCHANGED <<opened, version, manifest>>, imm = Nil, log' = log + 1, imm' = log,
         mems' = [n \in {log, log + 1} |-> IF n = log THEN mems[n] ELSE {}],
         logs' = [n \in DOMAIN logs \cup {log + 1} |->
                    IF n = log + 1 THEN [groups |-> <<>>, synced |-> 0] ELSE logs[n]]
  PROVE  HomesStay /\ NoneTorn' /\ MemsAreLogged'
<1>1. log \in Nat /\ log \in DOMAIN logs /\ DOMAIN mems = {log} /\ log # log + 1
  BY LogIsThere
<1>2. /\ DOMAIN mems' = {log, log + 1} /\ mems'[log] = mems[log] /\ mems'[log + 1] = {}
      /\ logs'[log] = logs[log] /\ \A n \in DOMAIN logs : n # log + 1 => logs'[n] = logs[n]
      /\ DOMAIN logs' = DOMAIN logs \cup {log + 1} /\ logs'[log + 1].groups = <<>>
  BY <1>1
<1>3. ASSUME NEW n \in DOMAIN mems
      PROVE  n \in DOMAIN mems' /\ mems[n] \subseteq mems'[n] /\ Synced(n) \subseteq Synced(n)'
  <2>1. n \in DOMAIN mems' /\ mems[n] \subseteq mems'[n] /\ logs'[n] = logs[n]
    BY <1>1, <1>2
  <2> QED
    BY <2>1 DEF Synced
<1>4. HomesStay
  BY <1>3, HomesMove
<1>5. NoneTorn'
  <2>1. \A n \in DOMAIN logs' : n = log + 1 \/ (n \in DOMAIN logs /\ logs'[n] = logs[n])
    BY <1>2
  <2>2. DOMAIN logs'[log + 1].groups = {}
    BY <1>2
  <2> QED
    BY <2>1, <2>2 DEF AckInv, NoneTorn
<1>6. MemsAreLogged'
  <2>1. /\ version \subseteq manifest.tables /\ manifest.log \in Nat /\ manifest.log <= log
        /\ mems[log] \subseteq Readable(logs[log].groups)
    BY <1>1 DEF AckInv, MemsAreLogged
  <2>2. manifest'.log <= log'  /\ log >= manifest'.log /\ log + 1 >= manifest'.log
    BY <1>1, <2>1
  <2>3. \A n \in DOMAIN mems' : mems'[n] \subseteq Readable(logs'[n].groups) /\ n >= manifest'.log
    BY <1>2, <2>1, <2>2
  <2>4. UNCHANGED <<version, manifest>>
    OBVIOUS
  <2> QED
    BY <2>1, <2>2, <2>3, <2>4 DEF MemsAreLogged
<1> QED
  BY <1>4, <1>5, <1>6

LEMMA MakeRoomKeepsAcked ==
  ASSUME Base, AckInv, NEW w \in Writers, MakeRoom(w)
  PROVE  AckInv'
<1>1. pc[w] = "room" /\ UNCHANGED <<opened, version, logNumber, manifest, acked, op, done>>
  BY DEF MakeRoom, versionVars, lifeVars
<1>2. opened
  BY <1>1, ThreadNeedsProcess DEF Base, AllButOrder
<1>3. HomesStay /\ NoneTorn' /\ MemsAreLogged'
  <2>1. CASE UNCHANGED <<memVars, logs>>
    BY <1>1, <2>1, DataStays
  <2>2. CASE /\ imm = Nil /\ log' = log + 1 /\ imm' = log
             /\ mems' = [n \in {log, log + 1} |-> IF n = log THEN mems[n] ELSE {}]
             /\ logs' = [n \in DOMAIN logs \cup {log + 1} |->
                           IF n = log + 1 THEN [groups |-> <<>>, synced |-> 0] ELSE logs[n]]
    BY <1>1, <1>2, <2>2, SwitchKeepsHomes
  <2> QED
    BY <2>1, <2>2 DEF MakeRoom, RoomError, RoomDelay, RoomFound, RoomWait, RoomSwitch
<1>4. AckedHaveHome' /\ AnsweredHaveHome'
  BY <1>1, <1>3, PromisesStay
<1>5. SyncJoinsSync' /\ GroupIsLogged' /\ GroupHasHome'
  BY RoomChoosesGroup
<1>6. ClosedKeeps'
  BY <1>1, <1>2 DEF ClosedKeeps
<1> QED
  BY <1>3, <1>4, <1>5, <1>6 DEF AckInv

\* A reader who meets no torn record finds everything.
LEMMA ReadableAll ==
  ASSUME NEW h \in Seq(Groups), \A i \in DOMAIN h : h[i] # Torn, NEW i \in DOMAIN h
  PROVE  Elements(h[i]) \subseteq Readable(h)
<1>1. 1..i \subseteq DOMAIN h
  OBVIOUS
<1>2. \A k \in 1..i : h[k] # Torn
  BY <1>1
<1> QED
  BY <1>2 DEF Readable

LEMMA PrefixStays ==
  ASSUME NEW h \in Seq(Groups), NEW g \in Groups, NEW k \in Nat, k <= Len(h)
  PROVE  Readable(SubSeq(h, 1, k)) \subseteq Readable(SubSeq(Append(h, g), 1, k))
<1> DEFINE more == Append(h, g)
<1>1. /\ more \in Seq(Groups) /\ Len(more) = Len(h) + 1 /\ Len(h) \in Nat
      /\ \A i \in 1..Len(h) : more[i] = h[i]
  BY AppendProperties
<1> HIDE DEF more
<1>2. /\ SubSeq(h, 1, k) \in Seq(Groups) /\ DOMAIN SubSeq(h, 1, k) = 1..k
      /\ \A i \in 1..k : SubSeq(h, 1, k)[i] = h[i]
  BY <1>1
<1>3. DOMAIN SubSeq(more, 1, k) = 1..k /\ \A i \in 1..k : SubSeq(more, 1, k)[i] = more[i]
  BY <1>1
<1>4. \A i \in 1..k : i \in 1..Len(h)
  BY <1>1
<1>5. \A i \in DOMAIN SubSeq(h, 1, k) :
        i \in DOMAIN SubSeq(more, 1, k) /\ SubSeq(h, 1, k)[i] = SubSeq(more, 1, k)[i]
  BY <1>1, <1>2, <1>3, <1>4
<1>6. Readable(SubSeq(h, 1, k)) \subseteq Readable(SubSeq(more, 1, k))
  BY <1>2, <1>5, ReadablePrefix
<1> QED
  BY <1>6 DEF more

\* The group holds the batches of its writers, and nothing else.
LEMMA GroupElements ==
  \A b : b \in Elements(Group) <=> \E i \in 1..Length : ~op[queue[i]].null /\ b = op[queue[i]].batch
<1> DEFINE places == {j \in 1..Length : ~op[queue[j]].null}
<1>1. Group = [i \in places |-> op[queue[i]].batch]
  BY DEF Group, Batches
<1>2. DOMAIN Group = places /\ \A i \in places : Group[i] = op[queue[i]].batch
  BY <1>1
<1>3. \A b : b \in Elements(Group) <=> \E i \in places : b = Group[i]
  BY <1>2 DEF Elements
<1>4. \A b : b \in Elements(Group) <=> \E i \in places : b = op[queue[i]].batch
  BY <1>2, <1>3
<1> HIDE DEF places
<1>5. \A i : i \in places <=> i \in 1..Length /\ ~op[queue[i]].null
  BY DEF places
<1> QED
  BY <1>4, <1>5

\* What is inserted into the memtable has its home there.
LEMMA InsertedHasHome ==
  ASSUME AckInv, NEW w \in Writers, pc[w] \in {"append", "sync"}, UNCHANGED <<queue, last, op>>,
         NEW n \in DOMAIN mems', Elements(Group) \subseteq mems'[n],
         op[w].sync => Elements(Group) \subseteq Synced(n)'
  PROVE  GroupHasHome'
<1>1. Length' = Length
  BY DEF Length
<1> SUFFICES ASSUME NEW i \in 1..Length, ~op[queue[i]].null
             PROVE  Home(op[queue[i]].batch, op[queue[i]].sync)'
  BY <1>1 DEF GroupHasHome
<1>2. op[queue[i]].sync => op[w].sync
  BY DEF AckInv, SyncJoinsSync
<1>3. op[queue[i]].batch \in Elements(Group)
  BY GroupElements
<1> QED
  BY <1>2, <1>3 DEF Home

LEMMA InsertIs ==
  ASSUME Base, opened, UNCHANGED log, NEW w \in Writers, pc[w] \in {"append", "sync"},
         mems' = [mems EXCEPT ![log] = @ \cup Elements(Group)]
  PROVE  /\ DOMAIN mems' = DOMAIN mems /\ mems'[log] = mems[log] \cup Elements(Group)
         /\ \A n \in DOMAIN mems : n # log => mems'[n] = mems[n]
<1>1. log \in DOMAIN mems
  BY LogIsThere
<1> QED
  BY <1>1

\* What is read of a log after a step that writes to it.
LEMMA LoggingKeepsData ==
  ASSUME Base, AckInv, opened, UNCHANGED <<opened, version, manifest, log>>,
         DOMAIN mems' = DOMAIN mems, DOMAIN logs' = DOMAIN logs,
         \A n \in DOMAIN mems : n # log => mems'[n] = mems[n],
         \A n \in DOMAIN logs : n # log => logs'[n] = logs[n],
         mems[log] \subseteq mems'[log], mems'[log] \subseteq Readable(logs'[log].groups),
         \E s : s = log /\ Synced(s) \subseteq Synced(s)'
  PROVE  HomesStay /\ MemsAreLogged'
<1>1. HomesStay
  <2> SUFFICES ASSUME NEW n \in DOMAIN mems
               PROVE  n \in DOMAIN mems' /\ mems[n] \subseteq mems'[n] /\ Synced(n) \subseteq Synced(n)'
    BY HomesMove
  <2>1. n \in DOMAIN logs
    BY LogIsThere
  <2>2. CASE n = log
    BY <2>2
  <2>3. CASE n # log
    BY <2>1, <2>3 DEF Synced
  <2> QED
    BY <2>2, <2>3
<1>2. MemsAreLogged'
  <2>1. /\ version' \subseteq manifest'.tables /\ manifest'.log \in Nat /\ manifest'.log <= log'
        /\ log \in Nat
    BY LogIsThere DEF AckInv, MemsAreLogged
  <2>2. ASSUME NEW n \in DOMAIN mems'
        PROVE  /\ mems'[n] \subseteq Readable(logs'[n].groups)
               /\ n >= manifest'.log \/ \E t \in manifest'.tables : mems'[n] \subseteq t.batches
    <3>1. CASE n = log
      BY <2>1, <3>1
    <3>2. CASE n # log
      <4>1. n \in DOMAIN mems /\ n \in DOMAIN logs /\ mems'[n] = mems[n] /\ logs'[n] = logs[n]
        BY <3>2, LogIsThere
      <4> QED
        BY <4>1 DEF AckInv, MemsAreLogged
    <3> QED
      BY <3>1, <3>2
  <2> QED
    BY <2>1, <2>2 DEF MemsAreLogged
<1> QED
  BY <1>1, <1>2

\* The log after the group was appended: all of it is read.
LEMMA AppendIsRead ==
  ASSUME Base, AckInv, opened, NEW w \in Writers, pc[w] = "append",
         logs' = [logs EXCEPT ![log].groups = Append(@, Group)]
  PROVE  /\ DOMAIN logs' = DOMAIN logs /\ \A n \in DOMAIN logs : n # log => logs'[n] = logs[n]
         /\ NoneTorn'
         /\ Readable(logs[log].groups) \subseteq Readable(logs'[log].groups)
         /\ Elements(Group) \subseteq Readable(logs'[log].groups)
         /\ \E s : s = log /\ Synced(s) \subseteq Synced(s)'
<1> DEFINE h == logs[log].groups
           k == logs[log].synced
           more == Append(h, Group)
<1>1. log \in DOMAIN logs
  BY LogIsThere
<1>2. Group \in Groups /\ Group # Torn
  BY GroupType DEF Base, AllButOrder
<1>3. h \in Seq(Groups) /\ k \in Nat /\ k <= Len(h)
  BY <1>1, LoggedType DEF Base, LogsType
<1>4. /\ DOMAIN logs' = DOMAIN logs /\ \A n \in DOMAIN logs : n # log => logs'[n] = logs[n]
      /\ logs'[log].groups = more /\ logs'[log].synced = k
  BY <1>1 DEF Base, LogsType
<1>5. \A i \in DOMAIN h : h[i] # Torn
  BY <1>1 DEF AckInv, NoneTorn
<1> HIDE DEF h, k
<1>7. /\ more \in Seq(Groups) /\ DOMAIN h = 1..Len(h) /\ DOMAIN more = 1..Len(h) + 1 /\ Len(h) \in Nat
      /\ (\A i \in DOMAIN h : more[i] = h[i]) /\ more[Len(h) + 1] = Group
  BY <1>2, <1>3, ReadableAppend
<1>8. Readable(SubSeq(h, 1, k)) \subseteq Readable(SubSeq(more, 1, k))
  BY <1>2, <1>3, PrefixStays
<1> HIDE DEF more
<1>9. \A i \in DOMAIN more : more[i] # Torn
  <2> SUFFICES ASSUME NEW i \in DOMAIN more PROVE more[i] # Torn
    OBVIOUS
  <2>1. i \in DOMAIN h \/ i = Len(h) + 1
    BY <1>7
  <2> QED
    BY <1>2, <1>5, <1>7, <2>1
<1>10. NoneTorn'
  BY <1>4, <1>9 DEF AckInv, NoneTorn
<1>11. Readable(h) \subseteq Readable(more)
  <2>1. \A i \in DOMAIN h : i \in DOMAIN more /\ h[i] = more[i]
    BY <1>7
  <2> QED
    BY <1>3, <2>1, ReadablePrefix
<1>12. Elements(Group) \subseteq Readable(more)
  <2> DEFINE m == Len(h) + 1
  <2>1. m \in DOMAIN more /\ more[m] = Group
    BY <1>7
  <2> HIDE DEF m
  <2>2. Elements(more[m]) \subseteq Readable(more)
    BY <1>7, <1>9, <2>1, ReadableAll
  <2> QED
    BY <2>1, <2>2
<1>13. \E s : s = log /\ Synced(s) \subseteq Synced(s)'
  <2>1. PICK s : s = log
    OBVIOUS
  <2>2. Synced(s) = Readable(SubSeq(h, 1, k))
    BY <2>1 DEF Synced, h, k
  <2>3. logs'[s].groups = more /\ logs'[s].synced = k
    BY <1>4, <2>1
  <2>4. Synced(s)' = Readable(SubSeq(more, 1, k))
    BY <2>3 DEF Synced
  <2> QED
    BY <1>8, <2>1, <2>2, <2>4
<1>14. Readable(h) = Readable(logs[log].groups)
  BY DEF h
<1> QED
  BY <1>4, <1>10, <1>11, <1>12, <1>13, <1>14

LEMMA AddRecordKeepsAcked ==
  ASSUME Tidy, Base, AckInv, NEW w \in Writers, AddRecord(w)
  PROVE  AckInv'
<1>1. /\ pc[w] = "append" /\ UNCHANGED <<opened, version, manifest, log, queue, last, op, done, acked>>
      /\ logs' = [logs EXCEPT ![log].groups = Append(@, Group)]
      /\ IF op[w].sync THEN GoTo(w, "sync") /\ UNCHANGED <<outcome, mems>> ELSE InsertInto(w)
  BY DEF AddRecord, Tidy, Fails, versionVars, queueVars, lifeVars
<1>2. opened
  BY <1>1, ThreadNeedsProcess DEF Base, AllButOrder
<1>3. /\ DOMAIN logs' = DOMAIN logs /\ \A n \in DOMAIN logs : n # log => logs'[n] = logs[n]
      /\ NoneTorn'
      /\ Readable(logs[log].groups) \subseteq Readable(logs'[log].groups)
      /\ Elements(Group) \subseteq Readable(logs'[log].groups)
      /\ \E s : s = log /\ Synced(s) \subseteq Synced(s)'
  BY <1>1, <1>2, AppendIsRead
<1>4. log \in DOMAIN mems /\ mems[log] \subseteq Readable(logs[log].groups)
  BY <1>2, LogIsThere DEF AckInv, MemsAreLogged
<1>5. /\ DOMAIN mems' = DOMAIN mems /\ mems[log] \subseteq mems'[log]
      /\ mems'[log] \subseteq mems[log] \cup Elements(Group)
      /\ \A n \in DOMAIN mems : n # log => mems'[n] = mems[n]
  BY <1>1, <1>2, InsertIs DEF InsertInto
<1>6. HomesStay /\ MemsAreLogged'
  <2>1. mems'[log] \subseteq Readable(logs'[log].groups)
    BY <1>3, <1>4, <1>5
  <2> QED
    BY <1>1, <1>2, <1>3, <1>5, <2>1, LoggingKeepsData
<1>7. AckedHaveHome' /\ AnsweredHaveHome'
  BY <1>1, <1>6, PromisesStay
<1>8. PICK at \in {"sync", "finish"} : pc' = [pc EXCEPT ![w] = at]
  BY <1>1 DEF GoTo, InsertInto
<1>9. pc'[w] = at /\ \A v \in Writers : pc'[v] \in Logging => v = w
  BY <1>1, <1>8, OnlyLeaderLogs DEF Active
<1>10. Length' = Length
  BY <1>1 DEF Length
<1>11. SyncJoinsSync'
  <2>1. \A i \in 1..Length : op[queue[i]].sync => op[w].sync
    BY <1>1 DEF AckInv, SyncJoinsSync
  <2> QED
    BY <1>1, <1>9, <1>10, <2>1 DEF SyncJoinsSync, Logging
<1>12. GroupIsLogged'
  <2>1. \A i \in 1..Length : ~op[queue[i]].null => op[queue[i]].batch \in Readable(logs'[log].groups)
    BY <1>3, GroupElements
  <2> QED
    BY <1>1, <1>10, <2>1 DEF GroupIsLogged
<1>13. GroupHasHome'
  <2>1. CASE op[w].sync
    <3>1. pc'[w] = "sync"
      BY <1>1, <2>1, <1>8, <1>9 DEF GoTo, Base, AllButOrder, QueueInv, QueueType
    <3>2. \A v \in Writers : pc'[v] # "finish"
      BY <1>9, <3>1 DEF Logging
    <3> QED
      BY <3>2 DEF GroupHasHome
  <2>2. CASE ~op[w].sync
    <3>1. mems' = [mems EXCEPT ![log] = @ \cup Elements(Group)]
      BY <1>1, <2>2 DEF InsertInto
    <3>2. PICK n : n = log
      OBVIOUS
    <3>3. n \in DOMAIN mems' /\ Elements(Group) \subseteq mems'[n]
      BY <1>4, <3>1, <3>2
    <3> QED
      BY <1>1, <2>2, <3>3, InsertedHasHome
  <2> QED
    BY <2>1, <2>2
<1>14. ClosedKeeps'
  BY <1>1, <1>2 DEF ClosedKeeps
<1> QED
  BY <1>3, <1>6, <1>7, <1>11, <1>12, <1>13, <1>14 DEF AckInv

\* The log after it was synced: what was read of it is there to stay.
LEMMA SyncIsRead ==
  ASSUME Base, AckInv, opened, logs' = [logs EXCEPT ![log].synced = Len(logs[log].groups)]
  PROVE  /\ DOMAIN logs' = DOMAIN logs /\ \A n \in DOMAIN logs : n # log => logs'[n] = logs[n]
         /\ NoneTorn' /\ logs'[log].groups = logs[log].groups
         /\ \E s : s = log /\ Synced(s) \subseteq Synced(s)' /\ Readable(logs[log].groups) \subseteq Synced(s)'
<1> DEFINE h == logs[log].groups
<1>1. log \in DOMAIN logs
  BY LogIsThere
<1>2. h \in Seq(Groups)
  BY <1>1, LoggedType DEF Base
<1>3. /\ DOMAIN logs' = DOMAIN logs /\ \A n \in DOMAIN logs : n # log => logs'[n] = logs[n]
      /\ logs'[log].groups = h /\ logs'[log].synced = Len(h)
  BY <1>1 DEF Base, LogsType
<1>4. NoneTorn'
  <2>1. \A n \in DOMAIN logs : logs'[n].groups = logs[n].groups
    BY <1>3
  <2> QED
    BY <1>3, <2>1 DEF AckInv, NoneTorn
<1>5. PICK s : s = log
  OBVIOUS
<1>6. Synced(s) \subseteq Readable(h)
  BY <1>1, <1>5, SyncedPrefix DEF Base
<1>7. h = logs[log].groups
  OBVIOUS
<1> HIDE DEF h
<1>8. SubSeq(h, 1, Len(h)) = h
  BY <1>2
<1>9. logs'[s].groups = h /\ logs'[s].synced = Len(h)
  BY <1>3, <1>5
<1>10. Synced(s)' = Readable(h)
  BY <1>8, <1>9 DEF Synced
<1> QED
  BY <1>3, <1>4, <1>5, <1>6, <1>7, <1>10

LEMMA SyncKeepsAcked ==
  ASSUME Base, AckInv, NEW w \in Writers, Sync(w)
  PROVE  AckInv'
<1>1. pc[w] = "sync" /\ UNCHANGED <<opened, version, logNumber, manifest, log, imm, queue, last, op, done, acked>>
  BY DEF Sync, versionVars, queueVars, lifeVars
<1>2. opened
  BY <1>1, ThreadNeedsProcess DEF Base, AllButOrder
<1>3. GoTo(w, "finish")
  BY DEF Sync, InsertInto
<1>4. pc'[w] = "finish" /\ \A v \in Writers : pc'[v] \in Logging => v = w
  BY <1>1, <1>3, OnlyLeaderLogs DEF Active, GoTo
<1>5. \A v \in Writers : pc'[v] \notin {"append", "sync"}
  BY <1>4 DEF Logging
<1>6. SyncJoinsSync' /\ GroupIsLogged'
  BY <1>5 DEF SyncJoinsSync, GroupIsLogged
<1>7. ClosedKeeps'
  BY <1>1, <1>2 DEF ClosedKeeps
<1>8. CASE outcome' = "sync error" /\ UNCHANGED <<logs, mems>>
  <2>1. HomesStay /\ NoneTorn' /\ MemsAreLogged'
    BY <1>1, <1>8, DataStays DEF memVars
  <2>2. AckedHaveHome' /\ AnsweredHaveHome'
    BY <1>1, <2>1, PromisesStay
  <2>3. GroupHasHome'
    BY <1>8 DEF GroupHasHome
  <2> QED
    BY <1>6, <1>7, <2>1, <2>2, <2>3 DEF AckInv
<1>9. CASE logs' = [logs EXCEPT ![log].synced = Len(logs[log].groups)] /\ InsertInto(w)
  <2>1. /\ DOMAIN logs' = DOMAIN logs /\ \A n \in DOMAIN logs : n # log => logs'[n] = logs[n]
        /\ NoneTorn' /\ logs'[log].groups = logs[log].groups
        /\ \E s : s = log /\ Synced(s) \subseteq Synced(s)' /\ Readable(logs[log].groups) \subseteq Synced(s)'
    BY <1>2, <1>9, SyncIsRead
  <2>2. log \in DOMAIN mems /\ mems[log] \subseteq Readable(logs[log].groups)
    BY <1>2, LogIsThere DEF AckInv, MemsAreLogged
  <2>3. Elements(Group) \subseteq Readable(logs[log].groups)
    <3> SUFFICES ASSUME NEW b \in Elements(Group) PROVE b \in Readable(logs[log].groups)
      OBVIOUS
    <3>1. PICK i \in 1..Length : ~op[queue[i]].null /\ b = op[queue[i]].batch
      BY GroupElements
    <3> QED
      BY <1>1, <3>1 DEF AckInv, GroupIsLogged
  <2>4. /\ DOMAIN mems' = DOMAIN mems /\ mems'[log] = mems[log] \cup Elements(Group)
        /\ \A n \in DOMAIN mems : n # log => mems'[n] = mems[n]
    BY <1>1, <1>2, <1>9, InsertIs DEF InsertInto
  <2>5. HomesStay /\ MemsAreLogged'
    <3>1. mems[log] \subseteq mems'[log] /\ mems'[log] \subseteq Readable(logs'[log].groups)
      BY <2>1, <2>2, <2>3, <2>4
    <3> QED
      BY <1>1, <1>2, <2>1, <2>4, <3>1, LoggingKeepsData
  <2>6. AckedHaveHome' /\ AnsweredHaveHome'
    BY <1>1, <2>5, PromisesStay
  <2>7. GroupHasHome'
    <3>1. PICK s : s = log /\ Readable(logs[log].groups) \subseteq Synced(s)'
      BY <2>1
    <3>2. s \in DOMAIN mems' /\ Elements(Group) \subseteq mems'[s] /\ Elements(Group) \subseteq Synced(s)'
      BY <2>2, <2>3, <2>4, <3>1
    <3> QED
      BY <1>1, <3>2, InsertedHasHome
  <2> QED
    BY <1>6, <1>7, <2>1, <2>5, <2>6, <2>7 DEF AckInv
<1> QED
  BY <1>8, <1>9 DEF Sync

\* Those who return, and those who get their answer, are in the group.
LEMMA FinishKeepsAcked ==
  ASSUME Base, AckInv, NEW w \in Writers, Finish(w)
  PROVE  AckInv'
<1>1. /\ UNCHANGED <<opened, memVars, version, logNumber, logs, manifest, op, outcome>>
      /\ Return(w, IF outcome = "ok" THEN "ok" ELSE "error")
  BY DEF Finish, versionVars, diskVars, lifeVars
<1>2. QueueInv /\ PlacesInv
  BY DEF Base, AllButOrder
<1> DEFINE n == Length
<1>3. /\ pc[w] = "finish" /\ w = queue[1] /\ DOMAIN queue = 1..Len(queue)
      /\ n \in 1..Len(queue) /\ Len(queue) \in Nat
      /\ \A v \in Writers :
           IF \E i \in 2..n : v = queue[i]
             THEN done'[v] = IF outcome = "ok" THEN "ok" ELSE "error"
             ELSE done'[v] = done[v]
  BY <1>2, FinishLeaves DEF Front
<1>4. outcome = "ok" => \A i \in 1..n : ~op[queue[i]].null => Home(op[queue[i]].batch, op[queue[i]].sync)
  BY <1>3 DEF AckInv, GroupHasHome
<1> HIDE DEF n
<1>5. opened
  BY <1>3, ThreadNeedsProcess DEF Base, AllButOrder
<1>6. ASSUME outcome = "ok", NEW i \in 1..n, ~op[queue[i]].null PROVE HasHome(queue[i])
  <2>1. i \in DOMAIN queue
    BY <1>3
  <2>2. op[queue[i]] \in Call
    BY <1>2, <2>1, QueuedCalls DEF QueueInv
  <2> QED
    BY <1>4, <1>6, <2>2 DEF HasHome
<1>7. \A v \in Writers : done'[v] = "ok" /\ ~op[v].null => HasHome(v)
  <2> SUFFICES ASSUME NEW v \in Writers, done'[v] = "ok", ~op[v].null PROVE HasHome(v)
    OBVIOUS
  <2>1. ASSUME NEW i \in 2..n, v = queue[i] PROVE HasHome(v)
    <3>1. outcome = "ok" /\ i \in 1..n
      BY <1>3, <2>1
    <3> QED
      BY <1>6, <2>1, <3>1
  <2>2. CASE ~ \E i \in 2..n : v = queue[i]
    BY <1>3, <2>2, AnswerHasHome
  <2> QED
    BY <2>1, <2>2
<1>8. \A a \in acked' : \/ a \in acked
                        \/ \E v \in Writers : HasHome(v) /\ a = [batch |-> op[v].batch, sync |-> op[v].sync]
  <2>1. outcome = "ok" /\ ~op[w].null => HasHome(w)
    BY <1>3, <1>6
  <2> QED
    BY <1>1, <2>1 DEF Return
<1>9. HomesStay /\ NoneTorn' /\ MemsAreLogged'
  BY <1>1, DataStays
<1>10. AckedHaveHome' /\ AnsweredHaveHome'
  BY <1>1, <1>5, <1>7, <1>8, <1>9, PromisesKept
<1>11. \A v \in Writers : pc'[v] \notin Logging
  <2>1. pc[w] \in Active
    BY <1>3 DEF Active
  <2>2. PICK at \in {"flush", "idle"} : pc' = [pc EXCEPT ![w] = at]
    BY <1>1 DEF Return
  <2> QED
    BY <2>1, <2>2, OnlyLeaderLogs DEF Logging
<1>12. SyncJoinsSync' /\ GroupIsLogged' /\ GroupHasHome'
  BY <1>11, NothingForGroup
<1>13. ClosedKeeps'
  BY <1>1, <1>5 DEF ClosedKeeps
<1> QED
  BY <1>9, <1>10, <1>12, <1>13 DEF AckInv

\* A call comes in: its batch has been promised to nobody.
LEMMA WriteKeepsAcked ==
  ASSUME Base, AckInv, NEW w \in Writers, NEW sync, NEW null, Write(w, sync, null)
  PROVE  AckInv'
<1>1. /\ pc[w] = "idle" /\ opened
      /\ UNCHANGED <<opened, memVars, version, logNumber, logs, manifest, acked, done, outcome, log>>
      /\ op' = [op EXCEPT ![w] = [batch |-> calls + 1, sync |-> sync, null |-> null]]
  BY DEF Write, versionVars, memVars, diskVars, lifeVars
<1>2. HomesStay /\ NoneTorn' /\ MemsAreLogged'
  BY <1>1, DataStays
<1>3. QueueInv /\ PlacesInv /\ op \in [Writers -> Call \cup {Nil}]
  BY DEF Base, AllButOrder, PlacesInv, CallsType
<1>4. AckedHaveHome'
  <2> SUFFICES ASSUME NEW a \in acked PROVE a \in [batch : Nat, sync : BOOLEAN] /\ Home(a.batch, a.sync)'
    BY <1>1 DEF AckedHaveHome
  <2>1. a \in [batch : Nat, sync : BOOLEAN] /\ Home(a.batch, a.sync)
    BY <1>1 DEF AckInv, AckedHaveHome
  <2> QED
    BY <1>2, <2>1 DEF HomesStay
<1>5. AnsweredHaveHome'
  <2> SUFFICES ASSUME NEW v \in Writers, done'[v] = "ok", ~op'[v].null
               PROVE  \/ \E t \in version' : op'[v].batch \in t.batches
                      \/ \E n \in DOMAIN mems' :
                           op'[v].batch \in mems'[n] /\ (op'[v].sync => op'[v].batch \in Synced(n)')
    BY DEF AnsweredHaveHome, Home
  <2>1. pc[v] = "queued"
    BY <1>1, <1>3, NilAssumption DEF PlacesInv, AnsweredSleep
  <2>2. op'[v] = op[v]
    BY <1>1, <1>3, <2>1
  <2>3. HasHome(v)
    BY <1>1, <2>2, AnswerHasHome
  <2>4. PICK b \in Nat : b = op[v].batch
    BY <2>3 DEF HasHome, Call
  <2>5. PICK s \in BOOLEAN : s = op[v].sync
    BY <2>3 DEF HasHome, Call
  <2>6. Home(b, s)'
    BY <1>2, <2>3, <2>4, <2>5 DEF HasHome, HomesStay
  <2> QED
    BY <2>2, <2>4, <2>5, <2>6 DEF Home
<1>6. ASSUME \E v \in Writers : pc[v] \in Logging
      PROVE  SyncJoinsSync' /\ GroupIsLogged' /\ GroupHasHome'
  <2> DEFINE n == Length
  <2>1. Length' = n /\ n \in DOMAIN queue /\ DOMAIN queue = 1..Len(queue)
    BY <1>3, <1>6, WriteLeavesGroup
  <2> HIDE DEF n
  <2>2. /\ \A i \in DOMAIN queue : queue'[i] = queue[i] /\ op'[queue[i]] = op[queue[i]]
        /\ \A at \in {"append", "sync", "finish"}, v \in Writers : pc'[v] = at <=> pc[v] = at /\ v # w
    BY <1>3, WriteLeavesGroup
  <2>3. 1..n \subseteq DOMAIN queue
    BY <1>3, <2>1 DEF QueueInv, QueueType
  <2>4. \A i \in 1..n : queue'[i] = queue[i] /\ op'[queue'[i]] = op[queue[i]]
    BY <2>2, <2>3
  <2>5. SyncJoinsSync'
    <3>1. \A v \in Writers : pc[v] \in {"append", "sync"} =>
            \A i \in 1..n : op[queue[i]].sync => op[v].sync
      BY DEF n, AckInv, SyncJoinsSync
    <3>2. \A v \in Writers : v # w => op'[v] = op[v]
      BY <1>1, <1>3
    <3>3. \A v \in Writers : pc'[v] \in {"append", "sync"} => pc[v] \in {"append", "sync"} /\ v # w
      BY <2>2
    <3>4. \A v \in Writers : pc'[v] \in {"append", "sync"} =>
            \A i \in 1..n : op'[queue'[i]].sync => op'[v].sync
      BY <2>4, <3>1, <3>2, <3>3
    <3> QED
      BY <2>1, <3>4 DEF SyncJoinsSync
  <2>6. GroupIsLogged'
    <3>1. \A v \in Writers : pc[v] = "sync" =>
            \A i \in 1..n : ~op[queue[i]].null => op[queue[i]].batch \in Readable(logs[log].groups)
      BY DEF n, AckInv, GroupIsLogged
    <3>2. \A v \in Writers : pc'[v] = "sync" => pc[v] = "sync"
      BY <2>2
    <3>3. \A v \in Writers : pc'[v] = "sync" =>
            \A i \in 1..n : ~op'[queue'[i]].null => op'[queue'[i]].batch \in Readable(logs'[log'].groups)
      BY <1>1, <2>4, <3>1, <3>2
    <3> QED
      BY <2>1, <3>3 DEF GroupIsLogged
  <2>7. GroupHasHome'
    <3> SUFFICES ASSUME outcome' = "ok", \E v \in Writers : pc'[v] = "finish",
                        NEW i \in 1..n, ~op'[queue'[i]].null
                 PROVE  \/ \E t \in version' : op'[queue'[i]].batch \in t.batches
                        \/ \E m \in DOMAIN mems' :
                             /\ op'[queue'[i]].batch \in mems'[m]
                             /\ op'[queue'[i]].sync => op'[queue'[i]].batch \in Synced(m)'
      BY <2>1 DEF GroupHasHome, Home
    <3>1. \E v \in Writers : pc[v] = "finish"
      BY <2>2
    <3>2. Home(op[queue[i]].batch, op[queue[i]].sync)
      BY <1>1, <2>4, <3>1 DEF n, AckInv, GroupHasHome
    <3>3. op[queue[i]] \in Call
      BY <1>3, <2>3, QueuedCalls DEF QueueInv
    <3>4. PICK b \in Nat : b = op[queue[i]].batch
      BY <3>3 DEF Call
    <3>5. PICK s \in BOOLEAN : s = op[queue[i]].sync
      BY <3>3 DEF Call
    <3>6. Home(b, s)'
      BY <1>2, <3>2, <3>4, <3>5 DEF HomesStay
    <3> QED
      BY <2>4, <3>4, <3>5, <3>6 DEF Home
  <2> QED
    BY <2>5, <2>6, <2>7
<1>7. ASSUME ~ \E v \in Writers : pc[v] \in Logging
      PROVE  SyncJoinsSync' /\ GroupIsLogged' /\ GroupHasHome'
  <2>1. \A at \in {"append", "sync", "finish"}, v \in Writers : pc'[v] = at <=> pc[v] = at /\ v # w
    BY <1>3, WriteLeavesGroup
  <2>2. \A v \in Writers : pc'[v] \notin Logging
    BY <1>7, <2>1 DEF Logging
  <2> QED
    BY <2>2, NothingForGroup
<1>8. ClosedKeeps'
  BY <1>1 DEF ClosedKeeps
<1> QED
  BY <1>2, <1>4, <1>5, <1>6, <1>7, <1>8 DEF AckInv

-----------------------------------------------------------------------------
(* The steps of the background thread *)

\* The manifest is written and old logs go: no thread moves.
LEMMA InstallKeepsAcked ==
  ASSUME Base, AckInv, opened, UNCHANGED <<opened, log, acked, op, done, queue, last, outcome, pc>>,
         HomesStay, MemsAreLogged',
         DOMAIN logs' \subseteq DOMAIN logs, \A n \in DOMAIN logs' : logs'[n] = logs[n], log \in DOMAIN logs'
  PROVE  AckInv'
<1>1. NoneTorn'
  BY DEF AckInv, NoneTorn
<1>2. AckedHaveHome' /\ AnsweredHaveHome'
  BY PromisesStay
<1>3. SyncJoinsSync' /\ GroupIsLogged' /\ GroupHasHome'
  BY GroupStays
<1>4. ClosedKeeps'
  BY DEF ClosedKeeps
<1> QED
  BY <1>1, <1>2, <1>3, <1>4 DEF AckInv

\* A memtable becomes a table that the new version and the manifest name.
LEMMA InstallFlushKeepsAcked ==
  ASSUME Base, AckInv, InstallFlush
  PROVE  AckInv'
<1>1. bg = "manifest" /\ UNCHANGED <<opened, log, acked, op, done, queue, last, outcome, pc>>
  BY DEF InstallFlush, queueVars, lifeVars
<1>2. opened /\ imm # Nil /\ imm \in DOMAIN mems
  BY <1>1, BackgroundNeedsProcess DEF Base, AllButOrder, TablesInv, FlushHasTable, ImmIsOld
<1>3. /\ log \in Nat /\ log \in DOMAIN mems /\ log \in DOMAIN logs
      /\ DOMAIN mems = {log, imm} /\ DOMAIN mems \subseteq DOMAIN logs
      /\ \A n \in DOMAIN mems : n \in Nat
  BY <1>2, LogIsThere
<1>4. /\ version \subseteq manifest.tables /\ manifest.log \in Nat /\ manifest.log <= log
      /\ \A n \in DOMAIN mems :
           /\ mems[n] \subseteq Readable(logs[n].groups)
           /\ n >= manifest.log \/ \E t \in manifest.tables : mems[n] \subseteq t.batches
  BY <1>2 DEF AckInv, MemsAreLogged
<1>5. ImmTable.batches = mems[imm]
  BY DEF ImmTable
<1>6. ASSUME manifest' = [tables |-> manifest.tables \cup {ImmTable}, log |-> log]
      PROVE  /\ manifest'.tables = manifest.tables \cup {ImmTable} /\ manifest'.log = log
             /\ \A n \in DOMAIN mems : n >= log \/ \E t \in manifest'.tables : mems[n] \subseteq t.batches
  <2>1. manifest'.tables = manifest.tables \cup {ImmTable} /\ manifest'.log = log
    BY <1>6
  <2>2. \E t \in manifest'.tables : mems[imm] \subseteq t.batches
    BY <1>5, <2>1
  <2>3. log >= log
    BY <1>3
  <2> QED
    BY <1>3, <2>1, <2>2, <2>3
<1>7. CASE UNCHANGED <<version, mems, logs>> /\ manifest' \in {manifest, [tables |-> manifest.tables \cup {ImmTable}, log |-> log]}
  <2>1. HomesStay
    <3>1. \A n \in DOMAIN mems : Synced(n)' = Synced(n)
      BY <1>7 DEF Synced
    <3> QED
      BY <1>7, <3>1, HomesMove
  <2>2. MemsAreLogged'
    <3>1. CASE manifest' = manifest
      BY <1>1, <1>4, <1>7, <3>1 DEF MemsAreLogged
    <3>2. CASE manifest' = [tables |-> manifest.tables \cup {ImmTable}, log |-> log]
      <4>1. version' \subseteq manifest'.tables /\ manifest'.log \in Nat /\ manifest'.log <= log'
        BY <1>1, <1>3, <1>4, <1>6, <1>7, <3>2
      <4>2. \A n \in DOMAIN mems' :
              /\ mems'[n] \subseteq Readable(logs'[n].groups)
              /\ n >= manifest'.log \/ \E t \in manifest'.tables : mems'[n] \subseteq t.batches
        BY <1>4, <1>6, <1>7, <3>2
      <4> QED
        BY <4>1, <4>2 DEF MemsAreLogged
    <3> QED
      BY <1>7, <3>1, <3>2
  <2> QED
    BY <1>1, <1>2, <1>3, <1>7, <2>1, <2>2, InstallKeepsAcked
<1>8. CASE /\ manifest' = [tables |-> manifest.tables \cup {ImmTable}, log |-> log]
           /\ version' = version \cup {ImmTable} /\ logNumber' = log
           /\ mems' = [n \in {log} |-> mems[n]] /\ DeleteObsoleteFiles
  <2>1. DOMAIN mems' = {log} /\ mems'[log] = mems[log]
    BY <1>8
  <2>2. /\ DOMAIN logs' \subseteq DOMAIN logs /\ \A n \in DOMAIN logs' : logs'[n] = logs[n]
        /\ log \in DOMAIN logs'
    <3>1. \A n \in DOMAIN logs : n >= log => n \in DOMAIN logs'
      BY <1>8, DeletionKeepsLogs
    <3>2. log >= log
      BY <1>3
    <3> QED
      BY <1>3, <1>8, <3>1, <3>2, DeletionKeepsLogs
  <2>3. HomesStay
    <3> SUFFICES ASSUME NEW n \in DOMAIN mems
                 PROVE  \/ n \in DOMAIN mems' /\ mems[n] \subseteq mems'[n] /\ Synced(n) \subseteq Synced(n)'
                        \/ \E t \in version' : mems[n] \subseteq t.batches
      BY <1>8, HomesMove
    <3>1. CASE n = log
      <4>1. n \in DOMAIN mems' /\ mems[n] \subseteq mems'[n] /\ logs'[n] = logs[n]
        BY <2>1, <2>2, <3>1
      <4> QED
        BY <4>1 DEF Synced
    <3>2. CASE n = imm
      BY <1>5, <1>8, <3>2
    <3> QED
      BY <1>3, <3>1, <3>2
  <2>4. MemsAreLogged'
    <3>1. version' \subseteq manifest'.tables /\ manifest'.log \in Nat /\ manifest'.log <= log'
      BY <1>1, <1>3, <1>4, <1>6, <1>8
    <3>2. \A n \in DOMAIN mems' : mems'[n] \subseteq Readable(logs'[n].groups) /\ n >= manifest'.log
      <4>1. \A n \in DOMAIN mems' : n = log
        BY <2>1
      <4>2. mems'[log] \subseteq Readable(logs'[log].groups) /\ log >= manifest'.log
        BY <1>3, <1>4, <1>6, <1>8, <2>1, <2>2
      <4> QED
        BY <4>1, <4>2
    <3> QED
      BY <3>1, <3>2 DEF MemsAreLogged
  <2> QED
    BY <1>1, <1>2, <2>2, <2>3, <2>4, InstallKeepsAcked
<1> QED
  BY <1>7, <1>8 DEF InstallFlush, versionVars

LEMMA InstallCompactionKeepsAcked ==
  ASSUME Base, AckInv, InstallCompaction
  PROVE  AckInv'
<1>1. /\ bg = "compact" /\ DeleteObsoleteFiles
      /\ UNCHANGED <<opened, log, mems, version, logNumber, acked, op, done, queue, last, outcome, pc>>
      /\ manifest' \in {manifest, [tables |-> manifest.tables, log |-> logNumber]}
  BY DEF InstallCompaction, queueVars, lifeVars
<1>2. opened
  BY <1>1, BackgroundNeedsProcess DEF Base, AllButOrder
<1>3. /\ log \in Nat /\ log \in DOMAIN mems /\ DOMAIN mems \subseteq DOMAIN logs
      /\ logNumber \in Nat /\ logNumber <= log
      /\ \A n \in DOMAIN mems : n \in Nat /\ logNumber <= n
  BY <1>2, LogIsThere
<1>4. /\ DOMAIN logs' \subseteq DOMAIN logs /\ \A n \in DOMAIN logs' : logs'[n] = logs[n]
      /\ DOMAIN mems \subseteq DOMAIN logs'
  <2>1. \A n \in DOMAIN logs : n >= logNumber => n \in DOMAIN logs'
    BY <1>1, DeletionKeepsLogs
  <2>2. \A n \in DOMAIN mems : n >= logNumber
    BY <1>3
  <2> QED
    BY <1>1, <1>3, <2>1, <2>2, DeletionKeepsLogs
<1>5. HomesStay
  <2>1. \A n \in DOMAIN mems : Synced(n)' = Synced(n)
    BY <1>4 DEF Synced
  <2> QED
    BY <1>1, <2>1, HomesMove
<1>6. MemsAreLogged'
  <2>1. /\ version \subseteq manifest.tables /\ manifest.log \in Nat /\ manifest.log <= log
        /\ \A n \in DOMAIN mems :
             /\ mems[n] \subseteq Readable(logs[n].groups)
             /\ n >= manifest.log \/ \E t \in manifest.tables : mems[n] \subseteq t.batches
    BY <1>2 DEF AckInv, MemsAreLogged
  <2>2. manifest'.tables = manifest.tables /\ (manifest'.log = manifest.log \/ manifest'.log = logNumber)
    BY <1>1
  <2>3. version' \subseteq manifest'.tables /\ manifest'.log \in Nat /\ manifest'.log <= log'
    BY <1>1, <1>3, <2>1, <2>2
  <2>4. ASSUME NEW n \in DOMAIN mems'
        PROVE  /\ mems'[n] \subseteq Readable(logs'[n].groups)
               /\ n >= manifest'.log \/ \E t \in manifest'.tables : mems'[n] \subseteq t.batches
    <3>1. n \in DOMAIN mems /\ mems'[n] = mems[n] /\ logs'[n] = logs[n] /\ n \in Nat /\ n >= logNumber
      BY <1>1, <1>3, <1>4
    <3> QED
      BY <2>1, <2>2, <3>1
  <2> QED
    BY <2>3, <2>4 DEF MemsAreLogged
<1> QED
  BY <1>1, <1>2, <1>3, <1>4, <1>5, <1>6, InstallKeepsAcked

LEMMA BackgroundKeepsAcked ==
  ASSUME Base, AckInv, Background
  PROVE  AckInv'
<1>1. CASE BackgroundCall \/ CompactWithin \/ BuildTable
  <2>1. UNCHANGED <<opened, memVars, version, logNumber, logs, manifest, acked, op, done, queue, last, outcome, pc>>
    BY <1>1 DEF BackgroundCall, CompactWithin, BuildTable, memVars, versionVars, queueVars, diskVars, lifeVars
  <2> QED
    BY <2>1, StillAcked
<1> QED
  BY <1>1, InstallFlushKeepsAcked, InstallCompactionKeepsAcked DEF Background

-----------------------------------------------------------------------------
(* Ends and beginnings of the process *)

LEMMA NoProcessPromises ==
  ASSUME NoProcess, acked' \subseteq [batch : Nat, sync : BOOLEAN]
  PROVE  AckedHaveHome' /\ AnsweredHaveHome' /\ MemsAreLogged'
         /\ SyncJoinsSync' /\ GroupIsLogged' /\ GroupHasHome'
<1>1. /\ opened' = FALSE /\ pc' = [w \in Writers |-> "idle"] /\ done' = [w \in Writers |-> Nil]
  BY DEF NoProcess
<1>2. \A w \in Writers : pc'[w] \notin Logging
  BY <1>1 DEF Logging
<1>3. SyncJoinsSync' /\ GroupIsLogged' /\ GroupHasHome'
  BY <1>2, NothingForGroup
<1>4. \A w \in Writers : done'[w] # "ok"
  BY <1>1, NilAssumption
<1>5. AnsweredHaveHome'
  BY <1>4 DEF AnsweredHaveHome
<1> QED
  BY <1>1, <1>3, <1>5 DEF AckedHaveHome, MemsAreLogged

\* What is synced is what an end of the machine spares.
LEMMA MachineSpares ==
  ASSUME Base, MachineEnds, NEW n \in DOMAIN logs
  PROVE  /\ n \in DOMAIN logs' /\ Synced(n) \subseteq Readable(logs'[n].groups)
         /\ Synced(n)' = Readable(logs'[n].groups)
<1> DEFINE h == logs[n].groups
           k == logs[n].synced
           g == logs'[n].groups
<1>1. /\ DOMAIN logs' = DOMAIN logs /\ k <= Len(g) /\ Len(g) <= Len(h)
      /\ \A i \in DOMAIN g : g[i] = h[i]
      /\ logs'[n].synced = Len(g)
  BY MachineShortens DEF Base
<1>2. g \in Seq(Groups)
  BY <1>1, MachineShortens DEF Base, Shortened
<1>3. /\ SubSeq(h, 1, k) \in Seq(Groups) /\ DOMAIN SubSeq(h, 1, k) = 1..k
      /\ \A i \in 1..k : SubSeq(h, 1, k)[i] = h[i]
  BY SyncedPrefix DEF Base
<1>4. k \in Nat /\ Synced(n) = Readable(SubSeq(h, 1, k)) /\ Synced(n)' = Readable(SubSeq(g, 1, Len(g)))
  BY <1>1 DEF Base, LogsType, Synced
<1> HIDE DEF h, k, g
<1>5. SubSeq(g, 1, Len(g)) = g
  BY <1>2
<1>6. DOMAIN g = 1..Len(g) /\ Len(g) \in Nat
  BY <1>2
<1>7. \A i \in 1..k : i \in DOMAIN g /\ SubSeq(h, 1, k)[i] = g[i]
  BY <1>1, <1>3, <1>4, <1>6
<1>8. Readable(SubSeq(h, 1, k)) \subseteq Readable(g)
  BY <1>3, <1>7, ReadablePrefix
<1> QED
  BY <1>1, <1>4, <1>5, <1>8 DEF g

LEMMA EndKeepsAcked ==
  ASSUME Base, AckInv, Closed \/ ProcessEnds \/ MachineEnds
  PROVE  AckInv'
<1>1. NoProcess /\ UNCHANGED manifest /\ acked' \subseteq acked
  BY DEF Closed, ProcessEnds, MachineEnds, NoProcess
<1>2. AcknowledgedSurvives
  BY AlwaysSurvives
<1>3. acked' \subseteq [batch : Nat, sync : BOOLEAN]
  BY <1>1 DEF AckInv, AckedHaveHome
<1>4. /\ AckedHaveHome' /\ AnsweredHaveHome' /\ MemsAreLogged'
      /\ SyncJoinsSync' /\ GroupIsLogged' /\ GroupHasHome'
  BY <1>1, <1>3, NoProcessPromises
<1>5. CASE UNCHANGED <<logs, acked>>
  <2>1. NoneTorn'
    BY <1>5 DEF AckInv, NoneTorn
  <2>2. AcknowledgedSurvives'
    BY <1>1, <1>2, <1>5 DEF AcknowledgedSurvives, Recoverable, InTables, InNeeded, NeededIn, SyncedPart
  <2> QED
    BY <1>4, <2>1, <2>2 DEF AckInv, ClosedKeeps
<1>6. CASE MachineEnds
  <2>1. /\ DOMAIN logs' = DOMAIN logs
        /\ \A n \in DOMAIN logs : \A i \in DOMAIN logs'[n].groups :
             i \in DOMAIN logs[n].groups /\ logs'[n].groups[i] = logs[n].groups[i]
    BY <1>6, MachineShortens DEF Base, Shortened
  <2>2. NoneTorn'
    BY <2>1 DEF AckInv, NoneTorn
  <2>3. \A a \in acked' : a \in acked /\ a.sync
    BY <1>6 DEF MachineEnds
  <2>4. ASSUME NEW a \in acked' PROVE Found(a.batch, FALSE)' /\ Found(a.batch, TRUE)'
    <3>1. Found(a.batch, TRUE)
      BY <1>2, <2>3, SurvivesIs
    <3>2. CASE \E t \in manifest.tables : a.batch \in t.batches
      BY <1>1, <3>2 DEF Found
    <3>3. ASSUME NEW n \in DOMAIN logs, n >= manifest.log, a.batch \in Synced(n)
          PROVE  Found(a.batch, FALSE)' /\ Found(a.batch, TRUE)'
      BY <1>1, <1>6, <3>3, MachineSpares DEF Found
    <3> QED
      BY <3>1, <3>2, <3>3 DEF Found
  <2>5. (AcknowledgedSurvives <=> \A a \in acked : Found(a.batch, FALSE) /\ (a.sync => Found(a.batch, TRUE)))'
    BY SurvivesIs, PTL
  <2>6. AcknowledgedSurvives'
    BY <2>4, <2>5
  <2> QED
    BY <1>4, <2>2, <2>6 DEF AckInv, ClosedKeeps
<1> QED
  BY <1>5, <1>6 DEF Closed, ProcessEnds

\* Recovery turns every log that is needed into a table.
LEMMA OpenKeepsAcked ==
  ASSUME Tidy, Base, AckInv, Open
  PROVE  AckInv'
<1>1. /\ opened = FALSE /\ opened' = TRUE /\ UNCHANGED <<acked, done, op, queue, pc, outcome, last>>
      /\ version' = manifest.tables \cup level0' /\ manifest'.tables = version' /\ manifest'.log = log'
      /\ logs' = [n \in {log'} |-> [groups |-> <<>>, synced |-> 0]]
      /\ mems' = [n \in {log'} |-> {}]
      /\ level0' = {LogTable(n) : n \in Full}
  BY DEF Open, Tidy, Fails, queueVars, Quiet, Base, AllButOrder, TablesInv
<1>2. log' \in Nat
  BY OpenKeepsTables DEF Base, AllButOrder, TablesInv, NumbersAreNatural
<1>3. \A w \in Writers : pc[w] = "idle"
  BY <1>1 DEF Base, AllButOrder, TablesInv, Quiet
<1>4. NoneTorn'
  <2>1. \A n \in DOMAIN logs' : DOMAIN logs'[n].groups = {}
    BY <1>1
  <2> QED
    BY <2>1 DEF NoneTorn
<1>5. MemsAreLogged'
  <2>1. log' >= log' /\ log' <= log'
    BY <1>2
  <2>2. \A n \in DOMAIN mems' : mems'[n] = {} /\ n >= manifest'.log
    BY <1>1, <2>1
  <2> QED
    BY <1>1, <1>2, <2>1, <2>2 DEF MemsAreLogged
<1>6. AckedHaveHome'
  <2> SUFFICES ASSUME NEW a \in acked PROVE a \in [batch : Nat, sync : BOOLEAN] /\ Home(a.batch, a.sync)'
    BY <1>1 DEF AckedHaveHome
  <2>1. Found(a.batch, FALSE)
    BY <1>1, SurvivesIs DEF AckInv, ClosedKeeps
  <2>2. ASSUME \E t \in manifest.tables : a.batch \in t.batches
        PROVE  Home(a.batch, a.sync)'
    BY <1>1, <2>2 DEF Home
  <2>3. ASSUME NEW n \in DOMAIN logs, n >= manifest.log, a.batch \in Readable(logs[n].groups)
        PROVE  Home(a.batch, a.sync)'
    <3>1. n \in Full
      BY <2>3 DEF Full, NeededLogs, NeededIn
    <3>2. LogTable(n) \in version' /\ LogTable(n).batches = Readable(logs[n].groups)
      BY <1>1, <3>1 DEF LogTable
    <3> QED
      BY <2>3, <3>2 DEF Home
  <2>4. Home(a.batch, a.sync)'
    BY <2>1, <2>2, <2>3 DEF Found
  <2> QED
    BY <2>4 DEF AckInv, AckedHaveHome
<1>7. AnsweredHaveHome'
  <2>1. \A w \in Writers : done'[w] # "ok"
    BY <1>1, <1>3, NilAssumption DEF Base, AllButOrder, PlacesInv, AnsweredSleep
  <2> QED
    BY <2>1 DEF AnsweredHaveHome
<1>8. SyncJoinsSync' /\ GroupIsLogged' /\ GroupHasHome'
  <2>1. \A w \in Writers : pc'[w] \notin Logging
    BY <1>1, <1>3 DEF Logging
  <2> QED
    BY <2>1, NothingForGroup
<1>9. ClosedKeeps'
  BY <1>1 DEF ClosedKeeps
<1> QED
  BY <1>4, <1>5, <1>6, <1>7, <1>8, <1>9 DEF AckInv

LEMMA AckedInit == Init => AckInv
<1> SUFFICES ASSUME Init PROVE AckInv
  OBVIOUS
<1>1. /\ opened = TRUE /\ acked = {} /\ pc = [w \in Writers |-> "idle"] /\ done = [w \in Writers |-> Nil]
      /\ log = 1 /\ mems = [n \in {1} |-> {}] /\ version = {} /\ manifest = [tables |-> {}, log |-> 1]
      /\ logs = [n \in {1} |-> [groups |-> <<>>, synced |-> 0]]
  BY DEF Init
<1>2. NoneTorn
  <2>1. \A n \in DOMAIN logs : DOMAIN logs[n].groups = {}
    BY <1>1
  <2> QED
    BY <2>1 DEF NoneTorn
<1>3. MemsAreLogged
  <2>1. \A n \in DOMAIN mems : mems[n] = {} /\ n >= manifest.log
    BY <1>1
  <2> QED
    BY <1>1, <2>1 DEF MemsAreLogged
<1>4. AnsweredHaveHome
  BY <1>1, NilAssumption DEF AnsweredHaveHome
<1> QED
  BY <1>1, <1>2, <1>3, <1>4 DEF AckInv, SyncJoinsSync, GroupIsLogged, GroupHasHome, AckedHaveHome, ClosedKeeps

LEMMA AckedStep == Tidy /\ Base /\ AckInv /\ [Next]_vars => AckInv'
<1> SUFFICES ASSUME Tidy, Base, AckInv, [Next]_vars PROVE AckInv'
  OBVIOUS
<1>1. ASSUME NEW w \in Callers, NEW sync, NEW null, Write(w, sync, null) PROVE AckInv'
  <2>1. w \in Writers
    BY DEF Callers, Idle
  <2> QED
    BY <1>1, <2>1, WriteKeepsAcked
<1>2. ASSUME NEW w \in Writers, BackInRoom(w) \/ CompactMemory(w) PROVE AckInv'
  <2>1. PICK at : pc' = [pc EXCEPT ![w] = at] /\ at \notin Logging
    BY <1>2 DEF BackInRoom, CompactMemory, GoTo, Logging
  <2>2. \A v \in Writers, place \in Logging : pc'[v] = place => pc[v] = place
    BY <2>1 DEF Base, AllButOrder, QueueInv, QueueType
  <2>3. UNCHANGED <<opened, memVars, version, logNumber, logs, manifest, acked, op, done, queue, last, outcome>>
    BY <1>2 DEF BackInRoom, CompactMemory, queueVars, versionVars, diskVars, lifeVars
  <2> QED
    BY <2>2, <2>3, StillAcked
<1>3. CASE (\E w \in Writers : Spurious(w)) \/ Close \/ OpenFails \/ UNCHANGED vars
  <2>1. UNCHANGED <<opened, memVars, version, logNumber, logs, manifest, acked, op, done, queue, last, outcome, pc>>
    BY <1>3 DEF Spurious, Close, OpenFails, vars, queueVars, versionVars, diskVars, lifeVars
  <2> QED
    BY <2>1, StillAcked
<1>4. ASSUME NEW w \in Writers, Thread(w) PROVE AckInv'
  BY <1>2, <1>4, WakeUpKeepsAcked, MakeRoomKeepsAcked, AddRecordKeepsAcked, SyncKeepsAcked, FinishKeepsAcked DEF Thread
<1> QED
  BY <1>1, <1>3, <1>4, BackgroundKeepsAcked, EndKeepsAcked, OpenKeepsAcked DEF Next

\* What Write has answered with ok is not lost: not with the process, nor, for
\* options.sync, with the machine (DBImpl::Write, db_impl.cc:1162, LogAndApply,
\* DeleteObsoleteFiles and Recover): for any number of threads, any sizes and any ends,
\* when no append to a log fails and no log is passed over.
THEOREM AcknowledgedIsKept == Tidy => (Spec => []AcknowledgedSurvives)
<1> SUFFICES ASSUME Tidy PROVE Spec => []AcknowledgedSurvives
  OBVIOUS
<1> DEFINE Inv == AllButOrder /\ OrderInv /\ AckInv
<1>1. AllButOrder /\ OrderInv => Base
  BY DEF Base, OrderInv
<1>2. Init => Inv
  BY AllInit, AckedInit
<1>3. Inv /\ [Next]_vars => Inv'
  BY <1>1, AllStep, AckedStep
<1>4. Inv => AcknowledgedSurvives
  BY <1>1, AlwaysSurvives
<1> QED
  BY <1>2, <1>3, <1>4, PTL DEF Spec

\* And it is read, from a memtable or a table of the version, whatever is flushed or
\* compacted (DBImpl::Get, db_impl.cc:1075): under the same assumption.
THEOREM AcknowledgedIsFound == Tidy => (Spec => []AcknowledgedIsRead)
<1> SUFFICES ASSUME Tidy PROVE Spec => []AcknowledgedIsRead
  OBVIOUS
<1> DEFINE Inv == AllButOrder /\ OrderInv /\ AckInv
<1>1. AllButOrder /\ OrderInv => Base
  BY DEF Base, OrderInv
<1>2. Init => Inv
  BY AllInit, AckedInit
<1>3. Inv /\ [Next]_vars => Inv'
  BY <1>1, AllStep, AckedStep
<1>4. Inv => AcknowledgedIsRead
  BY DEF AckInv, AckedHaveHome, Home, AcknowledgedIsRead
<1> QED
  BY <1>2, <1>3, <1>4, PTL DEF Spec

=============================================================================
