----------------------------- MODULE WriteQueue ------------------------------
(***************************************************************************)
(* How leveldb takes writes (db/db_impl.cc): threads queue in front of the *)
(* log, the first of them writes for those behind it, waits for room in    *)
(* the memtable, and hands over; one background thread turns full          *)
(* memtables into tables and compacts level 0; errors, the end of the      *)
(* process or of the machine, and recovery from the logs.                  *)
(*                                                                         *)
(* An action is a stretch of code under mutex_, or with mutex_ released;   *)
(* "holder" keeps mutex_ for a thread whose stretch is more than one       *)
(* action.  A batch is a number, in the order the batches are queued; keys *)
(* and levels below 0 are LevelDB's subject.  A table is known by the log  *)
(* its batches came from.                                                  *)
(***************************************************************************)
EXTENDS Integers, Sequences, FiniteSets

CONSTANTS
  Writers,      \* threads that write
  MaxCalls,     \* bound: calls
  MemCapacity,  \* batches that fill a memtable (options_.write_buffer_size)
  CompactionTrigger, SlowdownTrigger, StopTrigger,  \* kL0_...: files on level 0
  Faults,       \* the operations on files that can fail
  MaxFaults,    \* bound: failures
  MaxRestarts,  \* bound: ends of the process
  MaxSpurious,  \* bound: wake-ups without a signal
  MaxMishaps,   \* bound: failures and such wake-ups together
  Nil

ASSUME SizesAssumption ==
  {MaxCalls, MemCapacity, CompactionTrigger, SlowdownTrigger, StopTrigger} \subseteq Nat \ {0}
ASSUME TriggersAssumption == CompactionTrigger <= SlowdownTrigger /\ SlowdownTrigger <= StopTrigger
ASSUME FaultsAssumption == Faults \subseteq {"newlog", "append", "sync", "table", "manifest", "recoverLast", "recoverEarlier"}
ASSUME LimitsAssumption == {MaxFaults, MaxRestarts, MaxSpurious, MaxMishaps} \subseteq Nat
ASSUME NilAssumption == Nil \notin Writers \cup {"ok", "error"} \cup Nat

VARIABLES
  queue,      \* writers_
  pc,         \* where each thread is
  op,         \* its call: batch number, options.sync, whether the batch is NULL
  done,       \* the status another thread gave it, or Nil
  woken,      \* waiting threads that have been signalled
  holder,     \* the thread that keeps mutex_ between two actions, or Nil
  force, delay,  \* MakeRoomForWrite's force and allow_delay, of the first writer
  last,       \* last_writer
  outcome,    \* the status of the group
  log,        \* logfile_number_, and the number of mem_
  imm,        \* the number of imm_, or Nil
  mems,       \* log number -> batches in the memtable
  level0,     \* tables on level 0 of the current version
  version,    \* every table of the current version
  logNumber,  \* VersionSet::log_number_: earlier logs are not needed
  bg,         \* the background thread: idle, scheduled, or what it does
  within,     \* CompactMemTable was called by DoCompactionWork
  inputs,     \* the level 0 files that are compacted
  bgError,    \* bg_error_ is set
  shutting,   \* shutting_down_ is set
  opened,     \* a process has the database open
  logs,       \* on disk: log number -> groups (place -> batch), and how many are synced
  tables,     \* on disk: tables, [log, batches]
  manifest,   \* on disk: the tables and the log number that CURRENT leads to
  calls, faults, restarts, spurious,  \* so far
  acked       \* history: batches whose Write returned ok, and whether synced

queueVars == <<queue, op, done, last, force, delay>>
memVars == <<log, imm, mems>>
versionVars == <<level0, version, logNumber>>
bgVars == <<bg, within, inputs>>
diskVars == <<logs, tables, manifest>>
lifeVars == <<shutting, opened, restarts>>
vars == <<queueVars, pc, woken, holder, outcome, memVars, versionVars, bgVars, bgError,
          diskVars, lifeVars, spurious, calls, faults, acked>>

Front == queue[1]
Free == holder = Nil
Waiting == {"queued", "waiting for room", "waiting for flush"}
Runs(w, at) == pc[w] = at /\ (at \in Waiting => w \in woken)

GoTo(w, at) == pc' = [pc EXCEPT ![w] = at]

\* Those that wait on bg_cv_.
OnBackground == {w \in Writers : pc[w] \in {"waiting for room", "waiting for flush"}}

MoreMayHappen == faults + spurious < MaxMishaps
Fails(what) == what \in Faults /\ faults < MaxFaults /\ MoreMayHappen /\ faults' = faults + 1
Works == UNCHANGED faults

\* Mutant: each batch is put before those that are there.
BatchesReversed(q, n) ==
  [i \in {j \in 1..n : ~op[q[n + 1 - j]].null} |-> op[q[n + 1 - i]].batch]

\* The batches of writers q[1] .. q[n], at their places: NULL batches add nothing.
Batches(q, n) == [i \in {j \in 1..n : ~op[q[j]].null} |-> op[q[i]].batch]
Elements(s) == {s[i] : i \in DOMAIN s}

\* MaybeScheduleCompaction, for the values of the next state.
NeedsWork == imm' # Nil \/ Cardinality(level0') >= CompactionTrigger
MaybeSchedule ==
  bg' = IF bg = "idle" /\ ~shutting /\ ~bgError' /\ NeedsWork THEN "scheduled" ELSE bg

-----------------------------------------------------------------------------
(* Write *)

\* Write up to the first wait: a thread that finds the queue empty goes on at once.
Write(w, sync, null) ==
  /\ opened /\ ~shutting /\ pc[w] = "idle" /\ Free /\ calls < MaxCalls
  /\ calls' = calls + 1
  /\ op' = [op EXCEPT ![w] = [batch |-> calls + 1, sync |-> sync, null |-> null]]
  /\ queue' = Append(queue, w)
  /\ IF queue = <<>>
       THEN /\ GoTo(w, "room") /\ holder' = w
            /\ force' = null /\ delay' = ~null
       ELSE GoTo(w, "queued") /\ UNCHANGED <<holder, force, delay>>
  /\ UNCHANGED <<done, last, woken, outcome, memVars, versionVars, bgVars, bgError, diskVars, lifeVars, spurious, faults, acked>>

\* A wait on a condition variable may end without a signal.
Spurious(w) ==
  /\ pc[w] \in Waiting /\ w \notin woken /\ spurious < MaxSpurious /\ MoreMayHappen
  /\ spurious' = spurious + 1
  /\ woken' = woken \cup {w}
  /\ UNCHANGED <<queueVars, pc, holder, outcome, memVars, versionVars, bgVars, bgError, diskVars, lifeVars, calls, faults, acked>>

\* A call returns: to TEST_CompactMemTable, when it was made with a NULL batch.
Return(w, status) ==
  /\ pc' = [pc EXCEPT ![w] = IF op[w].null /\ status = "ok" THEN "flush" ELSE "idle"]
  /\ acked' = IF status = "ok" /\ ~op[w].null
                THEN acked \cup {[batch |-> op[w].batch, sync |-> op[w].sync]} ELSE acked

\* Mutant: a woken writer does not look whether it is the first.
LeadsAnyway(w) == done[w] = Nil

Leads(w) == done[w] = Nil /\ w = Front

\* Woken in Write's loop: done by another, first now, or neither.
WakeUp(w) ==
  /\ Free /\ Runs(w, "queued")
  /\ woken' = woken \ {w}
  /\ \/ /\ done[w] # Nil
        /\ Return(w, done[w])
        /\ done' = [done EXCEPT ![w] = Nil]
        /\ UNCHANGED <<holder, force, delay>>
     \/ /\ Leads(w)
        /\ GoTo(w, "room") /\ holder' = w
        /\ force' = op[w].null /\ delay' = ~op[w].null
        /\ UNCHANGED <<done, acked>>
     \/ done[w] = Nil /\ ~Leads(w) /\ UNCHANGED <<pc, done, acked, holder, force, delay>>
  /\ UNCHANGED <<queue, op, last, outcome, memVars, versionVars, bgVars, bgError, diskVars, lifeVars, spurious, calls, faults>>

-----------------------------------------------------------------------------
(* MakeRoomForWrite: one turn of its loop *)

HasRoom == ~force /\ Cardinality(mems[log]) < MemCapacity
Slow == delay /\ Cardinality(level0) >= SlowdownTrigger

\* Mutant: a sync write joins one that is not.
GroupEndsMixed == 1..Len(queue)

\* BuildBatchGroup: the first writer's batch and those behind it, up to a sync
\* write where the first is not, or as many as the bytes allow: a NULL batch has
\* none and always joins.
GroupEnds ==
  {n \in 1..Len(queue) :
     /\ \A i \in 2..n : op[queue[i]].sync => op[Front].sync
     /\ n < Len(queue) => ~op[queue[n + 1]].null}

RoomError(w) ==
  /\ bgError
  /\ outcome' = "error" /\ last' = w /\ GoTo(w, "finish")
  /\ UNCHANGED <<holder, delay, force, memVars, bg, logs, faults>>

RoomDelay(w) ==
  /\ ~bgError /\ Slow
  /\ delay' = FALSE /\ holder' = Nil /\ GoTo(w, "delayed")
  /\ UNCHANGED <<outcome, last, force, memVars, bg, logs, faults>>

RoomFound(w) ==
  /\ ~bgError /\ ~Slow /\ HasRoom
  /\ \/ /\ op[w].null
        /\ last' = w /\ outcome' = "ok" /\ GoTo(w, "finish") /\ UNCHANGED holder
     \/ /\ ~op[w].null
        /\ \E n \in GroupEnds : last' = queue[n]
        /\ holder' = Nil /\ GoTo(w, "append") /\ UNCHANGED outcome
  /\ UNCHANGED <<delay, force, memVars, bg, logs, faults>>

RoomWait(w) ==
  /\ ~bgError /\ ~Slow /\ ~HasRoom /\ (imm # Nil \/ Cardinality(level0) >= StopTrigger)
  /\ holder' = Nil /\ GoTo(w, "waiting for room")
  /\ UNCHANGED <<outcome, last, delay, force, memVars, bg, logs, faults>>

RoomSwitch(w) ==
  /\ ~bgError /\ ~Slow /\ ~HasRoom /\ imm = Nil /\ Cardinality(level0) < StopTrigger
  /\ \/ /\ Works
        /\ log' = log + 1 /\ imm' = log
        /\ mems' = [n \in {log, log + 1} |-> IF n = log THEN mems[n] ELSE {}]
        /\ logs' = [n \in DOMAIN logs \cup {log + 1} |->
                      IF n = log + 1 THEN [groups |-> <<>>, synced |-> 0] ELSE logs[n]]
        /\ force' = FALSE
        /\ MaybeSchedule
        /\ UNCHANGED <<holder, pc, outcome, last>>
     \/ /\ Fails("newlog")
        /\ outcome' = "error" /\ last' = w /\ GoTo(w, "finish")
        /\ UNCHANGED <<holder, force, memVars, bg, logs>>
  /\ UNCHANGED delay

MakeRoom(w) ==
  /\ holder = w /\ pc[w] = "room"
  /\ UNCHANGED <<queue, op, done, woken, versionVars, within, inputs, bgError, tables, manifest, lifeVars, spurious, calls, acked>>
  /\ RoomError(w) \/ RoomDelay(w) \/ RoomFound(w) \/ RoomWait(w) \/ RoomSwitch(w)

\* The millisecond is over, or bg_cv_ was signalled.
BackInRoom(w) ==
  /\ Free /\ (Runs(w, "delayed") \/ Runs(w, "waiting for room"))
  /\ holder' = w /\ GoTo(w, "room") /\ woken' = woken \ {w}
  /\ UNCHANGED <<queueVars, outcome, memVars, versionVars, bgVars, bgError, diskVars, lifeVars, spurious, calls, faults, acked>>
-----------------------------------------------------------------------------
(* The group goes to the log and to the memtable, with mutex_ released *)

Length == CHOOSE n \in DOMAIN queue : queue[n] = last
Group == Batches(queue, Length)
Torn == <<0>>

\* Mutant: only the first writer's batch is inserted.
InsertFirst(w) ==
  /\ mems' = [mems EXCEPT ![log] = @ \cup {op[w].batch}]
  /\ outcome' = "ok" /\ GoTo(w, "finish")

InsertInto(w) ==
  /\ mems' = [mems EXCEPT ![log] = @ \cup Elements(Group)]
  /\ outcome' = "ok" /\ GoTo(w, "finish")

\* AddRecord.  What a failed one leaves may be a torn record.
AddRecord(w) ==
  /\ pc[w] = "append"
  /\ \/ /\ Works
        /\ logs' = [logs EXCEPT ![log].groups = Append(@, Group)]
        /\ IF op[w].sync
             THEN GoTo(w, "sync") /\ UNCHANGED <<outcome, mems>>
             ELSE InsertInto(w)
     \/ /\ Fails("append")
        /\ logs' \in {logs, [logs EXCEPT ![log].groups = Append(@, Torn)]}
        /\ outcome' = "error" /\ GoTo(w, "finish") /\ UNCHANGED mems
  /\ UNCHANGED <<queueVars, woken, holder, log, imm, versionVars, bgVars, bgError, tables, manifest, lifeVars, spurious, calls, acked>>

Sync(w) ==
  /\ pc[w] = "sync"
  /\ \/ /\ Works
        /\ logs' = [logs EXCEPT ![log].synced = Len(logs[log].groups)]
        /\ InsertInto(w)
     \/ /\ Fails("sync")
        /\ outcome' = "sync error" /\ GoTo(w, "finish") /\ UNCHANGED <<logs, mems>>
  /\ UNCHANGED <<queueVars, woken, holder, log, imm, versionVars, bgVars, bgError, tables, manifest, lifeVars, spurious, calls, acked>>

\* Mutant: the new first writer is not signalled.
NewHeadUnsignalled(rest) == {}

NewHead(rest) == IF rest = <<>> THEN {} ELSE {rest[1]}

\* Mutant: only the first writer leaves the queue.
RestBehindFirst(n) == Tail(queue)

Rest(n) == SubSeq(queue, n + 1, Len(queue))

\* The rest of Write: a failed sync is recorded, the group leaves the queue, and
\* the new first writer is signalled.
Finish(w) ==
  /\ pc[w] = "finish" /\ holder \in {Nil, w}
  /\ holder' = Nil
  /\ LET status == IF outcome = "ok" THEN "ok" ELSE "error"
         members == Elements(SubSeq(queue, 1, Length)) \ {w}
         rest == Rest(Length)
     IN  /\ queue' = rest
         /\ done' = [m \in Writers |-> IF m \in members THEN status ELSE done[m]]
         /\ woken' = woken \cup members
                        \cup NewHead(rest)
                        \cup (IF outcome = "sync error" /\ ~bgError THEN OnBackground ELSE {})
         /\ Return(w, status)
  /\ bgError' = (bgError \/ outcome = "sync error")
  /\ UNCHANGED <<op, last, force, delay, outcome, memVars, versionVars, bgVars, diskVars, lifeVars, spurious, calls, faults>>

\* TEST_CompactMemTable, after its Write: until the memtable is a table.
CompactMemory(w) ==
  /\ Free /\ (Runs(w, "flush") \/ Runs(w, "waiting for flush"))
  /\ woken' = woken \ {w}
  /\ GoTo(w, IF imm # Nil /\ ~bgError THEN "waiting for flush" ELSE "idle")
  /\ UNCHANGED <<queueVars, holder, outcome, memVars, versionVars, bgVars, bgError, diskVars, lifeVars, spurious, calls, faults, acked>>

-----------------------------------------------------------------------------
(* The background thread *)

\* Mutant: an error does not matter.
DeleteAfterError ==
  /\ tables' = tables \cap version'
  /\ logs' = [n \in {m \in DOMAIN logs : m >= logNumber'} |-> logs[n]]

\* DeleteObsoleteFiles: after an error a version may or may not be the one on disk.
DeleteObsoleteFiles ==
  IF bgError'
    THEN UNCHANGED <<logs, tables>>
    ELSE /\ tables' = tables \cap version'
         /\ logs' = [n \in {m \in DOMAIN logs : m >= logNumber'} |-> logs[n]]

\* The end of BackgroundCall.
EndCall ==
  /\ bg' = IF ~shutting /\ ~bgError' /\ NeedsWork THEN "scheduled" ELSE "idle"
  /\ within' = FALSE /\ inputs' = {}
  /\ woken' = woken \cup OnBackground

\* The end of CompactMemTable: DoCompactionWork's loop goes on, whatever happened.
EndFlush ==
  IF within
    THEN /\ bg' = "compact" /\ within' = FALSE
         /\ woken' = woken \cup OnBackground
         /\ UNCHANGED inputs
    ELSE EndCall

\* BackgroundCall and BackgroundCompaction up to the first release of mutex_.
BackgroundCall ==
  /\ Free /\ bg = "scheduled"
  /\ UNCHANGED <<imm, level0, bgError>>
  /\ IF shutting \/ bgError THEN EndCall
     ELSE IF imm # Nil THEN bg' = "table" /\ UNCHANGED <<within, inputs, woken>>
     ELSE /\ bg' = "compact"
          /\ inputs' \in (SUBSET level0) \ {{}}
          /\ UNCHANGED <<within, woken>>
  /\ UNCHANGED <<queueVars, pc, holder, outcome, log, mems, version, logNumber, diskVars, lifeVars, spurious, calls, faults, acked>>

\* DoCompactionWork's loop finds a memtable to compact, and calls CompactMemTable.
CompactWithin ==
  /\ Free /\ bg = "compact" /\ imm # Nil /\ ~shutting
  /\ bg' = "table" /\ within' = TRUE
  /\ UNCHANGED <<queueVars, pc, woken, holder, outcome, memVars, versionVars, inputs, bgError, diskVars, lifeVars, spurious, calls, faults, acked>>

\* BuildTable, with mutex_ released, and CompactMemTable up to LogAndApply.
ImmTable == [log |-> imm, batches |-> mems[imm]]
BuildTable ==
  /\ Free /\ bg = "table"
  /\ \/ Works /\ tables' = tables \cup {ImmTable}
     \/ Fails("table") /\ UNCHANGED tables
  /\ UNCHANGED <<imm, level0>>
  /\ IF faults' = faults /\ ~shutting
       THEN bg' = "manifest" /\ UNCHANGED <<within, inputs, woken, bgError>>
       ELSE bgError' = TRUE /\ EndFlush
  /\ UNCHANGED <<queueVars, pc, holder, outcome, log, mems, version, logNumber, logs, manifest, lifeVars, spurious, calls, acked>>

\* LogAndApply for a flush.  What a failed one leaves may be the whole edit.
InstallFlush ==
  /\ Free /\ bg = "manifest"
  /\ LET installed == [tables |-> manifest.tables \cup {ImmTable}, log |-> log]
     IN  \/ /\ Works
            /\ manifest' = installed
            /\ version' = version \cup {ImmTable} /\ logNumber' = log
            /\ level0' \in {level0, level0 \cup {ImmTable}}
            /\ imm' = Nil /\ mems' = [n \in {log} |-> mems[n]]
            /\ UNCHANGED bgError
            /\ DeleteObsoleteFiles
         \/ /\ Fails("manifest")
            /\ manifest' \in {manifest, installed}
            /\ bgError' = TRUE
            /\ UNCHANGED <<versionVars, imm, mems, logs, tables>>
  /\ EndFlush
  /\ UNCHANGED <<queueVars, pc, holder, outcome, log, lifeVars, spurious, calls, acked>>

\* The loop ends, and InstallCompactionResults, if no shutdown cut the loop short; a
\* single file may have been moved without one.
InstallCompaction ==
  /\ Free /\ bg = "compact"
  /\ LET installed == [tables |-> manifest.tables, log |-> logNumber]
     IN  \/ /\ ~shutting \/ Cardinality(inputs) = 1
            /\ Works
            /\ level0' = level0 \ inputs
            /\ manifest' = installed
            /\ UNCHANGED bgError
         \/ /\ \/ shutting /\ Works /\ UNCHANGED manifest
               \/ Fails("table") /\ UNCHANGED manifest
               \/ Fails("manifest") /\ manifest' \in {manifest, installed}
            /\ bgError' = TRUE /\ UNCHANGED level0
  /\ UNCHANGED <<imm, version, logNumber>>
  /\ DeleteObsoleteFiles
  /\ EndCall
  /\ UNCHANGED <<queueVars, pc, holder, outcome, log, mems, lifeVars, spurious, calls, acked>>

-----------------------------------------------------------------------------
(* Processes end, and begin *)

NoProcess ==
  /\ opened' = FALSE /\ shutting' = FALSE /\ restarts' = restarts + 1
  /\ queue' = <<>> /\ holder' = Nil /\ woken' = {} /\ last' = Nil /\ outcome' = "ok"
  /\ pc' = [w \in Writers |-> "idle"] /\ op' = [w \in Writers |-> Nil]
  /\ done' = [w \in Writers |-> Nil] /\ force' = FALSE /\ delay' = FALSE
  /\ log' = 0 /\ imm' = Nil /\ mems' = [n \in {} |-> {}]
  /\ level0' = {} /\ version' = {} /\ logNumber' = 0
  /\ bg' = "idle" /\ within' = FALSE /\ inputs' = {} /\ bgError' = FALSE
  /\ UNCHANGED <<tables, manifest, spurious, calls, faults>>

\* ~DBImpl waits for the background thread.
Close ==
  /\ opened /\ ~shutting /\ restarts < MaxRestarts /\ \A w \in Writers : pc[w] = "idle"
  /\ shutting' = TRUE
  /\ UNCHANGED <<queueVars, pc, woken, holder, outcome, memVars, versionVars, bgVars, bgError, diskVars, opened, restarts, spurious, calls, faults, acked>>

Closed == shutting /\ bg = "idle" /\ NoProcess /\ UNCHANGED <<logs, acked>>

ProcessEnds == opened /\ restarts < MaxRestarts /\ NoProcess /\ UNCHANGED <<logs, acked>>

\* Of each log any beginning remains that holds what was synced.
MachineEnds ==
  /\ opened /\ restarts < MaxRestarts /\ NoProcess
  /\ \E kept \in [DOMAIN logs -> 0..MaxCalls] :
       /\ \A n \in DOMAIN logs : logs[n].synced <= kept[n] /\ kept[n] <= Len(logs[n].groups)
       /\ logs' = [n \in DOMAIN logs |-> [groups |-> SubSeq(logs[n].groups, 1, kept[n]), synced |-> kept[n]]]
  /\ acked' = {a \in acked : a.sync}

\* What a reader of a log finds: it stops at a torn record.
Readable(groups) ==
  UNION {Elements(groups[i]) : i \in {j \in DOMAIN groups : \A k \in 1..j : groups[k] # Torn}}
NeededIn(disk) == {n \in DOMAIN disk : n >= manifest.log}
NeededLogs == NeededIn(logs)
Full == {n \in NeededLogs : Readable(logs[n].groups) # {}}
LogTable(n) == [log |-> n, batches |-> Readable(logs[n].groups)]
InNeeded(disk) == UNION {Readable(disk[n].groups) : n \in NeededIn(disk)}
InTables == UNION {t.batches : t \in manifest.tables}
Recoverable(disk) == InTables \cup InNeeded(disk)

\* DB::Open and Recover: the needed logs become tables of level 0 and a new log is
\* begun.  Each log sets the status anew, so only the last one's failure is seen.
Open ==
  /\ ~opened
  /\ \E newest \in NeededLogs :
       /\ \A m \in NeededLogs : m <= newest
       /\ log' = newest + 1
       /\ \E failed \in SUBSET (Full \ {newest}) :
            /\ IF failed = {} THEN Works ELSE Fails("recoverEarlier")
            /\ level0' = {LogTable(n) : n \in Full \ failed}
  /\ opened' = TRUE
  /\ version' = manifest.tables \cup level0'
  /\ manifest' = [tables |-> version', log |-> log'] /\ logNumber' = log'
  /\ tables' = version'
  /\ logs' = [n \in {log'} |-> [groups |-> <<>>, synced |-> 0]]
  /\ mems' = [n \in {log'} |-> {}]
  /\ UNCHANGED <<imm, bgError>>
  /\ MaybeSchedule
  /\ UNCHANGED <<queueVars, pc, woken, holder, outcome, within, inputs, shutting, restarts, spurious, calls, acked>>

\* The last log's failure is the status of Open, and the database stays closed.
OpenFails ==
  /\ ~opened /\ Fails("recoverLast")
  /\ \E newest \in Full : \A m \in NeededLogs : m <= newest
  /\ UNCHANGED <<queueVars, pc, woken, holder, outcome, memVars, versionVars, bgVars, bgError, diskVars, lifeVars, spurious, calls, acked>>

-----------------------------------------------------------------------------
\* A database just created and opened.
Init ==
  /\ opened = TRUE /\ shutting = FALSE /\ restarts = 0 /\ calls = 0 /\ faults = 0 /\ spurious = 0
  /\ queue = <<>> /\ holder = Nil /\ woken = {} /\ last = Nil /\ outcome = "ok"
  /\ pc = [w \in Writers |-> "idle"] /\ op = [w \in Writers |-> Nil]
  /\ done = [w \in Writers |-> Nil] /\ force = FALSE /\ delay = FALSE
  /\ log = 1 /\ imm = Nil /\ mems = [n \in {1} |-> {}]
  /\ level0 = {} /\ version = {} /\ logNumber = 1
  /\ bg = "idle" /\ within = FALSE /\ inputs = {} /\ bgError = FALSE
  /\ logs = [n \in {1} |-> [groups |-> <<>>, synced |-> 0]]
  /\ tables = {} /\ manifest = [tables |-> {}, log |-> 1] /\ acked = {}

\* Threads outside any call are alike: one of them makes the next call.
Idle == {w \in Writers : pc[w] = "idle"}
Callers == IF Idle = {} THEN {} ELSE {CHOOSE w \in Idle : TRUE}

Thread(w) ==
  WakeUp(w) \/ MakeRoom(w) \/ BackInRoom(w) \/ AddRecord(w) \/ Sync(w) \/ Finish(w) \/ CompactMemory(w)
Background ==
  BackgroundCall \/ CompactWithin \/ BuildTable \/ InstallFlush \/ InstallCompaction

Next ==
  \/ \E w \in Callers : (\E sync \in BOOLEAN : Write(w, sync, FALSE)) \/ Write(w, FALSE, TRUE)
  \/ \E w \in Writers : Thread(w) \/ Spurious(w)
  \/ Background
  \/ Close \/ Closed \/ ProcessEnds \/ MachineEnds
  \/ Open \/ OpenFails

Spec == Init /\ [][Next]_vars

\* Threads that can run do, and the destructor returns when it can.
FairSpec ==
  Spec /\ (\A w \in Writers : WF_vars(Thread(w))) /\ WF_vars(Background) /\ WF_vars(Closed)

-----------------------------------------------------------------------------
(* Properties *)

Places == {"idle", "queued", "room", "delayed", "waiting for room", "append", "sync",
           "finish", "flush", "waiting for flush"}

\* Every variable keeps its type, the queue holds each unanswered writer once, and
\* mutex_ is kept by the first writer only.
TypeOK ==
  /\ queue \in Seq(Writers) /\ Cardinality(Elements(queue)) = Len(queue)
  /\ Elements(queue) =
       {w \in Writers : pc[w] \notin {"idle", "flush", "waiting for flush"} /\ done[w] = Nil}
  /\ pc \in [Writers -> Places] /\ woken \subseteq Writers
  /\ holder # Nil => queue # <<>> /\ holder = Front
  /\ DOMAIN mems = {log, imm} \ {Nil} \/ ~opened
  /\ level0 \subseteq version
  /\ bg \in {"idle", "scheduled", "table", "manifest", "compact"}
  /\ {within, bgError, shutting, opened} \subseteq BOOLEAN

\* One thread at a time is responsible for the log, and it is the first of the queue
\* ("&w is currently responsible for logging and protects against concurrent
\* loggers", db_impl.cc:1187).
OneLogger ==
  \A w \in Writers : pc[w] \in {"room", "delayed", "waiting for room", "append", "sync", "finish"}
                      => queue # <<>> /\ w = Front

\* What was acknowledged with sync is there after any end of the machine, and what
\* was acknowledged at all after an end of the process (include/leveldb/options.h:175).
SyncedPart == [n \in DOMAIN logs |-> [groups |-> SubSeq(logs[n].groups, 1, logs[n].synced)]]
AcknowledgedSurvives ==
  /\ {a.batch : a \in {b \in acked : b.sync}} \subseteq Recoverable(SyncedPart)
  /\ {a.batch : a \in acked} \subseteq Recoverable(logs)

\* What was acknowledged can be read, whatever is flushed or fails since.
AcknowledgedIsRead ==
  opened => \A a \in acked : \/ \E n \in DOMAIN mems : a.batch \in mems[n]
                             \/ \E t \in version : a.batch \in t.batches

\* The tables that any manifest the disk may lead to names are on disk, as are those
\* that are read.
NeededTablesExist == manifest.tables \cup version \subseteq tables

\* Batches are logged in the order they were queued, each at most once.
LoggedInOrder ==
  /\ \A n \in DOMAIN logs : \A i, j \in DOMAIN logs[n].groups :
       \A k \in DOMAIN logs[n].groups[i], l \in DOMAIN logs[n].groups[j] :
         i < j \/ (i = j /\ k < l) =>
           logs[n].groups[j] = Torn \/ logs[n].groups[i][k] < logs[n].groups[j][l]
  /\ \A m, n \in DOMAIN logs : m < n =>
       \A a \in Readable(logs[m].groups), b \in Readable(logs[n].groups) : a < b

\* Every call returns, and the destructor: nobody sleeps through its signal, and
\* whoever waits for the background thread is answered, after errors too.
EveryCallReturns ==
  /\ \A w \in Writers : pc[w] # "idle" ~> pc[w] = "idle"
  /\ shutting ~> ~shutting
=============================================================================
