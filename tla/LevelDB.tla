------------------------------- MODULE LevelDB -------------------------------
(***************************************************************************)
(* One open leveldb database (db/db_impl.cc over db/version_set.cc): the   *)
(* memtables and their logs, the versions of the table levels, the one     *)
(* background thread that flushes and compacts, snapshots, readers that    *)
(* hold what they read, the deletion of obsolete files, and processes that *)
(* end at any moment and open the database again.                          *)
(*                                                                         *)
(* Every step is one stretch of code under mutex_, or one stretch of work  *)
(* with mutex_ released.  The queue of writers in front of the log is      *)
(* WriteQueue's subject; here a write is one step.                         *)
(***************************************************************************)
EXTENDS VersionSet, Sequences

CONSTANTS
  Keys,          \* user keys, integers in their order
  Inputs,        \* the <<key, type>> that are written
  Handles,       \* snapshots that can be held at once
  Readers,       \* threads that read
  MaxWrites,     \* bound: writes
  MaxNumber,     \* bound: file numbers
  MaxNumberAfter,  \* bound: file numbers once the process has ended
  MaxRestarts,   \* bound: ends of the process
  Nil, NotFound

ASSUME InputsAssumption == Inputs \subseteq Keys \X {"value", "deletion"}
ASSUME KeysAssumption == Keys \subseteq Int /\ IsFiniteSet(Keys)
\* A new database has used the numbers up to 3.
ASSUME BoundsAssumption ==
  /\ {MaxWrites, MaxNumber, MaxNumberAfter, MaxRestarts} \subseteq Nat
  /\ MaxNumberAfter <= MaxNumber /\ 3 <= MaxNumber

\* What is left of a version edit while LogAndApply writes it: what it is for, and
\* its log number.
Edit == [kind : {"flush", "move", "compaction"}, log : Nat]
ASSUME NilAssumption == Nil \notin Int /\ Nil \notin Edit /\ NotFound \notin Int /\ Nil # NotFound

VARIABLES
  opened,      \* the database is open in a process
  lastSeq,     \* VersionSet::LastSequence
  buffers,     \* log number -> entries in that log file, and in the memtable beside it
  mem,         \* the log number of mem_ and log_
  imm,         \* the log number of imm_, or Nil
  current,     \* the current version
  nextFile,    \* next_file_number_
  pending,     \* pending_outputs_
  compact,     \* the compaction whose loop runs, or Nil
  edit,        \* what the version edit in LogAndApply is for, and its log number, or Nil
  snaps,       \* snapshot handle -> sequence number, or Nil
  reads,       \* reader -> what its Get holds, or Nil
  manifest,    \* on disk, what CURRENT leads to: version, log number, next file
  logFiles,    \* on disk: numbers of log files
  tables,      \* on disk: numbers of table files
  restarts,    \* ends of the process so far
  written,     \* history: the writes, in order
  split        \* history: the keys inside which an output of a compaction has ended

diskVars == <<manifest, logFiles, tables>>
bgVars == <<compact, edit, pending>>
clientVars == <<snaps, reads>>
memVars == <<lastSeq, buffers, mem, imm>>
vars == <<opened, lastSeq, buffers, mem, imm, current, nextFile, pending, compact,
          edit, snaps, reads, manifest, logFiles, tables, restarts, written, split>>

NumberLimit == IF restarts = 0 THEN MaxNumber ELSE MaxNumberAfter
EmptyVersion == [level \in Levels |-> {}]
Held(r) == reads[r] # Nil

\* The versions that readers and a compaction refer to.
Pinned(compaction) ==
  {reads[r].version : r \in {s \in Readers : Held(s)}}
    \cup (IF compaction = Nil THEN {} ELSE {compaction.version})

WithBuffer(logs, log) == [n \in logs \cup {log} |-> IF n = log THEN {} ELSE buffers[n]]

\* A memtable goes with its last reference, a log when it is deleted.
FreeBuffers ==
  buffers' = [n \in DOMAIN buffers \cap
                ({mem', imm'} \cup logFiles' \cup UNION {{reads'[r].mem, reads'[r].imm} : r \in {s \in Readers : reads'[s] # Nil}})
              |-> buffers[n]]

\* Mutant: only the current version is live.
DeleteAllButCurrent(outputs, versions, log) ==
  /\ tables' = tables \cap (outputs \cup Numbers(Files(current')))
  /\ logFiles' = {n \in logFiles : n >= log}

\* DeleteObsoleteFiles and AddLiveFiles: tables of live versions and pending
\* outputs stay, and logs from the version set's log number on.
DeleteObsoleteFiles(outputs, versions, log) ==
  /\ tables' = tables \cap (outputs \cup UNION {Numbers(Files(v)) : v \in versions})
  /\ logFiles' = {n \in logFiles : n >= log}

-----------------------------------------------------------------------------
(* Callers *)

\* Write: to the log and to the memtable.
Write(key, type) ==
  /\ opened /\ lastSeq < MaxWrites
  /\ lastSeq' = lastSeq + 1
  /\ buffers' = [buffers EXCEPT ![mem] = @ \cup {[key |-> key, seq |-> lastSeq + 1, type |-> type]}]
  /\ written' = Append(written, [key |-> key, type |-> type])
  /\ UNCHANGED <<opened, mem, imm, current, nextFile, bgVars, clientVars, diskVars, restarts, split>>

\* MakeRoomForWrite: the memtable is full (or CompactRange asks) and the one
\* before it is flushed.
SwitchMemTable ==
  /\ opened /\ imm = Nil /\ buffers[mem] # {} /\ nextFile <= NumberLimit
  /\ imm' = mem
  /\ mem' = nextFile
  /\ buffers' = WithBuffer(DOMAIN buffers, nextFile)
  /\ logFiles' = logFiles \cup {nextFile}
  /\ nextFile' = nextFile + 1
  /\ UNCHANGED <<opened, lastSeq, current, bgVars, clientVars, manifest, tables, restarts, written, split>>

GetSnapshot(h) ==
  /\ opened /\ snaps[h] = Nil
  /\ snaps' = [snaps EXCEPT ![h] = lastSeq]
  /\ UNCHANGED <<opened, memVars, current, nextFile, bgVars, reads, diskVars, restarts, written, split>>

ReleaseSnapshot(h) ==
  /\ opened /\ snaps[h] # Nil
  /\ snaps' = [snaps EXCEPT ![h] = Nil]
  /\ UNCHANGED <<opened, memVars, current, nextFile, bgVars, reads, diskVars, restarts, written, split>>

\* NewInternalIterator, and Get up to the release of mutex_: the memtables and the
\* version of this moment are referenced, to be read as of now or at a snapshot.
Snapshots == {snaps[h] : h \in {g \in Handles : snaps[g] # Nil}}
NewIterator(r) ==
  /\ opened /\ ~Held(r)
  /\ reads' = [reads EXCEPT ![r] =
       [seqs |-> {lastSeq} \cup Snapshots, mem |-> mem, imm |-> imm, version |-> current]]
  /\ UNCHANGED <<opened, memVars, current, nextFile, bgVars, snaps, diskVars, restarts, written, split>>

\* CleanupIteratorState, and the end of Get.
ReleaseIterator(r) ==
  /\ opened /\ Held(r)
  /\ reads' = [reads EXCEPT ![r] = Nil]
  /\ UNCHANGED <<opened, lastSeq, mem, imm, current, nextFile, bgVars, snaps, diskVars, restarts, written, split>>
  /\ FreeBuffers

\* What a read of every key finds, with mutex_ released: in the memtable, in the
\* one before it, or in the tables.
Found(read, target) ==
  LET inMem == Seek(buffers[read.mem], target)
      inImm == IF read.imm = Nil THEN {} ELSE Seek(buffers[read.imm], target)
  IN  IF inMem # {} THEN inMem
      ELSE IF inImm # {} THEN inImm
      ELSE VersionGet(read.version, target)
Answer(entries) ==
  IF \E e \in entries : e.type = "value" THEN (CHOOSE e \in entries : TRUE).seq ELSE NotFound
Contents(read, seq) == [key \in Keys |-> Answer(Found(read, [key |-> key, seq |-> seq]))]

-----------------------------------------------------------------------------
(* The background thread *)

\* LogAndApply up to the release of mutex_, and the manifest written and synced.
LogAndApply(e, next) ==
  /\ edit' = [kind |-> e.kind, log |-> e.log]
  /\ manifest' = [version |-> Apply(current, e), log |-> e.log, next |-> next, last |-> lastSeq]

\* The input of a compaction's loop from its place on.
Remaining(compaction) ==
  {e \in Entries(compaction.inputs[1] \cup compaction.inputs[2]) :
     \A o \in Entries(compaction.outputs) : Before(o, e)}

\* CompactMemTable: imm_ becomes a table, on a level chosen from the version of this
\* moment, and the logs before that of mem_ are no longer needed.  The loop of a
\* compaction does this as well.
Flush ==
  /\ opened /\ edit = Nil /\ imm # Nil /\ nextFile <= NumberLimit
  /\ compact # Nil => Remaining(compact) # {}
  /\ nextFile' = nextFile + 1
  /\ tables' = tables \cup {nextFile}
  /\ LET file == [number |-> nextFile, entries |-> buffers[imm]]
     IN  \E level \in PickLevelForMemTableOutput(current, Lo({file}), Hi({file})) :
           LogAndApply([kind |-> "flush", deleted |-> {}, added |-> {<<level, file>>}, log |-> mem], nextFile + 1)
  /\ UNCHANGED <<opened, memVars, current, pending, compact, clientVars, logFiles, restarts, written, split>>

Moves(level, inputs) ==
  LogAndApply([kind |-> "move", deleted |-> {<<level, f.number>> : f \in inputs[1]},
               added |-> {<<level + 1, f>> : f \in inputs[1]}, log |-> manifest.log], nextFile)

\* DoCompactionWork up to the release of mutex_, with what its loop will keep.
Starts(level, inputs) ==
  LET smallest == IF Snapshots = {} THEN lastSeq ELSE CHOOSE s \in Snapshots : \A t \in Snapshots : s <= t
  IN  compact' = [level |-> level, inputs |-> inputs, version |-> current, outputs |-> {},
                  todo |-> Kept(current, level, Entries(inputs[1] \cup inputs[2]), smallest)]

\* BackgroundCompaction: a level is too large or a file was searched in vain too
\* often.  A single file moves down unless it overlaps much two levels below.
AutomaticCompaction(level) ==
  /\ opened /\ edit = Nil /\ compact = Nil /\ imm = Nil
  /\ \E f \in current[level] : \E inputs \in PickCompaction(current, level, f) :
       \/ IsTrivialMove(inputs) /\ Moves(level, inputs) /\ UNCHANGED compact
       \/ /\ \/ ~IsTrivialMove(inputs)
             \/ level + 2 < NumLevels
                  /\ GetOverlappingInputs(current, level + 2, Lo(inputs[1]), Hi(inputs[1])) # {}
          /\ Starts(level, inputs) /\ UNCHANGED <<edit, manifest>>
  /\ UNCHANGED <<opened, memVars, current, nextFile, pending, clientVars, logFiles, tables, restarts, written, split>>

\* BackgroundCompaction for CompactRange(begin, end).
ManualCompaction(level, begin, end) ==
  /\ opened /\ edit = Nil /\ compact = Nil /\ imm = Nil
  /\ \E inputs \in CompactRange(current, level, begin, end) : Starts(level, inputs)
  /\ UNCHANGED <<opened, memVars, current, nextFile, pending, edit, clientVars, diskVars, restarts, written, split>>

\* Open- and FinishCompactionOutputFile: an output takes the entries up to
\* "last"; where it ends depends on bytes, and may be between two entries of a key
\* that snapshots keep.
WriteOutput(last) ==
  /\ opened /\ edit = Nil /\ compact # Nil /\ nextFile <= NumberLimit
  /\ last \in compact.todo
  /\ LET taken == {e \in compact.todo : e = last \/ Before(e, last)}
     IN  /\ split' = split \cup {e.key : e \in {o \in compact.todo \ taken : o.key = last.key}}
         /\ compact' = [level |-> compact.level, inputs |-> compact.inputs, version |-> compact.version,
              outputs |-> compact.outputs \cup {[number |-> nextFile, entries |-> taken]},
              todo |-> compact.todo \ taken]
  /\ pending' = pending \cup {nextFile}
  /\ tables' = tables \cup {nextFile}
  /\ nextFile' = nextFile + 1
  /\ UNCHANGED <<opened, memVars, current, edit, clientVars, manifest, logFiles, restarts, written>>

\* InstallCompactionResults
FinishCompaction ==
  /\ opened /\ edit = Nil /\ compact # Nil /\ compact.todo = {}
  /\ LogAndApply([kind |-> "compaction",
       deleted |-> {<<compact.level, f.number>> : f \in compact.inputs[1]}
                     \cup {<<compact.level + 1, f.number>> : f \in compact.inputs[2]},
       added |-> {<<compact.level + 1, f>> : f \in compact.outputs}, log |-> manifest.log], nextFile)
  /\ UNCHANGED <<opened, memVars, current, nextFile, pending, compact, clientVars, logFiles, tables, restarts, written, split>>

\* LogAndApply, under mutex_ again: the version is installed, and what led here
\* is completed: a flush gives up imm_, a compaction its inputs.  Both delete
\* obsolete files.
InstallEdit ==
  /\ opened /\ edit # Nil
  /\ current' = manifest.version
  /\ edit' = Nil
  /\ imm' = IF edit.kind = "flush" THEN Nil ELSE imm
  /\ compact' = IF edit.kind = "compaction" THEN Nil ELSE compact
  /\ pending' = IF edit.kind = "compaction" THEN {} ELSE pending
  /\ IF edit.kind = "move"
       THEN UNCHANGED <<tables, logFiles>>
       ELSE DeleteObsoleteFiles(pending', {current'} \cup Pinned(compact'), edit.log)
  /\ UNCHANGED <<opened, lastSeq, mem, nextFile, clientVars, manifest, restarts, written, split>>
  /\ FreeBuffers

-----------------------------------------------------------------------------
(* Processes end, and begin *)

End ==
  /\ opened /\ restarts < MaxRestarts
  /\ opened' = FALSE /\ restarts' = restarts + 1
  /\ lastSeq' = 0 /\ mem' = Nil /\ imm' = Nil /\ compact' = Nil /\ edit' = Nil /\ pending' = {}
  /\ current' = EmptyVersion /\ nextFile' = 0
  /\ snaps' = [h \in Handles |-> Nil] /\ reads' = [r \in Readers |-> Nil]
  /\ UNCHANGED <<diskVars, written, split>>
  /\ FreeBuffers

\* The logs that the manifest still needs.
NeededLogs == {n \in logFiles : n >= manifest.log}

\* DB::Open and Recover: every log the manifest still needs becomes a table of
\* level 0, in order, and a new log is begun.  A log's number is marked as used
\* when the log has been read.
Fresh(limit) ==
  LET filled(from) == Cardinality({n \in NeededLogs : from < n /\ n < limit /\ buffers[n] # {}})
      marks == {manifest.next + 1 + filled(-1)}
                 \cup {m + 1 + filled(m) : m \in {n \in NeededLogs : n < limit}}
  IN  CHOOSE n \in marks : \A m \in marks : m <= n

\* Mutant: the numbers that recovery gives to its tables can be given again.
RecoveredUncounted ==
  LET full == {n \in NeededLogs : buffers[n] # {}}
      log == Fresh(MaxNumber + 1)
      seqs == {manifest.last} \cup {e.seq : e \in UNION {buffers[n] : n \in full}}
  IN  [log |-> log, next |-> manifest.next, last |-> CHOOSE s \in seqs : \A t \in seqs : t <= s,
       version |-> [manifest.version EXCEPT
         ![0] = @ \cup {[number |-> Fresh(n), entries |-> buffers[n]] : n \in full}]]

Recovered ==
  LET full == {n \in NeededLogs : buffers[n] # {}}
      log == Fresh(MaxNumber + 1)
      seqs == {manifest.last} \cup {e.seq : e \in UNION {buffers[n] : n \in full}}
  IN  [log |-> log, next |-> log + 1, last |-> CHOOSE s \in seqs : \A t \in seqs : t <= s,
       version |-> [manifest.version EXCEPT
         ![0] = @ \cup {[number |-> Fresh(n), entries |-> buffers[n]] : n \in full}]]

Open ==
  /\ ~opened /\ Recovered.log \in 1..NumberLimit
  /\ opened' = TRUE
  /\ manifest' = Recovered
  /\ current' = Recovered.version
  /\ mem' = Recovered.log /\ imm' = Nil
  /\ buffers' = WithBuffer({}, Recovered.log)
  /\ lastSeq' = Recovered.last
  /\ nextFile' = Recovered.next
  /\ tables' = Numbers(Files(Recovered.version))
  /\ logFiles' = {Recovered.log}
  /\ UNCHANGED <<bgVars, clientVars, restarts, written, split>>

\* The process ends before CURRENT names the new manifest, or before the obsolete
\* files are deleted.
OpenIsCut ==
  /\ ~opened /\ restarts < MaxRestarts /\ Recovered.log \in 1..NumberLimit
  /\ restarts' = restarts + 1
  /\ tables' = tables \cup Numbers(Files(Recovered.version))
  /\ logFiles' = logFiles \cup {Recovered.log}
  /\ buffers' = WithBuffer(logFiles, Recovered.log)
  /\ manifest' \in {manifest, Recovered}
  /\ UNCHANGED <<opened, lastSeq, mem, imm, current, nextFile, bgVars, clientVars, written, split>>

-----------------------------------------------------------------------------
\* A database just created and opened.
Init ==
  /\ opened = TRUE /\ lastSeq = 0 /\ mem = 3 /\ imm = Nil
  /\ buffers = [n \in {3} |-> {}]
  /\ current = EmptyVersion /\ nextFile = 4 /\ pending = {} /\ compact = Nil /\ edit = Nil
  /\ snaps = [h \in Handles |-> Nil] /\ reads = [r \in Readers |-> Nil]
  /\ manifest = [version |-> EmptyVersion, log |-> 3, next |-> 4, last |-> 0]
  /\ logFiles = {3} /\ tables = {} /\ restarts = 0 /\ written = <<>> /\ split = {}

Next ==
  \/ \E input \in Inputs : Write(input[1], input[2])
  \/ SwitchMemTable
  \/ \E h \in Handles : GetSnapshot(h) \/ ReleaseSnapshot(h)
  \/ \E r \in Readers : NewIterator(r) \/ ReleaseIterator(r)
  \/ Flush \/ InstallEdit \/ FinishCompaction
  \/ \E level \in 0..NumLevels - 2 : AutomaticCompaction(level)
  \/ compact # Nil /\ \E last \in compact.todo : WriteOutput(last)
  \/ End \/ Open \/ OpenIsCut

Spec == Init /\ [][Next]_vars

\* The same where the application calls CompactRange too.
ManualNext ==
  \/ Next
  \/ \E level \in 0..NumLevels - 2 : \E begin, end \in Keys : ManualCompaction(level, begin, end)
ManualSpec == Init /\ [][ManualNext]_vars

-----------------------------------------------------------------------------
(* Properties *)

Entry == [key : Keys, seq : 1..MaxWrites, type : {"value", "deletion"}]
File == [number : 1..MaxNumber, entries : SUBSET Entry]

\* Every variable keeps its type.
TypeOK ==
  /\ {opened} \subseteq BOOLEAN /\ lastSeq \in 0..MaxWrites
  /\ \A n \in DOMAIN buffers : buffers[n] \subseteq Entry
  /\ {mem, imm} \subseteq DOMAIN buffers \cup {Nil}
  /\ DOMAIN current = Levels /\ \A f \in Files(current) : f \in File
  /\ pending \subseteq tables /\ tables \subseteq 1..MaxNumber /\ logFiles \subseteq DOMAIN buffers
  /\ \A h \in Handles : snaps[h] \in 0..MaxWrites \cup {Nil}

\* The files of a level past 0 do not overlap ("Make sure there is no overlap in
\* levels > 0", version_set.cc:733): the binary search of every read rests on it.
LevelsAreSorted ==
  \A level \in 1..NumLevels - 1 : \A f, g \in manifest.version[level] :
    f = g \/ Before(Largest(f), Smallest(g)) \/ Before(Largest(g), Smallest(f))

\* An entry never lies above a newer one of its key: "if we find data in an smaller
\* level, later levels are irrelevant" (version_set.cc:339).  This holds of every key
\* inside which no output has ended, whatever has become of the others.
UpperNewerOf(keys) ==
  \A upper, lower \in Levels : upper < lower =>
    \A e \in Entries(manifest.version[upper]), o \in Entries(manifest.version[lower]) :
      e.key = o.key /\ e.key \in keys => e.seq > o.seq
UpperIsNewer == UpperNewerOf(Keys \ split)

\* What CURRENT leads to, what is being read, compacted or written, and the logs
\* a recovery would need are on disk, whatever has been deleted as obsolete.
NeededFilesExist ==
  /\ UNION {Numbers(Files(v)) : v \in {manifest.version} \cup Pinned(compact)} \subseteq tables
  /\ opened => Numbers(Files(current)) \cup pending \subseteq tables
  /\ {manifest.log} \cup (IF opened THEN {mem} ELSE {}) \subseteq logFiles
  /\ imm # Nil /\ imm >= manifest.log => imm \in logFiles

\* A number is given to one table only, for as long as the table is needed: a
\* table cache that holds it by number is never wrong.
NumbersAreUnique ==
  LET files == (UNION {Files(v) : v \in {manifest.version, current} \cup Pinned(compact)})
                 \cup (IF compact = Nil THEN {} ELSE compact.outputs)
  IN  \A f, g \in files : f.number = g.number => f = g

\* Whatever is flushed, moved, merged, dropped or deleted, and whenever the process
\* ends: the store holds the last write of each key, a snapshot and an iterator
\* what was there when they were made, and recovery brings every write back; for
\* every key inside which no output has ended.
StoreAt(seq) ==
  LET of(key) == {n \in 1..seq : written[n].key = key}
      last(key) == CHOOSE n \in of(key) : \A m \in of(key) : m <= n
  IN  [key \in Keys |->
         IF of(key) = {} \/ written[last(key)].type = "deletion" THEN NotFound ELSE last(key)]
Now == [mem |-> mem, imm |-> imm, version |-> current]
Agree(contents, seq, keys) == \A key \in keys : contents[key] = StoreAt(seq)[key]
RightCopies(keys) ==
  /\ opened =>
       /\ lastSeq = Len(written)
       /\ \A seq \in {lastSeq} \cup Snapshots : Agree(Contents(Now, seq), seq, keys)
       /\ \A r \in Readers : Held(r) =>
            \A seq \in reads[r].seqs : Agree(Contents(reads[r], seq), seq, keys)
  /\ ~opened =>
       /\ Recovered.last = Len(written)
       /\ \A key \in keys :
            Answer(VersionGet(Recovered.version, [key |-> key, seq |-> Len(written)]))
              = StoreAt(Len(written))[key]
CopiesAreRight == RightCopies(Keys \ split)

-----------------------------------------------------------------------------
(* What the comments say and the code does not do *)

\* version_set.cc:337 says it of every key.
EveryUpperIsNewer == UpperNewerOf(Keys)

\* README.md:11 of leveldb, "Users can create a transient snapshot to get a
\* consistent view of data.": every read, at a snapshot or not, is right.
EveryCopyIsRight == RightCopies(Keys)
=============================================================================
