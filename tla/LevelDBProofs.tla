---------------------------- MODULE LevelDBProofs ----------------------------
(***************************************************************************)
(* For any entries and any snapshots: what the loop of a compaction drops  *)
(* is never what a reader would have found.  For any keys, levels, readers *)
(* and ends of the process: no file that is needed is deleted, no two      *)
(* tables in use have one number, the tables of a level past 0 stay apart  *)
(* and in order, and (unless outputs end inside a user key) what lies on   *)
(* a lower level is older, and every reader and every snapshot finds what  *)
(* was written up to its sequence number.                                  *)
(***************************************************************************)
EXTENDS LevelDB, FiniteSetTheorems, NaturalsInduction, WellFoundedInduction, TLAPS

-----------------------------------------------------------------------------
(* What a compaction keeps *)

IsEntries(entries) ==
  /\ \A e \in entries : e.key \in Int /\ e.seq \in Nat
  /\ \A e, o \in entries : e.key = o.key /\ e.seq = o.seq => e = o

\* The entries a reader of a key at a sequence number may see.
Visible(entries, target) == {e \in entries : e.key = target.key /\ e.seq <= target.seq}
IsNewest(e, entries, target) ==
  /\ e \in Visible(entries, target)
  /\ \A o \in Visible(entries, target) : o.seq <= e.seq

\* A seek finds the newest entry that is visible, and nothing when none is.
LEMMA SeekFindsNewest ==
  ASSUME NEW entries, IsEntries(entries), NEW target, NEW e, IsNewest(e, entries, target)
  PROVE  Seek(entries, target) = {e}
<1>1. e \in Visible(entries, target) /\ Visible(entries, target) \subseteq entries
  BY DEF IsNewest, Visible
<1>2. \A x \in Visible(entries, target) : x = e \/ Before(e, x)
  BY <1>1 DEF IsNewest, Visible, IsEntries, Before
<1>3. \A f \in Visible(entries, target) :
        (\A x \in Visible(entries, target) : x = f \/ Before(f, x)) => f = e
  BY <1>1 DEF IsNewest, Visible, IsEntries, Before
<1>4. First(Visible(entries, target)) = e
  BY <1>1, <1>2, <1>3 DEF First
<1> QED
  BY <1>1, <1>4 DEF Seek, Visible

\* And when none is visible it finds nothing.
LEMMA SeekFindsNothing ==
  ASSUME NEW entries, NEW target, Visible(entries, target) = {}
  PROVE  Seek(entries, target) = {}
BY DEF Seek, Visible

\* The loop of DoCompactionWork (db_impl.cc:884): a reader at any sequence number
\* from the smallest snapshot on finds in what is kept what it finds in what was
\* compacted, or it finds nothing where it found a deletion of a key with no data
\* below.
THEOREM CompactionKeepsViews ==
  ASSUME NEW version, NEW level, NEW entries, IsEntries(entries),
         NEW smallestSnapshot \in Nat, NEW target, target.seq \in Nat,
         smallestSnapshot <= target.seq,
         Visible(entries, target) = {} \/ \E e \in entries : IsNewest(e, entries, target)
  PROVE  LET kept == Kept(version, level, entries, smallestSnapshot)
         IN  \/ Seek(kept, target) = Seek(entries, target)
             \/ /\ Seek(kept, target) = {}
                /\ \E e \in Seek(entries, target) : e.type = "deletion"
                /\ IsBaseLevelForKey(version, level, target.key)
<1> DEFINE kept == Kept(version, level, entries, smallestSnapshot)
<1>1. kept \subseteq entries /\ IsEntries(kept)
  BY DEF Kept, IsEntries
<1>2. Visible(kept, target) \subseteq Visible(entries, target)
  BY <1>1 DEF Visible
<1>3. CASE Visible(entries, target) = {}
  BY <1>2, <1>3, SeekFindsNothing
<1>4. ASSUME NEW e \in entries, IsNewest(e, entries, target)
      PROVE  \/ Seek(kept, target) = Seek(entries, target)
             \/ /\ Seek(kept, target) = {}
                /\ \E x \in Seek(entries, target) : x.type = "deletion"
                /\ IsBaseLevelForKey(version, level, target.key)
  <2>1. Seek(entries, target) = {e}
    BY <1>4, SeekFindsNewest
  <2>2. CASE e \in kept
    <3>1. IsNewest(e, kept, target)
      BY <1>2, <1>4, <2>2 DEF IsNewest, Visible
    <3>2. Seek(kept, target) = {e}
      BY <1>1, <3>1, SeekFindsNewest
    <3> QED
      BY <2>1, <3>2
  <2>3. CASE e \notin kept
    <3>1. /\ e.key = target.key /\ e.key \in Int /\ e.seq \in Nat /\ e.seq <= target.seq
          /\ \A o \in entries : o.key = target.key /\ o.seq <= target.seq => o.seq <= e.seq
      BY <1>4 DEF IsNewest, Visible, IsEntries
    <3>2. \A newer \in entries :
            ~(newer.key = e.key /\ newer.seq > e.seq /\ newer.seq <= smallestSnapshot)
      BY <3>1 DEF IsEntries
    <3>3. /\ e.type = "deletion" /\ e.seq <= smallestSnapshot
          /\ IsBaseLevelForKey(version, level, e.key)
      BY <2>3, <3>2 DEF Kept
    <3>4. ASSUME NEW o \in Visible(kept, target) PROVE FALSE
      <4>1. o \in entries /\ o.key = e.key /\ o.seq \in Nat /\ o.seq <= e.seq /\ o # e
        BY <1>1, <2>3, <3>1, <3>4 DEF Visible, IsEntries
      <4>2. o.seq < e.seq
        BY <3>1, <4>1 DEF IsEntries
      <4>3. \E newer \in entries :
              newer.key = o.key /\ newer.seq > o.seq /\ newer.seq <= smallestSnapshot
        BY <3>1, <3>3, <4>1, <4>2
      <4> QED
        BY <3>4, <4>3 DEF Visible, Kept
    <3>5. Seek(kept, target) = {}
      BY <3>4, SeekFindsNothing
    <3> QED
      BY <2>1, <3>1, <3>3, <3>5
  <2> QED
    BY <2>2, <2>3
<1> QED
  BY <1>3, <1>4

-----------------------------------------------------------------------------
(* Files that are needed *)

\* While the database is open, what a compaction has written is protected, an edit
\* on its way has the log number of the manifest, and numbers only grow.
OpenShape ==
  opened =>
    /\ compact # Nil => Numbers(compact.outputs) \subseteq pending
    /\ edit # Nil => edit.log = manifest.log
    /\ mem \in Nat /\ nextFile \in Nat /\ manifest.log <= mem /\ mem < nextFile
    /\ imm # Nil => imm \in Nat

\* A process that has ended holds nothing.
ClosedShape ==
  ~opened => compact = Nil /\ edit = Nil /\ imm = Nil /\ pending = {} /\ \A r \in Readers : ~Held(r)

FilesInv ==
  /\ NeededFilesExist /\ OpenShape /\ ClosedShape
  /\ manifest.log \in Nat /\ opened \in BOOLEAN /\ DOMAIN reads = Readers

LEMMA NumbersOfUnion ==
  ASSUME NEW A, NEW B
  PROVE  Numbers(A \cup B) = Numbers(A) \cup Numbers(B)
BY DEF Numbers

LEMMA NumbersOfSubset ==
  ASSUME NEW A, NEW B, A \subseteq B
  PROVE  Numbers(A) \subseteq Numbers(B)
BY DEF Numbers

\* A new version has the files of the one before and those its edit adds.
LEMMA ApplyFiles ==
  ASSUME NEW version, NEW e, NEW added, \A a \in e.added : a[2] \in added
  PROVE  Numbers(Files(Apply(version, e))) \subseteq Numbers(Files(version)) \cup Numbers(added)
<1>1. \A level \in Levels : Apply(version, e)[level] \subseteq version[level] \cup added
  BY DEF Apply
<1>2. Files(Apply(version, e)) \subseteq Files(version) \cup added
  BY <1>1 DEF Files
<1> QED
  BY <1>2, NumbersOfUnion, NumbersOfSubset

\* What a compaction takes from its level are files of that level.
LEMMA InputsAreFiles ==
  ASSUME NEW version, NEW level \in Levels, NEW f \in version[level],
         NEW inputs \in PickCompaction(version, level, f)
  PROVE  inputs[1] \subseteq Files(version)
<1>1. \A lo, hi : GetOverlappingInputs(version, level, lo, hi) \subseteq version[level]
  BY DEF GetOverlappingInputs
<1>2. PICK first \in SUBSET version[level] : inputs \in SetupOtherInputs(version, level, first)
  <2>1. CASE level = 0
    BY <1>1, <2>1 DEF PickCompaction
  <2>2. CASE level # 0
    BY <2>2 DEF PickCompaction
  <2> QED
    BY <2>1, <2>2
<1>3. inputs[1] \subseteq version[level]
  BY <1>1, <1>2 DEF SetupOtherInputs
<1> QED
  BY <1>3 DEF Files

LEMMA InitIsSafe == Init => FilesInv
<1> SUFFICES ASSUME Init PROVE FilesInv
  OBVIOUS
<1>1. Numbers(Files(EmptyVersion)) = {}
  BY DEF Files, EmptyVersion, Numbers
<1>2. \A r \in Readers : ~Held(r)
  BY DEF Init, Held
<1>3. manifest.version = EmptyVersion /\ manifest.log = 3 /\ current = EmptyVersion
  BY DEF Init
<1>4. Pinned(compact) = {}
  BY <1>2 DEF Pinned, Init
<1>5. UNION {Numbers(Files(v)) : v \in {manifest.version} \cup Pinned(compact)} = {}
  BY <1>1, <1>3, <1>4
<1>6. NeededFilesExist
  BY <1>1, <1>3, <1>5 DEF Init, NeededFilesExist
<1>7. OpenShape /\ ClosedShape
  BY <1>3 DEF Init, OpenShape, ClosedShape
<1> QED
  BY <1>3, <1>6, <1>7 DEF Init, FilesInv

\* The tables of every version that is on disk, being read or being compacted.
LEMMA NeededTables ==
  ASSUME FilesInv, NEW v \in {manifest.version} \cup Pinned(compact)
  PROVE  Numbers(Files(v)) \subseteq tables
BY DEF FilesInv, NeededFilesExist

\* A step of the open database that deletes nothing.
LEMMA NothingDeleted ==
  ASSUME FilesInv, opened, opened', current' = current, DOMAIN reads' = Readers,
         tables \subseteq tables', logFiles \subseteq logFiles', pending' \subseteq tables',
         \A v \in Pinned(compact)' : v \in Pinned(compact) \cup {current},
         Numbers(Files(manifest'.version)) \subseteq tables',
         manifest'.log \in Nat, mem' \in logFiles', manifest'.log \in logFiles',
         imm' # Nil /\ imm' >= manifest'.log => imm' \in logFiles',
         opened' \in BOOLEAN, OpenShape'
  PROVE  FilesInv'
<1>1. Numbers(Files(current)) \subseteq tables
  BY DEF FilesInv, NeededFilesExist
<1>2. \A v \in {manifest'.version} \cup Pinned(compact)' : Numbers(Files(v)) \subseteq tables'
  BY <1>1, NeededTables
<1>3. UNION {Numbers(Files(v)) : v \in {manifest'.version} \cup Pinned(compact)'} \subseteq tables'
  BY <1>2
<1>4. NeededFilesExist'
  BY <1>1, <1>3 DEF NeededFilesExist
<1> QED
  BY <1>4 DEF FilesInv, ClosedShape

\* What is there before such a step.
LEMMA OpenFacts ==
  ASSUME FilesInv, opened
  PROVE  /\ Numbers(Files(manifest.version)) \subseteq tables
         /\ Numbers(Files(current)) \subseteq tables
         /\ pending \subseteq tables /\ mem \in logFiles /\ manifest.log \in logFiles
         /\ imm # Nil /\ imm >= manifest.log => imm \in logFiles
         /\ OpenShape /\ manifest.log \in Nat /\ DOMAIN reads = Readers /\ opened \in BOOLEAN
BY NeededTables DEF FilesInv, NeededFilesExist

\* Writes, snapshots and readers: only what is read changes.
LEMMA ClientsKeep ==
  ASSUME FilesInv, opened, DOMAIN reads' = Readers,
         \A r \in Readers : reads'[r] # Nil /\ reads'[r] # reads[r] => reads'[r].version = current,
         UNCHANGED <<opened, mem, imm, current, nextFile, bgVars, diskVars>>
  PROVE  FilesInv'
<1>1. \A v \in Pinned(compact)' : v \in Pinned(compact) \cup {current}
  BY DEF Pinned, Held, bgVars
<1>2. OpenShape'
  BY OpenFacts DEF OpenShape, bgVars, diskVars
<1> QED
  BY <1>1, <1>2, OpenFacts, NothingDeleted DEF bgVars, diskVars

LEMMA WriteKeeps == ASSUME FilesInv, NEW key, NEW type, Write(key, type) PROVE FilesInv'
<1>1. DOMAIN reads' = Readers /\ reads' = reads
  BY DEF Write, clientVars, FilesInv
<1> QED
  BY <1>1, ClientsKeep DEF Write

LEMMA SnapshotsKeep ==
  ASSUME FilesInv, NEW h \in Handles, GetSnapshot(h) \/ ReleaseSnapshot(h)
  PROVE  FilesInv'
<1>1. DOMAIN reads' = Readers /\ reads' = reads /\ opened
  BY DEF GetSnapshot, ReleaseSnapshot, FilesInv
<1>2. UNCHANGED <<opened, mem, imm, current, nextFile, bgVars, diskVars>>
  BY DEF GetSnapshot, ReleaseSnapshot, memVars
<1> QED
  BY <1>1, <1>2, ClientsKeep

LEMMA IteratorsKeep ==
  ASSUME FilesInv, NEW r \in Readers, NewIterator(r) \/ ReleaseIterator(r)
  PROVE  FilesInv'
<1>1. DOMAIN reads = Readers /\ opened
  BY DEF NewIterator, ReleaseIterator, FilesInv
<1>2. \E to : reads' = [reads EXCEPT ![r] = to] /\ (to # Nil => to.version = current)
  <2>1. CASE NewIterator(r)
    <3> DEFINE held == [seqs |-> {lastSeq} \cup Snapshots, mem |-> mem, imm |-> imm, version |-> current]
    <3>1. reads' = [reads EXCEPT ![r] = held] /\ held.version = current
      BY <2>1 DEF NewIterator
    <3> QED
      BY <3>1
  <2>2. CASE ReleaseIterator(r)
    BY <2>2 DEF ReleaseIterator
  <2> QED
    BY <2>1, <2>2
<1>3. DOMAIN reads' = Readers
  BY <1>1, <1>2
<1>4. \A s \in Readers : reads'[s] # Nil /\ reads'[s] # reads[s] => reads'[s].version = current
  BY <1>1, <1>2
<1>5. UNCHANGED <<opened, mem, imm, current, nextFile, bgVars, diskVars>>
  BY DEF NewIterator, ReleaseIterator, memVars
<1> QED
  BY <1>1, <1>3, <1>4, <1>5, ClientsKeep

LEMMA SwitchKeeps == ASSUME FilesInv, SwitchMemTable PROVE FilesInv'
<1>1. opened /\ imm' = mem /\ mem' = nextFile /\ nextFile' = nextFile + 1
      /\ logFiles' = logFiles \cup {nextFile}
      /\ UNCHANGED <<opened, current, pending, compact, edit, reads, manifest, tables>>
  BY DEF SwitchMemTable, bgVars, clientVars
<1>2. OpenShape'
  BY <1>1, OpenFacts DEF OpenShape
<1>3. \A v \in Pinned(compact)' : v \in Pinned(compact) \cup {current}
  BY <1>1 DEF Pinned, Held
<1> QED
  BY <1>1, <1>2, <1>3, OpenFacts, NothingDeleted

LEMMA FlushKeeps == ASSUME FilesInv, Flush PROVE FilesInv'
<1> DEFINE file == [number |-> nextFile, entries |-> buffers[imm]]
<1>1. PICK level \in PickLevelForMemTableOutput(current, Lo({file}), Hi({file})) :
        LogAndApply([kind |-> "flush", deleted |-> {}, added |-> {<<level, file>>}, log |-> mem], nextFile + 1)
  BY DEF Flush
<1> DEFINE e == [kind |-> "flush", deleted |-> {}, added |-> {<<level, file>>}, log |-> mem]
<1>2. opened /\ nextFile' = nextFile + 1 /\ tables' = tables \cup {nextFile} /\ imm # Nil
      /\ UNCHANGED <<opened, mem, imm, current, pending, compact, reads, logFiles>>
  BY DEF Flush, memVars, clientVars
<1>3. manifest'.version = Apply(current, e) /\ manifest'.log = mem /\ edit'.log = mem
  BY <1>1 DEF LogAndApply
<1>4. \A a \in e.added : a[2] \in {file}
  OBVIOUS
<1>5. Numbers(Files(Apply(current, e))) \subseteq Numbers(Files(current)) \cup Numbers({file})
  BY <1>4, ApplyFiles
<1>6. Numbers({file}) = {nextFile}
  BY DEF Numbers
<1>7. Numbers(Files(manifest'.version)) \subseteq tables'
  BY <1>2, <1>3, <1>5, <1>6, OpenFacts
<1>8. OpenShape'
  BY <1>2, <1>3, OpenFacts DEF OpenShape
<1>9. \A v \in Pinned(compact)' : v \in Pinned(compact) \cup {current}
  BY <1>2 DEF Pinned, Held
<1>10. imm' >= manifest'.log => imm' \in logFiles'
  BY <1>2, <1>3, OpenFacts DEF OpenShape
<1>11. manifest'.log \in Nat /\ manifest'.log \in logFiles' /\ mem' \in logFiles'
  BY <1>2, <1>3, OpenFacts DEF OpenShape
<1> QED
  BY <1>2, <1>7, <1>8, <1>9, <1>10, <1>11, OpenFacts, NothingDeleted

\* A compaction begins: nothing is written yet.
LEMMA StartKeeps ==
  ASSUME FilesInv, opened, NEW level, NEW inputs, Starts(level, inputs),
         UNCHANGED <<opened, mem, imm, current, nextFile, pending, edit, reads, diskVars>>
  PROVE  FilesInv'
<1>1. compact'.version = current /\ compact'.outputs = {}
  BY DEF Starts
<1>2. OpenShape'
  BY <1>1, OpenFacts DEF OpenShape, diskVars, Numbers
<1>3. \A v \in Pinned(compact)' : v \in Pinned(compact) \cup {current}
  BY <1>1 DEF Pinned, Held
<1> QED
  BY <1>2, <1>3, OpenFacts, NothingDeleted DEF diskVars

LEMMA MoveKeeps ==
  ASSUME FilesInv, opened, NEW level, NEW inputs, inputs[1] \subseteq Files(current), Moves(level, inputs),
         UNCHANGED <<opened, mem, imm, current, nextFile, pending, compact, reads, logFiles, tables>>
  PROVE  FilesInv'
<1> DEFINE e == [kind |-> "move", deleted |-> {<<level, f.number>> : f \in inputs[1]},
                 added |-> {<<level + 1, f>> : f \in inputs[1]}, log |-> manifest.log]
<1>1. manifest'.version = Apply(current, e) /\ manifest'.log = manifest.log /\ edit'.log = manifest'.log
  BY DEF Moves, LogAndApply
<1>2. \A a \in e.added : a[2] \in Files(current)
  OBVIOUS
<1>3. Numbers(Files(Apply(current, e))) \subseteq Numbers(Files(current))
  BY <1>2, ApplyFiles
<1>5. OpenShape'
  BY <1>1, OpenFacts DEF OpenShape
<1>6. \A v \in Pinned(compact)' : v \in Pinned(compact) \cup {current}
  BY DEF Pinned, Held
<1> QED
  BY <1>1, <1>3, <1>5, <1>6, OpenFacts, NothingDeleted

LEMMA AutomaticKeeps ==
  ASSUME FilesInv, NEW level \in 0..NumLevels - 2, AutomaticCompaction(level)
  PROVE  FilesInv'
<1>1. level \in Levels
  BY LevelsAssumption DEF Levels
<1>2. opened /\ UNCHANGED <<opened, mem, imm, current, nextFile, pending, reads, logFiles, tables>>
  BY DEF AutomaticCompaction, memVars, clientVars
<1>3. PICK f \in current[level] : \E i \in PickCompaction(current, level, f) :
        (Moves(level, i) /\ UNCHANGED compact) \/ (Starts(level, i) /\ UNCHANGED <<edit, manifest>>)
  BY DEF AutomaticCompaction
<1>4. PICK inputs \in PickCompaction(current, level, f) :
        (Moves(level, inputs) /\ UNCHANGED compact) \/ (Starts(level, inputs) /\ UNCHANGED <<edit, manifest>>)
  BY <1>3
<1>5. inputs[1] \subseteq Files(current)
  BY <1>1, InputsAreFiles
<1>6. CASE Moves(level, inputs) /\ UNCHANGED compact
  BY <1>2, <1>5, <1>6, MoveKeeps
<1>7. CASE Starts(level, inputs) /\ UNCHANGED <<edit, manifest>>
  BY <1>2, <1>7, StartKeeps DEF diskVars
<1> QED
  BY <1>4, <1>6, <1>7

LEMMA ManualKeeps ==
  ASSUME FilesInv, NEW level, NEW begin, NEW end, ManualCompaction(level, begin, end)
  PROVE  FilesInv'
<1>1. PICK inputs \in CompactRange(current, level, begin, end) : Starts(level, inputs)
  BY DEF ManualCompaction
<1>2. opened /\ UNCHANGED <<opened, mem, imm, current, nextFile, pending, edit, reads, diskVars>>
  BY DEF ManualCompaction, memVars, clientVars
<1> QED
  BY <1>1, <1>2, StartKeeps

LEMMA OutputKeeps == ASSUME FilesInv, NEW e, WriteOutput(e) PROVE FilesInv'
<1>1. opened /\ compact # Nil /\ nextFile' = nextFile + 1
      /\ pending' = pending \cup {nextFile} /\ tables' = tables \cup {nextFile}
      /\ UNCHANGED <<opened, mem, imm, current, edit, reads, manifest, logFiles>>
  BY DEF WriteOutput, memVars, clientVars
<1>2. PICK file : file.number = nextFile /\ compact'.outputs = compact.outputs \cup {file}
                  /\ compact'.version = compact.version
  <2> DEFINE taken == {x \in compact.todo : x = e \/ Before(x, e)}
             output == [number |-> nextFile, entries |-> taken]
  <2>1. compact' = [level |-> compact.level, inputs |-> compact.inputs, version |-> compact.version,
                    outputs |-> compact.outputs \cup {output}, todo |-> compact.todo \ taken]
    BY DEF WriteOutput
  <2>2. output.number = nextFile
    OBVIOUS
  <2> HIDE DEF output
  <2>3. compact'.outputs = compact.outputs \cup {output} /\ compact'.version = compact.version
    BY <2>1
  <2> QED
    BY <2>2, <2>3
<1>3. Numbers({file}) = {nextFile}
  BY <1>2 DEF Numbers
<1>4. Numbers(compact'.outputs) \subseteq pending'
  BY <1>1, <1>2, <1>3, OpenFacts, NumbersOfUnion DEF OpenShape
<1>5. OpenShape'
  BY <1>1, <1>4, OpenFacts DEF OpenShape
<1>6. \A v \in Pinned(compact)' : v \in Pinned(compact) \cup {current}
  BY <1>1, <1>2 DEF Pinned, Held
<1> QED
  BY <1>1, <1>5, <1>6, OpenFacts, NothingDeleted

LEMMA FinishKeeps == ASSUME FilesInv, FinishCompaction PROVE FilesInv'
<1> DEFINE e == [kind |-> "compaction",
       deleted |-> {<<compact.level, f.number>> : f \in compact.inputs[1]}
                     \cup {<<compact.level + 1, f.number>> : f \in compact.inputs[2]},
       added |-> {<<compact.level + 1, f>> : f \in compact.outputs}, log |-> manifest.log]
<1>1. opened /\ compact # Nil
      /\ UNCHANGED <<opened, mem, imm, current, nextFile, pending, compact, reads, logFiles, tables>>
  BY DEF FinishCompaction, memVars, clientVars
<1>2. manifest'.version = Apply(current, e) /\ manifest'.log = manifest.log /\ edit'.log = manifest'.log
  BY DEF FinishCompaction, LogAndApply
<1>4. \A a \in e.added : a[2] \in compact.outputs
  OBVIOUS
<1>5. Numbers(Files(Apply(current, e))) \subseteq Numbers(Files(current)) \cup Numbers(compact.outputs)
  BY <1>4, ApplyFiles
<1>6. Numbers(compact.outputs) \subseteq pending
  BY <1>1, OpenFacts DEF OpenShape
<1>7. OpenShape'
  BY <1>1, <1>2, OpenFacts DEF OpenShape
<1>8. \A v \in Pinned(compact)' : v \in Pinned(compact) \cup {current}
  BY <1>1 DEF Pinned, Held
<1> QED
  BY <1>1, <1>2, <1>5, <1>6, <1>7, <1>8, OpenFacts, NothingDeleted

\* The version of the edit, what is being read or compacted, and what a compaction
\* has written outlive the deletion.
LEMMA InstallKeeps == ASSUME FilesInv, InstallEdit PROVE FilesInv'
<1>1. opened /\ edit # Nil /\ current' = manifest.version /\ edit' = Nil
      /\ imm' \in {Nil, imm} /\ compact' \in {Nil, compact} /\ pending' \subseteq pending
      /\ (compact' # Nil => pending' = pending)
      /\ UNCHANGED <<opened, mem, nextFile, reads, manifest>>
  BY DEF InstallEdit, clientVars
<1>2. \/ UNCHANGED <<tables, logFiles>>
      \/ /\ tables' = tables \cap (pending' \cup UNION {Numbers(Files(v)) : v \in {current'} \cup Pinned(compact')})
         /\ logFiles' = {n \in logFiles : n >= edit.log}
  BY DEF InstallEdit, DeleteObsoleteFiles
<1>3. (Pinned(compact))' = Pinned(compact') /\ Pinned(compact') \subseteq Pinned(compact)
  BY <1>1 DEF Pinned, Held
<1>4. \A v \in {manifest'.version} \cup (Pinned(compact))' : Numbers(Files(v)) \subseteq tables
  BY <1>1, <1>3, NeededTables
<1>5. \A v \in {manifest'.version} \cup (Pinned(compact))' : Numbers(Files(v)) \subseteq tables'
  BY <1>1, <1>2, <1>3, <1>4
<1>6. UNION {Numbers(Files(v)) : v \in {manifest'.version} \cup (Pinned(compact))'} \subseteq tables'
  BY <1>5
<1>7. Numbers(Files(current')) \cup pending' \subseteq tables'
  BY <1>1, <1>2, <1>5, OpenFacts
<1>8. \A n \in logFiles : n \in Nat /\ n >= manifest.log => n \in logFiles'
  BY <1>1, <1>2, OpenFacts DEF OpenShape
<1>9. {manifest'.log, mem'} \subseteq logFiles'
  BY <1>1, <1>8, OpenFacts DEF OpenShape
<1>10. imm' # Nil /\ imm' >= manifest'.log => imm' \in logFiles'
  BY <1>1, <1>8, OpenFacts DEF OpenShape
<1>11. NeededFilesExist'
  BY <1>1, <1>6, <1>7, <1>9, <1>10 DEF NeededFilesExist
<1>12. OpenShape'
  BY <1>1, OpenFacts DEF OpenShape
<1> QED
  BY <1>1, <1>11, <1>12 DEF FilesInv, ClosedShape

\* A process that has ended refers to nothing.
LEMMA NothingPinned ==
  ASSUME compact = Nil, \A r \in Readers : ~Held(r)
  PROVE  Pinned(compact) = {}
BY DEF Pinned

LEMMA EndKeeps == ASSUME FilesInv, End PROVE FilesInv'
<1>1. opened /\ opened' = FALSE /\ imm' = Nil /\ compact' = Nil /\ edit' = Nil /\ pending' = {}
      /\ reads' = [r \in Readers |-> Nil] /\ UNCHANGED <<manifest, logFiles, tables>>
  BY DEF End, diskVars
<1>2. \A r \in Readers : ~Held(r)'
  BY <1>1 DEF Held
<1>3. (Pinned(compact))' = {}
  BY <1>1, <1>2 DEF Pinned
<1>4. NeededFilesExist'
  BY <1>1, <1>3, OpenFacts DEF NeededFilesExist
<1>5. OpenShape' /\ ClosedShape'
  BY <1>1, <1>2 DEF OpenShape, ClosedShape
<1> QED
  BY <1>1, <1>4, <1>5, OpenFacts DEF FilesInv

LEMMA OpenKeeps == ASSUME FilesInv, Open PROVE FilesInv'
<1>1. ~opened /\ opened' = TRUE /\ manifest' = Recovered /\ current' = Recovered.version
      /\ mem' = Recovered.log /\ imm' = Nil /\ nextFile' = Recovered.next
      /\ tables' = Numbers(Files(Recovered.version)) /\ logFiles' = {Recovered.log}
      /\ Recovered.log \in 1..NumberLimit
      /\ UNCHANGED <<compact, edit, pending, reads>>
  BY DEF Open, bgVars, clientVars
<1>2. compact = Nil /\ edit = Nil /\ pending = {} /\ (\A r \in Readers : ~Held(r)) /\ DOMAIN reads = Readers
  BY <1>1 DEF FilesInv, ClosedShape
<1>3. Recovered.next = Recovered.log + 1
  BY DEF Recovered
<1>4. Recovered.log \in Nat
  BY <1>1
<1>5. (Pinned(compact))' = {}
  BY <1>1, <1>2 DEF Pinned, Held
<1>6. NeededFilesExist'
  BY <1>1, <1>2, <1>5 DEF NeededFilesExist
<1>7. OpenShape'
  BY <1>1, <1>2, <1>3, <1>4 DEF OpenShape
<1> QED
  BY <1>1, <1>2, <1>4, <1>6, <1>7 DEF FilesInv, ClosedShape

LEMMA CutKeeps == ASSUME FilesInv, OpenIsCut PROVE FilesInv'
<1>1. ~opened /\ tables' = tables \cup Numbers(Files(Recovered.version))
      /\ logFiles' = logFiles \cup {Recovered.log} /\ manifest' \in {manifest, Recovered}
      /\ Recovered.log \in 1..NumberLimit
      /\ UNCHANGED <<opened, imm, compact, edit, pending, reads>>
  BY DEF OpenIsCut, bgVars, clientVars
<1>2. compact = Nil /\ imm = Nil /\ edit = Nil /\ pending = {} /\ \A r \in Readers : ~Held(r)
  BY <1>1 DEF FilesInv, ClosedShape
<1>3. (Pinned(compact))' = {}
  BY <1>1, <1>2 DEF Pinned, Held
<1>4. Numbers(Files(manifest.version)) \subseteq tables /\ manifest.log \in logFiles /\ manifest.log \in Nat
  BY NeededTables DEF FilesInv, NeededFilesExist
<1>5. Numbers(Files(manifest'.version)) \subseteq tables' /\ manifest'.log \in logFiles' /\ manifest'.log \in Nat
  BY <1>1, <1>4
<1>6. NeededFilesExist'
  BY <1>1, <1>2, <1>3, <1>5 DEF NeededFilesExist
<1>7. OpenShape' /\ ClosedShape'
  BY <1>1, <1>2 DEF OpenShape, ClosedShape, Held
<1> QED
  BY <1>1, <1>5, <1>6, <1>7 DEF FilesInv

LEMMA StutterKeeps == ASSUME FilesInv, UNCHANGED vars PROVE FilesInv'
<1>1. UNCHANGED <<opened, imm, mem, current, nextFile, pending, compact, edit, reads, manifest, logFiles, tables>>
  BY DEF vars
<1>2. (Pinned(compact))' = Pinned(compact) /\ \A r \in Readers : Held(r)' = Held(r)
  BY <1>1 DEF Pinned, Held
<1>3. NeededFilesExist' /\ OpenShape' /\ ClosedShape'
  BY <1>1, <1>2 DEF FilesInv, NeededFilesExist, OpenShape, ClosedShape
<1> QED
  BY <1>1, <1>3 DEF FilesInv

LEMMA StepKeeps == FilesInv /\ [ManualNext]_vars => FilesInv'
<1> SUFFICES ASSUME FilesInv, [ManualNext]_vars PROVE FilesInv'
  OBVIOUS
<1>1. ASSUME NEW input \in Inputs, Write(input[1], input[2]) PROVE FilesInv'
  BY <1>1, WriteKeeps
<1>2. ASSUME NEW h \in Handles, GetSnapshot(h) \/ ReleaseSnapshot(h) PROVE FilesInv'
  BY <1>2, SnapshotsKeep
<1>3. ASSUME NEW r \in Readers, NewIterator(r) \/ ReleaseIterator(r) PROVE FilesInv'
  BY <1>3, IteratorsKeep
<1>4. ASSUME NEW level \in 0..NumLevels - 2, AutomaticCompaction(level) PROVE FilesInv'
  BY <1>4, AutomaticKeeps
<1>5. ASSUME NEW level \in 0..NumLevels - 2, NEW begin \in Keys, NEW end \in Keys,
             ManualCompaction(level, begin, end)
      PROVE  FilesInv'
  BY <1>5, ManualKeeps
<1>6. ASSUME NEW e \in compact.todo, WriteOutput(e) PROVE FilesInv'
  BY <1>6, OutputKeeps
<1> QED
  BY <1>1, <1>2, <1>3, <1>4, <1>5, <1>6, SwitchKeeps, FlushKeeps, InstallKeeps, FinishKeeps,
     EndKeeps, OpenKeeps, CutKeeps, StutterKeeps DEF ManualNext, Next

\* DeleteObsoleteFiles (db_impl.cc:213) never deletes a table or a log that the
\* manifest, the open database, a reader or a compaction needs, whether or not the
\* application compacts by hand and wherever a process ends.
THEOREM NeededFilesStay == Spec => []NeededFilesExist
<1>1. FilesInv /\ [Next]_vars => FilesInv'
  BY StepKeeps DEF ManualNext
<1>2. FilesInv => NeededFilesExist
  BY DEF FilesInv
<1> QED
  BY InitIsSafe, <1>1, <1>2, PTL DEF Spec

\* The same with the calls of CompactRange, which break the order of the levels.
THEOREM NeededFilesStayManually == ManualSpec => []NeededFilesExist
<1>1. FilesInv => NeededFilesExist
  BY DEF FilesInv
<1> QED
  BY InitIsSafe, StepKeeps, <1>1, PTL DEF ManualSpec

-----------------------------------------------------------------------------
(* The numbers of files *)

\* The files of every version in use, and what the running compaction has written.
ReadFiles == UNION {Files(reads[r].version) : r \in {s \in Readers : Held(s)}}
CompactFiles == IF compact = Nil THEN {} ELSE Files(compact.version) \cup compact.outputs
Live == Files(manifest.version) \cup Files(current) \cup ReadFiles \cup CompactFiles

OneNumberEach(files) == \A f, g \in files : f.number = g.number => f = g
NumberedBelow(files, n) == \A f \in files : f.number \in Nat /\ f.number < n

NumbersInv ==
  /\ OneNumberEach(Live)
  /\ manifest.next \in Nat /\ NumberedBelow(Files(manifest.version), manifest.next)
  /\ DOMAIN manifest.version = Levels
  /\ opened => manifest.next <= nextFile /\ NumberedBelow(Live, nextFile)
  /\ ~opened => current = EmptyVersion
  /\ logFiles \subseteq 1..MaxNumber

NumsInv == FilesInv /\ NumbersInv

LEMMA FilesOfUnion ==
  ASSUME NEW version, NEW e, NEW added, \A a \in e.added : a[2] \in added
  PROVE  Files(Apply(version, e)) \subseteq Files(version) \cup added
<1>1. \A level \in Levels : Apply(version, e)[level] \subseteq version[level] \cup added
  BY DEF Apply
<1> QED
  BY <1>1 DEF Files

LEMMA NoFiles == Files(EmptyVersion) = {}
BY DEF Files, EmptyVersion

\* A version in use has only files that are live.
LEMMA LiveParts ==
  /\ Files(manifest.version) \subseteq Live /\ Files(current) \subseteq Live
  /\ \A r \in Readers : Held(r) => Files(reads[r].version) \subseteq Live
  /\ compact # Nil => Files(compact.version) \subseteq Live /\ compact.outputs \subseteq Live
<1>1. Files(manifest.version) \subseteq Live /\ Files(current) \subseteq Live
  BY DEF Live
<1>2. ASSUME NEW r \in Readers, Held(r) PROVE Files(reads[r].version) \subseteq Live
  BY <1>2 DEF Live, ReadFiles
<1>3. ASSUME compact # Nil PROVE Files(compact.version) \subseteq Live /\ compact.outputs \subseteq Live
  BY <1>3 DEF Live, CompactFiles
<1> QED
  BY <1>1, <1>2, <1>3

LEMMA UniqueInTheRun == ASSUME NumbersInv PROVE NumbersAreUnique
<1> DEFINE read == UNION {Files(v) : v \in {manifest.version, current} \cup Pinned(compact)}
           output == IF compact = Nil THEN {} ELSE compact.outputs
           files == read \cup output
<1>1. \A v \in {manifest.version, current} \cup Pinned(compact) : Files(v) \subseteq Live
  BY LiveParts DEF Pinned
<1>2. read \subseteq Live
  BY <1>1
<1>3. files \subseteq Live
  <2>1. output \subseteq Live
    BY LiveParts
  <2> HIDE DEF read, output
  <2> QED
    BY <1>2, <2>1
<1>4. ASSUME NEW f \in files, NEW g \in files, f.number = g.number PROVE f = g
  <2> HIDE DEF files
  <2> QED
    BY <1>3, <1>4 DEF NumbersInv, OneNumberEach
<1>5. NumbersAreUnique = (\A f, g \in files : f.number = g.number => f = g)
  BY DEF NumbersAreUnique
<1> HIDE DEF files
<1> QED
  BY <1>4, <1>5

\* A step of the open database that makes at most one file, with the next number.
LEMMA NumbersGrow ==
  ASSUME NumsInv, opened, opened', nextFile' \in Nat, nextFile <= nextFile',
         NEW new, \A f, g \in new : f = g, \A f \in new : f.number = nextFile /\ nextFile < nextFile',
         \A f \in Live' : f \in Live \cup new,
         \/ manifest' = manifest
         \/ manifest'.next = nextFile' /\ DOMAIN manifest'.version = Levels,
         logFiles' \subseteq 1..MaxNumber
  PROVE  NumbersInv'
<1>1. nextFile \in Nat /\ manifest.next <= nextFile /\ NumberedBelow(Live, nextFile)
  BY DEF NumsInv, FilesInv, OpenShape, NumbersInv
<1>2. NumberedBelow(Live', nextFile')
  BY <1>1 DEF NumberedBelow
<1>3. OneNumberEach(Live')
  BY <1>1 DEF OneNumberEach, NumberedBelow, NumsInv, NumbersInv
<1>4. Files(manifest'.version) \subseteq Live'
  BY DEF Live
<1>5. manifest'.next \in Nat /\ manifest'.next <= nextFile' /\ DOMAIN manifest'.version = Levels
  BY <1>1 DEF NumsInv, NumbersInv
<1>6. NumberedBelow(Files(manifest'.version), manifest'.next)
  <2>1. CASE manifest' = manifest
    BY <2>1 DEF NumsInv, NumbersInv
  <2>2. CASE manifest'.next = nextFile'
    BY <1>2, <1>4, <2>2 DEF NumberedBelow
  <2> QED
    BY <2>1, <2>2
<1> QED
  BY <1>2, <1>3, <1>5, <1>6 DEF NumbersInv

\* One that makes none.
LEMMA NoneNew ==
  ASSUME NumsInv, opened, opened', nextFile' \in Nat, nextFile <= nextFile', Live' \subseteq Live,
         \/ manifest' = manifest
         \/ manifest'.next = nextFile' /\ DOMAIN manifest'.version = Levels,
         logFiles' \subseteq 1..MaxNumber
  PROVE  NumbersInv'
<1> DEFINE none == {}
<1>1. /\ \A f, g \in none : f = g
      /\ \A f \in none : f.number = nextFile /\ nextFile < nextFile'
      /\ \A f \in Live' : f \in Live \cup none
  OBVIOUS
<1> HIDE DEF none
<1> QED
  BY <1>1, NumbersGrow

\* What is in use after a step, in parts.
LEMMA LiveFrom ==
  ASSUME NEW all, Live \subseteq all,
         Files(manifest'.version) \subseteq all, Files(current') \subseteq all,
         \A r \in Readers : reads'[r] # Nil => reads'[r] = reads[r] \/ reads'[r].version = current,
         compact' # Nil => Files(compact'.version) \subseteq all /\ compact'.outputs \subseteq all
  PROVE  Live' \subseteq all
<1>1. \A r \in Readers : Held(r)' => Files(reads'[r].version) \subseteq all
  BY LiveParts DEF Held
<1>2. ReadFiles' \subseteq all
  BY <1>1 DEF ReadFiles
<1>3. CompactFiles' \subseteq all
  BY DEF CompactFiles
<1> QED
  BY <1>2, <1>3 DEF Live

LEMMA LimitFacts == MaxNumber \in Nat /\ 3 <= MaxNumber /\ NumberLimit \in Nat /\ NumberLimit <= MaxNumber
<1>1. MaxNumber \in Nat /\ MaxNumberAfter \in Nat /\ MaxNumberAfter <= MaxNumber /\ 3 <= MaxNumber
  BY BoundsAssumption
<1> QED
  BY <1>1 DEF NumberLimit

LEMMA NumberFacts ==
  ASSUME NumsInv, opened
  PROVE  /\ nextFile \in Nat /\ logFiles \subseteq 1..MaxNumber /\ NumberLimit <= MaxNumber /\ NumberLimit \in Nat
         /\ MaxNumber \in Nat /\ mem < nextFile /\ mem \in Nat
BY LimitFacts DEF NumsInv, NumbersInv, FilesInv, OpenShape

\* Steps that make no file and no edit.
LEMMA NumbersStay ==
  ASSUME NumsInv, opened, opened', nextFile' \in Nat, nextFile <= nextFile',
         UNCHANGED <<current, manifest>>, logFiles' \subseteq 1..MaxNumber,
         \A r \in Readers : reads'[r] # Nil => reads'[r] = reads[r] \/ reads'[r].version = current,
         compact' # Nil => Files(compact'.version) \subseteq Live /\ compact'.outputs \subseteq Live
  PROVE  NumbersInv'
<1>1. Live' \subseteq Live
  BY LiveParts, LiveFrom
<1> QED
  BY <1>1, NoneNew

LEMMA ClientNumbers ==
  ASSUME NumsInv,
         \/ \E input \in Inputs : Write(input[1], input[2])
         \/ \E h \in Handles : GetSnapshot(h) \/ ReleaseSnapshot(h)
         \/ \E r \in Readers : NewIterator(r) \/ ReleaseIterator(r)
  PROVE  NumbersInv'
<1>1. opened /\ UNCHANGED <<opened, current, nextFile, compact, manifest, logFiles>>
  <2>1. CASE \E input \in Inputs : Write(input[1], input[2])
    BY <2>1 DEF Write, bgVars, diskVars
  <2>2. CASE \E h \in Handles : GetSnapshot(h) \/ ReleaseSnapshot(h)
    BY <2>2 DEF GetSnapshot, ReleaseSnapshot, bgVars, diskVars
  <2>3. CASE \E r \in Readers : NewIterator(r) \/ ReleaseIterator(r)
    BY <2>3 DEF NewIterator, ReleaseIterator, bgVars, diskVars
  <2> QED
    BY <2>1, <2>2, <2>3
<1>2. \A r \in Readers : reads'[r] # Nil => reads'[r] = reads[r] \/ reads'[r].version = current
  <2>1. CASE UNCHANGED reads
    BY <2>1
  <2>2. ASSUME NEW r \in Readers, NewIterator(r) \/ ReleaseIterator(r)
        PROVE  \E to : reads' = [reads EXCEPT ![r] = to] /\ (to # Nil => to.version = current)
    <3> DEFINE held == [seqs |-> {lastSeq} \cup Snapshots, mem |-> mem, imm |-> imm, version |-> current]
    <3>1. CASE NewIterator(r)
      <4>1. reads' = [reads EXCEPT ![r] = held] /\ held.version = current
        BY <3>1 DEF NewIterator
      <4> QED
        BY <4>1
    <3>2. CASE ReleaseIterator(r)
      BY <3>2 DEF ReleaseIterator
    <3> QED
      BY <2>2, <3>1, <3>2
  <2>3. ASSUME NEW r \in Readers, NewIterator(r) \/ ReleaseIterator(r),
               NEW s \in Readers, reads'[s] # Nil
        PROVE  reads'[s] = reads[s] \/ reads'[s].version = current
    <3>1. DOMAIN reads = Readers
      BY DEF NumsInv, FilesInv
    <3> QED
      BY <2>2, <2>3, <3>1
  <2>4. (\E r \in Readers : NewIterator(r) \/ ReleaseIterator(r)) \/ UNCHANGED reads
    BY DEF Write, GetSnapshot, ReleaseSnapshot, clientVars
  <2> QED
    BY <2>1, <2>3, <2>4
<1> QED
  BY <1>1, <1>2, LiveParts, NumberFacts, NumbersStay

LEMMA SwitchNumbers == ASSUME NumsInv, SwitchMemTable PROVE NumbersInv'
<1>1. /\ opened /\ opened' /\ nextFile <= NumberLimit /\ nextFile' = nextFile + 1
      /\ logFiles' = logFiles \cup {nextFile}
      /\ UNCHANGED <<current, compact, manifest, reads>>
  BY DEF SwitchMemTable, bgVars, clientVars
<1>2. nextFile \in 1..MaxNumber
  BY <1>1, NumberFacts
<1>3. logFiles' \subseteq 1..MaxNumber /\ nextFile' \in Nat /\ nextFile <= nextFile'
  BY <1>1, <1>2, NumberFacts
<1> QED
  BY <1>1, <1>3, LiveParts, NumbersStay

LEMMA FlushNumbers == ASSUME NumsInv, Flush PROVE NumbersInv'
<1> DEFINE file == [number |-> nextFile, entries |-> buffers[imm]]
<1>1. PICK level \in PickLevelForMemTableOutput(current, Lo({file}), Hi({file})) :
        LogAndApply([kind |-> "flush", deleted |-> {}, added |-> {<<level, file>>}, log |-> mem], nextFile + 1)
  BY DEF Flush
<1> DEFINE e == [kind |-> "flush", deleted |-> {}, added |-> {<<level, file>>}, log |-> mem]
<1>2. opened /\ opened' /\ nextFile' = nextFile + 1 /\ UNCHANGED <<current, compact, reads, logFiles>>
  BY DEF Flush, memVars, clientVars
<1>3. manifest'.version = Apply(current, e) /\ manifest'.next = nextFile'
  BY <1>1, <1>2 DEF LogAndApply
<1>4. \A a \in e.added : a[2] \in {file}
  OBVIOUS
<1>5. Files(manifest'.version) \subseteq Files(current) \cup {file}
  BY <1>3, <1>4, FilesOfUnion
<1>6. DOMAIN manifest'.version = Levels
  BY <1>3 DEF Apply
<1>7. file.number = nextFile
  OBVIOUS
<1> HIDE DEF file
<1>8. Live' \subseteq Live \cup {file}
  BY <1>2, <1>5, LiveParts, LiveFrom
<1>9. \A f \in Live' : f \in Live \cup {file}
  BY <1>8
<1>10. nextFile' \in Nat /\ nextFile < nextFile' /\ nextFile <= nextFile'
  BY <1>2, NumberFacts
<1> QED
  BY <1>2, <1>3, <1>6, <1>7, <1>9, <1>10, NumberFacts, NumbersGrow

LEMMA StartNumbers ==
  ASSUME NumsInv, opened, NEW level, NEW inputs, Starts(level, inputs),
         UNCHANGED <<opened, current, nextFile, reads, manifest, logFiles>>
  PROVE  NumbersInv'
<1>1. compact'.version = current /\ compact'.outputs = {}
  BY DEF Starts
<1> QED
  BY <1>1, LiveParts, NumberFacts, NumbersStay

LEMMA EditNumbers ==
  ASSUME NumsInv, opened, NEW e, LogAndApply(e, nextFile), \A a \in e.added : a[2] \in Live,
         UNCHANGED <<opened, current, nextFile, compact, reads, logFiles>>
  PROVE  NumbersInv'
<1>1. manifest'.version = Apply(current, e) /\ manifest'.next = nextFile'
  BY DEF LogAndApply
<1>2. Files(manifest'.version) \subseteq Live
  BY <1>1, FilesOfUnion, LiveParts
<1>3. Live' \subseteq Live
  BY <1>2, LiveParts, LiveFrom
<1>4. DOMAIN manifest'.version = Levels
  BY <1>1 DEF Apply
<1>5. nextFile' \in Nat /\ nextFile <= nextFile'
  BY NumberFacts
<1> QED
  BY <1>1, <1>3, <1>4, <1>5, NumberFacts, NoneNew

LEMMA AutomaticNumbers ==
  ASSUME NumsInv, NEW level \in 0..NumLevels - 2, AutomaticCompaction(level)
  PROVE  NumbersInv'
<1>1. level \in Levels
  BY LevelsAssumption DEF Levels
<1>2. opened /\ UNCHANGED <<opened, current, nextFile, reads, logFiles>>
  BY DEF AutomaticCompaction, memVars, clientVars
<1>3. PICK f \in current[level] : \E i \in PickCompaction(current, level, f) :
        (Moves(level, i) /\ UNCHANGED compact) \/ (Starts(level, i) /\ UNCHANGED <<edit, manifest>>)
  BY DEF AutomaticCompaction
<1>4. PICK inputs \in PickCompaction(current, level, f) :
        (Moves(level, inputs) /\ UNCHANGED compact) \/ (Starts(level, inputs) /\ UNCHANGED <<edit, manifest>>)
  BY <1>3
<1>5. inputs[1] \subseteq Live
  BY <1>1, InputsAreFiles, LiveParts
<1> DEFINE e == [kind |-> "move", deleted |-> {<<level, g.number>> : g \in inputs[1]},
                 added |-> {<<level + 1, g>> : g \in inputs[1]}, log |-> manifest.log]
<1>6. CASE Moves(level, inputs) /\ UNCHANGED compact
  <2>1. LogAndApply(e, nextFile) /\ \A a \in e.added : a[2] \in Live
    BY <1>5, <1>6 DEF Moves
  <2> HIDE DEF e
  <2> QED
    BY <1>2, <1>6, <2>1, EditNumbers
<1>7. CASE Starts(level, inputs) /\ UNCHANGED <<edit, manifest>>
  BY <1>2, <1>7, StartNumbers
<1> QED
  BY <1>4, <1>6, <1>7

LEMMA ManualNumbers ==
  ASSUME NumsInv, NEW level, NEW begin, NEW end, ManualCompaction(level, begin, end)
  PROVE  NumbersInv'
<1>1. PICK inputs \in CompactRange(current, level, begin, end) : Starts(level, inputs)
  BY DEF ManualCompaction
<1>2. opened /\ UNCHANGED <<opened, current, nextFile, reads, manifest, logFiles>>
  BY DEF ManualCompaction, memVars, clientVars, diskVars
<1> QED
  BY <1>1, <1>2, StartNumbers

LEMMA OutputNumbers == ASSUME NumsInv, NEW e, WriteOutput(e) PROVE NumbersInv'
<1>1. opened /\ opened' /\ compact # Nil /\ nextFile' = nextFile + 1
      /\ UNCHANGED <<current, reads, manifest, logFiles>>
  BY DEF WriteOutput, memVars, clientVars
<1>2. PICK file : file.number = nextFile /\ compact'.outputs = compact.outputs \cup {file}
                  /\ compact'.version = compact.version
  <2> DEFINE taken == {x \in compact.todo : x = e \/ Before(x, e)}
             output == [number |-> nextFile, entries |-> taken]
  <2>1. compact' = [level |-> compact.level, inputs |-> compact.inputs, version |-> compact.version,
                    outputs |-> compact.outputs \cup {output}, todo |-> compact.todo \ taken]
    BY DEF WriteOutput
  <2>2. output.number = nextFile
    OBVIOUS
  <2> HIDE DEF output
  <2>3. compact'.outputs = compact.outputs \cup {output} /\ compact'.version = compact.version
    BY <2>1
  <2> QED
    BY <2>2, <2>3
<1>3. Live' \subseteq Live \cup {file}
  BY <1>1, <1>2, LiveParts, LiveFrom
<1>4. \A f \in Live' : f \in Live \cup {file}
  BY <1>3
<1>5. nextFile' \in Nat /\ nextFile < nextFile' /\ nextFile <= nextFile'
  BY <1>1, NumberFacts
<1> QED
  BY <1>1, <1>2, <1>4, <1>5, NumberFacts, NumbersGrow

LEMMA FinishNumbers == ASSUME NumsInv, FinishCompaction PROVE NumbersInv'
<1> DEFINE e == [kind |-> "compaction",
       deleted |-> {<<compact.level, f.number>> : f \in compact.inputs[1]}
                     \cup {<<compact.level + 1, f.number>> : f \in compact.inputs[2]},
       added |-> {<<compact.level + 1, f>> : f \in compact.outputs}, log |-> manifest.log]
<1>1. opened /\ compact # Nil /\ UNCHANGED <<opened, current, nextFile, compact, reads, logFiles>>
  BY DEF FinishCompaction, memVars, clientVars
<1>2. LogAndApply(e, nextFile)
  BY DEF FinishCompaction
<1>3. \A a \in e.added : a[2] \in Live
  BY <1>1, LiveParts
<1> HIDE DEF e
<1> QED
  BY <1>1, <1>2, <1>3, EditNumbers

LEMMA InstallNumbers == ASSUME NumsInv, InstallEdit PROVE NumbersInv'
<1>1. opened /\ opened' /\ current' = manifest.version /\ compact' \in {Nil, compact}
      /\ UNCHANGED <<nextFile, reads, manifest>>
  BY DEF InstallEdit, clientVars
<1>2. logFiles' \subseteq logFiles
  BY DEF InstallEdit, DeleteObsoleteFiles
<1>3. Live' \subseteq Live
  BY <1>1, LiveParts, LiveFrom
<1>4. nextFile' \in Nat /\ nextFile <= nextFile'
  BY <1>1, NumberFacts
<1> QED
  BY <1>1, <1>2, <1>3, <1>4, NumberFacts, NoneNew

-----------------------------------------------------------------------------
(* The numbers a recovery gives *)

\* A bounded set of numbers that is not empty has a largest.
LEMMA LargestNumber ==
  ASSUME NEW S, S \subseteq Nat, S # {}, NEW b \in Nat, \A n \in S : n <= b
  PROVE  \E n \in S : \A m \in S : m <= n
<1> DEFINE above == {n \in Nat : \A m \in S : m <= n}
<1>1. above \subseteq Nat /\ above # {}
  OBVIOUS
<1>2. PICK least \in above : \A n \in above : ~(<<n, least>> \in OpToRel(<, Nat))
  BY <1>1, NatLessThanWellFounded, WFMin
<1>3. \A n \in above : ~(n < least)
  BY <1>1, <1>2 DEF OpToRel
<1>4. least \in S
  <2> SUFFICES ASSUME least \notin S PROVE FALSE
    OBVIOUS
  <2>1. \A m \in S : m \in Nat /\ m < least
    OBVIOUS
  <2>2. least # 0 /\ least \in Nat
    <3>1. PICK m \in S : TRUE
      OBVIOUS
    <3> QED
      BY <2>1, <3>1
  <2>3. least - 1 \in Nat /\ \A m \in S : m <= least - 1
    BY <2>1, <2>2
  <2>4. least - 1 \in above
    BY <2>3
  <2> QED
    BY <1>3, <2>2, <2>4
<1> QED
  BY <1>4

\* The full logs between two numbers, and the numbers that reading the logs up to
\* a limit marks as used.
FullBetween(from, limit) == {n \in NeededLogs : from < n /\ n < limit /\ buffers[n] # {}}
Marks(limit) ==
  {manifest.next + 1 + Cardinality(FullBetween(-1, limit))}
    \cup {m + 1 + Cardinality(FullBetween(m, limit)) : m \in {n \in NeededLogs : n < limit}}

LEMMA LogFacts ==
  ASSUME NumbersInv
  PROVE  /\ MaxNumber \in Nat /\ manifest.next \in Nat /\ NeededLogs \subseteq 1..MaxNumber
         /\ \A from, limit : FullBetween(from, limit) \subseteq 1..MaxNumber
<1>1. MaxNumber \in Nat /\ manifest.next \in Nat /\ logFiles \subseteq 1..MaxNumber
  BY BoundsAssumption DEF NumbersInv
<1>2. NeededLogs \subseteq 1..MaxNumber
  BY <1>1 DEF NeededLogs
<1> QED
  BY <1>1, <1>2 DEF FullBetween

LEMMA FewLogs ==
  ASSUME NumbersInv, NEW logs, logs \subseteq 1..MaxNumber
  PROVE  IsFiniteSet(logs) /\ Cardinality(logs) \in Nat /\ Cardinality(logs) <= MaxNumber
<1>1. MaxNumber \in Nat
  BY LogFacts
<1>2. IsFiniteSet(1..MaxNumber) /\ Cardinality(1..MaxNumber) = MaxNumber
  BY <1>1, FS_Interval
<1>3. IsFiniteSet(logs) /\ Cardinality(logs) <= Cardinality(1..MaxNumber)
  BY <1>2, FS_Subset
<1> QED
  BY <1>2, <1>3, FS_CardinalityType

LEMMA FreshIsLargest ==
  ASSUME NumbersInv, NEW limit
  PROVE  /\ Fresh(limit) \in Marks(limit) /\ Fresh(limit) \in Nat
         /\ \A m \in Marks(limit) : m \in Nat /\ m <= Fresh(limit)
<1> DEFINE bound == manifest.next + 2 * MaxNumber + 1
<1>1. \A from : Cardinality(FullBetween(from, limit)) \in Nat
                /\ Cardinality(FullBetween(from, limit)) <= MaxNumber
  BY LogFacts, FewLogs
<1>2. bound \in Nat
  BY LogFacts
<1>3. \A m \in Marks(limit) : m \in Nat /\ m <= bound
  <2> SUFFICES ASSUME NEW m \in Marks(limit) PROVE m \in Nat /\ m <= bound
    OBVIOUS
  <2>1. CASE m = manifest.next + 1 + Cardinality(FullBetween(-1, limit))
    BY <1>1, <2>1, LogFacts
  <2>2. CASE \E n \in NeededLogs : m = n + 1 + Cardinality(FullBetween(n, limit))
    BY <1>1, <2>2, LogFacts
  <2> QED
    BY <2>1, <2>2 DEF Marks
<1>4. Marks(limit) # {}
  BY DEF Marks
<1> HIDE DEF bound
<1>5. \E n \in Marks(limit) : \A m \in Marks(limit) : m <= n
  BY <1>2, <1>3, <1>4, LargestNumber
<1>6. Fresh(limit) = CHOOSE n \in Marks(limit) : \A m \in Marks(limit) : m <= n
  BY DEF Fresh, Marks, FullBetween
<1> QED
  BY <1>3, <1>5, <1>6

\* Each number is new, and a later log gets a larger one.
LEMMA FreshIsNew ==
  ASSUME NumbersInv, NEW limit
  PROVE  manifest.next + 1 <= Fresh(limit)
<1>1. Cardinality(FullBetween(-1, limit)) \in Nat
  BY LogFacts, FewLogs
<1>2. manifest.next + 1 + Cardinality(FullBetween(-1, limit)) \in Marks(limit)
  BY DEF Marks
<1> QED
  BY <1>1, <1>2, LogFacts, FreshIsLargest

LEMMA OneMoreLog ==
  ASSUME NumbersInv, NEW n \in NeededLogs, buffers[n] # {}, NEW limit \in Nat, n < limit,
         NEW from \in Int, from < n
  PROVE  Cardinality(FullBetween(from, n)) + 1 <= Cardinality(FullBetween(from, limit))
<1> DEFINE A == FullBetween(from, n)
           B == FullBetween(from, limit)
<1>1. n \in Nat /\ A \subseteq 1..MaxNumber /\ B \subseteq 1..MaxNumber
  BY LogFacts
<1>2. n \notin A /\ A \cup {n} \subseteq B
  <2>1. \A m \in A : m \in Nat /\ m < n /\ m \in NeededLogs /\ from < m /\ buffers[m] # {}
    BY <1>1 DEF FullBetween
  <2>2. n \notin A
    BY <1>1, <2>1
  <2>3. \A m \in A : m < limit
    BY <1>1, <2>1
  <2> QED
    BY <2>1, <2>2, <2>3 DEF FullBetween
<1> HIDE DEF A, B
<1>3. IsFiniteSet(A) /\ IsFiniteSet(B) /\ Cardinality(A) \in Nat
  BY <1>1, FewLogs
<1>4. Cardinality(A \cup {n}) = Cardinality(A) + 1
  BY <1>2, <1>3, FS_AddElement
<1>5. Cardinality(A \cup {n}) <= Cardinality(B)
  BY <1>2, <1>3, FS_Subset
<1>6. Cardinality(A) + 1 <= Cardinality(B)
  BY <1>4, <1>5
<1> QED
  BY <1>6 DEF A, B

LEMMA FreshGrows ==
  ASSUME NumbersInv, NEW n \in NeededLogs, buffers[n] # {}, NEW limit \in Nat, n < limit
  PROVE  Fresh(n) < Fresh(limit)
<1>1. n \in Nat /\ manifest.next \in Nat
  BY LogFacts
<1>2. Fresh(n) \in Marks(n) /\ Fresh(n) \in Nat /\ Fresh(limit) \in Nat
      /\ \A m \in Marks(limit) : m \in Nat /\ m <= Fresh(limit)
  BY FreshIsLargest
<1>3. \A from : /\ Cardinality(FullBetween(from, n)) \in Nat
                /\ Cardinality(FullBetween(from, limit)) \in Nat
  BY LogFacts, FewLogs
<1>4. CASE Fresh(n) = manifest.next + 1 + Cardinality(FullBetween(-1, n))
  <2>1. Cardinality(FullBetween(-1, n)) + 1 <= Cardinality(FullBetween(-1, limit))
    BY <1>1, OneMoreLog
  <2>2. manifest.next + 1 + Cardinality(FullBetween(-1, limit)) <= Fresh(limit)
    BY <1>2 DEF Marks
  <2> QED
    BY <1>1, <1>2, <1>3, <1>4, <2>1, <2>2
<1>5. CASE \E m \in {l \in NeededLogs : l < n} : Fresh(n) = m + 1 + Cardinality(FullBetween(m, n))
  <2>1. PICK m \in NeededLogs : m < n /\ Fresh(n) = m + 1 + Cardinality(FullBetween(m, n))
    BY <1>5
  <2>2. m \in Nat /\ m \in Int /\ m < limit
    BY <1>1, <2>1, LogFacts
  <2>3. Cardinality(FullBetween(m, n)) + 1 <= Cardinality(FullBetween(m, limit))
    BY <2>1, <2>2, OneMoreLog
  <2>4. m + 1 + Cardinality(FullBetween(m, limit)) <= Fresh(limit)
    BY <1>2, <2>2 DEF Marks
  <2> QED
    BY <1>2, <1>3, <2>1, <2>2, <2>3, <2>4
<1> QED
  BY <1>2, <1>4, <1>5 DEF Marks

\* The files that recovery adds.
FullLogs == {n \in NeededLogs : buffers[n] # {}}
LogTables == {[number |-> Fresh(n), entries |-> buffers[n]] : n \in FullLogs}

LEMMA RecoveredFiles ==
  ASSUME NumbersInv
  PROVE  /\ Files(Recovered.version) \subseteq Files(manifest.version) \cup LogTables
         /\ DOMAIN Recovered.version = Levels
         /\ Recovered.log = Fresh(MaxNumber + 1) /\ Recovered.next = Recovered.log + 1
<1>1. Recovered.version = [manifest.version EXCEPT ![0] = @ \cup LogTables]
  BY DEF Recovered, LogTables, FullLogs
<1>2. DOMAIN manifest.version = Levels
  BY DEF NumbersInv
<1> HIDE DEF LogTables
<1>3. \A level \in Levels : Recovered.version[level] \subseteq manifest.version[level] \cup LogTables
  BY <1>1, <1>2
<1>4. Files(Recovered.version) \subseteq Files(manifest.version) \cup LogTables
  BY <1>3 DEF Files
<1>5. DOMAIN Recovered.version = Levels
  BY <1>1, <1>2
<1> QED
  BY <1>4, <1>5 DEF Recovered

LEMMA RecoveredNumbers ==
  ASSUME NumbersInv
  PROVE  /\ OneNumberEach(Files(Recovered.version))
         /\ NumberedBelow(Files(Recovered.version), Recovered.next)
         /\ Recovered.next \in Nat
<1>1. \A n \in FullLogs : /\ n \in NeededLogs /\ buffers[n] # {} /\ n \in Nat /\ n < MaxNumber + 1
                          /\ Fresh(n) \in Nat /\ manifest.next < Fresh(n)
  <2> SUFFICES ASSUME NEW n \in FullLogs
               PROVE  /\ n \in NeededLogs /\ buffers[n] # {} /\ n \in Nat /\ n < MaxNumber + 1
                      /\ Fresh(n) \in Nat /\ manifest.next < Fresh(n)
    OBVIOUS
  <2>1. n \in NeededLogs /\ buffers[n] # {} /\ n \in Nat /\ n < MaxNumber + 1
    BY LogFacts DEF FullLogs
  <2>2. Fresh(n) \in Nat /\ manifest.next + 1 <= Fresh(n) /\ manifest.next \in Nat
    BY FreshIsLargest, FreshIsNew, LogFacts
  <2> QED
    BY <2>1, <2>2
<1>2. \A n, m \in FullLogs : n < m => Fresh(n) < Fresh(m)
  BY <1>1, FreshGrows
<1>3. MaxNumber + 1 \in Nat /\ Fresh(MaxNumber + 1) \in Nat /\ manifest.next \in Nat
      /\ manifest.next + 1 <= Fresh(MaxNumber + 1)
  BY LogFacts, FreshIsLargest, FreshIsNew
<1>4. \A n \in FullLogs : Fresh(n) < Fresh(MaxNumber + 1)
  BY <1>1, <1>3, FreshGrows
<1>5. Recovered.log = Fresh(MaxNumber + 1) /\ Recovered.next = Recovered.log + 1
  BY RecoveredFiles
<1>6. \A f \in LogTables : \E n \in FullLogs : f = [number |-> Fresh(n), entries |-> buffers[n]]
  BY DEF LogTables
<1>7. \A f \in LogTables : f.number \in Nat /\ manifest.next < f.number /\ f.number < Recovered.next
  BY <1>1, <1>3, <1>4, <1>5, <1>6
<1>8. ASSUME NEW f \in LogTables, NEW g \in LogTables, f.number = g.number PROVE f = g
  <2>1. PICK n \in FullLogs : f = [number |-> Fresh(n), entries |-> buffers[n]]
    BY <1>6
  <2>2. PICK m \in FullLogs : g = [number |-> Fresh(m), entries |-> buffers[m]]
    BY <1>6
  <2>3. Fresh(n) = Fresh(m)
    BY <1>8, <2>1, <2>2
  <2>4. n = m
    BY <1>1, <1>2, <2>3
  <2> QED
    BY <2>1, <2>2, <2>4
<1>9. \A f \in Files(manifest.version) : f.number \in Nat /\ f.number < manifest.next
  BY DEF NumbersInv, NumberedBelow
<1>10. OneNumberEach(Files(manifest.version))
  BY LiveParts DEF NumbersInv, OneNumberEach
<1>11. Files(Recovered.version) \subseteq Files(manifest.version) \cup LogTables
  BY RecoveredFiles
<1>12. OneNumberEach(Files(Recovered.version))
  <2> SUFFICES ASSUME NEW f \in Files(manifest.version) \cup LogTables,
                      NEW g \in Files(manifest.version) \cup LogTables, f.number = g.number
               PROVE  f = g
    BY <1>11 DEF OneNumberEach
  <2> QED
    BY <1>3, <1>7, <1>8, <1>9, <1>10 DEF OneNumberEach
<1>13. NumberedBelow(Files(Recovered.version), Recovered.next)
  BY <1>3, <1>5, <1>7, <1>9, <1>11 DEF NumberedBelow
<1> QED
  BY <1>3, <1>5, <1>12, <1>13

LEMMA OpenNumbers == ASSUME NumsInv, Open PROVE NumbersInv'
<1>1. /\ ~opened /\ opened' = TRUE /\ manifest' = Recovered /\ current' = Recovered.version
      /\ nextFile' = Recovered.next /\ logFiles' = {Recovered.log}
      /\ Recovered.log \in 1..NumberLimit /\ UNCHANGED <<compact, reads>>
  BY DEF Open, bgVars, clientVars
<1>2. compact = Nil /\ \A r \in Readers : ~Held(r)
  BY <1>1 DEF NumsInv, FilesInv, ClosedShape
<1>3. Live' = Files(Recovered.version)
  <2>1. CompactFiles' = {}
    BY <1>1, <1>2 DEF CompactFiles
  <2>2. ReadFiles' = {}
    BY <1>1, <1>2 DEF ReadFiles, Held
  <2> QED
    BY <1>1, <2>1, <2>2 DEF Live
<1>4. /\ OneNumberEach(Files(Recovered.version))
      /\ NumberedBelow(Files(Recovered.version), Recovered.next)
      /\ Recovered.next \in Nat /\ DOMAIN Recovered.version = Levels
  BY RecoveredNumbers, RecoveredFiles DEF NumsInv
<1>5. logFiles' \subseteq 1..MaxNumber
  BY <1>1, LimitFacts
<1> QED
  BY <1>1, <1>3, <1>4, <1>5 DEF NumbersInv

LEMMA CutNumbers == ASSUME NumsInv, OpenIsCut PROVE NumbersInv'
<1>1. /\ ~opened /\ manifest' \in {manifest, Recovered} /\ logFiles' = logFiles \cup {Recovered.log}
      /\ Recovered.log \in 1..NumberLimit /\ UNCHANGED <<opened, current, compact, reads>>
  BY DEF OpenIsCut, bgVars, clientVars
<1>2. compact = Nil /\ (\A r \in Readers : ~Held(r)) /\ current = EmptyVersion
  BY <1>1 DEF NumsInv, FilesInv, ClosedShape, NumbersInv
<1>3. Live' = Files(manifest'.version)
  <2>1. CompactFiles' = {}
    BY <1>1, <1>2 DEF CompactFiles
  <2>2. ReadFiles' = {}
    BY <1>1, <1>2 DEF ReadFiles, Held
  <2> QED
    BY <1>1, <1>2, <2>1, <2>2, NoFiles DEF Live
<1>4. /\ OneNumberEach(Files(manifest'.version))
      /\ NumberedBelow(Files(manifest'.version), manifest'.next)
      /\ manifest'.next \in Nat /\ DOMAIN manifest'.version = Levels
  <2>1. CASE manifest' = manifest
    BY <2>1, LiveParts DEF NumsInv, NumbersInv, OneNumberEach
  <2>2. CASE manifest' = Recovered
    BY <2>2, RecoveredNumbers, RecoveredFiles DEF NumsInv
  <2> QED
    BY <1>1, <2>1, <2>2
<1>5. logFiles' \subseteq 1..MaxNumber
  <2>1. Recovered.log \in 1..MaxNumber
    BY <1>1, LimitFacts
  <2>2. logFiles \subseteq 1..MaxNumber
    BY DEF NumsInv, NumbersInv
  <2> QED
    BY <1>1, <2>1, <2>2
<1> QED
  BY <1>1, <1>2, <1>3, <1>4, <1>5 DEF NumbersInv

LEMMA EndNumbers == ASSUME NumsInv, End PROVE NumbersInv'
<1>1. /\ opened' = FALSE /\ current' = EmptyVersion /\ compact' = Nil
      /\ reads' = [r \in Readers |-> Nil] /\ UNCHANGED <<manifest, logFiles>>
  BY DEF End, diskVars
<1>2. Live' = Files(manifest.version)
  <2>1. CompactFiles' = {}
    BY <1>1 DEF CompactFiles
  <2>2. ReadFiles' = {}
    BY <1>1 DEF ReadFiles, Held
  <2> QED
    BY <1>1, <2>1, <2>2, NoFiles DEF Live
<1>3. OneNumberEach(Live')
  BY <1>2, LiveParts DEF NumsInv, NumbersInv, OneNumberEach
<1> QED
  BY <1>1, <1>2, <1>3 DEF NumsInv, NumbersInv

LEMMA StutterNumbers == ASSUME NumsInv, UNCHANGED vars PROVE NumbersInv'
<1>1. UNCHANGED <<opened, nextFile, current, compact, reads, manifest, logFiles>>
  BY DEF vars
<1>2. ReadFiles' = ReadFiles /\ CompactFiles' = CompactFiles
  BY <1>1 DEF ReadFiles, CompactFiles, Held
<1>3. Live' = Live
  BY <1>1, <1>2 DEF Live
<1> QED
  BY <1>1, <1>3 DEF NumsInv, NumbersInv

LEMMA InitNumbers == ASSUME Init PROVE NumsInv
<1>1. /\ opened = TRUE /\ current = EmptyVersion /\ compact = Nil /\ reads = [r \in Readers |-> Nil]
      /\ nextFile = 4 /\ manifest.version = EmptyVersion /\ manifest.next = 4
  BY DEF Init
<1>2. Live = {}
  <2>1. CompactFiles = {}
    BY <1>1 DEF CompactFiles
  <2>2. ReadFiles = {}
    BY <1>1 DEF ReadFiles, Held
  <2> QED
    BY <1>1, <2>1, <2>2, NoFiles DEF Live
<1>3. DOMAIN EmptyVersion = Levels
  BY DEF EmptyVersion
<1>4. logFiles \subseteq 1..MaxNumber
  BY LimitFacts DEF Init
<1>5. NumbersInv
  BY <1>1, <1>2, <1>3, <1>4, NoFiles DEF NumbersInv, OneNumberEach, NumberedBelow
<1> QED
  BY <1>5, InitIsSafe DEF NumsInv

LEMMA StepNumbers == NumsInv /\ [ManualNext]_vars => NumsInv'
<1> SUFFICES ASSUME NumsInv, [ManualNext]_vars PROVE NumsInv'
  OBVIOUS
<1> SUFFICES NumbersInv'
  BY StepKeeps DEF NumsInv
<1>2. CASE UNCHANGED vars
  BY <1>2, StutterNumbers
<1>3. ASSUME NEW level \in 0..NumLevels - 2, AutomaticCompaction(level) PROVE NumbersInv'
  BY <1>3, AutomaticNumbers
<1>4. ASSUME NEW level \in 0..NumLevels - 2, NEW begin \in Keys, NEW end \in Keys,
             ManualCompaction(level, begin, end)
      PROVE  NumbersInv'
  BY <1>4, ManualNumbers
<1>5. ASSUME NEW e \in compact.todo, WriteOutput(e) PROVE NumbersInv'
  BY <1>5, OutputNumbers
<1>6. CASE ManualNext
  BY <1>3, <1>4, <1>5, <1>6, ClientNumbers, SwitchNumbers, FlushNumbers, InstallNumbers, FinishNumbers,
     EndNumbers, OpenNumbers, CutNumbers DEF ManualNext, Next
<1> QED
  BY <1>2, <1>6

\* VersionSet::NewFileNumber and the numbers recovery marks as used: whatever is flushed,
\* compacted, moved or recovered, two tables in use at the same time never have the same
\* number.
THEOREM NumbersStayUnique == Spec => []NumbersAreUnique
<1>1. NumsInv /\ [Next]_vars => NumsInv'
  BY StepNumbers DEF ManualNext
<1>2. NumsInv => NumbersAreUnique
  BY UniqueInTheRun DEF NumsInv
<1> QED
  BY InitNumbers, <1>1, <1>2, PTL DEF Spec

\* The same where the application calls CompactRange, which may break the order of the
\* levels and not this.
THEOREM NumbersStayUniqueManually == ManualSpec => []NumbersAreUnique
<1>1. NumsInv => NumbersAreUnique
  BY UniqueInTheRun DEF NumsInv
<1> QED
  BY InitNumbers, StepNumbers, <1>1, PTL DEF ManualSpec

-----------------------------------------------------------------------------
(* The order of the levels *)

\* Most of what follows is about the keys outside a set "cut" that has every key inside
\* which an output has ended: the set does not change, "split" grows inside it.

\* The order of entries in tables of one level: two entries of one user key may be in
\* two tables where an output may have ended between them.
Precedes(cut, e, o) == e.key < o.key \/ (e.key \in cut /\ Before(e, o))

\* Where a file lies: below a user key, above one, below another file by the user keys
\* or by the entries, on one side of some files.
LiesBelow(f, key) == \A e \in f.entries : e.key < key
LiesAbove(f, key) == \A e \in f.entries : e.key > key
KeysBelow(f, g) == \A e \in f.entries, o \in g.entries : e.key < o.key
KeysApart(f, g) == KeysBelow(f, g) \/ KeysBelow(g, f)
Ahead(cut, f, g) == \A e \in f.entries, o \in g.entries : Precedes(cut, e, o)
Apart(cut, f, g) == Ahead(cut, f, g) \/ Ahead(cut, g, f)
OneSide(cut, files, g) == (\A f \in files : Ahead(cut, f, g)) \/ (\A f \in files : Ahead(cut, g, f))

\* A range that meets none of some files has all of them on one side.
NoGap(files) ==
  \A lo, hi \in Keys : lo <= hi /\ (\A f \in files : LiesBelow(f, lo) \/ LiesAbove(f, hi)) =>
    (\A f \in files : LiesBelow(f, lo)) \/ (\A f \in files : LiesAbove(f, hi))

GoodFiles(files) == \A f \in files : f.entries # {} /\ f.entries \subseteq Entry
Sorted(cut, v) == \A level \in Levels \ {0} : \A f, g \in v[level] : f = g \/ Apart(cut, f, g)
NewerAbove(cut, v) ==
  \A upper, lower \in Levels : upper < lower =>
    \A e \in Entries(v[upper]), o \in Entries(v[lower]) :
      e.key = o.key /\ e.key \notin cut => e.seq > o.seq

\* What a version is.
VersionInv(cut, v) ==
  /\ GoodFiles(Files(v)) /\ IsEntries(Entries(Files(v))) /\ Sorted(cut, v)
  /\ NewerAbove(cut, v)

\* What is compacted has no gap; each other file of the level below is on one side of it,
\* the others of its own level are newer.
InputsInv(cut, v, level, inputs) ==
  /\ level \in 0..NumLevels - 2
  /\ inputs[1] \subseteq v[level] /\ inputs[2] \subseteq v[level + 1]
  /\ NoGap(inputs[1] \cup inputs[2])
  /\ \A g \in v[level + 1] \ inputs[2] : OneSide(cut, inputs[1] \cup inputs[2], g)
  /\ \A g \in v[level] \ inputs[1] : \A e \in g.entries, o \in Entries(inputs[1]) :
       e.key = o.key /\ e.key \notin cut => e.seq > o.seq

\* What has been written so far is in order and below what is left.
OutputsInv(cut, inputs, outputs, todo) ==
  /\ todo \cup Entries(outputs) \subseteq Entries(inputs[1] \cup inputs[2])
  /\ \A f \in outputs : f.entries # {}
  /\ \A f, g \in outputs : f = g \/ Apart(cut, f, g)
  /\ \A e \in Entries(outputs), o \in todo : Precedes(cut, e, o)

Editing(kind) == edit # Nil /\ edit.kind = kind

CompactInv(cut) ==
  compact # Nil /\ ~Editing("compaction") =>
    /\ InputsInv(cut, manifest.version, compact.level, compact.inputs)
    /\ OutputsInv(cut, compact.inputs, compact.outputs, compact.todo)

\* The logs that a recovery reads are newer than the tables, each newer than the one before.
LogsInv ==
  /\ logFiles \subseteq DOMAIN buffers
  /\ \A n \in NeededLogs :
       /\ buffers[n] \subseteq Entry /\ IsEntries(buffers[n])
       /\ \A e \in buffers[n], o \in Entries(Files(manifest.version)) : o.seq < e.seq
  /\ \A n, m \in NeededLogs : n < m =>
       \A o \in buffers[n], e \in buffers[m] : o.seq < e.seq

SeqsInv ==
  /\ manifest.last \in 0..MaxWrites
  /\ \A e \in Entries(Files(manifest.version)) : e.seq <= manifest.last
  /\ opened =>
       /\ lastSeq \in 0..MaxWrites /\ manifest.last <= lastSeq
       /\ \A n \in NeededLogs : \A e \in buffers[n] : e.seq <= lastSeq

OpenInv ==
  opened =>
    /\ \A n \in logFiles : n <= mem
    /\ imm # Nil => imm < mem
    /\ imm # Nil /\ ~Editing("flush") => imm >= manifest.log /\ buffers[imm] # {}
    /\ edit = Nil => current = manifest.version
    /\ Editing("move") => compact = Nil

LevelsInv(cut) == VersionInv(cut, manifest.version) /\ CompactInv(cut) /\ LogsInv /\ SeqsInv /\ OpenInv

-----------------------------------------------------------------------------
(* First, last and what overlaps *)

LEMMA EntryIsFinite == IsFiniteSet(Entry)
<1> DEFINE types == {"value", "deletion"}
           all == (Keys \X (1..MaxWrites)) \X types
           make == [t \in all |-> [key |-> t[1][1], seq |-> t[1][2], type |-> t[2]]]
<1>1. MaxWrites \in Nat /\ IsFiniteSet(Keys)
  BY BoundsAssumption, KeysAssumption
<1>2. IsFiniteSet(1..MaxWrites)
  BY <1>1, FS_Interval
<1>3. IsFiniteSet(types)
  <2>1. IsFiniteSet({"value"}) /\ IsFiniteSet({"value"} \cup {"deletion"})
    BY FS_Singleton, FS_AddElement
  <2>2. types = {"value"} \cup {"deletion"}
    OBVIOUS
  <2> QED
    BY <2>1, <2>2
<1>4. IsFiniteSet(Keys \X (1..MaxWrites))
  BY <1>1, <1>2, FS_Product
<1>5. IsFiniteSet(all)
  BY <1>3, <1>4, FS_Product
<1>6. make \in Surjection(all, Entry)
  <2>1. \A t \in all : make[t] \in Entry
    BY DEF Entry
  <2>2. \A e \in Entry : <<<<e.key, e.seq>>, e.type>> \in all /\ make[<<<<e.key, e.seq>>, e.type>>] = e
    BY DEF Entry
  <2> HIDE DEF make, all
  <2>3. DOMAIN make = all /\ make \in [all -> Entry]
    BY <2>1 DEF make
  <2> QED
    BY <2>2, <2>3 DEF Surjection
<1> HIDE DEF make, all
<1> QED
  BY <1>5, <1>6, FS_Surjection

LEMMA EntryType ==
  ASSUME NEW e \in Entry
  PROVE  e.key \in Keys /\ e.key \in Int /\ e.seq \in Nat /\ e.seq <= MaxWrites
<1>1. e.key \in Keys /\ e.seq \in 1..MaxWrites
  BY DEF Entry
<1>2. MaxWrites \in Nat /\ Keys \subseteq Int
  BY BoundsAssumption, KeysAssumption
<1>3. \A n \in 1..MaxWrites : n \in Nat /\ n <= MaxWrites
  BY <1>2
<1> QED
  BY <1>1, <1>2, <1>3

\* Entries with a key and a sequence number of their own are in a total order.
LEMMA BeforeIsTotal ==
  ASSUME NEW S, IsEntries(S)
  PROVE  /\ \A x \in S : ~Before(x, x)
         /\ \A x, y \in S : x = y \/ Before(x, y) \/ Before(y, x)
         /\ \A x, y, z \in S : Before(x, y) /\ Before(y, z) => Before(x, z)
<1>1. \A x \in S : x.key \in Int /\ x.seq \in Nat
  BY DEF IsEntries
<1>2. \A x, y \in S : x = y \/ x.key # y.key \/ x.seq # y.seq
  BY DEF IsEntries
<1>3. \A x \in S : ~Before(x, x)
  BY <1>1 DEF Before
<1>4. \A x, y \in S : x = y \/ Before(x, y) \/ Before(y, x)
  BY <1>1, <1>2 DEF Before
<1>5. \A x, y, z \in S : Before(x, y) /\ Before(y, z) => Before(x, z)
  BY <1>1 DEF Before
<1> QED
  BY <1>3, <1>4, <1>5

LEMMA FirstIsThere ==
  ASSUME NEW S, S \subseteq Entry, S # {}, IsEntries(S)
  PROVE  First(S) \in S /\ \A x \in S : x = First(S) \/ Before(First(S), x)
<1> DEFINE under(e) == {x \in S : Before(x, e)}
           all == {under(e) : e \in S}
<1>1. IsFiniteSet(S)
  BY EntryIsFinite, FS_Subset
<1>2. IsWellFoundedOn(StrictSubsetOrdering(S), SUBSET S)
  BY <1>1, FS_FiniteSubsetsOfFinite, FS_StrictSubsetOrderingWellFounded
<1>3. all \subseteq SUBSET S /\ all # {}
  OBVIOUS
<1>4. PICK least \in all : \A other \in all : ~(<<other, least>> \in StrictSubsetOrdering(S))
  <2> HIDE DEF all
  <2> QED
    BY <1>2, <1>3, WFMin
<1>5. PICK e \in S : least = under(e)
  OBVIOUS
<1>6. ASSUME NEW x \in S, Before(x, e) PROVE FALSE
  <2>1. under(x) \subseteq under(e) /\ x \in under(e) /\ x \notin under(x)
    BY <1>6, BeforeIsTotal
  <2>2. under(x) \in all /\ under(x) \in SUBSET S /\ under(e) \in SUBSET S
    OBVIOUS
  <2> QED
    BY <1>4, <1>5, <2>1, <2>2 DEF StrictSubsetOrdering
<1>7. \A x \in S : x = e \/ Before(e, x)
  BY <1>6, BeforeIsTotal
<1> QED
  BY <1>7 DEF First

LEMMA LastIsThere ==
  ASSUME NEW S, S \subseteq Entry, S # {}, IsEntries(S)
  PROVE  Last(S) \in S /\ \A x \in S : x = Last(S) \/ Before(x, Last(S))
<1> DEFINE over(e) == {x \in S : Before(e, x)}
           all == {over(e) : e \in S}
<1>1. IsFiniteSet(S)
  BY EntryIsFinite, FS_Subset
<1>2. IsWellFoundedOn(StrictSubsetOrdering(S), SUBSET S)
  BY <1>1, FS_FiniteSubsetsOfFinite, FS_StrictSubsetOrderingWellFounded
<1>3. all \subseteq SUBSET S /\ all # {}
  OBVIOUS
<1>4. PICK least \in all : \A other \in all : ~(<<other, least>> \in StrictSubsetOrdering(S))
  <2> HIDE DEF all
  <2> QED
    BY <1>2, <1>3, WFMin
<1>5. PICK e \in S : least = over(e)
  OBVIOUS
<1>6. ASSUME NEW x \in S, Before(e, x) PROVE FALSE
  <2>1. over(x) \subseteq over(e) /\ x \in over(e) /\ x \notin over(x)
    BY <1>6, BeforeIsTotal
  <2>2. over(x) \in all /\ over(x) \in SUBSET S /\ over(e) \in SUBSET S
    OBVIOUS
  <2> QED
    BY <1>4, <1>5, <2>1, <2>2 DEF StrictSubsetOrdering
<1>7. \A x \in S : x = e \/ Before(x, e)
  BY <1>6, BeforeIsTotal
<1> QED
  BY <1>7 DEF Last

LEMMA EndsOf ==
  ASSUME NEW S, S \subseteq Entry, S # {}, IsEntries(S)
  PROVE  /\ First(S) \in S /\ Last(S) \in S
         /\ \A x \in S : First(S).key <= x.key /\ x.key <= Last(S).key
<1>1. First(S) \in S /\ \A x \in S : x = First(S) \/ Before(First(S), x)
  BY FirstIsThere
<1>2. Last(S) \in S /\ \A x \in S : x = Last(S) \/ Before(x, Last(S))
  BY LastIsThere
<1>3. \A x \in S : x.key \in Int
  BY DEF IsEntries
<1>4. \A x \in S : First(S).key <= x.key
  BY <1>1, <1>3 DEF Before
<1>5. \A x \in S : x.key <= Last(S).key
  BY <1>2, <1>3 DEF Before
<1> QED
  BY <1>1, <1>2, <1>4, <1>5

\* Files whose entries are in order together, any part of them included.
Fine(files) == GoodFiles(files) /\ IsEntries(Entries(files))

LEMMA FineParts ==
  ASSUME NEW files, Fine(files), NEW part, part \subseteq files
  PROVE  Fine(part) /\ Entries(part) \subseteq Entry /\ (part # {} => Entries(part) # {})
<1>1. GoodFiles(part)
  BY DEF Fine, GoodFiles
<1>2. Entries(part) \subseteq Entries(files)
  BY DEF Entries
<1>3. IsEntries(Entries(part))
  BY <1>2 DEF Fine, IsEntries
<1>4. Entries(part) \subseteq Entry
  BY <1>1 DEF GoodFiles, Entries
<1>5. part # {} => Entries(part) # {}
  BY <1>1 DEF GoodFiles, Entries
<1> QED
  BY <1>1, <1>3, <1>4, <1>5 DEF Fine

LEMMA FileIsFine ==
  ASSUME NEW files, Fine(files), NEW f \in files
  PROVE  f.entries # {} /\ f.entries \subseteq Entry /\ IsEntries(f.entries)
<1>1. f.entries \subseteq Entries(files)
  BY DEF Entries
<1> QED
  BY <1>1 DEF Fine, GoodFiles, IsEntries

\* GetRange: the keys of some files lie between Lo and Hi, which are keys of them.
LEMMA HullFacts ==
  ASSUME NEW files, Fine(files), files # {}
  PROVE  /\ Lo(files) \in Keys /\ Hi(files) \in Keys /\ Lo(files) <= Hi(files)
         /\ \A f \in files : \A e \in f.entries : Lo(files) <= e.key /\ e.key <= Hi(files)
         /\ \E f \in files : \E e \in f.entries : e.key = Lo(files)
         /\ \E f \in files : \E e \in f.entries : e.key = Hi(files)
<1> DEFINE S == Entries(files)
<1>1. S \subseteq Entry /\ S # {} /\ IsEntries(S)
  BY FineParts DEF Fine
<1>2. \A f \in files : \A e \in f.entries : e \in S
  BY DEF Entries
<1>3. \A e \in S : \E f \in files : e \in f.entries
  BY DEF Entries
<1> HIDE DEF S
<1>4. /\ First(S) \in S /\ Last(S) \in S
      /\ \A x \in S : First(S).key <= x.key /\ x.key <= Last(S).key
  BY <1>1, EndsOf
<1>5. First(S).key = Lo(files) /\ Last(S).key = Hi(files)
  BY DEF S, Lo, Hi
<1> QED
  BY <1>1, <1>2, <1>3, <1>4, <1>5, EntryType

LEMMA OverlapMeans ==
  ASSUME NEW files, Fine(files), NEW f \in files, NEW lo \in Int, NEW hi \in Int
  PROVE  /\ Overlaps(f, lo, hi) <=> ~LiesBelow(f, lo) /\ ~LiesAbove(f, hi)
         /\ Smallest(f) \in f.entries /\ Largest(f) \in f.entries
         /\ Smallest(f).key \in Keys /\ Largest(f).key \in Keys
         /\ \A e \in f.entries : Smallest(f).key <= e.key /\ e.key <= Largest(f).key
<1>1. f.entries # {} /\ f.entries \subseteq Entry /\ IsEntries(f.entries)
  BY FileIsFine
<1>2. /\ Smallest(f) \in f.entries /\ Largest(f) \in f.entries
      /\ \A e \in f.entries : Smallest(f).key <= e.key /\ e.key <= Largest(f).key
  BY <1>1, EndsOf DEF Smallest, Largest
<1>3. \A e \in f.entries : e.key \in Int /\ e.key \in Keys
  BY <1>1, EntryType
<1>4. LiesBelow(f, lo) <=> Largest(f).key < lo
  BY <1>2, <1>3 DEF LiesBelow
<1>5. LiesAbove(f, hi) <=> Smallest(f).key > hi
  BY <1>2, <1>3 DEF LiesAbove
<1>6. Overlaps(f, lo, hi) <=> ~(Largest(f).key < lo) /\ ~(Smallest(f).key > hi)
  BY <1>2, <1>3 DEF Overlaps
<1> QED
  BY <1>2, <1>3, <1>4, <1>5, <1>6

LEMMA WiderOverlaps ==
  ASSUME NEW files, Fine(files), NEW f \in files,
         NEW lo \in Int, NEW hi \in Int, Overlaps(f, lo, hi), NEW a \in Int, NEW b \in Int, a <= lo, hi <= b
  PROVE  Overlaps(f, a, b)
<1>1. \A e \in f.entries : e.key \in Int
  BY FileIsFine, EntryType
<1>2. ~LiesBelow(f, lo) /\ ~LiesAbove(f, hi)
  BY OverlapMeans
<1>3. ~LiesBelow(f, a) /\ ~LiesAbove(f, b)
  BY <1>1, <1>2 DEF LiesBelow, LiesAbove
<1> QED
  BY <1>3, OverlapMeans

-----------------------------------------------------------------------------
(* What GetOverlappingInputs takes *)

\* On level 0 files widen the range and may bring others in.
From(S, lo) == IF S = {} \/ Lo(S) > lo THEN lo ELSE Lo(S)
To(S, hi) == IF S = {} \/ Hi(S) < hi THEN hi ELSE Hi(S)
Widened(files, S, lo, hi) == {f \in files : Overlaps(f, From(S, lo), To(S, hi))}
Reach(files, lo, hi) ==
  {f \in files : \A S \in {P \in SUBSET files : P = Widened(files, P, lo, hi)} : f \in S}

LEMMA RangeFacts ==
  ASSUME NEW files, Fine(files), NEW S, S \subseteq files, NEW lo \in Keys, NEW hi \in Keys
  PROVE  /\ From(S, lo) \in Keys /\ From(S, lo) \in Int /\ From(S, lo) <= lo
         /\ To(S, hi) \in Keys /\ To(S, hi) \in Int /\ hi <= To(S, hi)
         /\ \A f \in S : \A e \in f.entries : From(S, lo) <= e.key /\ e.key <= To(S, hi)
         /\ From(S, lo) = lo \/ \E f \in S : \E e \in f.entries : e.key = From(S, lo)
         /\ To(S, hi) = hi \/ \E f \in S : \E e \in f.entries : e.key = To(S, hi)
<1>1. lo \in Int /\ hi \in Int /\ Keys \subseteq Int
  BY KeysAssumption
<1>2. CASE S = {}
  BY <1>1, <1>2 DEF From, To
<1>3. CASE S # {}
  <2>1. /\ Lo(S) \in Keys /\ Hi(S) \in Keys
        /\ \A f \in S : \A e \in f.entries : Lo(S) <= e.key /\ e.key <= Hi(S)
        /\ \E f \in S : \E e \in f.entries : e.key = Lo(S)
        /\ \E f \in S : \E e \in f.entries : e.key = Hi(S)
    BY <1>3, FineParts, HullFacts
  <2>2. \A f \in S : \A e \in f.entries : e.key \in Int
    BY FileIsFine, EntryType
  <2> DEFINE a == Lo(S)
             b == Hi(S)
  <2>3. From(S, lo) = (IF a > lo THEN lo ELSE a) /\ To(S, hi) = (IF b < hi THEN hi ELSE b)
    BY <1>3 DEF From, To
  <2>4. a \in Int /\ b \in Int /\ a \in Keys /\ b \in Keys
    BY <1>1, <2>1
  <2> HIDE DEF a, b
  <2>5. From(S, lo) \in {lo, a} /\ From(S, lo) <= lo /\ From(S, lo) <= a
    BY <1>1, <2>3, <2>4
  <2>6. To(S, hi) \in {hi, b} /\ hi <= To(S, hi) /\ b <= To(S, hi)
    BY <1>1, <2>3, <2>4
  <2>7. From(S, lo) \in Keys /\ From(S, lo) \in Int /\ To(S, hi) \in Keys /\ To(S, hi) \in Int
    BY <1>1, <2>4, <2>5, <2>6
  <2>8. \A f \in S : \A e \in f.entries : a <= e.key /\ e.key <= b
    BY <2>1 DEF a, b
  <2>9. \A f \in S : \A e \in f.entries : From(S, lo) <= e.key /\ e.key <= To(S, hi)
    BY <2>2, <2>4, <2>5, <2>6, <2>7, <2>8
  <2>10. From(S, lo) = lo \/ \E f \in S : \E e \in f.entries : e.key = From(S, lo)
    BY <2>1, <2>5 DEF a
  <2>11. To(S, hi) = hi \/ \E f \in S : \E e \in f.entries : e.key = To(S, hi)
    BY <2>1, <2>6 DEF b
  <2> QED
    BY <2>5, <2>6, <2>7, <2>9, <2>10, <2>11
<1> QED
  BY <1>2, <1>3

LEMMA WidenedGrows ==
  ASSUME NEW files, Fine(files), NEW lo \in Keys, NEW hi \in Keys,
         NEW S, NEW T, S \subseteq T, T \subseteq files
  PROVE  Widened(files, S, lo, hi) \subseteq Widened(files, T, lo, hi)
<1> DEFINE a == From(S, lo)
           b == To(S, hi)
           c == From(T, lo)
           d == To(T, hi)
<1>1. /\ a \in Int /\ b \in Int /\ c \in Int /\ d \in Int /\ c <= lo /\ hi <= d
      /\ \A f \in T : \A e \in f.entries : c <= e.key /\ e.key <= d
      /\ a = lo \/ \E f \in S : \E e \in f.entries : e.key = a
      /\ b = hi \/ \E f \in S : \E e \in f.entries : e.key = b
  BY RangeFacts
<1>2. c <= a /\ b <= d
  BY <1>1
<1> HIDE DEF a, b, c, d
<1>4. ASSUME NEW f \in files, Overlaps(f, a, b) PROVE Overlaps(f, c, d)
  BY <1>1, <1>2, <1>4, WiderOverlaps
<1>5. Widened(files, S, lo, hi) = {f \in files : Overlaps(f, a, b)}
  BY DEF Widened, a, b
<1>6. Widened(files, T, lo, hi) = {f \in files : Overlaps(f, c, d)}
  BY DEF Widened, c, d
<1> QED
  BY <1>4, <1>5, <1>6

\* The loop on level 0 ends with the least set that holds all that overlaps its range.
LEMMA ReachIsLeast ==
  ASSUME NEW files, Fine(files), NEW lo \in Keys, NEW hi \in Keys
  PROVE  /\ Reach(files, lo, hi) \subseteq files
         /\ Reach(files, lo, hi) = Widened(files, Reach(files, lo, hi), lo, hi)
         /\ \A P \in SUBSET files : Widened(files, P, lo, hi) \subseteq P => Reach(files, lo, hi) \subseteq P
<1> DEFINE W(S) == Widened(files, S, lo, hi)
           closed == {P \in SUBSET files : W(P) \subseteq P}
           least == {f \in files : \A P \in closed : f \in P}
<1>1. \A S \in SUBSET files : W(S) \subseteq files
  BY DEF Widened
<1>2. \A S, T \in SUBSET files : S \subseteq T => W(S) \subseteq W(T)
  BY WidenedGrows
<1>3. \A P \in closed : least \subseteq P /\ P \in SUBSET files /\ W(P) \subseteq P
  OBVIOUS
<1>4. least \in SUBSET files
  OBVIOUS
<1> HIDE DEF W
<1>5. \A P \in closed : W(least) \subseteq P
  BY <1>2, <1>3, <1>4
<1>6. W(least) \subseteq least
  BY <1>1, <1>4, <1>5
<1>7. W(least) \in SUBSET files /\ W(W(least)) \subseteq W(least)
  BY <1>1, <1>2, <1>4, <1>6
<1>8. least \subseteq W(least)
  BY <1>7
<1>9. least = W(least)
  BY <1>6, <1>8
<1>10. Reach(files, lo, hi) = {f \in files : \A S \in {P \in SUBSET files : P = W(P)} : f \in S}
  BY DEF Reach, W
<1>11. {P \in SUBSET files : P = W(P)} \subseteq closed
  OBVIOUS
<1>12. least \in {P \in SUBSET files : P = W(P)}
  BY <1>4, <1>9
<1>13. Reach(files, lo, hi) = least
  <2>1. Reach(files, lo, hi) \subseteq least
    BY <1>10, <1>12
  <2>2. least \subseteq Reach(files, lo, hi)
    BY <1>10, <1>11
  <2> QED
    BY <2>1, <2>2
<1>14. \A P \in SUBSET files : W(P) \subseteq P => least \subseteq P
  OBVIOUS
<1>15. \A P \in SUBSET files : Widened(files, P, lo, hi) \subseteq P => least \subseteq P
  BY <1>14 DEF W
<1>16. least = Widened(files, least, lo, hi)
  BY <1>9 DEF W
<1> QED
  BY <1>4, <1>13, <1>15, <1>16

\* What is apart by its keys is apart.
LEMMA KeysOrder ==
  ASSUME NEW cut, NEW f, NEW g
  PROVE  /\ KeysBelow(f, g) => Ahead(cut, f, g) /\ Apart(cut, f, g) /\ Apart(cut, g, f)
         /\ KeysApart(f, g) => Apart(cut, f, g) /\ Apart(cut, g, f)
BY DEF KeysBelow, KeysApart, Ahead, Apart, Precedes

\* What a range misses is on one side of the files that the range holds.
LEMMA MissedIsAside ==
  ASSUME NEW files, Fine(files), NEW S, S \subseteq files, NEW lo \in Int, NEW hi \in Int,
         \A f \in S : \A e \in f.entries : lo <= e.key /\ e.key <= hi,
         NEW g \in files, ~Overlaps(g, lo, hi)
  PROVE  \/ LiesBelow(g, lo) /\ \A f \in S : KeysBelow(g, f)
         \/ LiesAbove(g, hi) /\ \A f \in S : KeysBelow(f, g)
<1>1. LiesBelow(g, lo) \/ LiesAbove(g, hi)
  BY OverlapMeans
<1>2. \A f \in files : \A e \in f.entries : e.key \in Int
  BY FileIsFine, EntryType
<1>3. CASE LiesBelow(g, lo)
  <2>1. ASSUME NEW f \in S PROVE KeysBelow(g, f)
    BY <1>2, <1>3, <2>1 DEF LiesBelow, KeysBelow
  <2> QED
    BY <1>3, <2>1
<1>4. CASE LiesAbove(g, hi)
  <2>1. ASSUME NEW f \in S PROVE KeysBelow(f, g)
    BY <1>2, <1>4, <2>1 DEF LiesAbove, KeysBelow
  <2> QED
    BY <1>4, <2>1
<1> QED
  BY <1>1, <1>3, <1>4

\* A file that has a key in a range overlaps it.
LEMMA KeyIsMet ==
  ASSUME NEW files, Fine(files), NEW f \in files, NEW lo \in Int, NEW hi \in Int,
         NEW e \in f.entries, lo <= e.key, e.key <= hi
  PROVE  Overlaps(f, lo, hi)
<1>1. e.key \in Int
  BY FileIsFine, EntryType
<1>2. ~LiesBelow(f, lo) /\ ~LiesAbove(f, hi)
  BY <1>1 DEF LiesBelow, LiesAbove
<1> QED
  BY <1>2, OverlapMeans

\* A range that meets no file of Reach and lies to one side of its start has all
\* of it on the other.
LEMMA ReachHasNoGap ==
  ASSUME NEW files, Fine(files), NEW lo \in Keys, NEW hi \in Keys, lo <= hi,
         NEW a \in Keys, NEW b \in Keys, a <= b,
         \A f \in Reach(files, lo, hi) : LiesBelow(f, a) \/ LiesAbove(f, b)
  PROVE  /\ hi < a => \A f \in Reach(files, lo, hi) : LiesBelow(f, a)
         /\ b < lo => \A f \in Reach(files, lo, hi) : LiesAbove(f, b)
<1> DEFINE C == Reach(files, lo, hi)
           W(S) == Widened(files, S, lo, hi)
<1>1. /\ C \subseteq files /\ C = W(C)
      /\ \A P \in SUBSET files : W(P) \subseteq P => C \subseteq P
  BY ReachIsLeast
<1>2. a \in Int /\ b \in Int /\ lo \in Int /\ hi \in Int
  BY KeysAssumption
<1>3. \A f \in files : f.entries # {} /\ \A e \in f.entries : e.key \in Int
  BY FileIsFine, EntryType
<1>4. ASSUME hi < a PROVE \A f \in C : LiesBelow(f, a)
  <2> DEFINE P == {f \in C : LiesBelow(f, a)}
  <2>1. P \subseteq C /\ P \in SUBSET files
    BY <1>1
  <2>2. W(P) \subseteq C
    BY <1>1, <2>1, WidenedGrows
  <2>3. ASSUME NEW f \in W(P) PROVE LiesBelow(f, a)
    <3>1. /\ From(P, lo) \in Int /\ To(P, hi) \in Int
          /\ To(P, hi) = hi \/ \E g \in P : \E e \in g.entries : e.key = To(P, hi)
      BY <2>1, RangeFacts
    <3>2. To(P, hi) < a
      BY <1>4, <3>1 DEF LiesBelow
    <3>3. f \in files /\ Overlaps(f, From(P, lo), To(P, hi))
      BY <2>3 DEF Widened
    <3>4. ~LiesAbove(f, To(P, hi))
      BY <3>1, <3>3, OverlapMeans
    <3>5. ~LiesAbove(f, b)
      BY <1>2, <1>3, <3>1, <3>2, <3>3, <3>4 DEF LiesAbove
    <3> QED
      BY <2>2, <2>3, <3>5
  <2>4. W(P) \subseteq P
    BY <2>2, <2>3
  <2> QED
    BY <1>1, <2>1, <2>4
<1>5. ASSUME b < lo PROVE \A f \in C : LiesAbove(f, b)
  <2> DEFINE P == {f \in C : LiesAbove(f, b)}
  <2>1. P \subseteq C /\ P \in SUBSET files
    BY <1>1
  <2>2. W(P) \subseteq C
    BY <1>1, <2>1, WidenedGrows
  <2>3. ASSUME NEW f \in W(P) PROVE LiesAbove(f, b)
    <3>1. /\ From(P, lo) \in Int /\ To(P, hi) \in Int
          /\ From(P, lo) = lo \/ \E g \in P : \E e \in g.entries : e.key = From(P, lo)
      BY <2>1, RangeFacts
    <3>2. b < From(P, lo)
      BY <1>5, <3>1 DEF LiesAbove
    <3>3. f \in files /\ Overlaps(f, From(P, lo), To(P, hi))
      BY <2>3 DEF Widened
    <3>4. ~LiesBelow(f, From(P, lo))
      BY <3>1, <3>3, OverlapMeans
    <3>5. ~LiesBelow(f, a)
      BY <1>2, <1>3, <3>1, <3>2, <3>3, <3>4 DEF LiesBelow
    <3> QED
      BY <2>2, <2>3, <3>5
  <2>4. W(P) \subseteq P
    BY <2>2, <2>3
  <2> QED
    BY <1>1, <2>1, <2>4
<1> QED
  BY <1>4, <1>5

\* The files of a level that a range brings together: all that overlap it, and none is
\* left out that is not apart from them; a range outside the first that meets none of
\* them has them all on one side.
LEMMA OverlappingInputs ==
  ASSUME NEW cut, NEW v, Fine(Files(v)), Sorted(cut, v), NEW level \in Levels, NEW lo \in Keys, NEW hi \in Keys, lo <= hi
  PROVE  LET taken == GetOverlappingInputs(v, level, lo, hi)
         IN  /\ taken \subseteq v[level]
             /\ \A f \in v[level] : Overlaps(f, lo, hi) => f \in taken
             /\ \A f \in taken : \A g \in v[level] \ taken : Apart(cut, f, g)
             /\ \A a, b \in Keys :
                  a <= b /\ (\A f \in taken : LiesBelow(f, a) \/ LiesAbove(f, b)) =>
                    /\ hi < a => \A f \in taken : LiesBelow(f, a)
                    /\ b < lo => \A f \in taken : LiesAbove(f, b)
<1> DEFINE taken == GetOverlappingInputs(v, level, lo, hi)
<1>1. Fine(v[level])
  BY FineParts DEF Files
<1>2. lo \in Int /\ hi \in Int /\ Keys \subseteq Int
  BY KeysAssumption
<1>3. \A f \in v[level] : f.entries # {} /\ \A e \in f.entries : e.key \in Int
  BY <1>1, FileIsFine, EntryType
<1>4. CASE level = 0
  <2>1. taken = Reach(v[level], lo, hi)
    BY <1>4 DEF GetOverlappingInputs, Reach, Widened, From, To
  <2>2. taken \subseteq v[level] /\ taken = Widened(v[level], taken, lo, hi)
    BY <1>1, <2>1, ReachIsLeast
  <2>3. \A a, b \in Keys :
          a <= b /\ (\A f \in taken : LiesBelow(f, a) \/ LiesAbove(f, b)) =>
            /\ hi < a => \A f \in taken : LiesBelow(f, a)
            /\ b < lo => \A f \in taken : LiesAbove(f, b)
    BY <1>1, <2>1, ReachHasNoGap
  <2> HIDE DEF taken
  <2> DEFINE from == From(taken, lo)
             to == To(taken, hi)
  <2>4. /\ from \in Int /\ to \in Int /\ from <= lo /\ hi <= to
        /\ \A f \in taken : \A e \in f.entries : from <= e.key /\ e.key <= to
    BY <1>1, <2>2, RangeFacts
  <2>5. taken = {f \in v[level] : Overlaps(f, from, to)}
    BY <2>2 DEF Widened
  <2> HIDE DEF from, to
  <2>6. ASSUME NEW f \in v[level], Overlaps(f, lo, hi) PROVE f \in taken
    <3>1. Overlaps(f, from, to)
      BY <1>1, <1>2, <2>4, <2>6, WiderOverlaps
    <3> QED
      BY <2>5, <3>1
  <2>7. ASSUME NEW g \in v[level] \ taken PROVE \A f \in taken : Apart(cut, f, g)
    <3>1. ~Overlaps(g, from, to)
      BY <2>5, <2>7
    <3>2. (\A f \in taken : KeysBelow(g, f)) \/ (\A f \in taken : KeysBelow(f, g))
      BY <1>1, <2>2, <2>4, <2>7, <3>1, MissedIsAside
    <3> QED
      BY <3>2, KeysOrder
  <2> QED
    BY <2>2, <2>3, <2>6, <2>7 DEF taken
<1>5. CASE level # 0
  <2>1. taken = {f \in v[level] : Overlaps(f, lo, hi)}
    BY <1>5 DEF GetOverlappingInputs
  <2> HIDE DEF taken
  <2>2. \A f \in taken : \A g \in v[level] \ taken : Apart(cut, f, g)
    BY <1>5, <2>1 DEF Sorted
  <2>3. \A f \in taken : ~LiesBelow(f, lo) /\ ~LiesAbove(f, hi) /\ f \in v[level]
    BY <1>1, <1>2, <2>1, OverlapMeans
  <2>4. ASSUME NEW a \in Keys, NEW b \in Keys, a <= b,
               \A f \in taken : LiesBelow(f, a) \/ LiesAbove(f, b)
        PROVE  /\ hi < a => \A f \in taken : LiesBelow(f, a)
               /\ b < lo => \A f \in taken : LiesAbove(f, b)
    <3>1. a \in Int /\ b \in Int
      BY <1>2
    <3>2. ASSUME hi < a, NEW f \in taken PROVE LiesBelow(f, a)
      <4>1. ~LiesAbove(f, b)
        BY <1>2, <1>3, <2>3, <2>4, <3>1, <3>2 DEF LiesAbove
      <4> QED
        BY <2>4, <4>1
    <3>3. ASSUME b < lo, NEW f \in taken PROVE LiesAbove(f, b)
      <4>1. ~LiesBelow(f, a)
        BY <1>2, <1>3, <2>3, <2>4, <3>1, <3>3 DEF LiesBelow
      <4> QED
        BY <2>4, <4>1
    <3> QED
      BY <3>2, <3>3
  <2> QED
    BY <2>1, <2>2, <2>4 DEF taken
<1> QED
  BY <1>4, <1>5

-----------------------------------------------------------------------------
(* What PickCompaction takes *)

\* The files of a version, with levels that are apart.
Proper(cut, v) == Fine(Files(v)) /\ Sorted(cut, v)

LEMMA LevelFiles ==
  ASSUME NEW v, NEW level \in Levels
  PROVE  v[level] \subseteq Files(v)
BY DEF Files

\* The other set follows from the first.
LEMMA InputsFit ==
  ASSUME NEW cut, NEW v, Proper(cut, v), NEW level \in 0..NumLevels - 2,
         NEW A, A \subseteq v[level], A # {},
         \A f \in A : \A g \in v[level] \ A : Apart(cut, f, g),
         NEW N, N = GetOverlappingInputs(v, level + 1, Lo(A), Hi(A)),
         NEW M, M \subseteq N, NoGap(A \cup M)
  PROVE  InputsInv(cut, v, level, <<A, N>>)
<1>1. level \in Levels /\ level + 1 \in Levels
  BY LevelsAssumption DEF Levels
<1>2. A \subseteq Files(v) /\ Fine(Files(v)) /\ Fine(A)
  BY <1>1, LevelFiles, FineParts DEF Proper
<1>3. /\ Lo(A) \in Keys /\ Hi(A) \in Keys /\ Lo(A) <= Hi(A)
      /\ \A f \in A : \A e \in f.entries : Lo(A) <= e.key /\ e.key <= Hi(A)
      /\ \E f \in A : \E e \in f.entries : e.key = Lo(A)
      /\ \E f \in A : \E e \in f.entries : e.key = Hi(A)
  BY <1>2, HullFacts
<1>4. Keys \subseteq Int
  BY KeysAssumption
<1>5. /\ N \subseteq v[level + 1]
      /\ \A f \in v[level + 1] : Overlaps(f, Lo(A), Hi(A)) => f \in N
      /\ \A f \in N : \A g \in v[level + 1] \ N : Apart(cut, f, g)
      /\ \A a, b \in Keys :
           a <= b /\ (\A f \in N : LiesBelow(f, a) \/ LiesAbove(f, b)) =>
             /\ Hi(A) < a => \A f \in N : LiesBelow(f, a)
             /\ b < Lo(A) => \A f \in N : LiesAbove(f, b)
  BY <1>1, <1>2, <1>3, OverlappingInputs DEF Proper
<1>6. ASSUME NEW a \in Keys, NEW b \in Keys, a <= b,
             \A f \in A \cup N : LiesBelow(f, a) \/ LiesAbove(f, b)
      PROVE  (\A f \in A \cup N : LiesBelow(f, a)) \/ (\A f \in A \cup N : LiesAbove(f, b))
  <2>1. (\A f \in A \cup M : LiesBelow(f, a)) \/ (\A f \in A \cup M : LiesAbove(f, b))
    BY <1>6 DEF NoGap
  <2>2. CASE \A f \in A : LiesBelow(f, a)
    <3>1. Hi(A) < a
      BY <1>3, <2>2 DEF LiesBelow
    <3>2. \A f \in N : LiesBelow(f, a)
      BY <1>5, <1>6, <3>1
    <3> QED
      BY <2>2, <3>2
  <2>3. CASE \A f \in A : LiesAbove(f, b)
    <3>1. b < Lo(A)
      BY <1>3, <1>4, <2>3 DEF LiesAbove
    <3>2. \A f \in N : LiesAbove(f, b)
      BY <1>5, <1>6, <3>1
    <3> QED
      BY <2>3, <3>2
  <2> QED
    BY <2>1, <2>2, <2>3
<1>7. NoGap(A \cup N)
  BY <1>6 DEF NoGap
<1>8. ASSUME NEW g \in v[level + 1] \ N PROVE OneSide(cut, A \cup N, g)
  <2>1. ~Overlaps(g, Lo(A), Hi(A)) /\ g \in Files(v)
    BY <1>1, <1>5, <1>8, LevelFiles
  <2>2. \A f \in N : f \in Files(v) /\ Apart(cut, f, g) /\ Overlaps(f, Lo(A), Hi(A))
    <3>1. \A f \in N : f \in Files(v) /\ Apart(cut, f, g)
      BY <1>1, <1>5, <1>8, LevelFiles
    <3>2. N = {f \in v[level + 1] : Overlaps(f, Lo(A), Hi(A))}
      BY DEF GetOverlappingInputs
    <3> QED
      BY <3>1, <3>2
  <2>3. Lo(A) \in Int /\ Hi(A) \in Int
    BY <1>3, <1>4
  <2>4. /\ \A f \in N : ~LiesBelow(f, Lo(A)) /\ ~LiesAbove(f, Hi(A))
        /\ \A f \in Files(v) : f.entries # {} /\ \A e \in f.entries : e.key \in Int
    BY <1>2, <2>2, <2>3, OverlapMeans, FileIsFine, EntryType
  <2>5. \/ LiesBelow(g, Lo(A)) /\ \A f \in A : KeysBelow(g, f)
        \/ LiesAbove(g, Hi(A)) /\ \A f \in A : KeysBelow(f, g)
    BY <1>2, <1>3, <2>1, <2>3, MissedIsAside
  <2>6. CASE LiesBelow(g, Lo(A)) /\ \A f \in A : KeysBelow(g, f)
    <3>1. ASSUME NEW f \in N PROVE ~Ahead(cut, f, g)
      BY <2>1, <2>2, <2>3, <2>4, <2>6, <3>1 DEF LiesBelow, Ahead, Precedes, Before
    <3>2. \A f \in A \cup N : Ahead(cut, g, f)
      BY <2>2, <2>6, <3>1, KeysOrder DEF Apart
    <3> QED
      BY <3>2 DEF OneSide
  <2>7. CASE LiesAbove(g, Hi(A)) /\ \A f \in A : KeysBelow(f, g)
    <3>1. ASSUME NEW f \in N PROVE ~Ahead(cut, g, f)
      BY <2>1, <2>2, <2>3, <2>4, <2>7, <3>1 DEF LiesAbove, Ahead, Precedes, Before
    <3>2. \A f \in A \cup N : Ahead(cut, f, g)
      BY <2>2, <2>7, <3>1, KeysOrder DEF Apart
    <3> QED
      BY <3>2 DEF OneSide
  <2> QED
    BY <2>5, <2>6, <2>7
<1>9. ASSUME NEW g \in v[level] \ A, NEW e \in g.entries, NEW o \in Entries(A), e.key = o.key, e.key \notin cut
      PROVE  FALSE
  <2>1. PICK f \in A : o \in f.entries
    BY <1>9 DEF Entries
  <2>2. Apart(cut, f, g)
    BY <1>9, <2>1
  <2>3. e.key \in Int /\ o.key \in Int
    <3>1. g \in Files(v) /\ f \in Files(v)
      BY <1>1, <1>2, <1>9, <2>1, LevelFiles
    <3> QED
      BY <1>2, <1>9, <2>1, <3>1, FileIsFine, EntryType
  <2> QED
    BY <1>9, <2>1, <2>2, <2>3 DEF Apart, Ahead, Precedes
<1> QED
  BY <1>5, <1>7, <1>8, <1>9 DEF InputsInv

LEMMA SetupFits ==
  ASSUME NEW cut, NEW v, Proper(cut, v), NEW level \in 0..NumLevels - 2,
         NEW first, first \subseteq v[level], first # {}, NoGap(first),
         \A f \in first : \A g \in v[level] \ first : Apart(cut, f, g),
         NEW inputs \in SetupOtherInputs(v, level, first)
  PROVE  InputsInv(cut, v, level, inputs)
<1> DEFINE next == GetOverlappingInputs(v, level + 1, Lo(first), Hi(first))
           all == first \cup next
           expanded == GetOverlappingInputs(v, level, Lo(all), Hi(all))
           expandedNext == GetOverlappingInputs(v, level + 1, Lo(expanded), Hi(expanded))
<1>1. inputs \in {<<first, next>>, <<expanded, expandedNext>>}
  BY DEF SetupOtherInputs
<1>2. level \in Levels /\ level + 1 \in Levels /\ level + 1 # 0 /\ Fine(Files(v)) /\ Keys \subseteq Int
  BY LevelsAssumption, KeysAssumption DEF Levels, Proper
<1>3. InputsInv(cut, v, level, <<first, next>>)
  <2>1. first \cup {} = first
    OBVIOUS
  <2> HIDE DEF next
  <2>2. {} \subseteq next /\ NoGap(first \cup {})
    BY <2>1
  <2>3. next = GetOverlappingInputs(v, level + 1, Lo(first), Hi(first))
    BY DEF next
  <2> QED
    BY <2>2, <2>3, InputsFit
<1>4. next \subseteq v[level + 1] /\ NoGap(all)
  BY <1>3 DEF InputsInv
<1>5. all \subseteq Files(v) /\ all # {} /\ first \subseteq Files(v)
  BY <1>2, <1>4, LevelFiles
<1>6. /\ Lo(all) \in Keys /\ Hi(all) \in Keys /\ Lo(all) <= Hi(all)
      /\ \A f \in all : \A e \in f.entries : Lo(all) <= e.key /\ e.key <= Hi(all)
      /\ \E f \in all : \E e \in f.entries : e.key = Lo(all)
      /\ \E f \in all : \E e \in f.entries : e.key = Hi(all)
  <2> HIDE DEF all
  <2> QED
    BY <1>2, <1>5, FineParts, HullFacts
<1>7. /\ expanded \subseteq v[level]
      /\ \A f \in v[level] : Overlaps(f, Lo(all), Hi(all)) => f \in expanded
      /\ \A f \in expanded : \A g \in v[level] \ expanded : Apart(cut, f, g)
      /\ \A a, b \in Keys :
           a <= b /\ (\A f \in expanded : LiesBelow(f, a) \/ LiesAbove(f, b)) =>
             /\ Hi(all) < a => \A f \in expanded : LiesBelow(f, a)
             /\ b < Lo(all) => \A f \in expanded : LiesAbove(f, b)
  <2> HIDE DEF all
  <2> QED
    BY <1>2, <1>6, OverlappingInputs DEF Proper
<1>8. first \subseteq expanded
  <2> SUFFICES ASSUME NEW f \in first PROVE Overlaps(f, Lo(all), Hi(all))
    BY <1>7
  <2>1. PICK e \in f.entries : TRUE
    BY <1>2, <1>5, FileIsFine
  <2>2. f \in all /\ f \in Files(v)
    BY <1>5
  <2>3. Lo(all) <= e.key /\ e.key <= Hi(all)
    BY <1>6, <2>2
  <2> HIDE DEF all
  <2> QED
    BY <1>2, <1>6, <2>1, <2>2, <2>3, KeyIsMet
<1> HIDE DEF expanded
<1>9. ASSUME NEW a \in Keys, NEW b \in Keys, a <= b,
             \A f \in expanded \cup next : LiesBelow(f, a) \/ LiesAbove(f, b)
      PROVE  (\A f \in expanded \cup next : LiesBelow(f, a)) \/ (\A f \in expanded \cup next : LiesAbove(f, b))
  <2>1. (\A f \in all : LiesBelow(f, a)) \/ (\A f \in all : LiesAbove(f, b))
    BY <1>4, <1>8, <1>9 DEF NoGap
  <2>2. CASE \A f \in all : LiesBelow(f, a)
    <3>1. Hi(all) < a
      BY <1>6, <2>2 DEF LiesBelow
    <3>2. \A f \in expanded : LiesBelow(f, a)
      BY <1>7, <1>9, <3>1
    <3> QED
      BY <2>2, <3>2
  <2>3. CASE \A f \in all : LiesAbove(f, b)
    <3>1. b < Lo(all)
      BY <1>2, <1>6, <2>3 DEF LiesAbove
    <3>2. \A f \in expanded : LiesAbove(f, b)
      BY <1>7, <1>9, <3>1
    <3> QED
      BY <2>3, <3>2
  <2> QED
    BY <2>1, <2>2, <2>3
<1>10. NoGap(expanded \cup next)
  BY <1>9 DEF NoGap
<1>11. expanded # {} /\ expanded \subseteq Files(v)
  BY <1>2, <1>7, <1>8, LevelFiles
<1>12. /\ Lo(expanded) \in Keys /\ Hi(expanded) \in Keys /\ Lo(expanded) <= Hi(expanded)
       /\ \A f \in expanded : \A e \in f.entries : Lo(expanded) <= e.key /\ e.key <= Hi(expanded)
  BY <1>2, <1>11, FineParts, HullFacts
<1>13. /\ Lo(first) \in Keys /\ Hi(first) \in Keys
       /\ \E f \in first : \E e \in f.entries : e.key = Lo(first)
       /\ \E f \in first : \E e \in f.entries : e.key = Hi(first)
  BY <1>2, <1>5, FineParts, HullFacts
<1>14. Lo(expanded) <= Lo(first) /\ Hi(first) <= Hi(expanded)
  BY <1>8, <1>12, <1>13
<1>15. \A f \in next : Overlaps(f, Lo(first), Hi(first)) /\ f \in v[level + 1]
  BY <1>2, <1>4 DEF GetOverlappingInputs
<1>16. next \subseteq expandedNext
  <2>1. expandedNext = {f \in v[level + 1] : Overlaps(f, Lo(expanded), Hi(expanded))}
    BY <1>2 DEF GetOverlappingInputs
  <2> HIDE DEF expandedNext
  <2> SUFFICES ASSUME NEW f \in next PROVE Overlaps(f, Lo(expanded), Hi(expanded))
    BY <1>15, <2>1
  <2>2. f \in Files(v) /\ Overlaps(f, Lo(first), Hi(first))
    BY <1>2, <1>15, LevelFiles
  <2>3. /\ Lo(first) \in Int /\ Hi(first) \in Int
        /\ Lo(expanded) \in Int /\ Hi(expanded) \in Int
    BY <1>2, <1>12, <1>13
  <2> QED
    BY <1>2, <1>14, <2>2, <2>3, WiderOverlaps
<1>17. InputsInv(cut, v, level, <<expanded, expandedNext>>)
  <2>1. expandedNext = GetOverlappingInputs(v, level + 1, Lo(expanded), Hi(expanded))
    OBVIOUS
  <2> HIDE DEF expandedNext, next
  <2> QED
    BY <1>7, <1>10, <1>11, <1>16, <2>1, InputsFit
<1> QED
  BY <1>1, <1>3, <1>17

LEMMA PickFits ==
  ASSUME NEW cut, NEW v, Proper(cut, v), NEW level \in 0..NumLevels - 2, NEW file \in v[level],
         NEW inputs \in PickCompaction(v, level, file)
  PROVE  InputsInv(cut, v, level, inputs)
<1>1. level \in Levels /\ Fine(Files(v)) /\ Keys \subseteq Int /\ file \in Files(v)
  BY LevelsAssumption, KeysAssumption DEF Levels, Proper, Files
<1>2. CASE level = 0
  <2> DEFINE lo == Smallest(file).key
             hi == Largest(file).key
             first == GetOverlappingInputs(v, 0, lo, hi)
  <2>1. /\ Smallest(file) \in file.entries /\ lo \in Keys /\ hi \in Keys /\ lo <= hi
        /\ \A e \in file.entries : lo <= e.key /\ e.key <= hi
    <3>1. /\ Smallest(file) \in file.entries /\ lo \in Keys /\ hi \in Keys
          /\ \A e \in file.entries : lo <= e.key /\ e.key <= hi
      BY <1>1, OverlapMeans, KeysAssumption
    <3> QED
      BY <3>1
  <2> HIDE DEF lo, hi
  <2>2. /\ first \subseteq v[level]
        /\ \A f \in v[level] : Overlaps(f, lo, hi) => f \in first
        /\ \A f \in first : \A g \in v[level] \ first : Apart(cut, f, g)
        /\ \A a, b \in Keys :
             a <= b /\ (\A f \in first : LiesBelow(f, a) \/ LiesAbove(f, b)) =>
               /\ hi < a => \A f \in first : LiesBelow(f, a)
               /\ b < lo => \A f \in first : LiesAbove(f, b)
    BY <1>1, <1>2, <2>1, OverlappingInputs DEF Proper
  <2> HIDE DEF first
  <2>3. file \in first
    <3>1. PICK e \in file.entries : TRUE
      BY <2>1
    <3>2. Overlaps(file, lo, hi)
      BY <1>1, <2>1, <3>1, KeyIsMet
    <3> QED
      BY <2>2, <3>2
  <2>4. NoGap(first)
    <3> SUFFICES ASSUME NEW a \in Keys, NEW b \in Keys, a <= b,
                        \A f \in first : LiesBelow(f, a) \/ LiesAbove(f, b)
                 PROVE  (\A f \in first : LiesBelow(f, a)) \/ (\A f \in first : LiesAbove(f, b))
      BY DEF NoGap
    <3>1. hi < a \/ b < lo
      <4>1. \E e \in file.entries : e.key = lo
        BY <2>1 DEF lo
      <4>2. \E e \in file.entries : e.key = hi
        BY <1>1, OverlapMeans, KeysAssumption DEF hi
      <4>3. LiesBelow(file, a) \/ LiesAbove(file, b)
        BY <2>3
      <4> QED
        BY <1>1, <2>1, <4>1, <4>2, <4>3 DEF LiesBelow, LiesAbove
    <3> QED
      BY <2>2, <3>1
  <2>5. inputs \in SetupOtherInputs(v, level, first)
    BY <1>2 DEF PickCompaction, first, lo, hi
  <2> QED
    BY <2>2, <2>3, <2>4, <2>5, SetupFits
<1>3. CASE level # 0
  <2>1. inputs \in SetupOtherInputs(v, level, {file})
    BY <1>3 DEF PickCompaction
  <2>2. NoGap({file})
    BY DEF NoGap
  <2>3. \A f \in {file} : \A g \in v[level] \ {file} : Apart(cut, f, g)
    BY <1>1, <1>3 DEF Proper, Sorted
  <2> DEFINE first == {file}
  <2>4. first \subseteq v[level] /\ first # {}
    OBVIOUS
  <2> HIDE DEF first
  <2> QED
    BY <2>1, <2>2, <2>3, <2>4, SetupFits DEF first
<1> QED
  BY <1>2, <1>3

-----------------------------------------------------------------------------
(* Versions that follow from others *)

LEMMA EntriesOf ==
  ASSUME NEW files, NEW e
  PROVE  e \in Entries(files) <=> \E f \in files : e \in f.entries
BY DEF Entries

LEMMA VersionFacts ==
  ASSUME NEW cut, NEW v, VersionInv(cut, v)
  PROVE  /\ Proper(cut, v) /\ Entries(Files(v)) \subseteq Entry
         /\ \A level \in Levels : \A f \in v[level] :
              /\ f.entries # {} /\ f.entries \subseteq Entry /\ f.entries \subseteq Entries(Files(v))
              /\ \A e \in f.entries : e.key \in Int /\ e.seq \in Nat
<1>1. Proper(cut, v)
  BY DEF VersionInv, Proper, Fine
<1>2. Entries(Files(v)) \subseteq Entry
  BY <1>1, FineParts DEF Proper
<1>3. ASSUME NEW level \in Levels, NEW f \in v[level]
      PROVE  /\ f.entries # {} /\ f.entries \subseteq Entry /\ f.entries \subseteq Entries(Files(v))
             /\ \A e \in f.entries : e.key \in Int /\ e.seq \in Nat
  <2>1. f \in Files(v)
    BY <1>3, LevelFiles
  <2>2. f.entries # {} /\ f.entries \subseteq Entry
    BY <1>1, <2>1, FileIsFine DEF Proper
  <2>3. f.entries \subseteq Entries(Files(v))
    BY <2>1 DEF Entries
  <2> QED
    BY <2>2, <2>3, EntryType
<1> QED
  BY <1>1, <1>2, <1>3

\* Every entry of a merge was in its inputs, on their levels.
LEMMA InputEntries ==
  ASSUME NEW cut, NEW v, NEW level, NEW inputs, InputsInv(cut, v, level, inputs),
         NEW e \in Entries(inputs[1] \cup inputs[2])
  PROVE  \/ e \in Entries(inputs[1]) /\ e \in Entries(v[level])
         \/ e \in Entries(inputs[2]) /\ e \in Entries(v[level + 1])
BY DEF InputsInv, Entries

LEMMA IncludedEntries ==
  ASSUME NEW A, NEW B, A \subseteq B
  PROVE  Entries(A) \subseteq Entries(B)
BY DEF Entries

\* What is made of the entries of some files lies where they do.
LEMMA OutputIsApart ==
  ASSUME NEW cut, NEW v, NEW level, NEW inputs, InputsInv(cut, v, level, inputs),
         NEW f, f.entries \subseteq Entries(inputs[1] \cup inputs[2]), NEW g \in v[level + 1] \ inputs[2]
  PROVE  Apart(cut, f, g)
<1> DEFINE all == inputs[1] \cup inputs[2]
<1>1. OneSide(cut, all, g)
  BY DEF InputsInv
<1>2. \A e \in f.entries : \E h \in all : e \in h.entries
  BY EntriesOf
<1>3. CASE \A h \in all : Ahead(cut, h, g)
  BY <1>2, <1>3 DEF Ahead, Apart
<1>4. CASE \A h \in all : Ahead(cut, g, h)
  BY <1>2, <1>4 DEF Ahead, Apart
<1> QED
  BY <1>1, <1>3, <1>4 DEF OneSide

\* A file that is apart by its keys from all of some files without a gap is on one
\* side of them.
LEMMA GapIsAside ==
  ASSUME NEW cut, NEW all, Fine(all), NoGap(all), NEW g, Fine({g}), \A h \in all : KeysApart(g, h)
  PROVE  OneSide(cut, all, g)
<1> DEFINE lo == Smallest(g).key
           hi == Largest(g).key
<1>1. Keys \subseteq Int /\ 0 \in Int /\ g \in {g}
  BY KeysAssumption
<1>2. /\ lo \in Keys /\ hi \in Keys
      /\ \E e \in g.entries : e.key = lo
      /\ \E e \in g.entries : e.key = hi
      /\ \A e \in g.entries : lo <= e.key /\ e.key <= hi
  <2> DEFINE files == {g}
  <2>1. Fine(files) /\ g \in files
    OBVIOUS
  <2> HIDE DEF files
  <2> QED
    BY <1>1, <2>1, OverlapMeans
<1>3. \A h \in all : h.entries # {} /\ \A e \in h.entries : e.key \in Int
  BY FileIsFine, EntryType
<1> HIDE DEF lo, hi
<1>4. lo <= hi /\ lo \in Int /\ hi \in Int
  BY <1>1, <1>2
<1>5. \A h \in all : LiesBelow(h, lo) \/ LiesAbove(h, hi)
  BY <1>2 DEF KeysApart, KeysBelow, LiesBelow, LiesAbove
<1>6. (\A h \in all : LiesBelow(h, lo)) \/ (\A h \in all : LiesAbove(h, hi))
  BY <1>2, <1>4, <1>5 DEF NoGap
<1>7. \A e \in g.entries : e.key \in Int
  BY FileIsFine, EntryType
<1>8. CASE \A h \in all : LiesBelow(h, lo)
  <2>1. \A h \in all : KeysBelow(h, g)
    BY <1>2, <1>3, <1>4, <1>7, <1>8 DEF LiesBelow, KeysBelow
  <2> QED
    BY <2>1, KeysOrder DEF OneSide
<1>9. CASE \A h \in all : LiesAbove(h, hi)
  <2>1. \A h \in all : KeysBelow(g, h)
    BY <1>2, <1>3, <1>4, <1>7, <1>9 DEF LiesAbove, KeysBelow
  <2> QED
    BY <2>1, KeysOrder DEF OneSide
<1> QED
  BY <1>6, <1>8, <1>9

\* InstallCompactionResults, and a trivial move: inputs go, outputs come one level below.
LEMMA MergeKeeps ==
  ASSUME NEW cut, NEW v, VersionInv(cut, v), NEW level, NEW inputs, InputsInv(cut, v, level, inputs),
         NEW outputs, OutputsInv(cut, inputs, outputs, {}), NEW w,
         \A l \in Levels \ {level, level + 1} : w[l] \subseteq v[l],
         w[level] \subseteq v[level] \ inputs[1],
         w[level + 1] \subseteq (v[level + 1] \ inputs[2]) \cup outputs
  PROVE  VersionInv(cut, w) /\ Entries(Files(w)) \subseteq Entries(Files(v))
<1>1. level \in Levels /\ level + 1 \in Levels /\ level \in Int
  BY LevelsAssumption DEF InputsInv, Levels
<1>2. /\ Proper(cut, v) /\ Entries(Files(v)) \subseteq Entry
      /\ \A l \in Levels : \A f \in v[l] : f.entries # {} /\ f.entries \subseteq Entries(Files(v))
  BY VersionFacts
<1>3. \A f \in outputs : f.entries # {} /\ f.entries \subseteq Entries(inputs[1] \cup inputs[2])
  BY EntriesOf DEF OutputsInv
<1>4. Entries(inputs[1] \cup inputs[2]) \subseteq Entries(Files(v))
  <2>1. inputs[1] \cup inputs[2] \subseteq Files(v)
    BY <1>1, LevelFiles DEF InputsInv
  <2> QED
    BY <2>1, IncludedEntries
<1>5. ASSUME NEW l \in Levels, NEW f \in w[l]
      PROVE  f \in v[l] \/ (l = level + 1 /\ f \in outputs)
  BY <1>5
<1>6. ASSUME NEW f \in Files(w) PROVE f.entries # {} /\ f.entries \subseteq Entries(Files(v))
  <2>1. PICK l \in Levels : f \in w[l]
    BY <1>6 DEF Files
  <2> QED
    BY <1>2, <1>3, <1>4, <1>5, <2>1
<1>7. Entries(Files(w)) \subseteq Entries(Files(v)) /\ GoodFiles(Files(w))
  BY <1>2, <1>6, EntriesOf DEF GoodFiles
<1>8. IsEntries(Entries(Files(w)))
  BY <1>7 DEF VersionInv, IsEntries
<1>9. ASSUME NEW l \in Levels \ {0}, NEW f \in w[l], NEW g \in w[l] PROVE f = g \/ Apart(cut, f, g)
  <2>1. CASE l # level + 1
    BY <1>5, <1>9, <2>1 DEF VersionInv, Sorted
  <2>2. CASE l = level + 1
    <3>1. f \in v[level + 1] \ inputs[2] \/ f \in outputs
      BY <1>9, <2>2
    <3>2. g \in v[level + 1] \ inputs[2] \/ g \in outputs
      BY <1>9, <2>2
    <3>3. CASE f \in outputs /\ g \in outputs
      BY <3>3 DEF OutputsInv
    <3>4. CASE f \in outputs /\ g \in v[level + 1] \ inputs[2]
      BY <1>3, <3>4, OutputIsApart
    <3>5. CASE g \in outputs /\ f \in v[level + 1] \ inputs[2]
      <4>1. Apart(cut, g, f)
        BY <1>3, <3>5, OutputIsApart
      <4> QED
        BY <4>1 DEF Apart
    <3>6. CASE f \in v[level + 1] /\ g \in v[level + 1]
      BY <1>9, <2>2, <3>6 DEF VersionInv, Sorted
    <3> QED
      BY <3>1, <3>2, <3>3, <3>4, <3>5, <3>6
  <2> QED
    BY <2>1, <2>2
<1>10. Sorted(cut, w)
  BY <1>9 DEF Sorted
<1>11. ASSUME NEW l \in Levels, NEW e \in Entries(w[l])
       PROVE  \/ e \in Entries(v[l])
              \/ l = level + 1 /\ e \in Entries(inputs[1]) /\ e \in Entries(v[level])
  <2>1. PICK f \in w[l] : e \in f.entries
    BY <1>11, EntriesOf
  <2>2. CASE f \in v[l]
    BY <2>1, <2>2, EntriesOf
  <2>3. CASE l = level + 1 /\ f \in outputs
    <3>1. e \in Entries(inputs[1] \cup inputs[2])
      BY <1>3, <2>1, <2>3
    <3> QED
      BY <2>3, <3>1, InputEntries
  <2> QED
    BY <1>5, <2>1, <2>2, <2>3
<1>12. ASSUME NEW e \in Entries(w[level]), e.key \notin cut
       PROVE  \A o \in Entries(inputs[1]) : e.key = o.key => e.seq > o.seq
  <2>1. PICK f \in w[level] : e \in f.entries
    BY <1>12, EntriesOf
  <2> QED
    BY <1>12, <2>1 DEF InputsInv
<1>13. ASSUME NEW upper \in Levels, NEW lower \in Levels, upper < lower,
              NEW e \in Entries(w[upper]), NEW o \in Entries(w[lower]), e.key = o.key, e.key \notin cut
       PROVE  e.seq > o.seq
  <2>0. upper \in Int /\ lower \in Int
    BY LevelsAssumption DEF Levels
  <2>1. PICK i \in Levels : e \in Entries(v[i]) /\ i <= upper /\ (i = upper \/ (upper = level + 1 /\ i = level))
    <3>1. CASE e \in Entries(v[upper])
      BY <2>0, <3>1
    <3>2. CASE upper = level + 1 /\ e \in Entries(v[level])
      <4>1. level <= upper
        BY <1>1, <3>2
      <4> QED
        BY <1>1, <3>2, <4>1
    <3> QED
      BY <1>11, <1>13, <3>1, <3>2
  <2>2. CASE o \in Entries(v[lower])
    <3>1. i < lower
      BY <1>13, <2>1 DEF Levels
    <3> QED
      BY <1>13, <2>1, <2>2, <3>1 DEF VersionInv, NewerAbove
  <2>3. CASE lower = level + 1 /\ o \in Entries(inputs[1]) /\ o \in Entries(v[level])
    <3>1. i = upper /\ upper <= level
      BY <1>1, <1>13, <2>1, <2>3 DEF Levels
    <3>2. CASE upper = level
      BY <1>12, <1>13, <2>3, <3>2
    <3>3. CASE upper # level
      <4>1. upper < level
        BY <1>1, <3>1, <3>3 DEF Levels
      <4> QED
        BY <1>1, <1>13, <2>1, <2>3, <3>1, <4>1 DEF VersionInv, NewerAbove
    <3> QED
      BY <3>2, <3>3
  <2> QED
    BY <1>11, <1>13, <2>2, <2>3
<1>14. NewerAbove(cut, w)
  BY <1>13 DEF NewerAbove
<1> QED
  BY <1>7, <1>8, <1>10, <1>14 DEF VersionInv

\* A flush, and a recovery: newer entries come to a level, apart from what is there and
\* above, unless it is level 0.
Fits(v, new, level) ==
  /\ level \in Levels /\ GoodFiles(new) /\ IsEntries(Entries(new))
  /\ \A e \in Entries(new), o \in Entries(Files(v)) : o.seq < e.seq
  /\ level > 0 => /\ \A f, g \in new : f = g
                  /\ \A above \in 0..level : \A g \in v[above] : \A f \in new : KeysApart(f, g)

LEMMA ApartKeys ==
  ASSUME NEW f, NEW g, KeysApart(f, g), f.entries \subseteq Entry, g.entries \subseteq Entry,
         NEW e \in f.entries, NEW o \in g.entries
  PROVE  e.key # o.key
<1>1. e.key \in Int /\ o.key \in Int
  BY EntryType
<1> QED
  BY <1>1 DEF KeysApart, KeysBelow

LEMMA NewerKeeps ==
  ASSUME NEW cut, NEW v, VersionInv(cut, v), NEW new, NEW level, Fits(v, new, level), NEW w,
         \A l \in Levels \ {level} : w[l] = v[l], w[level] = v[level] \cup new
  PROVE  VersionInv(cut, w) /\ Entries(Files(w)) = Entries(Files(v)) \cup Entries(new)
<1>1. level \in Levels /\ GoodFiles(new) /\ IsEntries(Entries(new))
      /\ \A e \in Entries(new), o \in Entries(Files(v)) : o.seq < e.seq
  BY DEF Fits
<1>2. /\ Proper(cut, v) /\ Entries(Files(v)) \subseteq Entry /\ IsEntries(Entries(Files(v)))
      /\ \A l \in Levels : \A f \in v[l] : f.entries \subseteq Entry /\ f.entries \subseteq Entries(Files(v))
  BY VersionFacts DEF VersionInv
<1>3. Files(w) = Files(v) \cup new
  <2>1. Files(w) \subseteq Files(v) \cup new
    BY DEF Files
  <2>2. Files(v) \subseteq Files(w)
    <3>1. \A l \in Levels : v[l] \subseteq w[l]
      OBVIOUS
    <3> QED
      BY <3>1 DEF Files
  <2>3. new \subseteq Files(w)
    BY <1>1 DEF Files
  <2> QED
    BY <2>1, <2>2, <2>3
<1>4. Entries(Files(w)) = Entries(Files(v)) \cup Entries(new)
  BY <1>3 DEF Entries
<1>5. GoodFiles(Files(w))
  BY <1>1, <1>3 DEF GoodFiles, VersionInv
<1>6. IsEntries(Entries(Files(w)))
  <2> DEFINE A == Entries(Files(v))
             B == Entries(new)
  <2> HIDE DEF A, B
  <2>1. IsEntries(A) /\ IsEntries(B) /\ \A e \in B, o \in A : o.seq < e.seq
    BY <1>1, <1>2 DEF A, B
  <2>2. \A e \in A \cup B : e.key \in Int /\ e.seq \in Nat
    BY <2>1 DEF IsEntries
  <2>3. \A e \in B, o \in A : o.seq # e.seq
    BY <2>1, <2>2
  <2>4. \A e, o \in A \cup B : e.key = o.key /\ e.seq = o.seq => e = o
    BY <2>1, <2>3 DEF IsEntries
  <2>5. IsEntries(A \cup B)
    BY <2>2, <2>4 DEF IsEntries
  <2> QED
    BY <1>4, <2>5 DEF A, B
<1>7. level > 0 \/ level = 0
  BY <1>1 DEF Levels
<1>8. ASSUME NEW l \in Levels \ {0}, NEW f \in w[l], NEW g \in w[l] PROVE f = g \/ Apart(cut, f, g)
  <2>1. CASE l # level \/ (f \in v[l] /\ g \in v[l])
    BY <1>8, <2>1 DEF VersionInv, Sorted
  <2>2. CASE l = level
    <3>1. level > 0 /\ level \in 0..level
      BY <1>1, <1>7, <1>8, <2>2 DEF Levels
    <3>2. (\A x, y \in new : x = y) /\ \A x \in new, y \in v[level] : Apart(cut, x, y) /\ Apart(cut, y, x)
      BY <3>1, KeysOrder DEF Fits
    <3>3. CASE f \in new /\ g \in v[level]
      BY <3>2, <3>3
    <3>4. CASE g \in new /\ f \in v[level]
      BY <3>2, <3>4
    <3> QED
      BY <1>8, <2>1, <2>2, <3>2, <3>3, <3>4
  <2> QED
    BY <2>1, <2>2
<1>9. Sorted(cut, w)
  BY <1>8 DEF Sorted
<1>10. \A l \in Levels : Entries(w[l]) = Entries(v[l]) \cup (IF l = level THEN Entries(new) ELSE {})
  BY DEF Entries
<1>11. ASSUME NEW l \in Levels, l < level, NEW e \in Entries(v[l]), NEW o \in Entries(new) PROVE e.key # o.key
  <2>1. PICK g \in v[l] : e \in g.entries
    BY <1>11, EntriesOf
  <2>2. PICK f \in new : o \in f.entries
    BY <1>11, EntriesOf
  <2>3. level > 0 /\ l \in 0..level
    BY <1>1, <1>11 DEF Levels
  <2>4. KeysApart(f, g)
    BY <2>1, <2>2, <2>3 DEF Fits
  <2>5. f.entries \subseteq Entry /\ g.entries \subseteq Entry
    BY <1>1, <1>2, <2>1, <2>2 DEF GoodFiles
  <2> QED
    BY <2>1, <2>2, <2>4, <2>5, ApartKeys
<1>12. ASSUME NEW l \in Levels, NEW e \in Entries(new), NEW o \in Entries(v[l]) PROVE e.seq > o.seq
  <2>1. v[l] \subseteq Files(v)
    BY LevelFiles
  <2>2. o \in Entries(Files(v))
    BY <2>1, IncludedEntries
  <2>3. o.seq < e.seq /\ e.seq \in Nat /\ o.seq \in Nat
    BY <1>1, <1>2, <2>2 DEF IsEntries
  <2> QED
    BY <2>3
<1>13. ASSUME NEW upper \in Levels, NEW lower \in Levels, upper < lower,
              NEW e \in Entries(w[upper]), NEW o \in Entries(w[lower]), e.key = o.key, e.key \notin cut
       PROVE  e.seq > o.seq
  <2>1. CASE e \in Entries(v[upper]) /\ o \in Entries(v[lower])
    BY <1>13, <2>1 DEF VersionInv, NewerAbove
  <2>2. CASE upper = level /\ e \in Entries(new) /\ o \in Entries(v[lower])
    BY <1>12, <2>2
  <2>3. CASE lower = level /\ o \in Entries(new) /\ e \in Entries(v[upper])
    BY <1>11, <1>13, <2>3
  <2>4. upper # lower
    BY <1>13 DEF Levels
  <2> QED
    BY <1>10, <1>13, <2>1, <2>2, <2>3, <2>4
<1>14. NewerAbove(cut, w)
  BY <1>13 DEF NewerAbove
<1> QED
  BY <1>4, <1>5, <1>6, <1>9, <1>14 DEF VersionInv

\* What a compaction has chosen stays as it was said to be.
LEMMA NewerKeepsInputs ==
  ASSUME NEW cut, NEW v, VersionInv(cut, v), NEW new, NEW level, Fits(v, new, level), NEW w,
         \A l \in Levels \ {level} : w[l] = v[l], w[level] = v[level] \cup new,
         NEW from, NEW inputs, InputsInv(cut, v, from, inputs)
  PROVE  InputsInv(cut, w, from, inputs)
<1>1. from \in Levels /\ from + 1 \in Levels /\ from \in Nat /\ level \in Levels
  BY LevelsAssumption DEF InputsInv, Levels, Fits
<1>2. \A l \in Levels : w[l] = v[l] \cup (IF l = level THEN new ELSE {})
  OBVIOUS
<1>3. inputs[1] \subseteq w[from] /\ inputs[2] \subseteq w[from + 1]
  BY <1>1, <1>2 DEF InputsInv
<1>4. ASSUME NEW g \in w[from + 1] \ inputs[2] PROVE OneSide(cut, inputs[1] \cup inputs[2], g)
  <2>1. CASE g \in v[from + 1]
    BY <1>4, <2>1 DEF InputsInv
  <2>2. CASE from + 1 = level /\ g \in new
    <3> DEFINE all == inputs[1] \cup inputs[2]
    <3>1. level > 0 /\ from \in 0..level /\ from + 1 \in 0..level
      BY <1>1, <2>2
    <3>2. \A f \in all : KeysApart(g, f)
      BY <2>2, <3>1 DEF Fits, InputsInv
    <3>3. all \subseteq Files(v) /\ Fine(Files(v)) /\ NoGap(all)
      BY <1>1, LevelFiles, VersionFacts DEF InputsInv, Proper
    <3>4. Fine(all)
      <4> HIDE DEF all
      <4> QED
        BY <3>3, FineParts
    <3>5. Fine({g})
      <4> DEFINE one == {g}
      <4>1. one \subseteq new /\ Fine(new)
        BY <2>2 DEF Fits, Fine
      <4> HIDE DEF one
      <4>2. Fine(one)
        BY <4>1, FineParts
      <4> QED
        BY <4>2 DEF one
    <3> HIDE DEF all
    <3>6. OneSide(cut, all, g)
      BY <3>2, <3>3, <3>4, <3>5, GapIsAside
    <3> QED
      BY <3>6 DEF all
  <2> QED
    BY <1>1, <1>2, <1>4, <2>1, <2>2
<1>5. ASSUME NEW g \in w[from] \ inputs[1], NEW e \in g.entries, NEW o \in Entries(inputs[1]),
             e.key = o.key, e.key \notin cut
      PROVE  e.seq > o.seq
  <2>1. CASE g \in v[from]
    BY <1>5, <2>1 DEF InputsInv
  <2>2. CASE g \in new
    <3>1. e \in Entries(new)
      BY <1>5, <2>2, EntriesOf
    <3>2. inputs[1] \subseteq Files(v)
      BY <1>1, LevelFiles DEF InputsInv
    <3>3. o \in Entries(Files(v))
      BY <3>2, IncludedEntries
    <3>4. o.seq < e.seq /\ e.seq \in Nat /\ o.seq \in Nat
      BY <3>1, <3>3 DEF Fits, IsEntries, VersionInv
    <3> QED
      BY <3>4
  <2> QED
    BY <1>1, <1>2, <1>5, <2>1, <2>2
<1>6. NoGap(inputs[1] \cup inputs[2]) /\ from \in 0..NumLevels - 2
  BY DEF InputsInv
<1> QED
  BY <1>3, <1>4, <1>5, <1>6 DEF InputsInv

\* PickLevelForMemTableOutput: a table goes below level 0 only past levels it is apart from.
LEMMA PickedLevelFits ==
  ASSUME NEW cut, NEW v, VersionInv(cut, v), NEW f, f.entries # {}, f.entries \subseteq Entry, IsEntries(f.entries),
         \A e \in f.entries, o \in Entries(Files(v)) : o.seq < e.seq,
         NEW level \in PickLevelForMemTableOutput(v, Lo({f}), Hi({f}))
  PROVE  Fits(v, {f}, level)
<1> DEFINE lo == Lo({f})
           hi == Hi({f})
<1>1. Entries({f}) = f.entries
  BY DEF Entries
<1>2. Fine({f})
  BY <1>1 DEF Fine, GoodFiles
<1>3. lo \in Keys /\ hi \in Keys /\ lo \in Int /\ hi \in Int /\ \A e \in f.entries : lo <= e.key /\ e.key <= hi
  BY <1>2, HullFacts, KeysAssumption
<1>4. level \in 0..MaxMemCompactLevel /\ (level > 0 => \A above \in 0..level : ~OverlapInLevel(v, above, lo, hi))
  BY DEF PickLevelForMemTableOutput
<1>5. level \in Levels /\ \A above \in 0..level : above \in Levels
  BY <1>4, LevelsAssumption DEF Levels
<1> HIDE DEF lo, hi
<1>6. ASSUME level > 0, NEW above \in 0..level, NEW g \in v[above] PROVE KeysApart(f, g)
  <2>1. ~OverlapInLevel(v, above, lo, hi)
    BY <1>4, <1>6
  <2>2. ~Overlaps(g, lo, hi)
    BY <1>6, <2>1 DEF OverlapInLevel, Overlaps
  <2>3. Fine(Files(v)) /\ g \in Files(v)
    BY <1>5, <1>6, VersionFacts, LevelFiles DEF Proper
  <2>4. LiesBelow(g, lo) \/ LiesAbove(g, hi)
    BY <1>3, <2>2, <2>3, OverlapMeans
  <2>5. (\A e \in f.entries : e.key \in Int) /\ \A e \in g.entries : e.key \in Int
    BY <2>3, FileIsFine, EntryType
  <2>6. CASE LiesBelow(g, lo)
    <3>1. \A o \in g.entries : o.key < lo
      BY <2>6 DEF LiesBelow
    <3>2. \A e \in f.entries, o \in g.entries : o.key < e.key
      BY <1>3, <2>5, <3>1
    <3> QED
      BY <3>2 DEF KeysApart, KeysBelow
  <2>7. CASE LiesAbove(g, hi)
    <3>1. \A o \in g.entries : o.key > hi
      BY <2>7 DEF LiesAbove
    <3>2. \A e \in f.entries, o \in g.entries : e.key < o.key
      BY <1>3, <2>5, <3>1
    <3> QED
      BY <3>2 DEF KeysApart, KeysBelow
  <2> QED
    BY <2>4, <2>6, <2>7
<1> QED
  BY <1>1, <1>2, <1>5, <1>6 DEF Fits, Fine

-----------------------------------------------------------------------------
(* The steps keep the levels in order *)

\* What the invariants say together about the logs.
LEMMA LogNumbers ==
  ASSUME NEW cut, NumsInv, LevelsInv(cut)
  PROVE  /\ \A n \in logFiles : n \in Nat /\ n \in DOMAIN buffers
         /\ \A n : n \in NeededLogs <=> n \in logFiles /\ n >= manifest.log
         /\ manifest.log \in Nat /\ manifest.log \in NeededLogs
         /\ opened => /\ mem \in NeededLogs /\ mem \in Nat /\ nextFile \in Nat /\ mem < nextFile
                      /\ \A n \in NeededLogs : n <= mem
                      /\ imm # Nil => imm \in Nat /\ imm < mem
                      /\ imm # Nil /\ imm >= manifest.log => imm \in NeededLogs
<1>1. \A n \in logFiles : n \in Nat /\ n \in DOMAIN buffers
  <2>1. logFiles \subseteq 1..MaxNumber /\ MaxNumber \in Nat
    BY LimitFacts DEF NumsInv, NumbersInv
  <2> QED
    BY <2>1 DEF LevelsInv, LogsInv
<1>2. \A n : n \in NeededLogs <=> n \in logFiles /\ n >= manifest.log
  BY DEF NeededLogs
<1>3. manifest.log \in Nat /\ manifest.log \in logFiles
  BY DEF NumsInv, FilesInv, NeededFilesExist
<1>4. manifest.log \in NeededLogs
  BY <1>2, <1>3
<1>5. ASSUME opened
      PROVE  /\ mem \in logFiles /\ mem \in Nat /\ nextFile \in Nat /\ mem < nextFile /\ manifest.log <= mem
             /\ \A n \in logFiles : n <= mem
             /\ imm # Nil => imm \in Nat /\ imm < mem
             /\ imm # Nil /\ imm >= manifest.log => imm \in logFiles
  BY <1>5, OpenFacts DEF NumsInv, OpenShape, LevelsInv, OpenInv
<1>6. opened => mem \in NeededLogs
  BY <1>2, <1>3, <1>5
<1>7. \A n \in NeededLogs : n \in logFiles
  BY <1>2
<1>8. opened /\ imm # Nil /\ imm >= manifest.log => imm \in NeededLogs
  BY <1>2, <1>5
<1> QED
  BY <1>1, <1>2, <1>3, <1>4, <1>5, <1>6, <1>7, <1>8

\* Fewer logs, and no table entry that is new.
LEMMA LogsStay ==
  ASSUME LogsInv, logFiles' \subseteq DOMAIN buffers',
         \A n \in NeededLogs' : n \in NeededLogs /\ buffers'[n] = buffers[n],
         Entries(Files(manifest'.version)) \subseteq Entries(Files(manifest.version))
  PROVE  LogsInv'
BY DEF LogsInv

LEMMA SeqsStay ==
  ASSUME NEW cut, NumsInv, LevelsInv(cut),
         \A n \in NeededLogs' : n \in NeededLogs /\ buffers'[n] = buffers[n],
         Entries(Files(manifest'.version)) \subseteq Entries(Files(manifest.version)),
         opened' => opened /\ lastSeq' = lastSeq,
         manifest' = manifest \/ (opened /\ manifest'.last = lastSeq)
  PROVE  SeqsInv'
<1>1. MaxWrites \in Nat /\ SeqsInv
  BY BoundsAssumption DEF LevelsInv
<1>2. \A e \in Entries(Files(manifest.version)) : e.seq \in Nat
  BY VersionFacts, EntryType DEF LevelsInv
<1>3. CASE manifest' = manifest
  BY <1>1, <1>3 DEF SeqsInv
<1>4. CASE opened /\ manifest'.last = lastSeq
  <2>1. /\ lastSeq \in 0..MaxWrites /\ lastSeq \in Nat /\ manifest.last \in Nat /\ manifest.last <= lastSeq
        /\ \A n \in NeededLogs : \A e \in buffers[n] : e.seq <= lastSeq
    BY <1>1, <1>4 DEF SeqsInv
  <2>2. \A e \in Entries(Files(manifest.version)) : e.seq <= lastSeq
    BY <1>1, <1>2, <2>1 DEF SeqsInv
  <2>3. manifest'.last \in 0..MaxWrites /\ \A e \in Entries(Files(manifest'.version)) : e.seq <= manifest'.last
    BY <1>4, <2>1, <2>2
  <2>4. opened' =>
          /\ lastSeq' \in 0..MaxWrites /\ manifest'.last <= lastSeq'
          /\ \A n \in NeededLogs' : \A e \in buffers'[n] : e.seq <= lastSeq'
    BY <1>4, <2>1
  <2> QED
    BY <2>3, <2>4 DEF SeqsInv
<1> QED
  BY <1>3, <1>4

\* Freeing memtables keeps the logs.
LEMMA FreeKeeps ==
  ASSUME FreeBuffers, logFiles' \subseteq logFiles, logFiles \subseteq DOMAIN buffers
  PROVE  /\ logFiles' \subseteq DOMAIN buffers' /\ \A n \in DOMAIN buffers' : buffers'[n] = buffers[n]
         /\ imm' \in DOMAIN buffers => imm' \in DOMAIN buffers'
<1> DEFINE read == UNION {{reads'[r].mem, reads'[r].imm} : r \in {s \in Readers : reads'[s] # Nil}}
<1>1. buffers' = [n \in DOMAIN buffers \cap ({mem', imm'} \cup logFiles' \cup read) |-> buffers[n]]
  BY DEF FreeBuffers
<1> HIDE DEF read
<1> QED
  BY <1>1

LEMMA EditIsSomething ==
  ASSUME NEW kind \in {"flush", "move", "compaction"}, NEW log \in Nat, edit = [kind |-> kind, log |-> log]
  PROVE  edit # Nil /\ edit.kind = kind
BY NilAssumption DEF Edit

\* Steps that leave the manifest, the edit and the compaction alone.
LEMMA RestStays ==
  ASSUME NEW cut, LevelsInv(cut), UNCHANGED <<manifest, edit, compact>>
  PROVE  VersionInv(cut, manifest.version)' /\ CompactInv(cut)'
BY DEF LevelsInv, CompactInv, Editing

LEMMA StutterLevels ==
  ASSUME NEW cut, LevelsInv(cut),
         UNCHANGED <<opened, lastSeq, buffers, mem, imm, current, compact, edit,
                     manifest, logFiles>>
  PROVE  LevelsInv(cut)'
<1>1. NeededLogs' = NeededLogs
  BY DEF NeededLogs
<1>2. LogsInv' /\ SeqsInv' /\ OpenInv'
  BY <1>1 DEF LevelsInv, LogsInv, SeqsInv, OpenInv, Editing
<1> QED
  BY <1>2, RestStays DEF LevelsInv

LEMMA WriteLevels ==
  ASSUME NEW cut, NumsInv, LevelsInv(cut), NEW input \in Inputs, Write(input[1], input[2])
  PROVE  LevelsInv(cut)'
<1> DEFINE e == [key |-> input[1], seq |-> lastSeq + 1, type |-> input[2]]
<1>1. /\ opened /\ lastSeq < MaxWrites /\ lastSeq' = lastSeq + 1
      /\ buffers' = [buffers EXCEPT ![mem] = @ \cup {e}]
      /\ UNCHANGED <<opened, mem, imm, current, compact, edit, manifest, logFiles>>
  BY DEF Write, bgVars, diskVars
<1>2. NeededLogs' = NeededLogs
  BY <1>1 DEF NeededLogs
<1>3. /\ lastSeq \in Nat /\ MaxWrites \in Nat /\ manifest.last \in Nat /\ manifest.last <= lastSeq
      /\ \A n \in NeededLogs : \A x \in buffers[n] : x.seq <= lastSeq
      /\ \A o \in Entries(Files(manifest.version)) : o.seq <= manifest.last
  BY <1>1, BoundsAssumption DEF LevelsInv, SeqsInv
<1>4. lastSeq + 1 \in 1..MaxWrites /\ lastSeq + 1 \in Nat
  BY <1>1, <1>3
<1>5. e.key = input[1] /\ e.seq = lastSeq + 1 /\ e \in Entry
  BY <1>4, InputsAssumption DEF Entry
<1> HIDE DEF e
<1>6. /\ mem \in NeededLogs /\ mem \in Nat /\ mem \in DOMAIN buffers /\ \A n \in NeededLogs : n <= mem /\ n \in Nat
      /\ logFiles \subseteq DOMAIN buffers
  BY <1>1, LogNumbers DEF LevelsInv, LogsInv
<1>7. /\ \A n \in DOMAIN buffers \ {mem} : buffers'[n] = buffers[n]
      /\ buffers'[mem] = buffers[mem] \cup {e} /\ DOMAIN buffers' = DOMAIN buffers
  BY <1>1, <1>6
<1>8. \A n \in NeededLogs : /\ n \in DOMAIN buffers /\ buffers[n] \subseteq Entry /\ IsEntries(buffers[n])
                            /\ \A x \in buffers[n], o \in Entries(Files(manifest.version)) : o.seq < x.seq
  BY <1>6, LogNumbers DEF LevelsInv, LogsInv
<1>9. \A o \in Entries(Files(manifest.version)) : o.seq \in Nat /\ o.seq < e.seq
  <2>1. \A o \in Entries(Files(manifest.version)) : o.seq \in Nat
    BY VersionFacts, EntryType DEF LevelsInv
  <2> QED
    BY <1>3, <1>5, <2>1
<1>10. \A n \in NeededLogs : \A x \in buffers[n] : x.seq \in Nat /\ x.seq < e.seq
  BY <1>3, <1>5, <1>8, EntryType
<1>11. IsEntries(buffers'[mem])
  <2>1. e.key \in Int /\ e.seq \in Nat
    BY <1>5, EntryType
  <2>2. \A x \in buffers[mem] : x.seq # e.seq
    BY <1>6, <1>10, <2>1
  <2>3. IsEntries(buffers[mem])
    BY <1>6, <1>8
  <2> QED
    BY <1>7, <2>1, <2>2, <2>3 DEF IsEntries
<1>12. ASSUME NEW n \in NeededLogs
       PROVE  /\ buffers'[n] \subseteq Entry /\ IsEntries(buffers'[n])
              /\ \A x \in buffers'[n], o \in Entries(Files(manifest.version)) : o.seq < x.seq
  <2>1. CASE n = mem
    BY <1>5, <1>7, <1>8, <1>9, <1>11, <2>1
  <2>2. CASE n # mem
    BY <1>7, <1>8, <2>2
  <2> QED
    BY <2>1, <2>2
<1>13. ASSUME NEW n \in NeededLogs, NEW m \in NeededLogs, n < m, NEW o \in buffers'[n], NEW x \in buffers'[m]
       PROVE  o.seq < x.seq
  <2>0. n # mem
    BY <1>6, <1>13
  <2>1. n # mem /\ buffers'[n] = buffers[n]
    BY <1>7, <1>8, <1>13, <2>0
  <2>2. CASE x \in buffers[m]
    BY <1>13, <2>1, <2>2 DEF LevelsInv, LogsInv
  <2>3. CASE x = e
    BY <1>10, <1>13, <2>1, <2>3
  <2> QED
    BY <1>7, <1>8, <1>13, <2>2, <2>3
<1>14. LogsInv'
  BY <1>1, <1>2, <1>6, <1>7, <1>12, <1>13 DEF LogsInv
<1>15. \A n \in NeededLogs : \A x \in buffers'[n] : x.seq <= lastSeq + 1
  <2>1. \A n \in NeededLogs : \A x \in buffers'[n] : x \in buffers[n] \/ x = e
    BY <1>7, <1>8
  <2> QED
    BY <1>3, <1>5, <1>10, <2>1
<1>16. SeqsInv'
  <2>1. lastSeq' \in 0..MaxWrites /\ manifest.last <= lastSeq' /\ lastSeq' = lastSeq + 1
    BY <1>1, <1>3, <1>4
  <2> QED
    BY <1>1, <1>2, <1>15, <2>1 DEF LevelsInv, SeqsInv
<1>17. OpenInv'
  <2>1. imm # Nil /\ imm >= manifest.log => buffers'[imm] = buffers[imm]
    <3>1. imm # Nil /\ imm >= manifest.log => imm \in DOMAIN buffers /\ imm # mem
      BY <1>1, <1>6, <1>8, LogNumbers
    <3> QED
      BY <1>7, <3>1
  <2> QED
    BY <1>1, <2>1 DEF LevelsInv, OpenInv, Editing
<1> QED
  BY <1>1, <1>14, <1>16, <1>17, RestStays DEF LevelsInv

LEMMA SwitchLevels == ASSUME NEW cut, NumsInv, LevelsInv(cut), SwitchMemTable PROVE LevelsInv(cut)'
<1>1. /\ opened /\ imm = Nil /\ buffers[mem] # {} /\ imm' = mem /\ mem' = nextFile
      /\ buffers' = WithBuffer(DOMAIN buffers, nextFile) /\ logFiles' = logFiles \cup {nextFile}
      /\ UNCHANGED <<opened, lastSeq, current, compact, edit, manifest>>
  BY DEF SwitchMemTable, bgVars
<1>2. /\ mem \in NeededLogs /\ mem \in Nat /\ nextFile \in Nat /\ mem < nextFile
      /\ \A n \in logFiles : n \in Nat /\ n \in DOMAIN buffers /\ n <= mem
      /\ \A n : n \in NeededLogs <=> n \in logFiles /\ n >= manifest.log
      /\ manifest.log \in Nat
  BY <1>1, LogNumbers DEF LevelsInv, OpenInv
<1>3. /\ DOMAIN buffers' = DOMAIN buffers \cup {nextFile} /\ buffers'[nextFile] = {}
      /\ \A n \in DOMAIN buffers \ {nextFile} : buffers'[n] = buffers[n]
  BY <1>1 DEF WithBuffer
<1>4. \A n \in NeededLogs' : \/ n = nextFile /\ buffers'[n] = {}
                             \/ n \in NeededLogs /\ n < nextFile /\ buffers'[n] = buffers[n]
  <2> SUFFICES ASSUME NEW n \in logFiles \cup {nextFile}, n >= manifest.log
               PROVE  \/ n = nextFile /\ buffers'[n] = {}
                      \/ n \in NeededLogs /\ n < nextFile /\ buffers'[n] = buffers[n]
    BY <1>1 DEF NeededLogs
  <2>1. CASE n = nextFile
    BY <1>3, <2>1
  <2>2. CASE n # nextFile
    <3>1. n \in logFiles /\ n \in Nat /\ n <= mem /\ n \in DOMAIN buffers
      BY <1>2, <2>2
    <3>2. n < nextFile /\ n \in NeededLogs
      BY <1>2, <3>1
    <3> QED
      BY <1>3, <2>2, <3>1, <3>2
  <2> QED
    BY <2>1, <2>2
<1>5. LogsInv'
  <2>1. logFiles' \subseteq DOMAIN buffers'
    BY <1>1, <1>2, <1>3
  <2>2. \A n \in NeededLogs' :
          /\ buffers'[n] \subseteq Entry /\ IsEntries(buffers'[n])
          /\ \A e \in buffers'[n], o \in Entries(Files(manifest'.version)) : o.seq < e.seq
    BY <1>1, <1>4 DEF LevelsInv, LogsInv, IsEntries
  <2>3. ASSUME NEW n \in NeededLogs', NEW m \in NeededLogs', n < m, NEW o \in buffers'[n], NEW e \in buffers'[m]
        PROVE  o.seq < e.seq
    <3>1. m \in NeededLogs /\ e \in buffers[m] /\ n \in NeededLogs /\ o \in buffers[n]
      BY <1>4, <2>3
    <3> QED
      BY <2>3, <3>1 DEF LevelsInv, LogsInv
  <2> QED
    BY <2>1, <2>2, <2>3 DEF LogsInv
<1>6. SeqsInv'
  BY <1>1, <1>4 DEF LevelsInv, SeqsInv
<1>7. OpenInv'
  <2>1. \A n \in logFiles' : n <= mem'
    BY <1>1, <1>2
  <2>2. imm' < mem' /\ imm' >= manifest'.log /\ buffers'[imm'] # {}
    <3>1. mem \in DOMAIN buffers \ {nextFile} /\ mem >= manifest.log
      BY <1>2
    <3> QED
      BY <1>1, <1>2, <1>3, <3>1
  <2> QED
    BY <1>1, <2>1, <2>2 DEF LevelsInv, OpenInv, Editing
<1> QED
  BY <1>1, <1>5, <1>6, <1>7, RestStays DEF LevelsInv

LEMMA SnapshotLevels ==
  ASSUME NEW cut, LevelsInv(cut), NEW h \in Handles, GetSnapshot(h) \/ ReleaseSnapshot(h)
  PROVE  LevelsInv(cut)'
BY StutterLevels DEF GetSnapshot, ReleaseSnapshot, memVars, bgVars, diskVars

LEMMA IteratorLevels ==
  ASSUME NEW cut, NumsInv, LevelsInv(cut), NEW r \in Readers, NewIterator(r) \/ ReleaseIterator(r)
  PROVE  LevelsInv(cut)'
<1>1. CASE NewIterator(r)
  BY <1>1, StutterLevels DEF NewIterator, memVars, bgVars, diskVars
<1>2. CASE ReleaseIterator(r)
  <2>1. /\ opened /\ FreeBuffers
        /\ UNCHANGED <<opened, lastSeq, mem, imm, current, compact, edit, manifest, logFiles>>
    BY <1>2 DEF ReleaseIterator, bgVars, diskVars
  <2>2. /\ logFiles' \subseteq DOMAIN buffers' /\ \A n \in DOMAIN buffers' : buffers'[n] = buffers[n]
    BY <2>1, FreeKeeps DEF LevelsInv, LogsInv
  <2>3. NeededLogs' = NeededLogs /\ \A n \in NeededLogs : n \in logFiles
    BY <2>1 DEF NeededLogs
  <2>4. \A n \in NeededLogs' : n \in NeededLogs /\ buffers'[n] = buffers[n]
    BY <2>1, <2>2, <2>3
  <2>5. LogsInv' /\ SeqsInv'
    BY <2>1, <2>2, <2>4, LogsStay, SeqsStay DEF LevelsInv
  <2>6. imm # Nil /\ imm >= manifest.log => buffers'[imm] = buffers[imm]
    BY <2>1, <2>3, <2>4, LogNumbers
  <2>7. OpenInv'
    BY <2>1, <2>6 DEF LevelsInv, OpenInv, Editing
  <2> QED
    BY <2>1, <2>5, <2>7, RestStays DEF LevelsInv
<1> QED
  BY <1>1, <1>2

\* What LogAndApply makes of a version, level by level.
LEMMA AppliedFrom ==
  ASSUME NEW v, NEW e, NEW level \in Levels, NEW f \in Apply(v, e)[level]
  PROVE  \/ f \in v[level] /\ <<level, f.number>> \notin e.deleted
         \/ \E a \in e.added : a[1] = level /\ a[2] = f
BY DEF Apply

LEMMA AppliedTo ==
  ASSUME NEW v, NEW e, NEW level \in Levels
  PROVE  /\ \A f \in v[level] : <<level, f.number>> \notin e.deleted => f \in Apply(v, e)[level]
         /\ \A a \in e.added : a[1] = level => a[2] \in Apply(v, e)[level]
BY DEF Apply

\* What a flush makes of the version: its table is where it fits.
LEMMA FlushedVersion ==
  ASSUME NEW cut, NumsInv, LevelsInv(cut), Flush
  PROVE  \E level \in Levels :
           /\ Fits(manifest.version, {[number |-> nextFile, entries |-> buffers[imm]]}, level)
           /\ \A l \in Levels \ {level} : manifest'.version[l] = manifest.version[l]
           /\ manifest'.version[level] = manifest.version[level] \cup {[number |-> nextFile, entries |-> buffers[imm]]}
<1> DEFINE file == [number |-> nextFile, entries |-> buffers[imm]]
<1>1. PICK level \in PickLevelForMemTableOutput(current, Lo({file}), Hi({file})) :
        LogAndApply([kind |-> "flush", deleted |-> {}, added |-> {<<level, file>>}, log |-> mem], nextFile + 1)
  BY DEF Flush
<1> DEFINE e == [kind |-> "flush", deleted |-> {}, added |-> {<<level, file>>}, log |-> mem]
           v == manifest.version
           w == manifest'.version
<1>2. opened /\ edit = Nil /\ imm # Nil
  BY DEF Flush
<1>3. current = v
  BY <1>2 DEF LevelsInv, OpenInv
<1>4. w = Apply(v, e)
  BY <1>1, <1>3 DEF LogAndApply
<1>5. file.entries = buffers[imm]
  OBVIOUS
<1>6. \A l \in Levels : w[l] = v[l] \cup (IF l = level THEN {file} ELSE {})
  <2> SUFFICES ASSUME NEW l \in Levels
               PROVE  Apply(v, e)[l] = v[l] \cup (IF l = level THEN {file} ELSE {})
    BY <1>4
  <2>1. e.deleted = {} /\ e.added = {<<level, file>>}
    OBVIOUS
  <2>2. \A a \in e.added : a[1] = level /\ a[2] = file
    BY <2>1
  <2>3. \E a \in e.added : a[1] = level /\ a[2] = file
    BY <2>1
  <2> HIDE DEF e, file, v
  <2>4. \A f \in Apply(v, e)[l] : f \in v[l] \/ (l = level /\ f = file)
    <3> SUFFICES ASSUME NEW f \in Apply(v, e)[l] PROVE f \in v[l] \/ (l = level /\ f = file)
      OBVIOUS
    <3>1. \/ f \in v[l] /\ <<l, f.number>> \notin e.deleted
          \/ \E a \in e.added : a[1] = l /\ a[2] = f
      BY AppliedFrom
    <3> QED
      BY <2>2, <3>1
  <2>5. \A f \in v[l] : f \in Apply(v, e)[l]
    BY <2>1, AppliedTo
  <2>6. l = level => file \in Apply(v, e)[l]
    BY <2>3, AppliedTo
  <2> QED
    BY <2>4, <2>5, <2>6
<1> HIDE DEF file, e
<1>7. imm \in NeededLogs /\ buffers[imm] # {}
  BY <1>2, LogNumbers DEF LevelsInv, OpenInv, LogsInv, Editing
<1>8. /\ VersionInv(cut, v) /\ buffers[imm] \subseteq Entry /\ IsEntries(buffers[imm])
      /\ \A x \in buffers[imm], o \in Entries(Files(v)) : o.seq < x.seq
  BY <1>7 DEF LevelsInv, LogsInv
<1>9. Fits(v, {file}, level)
  <2> HIDE DEF v
  <2> QED
    BY <1>1, <1>3, <1>5, <1>7, <1>8, PickedLevelFits
<1>10. level \in Levels /\ (\A l \in Levels \ {level} : w[l] = v[l]) /\ w[level] = v[level] \cup {file}
  BY <1>6, <1>9 DEF Fits
<1> QED
  BY <1>9, <1>10 DEF file

LEMMA FlushLevels == ASSUME NEW cut, NumsInv, LevelsInv(cut), Flush PROVE LevelsInv(cut)'
<1> DEFINE file == [number |-> nextFile, entries |-> buffers[imm]]
           v == manifest.version
           w == manifest'.version
<1>1. PICK level \in Levels :
        Fits(v, {file}, level) /\ (\A l \in Levels \ {level} : w[l] = v[l]) /\ w[level] = v[level] \cup {file}
  BY FlushedVersion
<1>2. /\ opened /\ edit = Nil /\ imm # Nil
      /\ UNCHANGED <<opened, lastSeq, buffers, mem, imm, current, compact, logFiles>>
  BY DEF Flush, memVars
<1>4. manifest'.log = mem /\ manifest'.last = lastSeq /\ edit' = [kind |-> "flush", log |-> mem]
  BY DEF Flush, LogAndApply
<1>5. file.entries = buffers[imm]
  OBVIOUS
<1> HIDE DEF file
<1>7. /\ mem \in NeededLogs /\ mem \in Nat /\ imm \in Nat /\ imm < mem /\ imm \in NeededLogs
      /\ \A n \in logFiles : n <= mem /\ n \in Nat
      /\ buffers[imm] # {} /\ logFiles \subseteq DOMAIN buffers /\ mem \in logFiles
  BY <1>2, LogNumbers DEF LevelsInv, OpenInv, LogsInv, Editing
<1>8. /\ VersionInv(cut, v) /\ buffers[imm] \subseteq Entry /\ IsEntries(buffers[imm])
      /\ \A x \in buffers[imm], o \in Entries(Files(v)) : o.seq < x.seq
  BY <1>7 DEF LevelsInv, LogsInv
<1>9. Fits(v, {file}, level)
  BY <1>1
<1>10. level \in Levels /\ (\A l \in Levels \ {level} : w[l] = v[l]) /\ w[level] = v[level] \cup {file}
  BY <1>1
<1>11. VersionInv(cut, w) /\ Entries(Files(w)) = Entries(Files(v)) \cup buffers[imm]
  <2> DEFINE new == {file}
  <2>1. Entries(new) = buffers[imm]
    BY <1>5 DEF Entries
  <2>2. Fits(v, new, level) /\ w[level] = v[level] \cup new
    BY <1>9, <1>10
  <2> HIDE DEF new, v, w
  <2> QED
    BY <1>8, <1>10, <2>1, <2>2, NewerKeeps
<1>12. edit' # Nil /\ edit'.kind = "flush"
  BY <1>4, <1>7, NilAssumption DEF Edit
<1>13. CompactInv(cut)'
  <2> SUFFICES ASSUME compact # Nil
               PROVE  InputsInv(cut, w, compact.level, compact.inputs) /\ OutputsInv(cut, compact.inputs, compact.outputs, compact.todo)
    BY <1>2 DEF CompactInv
  <2>1. InputsInv(cut, v, compact.level, compact.inputs) /\ OutputsInv(cut, compact.inputs, compact.outputs, compact.todo)
    BY <1>2 DEF LevelsInv, CompactInv, Editing
  <2> DEFINE new == {file}
  <2>2. Fits(v, new, level) /\ w[level] = v[level] \cup new
    BY <1>9, <1>10
  <2> HIDE DEF new, v, w
  <2>3. InputsInv(cut, w, compact.level, compact.inputs)
    BY <1>8, <1>10, <2>1, <2>2, NewerKeepsInputs
  <2> QED
    BY <2>1, <2>3
<1>14. \A n \in NeededLogs' : n = mem
  <2> SUFFICES ASSUME NEW n \in logFiles, n >= mem PROVE n = mem
    BY <1>2, <1>4 DEF NeededLogs
  <2> QED
    BY <1>7
<1>15. LogsInv'
  <2>1. \A x \in buffers[mem], o \in Entries(Files(w)) : o.seq < x.seq
    <3>1. \A x \in buffers[mem], o \in Entries(Files(v)) : o.seq < x.seq
      BY <1>7 DEF LevelsInv, LogsInv
    <3>2. \A x \in buffers[mem], o \in buffers[imm] : o.seq < x.seq
      BY <1>7 DEF LevelsInv, LogsInv
    <3> QED
      BY <1>11, <3>1, <3>2
  <2>2. buffers[mem] \subseteq Entry /\ IsEntries(buffers[mem])
    BY <1>7 DEF LevelsInv, LogsInv
  <2>3. \A n, m \in NeededLogs' : ~(n < m)
    BY <1>7, <1>14
  <2> QED
    BY <1>2, <1>7, <1>14, <2>1, <2>2, <2>3 DEF LogsInv
<1>16. SeqsInv'
  <2>1. /\ lastSeq \in 0..MaxWrites /\ MaxWrites \in Nat /\ manifest.last \in 0..MaxWrites /\ manifest.last <= lastSeq
        /\ \A n \in NeededLogs : \A x \in buffers[n] : x.seq <= lastSeq
        /\ \A o \in Entries(Files(v)) : o.seq <= manifest.last
    BY <1>2, BoundsAssumption DEF LevelsInv, SeqsInv
  <2>2. \A o \in Entries(Files(v)) : o.seq \in Nat
    BY <1>8, VersionFacts, EntryType
  <2>3. \A o \in Entries(Files(w)) : o.seq <= lastSeq
    <3>1. \A o \in Entries(Files(v)) : o.seq <= lastSeq
      BY <2>1, <2>2
    <3> QED
      BY <1>7, <1>11, <2>1, <3>1
  <2> QED
    BY <1>2, <1>4, <1>7, <1>14, <2>1, <2>3 DEF SeqsInv
<1>17. OpenInv'
  <2>1. Editing("flush")' /\ ~Editing("move")'
    BY <1>12 DEF Editing
  <2> QED
    BY <1>2, <1>7, <1>12, <2>1 DEF OpenInv
<1> QED
  BY <1>11, <1>13, <1>15, <1>16, <1>17 DEF LevelsInv

\* A process that ends, and one that begins.
LEMMA EndLevels == ASSUME NEW cut, NumsInv, LevelsInv(cut), End PROVE LevelsInv(cut)'
<1>1. /\ opened' = FALSE /\ compact' = Nil /\ FreeBuffers /\ UNCHANGED <<manifest, logFiles>>
  BY DEF End, diskVars
<1>2. NeededLogs' = NeededLogs /\ \A n \in NeededLogs : n \in logFiles
  BY <1>1 DEF NeededLogs
<1>3. /\ logFiles' \subseteq DOMAIN buffers' /\ \A n \in DOMAIN buffers' : buffers'[n] = buffers[n]
  BY <1>1, FreeKeeps DEF LevelsInv, LogsInv
<1>4. \A n \in NeededLogs' : n \in NeededLogs /\ buffers'[n] = buffers[n]
  BY <1>1, <1>2, <1>3
<1>5. LogsInv' /\ SeqsInv'
  BY <1>1, <1>3, <1>4, LogsStay, SeqsStay DEF LevelsInv
<1>6. VersionInv(cut, manifest'.version) /\ CompactInv(cut)' /\ OpenInv'
  BY <1>1 DEF LevelsInv, CompactInv, OpenInv
<1> QED
  BY <1>5, <1>6 DEF LevelsInv

\* What is compacted still has all of its entries where they are read.
LEMMA InstallLevels == ASSUME NEW cut, NumsInv, LevelsInv(cut), InstallEdit PROVE LevelsInv(cut)'
<1>1. /\ opened /\ edit # Nil /\ current' = manifest.version /\ edit' = Nil
      /\ imm' = (IF edit.kind = "flush" THEN Nil ELSE imm)
      /\ compact' = (IF edit.kind = "compaction" THEN Nil ELSE compact)
      /\ FreeBuffers /\ UNCHANGED <<opened, lastSeq, mem, manifest>>
  BY DEF InstallEdit
<1>2. logFiles' \subseteq logFiles
  BY DEF InstallEdit, DeleteObsoleteFiles
<1>3. \A n \in NeededLogs' : n \in NeededLogs
  BY <1>1, <1>2 DEF NeededLogs
<1>4. /\ logFiles' \subseteq DOMAIN buffers' /\ \A n \in DOMAIN buffers' : buffers'[n] = buffers[n]
      /\ imm' \in DOMAIN buffers => imm' \in DOMAIN buffers'
  BY <1>1, <1>2, FreeKeeps DEF LevelsInv, LogsInv
<1>5. \A n \in NeededLogs' : n \in NeededLogs /\ buffers'[n] = buffers[n]
  <2>1. \A n \in NeededLogs' : n \in logFiles'
    BY DEF NeededLogs
  <2> QED
    BY <1>3, <1>4, <2>1
<1>6. LogsInv' /\ SeqsInv'
  BY <1>1, <1>4, <1>5, LogsStay, SeqsStay DEF LevelsInv
<1>7. CompactInv(cut)'
  <2> SUFFICES ASSUME compact' # Nil
               PROVE  /\ InputsInv(cut, manifest.version, compact'.level, compact'.inputs)
                      /\ OutputsInv(cut, compact'.inputs, compact'.outputs, compact'.todo)
    BY <1>1 DEF CompactInv
  <2>1. edit.kind # "compaction" /\ compact' = compact
    BY <1>1
  <2> QED
    BY <2>1 DEF LevelsInv, CompactInv, Editing
<1>8. OpenInv'
  <2>1. \A n \in logFiles' : n <= mem
    BY <1>1, <1>2 DEF LevelsInv, OpenInv
  <2>2. imm' # Nil => imm' = imm /\ ~Editing("flush")
    BY <1>1 DEF Editing
  <2>3. imm' # Nil => imm < mem /\ imm >= manifest.log /\ buffers[imm] # {} /\ imm \in DOMAIN buffers
    <3>1. imm' # Nil => imm < mem /\ imm >= manifest.log /\ buffers[imm] # {}
      BY <1>1, <2>2 DEF LevelsInv, OpenInv
    <3>2. imm' # Nil => imm \in DOMAIN buffers
      BY <1>1, <2>2, <3>1, LogNumbers
    <3> QED
      BY <3>1, <3>2
  <2>4. imm' # Nil => imm' < mem' /\ imm' >= manifest'.log /\ buffers'[imm'] # {}
    BY <1>1, <1>4, <2>2, <2>3
  <2>5. ~Editing("move")'
    BY <1>1 DEF Editing
  <2> QED
    BY <1>1, <2>1, <2>4, <2>5 DEF OpenInv
<1> QED
  BY <1>1, <1>6, <1>7, <1>8 DEF LevelsInv

\* Compactions begin and end; nothing is written, and the version of an edit has no
\* entry that was not there.
LEMMA EditLevels ==
  ASSUME NEW cut, NumsInv, LevelsInv(cut), opened, edit = Nil, manifest'.log = manifest.log, manifest'.last = lastSeq,
         UNCHANGED <<opened, lastSeq, buffers, mem, imm, logFiles>>,
         VersionInv(cut, manifest'.version), Entries(Files(manifest'.version)) \subseteq Entries(Files(manifest.version)),
         CompactInv(cut)', edit' # Nil, edit'.kind = "move" => compact' = Nil
  PROVE  LevelsInv(cut)'
<1>1. NeededLogs' = NeededLogs /\ logFiles' \subseteq DOMAIN buffers'
  BY DEF NeededLogs, LevelsInv, LogsInv
<1>2. LogsInv' /\ SeqsInv'
  BY <1>1, LogsStay, SeqsStay DEF LevelsInv
<1>3. OpenInv'
  BY DEF LevelsInv, OpenInv, Editing
<1> QED
  BY <1>2, <1>3 DEF LevelsInv

LEMMA StartLevels ==
  ASSUME NEW cut, NumsInv, LevelsInv(cut), opened, edit = Nil, NEW level, NEW inputs,
         InputsInv(cut, manifest.version, level, inputs), Starts(level, inputs),
         UNCHANGED <<opened, lastSeq, buffers, mem, imm, current, edit, manifest, logFiles>>
  PROVE  LevelsInv(cut)'
<1> DEFINE smallest == IF Snapshots = {} THEN lastSeq ELSE CHOOSE s \in Snapshots : \A t \in Snapshots : s <= t
           all == Entries(inputs[1] \cup inputs[2])
<1>1. compact' = [level |-> level, inputs |-> inputs, version |-> current, outputs |-> {},
                  todo |-> Kept(current, level, all, smallest)]
  BY DEF Starts
<1>2. Kept(current, level, all, smallest) \subseteq all
  BY DEF Kept
<1> HIDE DEF smallest
<1>3. /\ compact'.level = level /\ compact'.inputs = inputs /\ compact'.outputs = {}
      /\ compact'.todo \subseteq all
  BY <1>1, <1>2
<1>4. OutputsInv(cut, compact'.inputs, compact'.outputs, compact'.todo)
  <2>1. Entries(compact'.outputs) = {}
    BY <1>3 DEF Entries
  <2> QED
    BY <1>3, <2>1 DEF OutputsInv
<1>5. CompactInv(cut)'
  BY <1>3, <1>4 DEF CompactInv
<1>6. NeededLogs' = NeededLogs
  BY DEF NeededLogs
<1>7. LogsInv' /\ SeqsInv' /\ OpenInv'
  BY <1>6 DEF LevelsInv, LogsInv, SeqsInv, OpenInv, Editing
<1> QED
  BY <1>5, <1>7 DEF LevelsInv

\* The tables of a version are finitely many: each has a number of its own.
LEMMA FilesAreFinite == ASSUME NumsInv, opened PROVE IsFiniteSet(Files(manifest.version))
<1> DEFINE files == Files(manifest.version)
           number == [f \in files |-> f.number]
<1>1. nextFile \in Nat /\ files \subseteq Live /\ OneNumberEach(Live) /\ NumberedBelow(Live, nextFile)
  BY NumberFacts, LiveParts DEF NumsInv, NumbersInv
<1> HIDE DEF files
<1>2. \A f \in files : f.number \in 0..nextFile
  BY <1>1 DEF NumberedBelow
<1>3. \A f, g \in files : f.number = g.number => f = g
  BY <1>1 DEF OneNumberEach
<1>4. number \in Injection(files, 0..nextFile)
  <2>1. number \in [files -> 0..nextFile] /\ \A f \in files : number[f] = f.number
    BY <1>2
  <2> DEFINE to == 0..nextFile
  <2>2. number \in [files -> to] /\ \A f, g \in files : number[f] = number[g] => f = g
    BY <1>3, <2>1
  <2> HIDE DEF number, to
  <2>3. number \in Injection(files, to)
    BY <2>2 DEF Injection, IsInjective
  <2> QED
    BY <2>3 DEF to
<1>5. IsFiniteSet(0..nextFile)
  BY <1>1, FS_Interval
<1> HIDE DEF number
<1>6. IsFiniteSet(files)
  BY <1>4, <1>5, FS_Injection
<1> QED
  BY <1>6 DEF files

LEMMA MoveLevels ==
  ASSUME NEW cut, NumsInv, LevelsInv(cut), opened, edit = Nil, compact = Nil, NEW level, NEW inputs,
         InputsInv(cut, manifest.version, level, inputs), IsTrivialMove(inputs), Moves(level, inputs),
         UNCHANGED <<opened, lastSeq, buffers, mem, imm, current, compact, logFiles>>
  PROVE  LevelsInv(cut)'
<1> DEFINE e == [kind |-> "move", deleted |-> {<<level, f.number>> : f \in inputs[1]},
                 added |-> {<<level + 1, f>> : f \in inputs[1]}, log |-> manifest.log]
           v == manifest.version
           w == manifest'.version
<1>1. current = v /\ VersionInv(cut, v) /\ manifest.log \in Nat
  BY LogNumbers DEF LevelsInv, OpenInv
<1>2. /\ w = Apply(v, e) /\ manifest'.log = manifest.log /\ manifest'.last = lastSeq
      /\ edit' = [kind |-> "move", log |-> manifest.log]
  BY <1>1 DEF Moves, LogAndApply
<1>3. /\ level \in Levels /\ level + 1 \in Levels /\ level \in Int
      /\ inputs[1] \subseteq v[level] /\ inputs[2] = {}
  BY LevelsAssumption DEF InputsInv, IsTrivialMove, Levels
<1>4. /\ \A f \in inputs[1] : <<level, f.number>> \in e.deleted
      /\ \A a \in e.added : a[1] = level + 1 /\ a[2] \in inputs[1]
  OBVIOUS
<1> HIDE DEF e, v
<1>5. ASSUME NEW l \in Levels, NEW f \in w[l]
      PROVE  \/ f \in v[l] /\ <<l, f.number>> \notin e.deleted
             \/ l = level + 1 /\ f \in inputs[1]
  <2>1. \/ f \in v[l] /\ <<l, f.number>> \notin e.deleted
        \/ \E a \in e.added : a[1] = l /\ a[2] = f
    BY <1>2, <1>5, AppliedFrom
  <2> QED
    BY <1>4, <2>1
<1>6. \A l \in Levels \ {level, level + 1} : w[l] \subseteq v[l]
  BY <1>5
<1>7. w[level] \subseteq v[level] \ inputs[1]
  <2> SUFFICES ASSUME NEW f \in w[level] PROVE f \in v[level] /\ f \notin inputs[1]
    OBVIOUS
  <2>1. level # level + 1
    BY <1>3
  <2>2. f \in v[level] /\ <<level, f.number>> \notin e.deleted
    BY <1>3, <1>5, <2>1
  <2> QED
    BY <1>4, <2>2
<1>8. w[level + 1] \subseteq (v[level + 1] \ inputs[2]) \cup inputs[1]
  BY <1>3, <1>5
<1>9. \A f, g \in inputs[1] : f = g
  <2>1. inputs[1] \subseteq Files(v)
    BY <1>3, LevelFiles
  <2>2. IsFiniteSet(inputs[1])
    BY <2>1, FilesAreFinite, FS_Subset DEF v
  <2>3. \E f : inputs[1] = {f}
    BY <2>2, FS_Singleton DEF IsTrivialMove
  <2> QED
    BY <2>3
<1>10. OutputsInv(cut, inputs, inputs[1], {})
  <2>1. \A f \in inputs[1] : f.entries # {}
    BY <1>1, <1>3, VersionFacts
  <2>2. Entries(inputs[1]) \subseteq Entries(inputs[1] \cup inputs[2])
    BY <1>3, IncludedEntries
  <2> QED
    BY <1>9, <2>1, <2>2 DEF OutputsInv
<1>11. VersionInv(cut, w) /\ Entries(Files(w)) \subseteq Entries(Files(v))
  <2> DEFINE outputs == inputs[1]
  <2>1. OutputsInv(cut, inputs, outputs, {}) /\ w[level + 1] \subseteq (v[level + 1] \ inputs[2]) \cup outputs
    BY <1>8, <1>10
  <2>2. InputsInv(cut, v, level, inputs)
    BY DEF v
  <2> HIDE DEF outputs, w
  <2> QED
    BY <1>1, <1>6, <1>7, <2>1, <2>2, MergeKeeps
<1>12. edit' # Nil
  BY <1>1, <1>2, NilAssumption DEF Edit
<1>13. CompactInv(cut)'
  BY DEF CompactInv
<1> QED
  BY <1>2, <1>11, <1>12, <1>13, EditLevels DEF v

LEMMA AutomaticLevels ==
  ASSUME NEW cut, NumsInv, LevelsInv(cut), NEW level \in 0..NumLevels - 2, AutomaticCompaction(level)
  PROVE  LevelsInv(cut)'
<1>1. /\ opened /\ edit = Nil /\ compact = Nil
      /\ UNCHANGED <<opened, lastSeq, buffers, mem, imm, current, logFiles>>
  BY DEF AutomaticCompaction, memVars
<1>2. PICK f \in current[level] : \E i \in PickCompaction(current, level, f) :
        \/ IsTrivialMove(i) /\ Moves(level, i) /\ UNCHANGED compact
        \/ Starts(level, i) /\ UNCHANGED <<edit, manifest>>
  BY DEF AutomaticCompaction
<1>3. PICK inputs \in PickCompaction(current, level, f) :
        \/ IsTrivialMove(inputs) /\ Moves(level, inputs) /\ UNCHANGED compact
        \/ Starts(level, inputs) /\ UNCHANGED <<edit, manifest>>
  BY <1>2
<1>4. current = manifest.version /\ Proper(cut, manifest.version)
  BY <1>1, VersionFacts DEF LevelsInv, OpenInv
<1>5. InputsInv(cut, manifest.version, level, inputs)
  BY <1>4, PickFits
<1>6. CASE IsTrivialMove(inputs) /\ Moves(level, inputs) /\ UNCHANGED compact
  BY <1>1, <1>5, <1>6, MoveLevels
<1>7. CASE Starts(level, inputs) /\ UNCHANGED <<edit, manifest>>
  BY <1>1, <1>5, <1>7, StartLevels
<1> QED
  BY <1>3, <1>6, <1>7

LEMMA OutputLevels ==
  ASSUME NEW cut, NumsInv, LevelsInv(cut), compact # Nil, NEW last \in compact.todo, WriteOutput(last),
         split' \subseteq cut
  PROVE  LevelsInv(cut)'
<1> DEFINE todo == compact.todo
           taken == {e \in todo : e = last \/ Before(e, last)}
           output == [number |-> nextFile, entries |-> taken]
<1>1. /\ opened /\ edit = Nil
      /\ \A e \in todo \ taken : e.key = last.key => e.key \in cut
      /\ compact' = [level |-> compact.level, inputs |-> compact.inputs, version |-> compact.version,
                     outputs |-> compact.outputs \cup {output}, todo |-> todo \ taken]
      /\ UNCHANGED <<opened, lastSeq, buffers, mem, imm, current, edit, manifest, logFiles>>
  BY DEF WriteOutput, memVars
<1>2. /\ InputsInv(cut, manifest.version, compact.level, compact.inputs)
      /\ OutputsInv(cut, compact.inputs, compact.outputs, todo)
  BY <1>1 DEF LevelsInv, CompactInv, Editing
<1>3. output.entries = taken /\ taken \subseteq todo /\ last \in taken
  OBVIOUS
<1>4. /\ compact'.level = compact.level /\ compact'.inputs = compact.inputs
      /\ compact'.outputs = compact.outputs \cup {output} /\ compact'.todo = todo \ taken
  <2> HIDE DEF output, taken, todo
  <2> QED
    BY <1>1
<1>5. IsEntries(todo) /\ \A e \in todo : e.key \in Int /\ e.seq \in Nat
  <2>1. compact.level \in Levels /\ compact.level + 1 \in Levels
    BY <1>2, LevelsAssumption DEF InputsInv, Levels
  <2>2. compact.inputs[1] \cup compact.inputs[2] \subseteq Files(manifest.version)
    BY <1>2, <2>1, LevelFiles DEF InputsInv
  <2>3. todo \subseteq Entries(Files(manifest.version))
    BY <1>2, <2>2, IncludedEntries DEF OutputsInv
  <2>4. IsEntries(todo)
    BY <2>3 DEF LevelsInv, VersionInv, IsEntries
  <2> QED
    BY <2>4 DEF IsEntries
<1>6. \A e \in taken, o \in todo \ taken : Precedes(cut, e, o)
  <2> SUFFICES ASSUME NEW e \in taken, NEW o \in todo \ taken PROVE Precedes(cut, e, o)
    OBVIOUS
  <2>1. o # last /\ ~Before(o, last) /\ (e = last \/ Before(e, last))
    OBVIOUS
  <2>2. Before(last, o)
    BY <1>5, <2>1, BeforeIsTotal
  <2>3. Before(e, o)
    BY <1>5, <2>1, <2>2, BeforeIsTotal
  <2>4. CASE e.key = o.key
    <3>1. o.key = last.key
      BY <1>5, <2>1, <2>2, <2>4 DEF Before
    <3>2. e.key \in cut
      BY <1>1, <2>4, <3>1
    <3> QED
      BY <2>3, <3>2 DEF Precedes
  <2>5. CASE e.key # o.key
    BY <2>3, <2>5 DEF Before, Precedes
  <2> QED
    BY <2>4, <2>5
<1> HIDE DEF output, taken, todo
<1>7. Entries(compact.outputs \cup {output}) = Entries(compact.outputs) \cup taken
  BY <1>3 DEF Entries
<1>8. \A f \in compact.outputs : Apart(cut, f, output)
  <2>1. \A e \in Entries(compact.outputs), o \in taken : Precedes(cut, e, o)
    BY <1>2, <1>3 DEF OutputsInv
  <2> QED
    BY <1>3, <2>1, EntriesOf DEF Apart, Ahead
<1>9. OutputsInv(cut, compact'.inputs, compact'.outputs, compact'.todo)
  <2>1. \A f \in compact'.outputs : f.entries # {}
    BY <1>2, <1>3, <1>4 DEF OutputsInv
  <2>2. \A f, g \in compact'.outputs : f = g \/ Apart(cut, f, g)
    <3>1. \A f \in compact.outputs : Apart(cut, output, f)
      BY <1>8 DEF Apart
    <3> QED
      BY <1>2, <1>4, <1>8, <3>1 DEF OutputsInv
  <2>3. \A e \in Entries(compact'.outputs), o \in compact'.todo : Precedes(cut, e, o)
    BY <1>2, <1>4, <1>6, <1>7 DEF OutputsInv
  <2>4. compact'.todo \cup Entries(compact'.outputs) \subseteq Entries(compact.inputs[1] \cup compact.inputs[2])
    BY <1>2, <1>3, <1>4, <1>7 DEF OutputsInv
  <2> QED
    BY <1>4, <2>1, <2>2, <2>3, <2>4 DEF OutputsInv
<1>10. CompactInv(cut)'
  BY <1>1, <1>2, <1>4, <1>9 DEF CompactInv
<1>11. NeededLogs' = NeededLogs
  BY <1>1 DEF NeededLogs
<1>12. LogsInv' /\ SeqsInv' /\ OpenInv'
  BY <1>1, <1>11 DEF LevelsInv, LogsInv, SeqsInv, OpenInv, Editing
<1> QED
  BY <1>1, <1>10, <1>12 DEF LevelsInv

LEMMA FinishLevels == ASSUME NEW cut, NumsInv, LevelsInv(cut), FinishCompaction PROVE LevelsInv(cut)'
<1> DEFINE level == compact.level
           inputs == compact.inputs
           outputs == compact.outputs
           e == [kind |-> "compaction",
                 deleted |-> {<<level, f.number>> : f \in inputs[1]} \cup {<<level + 1, f.number>> : f \in inputs[2]},
                 added |-> {<<level + 1, f>> : f \in outputs}, log |-> manifest.log]
           v == manifest.version
           w == manifest'.version
<1>1. /\ opened /\ edit = Nil /\ compact # Nil /\ compact.todo = {}
      /\ UNCHANGED <<opened, lastSeq, buffers, mem, imm, current, compact, logFiles>>
  BY DEF FinishCompaction, memVars
<1>2. current = v /\ VersionInv(cut, v) /\ manifest.log \in Nat
  BY <1>1, LogNumbers DEF LevelsInv, OpenInv
<1>3. LogAndApply(e, nextFile)
  BY DEF FinishCompaction
<1>4. /\ w = Apply(v, e) /\ manifest'.log = manifest.log /\ manifest'.last = lastSeq
      /\ edit' = [kind |-> "compaction", log |-> manifest.log]
  BY <1>2, <1>3 DEF LogAndApply
<1>5. InputsInv(cut, v, level, inputs) /\ OutputsInv(cut, inputs, outputs, {})
  BY <1>1 DEF LevelsInv, CompactInv, Editing
<1>6. /\ level \in Levels /\ level + 1 \in Levels /\ level # level + 1
      /\ inputs[1] \subseteq v[level] /\ inputs[2] \subseteq v[level + 1]
  BY <1>5, LevelsAssumption DEF InputsInv, Levels
<1>7. /\ \A f \in inputs[1] : <<level, f.number>> \in e.deleted
      /\ \A f \in inputs[2] : <<level + 1, f.number>> \in e.deleted
      /\ \A a \in e.added : a[1] = level + 1 /\ a[2] \in outputs
  OBVIOUS
<1> HIDE DEF e, v, level, inputs, outputs
<1>8. ASSUME NEW l \in Levels, NEW f \in w[l]
      PROVE  \/ f \in v[l] /\ <<l, f.number>> \notin e.deleted
             \/ l = level + 1 /\ f \in outputs
  <2>1. \/ f \in v[l] /\ <<l, f.number>> \notin e.deleted
        \/ \E a \in e.added : a[1] = l /\ a[2] = f
    BY <1>4, <1>8, AppliedFrom
  <2> QED
    BY <1>7, <2>1
<1>9. \A l \in Levels \ {level, level + 1} : w[l] \subseteq v[l]
  BY <1>8
<1>10. w[level] \subseteq v[level] \ inputs[1]
  <2> SUFFICES ASSUME NEW f \in w[level] PROVE f \in v[level] /\ f \notin inputs[1]
    OBVIOUS
  <2>1. f \in v[level] /\ <<level, f.number>> \notin e.deleted
    BY <1>6, <1>8
  <2> QED
    BY <1>7, <2>1
<1>11. w[level + 1] \subseteq (v[level + 1] \ inputs[2]) \cup outputs
  <2> SUFFICES ASSUME NEW f \in w[level + 1], f \notin outputs PROVE f \in v[level + 1] /\ f \notin inputs[2]
    OBVIOUS
  <2>1. f \in v[level + 1] /\ <<level + 1, f.number>> \notin e.deleted
    BY <1>6, <1>8
  <2> QED
    BY <1>7, <2>1
<1>12. VersionInv(cut, w) /\ Entries(Files(w)) \subseteq Entries(Files(v))
  <2> HIDE DEF w
  <2> QED
    BY <1>2, <1>5, <1>9, <1>10, <1>11, MergeKeeps
<1>13. edit' # Nil /\ edit'.kind = "compaction"
  BY <1>2, <1>4, NilAssumption DEF Edit
<1>14. CompactInv(cut)'
  BY <1>13 DEF CompactInv, Editing
<1> QED
  BY <1>1, <1>4, <1>12, <1>13, <1>14, EditLevels DEF v

\* What recovery reads: tables that fit on level 0, and the last sequence number.
LEMMA RecoveredLevels ==
  ASSUME NEW cut, NumsInv, LevelsInv(cut)
  PROVE  /\ VersionInv(cut, Recovered.version)
         /\ Recovered.last \in 0..MaxWrites
         /\ \A e \in Entries(Files(Recovered.version)) : e.seq <= Recovered.last
<1> DEFINE v == manifest.version
           w == Recovered.version
           seqs == {manifest.last} \cup {e.seq : e \in UNION {buffers[n] : n \in FullLogs}}
<1>1. \A n \in FullLogs :
        /\ n \in NeededLogs /\ n \in Nat /\ buffers[n] # {} /\ buffers[n] \subseteq Entry /\ IsEntries(buffers[n])
        /\ \A e \in buffers[n], o \in Entries(Files(v)) : o.seq < e.seq
  <2>1. \A n \in FullLogs : n \in NeededLogs /\ buffers[n] # {}
    BY DEF FullLogs
  <2>2. \A n \in NeededLogs : n \in Nat
    BY LogNumbers
  <2>3. \A n \in NeededLogs :
          /\ buffers[n] \subseteq Entry /\ IsEntries(buffers[n])
          /\ \A e \in buffers[n], o \in Entries(Files(v)) : o.seq < e.seq
    BY DEF LevelsInv, LogsInv
  <2> HIDE DEF v
  <2> QED
    BY <2>1, <2>2, <2>3
<1>2. \A f \in LogTables : \E n \in FullLogs : f.entries = buffers[n]
  BY DEF LogTables
<1>3. \A e \in Entries(LogTables) : \E n \in FullLogs : e \in buffers[n]
  BY <1>2, EntriesOf
<1>4. IsEntries(Entries(LogTables))
  <2>1. \A e \in Entries(LogTables) : e.key \in Int /\ e.seq \in Nat
    BY <1>1, <1>3 DEF IsEntries
  <2>2. ASSUME NEW e \in Entries(LogTables), NEW o \in Entries(LogTables), e.key = o.key, e.seq = o.seq
        PROVE  e = o
    <3>1. PICK n \in FullLogs : e \in buffers[n]
      BY <1>3
    <3>2. PICK m \in FullLogs : o \in buffers[m]
      BY <1>3
    <3>3. ASSUME n < m PROVE FALSE
      <4>1. e.seq < o.seq
        BY <1>1, <3>1, <3>2, <3>3 DEF LevelsInv, LogsInv
      <4> QED
        BY <2>1, <2>2, <4>1
    <3>4. ASSUME m < n PROVE FALSE
      <4>1. o.seq < e.seq
        BY <1>1, <3>1, <3>2, <3>4 DEF LevelsInv, LogsInv
      <4> QED
        BY <2>1, <2>2, <4>1
    <3>5. n = m
      BY <1>1, <3>3, <3>4
    <3> QED
      BY <1>1, <2>2, <3>1, <3>2, <3>5 DEF IsEntries
  <2> QED
    BY <2>1, <2>2 DEF IsEntries
<1>5. Fits(v, LogTables, 0)
  <2>1. 0 \in Levels
    BY LevelsAssumption DEF Levels
  <2>2. GoodFiles(LogTables)
    BY <1>1, <1>2 DEF GoodFiles
  <2>3. \A e \in Entries(LogTables), o \in Entries(Files(v)) : o.seq < e.seq
    BY <1>1, <1>3
  <2> QED
    BY <1>4, <2>1, <2>2, <2>3 DEF Fits
<1>6. w = [v EXCEPT ![0] = @ \cup LogTables] /\ DOMAIN v = Levels
  BY DEF Recovered, LogTables, FullLogs, NumsInv, NumbersInv
<1> HIDE DEF w
<1>7. (\A l \in Levels \ {0} : w[l] = v[l]) /\ w[0] = v[0] \cup LogTables
  <2>1. 0 \in Levels
    BY LevelsAssumption DEF Levels
  <2> QED
    BY <1>6, <2>1
<1>8. VersionInv(cut, w) /\ Entries(Files(w)) = Entries(Files(v)) \cup Entries(LogTables)
  <2> DEFINE new == LogTables
             level == 0
  <2>1. Fits(v, new, level) /\ (\A l \in Levels \ {level} : w[l] = v[l]) /\ w[level] = v[level] \cup new
    BY <1>5, <1>7
  <2>2. VersionInv(cut, v)
    BY DEF LevelsInv
  <2> HIDE DEF new, level, v
  <2>3. VersionInv(cut, w) /\ Entries(Files(w)) = Entries(Files(v)) \cup Entries(new)
    BY <2>1, <2>2, NewerKeeps
  <2> QED
    BY <2>3 DEF new
<1>9. /\ manifest.last \in 0..MaxWrites /\ MaxWrites \in Nat
       /\ \A e \in Entries(Files(v)) : e.seq \in Nat /\ e.seq <= manifest.last
  <2>1. \A e \in Entries(Files(v)) : e.seq \in Nat
    BY VersionFacts, EntryType DEF LevelsInv
  <2> QED
    BY <2>1, BoundsAssumption DEF LevelsInv, SeqsInv
<1>10. \A e \in UNION {buffers[n] : n \in FullLogs} : e \in Entry
  BY <1>1
<1>11. seqs \subseteq Nat /\ seqs # {} /\ \A s \in seqs : s <= MaxWrites
  BY <1>9, <1>10, EntryType
<1>12. Recovered.last = CHOOSE s \in seqs : \A t \in seqs : t <= s
  BY DEF Recovered, FullLogs
<1>13. manifest.last \in seqs /\ \A n \in FullLogs : \A e \in buffers[n] : e.seq \in seqs
  OBVIOUS
<1> HIDE DEF seqs
<1>14. \E s \in seqs : \A t \in seqs : t <= s
  BY <1>9, <1>11, LargestNumber
<1>15. Recovered.last \in seqs /\ \A t \in seqs : t <= Recovered.last
  BY <1>12, <1>14
<1> DEFINE last == Recovered.last
           first == manifest.last
<1>16. last \in 0..MaxWrites /\ last \in Nat
  <2>1. last \in seqs
    BY <1>15
  <2> HIDE DEF last
  <2> QED
    BY <1>9, <1>11, <2>1
<1>17. \A e \in Entries(Files(w)) : e.seq <= Recovered.last
  <2>1. \A e \in Entries(LogTables) : e.seq <= Recovered.last
    BY <1>3, <1>13, <1>15
  <2>2. \A e \in Entries(Files(v)) : e.seq <= Recovered.last
    <3>1. first <= last /\ first \in Nat /\ \A e \in Entries(Files(v)) : e.seq \in Nat /\ e.seq <= first
      BY <1>9, <1>11, <1>13, <1>15
    <3>2. last = Recovered.last
      OBVIOUS
    <3> HIDE DEF first, last
    <3> QED
      BY <1>16, <3>1, <3>2
  <2> QED
    BY <1>8, <2>1, <2>2
<1> QED
  BY <1>8, <1>16, <1>17 DEF w, last

LEMMA OpenLevels == ASSUME NEW cut, NumsInv, LevelsInv(cut), Open PROVE LevelsInv(cut)'
<1>1. /\ ~opened /\ opened' = TRUE /\ manifest' = Recovered /\ current' = Recovered.version
      /\ mem' = Recovered.log /\ imm' = Nil /\ buffers' = WithBuffer({}, Recovered.log)
      /\ lastSeq' = Recovered.last /\ logFiles' = {Recovered.log}
      /\ Recovered.log \in 1..NumberLimit /\ UNCHANGED <<compact, edit>>
  BY DEF Open, bgVars
<1>2. compact = Nil /\ edit = Nil
  BY <1>1 DEF NumsInv, FilesInv, ClosedShape
<1>3. DOMAIN buffers' = {Recovered.log} /\ buffers'[Recovered.log] = {}
  BY <1>1 DEF WithBuffer
<1>4. Recovered.log \in Nat
  BY <1>1
<1>5. NeededLogs' \subseteq {Recovered.log}
  BY <1>1 DEF NeededLogs
<1>6. LogsInv'
  BY <1>1, <1>3, <1>5 DEF LogsInv, IsEntries
<1>7. SeqsInv'
  <2>1. /\ manifest'.last \in 0..MaxWrites /\ lastSeq' = manifest'.last
        /\ \A e \in Entries(Files(manifest'.version)) : e.seq <= manifest'.last
    BY <1>1, RecoveredLevels
  <2>2. lastSeq' \in 0..MaxWrites /\ manifest'.last <= lastSeq'
    BY <2>1, BoundsAssumption
  <2> QED
    BY <1>3, <1>5, <2>1, <2>2 DEF SeqsInv
<1>8. CompactInv(cut)' /\ OpenInv'
  BY <1>1, <1>2, <1>4 DEF CompactInv, OpenInv, Editing
<1>9. VersionInv(cut, manifest'.version)
  BY <1>1, RecoveredLevels
<1> QED
  BY <1>6, <1>7, <1>8, <1>9 DEF LevelsInv

\* The log that a recovery begins is after all it has read.
LEMMA NewLogIsLast ==
  ASSUME NEW cut, NumsInv, LevelsInv(cut)
  PROVE  /\ Recovered.log \in Nat /\ Recovered.log \notin logFiles
         /\ \A n \in NeededLogs : n \in Nat /\ n < Recovered.log
<1> DEFINE limit == MaxNumber + 1
<1>1. NumbersInv /\ Recovered.log = Fresh(limit) /\ MaxNumber \in Nat
  BY RecoveredFiles, LimitFacts DEF NumsInv
<1>2. \A n \in NeededLogs : n \in 1..MaxNumber
  BY <1>1, LogFacts
<1>3. ASSUME NEW n \in NeededLogs PROVE n \in Nat /\ n < Fresh(limit)
  <2>1. n \in Nat /\ n < limit
    BY <1>1, <1>2
  <2> HIDE DEF limit
  <2>2. Cardinality(FullBetween(n, limit)) \in Nat
    BY <1>1, LogFacts, FewLogs
  <2>3. n + 1 + Cardinality(FullBetween(n, limit)) \in Marks(limit)
    BY <2>1 DEF Marks
  <2>4. Fresh(limit) \in Nat /\ \A m \in Marks(limit) : m \in Nat /\ m <= Fresh(limit)
    BY <1>1, FreshIsLargest
  <2>5. n + 1 + Cardinality(FullBetween(n, limit)) <= Fresh(limit)
    BY <2>3, <2>4
  <2> QED
    BY <2>1, <2>2, <2>4, <2>5
<1>4. Fresh(limit) \in Nat
  BY <1>1, FreshIsLargest
<1> HIDE DEF limit
<1>5. Fresh(limit) \notin logFiles
  <2> SUFFICES ASSUME Fresh(limit) \in logFiles PROVE FALSE
    OBVIOUS
  <2>1. manifest.log \in NeededLogs /\ manifest.log \in Nat
    BY LogNumbers
  <2>2. manifest.log < Fresh(limit)
    BY <1>3, <2>1
  <2>3. Fresh(limit) \in NeededLogs
    BY <1>4, <2>1, <2>2 DEF NeededLogs
  <2>4. Fresh(limit) < Fresh(limit)
    BY <1>3, <2>3
  <2> QED
    BY <1>4, <2>4
<1> QED
  BY <1>1, <1>3, <1>4, <1>5

\* Once the manifest of a recovery is in place, no log that it read is needed.
LEMMA OldLogsAreRead ==
  ASSUME NEW cut, NumsInv, LevelsInv(cut), manifest' = Recovered, logFiles' \subseteq logFiles \cup {Recovered.log}
  PROVE  NeededLogs' \subseteq {Recovered.log}
<1> DEFINE log == Recovered.log
<1>1. log \in Nat /\ \A n \in NeededLogs : n \in Nat /\ n < log
  BY NewLogIsLast
<1>2. \A n \in NeededLogs' : n \in logFiles' /\ n >= log
  BY DEF NeededLogs
<1> HIDE DEF log
<1>3. ASSUME NEW n \in NeededLogs', n \in logFiles PROVE FALSE
  <2>1. n \in Nat /\ manifest.log \in Nat /\ manifest.log \in NeededLogs
    BY <1>3, LogNumbers
  <2>2. manifest.log < log /\ n >= log
    BY <1>1, <1>2, <2>1
  <2>3. n \in NeededLogs
    BY <1>1, <1>3, <2>1, <2>2 DEF NeededLogs
  <2> QED
    BY <1>1, <2>1, <2>2, <2>3
<1> QED
  BY <1>2, <1>3 DEF log

LEMMA CutLevels == ASSUME NEW cut, NumsInv, LevelsInv(cut), OpenIsCut PROVE LevelsInv(cut)'
<1> DEFINE log == Recovered.log
<1>1. /\ ~opened /\ opened' = opened /\ manifest' \in {manifest, Recovered}
      /\ logFiles' = logFiles \cup {log} /\ buffers' = WithBuffer(logFiles, log)
      /\ UNCHANGED <<compact, edit>>
  BY DEF OpenIsCut, bgVars
<1>2. compact = Nil
  BY <1>1 DEF NumsInv, FilesInv, ClosedShape
<1>3. log \in Nat /\ log \notin logFiles /\ \A n \in NeededLogs : n \in Nat /\ n < log
  BY NewLogIsLast
<1>4. Recovered.log = log
  OBVIOUS
<1> HIDE DEF log
<1>5. DOMAIN buffers' = logFiles' /\ buffers'[log] = {} /\ \A n \in logFiles : buffers'[n] = buffers[n]
  BY <1>1, <1>3 DEF WithBuffer
<1>6. ~opened'
  BY <1>1
<1>7. CompactInv(cut)' /\ OpenInv'
  BY <1>1, <1>2, <1>6 DEF CompactInv, OpenInv
<1>8. CASE manifest' = manifest
  <2>1. \A n \in NeededLogs' : n \in NeededLogs \/ n = log
    BY <1>1, <1>8 DEF NeededLogs
  <2>2. \A n \in NeededLogs : buffers'[n] = buffers[n]
    BY <1>5 DEF NeededLogs
  <2>3. \A n \in NeededLogs' : \/ n \in NeededLogs /\ buffers'[n] = buffers[n]
                               \/ n = log /\ buffers'[n] = {}
    BY <1>5, <2>1, <2>2
  <2>4. \A n \in NeededLogs' :
          /\ buffers'[n] \subseteq Entry /\ IsEntries(buffers'[n])
          /\ \A e \in buffers'[n], o \in Entries(Files(manifest.version)) : o.seq < e.seq
    BY <2>3 DEF LevelsInv, LogsInv, IsEntries
  <2>5. ASSUME NEW n \in NeededLogs', NEW m \in NeededLogs', n < m, NEW o \in buffers'[n], NEW e \in buffers'[m]
        PROVE  o.seq < e.seq
    <3>1. n \in NeededLogs /\ o \in buffers[n] /\ m \in NeededLogs /\ e \in buffers[m]
      BY <2>3, <2>5
    <3> QED
      BY <2>5, <3>1 DEF LevelsInv, LogsInv
  <2>6. LogsInv'
    BY <1>5, <1>8, <2>4, <2>5 DEF LogsInv
  <2>7. SeqsInv' /\ VersionInv(cut, manifest'.version)
    BY <1>6, <1>8 DEF LevelsInv, SeqsInv
  <2> QED
    BY <1>7, <2>6, <2>7 DEF LevelsInv
<1>9. CASE manifest' = Recovered
  <2>1. \A n \in NeededLogs' : n = log
    BY <1>1, <1>4, <1>9, OldLogsAreRead
  <2>2. LogsInv'
    BY <1>3, <1>5, <2>1 DEF LogsInv, IsEntries
  <2>3. SeqsInv' /\ VersionInv(cut, manifest'.version)
    BY <1>6, <1>9, RecoveredLevels DEF SeqsInv
  <2> QED
    BY <1>7, <2>2, <2>3 DEF LevelsInv
<1> QED
  BY <1>1, <1>8, <1>9

LEMMA InitLevels == ASSUME NEW cut, Init PROVE LevelsInv(cut)
<1>1. /\ opened = TRUE /\ lastSeq = 0 /\ mem = 3 /\ imm = Nil /\ buffers = [n \in {3} |-> {}]
      /\ current = EmptyVersion /\ compact = Nil /\ edit = Nil
      /\ manifest.version = EmptyVersion /\ manifest.log = 3 /\ manifest.last = 0 /\ logFiles = {3}
  BY DEF Init
<1>2. Entries(Files(EmptyVersion)) = {} /\ \A level \in Levels : EmptyVersion[level] = {} /\ Entries({}) = {}
  BY NoFiles DEF Entries, EmptyVersion
<1>3. VersionInv(cut, EmptyVersion)
  BY <1>2, NoFiles DEF VersionInv, GoodFiles, IsEntries, Sorted, NewerAbove
<1>4. DOMAIN buffers = {3} /\ buffers[3] = {} /\ NeededLogs \subseteq {3}
  BY <1>1 DEF NeededLogs
<1>5. LogsInv
  BY <1>1, <1>4 DEF LogsInv, IsEntries
<1>6. SeqsInv
  BY <1>1, <1>2, <1>4, BoundsAssumption DEF SeqsInv
<1>7. CompactInv(cut) /\ OpenInv
  BY <1>1 DEF CompactInv, OpenInv, Editing
<1> QED
  BY <1>1, <1>3, <1>5, <1>6, <1>7 DEF LevelsInv

LEMMA StepLevels ==
  ASSUME NEW cut, split' \subseteq cut
  PROVE  NumsInv /\ LevelsInv(cut) /\ [Next]_vars => LevelsInv(cut)'
<1> SUFFICES ASSUME NumsInv, LevelsInv(cut), [Next]_vars PROVE LevelsInv(cut)'
  OBVIOUS
<1>1. CASE UNCHANGED vars
  BY <1>1, StutterLevels DEF vars
<1>2. ASSUME NEW input \in Inputs, Write(input[1], input[2]) PROVE LevelsInv(cut)'
  BY <1>2, WriteLevels
<1>3. ASSUME NEW h \in Handles, GetSnapshot(h) \/ ReleaseSnapshot(h) PROVE LevelsInv(cut)'
  BY <1>3, SnapshotLevels
<1>4. ASSUME NEW r \in Readers, NewIterator(r) \/ ReleaseIterator(r) PROVE LevelsInv(cut)'
  BY <1>4, IteratorLevels
<1>5. ASSUME NEW level \in 0..NumLevels - 2, AutomaticCompaction(level) PROVE LevelsInv(cut)'
  BY <1>5, AutomaticLevels
<1>6. ASSUME compact # Nil, NEW e \in compact.todo, WriteOutput(e) PROVE LevelsInv(cut)'
  BY <1>6, OutputLevels
<1>7. CASE Next
  BY <1>2, <1>3, <1>4, <1>5, <1>6, <1>7, SwitchLevels, FlushLevels, InstallLevels, FinishLevels,
     EndLevels, OpenLevels, CutLevels DEF Next
<1> QED
  BY <1>1, <1>7

\* Where outputs have ended stays known.
LEMMA SplitGrows == [Next]_vars => split \subseteq split'
<1> SUFFICES ASSUME [Next]_vars PROVE split \subseteq split'
  OBVIOUS
<1>1. CASE UNCHANGED vars
  BY <1>1 DEF vars
<1>2. ASSUME NEW input \in Inputs, Write(input[1], input[2]) PROVE split' = split
  BY <1>2 DEF Write
<1>3. ASSUME NEW h \in Handles, GetSnapshot(h) \/ ReleaseSnapshot(h) PROVE split' = split
  BY <1>3 DEF GetSnapshot, ReleaseSnapshot
<1>4. ASSUME NEW r \in Readers, NewIterator(r) \/ ReleaseIterator(r) PROVE split' = split
  BY <1>4 DEF NewIterator, ReleaseIterator
<1>5. ASSUME NEW level \in 0..NumLevels - 2, AutomaticCompaction(level) PROVE split' = split
  BY <1>5 DEF AutomaticCompaction
<1>6. ASSUME NEW e, WriteOutput(e) PROVE split \subseteq split'
  BY <1>6 DEF WriteOutput
<1>7. CASE SwitchMemTable \/ Flush \/ InstallEdit \/ FinishCompaction \/ End \/ Open \/ OpenIsCut
  BY <1>7 DEF SwitchMemTable, Flush, InstallEdit, FinishCompaction, End, Open, OpenIsCut
<1>8. CASE Next
  BY <1>2, <1>3, <1>4, <1>5, <1>6, <1>7, <1>8 DEF Next
<1> QED
  BY <1>1, <1>8

\* The invariant of every set that has the keys inside which an output has ended.
SplitLevelsInv == \A cut : split \subseteq cut => LevelsInv(cut)

LEMMA StepSplitLevels == NumsInv /\ SplitLevelsInv /\ [Next]_vars => SplitLevelsInv'
<1> SUFFICES ASSUME NumsInv, SplitLevelsInv, [Next]_vars, NEW cut, split' \subseteq cut PROVE LevelsInv(cut)'
  BY DEF SplitLevelsInv
<1>1. split \subseteq cut
  BY SplitGrows
<1>2. LevelsInv(cut)
  BY <1>1 DEF SplitLevelsInv
<1> QED
  BY <1>2, StepLevels

LEMMA SortedInTheRun == ASSUME NEW cut, LevelsInv(cut) PROVE LevelsAreSorted
<1> SUFFICES ASSUME NEW level \in 1..NumLevels - 1,
                    NEW f \in manifest.version[level], NEW g \in manifest.version[level], f # g
             PROVE  Before(Largest(f), Smallest(g)) \/ Before(Largest(g), Smallest(f))
  BY DEF LevelsAreSorted
<1>1. level \in Levels \ {0}
  BY LevelsAssumption DEF Levels
<1>2. Apart(cut, f, g)
  BY <1>1 DEF LevelsInv, VersionInv, Sorted
<1>3. Fine(Files(manifest.version)) /\ f \in Files(manifest.version) /\ g \in Files(manifest.version)
  BY <1>1, VersionFacts, LevelFiles DEF LevelsInv, Proper
<1>4. /\ Smallest(f) \in f.entries /\ Largest(f) \in f.entries
      /\ Smallest(g) \in g.entries /\ Largest(g) \in g.entries
  BY <1>3, FileIsFine, EndsOf DEF Smallest, Largest
<1>5. Precedes(cut, Largest(f), Smallest(g)) \/ Precedes(cut, Largest(g), Smallest(f))
  BY <1>2, <1>4 DEF Apart, Ahead
<1> QED
  BY <1>5 DEF Precedes, Before

\* "Make sure there is no overlap in levels > 0" (version_set.cc:733): whatever is
\* flushed, moved, compacted and recovered, and wherever a process ends, the tables of
\* a level past 0 stay apart, also where an output of a compaction ends inside a user
\* key, if the application does not call CompactRange.
THEOREM LevelsStaySorted == Spec => []LevelsAreSorted
<1>1. Init => NumsInv /\ SplitLevelsInv
  BY InitNumbers, InitLevels DEF SplitLevelsInv
<1>2. NumsInv /\ SplitLevelsInv /\ [Next]_vars => NumsInv' /\ SplitLevelsInv'
  BY StepNumbers, StepSplitLevels DEF ManualNext
<1>3. NumsInv /\ SplitLevelsInv => LevelsAreSorted
  BY SortedInTheRun DEF SplitLevelsInv
<1> QED
  BY <1>1, <1>2, <1>3, PTL DEF Spec

\* "If we find data in an smaller level, later levels are irrelevant" (version_set.cc:339):
\* under the same condition an entry never lies above a newer one of its key, for every
\* key inside which no output of a compaction has ended.
THEOREM UpperStaysNewer == Spec => []UpperIsNewer
<1>1. Init => NumsInv /\ SplitLevelsInv
  BY InitNumbers, InitLevels DEF SplitLevelsInv
<1>2. NumsInv /\ SplitLevelsInv /\ [Next]_vars => NumsInv' /\ SplitLevelsInv'
  BY StepNumbers, StepSplitLevels DEF ManualNext
<1>3. NumsInv /\ SplitLevelsInv => UpperIsNewer
  <2> SUFFICES ASSUME SplitLevelsInv PROVE UpperIsNewer
    OBVIOUS
  <2>1. NewerAbove(split, manifest.version)
    BY DEF SplitLevelsInv, LevelsInv, VersionInv
  <2> QED
    BY <2>1 DEF NewerAbove, UpperIsNewer, UpperNewerOf
<1> QED
  BY <1>1, <1>2, <1>3, PTL DEF Spec

-----------------------------------------------------------------------------
(* What is written, on disk and held *)

\* A write, the history of writes, and the entry that the nth of them is.
Input == [key : Keys, type : {"value", "deletion"}]
History == Seq(Input)
Record(h, n) == [key |-> h[n].key, seq |-> n, type |-> h[n].type]

\* Entries are what was written; the last write of a key up to s is there, or it is a
\* deletion of which nothing as old is left.
Recorded(h, S) == \A e \in S : e.seq \in 1..Len(h) /\ e = Record(h, e.seq)
IsLast(h, n, s) == \A m \in 1..s : m > n => h[m].key # h[n].key
Shows(cut, h, S, s) ==
  \A n \in 1..s : IsLast(h, n, s) /\ h[n].key \notin cut =>
    \/ Record(h, n) \in S
    \/ h[n].type = "deletion" /\ \A e \in S : e.key = h[n].key => n < e.seq

\* What Version::Get rests on.  The tables of level 0 are newer the larger their number.
NewerOnZero(v) ==
  \A f, g \in v[0] : f.number < g.number => \A e \in f.entries, o \in g.entries : e.seq < o.seq
Readable(cut, v) ==
  /\ VersionInv(cut, v) /\ NewerOnZero(v)
  /\ OneNumberEach(Files(v)) /\ \A f \in Files(v) : f.number \in Nat

\* What a reader holds is what was written, newer where it is looked up first, and shows
\* each sequence number that is read.
ImmOf(bufs, read) == IF read.imm = Nil THEN {} ELSE bufs[read.imm]
Holds(bufs, read) == bufs[read.mem] \cup ImmOf(bufs, read) \cup Entries(Files(read.version))
ReadInv(cut, h, bufs, read, seqs) ==
  /\ read.mem \in DOMAIN bufs /\ read.mem \in Nat
  /\ read.imm # Nil => read.imm \in DOMAIN bufs /\ read.imm \in Nat /\ read.imm < read.mem
  /\ Readable(cut, read.version) /\ Recorded(h, Holds(bufs, read))
  /\ \A e \in bufs[read.mem], o \in ImmOf(bufs, read) : o.seq < e.seq
  /\ \A e \in bufs[read.mem] \cup ImmOf(bufs, read), o \in Entries(Files(read.version)) : o.seq < e.seq
  /\ \A s \in seqs : s \in 0..Len(h) /\ Shows(cut, h, Holds(bufs, read), s)

\* The disk, tables and needed logs together, shows what every snapshot sees.
Logged == UNION {buffers[n] : n \in NeededLogs}
OnDisk == Entries(Files(manifest.version)) \cup Logged

\* The disk: it has the writes up to the latest, it shows every snapshot, and while the
\* store is open what it needs of the logs is in memory.
DiskInv(cut) ==
  /\ written \in History /\ DOMAIN snaps = Handles
  /\ opened => lastSeq = Len(written)
  /\ NewerOnZero(manifest.version) /\ Recorded(written, OnDisk)
  /\ manifest.last <= Len(written)
  /\ \A n \in 1..Len(written) : n > manifest.last => Record(written, n) \in Logged
  /\ \A s \in {Len(written)} \cup Snapshots : s \in 0..Len(written) /\ Shows(cut, written, OnDisk, s)
  /\ opened => NeededLogs \subseteq (IF Editing("flush") THEN {mem} ELSE {mem, imm})
  /\ opened /\ Editing("flush") => imm # Nil

\* What a running compaction drops (of what it reads, given what it keeps and what lies
\* elsewhere) is hidden, or a deletion of nothing, for all that see as far as base.
Rest(v, level, inputs) ==
  UNION {v[l] \ ((IF l = level THEN inputs[1] ELSE {}) \cup (IF l = level + 1 THEN inputs[2] ELSE {})) : l \in Levels}

DropsInv(cut, base, inp, out, rest) ==
  \A e \in inp \ out : e.key \notin cut =>
    \/ \E newer \in inp : newer.key = e.key /\ e.seq < newer.seq /\ newer.seq <= base
    \/ /\ e.type = "deletion" /\ e.seq <= base
       /\ \A o \in out \cup rest : o.key = e.key => e.seq < o.seq

\* A compaction that runs: what it has dropped nobody will look for.
KeptInv(cut) ==
  compact # Nil /\ ~Editing("compaction") =>
    \E base \in 0..lastSeq :
      /\ \A s \in Snapshots : base <= s
      /\ DropsInv(cut, base, Entries(compact.inputs[1] \cup compact.inputs[2]), Entries(compact.outputs) \cup compact.todo,
                  Entries(Rest(manifest.version, compact.level, compact.inputs)))

\* What a reader holds, and what one would hold that begins while an edit is written.
NowInv(cut) == opened /\ edit # Nil => ReadInv(cut, written, buffers, Now, {lastSeq} \cup Snapshots)
HeldInv(cut) ==
  \A r \in Readers : Held(r) => ReadInv(cut, written, buffers, reads[r], reads[r].seqs) /\ reads[r].mem <= mem

\* The invariant behind CopiesAreRight.
CopiesInv(cut) == DiskInv(cut) /\ KeptInv(cut) /\ NowInv(cut) /\ HeldInv(cut)

-----------------------------------------------------------------------------
(* What a read finds *)

\* The newest of the entries that are visible.
LEMMA NewestIsThere ==
  ASSUME NEW S, IsEntries(S), NEW target, target.seq \in Nat, Visible(S, target) # {}
  PROVE  \E e \in S : IsNewest(e, S, target)
<1> DEFINE seqs == {e.seq : e \in Visible(S, target)}
<1>1. \A e \in Visible(S, target) : e \in S /\ e.seq \in Nat /\ e.seq <= target.seq
  BY DEF Visible, IsEntries
<1>2. seqs \subseteq Nat /\ seqs # {} /\ \A n \in seqs : n <= target.seq
  BY <1>1
<1>3. PICK n \in seqs : \A m \in seqs : m <= n
  <2> HIDE DEF seqs
  <2> QED
    BY <1>2, LargestNumber
<1>4. PICK e \in Visible(S, target) : e.seq = n
  BY <1>3
<1> QED
  BY <1>1, <1>3, <1>4 DEF IsNewest

\* What a seek finds is visible.
LEMMA FoundIsVisible ==
  ASSUME NEW S, IsEntries(S), NEW target, target.seq \in Nat, NEW e \in Seek(S, target)
  PROVE  e \in Visible(S, target)
<1>1. Visible(S, target) # {}
  BY SeekFindsNothing
<1>2. PICK newest \in S : IsNewest(newest, S, target)
  BY <1>1, NewestIsThere
<1>3. Seek(S, target) = {newest}
  BY <1>2, SeekFindsNewest
<1> QED
  BY <1>2, <1>3 DEF IsNewest

\* The entries of A are newer than those of B.
AllNewer(A, B) == \A e \in A, o \in B : o.seq < e.seq

\* A seek in two sets of entries of which one is newer.
LEMMA SeekNewerFirst ==
  ASSUME NEW A, NEW B, IsEntries(A \cup B), AllNewer(A, B), NEW target, target.seq \in Nat
  PROVE  /\ Seek(A, target) # {} => Seek(A \cup B, target) = Seek(A, target)
         /\ Seek(A, target) = {} => Seek(A \cup B, target) = Seek(B, target)
<1> DEFINE C == A \cup B
<1>1. IsEntries(A) /\ IsEntries(B) /\ A \subseteq C /\ B \subseteq C
  BY DEF IsEntries
<1>2. \A e \in C : e.seq \in Nat
  BY DEF IsEntries
<1>3. CASE Visible(A, target) # {}
  <2>1. PICK e \in A : IsNewest(e, A, target)
    BY <1>1, <1>3, NewestIsThere
  <2>2. \A o \in Visible(C, target) : o.seq <= e.seq
    <3> SUFFICES ASSUME NEW o \in Visible(C, target) PROVE o.seq <= e.seq
      OBVIOUS
    <3>1. CASE o \in A
      BY <2>1, <3>1 DEF IsNewest, Visible
    <3>2. CASE o \in B
      <4>1. o.seq < e.seq /\ o.seq \in Nat /\ e.seq \in Nat
        BY <1>2, <2>1, <3>2 DEF AllNewer
      <4> QED
        BY <4>1
    <3> QED
      BY <3>1, <3>2 DEF Visible
  <2>3. IsNewest(e, C, target)
    BY <2>1, <2>2 DEF IsNewest, Visible
  <2>4. Seek(C, target) = {e} /\ Seek(A, target) = {e}
    <3> HIDE DEF C
    <3> QED
      BY <1>1, <2>1, <2>3, SeekFindsNewest DEF C
  <2>5. Seek(A, target) # {}
    BY <2>4
  <2> QED
    BY <2>4, <2>5
<1>4. CASE Visible(A, target) = {}
  <2>1. Seek(A, target) = {}
    BY <1>4, SeekFindsNothing
  <2>2. Visible(C, target) = Visible(B, target)
    BY <1>4 DEF Visible
  <2>3. Seek(C, target) = Seek(B, target)
    BY <2>2 DEF Seek, Visible
  <2> QED
    BY <2>1, <2>3
<1> QED
  BY <1>3, <1>4

\* Two tables of a level past 0 have no user key in common but those of cut.
LEMMA KeysAreApart ==
  ASSUME NEW cut, NEW v, VersionInv(cut, v), NEW level \in Levels, level # 0,
         NEW f \in v[level], NEW g \in v[level], f # g,
         NEW e \in f.entries, NEW o \in g.entries, e.key \in Int, e.key = o.key
  PROVE  e.key \in cut
<1>1. Ahead(cut, f, g) \/ Ahead(cut, g, f)
  BY DEF VersionInv, Sorted, Apart
<1>2. Precedes(cut, e, o) \/ Precedes(cut, o, e)
  BY <1>1 DEF Ahead
<1> QED
  BY <1>2 DEF Precedes

\* The files Version::Get looks into are enough.
LEMMA HolderIsCandidate ==
  ASSUME NEW cut, NEW v, VersionInv(cut, v), NEW level \in Levels, NEW f \in v[level],
         NEW target, target.key \in Int, target.key \notin cut, target.seq \in Nat,
         NEW e \in f.entries, e.key = target.key, e.seq <= target.seq
  PROVE  f \in Candidates(v, level, target)
<1>1. Fine(Files(v)) /\ \A g \in v[level] : g \in Files(v)
  BY VersionFacts, LevelFiles DEF Proper
<1>2. CASE level = 0
  <2>1. Overlaps(f, target.key, target.key)
    BY <1>1, KeyIsMet
  <2> QED
    BY <1>2, <2>1 DEF Candidates
<1>3. CASE level # 0
  <2>1. \A g \in v[level] : /\ Smallest(g) \in g.entries /\ Largest(g) \in g.entries
                            /\ g.entries \subseteq Entry /\ g.entries # {} /\ IsEntries(g.entries)
    <3> SUFFICES ASSUME NEW g \in v[level]
                 PROVE  /\ Smallest(g) \in g.entries /\ Largest(g) \in g.entries
                        /\ g.entries \subseteq Entry /\ g.entries # {} /\ IsEntries(g.entries)
      OBVIOUS
    <3>1. g.entries # {} /\ g.entries \subseteq Entry /\ IsEntries(g.entries)
      BY <1>1, FileIsFine
    <3> QED
      BY <3>1, EndsOf DEF Smallest, Largest
  <2>2. /\ e.key \in Int /\ e.seq \in Nat /\ Largest(f).key \in Int /\ Largest(f).seq \in Nat
        /\ Smallest(f).key \in Int
    BY <2>1, EntryType
  <2>3. Largest(f) = e \/ Before(e, Largest(f))
    BY <2>1, LastIsThere DEF Largest
  <2>4. ~Before(Largest(f), target)
    BY <2>2, <2>3 DEF Before
  <2>5. Smallest(f).key <= target.key
    BY <2>1, EndsOf DEF Smallest
  <2>6. ASSUME NEW g \in v[level], ~Before(Largest(g), target), g # f
        PROVE  Before(Smallest(f), Smallest(g))
    <3>1. CASE Ahead(cut, f, g)
      <4>1. Precedes(cut, Smallest(f), Smallest(g))
        BY <2>1, <3>1 DEF Ahead
      <4> QED
        BY <4>1 DEF Precedes, Before
    <3>2. CASE Ahead(cut, g, f)
      <4>1. Precedes(cut, Largest(g), e)
        BY <2>1, <2>6, <3>2 DEF Ahead
      <4>2. Largest(g).key < target.key
        BY <2>2, <4>1 DEF Precedes, Before
      <4> QED
        BY <2>6, <4>2 DEF Before
    <3> QED
      BY <1>3, <2>6, <3>1, <3>2 DEF VersionInv, Sorted, Apart
  <2>7. f \in FindFile(v[level], target)
    BY <2>4, <2>6 DEF FindFile
  <2>8. target.key >= Smallest(f).key
    BY <2>2, <2>5
  <2> QED
    BY <1>3, <2>7, <2>8 DEF Candidates
<1> QED
  BY <1>2, <1>3

\* What Version::Get looks into are tables of the level.
LEMMA CandidatesAreFiles ==
  ASSUME NEW v, NEW level \in Levels, NEW target, NEW f \in Candidates(v, level, target)
  PROVE  f \in v[level]
<1>1. CASE level = 0
  BY <1>1 DEF Candidates
<1>2. CASE level # 0
  BY <1>2 DEF Candidates, FindFile
<1> QED
  BY <1>1, <1>2

\* Version::Get: the first hit, level by level and from newer to older on level 0, is the
\* newest visible entry of all tables.
LEMMA SearchIsRight ==
  ASSUME NEW cut, NEW v, Readable(cut, v), NEW target, target.key \in Int, target.key \notin cut, target.seq \in Nat
  PROVE  VersionGet(v, target) = Seek(Entries(Files(v)), target)
<1> DEFINE E == Entries(Files(v))
           hitsOn(level) == UNION {{[level |-> level, number |-> f.number, entry |-> e]
                                     : e \in Seek(f.entries, target)}
                                   : f \in Candidates(v, level, target)}
           hits == UNION {hitsOn(level) : level \in Levels}
           best == {h \in hits : \A g \in hits :
                        h.level < g.level \/ (h.level = g.level /\ h.number >= g.number)}
<1>1. VersionGet(v, target) = {hit.entry : hit \in best}
  BY DEF VersionGet
<1>2. VersionInv(cut, v) /\ IsEntries(E) /\ Fine(Files(v))
  BY VersionFacts DEF Readable, VersionInv, Proper
<1>3. \A level \in Levels : \A f \in v[level] :
        /\ f \in Files(v) /\ f.entries \subseteq E /\ IsEntries(f.entries) /\ f.number \in Nat
  <2> SUFFICES ASSUME NEW level \in Levels, NEW f \in v[level]
               PROVE  f \in Files(v) /\ f.entries \subseteq E /\ IsEntries(f.entries) /\ f.number \in Nat
    OBVIOUS
  <2>1. f \in Files(v)
    BY LevelFiles
  <2>2. IsEntries(f.entries)
    BY <1>2, <2>1, FileIsFine
  <2>3. f.entries \subseteq E
    BY <2>1 DEF Entries
  <2> QED
    BY <2>1, <2>2, <2>3 DEF Readable
<1> HIDE DEF E
<1>4. ASSUME NEW h \in hits
      PROVE  \E level \in Levels : \E f \in v[level] : \E e \in f.entries :
               /\ h = [level |-> level, number |-> f.number, entry |-> e]
               /\ e \in E /\ e.key = target.key /\ e.seq <= target.seq
  <2>1. PICK level \in Levels : h \in hitsOn(level)
    BY <1>4
  <2>2. PICK f \in Candidates(v, level, target) :
          h \in {[level |-> level, number |-> f.number, entry |-> e] : e \in Seek(f.entries, target)}
    BY <2>1
  <2>3. PICK e \in Seek(f.entries, target) : h = [level |-> level, number |-> f.number, entry |-> e]
    BY <2>2
  <2>4. f \in v[level]
    BY CandidatesAreFiles
  <2>5. e \in Visible(f.entries, target)
    BY <1>3, <2>4, FoundIsVisible
  <2> QED
    BY <1>3, <2>3, <2>4, <2>5 DEF Visible
<1>5. ASSUME NEW level \in Levels, NEW f \in v[level], NEW e \in f.entries, IsNewest(e, f.entries, target)
      PROVE  [level |-> level, number |-> f.number, entry |-> e] \in hits
  <2>1. e.key = target.key /\ e.seq <= target.seq
    BY <1>5 DEF IsNewest, Visible
  <2>2. f \in Candidates(v, level, target)
    BY <1>2, <2>1, HolderIsCandidate
  <2>3. Seek(f.entries, target) = {e}
    BY <1>3, <1>5, SeekFindsNewest
  <2>4. [level |-> level, number |-> f.number, entry |-> e] \in hitsOn(level)
    BY <2>2, <2>3
  <2> HIDE DEF hitsOn
  <2> QED
    BY <2>4
<1> HIDE DEF hits
<1>6. CASE Visible(E, target) = {}
  <2>1. hits = {}
    BY <1>4, <1>6 DEF Visible
  <2>2. Seek(E, target) = {}
    BY <1>6, SeekFindsNothing
  <2> QED
    BY <1>1, <2>1, <2>2 DEF E
<1>7. CASE Visible(E, target) # {}
  <2>1. PICK e \in E : IsNewest(e, E, target)
    BY <1>2, <1>7, NewestIsThere
  <2>2. Seek(E, target) = {e}
    BY <1>2, <2>1, SeekFindsNewest
  <2>3. PICK level \in Levels : \E f \in v[level] : e \in f.entries
    BY <2>1 DEF E, Entries, Files
  <2>4. PICK f \in v[level] : e \in f.entries
    BY <2>3
  <2>5. /\ e.key = target.key /\ e.seq <= target.seq /\ e.seq \in Nat
        /\ \A o \in E : o.key = target.key /\ o.seq <= target.seq => o.seq \in Nat /\ o.seq <= e.seq
    BY <1>2, <2>1 DEF IsNewest, Visible, IsEntries
  <2>6. IsNewest(e, f.entries, target)
    BY <1>3, <2>4, <2>5 DEF IsNewest, Visible
  <2> DEFINE hit == [level |-> level, number |-> f.number, entry |-> e]
  <2>7. hit \in hits
    BY <1>5, <2>4, <2>6
  <2>8. ASSUME NEW l \in Levels, NEW g \in v[l], NEW o \in g.entries, o \in E,
               o.key = target.key, o.seq <= target.seq
        PROVE  level < l \/ (level = l /\ f.number >= g.number)
    <3>0. level \in Int /\ l \in Int /\ f.number \in Nat /\ g.number \in Nat
      BY <1>3, <2>4 DEF Levels
    <3>1. o.seq <= e.seq /\ o.seq \in Nat
      BY <2>5, <2>8
    <3>2. ASSUME l < level PROVE FALSE
      <4>1. o \in Entries(v[l]) /\ e \in Entries(v[level])
        BY <2>4, EntriesOf
      <4>2. o.seq > e.seq
        BY <1>2, <2>5, <2>8, <3>2, <4>1 DEF VersionInv, NewerAbove
      <4> QED
        BY <2>5, <3>1, <4>2
    <3>3. ASSUME l = level, f.number < g.number PROVE FALSE
      <4>1. CASE level = 0
        <5>1. e.seq < o.seq
          BY <2>4, <2>8, <3>3, <4>1 DEF Readable, NewerOnZero
        <5> QED
          BY <2>5, <3>1, <5>1
      <4>2. CASE level # 0
        <5>1. f # g
          BY <3>0, <3>3
        <5>2. e.key \in Int /\ e.key = o.key
          BY <2>5, <2>8
        <5>3. e.key \in cut
          BY <1>2, <2>4, <2>8, <3>3, <4>2, <5>1, <5>2, KeysAreApart
        <5> QED
          BY <2>5, <5>3
      <4> QED
        BY <4>1, <4>2
    <3> QED
      BY <3>0, <3>2, <3>3
  <2>9. \A h \in hits : hit.level < h.level \/ (hit.level = h.level /\ hit.number >= h.number)
    BY <1>4, <2>8
  <2>10. ASSUME NEW h \in best PROVE h.entry = e
    <3>1. h \in hits /\ (h.level < hit.level \/ (h.level = hit.level /\ h.number >= hit.number))
      BY <2>7, <2>10
    <3>2. PICK l \in Levels : \E g \in v[l] : \E o \in g.entries :
               /\ h = [level |-> l, number |-> g.number, entry |-> o]
               /\ o \in E /\ o.key = target.key /\ o.seq <= target.seq
      BY <1>4, <3>1
    <3>3. PICK g \in v[l] : \E o \in g.entries :
               /\ h = [level |-> l, number |-> g.number, entry |-> o]
               /\ o \in E /\ o.key = target.key /\ o.seq <= target.seq
      BY <3>2
    <3>4. PICK o \in g.entries :
               /\ h = [level |-> l, number |-> g.number, entry |-> o]
               /\ o \in E /\ o.key = target.key /\ o.seq <= target.seq
      BY <3>3
    <3>5. level < l \/ (level = l /\ f.number >= g.number)
      BY <2>8, <3>4
    <3>6. level \in Int /\ l \in Int /\ f.number \in Nat /\ g.number \in Nat
      BY <1>3, <2>4 DEF Levels
    <3>7. l < level \/ (l = level /\ g.number >= f.number)
      BY <3>1, <3>4
    <3>8. l = level /\ g.number = f.number
      BY <3>5, <3>6, <3>7
    <3>9. g = f
      BY <1>3, <2>4, <3>8 DEF Readable, OneNumberEach
    <3>10. h \in hits /\ h.entry = o
      BY <3>1, <3>4
    <3>11. PICK w \in Candidates(v, l, target) : \E x \in Seek(w.entries, target) :
              h = [level |-> l, number |-> w.number, entry |-> x]
      <4>1. PICK k \in Levels : h \in hitsOn(k)
        BY <3>1 DEF hits
      <4>2. PICK w \in Candidates(v, k, target) :
              h \in {[level |-> k, number |-> w.number, entry |-> x] : x \in Seek(w.entries, target)}
        BY <4>1
      <4>3. PICK x \in Seek(w.entries, target) : h = [level |-> k, number |-> w.number, entry |-> x]
        BY <4>2
      <4>4. k = l
        BY <3>4, <4>3
      <4> QED
        BY <4>2, <4>3, <4>4
    <3>12. PICK x \in Seek(w.entries, target) : h = [level |-> l, number |-> w.number, entry |-> x]
      BY <3>11
    <3>13. w \in v[l] /\ w.number = g.number /\ x = o
      BY <3>4, <3>11, <3>12, CandidatesAreFiles
    <3>14. w = f
      BY <1>3, <2>4, <3>8, <3>13 DEF Readable, OneNumberEach
    <3>15. Seek(f.entries, target) = {e}
      BY <1>3, <2>4, <2>6, SeekFindsNewest
    <3> QED
      BY <3>10, <3>12, <3>13, <3>14, <3>15
  <2>11. hit \in best /\ hit.entry = e
    BY <2>7, <2>9
  <2> HIDE DEF best, hit
  <2> QED
    BY <1>1, <2>2, <2>10, <2>11 DEF E
<1> QED
  BY <1>6, <1>7

\* The entry a write x adds after the history h.
Added(h, x) == [key |-> x.key, seq |-> Len(h) + 1, type |-> x.type]

\* Writes have keys and types, and are counted.
LEMMA HistoryType ==
  ASSUME NEW h \in History
  PROVE  /\ Len(h) \in Nat
         /\ \A n \in 1..Len(h) : n \in Nat /\ h[n].key \in Keys /\ h[n].type \in {"value", "deletion"}
<1>1. Len(h) \in Nat /\ \A n \in 1..Len(h) : h[n] \in Input
  BY DEF History
<1>2. \A x \in Input : x.key \in Keys /\ x.type \in {"value", "deletion"}
  BY DEF Input
<1> QED
  BY <1>1, <1>2

\* Entries that were written are told apart by their sequence numbers.
LEMMA RecordedEntries ==
  ASSUME NEW h \in History, NEW S, Recorded(h, S)
  PROVE  /\ IsEntries(S)
         /\ \A e \in S : /\ e.seq \in 1..Len(h) /\ e.seq \in Nat /\ e.key = h[e.seq].key
                         /\ e.type = h[e.seq].type /\ e.key \in Keys
<1>1. Len(h) \in Nat /\ \A n \in 1..Len(h) : h[n].key \in Keys /\ n \in Nat
  BY HistoryType
<1>2. \A e \in S : e.seq \in 1..Len(h) /\ e.key = h[e.seq].key /\ e.type = h[e.seq].type
  BY DEF Recorded, Record
<1>3. \A e \in S : e.key \in Keys /\ e.seq \in Nat
  BY <1>1, <1>2
<1>4. \A e, o \in S : e.seq = o.seq => e = o
  BY DEF Recorded
<1> QED
  BY <1>2, <1>3, <1>4, KeysAssumption DEF IsEntries

\* The first of three results that is one.
FirstOf(a, b, c) == IF a # {} THEN a ELSE IF b # {} THEN b ELSE c

\* The first of three sets in which a seek finds something is where it would find it in all
\* three, if each is newer than those after it.
LEMMA SeekInOrder ==
  ASSUME NEW A, NEW B, NEW C, IsEntries(A \cup (B \cup C)),
         AllNewer(A, B \cup C), AllNewer(B, C), NEW target, target.seq \in Nat
  PROVE  Seek(A \cup (B \cup C), target) = FirstOf(Seek(A, target), Seek(B, target), Seek(C, target))
<1> DEFINE D == B \cup C
<1>1. IsEntries(D)
  BY DEF IsEntries
<1>2. /\ Seek(B, target) # {} => Seek(D, target) = Seek(B, target)
      /\ Seek(B, target) = {} => Seek(D, target) = Seek(C, target)
  BY <1>1, SeekNewerFirst
<1> HIDE DEF D
<1>3. IsEntries(A \cup D)
  BY DEF D
<1>4. AllNewer(A, D)
  BY DEF D
<1>5. /\ Seek(A, target) # {} => Seek(A \cup D, target) = Seek(A, target)
      /\ Seek(A, target) = {} => Seek(A \cup D, target) = Seek(D, target)
  BY <1>3, <1>4, SeekNewerFirst
<1> QED
  BY <1>2, <1>5 DEF D, FirstOf

\* DBImpl::Get (db_impl.cc:1077) stops at the first place that has the key: a reader that
\* looks in this order finds what it would find in all it holds together.
LEMMA FoundIsRight ==
  ASSUME NEW cut, NEW h \in History, NEW read, NEW seqs, ReadInv(cut, h, buffers, read, seqs),
         NEW target, target.key \in Int, target.key \notin cut, target.seq \in Nat
  PROVE  Found(read, target) = Seek(Holds(buffers, read), target)
<1> DEFINE A == buffers[read.mem]
           B == ImmOf(buffers, read)
           C == Entries(Files(read.version))
<1>1. Holds(buffers, read) = A \cup (B \cup C)
  BY DEF Holds
<1>2. IsEntries(A \cup (B \cup C)) /\ IsEntries(B \cup C)
  <2>1. IsEntries(Holds(buffers, read))
    BY RecordedEntries DEF ReadInv
  <2> QED
    BY <1>1, <2>1 DEF IsEntries
<1>3. (\A e \in A, o \in B \cup C : o.seq < e.seq) /\ (\A e \in B, o \in C : o.seq < e.seq)
  BY DEF ReadInv
<1>4. VersionGet(read.version, target) = Seek(C, target)
  BY SearchIsRight DEF ReadInv
<1>5. Seek({}, target) = {}
  BY DEF Seek
<1>6. (IF read.imm = Nil THEN {} ELSE Seek(buffers[read.imm], target)) = Seek(B, target)
  BY <1>5 DEF ImmOf
<1>7. Found(read, target) = FirstOf(Seek(A, target), Seek(B, target), Seek(C, target))
  BY <1>4, <1>6 DEF Found, FirstOf
<1> HIDE DEF A, B, C
<1>8. Seek(A \cup (B \cup C), target) = FirstOf(Seek(A, target), Seek(B, target), Seek(C, target))
  <2>1. IsEntries(A \cup (B \cup C))
    BY <1>2
  <2>2. AllNewer(A, B \cup C)
    BY <1>3 DEF AllNewer
  <2>3. AllNewer(B, C)
    BY <1>3 DEF AllNewer
  <2> QED
    BY <2>1, <2>2, <2>3, SeekInOrder
<1> QED
  BY <1>1, <1>7, <1>8

\* And that is what a store of the writes up to the sequence number has for the key.
LEMMA AnswerIsRight ==
  ASSUME NEW cut, written \in History, NEW S, Recorded(written, S), NEW s \in 0..Len(written),
         Shows(cut, written, S, s), NEW key \in Keys \ cut
  PROVE  Answer(Seek(S, [key |-> key, seq |-> s])) = StoreAt(s)[key]
<1> DEFINE target == [key |-> key, seq |-> s]
           found == Seek(S, target)
           of == {n \in 1..s : written[n].key = key}
           last == CHOOSE n \in of : \A m \in of : m <= n
<1>1. StoreAt(s)[key] = IF of = {} \/ written[last].type = "deletion" THEN NotFound ELSE last
  BY DEF StoreAt
<1>2. Len(written) \in Nat /\ s \in Nat /\ s <= Len(written) /\ \A n \in 1..s : n \in 1..Len(written) /\ n \in Nat
  BY HistoryType
<1>3. /\ IsEntries(S)
      /\ \A e \in S : /\ e.seq \in 1..Len(written) /\ e.seq \in Nat /\ e.key = written[e.seq].key
                      /\ e.type = written[e.seq].type
  BY RecordedEntries
<1>4. target.key = key /\ target.seq = s
  OBVIOUS
<1> HIDE DEF target
<1>5. \A e \in Visible(S, target) : e \in S /\ e.seq \in of
  <2> SUFFICES ASSUME NEW e \in Visible(S, target) PROVE e \in S /\ e.seq \in of
    OBVIOUS
  <2>1. e \in S /\ e.key = key /\ e.seq <= s
    BY <1>4 DEF Visible
  <2>2. e.seq \in 1..s
    BY <1>2, <1>3, <2>1
  <2> QED
    BY <1>3, <2>1, <2>2
<1>6. Answer({}) = NotFound
  BY DEF Answer
<1>7. CASE of = {}
  <2>1. found = {}
    BY <1>5, <1>7, SeekFindsNothing
  <2> QED
    BY <1>1, <1>6, <1>7, <2>1 DEF target
<1>8. CASE of # {}
  <2>1. of \subseteq Nat /\ \A n \in of : n <= s
    BY <1>2
  <2>2. last \in of /\ \A m \in of : m <= last
    <3> HIDE DEF of
    <3>1. \E n \in of : \A m \in of : m <= n
      BY <1>2, <1>8, <2>1, LargestNumber
    <3> QED
      BY <3>1
  <2>3. last \in 1..s /\ written[last].key = key /\ last \in 1..Len(written)
    BY <1>2, <2>2
  <2>4. \A m \in 1..s : written[m].key = key => m <= last
    BY <2>2
  <2> HIDE DEF of, last
  <2>5. last \in Nat
    BY <1>2, <2>3
  <2>6. IsLast(written, last, s)
    <3> SUFFICES ASSUME NEW m \in 1..s, m > last, written[m].key = key PROVE FALSE
      BY <2>3 DEF IsLast
    <3> QED
      BY <1>2, <2>4, <2>5
  <2>7. \/ Record(written, last) \in S
        \/ written[last].type = "deletion" /\ \A e \in S : e.key = key => last < e.seq
    BY <2>3, <2>6 DEF Shows
  <2>8. CASE Record(written, last) \in S
    <3> DEFINE e == Record(written, last)
    <3>1. e \in S /\ e.key = key /\ e.seq = last /\ e.type = written[last].type
      BY <2>3, <2>8 DEF Record
    <3> HIDE DEF e
    <3>2. IsNewest(e, S, target)
      <4>1. e \in Visible(S, target)
        BY <1>2, <1>4, <2>3, <2>5, <3>1 DEF Visible
      <4>2. \A o \in Visible(S, target) : o.seq <= e.seq
        BY <1>5, <2>2, <3>1
      <4> QED
        BY <4>1, <4>2 DEF IsNewest
    <3>3. found = {e}
      BY <1>3, <3>2, SeekFindsNewest
    <3>4. Answer({e}) = IF e.type = "value" THEN e.seq ELSE NotFound
      BY DEF Answer
    <3>5. written[last].type \in {"value", "deletion"}
      BY <2>3, HistoryType
    <3> QED
      BY <1>1, <1>8, <3>1, <3>3, <3>4, <3>5 DEF target
  <2>9. CASE written[last].type = "deletion" /\ \A e \in S : e.key = key => last < e.seq
    <3>1. ASSUME NEW e \in Visible(S, target) PROVE FALSE
      <4>1. e \in S /\ e.seq \in of /\ e.key = key /\ e.seq \in Nat
        BY <1>3, <1>4, <1>5, <3>1 DEF Visible
      <4>2. e.seq <= last /\ last < e.seq
        BY <2>2, <2>9, <4>1
      <4> QED
        BY <2>5, <4>1, <4>2
    <3>2. found = {}
      BY <3>1, SeekFindsNothing
    <3> QED
      BY <1>1, <1>6, <2>9, <3>2 DEF target
  <2> QED
    BY <2>7, <2>8, <2>9
<1> QED
  BY <1>7, <1>8

\* g is the history h and one more write.
Longer(h, x, g) == g = Append(h, x)

\* A write at the end of the history.
LEMMA LongerHistory ==
  ASSUME NEW h \in History, NEW x \in Input, NEW g, Longer(h, x, g)
  PROVE  /\ g \in History /\ Len(g) = Len(h) + 1 /\ g[Len(h) + 1] = x
         /\ \A n \in 1..Len(h) : g[n] = h[n] /\ Record(g, n) = Record(h, n) /\ n \in 1..Len(g)
<1>1. h \in Seq(Input) /\ x \in Input
  BY DEF History
<1>2. g \in Seq(Input) /\ Len(g) = Len(h) + 1 /\ g[Len(h) + 1] = x /\ Len(h) \in Nat
      /\ \A n \in 1..Len(h) : g[n] = h[n]
  BY <1>1 DEF Longer
<1>3. \A n \in 1..Len(h) : n \in 1..Len(g)
  BY <1>2
<1> QED
  BY <1>2, <1>3 DEF History, Record

\* A write adds its own entry, and the entries there are stay what was written.
LEMMA RecordedLonger ==
  ASSUME NEW h \in History, NEW x \in Input, NEW g, Longer(h, x, g),
         NEW S, Recorded(h, S), NEW e, e = Added(h, x)
  PROVE  Recorded(g, S) /\ Recorded(g, S \cup {e}) /\ e = Record(g, Len(h) + 1) /\ e.seq = Len(h) + 1
<1>1. /\ Len(g) = Len(h) + 1 /\ g[Len(h) + 1] = x /\ Len(h) \in Nat
      /\ \A n \in 1..Len(h) : Record(g, n) = Record(h, n) /\ n \in 1..Len(g)
  <2>1. Len(h) \in Nat /\ \A n \in 1..Len(h) : n \in Nat
    BY HistoryType
  <2>2. /\ Len(g) = Len(h) + 1 /\ g[Len(h) + 1] = x
        /\ \A n \in 1..Len(h) : g[n] = h[n] /\ Record(g, n) = Record(h, n) /\ n \in 1..Len(g)
    BY LongerHistory
  <2> QED
    BY <2>1, <2>2
<1>2. e = Record(g, Len(h) + 1) /\ e.seq = Len(h) + 1
  BY <1>1 DEF Record, Added
<1>3. Len(h) + 1 \in 1..Len(g)
  BY <1>1
<1>4. Recorded(g, S)
  BY <1>1 DEF Recorded
<1> QED
  BY <1>2, <1>3, <1>4 DEF Recorded

\* A write has no effect on what earlier sequence numbers see.
LEMMA ShowsLonger ==
  ASSUME NEW cut, NEW h \in History, NEW x \in Input, NEW g, Longer(h, x, g),
         NEW S, NEW e, e = Added(h, x),
         NEW s \in 0..Len(h), Shows(cut, h, S, s)
  PROVE  s \in 0..Len(g) /\ Shows(cut, g, S, s) /\ Shows(cut, g, S \cup {e}, s)
<1>1. /\ Len(g) = Len(h) + 1 /\ Len(h) \in Nat
      /\ \A n \in 1..Len(h) : g[n] = h[n] /\ Record(g, n) = Record(h, n) /\ n \in Nat
  <2>1. Len(h) \in Nat /\ \A n \in 1..Len(h) : n \in Nat
    BY HistoryType
  <2>2. /\ Len(g) = Len(h) + 1 /\ g[Len(h) + 1] = x
        /\ \A n \in 1..Len(h) : g[n] = h[n] /\ Record(g, n) = Record(h, n) /\ n \in 1..Len(g)
    BY LongerHistory
  <2> QED
    BY <2>1, <2>2
<1>2. \A n \in 1..s : n \in 1..Len(h) /\ n \in Nat /\ n < Len(h) + 1
  BY <1>1
<1>3. e.seq = Len(h) + 1
  BY DEF Added
<1>4. ASSUME NEW n \in 1..s, IsLast(g, n, s), g[n].key \notin cut
      PROVE  \/ Record(g, n) \in S
             \/ g[n].type = "deletion" /\ \A o \in S \cup {e} : o.key = g[n].key => n < o.seq
  <2>1. IsLast(h, n, s)
    BY <1>1, <1>2, <1>4 DEF IsLast
  <2>2. \/ Record(h, n) \in S
        \/ h[n].type = "deletion" /\ \A o \in S : o.key = h[n].key => n < o.seq
    BY <1>1, <1>2, <1>4, <2>1 DEF Shows
  <2>3. g[n] = h[n] /\ Record(g, n) = Record(h, n) /\ n < e.seq
    BY <1>1, <1>2, <1>3
  <2> QED
    BY <2>2, <2>3
<1>5. s \in 0..Len(g)
  BY <1>1
<1> QED
  BY <1>4, <1>5 DEF Shows

\* The write itself is what a reader of the new history sees.
LEMMA ShowsWrite ==
  ASSUME NEW cut, NEW h \in History, NEW x \in Input, NEW g, Longer(h, x, g),
         NEW S, NEW e, e = Added(h, x), Shows(cut, h, S, Len(h))
  PROVE  Len(g) \in 0..Len(g) /\ Shows(cut, g, S \cup {e}, Len(g))
<1>1. /\ Len(g) = Len(h) + 1 /\ Len(h) \in Nat /\ g[Len(h) + 1] = x
      /\ \A n \in 1..Len(h) : g[n] = h[n] /\ Record(g, n) = Record(h, n) /\ n \in Nat
  <2>1. Len(h) \in Nat /\ \A n \in 1..Len(h) : n \in Nat
    BY HistoryType
  <2>2. /\ Len(g) = Len(h) + 1 /\ g[Len(h) + 1] = x
        /\ \A n \in 1..Len(h) : g[n] = h[n] /\ Record(g, n) = Record(h, n) /\ n \in 1..Len(g)
    BY LongerHistory
  <2> QED
    BY <2>1, <2>2
<1>2. e = Record(g, Len(g)) /\ e.seq = Len(g)
  BY <1>1 DEF Record, Added
<1>3. ASSUME NEW n \in 1..Len(g), IsLast(g, n, Len(g)), g[n].key \notin cut
      PROVE  \/ Record(g, n) \in S \cup {e}
             \/ g[n].type = "deletion" /\ \A o \in S \cup {e} : o.key = g[n].key => n < o.seq
  <2>1. CASE n = Len(g)
    BY <1>2, <2>1
  <2>2. CASE n # Len(g)
    <3>1. n \in 1..Len(h) /\ n < Len(g) /\ Len(g) \in 1..Len(g) /\ Len(h) \in 0..Len(h)
          /\ \A m \in 1..Len(h) : m \in 1..Len(g)
      BY <1>1, <2>2
    <3>2. IsLast(h, n, Len(h))
      BY <1>1, <1>3, <3>1 DEF IsLast
    <3>3. \/ Record(h, n) \in S
          \/ h[n].type = "deletion" /\ \A o \in S : o.key = h[n].key => n < o.seq
      BY <1>1, <1>3, <3>1, <3>2 DEF Shows
    <3>4. g[n] = h[n] /\ Record(g, n) = Record(h, n) /\ n < e.seq
      BY <1>1, <1>2, <3>1
    <3> QED
      BY <3>3, <3>4
  <2> QED
    BY <2>1, <2>2
<1>4. Len(g) \in 0..Len(g)
  BY <1>1
<1> QED
  BY <1>3, <1>4 DEF Shows

\* What a reader holds is not changed by steps that leave its memtables alone.
LEMMA ReadStays ==
  ASSUME NEW cut, NEW h, NEW old, NEW bufs, NEW read, NEW same, NEW seqs, NEW fewer, ReadInv(cut, h, old, read, seqs),
         same.mem = read.mem, same.imm = read.imm, same.version = read.version, fewer \subseteq seqs,
         read.mem \in DOMAIN bufs, bufs[read.mem] = old[read.mem],
         read.imm # Nil => read.imm \in DOMAIN bufs /\ bufs[read.imm] = old[read.imm]
  PROVE  ReadInv(cut, h, bufs, same, fewer)
<1>1. ImmOf(bufs, same) = ImmOf(old, read)
  BY DEF ImmOf
<1>2. Holds(bufs, same) = Holds(old, read)
  BY <1>1 DEF Holds
<1> QED
  BY <1>1, <1>2 DEF ReadInv

\* The memtable m has one more entry.
Grown(old, m, e, bufs) ==
  /\ DOMAIN bufs = DOMAIN old /\ bufs[m] = old[m] \cup {e} /\ \A n \in DOMAIN old \ {m} : bufs[n] = old[n]

\* A write goes to the memtable of a reader, or to a later one.
LEMMA ReadWritten ==
  ASSUME NEW cut, NEW h \in History, NEW x \in Input, NEW g, Longer(h, x, g),
         NEW e, e = Added(h, x),
         NEW old, NEW m \in Nat, NEW bufs, Grown(old, m, e, bufs),
         NEW read, NEW seqs, ReadInv(cut, h, old, read, seqs), read.mem <= m
  PROVE  /\ ReadInv(cut, g, bufs, read, seqs)
         /\ read.mem = m /\ Len(h) \in seqs => ReadInv(cut, g, bufs, read, {Len(g)} \cup seqs)
<1> DEFINE S == Holds(old, read)
           R == Holds(bufs, read)
<1>1. /\ DOMAIN bufs = DOMAIN old /\ bufs[m] = old[m] \cup {e} /\ \A n \in DOMAIN old \ {m} : bufs[n] = old[n]
  BY DEF Grown
<1>2. /\ read.mem \in DOMAIN old /\ read.mem \in Nat
      /\ read.imm # Nil => read.imm \in DOMAIN old /\ read.imm \in Nat /\ read.imm < read.mem
      /\ Recorded(h, S) /\ Readable(cut, read.version)
      /\ \A s \in seqs : s \in 0..Len(h) /\ Shows(cut, h, S, s)
  BY DEF ReadInv
<1>3. ImmOf(bufs, read) = ImmOf(old, read)
  <2>1. read.imm # Nil => read.imm \in DOMAIN old \ {m}
    BY <1>2
  <2> QED
    BY <1>1, <2>1 DEF ImmOf
<1>4. IF read.mem = m THEN bufs[read.mem] = old[read.mem] \cup {e} /\ R = S \cup {e}
                      ELSE bufs[read.mem] = old[read.mem] /\ R = S
  <2>1. IF read.mem = m THEN bufs[read.mem] = old[read.mem] \cup {e} ELSE bufs[read.mem] = old[read.mem]
    BY <1>1, <1>2
  <2> QED
    BY <1>3, <2>1 DEF Holds
<1>5. /\ old[read.mem] \subseteq S /\ ImmOf(old, read) \subseteq S /\ Entries(Files(read.version)) \subseteq S
  BY DEF Holds
<1> HIDE DEF S, R
<1>6. /\ Recorded(g, S) /\ Recorded(g, S \cup {e}) /\ e.seq = Len(h) + 1 /\ Len(h) \in Nat
  BY <1>2, RecordedLonger, HistoryType
<1>7. \A o \in S : o.seq < e.seq
  <2>1. \A o \in S : o.seq \in 1..Len(h)
    BY <1>2 DEF Recorded
  <2> QED
    BY <1>6, <2>1
<1>8. \A s \in seqs : s \in 0..Len(g) /\ Shows(cut, g, S, s) /\ Shows(cut, g, S \cup {e}, s)
  BY <1>2, ShowsLonger
<1>9. /\ \A y \in bufs[read.mem], o \in ImmOf(bufs, read) : o.seq < y.seq
      /\ \A y \in bufs[read.mem] \cup ImmOf(bufs, read), o \in Entries(Files(read.version)) : o.seq < y.seq
  <2>1. \A y \in bufs[read.mem] : y \in old[read.mem] \/ y = e
    BY <1>4
  <2>2. /\ \A y \in old[read.mem], o \in ImmOf(old, read) : o.seq < y.seq
        /\ \A y \in old[read.mem] \cup ImmOf(old, read), o \in Entries(Files(read.version)) : o.seq < y.seq
    BY DEF ReadInv
  <2> QED
    BY <1>3, <1>5, <1>7, <2>1, <2>2
<1>10. Recorded(g, R) /\ \A s \in seqs : s \in 0..Len(g) /\ Shows(cut, g, R, s)
  BY <1>4, <1>6, <1>8
<1>11. ReadInv(cut, g, bufs, read, seqs)
  BY <1>1, <1>2, <1>9, <1>10 DEF ReadInv, R
<1>12. ASSUME read.mem = m, Len(h) \in seqs PROVE ReadInv(cut, g, bufs, read, {Len(g)} \cup seqs)
  <2>1. R = S \cup {e} /\ Shows(cut, h, S, Len(h))
    BY <1>2, <1>4, <1>12
  <2>2. Len(g) \in 0..Len(g) /\ Shows(cut, g, R, Len(g))
    BY <2>1, ShowsWrite
  <2>3. \A s \in {Len(g)} \cup seqs : s \in 0..Len(g) /\ Shows(cut, g, R, s)
    BY <1>10, <2>2
  <2> QED
    BY <1>11, <2>3 DEF ReadInv, R
<1> QED
  BY <1>11, <1>12

\* The entries on disk are writes, told apart by their sequence numbers.
LEMMA DiskHistory ==
  ASSUME NEW cut, DiskInv(cut)
  PROVE  /\ written \in History /\ Len(written) \in Nat /\ IsEntries(OnDisk)
         /\ \A e \in OnDisk : e.seq \in 1..Len(written) /\ e.seq \in Nat /\ e.seq <= Len(written)
<1>1. written \in History /\ Recorded(written, OnDisk)
  BY DEF DiskInv
<1>2. Len(written) \in Nat
  BY <1>1, HistoryType
<1>3. IsEntries(OnDisk) /\ \A e \in OnDisk : e.seq \in 1..Len(written)
  BY <1>1, RecordedEntries
<1> QED
  BY <1>1, <1>2, <1>3

\* What recovery makes of the disk has what the disk had, and ends with the last write.
LEMMA RecoveredIsRight ==
  ASSUME NEW cut, NumsInv, LevelsInv(cut), DiskInv(cut)
  PROVE  /\ Readable(cut, Recovered.version) /\ Entries(Files(Recovered.version)) = OnDisk
         /\ Recovered.last = Len(written)
<1> DEFINE v == manifest.version
           w == Recovered.version
<1>1. /\ \A n \in FullLogs : n \in NeededLogs /\ n \in Nat /\ n < MaxNumber + 1 /\ buffers[n] # {}
                             /\ Fresh(n) \in Nat /\ manifest.next < Fresh(n)
      /\ \A n, m \in FullLogs : n < m => Fresh(n) < Fresh(m)
  <2>1. \A n \in FullLogs : n \in NeededLogs /\ n \in Nat /\ n < MaxNumber + 1 /\ buffers[n] # {}
    BY LogFacts DEF FullLogs, NumsInv
  <2>2. \A n \in FullLogs : Fresh(n) \in Nat /\ manifest.next < Fresh(n)
    <3> SUFFICES ASSUME NEW n \in FullLogs PROVE Fresh(n) \in Nat /\ manifest.next < Fresh(n)
      OBVIOUS
    <3>1. Fresh(n) \in Nat /\ manifest.next + 1 <= Fresh(n) /\ manifest.next \in Nat
      BY <2>1, FreshIsLargest, FreshIsNew, LogFacts DEF NumsInv
    <3> QED
      BY <3>1
  <2>3. \A n, m \in FullLogs : n < m => Fresh(n) < Fresh(m)
    BY <2>1, FreshGrows DEF NumsInv
  <2> QED
    BY <2>1, <2>2, <2>3
<1>2. \A f \in LogTables : \E n \in FullLogs : f.number = Fresh(n) /\ f.entries = buffers[n]
  BY DEF LogTables
<1>3. \A n \in FullLogs : \E f \in LogTables : f.entries = buffers[n]
  <2> SUFFICES ASSUME NEW n \in FullLogs PROVE \E f \in LogTables : f.entries = buffers[n]
    OBVIOUS
  <2> DEFINE f == [number |-> Fresh(n), entries |-> buffers[n]]
  <2>1. f \in LogTables /\ f.entries = buffers[n]
    BY DEF LogTables
  <2> QED
    BY <2>1
<1>4. w = [v EXCEPT ![0] = @ \cup LogTables] /\ DOMAIN v = Levels
  BY DEF Recovered, LogTables, FullLogs, NumsInv, NumbersInv
<1>5. 0 \in Levels
  BY LevelsAssumption DEF Levels
<1>6. /\ OneNumberEach(Files(w)) /\ \A f \in Files(w) : f.number \in Nat
  BY RecoveredNumbers DEF NumsInv, NumberedBelow
<1>7. VersionInv(cut, w)
  BY RecoveredLevels
<1> HIDE DEF w
<1>8. (\A l \in Levels \ {0} : w[l] = v[l]) /\ w[0] = v[0] \cup LogTables
  BY <1>4, <1>5
<1>9. Entries(Files(w)) = OnDisk
  <2>1. \A e : e \in Entries(Files(w)) <=> \E l \in Levels : \E f \in w[l] : e \in f.entries
    BY DEF Entries, Files
  <2>2. \A e : e \in Entries(Files(v)) <=> \E l \in Levels : \E f \in v[l] : e \in f.entries
    BY DEF Entries, Files
  <2>3. \A e : (\E f \in LogTables : e \in f.entries) <=> \E n \in FullLogs : e \in buffers[n]
    BY <1>2, <1>3
  <2>4. \A e : e \in Logged <=> \E n \in FullLogs : e \in buffers[n]
    BY DEF Logged, FullLogs
  <2>5. ASSUME NEW e \in Entries(Files(w)) PROVE e \in OnDisk
    <3>1. PICK l \in Levels : \E f \in w[l] : e \in f.entries
      BY <2>1
    <3>2. PICK f \in w[l] : e \in f.entries
      BY <3>1
    <3>3. f \in v[l] \/ f \in LogTables
      BY <1>8, <3>1, <3>2
    <3> QED
      BY <2>2, <2>3, <2>4, <3>1, <3>2, <3>3 DEF OnDisk
  <2>6. ASSUME NEW e \in OnDisk PROVE e \in Entries(Files(w))
    <3>1. CASE e \in Entries(Files(v))
      <4>1. PICK l \in Levels : \E f \in v[l] : e \in f.entries
        BY <2>2, <3>1
      <4>2. \E f \in w[l] : e \in f.entries
        BY <1>8, <4>1
      <4> QED
        BY <2>1, <4>2
    <3>2. CASE e \in Logged
      <4>1. \E f \in w[0] : e \in f.entries
        BY <1>8, <2>3, <2>4, <3>2
      <4> QED
        BY <1>5, <2>1, <4>1
    <3> QED
      BY <3>1, <3>2 DEF OnDisk
  <2> QED
    BY <2>5, <2>6
<1>10. NewerOnZero(w)
  <2> SUFFICES ASSUME NEW f \in w[0], NEW g \in w[0], f.number < g.number,
                      NEW e \in f.entries, NEW o \in g.entries
               PROVE  e.seq < o.seq
    BY DEF NewerOnZero
  <2>1. /\ \A x \in v[0] : x \in Files(v) /\ x.number \in Nat /\ x.number < manifest.next
        /\ manifest.next \in Nat
    <3>1. \A x \in v[0] : x \in Files(v)
      BY <1>5, LevelFiles
    <3> QED
      BY <3>1 DEF NumsInv, NumbersInv, NumberedBelow
  <2>2. CASE f \in v[0] /\ g \in v[0]
    BY <2>2 DEF DiskInv, NewerOnZero
  <2>3. CASE f \in v[0] /\ g \in LogTables
    <3>1. PICK n \in FullLogs : g.entries = buffers[n]
      BY <1>2, <2>3
    <3>2. e \in Entries(Files(v)) /\ n \in NeededLogs
      BY <1>1, <2>1, <2>3 DEF Entries
    <3> QED
      BY <3>1, <3>2 DEF LevelsInv, LogsInv
  <2>4. CASE f \in LogTables /\ g \in v[0]
    <3>1. PICK n \in FullLogs : f.number = Fresh(n)
      BY <1>2, <2>4
    <3>2. manifest.next < f.number /\ f.number \in Nat /\ g.number < manifest.next /\ g.number \in Nat
      BY <1>1, <2>1, <2>4, <3>1
    <3> QED
      BY <2>1, <3>2
  <2>5. CASE f \in LogTables /\ g \in LogTables
    <3>1. PICK n \in FullLogs : f.number = Fresh(n) /\ f.entries = buffers[n]
      BY <1>2, <2>5
    <3>2. PICK m \in FullLogs : g.number = Fresh(m) /\ g.entries = buffers[m]
      BY <1>2, <2>5
    <3>3. n \in Nat /\ m \in Nat /\ Fresh(n) < Fresh(m) /\ Fresh(n) \in Nat /\ Fresh(m) \in Nat
      BY <1>1, <3>1, <3>2
    <3>4. ~(m < n) /\ m # n
      <4>1. ASSUME m < n PROVE FALSE
        <5>1. Fresh(m) < Fresh(n)
          BY <1>1, <4>1
        <5> QED
          BY <3>3, <5>1
      <4>2. m # n
        BY <3>3
      <4> QED
        BY <4>1, <4>2
    <3>5. n < m
      BY <3>3, <3>4
    <3>6. n \in NeededLogs /\ m \in NeededLogs
      BY <1>1
    <3> QED
      BY <3>1, <3>2, <3>5, <3>6 DEF LevelsInv, LogsInv
  <2> QED
    BY <1>8, <2>2, <2>3, <2>4, <2>5
<1>11. Recovered.last = Len(written)
  <2> DEFINE seqs == {manifest.last} \cup {e.seq : e \in UNION {buffers[n] : n \in FullLogs}}
  <2>1. Recovered.last = CHOOSE s \in seqs : \A t \in seqs : t <= s
    BY DEF Recovered, FullLogs
  <2>2. Len(written) \in Nat /\ manifest.last <= Len(written) /\ manifest.last \in Nat
    BY DiskHistory, BoundsAssumption DEF DiskInv, LevelsInv, SeqsInv
  <2>3. \A e : e \in Logged <=> e \in UNION {buffers[n] : n \in FullLogs}
    BY DEF Logged, FullLogs
  <2>4. \A s \in seqs : s \in Nat /\ s <= Len(written)
    <3>1. \A e \in Logged : e.seq \in Nat /\ e.seq <= Len(written)
      BY DiskHistory DEF OnDisk
    <3> QED
      BY <2>2, <2>3, <3>1
  <2>5. Len(written) \in seqs
    <3>1. CASE manifest.last = Len(written)
      BY <3>1
    <3>2. CASE manifest.last # Len(written)
      <4>1. Len(written) \in 1..Len(written) /\ Len(written) > manifest.last
        BY <2>2, <3>2
      <4>2. Record(written, Len(written)) \in Logged
        BY <4>1 DEF DiskInv
      <4>3. Record(written, Len(written)).seq = Len(written)
        BY DEF Record
      <4> QED
        BY <2>3, <4>2, <4>3
    <3> QED
      BY <3>1, <3>2
  <2> HIDE DEF seqs
  <2>6. \A s \in seqs : (\A t \in seqs : t <= s) => s = Len(written)
    BY <2>2, <2>4, <2>5
  <2> QED
    BY <2>1, <2>4, <2>5, <2>6
<1> QED
  BY <1>6, <1>7, <1>9, <1>10, <1>11 DEF Readable, w

\* While no edit is on its way, what the database holds is what the disk has.
LEMMA NowOnDisk ==
  ASSUME NEW cut, NumsInv, LevelsInv(cut), DiskInv(cut), opened, edit = Nil
  PROVE  /\ current = manifest.version /\ Holds(buffers, Now) = OnDisk
         /\ mem \in NeededLogs /\ mem \in Nat /\ mem \in DOMAIN buffers
         /\ imm # Nil => imm \in NeededLogs /\ imm \in Nat /\ imm \in DOMAIN buffers /\ imm < mem
         /\ NeededLogs \subseteq {mem, imm}
<1>1. Now.mem = mem /\ Now.imm = imm /\ Now.version = current
  BY DEF Now
<1>2. current = manifest.version
  BY DEF LevelsInv, OpenInv
<1>3. mem \in NeededLogs /\ mem \in Nat /\ mem \in DOMAIN buffers
  BY LogNumbers DEF NeededLogs
<1>4. imm # Nil => imm \in NeededLogs /\ imm \in Nat /\ imm \in DOMAIN buffers /\ imm < mem
  <2>1. imm # Nil => imm >= manifest.log
    BY DEF LevelsInv, OpenInv, Editing
  <2> QED
    BY <2>1, LogNumbers DEF NeededLogs
<1>5. NeededLogs \subseteq {mem, imm} /\ Nil \notin NeededLogs
  <2>1. \A n \in NeededLogs : n \in Nat
    BY LogNumbers DEF NeededLogs
  <2>2. Nil \notin NeededLogs
    BY <2>1, NilAssumption
  <2> QED
    BY <2>2 DEF DiskInv, Editing
<1>6. Logged = buffers[mem] \cup ImmOf(buffers, Now)
  <2>1. CASE imm = Nil
    <3>1. NeededLogs = {mem} /\ ImmOf(buffers, Now) = {}
      BY <1>1, <1>3, <1>5, <2>1 DEF ImmOf
    <3> QED
      BY <3>1 DEF Logged
  <2>2. CASE imm # Nil
    <3>1. NeededLogs = {mem, imm} /\ ImmOf(buffers, Now) = buffers[imm]
      BY <1>1, <1>3, <1>4, <1>5, <2>2 DEF ImmOf
    <3> QED
      BY <3>1 DEF Logged
  <2> QED
    BY <2>1, <2>2
<1>7. Holds(buffers, Now) = OnDisk
  BY <1>1, <1>2, <1>6 DEF Holds, OnDisk
<1> QED
  BY <1>2, <1>3, <1>4, <1>5, <1>7

\* The version of the manifest has what Version::Get needs.
LEMMA ManifestIsReadable ==
  ASSUME NEW cut, NumsInv, LevelsInv(cut), DiskInv(cut)
  PROVE  Readable(cut, manifest.version)
<1>1. OneNumberEach(Files(manifest.version))
  BY LiveParts DEF NumsInv, NumbersInv, OneNumberEach
<1>2. \A f \in Files(manifest.version) : f.number \in Nat
  BY DEF NumsInv, NumbersInv, NumberedBelow
<1> QED
  BY <1>1, <1>2 DEF Readable, LevelsInv, DiskInv

\* What a reader that begins now holds.
LEMMA NowIsRight ==
  ASSUME NEW cut, NumsInv, LevelsInv(cut), DiskInv(cut), NowInv(cut), opened
  PROVE  ReadInv(cut, written, buffers, Now, {lastSeq} \cup Snapshots)
<1>1. CASE edit # Nil
  BY <1>1 DEF NowInv
<1>2. CASE edit = Nil
  <2>1. Now.mem = mem /\ Now.imm = imm /\ Now.version = current
    BY DEF Now
  <2>2. /\ current = manifest.version /\ Holds(buffers, Now) = OnDisk
        /\ mem \in NeededLogs /\ mem \in Nat /\ mem \in DOMAIN buffers
        /\ imm # Nil => imm \in NeededLogs /\ imm \in Nat /\ imm \in DOMAIN buffers /\ imm < mem
    BY <1>2, NowOnDisk
  <2>3. Readable(cut, manifest.version)
    BY ManifestIsReadable
  <2>4. /\ \A e \in buffers[mem], o \in ImmOf(buffers, Now) : o.seq < e.seq
        /\ \A e \in buffers[mem] \cup ImmOf(buffers, Now), o \in Entries(Files(manifest.version)) : o.seq < e.seq
    <3>1. /\ \A e \in buffers[mem], o \in Entries(Files(manifest.version)) : o.seq < e.seq
          /\ imm # Nil => \A e \in buffers[imm], o \in Entries(Files(manifest.version)) : o.seq < e.seq
          /\ imm # Nil => \A e \in buffers[mem], o \in buffers[imm] : o.seq < e.seq
      BY <2>2 DEF LevelsInv, LogsInv
    <3> QED
      BY <2>1, <3>1 DEF ImmOf
  <2>5. Recorded(written, OnDisk) /\ lastSeq = Len(written)
    BY DEF DiskInv
  <2>6. \A s \in {lastSeq} \cup Snapshots : s \in 0..Len(written) /\ Shows(cut, written, OnDisk, s)
    BY <2>5 DEF DiskInv
  <2> HIDE DEF Now
  <2> QED
    BY <2>1, <2>2, <2>3, <2>4, <2>5, <2>6 DEF ReadInv
<1> QED
  BY <1>1, <1>2

\* What a reader that holds this finds, for every key outside cut.
LEMMA ContentsAreRight ==
  ASSUME NEW cut, written \in History, NEW read, NEW seqs, ReadInv(cut, written, buffers, read, seqs),
         NEW s \in seqs
  PROVE  Agree(Contents(read, s), s, Keys \ cut)
<1>1. ASSUME NEW key \in Keys \ cut
      PROVE  Answer(Found(read, [key |-> key, seq |-> s])) = StoreAt(s)[key]
  <2> DEFINE target == [key |-> key, seq |-> s]
             S == Holds(buffers, read)
  <2>1. s \in 0..Len(written) /\ Shows(cut, written, S, s) /\ Recorded(written, S) /\ Len(written) \in Nat
    BY HistoryType DEF ReadInv
  <2>2. target.key \in Int /\ target.key \notin cut /\ target.seq \in Nat
    BY <2>1, KeysAssumption
  <2>3. Found(read, target) = Seek(S, target)
    <3> HIDE DEF target, S
    <3> QED
      BY <2>2, FoundIsRight DEF S
  <2>4. Answer(Seek(S, target)) = StoreAt(s)[key]
    <3> HIDE DEF S
    <3> QED
      BY <2>1, AnswerIsRight
  <2> QED
    BY <2>3, <2>4
<1>2. Contents(read, s) = [key \in Keys |-> Answer(Found(read, [key |-> key, seq |-> s]))]
  BY DEF Contents
<1> QED
  BY <1>1, <1>2 DEF Agree

\* The invariant gives what the property says.
LEMMA CopiesInTheRun ==
  ASSUME NEW cut, NumsInv, LevelsInv(cut), CopiesInv(cut)
  PROVE  RightCopies(Keys \ cut)
<1> DEFINE keys == Keys \ cut
<1>1. DiskInv(cut) /\ NowInv(cut) /\ HeldInv(cut) /\ written \in History
  BY DEF CopiesInv, DiskInv
<1>2. ASSUME opened
      PROVE  /\ lastSeq = Len(written)
             /\ \A seq \in {lastSeq} \cup Snapshots : Agree(Contents(Now, seq), seq, keys)
             /\ \A r \in Readers : Held(r) =>
                  \A seq \in reads[r].seqs : Agree(Contents(reads[r], seq), seq, keys)
  <2>1. lastSeq = Len(written)
    BY <1>1, <1>2 DEF DiskInv
  <2>2. ASSUME NEW seq \in {lastSeq} \cup Snapshots PROVE Agree(Contents(Now, seq), seq, keys)
    <3> DEFINE now == Now
               seqs == {lastSeq} \cup Snapshots
    <3>1. ReadInv(cut, written, buffers, now, seqs) /\ seq \in seqs
      BY <1>1, <1>2, NowIsRight
    <3> HIDE DEF now, seqs
    <3>2. Agree(Contents(now, seq), seq, keys)
      BY <1>1, <3>1, ContentsAreRight
    <3> QED
      BY <3>2 DEF now
  <2>3. ASSUME NEW r \in Readers, Held(r), NEW seq \in reads[r].seqs
        PROVE  Agree(Contents(reads[r], seq), seq, keys)
    <3> DEFINE read == reads[r]
               seqs == reads[r].seqs
    <3>1. ReadInv(cut, written, buffers, read, seqs) /\ seq \in seqs
      BY <1>1, <2>3 DEF HeldInv
    <3> HIDE DEF read, seqs
    <3>2. Agree(Contents(read, seq), seq, keys)
      BY <1>1, <3>1, ContentsAreRight
    <3> QED
      BY <3>2 DEF read
  <2> QED
    BY <2>1, <2>2, <2>3
<1>3. ASSUME ~opened
      PROVE  /\ Recovered.last = Len(written)
             /\ \A key \in keys :
                  Answer(VersionGet(Recovered.version, [key |-> key, seq |-> Len(written)]))
                    = StoreAt(Len(written))[key]
  <2>1. /\ Readable(cut, Recovered.version) /\ Entries(Files(Recovered.version)) = OnDisk
        /\ Recovered.last = Len(written)
    BY <1>1, RecoveredIsRight
  <2>2. ASSUME NEW key \in keys
        PROVE  Answer(VersionGet(Recovered.version, [key |-> key, seq |-> Len(written)]))
                 = StoreAt(Len(written))[key]
    <3> DEFINE target == [key |-> key, seq |-> Len(written)]
               s == Len(written)
    <3>1. s \in 0..Len(written) /\ Shows(cut, written, OnDisk, s) /\ Recorded(written, OnDisk) /\ s \in Nat
      BY <1>1, HistoryType DEF DiskInv
    <3>2. target.key \in Int /\ target.key \notin cut /\ target.seq \in Nat
      BY <3>1, KeysAssumption
    <3>3. VersionGet(Recovered.version, target) = Seek(OnDisk, target)
      <4> DEFINE w == Recovered.version
      <4>1. Readable(cut, w) /\ Entries(Files(w)) = OnDisk
        BY <2>1
      <4> HIDE DEF target, w
      <4>2. VersionGet(w, target) = Seek(OnDisk, target)
        BY <3>2, <4>1, SearchIsRight
      <4> QED
        BY <4>2 DEF w
    <3>4. Answer(Seek(OnDisk, [key |-> key, seq |-> s])) = StoreAt(s)[key]
      <4> HIDE DEF s
      <4> QED
        BY <1>1, <3>1, AnswerIsRight
    <3> QED
      BY <3>3, <3>4
  <2> QED
    BY <2>1, <2>2
<1> QED
  BY <1>2, <1>3 DEF RightCopies

-----------------------------------------------------------------------------
(* Every step keeps what is written *)

\* Parts that a step leaves as they are.
LEMMA LoggedStays ==
  ASSUME NeededLogs' = NeededLogs, \A n \in NeededLogs : buffers'[n] = buffers[n]
  PROVE  Logged' = Logged
BY DEF Logged

\* Steps that change neither the tables nor the needed logs, nor the histories beyond
\* snapshots of the latest write.
LEMMA DiskStays ==
  ASSUME NEW cut, DiskInv(cut), UNCHANGED <<written, manifest>>, Logged' = Logged, snaps' = snaps \/ DOMAIN snaps' = Handles,
         opened' => opened /\ lastSeq' = lastSeq,
         \A s \in Snapshots' : s \in Snapshots \/ s = Len(written),
         opened' => NeededLogs' \subseteq (IF Editing("flush")' THEN {mem'} ELSE {mem', imm'}),
         opened' /\ Editing("flush")' => imm' # Nil
  PROVE  DiskInv(cut)'
<1>1. OnDisk' = OnDisk
  BY DEF OnDisk
<1> QED
  BY <1>1 DEF DiskInv

\* Steps that change neither the compaction nor what it was chosen from.
LEMMA KeptStays ==
  ASSUME NEW cut, KeptInv(cut), lastSeq \in Nat, lastSeq' \in Nat,
         compact' # Nil /\ ~Editing("compaction")' =>
           /\ compact # Nil /\ ~Editing("compaction") /\ lastSeq <= lastSeq'
           /\ compact'.level = compact.level /\ compact'.inputs = compact.inputs
           /\ Entries(compact'.outputs) \cup compact'.todo = Entries(compact.outputs) \cup compact.todo
           /\ manifest'.version = manifest.version
           /\ \A s \in Snapshots' : s \in Snapshots \/ s = lastSeq
  PROVE  KeptInv(cut)'
<1> SUFFICES ASSUME compact' # Nil, ~Editing("compaction")'
             PROVE  \E base \in 0..lastSeq' :
                      /\ \A s \in Snapshots' : base <= s
                      /\ DropsInv(cut, base, Entries(compact'.inputs[1] \cup compact'.inputs[2]),
                                  Entries(compact'.outputs) \cup compact'.todo,
                                  Entries(Rest(manifest'.version, compact'.level, compact'.inputs)))
  BY DEF KeptInv
<1>1. PICK base \in 0..lastSeq :
        /\ \A s \in Snapshots : base <= s
        /\ DropsInv(cut, base, Entries(compact.inputs[1] \cup compact.inputs[2]), Entries(compact.outputs) \cup compact.todo,
                    Entries(Rest(manifest.version, compact.level, compact.inputs)))
  BY DEF KeptInv
<1>2. base \in 0..lastSeq' /\ base <= lastSeq
  BY <1>1
<1> QED
  BY <1>1, <1>2

\* Steps that leave the buffers of readers alone.
LEMMA HeldStays ==
  ASSUME NEW cut, HeldInv(cut), written' = written,
         \A r \in Readers : reads'[r] # Nil =>
           /\ reads'[r] = reads[r] /\ mem \in Nat /\ mem' \in Nat /\ mem <= mem'
           /\ reads[r].mem \in DOMAIN buffers => reads[r].mem \in DOMAIN buffers' /\ buffers'[reads[r].mem] = buffers[reads[r].mem]
           /\ reads[r].imm \in DOMAIN buffers => reads[r].imm \in DOMAIN buffers' /\ buffers'[reads[r].imm] = buffers[reads[r].imm]
  PROVE  HeldInv(cut)'
<1> SUFFICES ASSUME NEW r \in Readers, reads'[r] # Nil
             PROVE  ReadInv(cut, written', buffers', reads'[r], reads'[r].seqs) /\ reads'[r].mem <= mem'
  BY DEF HeldInv, Held
<1>1. /\ ReadInv(cut, written, buffers, reads[r], reads[r].seqs) /\ reads[r].mem <= mem
      /\ reads'[r] = reads[r] /\ mem \in Nat /\ mem' \in Nat /\ mem <= mem'
  BY DEF HeldInv, Held
<1>2. /\ reads[r].mem \in DOMAIN buffers' /\ buffers'[reads[r].mem] = buffers[reads[r].mem]
      /\ reads[r].imm # Nil => reads[r].imm \in DOMAIN buffers' /\ buffers'[reads[r].imm] = buffers[reads[r].imm]
      /\ reads[r].mem \in Nat
  BY <1>1 DEF ReadInv
<1> DEFINE read == reads[r]
           seqs == reads[r].seqs
<1>3. ReadInv(cut, written, buffers', read, seqs)
  <2>1. /\ ReadInv(cut, written, buffers, read, seqs) /\ seqs \subseteq seqs
        /\ read.mem \in DOMAIN buffers' /\ buffers'[read.mem] = buffers[read.mem]
        /\ read.imm # Nil => read.imm \in DOMAIN buffers' /\ buffers'[read.imm] = buffers[read.imm]
    BY <1>1, <1>2
  <2> HIDE DEF read, seqs
  <2> QED
    BY <2>1, ReadStays
<1>4. reads[r].mem <= mem'
  BY <1>1, <1>2
<1> QED
  BY <1>1, <1>3, <1>4

\* What is said of the sequence numbers in the open database.
LEMMA LastIsNat ==
  ASSUME NEW cut, LevelsInv(cut), opened
  PROVE  lastSeq \in Nat /\ lastSeq \in 0..MaxWrites
BY BoundsAssumption DEF LevelsInv, SeqsInv

\* A write: the one entry it adds goes to the memtable and its log, and is the last of
\* its key for the new sequence number alone.
LEMMA WriteCopies ==
  ASSUME NEW cut, NumsInv, LevelsInv(cut), CopiesInv(cut), NEW input \in Inputs, Write(input[1], input[2])
  PROVE  CopiesInv(cut)'
<1> DEFINE x == [key |-> input[1], type |-> input[2]]
           e == [key |-> input[1], seq |-> lastSeq + 1, type |-> input[2]]
<1>1. /\ opened /\ lastSeq' = lastSeq + 1
      /\ buffers' = [buffers EXCEPT ![mem] = @ \cup {e}] /\ written' = Append(written, x)
      /\ UNCHANGED <<opened, mem, imm, current, compact, edit, snaps, reads, manifest, logFiles>>
  BY DEF Write, bgVars, diskVars, clientVars
<1>2. written \in History /\ lastSeq = Len(written) /\ lastSeq \in Nat /\ DiskInv(cut)
  BY <1>1, LastIsNat DEF CopiesInv, DiskInv
<1>3. x \in Input /\ Longer(written, x, written') /\ e = Added(written, x)
  BY <1>1, <1>2, InputsAssumption DEF Input, Longer, Added
<1> HIDE DEF x, e
<1>4. /\ written' \in History /\ Len(written') = Len(written) + 1
      /\ \A n \in 1..Len(written) : Record(written', n) = Record(written, n)
  BY <1>2, <1>3, LongerHistory
<1>5. mem \in NeededLogs /\ mem \in Nat /\ mem \in DOMAIN buffers /\ NeededLogs \subseteq DOMAIN buffers
  BY <1>1, LogNumbers
<1>6. /\ DOMAIN buffers' = DOMAIN buffers /\ buffers'[mem] = buffers[mem] \cup {e}
      /\ \A n \in DOMAIN buffers \ {mem} : buffers'[n] = buffers[n]
      /\ Grown(buffers, mem, e, buffers')
  <2>1. /\ DOMAIN buffers' = DOMAIN buffers /\ buffers'[mem] = buffers[mem] \cup {e}
        /\ \A n \in DOMAIN buffers \ {mem} : buffers'[n] = buffers[n]
    BY <1>1, <1>5
  <2> QED
    BY <2>1 DEF Grown
<1>7. NeededLogs' = NeededLogs /\ Snapshots' = Snapshots /\ Now' = Now
  BY <1>1 DEF NeededLogs, Snapshots, Now
<1>8. Logged' = Logged \cup {e}
  <2>1. \A o : o \in Logged <=> \E n \in NeededLogs : o \in buffers[n]
    BY DEF Logged
  <2>2. \A o : o \in Logged' <=> \E n \in NeededLogs : o \in buffers'[n]
    BY <1>7 DEF Logged
  <2>3. \A n \in NeededLogs : \A o : o \in buffers'[n] <=> o \in buffers[n] \/ (n = mem /\ o = e)
    BY <1>5, <1>6
  <2>4. \A o : o \in Logged' <=> o \in Logged \/ o = e
    BY <1>5, <2>1, <2>2, <2>3
  <2> QED
    BY <2>4
<1>9. OnDisk' = OnDisk \cup {e}
  BY <1>1, <1>8 DEF OnDisk
<1>10. Recorded(written', OnDisk \cup {e}) /\ e = Record(written', Len(written) + 1)
  <2>1. Recorded(written, OnDisk)
    BY <1>2 DEF DiskInv
  <2> QED
    BY <1>2, <1>3, <2>1, RecordedLonger
<1>11. \A s \in {Len(written')} \cup Snapshots' : s \in 0..Len(written') /\ Shows(cut, written', OnDisk \cup {e}, s)
  <2>1. \A s \in {Len(written)} \cup Snapshots : s \in 0..Len(written) /\ Shows(cut, written, OnDisk, s)
    BY <1>2 DEF DiskInv
  <2>2. ASSUME NEW s \in Snapshots PROVE s \in 0..Len(written') /\ Shows(cut, written', OnDisk \cup {e}, s)
    <3>1. s \in 0..Len(written) /\ Shows(cut, written, OnDisk, s)
      BY <2>1
    <3> QED
      BY <1>2, <1>3, <3>1, ShowsLonger
  <2>3. Len(written') \in 0..Len(written') /\ Shows(cut, written', OnDisk \cup {e}, Len(written'))
    <3>1. Shows(cut, written, OnDisk, Len(written))
      BY <2>1
    <3> QED
      BY <1>2, <1>3, <3>1, ShowsWrite
  <2> QED
    BY <1>7, <2>2, <2>3
<1>12. DiskInv(cut)'
  <2>1. manifest'.last <= Len(written') /\ \A n \in 1..Len(written') : n > manifest'.last => Record(written', n) \in Logged'
    <3>1. /\ manifest.last <= Len(written) /\ manifest.last \in Nat /\ Len(written) \in Nat
          /\ \A n \in 1..Len(written) : n > manifest.last => Record(written, n) \in Logged
      BY <1>2, BoundsAssumption DEF DiskInv, LevelsInv, SeqsInv
    <3>2. manifest.last <= Len(written) + 1
      BY <3>1
    <3>3. \A n \in 1..Len(written) + 1 : n \in 1..Len(written) \/ n = Len(written) + 1
      BY <3>1
    <3> QED
      BY <1>1, <1>4, <1>8, <1>10, <3>1, <3>2, <3>3
  <2>2. Editing("flush")' = Editing("flush")
    BY <1>1 DEF Editing
  <2> QED
    BY <1>1, <1>2, <1>4, <1>7, <1>9, <1>10, <1>11, <2>1, <2>2 DEF DiskInv
<1>13. KeptInv(cut)'
  <2>1. lastSeq' \in Nat /\ lastSeq <= lastSeq' /\ KeptInv(cut)
    BY <1>1, <1>2 DEF CopiesInv
  <2> QED
    BY <1>1, <1>2, <1>7, <2>1, KeptStays DEF Editing
<1>14. NowInv(cut)'
  <2> SUFFICES ASSUME edit # Nil PROVE ReadInv(cut, written', buffers', Now, {lastSeq'} \cup Snapshots)
    BY <1>1, <1>7 DEF NowInv
  <2> DEFINE seqs == {lastSeq} \cup Snapshots
             more == {Len(written')} \cup seqs
             now == Now
  <2>1. ReadInv(cut, written, buffers, now, seqs) /\ now.mem = mem /\ mem <= mem
    BY <1>1, <1>5 DEF CopiesInv, NowInv, Now
  <2>2. Len(written) \in seqs
    BY <1>2
  <2> HIDE DEF seqs, now
  <2>3. ReadInv(cut, written', buffers', now, more)
    BY <1>2, <1>3, <1>5, <1>6, <2>1, <2>2, ReadWritten
  <2>4. {lastSeq'} \cup Snapshots \subseteq more
    BY <1>1, <1>2, <1>4 DEF seqs
  <2> HIDE DEF more
  <2> QED
    BY <2>3, <2>4 DEF ReadInv, now
<1>15. HeldInv(cut)'
  <2> SUFFICES ASSUME NEW r \in Readers, reads[r] # Nil
               PROVE  ReadInv(cut, written', buffers', reads[r], reads[r].seqs) /\ reads[r].mem <= mem
    BY <1>1 DEF HeldInv, Held
  <2> DEFINE read == reads[r]
             seqs == reads[r].seqs
  <2>1. ReadInv(cut, written, buffers, read, seqs) /\ read.mem <= mem
    BY DEF CopiesInv, HeldInv, Held
  <2>2. ReadInv(cut, written', buffers', read, seqs)
    <3> HIDE DEF read, seqs
    <3> QED
      BY <1>2, <1>3, <1>5, <1>6, <2>1, ReadWritten
  <2> QED
    BY <2>1, <2>2
<1> QED
  BY <1>12, <1>13, <1>14, <1>15 DEF CopiesInv

\* What the open database needs of its memory of the disk, said once.
LEMMA OpenCopies ==
  ASSUME NEW cut, NumsInv, LevelsInv(cut), CopiesInv(cut), opened
  PROVE  /\ lastSeq = Len(written) /\ lastSeq \in Nat /\ written \in History
         /\ DiskInv(cut) /\ KeptInv(cut) /\ NowInv(cut) /\ HeldInv(cut)
         /\ mem \in Nat /\ mem \in NeededLogs /\ mem \in DOMAIN buffers
         /\ NeededLogs \subseteq DOMAIN buffers
         /\ NeededLogs \subseteq (IF Editing("flush") THEN {mem} ELSE {mem, imm})
         /\ Editing("flush") => imm # Nil
BY LastIsNat, LogNumbers DEF CopiesInv, DiskInv, NeededLogs

\* The memtable becomes imm, and its log stays needed.
LEMMA SwitchCopies == ASSUME NEW cut, NumsInv, LevelsInv(cut), CopiesInv(cut), SwitchMemTable PROVE CopiesInv(cut)'
<1>1. /\ opened /\ imm = Nil /\ imm' = mem /\ mem' = nextFile
      /\ buffers' = WithBuffer(DOMAIN buffers, nextFile) /\ logFiles' = logFiles \cup {nextFile}
      /\ UNCHANGED <<opened, lastSeq, current, compact, edit, snaps, reads, manifest, written>>
  BY DEF SwitchMemTable, bgVars, clientVars
<1>2. /\ lastSeq = Len(written) /\ lastSeq \in Nat /\ DiskInv(cut) /\ KeptInv(cut) /\ NowInv(cut) /\ HeldInv(cut)
      /\ mem \in Nat /\ mem \in DOMAIN buffers /\ NeededLogs \subseteq DOMAIN buffers
      /\ NeededLogs \subseteq (IF Editing("flush") THEN {mem} ELSE {mem, imm}) /\ mem \in NeededLogs
  BY <1>1, OpenCopies
<1>3. /\ nextFile \in Nat /\ mem < nextFile /\ manifest.log <= mem /\ manifest.log \in Nat
      /\ \A n \in NeededLogs : n \in Nat /\ n < nextFile
  BY <1>1, <1>2, LogNumbers DEF NumsInv, FilesInv, OpenShape
<1>4. /\ DOMAIN buffers' = DOMAIN buffers \cup {nextFile} /\ buffers'[nextFile] = {}
      /\ \A n \in DOMAIN buffers \ {nextFile} : buffers'[n] = buffers[n]
  BY <1>1 DEF WithBuffer
<1>5. NeededLogs' = NeededLogs \cup {nextFile}
  <2>1. \A n : n \in NeededLogs' <=> (n \in logFiles \/ n = nextFile) /\ n >= manifest.log
    BY <1>1 DEF NeededLogs
  <2>2. nextFile >= manifest.log
    BY <1>2, <1>3
  <2>3. \A n : n \in NeededLogs <=> n \in logFiles /\ n >= manifest.log
    BY DEF NeededLogs
  <2> QED
    BY <2>1, <2>2, <2>3
<1>6. Logged' = Logged
  <2>1. \A n \in NeededLogs : n # nextFile /\ buffers'[n] = buffers[n]
    BY <1>2, <1>3, <1>4
  <2>2. \A o : o \in Logged' <=> \E n \in NeededLogs \cup {nextFile} : o \in buffers'[n]
    BY <1>5 DEF Logged
  <2>3. \A o : o \in Logged <=> \E n \in NeededLogs : o \in buffers[n]
    BY DEF Logged
  <2>4. \A o : o \in Logged' <=> o \in Logged
    BY <1>4, <2>1, <2>2, <2>3
  <2> QED
    BY <2>4
<1>7. DiskInv(cut)'
  <2>1. ~Editing("flush") /\ ~Editing("flush")'
    <3>1. ~Editing("flush")
      BY <1>1, OpenCopies
    <3> QED
      BY <1>1, <3>1 DEF Editing
  <2>2. Nil \notin NeededLogs
    BY <1>3, NilAssumption
  <2>3. NeededLogs' \subseteq (IF Editing("flush")' THEN {mem'} ELSE {mem', imm'})
    BY <1>1, <1>2, <1>5, <2>1, <2>2
  <2>4. Snapshots' = Snapshots
    BY <1>1 DEF Snapshots
  <2> QED
    BY <1>1, <1>2, <1>6, <2>1, <2>3, <2>4, DiskStays
<1>8. KeptInv(cut)'
  <2>1. Snapshots' = Snapshots
    BY <1>1 DEF Snapshots
  <2> QED
    BY <1>1, <1>2, <2>1, KeptStays DEF Editing
<1>9. NowInv(cut)'
  <2> SUFFICES ASSUME edit # Nil PROVE ReadInv(cut, written, buffers', Now', {lastSeq} \cup Snapshots)
    BY <1>1 DEF NowInv, Snapshots
  <2> DEFINE seqs == {lastSeq} \cup Snapshots
             now == Now
             next == Now'
  <2>1. ReadInv(cut, written, buffers, now, seqs)
    BY <1>1, <1>2 DEF NowInv
  <2>2. /\ now.mem = mem /\ now.imm = Nil /\ now.version = current
        /\ next.mem = nextFile /\ next.imm = mem /\ next.version = current
    BY <1>1 DEF Now
  <2> HIDE DEF seqs, now, next
  <2>3. mem \in DOMAIN buffers \ {nextFile} /\ mem # Nil
    BY <1>2, <1>3, NilAssumption
  <2>4. /\ ImmOf(buffers', next) = buffers[mem] /\ ImmOf(buffers, now) = {} /\ buffers'[next.mem] = {}
    BY <1>4, <2>2, <2>3 DEF ImmOf
  <2>5. Holds(buffers', next) = Holds(buffers, now)
    BY <2>2, <2>4 DEF Holds
  <2>6. next.mem \in DOMAIN buffers' /\ next.mem \in Nat /\ next.imm \in DOMAIN buffers' /\ next.imm \in Nat /\ next.imm < next.mem
    BY <1>2, <1>3, <1>4, <2>2
  <2>7. \A e \in buffers[mem], o \in Entries(Files(current)) : o.seq < e.seq
    BY <2>1, <2>2 DEF ReadInv
  <2>8. ReadInv(cut, written, buffers', next, seqs)
    BY <2>1, <2>2, <2>4, <2>5, <2>6, <2>7 DEF ReadInv
  <2> QED
    BY <2>8 DEF seqs, next
<1>10. HeldInv(cut)'
  <2> SUFFICES ASSUME NEW r \in Readers, reads[r] # Nil
               PROVE  /\ reads[r].mem \in DOMAIN buffers => reads[r].mem \in DOMAIN buffers' /\ buffers'[reads[r].mem] = buffers[reads[r].mem]
                      /\ reads[r].imm \in DOMAIN buffers => reads[r].imm \in DOMAIN buffers' /\ buffers'[reads[r].imm] = buffers[reads[r].imm]
    BY <1>1, <1>2, <1>3, HeldStays
  <2>1. ReadInv(cut, written, buffers, reads[r], reads[r].seqs) /\ reads[r].mem <= mem
    BY <1>2 DEF HeldInv, Held
  <2>2. reads[r].mem # nextFile /\ reads[r].imm # nextFile
    <3>1. reads[r].mem \in Nat /\ (reads[r].imm = Nil \/ (reads[r].imm \in Nat /\ reads[r].imm < reads[r].mem))
      BY <2>1 DEF ReadInv
    <3>2. nextFile # Nil
      BY <1>3, NilAssumption
    <3> QED
      BY <1>2, <1>3, <2>1, <3>1, <3>2
  <2> QED
    BY <1>4, <2>2
<1> QED
  BY <1>7, <1>8, <1>9, <1>10 DEF CopiesInv

\* While an edit is written, what a new reader would hold does not change.
LEMMA NowStays ==
  ASSUME NEW cut, NowInv(cut),
         opened' /\ edit' # Nil =>
           /\ opened /\ edit # Nil /\ UNCHANGED <<lastSeq, mem, imm, current, written>>
           /\ \A s \in Snapshots' : s \in Snapshots \/ s = lastSeq
           /\ mem \in DOMAIN buffers => mem \in DOMAIN buffers' /\ buffers'[mem] = buffers[mem]
           /\ imm \in DOMAIN buffers => imm \in DOMAIN buffers' /\ buffers'[imm] = buffers[imm]
  PROVE  NowInv(cut)'
<1> SUFFICES ASSUME opened', edit' # Nil
             PROVE  ReadInv(cut, written', buffers', Now', {lastSeq'} \cup Snapshots')
  BY DEF NowInv
<1> DEFINE seqs == {lastSeq} \cup Snapshots
           fewer == {lastSeq'} \cup Snapshots'
           now == Now
<1>1. ReadInv(cut, written, buffers, now, seqs) /\ now.mem = mem /\ now.imm = imm
  BY DEF NowInv, Now
<1>2. Now' = now /\ fewer \subseteq seqs
  BY DEF Now
<1> HIDE DEF seqs, fewer, now
<1>3. /\ now.mem \in DOMAIN buffers' /\ buffers'[now.mem] = buffers[now.mem]
      /\ now.imm # Nil => now.imm \in DOMAIN buffers' /\ buffers'[now.imm] = buffers[now.imm]
  BY <1>1 DEF ReadInv
<1>4. ReadInv(cut, written, buffers', now, fewer)
  BY <1>1, <1>2, <1>3, ReadStays
<1> QED
  BY <1>2, <1>4 DEF fewer

\* A buffer that is still in memory, or has a log or a reader, is not freed.
LEMMA FreedBuffers ==
  ASSUME FreeBuffers, NEW n \in DOMAIN buffers,
         \/ n \in {mem', imm'} \cup logFiles'
         \/ \E r \in Readers : reads'[r] # Nil /\ n \in {reads'[r].mem, reads'[r].imm}
  PROVE  n \in DOMAIN buffers' /\ buffers'[n] = buffers[n]
<1> DEFINE read == UNION {{reads'[r].mem, reads'[r].imm} : r \in {s \in Readers : reads'[s] # Nil}}
<1>1. buffers' = [m \in DOMAIN buffers \cap ({mem', imm'} \cup logFiles' \cup read) |-> buffers[m]]
  BY DEF FreeBuffers
<1>2. n \in {mem', imm'} \cup logFiles' \cup read
  OBVIOUS
<1> HIDE DEF read
<1> QED
  BY <1>1, <1>2

\* So a reader keeps its buffers.
LEMMA FreedReads ==
  ASSUME FreeBuffers, NEW r \in Readers, reads'[r] # Nil, reads'[r] = reads[r]
  PROVE  /\ reads[r].mem \in DOMAIN buffers => reads[r].mem \in DOMAIN buffers' /\ buffers'[reads[r].mem] = buffers[reads[r].mem]
         /\ reads[r].imm \in DOMAIN buffers => reads[r].imm \in DOMAIN buffers' /\ buffers'[reads[r].imm] = buffers[reads[r].imm]
<1>1. /\ reads[r].mem \in {reads'[r].mem, reads'[r].imm}
      /\ reads[r].imm \in {reads'[r].mem, reads'[r].imm}
  OBVIOUS
<1> DEFINE m == reads[r].mem
           i == reads[r].imm
<1>2. /\ \E s \in Readers : reads'[s] # Nil /\ m \in {reads'[s].mem, reads'[s].imm}
      /\ \E s \in Readers : reads'[s] # Nil /\ i \in {reads'[s].mem, reads'[s].imm}
  BY <1>1
<1> HIDE DEF m, i
<1>3. m \in DOMAIN buffers => m \in DOMAIN buffers' /\ buffers'[m] = buffers[m]
  BY <1>2, FreedBuffers
<1>4. i \in DOMAIN buffers => i \in DOMAIN buffers' /\ buffers'[i] = buffers[i]
  BY <1>2, FreedBuffers
<1> QED
  BY <1>3, <1>4 DEF m, i

\* A new snapshot sees what the latest sequence number sees.
LEMMA SnapshotCopies ==
  ASSUME NEW cut, NumsInv, LevelsInv(cut), CopiesInv(cut), NEW h \in Handles, GetSnapshot(h) \/ ReleaseSnapshot(h)
  PROVE  CopiesInv(cut)'
<1>1. /\ opened
      /\ UNCHANGED <<opened, lastSeq, buffers, mem, imm, current, compact, edit, reads, manifest, logFiles, written>>
  BY DEF GetSnapshot, ReleaseSnapshot, memVars, bgVars, diskVars
<1>2. \A s \in Snapshots' : s \in Snapshots \/ s = lastSeq
  <2>1. \A g \in Handles : snaps'[g] = snaps[g] \/ snaps'[g] = lastSeq \/ snaps'[g] = Nil
    BY DEF GetSnapshot, ReleaseSnapshot, CopiesInv, DiskInv
  <2> QED
    BY <2>1 DEF Snapshots
<1>3. /\ lastSeq = Len(written) /\ lastSeq \in Nat /\ DiskInv(cut) /\ KeptInv(cut) /\ NowInv(cut) /\ HeldInv(cut)
      /\ mem \in Nat /\ NeededLogs \subseteq (IF Editing("flush") THEN {mem} ELSE {mem, imm})
      /\ Editing("flush") => imm # Nil
  BY <1>1, OpenCopies
<1>4. NeededLogs' = NeededLogs /\ Logged' = Logged
  <2>1. NeededLogs' = NeededLogs
    BY <1>1 DEF NeededLogs
  <2> QED
    BY <1>1, <2>1, LoggedStays
<1>5. DiskInv(cut)'
  <2>1. Editing("flush")' = Editing("flush")
    BY <1>1 DEF Editing
  <2>2. DOMAIN snaps' = Handles
    BY DEF GetSnapshot, ReleaseSnapshot, CopiesInv, DiskInv
  <2> QED
    BY <1>1, <1>2, <1>3, <1>4, <2>1, <2>2, DiskStays
<1>6. KeptInv(cut)'
  BY <1>1, <1>2, <1>3, KeptStays DEF Editing
<1>7. NowInv(cut)'
  BY <1>1, <1>2, <1>3, NowStays
<1>8. HeldInv(cut)'
  BY <1>1, <1>3, HeldStays
<1> QED
  BY <1>5, <1>6, <1>7, <1>8 DEF CopiesInv

\* Nothing happens.
LEMMA StutterCopies ==
  ASSUME NEW cut, CopiesInv(cut), UNCHANGED vars
  PROVE  CopiesInv(cut)'
<1>1. UNCHANGED <<opened, lastSeq, buffers, mem, imm, current, compact, edit, snaps, reads, manifest, logFiles, written>>
  BY DEF vars
<1>2. NeededLogs' = NeededLogs /\ Snapshots' = Snapshots /\ Now' = Now
  BY <1>1 DEF NeededLogs, Snapshots, Now
<1>3. Logged' = Logged
  BY <1>1, <1>2, LoggedStays
<1>4. OnDisk' = OnDisk
  BY <1>1, <1>3 DEF OnDisk
<1>5. DiskInv(cut)'
  BY <1>1, <1>2, <1>3, <1>4 DEF CopiesInv, DiskInv, Editing
<1>6. KeptInv(cut)' /\ NowInv(cut)' /\ HeldInv(cut)'
  BY <1>1, <1>2 DEF CopiesInv, KeptInv, NowInv, HeldInv, Held, Editing
<1> QED
  BY <1>5, <1>6 DEF CopiesInv

\* A new reader holds the memory and the current version, which show what the disk shows.
LEMMA NewIteratorCopies ==
  ASSUME NEW cut, NumsInv, LevelsInv(cut), CopiesInv(cut), NEW r \in Readers, NewIterator(r)
  PROVE  CopiesInv(cut)'
<1> DEFINE read == [seqs |-> {lastSeq} \cup Snapshots, mem |-> mem, imm |-> imm, version |-> current]
           seqs == {lastSeq} \cup Snapshots
           now == Now
<1>1. /\ opened /\ reads' = [reads EXCEPT ![r] = read]
      /\ UNCHANGED <<opened, lastSeq, buffers, mem, imm, current, compact, edit, snaps, manifest, logFiles, written>>
  BY DEF NewIterator, memVars, bgVars, diskVars
<1>2. /\ lastSeq = Len(written) /\ lastSeq \in Nat /\ DiskInv(cut) /\ KeptInv(cut) /\ NowInv(cut) /\ HeldInv(cut)
      /\ mem \in Nat /\ NeededLogs \subseteq (IF Editing("flush") THEN {mem} ELSE {mem, imm})
      /\ Editing("flush") => imm # Nil
  BY <1>1, OpenCopies
<1>3. NeededLogs' = NeededLogs /\ Logged' = Logged /\ Snapshots' = Snapshots
  <2>1. NeededLogs' = NeededLogs /\ Snapshots' = Snapshots
    BY <1>1 DEF NeededLogs, Snapshots
  <2> QED
    BY <1>1, <2>1, LoggedStays
<1>4. DiskInv(cut)'
  <2>1. Editing("flush")' = Editing("flush")
    BY <1>1 DEF Editing
  <2> QED
    BY <1>1, <1>2, <1>3, <2>1, DiskStays
<1>5. KeptInv(cut)'
  BY <1>1, <1>2, <1>3, KeptStays DEF Editing
<1>6. NowInv(cut)'
  BY <1>1, <1>2, <1>3, NowStays
<1>7. ReadInv(cut, written, buffers, read, read.seqs) /\ read.mem <= mem
  <2>1. ReadInv(cut, written, buffers, now, seqs)
    BY <1>1, <1>2, NowIsRight
  <2>2. /\ read.mem = now.mem /\ read.imm = now.imm /\ read.version = now.version /\ read.seqs = seqs
        /\ read.mem = mem
    BY DEF Now
  <2> HIDE DEF read, seqs, now
  <2>3. ReadInv(cut, written, buffers, read, seqs)
    <3>1. now.mem \in DOMAIN buffers /\ (now.imm # Nil => now.imm \in DOMAIN buffers)
      BY <2>1 DEF ReadInv
    <3> QED
      BY <2>1, <2>2, <3>1, ReadStays
  <2> QED
    BY <1>2, <2>2, <2>3
<1>8. HeldInv(cut)'
  <2> HIDE DEF read
  <2>1. DOMAIN reads = Readers
    BY DEF NumsInv, FilesInv
  <2>2. \A s \in Readers : reads'[s] = IF s = r THEN read ELSE reads[s]
    BY <1>1, <2>1
  <2> QED
    BY <1>1, <1>2, <1>7, <2>2 DEF HeldInv, Held
<1> QED
  BY <1>4, <1>5, <1>6, <1>8 DEF CopiesInv

\* A reader goes, and only its own buffers are freed.
LEMMA ReleaseCopies ==
  ASSUME NEW cut, NumsInv, LevelsInv(cut), CopiesInv(cut), NEW r \in Readers, ReleaseIterator(r)
  PROVE  CopiesInv(cut)'
<1>1. /\ opened /\ reads' = [reads EXCEPT ![r] = Nil] /\ FreeBuffers
      /\ UNCHANGED <<opened, lastSeq, mem, imm, current, compact, edit, snaps, manifest, logFiles, written>>
  BY DEF ReleaseIterator, bgVars, diskVars
<1>2. /\ lastSeq = Len(written) /\ lastSeq \in Nat /\ DiskInv(cut) /\ KeptInv(cut) /\ NowInv(cut) /\ HeldInv(cut)
      /\ mem \in Nat /\ NeededLogs \subseteq (IF Editing("flush") THEN {mem} ELSE {mem, imm})
      /\ Editing("flush") => imm # Nil
      /\ NeededLogs \subseteq DOMAIN buffers
  BY <1>1, OpenCopies
<1>3. \A n \in DOMAIN buffers : n \in {mem, imm} \cup logFiles => n \in DOMAIN buffers' /\ buffers'[n] = buffers[n]
  BY <1>1, FreedBuffers
<1>4. NeededLogs' = NeededLogs /\ Logged' = Logged /\ Snapshots' = Snapshots
  <2>1. NeededLogs' = NeededLogs /\ Snapshots' = Snapshots /\ NeededLogs \subseteq logFiles
    BY <1>1 DEF NeededLogs, Snapshots
  <2>2. \A n \in NeededLogs : buffers'[n] = buffers[n]
    BY <1>2, <1>3, <2>1
  <2> QED
    BY <2>1, <2>2, LoggedStays
<1>5. DiskInv(cut)'
  <2>1. Editing("flush")' = Editing("flush")
    BY <1>1 DEF Editing
  <2> QED
    BY <1>1, <1>2, <1>4, <2>1, DiskStays
<1>6. KeptInv(cut)'
  BY <1>1, <1>2, <1>4, KeptStays DEF Editing
<1>7. NowInv(cut)'
  BY <1>1, <1>2, <1>3, <1>4, NowStays
<1>8. HeldInv(cut)'
  <2>1. \A s \in Readers : reads'[s] # Nil => reads'[s] = reads[s]
    BY <1>1 DEF NumsInv, FilesInv
  <2> QED
    BY <1>1, <1>2, <2>1, FreedReads, HeldStays
<1> QED
  BY <1>5, <1>6, <1>7, <1>8 DEF CopiesInv

\* The process ends: the disk stays.
LEMMA EndCopies == ASSUME NEW cut, NumsInv, LevelsInv(cut), CopiesInv(cut), End PROVE CopiesInv(cut)'
<1>1. /\ opened /\ opened' = FALSE /\ lastSeq' = 0 /\ compact' = Nil /\ edit' = Nil /\ FreeBuffers
      /\ snaps' = [h \in Handles |-> Nil] /\ reads' = [r \in Readers |-> Nil]
      /\ UNCHANGED <<manifest, logFiles, written>>
  BY DEF End, diskVars
<1>2. DiskInv(cut) /\ NeededLogs \subseteq DOMAIN buffers
  BY <1>1, OpenCopies
<1>3. NeededLogs' = NeededLogs /\ Logged' = Logged /\ Snapshots' = {}
  <2>1. NeededLogs' = NeededLogs /\ NeededLogs \subseteq logFiles
    BY <1>1 DEF NeededLogs
  <2>2. \A n \in NeededLogs : buffers'[n] = buffers[n]
    BY <1>1, <1>2, <2>1, FreedBuffers
  <2>3. Snapshots' = {}
    BY <1>1 DEF Snapshots
  <2> QED
    BY <2>1, <2>2, <2>3, LoggedStays
<1>4. DiskInv(cut)'
  BY <1>1, <1>2, <1>3, DiskStays
<1>5. KeptInv(cut)' /\ NowInv(cut)'
  BY <1>1 DEF KeptInv, NowInv
<1>6. HeldInv(cut)'
  BY <1>1 DEF HeldInv, Held
<1> QED
  BY <1>4, <1>5, <1>6 DEF CopiesInv

\* An edit that has been written is installed: the manifest's version becomes the current
\* one, and the memory whose log is no longer needed is freed.
LEMMA InstallCopies == ASSUME NEW cut, NumsInv, LevelsInv(cut), CopiesInv(cut), InstallEdit PROVE CopiesInv(cut)'
<1>1. /\ opened /\ edit # Nil /\ edit' = Nil
      /\ imm' = (IF edit.kind = "flush" THEN Nil ELSE imm)
      /\ compact' = (IF edit.kind = "compaction" THEN Nil ELSE compact)
      /\ FreeBuffers /\ UNCHANGED <<opened, lastSeq, mem, manifest, snaps, reads, written>>
  BY DEF InstallEdit, clientVars
<1>2. /\ lastSeq = Len(written) /\ lastSeq \in Nat /\ DiskInv(cut) /\ KeptInv(cut) /\ NowInv(cut) /\ HeldInv(cut)
      /\ mem \in Nat /\ NeededLogs \subseteq (IF Editing("flush") THEN {mem} ELSE {mem, imm})
      /\ NeededLogs \subseteq DOMAIN buffers
  BY <1>1, OpenCopies
<1>3. NeededLogs' = NeededLogs
  <2>1. edit.log = manifest.log
    BY <1>1 DEF NumsInv, FilesInv, OpenShape
  <2>2. logFiles' = logFiles \/ logFiles' = {n \in logFiles : n >= manifest.log}
    BY <2>1 DEF InstallEdit, DeleteObsoleteFiles
  <2> QED
    BY <1>1, <2>2 DEF NeededLogs
<1>4. Logged' = Logged /\ Snapshots' = Snapshots
  <2>1. NeededLogs \subseteq logFiles'
    BY <1>3 DEF NeededLogs
  <2>2. \A n \in NeededLogs : buffers'[n] = buffers[n]
    BY <1>1, <1>2, <2>1, FreedBuffers
  <2>3. Snapshots' = Snapshots
    BY <1>1 DEF Snapshots
  <2> QED
    BY <1>3, <2>2, <2>3, LoggedStays
<1>5. DiskInv(cut)'
  <2>1. ~Editing("flush")'
    BY <1>1 DEF Editing
  <2>2. NeededLogs' \subseteq {mem', imm'}
    BY <1>1, <1>2, <1>3 DEF Editing
  <2> QED
    BY <1>1, <1>2, <1>4, <2>1, <2>2, DiskStays
<1>6. KeptInv(cut)'
  <2>1. compact' # Nil => compact' = compact /\ ~Editing("compaction")
    BY <1>1 DEF Editing
  <2> QED
    BY <1>1, <1>2, <1>4, <2>1, KeptStays
<1>7. NowInv(cut)'
  BY <1>1 DEF NowInv
<1>8. HeldInv(cut)'
  BY <1>1, <1>2, FreedReads, HeldStays
<1> QED
  BY <1>5, <1>6, <1>7, <1>8 DEF CopiesInv

\* Of numbers one is the least.
LEMMA LeastNumber ==
  ASSUME NEW S, S \subseteq Nat, S # {}
  PROVE  \E n \in S : \A m \in S : n <= m
<1>1. PICK least \in S : \A n \in S : ~(<<n, least>> \in OpToRel(<, Nat))
  BY NatLessThanWellFounded, WFMin
<1>2. \A n \in S : ~(n < least)
  BY <1>1 DEF OpToRel
<1>3. \A n \in S : least <= n
  BY <1>2
<1> QED
  BY <1>3

\* What DoCompactionWork drops: an entry under a newer one that every snapshot sees, or a
\* deletion that every snapshot sees and that has nothing older left.
LEMMA StartDrops ==
  ASSUME NEW cut, NEW v, VersionInv(cut, v), NEW level, NEW inputs, InputsInv(cut, v, level, inputs),
         NEW base \in Nat, NEW all, all = Entries(inputs[1] \cup inputs[2])
  PROVE  DropsInv(cut, base, all, Kept(v, level, all, base), Entries(Rest(v, level, inputs)))
<1> DEFINE kept == Kept(v, level, all, base)
           rest == Rest(v, level, inputs)
<1>1. /\ level \in Levels /\ level + 1 \in Levels /\ level \in Int
      /\ inputs[1] \subseteq v[level] /\ inputs[2] \subseteq v[level + 1]
  BY LevelsAssumption DEF InputsInv, Levels
<1>2. Fine(Files(v)) /\ NewerAbove(cut, v) /\ IsEntries(Entries(Files(v)))
  BY VersionFacts DEF VersionInv, Proper
<1>3. all \subseteq Entries(Files(v))
  <2>1. inputs[1] \cup inputs[2] \subseteq Files(v)
    BY <1>1, LevelFiles
  <2> QED
    BY <2>1, IncludedEntries
<1>4. IsEntries(all) /\ \A e \in all : e.seq \in Nat /\ e.key \in Int
  BY <1>2, <1>3 DEF IsEntries
<1> SUFFICES ASSUME NEW e \in all \ kept, e.key \notin cut
             PROVE  \/ \E newer \in all : newer.key = e.key /\ e.seq < newer.seq /\ newer.seq <= base
                    \/ /\ e.type = "deletion" /\ e.seq <= base
                       /\ \A o \in kept \cup Entries(rest) : o.key = e.key => e.seq < o.seq
  BY DEF DropsInv
<1>5. CASE \E newer \in all : newer.key = e.key /\ newer.seq > e.seq /\ newer.seq <= base
  BY <1>4, <1>5
<1>6. CASE ~\E newer \in all : newer.key = e.key /\ newer.seq > e.seq /\ newer.seq <= base
  <2>1. e.type = "deletion" /\ e.seq <= base /\ IsBaseLevelForKey(v, level, e.key)
    BY <1>6 DEF Kept
  <2>2. ASSUME NEW o \in kept, o.key = e.key PROVE e.seq < o.seq
    <3>1. o \in all /\ ~\E newer \in all : newer.key = o.key /\ newer.seq > o.seq /\ newer.seq <= base
      BY <2>2 DEF Kept
    <3>2. o # e /\ o.seq # e.seq
      BY <1>4, <2>2, <3>1 DEF IsEntries
    <3>3. e \in all /\ o.seq \in Nat /\ e.seq \in Nat /\ ~(e.seq > o.seq)
      BY <1>4, <2>1, <2>2, <3>1
    <3> QED
      BY <3>2, <3>3
  <2>3. ASSUME NEW o \in Entries(rest), o.key = e.key PROVE e.seq < o.seq
    <3>1. PICK f \in rest : o \in f.entries
      BY EntriesOf
    <3>2. PICK l \in Levels : f \in v[l] /\ (l = level => f \notin inputs[1]) /\ (l = level + 1 => f \notin inputs[2])
      BY DEF Rest
    <3>3. o \in Entries(v[l]) /\ l \in Int /\ f \in Files(v)
      BY <3>1, <3>2, LevelFiles DEF Entries, Levels
    <3>4. o.seq \in Nat /\ e.seq \in Nat
      BY <1>2, <1>4, <3>1, <3>3 DEF IsEntries, Entries
    <3>5. \/ e \in Entries(inputs[1]) /\ e \in Entries(v[level])
          \/ e \in Entries(inputs[2]) /\ e \in Entries(v[level + 1])
      BY InputEntries
    <3>6. CASE l < level
      <4>1. o.seq > e.seq
        BY <1>1, <1>2, <2>3, <3>3, <3>5, <3>6 DEF NewerAbove
      <4> QED
        BY <3>4, <4>1
    <3>7. CASE l = level
      <4>1. CASE e \in Entries(inputs[1])
        <5>1. o.seq > e.seq
          BY <2>3, <3>1, <3>2, <3>7, <4>1 DEF InputsInv
        <5> QED
          BY <3>4, <5>1
      <4>2. CASE e \in Entries(v[level + 1])
        <5>1. level < level + 1
          BY <1>1
        <5>2. o.seq > e.seq
          BY <1>1, <1>2, <2>3, <3>3, <3>7, <4>2, <5>1 DEF NewerAbove
        <5> QED
          BY <3>4, <5>2
      <4> QED
        BY <3>5, <4>1, <4>2
    <3>8. CASE l = level + 1
      <4>1. OneSide(cut, inputs[1] \cup inputs[2], f)
        BY <3>2, <3>8 DEF InputsInv
      <4>2. PICK h \in inputs[1] \cup inputs[2] : e \in h.entries
        BY EntriesOf
      <4>3. Ahead(cut, h, f) \/ Ahead(cut, f, h)
        BY <4>1 DEF OneSide
      <4>4. e.key < o.key \/ o.key < e.key
        BY <2>3, <3>1, <4>2, <4>3 DEF Ahead, Precedes
      <4>5. e \in all
        OBVIOUS
      <4>6. e.key \in Int
        BY <1>4, <4>5
      <4> QED
        BY <2>3, <4>4, <4>6
    <3>9. CASE l >= level + 2
      <4>1. l \in level + 2 .. NumLevels - 1
        BY <1>1, <3>3, <3>9, LevelsAssumption DEF Levels
      <4>2. ~Overlaps(f, e.key, e.key)
        BY <2>1, <3>2, <4>1 DEF IsBaseLevelForKey
      <4>3. Overlaps(f, o.key, o.key)
        <5>2. e \in all
          OBVIOUS
        <5>3. e.key \in Int
          BY <1>4, <5>2
        <5>1. o.key \in Int /\ o.key <= o.key
          BY <2>3, <5>3
        <5> QED
          BY <1>2, <3>1, <3>3, <5>1, KeyIsMet
      <4> QED
        BY <2>3, <4>2, <4>3
    <3> QED
      BY <1>1, <3>3, <3>6, <3>7, <3>8, <3>9
  <2> QED
    BY <2>1, <2>2, <2>3
<1> QED
  BY <1>5, <1>6

\* A compaction begins: what its loop will drop, no snapshot of this moment misses.
LEMMA StartCopies ==
  ASSUME NEW cut, NumsInv, LevelsInv(cut), CopiesInv(cut), opened, edit = Nil, NEW level, NEW inputs,
         InputsInv(cut, manifest.version, level, inputs), Starts(level, inputs),
         UNCHANGED <<opened, lastSeq, buffers, mem, imm, current, edit, snaps, reads, manifest, logFiles, written>>
  PROVE  CopiesInv(cut)'
<1> DEFINE smallest == IF Snapshots = {} THEN lastSeq ELSE CHOOSE s \in Snapshots : \A t \in Snapshots : s <= t
           all == Entries(inputs[1] \cup inputs[2])
           v == manifest.version
<1>1. /\ lastSeq = Len(written) /\ lastSeq \in Nat /\ DiskInv(cut) /\ HeldInv(cut) /\ mem \in Nat
      /\ NeededLogs \subseteq (IF Editing("flush") THEN {mem} ELSE {mem, imm})
      /\ Editing("flush") => imm # Nil
  BY OpenCopies
<1>2. current = v /\ VersionInv(cut, v)
  BY DEF LevelsInv, OpenInv
<1>3. /\ compact'.level = level /\ compact'.inputs = inputs /\ compact'.outputs = {}
      /\ compact'.todo = Kept(v, level, all, smallest)
  BY <1>2 DEF Starts
<1>4. smallest \in 0..lastSeq /\ \A s \in Snapshots : smallest <= s
  <2>1. \A s \in Snapshots : s \in 0..lastSeq
    BY <1>1 DEF DiskInv
  <2>2. CASE Snapshots = {}
    BY <1>1, <2>2
  <2>3. CASE Snapshots # {}
    <3>1. Snapshots \subseteq Nat
      BY <1>1, <2>1
    <3>2. \E s \in Snapshots : \A t \in Snapshots : s <= t
      BY <2>3, <3>1, LeastNumber
    <3>3. smallest \in Snapshots /\ \A t \in Snapshots : smallest <= t
      BY <2>3, <3>2
    <3> QED
      BY <2>1, <3>3
  <2> QED
    BY <2>2, <2>3
<1>5. NeededLogs' = NeededLogs /\ Snapshots' = Snapshots /\ Editing("flush")' = Editing("flush")
  BY DEF NeededLogs, Snapshots, Editing
<1>6. Logged' = Logged
  BY <1>5, LoggedStays
<1>7. DiskInv(cut)'
  BY <1>1, <1>5, <1>6, DiskStays
<1>8. KeptInv(cut)'
  <2> HIDE DEF all, smallest, v
  <2>1. smallest \in Nat
    BY <1>1, <1>4
  <2>2. DropsInv(cut, smallest, all, Kept(v, level, all, smallest), Entries(Rest(v, level, inputs)))
    BY <1>2, <2>1, StartDrops DEF all, v
  <2>3. Entries(compact'.outputs) \cup compact'.todo = Kept(v, level, all, smallest)
    BY <1>3 DEF Entries
  <2>4. DropsInv(cut, smallest, Entries(compact'.inputs[1] \cup compact'.inputs[2]), Entries(compact'.outputs) \cup compact'.todo,
                 Entries(Rest(manifest'.version, compact'.level, compact'.inputs)))
    BY <1>3, <2>2, <2>3 DEF all, v
  <2> QED
    BY <1>4, <1>5, <2>4 DEF KeptInv
<1>9. NowInv(cut)'
  BY DEF NowInv
<1>10. HeldInv(cut)'
  BY <1>1, HeldStays
<1> QED
  BY <1>7, <1>8, <1>9, <1>10 DEF CopiesInv

\* An output takes its entries from what is left.
LEMMA OutputCopies ==
  ASSUME NEW cut, NumsInv, LevelsInv(cut), CopiesInv(cut), compact # Nil, NEW last \in compact.todo, WriteOutput(last)
  PROVE  CopiesInv(cut)'
<1> DEFINE todo == compact.todo
           taken == {e \in todo : e = last \/ Before(e, last)}
           output == [number |-> nextFile, entries |-> taken]
<1>1. /\ opened /\ edit = Nil
      /\ compact' = [level |-> compact.level, inputs |-> compact.inputs, version |-> compact.version,
                     outputs |-> compact.outputs \cup {output}, todo |-> todo \ taken]
      /\ UNCHANGED <<opened, lastSeq, buffers, mem, imm, current, edit, snaps, reads, manifest, logFiles, written>>
  BY DEF WriteOutput, memVars, clientVars
<1>2. /\ lastSeq = Len(written) /\ lastSeq \in Nat /\ DiskInv(cut) /\ KeptInv(cut) /\ HeldInv(cut) /\ mem \in Nat
      /\ NeededLogs \subseteq (IF Editing("flush") THEN {mem} ELSE {mem, imm})
      /\ Editing("flush") => imm # Nil
  BY <1>1, OpenCopies
<1>3. NeededLogs' = NeededLogs /\ Snapshots' = Snapshots /\ Editing("flush")' = Editing("flush")
  BY <1>1 DEF NeededLogs, Snapshots, Editing
<1>4. Logged' = Logged
  BY <1>1, <1>3, LoggedStays
<1>5. DiskInv(cut)'
  BY <1>1, <1>2, <1>3, <1>4, DiskStays
<1>6. output.entries = taken /\ taken \subseteq todo
  OBVIOUS
<1> HIDE DEF output, taken
<1>7. Entries(compact'.outputs) \cup compact'.todo = Entries(compact.outputs) \cup compact.todo
  <2>1. compact'.outputs = compact.outputs \cup {output} /\ compact'.todo = todo \ taken
    BY <1>1
  <2>2. Entries(compact'.outputs) = Entries(compact.outputs) \cup taken
    BY <1>6, <2>1 DEF Entries
  <2> QED
    BY <1>6, <2>1, <2>2
<1>8. KeptInv(cut)'
  <2>1. /\ compact'.level = compact.level /\ compact'.inputs = compact.inputs /\ ~Editing("compaction")
        /\ lastSeq' = lastSeq /\ manifest'.version = manifest.version
    BY <1>1 DEF Editing
  <2>2. lastSeq \in Nat /\ lastSeq' \in Nat /\ lastSeq <= lastSeq' /\ KeptInv(cut)
    BY <1>2, <2>1
  <2>3. \A s \in Snapshots' : s \in Snapshots \/ s = lastSeq
    BY <1>3
  <2> HIDE DEF todo
  <2> QED
    BY <1>7, <2>1, <2>2, <2>3, KeptStays
<1>9. NowInv(cut)'
  BY <1>1 DEF NowInv
<1>10. HeldInv(cut)'
  BY <1>1, <1>2, HeldStays
<1> QED
  BY <1>5, <1>8, <1>9, <1>10 DEF CopiesInv

\* What a merge leaves of the tables shows what they showed, to all that see as far as base.
LEMMA ShowsMerged ==
  ASSUME NEW cut, NEW h \in History, NEW inp, NEW out, NEW rest, NEW logged, NEW base \in Nat,
         Recorded(h, inp \cup rest \cup logged), DropsInv(cut, base, inp, out, rest),
         \A e \in logged, o \in inp : o.seq < e.seq, out \subseteq inp,
         NEW s \in 0..Len(h), base <= s, Shows(cut, h, inp \cup rest \cup logged, s)
  PROVE  Shows(cut, h, out \cup rest \cup logged, s)
<1> DEFINE S == inp \cup rest \cup logged
<1>1. /\ Len(h) \in Nat /\ s \in Nat
      /\ \A e \in S : /\ e.seq \in 1..Len(h) /\ e.seq \in Nat /\ e.key = h[e.seq].key /\ e.type = h[e.seq].type
  BY RecordedEntries, HistoryType
<1> SUFFICES ASSUME NEW n \in 1..s, IsLast(h, n, s), h[n].key \notin cut, Record(h, n) \notin out \cup rest \cup logged
             PROVE  /\ h[n].type = "deletion"
                    /\ \A o \in out \cup rest \cup logged : o.key = h[n].key => n < o.seq
  BY DEF Shows
<1>2. \/ Record(h, n) \in S
      \/ h[n].type = "deletion" /\ \A o \in S : o.key = h[n].key => n < o.seq
  BY DEF Shows
<1>3. CASE h[n].type = "deletion" /\ \A o \in S : o.key = h[n].key => n < o.seq
  BY <1>3
<1>4. CASE Record(h, n) \in S
  <2>1. PICK e \in inp \ out : e = Record(h, n)
    BY <1>4
  <2>2. e.key = h[n].key /\ e.seq = n /\ e.type = h[n].type
    BY <2>1 DEF Record
  <2>3. ASSUME NEW newer \in inp, newer.key = e.key, e.seq < newer.seq, newer.seq <= base PROVE FALSE
    <3>1. newer.seq \in Nat /\ newer.seq \in 1..Len(h) /\ newer.key = h[newer.seq].key
      BY <1>1
    <3>2. newer.seq \in 1..s /\ newer.seq > n
      BY <1>1, <2>2, <2>3, <3>1
    <3> QED
      BY <2>2, <2>3, <3>1, <3>2 DEF IsLast
  <2>4. e.type = "deletion" /\ \A o \in out \cup rest : o.key = e.key => e.seq < o.seq
    BY <2>1, <2>2, <2>3 DEF DropsInv
  <2>5. \A o \in logged : e.seq < o.seq
    BY <2>1
  <2> QED
    BY <2>2, <2>4, <2>5
<1> QED
  BY <1>2, <1>3, <1>4

\* An edit that takes the inputs out of a version and puts the outputs below.
Replaces(v, level, inputs, outputs, e) ==
  /\ \A l \in Levels : \A f \in v[l] :
       <<l, f.number>> \in e.deleted <=> (l = level /\ f \in inputs[1]) \/ (l = level + 1 /\ f \in inputs[2])
  /\ \A a \in e.added : a[1] = level + 1 /\ a[2] \in outputs
  /\ \A f \in outputs : \E a \in e.added : a[1] = level + 1 /\ a[2] = f

\* What such an edit makes of the files of the version.
LEMMA EditedFiles ==
  ASSUME NEW v, NEW level \in Levels, level + 1 \in Levels, NEW inputs, NEW outputs, NEW e,
         Replaces(v, level, inputs, outputs, e)
  PROVE  /\ Files(Apply(v, e)) = Rest(v, level, inputs) \cup outputs
         /\ Apply(v, e)[0] \subseteq v[0]
<1> DEFINE w == Apply(v, e)
           gone(l) == (IF l = level THEN inputs[1] ELSE {}) \cup (IF l = level + 1 THEN inputs[2] ELSE {})
<1>1. ASSUME NEW l \in Levels, NEW f
      PROVE  f \in w[l] <=> f \in v[l] \ gone(l) \/ (l = level + 1 /\ f \in outputs)
  <2>0. /\ \A a \in e.added : a[1] = level + 1 /\ a[2] \in outputs
        /\ \A g \in outputs : \E a \in e.added : a[1] = level + 1 /\ a[2] = g
        /\ \A g \in v[l] : <<l, g.number>> \in e.deleted <=> (l = level /\ g \in inputs[1]) \/ (l = level + 1 /\ g \in inputs[2])
    BY DEF Replaces
  <2>1. ASSUME f \in w[l] PROVE f \in v[l] \ gone(l) \/ (l = level + 1 /\ f \in outputs)
    <3>1. \/ f \in v[l] /\ <<l, f.number>> \notin e.deleted
          \/ \E a \in e.added : a[1] = l /\ a[2] = f
      BY <2>1, AppliedFrom
    <3> QED
      BY <2>0, <3>1
  <2>2. ASSUME f \in v[l] \ gone(l) PROVE f \in w[l]
    <3>1. <<l, f.number>> \notin e.deleted
      BY <2>0, <2>2
    <3> QED
      BY <2>2, <3>1, AppliedTo
  <2>3. ASSUME l = level + 1, f \in outputs PROVE f \in w[l]
    <3>1. \E a \in e.added : a[1] = l /\ a[2] = f
      BY <2>0, <2>3
    <3> QED
      BY <3>1, AppliedTo
  <2> QED
    BY <2>1, <2>2, <2>3
<1>2. Files(w) = UNION {w[l] : l \in Levels} /\ Rest(v, level, inputs) = UNION {v[l] \ gone(l) : l \in Levels}
  BY DEF Files, Rest
<1>3. 0 \in Levels /\ 0 # level + 1
  BY LevelsAssumption DEF Levels
<1> HIDE DEF w, gone
<1>4. Files(w) = Rest(v, level, inputs) \cup outputs
  <2>1. \A f : f \in Files(w) <=> \E l \in Levels : f \in w[l]
    BY <1>2
  <2>2. \A f : f \in Rest(v, level, inputs) <=> \E l \in Levels : f \in v[l] \ gone(l)
    BY <1>2
  <2>3. \A f : f \in Files(w) <=> f \in Rest(v, level, inputs) \/ f \in outputs
    BY <1>1, <2>1, <2>2
  <2> QED
    BY <2>3
<1>5. w[0] \subseteq v[0]
  BY <1>1, <1>3
<1> QED
  BY <1>4, <1>5 DEF w

\* The inputs and the rest are all there is.
LEMMA RestAndInputs ==
  ASSUME NEW v, NEW level \in Levels, level + 1 \in Levels, NEW inputs,
         inputs[1] \subseteq v[level], inputs[2] \subseteq v[level + 1]
  PROVE  /\ Files(v) = (inputs[1] \cup inputs[2]) \cup Rest(v, level, inputs)
         /\ Entries(Files(v)) = Entries(inputs[1] \cup inputs[2]) \cup Entries(Rest(v, level, inputs))
<1> DEFINE gone(l) == (IF l = level THEN inputs[1] ELSE {}) \cup (IF l = level + 1 THEN inputs[2] ELSE {})
           all == inputs[1] \cup inputs[2]
           rest == Rest(v, level, inputs)
<1>1. \A l \in Levels : gone(l) \subseteq all /\ gone(l) \subseteq v[l]
  OBVIOUS
<1>2. rest = UNION {v[l] \ gone(l) : l \in Levels} /\ Files(v) = UNION {v[l] : l \in Levels}
  BY DEF Files, Rest
<1>3. all \subseteq Files(v)
  BY LevelFiles
<1> HIDE DEF gone, all, rest
<1>4. Files(v) = all \cup rest
  <2>1. \A f : f \in rest <=> \E l \in Levels : f \in v[l] \ gone(l)
    BY <1>2
  <2>2. \A f : f \in Files(v) <=> \E l \in Levels : f \in v[l]
    BY <1>2
  <2>3. \A f \in Files(v) : f \in all \/ f \in rest
    BY <1>1, <2>1, <2>2
  <2>4. \A f \in rest : f \in Files(v)
    BY <2>1, <2>2
  <2> QED
    BY <1>3, <2>3, <2>4
<1>5. Entries(all \cup rest) = Entries(all) \cup Entries(rest)
  BY DEF Entries
<1> QED
  BY <1>4, <1>5 DEF all, rest

\* A file that is deleted by its number is an input.
Names(level, inputs) == {<<level, f.number>> : f \in inputs[1]} \cup {<<level + 1, f.number>> : f \in inputs[2]}
\* A compaction's edit deletes its inputs, by their numbers, and adds its outputs.
LEMMA DeletedFiles ==
  ASSUME NEW v, OneNumberEach(Files(v)), NEW level \in Levels, level + 1 \in Levels, NEW inputs,
         inputs[1] \subseteq v[level], inputs[2] \subseteq v[level + 1], NEW outputs, NEW e,
         e.deleted = Names(level, inputs), e.added = {<<level + 1, f>> : f \in outputs}
  PROVE  Replaces(v, level, inputs, outputs, e)
<1> DEFINE deleted == Names(level, inputs)
<1>1. \A d : d \in deleted <=> \/ \E f \in inputs[1] : d = <<level, f.number>>
                               \/ \E f \in inputs[2] : d = <<level + 1, f.number>>
  BY DEF Names
<1> HIDE DEF deleted
<1>2. \A a \in e.added : a[1] = level + 1 /\ a[2] \in outputs
  OBVIOUS
<1>3. ASSUME NEW f \in outputs PROVE \E a \in e.added : a[1] = level + 1 /\ a[2] = f
  <2>1. <<level + 1, f>> \in e.added
    OBVIOUS
  <2> QED
    BY <2>1, Zenon
<1>4. ASSUME NEW l \in Levels, NEW f \in v[l]
      PROVE  <<l, f.number>> \in deleted <=> (l = level /\ f \in inputs[1]) \/ (l = level + 1 /\ f \in inputs[2])
  <2>1. f \in Files(v) /\ \A g \in inputs[1] \cup inputs[2] : g \in Files(v)
    BY LevelFiles
  <2>2. \A g \in inputs[1] \cup inputs[2] : g.number = f.number => g = f
    BY <2>1 DEF OneNumberEach
  <2>3. \A g \in inputs[1] : <<l, f.number>> = <<level, g.number>> => l = level /\ g = f
    BY <2>2
  <2>4. \A g \in inputs[2] : <<l, f.number>> = <<level + 1, g.number>> => l = level + 1 /\ g = f
    BY <2>2
  <2>5. <<l, f.number>> \in deleted <=> \/ \E g \in inputs[1] : <<l, f.number>> = <<level, g.number>>
                                        \/ \E g \in inputs[2] : <<l, f.number>> = <<level + 1, g.number>>
    BY <1>1
  <2> QED
    BY <2>3, <2>4, <2>5
<1> QED
  BY <1>2, <1>3, <1>4 DEF Replaces, deleted

\* An edit of a move or of a compaction is on its way: the disk shows what it showed, and
\* a reader that begins holds what it would have held.
LEMMA EditCopies ==
  ASSUME NEW cut, NumsInv, LevelsInv(cut), CopiesInv(cut), opened, edit = Nil,
         UNCHANGED <<opened, lastSeq, buffers, mem, imm, current, snaps, reads, logFiles, written>>,
         manifest'.log = manifest.log, manifest'.last = lastSeq, edit' # Nil, edit'.kind # "flush",
         manifest'.version[0] \subseteq manifest.version[0],
         Entries(Files(manifest'.version)) \subseteq Entries(Files(manifest.version)),
         \A s \in {Len(written)} \cup Snapshots : Shows(cut, written, Entries(Files(manifest'.version)) \cup Logged, s),
         compact' # Nil => edit'.kind = "compaction"
  PROVE  CopiesInv(cut)'
<1>1. /\ lastSeq = Len(written) /\ lastSeq \in Nat /\ written \in History
      /\ DiskInv(cut) /\ NowInv(cut) /\ HeldInv(cut) /\ mem \in Nat
      /\ NeededLogs \subseteq (IF Editing("flush") THEN {mem} ELSE {mem, imm})
  BY OpenCopies
<1>2. NeededLogs' = NeededLogs /\ Snapshots' = Snapshots /\ ~Editing("flush") /\ ~Editing("flush")'
  BY DEF NeededLogs, Snapshots, Editing
<1>3. Logged' = Logged
  BY <1>2, LoggedStays
<1>4. OnDisk' = Entries(Files(manifest'.version)) \cup Logged /\ OnDisk' \subseteq OnDisk
  BY <1>3 DEF OnDisk
<1>5. DiskInv(cut)'
  <2>1. NewerOnZero(manifest'.version)
    BY <1>1 DEF DiskInv, NewerOnZero
  <2>2. Recorded(written, OnDisk')
    BY <1>1, <1>4 DEF DiskInv, Recorded
  <2>3. manifest'.last <= Len(written) /\ \A n \in 1..Len(written) : ~(n > manifest'.last)
    BY <1>1
  <2>4. \A s \in {Len(written)} \cup Snapshots : s \in 0..Len(written) /\ Shows(cut, written, OnDisk', s)
    BY <1>1, <1>4 DEF DiskInv
  <2>5. NeededLogs' \subseteq {mem', imm'} /\ DOMAIN snaps' = Handles
    BY <1>1, <1>2 DEF DiskInv
  <2> QED
    BY <1>1, <1>2, <2>1, <2>2, <2>3, <2>4, <2>5 DEF DiskInv
<1>6. KeptInv(cut)'
  BY DEF KeptInv, Editing
<1>7. NowInv(cut)'
  <2>1. ReadInv(cut, written, buffers, Now, {lastSeq} \cup Snapshots)
    BY <1>1, NowIsRight
  <2>2. Now' = Now
    BY DEF Now
  <2> QED
    BY <1>2, <2>1, <2>2 DEF NowInv
<1>8. HeldInv(cut)'
  BY <1>1, HeldStays
<1> QED
  BY <1>5, <1>6, <1>7, <1>8 DEF CopiesInv

\* A trivial move changes no entry, and level 0 gains no file.
LEMMA MoveCopies ==
  ASSUME NEW cut, NumsInv, LevelsInv(cut), CopiesInv(cut), opened, edit = Nil, compact = Nil, NEW level, NEW inputs,
         InputsInv(cut, manifest.version, level, inputs), IsTrivialMove(inputs), Moves(level, inputs),
         UNCHANGED <<opened, lastSeq, buffers, mem, imm, current, compact, snaps, reads, logFiles, written>>
  PROVE  CopiesInv(cut)'
<1> DEFINE e == [kind |-> "move", deleted |-> {<<level, f.number>> : f \in inputs[1]},
                 added |-> {<<level + 1, f>> : f \in inputs[1]}, log |-> manifest.log]
           v == manifest.version
           w == manifest'.version
           outputs == inputs[1]
<1>1. current = v /\ manifest.log \in Nat /\ OneNumberEach(Files(v))
  BY LogNumbers, LiveParts DEF LevelsInv, OpenInv, NumsInv, NumbersInv, OneNumberEach
<1>2. /\ w = Apply(v, e) /\ manifest'.log = manifest.log /\ manifest'.last = lastSeq
      /\ edit' = [kind |-> "move", log |-> manifest.log]
  BY <1>1 DEF Moves, LogAndApply
<1>3. edit' # Nil /\ edit'.kind # "flush"
  BY <1>1, <1>2, NilAssumption DEF Edit
<1>4. /\ level \in Levels /\ level + 1 \in Levels
      /\ inputs[1] \subseteq v[level] /\ inputs[2] \subseteq v[level + 1] /\ inputs[2] = {}
  BY LevelsAssumption DEF InputsInv, IsTrivialMove, Levels
<1>5. e.deleted = Names(level, inputs) /\ e.added = {<<level + 1, f>> : f \in outputs}
  BY <1>4 DEF Names
<1> HIDE DEF e, v, outputs
<1>6. Replaces(v, level, inputs, outputs, e)
  BY <1>1, <1>4, <1>5, DeletedFiles
<1>7. Files(w) = Rest(v, level, inputs) \cup outputs /\ w[0] \subseteq v[0]
  BY <1>2, <1>4, <1>6, EditedFiles
<1>8. Files(v) = (inputs[1] \cup inputs[2]) \cup Rest(v, level, inputs)
  BY <1>4, RestAndInputs
<1>9. Files(w) = Files(v)
  BY <1>4, <1>7, <1>8 DEF outputs
<1>10. \A s \in {Len(written)} \cup Snapshots : Shows(cut, written, Entries(Files(w)) \cup Logged, s)
  <2>1. Entries(Files(w)) \cup Logged = OnDisk
    BY <1>9 DEF OnDisk, v
  <2> QED
    BY <2>1 DEF CopiesInv, DiskInv
<1> QED
  BY <1>2, <1>3, <1>7, <1>9, <1>10, EditCopies DEF v

\* A compaction ends: what it dropped is hidden, or a deletion of nothing, for the latest
\* sequence number and for every snapshot.
LEMMA FinishCopies ==
  ASSUME NEW cut, NumsInv, LevelsInv(cut), CopiesInv(cut), FinishCompaction
  PROVE  CopiesInv(cut)'
<1> DEFINE level == compact.level
           inputs == compact.inputs
           outputs == compact.outputs
           e == [kind |-> "compaction",
                 deleted |-> {<<level, f.number>> : f \in inputs[1]} \cup {<<level + 1, f.number>> : f \in inputs[2]},
                 added |-> {<<level + 1, f>> : f \in outputs}, log |-> manifest.log]
           v == manifest.version
           w == manifest'.version
           inp == Entries(inputs[1] \cup inputs[2])
           out == Entries(outputs)
           rest == Entries(Rest(v, level, inputs))
<1>1. /\ opened /\ edit = Nil /\ compact # Nil /\ compact.todo = {}
      /\ UNCHANGED <<opened, lastSeq, buffers, mem, imm, current, compact, snaps, reads, logFiles, written>>
  BY DEF FinishCompaction, memVars, clientVars
<1>2. current = v /\ manifest.log \in Nat /\ OneNumberEach(Files(v))
  BY <1>1, LogNumbers, LiveParts DEF LevelsInv, OpenInv, NumsInv, NumbersInv, OneNumberEach
<1>3. LogAndApply(e, nextFile)
  BY DEF FinishCompaction
<1>4. /\ w = Apply(v, e) /\ manifest'.log = manifest.log /\ manifest'.last = lastSeq
      /\ edit' = [kind |-> "compaction", log |-> manifest.log]
  BY <1>2, <1>3 DEF LogAndApply
<1>5. edit' # Nil /\ edit'.kind = "compaction"
  BY <1>2, <1>4, NilAssumption DEF Edit
<1>6. InputsInv(cut, v, level, inputs) /\ OutputsInv(cut, inputs, outputs, {})
  BY <1>1 DEF LevelsInv, CompactInv, Editing
<1>7. PICK base \in 0..lastSeq : (\A s \in Snapshots : base <= s) /\ DropsInv(cut, base, inp, out, rest)
  <2>1. out \cup compact.todo = out
    BY <1>1
  <2> QED
    BY <1>1, <2>1 DEF CopiesInv, KeptInv, Editing
<1>8. /\ level \in Levels /\ level + 1 \in Levels
      /\ inputs[1] \subseteq v[level] /\ inputs[2] \subseteq v[level + 1]
  BY <1>6, LevelsAssumption DEF InputsInv, Levels
<1>9. e.deleted = Names(level, inputs) /\ e.added = {<<level + 1, f>> : f \in outputs}
  BY DEF Names
<1> HIDE DEF e, v, level, inputs, outputs, inp, out, rest
<1>11. Replaces(v, level, inputs, outputs, e)
  BY <1>2, <1>8, <1>9, DeletedFiles
<1>12. Files(w) = Rest(v, level, inputs) \cup outputs /\ w[0] \subseteq v[0]
  BY <1>4, <1>8, <1>11, EditedFiles
<1>13. Entries(Files(w)) = out \cup rest
  BY <1>12 DEF Entries, out, rest
<1>14. Entries(Files(v)) = inp \cup rest
  BY <1>8, RestAndInputs DEF inp, rest
<1>15. out \subseteq inp
  BY <1>6 DEF OutputsInv, inp, out
<1>16. ASSUME NEW s \in {Len(written)} \cup Snapshots
       PROVE  Shows(cut, written, Entries(Files(w)) \cup Logged, s)
  <2>1. /\ lastSeq = Len(written) /\ lastSeq \in Nat /\ written \in History /\ DiskInv(cut)
    BY <1>1, OpenCopies
  <2>2. OnDisk = inp \cup rest \cup Logged
    BY <1>14 DEF OnDisk, v
  <2>3. s \in 0..Len(written) /\ Shows(cut, written, inp \cup rest \cup Logged, s) /\ Recorded(written, inp \cup rest \cup Logged)
    BY <2>1, <2>2 DEF DiskInv
  <2>4. base \in Nat /\ base <= s
    BY <1>7, <2>1
  <2>5. \A x \in Logged, o \in inp : o.seq < x.seq
    <3>1. \A x \in Logged, o \in Entries(Files(v)) : o.seq < x.seq
      BY DEF Logged, LevelsInv, LogsInv, v
    <3> QED
      BY <1>14, <3>1
  <2>6. Shows(cut, written, out \cup rest \cup Logged, s)
    <3> DEFINE logged == Logged
    <3>1. /\ Recorded(written, inp \cup rest \cup logged) /\ Shows(cut, written, inp \cup rest \cup logged, s)
          /\ \A x \in logged, o \in inp : o.seq < x.seq
      BY <2>3, <2>5
    <3> HIDE DEF logged
    <3>2. Shows(cut, written, out \cup rest \cup logged, s)
      BY <1>7, <1>15, <2>1, <2>3, <2>4, <3>1, ShowsMerged
    <3> QED
      BY <3>2 DEF logged
  <2> QED
    BY <1>13, <2>6
<1>17. Entries(Files(w)) \subseteq Entries(Files(manifest.version))
  BY <1>13, <1>14, <1>15 DEF v
<1>18. w[0] \subseteq manifest.version[0] /\ edit'.kind # "flush"
  BY <1>5, <1>12 DEF v
<1> QED
  BY <1>1, <1>4, <1>5, <1>16, <1>17, <1>18, EditCopies

\* What the background thread begins by itself.
LEMMA AutomaticCopies ==
  ASSUME NEW cut, NumsInv, LevelsInv(cut), CopiesInv(cut), NEW level \in 0..NumLevels - 2, AutomaticCompaction(level)
  PROVE  CopiesInv(cut)'
<1>1. /\ opened /\ edit = Nil /\ compact = Nil
      /\ UNCHANGED <<opened, lastSeq, buffers, mem, imm, current, snaps, reads, logFiles, written>>
  BY DEF AutomaticCompaction, memVars, clientVars
<1>2. PICK f \in current[level] : \E i \in PickCompaction(current, level, f) :
        \/ IsTrivialMove(i) /\ Moves(level, i) /\ UNCHANGED compact
        \/ Starts(level, i) /\ UNCHANGED <<edit, manifest>>
  BY DEF AutomaticCompaction
<1>3. PICK inputs \in PickCompaction(current, level, f) :
        \/ IsTrivialMove(inputs) /\ Moves(level, inputs) /\ UNCHANGED compact
        \/ Starts(level, inputs) /\ UNCHANGED <<edit, manifest>>
  BY <1>2
<1>4. current = manifest.version /\ Proper(cut, manifest.version)
  BY <1>1, VersionFacts DEF LevelsInv, OpenInv
<1>5. InputsInv(cut, manifest.version, level, inputs)
  BY <1>4, PickFits
<1>6. CASE IsTrivialMove(inputs) /\ Moves(level, inputs) /\ UNCHANGED compact
  BY <1>1, <1>5, <1>6, MoveCopies
<1>7. CASE Starts(level, inputs) /\ UNCHANGED <<edit, manifest>>
  BY <1>1, <1>5, <1>7, StartCopies
<1> QED
  BY <1>3, <1>6, <1>7

\* A table of newer entries is no concern of what a compaction drops.
LEMMA DropsStay ==
  ASSUME NEW cut, NEW v, VersionInv(cut, v), NEW w, NEW level, NEW inputs, InputsInv(cut, v, level, inputs),
         NEW file, \A l \in Levels : w[l] \subseteq v[l] \cup {file},
         \A e \in file.entries, o \in Entries(Files(v)) : o.seq < e.seq,
         NEW base, NEW out,
         DropsInv(cut, base, Entries(inputs[1] \cup inputs[2]), out, Entries(Rest(v, level, inputs)))
  PROVE  DropsInv(cut, base, Entries(inputs[1] \cup inputs[2]), out, Entries(Rest(w, level, inputs)))
<1> DEFINE inp == Entries(inputs[1] \cup inputs[2])
           old == Rest(v, level, inputs)
           new == Rest(w, level, inputs)
<1>1. \A f \in new : f \in old \/ f = file
  BY DEF Rest
<1>2. \A o \in Entries(new) : o \in Entries(old) \/ o \in file.entries
  BY <1>1 DEF Entries
<1>3. inp \subseteq Entries(Files(v))
  <2>1. level \in Levels /\ level + 1 \in Levels
    BY LevelsAssumption DEF InputsInv, Levels
  <2>2. inputs[1] \cup inputs[2] \subseteq Files(v)
    BY <2>1, LevelFiles DEF InputsInv
  <2> QED
    BY <2>2, IncludedEntries
<1> HIDE DEF inp, old, new
<1>4. DropsInv(cut, base, inp, out, Entries(old))
  BY DEF inp, old
<1>5. DropsInv(cut, base, inp, out, Entries(new))
  BY <1>2, <1>3, <1>4 DEF DropsInv
<1> QED
  BY <1>5 DEF inp, new

\* The memtable imm is written as a table: the entries move from a needed log to a level.
LEMMA FlushCopies == ASSUME NEW cut, NumsInv, LevelsInv(cut), CopiesInv(cut), Flush PROVE CopiesInv(cut)'
<1> DEFINE file == [number |-> nextFile, entries |-> buffers[imm]]
           v == manifest.version
           w == manifest'.version
<1>1. /\ opened /\ edit = Nil /\ imm # Nil
      /\ UNCHANGED <<opened, lastSeq, buffers, mem, imm, current, compact, snaps, reads, logFiles, written>>
  BY DEF Flush, memVars, clientVars
<1>2. manifest'.log = mem /\ manifest'.last = lastSeq /\ edit' = [kind |-> "flush", log |-> mem]
  BY DEF Flush, LogAndApply
<1>3. /\ lastSeq = Len(written) /\ lastSeq \in Nat /\ written \in History
      /\ DiskInv(cut) /\ KeptInv(cut) /\ NowInv(cut) /\ HeldInv(cut) /\ mem \in Nat
  BY <1>1, OpenCopies
<1>4. PICK level \in Levels :
        Fits(v, {file}, level) /\ (\A l \in Levels \ {level} : w[l] = v[l]) /\ w[level] = v[level] \cup {file}
  BY FlushedVersion
<1>5. file.entries = buffers[imm] /\ file.number = nextFile
  OBVIOUS
<1> HIDE DEF file, v, w
<1>6. /\ NeededLogs \subseteq {mem, imm} /\ mem \in NeededLogs /\ imm \in NeededLogs /\ imm \in Nat /\ imm < mem
  BY <1>1, <1>3, NowOnDisk
<1>7. VersionInv(cut, v) /\ Entries(Files(w)) = Entries(Files(v)) \cup buffers[imm]
  <2> DEFINE new == {file}
  <2>1. VersionInv(cut, v) /\ Entries(new) = buffers[imm]
    BY <1>5 DEF Entries, LevelsInv, v
  <2>2. Fits(v, new, level) /\ w[level] = v[level] \cup new
    BY <1>4
  <2> HIDE DEF new
  <2> QED
    BY <1>4, <2>1, <2>2, NewerKeeps
<1>8. NeededLogs' = {mem}
  <2>1. \A n : n \in NeededLogs' <=> n \in logFiles /\ n >= mem
    BY <1>1, <1>2 DEF NeededLogs
  <2>2. mem \in logFiles /\ \A n \in logFiles : n \in Nat /\ n <= mem
    BY <1>1, <1>6, LogNumbers DEF LevelsInv, OpenInv
  <2>3. mem \in NeededLogs'
    BY <1>3, <2>1, <2>2
  <2>4. ASSUME NEW n \in NeededLogs' PROVE n = mem
    <3>1. n \in logFiles /\ n >= mem
      BY <2>1
    <3>2. n \in Nat /\ n <= mem
      BY <2>2, <3>1
    <3> QED
      BY <1>3, <3>1, <3>2
  <2> QED
    BY <2>3, <2>4
<1>9. OnDisk' = OnDisk
  <2>1. NeededLogs = {mem, imm}
    BY <1>6
  <2>2. Logged = buffers[mem] \cup buffers[imm]
    BY <2>1 DEF Logged
  <2>3. Logged' = buffers[mem]
    BY <1>1, <1>8 DEF Logged
  <2> QED
    BY <1>7, <2>2, <2>3 DEF OnDisk, v, w
<1>10. \A e \in buffers[imm], o \in Entries(Files(v)) : o.seq < e.seq
  BY <1>6 DEF LevelsInv, LogsInv, v
<1>11. Snapshots' = Snapshots /\ Editing("flush")' /\ ~Editing("compaction") /\ ~Editing("compaction")'
  <2>1. edit' # Nil /\ edit'.kind = "flush"
    BY <1>2, <1>3, NilAssumption DEF Edit
  <2> QED
    BY <1>1, <2>1 DEF Snapshots, Editing
<1>12. NewerOnZero(w)
  <2> SUFFICES ASSUME NEW f \in w[0], NEW g \in w[0], f.number < g.number,
                      NEW e \in f.entries, NEW o \in g.entries
               PROVE  e.seq < o.seq
    BY DEF NewerOnZero
  <2>1. 0 \in Levels
    BY LevelsAssumption DEF Levels
  <2>2. \A x \in v[0] : x \in Files(v) /\ x.number \in Nat /\ x.number < nextFile
    <3>1. \A x \in v[0] : x \in Files(v)
      BY <2>1, LevelFiles
    <3>2. \A x \in Files(v) : x \in Live
      BY LiveParts DEF v
    <3> QED
      BY <1>1, <3>1, <3>2 DEF NumsInv, NumbersInv, NumberedBelow
  <2>3. (f \in v[0] \/ f = file) /\ (g \in v[0] \/ g = file)
    BY <1>4, <2>1
  <2>4. nextFile \in Nat
    BY <1>1, NumberFacts
  <2>5. CASE f \in v[0] /\ g \in v[0]
    BY <1>3, <2>5 DEF DiskInv, NewerOnZero, v
  <2>6. CASE f \in v[0] /\ g = file
    <3>1. e \in Entries(Files(v)) /\ o \in buffers[imm]
      BY <1>5, <2>2, <2>6 DEF Entries
    <3> QED
      BY <1>10, <3>1
  <2>7. CASE f = file
    BY <1>5, <2>2, <2>3, <2>4, <2>7
  <2> QED
    BY <2>3, <2>5, <2>6, <2>7
<1>13. DiskInv(cut)'
  <2>1. manifest'.last <= Len(written) /\ \A n \in 1..Len(written) : ~(n > manifest'.last)
    BY <1>2, <1>3
  <2>2. NewerOnZero(manifest'.version)
    BY <1>12 DEF w
  <2> QED
    BY <1>1, <1>3, <1>8, <1>9, <1>11, <2>1, <2>2 DEF DiskInv
<1>14. KeptInv(cut)'
  <2> SUFFICES ASSUME compact # Nil
               PROVE  \E base \in 0..lastSeq :
                        /\ \A s \in Snapshots : base <= s
                        /\ DropsInv(cut, base, Entries(compact.inputs[1] \cup compact.inputs[2]),
                                    Entries(compact.outputs) \cup compact.todo,
                                    Entries(Rest(w, compact.level, compact.inputs)))
    BY <1>1, <1>11 DEF KeptInv, w
  <2> DEFINE out == Entries(compact.outputs) \cup compact.todo
             l == compact.level
             inputs == compact.inputs
  <2>1. PICK base \in 0..lastSeq :
          /\ \A s \in Snapshots : base <= s
          /\ DropsInv(cut, base, Entries(inputs[1] \cup inputs[2]), out, Entries(Rest(v, l, inputs)))
    BY <1>3, <1>11 DEF KeptInv, v
  <2>2. InputsInv(cut, v, l, inputs)
    BY <1>11 DEF LevelsInv, CompactInv, v
  <2>3. \A k \in Levels : w[k] \subseteq v[k] \cup {file}
    BY <1>4
  <2>4. \A e \in file.entries, o \in Entries(Files(v)) : o.seq < e.seq
    BY <1>5, <1>10
  <2> HIDE DEF out, l, inputs
  <2>5. DropsInv(cut, base, Entries(inputs[1] \cup inputs[2]), out, Entries(Rest(w, l, inputs)))
    BY <1>7, <2>1, <2>2, <2>3, <2>4, DropsStay
  <2> QED
    BY <2>1, <2>5 DEF out, l, inputs
<1>15. NowInv(cut)'
  <2>1. ReadInv(cut, written, buffers, Now, {lastSeq} \cup Snapshots)
    BY <1>1, <1>3, NowIsRight
  <2>2. Now' = Now
    BY <1>1 DEF Now
  <2> QED
    BY <1>1, <1>11, <2>1, <2>2 DEF NowInv
<1>16. HeldInv(cut)'
  BY <1>1, <1>3, HeldStays
<1> QED
  BY <1>13, <1>14, <1>15, <1>16 DEF CopiesInv

\* The disk holds what it held once a recovery has its manifest in place.
LEMMA RecoveredCopies ==
  ASSUME NEW cut, NumsInv, LevelsInv(cut), DiskInv(cut), ~opened, manifest' = Recovered,
         NeededLogs' \subseteq {Recovered.log}, buffers'[Recovered.log] = {},
         UNCHANGED <<snaps, written, edit>>,
         opened' => lastSeq' = Recovered.last /\ mem' = Recovered.log
  PROVE  DiskInv(cut)'
<1>1. /\ Readable(cut, Recovered.version) /\ Entries(Files(Recovered.version)) = OnDisk
      /\ Recovered.last = Len(written)
  BY RecoveredIsRight
<1>2. edit = Nil /\ Len(written) \in Nat
  BY DiskHistory DEF NumsInv, FilesInv, ClosedShape
<1>3. Logged' = {}
  BY DEF Logged
<1>4. OnDisk' = OnDisk /\ Snapshots' = Snapshots /\ ~Editing("flush")'
  BY <1>1, <1>2, <1>3 DEF OnDisk, Snapshots, Editing
<1>5. manifest'.last <= Len(written) /\ \A n \in 1..Len(written) : ~(n > manifest'.last)
  BY <1>1, <1>2
<1>6. NewerOnZero(manifest'.version)
  BY <1>1 DEF Readable
<1>7. opened' => lastSeq' = Len(written) /\ NeededLogs' \subseteq {mem', imm'}
  BY <1>1
<1> QED
  BY <1>4, <1>5, <1>6, <1>7 DEF DiskInv

\* A recovery makes tables of the needed logs.
LEMMA ReopenCopies == ASSUME NEW cut, NumsInv, LevelsInv(cut), CopiesInv(cut), Open PROVE CopiesInv(cut)'
<1>1. /\ ~opened /\ manifest' = Recovered /\ mem' = Recovered.log /\ lastSeq' = Recovered.last
      /\ buffers' = WithBuffer({}, Recovered.log) /\ logFiles' = {Recovered.log}
      /\ UNCHANGED <<compact, edit, snaps, reads, written>>
  BY DEF Open, bgVars, clientVars
<1>2. compact = Nil /\ edit = Nil /\ \A r \in Readers : reads[r] = Nil
  BY <1>1 DEF NumsInv, FilesInv, ClosedShape, Held
<1>3. buffers'[Recovered.log] = {} /\ NeededLogs' \subseteq {Recovered.log}
  BY <1>1, OldLogsAreRead DEF WithBuffer
<1>4. DiskInv(cut)'
  BY <1>1, <1>3, RecoveredCopies DEF CopiesInv
<1> QED
  BY <1>1, <1>2, <1>4 DEF CopiesInv, KeptInv, NowInv, HeldInv, Held

\* A recovery that does not come to its end leaves its tables, and the old manifest or
\* its own; either way the disk has what it had.
LEMMA CutCopies == ASSUME NEW cut, NumsInv, LevelsInv(cut), CopiesInv(cut), OpenIsCut PROVE CopiesInv(cut)'
<1> DEFINE log == Recovered.log
<1>1. /\ ~opened /\ opened' = opened /\ manifest' \in {manifest, Recovered}
      /\ logFiles' = logFiles \cup {log} /\ buffers' = WithBuffer(logFiles, log)
      /\ UNCHANGED <<compact, edit, snaps, reads, written>>
  BY DEF OpenIsCut, bgVars, clientVars
<1>2. compact = Nil /\ edit = Nil /\ \A r \in Readers : reads[r] = Nil
  BY <1>1 DEF NumsInv, FilesInv, ClosedShape, Held
<1>3. log \notin logFiles
  BY NewLogIsLast
<1>4. buffers'[log] = {} /\ \A n \in logFiles : buffers'[n] = buffers[n]
  BY <1>1, <1>3 DEF WithBuffer
<1>5. DiskInv(cut)'
  <2>1. CASE manifest' = Recovered
    <3>1. NeededLogs' \subseteq {log}
      BY <1>1, <2>1, OldLogsAreRead
    <3> QED
      BY <1>1, <1>4, <2>1, <3>1, RecoveredCopies DEF CopiesInv
  <2>2. CASE manifest' = manifest
    <3> HIDE DEF log
    <3>1. /\ \A n : n \in NeededLogs <=> n \in logFiles /\ n >= manifest.log
          /\ \A n : n \in NeededLogs' <=> (n \in logFiles \/ n = log) /\ n >= manifest.log
      BY <1>1, <2>2 DEF NeededLogs
    <3>2. \A o : o \in Logged <=> \E n \in NeededLogs : o \in buffers[n]
      BY DEF Logged
    <3>3. \A o : o \in Logged' <=> \E n \in NeededLogs' : o \in buffers'[n]
      BY DEF Logged
    <3>4. \A o : o \in Logged' <=> o \in Logged
      BY <1>4, <3>1, <3>2, <3>3
    <3>5. Logged' = Logged
      BY <3>4
    <3>6. Snapshots' = Snapshots
      BY <1>1 DEF Snapshots
    <3> QED
      BY <1>1, <2>2, <3>5, <3>6, DiskStays DEF CopiesInv
  <2> QED
    BY <1>1, <2>1, <2>2
<1> QED
  BY <1>1, <1>2, <1>5 DEF CopiesInv, KeptInv, NowInv, HeldInv, Held

\* An empty store shows an empty history.
LEMMA InitCopies == ASSUME NEW cut, Init PROVE CopiesInv(cut)
<1>1. /\ opened = TRUE /\ lastSeq = 0 /\ mem = 3 /\ imm = Nil /\ buffers = [n \in {3} |-> {}]
      /\ compact = Nil /\ edit = Nil /\ snaps = [h \in Handles |-> Nil] /\ reads = [r \in Readers |-> Nil]
      /\ manifest.version = EmptyVersion /\ manifest.log = 3 /\ manifest.last = 0 /\ logFiles = {3}
      /\ written = <<>>
  BY DEF Init
<1>2. Entries(Files(EmptyVersion)) = {} /\ EmptyVersion[0] = {}
  <2>1. 0 \in Levels
    BY LevelsAssumption DEF Levels
  <2>2. Entries(Files(EmptyVersion)) = {}
    BY NoFiles DEF Entries
  <2>3. EmptyVersion[0] = {}
    BY <2>1 DEF EmptyVersion
  <2> QED
    BY <2>2, <2>3
<1>3. NeededLogs \subseteq {3} /\ Logged = {} /\ OnDisk = {} /\ Snapshots = {}
  <2>1. NeededLogs \subseteq {3} /\ buffers[3] = {} /\ Snapshots = {}
    BY <1>1 DEF NeededLogs, Snapshots
  <2>2. Logged = {}
    BY <2>1 DEF Logged
  <2> QED
    BY <1>1, <1>2, <2>1, <2>2 DEF OnDisk
<1>4. written \in History /\ Len(written) = 0
  BY <1>1 DEF History
<1>5. DiskInv(cut)
  <2>1. NewerOnZero(manifest.version)
    BY <1>1, <1>2 DEF NewerOnZero
  <2>2. Recorded(written, OnDisk) /\ Shows(cut, written, OnDisk, 0)
    BY <1>3 DEF Recorded, Shows
  <2> QED
    BY <1>1, <1>3, <1>4, <2>1, <2>2 DEF DiskInv, Editing
<1> QED
  BY <1>1, <1>5 DEF CopiesInv, KeptInv, NowInv, HeldInv, Held

\* Every step keeps it; the lemmas above are one for each action.
LEMMA StepCopies ==
  ASSUME NEW cut
  PROVE  NumsInv /\ LevelsInv(cut) /\ CopiesInv(cut) /\ [Next]_vars => CopiesInv(cut)'
<1> SUFFICES ASSUME NumsInv, LevelsInv(cut), CopiesInv(cut), [Next]_vars PROVE CopiesInv(cut)'
  OBVIOUS
<1>1. CASE UNCHANGED vars
  BY <1>1, StutterCopies
<1>2. ASSUME NEW input \in Inputs, Write(input[1], input[2]) PROVE CopiesInv(cut)'
  BY <1>2, WriteCopies
<1>3. ASSUME NEW h \in Handles, GetSnapshot(h) \/ ReleaseSnapshot(h) PROVE CopiesInv(cut)'
  BY <1>3, SnapshotCopies
<1>4. ASSUME NEW r \in Readers, NewIterator(r) \/ ReleaseIterator(r) PROVE CopiesInv(cut)'
  BY <1>4, NewIteratorCopies, ReleaseCopies
<1>5. ASSUME NEW level \in 0..NumLevels - 2, AutomaticCompaction(level) PROVE CopiesInv(cut)'
  BY <1>5, AutomaticCopies
<1>6. ASSUME compact # Nil, NEW e \in compact.todo, WriteOutput(e) PROVE CopiesInv(cut)'
  BY <1>6, OutputCopies
<1>7. CASE Next
  BY <1>2, <1>3, <1>4, <1>5, <1>6, <1>7, SwitchCopies, FlushCopies, InstallCopies, FinishCopies,
     EndCopies, ReopenCopies, CutCopies DEF Next
<1> QED
  BY <1>1, <1>7

\* The invariant of every set that has the keys inside which an output has ended.
SplitCopiesInv == \A cut : split \subseteq cut => CopiesInv(cut)

LEMMA StepSplitCopies ==
  NumsInv /\ SplitLevelsInv /\ SplitCopiesInv /\ [Next]_vars => SplitCopiesInv'
<1> SUFFICES ASSUME NumsInv, SplitLevelsInv, SplitCopiesInv, [Next]_vars, NEW cut, split' \subseteq cut
             PROVE  CopiesInv(cut)'
  BY DEF SplitCopiesInv
<1>1. split \subseteq cut
  BY SplitGrows
<1>2. LevelsInv(cut) /\ CopiesInv(cut)
  BY <1>1 DEF SplitLevelsInv, SplitCopiesInv
<1> QED
  BY <1>2, StepCopies

\* Whatever is flushed, moved, merged, dropped, recovered or deleted, and wherever a process
\* ends: every read (DBImpl::Get, db_impl.cc:1077, and iterators) at a sequence number a
\* client holds finds, for every key inside which no output of a compaction has ended, what
\* was written up to it, and recovery (db_impl.cc:274) brings every write back, if the
\* application does not call CompactRange.
THEOREM CopiesStayRight == Spec => []CopiesAreRight
<1> DEFINE Inv == NumsInv /\ SplitLevelsInv /\ SplitCopiesInv
<1>1. Init => Inv
  BY InitNumbers, InitLevels, InitCopies DEF SplitLevelsInv, SplitCopiesInv
<1>2. Inv /\ [Next]_vars => Inv'
  BY StepNumbers, StepSplitLevels, StepSplitCopies DEF ManualNext
<1>3. Inv => CopiesAreRight
  <2> SUFFICES ASSUME Inv PROVE RightCopies(Keys \ split)
    BY DEF CopiesAreRight
  <2>1. LevelsInv(split) /\ CopiesInv(split)
    BY DEF SplitLevelsInv, SplitCopiesInv
  <2> QED
    BY <2>1, CopiesInTheRun
<1> QED
  BY <1>1, <1>2, <1>3, PTL DEF Spec

=============================================================================
