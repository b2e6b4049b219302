----------------------------- MODULE VersionSet ------------------------------
(***************************************************************************)
(* The levels of sorted tables of leveldb (db/version_set.cc): looking a   *)
(* key up in a version, choosing where a memtable goes and what is         *)
(* compacted with what.  Nothing here has state.                           *)
(*                                                                         *)
(* An entry is [key, seq, type]; a file is [number, entries], its metadata *)
(* and its immutable contents in one; a version maps each level to a set   *)
(* of files.  Sizes in bytes are left open: where the code compares them   *)
(* with a limit the operators return every outcome.                        *)
(***************************************************************************)
EXTENDS Integers, FiniteSets

CONSTANTS
  NumLevels,           \* config::kNumLevels
  MaxMemCompactLevel   \* config::kMaxMemCompactLevel

ASSUME LevelsAssumption ==
  /\ NumLevels \in Nat /\ MaxMemCompactLevel \in Nat
  /\ MaxMemCompactLevel + 1 < NumLevels

Levels == 0..NumLevels - 1
Files(version) == UNION {version[level] : level \in Levels}
Numbers(files) == {f.number : f \in files}

\* InternalKeyComparator: increasing key, decreasing sequence number.
Before(a, b) == a.key < b.key \/ (a.key = b.key /\ a.seq > b.seq)

First(entries) == CHOOSE e \in entries : \A x \in entries : x = e \/ Before(e, x)
Last(entries) == CHOOSE e \in entries : \A x \in entries : x = e \/ Before(x, e)
Smallest(f) == First(f.entries)
Largest(f) == Last(f.entries)

\* GetRange: the user keys between the ends of some files.
Entries(files) == UNION {f.entries : f \in files}
Lo(files) == First(Entries(files)).key
Hi(files) == Last(Entries(files)).key

Overlaps(f, lo, hi) == Largest(f).key >= lo /\ Smallest(f).key <= hi

-----------------------------------------------------------------------------
(* Reading *)

\* FindFile: the first file of a sorted level whose largest key is not before e.
FindFile(files, e) ==
  LET after == {f \in files : ~Before(Largest(f), e)}
  IN  {f \in after : \A g \in after : g = f \/ Before(Smallest(f), Smallest(g))}

\* The files Version::Get looks into: all that overlap on level 0, one on others.
Candidates(version, level, target) ==
  IF level = 0
    THEN {f \in version[0] : Overlaps(f, target.key, target.key)}
    ELSE {f \in FindFile(version[level], target) : target.key >= Smallest(f).key}

\* The entry a seek in sorted entries finds for the target's user key, if any.
Seek(entries, target) ==
  LET at == {e \in entries : e.key = target.key /\ e.seq <= target.seq}
  IN  IF at = {} THEN {} ELSE {First(at)}

\* Version::Get: level by level, on level 0 from the newest file to the oldest,
\* and the first entry for the key is the answer.
VersionGet(version, target) ==
  LET hitsOn(level) == UNION {{[level |-> level, number |-> f.number, entry |-> e]
                                : e \in Seek(f.entries, target)}
                              : f \in Candidates(version, level, target)}
      hits == UNION {hitsOn(level) : level \in Levels}
  IN  {hit.entry : hit \in {h \in hits : \A g \in hits :
         h.level < g.level \/ (h.level = g.level /\ h.number >= g.number)}}

-----------------------------------------------------------------------------
(* Where things go *)

\* On level 0 an overlapping file widens the range and the search starts over:
\* the result is the least set that holds every file its own range overlaps.
GetOverlappingInputs(version, level, lo, hi) ==
  LET from(S) == IF S = {} \/ Lo(S) > lo THEN lo ELSE Lo(S)
      to(S) == IF S = {} \/ Hi(S) < hi THEN hi ELSE Hi(S)
      closed == {S \in SUBSET version[level] :
                   S = {f \in version[level] : Overlaps(f, from(S), to(S))}}
  IN  IF level = 0
        THEN {f \in version[0] : \A S \in closed : f \in S}
        ELSE {f \in version[level] : Overlaps(f, lo, hi)}

OverlapInLevel(version, level, lo, hi) ==
  IF level = 0
    THEN \E f \in version[0] : Overlaps(f, lo, hi)
    ELSE \E f \in {g \in version[level] : Largest(g).key >= lo} : hi >= Smallest(f).key

\* Mutant: a level is taken without a look at the files it has.
PickLevelUnlooked(version, lo, hi) ==
  {level \in 0..MaxMemCompactLevel : level > 0 => ~OverlapInLevel(version, 0, lo, hi)}

\* Mutant: level 0 is not looked at first.
PickLevelPastZero(version, lo, hi) ==
  {level \in 0..MaxMemCompactLevel :
     level > 0 => \A above \in 1..level : ~OverlapInLevel(version, above, lo, hi)}

\* PickLevelForMemTableOutput: down while the next level has no overlap; too many
\* bytes in the level after that may stop it.
PickLevelForMemTableOutput(version, lo, hi) ==
  LET overlap(level) == OverlapInLevel(version, level, lo, hi)
      stops(level) ==
        \/ level = MaxMemCompactLevel
        \/ overlap(level + 1)
        \/ level + 2 < NumLevels /\ GetOverlappingInputs(version, level + 2, lo, hi) # {}
  IN  {level \in 0..MaxMemCompactLevel :
         /\ level > 0 => \A above \in 0..level : ~overlap(above)
         /\ overlap(0) \/ stops(level)}

\* PickCompaction and SetupOtherInputs: <<files of level, files of level + 1>>.
\* The first set grows if that adds nothing to the second, and the bytes allow it.
SetupOtherInputs(version, level, inputs) ==
  LET next == GetOverlappingInputs(version, level + 1, Lo(inputs), Hi(inputs))
      all == inputs \cup next
      expanded == GetOverlappingInputs(version, level, Lo(all), Hi(all))
      expandedNext == GetOverlappingInputs(version, level + 1, Lo(expanded), Hi(expanded))
      grows == /\ next # {}
               /\ Cardinality(expanded) > Cardinality(inputs)
               /\ Cardinality(expandedNext) = Cardinality(next)
  IN  {<<inputs, next>>} \cup IF grows THEN {<<expanded, expandedNext>>} ELSE {}

PickCompaction(version, level, file) ==
  SetupOtherInputs(version, level,
    IF level = 0
      THEN GetOverlappingInputs(version, 0, Smallest(file).key, Largest(file).key)
      ELSE {file})

\* CompactRange: past level 0 a prefix of the files in the range is taken, as the
\* bytes allow.
CompactRange(version, level, lo, hi) ==
  LET inputs == GetOverlappingInputs(version, level, lo, hi)
      upto(f) == {g \in inputs : g = f \/ Before(Smallest(g), Smallest(f))}
      taken == IF level = 0 THEN {inputs} ELSE {upto(f) : f \in inputs}
  IN  IF inputs = {} THEN {} ELSE UNION {SetupOtherInputs(version, level, i) : i \in taken}

\* IsTrivialMove, but for the bytes of grandparents.
IsTrivialMove(inputs) == Cardinality(inputs[1]) = 1 /\ inputs[2] = {}

-----------------------------------------------------------------------------
(* Compacting *)

IsBaseLevelForKey(version, level, key) ==
  \A below \in level + 2 .. NumLevels - 1 :
    \A f \in version[below] : ~Overlaps(f, key, key)

\* Mutant: a hidden entry is dropped though a snapshot sees it.
KeptNewest(version, level, entries, smallestSnapshot) ==
  {e \in entries : ~\E newer \in entries : newer.key = e.key /\ newer.seq > e.seq}

\* The loop of DoCompactionWork drops an entry hidden by a newer one that every
\* snapshot sees, and a deletion that every snapshot sees with nothing below it.
Kept(version, level, entries, smallestSnapshot) ==
  {e \in entries :
     /\ ~\E newer \in entries :
           newer.key = e.key /\ newer.seq > e.seq /\ newer.seq <= smallestSnapshot
     /\ ~(/\ e.type = "deletion" /\ e.seq <= smallestSnapshot
          /\ IsBaseLevelForKey(version, level, e.key))}

\* Builder: deleted files go, added files come.
Apply(version, edit) ==
  [level \in Levels |->
     {f \in version[level] : <<level, f.number>> \notin edit.deleted}
       \cup {a[2] : a \in {b \in edit.added : b[1] = level}}]

=============================================================================
