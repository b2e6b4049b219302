------------------------------ MODULE LogFormat ------------------------------
(***************************************************************************)
(* The format of leveldb's logs (db/log_writer.cc, db/log_reader.cc): a    *)
(* record is cut into physical records that do not cross the end of a      *)
(* block; a reader of what a crash, a failed append or the disk has left   *)
(* of the file gives whole records only.                                   *)
(*                                                                         *)
(* The file is a sequence of bytes: each is a byte of a physical record, a *)
(* zero of a trailer, or damaged.  A checksum is taken to tell any payload *)
(* from the one it was computed for.  Logs are read from their beginning   *)
(* (initial_offset_ is 0 in db_impl.cc).                                   *)
(***************************************************************************)
EXTENDS Integers, Sequences, FiniteSets

CONSTANTS
  BlockSize, HeaderSize,  \* kBlockSize, kHeaderSize
  Sizes,       \* sizes of records
  MaxRecords,  \* bound: records
  MaxFailed,   \* bound: turns with a failed append
  MaxDamaged   \* bound: damaged bytes

ASSUME SizesAssumption ==
  /\ {BlockSize, HeaderSize} \subseteq Nat \ {0} /\ HeaderSize < BlockSize
  /\ Sizes \subseteq Nat /\ {MaxRecords, MaxFailed, MaxDamaged} \subseteq Nat

VARIABLES
  phase,        \* "writing", "reading" or "read"
  file,         \* the bytes on disk
  blockOffset,  \* block_offset_
  left,         \* bytes of the record that AddRecord has still to emit, or -1
  fragments,    \* physical records of it so far
  extents,      \* history: record -> the file's length before it, and after it or -1
  failed,       \* turns of AddRecord's loop with a failed append so far
  pos, end,     \* buffer_ is file[pos + 1] .. file[end]
  eof,          \* eof_
  fragmented,   \* in_fragmented_record
  scratch,      \* the fragments in *scratch
  out,          \* the records that ReadRecord returned, each a sequence of fragments
  reported      \* ReportCorruption was called

writerVars == <<blockOffset, left, fragments, extents, failed>>
readerVars == <<pos, end, eof, fragmented, scratch, out, reported>>
vars == <<phase, file, writerVars, readerVars>>

Smaller(a, b) == IF a < b THEN a ELSE b
Elements(s) == {s[i] : i \in DOMAIN s}

-----------------------------------------------------------------------------
(* Writing *)

Not(what) == [rec |-> 0, frag |-> 0, length |-> 0, type |-> what]
Zero == [of |-> Not("zero"), at |-> 0]
Damage == [of |-> Not("damage"), at |-> 0]
Bytes(p) == [i \in 1..HeaderSize + p.length |-> [of |-> p, at |-> i]]

AddRecord(size) ==
  /\ phase = "writing" /\ left = -1 /\ Len(extents) < MaxRecords
  /\ left' = size /\ fragments' = 0
  /\ extents' = Append(extents, [from |-> Len(file), to |-> -1])
  /\ UNCHANGED <<phase, file, blockOffset, failed, readerVars>>

\* Mutant: the end of a block is left as it is.
TrailerForgotten == <<>>

\* One turn of AddRecord's loop: a trailer of zeros where no header fits, and as
\* much of the record as the block takes.
Type(begin, last) ==
  IF begin /\ last THEN "full" ELSE IF begin THEN "first" ELSE IF last THEN "last" ELSE "middle"

Leftover == BlockSize - blockOffset
Trailer == IF Leftover < HeaderSize THEN [i \in 1..Leftover |-> Zero] ELSE <<>>
Offset == IF Leftover < HeaderSize THEN 0 ELSE blockOffset
Fragment ==
  LET length == Smaller(left, BlockSize - Offset - HeaderSize)
  IN  [rec |-> Len(extents), frag |-> fragments + 1, length |-> length,
       type |-> Type(fragments = 0, length = left)]

\* What a turn appends, "pad" bytes of its trailer having been written.
Turn(pad) == SubSeq(Trailer, 1, pad) \o Bytes(Fragment)

Emits(pad) ==
  /\ phase = "writing" /\ left >= 0
  /\ file' = file \o Turn(pad)
  /\ blockOffset' = Offset + HeaderSize + Fragment.length
  /\ fragments' = fragments + 1
  /\ IF Fragment.type \in {"full", "last"}
       THEN left' = -1 /\ extents' = [extents EXCEPT ![Len(extents)].to = Len(file')]
       ELSE left' = left - Fragment.length /\ UNCHANGED extents
  /\ UNCHANGED <<phase, readerVars>>

Emit == Emits(Len(Trailer)) /\ UNCHANGED failed

\* The status of the trailer's append is not looked at: the loop goes on after zeros
\* that are too few.
TrailerFails ==
  /\ failed < MaxFailed /\ failed' = failed + 1
  /\ \E pad \in 0..Len(Trailer) - 1 : Emits(pad)

\* An append of the fragment fails after some bytes: AddRecord gives up, block_offset_
\* goes on as if all had been written.
EmitFails ==
  /\ phase = "writing" /\ left >= 0 /\ failed < MaxFailed
  /\ \E pad \in 0..Len(Trailer) :
       \E n \in pad..Len(Turn(pad)) - 1 : file' = file \o SubSeq(Turn(pad), 1, n)
  /\ blockOffset' = Offset + HeaderSize + Fragment.length
  /\ left' = -1 /\ failed' = failed + 1
  /\ UNCHANGED <<phase, fragments, extents, readerVars>>

-----------------------------------------------------------------------------
(* What happens to the file *)

\* The process or the machine ends: some beginning of the file is left, and is read.
Cut ==
  /\ phase = "writing" /\ phase' = "reading"
  /\ \E n \in 0..Len(file) : file' = SubSeq(file, 1, n)
  /\ UNCHANGED <<writerVars, readerVars>>

Damaged == {i \in DOMAIN file : file[i] = Damage}
DamageByte ==
  /\ phase = "reading" /\ end = 0 /\ Cardinality(Damaged) < MaxDamaged
  /\ \E i \in DOMAIN file : file' = [file EXCEPT ![i] = Damage]
  /\ UNCHANGED <<phase, writerVars, readerVars>>

-----------------------------------------------------------------------------
(* Reading: ReadPhysicalRecord, and what ReadRecord does with what it gives *)

\* The next block is read; less than a block is the end of the file.
Refill ==
  /\ phase = "reading" /\ end - pos < HeaderSize /\ ~eof
  /\ pos' = end
  /\ end' = Smaller(end + BlockSize, Len(file))
  /\ eof' = (end' - end < BlockSize)
  /\ UNCHANGED <<phase, file, writerVars, fragmented, scratch, out, reported>>

Header == SubSeq(file, pos + 1, pos + HeaderSize)
Parsed == file[pos + 1].of
IsHeader == Parsed.rec # 0 /\ Header = SubSeq(Bytes(Parsed), 1, HeaderSize)
Fits == HeaderSize + Parsed.length <= end - pos
Whole == SubSeq(file, pos + 1, pos + HeaderSize + Parsed.length) = Bytes(Parsed)

\* Mutant: a record that was begun is reported.
EndsReported ==
  /\ phase' = "read" /\ scratch' = <<>>
  /\ reported' = (reported \/ fragmented)
  /\ UNCHANGED <<pos, eof, end, fragmented, out>>

\* kEof: a record that was begun is forgotten.
Ends ==
  /\ phase' = "read" /\ scratch' = <<>>
  /\ UNCHANGED <<pos, eof, end, fragmented, out, reported>>

\* kBadRecord, and the rest of the block is dropped.
Bad(corrupt) ==
  /\ pos' = end
  /\ fragmented' = FALSE /\ scratch' = <<>>
  /\ reported' = (reported \/ corrupt \/ fragmented)
  /\ UNCHANGED <<phase, eof, end, out>>

ReadEnd ==
  /\ phase = "reading" /\ end - pos < HeaderSize /\ eof
  /\ Ends /\ UNCHANGED <<file, writerVars>>

\* A header that promises more than the block holds: at the end of the file the
\* writer died in the middle of the record.
ReadTooLong ==
  /\ phase = "reading" /\ end - pos >= HeaderSize /\ IsHeader /\ ~Fits
  /\ IF eof THEN Ends ELSE Bad(TRUE)
  /\ UNCHANGED <<file, writerVars>>

\* No header that was written: zeros, or any type and length at all.
ReadNoHeader ==
  /\ phase = "reading" /\ end - pos >= HeaderSize /\ ~IsHeader
  /\ \/ Bad(FALSE)
     \/ Header # [i \in 1..HeaderSize |-> Zero] /\ Bad(TRUE)
     \/ Header # [i \in 1..HeaderSize |-> Zero] /\ eof /\ Ends
  /\ UNCHANGED <<file, writerVars>>

ReadMismatch ==
  /\ phase = "reading" /\ end - pos >= HeaderSize /\ IsHeader /\ Fits /\ ~Whole
  /\ Bad(TRUE) /\ UNCHANGED <<file, writerVars>>

ScratchIsEmpty == \A i \in DOMAIN scratch : scratch[i].length = 0

\* kFullType and kFirstType: what was begun before is given up.
Start ==
  /\ reported' = (reported \/ (fragmented /\ ~ScratchIsEmpty))
  /\ IF Parsed.type = "full"
       THEN /\ out' = Append(out, <<Parsed>>)
            /\ fragmented' = FALSE /\ scratch' = <<>>
       ELSE fragmented' = TRUE /\ scratch' = <<Parsed>> /\ UNCHANGED out

\* Mutant: a fragment without a beginning begins a record.
ContinueAnyway ==
  /\ UNCHANGED reported
  /\ IF Parsed.type = "last"
       THEN out' = Append(out, Append(scratch, Parsed)) /\ fragmented' = FALSE /\ scratch' = <<>>
       ELSE scratch' = Append(scratch, Parsed) /\ fragmented' = TRUE /\ UNCHANGED out

\* kMiddleType and kLastType: nothing without a beginning.
Continue ==
  IF ~fragmented
    THEN reported' = TRUE /\ UNCHANGED <<out, fragmented, scratch>>
    ELSE /\ UNCHANGED reported
         /\ IF Parsed.type = "last"
              THEN out' = Append(out, Append(scratch, Parsed)) /\ fragmented' = FALSE /\ scratch' = <<>>
              ELSE scratch' = Append(scratch, Parsed) /\ UNCHANGED <<out, fragmented>>

ReadFragment ==
  /\ phase = "reading" /\ end - pos >= HeaderSize /\ IsHeader /\ Fits /\ Whole
  /\ pos' = pos + HeaderSize + Parsed.length
  /\ IF Parsed.type \in {"full", "first"} THEN Start ELSE Continue
  /\ UNCHANGED <<phase, file, writerVars, eof, end>>

-----------------------------------------------------------------------------
Init ==
  /\ phase = "writing" /\ file = <<>> /\ blockOffset = 0 /\ left = -1 /\ fragments = 0
  /\ extents = <<>> /\ failed = 0
  /\ pos = 0 /\ end = 0 /\ eof = FALSE /\ fragmented = FALSE /\ scratch = <<>> /\ out = <<>>
  /\ reported = FALSE

Next ==
  \/ \E size \in Sizes : AddRecord(size)
  \/ Emit \/ TrailerFails \/ EmitFails \/ Cut \/ DamageByte
  \/ Refill \/ ReadEnd \/ ReadTooLong \/ ReadNoHeader \/ ReadMismatch \/ ReadFragment

Spec == Init /\ [][Next]_vars

-----------------------------------------------------------------------------
(* Properties *)

\* Whatever was lost, damaged or misplaced, each record that is read is one that was
\* written, from its first fragment to its last, and none comes twice or before an
\* earlier one: two records are never spliced.
NeverSpliced ==
  /\ \A n \in DOMAIN out :
       /\ \A i \in DOMAIN out[n] : out[n][i].rec = out[n][1].rec /\ out[n][i].frag = i
       /\ out[n][1].type \in {"full", "first"} /\ out[n][Len(out[n])].type \in {"full", "last"}
  /\ \A m, n \in DOMAIN out : m < n => out[m][1].rec < out[n][1].rec

\* A record that is all there is read, whatever is wrong with other blocks: reading
\* goes on at the next block.
Blocks(from, to) == {(i - 1) \div BlockSize : i \in from + 1 .. to}
IntactIsRead ==
  phase = "read" /\ failed = 0 =>
    \A r \in DOMAIN extents :
      LET from == extents[r].from to == extents[r].to
      IN  to >= 0 /\ to <= Len(file)
            /\ Blocks(from, to) \cap {(i - 1) \div BlockSize : i \in Damaged} = {}
          => \E n \in DOMAIN out : out[n][1].rec = r

\* A writer that died is no corruption ("don't treat it as a corruption", "just report
\* EOF", log_reader.cc:138, 202, 223).
DeathIsSilent == failed = 0 /\ Damaged = {} => ~reported
=============================================================================
