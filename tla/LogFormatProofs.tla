--------------------------- MODULE LogFormatProofs ---------------------------
(***************************************************************************)
(* For every size of blocks, headers and records, and any number of them:  *)
(*   - whatever a crash, failed appends and the disk leave of a log, a     *)
(*     record that is read is one that was written, whole, once and in     *)
(*     order (IndInv);                                                     *)
(*   - if no append failed, a record that is all there is read, and a log  *)
(*     that was only cut short is read without a report (FormInv).         *)
(***************************************************************************)
EXTENDS LogFormat, SequenceTheorems, TLAPS

Types == {"full", "first", "middle", "last"}
PhysicalRecord ==
  {p \in [rec : Nat \ {0}, frag : Nat \ {0}, length : Nat, type : Types] :
     p.type \in {"full", "first"} <=> p.frag = 1}
Byte == {Zero, Damage} \cup [of : PhysicalRecord, at : Nat \ {0}]

\* The type of the writer's variables and of the file.
WriterType ==
  /\ phase \in {"writing", "reading", "read"}
  /\ file \in Seq(Byte) /\ extents \in Seq([from : Nat, to : Int])
  /\ blockOffset \in 0..BlockSize /\ left \in Nat \cup {-1} /\ fragments \in Nat

ReaderType ==
  /\ pos \in Nat /\ end \in Nat /\ pos <= end /\ end <= Len(file)
  /\ eof \in BOOLEAN /\ fragmented \in BOOLEAN
  /\ scratch \in Seq(PhysicalRecord)
  /\ out \in Seq(Seq(PhysicalRecord)) /\ \A n \in DOMAIN out : out[n] # <<>>

Rec(i) == file[i].of.rec
Frag(i) == file[i].of.frag

\* The first fragment of a record comes after everything of the records before.
FirstsAreNew ==
  \A i, j \in DOMAIN file : i < j /\ file[j].at = 1 /\ Frag(j) = 1 => Rec(i) < Rec(j)

\* As many bytes as a header before any other fragment are of the fragment before
\* it, or zeros, or damaged.
RestFollow ==
  \A i, j \in DOMAIN file :
    i < j /\ j - i <= HeaderSize /\ file[j].at = 1 /\ Frag(j) > 1 =>
      Rec(i) = 0 \/ (Rec(i) = Rec(j) /\ Frag(i) + 1 = Frag(j))

\* The writer goes on behind what it has written.
WriterIsBehind ==
  phase = "writing" =>
    /\ \A i \in DOMAIN file : Rec(i) <= Len(extents)
    /\ left >= 0 => extents # <<>>
    /\ left >= 0 /\ fragments = 0 => \A i \in DOMAIN file : Rec(i) < Len(extents)
    /\ left >= 0 /\ fragments > 0 =>
         \A i \in DOMAIN file : i + HeaderSize > Len(file) => Rec(i) = Len(extents) /\ Frag(i) = fragments
    /\ end = 0

\* What has been put together is a beginning of one record, and its last fragment
\* ends where the reader is, but for less than a header that was skipped.
ScratchIsBeginning ==
  /\ fragmented /\ phase = "reading" => scratch # <<>>
  /\ ~fragmented => scratch = <<>>
  /\ \A i \in DOMAIN scratch : scratch[i].rec = scratch[1].rec /\ scratch[i].frag = i
  /\ scratch # <<>> =>
       \E e \in 1..pos :
         /\ Rec(e) = scratch[1].rec /\ Frag(e) = Len(scratch)
         /\ e = pos \/ (pos - e < HeaderSize /\ (eof \/ end - pos >= HeaderSize))
  /\ \A n \in DOMAIN out : scratch # <<>> => out[n][1].rec < scratch[1].rec

\* What was read lies behind.
OutIsBehind ==
  /\ \A n \in DOMAIN out : \E e \in 1..pos : Rec(e) = out[n][1].rec
  /\ end = 0 => out = <<>> /\ scratch = <<>> /\ fragmented = FALSE

IndInv ==
  /\ WriterType /\ ReaderType /\ FirstsAreNew /\ RestFollow /\ WriterIsBehind
  /\ ScratchIsBeginning /\ OutIsBehind /\ NeverSpliced

-----------------------------------------------------------------------------
(* The bytes of a turn of AddRecord's loop *)

LEMMA Constants ==
  /\ BlockSize \in Nat \ {0} /\ HeaderSize \in Nat \ {0} /\ HeaderSize < BlockSize
BY SizesAssumption

LEMMA ElementOf ==
  ASSUME NEW S, NEW s \in Seq(S), NEW i \in 1..Len(s)
  PROVE  s[i] \in S
OBVIOUS

LEMMA ZeroAndDamage ==
  /\ Zero \in Byte /\ Damage \in Byte
  /\ Zero.of.rec = 0 /\ Damage.of.rec = 0 /\ Zero.at = 0 /\ Damage.at = 0
BY DEF Byte, Zero, Damage, Not

\* Any byte of a record has its place in the fragment.
LEMMA ByteOf ==
  ASSUME NEW b \in Byte, b.at = 1 \/ b.of.rec # 0
  PROVE  b.of \in PhysicalRecord /\ b.at \in Nat \ {0} /\ b = [of |-> b.of, at |-> b.at]
BY ZeroAndDamage DEF Byte

LEMMA FragmentType ==
  ASSUME WriterType, left >= 0, extents # <<>>
  PROVE  /\ Fragment \in PhysicalRecord /\ Fragment.rec = Len(extents)
         /\ Fragment.frag = fragments + 1
         /\ Trailer \in Seq(Byte) /\ Len(Trailer) < HeaderSize
         /\ \A i \in 1..Len(Trailer) : Trailer[i] = Zero
         /\ Offset + HeaderSize + Fragment.length \in 0..BlockSize
         /\ left - Fragment.length \in Nat
<1>1. /\ BlockSize \in Nat /\ HeaderSize \in Nat \ {0} /\ HeaderSize < BlockSize
      /\ blockOffset \in 0..BlockSize /\ left \in Nat /\ fragments \in Nat
  BY Constants DEF WriterType
<1>2. Len(extents) \in Nat \ {0}
  BY EmptySeq DEF WriterType
<1>3. Offset \in Nat /\ Offset + HeaderSize <= BlockSize /\ Leftover \in Nat
  BY <1>1 DEF Offset, Leftover
<1>4. Smaller(left, BlockSize - Offset - HeaderSize) \in 0..BlockSize - Offset - HeaderSize
  BY <1>1, <1>3 DEF Smaller
<1> DEFINE length == Smaller(left, BlockSize - Offset - HeaderSize)
<1>5. length \in Nat /\ left - length \in Nat
  BY <1>1, <1>3 DEF Smaller
<1> HIDE DEF length
<1>6. Fragment = [rec |-> Len(extents), frag |-> fragments + 1, length |-> length,
                  type |-> Type(fragments = 0, length = left)]
  BY DEF Fragment, length
<1>7. /\ Type(fragments = 0, length = left) \in Types
      /\ Type(fragments = 0, length = left) \in {"full", "first"} <=> fragments = 0
  BY DEF Type, Types
<1>8. fragments + 1 \in Nat \ {0} /\ (fragments = 0 <=> fragments + 1 = 1)
  BY <1>1
<1>9. Fragment \in PhysicalRecord
  BY <1>2, <1>5, <1>6, <1>7, <1>8 DEF PhysicalRecord
<1>10. Offset + HeaderSize + Fragment.length \in 0..BlockSize
  BY <1>1, <1>3, <1>4, <1>6 DEF length
<1>11. /\ Trailer \in Seq(Byte) /\ Len(Trailer) < HeaderSize
       /\ \A i \in 1..Len(Trailer) : Trailer[i] = Zero
  <2>1. CASE Leftover < HeaderSize
    <3>1. Trailer = [i \in 1..Leftover |-> Zero]
      BY <2>1 DEF Trailer
    <3>2. Trailer \in [1..Leftover -> Byte]
      BY <3>1, ZeroAndDamage
    <3> QED
      BY <1>3, <2>1, <3>1, <3>2
  <2>2. CASE ~(Leftover < HeaderSize)
    BY <1>1, <2>2 DEF Trailer
  <2> QED
    BY <2>1, <2>2
<1> QED
  BY <1>5, <1>6, <1>9, <1>10, <1>11

LEMMA BytesOf ==
  ASSUME NEW p \in PhysicalRecord
  PROVE  /\ HeaderSize + p.length \in Nat
         /\ Bytes(p) \in Seq(Byte) /\ Len(Bytes(p)) = HeaderSize + p.length
         /\ \A i \in 1..HeaderSize + p.length : Bytes(p)[i] = [of |-> p, at |-> i]
<1>1. HeaderSize + p.length \in Nat
  BY Constants DEF PhysicalRecord
<1>2. \A i \in 1..HeaderSize + p.length : [of |-> p, at |-> i] \in Byte
  BY DEF Byte
<1>3. Bytes(p) \in [1..HeaderSize + p.length -> Byte]
  BY <1>2 DEF Bytes
<1> QED
  BY <1>1, <1>3 DEF Bytes

LEMMA BeginningOf ==
  ASSUME NEW S, NEW s \in Seq(S), NEW n \in 0..Len(s)
  PROVE  /\ SubSeq(s, 1, n) \in Seq(S) /\ Len(SubSeq(s, 1, n)) = n
         /\ \A i \in 1..n : SubSeq(s, 1, n)[i] = s[i]
<1>1. Len(s) \in Nat /\ n \in Nat /\ \A i \in 1..n : s[i] \in S
  OBVIOUS
<1>2. /\ SubSeq(s, 1, n) \in Seq(S)
      /\ Len(SubSeq(s, 1, n)) = IF 1 <= n THEN n - 1 + 1 ELSE 0
      /\ \A i \in 1..n - 1 + 1 : SubSeq(s, 1, n)[i] = s[1 + i - 1]
  BY <1>1, SubSeqProperties
<1>3. n - 1 + 1 = n /\ \A i \in 1..n : 1 + i - 1 = i
  BY <1>1
<1> QED
  BY <1>1, <1>2, <1>3

\* The bytes of a turn: zeros, as many as the trailer's append has written, and a physical
\* record.
LEMMA TurnBytes ==
  ASSUME WriterType, left >= 0, extents # <<>>, NEW pad \in 0..Len(Trailer)
  PROVE  /\ Turn(pad) \in Seq(Byte) /\ pad \in Nat /\ pad < HeaderSize /\ Fragment.length \in Nat
         /\ Len(Turn(pad)) \in Nat /\ Len(Turn(pad)) = pad + HeaderSize + Fragment.length
         /\ \A i \in 1..pad : Turn(pad)[i] = Zero
         /\ \A i \in 1..Len(Turn(pad)) : i > pad => Turn(pad)[i] = [of |-> Fragment, at |-> i - pad]
<1> DEFINE zeros == SubSeq(Trailer, 1, pad)
<1>0. /\ Fragment \in PhysicalRecord /\ Trailer \in Seq(Byte) /\ Len(Trailer) < HeaderSize
      /\ \A i \in 1..Len(Trailer) : Trailer[i] = Zero
  BY FragmentType
<1>1. zeros \in Seq(Byte) /\ Len(zeros) = pad /\ \A i \in 1..pad : zeros[i] = Trailer[i]
  BY <1>0, BeginningOf
<1>2. /\ HeaderSize + Fragment.length \in Nat
      /\ Bytes(Fragment) \in Seq(Byte) /\ Len(Bytes(Fragment)) = HeaderSize + Fragment.length
      /\ \A i \in 1..HeaderSize + Fragment.length : Bytes(Fragment)[i] = [of |-> Fragment, at |-> i]
  BY <1>0, BytesOf
<1>3. /\ Len(Trailer) \in Nat /\ pad \in Nat /\ pad < HeaderSize
      /\ Fragment.length \in Nat /\ HeaderSize \in Nat
  BY <1>0, Constants DEF PhysicalRecord
<1> HIDE DEF zeros
<1>4. /\ Turn(pad) \in Seq(Byte) /\ Len(Turn(pad)) = pad + Len(Bytes(Fragment))
      /\ \A i \in 1..pad + Len(Bytes(Fragment)) : Turn(pad)[i] =
            IF i <= pad THEN zeros[i] ELSE Bytes(Fragment)[i - pad]
  BY <1>1, <1>2, ConcatProperties DEF Turn, zeros
<1> DEFINE turn == Turn(pad)
<1> HIDE DEF turn
<1>5. Len(turn) = pad + HeaderSize + Fragment.length /\ Len(turn) \in Nat
  BY <1>2, <1>3, <1>4 DEF turn
<1>6. ASSUME NEW i \in 1..pad PROVE turn[i] = Zero
  <2>1. i \in 1..pad + Len(Bytes(Fragment)) /\ i <= pad /\ i \in 1..Len(Trailer)
    BY <1>2, <1>3
  <2> QED
    BY <1>0, <1>1, <1>4, <2>1 DEF turn
<1>7. ASSUME NEW i \in 1..Len(turn), i > pad
      PROVE  turn[i] = [of |-> Fragment, at |-> i - pad]
  <2>1. i - pad \in 1..HeaderSize + Fragment.length
    BY <1>3, <1>5, <1>7
  <2>2. turn[i] = Bytes(Fragment)[i - pad]
    BY <1>2, <1>3, <1>4, <1>5, <1>7 DEF turn
  <2> QED
    BY <1>2, <2>1, <2>2
<1> QED
  BY <1>3, <1>4, <1>5, <1>6, <1>7 DEF turn

-----------------------------------------------------------------------------
(* Writing *)

\* Some of the bytes of a turn reach the file.
Reaches(pad, n) ==
  /\ n \in 0..Len(Turn(pad))
  /\ file' \in Seq(Byte) /\ Len(file') = Len(file) + n
  /\ \A i \in 1..Len(file) : file'[i] = file[i]
  /\ \A i \in Len(file) + 1 .. Len(file) + n : file'[i] = Turn(pad)[i - Len(file)]

LEMMA SomeReach ==
  ASSUME WriterType, left >= 0, extents # <<>>,
         NEW pad \in 0..Len(Trailer), NEW n \in 0..Len(Turn(pad)), file' = file \o SubSeq(Turn(pad), 1, n)
  PROVE  Reaches(pad, n)
<1> DEFINE turn == Turn(pad)
<1>1. turn \in Seq(Byte) /\ Len(turn) \in Nat /\ file \in Seq(Byte) /\ Len(file) \in Nat /\ n \in Nat
  BY TurnBytes DEF WriterType
<1> DEFINE new == SubSeq(turn, 1, n)
<1>3. new \in Seq(Byte) /\ Len(new) = n /\ \A i \in 1..n : new[i] = turn[i]
  BY <1>1, BeginningOf
<1> HIDE DEF new
<1>4. /\ file' \in Seq(Byte) /\ Len(file') = Len(file) + n
      /\ \A i \in 1..Len(file) + n : file'[i] = IF i <= Len(file) THEN file[i] ELSE new[i - Len(file)]
  BY <1>1, <1>3, ConcatProperties DEF new
<1>5. ASSUME NEW i \in Len(file) + 1 .. Len(file) + n PROVE file'[i] = turn[i - Len(file)]
  <2>1. i \in 1..Len(file) + n /\ ~(i <= Len(file)) /\ i - Len(file) \in 1..n
    BY <1>1
  <2> QED
    BY <1>3, <1>4, <2>1 DEF new
<1>6. ASSUME NEW i \in 1..Len(file) PROVE file'[i] = file[i]
  <2>1. i \in 1..Len(file) + n /\ i <= Len(file)
    BY <1>1
  <2> QED
    BY <1>4, <2>1
<1> QED
  BY <1>1, <1>4, <1>5, <1>6 DEF Reaches

LEMMA AllReach ==
  ASSUME WriterType, left >= 0, extents # <<>>, NEW pad \in 0..Len(Trailer), file' = file \o Turn(pad)
  PROVE  Reaches(pad, Len(Turn(pad)))
<1> DEFINE turn == Turn(pad)
<1>1. turn \in Seq(Byte) /\ Len(turn) \in Nat /\ file \in Seq(Byte)
  BY TurnBytes DEF WriterType
<1>2. SubSeq(turn, 1, Len(turn)) = turn
  BY <1>1, SubSeqFull
<1>3. Len(turn) \in 0..Len(turn) /\ file' = file \o SubSeq(turn, 1, Len(turn))
  BY <1>1, <1>2
<1> QED
  BY <1>3, SomeReach

\* What any byte of the file is then.
LEMMA ReachedBytes ==
  ASSUME WriterType, left >= 0, extents # <<>>, NEW pad \in 0..Len(Trailer), NEW n, Reaches(pad, n)
  PROVE  /\ Len(file) \in Nat /\ n \in Nat /\ Len(file') = Len(file) + n /\ file' \in Seq(Byte)
         /\ \A i \in 1..Len(file') :
              \/ i \in 1..Len(file) /\ file'[i] = file[i]
              \/ i > Len(file) /\ i <= Len(file) + pad /\ file'[i] = Zero
              \/ /\ i > Len(file) + pad
                 /\ file'[i] = [of |-> Fragment, at |-> i - Len(file) - pad]
<1> DEFINE turn == Turn(pad)
<1>1. /\ pad \in Nat /\ Len(turn) \in Nat
      /\ \A i \in 1..pad : turn[i] = Zero
      /\ \A i \in 1..Len(turn) : i > pad => turn[i] = [of |-> Fragment, at |-> i - pad]
  BY TurnBytes
<1>2. /\ Len(file) \in Nat /\ n \in Nat /\ Len(file') = Len(file) + n /\ file' \in Seq(Byte)
      /\ n <= Len(turn)
      /\ \A i \in 1..Len(file) : file'[i] = file[i]
      /\ \A i \in Len(file) + 1 .. Len(file) + n : file'[i] = turn[i - Len(file)]
  BY <1>1 DEF WriterType, Reaches
<1> HIDE DEF turn
<1>3. ASSUME NEW i \in 1..Len(file')
      PROVE  \/ i \in 1..Len(file) /\ file'[i] = file[i]
             \/ i > Len(file) /\ i <= Len(file) + pad /\ file'[i] = Zero
             \/ /\ i > Len(file) + pad
                /\ file'[i] = [of |-> Fragment, at |-> i - Len(file) - pad]
  <2>1. CASE i <= Len(file)
    BY <1>2, <2>1
  <2>2. CASE i > Len(file)
    <3>1. /\ i \in Len(file) + 1 .. Len(file) + n /\ i - Len(file) \in 1..Len(turn)
          /\ file'[i] = turn[i - Len(file)]
      BY <1>1, <1>2, <2>2
    <3>2. CASE i <= Len(file) + pad
      <4>1. i - Len(file) \in 1..pad
        BY <1>1, <1>2, <2>2, <3>2
      <4> QED
        BY <1>1, <2>2, <3>1, <3>2, <4>1
    <3>3. CASE ~(i <= Len(file) + pad)
      <4>1. i - Len(file) > pad /\ i > Len(file) + pad
        BY <1>1, <1>2, <3>3
      <4> QED
        BY <1>1, <3>1, <4>1
    <3> QED
      BY <3>2, <3>3
  <2> QED
    BY <1>2, <2>1, <2>2
<1> QED
  BY <1>2, <1>3

\* What is appended keeps the order of the file.
LEMMA ReachKeepsOrder ==
  ASSUME WriterType, FirstsAreNew, RestFollow, WriterIsBehind, phase = "writing",
         left >= 0, NEW pad \in 0..Len(Trailer), NEW n, Reaches(pad, n)
  PROVE  FirstsAreNew' /\ RestFollow' /\ \A i \in DOMAIN file' : Rec(i)' <= Len(extents)
<1>1. /\ extents # <<>> /\ Len(extents) \in Nat /\ fragments \in Nat /\ HeaderSize \in Nat \ {0}
      /\ fragments = 0 => \A i \in DOMAIN file : Rec(i) < Len(extents)
      /\ fragments > 0 =>
           \A i \in DOMAIN file : i + HeaderSize > Len(file) => Rec(i) = Len(extents) /\ Frag(i) = fragments
      /\ \A i \in DOMAIN file : Rec(i) <= Len(extents)
  BY Constants DEF WriterType, WriterIsBehind
<1>2. /\ Len(file) \in Nat /\ file \in Seq(Byte) /\ pad \in Nat /\ pad < HeaderSize
      /\ file' \in Seq(Byte) /\ Len(file') \in Nat
      /\ Fragment.rec = Len(extents) /\ Fragment.frag = fragments + 1
  <2>1. /\ pad \in Nat /\ pad < HeaderSize
        /\ Fragment.rec = Len(extents) /\ Fragment.frag = fragments + 1
    BY <1>1, TurnBytes, FragmentType
  <2>2. file \in Seq(Byte)
    BY DEF WriterType
  <2>3. file' \in Seq(Byte)
    BY DEF Reaches
  <2> QED
    BY <2>1, <2>2, <2>3, LenProperties
<1> DEFINE Old(i) == i \in 1..Len(file) /\ file'[i] = file[i]
           Padding(i) == i > Len(file) /\ i <= Len(file) + pad /\ file'[i] = Zero
           New(i) == /\ i > Len(file) + pad
                     /\ file'[i] = [of |-> Fragment, at |-> i - Len(file) - pad]
<1>3. \A i \in 1..Len(file') : Old(i) \/ Padding(i) \/ New(i)
  BY <1>1, ReachedBytes
<1>4. DOMAIN file' = 1..Len(file') /\ DOMAIN file = 1..Len(file)
  BY <1>2
<1>5. \A i : Old(i) => Rec(i)' = Rec(i) /\ Frag(i)' = Frag(i) /\ file'[i].at = file[i].at /\ i \in DOMAIN file
  BY <1>4 DEF Rec, Frag
<1>6. \A i : Padding(i) => Rec(i)' = 0 /\ file'[i].at = 0
  BY ZeroAndDamage DEF Rec
<1>7. \A i : New(i) =>
        /\ Rec(i)' = Len(extents) /\ Frag(i)' = fragments + 1
        /\ file'[i].at = i - Len(file) - pad
  BY <1>2 DEF Rec, Frag
<1>8. \A i \in DOMAIN file : Rec(i) \in Nat /\ Frag(i) \in Nat /\ file[i].at \in Nat
  BY <1>2, <1>4 DEF Rec, Frag, Byte, PhysicalRecord, Zero, Damage, Not
<1> HIDE DEF Old, Padding, New
<1>9. \A i \in DOMAIN file' : Rec(i)' <= Len(extents)
  BY <1>1, <1>3, <1>4, <1>5, <1>6, <1>7
<1>10. FirstsAreNew'
  <2> SUFFICES ASSUME NEW i \in DOMAIN file', NEW j \in DOMAIN file',
                      i < j, file'[j].at = 1, Frag(j)' = 1
               PROVE  Rec(i)' < Rec(j)'
    BY DEF FirstsAreNew
  <2>1. CASE Old(j)
    <3>1. j \in 1..Len(file) /\ i \in 1..Len(file)
      BY <1>2, <1>4, <2>1 DEF Old
    <3>2. Old(i)
      BY <1>2, <1>3, <1>4, <3>1 DEF Old, Padding, New
    <3> QED
      BY <1>5, <2>1, <3>2 DEF FirstsAreNew
  <2>2. CASE New(j)
    <3>1. fragments = 0 /\ Rec(j)' = Len(extents) /\ j = Len(file) + pad + 1
      <4>1. Rec(j)' = Len(extents) /\ fragments + 1 = 1 /\ j - Len(file) - pad = 1
        BY <1>7, <2>2
      <4>2. j \in Nat /\ Len(file) \in Nat /\ pad \in Nat /\ fragments \in Nat
        BY <1>1, <1>2, <1>4
      <4>3. j = Len(file) + pad + 1 /\ (fragments = 0 \/ fragments > 0)
        BY <4>1, <4>2
      <4> QED
        BY <4>1, <4>2, <4>3
    <3>2. Len(extents) > 0
      BY <1>1, EmptySeq DEF WriterType
    <3>3. ~New(i)
      BY <1>2, <1>4, <3>1 DEF New
    <3> QED
      BY <1>1, <1>3, <1>4, <1>5, <1>6, <3>1, <3>2, <3>3
  <2> QED
    BY <1>3, <1>4, <1>6, <2>1, <2>2
<1>11. RestFollow'
  <2> SUFFICES ASSUME NEW i \in DOMAIN file', NEW j \in DOMAIN file',
                      i < j, j - i <= HeaderSize, file'[j].at = 1, Frag(j)' > 1
               PROVE  Rec(i)' = 0 \/ (Rec(i)' = Rec(j)' /\ Frag(i)' + 1 = Frag(j)')
    BY DEF RestFollow
  <2>1. CASE Old(j)
    <3>1. j \in 1..Len(file) /\ i \in 1..Len(file)
      BY <1>2, <1>4, <2>1 DEF Old
    <3>2. Old(i)
      BY <1>2, <1>3, <1>4, <3>1 DEF Old, Padding, New
    <3> QED
      BY <1>5, <2>1, <3>2 DEF RestFollow
  <2>2. CASE New(j)
    <3>1. /\ fragments > 0 /\ Rec(j)' = Len(extents) /\ Frag(j)' = fragments + 1
          /\ j = Len(file) + pad + 1
      <4>1. /\ Rec(j)' = Len(extents) /\ Frag(j)' = fragments + 1 /\ fragments + 1 > 1
            /\ j - Len(file) - pad = 1
        BY <1>7, <2>2
      <4>2. j \in Nat /\ Len(file) \in Nat /\ pad \in Nat /\ fragments \in Nat
        BY <1>1, <1>2, <1>4
      <4>3. j = Len(file) + pad + 1 /\ (fragments = 0 \/ fragments > 0)
        BY <4>1, <4>2
      <4> QED
        BY <4>1, <4>2, <4>3
    <3>2. ~New(i)
      BY <1>2, <1>4, <3>1 DEF New
    <3>3. CASE Old(i)
      <4>1. i \in DOMAIN file /\ i + HeaderSize > Len(file)
        BY <1>1, <1>2, <1>4, <1>5, <3>1, <3>3
      <4>2. Rec(i) = Len(extents) /\ Frag(i) = fragments
        BY <1>1, <3>1, <4>1
      <4> QED
        BY <1>5, <3>1, <3>3, <4>2
    <3> QED
      BY <1>3, <1>4, <1>6, <3>2, <3>3
  <2> QED
    BY <1>3, <1>4, <1>6, <2>1, <2>2
<1> QED
  BY <1>9, <1>10, <1>11

LEMMA WholeTrailer ==
  ASSUME WriterType, left >= 0, extents # <<>>
  PROVE  Len(Trailer) \in Nat /\ Len(Trailer) \in 0..Len(Trailer)
<1>1. Trailer \in Seq(Byte)
  BY FragmentType
<1> QED
  BY <1>1

\* As long as nothing is read the reader's part is that of an empty reader.
LEMMA ReaderIdle ==
  ASSUME IndInv, end = 0, UNCHANGED readerVars, file' \in Seq(Byte)
  PROVE  ReaderType' /\ ScratchIsBeginning' /\ OutIsBehind' /\ NeverSpliced'
<1>1. /\ out = <<>> /\ scratch = <<>> /\ fragmented = FALSE /\ pos = 0 /\ pos \in Nat /\ eof \in BOOLEAN
  BY DEF IndInv, ReaderType, OutIsBehind
<1>2. /\ out' = <<>> /\ scratch' = <<>> /\ fragmented' = FALSE /\ pos' = 0 /\ end' = 0 /\ eof' \in BOOLEAN
  BY <1>1 DEF readerVars
<1>3. Len(file') \in Nat
  OBVIOUS
<1>4. DOMAIN out' = {} /\ DOMAIN scratch' = {}
  BY <1>2
<1>5. ReaderType'
  <2>1. <<>> \in Seq(Seq(PhysicalRecord)) /\ <<>> \in Seq(PhysicalRecord)
    OBVIOUS
  <2>2. out' \in Seq(Seq(PhysicalRecord)) /\ scratch' \in Seq(PhysicalRecord)
    BY <1>2, <2>1
  <2>3. pos' \in Nat /\ end' \in Nat /\ pos' <= end' /\ end' <= Len(file')
    BY <1>2, <1>3
  <2>4. fragmented' \in BOOLEAN /\ eof' \in BOOLEAN /\ \A n \in DOMAIN out' : out'[n] # <<>>
    BY <1>2, <1>4
  <2> QED
    BY <2>2, <2>3, <2>4 DEF ReaderType
<1>6. ScratchIsBeginning' /\ OutIsBehind'
  BY <1>2, <1>4 DEF ScratchIsBeginning, OutIsBehind
<1>7. NeverSpliced'
  BY <1>4 DEF NeverSpliced
<1> QED
  BY <1>5, <1>6, <1>7

LEMMA AddRecordInd ==
  ASSUME IndInv, NEW size \in Sizes, AddRecord(size)
  PROVE  IndInv'
<1>1. /\ phase = "writing" /\ left' = size /\ fragments' = 0
      /\ extents' = Append(extents, [from |-> Len(file), to |-> -1])
      /\ UNCHANGED <<phase, file, blockOffset, readerVars>>
  BY DEF AddRecord
<1>2. WriterType /\ WriterIsBehind /\ end = 0
  BY <1>1 DEF IndInv, WriterIsBehind
<1>3. file \in Seq(Byte) /\ Len(file) \in Nat /\ extents \in Seq([from : Nat, to : Int])
  BY <1>2 DEF WriterType
<1>4. [from |-> Len(file), to |-> -1] \in [from : Nat, to : Int]
  BY <1>3
<1>5. /\ extents' \in Seq([from : Nat, to : Int]) /\ extents' # <<>>
      /\ Len(extents') = Len(extents) + 1 /\ Len(extents) \in Nat
  BY <1>1, <1>3, <1>4, AppendProperties
<1>6. WriterType'
  BY <1>1, <1>2, <1>5, SizesAssumption DEF WriterType
<1>7. \A i \in DOMAIN file : Rec(i) <= Len(extents) /\ Rec(i) \in Nat
  BY <1>1, <1>2, <1>3 DEF WriterIsBehind, Rec, Byte, PhysicalRecord, Zero, Damage, Not
<1>8. readerVars' = readerVars /\ end' = 0
  BY <1>1, <1>2 DEF readerVars
<1>9. \A i \in DOMAIN file' : Rec(i)' <= Len(extents') /\ Rec(i)' < Len(extents')
  BY <1>1, <1>5, <1>7 DEF Rec
<1>10. fragments' = 0
  BY <1>1
<1>11. WriterIsBehind'
  BY <1>5, <1>8, <1>9, <1>10 DEF WriterIsBehind
<1>12. FirstsAreNew' /\ RestFollow'
  BY <1>1 DEF IndInv, FirstsAreNew, RestFollow, Rec, Frag
<1>13. ReaderType' /\ ScratchIsBeginning' /\ OutIsBehind' /\ NeverSpliced'
  BY <1>1, <1>2, <1>3, ReaderIdle
<1> QED
  BY <1>6, <1>11, <1>12, <1>13 DEF IndInv

LEMMA EmitsInd ==
  ASSUME IndInv, NEW pad \in 0..Len(Trailer), Emits(pad)
  PROVE  IndInv'
<1>1. /\ phase = "writing" /\ left >= 0 /\ file' = file \o Turn(pad)
      /\ blockOffset' = Offset + HeaderSize + Fragment.length
      /\ fragments' = fragments + 1 /\ phase' = phase /\ UNCHANGED readerVars
      /\ \/ left' = -1 /\ extents' = [extents EXCEPT ![Len(extents)].to = Len(file')]
         \/ left' = left - Fragment.length /\ UNCHANGED extents
  BY DEF Emits
<1>2. /\ WriterType /\ FirstsAreNew /\ RestFollow /\ WriterIsBehind /\ end = 0 /\ extents # <<>>
  BY <1>1 DEF IndInv, WriterIsBehind
<1>3. Reaches(pad, Len(Turn(pad)))
  BY <1>1, <1>2, AllReach
<1>4. FirstsAreNew' /\ RestFollow' /\ \A i \in DOMAIN file' : Rec(i)' <= Len(extents)
  BY <1>1, <1>2, <1>3, ReachKeepsOrder
<1>5. /\ Fragment.rec = Len(extents) /\ Fragment.frag = fragments + 1
      /\ Offset + HeaderSize + Fragment.length \in 0..BlockSize /\ left - Fragment.length \in Nat
  BY <1>1, <1>2, FragmentType
<1>6. extents \in Seq([from : Nat, to : Int]) /\ Len(extents) \in Nat \ {0} /\ fragments \in Nat
  BY <1>2, EmptySeq DEF WriterType
<1>7. file' \in Seq(Byte) /\ Len(file') \in Nat
  BY <1>3 DEF Reaches
<1>8. extents' \in Seq([from : Nat, to : Int]) /\ Len(extents') = Len(extents) /\ left' \in Nat \cup {-1}
  <2>1. CASE left' = -1 /\ extents' = [extents EXCEPT ![Len(extents)].to = Len(file')]
    <3>1. extents' = [extents EXCEPT ![Len(extents)] = [extents[Len(extents)] EXCEPT !.to = Len(file')]]
      BY <2>1
    <3>2. extents[Len(extents)] \in [from : Nat, to : Int]
      <4>1. Len(extents) \in 1..Len(extents)
        BY <1>6
      <4> QED
        BY <1>6, <4>1, ElementOf
    <3>3. [extents[Len(extents)] EXCEPT !.to = Len(file')] \in [from : Nat, to : Int]
      BY <1>7, <3>2
    <3> QED
      BY <1>6, <2>1, <3>1, <3>3
  <2>2. CASE left' = left - Fragment.length /\ UNCHANGED extents
    BY <1>5, <1>6, <2>2
  <2> QED
    BY <1>1, <2>1, <2>2
<1>9. WriterType'
  <2>1. blockOffset' \in 0..BlockSize /\ fragments' \in Nat
    BY <1>1, <1>5, <1>6
  <2> QED
    BY <1>1, <1>7, <1>8, <2>1 DEF WriterType
<1>10. \A i \in DOMAIN file' : i + HeaderSize > Len(file') => Rec(i)' = Len(extents) /\ Frag(i)' = fragments + 1
  <2> SUFFICES ASSUME NEW i \in DOMAIN file', i + HeaderSize > Len(file')
               PROVE  Rec(i)' = Len(extents) /\ Frag(i)' = fragments + 1
    OBVIOUS
  <2>1. /\ Len(Turn(pad)) = pad + HeaderSize + Fragment.length /\ pad \in Nat
        /\ Fragment.length \in Nat /\ HeaderSize \in Nat
    BY <1>1, <1>2, TurnBytes, Constants
  <2>2. /\ Len(file) \in Nat /\ Len(file') = Len(file) + Len(Turn(pad)) /\ i \in 1..Len(file')
    BY <1>1, <1>2, <1>3, <1>7, ReachedBytes
  <2>3. i > Len(file) + pad
    BY <2>1, <2>2
  <2>4. file'[i] = [of |-> Fragment, at |-> i - Len(file) - pad]
    <3>1. \/ i \in 1..Len(file) /\ file'[i] = file[i]
          \/ i > Len(file) /\ i <= Len(file) + pad /\ file'[i] = Zero
          \/ /\ i > Len(file) + pad
             /\ file'[i] = [of |-> Fragment, at |-> i - Len(file) - pad]
      BY <1>1, <1>2, <1>3, <2>2, ReachedBytes
    <3> QED
      BY <2>1, <2>2, <2>3, <3>1
  <2> QED
    BY <1>5, <2>4 DEF Rec, Frag
<1>11. WriterIsBehind'
  <2>1. fragments' # 0 /\ end' = 0 /\ extents' # <<>>
    BY <1>1, <1>2, <1>6, <1>8, EmptySeq DEF readerVars
  <2> QED
    BY <1>1, <1>4, <1>8, <1>10, <2>1 DEF WriterIsBehind
<1>12. ReaderType' /\ ScratchIsBeginning' /\ OutIsBehind' /\ NeverSpliced'
  BY <1>1, <1>2, <1>7, ReaderIdle
<1> QED
  BY <1>4, <1>9, <1>11, <1>12 DEF IndInv

LEMMA EmitInd == ASSUME IndInv, Emit PROVE IndInv'
<1>1. Len(Trailer) \in 0..Len(Trailer)
  BY WholeTrailer DEF Emit, Emits, IndInv, WriterIsBehind
<1> QED
  BY <1>1, EmitsInd DEF Emit

LEMMA TrailerFailsInd == ASSUME IndInv, TrailerFails PROVE IndInv'
<1>1. PICK pad \in 0..Len(Trailer) - 1 : Emits(pad)
  BY DEF TrailerFails
<1>2. pad \in 0..Len(Trailer)
  BY <1>1, WholeTrailer DEF Emits, IndInv, WriterIsBehind
<1> QED
  BY <1>1, <1>2, EmitsInd

LEMMA EmitFailsInd == ASSUME IndInv, EmitFails PROVE IndInv'
<1>1. /\ phase = "writing" /\ left >= 0
      /\ blockOffset' = Offset + HeaderSize + Fragment.length
      /\ left' = -1 /\ UNCHANGED <<phase, fragments, extents, readerVars>>
  BY DEF EmitFails
<1>2. /\ WriterType /\ FirstsAreNew /\ RestFollow /\ WriterIsBehind /\ end = 0 /\ extents # <<>>
  BY <1>1 DEF IndInv, WriterIsBehind
<1>3. PICK pad \in 0..Len(Trailer) : \E n \in pad..Len(Turn(pad)) - 1 : file' = file \o SubSeq(Turn(pad), 1, n)
  BY DEF EmitFails
<1>4. PICK n \in pad..Len(Turn(pad)) - 1 : file' = file \o SubSeq(Turn(pad), 1, n)
  BY <1>3
<1>5. n \in 0..Len(Turn(pad))
  BY <1>1, <1>2, TurnBytes
<1>6. Reaches(pad, n)
  BY <1>1, <1>2, <1>4, <1>5, SomeReach
<1>7. FirstsAreNew' /\ RestFollow' /\ \A i \in DOMAIN file' : Rec(i)' <= Len(extents)
  BY <1>1, <1>2, <1>6, ReachKeepsOrder
<1>8. file' \in Seq(Byte)
  BY <1>6 DEF Reaches
<1>9. Offset + HeaderSize + Fragment.length \in 0..BlockSize
  BY <1>1, <1>2, FragmentType
<1>10. WriterType'
  BY <1>1, <1>2, <1>8, <1>9 DEF WriterType
<1>11. WriterIsBehind'
  BY <1>1, <1>2, <1>7 DEF WriterIsBehind, readerVars
<1>12. ReaderType' /\ ScratchIsBeginning' /\ OutIsBehind' /\ NeverSpliced'
  BY <1>1, <1>2, <1>8, ReaderIdle
<1> QED
  BY <1>7, <1>10, <1>11, <1>12 DEF IndInv

-----------------------------------------------------------------------------
(* What happens to the file *)

LEMMA CutInd == ASSUME IndInv, Cut PROVE IndInv'
<1>1. /\ phase = "writing" /\ phase' = "reading" /\ UNCHANGED <<writerVars, readerVars>>
  BY DEF Cut
<1>2. WriterType /\ FirstsAreNew /\ RestFollow /\ end = 0
  BY <1>1 DEF IndInv, WriterIsBehind
<1>3. PICK n \in 0..Len(file) : file' = SubSeq(file, 1, n)
  BY DEF Cut
<1>4. file \in Seq(Byte) /\ Len(file) \in Nat /\ n \in Nat
  BY <1>2 DEF WriterType
<1>5. \A i \in 1..n : file[i] \in Byte
  BY <1>4
<1>6. /\ file' \in Seq(Byte) /\ DOMAIN file' \subseteq DOMAIN file
      /\ \A i \in DOMAIN file' : file'[i] = file[i]
  <2>1. /\ file' \in Seq(Byte) /\ Len(file') = IF 1 <= n THEN n - 1 + 1 ELSE 0
        /\ \A i \in 1..n - 1 + 1 : file'[i] = file[1 + i - 1]
    BY <1>3, <1>4, <1>5, SubSeqProperties
  <2>2. DOMAIN file' = 1..n /\ n - 1 + 1 = n /\ \A i \in 1..n : 1 + i - 1 = i
    BY <1>4, <2>1
  <2>3. \A i \in 1..n : file'[i] = file[i]
    BY <2>1, <2>2
  <2>4. 1..n \subseteq DOMAIN file
    BY <1>4
  <2> QED
    BY <2>1, <2>2, <2>3, <2>4
<1>7. FirstsAreNew' /\ RestFollow'
  BY <1>2, <1>6 DEF FirstsAreNew, RestFollow, Rec, Frag
<1>8. WriterType' /\ WriterIsBehind'
  BY <1>1, <1>2, <1>6 DEF WriterType, WriterIsBehind, writerVars
<1>9. ReaderType' /\ ScratchIsBeginning' /\ OutIsBehind' /\ NeverSpliced'
  BY <1>1, <1>2, <1>6, ReaderIdle
<1> QED
  BY <1>7, <1>8, <1>9 DEF IndInv

LEMMA DamageInd == ASSUME IndInv, DamageByte PROVE IndInv'
<1>1. phase = "reading" /\ end = 0 /\ UNCHANGED <<phase, writerVars, readerVars>>
  BY DEF DamageByte
<1>2. WriterType /\ FirstsAreNew /\ RestFollow
  BY DEF IndInv
<1>3. PICK k \in DOMAIN file : file' = [file EXCEPT ![k] = Damage]
  BY DEF DamageByte
<1>4. /\ file' \in Seq(Byte) /\ DOMAIN file' = DOMAIN file
      /\ \A i \in DOMAIN file : file'[i] = file[i] \/ file'[i] = Damage
  BY <1>2, <1>3, ZeroAndDamage DEF WriterType
<1>5. \A i \in DOMAIN file : Rec(i) \in Nat
  BY <1>2 DEF WriterType, Rec, Byte, PhysicalRecord, Zero, Damage, Not
<1>6. \A i \in DOMAIN file : file'[i] = Damage => Rec(i)' = 0 /\ file'[i].at = 0
  BY ZeroAndDamage DEF Rec
<1>7. \A i \in DOMAIN file :
        file'[i] = file[i] => Rec(i)' = Rec(i) /\ Frag(i)' = Frag(i) /\ file'[i].at = file[i].at
  BY DEF Rec, Frag
<1>8. FirstsAreNew'
  <2> SUFFICES ASSUME NEW i \in DOMAIN file', NEW j \in DOMAIN file',
                      i < j, file'[j].at = 1, Frag(j)' = 1
               PROVE  Rec(i)' < Rec(j)'
    BY DEF FirstsAreNew
  <2>1. Rec(j)' = Rec(j) /\ Rec(i) < Rec(j) /\ Rec(i) \in Nat /\ Rec(j) \in Nat
    BY <1>2, <1>4, <1>5, <1>6, <1>7 DEF FirstsAreNew
  <2> QED
    BY <1>4, <1>6, <1>7, <2>1
<1>9. RestFollow'
  <2> SUFFICES ASSUME NEW i \in DOMAIN file', NEW j \in DOMAIN file',
                      i < j, j - i <= HeaderSize, file'[j].at = 1, Frag(j)' > 1
               PROVE  Rec(i)' = 0 \/ (Rec(i)' = Rec(j)' /\ Frag(i)' + 1 = Frag(j)')
    BY DEF RestFollow
  <2>1. /\ Rec(j)' = Rec(j) /\ Frag(j)' = Frag(j)
        /\ Rec(i) = 0 \/ (Rec(i) = Rec(j) /\ Frag(i) + 1 = Frag(j))
    BY <1>2, <1>4, <1>6, <1>7 DEF RestFollow
  <2> QED
    BY <1>4, <1>6, <1>7, <2>1
<1>10. WriterType' /\ WriterIsBehind'
  BY <1>1, <1>2, <1>4 DEF WriterType, WriterIsBehind, writerVars
<1>11. ReaderType' /\ ScratchIsBeginning' /\ OutIsBehind' /\ NeverSpliced'
  BY <1>1, <1>4, ReaderIdle
<1> QED
  BY <1>8, <1>9, <1>10, <1>11 DEF IndInv

-----------------------------------------------------------------------------
(* Reading *)

LEMMA ReadingKeepsFile ==
  ASSUME IndInv, phase' \in {"reading", "read"}, UNCHANGED <<file, writerVars>>
  PROVE  WriterType' /\ FirstsAreNew' /\ RestFollow' /\ WriterIsBehind'
BY DEF IndInv, WriterType, FirstsAreNew, RestFollow, WriterIsBehind, Rec, Frag, writerVars

LEMMA RefillInd == ASSUME IndInv, Refill PROVE IndInv'
<1>1. /\ phase = "reading" /\ phase' = phase /\ end - pos < HeaderSize /\ eof = FALSE
      /\ pos' = end /\ end' = Smaller(end + BlockSize, Len(file))
      /\ eof' = (end' - end < BlockSize)
      /\ UNCHANGED <<file, writerVars, fragmented, scratch, out>>
  BY DEF Refill, IndInv, ReaderType
<1>2. /\ pos \in Nat /\ end \in Nat /\ pos <= end /\ end <= Len(file) /\ Len(file) \in Nat
      /\ BlockSize \in Nat /\ HeaderSize \in Nat /\ HeaderSize < BlockSize
  BY Constants DEF IndInv, ReaderType, WriterType
<1>3. end' \in Nat /\ end <= end' /\ end' <= Len(file)
  BY <1>1, <1>2 DEF Smaller
<1>4. ReaderType'
  BY <1>1, <1>2, <1>3 DEF IndInv, ReaderType
<1>5. WriterType' /\ FirstsAreNew' /\ RestFollow' /\ WriterIsBehind'
  BY <1>1, ReadingKeepsFile
<1>6. ScratchIsBeginning'
  <2>1. ASSUME scratch # <<>>
        PROVE  \E e \in 1..pos' :
                 /\ Rec(e)' = scratch[1].rec /\ Frag(e)' = Len(scratch)
                 /\ e = pos' \/ (pos' - e < HeaderSize /\ (eof' \/ end' - pos' >= HeaderSize))
    <3>1. PICK e \in 1..pos :
            /\ Rec(e) = scratch[1].rec /\ Frag(e) = Len(scratch)
            /\ e = pos \/ (pos - e < HeaderSize /\ (eof \/ end - pos >= HeaderSize))
      BY <2>1 DEF IndInv, ScratchIsBeginning
    <3>2. e = pos /\ e \in 1..pos'
      BY <1>1, <1>2, <3>1
    <3>3. pos' - e < HeaderSize
      BY <1>1, <1>2, <1>3, <3>2
    <3>4. eof' \/ ~(end' - end < BlockSize)
      BY <1>1
    <3>5. ~(end' - end < BlockSize) => end' - pos' >= HeaderSize
      BY <1>1, <1>2, <1>3
    <3> QED
      BY <1>1, <3>1, <3>2, <3>3, <3>4, <3>5 DEF Rec, Frag
  <2> QED
    BY <1>1, <2>1 DEF IndInv, ScratchIsBeginning
<1>7. OutIsBehind'
  <2>1. 1..pos \subseteq 1..pos' /\ (end' = 0 => end = 0)
    BY <1>1, <1>2, <1>3
  <2> QED
    BY <1>1, <2>1 DEF IndInv, OutIsBehind, Rec
<1>8. NeverSpliced'
  BY <1>1 DEF IndInv, NeverSpliced
<1> QED
  BY <1>4, <1>5, <1>6, <1>7, <1>8 DEF IndInv

\* What was put together is given up.
LEMMA GivenUp ==
  ASSUME IndInv, UNCHANGED <<file, writerVars, end, out, eof>>, scratch' = <<>>,
         phase' \in {"reading", "read"}, pos' \in Nat, pos <= pos', pos' <= end,
         \/ phase' = "read" /\ fragmented' = fragmented
         \/ fragmented' = FALSE
  PROVE  IndInv'
<1>1. WriterType' /\ FirstsAreNew' /\ RestFollow' /\ WriterIsBehind'
  BY ReadingKeepsFile
<1>2. ReaderType'
  <2>1. <<>> \in Seq(PhysicalRecord)
    OBVIOUS
  <2>2. fragmented' \in BOOLEAN
    BY DEF IndInv, ReaderType
  <2> QED
    BY <2>1, <2>2 DEF IndInv, ReaderType
<1>3. ScratchIsBeginning'
  <2>1. DOMAIN scratch' = {}
    OBVIOUS
  <2> QED
    BY <2>1 DEF ScratchIsBeginning
<1>4. OutIsBehind'
  <2>1. 1..pos \subseteq 1..pos'
    BY DEF IndInv, ReaderType
  <2> QED
    BY <2>1 DEF IndInv, OutIsBehind, Rec
<1>5. NeverSpliced'
  BY DEF IndInv, NeverSpliced
<1> QED
  BY <1>1, <1>2, <1>3, <1>4, <1>5 DEF IndInv

LEMMA EndsInd ==
  ASSUME IndInv, Ends, UNCHANGED <<file, writerVars>>
  PROVE  IndInv'
<1>1. pos \in Nat /\ pos <= end
  BY DEF IndInv, ReaderType
<1>2. /\ phase' = "read" /\ scratch' = <<>> /\ UNCHANGED <<pos, eof, end, fragmented, out>>
  BY DEF Ends
<1> QED
  BY <1>1, <1>2, GivenUp

LEMMA BadInd ==
  ASSUME IndInv, phase = "reading", NEW corrupt, Bad(corrupt), UNCHANGED <<file, writerVars>>
  PROVE  IndInv'
<1>1. end \in Nat /\ pos <= end /\ end <= end
  BY DEF IndInv, ReaderType
<1>2. /\ pos' = end /\ fragmented' = FALSE /\ scratch' = <<>> /\ UNCHANGED <<phase, eof, end, out>>
  BY DEF Bad
<1> QED
  BY <1>1, <1>2, GivenUp

\* What a whole physical record in front of the reader says of the file.
LEMMA Ahead ==
  ASSUME IndInv, ReadFragment
  PROVE  /\ Parsed \in PhysicalRecord /\ file[pos + 1].at = 1 /\ pos + 1 \in DOMAIN file
         /\ pos' = pos + HeaderSize + Parsed.length /\ pos' \in Nat /\ pos' \in DOMAIN file
         /\ pos + 1 <= pos' /\ pos' <= end
         /\ Rec(pos') = Parsed.rec /\ Frag(pos') = Parsed.frag
         /\ Rec(pos + 1) = Parsed.rec /\ Frag(pos + 1) = Parsed.frag
<1>1. /\ end - pos >= HeaderSize /\ Parsed.rec # 0 /\ HeaderSize + Parsed.length <= end - pos
      /\ SubSeq(file, pos + 1, pos + HeaderSize + Parsed.length) = Bytes(Parsed)
      /\ pos' = pos + HeaderSize + Parsed.length
  BY DEF ReadFragment, IsHeader, Fits, Whole
<1>2. /\ pos \in Nat /\ end \in Nat /\ end <= Len(file) /\ HeaderSize \in Nat \ {0}
      /\ file \in Seq(Byte) /\ Len(file) \in Nat
  BY Constants DEF IndInv, ReaderType, WriterType
<1>3. pos + 1 \in DOMAIN file
  BY <1>1, <1>2
<1>4. file[pos + 1] \in Byte
  BY <1>2, <1>3
<1>5. Parsed \in PhysicalRecord
  BY <1>1, <1>4, ByteOf DEF Parsed
<1>6. /\ HeaderSize + Parsed.length \in Nat
      /\ \A i \in 1..HeaderSize + Parsed.length : Bytes(Parsed)[i] = [of |-> Parsed, at |-> i]
  BY <1>5, BytesOf
<1>7. Parsed.length \in Nat
  BY <1>5 DEF PhysicalRecord
<1> DEFINE n == HeaderSize + Parsed.length
<1>8. /\ n \in Nat \ {0} /\ n <= end - pos /\ pos' = pos + n
  BY <1>1, <1>2, <1>7
<1>9. SubSeq(file, pos + 1, pos + HeaderSize + Parsed.length) = SubSeq(file, pos + 1, pos + n)
  <2>1. pos + HeaderSize + Parsed.length = pos + (HeaderSize + Parsed.length)
    BY <1>2, <1>7
  <2> QED
    BY <2>1
<1>10. SubSeq(file, pos + 1, pos + n) = Bytes(Parsed) /\ \A i \in 1..n : Bytes(Parsed)[i] = [of |-> Parsed, at |-> i]
  BY <1>1, <1>6, <1>9
<1> HIDE DEF n
<1>11. /\ pos' \in Nat /\ pos' \in DOMAIN file /\ pos + 1 <= pos' /\ pos' <= end
  BY <1>2, <1>8
<1>12. \A i \in 1..n : SubSeq(file, pos + 1, pos + n)[i] = file[pos + i]
  <2>1. pos + 1 \in Int /\ pos + n \in Int /\ \A i \in pos + 1 .. pos + n : file[i] \in Byte
    BY <1>2, <1>8
  <2>2. \A i \in 1 .. (pos + n) - (pos + 1) + 1 : SubSeq(file, pos + 1, pos + n)[i] = file[(pos + 1) + i - 1]
    BY <2>1, SubSeqProperties
  <2>3. (pos + n) - (pos + 1) + 1 = n /\ \A i \in 1..n : (pos + 1) + i - 1 = pos + i
    BY <1>2, <1>8
  <2> QED
    BY <2>2, <2>3
<1>13. \A i \in 1..n : file[pos + i] = [of |-> Parsed, at |-> i]
  BY <1>10, <1>12
<1>14. file[pos + 1] = [of |-> Parsed, at |-> 1] /\ file[pos'] = [of |-> Parsed, at |-> n]
  <2>1. 1 \in 1..n /\ n \in 1..n
    BY <1>8
  <2> QED
    BY <1>8, <1>13, <2>1
<1> QED
  BY <1>1, <1>3, <1>5, <1>14, <1>11 DEF Rec, Frag

\* A fragment that begins a record is of a later record than all that was read.
LEMMA BeginsLater ==
  ASSUME IndInv, ReadFragment, Parsed.frag = 1
  PROVE  \A n \in DOMAIN out : out[n][1].rec < Parsed.rec
<1> SUFFICES ASSUME NEW n \in DOMAIN out PROVE out[n][1].rec < Parsed.rec
  OBVIOUS
<1>1. PICK e \in 1..pos : Rec(e) = out[n][1].rec
  BY DEF IndInv, OutIsBehind
<1>2. /\ file[pos + 1].at = 1 /\ pos + 1 \in DOMAIN file
      /\ Rec(pos + 1) = Parsed.rec /\ Frag(pos + 1) = Parsed.frag
  BY Ahead
<1>3. e \in DOMAIN file /\ e < pos + 1
  BY <1>1 DEF IndInv, ReaderType, WriterType
<1> QED
  BY <1>1, <1>2, <1>3 DEF IndInv, FirstsAreNew

\* Any other fragment continues what has been put together.
LEMMA ContinuesScratch ==
  ASSUME IndInv, ReadFragment, Parsed.frag # 1, scratch # <<>>
  PROVE  Parsed.rec = scratch[1].rec /\ Parsed.frag = Len(scratch) + 1
<1>1. PICK e \in 1..pos :
        /\ Rec(e) = scratch[1].rec /\ Frag(e) = Len(scratch)
        /\ e = pos \/ pos - e < HeaderSize
  BY DEF IndInv, ScratchIsBeginning
<1>2. /\ file[pos + 1].at = 1 /\ pos + 1 \in DOMAIN file /\ Parsed \in PhysicalRecord
      /\ Rec(pos + 1) = Parsed.rec /\ Frag(pos + 1) = Parsed.frag
  BY Ahead
<1>3. pos \in Nat /\ HeaderSize \in Nat \ {0} /\ e \in Nat
  BY <1>1, Constants DEF IndInv, ReaderType
<1>4. e \in DOMAIN file /\ e < pos + 1 /\ (pos + 1) - e <= HeaderSize
  <2>1. e \in DOMAIN file
    BY <1>1 DEF IndInv, ReaderType, WriterType
  <2>2. e <= pos
    BY <1>1, <1>3
  <2> QED
    BY <1>1, <1>3, <2>1, <2>2
<1>5. Frag(pos + 1) > 1
  <2>1. Parsed.frag \in Nat \ {0}
    BY <1>2 DEF PhysicalRecord
  <2> QED
    BY <1>2, <2>1
<1>6. Rec(e) = 0 \/ (Rec(e) = Rec(pos + 1) /\ Frag(e) + 1 = Frag(pos + 1))
  BY <1>2, <1>4, <1>5 DEF IndInv, RestFollow
<1>7. scratch[1].rec # 0
  <2>1. scratch \in Seq(PhysicalRecord) /\ 1 \in 1..Len(scratch)
    BY EmptySeq DEF IndInv, ReaderType
  <2>2. scratch[1] \in PhysicalRecord
    BY <2>1, ElementOf
  <2> QED
    BY <2>2 DEF PhysicalRecord
<1> QED
  BY <1>1, <1>2, <1>6, <1>7

\* One more record is read: it is one that was written, after all others.
LEMMA OutMore ==
  ASSUME IndInv, NEW record \in Seq(PhysicalRecord), record # <<>>,
         out' = Append(out, record),
         \A i \in DOMAIN record : record[i].rec = record[1].rec /\ record[i].frag = i,
         record[1].type \in {"full", "first"}, record[Len(record)].type \in {"full", "last"},
         \A n \in DOMAIN out : out[n][1].rec < record[1].rec
  PROVE  /\ NeverSpliced' /\ out' \in Seq(Seq(PhysicalRecord))
         /\ \A n \in DOMAIN out' : (n \in DOMAIN out /\ out'[n] = out[n]) \/ out'[n] = record
<1>1. out \in Seq(Seq(PhysicalRecord)) /\ Len(out) \in Nat
  BY DEF IndInv, ReaderType
<1>2. /\ out' \in Seq(Seq(PhysicalRecord)) /\ Len(out') = Len(out) + 1
      /\ \A i \in 1..Len(out) : out'[i] = out[i]
      /\ out'[Len(out) + 1] = record
  BY <1>1, AppendProperties
<1>3. DOMAIN out' = 1..Len(out) + 1 /\ DOMAIN out = 1..Len(out)
  BY <1>1, <1>2
<1>4. \A n \in DOMAIN out' : n = Len(out) + 1 \/ n \in DOMAIN out
  BY <1>1, <1>3
<1>5. \A n \in DOMAIN out' :
        /\ \A i \in DOMAIN out'[n] : out'[n][i].rec = out'[n][1].rec /\ out'[n][i].frag = i
        /\ out'[n][1].type \in {"full", "first"} /\ out'[n][Len(out'[n])].type \in {"full", "last"}
  <2> SUFFICES ASSUME NEW n \in DOMAIN out'
               PROVE  /\ \A i \in DOMAIN out'[n] : out'[n][i].rec = out'[n][1].rec /\ out'[n][i].frag = i
                      /\ out'[n][1].type \in {"full", "first"} /\ out'[n][Len(out'[n])].type \in {"full", "last"}
    OBVIOUS
  <2>1. CASE n = Len(out) + 1
    <3>1. out'[n] = record
      BY <1>2, <2>1
    <3> QED
      BY <3>1
  <2>2. CASE n \in DOMAIN out
    <3>1. out'[n] = out[n]
      BY <1>2, <1>3, <2>2
    <3> QED
      BY <2>2, <3>1 DEF IndInv, NeverSpliced
  <2> QED
    BY <1>4, <2>1, <2>2
<1>6. ASSUME NEW m \in DOMAIN out', NEW n \in DOMAIN out', m < n
      PROVE  out'[m][1].rec < out'[n][1].rec
  <2>1. m \in DOMAIN out /\ out'[m] = out[m]
    BY <1>1, <1>2, <1>3, <1>6
  <2>2. CASE n = Len(out) + 1
    BY <1>2, <2>1, <2>2
  <2>3. CASE n \in DOMAIN out
    <3>1. out'[n] = out[n]
      BY <1>2, <1>3, <2>3
    <3> QED
      BY <1>6, <2>1, <2>3, <3>1 DEF IndInv, NeverSpliced
  <2> QED
    BY <1>4, <2>2, <2>3
<1> QED
  BY <1>2, <1>3, <1>4, <1>5, <1>6 DEF NeverSpliced

\* The reader's part after a whole fragment: what is put together, and out.
LEMMA ReadFragmentInd == ASSUME IndInv, ReadFragment PROVE IndInv'
<1>1. /\ Parsed \in PhysicalRecord
      /\ pos' \in Nat /\ pos' \in DOMAIN file /\ pos + 1 <= pos' /\ pos' <= end
      /\ Rec(pos') = Parsed.rec /\ Frag(pos') = Parsed.frag
  BY Ahead
<1>2. /\ phase = "reading" /\ UNCHANGED <<phase, file, writerVars, eof, end>>
      /\ IF Parsed.type \in {"full", "first"} THEN Start ELSE Continue
  BY DEF ReadFragment
<1>3. /\ pos \in Nat /\ end \in Nat /\ end <= Len(file) /\ Len(file) \in Nat /\ HeaderSize \in Nat \ {0}
      /\ eof \in BOOLEAN /\ fragmented \in BOOLEAN /\ scratch \in Seq(PhysicalRecord)
      /\ out \in Seq(Seq(PhysicalRecord)) /\ \A n \in DOMAIN out : out[n] # <<>>
  BY Constants DEF IndInv, ReaderType, WriterType
<1>4. Parsed.type \in {"full", "first"} <=> Parsed.frag = 1
  BY <1>1 DEF PhysicalRecord
<1>5. WriterType' /\ FirstsAreNew' /\ RestFollow' /\ WriterIsBehind'
  BY <1>2, ReadingKeepsFile
<1>6. pos' \in 1..pos' /\ 1..pos \subseteq 1..pos' /\ end' # 0
  BY <1>1, <1>2, <1>3
<1>7. Parsed.type \in Types
  BY <1>1 DEF PhysicalRecord
\* What has to be shown of scratch and out.
<1>8. ASSUME out' \in Seq(Seq(PhysicalRecord)), \A n \in DOMAIN out' : out'[n] # <<>>,
             NeverSpliced',
             \A n \in DOMAIN out' : (n \in DOMAIN out /\ out'[n] = out[n]) \/ out'[n][1].rec = Parsed.rec,
             scratch' \in Seq(PhysicalRecord), fragmented' \in BOOLEAN,
             fragmented' <=> scratch' # <<>>,
             \A i \in DOMAIN scratch' : scratch'[i].rec = scratch'[1].rec /\ scratch'[i].frag = i,
             scratch' # <<>> => Parsed.rec = scratch'[1].rec /\ Parsed.frag = Len(scratch'),
             \A n \in DOMAIN out' : scratch' # <<>> => out'[n][1].rec < scratch'[1].rec
      PROVE  IndInv'
  <2>1. ReaderType'
    BY <1>1, <1>2, <1>3, <1>8 DEF ReaderType
  <2>2. ScratchIsBeginning'
    <3>1. scratch' # <<>> =>
            \E e \in 1..pos' : file[e].of.rec = scratch'[1].rec /\ file[e].of.frag = Len(scratch') /\ e = pos'
      <4>1. file[pos'].of.rec = Parsed.rec /\ file[pos'].of.frag = Parsed.frag
        BY <1>1 DEF Rec, Frag
      <4> QED
        BY <1>6, <1>8, <4>1
    <3>2. scratch' # <<>> =>
            \E e \in 1..pos' :
              /\ Rec(e)' = scratch'[1].rec /\ Frag(e)' = Len(scratch')
              /\ e = pos' \/ (pos' - e < HeaderSize /\ (eof' \/ end' - pos' >= HeaderSize))
      BY <1>2, <3>1 DEF Rec, Frag
    <3> QED
      BY <1>8, <3>2 DEF ScratchIsBeginning
  <2>3. OutIsBehind'
    <3>1. \A n \in DOMAIN out' : \E e \in 1..pos' : Rec(e)' = out'[n][1].rec
      <4> SUFFICES ASSUME NEW n \in DOMAIN out'
                   PROVE  \E e \in 1..pos' : Rec(e)' = out'[n][1].rec
        OBVIOUS
      <4>1. CASE n \in DOMAIN out /\ out'[n] = out[n]
        <5>1. PICK e \in 1..pos : Rec(e) = out[n][1].rec
          BY <4>1 DEF IndInv, OutIsBehind
        <5> QED
          BY <1>2, <1>6, <4>1, <5>1 DEF Rec
      <4>2. CASE out'[n][1].rec = Parsed.rec
        BY <1>1, <1>2, <1>6, <4>2 DEF Rec
      <4> QED
        BY <1>8, <4>1, <4>2
    <3> QED
      BY <1>6, <3>1 DEF OutIsBehind
  <2> QED
    BY <1>5, <1>8, <2>1, <2>2, <2>3 DEF IndInv
<1>9. CASE Parsed.type = "full"
  <2>1. Start /\ Parsed.frag = 1
    BY <1>2, <1>4, <1>9
  <2>2. out' = Append(out, <<Parsed>>) /\ fragmented' = FALSE /\ scratch' = <<>>
    BY <1>9, <2>1 DEF Start
  <2>3. \A n \in DOMAIN out : out[n][1].rec < Parsed.rec
    BY <2>1, BeginsLater
  <2>4. <<Parsed>> \in Seq(PhysicalRecord) /\ <<Parsed>> # <<>> /\ Len(<<Parsed>>) = 1 /\ DOMAIN <<Parsed>> = {1}
        /\ <<Parsed>>[1] = Parsed
    BY <1>1
  <2>5. /\ NeverSpliced' /\ out' \in Seq(Seq(PhysicalRecord))
        /\ \A n \in DOMAIN out' : (n \in DOMAIN out /\ out'[n] = out[n]) \/ out'[n] = <<Parsed>>
    <3> DEFINE record == <<Parsed>>
    <3>1. /\ record \in Seq(PhysicalRecord) /\ record # <<>> /\ out' = Append(out, record)
          /\ \A i \in DOMAIN record : record[i].rec = record[1].rec /\ record[i].frag = i
          /\ record[1].type \in {"full", "first"} /\ record[Len(record)].type \in {"full", "last"}
          /\ \A n \in DOMAIN out : out[n][1].rec < record[1].rec
      BY <1>9, <2>1, <2>2, <2>3, <2>4
    <3> HIDE DEF record
    <3>2. /\ NeverSpliced' /\ out' \in Seq(Seq(PhysicalRecord))
          /\ \A n \in DOMAIN out' : (n \in DOMAIN out /\ out'[n] = out[n]) \/ out'[n] = record
      BY <3>1, OutMore
    <3> QED
      BY <3>2 DEF record
  <2>6. <<>> \in Seq(PhysicalRecord) /\ DOMAIN scratch' = {}
    BY <2>2
  <2>7. \A n \in DOMAIN out' : out'[n] # <<>>
    BY <1>3, <2>4, <2>5
  <2>8. \A n \in DOMAIN out' : (n \in DOMAIN out /\ out'[n] = out[n]) \/ out'[n][1].rec = Parsed.rec
    BY <2>4, <2>5
  <2> QED
    BY <1>8, <2>2, <2>5, <2>6, <2>7, <2>8
<1>10. CASE Parsed.type = "first"
  <2>1. Start /\ Parsed.frag = 1
    BY <1>2, <1>4, <1>10
  <2>2. fragmented' = TRUE /\ scratch' = <<Parsed>> /\ UNCHANGED out
    BY <1>10, <2>1 DEF Start
  <2>3. \A n \in DOMAIN out : out[n][1].rec < Parsed.rec
    BY <2>1, BeginsLater
  <2>4. scratch' \in Seq(PhysicalRecord) /\ scratch' # <<>> /\ Len(scratch') = 1 /\ DOMAIN scratch' = {1}
        /\ scratch'[1] = Parsed
    BY <1>1, <2>2
  <2>5. NeverSpliced'
    BY <2>2 DEF IndInv, NeverSpliced
  <2> QED
    BY <1>3, <1>8, <2>1, <2>2, <2>3, <2>4, <2>5
<1>11. CASE Parsed.type \in {"middle", "last"} /\ fragmented = FALSE
  <2>1. UNCHANGED <<out, fragmented, scratch>>
    BY <1>2, <1>11 DEF Continue
  <2>2. scratch = <<>>
    BY <1>11 DEF IndInv, ScratchIsBeginning
  <2>3. NeverSpliced' /\ DOMAIN scratch' = {}
    BY <2>1, <2>2 DEF IndInv, NeverSpliced
  <2> QED
    BY <1>3, <1>8, <1>11, <2>1, <2>2, <2>3
<1>12. CASE Parsed.type \in {"middle", "last"} /\ fragmented = TRUE
  <2>1. Continue /\ Parsed.frag # 1
    BY <1>2, <1>4, <1>12
  <2>2. scratch # <<>>
    BY <1>2, <1>12 DEF IndInv, ScratchIsBeginning
  <2>3. Parsed.rec = scratch[1].rec /\ Parsed.frag = Len(scratch) + 1
    BY <2>1, <2>2, ContinuesScratch
  <2> DEFINE more == Append(scratch, Parsed)
  <2>4. /\ more \in Seq(PhysicalRecord) /\ more # <<>> /\ Len(more) = Len(scratch) + 1
        /\ \A i \in 1..Len(scratch) : more[i] = scratch[i]
        /\ more[Len(scratch) + 1] = Parsed /\ Len(scratch) \in Nat \ {0}
    BY <1>1, <1>3, <2>2, AppendProperties, EmptySeq
  <2>5. \/ Parsed.type = "last" /\ out' = Append(out, more) /\ fragmented' = FALSE /\ scratch' = <<>>
        \/ Parsed.type = "middle" /\ scratch' = more /\ fragmented' = TRUE /\ UNCHANGED out
    BY <1>12, <2>1 DEF Continue
  <2> HIDE DEF more
  <2>6. more[1] = scratch[1] /\ more[Len(more)] = Parsed /\ DOMAIN more = 1..Len(scratch) + 1
    <3>1. 1 \in 1..Len(scratch)
      BY <2>4
    <3> QED
      BY <2>4, <3>1
  <2>7. \A i \in DOMAIN more : more[i].rec = more[1].rec /\ more[i].frag = i
    <3> SUFFICES ASSUME NEW i \in DOMAIN more PROVE more[i].rec = more[1].rec /\ more[i].frag = i
      OBVIOUS
    <3>1. CASE i = Len(scratch) + 1
      BY <2>3, <2>4, <2>6, <3>1
    <3>2. CASE i # Len(scratch) + 1
      <4>1. i \in 1..Len(scratch) /\ DOMAIN scratch = 1..Len(scratch)
        BY <1>3, <2>4, <2>6, <3>2
      <4>2. more[i] = scratch[i] /\ scratch[i].rec = scratch[1].rec /\ scratch[i].frag = i
        BY <2>4, <4>1 DEF IndInv, ScratchIsBeginning
      <4> QED
        BY <2>6, <4>2
    <3> QED
      BY <3>1, <3>2
  <2>8. \A n \in DOMAIN out : out[n][1].rec < more[1].rec
    BY <2>2, <2>6 DEF IndInv, ScratchIsBeginning
  <2>9. scratch[1].type \in {"full", "first"}
    <3>1. 1 \in 1..Len(scratch) /\ 1 \in DOMAIN scratch
      BY <1>3, <2>4
    <3>2. scratch[1] \in PhysicalRecord /\ scratch[1].frag = 1
      BY <1>3, <3>1, ElementOf DEF IndInv, ScratchIsBeginning
    <3> QED
      BY <3>2 DEF PhysicalRecord
  <2>10. CASE Parsed.type = "last"
    <3>1. out' = Append(out, more) /\ fragmented' = FALSE /\ scratch' = <<>>
      BY <2>5, <2>10
    <3>2. more[1].type \in {"full", "first"} /\ more[Len(more)].type \in {"full", "last"}
      BY <2>6, <2>9, <2>10
    <3>3. /\ NeverSpliced' /\ out' \in Seq(Seq(PhysicalRecord))
          /\ \A n \in DOMAIN out' : (n \in DOMAIN out /\ out'[n] = out[n]) \/ out'[n] = more
      BY <2>4, <2>7, <2>8, <3>1, <3>2, OutMore
    <3>4. <<>> \in Seq(PhysicalRecord) /\ DOMAIN scratch' = {}
      BY <3>1
    <3>5. \A n \in DOMAIN out' : out'[n] # <<>>
      BY <1>3, <2>4, <3>3
    <3>6. \A n \in DOMAIN out' : (n \in DOMAIN out /\ out'[n] = out[n]) \/ out'[n][1].rec = Parsed.rec
      BY <2>3, <2>6, <3>3
    <3> QED
      BY <1>8, <3>1, <3>3, <3>4, <3>5, <3>6
  <2>11. CASE Parsed.type = "middle"
    <3>1. scratch' = more /\ fragmented' = TRUE /\ UNCHANGED out
      BY <2>5, <2>11
    <3>2. NeverSpliced'
      BY <3>1 DEF IndInv, NeverSpliced
    <3> QED
      BY <1>3, <1>8, <2>3, <2>4, <2>6, <2>7, <2>8, <3>1, <3>2
  <2> QED
    BY <1>12, <2>10, <2>11
<1> QED
  BY <1>3, <1>7, <1>9, <1>10, <1>11, <1>12 DEF Types

-----------------------------------------------------------------------------
LEMMA InitInd == Init => IndInv
<1> SUFFICES ASSUME Init PROVE IndInv
  OBVIOUS
<1>1. /\ phase = "writing" /\ file = <<>> /\ blockOffset = 0 /\ left = -1 /\ fragments = 0
      /\ extents = <<>> /\ pos = 0 /\ end = 0 /\ eof = FALSE /\ fragmented = FALSE
      /\ scratch = <<>> /\ out = <<>>
  BY DEF Init
<1>2. DOMAIN file = {} /\ DOMAIN out = {} /\ DOMAIN scratch = {} /\ Len(file) = 0
  BY <1>1
<1>3. /\ <<>> \in Seq(Byte) /\ <<>> \in Seq([from : Nat, to : Int])
      /\ <<>> \in Seq(PhysicalRecord) /\ <<>> \in Seq(Seq(PhysicalRecord))
  OBVIOUS
<1>4. WriterType
  BY <1>1, <1>3, Constants DEF WriterType
<1>5. ReaderType
  <2>1. scratch \in Seq(PhysicalRecord) /\ out \in Seq(Seq(PhysicalRecord))
    BY <1>1, <1>3
  <2>2. pos \in Nat /\ end \in Nat /\ pos <= end /\ end <= Len(file)
    BY <1>1, <1>2
  <2>3. eof \in BOOLEAN /\ fragmented \in BOOLEAN /\ \A n \in DOMAIN out : out[n] # <<>>
    BY <1>1, <1>2
  <2> QED
    BY <2>1, <2>2, <2>3 DEF ReaderType
<1>6. FirstsAreNew /\ RestFollow /\ WriterIsBehind
  BY <1>1, <1>2 DEF FirstsAreNew, RestFollow, WriterIsBehind
<1>7. ScratchIsBeginning /\ OutIsBehind /\ NeverSpliced
  BY <1>1, <1>2 DEF ScratchIsBeginning, OutIsBehind, NeverSpliced
<1> QED
  BY <1>4, <1>5, <1>6, <1>7 DEF IndInv

LEMMA NextInd == ASSUME IndInv, [Next]_vars PROVE IndInv'
<1>1. CASE \E size \in Sizes : AddRecord(size)
  BY <1>1, AddRecordInd
<1>2. CASE Emit \/ TrailerFails \/ EmitFails
  BY <1>2, EmitInd, TrailerFailsInd, EmitFailsInd
<1>3. CASE Cut \/ DamageByte
  BY <1>3, CutInd, DamageInd
<1>4. CASE Refill
  BY <1>4, RefillInd
<1>5. CASE ReadEnd
  BY <1>5, EndsInd DEF ReadEnd
<1>6. CASE ReadTooLong
  BY <1>6, EndsInd, BadInd DEF ReadTooLong
<1>7. CASE ReadNoHeader
  BY <1>7, EndsInd, BadInd DEF ReadNoHeader
<1>8. CASE ReadMismatch
  BY <1>8, BadInd DEF ReadMismatch
<1>9. CASE ReadFragment
  BY <1>9, ReadFragmentInd
<1>10. CASE UNCHANGED vars
  <2>1. UNCHANGED <<phase, file, writerVars, pos, end, eof, fragmented, scratch, out>>
    BY <1>10 DEF vars, readerVars
  <2> QED
    BY <2>1 DEF IndInv, WriterType, ReaderType, FirstsAreNew, RestFollow, WriterIsBehind,
                ScratchIsBeginning, OutIsBehind, NeverSpliced, Rec, Frag, writerVars
<1> QED
  BY <1>1, <1>2, <1>3, <1>4, <1>5, <1>6, <1>7, <1>8, <1>9, <1>10 DEF Next

\* The inductive invariant: fragments lie in order, each behind the one before, and
\* the reader has put together the beginning of one record.
THEOREM LogInvariant == Spec => []IndInv
<1>1. Init => IndInv
  BY InitInd
<1>2. IndInv /\ [Next]_vars => IndInv'
  BY NextInd
<1> QED
  BY <1>1, <1>2, PTL DEF Spec

\* Whatever was lost with the process, left by failed appends or damaged: a record
\* that is read is one that was written, from its first fragment to its last, and
\* records come once and in order.
THEOREM RecordsAreNeverSpliced == Spec => []NeverSpliced
<1>1. IndInv => NeverSpliced
  BY DEF IndInv
<1> QED
  BY <1>1, LogInvariant, PTL

-----------------------------------------------------------------------------
(* A file that was written without a failed append *)

BlockStarts == {k * BlockSize : k \in Nat}
Heads(f) == {i \in DOMAIN f : f[i].at = 1}
Behind(f, i) == i - 1 + HeaderSize + f[i].of.length
Opens(b) == b.of.type \in {"first", "middle"}
Continues(b) == b.of.type \in {"middle", "last"}

\* A place where a physical record begins, or a trailer.
Boundary(f, q) ==
  q < Len(f) => \/ f[q + 1].at = 1
                \/ f[q + 1].at = 0 /\ \E s \in BlockStarts : q < s /\ s < q + HeaderSize

RecordsAreWhole(f) ==
  \A i \in Heads(f) :
    /\ f[i].of \in PhysicalRecord
    /\ \A k \in 1..HeaderSize + f[i].of.length :
         i + k - 1 <= Len(f) => f[i + k - 1] = [of |-> f[i].of, at |-> k]

HeadsAreThere(f) ==
  \A i \in DOMAIN f : f[i].at > 0 =>
    LET head == i - f[i].at + 1
    IN  head \in Heads(f) /\ f[head].of = f[i].of /\ i <= Behind(f, head)

RecordsAreInBlocks(f) ==
  \A i \in Heads(f) : \E s \in BlockStarts : s < i /\ Behind(f, i) <= s + BlockSize

NextIsNear(f) == \A i \in Heads(f) : Boundary(f, Behind(f, i))

BlocksBegin(f) == \A s \in BlockStarts : s < Len(f) => f[s + 1].at = 1

TypesAlternate(f) ==
  /\ 1 \in DOMAIN f => ~Continues(f[1])
  /\ \A i \in DOMAIN f, j \in Heads(f) :
       i < j /\ j - i <= HeaderSize /\ f[i].at > 0 => (Continues(f[j]) <=> Opens(f[i]))

\* What AddRecord makes of a file when no append fails.
WellFormed(f) ==
  /\ RecordsAreWhole(f) /\ HeadsAreThere(f) /\ RecordsAreInBlocks(f)
  /\ NextIsNear(f) /\ BlocksBegin(f) /\ TypesAlternate(f)

\* Where the bytes of a record are.
Lies(f, r, from, to) ==
  /\ from \in Nat /\ Boundary(f, from)
  /\ \A i \in DOMAIN f : f[i].of.rec = r => from < i /\ (to >= 0 => i <= to)
  /\ \A i \in DOMAIN f : from < i /\ (to >= 0 => i <= to) => f[i].of.rec \in {0, r}
  /\ \A i \in Heads(f) : from < i /\ i <= from + HeaderSize => f[i].of.frag = 1
  /\ to >= 0 => to > 0
  /\ to >= 0 /\ to <= Len(f) =>
       /\ f[to].of.rec = r /\ ~Opens(f[to]) /\ f[to].at = HeaderSize + f[to].of.length
ExtentHolds(f, r) == Lies(f, r, extents[r].from, extents[r].to)

WriterPlace ==
  /\ \E s \in BlockStarts : Len(file) = s + blockOffset
  /\ \A i \in Heads(file) : Behind(file, i) <= Len(file)
  /\ \A i \in DOMAIN file : i + HeaderSize > Len(file) =>
       file[i].at > 0 /\ (Opens(file[i]) <=> left >= 0 /\ fragments > 0)
  /\ left >= 0 /\ fragments > 0 => file # <<>>
  /\ \A r \in DOMAIN extents :
       /\ extents[r].from <= Len(file) /\ extents[r].to <= Len(file)
       /\ extents[r].to < 0 => r = Len(extents) /\ left >= 0
  /\ left >= 0 =>
       /\ extents[Len(extents)].to = -1
       /\ fragments = 0 => extents[Len(extents)].from = Len(file)
       /\ fragments > 0 => extents[Len(extents)].from + HeaderSize <= Len(file)

ReaderPlace(f) ==
  /\ \E b \in BlockStarts : b <= pos /\ end <= b + BlockSize /\ (~eof /\ end # 0 => end = b + BlockSize)
  /\ eof => end = Len(f)
  /\ Boundary(f, pos)

Written == WellFormed(file) /\ (\A r \in DOMAIN extents : ExtentHolds(file, r)) /\ WriterPlace

\* The file is one that was written, but for damaged bytes.
Original(f) ==
  /\ Len(f) = Len(file) /\ WellFormed(f)
  /\ \A i \in DOMAIN f : file[i] = f[i] \/ file[i] = Damage
  /\ \A r \in DOMAIN extents : ExtentHolds(f, r)
  /\ phase = "reading" => ReaderPlace(f)

Intact(r) ==
  /\ extents[r].to >= 0 /\ extents[r].to <= Len(file)
  /\ Blocks(extents[r].from, extents[r].to) \cap {(i - 1) \div BlockSize : i \in Damaged} = {}
Returned(r) == \E n \in DOMAIN out : out[n][1].rec = r
NotYet(r) ==
  \/ pos <= extents[r].from
  \/ pos < extents[r].from + HeaderSize /\ pos \in BlockStarts
Amid(r) ==
  fragmented = TRUE /\ scratch # <<>> /\ scratch[1].rec = r /\ extents[r].from < pos /\ pos < extents[r].to

ReadInv ==
  \A r \in DOMAIN extents : Intact(r) =>
    Returned(r) \/ (phase = "reading" /\ (NotYet(r) \/ Amid(r)))

SilentInv ==
  Damaged = {} =>
    /\ reported = FALSE
    /\ phase = "reading" =>
         \/ pos = 0 /\ fragmented = FALSE
         \/ \E e \in 1..pos :
              /\ file[e].at > 0 /\ (fragmented = TRUE <=> Opens(file[e]))
              /\ e = pos \/ (pos - e < HeaderSize /\ (eof \/ end - pos >= HeaderSize))

FormInv ==
  /\ failed \in Nat
  /\ phase = "writing" => Damaged = {} /\ reported = FALSE /\ eof = FALSE
  /\ failed = 0 /\ phase = "writing" => Written
  /\ failed = 0 /\ phase # "writing" => (\E f \in Seq(Byte) : Original(f)) /\ ReadInv /\ SilentInv

-----------------------------------------------------------------------------
(* Blocks *)

LEMMA StartsAreApart ==
  /\ 0 \in BlockStarts
  /\ \A s \in BlockStarts : s \in Nat /\ s + BlockSize \in BlockStarts
  /\ \A s, t \in BlockStarts : s < t => s + BlockSize <= t
<1> DEFINE B == BlockSize
<1>0. B \in Nat \ {0}
  BY Constants
<1>1. \A k \in Nat : k * B \in Nat /\ k * B + B = (k + 1) * B
  <2> HIDE DEF B
  <2> QED
    BY <1>0
<1>2. \A k, j \in Nat : k * B < j * B => k * B + B <= j * B
  <2> SUFFICES ASSUME NEW k \in Nat, NEW j \in Nat, k * B < j * B PROVE k * B + B <= j * B
    OBVIOUS
  <2> HIDE DEF B
  <2>1. CASE j <= k
    <3>1. PICK d \in Nat : k = j + d
      <4>1. k - j \in Nat /\ k = j + (k - j)
        BY <2>1
      <4> QED
        BY <4>1
    <3>2. k * B = j * B + d * B /\ d * B \in Nat /\ j * B \in Nat
      BY <1>0, <3>1
    <3> QED
      BY <3>2
  <2>2. CASE j > k
    <3>1. PICK d \in Nat : j = k + 1 + d
      <4>1. j - k - 1 \in Nat /\ j = k + 1 + (j - k - 1)
        BY <2>2
      <4> QED
        BY <4>1
    <3>2. j * B = k * B + B + d * B /\ d * B \in Nat /\ k * B \in Nat
      BY <1>0, <3>1
    <3> QED
      BY <1>0, <3>2
  <2> QED
    BY <2>1, <2>2
<1>3. 0 * B = 0
  BY <1>0
<1>4. BlockStarts = {k * B : k \in Nat}
  BY DEF BlockStarts
<1> HIDE DEF B
<1>5. 0 \in BlockStarts
  BY <1>3, <1>4
<1>6. \A s \in BlockStarts : s \in Nat /\ s + B \in BlockStarts
  <2> SUFFICES ASSUME NEW k \in Nat PROVE k * B \in Nat /\ k * B + B \in BlockStarts
    BY <1>4
  <2>1. k + 1 \in Nat /\ k * B + B = (k + 1) * B
    BY <1>1
  <2> QED
    BY <1>1, <1>4, <2>1
<1>7. \A s, t \in BlockStarts : s < t => s + B <= t
  BY <1>2, <1>4
<1> QED
  BY <1>5, <1>6, <1>7 DEF B

LEMMA BlockOf ==
  ASSUME NEW s \in BlockStarts, NEW x \in Nat, NEW y \in Nat, s <= x, x < s + BlockSize, s <= y, y < s + BlockSize
  PROVE  x \div BlockSize = y \div BlockSize
<1> DEFINE B == BlockSize
<1>0. B \in Nat \ {0}
  BY Constants
<1>1. PICK k \in Nat : s = k * B
  BY DEF BlockStarts
<1>2. \A z \in Nat : k * B <= z /\ z < k * B + B => z \div B = k
  <2> SUFFICES ASSUME NEW z \in Nat, k * B <= z, z < k * B + B PROVE z \div B = k
    OBVIOUS
  <2> HIDE DEF B
  <2> QED
    BY <1>0
<1> QED
  BY <1>1, <1>2

-----------------------------------------------------------------------------
(* What a well-formed file is *)

LEMMA ByteFacts ==
  ASSUME NEW f \in Seq(Byte), NEW i \in DOMAIN f
  PROVE  /\ i \in Nat /\ 1 <= i /\ i <= Len(f) /\ f[i].at \in Nat /\ f[i].of.rec \in Nat
         /\ f[i].at = 0 => f[i].of.rec = 0
         /\ f[i].at > 0 => f[i].of \in PhysicalRecord /\ f[i].of.rec # 0
<1>1. i \in 1..Len(f) /\ Len(f) \in Nat
  OBVIOUS
<1>2. f[i] \in Byte
  BY <1>1, ElementOf
<1>3. CASE f[i] \in {Zero, Damage}
  BY <1>1, <1>3, ZeroAndDamage
<1>4. CASE f[i] \in [of : PhysicalRecord, at : Nat \ {0}]
  BY <1>1, <1>4 DEF PhysicalRecord
<1> QED
  BY <1>2, <1>3, <1>4 DEF Byte

LEMMA HeadFacts ==
  ASSUME NEW f \in Seq(Byte), NEW i \in Heads(f)
  PROVE  /\ i \in DOMAIN f /\ i \in Nat /\ 1 <= i /\ i <= Len(f) /\ Len(f) \in Nat /\ f[i].at = 1
         /\ f[i].of \in PhysicalRecord /\ f[i].of.length \in Nat /\ HeaderSize + f[i].of.length \in Nat
         /\ Behind(f, i) \in Nat /\ i - 1 + HeaderSize <= Behind(f, i)
<1>1. i \in DOMAIN f /\ f[i].at = 1 /\ Len(f) \in Nat
  BY DEF Heads
<1>2. i \in Nat /\ 1 <= i /\ i <= Len(f) /\ f[i].of \in PhysicalRecord
  BY <1>1, ByteFacts
<1>3. f[i].of.length \in Nat /\ HeaderSize \in Nat
  BY <1>2, Constants DEF PhysicalRecord
<1> DEFINE length == f[i].of.length
<1>4. Behind(f, i) = i - 1 + HeaderSize + length /\ length \in Nat
  BY <1>3 DEF Behind
<1> HIDE DEF length
<1>5. Behind(f, i) \in Nat /\ i - 1 + HeaderSize <= Behind(f, i)
  BY <1>2, <1>3, <1>4
<1> QED
  BY <1>1, <1>2, <1>3, <1>5

\* Any byte of a record, by its place in the file.
LEMMA RecordBytes ==
  ASSUME NEW f \in Seq(Byte), RecordsAreWhole(f), NEW i \in Heads(f),
         NEW j \in Nat, i <= j, j <= Behind(f, i), j <= Len(f)
  PROVE  j \in DOMAIN f /\ f[j] = [of |-> f[i].of, at |-> j - i + 1]
<1> DEFINE k == j - i + 1
           length == f[i].of.length
<1>1. /\ i \in Nat /\ 1 <= i /\ Len(f) \in Nat /\ length \in Nat /\ HeaderSize \in Nat
      /\ Behind(f, i) = i - 1 + HeaderSize + length
  BY HeadFacts, Constants DEF Behind
<1> HIDE DEF length
<1>2. k \in 1..HeaderSize + length /\ i + k - 1 = j
  BY <1>1
<1> HIDE DEF k
<1>3. f[i + k - 1] = [of |-> f[i].of, at |-> k]
  BY <1>2 DEF RecordsAreWhole, length
<1> QED
  BY <1>1, <1>2, <1>3 DEF k

\* Where the bytes up to the end of a block can hold a header, there is one, whatever
\* was skipped to come here.
LEMMA HeaderThere ==
  ASSUME NEW f \in Seq(Byte), NEW b \in BlockStarts, NEW q \in Nat, Boundary(f, q),
         b <= q, q + HeaderSize <= b + BlockSize, q < Len(f)
  PROVE  q + 1 \in Heads(f)
<1>1. Len(f) \in Nat /\ HeaderSize \in Nat \ {0} /\ BlockSize \in Nat
  BY Constants
<1>2. q + 1 \in DOMAIN f
  BY <1>1
<1>3. CASE f[q + 1].at = 1
  BY <1>2, <1>3 DEF Heads
<1>4. ASSUME NEW s \in BlockStarts, q < s, s < q + HeaderSize PROVE FALSE
  <2>0. b \in Nat /\ s \in Nat
    BY StartsAreApart
  <2>1. b < s /\ b \in Nat /\ s \in Nat
    BY <1>4, <2>0
  <2>2. b + BlockSize <= s
    BY <2>1, StartsAreApart
  <2> QED
    BY <1>1, <1>4, <2>1, <2>2
<1> QED
  BY <1>3, <1>4 DEF Boundary

\* A record that begins in a block ends in it.
LEMMA EndsInBlock ==
  ASSUME NEW f \in Seq(Byte), RecordsAreInBlocks(f), NEW i \in Heads(f), NEW b \in BlockStarts,
         b < i, i <= b + BlockSize
  PROVE  Behind(f, i) <= b + BlockSize
<1>1. i \in Nat /\ Behind(f, i) \in Nat /\ i - 1 + HeaderSize <= Behind(f, i)
      /\ HeaderSize \in Nat \ {0} /\ BlockSize \in Nat
  BY HeadFacts, Constants
<1>2. PICK s \in BlockStarts : s < i /\ Behind(f, i) <= s + BlockSize
  BY DEF RecordsAreInBlocks
<1>3. s \in Nat /\ b \in Nat
  BY StartsAreApart
<1>4. ~(s < b)
  <2> SUFFICES ASSUME s < b PROVE FALSE
    OBVIOUS
  <2>1. s + BlockSize <= b
    BY StartsAreApart
  <2> QED
    BY <1>1, <1>2, <1>3, <2>1
<1>5. ~(b < s)
  <2> SUFFICES ASSUME b < s PROVE FALSE
    OBVIOUS
  <2>1. b + BlockSize <= s
    BY StartsAreApart
  <2> QED
    BY <1>1, <1>2, <1>3, <2>1
<1> QED
  BY <1>2, <1>3, <1>4, <1>5

\* A beginning of a well-formed file is one.
LEMMA BeginningIsFormed ==
  ASSUME NEW f \in Seq(Byte), WellFormed(f), NEW g \in Seq(Byte), Len(g) <= Len(f),
         \A i \in DOMAIN g : g[i] = f[i], extents \in Seq([from : Nat, to : Int])
  PROVE  /\ WellFormed(g)
         /\ \A q \in Nat : Boundary(f, q) => Boundary(g, q)
         /\ \A r \in DOMAIN extents : ExtentHolds(f, r) => ExtentHolds(g, r)
<1>1. DOMAIN g = 1..Len(g) /\ DOMAIN f = 1..Len(f) /\ Len(g) \in Nat /\ Len(f) \in Nat
  OBVIOUS
<1>2. DOMAIN g \subseteq DOMAIN f
  BY <1>1
<1>3. \A i \in Heads(g) : i \in Heads(f) /\ g[i] = f[i] /\ Behind(g, i) = Behind(f, i)
  BY <1>2 DEF Heads, Behind
<1>4. \A i \in DOMAIN g : i \in Heads(f) => i \in Heads(g)
  BY DEF Heads
<1>5. ASSUME NEW q \in Nat, Boundary(f, q) PROVE Boundary(g, q)
  <2> SUFFICES ASSUME q < Len(g)
               PROVE  \/ g[q + 1].at = 1
                      \/ g[q + 1].at = 0 /\ \E s \in BlockStarts : q < s /\ s < q + HeaderSize
    BY DEF Boundary
  <2>1. q + 1 \in DOMAIN g /\ q < Len(f)
    BY <1>1
  <2>2. g[q + 1] = f[q + 1]
    BY <2>1
  <2> QED
    BY <1>5, <2>1, <2>2 DEF Boundary
<1>6. RecordsAreWhole(g)
  <2> SUFFICES ASSUME NEW i \in Heads(g)
               PROVE  /\ g[i].of \in PhysicalRecord
                      /\ \A k \in 1..HeaderSize + g[i].of.length :
                           i + k - 1 <= Len(g) => g[i + k - 1] = [of |-> g[i].of, at |-> k]
    BY DEF RecordsAreWhole
  <2>1. i \in Heads(f) /\ g[i] = f[i] /\ i \in Nat /\ 1 <= i
    BY <1>3, HeadFacts
  <2>2. ASSUME NEW k \in 1..HeaderSize + g[i].of.length, i + k - 1 <= Len(g)
        PROVE  g[i + k - 1] = [of |-> g[i].of, at |-> k]
    <3>1. k \in Nat /\ 1 <= k
      BY HeadFacts
    <3>2. i + k - 1 \in DOMAIN g /\ i + k - 1 <= Len(f)
      BY <1>1, <2>1, <2>2, <3>1
    <3>3. f[i + k - 1] = [of |-> f[i].of, at |-> k]
      BY <2>1, <3>2 DEF WellFormed, RecordsAreWhole
    <3> QED
      BY <2>1, <3>2, <3>3
  <2> QED
    BY <2>1, <2>2, HeadFacts
<1>7. HeadsAreThere(g)
  <2> SUFFICES ASSUME NEW i \in DOMAIN g, g[i].at > 0
               PROVE  /\ i - g[i].at + 1 \in Heads(g) /\ g[i - g[i].at + 1].of = g[i].of
                      /\ i <= Behind(g, i - g[i].at + 1)
    BY DEF HeadsAreThere
  <2> DEFINE head == i - g[i].at + 1
  <2>1. g[i] = f[i] /\ i \in DOMAIN f
    BY <1>2
  <2>2. head \in Heads(f) /\ f[head].of = f[i].of /\ i <= Behind(f, head)
    BY <2>1 DEF WellFormed, HeadsAreThere
  <2>3. head <= i /\ g[i].at \in Nat
    BY ByteFacts
  <2> HIDE DEF head
  <2>4. head \in DOMAIN g
    BY <1>1, <2>2, <2>3, HeadFacts
  <2>5. head \in Heads(g) /\ g[head] = f[head]
    BY <1>4, <2>2, <2>4
  <2>6. head \in Heads(g) /\ g[head].of = g[i].of /\ i <= Behind(g, head)
    BY <1>3, <2>1, <2>2, <2>5
  <2> QED
    BY <2>6 DEF head
<1>8. RecordsAreInBlocks(g)
  BY <1>3 DEF WellFormed, RecordsAreInBlocks
<1>9. NextIsNear(g)
  <2> SUFFICES ASSUME NEW i \in Heads(g) PROVE Boundary(g, Behind(g, i))
    BY DEF NextIsNear
  <2>1. i \in Heads(f) /\ Behind(g, i) = Behind(f, i) /\ Behind(f, i) \in Nat
    BY <1>3, HeadFacts
  <2> QED
    BY <1>5, <2>1 DEF WellFormed, NextIsNear
<1>10. BlocksBegin(g)
  <2> SUFFICES ASSUME NEW s \in BlockStarts, s < Len(g) PROVE g[s + 1].at = 1
    BY DEF BlocksBegin
  <2>1. s \in Nat
    BY StartsAreApart
  <2>2. s + 1 \in DOMAIN g /\ s < Len(f)
    BY <1>1, <2>1
  <2> QED
    BY <2>2 DEF WellFormed, BlocksBegin
<1>11. TypesAlternate(g)
  <2>1. 1 \in DOMAIN g => ~Continues(g[1])
    BY <1>2 DEF WellFormed, TypesAlternate
  <2>2. ASSUME NEW i \in DOMAIN g, NEW j \in Heads(g), i < j, j - i <= HeaderSize, g[i].at > 0
        PROVE  Continues(g[j]) <=> Opens(g[i])
    <3>1. i \in DOMAIN f /\ g[i] = f[i] /\ j \in Heads(f) /\ g[j] = f[j]
      BY <1>2, <1>3
    <3> QED
      BY <2>2, <3>1 DEF WellFormed, TypesAlternate
  <2> QED
    BY <2>1, <2>2 DEF TypesAlternate
<1>12. ASSUME NEW r \in DOMAIN extents, ExtentHolds(f, r) PROVE ExtentHolds(g, r)
  <2> DEFINE from == extents[r].from
             to == extents[r].to
  <2>1. /\ from \in Nat /\ Boundary(f, from)
        /\ \A i \in DOMAIN f : f[i].of.rec = r => from < i /\ (to >= 0 => i <= to)
        /\ \A i \in DOMAIN f : from < i /\ (to >= 0 => i <= to) => f[i].of.rec \in {0, r}
        /\ \A i \in Heads(f) : from < i /\ i <= from + HeaderSize => f[i].of.frag = 1
        /\ to >= 0 => to > 0
        /\ to >= 0 /\ to <= Len(f) =>
             /\ f[to].of.rec = r /\ ~Opens(f[to]) /\ f[to].at = HeaderSize + f[to].of.length
    BY <1>12 DEF ExtentHolds, Lies
  <2>2. to \in Int
    <3>1. r \in 1..Len(extents)
      OBVIOUS
    <3>2. extents[r] \in [from : Nat, to : Int]
      BY <3>1, ElementOf
    <3> QED
      BY <3>2
  <2> HIDE DEF from, to
  <2>3. to >= 0 /\ to <= Len(g) => to \in DOMAIN g /\ to <= Len(f)
    BY <1>1, <2>1, <2>2
  <2>4. /\ from \in Nat /\ Boundary(g, from)
        /\ \A i \in DOMAIN g : g[i].of.rec = r => from < i /\ (to >= 0 => i <= to)
        /\ \A i \in DOMAIN g : from < i /\ (to >= 0 => i <= to) => g[i].of.rec \in {0, r}
        /\ \A i \in Heads(g) : from < i /\ i <= from + HeaderSize => g[i].of.frag = 1
        /\ to >= 0 => to > 0
        /\ to >= 0 /\ to <= Len(g) =>
             /\ g[to].of.rec = r /\ ~Opens(g[to]) /\ g[to].at = HeaderSize + g[to].of.length
    <3>1. from \in Nat /\ Boundary(g, from) /\ (to >= 0 => to > 0)
      BY <1>5, <2>1
    <3>2. \A i \in DOMAIN g : g[i].of.rec = r => from < i /\ (to >= 0 => i <= to)
      BY <1>2, <2>1
    <3>3. \A i \in DOMAIN g : from < i /\ (to >= 0 => i <= to) => g[i].of.rec \in {0, r}
      BY <1>2, <2>1
    <3>4. \A i \in Heads(g) : from < i /\ i <= from + HeaderSize => g[i].of.frag = 1
      BY <1>3, <2>1
    <3>5. to >= 0 /\ to <= Len(g) =>
            /\ g[to].of.rec = r /\ ~Opens(g[to]) /\ g[to].at = HeaderSize + g[to].of.length
      BY <2>1, <2>3
    <3> QED
      BY <3>1, <3>2, <3>3, <3>4, <3>5
  <2> QED
    BY <2>4 DEF ExtentHolds, Lies, from, to
<1> QED
  BY <1>5, <1>6, <1>7, <1>8, <1>9, <1>10, <1>11, <1>12 DEF WellFormed

-----------------------------------------------------------------------------
(* A turn of AddRecord's loop keeps the form *)

\* g is f with a trailer of t zeros and the record p, all in one block.
Appended(f, g, t, p) ==
  /\ t \in Nat /\ t < HeaderSize /\ p \in PhysicalRecord
  /\ Len(g) = Len(f) + t + HeaderSize + p.length
  /\ \A i \in DOMAIN f : g[i] = f[i]
  /\ \A i \in DOMAIN g : i > Len(f) /\ i <= Len(f) + t => g[i] = Zero
  /\ \A i \in DOMAIN g : i > Len(f) + t => g[i] = [of |-> p, at |-> i - Len(f) - t]
  /\ \E s \in BlockStarts : s <= Len(f) + t /\ Len(g) <= s + BlockSize /\ (t > 0 => s = Len(f) + t)
  /\ \A s \in BlockStarts : Len(f) <= s /\ s < Len(g) => s = Len(f) + t

LEMMA AppendedParts ==
  ASSUME NEW f \in Seq(Byte), NEW g \in Seq(Byte), NEW t, NEW p, Appended(f, g, t, p)
  PROVE  /\ Len(f) \in Nat /\ Len(g) \in Nat /\ t \in Nat /\ p.length \in Nat /\ HeaderSize \in Nat \ {0}
         /\ Len(f) + t + 1 <= Len(g) /\ DOMAIN f = 1..Len(f) /\ DOMAIN g = 1..Len(g)
         /\ Len(f) + t + 1 \in Heads(g) /\ g[Len(f) + t + 1].of = p /\ Behind(g, Len(f) + t + 1) = Len(g)
         /\ \A i \in Heads(g) : \/ i \in Heads(f) /\ g[i] = f[i] /\ Behind(g, i) = Behind(f, i)
                                \/ i = Len(f) + t + 1
         /\ \A i \in DOMAIN g : \/ i \in DOMAIN f /\ g[i] = f[i]
                                \/ i > Len(f) /\ i <= Len(f) + t /\ g[i] = Zero
                                \/ i > Len(f) + t /\ g[i] = [of |-> p, at |-> i - Len(f) - t]
<1> DEFINE h == Len(f) + t + 1
           length == p.length
<1>1. /\ Len(f) \in Nat /\ Len(g) \in Nat /\ t \in Nat /\ length \in Nat /\ HeaderSize \in Nat \ {0}
      /\ DOMAIN f = 1..Len(f) /\ DOMAIN g = 1..Len(g) /\ Len(g) = Len(f) + t + HeaderSize + length
  BY Constants DEF Appended, PhysicalRecord
<1> HIDE DEF length
<1>2. h \in Nat /\ h <= Len(g) /\ h \in DOMAIN g /\ h > Len(f) + t /\ h - Len(f) - t = 1
  BY <1>1
<1>3. g[h] = [of |-> p, at |-> 1]
  BY <1>2 DEF Appended
<1>4. h \in Heads(g) /\ g[h].of = p
  BY <1>2, <1>3 DEF Heads
<1>5. Behind(g, h) = h - 1 + HeaderSize + length
  BY <1>3 DEF Behind, length
<1>6. Behind(g, h) = Len(g)
  <2>1. h - 1 + HeaderSize + length = Len(g)
    BY <1>1
  <2> QED
    BY <1>5, <2>1
<1>7. ASSUME NEW i \in DOMAIN g
      PROVE  \/ i \in DOMAIN f /\ g[i] = f[i]
             \/ i > Len(f) /\ i <= Len(f) + t /\ g[i] = Zero
             \/ i > Len(f) + t /\ g[i] = [of |-> p, at |-> i - Len(f) - t]
  <2>1. i \in DOMAIN f \/ (i > Len(f) /\ i <= Len(f) + t) \/ i > Len(f) + t
    BY <1>1
  <2>2. i > Len(f) /\ i <= Len(f) + t => g[i] = Zero
    BY DEF Appended
  <2>3. i > Len(f) + t => g[i] = [of |-> p, at |-> i - Len(f) - t]
    BY DEF Appended
  <2> QED
    BY <2>1, <2>2, <2>3 DEF Appended
<1>8. ASSUME NEW i \in Heads(g)
      PROVE  \/ i \in Heads(f) /\ g[i] = f[i] /\ Behind(g, i) = Behind(f, i)
             \/ i = h
  <2>1. i \in DOMAIN g /\ g[i].at = 1 /\ i \in Nat
    BY <1>1 DEF Heads
  <2>2. CASE i \in DOMAIN f /\ g[i] = f[i]
    BY <2>1, <2>2 DEF Heads, Behind
  <2>3. CASE i > Len(f) /\ i <= Len(f) + t /\ g[i] = Zero
    BY <2>1, <2>3, ZeroAndDamage
  <2>4. CASE i > Len(f) + t /\ g[i] = [of |-> p, at |-> i - Len(f) - t]
    <3>1. i - Len(f) - t = 1
      BY <2>1, <2>4
    <3>2. i = h
      <4> DEFINE n == Len(f)
      <4>1. n \in Nat /\ t \in Nat /\ i \in Nat /\ i - n - t = 1
        BY <1>1, <2>1, <3>1
      <4> HIDE DEF n
      <4>2. i = n + t + 1
        BY <4>1
      <4> QED
        BY <4>2 DEF n
    <3> QED
      BY <3>2
  <2> QED
    BY <1>7, <2>1, <2>2, <2>3, <2>4
<1>9. p.length \in Nat /\ h = Len(f) + t + 1
  BY <1>1 DEF length
<1>10. h \in Heads(g) /\ g[h].of = p /\ Behind(g, h) = Len(g) /\ h <= Len(g)
  BY <1>2, <1>4, <1>6
<1>11. /\ Len(f) \in Nat /\ Len(g) \in Nat /\ t \in Nat /\ HeaderSize \in Nat \ {0}
       /\ DOMAIN f = 1..Len(f) /\ DOMAIN g = 1..Len(g)
  BY <1>1
<1>12. \A i \in Heads(g) : \/ i \in Heads(f) /\ g[i] = f[i] /\ Behind(g, i) = Behind(f, i)
                           \/ i = Len(f) + t + 1
  BY <1>8
<1>13. \A i \in DOMAIN g : \/ i \in DOMAIN f /\ g[i] = f[i]
                           \/ i > Len(f) /\ i <= Len(f) + t /\ g[i] = Zero
                           \/ i > Len(f) + t /\ g[i] = [of |-> p, at |-> i - Len(f) - t]
  BY <1>7
<1> HIDE DEF h
<1> QED
  BY <1>9, <1>10, <1>11, <1>12, <1>13

\* What was a boundary still is one, and the end of the file has become one.
LEMMA AppendedBoundary ==
  ASSUME NEW f \in Seq(Byte), NEW g \in Seq(Byte), NEW t, NEW p, Appended(f, g, t, p),
         NEW q \in Nat, q <= Len(f), Boundary(f, q)
  PROVE  Boundary(g, q)
<1>1. /\ Len(f) \in Nat /\ Len(g) \in Nat /\ t \in Nat /\ DOMAIN f = 1..Len(f) /\ DOMAIN g = 1..Len(g)
      /\ Len(f) + t + 1 <= Len(g) /\ Len(f) + t + 1 \in Heads(g) /\ HeaderSize \in Nat /\ t < HeaderSize
  <2>1. /\ Len(f) \in Nat /\ Len(g) \in Nat /\ t \in Nat /\ DOMAIN f = 1..Len(f) /\ DOMAIN g = 1..Len(g)
        /\ Len(f) + t + 1 <= Len(g) /\ Len(f) + t + 1 \in Heads(g) /\ HeaderSize \in Nat \ {0}
    BY AppendedParts
  <2>2. t < HeaderSize
    BY DEF Appended
  <2> QED
    BY <2>1, <2>2
<1>2. CASE q < Len(f)
  <2>1. q + 1 \in DOMAIN f
    BY <1>1, <1>2
  <2>2. g[q + 1] = f[q + 1]
    BY <2>1 DEF Appended
  <2> QED
    BY <1>2, <2>2 DEF Boundary
<1>3. CASE q = Len(f) /\ t = 0
  <2>1. Len(f) + t + 1 = q + 1
    BY <1>1, <1>3
  <2>2. g[q + 1].at = 1
    BY <1>1, <2>1 DEF Heads
  <2> QED
    BY <2>2 DEF Boundary
<1>4. CASE q = Len(f) /\ t > 0
  <2>1. q + 1 \in DOMAIN g /\ q + 1 > Len(f) /\ q + 1 <= Len(f) + t
    BY <1>1, <1>4
  <2>2. g[q + 1] = Zero
    BY <2>1 DEF Appended
  <2>3. Len(f) + t \in BlockStarts
    BY <1>4 DEF Appended
  <2>4. q < Len(f) + t /\ Len(f) + t < q + HeaderSize
    BY <1>1, <1>4
  <2> QED
    BY <2>2, <2>3, <2>4, ZeroAndDamage DEF Boundary
<1>5. Len(f) \in Nat /\ t \in Nat /\ q <= Len(f)
  BY <1>1
<1>6. q < Len(f) \/ q = Len(f)
  <2> DEFINE n == Len(f)
  <2> HIDE DEF n
  <2>1. n \in Nat /\ q <= n
    BY <1>5 DEF n
  <2>2. q < n \/ q = n
    BY <2>1
  <2> QED
    BY <2>2 DEF n
<1>7. t = 0 \/ t > 0
  BY <1>5
<1> QED
  BY <1>2, <1>3, <1>4, <1>6, <1>7

LEMMA AppendedIsFormed ==
  ASSUME NEW f \in Seq(Byte), NEW g \in Seq(Byte), NEW t, NEW p, Appended(f, g, t, p), WellFormed(f),
         \A i \in Heads(f) : Behind(f, i) <= Len(f),
         f = <<>> => p.type \notin {"middle", "last"},
         \A i \in DOMAIN f : i + HeaderSize > Len(f) /\ f[i].at > 0 =>
           (p.type \in {"middle", "last"} <=> Opens(f[i]))
  PROVE  WellFormed(g) /\ \A i \in Heads(g) : Behind(g, i) <= Len(g)
<1> DEFINE h == Len(f) + t + 1
<1>1. /\ Len(f) \in Nat /\ Len(g) \in Nat /\ t \in Nat /\ DOMAIN f = 1..Len(f) /\ DOMAIN g = 1..Len(g)
      /\ p \in PhysicalRecord /\ p.length \in Nat /\ HeaderSize \in Nat \ {0} /\ t < HeaderSize
      /\ Len(g) = Len(f) + t + HeaderSize + p.length
  <2>1. /\ Len(f) \in Nat /\ Len(g) \in Nat /\ t \in Nat /\ DOMAIN f = 1..Len(f) /\ DOMAIN g = 1..Len(g)
        /\ p.length \in Nat /\ HeaderSize \in Nat \ {0}
    BY AppendedParts
  <2>2. p \in PhysicalRecord /\ t < HeaderSize /\ Len(g) = Len(f) + t + HeaderSize + p.length
    BY DEF Appended
  <2> QED
    BY <2>1, <2>2
<1>2. h \in Heads(g) /\ g[h].of = p /\ Behind(g, h) = Len(g) /\ h <= Len(g) /\ h \in Nat
  BY <1>1, AppendedParts
<1>3. \A i \in Heads(g) : \/ i \in Heads(f) /\ g[i] = f[i] /\ Behind(g, i) = Behind(f, i)
                          \/ i = h
  BY AppendedParts
<1>4. \A i \in DOMAIN g : \/ i \in DOMAIN f /\ g[i] = f[i]
                          \/ i > Len(f) /\ i <= Len(f) + t /\ g[i] = Zero
                          \/ i > Len(f) + t /\ g[i] = [of |-> p, at |-> i - Len(f) - t]
  BY AppendedParts
<1>5. \A i \in Heads(f) : i \in Heads(g) /\ g[i] = f[i] /\ Behind(g, i) = Behind(f, i)
  <2>1. \A i \in DOMAIN f : i \in DOMAIN g /\ g[i] = f[i]
    BY <1>1 DEF Appended
  <2> QED
    BY <2>1 DEF Heads, Behind
<1>6. \A i \in Heads(g) : Behind(g, i) <= Len(g)
  <2> SUFFICES ASSUME NEW i \in Heads(g) PROVE Behind(g, i) <= Len(g)
    OBVIOUS
  <2>1. CASE i \in Heads(f) /\ Behind(g, i) = Behind(f, i)
    <3>1. Behind(f, i) \in Nat /\ Behind(f, i) <= Len(f)
      BY <2>1, HeadFacts
    <3> QED
      BY <1>1, <2>1, <3>1
  <2>2. CASE i = h
    BY <1>1, <1>2, <2>2
  <2> QED
    BY <1>3, <2>1, <2>2
<1> HIDE DEF h
<1>7. RecordsAreWhole(g)
  <2> SUFFICES ASSUME NEW i \in Heads(g)
               PROVE  /\ g[i].of \in PhysicalRecord
                      /\ \A k \in 1..HeaderSize + g[i].of.length :
                           i + k - 1 <= Len(g) => g[i + k - 1] = [of |-> g[i].of, at |-> k]
    BY DEF RecordsAreWhole
  <2> SUFFICES ASSUME NEW k \in 1..HeaderSize + g[i].of.length, i + k - 1 <= Len(g)
               PROVE  g[i + k - 1] = [of |-> g[i].of, at |-> k]
    BY HeadFacts
  <2>0. k \in Nat /\ 1 <= k /\ k <= HeaderSize + g[i].of.length /\ i \in Nat /\ 1 <= i
        /\ HeaderSize + g[i].of.length \in Nat
    BY HeadFacts
  <2>1. CASE i \in Heads(f) /\ g[i] = f[i] /\ Behind(g, i) = Behind(f, i)
    <3>1. Behind(f, i) <= Len(f) /\ Behind(f, i) = i - 1 + HeaderSize + f[i].of.length /\ f[i].of.length \in Nat
      BY <2>1, HeadFacts DEF Behind
    <3> DEFINE length == f[i].of.length
               j == i + k - 1
    <3>2. k \in 1..HeaderSize + length /\ length \in Nat
      BY <2>1, <3>1
    <3>3. i - 1 + HeaderSize + length <= Len(f)
      BY <3>1
    <3> HIDE DEF length
    <3>4. j <= Len(f) /\ j \in DOMAIN f
      BY <1>1, <2>0, <3>2, <3>3
    <3>5. f[j] = [of |-> f[i].of, at |-> k]
      BY <2>1, <3>2, <3>4 DEF WellFormed, RecordsAreWhole, length
    <3> HIDE DEF j
    <3>6. g[j] = f[j]
      BY <3>4 DEF Appended
    <3> QED
      BY <2>1, <3>5, <3>6 DEF j
  <2>2. CASE i = h
    <3> DEFINE j == i + k - 1
    <3>1. j \in DOMAIN g /\ j > Len(f) + t /\ j - Len(f) - t = k
      BY <1>1, <2>0, <2>2 DEF h
    <3> HIDE DEF j
    <3>2. g[j] = [of |-> p, at |-> k]
      BY <3>1 DEF Appended
    <3> QED
      BY <1>2, <2>2, <3>2 DEF j
  <2> QED
    BY <1>3, <2>1, <2>2
<1>8. HeadsAreThere(g)
  <2> SUFFICES ASSUME NEW i \in DOMAIN g, g[i].at > 0
               PROVE  \E head \in Heads(g) : head = i - g[i].at + 1 /\ g[head].of = g[i].of /\ i <= Behind(g, head)
    BY DEF HeadsAreThere
  <2>1. CASE i \in DOMAIN f /\ g[i] = f[i]
    <3>1. /\ i - f[i].at + 1 \in Heads(f) /\ f[i - f[i].at + 1].of = f[i].of
          /\ i <= Behind(f, i - f[i].at + 1)
      BY <2>1 DEF WellFormed, HeadsAreThere
    <3> DEFINE head == i - f[i].at + 1
    <3>2. head \in Heads(f) /\ f[head].of = f[i].of /\ i <= Behind(f, head) /\ head = i - g[i].at + 1
      BY <2>1, <3>1
    <3> HIDE DEF head
    <3>3. head \in Heads(g) /\ g[head] = f[head] /\ Behind(g, head) = Behind(f, head)
      BY <1>5, <3>2
    <3> QED
      BY <2>1, <3>2, <3>3
  <2>2. CASE i > Len(f) /\ i <= Len(f) + t /\ g[i] = Zero
    BY <2>2, ZeroAndDamage
  <2>3. CASE i > Len(f) + t /\ g[i] = [of |-> p, at |-> i - Len(f) - t]
    <3>1. g[i].at = i - Len(f) - t /\ g[i].of = p
      BY <2>3
    <3>2. i - g[i].at + 1 = h /\ i <= Len(g)
      BY <1>1, <3>1 DEF h
    <3> QED
      BY <1>2, <3>1, <3>2
  <2> QED
    BY <1>4, <2>1, <2>2, <2>3
<1>9. RecordsAreInBlocks(g)
  <2> SUFFICES ASSUME NEW i \in Heads(g)
               PROVE  \E s \in BlockStarts : s < i /\ Behind(g, i) <= s + BlockSize
    BY DEF RecordsAreInBlocks
  <2>1. CASE i \in Heads(f) /\ Behind(g, i) = Behind(f, i)
    BY <2>1 DEF WellFormed, RecordsAreInBlocks
  <2>2. CASE i = h
    <3>1. PICK s \in BlockStarts : s <= Len(f) + t /\ Len(g) <= s + BlockSize
      BY DEF Appended
    <3>2. s < i
      BY <1>1, <2>2, <3>1, StartsAreApart DEF h
    <3> QED
      BY <1>2, <2>2, <3>1, <3>2
  <2> QED
    BY <1>3, <2>1, <2>2
<1>10. NextIsNear(g)
  <2> SUFFICES ASSUME NEW i \in Heads(g) PROVE Boundary(g, Behind(g, i))
    BY DEF NextIsNear
  <2>1. CASE i \in Heads(f) /\ Behind(g, i) = Behind(f, i)
    <3> DEFINE q == Behind(f, i)
    <3>1. q \in Nat /\ q <= Len(f) /\ Boundary(f, q)
      BY <2>1, HeadFacts DEF WellFormed, NextIsNear
    <3> HIDE DEF q
    <3>2. Boundary(g, q)
      BY <3>1, AppendedBoundary
    <3> QED
      BY <2>1, <3>2 DEF q
  <2>2. CASE i = h
    <3>1. ~(Behind(g, i) < Len(g))
      BY <1>1, <1>2, <2>2
    <3> QED
      BY <3>1 DEF Boundary
  <2> QED
    BY <1>3, <2>1, <2>2
<1>11. BlocksBegin(g)
  <2> SUFFICES ASSUME NEW s \in BlockStarts, s < Len(g) PROVE g[s + 1].at = 1
    BY DEF BlocksBegin
  <2>1. s \in Nat
    BY StartsAreApart
  <2>2. CASE s < Len(f)
    <3>1. s + 1 \in DOMAIN f
      BY <1>1, <2>1, <2>2
    <3> QED
      BY <2>2, <3>1 DEF Appended, WellFormed, BlocksBegin
  <2>3. CASE Len(f) <= s
    <3>1. s = Len(f) + t
      BY <2>3 DEF Appended
    <3>2. s + 1 = h
      BY <1>1, <3>1 DEF h
    <3> QED
      BY <1>2, <3>2 DEF Heads
  <2> QED
    BY <1>1, <2>1, <2>2, <2>3
<1>12. TypesAlternate(g)
  <2>1. Continues(g[h]) <=> p.type \in {"middle", "last"}
    BY <1>2 DEF Continues
  <2>2. ASSUME 1 \in DOMAIN g PROVE ~Continues(g[1])
    <3>1. CASE 1 \in DOMAIN f
      BY <3>1 DEF Appended, WellFormed, TypesAlternate
    <3>2. CASE 1 \notin DOMAIN f
      <4>1. Len(f) = 0
        BY <1>1, <3>2
      <4>2. f = <<>>
        BY <4>1, EmptySeq
      <4>3. CASE t = 0
        <5>1. h = 1
          BY <1>1, <4>1, <4>3 DEF h
        <5> QED
          BY <2>1, <4>2, <5>1
      <4>4. CASE t > 0
        <5>1. 1 > Len(f) /\ 1 <= Len(f) + t
          BY <1>1, <4>1, <4>4
        <5>2. g[1] = Zero
          BY <2>2, <5>1 DEF Appended
        <5> QED
          BY <5>2 DEF Continues, Zero, Not
      <4> QED
        BY <1>1, <4>3, <4>4
    <3> QED
      BY <3>1, <3>2
  <2>3. ASSUME NEW i \in DOMAIN g, NEW j \in Heads(g), i < j, j - i <= HeaderSize, g[i].at > 0
        PROVE  Continues(g[j]) <=> Opens(g[i])
    <3>1. CASE j \in Heads(f) /\ g[j] = f[j]
      <4>1. i \in DOMAIN f
        <5>1. j \in Nat /\ j <= Len(f)
          BY <3>1, HeadFacts
        <5> QED
          BY <1>1, <2>3, <5>1
      <4>2. g[i] = f[i]
        BY <4>1 DEF Appended
      <4> QED
        BY <2>3, <3>1, <4>1, <4>2 DEF WellFormed, TypesAlternate
    <3>2. CASE j = h
      <4>1. i <= Len(f) + t /\ i + HeaderSize > Len(f)
        BY <1>1, <2>3, <3>2 DEF h
      <4>2. ~(i > Len(f) + t)
        BY <1>1, <4>1
      <4>3. g[i] # Zero
        BY <2>3, ZeroAndDamage
      <4>4. i \in DOMAIN f /\ g[i] = f[i]
        BY <1>4, <4>2, <4>3
      <4>5. p.type \in {"middle", "last"} <=> Opens(f[i])
        BY <2>3, <4>1, <4>4
      <4> QED
        BY <2>1, <3>2, <4>4, <4>5
    <3> QED
      BY <1>3, <3>1, <3>2
  <2> QED
    BY <2>2, <2>3 DEF TypesAlternate
<1> QED
  BY <1>6, <1>7, <1>8, <1>9, <1>10, <1>11, <1>12 DEF WellFormed

\* A turn of the loop puts a trailer and a record where the writer is.
LEMMA TurnAppends ==
  ASSUME WriterType, left >= 0, extents # <<>>, file' = file \o Turn(Len(Trailer)),
         NEW s \in BlockStarts, Len(file) = s + blockOffset
  PROVE  /\ file' \in Seq(Byte) /\ Appended(file, file', Len(Trailer), Fragment)
         /\ \E b \in BlockStarts : Len(file') = b + (Offset + HeaderSize + Fragment.length)
<1> DEFINE t == Len(Trailer)
           length == Fragment.length
           n == Len(file)
           m == Len(file')
           turn == Turn(t)
<1>1. /\ Fragment \in PhysicalRecord /\ t < HeaderSize
      /\ Offset + HeaderSize + length \in 0..BlockSize
  BY FragmentType
<1>2. t \in 0..Len(Trailer) /\ Reaches(t, Len(turn))
  BY WholeTrailer, AllReach
<1>3. /\ Len(turn) = t + HeaderSize + length /\ t \in Nat /\ length \in Nat
  BY <1>2, TurnBytes
<1>4. /\ n \in Nat /\ m = n + Len(turn) /\ file' \in Seq(Byte)
      /\ \A i \in 1..m :
           \/ i \in 1..n /\ file'[i] = file[i]
           \/ i > n /\ i <= n + t /\ file'[i] = Zero
           \/ i > n + t /\ file'[i] = [of |-> Fragment, at |-> i - n - t]
  BY <1>2, ReachedBytes
<1>5. m = n + t + HeaderSize + length
  <2> HIDE DEF n, m, t, length, turn
  <2>1. Len(turn) = t + HeaderSize + length /\ HeaderSize \in Nat
    BY <1>3, Constants
  <2> QED
    BY <1>3, <1>4, <2>1
<1>6. /\ blockOffset \in 0..BlockSize /\ BlockSize \in Nat /\ HeaderSize \in Nat \ {0} /\ HeaderSize < BlockSize
      /\ s \in Nat /\ n = s + blockOffset
  BY Constants, StartsAreApart DEF WriterType
<1>7. DOMAIN file = 1..n /\ DOMAIN file' = 1..m
  BY <1>4 DEF WriterType
<1>8. \/ /\ blockOffset > BlockSize - HeaderSize /\ t = BlockSize - blockOffset /\ Offset = 0
      \/ /\ blockOffset <= BlockSize - HeaderSize /\ t = 0 /\ Offset = blockOffset
  <2>1. CASE Leftover < HeaderSize
    <3>1. Offset = 0 /\ Trailer = [i \in 1..Leftover |-> Zero]
      BY <2>1 DEF Offset, Trailer
    <3>2. Leftover \in Nat /\ Leftover = BlockSize - blockOffset
      BY <1>6 DEF Leftover
    <3>3. t = Leftover
      BY <3>1, <3>2
    <3>4. blockOffset > BlockSize - HeaderSize
      BY <1>6, <2>1, <3>2
    <3> QED
      BY <3>1, <3>2, <3>3, <3>4
  <2>2. CASE ~(Leftover < HeaderSize)
    <3>1. Offset = blockOffset /\ Trailer = <<>>
      BY <2>2 DEF Offset, Trailer
    <3>2. Leftover = BlockSize - blockOffset
      BY DEF Leftover
    <3>3. t = 0
      BY <3>1
    <3>4. blockOffset <= BlockSize - HeaderSize
      BY <1>6, <2>2, <3>2
    <3> QED
      BY <3>1, <3>3, <3>4
  <2> QED
    BY <2>1, <2>2
<1> HIDE DEF t, length, n, m
<1>9. \E b \in BlockStarts : /\ n + t = b + Offset /\ (t > 0 => b = n + t)
                             /\ \A u \in BlockStarts : n <= u /\ u < b + BlockSize => u = n + t
  <2>1. CASE blockOffset > BlockSize - HeaderSize /\ t = BlockSize - blockOffset /\ Offset = 0
    <3> DEFINE b == s + BlockSize
    <3>1. b \in BlockStarts
      BY StartsAreApart
    <3>2. b \in Nat /\ n + t = b /\ n > s
      BY <1>3, <1>6, <2>1
    <3>3. ASSUME NEW u \in BlockStarts, n <= u, u < b + BlockSize PROVE u = n + t
      <4>1. u \in Nat
        BY StartsAreApart
      <4>2. s < u
        BY <1>4, <1>6, <3>2, <3>3, <4>1
      <4>3. b <= u
        BY <4>2, StartsAreApart
      <4>4. ~(b < u)
        <5> SUFFICES ASSUME b < u PROVE FALSE
          OBVIOUS
        <5> HIDE DEF b
        <5>1. b + BlockSize <= u
          BY <3>1, StartsAreApart
        <5> QED
          BY <1>6, <3>2, <3>3, <4>1, <5>1
      <4> HIDE DEF b
      <4> QED
        BY <3>2, <4>1, <4>3, <4>4
    <3> HIDE DEF b
    <3>4. n + t = b + Offset
      BY <2>1, <3>2
    <3> QED
      BY <3>1, <3>2, <3>3, <3>4
  <2>2. CASE blockOffset <= BlockSize - HeaderSize /\ t = 0 /\ Offset = blockOffset
    <3>1. ASSUME NEW u \in BlockStarts, n <= u, u < s + BlockSize PROVE u = n + t
      <4>1. u \in Nat
        BY StartsAreApart
      <4>2. ~(s < u)
        <5> SUFFICES ASSUME s < u PROVE FALSE
          OBVIOUS
        <5>1. s + BlockSize <= u
          BY StartsAreApart
        <5> QED
          BY <1>6, <3>1, <4>1, <5>1
      <4> QED
        BY <1>4, <1>6, <2>2, <3>1, <4>1, <4>2
    <3>2. n + t = s + Offset /\ ~(t > 0)
      BY <1>4, <1>6, <2>2
    <3> QED
      BY <3>1, <3>2
  <2> QED
    BY <1>8, <2>1, <2>2
<1>10. PICK b \in BlockStarts : /\ n + t = b + Offset /\ (t > 0 => b = n + t)
                                /\ \A u \in BlockStarts : n <= u /\ u < b + BlockSize => u = n + t
  BY <1>9
<1>11. b \in Nat /\ Offset \in Nat
  <2>1. b \in Nat
    BY StartsAreApart
  <2>2. Offset \in Nat
    BY <1>6, <1>8
  <2> QED
    BY <2>1, <2>2
<1>12. m = b + (Offset + HeaderSize + length) /\ b <= n + t /\ m <= b + BlockSize
  <2> DEFINE o == Offset
  <2>1. /\ n \in Nat /\ t \in Nat /\ length \in Nat /\ HeaderSize \in Nat /\ BlockSize \in Nat
        /\ o \in Nat /\ b \in Nat /\ n + t = b + o /\ m = n + t + HeaderSize + length
    BY <1>3, <1>4, <1>5, <1>6, <1>10, <1>11
  <2>2. o + HeaderSize + length \in 0..BlockSize
    BY <1>1
  <2> HIDE DEF o
  <2>3. m = b + (o + HeaderSize + length) /\ b <= n + t
    BY <2>1
  <2>4. m <= b + BlockSize
    BY <2>1, <2>2, <2>3
  <2> QED
    BY <2>3, <2>4 DEF o
<1>13. ASSUME NEW u \in BlockStarts, n <= u, u < m PROVE u = n + t
  <2>1. u \in Nat
    BY StartsAreApart
  <2>2. u < b + BlockSize
    <3>1. m \in Nat /\ m <= b + BlockSize /\ BlockSize \in Nat
      <4>1. n \in Nat /\ t \in Nat /\ length \in Nat /\ HeaderSize \in Nat
        BY <1>3, <1>4, <1>6
      <4> QED
        BY <1>5, <1>6, <1>12, <4>1
    <3> QED
      BY <1>11, <1>13, <2>1, <3>1
  <2> QED
    BY <1>10, <1>13, <2>2
<1>14. \A i \in DOMAIN file : file'[i] = file[i]
  <2> SUFFICES ASSUME NEW i \in 1..n PROVE file'[i] = file[i]
    BY <1>7
  <2>1. i \in 1..m /\ ~(i > n)
    <3>1. n \in Nat /\ t \in Nat /\ length \in Nat /\ HeaderSize \in Nat
      BY <1>3, <1>4, <1>6
    <3>2. n <= m /\ m \in Nat
      BY <1>5, <3>1
    <3> QED
      BY <3>1, <3>2
  <2>2. i \in Nat /\ ~(i > n + t)
    BY <1>3, <1>4
  <2> QED
    BY <1>4, <2>1, <2>2
<1>15. \A i \in DOMAIN file' : i > n /\ i <= n + t => file'[i] = Zero
  <2> SUFFICES ASSUME NEW i \in 1..m, i > n, i <= n + t PROVE file'[i] = Zero
    BY <1>7
  <2>1. ~(i \in 1..n) /\ ~(i > n + t)
    BY <1>3, <1>4
  <2> QED
    BY <1>4, <2>1
<1>16. \A i \in DOMAIN file' : i > n + t => file'[i] = [of |-> Fragment, at |-> i - n - t]
  <2> SUFFICES ASSUME NEW i \in 1..m, i > n + t PROVE file'[i] = [of |-> Fragment, at |-> i - n - t]
    BY <1>7
  <2>1. ~(i \in 1..n) /\ ~(i <= n + t)
    BY <1>3, <1>4
  <2> QED
    BY <1>4, <2>1
<1>17. Appended(file, file', Len(Trailer), Fragment)
  <2>1. Len(file') = Len(file) + Len(Trailer) + HeaderSize + Fragment.length
    BY <1>5 DEF n, m, t, length
  <2>2. Len(Trailer) \in Nat /\ Len(Trailer) < HeaderSize /\ Fragment \in PhysicalRecord
    BY <1>1, <1>3 DEF t
  <2>3. \E c \in BlockStarts : /\ c <= Len(file) + Len(Trailer) /\ Len(file') <= c + BlockSize
                               /\ Len(Trailer) > 0 => c = Len(file) + Len(Trailer)
    BY <1>10, <1>12 DEF n, m, t
  <2>4. \A u \in BlockStarts : Len(file) <= u /\ u < Len(file') => u = Len(file) + Len(Trailer)
    BY <1>13 DEF n, m, t
  <2>5. /\ \A i \in DOMAIN file : file'[i] = file[i]
        /\ \A i \in DOMAIN file' : i > Len(file) /\ i <= Len(file) + Len(Trailer) => file'[i] = Zero
        /\ \A i \in DOMAIN file' : i > Len(file) + Len(Trailer) =>
             file'[i] = [of |-> Fragment, at |-> i - Len(file) - Len(Trailer)]
    BY <1>14, <1>15, <1>16 DEF n, t
  <2> QED
    BY <2>1, <2>2, <2>3, <2>4, <2>5 DEF Appended
<1>18. \E c \in BlockStarts : Len(file') = c + (Offset + HeaderSize + Fragment.length)
  BY <1>12 DEF m, length
<1> QED
  BY <1>4, <1>17, <1>18

\* A record that is all there is at least as long as a header, and where reading may
\* begin or go on before its end, a header of it fits.
LEMMA ExtentLong ==
  ASSUME NEW f \in Seq(Byte), WellFormed(f), NEW r \in Nat \ {0}, ExtentHolds(f, r),
         extents[r].to \in Int, extents[r].to >= 0, extents[r].to <= Len(f)
  PROVE  /\ extents[r].from \in Nat /\ extents[r].to \in DOMAIN f
         /\ extents[r].from + HeaderSize <= extents[r].to
         /\ \A q \in Nat : Boundary(f, q) /\ q < extents[r].to => q + HeaderSize <= extents[r].to
<1> DEFINE from == extents[r].from
           to == extents[r].to
<1>1. /\ from \in Nat /\ \A i \in DOMAIN f : f[i].of.rec = r => from < i
      /\ to > 0 /\ f[to].of.rec = r /\ f[to].at = HeaderSize + f[to].of.length
  BY DEF ExtentHolds, Lies
<1>2. to \in Int /\ to <= Len(f) /\ Len(f) \in Nat
  OBVIOUS
<1> HIDE DEF from, to
<1>3. to \in DOMAIN f /\ to \in Nat
  BY <1>1, <1>2
<1>4. f[to].of \in PhysicalRecord /\ f[to].at > 0
  <2>1. f[to].at \in Nat /\ (f[to].at = 0 => f[to].of.rec = 0)
    BY <1>3, ByteFacts
  <2>2. f[to].at > 0
    BY <1>1, <2>1
  <2> QED
    BY <1>3, <2>2, ByteFacts
<1> DEFINE length == f[to].of.length
           at == f[to].at
           head == to - at + 1
<1>5. length \in Nat /\ HeaderSize \in Nat \ {0} /\ at = HeaderSize + length
  BY <1>1, <1>4, Constants DEF PhysicalRecord
<1>6. head \in Heads(f) /\ f[head].of = f[to].of /\ to <= Behind(f, head)
  BY <1>3, <1>4 DEF WellFormed, HeadsAreThere
<1> HIDE DEF length, at
<1>7. head \in Nat /\ head + HeaderSize <= to + 1
  <2>1. head \in Nat
    BY <1>6, HeadFacts
  <2> QED
    BY <1>3, <1>5, <2>1
<1>8. head = to - at + 1
  OBVIOUS
<1> HIDE DEF head
<1>9. from < head
  <2>1. head \in DOMAIN f
    BY <1>6, HeadFacts
  <2> QED
    BY <1>1, <1>6, <2>1
<1>10. from + HeaderSize <= to
  BY <1>1, <1>3, <1>5, <1>7, <1>9
<1>11. ASSUME NEW q \in Nat, Boundary(f, q), q < to PROVE q + HeaderSize <= to
  <2> SUFFICES ASSUME q + HeaderSize > to PROVE FALSE
    BY <1>3, <1>5
  <2>1. head <= q /\ q + 1 <= to /\ q + 1 \in Nat /\ q < Len(f) /\ q + 1 <= Len(f) /\ head <= q + 1
    BY <1>2, <1>3, <1>5, <1>7, <1>11
  <2>2. q + 1 <= Behind(f, head)
    <3>1. Behind(f, head) \in Nat
      BY <1>6, HeadFacts
    <3> QED
      BY <1>3, <1>6, <2>1, <3>1
  <2>3. f[q + 1] = [of |-> f[head].of, at |-> (q + 1) - head + 1]
    BY <1>6, <2>1, <2>2, RecordBytes DEF WellFormed
  <2>4. f[q + 1].at = (q + 1) - head + 1
    BY <2>3
  <2>5. f[q + 1].at = 0 \/ f[q + 1].at = 1
    BY <1>11, <2>1 DEF Boundary
  <2> QED
    BY <1>7, <2>1, <2>4, <2>5
<1> QED
  BY <1>1, <1>3, <1>10, <1>11 DEF from, to

\* The extents are numbers.
LEMMA ExtentType ==
  ASSUME WriterType
  PROVE  /\ DOMAIN extents = 1..Len(extents) /\ Len(extents) \in Nat
         /\ \A r \in DOMAIN extents : r \in Nat \ {0} /\ extents[r].from \in Nat /\ extents[r].to \in Int
<1>1. extents \in Seq([from : Nat, to : Int])
  BY DEF WriterType
<1>2. \A r \in 1..Len(extents) : extents[r] \in [from : Nat, to : Int]
  BY <1>1, ElementOf
<1> QED
  BY <1>1, <1>2

LEMMA AddRecordForm ==
  ASSUME IndInv, FormInv, NEW size \in Sizes, AddRecord(size)
  PROVE  FormInv'
<1>1. /\ phase = "writing" /\ left = -1 /\ left' = size /\ fragments' = 0
      /\ extents' = Append(extents, [from |-> Len(file), to |-> -1])
      /\ phase' = phase /\ file' = file /\ blockOffset' = blockOffset /\ failed' = failed
      /\ reported' = reported /\ eof' = eof
  BY DEF AddRecord, readerVars
<1>2. WriterType /\ \A i \in DOMAIN file : Rec(i) <= Len(extents)
  BY <1>1 DEF IndInv, WriterIsBehind
<1> DEFINE n == Len(extents)
<1>3. file \in Seq(Byte) /\ Len(file) \in Nat /\ n \in Nat /\ DOMAIN extents = 1..n /\ DOMAIN file = 1..Len(file)
  BY <1>2 DEF WriterType
<1>4. /\ Len(extents') = n + 1 /\ DOMAIN extents' = 1..n + 1
      /\ \A r \in 1..n : extents'[r] = extents[r]
      /\ extents'[n + 1] = [from |-> Len(file), to |-> -1]
  BY <1>1, <1>2 DEF WriterType
<1>5. /\ failed' \in Nat
      /\ phase' = "writing" => Damaged' = {} /\ reported' = FALSE /\ eof' = FALSE
  BY <1>1 DEF FormInv, Damaged
<1>6. ASSUME failed' = 0 PROVE Written'
  <2>1. WellFormed(file) /\ (\A r \in DOMAIN extents : ExtentHolds(file, r)) /\ WriterPlace
    BY <1>1, <1>6 DEF FormInv, Written
  <2>2. ASSUME NEW r \in DOMAIN extents' PROVE ExtentHolds(file, r)'
    <3>1. CASE r \in 1..n
      BY <1>1, <1>3, <1>4, <2>1, <3>1 DEF ExtentHolds, Lies
    <3>2. CASE r = n + 1
      <4>1. extents'[r].from = Len(file) /\ extents'[r].to = -1
        BY <1>4, <3>2
      <4>2. Boundary(file, Len(file))
        BY <1>3 DEF Boundary
      <4>3. \A i \in DOMAIN file : file[i].of.rec # r /\ ~(Len(file) < i)
        <5> SUFFICES ASSUME NEW i \in DOMAIN file PROVE file[i].of.rec # r /\ ~(Len(file) < i)
          OBVIOUS
        <5>1. file[i].of.rec <= n /\ file[i].of.rec \in Nat
          BY <1>2, <1>3, ByteFacts DEF Rec
        <5>2. i \in Nat /\ i <= Len(file)
          BY <1>3
        <5> QED
          BY <1>3, <3>2, <5>1, <5>2
      <4>4. \A i \in Heads(file) : ~(Len(file) < i)
        BY <4>3 DEF Heads
      <4> QED
        BY <1>1, <1>3, <4>1, <4>2, <4>3, <4>4 DEF ExtentHolds, Lies
    <3> QED
      BY <1>3, <1>4, <3>1, <3>2
  <2>3. WriterPlace'
    <3>1. /\ \E s \in BlockStarts : Len(file) = s + blockOffset
          /\ \A i \in Heads(file) : Behind(file, i) <= Len(file)
          /\ \A i \in DOMAIN file : i + HeaderSize > Len(file) => file[i].at > 0 /\ ~Opens(file[i])
          /\ \A r \in DOMAIN extents : extents[r].from <= Len(file) /\ extents[r].to <= Len(file)
          /\ \A r \in DOMAIN extents : ~(extents[r].to < 0)
      BY <1>1, <2>1 DEF WriterPlace
    <3>2. left' >= 0 /\ fragments' = 0
      BY <1>1, SizesAssumption
    <3>3. \A r \in DOMAIN extents' :
            /\ extents'[r].from <= Len(file) /\ extents'[r].to <= Len(file)
            /\ extents'[r].to < 0 => r = n + 1
      BY <1>3, <1>4, <3>1
    <3>4. ~(fragments' > 0) /\ extents'[Len(extents')].to = -1 /\ extents'[Len(extents')].from = Len(file)
      BY <1>4, <3>2
    <3> QED
      BY <1>1, <1>4, <3>1, <3>2, <3>3, <3>4 DEF WriterPlace
  <2>4. WellFormed(file)'
    BY <1>1, <2>1
  <2> QED
    BY <2>2, <2>3, <2>4 DEF Written
<1> QED
  BY <1>1, <1>5, <1>6 DEF FormInv

\* Writing damages nothing.
LEMMA TurnIsUndamaged ==
  ASSUME WriterType, left >= 0, extents # <<>>, NEW pad \in 0..Len(Trailer), NEW n, Reaches(pad, n),
         Damaged = {}
  PROVE  Damaged' = {}
<1>1. /\ file' \in Seq(Byte)
      /\ \A i \in 1..Len(file') :
           \/ i \in 1..Len(file) /\ file'[i] = file[i]
           \/ file'[i] = Zero
           \/ i > Len(file) + pad /\ file'[i] = [of |-> Fragment, at |-> i - Len(file) - pad]
  BY ReachedBytes
<1>2. Zero # Damage
  BY DEF Zero, Damage, Not
<1>3. Len(file) \in Nat /\ pad \in Nat /\ file \in Seq(Byte)
  BY TurnBytes DEF WriterType
<1> SUFFICES ASSUME NEW i \in DOMAIN file', file'[i] = Damage PROVE FALSE
  BY DEF Damaged
<1>4. i \in 1..Len(file') /\ i \in Nat
  BY <1>1
<1>5. Damage.at = 0
  BY DEF Damage
<1>6. CASE i \in 1..Len(file) /\ file'[i] = file[i]
  BY <1>3, <1>6 DEF Damaged
<1>7. CASE i > Len(file) + pad /\ file'[i] = [of |-> Fragment, at |-> i - Len(file) - pad]
  <2>1. file'[i].at = i - Len(file) - pad
    BY <1>7
  <2> QED
    BY <1>3, <1>4, <1>5, <1>7, <2>1
<1> QED
  BY <1>1, <1>2, <1>4, <1>6, <1>7

\* Appends that fail are counted.
LEMMA FailedForm ==
  ASSUME FormInv, failed' = failed + 1, phase = "writing", Damaged' = {}, UNCHANGED <<phase, reported, eof>>
  PROVE  FormInv'
<1>1. failed' \in Nat /\ failed' # 0
  BY DEF FormInv
<1> QED
  BY <1>1 DEF FormInv

LEMMA TrailerFailsForm == ASSUME IndInv, FormInv, TrailerFails PROVE FormInv'
<1>1. PICK pad \in 0..Len(Trailer) - 1 : Emits(pad)
  BY DEF TrailerFails
<1>2. /\ phase = "writing" /\ left >= 0 /\ failed' = failed + 1 /\ file' = file \o Turn(pad)
      /\ phase' = phase /\ reported' = reported /\ eof' = eof
  BY <1>1 DEF TrailerFails, Emits, readerVars
<1>3. WriterType /\ extents # <<>>
  BY <1>2 DEF IndInv, WriterIsBehind
<1>4. pad \in 0..Len(Trailer)
  BY <1>1, <1>2, <1>3, WholeTrailer
<1>5. Reaches(pad, Len(Turn(pad)))
  BY <1>2, <1>3, <1>4, AllReach
<1>6. Damaged = {}
  BY <1>2 DEF FormInv
<1>7. Damaged' = {}
  BY <1>2, <1>3, <1>4, <1>5, <1>6, TurnIsUndamaged
<1> QED
  BY <1>2, <1>7, FailedForm

LEMMA EmitFailsForm == ASSUME IndInv, FormInv, EmitFails PROVE FormInv'
<1>1. /\ phase = "writing" /\ left >= 0 /\ failed' = failed + 1
      /\ phase' = phase /\ reported' = reported /\ eof' = eof
  BY DEF EmitFails, readerVars
<1>2. WriterType /\ extents # <<>>
  BY <1>1 DEF IndInv, WriterIsBehind
<1>3. PICK pad \in 0..Len(Trailer) :
        \E n \in pad..Len(Turn(pad)) - 1 : file' = file \o SubSeq(Turn(pad), 1, n)
  BY DEF EmitFails
<1>4. PICK n \in pad..Len(Turn(pad)) - 1 : file' = file \o SubSeq(Turn(pad), 1, n)
  BY <1>3
<1>5. n \in 0..Len(Turn(pad))
  BY <1>1, <1>2, TurnBytes
<1>6. Reaches(pad, n)
  BY <1>1, <1>2, <1>4, <1>5, SomeReach
<1>7. Damaged = {}
  BY <1>1 DEF FormInv
<1>8. Damaged' = {}
  BY <1>1, <1>2, <1>6, <1>7, TurnIsUndamaged
<1> QED
  BY <1>1, <1>8, FailedForm

\* What has been appended to a file that is as it was written.
EmitWrites ==
  /\ Appended(file, file', Len(Trailer), Fragment)
  /\ Fragment.rec = Len(extents) /\ Fragment.frag = fragments + 1
  /\ Fragment.type \in {"middle", "last"} <=> fragments > 0
  /\ file' \in Seq(Byte)

\* The place of each record is in the new file where it was, and the last one's grows.
LEMMA EmitExtents ==
  ASSUME IndInv, Written, Emit, EmitWrites, NEW r \in DOMAIN extents'
  PROVE  ExtentHolds(file, r)'
<1> DEFINE t == Len(Trailer)
           n == Len(file)
           m == Len(file')
           p == Fragment
           h == n + t + 1
           from == extents[r].from
           to == extents[r].to
<1>1. /\ phase = "writing" /\ left >= 0
      /\ \/ extents' = [extents EXCEPT ![Len(extents)].to = m] /\ p.type \in {"full", "last"}
         \/ extents' = extents /\ p.type \notin {"full", "last"}
  BY DEF Emit, Emits
<1>2. /\ WriterType /\ extents # <<>> /\ WellFormed(file) /\ WriterPlace
      /\ \A i \in DOMAIN extents : ExtentHolds(file, i)
  BY <1>1 DEF IndInv, WriterIsBehind, Written
<1>3. /\ DOMAIN extents = 1..Len(extents) /\ Len(extents) \in Nat
      /\ \A i \in DOMAIN extents : i \in Nat \ {0} /\ extents[i].from \in Nat /\ extents[i].to \in Int
  BY <1>2, ExtentType
<1>4. r \in DOMAIN extents /\ r \in Nat \ {0} /\ from \in Nat /\ to \in Int
  BY <1>1, <1>3
<1>5. /\ file \in Seq(Byte) /\ file' \in Seq(Byte) /\ Appended(file, file', t, p)
      /\ p.rec = Len(extents) /\ p.frag = fragments + 1 /\ fragments \in Nat /\ left \in Nat
  BY <1>1, <1>2 DEF EmitWrites, WriterType
<1>6. /\ n \in Nat /\ m \in Nat /\ t \in Nat /\ p.length \in Nat /\ HeaderSize \in Nat \ {0}
      /\ h <= m /\ DOMAIN file = 1..n /\ DOMAIN file' = 1..m
      /\ h \in Heads(file') /\ file'[h].of = p
  BY <1>5, AppendedParts
<1>7. /\ \A i \in Heads(file') : (i \in Heads(file) /\ file'[i] = file[i]) \/ i = h
      /\ \A i \in DOMAIN file' : \/ i \in DOMAIN file /\ file'[i] = file[i]
                                 \/ i > n /\ i <= n + t /\ file'[i] = Zero
                                 \/ i > n + t /\ file'[i] = [of |-> p, at |-> i - n - t]
  BY <1>5, AppendedParts
<1>8. m = n + t + HeaderSize + p.length
  BY <1>5 DEF Appended
<1>9. ExtentHolds(file, r)
  BY <1>2, <1>4
<1>10. from <= n /\ to <= n /\ (to < 0 => r = Len(extents))
  BY <1>2, <1>4 DEF WriterPlace
<1>11. /\ extents[Len(extents)].to = -1
       /\ fragments = 0 => extents[Len(extents)].from = n
       /\ fragments > 0 => extents[Len(extents)].from + HeaderSize <= n
  BY <1>1, <1>2 DEF WriterPlace
<1>12. /\ Boundary(file, from)
       /\ \A i \in DOMAIN file : file[i].of.rec = r => from < i /\ (to >= 0 => i <= to)
       /\ \A i \in DOMAIN file : from < i /\ (to >= 0 => i <= to) => file[i].of.rec \in {0, r}
       /\ \A i \in Heads(file) : from < i /\ i <= from + HeaderSize => file[i].of.frag = 1
       /\ to >= 0 => to > 0
       /\ to >= 0 /\ to <= n =>
            /\ file[to].of.rec = r /\ ~Opens(file[to]) /\ file[to].at = HeaderSize + file[to].of.length
  BY <1>9 DEF ExtentHolds, Lies
<1>13. Boundary(file', from)
  BY <1>4, <1>5, <1>10, <1>12, AppendedBoundary
<1>14. \A i \in DOMAIN file' : i \in DOMAIN file \/ (i > n /\ file'[i].of.rec \in {0, Len(extents)})
  <2> SUFFICES ASSUME NEW i \in DOMAIN file'
               PROVE  i \in DOMAIN file \/ (i > n /\ file'[i].of.rec \in {0, Len(extents)})
    OBVIOUS
  <2>1. CASE i > n /\ i <= n + t /\ file'[i] = Zero
    BY <2>1, ZeroAndDamage
  <2>2. CASE i > n + t /\ file'[i] = [of |-> p, at |-> i - n - t]
    <3>1. i > n
      BY <1>6, <2>2
    <3> QED
      BY <1>5, <2>2, <3>1
  <2> QED
    BY <1>7, <2>1, <2>2
<1>15. \A i \in DOMAIN file : file'[i] = file[i] /\ i \in DOMAIN file' /\ i <= n
  BY <1>5, <1>6, <1>8 DEF Appended
<1> HIDE DEF from, to, n, m, t, p, h
\* A record before the last one.
<1>16. ASSUME r # Len(extents) PROVE ExtentHolds(file, r)'
  <2>1. extents'[r] = extents[r] /\ to >= 0
    BY <1>1, <1>3, <1>4, <1>10, <1>16
  <2>2. extents[r].to \in Int /\ extents[r].to >= 0 /\ extents[r].to <= Len(file)
    BY <1>4, <1>10, <2>1 DEF to, n
  <2>3. to \in DOMAIN file /\ from + HeaderSize <= to
    BY <1>2, <1>4, <1>5, <1>9, <2>2, ExtentLong DEF to, from
  <2>4. \A i \in DOMAIN file' : i \in DOMAIN file \/ (i > to /\ file'[i].of.rec # r)
    BY <1>4, <1>6, <1>10, <1>14, <1>16
  <2>5. \A i \in DOMAIN file' : file'[i].of.rec = r => from < i /\ (to >= 0 => i <= to)
    BY <1>12, <1>15, <2>4
  <2>6. \A i \in DOMAIN file' : from < i /\ (to >= 0 => i <= to) => file'[i].of.rec \in {0, r}
    <3> SUFFICES ASSUME NEW i \in DOMAIN file', from < i, i <= to PROVE file'[i].of.rec \in {0, r}
      BY <2>1
    <3>1. i \in DOMAIN file
      BY <1>4, <1>6, <2>4
    <3> QED
      BY <1>12, <1>15, <3>1
  <2>7. \A i \in Heads(file') : from < i /\ i <= from + HeaderSize => file'[i].of.frag = 1
    <3>1. ~(h <= from + HeaderSize)
      BY <1>4, <1>6, <1>10, <2>3 DEF h
    <3> QED
      BY <1>7, <1>12, <3>1
  <2>8. /\ to > 0 /\ file'[to].of.rec = r /\ ~Opens(file'[to])
        /\ file'[to].at = HeaderSize + file'[to].of.length
    BY <1>10, <1>12, <1>15, <2>1, <2>3 DEF Opens
  <2> QED
    <3>1. Lies(file', r, from, to)
      BY <1>4, <1>13, <2>5, <2>6, <2>7, <2>8 DEF Lies
    <3>2. extents'[r].from = from /\ extents'[r].to = to
      BY <2>1 DEF from, to
    <3> QED
      BY <3>1, <3>2 DEF ExtentHolds
\* The last one.
<1>17. ASSUME r = Len(extents)
       PROVE  /\ \A i \in DOMAIN file' : file'[i].of.rec = r => from < i
              /\ \A i \in DOMAIN file' : from < i => file'[i].of.rec \in {0, r}
              /\ \A i \in Heads(file') : from < i /\ i <= from + HeaderSize => file'[i].of.frag = 1
  <2>1. to = -1 /\ (fragments = 0 => from = n) /\ (fragments > 0 => from + HeaderSize <= n)
    BY <1>11, <1>17 DEF from, to, n
  <2>2. \A i \in DOMAIN file' : file'[i].of.rec = r => from < i
    <3> SUFFICES ASSUME NEW i \in DOMAIN file', file'[i].of.rec = r PROVE from < i
      OBVIOUS
    <3>1. CASE i \in DOMAIN file
      BY <1>12, <1>15, <3>1
    <3>2. CASE i > n
      BY <1>4, <1>6, <1>10, <3>2
    <3> QED
      BY <1>14, <3>1, <3>2
  <2>3. \A i \in DOMAIN file' : from < i => file'[i].of.rec \in {0, r}
    BY <1>12, <1>14, <1>15, <1>17, <2>1
  <2>4. ASSUME NEW i \in Heads(file'), from < i, i <= from + HeaderSize PROVE file'[i].of.frag = 1
    <3>1. CASE i \in Heads(file) /\ file'[i] = file[i]
      BY <1>12, <2>4, <3>1
    <3>2. CASE i = h
      <4>1. ~(fragments > 0)
        BY <1>4, <1>6, <2>1, <2>4, <3>2 DEF h
      <4> QED
        BY <1>5, <1>6, <3>2, <4>1
    <3> QED
      BY <1>7, <3>1, <3>2
  <2> QED
    BY <2>2, <2>3, <2>4
<1>18. CASE r = Len(extents) /\ extents' = extents
  <2>1. extents'[r].from = from /\ extents'[r].to = -1
    BY <1>11, <1>18 DEF from
  <2> QED
    <3>1. Lies(file', r, from, -1)
      BY <1>4, <1>13, <1>17, <1>18 DEF Lies
    <3> QED
      BY <2>1, <3>1 DEF ExtentHolds
<1>19. CASE r = Len(extents) /\ extents' = [extents EXCEPT ![Len(extents)].to = m] /\ p.type \in {"full", "last"}
  <2>1. extents'[r].from = from /\ extents'[r].to = m
    <3>1. extents'[r] = [extents[r] EXCEPT !.to = m]
      BY <1>4, <1>19
    <3>2. extents[r] \in [from : Nat, to : Int]
      BY <1>2, <1>3, <1>4, ElementOf DEF WriterType
    <3> QED
      BY <3>1, <3>2 DEF from
  <2>2. m \in DOMAIN file' /\ m > n + t /\ m - n - t = HeaderSize + p.length /\ m > 0
    BY <1>6, <1>8
  <2>3. file'[m] = [of |-> p, at |-> m - n - t]
    BY <1>5, <2>2 DEF Appended, n, t
  <2>4. file'[m].of.rec = r /\ ~Opens(file'[m]) /\ file'[m].at = HeaderSize + file'[m].of.length
    BY <1>5, <1>19, <2>2, <2>3 DEF Opens
  <2>5. \A i \in DOMAIN file' : i <= m
    BY <1>6
  <2> QED
    <3>1. Lies(file', r, from, m)
      BY <1>4, <1>13, <1>17, <1>19, <2>2, <2>4, <2>5 DEF Lies
    <3> QED
      BY <2>1, <3>1 DEF ExtentHolds
<1> QED
  BY <1>1, <1>16, <1>18, <1>19

LEMMA EmitForm == ASSUME IndInv, FormInv, Emit PROVE FormInv'
<1> DEFINE t == Len(Trailer)
           n == Len(file)
           m == Len(file')
           p == Fragment
<1>1. /\ phase = "writing" /\ left >= 0 /\ file' = file \o Turn(t)
      /\ blockOffset' = Offset + HeaderSize + p.length /\ fragments' = fragments + 1
      /\ \/ left' = -1 /\ extents' = [extents EXCEPT ![Len(extents)].to = m] /\ p.type \in {"full", "last"}
         \/ left' = left - p.length /\ extents' = extents /\ p.type \notin {"full", "last"}
      /\ phase' = phase /\ failed' = failed /\ reported' = reported /\ eof' = eof
  BY DEF Emit, Emits, readerVars
<1>2. WriterType /\ extents # <<>>
  BY <1>1 DEF IndInv, WriterIsBehind
<1>3. /\ Damaged' = {} /\ failed' \in Nat /\ reported' = FALSE /\ eof' = FALSE
  <2>1. Damaged = {}
    BY <1>1 DEF FormInv
  <2>2. t \in 0..Len(Trailer) /\ Reaches(t, Len(Turn(t)))
    BY <1>1, <1>2, WholeTrailer, AllReach
  <2>3. Damaged' = {}
    BY <1>1, <1>2, <2>1, <2>2, TurnIsUndamaged
  <2> QED
    BY <1>1, <2>3 DEF FormInv
<1>4. ASSUME failed' = 0 PROVE Written'
  <2>1. Written /\ WellFormed(file) /\ WriterPlace
    BY <1>1, <1>4 DEF FormInv, Written
  <2>2. PICK s \in BlockStarts : Len(file) = s + blockOffset
    BY <2>1 DEF WriterPlace
  <2>3. /\ file' \in Seq(Byte) /\ Appended(file, file', t, p)
        /\ \E b \in BlockStarts : Len(file') = b + (Offset + HeaderSize + Fragment.length)
    BY <1>1, <1>2, <2>2, TurnAppends
  <2>4. /\ p \in PhysicalRecord /\ p.rec = Len(extents) /\ p.frag = fragments + 1
        /\ left - p.length \in Nat /\ fragments \in Nat /\ left \in Nat /\ file \in Seq(Byte)
    BY <1>1, <1>2, FragmentType DEF WriterType
  <2>5. /\ p.type \in {"middle", "last"} <=> fragments > 0
        /\ p.type \in {"first", "middle"} <=> p.type \notin {"full", "last"}
    <3>1. p.type \in Types /\ (p.type \in {"full", "first"} <=> p.frag = 1)
      BY <2>4 DEF PhysicalRecord
    <3>2. p.frag = 1 <=> ~(fragments > 0)
      BY <2>4
    <3> QED
      BY <3>1, <3>2 DEF Types
  <2>6. EmitWrites
    BY <2>3, <2>4, <2>5 DEF EmitWrites
  <2>7. /\ \A i \in Heads(file) : Behind(file, i) <= Len(file)
        /\ \A i \in DOMAIN file : i + HeaderSize > Len(file) =>
             file[i].at > 0 /\ (Opens(file[i]) <=> fragments > 0)
        /\ fragments > 0 => file # <<>>
    BY <1>1, <2>1 DEF WriterPlace
  <2>8. WellFormed(file') /\ \A i \in Heads(file') : Behind(file', i) <= Len(file')
    <3>1. file = <<>> => p.type \notin {"middle", "last"}
      BY <2>5, <2>7
    <3>2. \A i \in DOMAIN file : i + HeaderSize > Len(file) /\ file[i].at > 0 =>
            (p.type \in {"middle", "last"} <=> Opens(file[i]))
      BY <2>5, <2>7
    <3> QED
      BY <2>1, <2>3, <2>4, <2>7, <3>1, <3>2, AppendedIsFormed
  <2>9. \A r \in DOMAIN extents' : ExtentHolds(file, r)'
    BY <2>1, <2>6, EmitExtents
  <2>10. /\ n \in Nat /\ m \in Nat /\ t \in Nat /\ p.length \in Nat /\ HeaderSize \in Nat \ {0}
         /\ m = n + t + HeaderSize + p.length /\ DOMAIN file' = 1..m /\ DOMAIN file = 1..n
    <3>1. m = n + t + HeaderSize + p.length
      BY <2>3 DEF Appended
    <3> QED
      BY <2>3, <2>4, <3>1, AppendedParts
  <2>11. \A i \in DOMAIN file' : i + HeaderSize > m =>
           file'[i].at > 0 /\ (Opens(file'[i]) <=> left' >= 0 /\ fragments' > 0)
    <3> SUFFICES ASSUME NEW i \in DOMAIN file', i + HeaderSize > m
                 PROVE  file'[i].at > 0 /\ (Opens(file'[i]) <=> left' >= 0 /\ fragments' > 0)
      OBVIOUS
    <3>1. i > n + t /\ i - n - t > 0
      BY <2>10
    <3>2. file'[i] = [of |-> p, at |-> i - n - t]
      BY <2>3, <3>1 DEF Appended
    <3>3. Opens(file'[i]) <=> p.type \in {"first", "middle"}
      BY <3>2 DEF Opens
    <3>4. left' >= 0 <=> p.type \notin {"full", "last"}
      BY <1>1, <2>4
    <3>5. fragments' > 0
      BY <1>1, <2>4
    <3> QED
      BY <2>5, <3>1, <3>2, <3>3, <3>4, <3>5
  <2>12. /\ DOMAIN extents = 1..Len(extents) /\ Len(extents) \in Nat /\ DOMAIN extents' = DOMAIN extents
         /\ Len(extents') = Len(extents) /\ Len(extents) \in DOMAIN extents
         /\ \A r \in DOMAIN extents : r \in Nat \ {0} /\ extents[r].from \in Nat /\ extents[r].to \in Int
         /\ extents \in Seq([from : Nat, to : Int])
    <3>1. /\ DOMAIN extents = 1..Len(extents) /\ Len(extents) \in Nat
          /\ \A r \in DOMAIN extents : r \in Nat \ {0} /\ extents[r].from \in Nat /\ extents[r].to \in Int
      BY <1>2, ExtentType
    <3>2. Len(extents) # 0 /\ extents \in Seq([from : Nat, to : Int])
      BY <1>2, EmptySeq DEF WriterType
    <3>3. DOMAIN extents' = DOMAIN extents /\ Len(extents') = Len(extents)
      BY <1>1, <3>2
    <3> QED
      BY <3>1, <3>2, <3>3
  <2>13. /\ \A r \in DOMAIN extents :
              /\ extents[r].from <= n /\ extents[r].to <= n
              /\ extents[r].to < 0 => r = Len(extents)
         /\ extents[Len(extents)].to = -1
         /\ fragments = 0 => extents[Len(extents)].from = n
         /\ fragments > 0 => extents[Len(extents)].from + HeaderSize <= n
    BY <1>1, <2>1 DEF WriterPlace
  <2>14. extents[Len(extents)].from + HeaderSize <= m
    <3> DEFINE from == extents[Len(extents)].from
    <3>1. from \in Nat /\ (fragments = 0 => from = n) /\ (fragments > 0 => from + HeaderSize <= n)
      BY <2>12, <2>13
    <3> HIDE DEF from, n, m, t
    <3>2. from + HeaderSize <= m
      BY <2>4, <2>10, <3>1
    <3> QED
      BY <3>2 DEF from
  <2>15. ASSUME NEW r \in DOMAIN extents
         PROVE  /\ extents'[r].from = extents[r].from
                /\ extents'[r].to = extents[r].to \/ (extents'[r].to = m /\ r = Len(extents))
                /\ r = Len(extents) /\ left' = -1 => extents'[r].to = m
    <3>1. extents[r] \in [from : Nat, to : Int]
      BY <2>12, ElementOf
    <3>2. CASE extents' = extents /\ left' = left - p.length
      BY <2>4, <3>2
    <3>3. CASE extents' = [extents EXCEPT ![Len(extents)].to = m]
      BY <2>12, <3>1, <3>3
    <3> QED
      BY <1>1, <3>2, <3>3
  <2> HIDE DEF n, m, t, p
  <2>16. \A r \in DOMAIN extents' :
           /\ extents'[r].from <= m /\ extents'[r].to <= m
           /\ extents'[r].to < 0 => r = Len(extents') /\ left' >= 0
    <3> SUFFICES ASSUME NEW r \in DOMAIN extents
                 PROVE  /\ extents'[r].from <= m /\ extents'[r].to <= m
                        /\ extents'[r].to < 0 => r = Len(extents) /\ left' >= 0
      BY <2>12
    <3> DEFINE from == extents[r].from
               to == extents[r].to
               to2 == extents'[r].to
    <3>1. /\ extents'[r].from = from /\ (to2 = to \/ (to2 = m /\ r = Len(extents)))
          /\ r = Len(extents) /\ left' = -1 => to2 = m
      BY <2>15
    <3>2. from \in Nat /\ to \in Int /\ from <= n /\ to <= n /\ (to < 0 => r = Len(extents))
      BY <2>12, <2>13
    <3>3. left' = -1 \/ left' >= 0
      BY <1>1, <2>4 DEF p
    <3> HIDE DEF from, to, to2
    <3>4. from <= m /\ to2 <= m /\ (to2 < 0 => r = Len(extents) /\ left' >= 0)
      BY <2>10, <3>1, <3>2, <3>3
    <3> QED
      BY <3>1, <3>4 DEF to2
  <2>17. left' >= 0 =>
           /\ extents'[Len(extents')].to = -1
           /\ extents'[Len(extents')].from + HeaderSize <= m
    <3>1. left' >= 0 => extents' = extents
      BY <1>1
    <3> QED
      BY <2>12, <2>13, <2>14, <3>1
  <2>18. fragments' > 0 /\ ~(fragments' = 0) /\ file' # <<>>
    <3>1. m # 0
      BY <2>10
    <3> QED
      BY <1>1, <2>4, <3>1 DEF m
  <2>19. WriterPlace'
    BY <1>1, <2>3, <2>8, <2>11, <2>16, <2>17, <2>18 DEF WriterPlace, m, p
  <2> QED
    BY <2>8, <2>9, <2>19 DEF Written
<1> QED
  BY <1>1, <1>3, <1>4 DEF FormInv

-----------------------------------------------------------------------------
(* What happens to a file that is as it was written *)

LEMMA CutForm == ASSUME IndInv, FormInv, Cut PROVE FormInv'
<1>1. /\ phase = "writing" /\ phase' = "reading" /\ failed' = failed /\ extents' = extents
      /\ pos' = pos /\ end' = end /\ eof' = eof /\ fragmented' = fragmented /\ out' = out
      /\ reported' = reported /\ scratch' = scratch
  BY DEF Cut, writerVars, readerVars
<1>2. WriterType /\ end = 0 /\ pos = 0 /\ fragmented = FALSE
  <2>1. end = 0 /\ pos \in Nat /\ pos <= end
    BY <1>1 DEF IndInv, WriterIsBehind, ReaderType
  <2> QED
    BY <2>1 DEF IndInv, OutIsBehind
<1>3. PICK k \in 0..Len(file) : file' = SubSeq(file, 1, k)
  BY DEF Cut
<1>4. file \in Seq(Byte) /\ Len(file) \in Nat /\ k \in Nat
  BY <1>2 DEF WriterType
<1>5. \A i \in 1..k : file[i] \in Byte
  BY <1>4
<1>6. /\ file' \in Seq(Byte) /\ Len(file') <= Len(file) /\ DOMAIN file' \subseteq DOMAIN file
      /\ \A i \in DOMAIN file' : file'[i] = file[i]
  <2>1. /\ file' \in Seq(Byte) /\ Len(file') = IF 1 <= k THEN k - 1 + 1 ELSE 0
        /\ \A i \in 1..k - 1 + 1 : file'[i] = file[1 + i - 1]
    BY <1>3, <1>4, <1>5, SubSeqProperties
  <2>2. DOMAIN file' = 1..k /\ k - 1 + 1 = k /\ Len(file') = k /\ \A i \in 1..k : 1 + i - 1 = i
    BY <1>4, <2>1
  <2>3. \A i \in 1..k : file'[i] = file[i]
    BY <2>1, <2>2
  <2>4. 1..k \subseteq DOMAIN file
    BY <1>4
  <2> QED
    BY <1>4, <2>1, <2>2, <2>3, <2>4
<1>7. failed' \in Nat /\ reported = FALSE /\ eof = FALSE /\ Damaged = {}
  BY <1>1 DEF FormInv
<1>8. ASSUME failed' = 0 PROVE (\E f \in Seq(Byte) : Original(f)') /\ ReadInv' /\ SilentInv'
  <2>1. WellFormed(file) /\ \A r \in DOMAIN extents : ExtentHolds(file, r)
    BY <1>1, <1>8 DEF FormInv, Written
  <2>2. extents \in Seq([from : Nat, to : Int])
    BY <1>2 DEF WriterType
  <2>3. WellFormed(file') /\ \A r \in DOMAIN extents : ExtentHolds(file', r)
    BY <1>4, <1>6, <2>1, <2>2, BeginningIsFormed
  <2>4. Boundary(file', 0)
    <3>1. 0 \in BlockStarts
      BY StartsAreApart
    <3>2. 0 < Len(file') => file'[0 + 1].at = 1
      BY <2>3, <3>1 DEF WellFormed, BlocksBegin
    <3> QED
      BY <3>2 DEF Boundary
  <2>5. PICK f \in Seq(Byte) : /\ WellFormed(f) /\ Boundary(f, 0) /\ file' = f
                              /\ \A r \in DOMAIN extents : ExtentHolds(f, r)
    BY <1>6, <2>3, <2>4
  <2>6. ReaderPlace(f)'
    <3>1. 0 \in BlockStarts /\ 0 <= 0 + BlockSize
      BY StartsAreApart, Constants
    <3>2. pos' = 0 /\ end' = 0 /\ eof' = FALSE
      BY <1>1, <1>2, <1>7
    <3> QED
      BY <2>5, <3>1, <3>2 DEF ReaderPlace
  <2>7. \A r \in DOMAIN extents' : ExtentHolds(f, r)'
    BY <1>1, <2>5 DEF ExtentHolds
  <2>8. Original(f)'
    BY <2>5, <2>6, <2>7 DEF Original
  <2>9. ReadInv'
    <3>1. \A r \in DOMAIN extents : 0 <= extents[r].from
      BY <1>2, ExtentType
    <3> QED
      BY <1>1, <1>2, <3>1 DEF ReadInv, NotYet
  <2>10. SilentInv'
    BY <1>1, <1>2, <1>7 DEF SilentInv
  <2> QED
    BY <2>5, <2>8, <2>9, <2>10
<1> QED
  BY <1>1, <1>7, <1>8 DEF FormInv

LEMMA DamageForm == ASSUME IndInv, FormInv, DamageByte PROVE FormInv'
<1>1. /\ phase = "reading" /\ end = 0 /\ phase' = phase /\ failed' = failed /\ extents' = extents
      /\ pos' = pos /\ end' = end /\ eof' = eof
  BY DEF DamageByte, writerVars, readerVars
<1>2. PICK k \in DOMAIN file : file' = [file EXCEPT ![k] = Damage]
  BY DEF DamageByte
<1>3. WriterType /\ file \in Seq(Byte) /\ pos = 0
  BY <1>1 DEF IndInv, WriterType, ReaderType
<1>4. /\ Len(file') = Len(file) /\ DOMAIN file' = DOMAIN file /\ file'[k] = Damage
      /\ \A i \in DOMAIN file : file'[i] = file[i] \/ file'[i] = Damage
  BY <1>2, <1>3
<1>5. failed' \in Nat
  BY <1>1 DEF FormInv
<1>6. ASSUME failed' = 0 PROVE (\E f \in Seq(Byte) : Original(f)') /\ ReadInv' /\ SilentInv'
  <2>1. PICK f \in Seq(Byte) : Original(f)
    BY <1>1, <1>6 DEF FormInv
  <2>2. DOMAIN f = DOMAIN file
    <3>1. Len(f) = Len(file)
      BY <2>1 DEF Original
    <3> QED
      BY <1>3, <3>1
  <2>3. /\ Len(f) = Len(file) /\ WellFormed(f) /\ ReaderPlace(f)
        /\ \A i \in DOMAIN f : file[i] = f[i] \/ file[i] = Damage
        /\ \A r \in DOMAIN extents : ExtentHolds(f, r)
    BY <1>1, <2>1 DEF Original
  <2>4. \A i \in DOMAIN f : file'[i] = f[i] \/ file'[i] = Damage
    BY <1>4, <2>2, <2>3
  <2>5. \A r \in DOMAIN extents' : ExtentHolds(f, r)'
    BY <1>1, <2>3 DEF ExtentHolds
  <2>6. ReaderPlace(f)'
    BY <1>1, <2>3 DEF ReaderPlace
  <2>7. Original(f)'
    BY <1>4, <2>3, <2>4, <2>5, <2>6 DEF Original
  <2>8. ReadInv'
    <3>1. \A r \in DOMAIN extents : 0 <= extents[r].from
      BY <1>3, ExtentType
    <3> QED
      BY <1>1, <1>3, <3>1 DEF ReadInv, NotYet
  <2>9. SilentInv'
    BY <1>4 DEF SilentInv, Damaged
  <2> QED
    BY <2>7, <2>8, <2>9
<1> QED
  BY <1>1, <1>5, <1>6 DEF FormInv

-----------------------------------------------------------------------------
(* Reading such a file *)

\* Where the block in the buffer ends, the next one begins, or the file ends.
LEMMA EndOfBuffer ==
  ASSUME IndInv, NEW f \in Seq(Byte), WellFormed(f), ReaderPlace(f), NEW b \in BlockStarts,
         b <= pos, end <= b + BlockSize, ~eof /\ end # 0 => end = b + BlockSize
  PROVE  Boundary(f, end) /\ (~eof => end \in BlockStarts)
<1>1. 0 \in BlockStarts /\ b + BlockSize \in BlockStarts
  BY StartsAreApart
<1>2. ~eof => end \in BlockStarts
  BY <1>1
<1>3. CASE eof
  <2>1. end = Len(f) /\ Len(f) \in Nat
    BY <1>3 DEF ReaderPlace
  <2>2. ~(end < Len(f))
    BY <2>1
  <2> QED
    BY <1>3, <2>2 DEF Boundary
<1>4. CASE ~eof
  BY <1>2, <1>4 DEF WellFormed, BlocksBegin, Boundary
<1> QED
  BY <1>2, <1>3, <1>4

\* Reading changes neither the file nor what is known of it.
LEMMA ReadingKeepsForm ==
  ASSUME NEW f \in Seq(Byte), Original(f), UNCHANGED <<file, writerVars>>,
         phase' = "reading" => ReaderPlace(f)'
  PROVE  Original(f)' /\ Damaged' = Damaged /\ \A r \in DOMAIN extents : Intact(r)' <=> Intact(r)
<1>1. file' = file /\ extents' = extents
  BY DEF writerVars
<1>2. \A r \in DOMAIN extents' : ExtentHolds(f, r)'
  BY <1>1 DEF Original, ExtentHolds
<1>3. Damaged' = Damaged
  BY <1>1 DEF Damaged
<1> QED
  BY <1>1, <1>2, <1>3 DEF Original, Intact

\* Some bytes from where the reader is, one by one.
LEMMA PartOf ==
  ASSUME NEW s \in Seq(Byte), NEW q \in Nat, NEW n \in Nat, n > 0, q + n <= Len(s)
  PROVE  /\ SubSeq(s, q + 1, q + n) \in Seq(Byte) /\ Len(SubSeq(s, q + 1, q + n)) = n
         /\ \A k \in 1..n : SubSeq(s, q + 1, q + n)[k] = s[q + k]
<1>1. q + 1 \in Int /\ q + n \in Int /\ \A i \in q + 1 .. q + n : s[i] \in Byte
  OBVIOUS
<1>2. /\ SubSeq(s, q + 1, q + n) \in Seq(Byte)
      /\ Len(SubSeq(s, q + 1, q + n)) = IF q + 1 <= q + n THEN (q + n) - (q + 1) + 1 ELSE 0
      /\ \A i \in 1 .. (q + n) - (q + 1) + 1 : SubSeq(s, q + 1, q + n)[i] = s[(q + 1) + i - 1]
  BY <1>1, SubSeqProperties
<1>3. /\ (q + n) - (q + 1) + 1 = n /\ q + 1 <= q + n
      /\ \A i \in 1..n : (q + 1) + i - 1 = q + i
  OBVIOUS
<1> QED
  BY <1>2, <1>3

\* A header is ahead where nothing is damaged, and what it says can be relied on.
LEMMA UndamagedIsRead ==
  ASSUME IndInv, phase = "reading", NEW f \in Seq(Byte), Original(f), end - pos >= HeaderSize,
         \A i \in DOMAIN file : pos < i /\ i <= end => file[i] # Damage
  PROVE  /\ pos + 1 \in Heads(f) /\ Parsed = f[pos + 1].of /\ Parsed \in PhysicalRecord
         /\ Behind(f, pos + 1) = pos + HeaderSize + Parsed.length
         /\ IsHeader /\ (Fits => Whole) /\ (~eof => Fits)
         /\ Behind(f, pos + 1) <= Len(f) => Fits
<1>1. /\ pos \in Nat /\ end \in Nat /\ end <= Len(file) /\ pos <= end /\ file \in Seq(Byte) /\ eof \in BOOLEAN
      /\ HeaderSize \in Nat \ {0} /\ BlockSize \in Nat
  BY Constants DEF IndInv, ReaderType, WriterType
<1>2. /\ Len(f) = Len(file) /\ WellFormed(f) /\ ReaderPlace(f)
      /\ \A i \in DOMAIN f : file[i] = f[i] \/ file[i] = Damage
  BY DEF Original
<1>3. DOMAIN f = 1..Len(f) /\ DOMAIN file = 1..Len(f) /\ Len(f) \in Nat
  BY <1>1, <1>2
<1>4. \A i \in DOMAIN file : pos < i /\ i <= end => file[i] = f[i]
  BY <1>2, <1>3
<1>5. PICK b \in BlockStarts : b <= pos /\ end <= b + BlockSize /\ (~eof /\ end # 0 => end = b + BlockSize)
  BY <1>2 DEF ReaderPlace
<1>6. b \in Nat
  BY StartsAreApart
<1>7. pos + 1 \in Heads(f)
  <2>1. pos + HeaderSize <= b + BlockSize /\ pos < Len(f)
    BY <1>1, <1>2, <1>5, <1>6
  <2>2. Boundary(f, pos)
    BY <1>2 DEF ReaderPlace
  <2> QED
    BY <1>1, <1>5, <2>1, <2>2, HeaderThere
<1>8. file[pos + 1] = f[pos + 1]
  <2>1. pos + 1 \in DOMAIN file /\ pos < pos + 1 /\ pos + 1 <= end
    BY <1>1, <1>2, <1>3
  <2> QED
    BY <1>4, <2>1
<1>9. Parsed = f[pos + 1].of
  BY <1>8 DEF Parsed
<1>10. Parsed \in PhysicalRecord
  BY <1>7, <1>9, HeadFacts
<1> DEFINE length == Parsed.length
           behind == Behind(f, pos + 1)
           bytes == Bytes(Parsed)
<1>11. length \in Nat /\ Parsed.rec # 0
  BY <1>10 DEF PhysicalRecord
<1>12. behind = pos + HeaderSize + length
  <2>1. f[pos + 1].of.length = length
    BY <1>9
  <2>2. behind = (pos + 1) - 1 + HeaderSize + f[pos + 1].of.length
    BY DEF Behind
  <2> HIDE DEF behind, length
  <2> QED
    BY <1>1, <1>11, <2>1, <2>2
<1>13. /\ bytes \in Seq(Byte) /\ Len(bytes) = HeaderSize + length
       /\ \A i \in 1..HeaderSize + length : bytes[i] = [of |-> Parsed, at |-> i]
  BY <1>10, BytesOf
<1> HIDE DEF length, bytes, behind
\* What is in the buffer of the record.
<1>14. ASSUME NEW k \in Nat, 1 <= k, k <= HeaderSize + length, pos + k <= end
       PROVE  file[pos + k] = [of |-> Parsed, at |-> k]
  <2> DEFINE j == pos + k
  <2>1. /\ j \in Nat /\ pos + 1 <= j /\ j <= behind /\ j <= Len(f) /\ j - (pos + 1) + 1 = k
        /\ j \in DOMAIN file /\ pos < j /\ j <= end
    BY <1>1, <1>2, <1>3, <1>11, <1>12, <1>14
  <2> HIDE DEF j
  <2>2. f[j] = [of |-> f[pos + 1].of, at |-> j - (pos + 1) + 1]
    BY <1>2, <1>7, <2>1, RecordBytes DEF WellFormed, behind
  <2>3. file[j] = [of |-> Parsed, at |-> k]
    BY <1>4, <1>9, <2>1, <2>2
  <2> QED
    BY <2>3 DEF j
<1>15. IsHeader
  <2>1. /\ SubSeq(file, pos + 1, pos + HeaderSize) \in Seq(Byte)
        /\ Len(SubSeq(file, pos + 1, pos + HeaderSize)) = HeaderSize
        /\ \A k \in 1..HeaderSize : SubSeq(file, pos + 1, pos + HeaderSize)[k] = file[pos + k]
    <3>1. pos + HeaderSize <= Len(file) /\ HeaderSize \in Nat /\ HeaderSize > 0
      BY <1>1
    <3> QED
      BY <1>1, <3>1, PartOf
  <2>2. /\ SubSeq(bytes, 0 + 1, 0 + HeaderSize) \in Seq(Byte)
        /\ Len(SubSeq(bytes, 0 + 1, 0 + HeaderSize)) = HeaderSize
        /\ \A k \in 1..HeaderSize : SubSeq(bytes, 0 + 1, 0 + HeaderSize)[k] = bytes[0 + k]
    <3>1. 0 + HeaderSize <= Len(bytes) /\ HeaderSize \in Nat /\ HeaderSize > 0 /\ 0 \in Nat
      BY <1>1, <1>11, <1>13
    <3> QED
      BY <1>13, <3>1, PartOf
  <2>3. 0 + 1 = 1 /\ 0 + HeaderSize = HeaderSize
    BY <1>1
  <2>4. /\ SubSeq(bytes, 1, HeaderSize) \in Seq(Byte) /\ Len(SubSeq(bytes, 1, HeaderSize)) = HeaderSize
        /\ \A k \in 1..HeaderSize : SubSeq(bytes, 1, HeaderSize)[k] = bytes[0 + k]
    BY <2>2, <2>3
  <2>5. \A k \in 1..HeaderSize :
          SubSeq(file, pos + 1, pos + HeaderSize)[k] = SubSeq(bytes, 1, HeaderSize)[k]
    <3> SUFFICES ASSUME NEW k \in 1..HeaderSize PROVE file[pos + k] = bytes[0 + k]
      BY <2>1, <2>4
    <3>1. k \in Nat /\ 1 <= k /\ k <= HeaderSize + length /\ pos + k <= end /\ 0 + k = k
      BY <1>1, <1>11
    <3>2. k \in 1..HeaderSize + length
      BY <1>1, <1>11, <3>1
    <3> QED
      BY <1>13, <1>14, <3>1, <3>2
  <2>6. SubSeq(file, pos + 1, pos + HeaderSize) = SubSeq(bytes, 1, HeaderSize)
    BY <2>1, <2>4, <2>5, SeqEqual
  <2> QED
    BY <1>11, <2>6 DEF IsHeader, Header, bytes
<1>16. ASSUME Fits PROVE Whole
  <2>1. HeaderSize + length <= end - pos
    BY <1>16 DEF Fits, length
  <2> DEFINE n == HeaderSize + length
  <2>2. n \in Nat /\ n > 0 /\ pos + n <= Len(file) /\ pos + n <= end /\ pos + HeaderSize + length = pos + n
    BY <1>1, <1>11, <2>1
  <2>3. Len(bytes) = n /\ \A i \in 1..n : bytes[i] = [of |-> Parsed, at |-> i]
    BY <1>13
  <2>4. \A k \in 1..n : file[pos + k] = bytes[k]
    <3> SUFFICES ASSUME NEW k \in 1..n PROVE file[pos + k] = bytes[k]
      OBVIOUS
    <3>1. k \in Nat /\ 1 <= k /\ k <= HeaderSize + length /\ pos + k <= end
      BY <1>1, <1>11, <2>1
    <3> QED
      BY <1>14, <2>3, <3>1
  <2> HIDE DEF n
  <2>5. /\ SubSeq(file, pos + 1, pos + n) \in Seq(Byte) /\ Len(SubSeq(file, pos + 1, pos + n)) = n
        /\ \A k \in 1..n : SubSeq(file, pos + 1, pos + n)[k] = file[pos + k]
    BY <1>1, <2>2, PartOf
  <2> DEFINE part == SubSeq(file, pos + 1, pos + n)
  <2>6. part = bytes
    <3>1. part \in Seq(Byte) /\ Len(part) = Len(bytes) /\ \A k \in 1..Len(part) : part[k] = bytes[k]
      BY <2>3, <2>4, <2>5
    <3>2. bytes \in Seq(Byte)
      BY <1>13
    <3> HIDE DEF part
    <3> QED
      BY <3>1, <3>2, SeqEqual
  <2> QED
    BY <2>2, <2>6 DEF Whole, bytes, length
<1>17. behind <= end => Fits
  <2>1. behind <= end => HeaderSize + length <= end - pos
    BY <1>1, <1>11, <1>12
  <2> QED
    BY <2>1 DEF Fits, length
<1>18. ~eof => Fits
  <2> SUFFICES ASSUME ~eof PROVE Fits
    OBVIOUS
  <2>1. end = b + BlockSize /\ b < pos + 1 /\ pos + 1 <= b + BlockSize
    BY <1>1, <1>5, <1>6
  <2>2. Behind(f, pos + 1) <= b + BlockSize
    BY <1>2, <1>7, <2>1, EndsInBlock DEF WellFormed
  <2> QED
    BY <1>17, <2>1, <2>2 DEF behind
<1>19. behind <= Len(f) => Fits
  <2>1. eof => end = Len(f)
    BY <1>2 DEF ReaderPlace
  <2> QED
    BY <1>1, <1>17, <1>18, <2>1
<1> QED
  BY <1>7, <1>9, <1>10, <1>12, <1>15, <1>16, <1>18, <1>19 DEF behind, length

\* A record that is all there and has not been given yet lies ahead, or its rest does.
LEMMA Expected ==
  ASSUME IndInv, NEW f \in Seq(Byte), Original(f), phase = "reading",
         NEW r \in DOMAIN extents, Intact(r), NotYet(r) \/ Amid(r)
  PROVE  /\ r \in Nat \ {0} /\ extents[r].from \in Nat /\ extents[r].to \in Nat
         /\ extents[r].to <= Len(f) /\ extents[r].to \in DOMAIN f
         /\ extents[r].from + HeaderSize <= extents[r].to
         /\ Lies(f, r, extents[r].from, extents[r].to)
         /\ pos + HeaderSize <= extents[r].to
<1> DEFINE from == extents[r].from
           to == extents[r].to
<1>1. r \in Nat \ {0} /\ from \in Nat /\ to \in Int
  <2>1. WriterType
    BY DEF IndInv
  <2> QED
    BY <2>1, ExtentType
<1>2. /\ Len(f) = Len(file) /\ WellFormed(f) /\ ExtentHolds(f, r) /\ Boundary(f, pos)
  BY DEF Original, ReaderPlace
<1>3. to >= 0 /\ to <= Len(f)
  BY <1>2 DEF Intact
<1>4. /\ to \in DOMAIN f /\ from + HeaderSize <= to
      /\ \A q \in Nat : Boundary(f, q) /\ q < to => q + HeaderSize <= to
  BY <1>1, <1>2, <1>3, ExtentLong
<1>5. pos \in Nat /\ HeaderSize \in Nat \ {0}
  BY Constants DEF IndInv, ReaderType
<1>6. pos <= from \/ pos < from + HeaderSize \/ pos < to
  BY DEF NotYet, Amid
<1>7. Lies(f, r, from, to)
  BY <1>2 DEF ExtentHolds
<1> HIDE DEF from, to
<1>8. pos < to
  BY <1>1, <1>4, <1>5, <1>6
<1>9. pos + HeaderSize <= to
  BY <1>2, <1>4, <1>5, <1>8
<1>10. to \in Nat
  BY <1>1, <1>3
<1> QED
  BY <1>1, <1>3, <1>4, <1>7, <1>9, <1>10 DEF from, to

\* Once the block in the buffer holds some of it, what is ahead is read.
LEMMA NothingMissing ==
  ASSUME IndInv, NEW f \in Seq(Byte), Original(f), phase = "reading",
         NEW r \in DOMAIN extents, Intact(r), NotYet(r) \/ Amid(r),
         end - pos >= HeaderSize, extents[r].from < end
  PROVE  IsHeader /\ Fits /\ Whole /\ pos + 1 \in Heads(f) /\ Parsed = f[pos + 1].of
<1> DEFINE from == extents[r].from
           to == extents[r].to
           x == IF pos < from THEN from + 1 ELSE pos + 1
<1>1. /\ from \in Nat /\ to \in Nat /\ to <= Len(f) /\ pos + HeaderSize <= to /\ from + HeaderSize <= to
      /\ Lies(f, r, from, to) /\ to \in DOMAIN f
  BY Expected
<1>2. /\ pos \in Nat /\ end \in Nat /\ HeaderSize \in Nat \ {0} /\ BlockSize \in Nat /\ pos <= end
      /\ file \in Seq(Byte)
  BY Constants DEF IndInv, ReaderType, WriterType
<1>3. Len(f) = Len(file) /\ WellFormed(f) /\ ReaderPlace(f)
  BY DEF Original
<1>4. PICK b \in BlockStarts : b <= pos /\ end <= b + BlockSize
  BY <1>3 DEF ReaderPlace
<1>5. b \in Nat
  BY StartsAreApart
<1>6. from < end
  OBVIOUS
<1>7. Blocks(from, to) \cap {(i - 1) \div BlockSize : i \in Damaged} = {}
  BY DEF Intact
<1> HIDE DEF from, to
<1>8. x \in from + 1 .. to /\ x - 1 \in Nat /\ b <= x - 1 /\ x - 1 < b + BlockSize
  BY <1>1, <1>2, <1>4, <1>5, <1>6
<1> HIDE DEF x
<1>9. ASSUME NEW i \in DOMAIN file, pos < i, i <= end, file[i] = Damage PROVE FALSE
  <2>1. i \in Nat /\ i - 1 \in Nat /\ b <= i - 1 /\ i - 1 < b + BlockSize
    <3>1. i \in Nat
      BY <1>2
    <3> QED
      BY <1>2, <1>4, <1>5, <1>9, <3>1
  <2>2. (i - 1) \div BlockSize = (x - 1) \div BlockSize
    BY <1>8, <2>1, BlockOf
  <2>3. (x - 1) \div BlockSize \in Blocks(from, to)
    BY <1>8 DEF Blocks
  <2>4. i \in Damaged
    BY <1>9 DEF Damaged
  <2> QED
    BY <1>7, <2>2, <2>3, <2>4
<1>10. /\ pos + 1 \in Heads(f) /\ Parsed = f[pos + 1].of /\ Parsed \in PhysicalRecord
       /\ Behind(f, pos + 1) = pos + HeaderSize + Parsed.length
       /\ IsHeader /\ (Fits => Whole) /\ (Behind(f, pos + 1) <= Len(f) => Fits)
  BY <1>9, UndamagedIsRead
<1>11. Behind(f, pos + 1) <= Len(f)
  <2> SUFFICES ASSUME Behind(f, pos + 1) > Len(f) PROVE FALSE
    <3>1. Behind(f, pos + 1) \in Nat /\ Len(f) \in Nat
      BY <1>10, HeadFacts
    <3> QED
      BY <3>1
  <2>1. Behind(f, pos + 1) \in Nat /\ Len(f) \in Nat
    BY <1>10, HeadFacts
  <2>2. pos + 1 <= to /\ to <= Behind(f, pos + 1) /\ to <= Len(f)
    BY <1>1, <1>2, <2>1
  <2>3. f[to] = [of |-> Parsed, at |-> to - (pos + 1) + 1]
    BY <1>1, <1>3, <1>10, <2>2, RecordBytes DEF WellFormed
  <2>4. f[to].at = HeaderSize + f[to].of.length
    BY <1>1 DEF Lies
  <2>5. to - (pos + 1) + 1 = HeaderSize + Parsed.length
    BY <2>3, <2>4
  <2>6. Parsed.length \in Nat
    BY <1>10 DEF PhysicalRecord
  <2>7. to = pos + HeaderSize + Parsed.length
    BY <1>1, <1>2, <2>5, <2>6
  <2> QED
    BY <1>1, <1>10, <2>1, <2>7
<1> QED
  BY <1>10, <1>11

-----------------------------------------------------------------------------
(* Each step of reading *)

\* What each of them has to show.
LEMMA ReadingForm ==
  ASSUME FormInv, phase = "reading", phase' \in {"reading", "read"}, UNCHANGED <<file, writerVars>>,
         \A f \in Seq(Byte) : failed = 0 /\ Original(f) /\ ReadInv /\ SilentInv =>
           Original(f)' /\ ReadInv' /\ SilentInv'
  PROVE  FormInv'
<1>1. failed' = failed /\ phase' # "writing"
  BY DEF writerVars
<1>2. failed \in Nat /\ (failed = 0 => (\E f \in Seq(Byte) : Original(f)) /\ ReadInv /\ SilentInv)
  BY DEF FormInv
<1>3. failed = 0 => (\E f \in Seq(Byte) : Original(f)') /\ ReadInv' /\ SilentInv'
  BY <1>2
<1> QED
  BY <1>1, <1>2, <1>3 DEF FormInv

LEMMA EndsForm ==
  ASSUME IndInv, FormInv, phase = "reading", eof, Ends, UNCHANGED <<file, writerVars>>,
         end - pos < HeaderSize \/ ~IsHeader \/ ~Fits
  PROVE  FormInv'
<1>1. /\ phase' = "read" /\ UNCHANGED <<pos, eof, end, fragmented, out, reported>>
  BY DEF Ends
<1> SUFFICES ASSUME NEW f \in Seq(Byte), Original(f), ReadInv, SilentInv
             PROVE  Original(f)' /\ ReadInv' /\ SilentInv'
  BY <1>1, ReadingForm
<1>2. Original(f)' /\ Damaged' = Damaged /\ \A r \in DOMAIN extents : Intact(r)' <=> Intact(r)
  BY <1>1, ReadingKeepsForm
<1>3. SilentInv'
  BY <1>1, <1>2 DEF SilentInv
<1>4. ReadInv'
  <2> SUFFICES ASSUME NEW r \in DOMAIN extents, Intact(r) PROVE Returned(r)
    BY <1>1, <1>2 DEF ReadInv, Returned, writerVars
  <2> SUFFICES ASSUME NotYet(r) \/ Amid(r) PROVE FALSE
    BY DEF ReadInv
  <2>1. /\ extents[r].from \in Nat /\ extents[r].to \in Nat /\ extents[r].to <= Len(f)
        /\ extents[r].from + HeaderSize <= extents[r].to /\ pos + HeaderSize <= extents[r].to
    BY Expected
  <2>2. end = Len(f)
    BY DEF Original, ReaderPlace
  <2>3. pos \in Nat /\ HeaderSize \in Nat \ {0} /\ end \in Nat
    BY Constants DEF IndInv, ReaderType
  <2> DEFINE from == extents[r].from
             to == extents[r].to
  <2>4. from \in Nat /\ to \in Nat /\ to <= end /\ from + HeaderSize <= to /\ pos + HeaderSize <= to
    BY <2>1, <2>2
  <2> HIDE DEF from, to
  <2>5. end - pos >= HeaderSize /\ from < end /\ ~(end - pos < HeaderSize)
    BY <2>3, <2>4
  <2>6. IsHeader /\ Fits
    BY <2>5, NothingMissing DEF from
  <2> QED
    BY <2>5, <2>6
<1> QED
  BY <1>2, <1>3, <1>4

LEMMA BadForm ==
  ASSUME IndInv, FormInv, phase = "reading", end - pos >= HeaderSize, NEW corrupt, Bad(corrupt),
         UNCHANGED <<file, writerVars>>,
         ~IsHeader \/ (~Fits /\ ~eof) \/ (Fits /\ ~Whole)
  PROVE  FormInv'
<1>1. /\ phase' = "reading" /\ pos' = end /\ UNCHANGED <<phase, eof, end, out>>
  BY DEF Bad
<1> SUFFICES ASSUME NEW f \in Seq(Byte), Original(f), ReadInv, SilentInv
             PROVE  Original(f)' /\ ReadInv' /\ SilentInv'
  BY <1>1, ReadingForm
<1>2. WellFormed(f) /\ ReaderPlace(f)
  BY DEF Original
<1>3. PICK b \in BlockStarts : b <= pos /\ end <= b + BlockSize /\ (~eof /\ end # 0 => end = b + BlockSize)
  BY <1>2 DEF ReaderPlace
<1>4. /\ pos \in Nat /\ end \in Nat /\ HeaderSize \in Nat \ {0} /\ pos <= end /\ b \in Nat
  BY Constants, StartsAreApart DEF IndInv, ReaderType
<1>5. Boundary(f, end) /\ b <= end
  BY <1>2, <1>3, <1>4, EndOfBuffer
<1>6. ReaderPlace(f)'
  BY <1>1, <1>2, <1>3, <1>5 DEF ReaderPlace
<1>7. Original(f)' /\ Damaged' = Damaged /\ \A r \in DOMAIN extents : Intact(r)' <=> Intact(r)
  BY <1>1, <1>6, ReadingKeepsForm
<1>8. SilentInv'
  <2>1. Damaged # {}
    <3> SUFFICES ASSUME Damaged = {} PROVE FALSE
      OBVIOUS
    <3>1. \A i \in DOMAIN file : pos < i /\ i <= end => file[i] # Damage
      BY DEF Damaged
    <3> QED
      BY <3>1, UndamagedIsRead
  <2> QED
    BY <1>7, <2>1 DEF SilentInv
<1>9. ReadInv'
  <2> SUFFICES ASSUME NEW r \in DOMAIN extents, Intact(r) PROVE Returned(r) \/ end <= extents[r].from
    BY <1>1, <1>7 DEF ReadInv, Returned, NotYet, writerVars
  <2> SUFFICES ASSUME NotYet(r) \/ Amid(r), ~(end <= extents[r].from) PROVE FALSE
    BY DEF ReadInv
  <2>1. extents[r].from \in Nat
    BY Expected
  <2>2. extents[r].from < end
    BY <1>4, <2>1
  <2> QED
    BY <2>2, NothingMissing
<1> QED
  BY <1>7, <1>8, <1>9

LEMMA RefillForm == ASSUME IndInv, FormInv, Refill PROVE FormInv'
<1>1. /\ phase = "reading" /\ end - pos < HeaderSize /\ ~eof
      /\ phase' = phase /\ pos' = end /\ end' = Smaller(end + BlockSize, Len(file))
      /\ eof' = (end' - end < BlockSize)
      /\ UNCHANGED <<file, writerVars, fragmented, scratch, out, reported>>
  BY DEF Refill
<1> SUFFICES ASSUME NEW f \in Seq(Byte), Original(f), ReadInv, SilentInv
             PROVE  Original(f)' /\ ReadInv' /\ SilentInv'
  BY <1>1, ReadingForm
<1>2. WellFormed(f) /\ ReaderPlace(f) /\ Len(f) = Len(file)
  BY <1>1 DEF Original
<1>3. PICK b \in BlockStarts : b <= pos /\ end <= b + BlockSize /\ (~eof /\ end # 0 => end = b + BlockSize)
  BY <1>2 DEF ReaderPlace
<1>4. /\ pos \in Nat /\ end \in Nat /\ pos <= end /\ end <= Len(file) /\ Len(file) \in Nat
      /\ HeaderSize \in Nat \ {0} /\ BlockSize \in Nat /\ HeaderSize < BlockSize
  BY Constants DEF IndInv, ReaderType, WriterType
<1>5. b \in Nat
  BY StartsAreApart
<1>6. Boundary(f, end) /\ end \in BlockStarts
  BY <1>1, <1>2, <1>3, EndOfBuffer
<1>7. /\ end' \in Nat /\ end <= end' /\ end' <= end + BlockSize /\ end' <= Len(f)
      /\ end' - end < BlockSize => end' = Len(f)
  BY <1>1, <1>2, <1>4 DEF Smaller
<1>7a. ~(end' - end < BlockSize) => end' = end + BlockSize /\ end' - end >= HeaderSize
  <2> DEFINE x == end
             y == end'
             B == BlockSize
             H == HeaderSize
  <2>1. x \in Nat /\ y \in Nat /\ B \in Nat /\ H \in Nat /\ H < B /\ y <= x + B
    BY <1>4, <1>7
  <2> HIDE DEF x, y, B, H
  <2>2. ~(y - x < B) => y = x + B /\ y - x >= H
    BY <2>1
  <2> QED
    BY <2>2 DEF x, y, B, H
<1>8. ReaderPlace(f)'
  <2>1. pos' = end /\ (eof' => end' - end < BlockSize) /\ (~eof' => ~(end' - end < BlockSize))
    BY <1>1
  <2>2. ~eof' => end' = end + BlockSize
    BY <1>7a, <2>1
  <2>3. eof' => end' = Len(f)
    BY <1>7, <2>1
  <2>4. end <= pos' /\ end' <= end + BlockSize
    BY <1>4, <1>7, <2>1
  <2> QED
    BY <1>2, <1>6, <2>1, <2>2, <2>3, <2>4 DEF ReaderPlace
<1>9. Original(f)' /\ Damaged' = Damaged /\ \A r \in DOMAIN extents : Intact(r)' <=> Intact(r)
  BY <1>1, <1>8, ReadingKeepsForm
<1>10. SilentInv'
  <2> SUFFICES ASSUME Damaged = {}
               PROVE  /\ reported = FALSE
                      /\ \/ end = 0 /\ fragmented = FALSE
                         \/ \E e \in 1..end :
                              /\ file[e].at > 0 /\ (fragmented = TRUE <=> Opens(file[e]))
                              /\ e = end \/ (end - e < HeaderSize /\ (eof' \/ end' - end >= HeaderSize))
    BY <1>1, <1>9 DEF SilentInv
  <2>1. reported = FALSE
    BY DEF SilentInv
  <2>2. CASE pos = 0 /\ fragmented = FALSE
    <3>1. end = 0
      BY <1>1, <1>3, <1>4, <1>5, <2>2
    <3> QED
      BY <2>1, <2>2, <3>1
  <2>3. CASE \E e \in 1..pos :
               /\ file[e].at > 0 /\ (fragmented = TRUE <=> Opens(file[e]))
               /\ e = pos \/ (pos - e < HeaderSize /\ (eof \/ end - pos >= HeaderSize))
    <3>1. PICK e \in 1..pos : /\ file[e].at > 0 /\ (fragmented = TRUE <=> Opens(file[e]))
                              /\ e = pos \/ end - pos >= HeaderSize
      BY <1>1, <2>3
    <3>2. e = pos /\ e \in 1..end
      BY <1>1, <1>4, <3>1
    <3>3. end - e < HeaderSize
      BY <1>1, <3>2
    <3>4. eof' \/ end' - end >= HeaderSize
      <4>1. ~eof' => ~(end' - end < BlockSize)
        BY <1>1
      <4> QED
        BY <1>7a, <4>1
    <3> QED
      BY <2>1, <3>1, <3>2, <3>3, <3>4
  <2> QED
    BY <1>1, <2>2, <2>3 DEF SilentInv
<1>11. ReadInv'
  <2> SUFFICES ASSUME NEW r \in DOMAIN extents, Intact(r)
               PROVE  \/ Returned(r)
                      \/ end <= extents[r].from
                      \/ end < extents[r].from + HeaderSize
                      \/ Amid(r)'
    BY <1>1, <1>6, <1>9 DEF ReadInv, Returned, NotYet, writerVars
  <2> SUFFICES ASSUME NotYet(r) \/ Amid(r)
               PROVE  \/ end <= extents[r].from
                      \/ end < extents[r].from + HeaderSize
                      \/ Amid(r)'
    BY DEF ReadInv
  <2> DEFINE from == extents[r].from
             to == extents[r].to
  <2>1. from \in Nat /\ to \in Nat /\ pos + HeaderSize <= to
    BY <1>1, Expected
  <2>2. CASE pos <= from
    <3> HIDE DEF from
    <3>1. end < from + HeaderSize
      BY <1>1, <1>4, <2>1, <2>2
    <3> QED
      BY <3>1 DEF from
  <2>3. CASE pos < from + HeaderSize /\ pos \in BlockStarts
    <3>1. end = pos
      <4> SUFFICES ASSUME end # pos PROVE FALSE
        OBVIOUS
      <4>1. end = b + BlockSize /\ b < pos
        BY <1>1, <1>3, <1>4, <1>5
      <4>2. b + BlockSize <= pos
        BY <2>3, <4>1, StartsAreApart
      <4> QED
        BY <1>4, <1>5, <4>1, <4>2
    <3> QED
      BY <2>3, <3>1
  <2>4. CASE Amid(r)
    <3>1. from < end /\ end < to
      <4>1. from < pos
        BY <2>4 DEF Amid
      <4> HIDE DEF from, to
      <4> QED
        BY <1>1, <1>4, <2>1, <4>1
    <3> QED
      BY <1>1, <2>4, <3>1 DEF Amid, writerVars
  <2> QED
    BY <2>2, <2>3, <2>4 DEF NotYet
<1> QED
  BY <1>9, <1>10, <1>11

\* A whole fragment in front of the reader is one of the file that was written.
LEMMA FragmentAhead ==
  ASSUME IndInv, NEW f \in Seq(Byte), Original(f), phase = "reading", ReadFragment
  PROVE  /\ pos + 1 \in Heads(f) /\ f[pos + 1].of = Parsed /\ f[pos + 1] = file[pos + 1]
         /\ pos' = Behind(f, pos + 1) /\ pos' \in DOMAIN f /\ pos + 1 <= pos' /\ pos' <= end
         /\ f[pos'].of = Parsed /\ f[pos'].at > 0 /\ pos' <= Len(f)
         /\ \A j \in Nat : pos + 1 <= j /\ j <= pos' => j \in DOMAIN f /\ f[j] = [of |-> Parsed, at |-> j - pos]
<1>1. /\ Parsed \in PhysicalRecord /\ file[pos + 1].at = 1 /\ pos + 1 \in DOMAIN file
      /\ pos' = pos + HeaderSize + Parsed.length /\ pos' \in Nat /\ pos + 1 <= pos' /\ pos' <= end
  BY Ahead
<1>2. /\ pos \in Nat /\ end \in Nat /\ end <= Len(file) /\ file \in Seq(Byte) /\ HeaderSize \in Nat \ {0}
  BY Constants DEF IndInv, ReaderType, WriterType
<1>3. /\ Len(f) = Len(file) /\ WellFormed(f) /\ \A i \in DOMAIN f : file[i] = f[i] \/ file[i] = Damage
  BY DEF Original
<1>4. DOMAIN f = DOMAIN file /\ DOMAIN f = 1..Len(f) /\ Len(f) \in Nat
  BY <1>2, <1>3
<1>5. f[pos + 1] = file[pos + 1] /\ pos + 1 \in Heads(f)
  <2>1. file[pos + 1] # Damage
    BY <1>1, ZeroAndDamage
  <2> QED
    BY <1>1, <1>3, <1>4, <2>1 DEF Heads
<1>6. f[pos + 1].of = Parsed
  BY <1>5 DEF Parsed
<1>7. pos' = Behind(f, pos + 1)
  <2>1. Parsed.length \in Nat
    BY <1>1 DEF PhysicalRecord
  <2>2. Behind(f, pos + 1) = (pos + 1) - 1 + HeaderSize + Parsed.length
    BY <1>6 DEF Behind
  <2> QED
    BY <1>1, <1>2, <2>1, <2>2
<1>8. ASSUME NEW j \in Nat, pos + 1 <= j, j <= pos'
      PROVE  j \in DOMAIN f /\ f[j] = [of |-> Parsed, at |-> j - pos]
  <2>1. j <= Len(f) /\ j <= Behind(f, pos + 1) /\ j - (pos + 1) + 1 = j - pos
    BY <1>1, <1>2, <1>3, <1>7, <1>8
  <2>2. j \in DOMAIN f /\ f[j] = [of |-> f[pos + 1].of, at |-> j - (pos + 1) + 1]
    BY <1>3, <1>5, <1>8, <2>1, RecordBytes DEF WellFormed
  <2> QED
    BY <1>6, <2>1, <2>2
<1>9. pos' \in DOMAIN f /\ f[pos'].of = Parsed /\ f[pos'].at > 0 /\ pos' <= Len(f)
  <2>1. pos' \in DOMAIN f /\ f[pos'] = [of |-> Parsed, at |-> pos' - pos]
    BY <1>1, <1>8
  <2> QED
    BY <1>1, <1>2, <1>3, <2>1
<1> QED
  BY <1>1, <1>5, <1>6, <1>7, <1>8, <1>9

\* The types of a file that is as it was written alternate: nothing is begun twice, and
\* nothing continues what was not begun.
LEMMA ReadFragmentIsSilent ==
  ASSUME IndInv, NEW f \in Seq(Byte), Original(f), phase = "reading", ReadFragment, SilentInv
  PROVE  SilentInv'
<1>1. /\ pos + 1 \in Heads(f) /\ f[pos + 1].of = Parsed
      /\ pos' \in DOMAIN f /\ pos + 1 <= pos' /\ pos' <= end
      /\ f[pos'].of = Parsed /\ f[pos'].at > 0 /\ pos' <= Len(f)
  BY FragmentAhead
<1>2. /\ phase' = phase /\ UNCHANGED <<file, eof, end>>
      /\ IF Parsed.type \in {"full", "first"} THEN Start ELSE Continue
  BY DEF ReadFragment
<1>3. /\ pos \in Nat /\ file \in Seq(Byte) /\ HeaderSize \in Nat \ {0} /\ fragmented \in BOOLEAN
      /\ Len(f) = Len(file) /\ WellFormed(f)
      /\ \A i \in DOMAIN f : file[i] = f[i] \/ file[i] = Damage
  BY Constants DEF IndInv, ReaderType, WriterType, Original
<1>4. DOMAIN f = DOMAIN file /\ DOMAIN f = 1..Len(f) /\ Len(f) \in Nat
  BY <1>3
<1>5. pos' \in Nat /\ pos' \in 1..pos'
  BY <1>1, <1>3, <1>4
<1>6. Parsed.type \in Types
  <2>1. Parsed \in PhysicalRecord
    BY Ahead
  <2> QED
    BY <2>1 DEF PhysicalRecord
<1> SUFFICES ASSUME Damaged = {}
             PROVE  reported' = FALSE /\ (fragmented' = TRUE <=> Opens(file[pos']))
  <2>1. Damaged' = Damaged
    BY <1>2 DEF Damaged
  <2>2. file'[pos'].at > 0 \/ Damaged # {}
    BY <1>1, <1>2, <1>3, <1>4 DEF Damaged
  <2> QED
    BY <1>2, <1>5, <2>1, <2>2 DEF SilentInv
<1>7. \A i \in DOMAIN f : file[i] = f[i]
  BY <1>3, <1>4 DEF Damaged
<1>8. reported = FALSE
  BY DEF SilentInv
<1>9. Parsed.type \in {"middle", "last"} <=> fragmented = TRUE
  <2>1. Continues(f[pos + 1]) <=> Parsed.type \in {"middle", "last"}
    BY <1>1 DEF Continues
  <2>2. CASE pos = 0 /\ fragmented = FALSE
    <3>1. pos + 1 = 1 /\ 1 \in DOMAIN f
      BY <1>1, <2>2 DEF Heads
    <3>2. ~Continues(f[1])
      BY <1>3, <3>1 DEF WellFormed, TypesAlternate
    <3> QED
      BY <2>1, <2>2, <3>1, <3>2
  <2>3. CASE \E e \in 1..pos :
               /\ file[e].at > 0 /\ (fragmented = TRUE <=> Opens(file[e]))
               /\ e = pos \/ (pos - e < HeaderSize /\ (eof \/ end - pos >= HeaderSize))
    <3>1. PICK e \in 1..pos : /\ file[e].at > 0 /\ (fragmented = TRUE <=> Opens(file[e]))
                              /\ e = pos \/ pos - e < HeaderSize
      BY <2>3
    <3>2. e < pos + 1 /\ (pos + 1) - e <= HeaderSize /\ e \in Nat /\ 1 <= e /\ e <= pos
      BY <1>3, <3>1
    <3>3. e \in DOMAIN f
      <4>1. pos + 1 \in DOMAIN f
        BY <1>1 DEF Heads
      <4> QED
        BY <1>3, <1>4, <3>2, <4>1
    <3>4. file[e] = f[e]
      BY <1>7, <3>3
    <3>5. Continues(f[pos + 1]) <=> Opens(f[e])
      BY <1>1, <1>3, <3>1, <3>2, <3>3, <3>4 DEF WellFormed, TypesAlternate
    <3> QED
      BY <2>1, <3>1, <3>4, <3>5
  <2> QED
    BY <2>2, <2>3 DEF SilentInv
<1>10. Opens(file[pos']) <=> Parsed.type \in {"first", "middle"}
  BY <1>1, <1>7 DEF Opens
<1>11. CASE Parsed.type \in {"full", "first"}
  <2>1. Start /\ fragmented = FALSE
    BY <1>2, <1>3, <1>9, <1>11
  <2>2. reported' = FALSE
    BY <1>8, <2>1 DEF Start
  <2>3. fragmented' = TRUE <=> Parsed.type = "first"
    BY <1>11, <2>1 DEF Start
  <2> QED
    BY <1>10, <1>11, <2>2, <2>3
<1>12. CASE Parsed.type \in {"middle", "last"}
  <2>1. Continue /\ fragmented = TRUE
    BY <1>2, <1>9, <1>12
  <2>2. reported' = FALSE
    BY <1>8, <2>1 DEF Continue
  <2>3. fragmented' = TRUE <=> Parsed.type = "middle"
    BY <1>12, <2>1 DEF Continue
  <2> QED
    BY <1>10, <1>12, <2>2, <2>3
<1> QED
  BY <1>6, <1>11, <1>12 DEF Types

\* What was read stays read.
LEMMA ReturnedStays ==
  ASSUME IndInv, ReadFragment, NEW r, Returned(r)
  PROVE  Returned(r)'
<1>1. out \in Seq(Seq(PhysicalRecord)) /\ DOMAIN out = 1..Len(out) /\ Len(out) \in Nat
  BY DEF IndInv, ReaderType
<1>2. PICK n \in DOMAIN out : out[n][1].rec = r
  BY DEF Returned
<1>3. \/ out' = out
      \/ out' = Append(out, <<Parsed>>)
      \/ out' = Append(out, Append(scratch, Parsed))
  BY DEF ReadFragment, Start, Continue
<1>4. n \in DOMAIN out' /\ out'[n] = out[n]
  BY <1>1, <1>3
<1> QED
  BY <1>2, <1>4 DEF Returned

\* A record that is all there is begun where its first fragment is, continued from then
\* on, and given with its last.
LEMMA ReadFragmentGives ==
  ASSUME IndInv, NEW f \in Seq(Byte), Original(f), phase = "reading", ReadFragment,
         NEW r \in DOMAIN extents, Intact(r), NotYet(r) \/ Amid(r)
  PROVE  Returned(r)' \/ NotYet(r)' \/ Amid(r)'
<1> DEFINE from == extents[r].from
           to == extents[r].to
<1>1. /\ r \in Nat \ {0} /\ from \in Nat /\ to \in Nat /\ to <= Len(f) /\ to \in DOMAIN f
      /\ from + HeaderSize <= to /\ Lies(f, r, from, to) /\ pos + HeaderSize <= to
  BY Expected
<1>2. /\ pos + 1 \in Heads(f) /\ f[pos + 1].of = Parsed /\ f[pos + 1] = file[pos + 1]
      /\ pos' \in DOMAIN f /\ pos + 1 <= pos' /\ pos' <= end
      /\ f[pos'].of = Parsed /\ pos' <= Len(f)
      /\ \A j \in Nat : pos + 1 <= j /\ j <= pos' => j \in DOMAIN f /\ f[j] = [of |-> Parsed, at |-> j - pos]
  BY FragmentAhead
<1>3. /\ phase' = phase /\ UNCHANGED <<file, writerVars, eof, end>>
      /\ IF Parsed.type \in {"full", "first"} THEN Start ELSE Continue
  BY DEF ReadFragment
<1>4. /\ pos \in Nat /\ HeaderSize \in Nat \ {0} /\ fragmented \in BOOLEAN /\ pos' \in Nat
      /\ Parsed \in PhysicalRecord /\ scratch \in Seq(PhysicalRecord)
      /\ out \in Seq(Seq(PhysicalRecord)) /\ Len(out) \in Nat
  BY Constants, Ahead DEF IndInv, ReaderType
<1>5. /\ Parsed.type \in Types /\ (Parsed.type \in {"full", "first"} <=> Parsed.frag = 1) /\ Parsed.rec # 0
  BY <1>4 DEF PhysicalRecord
<1>6. /\ Boundary(f, from)
      /\ \A i \in DOMAIN f : f[i].of.rec = r => from < i /\ (to >= 0 => i <= to)
      /\ \A i \in DOMAIN f : from < i /\ (to >= 0 => i <= to) => f[i].of.rec \in {0, r}
      /\ \A i \in Heads(f) : from < i /\ i <= from + HeaderSize => f[i].of.frag = 1
      /\ ~Opens(f[to])
  BY <1>1 DEF Lies
<1>7. extents' = extents
  BY <1>3 DEF writerVars
<1> HIDE DEF from, to
\* The fragment is one of the record if it begins behind the record's beginning.
<1>8. from < pos + 1 => Parsed.rec = r
  <2> SUFFICES ASSUME from < pos + 1 PROVE Parsed.rec = r
    OBVIOUS
  <2>1. pos + 1 \in DOMAIN f /\ pos + 1 <= to
    BY <1>1, <1>2, <1>4 DEF Heads
  <2> QED
    BY <1>2, <1>5, <1>6, <2>1
<1>9. ASSUME Parsed.rec = r, Parsed.type \in {"first", "middle"} PROVE from < pos' /\ pos' < to
  <2>1. from < pos' /\ pos' <= to
    BY <1>1, <1>2, <1>6, <1>9
  <2>2. pos' # to
    BY <1>2, <1>6, <1>9 DEF Opens
  <2> QED
    BY <1>1, <1>4, <2>1, <2>2
<1>10. ASSUME ~Amid(r), pos' > from PROVE Parsed.rec = r /\ Parsed.frag = 1
  <2>1. from <= pos
    <3> SUFFICES ASSUME pos < from PROVE FALSE
      BY <1>1, <1>4
    <3>1. PICK j \in Nat : j = from + 1 /\ pos + 1 <= j /\ j <= pos' /\ j - pos > 1
      <4>1. from + 1 \in Nat /\ pos + 1 <= from + 1 /\ from + 1 <= pos' /\ (from + 1) - pos > 1
        BY <1>1, <1>4, <1>10
      <4> QED
        BY <4>1
    <3>2. f[j] = [of |-> Parsed, at |-> j - pos]
      BY <1>2, <3>1
    <3>3. f[j].at = j - pos
      BY <3>2
    <3>4. f[j].at = 1 \/ f[j].at = 0
      <4>1. from < Len(f)
        BY <1>1, <1>2, <1>4, <1>10
      <4>2. f[from + 1].at = 1 \/ f[from + 1].at = 0
        BY <1>6, <4>1 DEF Boundary
      <4> QED
        BY <3>1, <4>2
    <3> QED
      BY <1>4, <3>1, <3>3, <3>4
  <2>2. from < pos + 1
    BY <1>1, <1>4, <2>1
  <2>3. pos + 1 <= from + HeaderSize
    <3>1. pos <= from \/ pos < from + HeaderSize
      BY <1>10 DEF NotYet, from
    <3> QED
      BY <1>1, <1>4, <3>1
  <2> QED
    BY <1>2, <1>6, <1>8, <2>2, <2>3
<1>11. ASSUME ~Amid(r), pos' > from PROVE Returned(r)' \/ Amid(r)'
  <2>1. Parsed.rec = r /\ Parsed.frag = 1 /\ Start /\ Parsed.type \in {"full", "first"}
    BY <1>3, <1>5, <1>10, <1>11
  <2>2. CASE Parsed.type = "full"
    <3>1. out' = Append(out, <<Parsed>>)
      BY <2>1, <2>2 DEF Start
    <3>2. Len(out) + 1 \in DOMAIN out' /\ out'[Len(out) + 1] = <<Parsed>>
      BY <1>4, <3>1
    <3>3. out'[Len(out) + 1][1].rec = r
      BY <2>1, <3>2
    <3> QED
      BY <3>2, <3>3 DEF Returned
  <2>3. CASE Parsed.type = "first"
    <3>1. fragmented' = TRUE /\ scratch' = <<Parsed>>
      BY <2>1, <2>3 DEF Start
    <3>2. scratch' # <<>> /\ scratch'[1].rec = r
      BY <2>1, <3>1
    <3>3. from < pos' /\ pos' < to
      BY <1>9, <2>1, <2>3
    <3> QED
      BY <1>7, <3>1, <3>2, <3>3 DEF Amid, from, to
  <2> QED
    BY <2>1, <2>2, <2>3
<1>12. ASSUME Amid(r) PROVE Returned(r)' \/ Amid(r)'
  <2>1. fragmented = TRUE /\ scratch # <<>> /\ scratch[1].rec = r /\ from < pos
    BY <1>12 DEF Amid, from
  <2>2. Parsed.rec = r
    BY <1>1, <1>4, <1>8, <2>1
  <2>3. Parsed.frag # 1
    <3> SUFFICES ASSUME Parsed.frag = 1 PROVE FALSE
      OBVIOUS
    <3>1. PICK e \in 1..pos : Rec(e) = scratch[1].rec
      BY <2>1 DEF IndInv, ScratchIsBeginning
    <3>2. /\ file[pos + 1].at = 1 /\ pos + 1 \in DOMAIN file
          /\ Rec(pos + 1) = Parsed.rec /\ Frag(pos + 1) = Parsed.frag
      BY Ahead
    <3>3. e \in DOMAIN file /\ e < pos + 1
      BY <3>1 DEF IndInv, ReaderType, WriterType
    <3>4. Rec(e) < Rec(pos + 1)
      BY <3>2, <3>3 DEF IndInv, FirstsAreNew
    <3> QED
      BY <1>1, <2>1, <2>2, <3>1, <3>2, <3>4
  <2>4. Continue /\ Parsed.type \in {"middle", "last"}
    BY <1>3, <1>5, <2>3 DEF Types
  <2> DEFINE more == Append(scratch, Parsed)
  <2>5. more # <<>> /\ more[1] = scratch[1] /\ more \in Seq(PhysicalRecord)
    <3>1. Len(scratch) \in Nat /\ Len(scratch) # 0
      BY <1>4, <2>1, EmptySeq
    <3> QED
      BY <1>4, <3>1, AppendProperties
  <2>6. CASE Parsed.type = "last"
    <3>1. out' = Append(out, more)
      BY <2>1, <2>4, <2>6 DEF Continue
    <3> HIDE DEF more
    <3>2. Len(out) + 1 \in DOMAIN out' /\ out'[Len(out) + 1] = more
      BY <1>4, <3>1
    <3> QED
      BY <2>1, <2>5, <3>2 DEF Returned
  <2>7. CASE Parsed.type = "middle"
    <3>1. scratch' = more /\ fragmented' = TRUE
      BY <2>1, <2>4, <2>7 DEF Continue
    <3> HIDE DEF more
    <3>2. from < pos' /\ pos' < to
      BY <1>9, <2>2, <2>7
    <3> QED
      BY <1>7, <2>1, <2>5, <3>1, <3>2 DEF Amid, from, to
  <2> QED
    BY <2>4, <2>6, <2>7
<1>13. CASE ~(pos' > from)
  <2>1. pos' <= from
    BY <1>1, <1>4, <1>13
  <2> QED
    BY <1>7, <2>1 DEF NotYet, from
<1> QED
  BY <1>11, <1>12, <1>13

LEMMA ReadFragmentForm == ASSUME IndInv, FormInv, ReadFragment PROVE FormInv'
<1>1. phase = "reading" /\ phase' = phase /\ UNCHANGED <<file, writerVars, eof, end>>
  BY DEF ReadFragment
<1> SUFFICES ASSUME NEW f \in Seq(Byte), Original(f), ReadInv, SilentInv
             PROVE  Original(f)' /\ ReadInv' /\ SilentInv'
  BY <1>1, ReadingForm
<1>2. WellFormed(f) /\ ReaderPlace(f)
  BY <1>1 DEF Original
<1>3. /\ pos + 1 \in Heads(f) /\ pos' = Behind(f, pos + 1) /\ pos + 1 <= pos' /\ pos' <= end
      /\ pos' \in DOMAIN f
  BY <1>1, FragmentAhead
<1>4. PICK b \in BlockStarts : b <= pos /\ end <= b + BlockSize /\ (~eof /\ end # 0 => end = b + BlockSize)
  BY <1>2 DEF ReaderPlace
<1>5. b <= pos'
  <2>1. b \in Nat /\ pos \in Nat /\ pos' \in Nat
    BY <1>3, StartsAreApart DEF IndInv, ReaderType
  <2> QED
    BY <1>3, <1>4, <2>1
<1>6. Boundary(f, pos')
  BY <1>2, <1>3 DEF WellFormed, NextIsNear
<1>7. ReaderPlace(f)'
  BY <1>1, <1>2, <1>4, <1>5, <1>6 DEF ReaderPlace
<1>8. Original(f)' /\ Damaged' = Damaged /\ \A r \in DOMAIN extents : Intact(r)' <=> Intact(r)
  BY <1>1, <1>7, ReadingKeepsForm
<1>9. SilentInv'
  BY <1>1, ReadFragmentIsSilent
<1>10. ReadInv'
  <2> SUFFICES ASSUME NEW r \in DOMAIN extents, Intact(r) PROVE Returned(r)' \/ NotYet(r)' \/ Amid(r)'
    BY <1>1, <1>8 DEF ReadInv, writerVars
  <2>1. CASE Returned(r)
    BY <2>1, ReturnedStays
  <2>2. CASE NotYet(r) \/ Amid(r)
    BY <1>1, <2>2, ReadFragmentGives
  <2> QED
    BY <2>1, <2>2 DEF ReadInv
<1> QED
  BY <1>8, <1>9, <1>10

-----------------------------------------------------------------------------
LEMMA InitForm == Init => FormInv
<1> SUFFICES ASSUME Init PROVE FormInv
  OBVIOUS
<1>1. /\ phase = "writing" /\ file = <<>> /\ blockOffset = 0 /\ left = -1 /\ extents = <<>>
      /\ failed = 0 /\ eof = FALSE /\ reported = FALSE
  BY DEF Init
<1>2. Len(file) = 0 /\ DOMAIN file = {} /\ DOMAIN extents = {} /\ Heads(file) = {}
  BY <1>1 DEF Heads
<1>3. Damaged = {}
  BY <1>2 DEF Damaged
<1>4. \A s \in BlockStarts : ~(s < Len(file))
  BY <1>2, StartsAreApart
<1>5. WellFormed(file)
  BY <1>2, <1>4 DEF WellFormed, RecordsAreWhole, HeadsAreThere, RecordsAreInBlocks, NextIsNear,
                    BlocksBegin, TypesAlternate
<1>6. WriterPlace
  <2>1. \E s \in BlockStarts : Len(file) = s + blockOffset
    <3>1. 0 \in BlockStarts /\ Len(file) = 0 + blockOffset
      BY <1>1, <1>2, StartsAreApart
    <3> QED
      BY <3>1
  <2>2. ~(left >= 0)
    BY <1>1
  <2> QED
    BY <1>2, <2>1, <2>2 DEF WriterPlace
<1>7. Written
  BY <1>2, <1>5, <1>6 DEF Written
<1> QED
  BY <1>1, <1>3, <1>7 DEF FormInv

LEMMA NextForm == ASSUME IndInv, FormInv, [Next]_vars PROVE FormInv'
<1>1. CASE \E size \in Sizes : AddRecord(size)
  BY <1>1, AddRecordForm
<1>2. CASE Emit \/ TrailerFails \/ EmitFails
  BY <1>2, EmitForm, TrailerFailsForm, EmitFailsForm
<1>3. CASE Cut \/ DamageByte
  BY <1>3, CutForm, DamageForm
<1>4. CASE Refill
  BY <1>4, RefillForm
<1>5. CASE ReadEnd
  <2>1. phase = "reading" /\ end - pos < HeaderSize /\ eof /\ Ends /\ UNCHANGED <<file, writerVars>>
    BY <1>5 DEF ReadEnd
  <2> QED
    BY <2>1, EndsForm
<1>6. CASE ReadTooLong
  <2>1. phase = "reading" /\ end - pos >= HeaderSize /\ ~Fits /\ UNCHANGED <<file, writerVars>>
    BY <1>6 DEF ReadTooLong
  <2>2. (eof /\ Ends) \/ (~eof /\ Bad(TRUE))
    BY <1>6 DEF ReadTooLong
  <2> QED
    BY <2>1, <2>2, EndsForm, BadForm
<1>7. CASE ReadNoHeader
  <2>1. phase = "reading" /\ end - pos >= HeaderSize /\ ~IsHeader /\ UNCHANGED <<file, writerVars>>
    BY <1>7 DEF ReadNoHeader
  <2>2. (eof /\ Ends) \/ Bad(FALSE) \/ Bad(TRUE)
    BY <1>7 DEF ReadNoHeader
  <2> QED
    BY <2>1, <2>2, EndsForm, BadForm
<1>8. CASE ReadMismatch
  <2>1. /\ phase = "reading" /\ end - pos >= HeaderSize /\ Fits /\ ~Whole /\ Bad(TRUE)
        /\ UNCHANGED <<file, writerVars>>
    BY <1>8 DEF ReadMismatch
  <2> QED
    BY <2>1, BadForm
<1>9. CASE ReadFragment
  BY <1>9, ReadFragmentForm
<1>10. CASE UNCHANGED vars
  <2>1. /\ UNCHANGED <<phase, file, blockOffset, left, fragments, extents, failed>>
        /\ UNCHANGED <<pos, end, eof, fragmented, scratch, out, reported>>
    BY <1>10 DEF vars, writerVars, readerVars
  <2>2. Damaged' = Damaged
    BY <2>1 DEF Damaged
  <2>3. Written' <=> Written
    BY <2>1 DEF Written, WriterPlace, ExtentHolds
  <2>4. \A f : Original(f)' <=> Original(f)
    BY <2>1 DEF Original, ReaderPlace, ExtentHolds
  <2>5. ReadInv' <=> ReadInv
    BY <2>1, <2>2 DEF ReadInv, Intact, Returned, NotYet, Amid
  <2>6. SilentInv' <=> SilentInv
    BY <2>1, <2>2 DEF SilentInv
  <2> QED
    BY <2>1, <2>2, <2>3, <2>4, <2>5, <2>6 DEF FormInv
<1> QED
  BY <1>1, <1>2, <1>3, <1>4, <1>5, <1>6, <1>7, <1>8, <1>9, <1>10 DEF Next

\* The second inductive invariant: without failed appends the file is one that was
\* written, but for its end and for damage, and reading misses nothing of it that is
\* all there.
THEOREM FormInvariant == Spec => []FormInv
<1>1. Init => FormInv
  BY InitForm
<1>2. IndInv /\ FormInv /\ [Next]_vars => FormInv'
  BY NextForm
<1> QED
  BY <1>1, <1>2, LogInvariant, PTL DEF Spec

\* However much of a log a crash has left, and whichever blocks the disk has damaged: a
\* record of which every byte is there, in blocks without damage, is read.
THEOREM IntactRecordsAreRead == Spec => []IntactIsRead
<1>1. FormInv => IntactIsRead
  <2> SUFFICES ASSUME FormInv, phase = "read", failed = 0, NEW r \in DOMAIN extents,
                      extents[r].to >= 0, extents[r].to <= Len(file),
                      Blocks(extents[r].from, extents[r].to) \cap {(i - 1) \div BlockSize : i \in Damaged} = {}
               PROVE  \E n \in DOMAIN out : out[n][1].rec = r
    BY DEF IntactIsRead
  <2>1. Intact(r) /\ ReadInv
    BY DEF Intact, FormInv
  <2>2. Returned(r)
    BY <2>1 DEF ReadInv
  <2> QED
    BY <2>2 DEF Returned
<1> QED
  BY <1>1, FormInvariant, PTL

\* Where a log was only cut short, between any two bytes, the reader reports nothing.
THEOREM DeathsAreSilent == Spec => []DeathIsSilent
<1>1. FormInv => DeathIsSilent
  BY DEF FormInv, SilentInv, DeathIsSilent
<1> QED
  BY <1>1, FormInvariant, PTL
=============================================================================
