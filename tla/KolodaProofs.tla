---------------------------- MODULE KolodaProofs -----------------------------
(***************************************************************************)
(* For any number of cards and any window: the deck always shows the next  *)
(* cards, and in patient hands it is a CardDeck.                           *)
(***************************************************************************)
EXTENDS KolodaDeck, SequenceTheorems, FiniteSetTheorems, TLAPS

-----------------------------------------------------------------------------
(* The window *)

WindowOf(front, total) == [i \in 1..Least(Window, total - front) |-> front + i - 1]

WindowInv == count \in Nat /\ cur \in Nat /\ WindowIsFull

LEMMA WindowShape ==
  ASSUME NEW c \in Nat, NEW n \in Nat, c <= n
  PROVE  /\ WindowOf(c, n) \in Seq(Nat)
         /\ Len(WindowOf(c, n)) = Least(Window, n - c)
         /\ WindowOf(c, n) = <<>> <=> c = n
         /\ \A i \in 1..Len(WindowOf(c, n)) : WindowOf(c, n)[i] = c + i - 1
         /\ c < n => Len(WindowOf(c, n)) >= 1 /\ WindowOf(c, n)[1] = c
<1>1. Least(Window, n - c) \in Nat /\ (Least(Window, n - c) = 0 <=> c = n)
  BY WindowAssumption DEF Least
<1>2. \A i \in 1..Least(Window, n - c) : c + i - 1 \in Nat
  BY <1>1
<1>3. WindowOf(c, n) \in Seq(Nat) /\ Len(WindowOf(c, n)) = Least(Window, n - c)
  BY <1>1, <1>2 DEF WindowOf
<1>4. \A i \in 1..Len(WindowOf(c, n)) : WindowOf(c, n)[i] = c + i - 1
  BY <1>3 DEF WindowOf
<1>5. WindowOf(c, n) = <<>> <=> c = n
  BY <1>1, <1>3, EmptySeq
<1>6. c < n => Len(WindowOf(c, n)) >= 1 /\ WindowOf(c, n)[1] = c
  BY <1>1, <1>3, <1>4
<1> QED
  BY <1>3, <1>4, <1>5, <1>6

\* The first card goes and the next one, if there is one, comes.
LEMMA WindowMoves ==
  ASSUME NEW c \in Nat, NEW n \in Nat, c < n
  PROVE  (IF c + Window < n THEN Append(Tail(WindowOf(c, n)), c + Window) ELSE Tail(WindowOf(c, n)))
           = WindowOf(c + 1, n)
<1> DEFINE v == WindowOf(c, n)
           w == WindowOf(c + 1, n)
           t == Tail(v)
<1>1. /\ v \in Seq(Nat) /\ Len(v) = Least(Window, n - c) /\ Len(v) >= 1 /\ v # <<>>
      /\ \A i \in 1..Len(v) : v[i] = c + i - 1
  <2>1. c <= n /\ c # n
    OBVIOUS
  <2>2. WindowOf(c, n) # <<>>
    BY <2>1, WindowShape
  <2>3. Len(WindowOf(c, n)) >= 1
    BY <2>1, WindowShape
  <2>4. WindowOf(c, n) \in Seq(Nat) /\ Len(WindowOf(c, n)) = Least(Window, n - c)
    BY <2>1, WindowShape
  <2>5. \A i \in 1..Len(WindowOf(c, n)) : WindowOf(c, n)[i] = c + i - 1
    BY <2>1, WindowShape
  <2> QED
    BY <2>2, <2>3, <2>4, <2>5
<1>2. /\ w \in Seq(Nat) /\ Len(w) = Least(Window, n - (c + 1))
      /\ \A i \in 1..Len(w) : w[i] = (c + 1) + i - 1
  <2>1. c + 1 \in Nat /\ c + 1 <= n
    OBVIOUS
  <2>2. WindowOf(c + 1, n) \in Seq(Nat) /\ Len(WindowOf(c + 1, n)) = Least(Window, n - (c + 1))
    BY <2>1, WindowShape
  <2>3. \A i \in 1..Len(WindowOf(c + 1, n)) : WindowOf(c + 1, n)[i] = (c + 1) + i - 1
    BY <2>1, WindowShape
  <2> QED
    BY <2>2, <2>3
<1> HIDE DEF v, w
<1>3. /\ t \in Seq(Nat) /\ Len(t) = Len(v) - 1 /\ \A i \in 1..Len(t) : t[i] = v[i + 1]
  BY <1>1, HeadTailProperties
<1>4. \A i \in 1..Len(t) : t[i] = c + i
  BY <1>1, <1>3
<1>5. CASE c + Window < n
  <2> DEFINE a == Append(t, c + Window)
  <2>1. Len(v) = Window /\ Len(w) = Window
    BY <1>1, <1>2, <1>5, WindowAssumption DEF Least
  <2>2. /\ a \in Seq(Nat) /\ Len(a) = Len(t) + 1
        /\ \A i \in 1..Len(t) : a[i] = t[i]
        /\ a[Len(t) + 1] = c + Window
    BY <1>3, WindowAssumption, AppendProperties
  <2>3. Len(a) = Len(w) /\ \A i \in 1..Len(w) : a[i] = w[i]
    BY <1>2, <1>3, <1>4, <2>1, <2>2, WindowAssumption
  <2>4. a = w
    BY <1>2, <2>2, <2>3, SeqEqual
  <2> QED
    BY <1>5, <2>4 DEF v, w
<1>6. CASE ~(c + Window < n)
  <2>1. Len(v) = n - c /\ Len(w) = n - c - 1
    BY <1>1, <1>2, <1>6, WindowAssumption DEF Least
  <2>2. Len(t) = Len(w) /\ \A i \in 1..Len(w) : t[i] = w[i]
    BY <1>2, <1>3, <1>4, <2>1
  <2>3. t = w
    BY <1>2, <1>3, <2>2, SeqEqual
  <2> QED
    BY <1>6, <2>3 DEF v, w
<1> QED
  BY <1>5, <1>6

LEMMA Facts ==
  ASSUME WindowInv
  PROVE  /\ count \in Nat /\ cur \in Nat /\ cur <= count /\ visible = WindowOf(cur, count)
         /\ visible = <<>> <=> cur = count
         /\ visible # <<>> => Front = cur /\ cur < count
         /\ Len(visible) = Least(Window, count - cur)
         /\ \A i \in 1..Len(visible) : visible[i] = cur + i - 1
         /\ Shown = {cur + i - 1 : i \in 1..Len(visible)}
<1>1. count \in Nat /\ cur \in Nat /\ cur <= count /\ visible = WindowOf(cur, count)
  BY DEF WindowInv, WindowIsFull, WindowOf
<1>2. visible \in Seq(Nat)
  BY <1>1, WindowShape
<1>3. \A i \in 1..Len(visible) : visible[i] = cur + i - 1
  BY <1>1, WindowShape
<1>4. Shown = {cur + i - 1 : i \in 1..Len(visible)}
  <2>1. DOMAIN visible = 1..Len(visible)
    BY <1>2
  <2> QED
    BY <1>3, <2>1 DEF Shown
<1>5. visible = <<>> <=> cur = count
  BY <1>1, WindowShape
<1>6. Len(visible) = Least(Window, count - cur)
  BY <1>1, WindowShape
<1>7. visible # <<>> => Front = cur /\ cur < count
  <2>1. visible # <<>> => cur < count
    BY <1>1, <1>5
  <2>2. cur < count => WindowOf(cur, count)[1] = cur
    BY <1>1, WindowShape
  <2> QED
    BY <1>1, <2>1, <2>2 DEF Front
<1> QED
  BY <1>1, <1>3, <1>4, <1>5, <1>6, <1>7

\* A card leaves, and the window moves on.
LEMMA SwipeMovesWindow ==
  ASSUME WindowInv, visible # <<>>, NEW d, SwipedAction(d, ending), count' = count
  PROVE  WindowInv' /\ cur' = cur + 1 /\ visible' = WindowOf(cur + 1, count)
<1>1. cur < count /\ cur \in Nat /\ count \in Nat /\ visible = WindowOf(cur, count)
  BY Facts
<1>2. cur' = cur + 1 /\ visible' = WindowOf(cur + 1, count)
  BY <1>1, WindowMoves DEF SwipedAction
<1> QED
  BY <1>1, <1>2 DEF WindowInv, WindowIsFull, WindowOf

LEMMA WindowInit == Init => WindowInv
<1> SUFFICES ASSUME Init PROVE WindowInv
  OBVIOUS
<1>1. WindowOf(0, 0) = <<>>
  BY WindowShape
<1> QED
  BY <1>1 DEF Init, WindowInv, WindowIsFull, WindowOf

LEMMA WindowStays == WindowInv /\ [Next]_vars => WindowInv'
<1> SUFFICES ASSUME WindowInv, [Next]_vars PROVE WindowInv'
  OBVIOUS
<1>1. ASSUME UNCHANGED <<count, cur, visible>> PROVE WindowInv'
  BY <1>1 DEF WindowInv, WindowIsFull
<1>2. ASSUME ReloadData PROVE WindowInv'
  <2>1. count' \in Nat /\ count' > cur /\ cur' = cur /\ cur \in Nat
    BY <1>2, Facts, WindowAssumption DEF ReloadData
  <2> QED
    BY <1>2, <2>1 DEF ReloadData, WindowInv, WindowIsFull
<1>3. ASSUME NEW d \in Directions, FlingAway(d) PROVE WindowInv'
  <2>1. visible # <<>>
    BY <1>3 DEF FlingAway, Shown
  <2> QED
    BY <1>1, <1>3, <2>1, SwipeMovesWindow DEF FlingAway, deckVars
<1>4. ASSUME NEW d \in Directions, Button(d) PROVE WindowInv'
  BY <1>1, <1>4, SwipeMovesWindow DEF Button
<1>5. ASSUME NEW c \in Cards, TouchDown(c) \/ SpringEnds(c) \/ FlightEnds(c) PROVE WindowInv'
  BY <1>1, <1>5 DEF TouchDown, SpringEnds, FlightEnds, deckVars
<1>6. ASSUME AppearEnds \/ Drag \/ LetGo \/ EndingEnds PROVE WindowInv'
  BY <1>1, <1>6 DEF AppearEnds, Drag, LetGo, EndingEnds, deckVars
<1>7. ASSUME UNCHANGED vars PROVE WindowInv'
  BY <1>1, <1>7 DEF vars
<1> QED
  BY <1>2, <1>3, <1>4, <1>5, <1>6, <1>7 DEF Next

\* However the deck is handled, it shows the cards from the front index on
\* (KolodaView.swift:381, swipedAction and the cards it loads).
THEOREM WindowStaysFull == Spec => []WindowIsFull
<1>1. WindowInv => WindowIsFull
  BY DEF WindowInv
<1> QED
  BY WindowInit, WindowStays, <1>1, PTL DEF Spec

-----------------------------------------------------------------------------
(* Any hands: as many reports as swipes *)

Waits(e) == {i \in DOMAIN e : e[i] # Back}
Endings == {Back} \cup {Moved(c, d) : c \in Nat, d \in Directions}

LEMMA MovedIsNotBack == \A c \in Nat : \A d : Moved(c, d) # Back /\ Moved(c, d).card = c
<1> SUFFICES ASSUME NEW c \in Nat, NEW d PROVE Moved(c, d) # Back /\ Moved(c, d).card = c
  OBVIOUS
<1>1. Moved(c, d).card = c /\ Back.card = Nil
  BY DEF Moved, Back
<1>2. c # Nil
  BY NilAssumption
<1> QED
  BY <1>1, <1>2

LEMMA WaitsFinite ==
  ASSUME NEW e \in Seq(Endings)
  PROVE  IsFiniteSet(Waits(e)) /\ Cardinality(Waits(e)) \in Nat
<1>1. Len(e) \in Nat /\ DOMAIN e = 1..Len(e)
  OBVIOUS
<1>2. IsFiniteSet(1..Len(e))
  BY <1>1, FS_Interval
<1>3. Waits(e) \in SUBSET (1..Len(e))
  BY <1>1 DEF Waits
<1>4. IsFiniteSet(Waits(e))
  BY <1>2, <1>3, FS_Subset
<1> QED
  BY <1>4, FS_CardinalityType

LEMMA WaitsAppend ==
  ASSUME NEW e \in Seq(Endings), NEW x \in Endings
  PROVE  /\ Append(e, x) \in Seq(Endings)
         /\ x = Back => Cardinality(Waits(Append(e, x))) = Cardinality(Waits(e))
         /\ x # Back => Cardinality(Waits(Append(e, x))) = Cardinality(Waits(e)) + 1
<1> DEFINE a == Append(e, x)
           n == Len(e) + 1
<1>1. a \in Seq(Endings) /\ Len(a) = n /\ a[n] = x /\ \A i \in 1..Len(e) : a[i] = e[i]
  BY AppendProperties
<1>2. Len(e) \in Nat /\ DOMAIN e = 1..Len(e) /\ DOMAIN a = 1..n
  BY <1>1
<1> HIDE DEF a
<1>3. x = Back => Waits(a) = Waits(e)
  BY <1>1, <1>2 DEF Waits
<1>4. x # Back => Waits(a) = Waits(e) \cup {n}
  BY <1>1, <1>2 DEF Waits
<1>5. n \notin Waits(e)
  BY <1>2 DEF Waits
<1>6. x # Back => Cardinality(Waits(a)) = Cardinality(Waits(e)) + 1
  BY <1>4, <1>5, WaitsFinite, FS_AddElement
<1> QED
  BY <1>1, <1>3, <1>6 DEF a

\* One animation leaves the queue, wherever it stands.
LEMMA WaitsRemove ==
  ASSUME NEW e \in Seq(Endings), NEW k \in 1..Len(e), NEW r \in Seq(Endings), Len(r) = Len(e) - 1,
         \A i \in 1..Len(r) : r[i] = IF i < k THEN e[i] ELSE e[i + 1]
  PROVE  /\ e[k] = Back => Cardinality(Waits(r)) = Cardinality(Waits(e))
         /\ e[k] # Back => Cardinality(Waits(r)) = Cardinality(Waits(e)) - 1
<1> DEFINE rest == Waits(e) \ {k}
           f == [i \in Waits(r) |-> IF i < k THEN i ELSE i + 1]
<1>1. /\ Len(e) \in Nat /\ Len(r) \in Nat /\ k \in Nat /\ k >= 1 /\ k <= Len(e)
      /\ DOMAIN e = 1..Len(e) /\ DOMAIN r = 1..Len(r)
  OBVIOUS
<1>2. \A i : i \in Waits(r) <=> i \in Nat /\ 1 <= i /\ i <= Len(r) /\ r[i] # Back
  BY <1>1 DEF Waits
<1>3. \A i : i \in Waits(e) <=> i \in Nat /\ 1 <= i /\ i <= Len(e) /\ e[i] # Back
  BY <1>1 DEF Waits
<1>4. \A i \in Waits(r) : (IF i < k THEN i ELSE i + 1) \in rest
  <2> TAKE i \in Waits(r)
  <2>1. i \in Nat /\ 1 <= i /\ i <= Len(r) /\ r[i] # Back
    BY <1>2
  <2>2. CASE i < k
    BY <1>1, <1>3, <2>1, <2>2
  <2>3. CASE ~(i < k)
    <3>1. i + 1 \in Nat /\ 1 <= i + 1 /\ i + 1 <= Len(e) /\ i + 1 # k /\ e[i + 1] # Back
      BY <1>1, <2>1, <2>3
    <3> QED
      BY <1>3, <2>3, <3>1
  <2> QED
    BY <2>2, <2>3
<1>5. f \in [Waits(r) -> rest]
  BY <1>4
<1>6. \A i, j \in Waits(r) : f[i] = f[j] => i = j
  <2> TAKE i, j \in Waits(r)
  <2>1. i \in Nat /\ j \in Nat
    BY <1>2
  <2> QED
    BY <1>1, <2>1
<1>7. \A j \in rest : \E i \in Waits(r) : f[i] = j
  <2> TAKE j \in rest
  <2>1. j \in Nat /\ 1 <= j /\ j <= Len(e) /\ e[j] # Back /\ j # k
    BY <1>3
  <2>2. CASE j < k
    <3>1. j <= Len(r) /\ r[j] = e[j]
      BY <1>1, <2>1, <2>2
    <3>2. j \in Waits(r)
      BY <1>2, <2>1, <3>1
    <3> QED
      BY <2>2, <3>2
  <2>3. CASE ~(j < k)
    <3>1. j - 1 \in Nat /\ 1 <= j - 1 /\ j - 1 <= Len(r) /\ ~(j - 1 < k) /\ (j - 1) + 1 = j
      BY <1>1, <2>1, <2>3
    <3>2. r[j - 1] = e[j]
      BY <1>1, <3>1
    <3>3. j - 1 \in Waits(r)
      BY <1>2, <2>1, <3>1, <3>2
    <3> QED
      BY <3>1, <3>3
  <2> QED
    BY <2>2, <2>3
<1> HIDE DEF f
<1>8. f \in Bijection(Waits(r), rest)
  BY <1>5, <1>6, <1>7 DEF Bijection, Injection, Surjection, IsInjective
<1>9. Cardinality(rest) = Cardinality(Waits(r))
  <2>1. ExistsBijection(Waits(r), rest)
    BY <1>8 DEF ExistsBijection
  <2>2. IsFiniteSet(Waits(r))
    BY WaitsFinite
  <2> HIDE DEF rest
  <2> QED
    BY <2>1, <2>2, FS_Bijection
<1>10. Cardinality(rest) = IF k \in Waits(e) THEN Cardinality(Waits(e)) - 1 ELSE Cardinality(Waits(e))
  BY WaitsFinite, FS_RemoveElement
<1>11. k \in Waits(e) <=> e[k] # Back
  BY <1>1, <1>3
<1> QED
  BY <1>9, <1>10, <1>11

LEMMA WaitsTail ==
  ASSUME NEW e \in Seq(Endings), e # <<>>
  PROVE  /\ Tail(e) \in Seq(Endings)
         /\ e[1] = Back => Cardinality(Waits(Tail(e))) = Cardinality(Waits(e))
         /\ e[1] # Back => Cardinality(Waits(Tail(e))) = Cardinality(Waits(e)) - 1
<1> DEFINE r == Tail(e)
<1>1. /\ r \in Seq(Endings) /\ Len(r) = Len(e) - 1
      /\ \A i \in 1..Len(r) : r[i] = e[i + 1]
  BY HeadTailProperties
<1>2. 1 \in 1..Len(e)
  BY <1>1
<1> HIDE DEF r
<1>3. \A i \in 1..Len(r) : r[i] = IF i < 1 THEN e[i] ELSE e[i + 1]
  BY <1>1
<1>4. /\ e[1] = Back => Cardinality(Waits(r)) = Cardinality(Waits(e))
      /\ e[1] # Back => Cardinality(Waits(r)) = Cardinality(Waits(e)) - 1
  BY <1>1, <1>2, <1>3, WaitsRemove
<1> QED
  BY <1>1, <1>4 DEF r

LEMMA WaitsCut ==
  ASSUME NEW e \in Seq(Endings), NEW k \in 1..Len(e), e[k] # Back
  PROVE  LET r == SubSeq(e, 1, k - 1) \o SubSeq(e, k + 1, Len(e))
         IN  r \in Seq(Endings) /\ Cardinality(Waits(r)) = Cardinality(Waits(e)) - 1
<1> DEFINE p == SubSeq(e, 1, k - 1)
           q == SubSeq(e, k + 1, Len(e))
           r == p \o q
<1>1. Len(e) \in Nat /\ k \in Nat /\ 1 <= k /\ k <= Len(e) /\ \A i \in 1..Len(e) : e[i] \in Endings
  OBVIOUS
<1>2. p \in Seq(Endings) /\ Len(p) = k - 1 /\ \A i \in 1..k - 1 : p[i] = e[i]
  <2>1. 1 \in Int /\ k - 1 \in Int /\ \A i \in 1..k - 1 : e[i] \in Endings
    BY <1>1
  <2>2. p \in Seq(Endings) /\ Len(p) = (IF 1 <= k - 1 THEN (k - 1) - 1 + 1 ELSE 0)
    BY <2>1, SubSeqProperties
  <2>3. \A i \in 1..(k - 1) - 1 + 1 : p[i] = e[1 + i - 1]
    BY <2>1, SubSeqProperties
  <2> QED
    BY <1>1, <2>2, <2>3
<1>3. q \in Seq(Endings) /\ Len(q) = Len(e) - k /\ \A i \in 1..Len(e) - k : q[i] = e[k + i]
  <2>1. k + 1 \in Int /\ Len(e) \in Int /\ \A i \in k + 1..Len(e) : e[i] \in Endings
    BY <1>1
  <2>2. q \in Seq(Endings) /\ Len(q) = (IF k + 1 <= Len(e) THEN Len(e) - (k + 1) + 1 ELSE 0)
    BY <2>1, SubSeqProperties
  <2>3. \A i \in 1..Len(e) - (k + 1) + 1 : q[i] = e[(k + 1) + i - 1]
    BY <2>1, SubSeqProperties
  <2> QED
    BY <1>1, <2>2, <2>3
<1> HIDE DEF p, q
<1>4. /\ r \in Seq(Endings) /\ Len(r) = Len(p) + Len(q)
      /\ \A i \in 1..Len(p) + Len(q) : r[i] = IF i <= Len(p) THEN p[i] ELSE q[i - Len(p)]
  BY <1>2, <1>3, ConcatProperties
<1> HIDE DEF r
<1>5. Len(r) = Len(e) - 1
  BY <1>1, <1>2, <1>3, <1>4
<1>6. \A i \in 1..Len(r) : r[i] = IF i < k THEN e[i] ELSE e[i + 1]
  <2> TAKE i \in 1..Len(r)
  <2>1. CASE i < k
    BY <1>1, <1>2, <1>4, <1>5, <2>1
  <2>2. CASE ~(i < k)
    <3>1. i - (k - 1) \in 1..Len(e) - k /\ k + (i - (k - 1)) = i + 1
      BY <1>1, <1>5, <2>2
    <3>2. r[i] = q[i - (k - 1)]
      BY <1>1, <1>2, <1>4, <1>5, <2>2
    <3> QED
      BY <1>3, <2>2, <3>1, <3>2
  <2> QED
    BY <2>1, <2>2
<1>7. Cardinality(Waits(r)) = Cardinality(Waits(e)) - 1
  BY <1>4, <1>5, <1>6, WaitsRemove
<1> QED
  BY <1>4, <1>7 DEF r, p, q

ReportsInv ==
  /\ WindowInv /\ ending \in Seq(Endings)
  /\ swiped \in Seq(Directions) /\ told \in Seq(Int \X Directions)
  /\ Len(swiped) = cur /\ Len(told) + Cardinality(Waits(ending)) = cur

LEMMA ReportsInit == Init => ReportsInv
<1> SUFFICES ASSUME Init PROVE ReportsInv
  OBVIOUS
<1>1. Waits(ending) = {}
  BY DEF Init, Waits
<1>2. Cardinality({}) = 0
  BY FS_EmptySet
<1>3. ending = <<>> /\ swiped = <<>> /\ told = <<>> /\ cur = 0
  BY DEF Init
<1>4. Cardinality(Waits(ending)) = 0
  BY <1>1, <1>2
<1>5. Len(swiped) = cur /\ Len(told) + Cardinality(Waits(ending)) = cur
  BY <1>3, <1>4
<1>6. ending \in Seq(Endings) /\ swiped \in Seq(Directions) /\ told \in Seq(Int \X Directions)
  BY <1>3
<1> QED
  BY <1>5, <1>6, WindowInit DEF ReportsInv

LEMMA ReportsSwipe ==
  ASSUME ReportsInv, visible # <<>>, NEW d \in Directions, SwipedAction(d, ending), count' = count, WindowInv'
  PROVE  ReportsInv'
<1>1. cur \in Nat /\ count \in Nat /\ cur < count /\ Len(told) \in Nat
  BY Facts DEF ReportsInv
<1>2. cur' = cur + 1 /\ visible' = WindowOf(cur + 1, count)
  BY SwipeMovesWindow DEF ReportsInv
<1>3. swiped' \in Seq(Directions) /\ Len(swiped') = cur'
  <2>1. swiped' = Append(swiped, d)
    BY DEF SwipedAction
  <2> QED
    BY <1>1, <1>2, <2>1 DEF ReportsInv
<1>4. Cardinality(Waits(ending)) \in Nat
  BY WaitsFinite DEF ReportsInv
<1>5. CASE cur + 1 < count
  <2>1. visible' # <<>> /\ visible'[1] = cur + 1
    <3>1. cur + 1 \in Nat /\ cur + 1 <= count /\ cur + 1 # count
      BY <1>1, <1>5
    <3>2. WindowOf(cur + 1, count) # <<>>
      BY <1>1, <3>1, WindowShape
    <3>3. WindowOf(cur + 1, count)[1] = cur + 1
      BY <1>1, <1>5, <3>1, WindowShape
    <3> QED
      BY <1>2, <3>2, <3>3
  <2>2. ending' = Append(ending, Moved(cur + 1, d)) /\ told' = told
    <3>1. ending' = Append(ending, Moved(visible'[1], d)) /\ told' = told
      BY <2>1 DEF SwipedAction
    <3> QED
      BY <2>1, <3>1
  <2>3. cur + 1 \in Nat
    BY <1>1
  <2>4. Moved(cur + 1, d) \in Endings /\ Moved(cur + 1, d) # Back
    BY <2>3, MovedIsNotBack DEF Endings
  <2>5. ending' \in Seq(Endings) /\ Cardinality(Waits(ending')) = Cardinality(Waits(ending)) + 1
    BY <2>2, <2>4, WaitsAppend DEF ReportsInv
  <2> QED
    BY <1>1, <1>2, <1>3, <1>4, <2>2, <2>5 DEF ReportsInv
<1>6. CASE ~(cur + 1 < count)
  <2>1. visible' = <<>>
    <3>1. cur + 1 \in Nat /\ cur + 1 <= count /\ cur + 1 = count
      BY <1>1, <1>6
    <3>2. WindowOf(cur + 1, count) = <<>>
      BY <1>1, <3>1, WindowShape
    <3> QED
      BY <1>2, <3>2
  <2>2. ending' = ending /\ told' = Append(told, <<cur, d>>)
    BY <2>1 DEF SwipedAction
  <2>3. told' \in Seq(Int \X Directions) /\ Len(told') = Len(told) + 1
    BY <1>1, <2>2 DEF ReportsInv
  <2>4. ending' \in Seq(Endings) /\ Cardinality(Waits(ending')) = Cardinality(Waits(ending))
    BY <2>2 DEF ReportsInv
  <2>5. Len(told') + Cardinality(Waits(ending')) = cur'
    <3>1. Len(told) + Cardinality(Waits(ending)) = cur
      BY DEF ReportsInv
    <3>2. cur' = cur + 1 /\ Len(told') = Len(told) + 1
      BY <1>2, <2>3
    <3> QED
      BY <1>1, <1>4, <2>4, <3>1, <3>2
  <2> QED
    BY <1>3, <2>3, <2>4, <2>5 DEF ReportsInv
<1> QED
  BY <1>5, <1>6

\* One animation of a swipe ends, and reports it.
LEMMA ReportsMove ==
  ASSUME ReportsInv, WindowInv', NEW k \in 1..Len(ending), ending[k] # Back, MovedUp(ending[k].direction),
         ending' \in Seq(Endings), Cardinality(Waits(ending')) = Cardinality(Waits(ending)) - 1,
         UNCHANGED <<cur, swiped>>
  PROVE  ReportsInv'
<1>1. ending[k].direction \in Directions
  <2>1. ending[k] \in Endings
    BY DEF ReportsInv
  <2>2. PICK c \in Nat : \E d \in Directions : ending[k] = Moved(c, d)
    BY <2>1 DEF Endings
  <2> QED
    BY <2>2 DEF Moved
<1>2. cur \in Nat /\ Len(told) \in Nat
  BY Facts DEF ReportsInv
<1>3. told' \in Seq(Int \X Directions) /\ Len(told') = Len(told) + 1
  BY <1>1, <1>2 DEF ReportsInv, MovedUp
<1>4. Cardinality(Waits(ending)) \in Nat
  BY WaitsFinite DEF ReportsInv
<1> QED
  BY <1>2, <1>3, <1>4 DEF ReportsInv

LEMMA ReportsStay == ReportsInv /\ [Next]_vars => ReportsInv'
<1> SUFFICES ASSUME ReportsInv, [Next]_vars PROVE ReportsInv'
  OBVIOUS
<1>1. WindowInv'
  BY WindowStays DEF ReportsInv
<1>2. ASSUME UNCHANGED <<cur, ending, swiped, told>> PROVE ReportsInv'
  BY <1>1, <1>2 DEF ReportsInv, Waits
<1>3. ASSUME ReloadData \/ AppearEnds \/ Drag PROVE ReportsInv'
  BY <1>2, <1>3 DEF ReloadData, AppearEnds, Drag, deckVars, history
<1>4. ASSUME NEW c \in Cards, SpringEnds(c) \/ FlightEnds(c) PROVE ReportsInv'
  BY <1>2, <1>4 DEF SpringEnds, FlightEnds, deckVars, history
<1>5. ASSUME LetGo PROVE ReportsInv'
  <2>1. UNCHANGED <<cur, swiped, told>> /\ (ending' = ending \/ ending' = Append(ending, Back))
    BY <1>5 DEF LetGo, CardWasReset, deckVars, history
  <2>2. Back \in Endings
    BY DEF Endings
  <2>3. ASSUME ending' = Append(ending, Back) PROVE ReportsInv'
    <3>1. ending' \in Seq(Endings) /\ Cardinality(Waits(ending')) = Cardinality(Waits(ending))
      BY <2>2, <2>3, WaitsAppend DEF ReportsInv
    <3> QED
      BY <1>1, <2>1, <3>1 DEF ReportsInv
  <2> QED
    BY <1>2, <2>1, <2>3
<1>6. ASSUME EndingEnds PROVE ReportsInv'
  <2>1. ending # <<>> /\ ending' = Tail(ending) /\ UNCHANGED <<cur, swiped>> /\ ending \in Seq(Endings)
    BY <1>6 DEF EndingEnds, ReportsInv
  <2>2. CASE ending[1] = Back
    <3>1. told' = told
      BY <1>6, <2>2 DEF EndingEnds
    <3>2. ending' \in Seq(Endings) /\ Cardinality(Waits(ending')) = Cardinality(Waits(ending))
      BY <2>1, <2>2, WaitsTail
    <3> QED
      BY <1>1, <2>1, <3>1, <3>2 DEF ReportsInv
  <2>3. CASE ending[1] # Back
    <3>1. MovedUp(ending[1].direction)
      BY <1>6, <2>3 DEF EndingEnds
    <3>2. ending' \in Seq(Endings) /\ Cardinality(Waits(ending')) = Cardinality(Waits(ending)) - 1
      BY <2>1, <2>3, WaitsTail
    <3>3. 1 \in 1..Len(ending)
      BY <2>1
    <3> QED
      BY <1>1, <2>1, <2>3, <3>1, <3>2, <3>3, ReportsMove
  <2> QED
    BY <2>2, <2>3
<1>7. ASSUME NEW c \in Cards, TouchDown(c) PROVE ReportsInv'
  <2>1. UNCHANGED <<cur, swiped>> /\ c \in Nat /\ ending \in Seq(Endings)
    BY <1>7, WindowAssumption DEF TouchDown, Cards, ReportsInv
  <2>2. ASSUME NEW i \in DOMAIN ending, ending[i].card = c, MovedUp(ending[i].direction),
               ending' = SubSeq(ending, 1, i - 1) \o SubSeq(ending, i + 1, Len(ending))
        PROVE  ReportsInv'
    <3>1. ending[i] # Back
      <4>1. Back.card = Nil /\ c # Nil
        BY <2>1, NilAssumption DEF Back
      <4> QED
        BY <2>2, <4>1
    <3>2. i \in 1..Len(ending)
      BY <2>1
    <3>3. ending' \in Seq(Endings) /\ Cardinality(Waits(ending')) = Cardinality(Waits(ending)) - 1
      BY <2>1, <2>2, <3>1, <3>2, WaitsCut
    <3> QED
      BY <1>1, <2>1, <2>2, <3>1, <3>2, <3>3, ReportsMove
  <2>3. \/ \E i \in DOMAIN ending :
             /\ ending[i].card = c /\ MovedUp(ending[i].direction)
             /\ ending' = SubSeq(ending, 1, i - 1) \o SubSeq(ending, i + 1, Len(ending))
        \/ UNCHANGED <<told, ending>>
    BY <1>7 DEF TouchDown
  <2> QED
    BY <1>2, <2>1, <2>2, <2>3
<1>8. ASSUME NEW d \in Directions, FlingAway(d) PROVE ReportsInv'
  <2>1. visible # <<>>
    BY <1>8 DEF FlingAway, Shown
  <2>2. CASE touch \in orphans
    BY <1>2, <1>8, <2>2 DEF FlingAway, deckVars
  <2>3. CASE touch \notin orphans
    BY <1>1, <1>8, <2>1, <2>3, ReportsSwipe DEF FlingAway
  <2> QED
    BY <2>2, <2>3
<1>9. ASSUME NEW d \in Directions, Button(d) PROVE ReportsInv'
  <2>1. CASE Front \in began
    BY <1>2, <1>9, <2>1 DEF Button
  <2>2. CASE Front \notin began
    BY <1>1, <1>9, <2>2, ReportsSwipe DEF Button
  <2> QED
    BY <2>1, <2>2
<1>10. ASSUME UNCHANGED vars PROVE ReportsInv'
  BY <1>2, <1>10 DEF vars
<1> QED
  BY <1>3, <1>4, <1>5, <1>6, <1>7, <1>8, <1>9, <1>10 DEF Next

\* However the deck is handled, the delegate hears as often as cards leave, now or when
\* an animation that is under way ends (KolodaView.swift:369-380).
THEOREM ReportsMatchSwipes == Spec => []AsManyReportsAsSwipes
<1>1. ReportsInv => AsManyReportsAsSwipes
  BY DEF ReportsInv, AsManyReportsAsSwipes, Outstanding, Waits
<1> QED
  BY ReportsInit, ReportsStay, <1>1, PTL DEF Spec

-----------------------------------------------------------------------------
(* Any hands: what the deck waits for *)

\* A card that is touched, or still flies, is the front card or has left.
HandInv ==
  /\ touch # Nil => touch \in Nat /\ touch <= cur
  /\ \A c \in flying : c \in Nat /\ c <= cur

\* With no animation left, "animating" stays set by the front card alone: it is being
\* dragged, or it has lost its delegate.
WaitsForFront ==
  animating /\ ~appearing /\ ending = <<>> =>
    visible # <<>> /\ (Front \in orphans \/ touch = Front)

MovingInv == WindowInv /\ HandInv /\ WaitsForFront

LEMMA MovingInit == Init => MovingInv
<1> SUFFICES ASSUME Init PROVE MovingInv
  OBVIOUS
<1>1. HandInv /\ WaitsForFront
  BY DEF Init, HandInv, WaitsForFront
<1> QED
  BY <1>1, WindowInit DEF MovingInv

\* A finger on a card of the deck is on the front card.
LEMMA TouchedIsFront ==
  ASSUME MovingInv, touch \in Shown
  PROVE  touch # Nil /\ visible # <<>> /\ touch = Front /\ Front = cur /\ cur \in Nat
<1>1. visible # <<>>
  BY DEF Shown
<1>2. cur \in Nat /\ Front = cur /\ \A c \in Shown : c \in Nat /\ c >= cur
  BY <1>1, Facts DEF MovingInv
<1>3. touch \in Nat /\ touch >= cur
  BY <1>2
<1>4. touch # Nil
  BY <1>3, NilAssumption
<1>5. touch <= cur
  BY <1>4 DEF MovingInv, HandInv
<1> QED
  BY <1>1, <1>2, <1>3, <1>4, <1>5

\* After a swipe the deck waits for the new front card, or for nothing.
LEMMA SwipeWaits ==
  ASSUME NEW d, SwipedAction(d, ending), ending \in Seq(Endings)
  PROVE  animating' => ending' # <<>>
<1> SUFFICES ASSUME animating' PROVE ending' # <<>>
  OBVIOUS
<1>1. ending' = Append(ending, Moved(visible'[1], d))
  BY DEF SwipedAction
<1> QED
  BY <1>1

\* Steps that leave the deck and the finger alone.
LEMMA SameHand ==
  ASSUME MovingInv, UNCHANGED <<cur, touch>>, flying' \subseteq flying
  PROVE  HandInv'
BY DEF MovingInv, HandInv

LEMMA SwipeMoves ==
  ASSUME MovingInv, visible # <<>>, NEW d, SwipedAction(d, ending), ending \in Seq(Endings),
         touch' = touch \/ touch' = Nil, flying' = flying \cup {Front}
  PROVE  HandInv' /\ WaitsForFront'
<1>1. cur \in Nat /\ Front = cur /\ cur' = cur + 1
  BY Facts DEF MovingInv, SwipedAction
<1>2. HandInv'
  BY <1>1 DEF MovingInv, HandInv
<1>3. WaitsForFront'
  BY SwipeWaits DEF WaitsForFront
<1> QED
  BY <1>2, <1>3

LEMMA TouchMoves ==
  ASSUME MovingInv, NEW c, TouchDown(c)
  PROVE  HandInv' /\ WaitsForFront'
<1>1. touch = Nil /\ touch' = c /\ flying' = flying \ {c} /\ cur \in Nat
      /\ UNCHANGED <<cur, visible, appearing, orphans>>
  BY Facts DEF TouchDown, MovingInv
<1>2. c \in Nat /\ c <= cur
  <2>1. (visible # <<>> /\ c = Front) \/ c \in flying
    BY DEF TouchDown, Touchable
  <2>2. visible # <<>> => Front = cur
    BY Facts DEF MovingInv
  <2> QED
    BY <1>1, <2>1, <2>2 DEF MovingInv, HandInv
<1>3. HandInv'
  BY <1>1, <1>2 DEF MovingInv, HandInv
<1>4. visible # <<>> => Front # Nil
  BY Facts, NilAssumption DEF MovingInv
<1>5. animating' = FALSE \/ (animating' = animating /\ ending' = ending)
  BY DEF TouchDown, MovedUp
<1>6. Front' = Front
  BY <1>1 DEF Front
<1>7. WaitsForFront'
  BY <1>1, <1>4, <1>5, <1>6 DEF MovingInv, WaitsForFront
<1> QED
  BY <1>3, <1>7

LEMMA MovingStays == ReportsInv /\ MovingInv /\ [Next]_vars => MovingInv'
<1> SUFFICES ASSUME ReportsInv, MovingInv, [Next]_vars PROVE HandInv' /\ WaitsForFront'
  BY WindowStays DEF MovingInv
<1>1. ending \in Seq(Endings)
  BY DEF ReportsInv
<1>2. ASSUME UNCHANGED <<cur, visible, animating, appearing, ending, touch, orphans>>,
             flying' \subseteq flying
      PROVE  HandInv' /\ WaitsForFront'
  BY <1>2, SameHand DEF MovingInv, WaitsForFront, Front
<1>3. ASSUME ReloadData \/ AppearEnds PROVE HandInv' /\ WaitsForFront'
  <2>1. UNCHANGED <<cur, touch>> /\ flying' \subseteq flying
    BY <1>3 DEF ReloadData, AppearEnds, deckVars, cardVars
  <2>2. appearing' = TRUE \/ animating' = FALSE
    BY <1>3 DEF ReloadData, AppearEnds
  <2> QED
    BY <2>1, <2>2, SameHand DEF WaitsForFront
<1>4. ASSUME Drag PROVE HandInv' /\ WaitsForFront'
  <2>1. UNCHANGED <<cur, visible, touch, orphans>> /\ flying' \subseteq flying
    BY <1>4 DEF Drag, deckVars, cardVars
  <2>2. visible # <<>> /\ touch = Front
    BY <1>4, TouchedIsFront DEF Drag
  <2> QED
    BY <2>1, <2>2, SameHand DEF WaitsForFront, Front
<1>5. ASSUME LetGo PROVE HandInv' /\ WaitsForFront'
  <2>1. touch' = Nil /\ UNCHANGED <<cur, visible, appearing, flying, orphans>>
    BY <1>5 DEF LetGo, deckVars
  <2>2. HandInv'
    BY <2>1 DEF MovingInv, HandInv
  <2>3. CASE touch \in orphans
    <3>1. animating' = animating /\ ending' = ending
      BY <1>5, <2>3 DEF LetGo
    <3>2. Front' = Front
      BY <2>1 DEF Front
    <3>3. WaitsForFront'
      BY <2>1, <2>3, <3>1, <3>2 DEF MovingInv, WaitsForFront
    <3> QED
      BY <2>2, <3>3
  <2>4. CASE touch \notin orphans
    <3>1. animating' = (Len(visible) > 1)
      BY <1>5, <2>4 DEF LetGo, CardWasReset
    <3>2. Len(visible) > 1 => ending' = Append(ending, Back)
      BY <1>5, <2>4 DEF LetGo, CardWasReset
    <3>3. Append(ending, Back) # <<>>
      BY <1>1
    <3>4. animating' => ending' # <<>>
      BY <3>1, <3>2, <3>3, Zenon
    <3>5. WaitsForFront'
      BY <3>4 DEF WaitsForFront
    <3> QED
      BY <2>2, <3>5
  <2> QED
    BY <2>2, <2>3, <2>4
<1>6. ASSUME EndingEnds PROVE HandInv' /\ WaitsForFront'
  <2>1. UNCHANGED <<cur, touch>> /\ flying' \subseteq flying /\ animating' = FALSE
    BY <1>6 DEF EndingEnds, MovedUp, cardVars
  <2> QED
    BY <2>1, SameHand DEF WaitsForFront
<1>7. ASSUME NEW d \in Directions, FlingAway(d) PROVE HandInv' /\ WaitsForFront'
  <2>1. touch' = Nil /\ flying' = flying \cup {touch} /\ UNCHANGED <<appearing, orphans>>
    BY <1>7 DEF FlingAway
  <2>2. visible # <<>> /\ touch = Front /\ Front = cur /\ cur \in Nat
    BY <1>7, TouchedIsFront DEF FlingAway
  <2>3. CASE touch \in orphans
    <3>1. UNCHANGED <<cur, visible, animating, ending>>
      BY <1>7, <2>3 DEF FlingAway, deckVars
    <3>2. HandInv'
      BY <2>1, <2>2, <3>1 DEF MovingInv, HandInv
    <3>3. Front' = Front
      BY <3>1 DEF Front
    <3> QED
      BY <2>1, <2>2, <2>3, <3>1, <3>2, <3>3 DEF WaitsForFront
  <2>4. CASE touch \notin orphans
    <3>1. SwipedAction(d, ending)
      BY <1>7, <2>4 DEF FlingAway
    <3> QED
      BY <1>1, <2>1, <2>2, <3>1, SwipeMoves
  <2> QED
    BY <2>3, <2>4
<1>8. ASSUME NEW d \in Directions, Button(d) PROVE HandInv' /\ WaitsForFront'
  <2>1. visible # <<>> /\ touch' = touch /\ orphans' = orphans \cup {Front} /\ appearing' = appearing
    BY <1>8 DEF Button
  <2>2. CASE Front \in began
    <3>1. UNCHANGED <<cur, visible, ending, flying>>
      BY <1>8, <2>2 DEF Button
    <3>2. HandInv'
      BY <2>1, <3>1, SameHand
    <3>3. Front' = Front
      BY <3>1 DEF Front
    <3> QED
      BY <2>1, <3>1, <3>2, <3>3 DEF WaitsForFront
  <2>3. CASE Front \notin began
    <3>1. SwipedAction(d, ending) /\ flying' = flying \cup {Front}
      BY <1>8, <2>3 DEF Button
    <3> QED
      BY <1>1, <2>1, <3>1, SwipeMoves
  <2> QED
    BY <2>2, <2>3
<1>9. ASSUME NEW c \in Cards, SpringEnds(c) \/ FlightEnds(c) PROVE HandInv' /\ WaitsForFront'
  BY <1>2, <1>9 DEF SpringEnds, FlightEnds, deckVars
<1>10. ASSUME UNCHANGED vars PROVE HandInv' /\ WaitsForFront'
  BY <1>2, <1>10 DEF vars
<1> QED
  BY <1>3, <1>4, <1>5, <1>6, <1>7, <1>8, <1>9, <1>10, TouchMoves DEF Next

\* However the deck is handled, it ignores the buttons only while something is under
\* way that will end, or behind a front card that lost its delegate
\* (KolodaView.swift's animating, set by swipe(_:force:) before the card decides).
THEOREM IgnoresWhileMoving == Spec => []IgnoresOnlyWhileMoving
<1>1. MovingInv => IgnoresOnlyWhileMoving
  <2> SUFFICES ASSUME MovingInv PROVE IgnoresOnlyWhileMoving
    OBVIOUS
  <2>1. visible # <<>> => Front # Nil
    BY Facts, NilAssumption DEF MovingInv
  <2> QED
    BY <2>1 DEF MovingInv, WaitsForFront, IgnoresOnlyWhileMoving
<1> QED
  BY ReportsInit, ReportsStay, MovingInit, MovingStays, <1>1, PTL DEF Spec

-----------------------------------------------------------------------------
(* Patient hands *)

\* At most one animation is under way, and it is not that of an empty deck.
EndingInv ==
  \/ ending = <<>>
  \/ ending = <<Back>> /\ visible # <<>> /\ touch = Nil /\ ~appearing
  \/ /\ ending = <<Moved(cur, swiped[cur])>> /\ cur > 0
     /\ visible # <<>> /\ touch = Nil /\ ~appearing /\ animating

\* A card is only touched when nothing moves, and only the front card.
TouchInv ==
  /\ touch # Nil => touch = cur /\ visible # <<>> /\ ~appearing /\ springs = {} /\ ending = <<>>
  /\ appearing => animating /\ ending = <<>> /\ touch = Nil

\* Cards that are dragged, without a delegate or hidden are not in the way: they
\* have left, or the card that moves up reveals them.
CardsInv ==
  /\ \A b \in began : b \in Nat /\ (b < cur \/ (b = cur /\ (b \in springs \/ b = touch)))
  /\ \A o \in orphans : o \in Nat /\ o < cur
  /\ \A h \in hidden : h \in Nat /\
       (h < cur \/ (ending # <<>> /\ ending # <<Back>> /\ h = cur + Window - 1 /\ h < count))

PatientInv ==
  /\ WindowInv /\ swiped \in Seq(Directions) /\ Len(swiped) = cur
  /\ EndingInv /\ TouchInv /\ CardsInv /\ crashed = FALSE
  /\ appearing \in BOOLEAN /\ animating \in BOOLEAN

\* What the last swipe waits for.
LEMMA NoneWaits ==
  ASSUME NEW e, e = <<>> \/ e = <<Back>>
  PROVE  {i \in DOMAIN e : e[i] # Back} = {}
OBVIOUS

LEMMA OneWaits ==
  ASSUME NEW c \in Nat, NEW d, NEW e, e = <<Moved(c, d)>>
  PROVE  /\ {i \in DOMAIN e : e[i] # Back} # {}
         /\ e # <<>> /\ e # <<Back>> /\ Len(e) = 1 /\ e[1] # Back
         /\ e[1].card = c /\ e[1].direction = d /\ DOMAIN e = {1}
<1>1. Moved(c, d) # Back
  BY NilAssumption DEF Moved, Back
<1>2. Moved(c, d).card = c /\ Moved(c, d).direction = d
  BY DEF Moved
<1> QED
  BY <1>1, <1>2

LEMMA PatientInit == Init => PatientInv /\ Deck!Init
<1> SUFFICES ASSUME Init PROVE PatientInv /\ Deck!Init
  OBVIOUS
<1>1. Outstanding = {}
  BY NoneWaits DEF Init, Outstanding
<1>2. Deck!Init
  BY <1>1 DEF Init, Deck!Init
<1>3. swiped \in Seq(Directions) /\ Len(swiped) = cur
  BY DEF Init
<1> QED
  BY <1>2, <1>3, WindowInit DEF Init, PatientInv, EndingInv, TouchInv, CardsInv

\* A swipe of the front card, by hand or by a button.
LEMMA SwipeLeaves ==
  ASSUME PatientInv, Window > 1, NEW d \in Directions, SwipedAction(d, ending), visible # <<>>,
         ending = <<>>, ~appearing, touch' = Nil, UNCHANGED <<count, appearing, began, crashed>>,
         \A b \in began : b \in Nat /\ b <= cur, \A o \in orphans' : o \in Nat /\ o <= cur
  PROVE  PatientInv' /\ Deck!Leave(d)
<1>1. cur \in Nat /\ count \in Nat /\ cur < count /\ Window \in Nat
  BY Facts, WindowAssumption DEF PatientInv
<1>2. WindowInv' /\ cur' = cur + 1 /\ visible' = WindowOf(cur + 1, count)
  BY SwipeMovesWindow DEF PatientInv
<1>3. swiped' = Append(swiped, d)
  BY DEF SwipedAction
<1>4. swiped' \in Seq(Directions) /\ Len(swiped') = cur' /\ swiped'[cur'] = d
  BY <1>1, <1>2, <1>3 DEF PatientInv
<1>5. animating' \in BOOLEAN /\ crashed' = FALSE /\ appearing' = FALSE
  BY DEF SwipedAction, PatientInv
<1>6. hidden' = (IF cur + Window < count THEN hidden \cup {cur + Window} ELSE hidden)
  BY DEF SwipedAction
<1>7. \A h \in hidden : h \in Nat /\ h < cur
  BY DEF PatientInv, CardsInv
<1>8. (\A b \in began' : b \in Nat /\ b < cur') /\ (\A o \in orphans' : o \in Nat /\ o < cur')
  BY <1>1, <1>2
<1>9. Outstanding = {}
  BY NoneWaits DEF Outstanding
<1>10. CASE cur + 1 < count
  <2>1. visible' # <<>> /\ visible'[1] = cur + 1
    <3>1. cur + 1 \in Nat /\ cur + 1 <= count /\ cur + 1 # count
      BY <1>1, <1>10
    <3>2. WindowOf(cur + 1, count) # <<>>
      BY <1>1, <3>1, WindowShape
    <3>3. WindowOf(cur + 1, count)[1] = cur + 1
      BY <1>1, <1>10, <3>1, WindowShape
    <3> QED
      BY <1>2, <3>2, <3>3
  <2>2. ending' = <<Moved(cur + 1, d)>> /\ animating' = TRUE /\ told' = told
    <3>1. ending' = Append(ending, Moved(visible'[1], d)) /\ animating' = TRUE /\ told' = told
      BY <2>1 DEF SwipedAction
    <3> QED
      BY <2>1, <3>1
  <2>3. Outstanding' # {} /\ ending' # <<>> /\ ending' # <<Back>>
    <3>1. cur + 1 \in Nat
      BY <1>1
    <3> QED
      BY <2>2, <3>1, OneWaits DEF Outstanding
  <2>4. EndingInv' /\ TouchInv'
    BY <1>1, <1>2, <1>4, <1>5, <2>1, <2>2 DEF EndingInv, TouchInv
  <2>5. CardsInv'
    BY <1>1, <1>2, <1>6, <1>7, <1>8, <2>3 DEF CardsInv
  <2>6. PatientInv'
    BY <1>2, <1>4, <1>5, <2>4, <2>5 DEF PatientInv
  <2>7. Deck!Leave(d)
    BY <1>1, <1>2, <1>4, <1>9, <1>10, <2>2, <2>3 DEF Deck!Leave
  <2> QED
    BY <2>6, <2>7
<1>11. CASE ~(cur + 1 < count)
  <2>1. visible' = <<>>
    BY <1>1, <1>2, <1>11, WindowShape
  <2>2. ending' = <<>> /\ told' = Append(told, <<cur, d>>)
    BY <2>1 DEF SwipedAction
  <2>3. Outstanding' = {}
    BY <2>2, NoneWaits DEF Outstanding
  <2>4. EndingInv' /\ TouchInv'
    BY <1>5, <2>2 DEF EndingInv, TouchInv
  <2>5. CardsInv'
    BY <1>1, <1>2, <1>6, <1>7, <1>8, <1>11 DEF CardsInv
  <2>6. PatientInv'
    BY <1>2, <1>4, <1>5, <2>4, <2>5 DEF PatientInv
  <2>7. Deck!Leave(d)
    BY <1>1, <1>2, <1>9, <1>11, <2>2, <2>3 DEF Deck!Leave
  <2> QED
    BY <2>6, <2>7
<1> QED
  BY <1>10, <1>11

\* The animation of a swipe ends, by itself or because its card is touched.
LEMMA ReportTells ==
  ASSUME PatientInv, Window > 1, ending = <<Moved(cur, swiped[cur])>>, ending' = <<>>,
         MovedUp(swiped[cur]), UNCHANGED <<count, cur, visible, swiped>>
  PROVE  Deck!Tell /\ \A h \in hidden' : h \in Nat /\ h < cur
<1>1. cur \in Nat /\ count \in Nat /\ Window \in Nat /\ cur <= count
  BY Facts, WindowAssumption DEF PatientInv
<1>2. Outstanding # {} /\ Outstanding' = {} /\ ending # <<>> /\ ending # <<Back>>
  BY <1>1, NoneWaits, OneWaits DEF Outstanding
<1>3. visible # <<>> /\ cur < count
  BY <1>2, Facts DEF PatientInv, EndingInv
<1>4. ASSUME NEW h \in hidden' PROVE h \in Nat /\ h < cur
  <2>1. h \in hidden /\ h # visible[Len(visible)]
    BY <1>3, <1>4 DEF MovedUp
  <2>2. h \in Nat /\ (h < cur \/ (h = cur + Window - 1 /\ h < count))
    BY <2>1 DEF PatientInv, CardsInv
  <2>3. ASSUME h = cur + Window - 1, h < count PROVE FALSE
    <3>1. Len(visible) = Window
      BY <1>1, <2>3, Facts DEF PatientInv, Least
    <3>2. visible[Len(visible)] = cur + Window - 1
      BY <1>1, <3>1, Facts DEF PatientInv
    <3> QED
      BY <2>1, <2>3, <3>2
  <2> QED
    BY <2>2, <2>3
<1>5. swiped[cur] \in Directions
  <2>1. cur >= 1
    BY <1>1, <1>2 DEF PatientInv, EndingInv
  <2> QED
    BY <1>1, <2>1 DEF PatientInv
<1>6. swiped[cur] # Nil
  BY <1>5, NilAssumption
<1>7. Deck!Tell
  BY <1>2, <1>6 DEF Deck!Tell, MovedUp
<1> QED
  BY <1>4, <1>7

\* Steps that only change what a CardDeck does not have.
LEMMA DeckStutters ==
  ASSUME PatientInv, WindowInv', EndingInv', TouchInv', CardsInv', crashed' = FALSE,
         appearing' \in BOOLEAN, animating' \in BOOLEAN, UNCHANGED <<count, cur, swiped, told>>,
         ending = <<>> \/ ending = <<Back>>, ending' = <<>> \/ ending' = <<Back>>
  PROVE  PatientInv' /\ UNCHANGED Deck!vars
<1>1. Outstanding = {} /\ Outstanding' = {}
  BY NoneWaits DEF Outstanding
<1> QED
  BY <1>1 DEF PatientInv, Deck!vars

LEMMA DragKeeps ==
  ASSUME PatientInv, AppearEnds \/ Drag, WindowInv'
  PROVE  PatientInv' /\ UNCHANGED Deck!vars
<1>1. ending = <<>>
  <2>1. CASE AppearEnds
    BY <2>1 DEF AppearEnds, PatientInv, TouchInv
  <2>2. CASE Drag
    <3>1. touch # Nil
      <4>1. Shown \subseteq Nat
        BY Facts DEF PatientInv
      <4> QED
        BY <2>2, <4>1, NilAssumption DEF Drag
    <3> QED
      BY <3>1 DEF PatientInv, TouchInv
  <2> QED
    BY <2>1, <2>2
<1>2. UNCHANGED <<count, cur, visible, hidden, ending, touch, began, springs, orphans, crashed, swiped, told>>
  BY DEF AppearEnds, Drag, deckVars, cardVars, history
<1>3. \/ appearing' = FALSE /\ animating' = FALSE
      \/ appearing' = appearing /\ animating' = TRUE
  BY DEF AppearEnds, Drag
<1>4. EndingInv' /\ CardsInv'
  BY <1>1, <1>2 DEF EndingInv, CardsInv, PatientInv
<1>5. TouchInv'
  BY <1>1, <1>2, <1>3 DEF TouchInv, PatientInv
<1>6. crashed' = FALSE /\ appearing' \in BOOLEAN /\ animating' \in BOOLEAN
  BY <1>2, <1>3 DEF PatientInv
<1> QED
  BY <1>1, <1>2, <1>4, <1>5, <1>6, DeckStutters

LEMMA LetGoKeeps ==
  ASSUME PatientInv, LetGo, WindowInv'
  PROVE  PatientInv' /\ UNCHANGED Deck!vars
<1>1. touch = cur /\ visible # <<>> /\ ~appearing /\ ending = <<>>
  BY DEF LetGo, PatientInv, TouchInv
<1>2. touch' = Nil /\ springs' = springs \cup {touch}
      /\ UNCHANGED <<count, cur, visible, hidden, appearing, began, orphans, crashed, swiped, told>>
  BY DEF LetGo, deckVars, history
<1>3. ending' = <<>> \/ ending' = <<Back>>
  <2>1. ending' = ending \/ ending' = Append(ending, Back)
    BY DEF LetGo, CardWasReset
  <2> QED
    BY <1>1, <2>1
<1>4. animating' \in BOOLEAN
  <2>1. animating' = animating \/ animating' = (Len(visible) > 1)
    BY DEF LetGo, CardWasReset
  <2>2. (Len(visible) > 1) \in BOOLEAN /\ animating \in BOOLEAN
    BY DEF PatientInv
  <2> QED
    BY <2>1, <2>2
<1>5. EndingInv' /\ TouchInv'
  BY <1>1, <1>2, <1>3 DEF EndingInv, TouchInv
<1>6. CardsInv'
  BY <1>1, <1>2, NilAssumption DEF CardsInv, PatientInv
<1>7. crashed' = FALSE /\ appearing' \in BOOLEAN
  BY <1>2 DEF PatientInv
<1> QED
  BY <1>1, <1>2, <1>3, <1>4, <1>5, <1>6, <1>7, DeckStutters

LEMMA CardEndsKeep ==
  ASSUME PatientInv, NEW c, SpringEnds(c) \/ FlightEnds(c), WindowInv'
  PROVE  PatientInv' /\ UNCHANGED Deck!vars
<1>1. UNCHANGED <<count, cur, visible, hidden, animating, appearing, ending, touch, orphans, crashed, swiped, told>>
  BY DEF SpringEnds, FlightEnds, deckVars, history
<1>2. (springs' = springs /\ began' = began) \/ (springs' = springs \ {c} /\ began' = began \ {c})
  BY DEF SpringEnds, FlightEnds
<1>3. EndingInv' /\ TouchInv' /\ CardsInv'
  BY <1>1, <1>2 DEF EndingInv, TouchInv, CardsInv, PatientInv
<1>4. Outstanding' = Outstanding
  BY <1>1 DEF Outstanding
<1> QED
  BY <1>1, <1>3, <1>4 DEF PatientInv, Deck!vars

\* A reset ends, or a swipe is reported.
LEMMA EndingKeeps ==
  ASSUME PatientInv, Window > 1, EndingEnds, WindowInv'
  PROVE  PatientInv' /\ (Deck!Next \/ UNCHANGED Deck!vars)
<1>1. ending # <<>> /\ ending' = Tail(ending) /\ crashed' = (visible = <<>>)
      /\ UNCHANGED <<count, cur, visible, appearing, touch, began, springs, orphans, swiped>>
  BY DEF EndingEnds, cardVars
<1>2. visible # <<>> /\ touch = Nil /\ ~appearing
  BY <1>1 DEF PatientInv, EndingInv
<1>3. CASE ending = <<Back>>
  <2>1. ending' = <<>> /\ animating' = FALSE /\ UNCHANGED <<told, hidden>>
    <3>1. ending[1] = Back /\ Tail(ending) = <<>>
      BY <1>3
    <3> QED
      BY <1>1, <3>1 DEF EndingEnds
  <2>2. EndingInv' /\ TouchInv' /\ CardsInv'
    BY <1>1, <1>2, <1>3, <2>1 DEF EndingInv, TouchInv, CardsInv, PatientInv
  <2> QED
    BY <1>1, <1>2, <1>3, <2>1, <2>2, DeckStutters DEF PatientInv
<1>4. CASE ending = <<Moved(cur, swiped[cur])>>
  <2>1. cur \in Nat
    BY Facts DEF PatientInv
  <2>2. ending[1] # Back /\ ending[1].direction = swiped[cur]
    BY <1>4, <2>1, OneWaits
  <2>3. ending' = <<>>
    BY <1>1, <1>4
  <2>4. MovedUp(swiped[cur])
    BY <2>2 DEF EndingEnds
  <2>5. Deck!Tell /\ \A h \in hidden' : h \in Nat /\ h < cur
    BY <1>1, <1>4, <2>3, <2>4, ReportTells
  <2>6. EndingInv' /\ TouchInv' /\ CardsInv' /\ animating' \in BOOLEAN
    BY <1>1, <1>2, <2>3, <2>4, <2>5 DEF EndingInv, TouchInv, CardsInv, PatientInv, MovedUp
  <2> QED
    BY <1>1, <1>2, <2>5, <2>6 DEF PatientInv, Deck!Next
<1> QED
  BY <1>1, <1>3, <1>4 DEF PatientInv, EndingInv

\* Touching the card that has moved up reports the swipe.
LEMMA TouchKeeps ==
  ASSUME PatientInv, Window > 1, ~Hasty, NEW c, TouchDown(c), WindowInv'
  PROVE  PatientInv' /\ (Deck!Next \/ UNCHANGED Deck!vars)
<1>1. visible # <<>> /\ c = cur /\ ~appearing /\ AtRest /\ cur \in Nat
  BY Facts DEF TouchDown, Touchable, PatientInv
<1>2. springs = {} /\ ending # <<Back>>
  <2>1. ASSUME ending = <<Back>> PROVE FALSE
    <3>1. 1 \in DOMAIN ending /\ ending[1] = Back
      BY <2>1
    <3> QED
      BY <1>1, <3>1 DEF AtRest
  <2> QED
    BY <1>1, <2>1 DEF AtRest
<1>3. touch' = c /\ springs' = {} /\ began' = began \cup {c}
      /\ UNCHANGED <<count, cur, visible, appearing, orphans, crashed, swiped>>
  BY <1>2 DEF TouchDown
<1>4. CASE ending = <<>>
  <2>1. UNCHANGED <<animating, told, hidden, ending>>
    BY <1>4 DEF TouchDown
  <2>2. EndingInv' /\ TouchInv' /\ CardsInv'
    BY <1>1, <1>3, <1>4, <2>1 DEF EndingInv, TouchInv, CardsInv, PatientInv
  <2>3. crashed' = FALSE /\ appearing' \in BOOLEAN /\ animating' \in BOOLEAN
    BY <1>3, <2>1 DEF PatientInv
  <2> QED
    BY <1>3, <1>4, <2>1, <2>2, <2>3, DeckStutters
<1>5. CASE ending = <<Moved(cur, swiped[cur])>>
  <2>1. DOMAIN ending = {1} /\ ending[1].card = c /\ ending[1].direction = swiped[cur] /\ Len(ending) = 1
    BY <1>1, <1>5, OneWaits
  <2>2. MovedUp(swiped[cur]) /\ ending' = SubSeq(ending, 1, 0) \o SubSeq(ending, 2, 1)
    BY <2>1 DEF TouchDown
  <2>3. ending' = <<>>
    BY <1>5, <2>2
  <2>4. Deck!Tell /\ \A h \in hidden' : h \in Nat /\ h < cur
    BY <1>3, <1>5, <2>2, <2>3, ReportTells
  <2>5. EndingInv' /\ TouchInv' /\ CardsInv' /\ animating' \in BOOLEAN
    BY <1>1, <1>3, <2>2, <2>3, <2>4 DEF EndingInv, TouchInv, CardsInv, PatientInv, MovedUp
  <2> QED
    BY <1>3, <2>4, <2>5 DEF PatientInv, Deck!Next
<1> QED
  BY <1>2, <1>4, <1>5 DEF PatientInv, EndingInv

LEMMA FlingKeeps ==
  ASSUME PatientInv, Window > 1, NEW d \in Directions, FlingAway(d)
  PROVE  PatientInv' /\ Deck!Next
<1>1. touch # Nil
  <2>1. Shown \subseteq Nat
    BY Facts DEF PatientInv
  <2> QED
    BY <2>1, NilAssumption DEF FlingAway
<1>2. touch = cur /\ visible # <<>> /\ ~appearing /\ springs = {} /\ ending = <<>> /\ touch \notin orphans
  <2>1. cur \in Nat
    BY Facts DEF PatientInv
  <2> QED
    BY <1>1, <2>1 DEF PatientInv, TouchInv, CardsInv
<1>3. SwipedAction(d, ending) /\ touch' = Nil /\ UNCHANGED <<count, appearing, began, orphans, crashed>>
  BY <1>2 DEF FlingAway
<1>4. (\A b \in began : b \in Nat /\ b <= cur) /\ (\A o \in orphans' : o \in Nat /\ o <= cur)
  <2>1. cur \in Nat
    BY Facts DEF PatientInv
  <2> QED
    BY <1>3, <2>1 DEF PatientInv, CardsInv
<1>5. PatientInv' /\ Deck!Leave(d)
  BY <1>2, <1>3, <1>4, SwipeLeaves
<1> QED
  BY <1>5 DEF Deck!Next

LEMMA ButtonKeeps ==
  ASSUME PatientInv, Window > 1, ~Hasty, NEW d \in Directions, Button(d)
  PROVE  PatientInv' /\ Deck!Next
<1>1. visible # <<>> /\ ~animating /\ AtRest /\ touch = Nil /\ Front = cur /\ cur \in Nat
  BY Facts DEF Button, PatientInv
<1>2. springs = {} /\ ending = <<>> /\ ~appearing
  <2>1. ASSUME ending = <<Back>> PROVE FALSE
    <3>1. 1 \in DOMAIN ending /\ ending[1] = Back
      BY <2>1
    <3> QED
      BY <1>1, <3>1 DEF AtRest
  <2> QED
    BY <1>1, <2>1 DEF AtRest, PatientInv, EndingInv, TouchInv
<1>3. \A b \in began : b \in Nat /\ b < cur
  BY <1>1, <1>2, NilAssumption DEF PatientInv, CardsInv
<1>4. Front \notin began
  BY <1>1, <1>3
<1>5. SwipedAction(d, ending) /\ orphans' = orphans \cup {Front} /\ touch' = Nil
      /\ UNCHANGED <<count, appearing, began, crashed>>
  BY <1>1, <1>4 DEF Button
<1>6. (\A b \in began : b \in Nat /\ b <= cur) /\ (\A o \in orphans' : o \in Nat /\ o <= cur)
  BY <1>1, <1>3, <1>5 DEF PatientInv, CardsInv
<1>7. PatientInv' /\ Deck!Leave(d)
  BY <1>1, <1>2, <1>5, <1>6, SwipeLeaves
<1> QED
  BY <1>7 DEF Deck!Next

LEMMA ReloadKeeps ==
  ASSUME PatientInv, ReloadData, WindowInv'
  PROVE  PatientInv' /\ Deck!Next
<1>1. visible = <<>> /\ cur = count /\ cur \in Nat
  BY Facts DEF ReloadData, PatientInv
<1>2. ending = <<>> /\ touch = Nil
  BY <1>1 DEF PatientInv, EndingInv, TouchInv
<1>3. count' > count /\ appearing' = TRUE /\ animating' = TRUE
      /\ UNCHANGED <<cur, ending, touch, began, springs, orphans, hidden, crashed, swiped, told>>
  BY <1>1, WindowAssumption DEF ReloadData, cardVars, history
<1>4. EndingInv' /\ TouchInv' /\ CardsInv'
  BY <1>1, <1>2, <1>3 DEF EndingInv, TouchInv, CardsInv, PatientInv
<1>5. Outstanding = {} /\ Outstanding' = {}
  BY <1>2, <1>3, NoneWaits DEF Outstanding
<1>6. Deck!Refill
  BY <1>1, <1>3, <1>5 DEF Deck!Refill
<1> QED
  BY <1>3, <1>4, <1>6 DEF PatientInv, Deck!Next

LEMMA PatientStays ==
  ASSUME ~Hasty, Window > 1
  PROVE  PatientInv /\ [Next]_vars => PatientInv' /\ [Deck!Next]_Deck!vars
<1> SUFFICES ASSUME PatientInv, [Next]_vars PROVE PatientInv' /\ [Deck!Next]_Deck!vars
  OBVIOUS
<1>1. WindowInv'
  BY WindowStays DEF PatientInv
<1>2. ASSUME NEW d \in Directions, FlingAway(d) \/ Button(d) PROVE PatientInv' /\ Deck!Next
  BY <1>2, FlingKeeps, ButtonKeeps
<1>3. ASSUME NEW c \in Cards, TouchDown(c) \/ SpringEnds(c) \/ FlightEnds(c)
      PROVE  PatientInv' /\ (Deck!Next \/ UNCHANGED Deck!vars)
  BY <1>1, <1>3, TouchKeeps, CardEndsKeep
<1>4. ASSUME UNCHANGED vars PROVE PatientInv' /\ UNCHANGED Deck!vars
  <2>1. UNCHANGED <<count, cur, visible, hidden, animating, appearing, ending, touch, began, springs, orphans, crashed, swiped, told>>
    BY <1>4 DEF vars
  <2>2. EndingInv' /\ TouchInv' /\ CardsInv'
    BY <2>1 DEF EndingInv, TouchInv, CardsInv, PatientInv
  <2>3. Outstanding' = Outstanding
    BY <2>1 DEF Outstanding
  <2> QED
    BY <1>1, <2>1, <2>2, <2>3 DEF PatientInv, Deck!vars
<1> QED
  BY <1>1, <1>2, <1>3, <1>4, ReloadKeeps, DragKeeps, LetGoKeeps, EndingKeeps DEF Next

\* In patient hands Koloda keeps the contract SwipeSession is written against
\* (KolodaView.swift:37-52): cards leave one at a time, and each is reported with its
\* own index and direction before the next one leaves.
THEOREM PatientDeckIsCardDeck ==
  ASSUME ~Hasty, Window > 1
  PROVE  Spec => IsCardDeck
<1>1. Init => PatientInv /\ Deck!Init
  BY PatientInit
<1>2. PatientInv /\ [Next]_vars => PatientInv' /\ [Deck!Next]_Deck!vars
  BY PatientStays
<1> QED
  BY <1>1, <1>2, PTL DEF Spec, IsCardDeck, Deck!Spec

\* Whoever lets a card come to rest never ends the process, and finds the front card
\* visible, with its delegate, and not still marked as dragged.
THEOREM PatientDeckIsReady ==
  ASSUME ~Hasty, Window > 1
  PROVE  Spec => []ReadyForTheNext
<1>1. PatientInv => ReadyForTheNext
  <2> SUFFICES ASSUME PatientInv PROVE ReadyForTheNext
    OBVIOUS
  <2>1. cur \in Nat /\ Window \in Nat /\ (visible # <<>> => Front = cur)
    BY Facts, WindowAssumption DEF PatientInv
  <2>2. \A c \in Shown : c \in Nat /\ c >= cur
    BY <2>1, Facts DEF PatientInv
  <2>3. Shown \cap orphans = {}
    BY <2>1, <2>2 DEF PatientInv, CardsInv
  <2>4. visible # <<>> => Front \notin hidden
    BY <2>1 DEF PatientInv, CardsInv
  <2>5. touch = Nil /\ springs = {} => Shown \cap began = {}
    BY <2>1, <2>2, NilAssumption DEF PatientInv, CardsInv
  <2> QED
    BY <2>3, <2>4, <2>5 DEF ReadyForTheNext, PatientInv
<1>2. PatientInv /\ [Next]_vars => PatientInv'
  BY PatientStays
<1> QED
  BY PatientInit, <1>1, <1>2, PTL DEF Spec

=============================================================================
