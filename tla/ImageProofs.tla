----------------------------- MODULE ImageProofs -----------------------------
(***************************************************************************)
(* For every image, size of pieces and blocks, and number of readers: what *)
(* PartitionImage deploys is the original partition and reads back, and    *)
(* what EzioNbd serves agrees with it.  The loops of the code are          *)
(* recursive functions, shown to compute what they should by induction     *)
(* over the files; UpTo is the form of induction that is used.             *)
(***************************************************************************)
EXTENDS EzioNbd, FiniteSetTheorems, SequenceTheorems, TLAPS

-----------------------------------------------------------------------------
(* Induction and recursion over an interval.                               *)

\* A set that has 0, and each number up to n whose predecessor it has, has all of
\* them: induction, with a set in the place of the predicate.
LEMMA UpTo ==
  ASSUME NEW n \in Nat, NEW S, 0 \in S, \A i \in 1 .. n : i - 1 \in S => i \in S
  PROVE  \A i \in 0 .. n : i \in S
<1> DEFINE T == {i \in 0 .. n : i \notin S}
           R == OpToRel(<, Nat)
<1>1. SUFFICES ASSUME T # {} PROVE FALSE
  OBVIOUS
<1>2. IsWellFoundedOn(R, Nat)
  BY Zenon, NatLessThanWellFounded
<1>3. R = {ss \in Nat \X Nat : ss[1] < ss[2]}
  BY Zenon DEF OpToRel
<1>4. T \subseteq Nat
  OBVIOUS
<1> HIDE DEF R
<1>5. PICK m \in T : \A k \in T : <<k, m>> \notin R
  <2> HIDE DEF T
  <2> QED BY Zenon, <1>1, <1>2, <1>4, WFMin
<1>6. \A k \in T : ~(k < m)
  BY Zenon, <1>3, <1>4, <1>5
<1>7. QED
  BY <1>6

\* g[i] is the state of a loop over 1 .. n after i rounds: it starts with b, and
\* round i takes v to step[<<i, v>>].
IsStep(step, n, V) == step \in [(1 .. n) \X V -> V]
IsLoop(g, n, V, b, step) ==
  /\ g \in [0 .. n -> V]
  /\ g[0] = b /\ \A i \in 1 .. n : g[i] = step[<<i, g[i - 1]>>]

\* For every step there is a function that has the state of the loop after each round.
LEMMA LoopExists ==
  ASSUME NEW n \in Nat, NEW V, NEW b \in V, NEW step, IsStep(step, n, V)
  PROVE  \E g : IsLoop(g, n, V, b, step)
<1> DEFINE Runs(g, m) == g[0] = b /\ \A i \in 1 .. m : g[i] = step[<<i, g[i - 1]>>]
           S == {m \in 0 .. n : \E g \in [0 .. m -> V] : Runs(g, m)}
<1>1. 0 \in S
  <2> DEFINE g == [i \in 0 .. 0 |-> b]
  <2>1. g \in [0 .. 0 -> V] /\ Runs(g, 0)
    OBVIOUS
  <2> HIDE DEF g, Runs
  <2>2. QED
    BY <2>1
<1>2. ASSUME NEW m \in 1 .. n, m - 1 \in S
      PROVE  m \in S
  <2>1. PICK g \in [0 .. m - 1 -> V] : Runs(g, m - 1)
    BY Zenon, <1>2
  <2> DEFINE h == [i \in 0 .. m |-> IF i = m THEN step[<<m, g[m - 1]>>] ELSE g[i]]
  <2>2. step[<<m, g[m - 1]>>] \in V
    BY DEF IsStep
  <2>3. h \in [0 .. m -> V]
    BY <2>2
  <2>4. Runs(h, m)
    <3>1. h[0] = b
      BY <2>1
    <3>2. ASSUME NEW i \in 1 .. m PROVE h[i] = step[<<i, h[i - 1]>>]
      <4>1. CASE i = m
        <5>1. h[i] = step[<<m, g[m - 1]>>] /\ h[i - 1] = g[m - 1]
          BY <4>1
        <5>2. QED
          BY Zenon, <4>1, <5>1
      <4>2. CASE i # m
        <5>1. i \in 1 .. m - 1 /\ h[i] = g[i] /\ h[i - 1] = g[i - 1]
          BY <4>2
        <5>2. QED
          BY Zenon, <2>1, <5>1
      <4>3. QED
        BY Zenon, <4>1, <4>2
    <3>3. QED
      BY Zenon, <3>1, <3>2
  <2> HIDE DEF h, Runs
  <2>5. QED
    BY <2>3, <2>4
<1>3. n \in S
  <2> HIDE DEF S
  <2> QED BY <1>1, <1>2, UpTo
<1>4. QED
  BY Zenon, <1>3 DEF IsLoop

-----------------------------------------------------------------------------
(* Names and the numbers they stand for.                                   *)

Digits == 0 .. BASE - 1

\* The number that the first k digits of a name stand for.
Prefix(name) == CHOOSE v : v = [k \in 0 .. Len(name) |->
                                  IF k = 0 THEN 0 ELSE v[k - 1] * BASE + name[k]]

\* A product of natural numbers is one.
LEMMA TimesNat ==
  ASSUME NEW a \in Nat, NEW b \in Nat
  PROVE  a * b \in Nat
OBVIOUS

\* The sizes that the image is described with are natural numbers.
LEMMA SizesAre ==
  /\ BASE \in Nat /\ BASE > 1 /\ PARTITION_SIZE \in Nat
  /\ piece_length \in Nat /\ piece_length > 0 /\ DEFAULT_BLOCK_SIZE \in Nat /\ DEFAULT_BLOCK_SIZE > 0
BY ImageAssumption

\* The number that int(name, 16) has read after each digit.
LEMMA PrefixIs ==
  ASSUME NEW name \in Seq(Digits)
  PROVE  /\ Prefix(name) \in [0 .. Len(name) -> Nat]
         /\ Prefix(name)[0] = 0
         /\ \A k \in 1 .. Len(name) : Prefix(name)[k] = Prefix(name)[k - 1] * BASE + name[k]
         /\ Value(name) = Prefix(name)[Len(name)]
<1> DEFINE n == Len(name)
           step == [x \in (1 .. n) \X Nat |-> x[2] * BASE + name[x[1]]]
<1>1. n \in Nat /\ \A k \in 1 .. n : name[k] \in Nat
  BY SizesAre DEF Digits
<1>a. \A x \in Nat, d \in Nat : x * BASE + d \in Nat
  BY SizesAre, TimesNat
<1> HIDE DEF n
<1>2. IsStep(step, n, Nat)
  BY Zenon, <1>1, <1>a DEF IsStep
<1>3. PICK g : IsLoop(g, n, Nat, 0, step)
  <2>1. 0 \in Nat
    OBVIOUS
  <2> HIDE DEF step
  <2>2. QED
    BY Zenon, <1>1, <1>2, <2>1, LoopExists
<1>4. \A i \in 1 .. n : g[i] = g[i - 1] * BASE + name[i]
  <2>1. \A i \in 1 .. n : i - 1 \in 0 .. n
    BY <1>1
  <2>2. QED
    BY Zenon, <1>3, <2>1 DEF IsLoop
<1>5. g = [k \in 0 .. n |-> IF k = 0 THEN 0 ELSE g[k - 1] * BASE + name[k]]
  BY <1>3, <1>4 DEF IsLoop
<1>6. Prefix(name) = [k \in 0 .. n |-> IF k = 0 THEN 0 ELSE Prefix(name)[k - 1] * BASE + name[k]]
  BY Zenon, <1>5 DEF Prefix, n
<1>7. Value(name) = Prefix(name)[n]
  BY Zenon DEF Value, Prefix, n
<1> DEFINE v == Prefix(name)
<1>8. v[0] = 0 /\ \A k \in 1 .. n : v[k] = v[k - 1] * BASE + name[k]
  <2> HIDE DEF v
  <2> QED BY <1>1, <1>6 DEF v
<1>9. \A k \in 0 .. n : v[k] \in Nat
  <2> DEFINE S == {k \in 0 .. n : v[k] \in Nat}
  <2>1. 0 \in S
    BY <1>1, <1>8
  <2>2. \A k \in 1 .. n : k - 1 \in S => k \in S
    <3>1. ASSUME NEW k \in 1 .. n, v[k - 1] \in Nat PROVE v[k] \in Nat
      BY Zenon, <1>1, <1>8, <1>a, <3>1
    <3>2. QED
      BY <1>1, <3>1
  <2>3. \A k \in 0 .. n : k \in S
    <3> HIDE DEF S
    <3> QED BY Zenon, <1>1, <2>1, <2>2, UpTo
  <2>4. QED
    BY Zenon, <2>3
<1>10. v \in [0 .. n -> Nat]
  BY Zenon, <1>6, <1>9
<1>11. QED
  BY Zenon, <1>7, <1>8, <1>10 DEF n

\* A name of digits stands for a natural number.
LEMMA ValueIsNat ==
  ASSUME NEW name \in Seq(Digits)
  PROVE  Value(name) \in Nat
<1>1. Len(name) \in 0 .. Len(name)
  OBVIOUS
<1>2. QED
  BY ZenonT(40), <1>1, PrefixIs

-----------------------------------------------------------------------------
(* The extents of an image and the files of its torrent.                   *)

N == Len(Extents)
Start(i) == Value(Extents[i].offset)
Length(i) == Extents[i].length

\* The files of the torrent are the extents, in order, apart and within the partition.
LEMMA FilesAre ==
  /\ N \in Nat /\ DOMAIN Extents = 1 .. N /\ DOMAIN files = 1 .. N /\ Len(files) = N
  /\ \A i \in 1 .. N :
       /\ files[i].file_name = Extents[i].offset /\ files[i].file_size = Length(i)
       /\ Extents[i].offset \in Seq(Digits) /\ Len(Extents[i].offset) = Len(Extents[1].offset)
       /\ Length(i) \in Nat /\ Length(i) > 0 /\ Start(i) \in Nat
       /\ Places(i) = Start(i) .. Start(i) + Length(i) - 1
       /\ Start(i) + Length(i) <= PARTITION_SIZE
  /\ \A i, j \in 1 .. N : i < j => Start(i) + Length(i) <= Start(j)
<1>1. N \in Nat /\ DOMAIN Extents = 1 .. N
  BY ImageAssumption DEF N
<1>2. DOMAIN files = 1 .. N /\ Len(files) = N
  BY <1>1 DEF files
<1>3. ASSUME NEW i \in 1 .. N
      PROVE  /\ files[i].file_name = Extents[i].offset /\ files[i].file_size = Length(i)
             /\ Extents[i].offset \in Seq(Digits) /\ Len(Extents[i].offset) = Len(Extents[1].offset)
             /\ Length(i) \in Nat /\ Length(i) > 0 /\ Start(i) \in Nat
             /\ Places(i) = Start(i) .. Start(i) + Length(i) - 1
             /\ Places(i) \subseteq 0 .. PARTITION_SIZE - 1
  <2>1. files[i].file_name = Extents[i].offset /\ files[i].file_size = Length(i)
    BY Zenon, <1>1 DEF files, Length
  <2>2. Extents[i] \in [offset : Seq(Digits), length : Nat \ {0}]
    <3> DEFINE R == [offset : Seq(Digits), length : Nat \ {0}]
    <3>1. Extents \in Seq(R)
      BY Zenon, ImageAssumption DEF Digits
    <3> HIDE DEF R
    <3>2. Extents[i] \in R
      BY <3>1 DEF N
    <3>3. QED
      BY Zenon, <3>2 DEF R
  <2>3. Extents[i].offset \in Seq(Digits) /\ Length(i) \in Nat /\ Length(i) > 0
    BY <2>2 DEF Length
  <2>4. Start(i) \in Nat
    BY Zenon, <2>3, ValueIsNat DEF Start
  <2>5. Places(i) = Start(i) .. Start(i) + Length(i) - 1
    BY Zenon DEF Places, Start, Length
  <2>6. Places(i) \subseteq 0 .. PARTITION_SIZE - 1 /\ Len(Extents[i].offset) = Len(Extents[1].offset)
    BY Zenon, <1>1, ImageAssumption
  <2>7. QED
    BY Zenon, <2>1, <2>3, <2>4, <2>5, <2>6
<1>4. ASSUME NEW i \in 1 .. N
      PROVE  Start(i) + Length(i) <= PARTITION_SIZE
  <2>1. Start(i) + Length(i) - 1 \in 0 .. PARTITION_SIZE - 1
    BY <1>3
  <2>2. QED
    BY <1>3, <2>1, SizesAre
<1>5. ASSUME NEW i \in 1 .. N, NEW j \in 1 .. N, i < j
      PROVE  Start(i) + Length(i) <= Start(j)
  <2>1. Start(i) + Length(i) - 1 \in Places(i) /\ Start(j) \in Places(j)
    BY <1>3
  <2>2. Start(i) + Length(i) - 1 < Start(j)
    BY Zenon, <1>1, <1>5, <2>1, ImageAssumption
  <2>3. QED
    BY <1>3, <2>2
<1>6. QED
  BY Zenon, <1>1, <1>2, <1>3, <1>4, <1>5

\* Where the files end in the torrent.
LEMMA FileEndIs ==
  /\ FileEnd \in [0 .. N -> Nat] /\ FileEnd[0] = 0 /\ TotalSize = FileEnd[N]
  /\ \A i \in 1 .. N : FileEnd[i] = FileEnd[i - 1] + Length(i)
<1> DEFINE step == [x \in (1 .. N) \X Nat |-> x[2] + files[x[1]].file_size]
<1>1. N \in Nat /\ 0 \in Nat /\ \A i \in 1 .. N : files[i].file_size \in Nat /\ files[i].file_size = Length(i)
  BY Zenon, FilesAre
<1>2. IsStep(step, N, Nat)
  BY <1>1 DEF IsStep
<1>3. PICK g : IsLoop(g, N, Nat, 0, step)
  <2> HIDE DEF step
  <2> QED
    BY Zenon, <1>1, <1>2, LoopExists
<1>4. \A i \in 1 .. N : g[i] = g[i - 1] + files[i].file_size
  <2>1. \A i \in 1 .. N : i - 1 \in 0 .. N
    BY <1>1
  <2>2. QED
    BY Zenon, <1>3, <2>1 DEF IsLoop
<1>5. g = [i \in 0 .. N |-> IF i = 0 THEN 0 ELSE g[i - 1] + files[i].file_size]
  BY <1>3, <1>4 DEF IsLoop
<1>6. Len(files) = N
  BY Zenon, FilesAre
<1>7. FileEnd = [i \in 0 .. N |-> IF i = 0 THEN 0 ELSE FileEnd[i - 1] + files[i].file_size]
  BY Zenon, <1>5, <1>6 DEF FileEnd
<1>8. FileEnd[0] = 0 /\ \A i \in 1 .. N : FileEnd[i] = FileEnd[i - 1] + Length(i)
  BY <1>1, <1>7
<1>9. \A i \in 0 .. N : FileEnd[i] \in Nat
  <2> DEFINE S == {i \in 0 .. N : FileEnd[i] \in Nat}
  <2>1. 0 \in S
    BY <1>1, <1>8
  <2>2. \A i \in 1 .. N : i - 1 \in S => i \in S
    BY <1>1, <1>8
  <2>3. \A i \in 0 .. N : i \in S
    <3> HIDE DEF S
    <3> QED BY Zenon, <1>1, <2>1, <2>2, UpTo
  <2>4. QED
    BY Zenon, <2>3
<1>10. FileEnd \in [0 .. N -> Nat]
  BY Zenon, <1>7, <1>9
<1>11. QED
  BY Zenon, <1>6, <1>8, <1>10 DEF TotalSize

\* A file ends no earlier than those before it.
LEMMA FileEndGrows ==
  ASSUME NEW i \in 0 .. N, NEW j \in 0 .. N, i <= j
  PROVE  FileEnd[i] <= FileEnd[j]
<1> DEFINE S == {k \in 0 .. N : i <= k => FileEnd[i] <= FileEnd[k]}
<1>1. N \in Nat
  BY Zenon, FilesAre
<1>2. 0 \in S
  BY <1>1, FileEndIs
<1>3. ASSUME NEW k \in 1 .. N, k - 1 \in S PROVE k \in S
  <2>1. FileEnd[k] = FileEnd[k - 1] + Length(k) /\ Length(k) \in Nat
    BY Zenon, FilesAre, FileEndIs
  <2>2. FileEnd[i] \in Nat /\ FileEnd[k - 1] \in Nat
    BY <1>1, FileEndIs
  <2>3. i <= k - 1 => FileEnd[i] <= FileEnd[k - 1]
    BY Zenon, <1>3
  <2>4. CASE i = k
    BY <1>1, <2>1, <2>2, <2>4
  <2>5. CASE i # k
    BY <1>1, <2>1, <2>2, <2>3, <2>5
  <2>6. QED
    BY Zenon, <2>4, <2>5
<1>4. \A k \in 0 .. N : k \in S
  <2> HIDE DEF S
  <2> QED
    BY Zenon, <1>1, <1>2, <1>3, UpTo
<1>5. QED
  BY Zenon, <1>4

\* Places of different extents are different.
LEMMA PlacesAreDisjoint ==
  ASSUME NEW i \in 1 .. N, NEW j \in 1 .. N, NEW place, place \in Places(i), place \in Places(j)
  PROVE  i = j
<1>1. /\ place \in Int /\ Start(i) <= place /\ place < Start(i) + Length(i)
      /\ Start(j) <= place /\ place < Start(j) + Length(j)
  <2>1. /\ place \in Start(i) .. Start(i) + Length(i) - 1 /\ place \in Start(j) .. Start(j) + Length(j) - 1
        /\ Start(i) \in Nat /\ Start(j) \in Nat /\ Length(i) \in Nat /\ Length(j) \in Nat
    BY Zenon, FilesAre
  <2>2. QED
    BY <2>1
<1>2. i < j => Start(i) + Length(i) <= Start(j)
  BY Zenon, FilesAre
<1>3. j < i => Start(j) + Length(j) <= Start(i)
  BY Zenon, FilesAre
<1>4. Start(i) \in Nat /\ Start(j) \in Nat /\ Length(i) \in Nat /\ Length(j) \in Nat /\ i \in Int /\ j \in Int
  BY FilesAre
<1>5. QED
  BY <1>1, <1>2, <1>3, <1>4

\* The content of the original partition, by extent.
LEMMA OriginalIs ==
  /\ Original \in [0 .. PARTITION_SIZE - 1 -> Int]
  /\ \A i \in 1 .. N : \A place \in Places(i) :
       /\ place \in 0 .. PARTITION_SIZE - 1
       /\ Original[place] = FileEnd[i - 1] + place - Start(i) + 1
       /\ Original[place] \in FileEnd[i - 1] + 1 .. FileEnd[i]
  /\ \A place \in 0 .. PARTITION_SIZE - 1 : (\A i \in 1 .. N : place \notin Places(i)) => Original[place] = 0
<1>1. ASSUME NEW i \in 1 .. N, NEW place \in Places(i)
      PROVE  /\ place \in 0 .. PARTITION_SIZE - 1
             /\ Original[place] = FileEnd[i - 1] + place - Start(i) + 1
             /\ Original[place] \in FileEnd[i - 1] + 1 .. FileEnd[i]
  <2>1. /\ place \in Int /\ Start(i) <= place /\ place < Start(i) + Length(i)
        /\ Start(i) \in Nat /\ Length(i) \in Nat /\ Start(i) + Length(i) <= PARTITION_SIZE
    BY FilesAre
  <2>2. place \in 0 .. PARTITION_SIZE - 1
    BY <2>1, SizesAre
  <2> DEFINE k == CHOOSE e \in DOMAIN Extents : place \in Places(e)
  <2>3. k \in 1 .. N /\ place \in Places(k)
    BY Zenon, FilesAre
  <2>4. k = i
    <3> HIDE DEF k
    <3> QED
      BY Zenon, <2>3, PlacesAreDisjoint
  <2>5. Original[place] = FileStart(k) + place - Value(Extents[k].offset) + 1
    BY Zenon, <2>2, <2>3, FilesAre DEF Original
  <2>6. Original[place] = FileEnd[i - 1] + place - Start(i) + 1
    BY Zenon, <2>4, <2>5 DEF FileStart, Start
  <2>7. FileEnd[i - 1] \in Nat /\ FileEnd[i] = FileEnd[i - 1] + Length(i)
    BY FileEndIs, FilesAre
  <2>8. QED
    BY <2>1, <2>2, <2>6, <2>7
<1>2. ASSUME NEW place \in 0 .. PARTITION_SIZE - 1, \A i \in 1 .. N : place \notin Places(i)
      PROVE  Original[place] = 0
  BY Zenon, <1>2, FilesAre DEF Original
<1>3. ASSUME NEW place \in 0 .. PARTITION_SIZE - 1
      PROVE  Original[place] \in Int
  <2>1. CASE \E i \in 1 .. N : place \in Places(i)
    <3>1. PICK i \in 1 .. N : place \in Places(i)
      BY Zenon, <2>1
    <3>2. Original[place] \in FileEnd[i - 1] + 1 .. FileEnd[i]
      BY Zenon, <1>1, <3>1
    <3>3. QED
      BY <3>2
  <2>2. CASE \A i \in 1 .. N : place \notin Places(i)
    BY <1>2, <2>2
  <2>3. QED
    BY Zenon, <2>1, <2>2
<1>4. QED
  BY Zenon, <1>1, <1>2, <1>3 DEF Original

\* A place whose unit lies in file i lies in extent i.
LEMMA PlaceOfUnit ==
  ASSUME NEW place \in 0 .. PARTITION_SIZE - 1, NEW i \in 1 .. N,
         Original[place] \in FileEnd[i - 1] + 1 .. FileEnd[i]
  PROVE  place \in Places(i)
<1>1. N \in Nat /\ \A k \in 0 .. N : FileEnd[k] \in Nat
  BY Zenon, FilesAre, FileEndIs
<1>2. Original[place] # 0
  BY <1>1
<1>3. PICK j \in 1 .. N : place \in Places(j)
  BY Zenon, <1>2, OriginalIs
<1>4. Original[place] \in FileEnd[j - 1] + 1 .. FileEnd[j]
  BY Zenon, <1>3, OriginalIs
<1>5. i < j => FileEnd[i] <= FileEnd[j - 1]
  BY <1>1, FileEndGrows
<1>6. j < i => FileEnd[j] <= FileEnd[i - 1]
  BY <1>1, FileEndGrows
<1>7. i = j
  BY <1>1, <1>4, <1>5, <1>6
<1>8. QED
  BY Zenon, <1>3, <1>7

-----------------------------------------------------------------------------
(* The slices of files that a range of a piece covers.                     *)

From(piece, offset) == piece * piece_length + offset
Clamp(x, from, length) == IF x < from THEN from ELSE IF x > from + length THEN from + length ELSE x
At(piece, offset, length, i) == partition_offset(map_block(piece, offset, length)[i])
Size(piece, offset, length, i) == map_block(piece, offset, length)[i].size

\* The places at .. at + size - 1 hold the units lo + 1 .. hi of the torrent.
Holds(lo, hi, at, size) ==
  /\ lo \in Nat /\ hi \in Nat /\ at \in Nat /\ lo <= hi /\ size = hi - lo
  /\ \A place \in 0 .. PARTITION_SIZE - 1 :
       place \in at .. at + (hi - lo) - 1 <=> Original[place] \in lo + 1 .. hi
  /\ \A place \in at .. at + (hi - lo) - 1 :
       place \in 0 .. PARTITION_SIZE - 1 /\ Original[place] = lo + (place - at) + 1

\* Slice i holds the units of the range that lie in file i, in order: from where the
\* range is up to file i - 1 to where it is up to file i.
LEMMA SliceIs ==
  ASSUME NEW piece \in Nat, NEW offset \in Nat, NEW length \in Nat, NEW i \in 1 .. N,
         NEW from, from = From(piece, offset)
  PROVE  Holds(Clamp(FileEnd[i - 1], from, length), Clamp(FileEnd[i], from, length),
               At(piece, offset, length, i), Size(piece, offset, length, i))
<1> DEFINE lo == Clamp(FileEnd[i - 1], from, length)
           hi == Clamp(FileEnd[i], from, length)
           at == At(piece, offset, length, i)
<1> DEFINE fs == FileEnd[i - 1]
           fe == FileEnd[i]
           first == IF fs < from THEN from ELSE fs
           last == IF fe < from + length THEN fe ELSE from + length
<1>1. /\ from \in Nat
  BY SizesAre, TimesNat DEF From
<1>2. fs \in Nat /\ fe \in Nat /\ fe = fs + Length(i) /\ Length(i) \in Nat /\ Start(i) \in Nat
  BY SMTT(60), SMTT(90), FilesAre, FileEndIs
<1>3. map_block(piece, offset, length)[i] =
        [file_index |-> i, offset |-> first - fs, size |-> IF first < last THEN last - first ELSE 0]
  BY Zenon, FilesAre DEF map_block, FileStart, From
<1>4. /\ At(piece, offset, length, i) = Start(i) + (first - fs)
      /\ Size(piece, offset, length, i) = IF first < last THEN last - first ELSE 0
  <2> DEFINE slice == map_block(piece, offset, length)[i]
  <2> HIDE DEF slice
  <2>1. slice.file_index = i /\ slice.offset = first - fs /\ slice.size = IF first < last THEN last - first ELSE 0
    <3> DEFINE rest == first - fs
               size == IF first < last THEN last - first ELSE 0
    <3>1. slice = [file_index |-> i, offset |-> rest, size |-> size]
      BY Zenon, <1>3 DEF slice
    <3> HIDE DEF rest, size
    <3>2. slice.file_index = i /\ slice.offset = rest /\ slice.size = size
      BY Zenon, <3>1
    <3>3. QED
      BY Zenon, <3>2 DEF rest, size
  <2>2. files[slice.file_index].file_name = Extents[i].offset
    BY Zenon, <2>1, FilesAre
  <2>3. QED
    BY Zenon, <2>1, <2>2 DEF At, Size, partition_offset, Start, slice
<1> HIDE DEF fs, fe, lo, hi, at
<1>5. /\ lo = (IF fs < from THEN from ELSE IF fs > from + length THEN from + length ELSE fs)
      /\ hi = (IF fe < from THEN from ELSE IF fe > from + length THEN from + length ELSE fe)
  BY Zenon DEF Clamp, fs, fe, lo, hi
<1>6. lo \in Nat /\ hi \in Nat /\ lo <= hi /\ Size(piece, offset, length, i) = hi - lo
  BY <1>1, <1>2, <1>4, <1>5
<1>7. at \in Nat
  BY <1>1, <1>2, <1>4 DEF at
<1>8. lo < hi => fs <= lo /\ hi <= fe /\ at = Start(i) + (lo - fs)
  BY <1>1, <1>2, <1>4, <1>5 DEF at
<1>9. ASSUME NEW place \in at .. at + (hi - lo) - 1
      PROVE  place \in 0 .. PARTITION_SIZE - 1 /\ Original[place] = lo + (place - at) + 1
  <2>1. place \in Start(i) .. Start(i) + Length(i) - 1
    BY <1>2, <1>6, <1>7, <1>8
  <2>2. place \in 0 .. PARTITION_SIZE - 1 /\ Original[place] = fs + place - Start(i) + 1
    BY Zenon, <2>1, FilesAre, OriginalIs DEF fs
  <2>3. QED
    BY <1>2, <1>6, <1>7, <1>8, <2>2
<1>10. ASSUME NEW place \in 0 .. PARTITION_SIZE - 1, Original[place] \in lo + 1 .. hi
       PROVE  place \in at .. at + (hi - lo) - 1
  <2>1. Original[place] \in fs + 1 .. fe
    BY <1>2, <1>6, <1>8, <1>10
  <2>2. place \in Places(i)
    BY Zenon, <2>1, PlaceOfUnit DEF fs, fe
  <2>3. Original[place] = fs + place - Start(i) + 1 /\ place \in Int
    BY <2>2, OriginalIs DEF fs
  <2>4. QED
    BY SMTT(60), <1>2, <1>6, <1>7, <1>8, <1>10, <2>3
<1>11. ASSUME NEW place \in at .. at + (hi - lo) - 1
       PROVE  Original[place] \in lo + 1 .. hi
  BY <1>6, <1>7, <1>9
<1>12. QED
  BY Zenon, <1>6, <1>7, <1>9, <1>10, <1>11 DEF Holds, lo, hi, at

\* map_block gives a slice, perhaps an empty one, for each file.
LEMMA SlicesAre ==
  ASSUME NEW piece, NEW offset, NEW length
  PROVE  Len(map_block(piece, offset, length)) = N
<1> DEFINE m == map_block(piece, offset, length)
<1>1. DOMAIN m = 1 .. N /\ N \in Nat
  BY Zenon, FilesAre DEF map_block
<1>2. m = [i \in 1 .. N |-> m[i]]
  BY Zenon, FilesAre DEF map_block
<1> HIDE DEF m
<1>3. Len(m) = N
  BY <1>1, <1>2
<1>4. QED
  BY Zenon, <1>3 DEF m

\* The blocks of the torrent.
LEMMA BlocksAre ==
  ASSUME NEW b \in Block
  PROVE  /\ b[1] \in Nat /\ b[2] \in Nat /\ BlockSize(b) \in Nat /\ BlockSize(b) > 0
         /\ From(b[1], b[2]) \in Nat /\ From(b[1], b[2]) + BlockSize(b) <= TotalSize
         /\ From(b[1], b[2]) + BlockSize(b) <= b[1] * piece_length + PieceSize(b[1])
         /\ BlockUnits(b) = [n \in 1 .. BlockSize(b) |-> From(b[1], b[2]) + n]
<1> DEFINE product == b[1] * piece_length
<1>1. b[1] \in Nat /\ b[2] \in Nat /\ b[2] < PieceSize(b[1])
  BY DEF Block
<1>2. product \in Nat
  BY Zenon, <1>1, SizesAre, TimesNat
<1>3. TotalSize \in Nat
  BY FilesAre, FileEndIs
<1>4. PieceSize(b[1]) = IF TotalSize - product < piece_length THEN TotalSize - product ELSE piece_length
  BY Zenon DEF PieceSize
<1>5. From(b[1], b[2]) = product + b[2]
  BY Zenon DEF From
<1> HIDE DEF product
<1>6. PieceSize(b[1]) \in Int /\ product + PieceSize(b[1]) <= TotalSize
  BY <1>2, <1>3, <1>4, SizesAre
<1>7. /\ BlockSize(b) \in Nat /\ BlockSize(b) > 0
      /\ product + b[2] + BlockSize(b) <= product + PieceSize(b[1])
  BY <1>1, <1>2, <1>6, SizesAre DEF BlockSize
<1>8. BlockUnits(b) = [n \in 1 .. BlockSize(b) |-> From(b[1], b[2]) + n]
  BY Zenon DEF BlockUnits, From
<1>9. QED
  BY SMTT(60), SMTT(90), <1>1, <1>2, <1>3, <1>5, <1>6, <1>7, <1>8 DEF product

\* partition_storage::write: the buffer pointer and the partition after i slices, and
\* what is written by all of them.
LEMMA WrittenIs ==
  ASSUME NEW b \in Block, NEW from, from = From(b[1], b[2]),
         partition \in [0 .. PARTITION_SIZE - 1 -> Int]
  PROVE  Written(b, map_block(b[1], b[2], BlockSize(b))) =
           [place \in 0 .. PARTITION_SIZE - 1 |->
              IF Original[place] \in from + 1 .. from + BlockSize(b) THEN Original[place] ELSE partition[place]]
<1> DEFINE size == BlockSize(b)
           slices == map_block(b[1], b[2], size)
           upto(i) == Clamp(FileEnd[i], from, size)
           P == 0 .. PARTITION_SIZE - 1
           part(i) == [place \in P |->
                         IF Original[place] \in from + 1 .. upto(i) THEN Original[place] ELSE partition[place]]
           g == [i \in 0 .. N |-> [pos |-> upto(i) - from, partition |-> part(i)]]
           first == [pos |-> 0, partition |-> partition]
           next(i, v) == write_slice(BlockUnits(b), v, slices[i])
           w == CHOOSE v : v = [i \in 0 .. N |-> IF i = 0 THEN first ELSE next(i, v[i - 1])]
<1>1. /\ b[1] \in Nat /\ b[2] \in Nat /\ size \in Nat /\ size > 0 /\ from \in Nat /\ from + size <= TotalSize
      /\ BlockUnits(b) = [n \in 1 .. size |-> from + n]
  BY Zenon, BlocksAre
<1>2. N \in Nat /\ FileEnd[0] = 0 /\ TotalSize = FileEnd[N] /\ \A i \in 0 .. N : FileEnd[i] \in Nat
  BY Zenon, FilesAre, FileEndIs
<1>3. \A i \in 0 .. N : upto(i) \in from .. from + size
  BY SMTT(60), <1>1, <1>2 DEF Clamp
<1>4. upto(0) = from /\ upto(N) = from + size
  <2> HIDE DEF size
  <2>1. upto(0) = from
    BY <1>1, <1>2 DEF Clamp
  <2>2. FileEnd[N] \in Nat /\ from + size <= FileEnd[N]
    BY <1>1, <1>2
  <2>3. upto(N) = from + size
    <3>1. from \in Nat /\ size \in Nat
      BY Zenon, <1>1
    <3> DEFINE end == FileEnd[N]
    <3>2. end \in Nat /\ from + size <= end
      BY Zenon, <2>2
    <3> HIDE DEF end
    <3>3. Clamp(end, from, size) = from + size
      BY <3>1, <3>2 DEF Clamp
    <3>4. QED
      BY Zenon, <3>3 DEF end
  <2>4. QED
    BY Zenon, <2>1, <2>3
<1>5. Len(slices) = N
  BY Zenon, SlicesAre
<1>6. g[0] = first
  <2>1. part(0) = partition
    <3>1. \A place \in P : part(0)[place] = partition[place]
      BY <1>1, <1>4
    <3>2. QED
      BY Zenon, <3>1
  <2>2. upto(0) - from = 0 /\ 0 \in 0 .. N
    BY <1>1, <1>2, <1>4
  <2>3. QED
    BY Zenon, <2>1, <2>2
<1>7. ASSUME NEW i \in 1 .. N
      PROVE  g[i] = next(i, g[i - 1])
  <2> DEFINE at == partition_offset(slices[i])
             lo == upto(i - 1)
             hi == upto(i)
  <2>0. Holds(lo, hi, at, slices[i].size)
    BY Zenon, <1>1, SliceIs DEF At, Size
  <2>1. /\ lo \in Nat /\ hi \in Nat /\ at \in Nat /\ lo <= hi /\ slices[i].size = hi - lo
        /\ \A place \in P : place \in at .. at + (hi - lo) - 1 <=> Original[place] \in lo + 1 .. hi
        /\ \A place \in at .. at + (hi - lo) - 1 : Original[place] = lo + (place - at) + 1
    BY Zenon, <2>0 DEF Holds
  <2>2. lo \in from .. from + size /\ hi \in from .. from + size
    BY <1>2, <1>3
  <2>3. g[i - 1] = [pos |-> lo - from, partition |-> part(i - 1)]
    BY <1>2
  <2>4. g[i] = [pos |-> hi - from, partition |-> part(i)]
    BY <1>2
  <2>5. next(i, g[i - 1]) =
          [pos |-> (lo - from) + (hi - lo),
           partition |-> [place \in P |->
             IF place \in at .. at + (hi - lo) - 1 THEN BlockUnits(b)[(lo - from) + place - at + 1]
             ELSE part(i - 1)[place]]]
    <3> DEFINE v == g[i - 1]
    <3> HIDE DEF v, g
    <3>1. v.pos = lo - from /\ v.partition = part(i - 1) /\ DOMAIN v.partition = P
      <4> DEFINE pos == lo - from
                 old == part(i - 1)
      <4>1. v = [pos |-> pos, partition |-> old] /\ DOMAIN old = P
        BY Zenon, <2>3 DEF v
      <4> HIDE DEF pos, old
      <4>2. v.pos = pos /\ v.partition = old
        BY Zenon, <4>1
      <4>3. QED
        BY Zenon, <4>1, <4>2 DEF pos, old
    <3> HIDE DEF slices, lo, hi, part
    <3>2. QED
      BY Zenon, <2>1, <3>1 DEF write_slice, v
  <2>6. ASSUME NEW place \in P
        PROVE  part(i)[place] =
                 IF place \in at .. at + (hi - lo) - 1 THEN BlockUnits(b)[(lo - from) + place - at + 1]
                 ELSE part(i - 1)[place]
    <3> DEFINE unit == Original[place]
    <3>0. unit \in Int
      BY Zenon, OriginalIs
    <3>a. place \in at .. at + (hi - lo) - 1 <=> unit \in lo + 1 .. hi
      BY Zenon, <2>1
    <3>b. place \in at .. at + (hi - lo) - 1 => unit = lo + (place - at) + 1
      BY Zenon, <2>1
    <3>c. part(i)[place] = IF unit \in from + 1 .. hi THEN unit ELSE partition[place]
      BY Zenon
    <3>d. part(i - 1)[place] = IF unit \in from + 1 .. lo THEN unit ELSE partition[place]
      BY Zenon
    <3> HIDE DEF unit, at, lo, hi, part, size
    <3>1. CASE place \in at .. at + (hi - lo) - 1
      <4>1. unit = lo + (place - at) + 1 /\ unit \in lo + 1 .. hi
        BY Zenon, <3>1, <3>a, <3>b
      <4>2. unit \in from + 1 .. hi
        BY <1>1, <2>1, <2>2, <4>1
      <4>3. (lo - from) + place - at + 1 \in 1 .. size /\ from + ((lo - from) + place - at + 1) = unit
        <5>1. from \in Nat /\ size \in Nat /\ lo \in Nat /\ hi \in Nat /\ at \in Nat
          BY Zenon, <1>1, <2>1
        <5>2. QED
          BY SMTT(60), SMTT(90), <2>2, <3>1, <4>1, <5>1
      <4>4. BlockUnits(b)[(lo - from) + place - at + 1] = unit
        BY Zenon, <1>1, <4>3
      <4>5. QED
        BY Zenon, <3>1, <3>c, <4>2, <4>4
    <3>2. CASE ~(place \in at .. at + (hi - lo) - 1)
      <4>1. unit \in from + 1 .. hi <=> unit \in from + 1 .. lo
        <5>1. ~(unit \in lo + 1 .. hi)
          BY Zenon, <3>2, <3>a
        <5>2. QED
          BY SMTT(60), SMTT(90), <1>1, <2>1, <2>2, <3>0, <5>1
      <4>2. QED
        BY Zenon, <3>2, <3>c, <3>d, <4>1
    <3>3. QED
      BY Zenon, <3>1, <3>2
  <2>7. hi - from = (lo - from) + (hi - lo)
    BY <1>1, <2>1
  <2>8. part(i) = [place \in P |->
             IF place \in at .. at + (hi - lo) - 1 THEN BlockUnits(b)[(lo - from) + place - at + 1]
             ELSE part(i - 1)[place]]
    <3>1. part(i) = [place \in P |-> part(i)[place]]
      BY Zenon
    <3> HIDE DEF part, at, lo, hi, P
    <3>2. QED
      BY Zenon, <2>6, <3>1
  <2> HIDE DEF g, next, part, at, lo, hi, P
  <2>9. QED
    BY Zenon, <2>4, <2>5, <2>7, <2>8
<1>8. g = [i \in 0 .. N |-> IF i = 0 THEN first ELSE next(i, g[i - 1])]
  <2>1. g = [i \in 0 .. N |-> g[i]]
    BY Zenon
  <2>2. \A i \in 0 .. N : i = 0 \/ i \in 1 .. N
    BY <1>2
  <2> HIDE DEF g, first, next
  <2>3. \A i \in 0 .. N : g[i] = IF i = 0 THEN first ELSE next(i, g[i - 1])
    BY Zenon, <1>6, <1>7, <2>2
  <2>4. QED
    BY Zenon, <2>1, <2>3
<1>9. w = [i \in 0 .. N |-> IF i = 0 THEN first ELSE next(i, w[i - 1])]
  <2> HIDE DEF first, next, g
  <2> QED
    BY Zenon, <1>8
<1>10. w[N] = g[N]
  <2> DEFINE S == {i \in 0 .. N : w[i] = g[i]}
  <2> HIDE DEF w, g, first, next
  <2>0. /\ \A i \in 0 .. N : w[i] = IF i = 0 THEN first ELSE next(i, w[i - 1])
        /\ \A i \in 1 .. N : i \in 0 .. N /\ i - 1 \in 0 .. N /\ i # 0
        /\ 0 \in 0 .. N /\ N \in 0 .. N
    <3>1. \A i \in 0 .. N : w[i] = IF i = 0 THEN first ELSE next(i, w[i - 1])
      BY Zenon, <1>9
    <3>2. QED
      BY <1>2, <3>1
  <2>1. 0 \in S
    BY Zenon, <1>6, <2>0
  <2>2. ASSUME NEW i \in 1 .. N, i - 1 \in S PROVE i \in S
    <3>1. w[i - 1] = g[i - 1] /\ w[i] = next(i, w[i - 1])
      BY Zenon, <2>0, <2>2
    <3>2. w[i] = g[i]
      BY Zenon, <3>1, <1>7
    <3>3. QED
      BY Zenon, <3>2, <2>0
  <2>3. N \in S
    <3> HIDE DEF S
    <3> QED BY Zenon, <1>2, <2>0, <2>1, <2>2, UpTo
  <2>4. QED
    BY Zenon, <2>3
<1>11. Written(b, slices) = w[N].partition
  <2> HIDE DEF slices
  <2> QED
    BY Zenon, <1>5 DEF Written
<1>12. g[N].partition = part(N)
  <2>1. N \in 0 .. N
    BY <1>2
  <2>2. g[N] = [pos |-> upto(N) - from, partition |-> part(N)]
    BY Zenon, <2>1
  <2> DEFINE pos == upto(N) - from
  <2>3. g[N] = [pos |-> pos, partition |-> part(N)]
    BY Zenon, <2>2
  <2> HIDE DEF g, part, pos
  <2>4. QED
    BY <2>3
<1>13. QED
  BY Zenon, <1>4, <1>10, <1>11, <1>12

-----------------------------------------------------------------------------
(* The deployment.                                                         *)

\* The units of the torrent are numbered from 1, and the partition had each in its place.
LEMMA UnitsAre ==
  /\ TotalSize \in Nat /\ Original \in [0 .. PARTITION_SIZE - 1 -> 0 .. TotalSize]
<1>1. N \in Nat /\ TotalSize = FileEnd[N] /\ \A i \in 0 .. N : FileEnd[i] \in Nat
  BY Zenon, FilesAre, FileEndIs
<1>2. TotalSize \in Nat
  BY <1>1
<1>3. ASSUME NEW place \in 0 .. PARTITION_SIZE - 1 PROVE Original[place] \in 0 .. TotalSize
  <2>1. CASE \E i \in 1 .. N : place \in Places(i)
    <3>1. PICK i \in 1 .. N : place \in Places(i)
      BY Zenon, <2>1
    <3>2. Original[place] \in FileEnd[i - 1] + 1 .. FileEnd[i]
      BY Zenon, <3>1, OriginalIs
    <3>3. i \in 0 .. N /\ N \in 0 .. N /\ i <= N /\ i - 1 \in 0 .. N
      BY <1>1
    <3>4. FileEnd[i] <= TotalSize
      BY Zenon, <1>1, <3>3, FileEndGrows
    <3>5. FileEnd[i] \in Nat /\ FileEnd[i - 1] \in Nat
      BY Zenon, <1>1, <3>3
    <3>6. QED
      BY <1>2, <3>2, <3>4, <3>5
  <2>2. CASE ~ \E i \in 1 .. N : place \in Places(i)
    <3>1. Original[place] = 0
      BY Zenon, <2>2, OriginalIs
    <3>2. QED
      BY <1>2, <3>1
  <2>3. QED
    BY Zenon, <2>1, <2>2
<1>4. QED
  BY Zenon, <1>2, <1>3, OriginalIs

\* A block of W has the unit.
Covered(unit, W) == \E b \in W : unit \in From(b[1], b[2]) + 1 .. From(b[1], b[2]) + BlockSize(b)

\* A unit is in one of the written blocks exactly if it lies in the range of one.
LEMMA CoveredIs ==
  ASSUME NEW W, W \subseteq Block, NEW unit \in Int
  PROVE  (\E b \in W : \E n \in DOMAIN BlockUnits(b) : BlockUnits(b)[n] = unit) <=> Covered(unit, W)
<1>1. ASSUME NEW b \in W
      PROVE  (\E n \in DOMAIN BlockUnits(b) : BlockUnits(b)[n] = unit)
               <=> unit \in From(b[1], b[2]) + 1 .. From(b[1], b[2]) + BlockSize(b)
  <2> DEFINE from == From(b[1], b[2])
             size == BlockSize(b)
  <2>1. from \in Nat /\ size \in Nat /\ BlockUnits(b) = [n \in 1 .. size |-> from + n]
    BY Zenon, BlocksAre
  <2> HIDE DEF from, size
  <2>2. (\E n \in 1 .. size : from + n = unit) <=> unit \in from + 1 .. from + size
    <3>1. unit \in from + 1 .. from + size => unit - from \in 1 .. size /\ from + (unit - from) = unit
      BY <2>1
    <3>2. \A n \in 1 .. size : from + n \in from + 1 .. from + size
      BY <2>1
    <3>3. QED
      BY Zenon, <3>1, <3>2
  <2>3. (\E n \in DOMAIN BlockUnits(b) : BlockUnits(b)[n] = unit) <=> \E n \in 1 .. size : from + n = unit
    BY Zenon, <2>1
  <2>4. QED
    BY Zenon, <2>2, <2>3 DEF from, size
<1>2. QED
  BY Zenon, <1>1 DEF Covered

\* DeploymentIsExact of partition p with the blocks W.
Exact(p, W) ==
  \A place \in 0 .. PARTITION_SIZE - 1 :
    IF Covered(Original[place], W) THEN p[place] = Original[place]
    ELSE p[place] \in IF Original[place] = 0 THEN {-1} ELSE {-1, 0}

PartitionInv ==
  /\ partition \in [0 .. PARTITION_SIZE - 1 -> -1 .. TotalSize]
  /\ written \subseteq Block /\ Exact(partition, written)

\* The invariant says that the deployment is exact.
LEMMA ExactHolds ==
  PartitionInv => DeploymentIsExact
<1> SUFFICES ASSUME PartitionInv PROVE DeploymentIsExact
  OBVIOUS
<1>1. DOMAIN partition = 0 .. PARTITION_SIZE - 1 /\ written \subseteq Block /\ Exact(partition, written)
  BY Zenon DEF PartitionInv
<1>2. ASSUME NEW place \in 0 .. PARTITION_SIZE - 1
      PROVE  (\E b \in written : \E n \in DOMAIN BlockUnits(b) : BlockUnits(b)[n] = Original[place])
               <=> Covered(Original[place], written)
  <2>1. Original[place] \in Int
    BY Zenon, OriginalIs
  <2>2. QED
    BY Zenon, <1>1, <2>1, CoveredIs
<1>3. QED
  BY Zenon, <1>1, <1>2 DEF DeploymentIsExact, Exact

\* With no block written the deployment is exact.
LEMMA PartitionStarts ==
  PartitionInit => PartitionInv
<1> SUFFICES ASSUME PartitionInit PROVE PartitionInv
  OBVIOUS
<1>1. partition \in [0 .. PARTITION_SIZE - 1 -> -1 .. TotalSize]
  BY UnitsAre DEF PartitionInit
<1>2. Exact(partition, written)
  BY Zenon DEF PartitionInit, Exact, Covered
<1>3. QED
  BY Zenon, <1>1, <1>2 DEF PartitionInv, PartitionInit

\* A block that is written puts each of its units in its place and keeps the others.
LEMMA WriteIsExact ==
  ASSUME PartitionInv, NEW b \in Block, write(b)
  PROVE  PartitionInv'
<1> DEFINE from == From(b[1], b[2])
           range == from + 1 .. from + BlockSize(b)
           P == 0 .. PARTITION_SIZE - 1
<1>1. /\ partition \in [P -> -1 .. TotalSize] /\ partition \in [P -> Int]
      /\ written \subseteq Block /\ Exact(partition, written)
  BY UnitsAre DEF PartitionInv
<1>2. partition' = [place \in P |-> IF Original[place] \in range THEN Original[place] ELSE partition[place]]
  BY Zenon, <1>1, WrittenIs DEF write
<1>3. written' = written \cup {b}
  BY Zenon DEF write
<1>4. \A unit : Covered(unit, written') <=> Covered(unit, written) \/ unit \in range
  BY Zenon, <1>3 DEF Covered
<1>5. Original \in [P -> 0 .. TotalSize] /\ TotalSize \in Nat
  BY Zenon, UnitsAre
<1> HIDE DEF range, P
<1>6. partition' \in [P -> -1 .. TotalSize]
  BY <1>1, <1>2, <1>5
<1>7. ASSUME NEW place \in P
      PROVE  IF Covered(Original[place], written') THEN partition'[place] = Original[place]
             ELSE partition'[place] \in IF Original[place] = 0 THEN {-1} ELSE {-1, 0}
  <2>1. IF Covered(Original[place], written) THEN partition[place] = Original[place]
        ELSE partition[place] \in IF Original[place] = 0 THEN {-1} ELSE {-1, 0}
    BY Zenon, <1>1 DEF Exact, P
  <2>2. partition'[place] = IF Original[place] \in range THEN Original[place] ELSE partition[place]
    BY Zenon, <1>2
  <2>3. QED
    BY Zenon, <1>4, <2>1, <2>2
<1>8. QED
  BY Zenon, <1>1, <1>3, <1>6, <1>7 DEF PartitionInv, Exact, P

\* Clearing the places of the files before any block is written keeps the deployment exact.
LEMMA ClearIsExact ==
  ASSUME PartitionInv, clear_test_disk
  PROVE  PartitionInv'
<1> DEFINE P == 0 .. PARTITION_SIZE - 1
<1>1. /\ partition \in [P -> -1 .. TotalSize] /\ written = {} /\ written' = {} /\ Exact(partition, written)
  BY Zenon DEF PartitionInv, clear_test_disk
<1>2. partition' = [place \in P |-> IF \E i \in 1 .. N : place \in Places(i) THEN 0 ELSE partition[place]]
  <2>1. \A i \in 1 .. N :
          Places(i) = Value(files[i].file_name) .. Value(files[i].file_name) + files[i].file_size - 1
    BY Zenon, FilesAre DEF Start
  <2>2. partition' = [place \in P |->
          IF \E i \in 1 .. N :
               place \in Value(files[i].file_name) .. Value(files[i].file_name) + files[i].file_size - 1
          THEN 0 ELSE partition[place]]
    BY Zenon, <1>1, FilesAre DEF clear_test_disk
  <2>3. \A place : (\E i \in 1 .. N : place \in Places(i))
                     <=> \E i \in 1 .. N : place \in Value(files[i].file_name) .. Value(files[i].file_name) + files[i].file_size - 1
    BY Zenon, <2>1
  <2>4. QED
    BY Zenon, <2>2, <2>3
<1>3. 0 \in -1 .. TotalSize
  BY UnitsAre
<1> HIDE DEF P
<1>4. partition' \in [P -> -1 .. TotalSize]
  BY Zenon, <1>1, <1>2, <1>3
<1>5. \A unit : ~Covered(unit, {})
  BY Zenon DEF Covered
<1>6. ASSUME NEW place \in P
      PROVE  partition'[place] \in IF Original[place] = 0 THEN {-1} ELSE {-1, 0}
  <2>1. partition[place] \in IF Original[place] = 0 THEN {-1} ELSE {-1, 0}
    BY Zenon, <1>1, <1>5 DEF Exact, P
  <2>2. CASE \E i \in 1 .. N : place \in Places(i)
    <3>1. PICK i \in 1 .. N : place \in Places(i)
      BY Zenon, <2>2
    <3>2. Original[place] \in FileEnd[i - 1] + 1 .. FileEnd[i] /\ FileEnd[i - 1] \in Nat
      BY <3>1, FilesAre, FileEndIs, OriginalIs
    <3>3. Original[place] # 0
      BY <3>2
    <3>4. partition'[place] = 0
      BY Zenon, <1>2, <2>2
    <3>5. QED
      BY Zenon, <3>3, <3>4
  <2>3. CASE ~ \E i \in 1 .. N : place \in Places(i)
    BY Zenon, <1>2, <2>1, <2>3
  <2>4. QED
    BY Zenon, <2>2, <2>3
<1>7. QED
  BY Zenon, <1>1, <1>4, <1>5, <1>6 DEF PartitionInv, Exact, P

\* Every step preserves the invariant.
LEMMA PartitionStep ==
  ASSUME PartitionInv, [Next]_vars
  PROVE  PartitionInv'
<1>1. CASE UNCHANGED partitionVars
  BY Zenon, <1>1 DEF PartitionInv, partitionVars
<1>2. CASE PartitionNext
  BY Zenon, <1>2, WriteIsExact, ClearIsExact DEF PartitionNext
<1>3. NbdNext \/ UNCHANGED vars => UNCHANGED partitionVars
  BY Zenon DEF NbdNext, pread, OpenFile, Missed, ReadFile, Reply, vars
<1>4. QED
  BY Zenon, <1>1, <1>2, <1>3 DEF Next

\* The invariant holds in every state.
LEMMA PartitionHolds ==
  Spec => []PartitionInv
<1>1. Init => PartitionInv
  BY Zenon, PartitionStarts DEF Init
<1>2. PartitionInv /\ [Next]_vars => PartitionInv'
  BY Zenon, PartitionStep
<1>3. QED
  BY <1>1, <1>2, PTL DEF Spec

\* Whatever the image and the sizes of pieces and blocks, and whatever the order in
\* which blocks are written (raw_disk_io.cpp, partition_storage::write): what was
\* written is where it was on the original partition, and nothing else is touched.
THEOREM DeploymentHolds ==
  Spec => []DeploymentIsExact
BY PartitionHolds, ExactHolds, PTL

-----------------------------------------------------------------------------
(* Reading back.                                                           *)

\* What follows the first a of consecutive units.
LEMMA Consecutive ==
  ASSUME NEW from \in Nat, NEW a \in Nat, NEW c \in Nat, NEW s, s = [n \in 1 .. c |-> from + a + n]
  PROVE  [n \in 1 .. a |-> from + n] \o s = [n \in 1 .. a + c |-> from + n]
<1> DEFINE r == [n \in 1 .. a |-> from + n]
           t == [n \in 1 .. a + c |-> from + n]
<1>1. r \in Seq(Nat) /\ s \in Seq(Nat) /\ t \in Seq(Nat)
  OBVIOUS
<1>2. Len(r) = a /\ Len(s) = c /\ Len(t) = a + c
  OBVIOUS
<1>3. r \o s \in Seq(Nat) /\ Len(r \o s) = a + c
  BY <1>1, <1>2
<1>4. ASSUME NEW n \in 1 .. a + c PROVE (r \o s)[n] = t[n]
  <2>1. CASE n <= a
    BY <1>1, <1>2, <2>1
  <2>2. CASE ~(n <= a)
    BY <1>1, <1>2, <2>2
  <2>3. QED
    BY Zenon, <2>1, <2>2
<1> HIDE DEF r, t
<1>5. r \o s = t
  BY Zenon, <1>1, <1>2, <1>3, <1>4, SeqEqual
<1>6. QED
  BY Zenon, <1>5 DEF r, t

\* The places of these units hold them.
InPlace(units) ==
  \A place \in 0 .. PARTITION_SIZE - 1 : Original[place] \in units => partition[place] = Original[place]

\* partition_storage::read of a range whose places hold its units.
LEMMA ReadIs ==
  ASSUME NEW piece \in Nat, NEW offset \in Nat, NEW length \in Nat,
         From(piece, offset) + length <= TotalSize, partition \in [0 .. PARTITION_SIZE - 1 -> Int],
         InPlace(From(piece, offset) + 1 .. From(piece, offset) + length)
  PROVE  read(piece, offset, length) = [n \in 1 .. length |-> From(piece, offset) + n]
<1> DEFINE from == From(piece, offset)
<1>0. from + length <= TotalSize /\ InPlace(from + 1 .. from + length) /\ from = From(piece, offset)
  OBVIOUS
<1> HIDE DEF from
<1> DEFINE slices == map_block(piece, offset, length)
           upto(i) == Clamp(FileEnd[i], from, length)
           g == [i \in 0 .. N |-> [n \in 1 .. upto(i) - from |-> from + n]]
           next(i, v) == v \o [n \in 1 .. slices[i].size |-> partition[partition_offset(slices[i]) + n - 1]]
           w == CHOOSE v : v = [i \in 0 .. N |-> IF i = 0 THEN <<>> ELSE next(i, v[i - 1])]
<1>1. from \in Nat
  BY SizesAre, TimesNat DEF From, from
<1>2. N \in Nat /\ FileEnd[0] = 0 /\ TotalSize = FileEnd[N] /\ \A i \in 0 .. N : FileEnd[i] \in Nat
  BY Zenon, FilesAre, FileEndIs
<1>3. \A i \in 0 .. N : upto(i) \in from .. from + length
  BY SMTT(60), <1>1, <1>2 DEF Clamp
<1>4. upto(0) = from /\ upto(N) = from + length
  <2>1. upto(0) = from
    BY <1>1, <1>2 DEF Clamp
  <2> DEFINE end == FileEnd[N]
  <2>2. end \in Nat /\ from + length <= end
    BY <1>0, <1>2
  <2> HIDE DEF end
  <2>3. Clamp(end, from, length) = from + length
    BY <1>1, <2>2 DEF Clamp
  <2>4. QED
    BY Zenon, <2>1, <2>3 DEF end
<1>5. Len(slices) = N
  BY Zenon, SlicesAre
<1>6. g[0] = <<>>
  <2>1. upto(0) - from = 0 /\ 0 \in 0 .. N
    BY <1>1, <1>2, <1>4
  <2>2. g[0] = [n \in 1 .. 0 |-> from + n]
    BY Zenon, <2>1
  <2>3. [n \in 1 .. 0 |-> from + n] = <<>>
    OBVIOUS
  <2>4. QED
    BY Zenon, <2>2, <2>3
<1>7. ASSUME NEW i \in 1 .. N
      PROVE  g[i] = next(i, g[i - 1])
  <2> DEFINE at == partition_offset(slices[i])
             lo == upto(i - 1)
             hi == upto(i)
             s == [n \in 1 .. slices[i].size |-> partition[at + n - 1]]
  <2>0. Holds(lo, hi, at, slices[i].size)
    BY Zenon, <1>0, SliceIs DEF At, Size
  <2>1. /\ lo \in Nat /\ hi \in Nat /\ at \in Nat /\ lo <= hi /\ slices[i].size = hi - lo
        /\ \A place \in 0 .. PARTITION_SIZE - 1 :
             place \in at .. at + (hi - lo) - 1 <=> Original[place] \in lo + 1 .. hi
        /\ \A place \in at .. at + (hi - lo) - 1 :
             place \in 0 .. PARTITION_SIZE - 1 /\ Original[place] = lo + (place - at) + 1
    BY Zenon, <2>0 DEF Holds
  <2>2. lo \in from .. from + length /\ hi \in from .. from + length
    BY <1>2, <1>3
  <2>3. g[i - 1] = [n \in 1 .. lo - from |-> from + n] /\ g[i] = [n \in 1 .. hi - from |-> from + n]
    BY <1>2
  <2>4. ASSUME NEW n \in 1 .. hi - lo PROVE partition[at + n - 1] = from + (lo - from) + n
    <3> DEFINE place == at + n - 1
    <3> HIDE DEF place, at, lo, hi, slices
    <3>1. place \in at .. at + (hi - lo) - 1 /\ place = at + n - 1
      BY <2>1 DEF place
    <3>2. place \in 0 .. PARTITION_SIZE - 1 /\ Original[place] = lo + (place - at) + 1
      BY Zenon, <2>1, <3>1
    <3>3. Original[place] = lo + n /\ lo + n = from + (lo - from) + n /\ Original[place] \in from + 1 .. from + length
      <4>1. lo \in Nat /\ hi \in Nat /\ at \in Nat
        BY Zenon, <2>1
      <4>2. QED
        BY SMTT(60), <1>1, <2>2, <3>1, <3>2, <4>1
    <3>4. QED
      BY Zenon, <1>0, <3>2, <3>3 DEF place, InPlace
  <2>5. s = [n \in 1 .. hi - lo |-> from + (lo - from) + n]
    <3>1. s = [n \in 1 .. hi - lo |-> partition[at + n - 1]]
      BY Zenon, <2>1
    <3> HIDE DEF s, lo, hi, at
    <3>2. QED
      BY Zenon, <2>4, <3>1
  <2>6. next(i, g[i - 1]) = [n \in 1 .. lo - from |-> from + n] \o s
    BY Zenon, <2>3
  <2>7. lo - from \in Nat /\ hi - lo \in Nat /\ (lo - from) + (hi - lo) = hi - from
    BY SMTT(60), <1>1, <2>1, <2>2
  <2>8. [n \in 1 .. lo - from |-> from + n] \o s = [n \in 1 .. (lo - from) + (hi - lo) |-> from + n]
    <3> DEFINE a == lo - from
               c == hi - lo
    <3>1. a \in Nat /\ c \in Nat /\ s = [n \in 1 .. c |-> from + a + n]
      BY Zenon, <2>5, <2>7
    <3> HIDE DEF a, c, s
    <3>2. [n \in 1 .. a |-> from + n] \o s = [n \in 1 .. a + c |-> from + n]
      BY Zenon, <1>1, <3>1, Consecutive
    <3>3. QED
      BY Zenon, <3>2 DEF a, c
  <2> HIDE DEF s, lo, hi, g, next
  <2>9. QED
    BY Zenon, <2>3, <2>6, <2>7, <2>8
<1>8. g = [i \in 0 .. N |-> IF i = 0 THEN <<>> ELSE next(i, g[i - 1])]
  <2>1. g = [i \in 0 .. N |-> g[i]]
    BY Zenon
  <2>2. \A i \in 0 .. N : i = 0 \/ i \in 1 .. N
    BY <1>2
  <2> HIDE DEF g, next
  <2>3. \A i \in 0 .. N : g[i] = IF i = 0 THEN <<>> ELSE next(i, g[i - 1])
    BY Zenon, <1>6, <1>7, <2>2
  <2>4. QED
    BY Zenon, <2>1, <2>3
<1>9. w = [i \in 0 .. N |-> IF i = 0 THEN <<>> ELSE next(i, w[i - 1])]
  <2> HIDE DEF next, g
  <2> QED
    BY Zenon, <1>8
<1>10. w[N] = g[N]
  <2> DEFINE S == {i \in 0 .. N : w[i] = g[i]}
  <2> HIDE DEF w, g, next
  <2>0. /\ \A i \in 0 .. N : w[i] = IF i = 0 THEN <<>> ELSE next(i, w[i - 1])
        /\ \A i \in 1 .. N : i \in 0 .. N /\ i - 1 \in 0 .. N /\ i # 0
        /\ 0 \in 0 .. N /\ N \in 0 .. N
    <3>1. \A i \in 0 .. N : w[i] = IF i = 0 THEN <<>> ELSE next(i, w[i - 1])
      BY Zenon, <1>9
    <3>2. QED
      BY <1>2, <3>1
  <2>1. 0 \in S
    BY Zenon, <1>6, <2>0
  <2>2. ASSUME NEW i \in 1 .. N, i - 1 \in S PROVE i \in S
    <3>1. w[i - 1] = g[i - 1] /\ w[i] = next(i, w[i - 1])
      BY Zenon, <2>0, <2>2
    <3>2. w[i] = g[i]
      BY Zenon, <3>1, <1>7
    <3>3. QED
      BY Zenon, <3>2, <2>0
  <2>3. N \in S
    <3> HIDE DEF S
    <3> QED BY Zenon, <1>2, <2>0, <2>1, <2>2, UpTo
  <2>4. QED
    BY Zenon, <2>3
<1>11. read(piece, offset, length) = w[N]
  <2> HIDE DEF slices
  <2>1. read(piece, offset, length) =
          LET buffer[i \in 0 .. Len(slices)] ==
                IF i = 0 THEN <<>>
                ELSE buffer[i - 1] \o [n \in 1 .. slices[i].size |-> partition[partition_offset(slices[i]) + n - 1]]
          IN  buffer[Len(slices)]
    BY Zenon DEF read, slices
  <2>2. QED
    BY Zenon, <1>5, <2>1
<1>12. g[N] = [n \in 1 .. length |-> from + n]
  <2>1. N \in 0 .. N /\ upto(N) - from = length
    BY <1>1, <1>2, <1>4
  <2>2. QED
    BY Zenon, <2>1
<1>13. QED
  BY Zenon, <1>10, <1>11, <1>12 DEF from

\* The block of D units that x is in starts at x - x % D.
LEMMA StartOfBlock ==
  ASSUME NEW x \in Nat, NEW D \in Nat, D > 0
  PROVE  /\ x % D \in 0 .. D - 1 /\ x - (x % D) \in Nat
         /\ (x - (x % D)) % D = 0
<1> DEFINE q == x \div D
<1>1. q \in Nat /\ x % D \in 0 .. D - 1 /\ x = D * q + (x % D)
  OBVIOUS
<1> HIDE DEF q
<1>2. D * q \in Nat /\ x - (x % D) = D * q
  BY <1>1, TimesNat
<1>3. (D * q) % D = 0
  BY <1>1
<1>4. QED
  BY Zenon, <1>1, <1>2, <1>3

\* A piece all of whose blocks are written is covered.
LEMMA PieceIsCovered ==
  ASSUME NEW piece \in 0 .. TotalSize \div piece_length, NEW W, \A b \in Block : b[1] = piece => b \in W,
         NEW unit \in piece * piece_length + 1 .. piece * piece_length + PieceSize(piece)
  PROVE  Covered(unit, W)
<1> DEFINE product == piece * piece_length
           x == unit - 1 - product
           start == x - (x % DEFAULT_BLOCK_SIZE)
           b == <<piece, start>>
<1>1. product \in Nat
  BY SizesAre, TimesNat
<1>2. PieceSize(piece) = IF TotalSize - product < piece_length THEN TotalSize - product ELSE piece_length
  BY Zenon DEF PieceSize
<1>3. unit \in product + 1 .. product + PieceSize(piece)
  OBVIOUS
<1> HIDE DEF product
<1>4. PieceSize(piece) \in Int /\ PieceSize(piece) <= piece_length
  BY SMTT(60), <1>1, <1>2, SizesAre, UnitsAre
<1>5. x \in Nat /\ x < PieceSize(piece) /\ unit = product + x + 1
  BY <1>1, <1>3, <1>4
<1> HIDE DEF x
<1>6. /\ x % DEFAULT_BLOCK_SIZE \in 0 .. DEFAULT_BLOCK_SIZE - 1 /\ start \in Nat
      /\ start % DEFAULT_BLOCK_SIZE = 0
  BY Zenon, <1>5, SizesAre, StartOfBlock
<1>7. start <= x /\ x <= start + DEFAULT_BLOCK_SIZE - 1
  BY SMTT(60), <1>5, <1>6, SizesAre
<1> HIDE DEF start
<1>8. start \in 0 .. piece_length - 1 /\ start < PieceSize(piece)
  BY SMTT(60), <1>4, <1>5, <1>6, <1>7, SizesAre
<1>9. b \in Block /\ b[1] = piece /\ b[2] = start
  BY Zenon, <1>6, <1>8 DEF Block
<1>10. b \in W
  BY Zenon, <1>9
<1> HIDE DEF b
<1>11. unit \in From(b[1], b[2]) + 1 .. From(b[1], b[2]) + BlockSize(b)
  <2>1. From(b[1], b[2]) = product + start
    BY Zenon, <1>9 DEF From, product
  <2>2. BlockSize(b) = IF PieceSize(piece) - start < DEFAULT_BLOCK_SIZE THEN PieceSize(piece) - start
                       ELSE DEFAULT_BLOCK_SIZE
    BY Zenon, <1>9 DEF BlockSize
  <2>3. QED
    BY SMTT(60), <1>1, <1>4, <1>5, <1>6, <1>7, <2>1, <2>2, SizesAre
<1>12. QED
  BY Zenon, <1>10, <1>11 DEF Covered

\* From an exact deployment every range of written blocks reads back as it was.
LEMMA ExactReadsBack ==
  PartitionInv => ReadsBack
<1> SUFFICES ASSUME PartitionInv,
                    NEW piece \in {b[1] : b \in written}, \A b \in Block : b[1] = piece => b \in written,
                    NEW length \in 1 .. PieceSize(piece), NEW offset \in 0 .. PieceSize(piece) - length
             PROVE  read(piece, offset, length) = [n \in 1 .. length |-> piece * piece_length + offset + n]
  BY Zenon DEF ReadsBack
<1> DEFINE product == piece * piece_length
           from == From(piece, offset)
<1>1. /\ partition \in [0 .. PARTITION_SIZE - 1 -> Int] /\ written \subseteq Block
      /\ Exact(partition, written)
  BY UnitsAre DEF PartitionInv
<1>2. PICK w \in Block : piece = w[1]
  BY Zenon, <1>1
<1>3. piece \in 0 .. TotalSize \div piece_length /\ piece \in Nat
  BY <1>2 DEF Block
<1>4. product \in Nat
  BY Zenon, <1>3, SizesAre, TimesNat
<1>5. PieceSize(piece) = IF TotalSize - product < piece_length THEN TotalSize - product ELSE piece_length
  BY Zenon DEF PieceSize
<1>6. from = product + offset /\ from = From(piece, offset)
  BY Zenon DEF From
<1> HIDE DEF product, from
<1>7. PieceSize(piece) \in Int /\ product + PieceSize(piece) <= TotalSize
  BY <1>4, <1>5, SizesAre, UnitsAre
<1>8. offset \in Nat /\ length \in Nat /\ from \in Nat /\ from + length <= product + PieceSize(piece) /\ product <= from
  BY <1>4, <1>6, <1>7
<1>9. from + length <= TotalSize
  BY <1>4, <1>7, <1>8, UnitsAre
<1>10. ASSUME NEW place \in 0 .. PARTITION_SIZE - 1, Original[place] \in from + 1 .. from + length
       PROVE  partition[place] = Original[place]
  <2>1. Original[place] \in product + 1 .. product + PieceSize(piece)
    BY <1>4, <1>7, <1>8, <1>10
  <2>2. Covered(Original[place], written)
    BY Zenon, <1>3, <2>1, PieceIsCovered DEF product
  <2>3. QED
    BY Zenon, <1>1, <2>2 DEF Exact
<1>11. read(piece, offset, length) = [n \in 1 .. length |-> From(piece, offset) + n]
  <2>1. InPlace(From(piece, offset) + 1 .. From(piece, offset) + length)
    BY Zenon, <1>6, <1>10 DEF InPlace
  <2>2. From(piece, offset) + length <= TotalSize
    BY Zenon, <1>6, <1>9
  <2>3. QED
    BY Zenon, <1>1, <1>3, <1>8, <2>1, <2>2, ReadIs
<1>12. QED
  BY Zenon, <1>6, <1>11 DEF product

\* partition_storage::read returns the units of any range of a piece whose blocks
\* were written, in order, for every image and every size of pieces and blocks.
THEOREM ReadsBackHolds ==
  Spec => []ReadsBack
BY PartitionHolds, ExactReadsBack, PTL

-----------------------------------------------------------------------------
(* The order of names is that of the numbers they stand for.               *)

\* One more digit keeps the order of two numbers.
LEMMA DigitKeepsOrder ==
  ASSUME NEW x \in Nat, NEW y \in Nat, NEW d \in Digits, NEW e \in Digits
  PROVE  /\ x < y => x * BASE + d < y * BASE + e
         /\ x = y /\ d < e => x * BASE + d < y * BASE + e
         /\ x = y /\ d = e => x * BASE + d = y * BASE + e
<1> DEFINE xb == x * BASE
           yb == y * BASE
<1>1. d \in Nat /\ e \in Nat /\ d < BASE /\ BASE \in Nat /\ BASE > 1
  BY SizesAre DEF Digits
<1>2. xb \in Nat /\ yb \in Nat
  BY Zenon, <1>1, TimesNat
<1>3. x = y => xb = yb
  OBVIOUS
<1>4. x < y => xb + BASE <= yb
  <2>1. SUFFICES ASSUME x < y PROVE xb + BASE <= yb
    OBVIOUS
  <2> DEFINE z == y - (x + 1)
  <2>2. z \in Nat /\ y = z + x + 1
    BY <2>1
  <2> HIDE DEF z
  <2>3. y * BASE = z * BASE + x * BASE + BASE
    BY <1>1, <2>2
  <2>4. z * BASE \in Nat
    BY Zenon, <1>1, <2>2, TimesNat
  <2>5. QED
    BY <1>1, <1>2, <2>3, <2>4
<1> HIDE DEF xb, yb
<1>5. /\ x < y => xb + d < yb + e
      /\ x = y /\ d < e => xb + d < yb + e
      /\ x = y /\ d = e => xb + d = yb + e
  BY <1>1, <1>2, <1>3, <1>4
<1>6. QED
  BY Zenon, <1>5 DEF xb, yb

\* The facts about the prefixes of two names that the next two lemmas use.
LEMMA PrefixesAre ==
  ASSUME NEW a \in Seq(Digits), NEW b \in Seq(Digits), Len(a) = Len(b)
  PROVE  /\ Len(a) \in Nat /\ Prefix(a)[0] = 0 /\ Prefix(b)[0] = 0
         /\ \A k \in 0 .. Len(a) : Prefix(a)[k] \in Nat /\ Prefix(b)[k] \in Nat
         /\ \A k \in 1 .. Len(a) :
              /\ a[k] \in Digits /\ b[k] \in Digits /\ k - 1 \in 0 .. Len(a)
              /\ Prefix(a)[k] = Prefix(a)[k - 1] * BASE + a[k]
              /\ Prefix(b)[k] = Prefix(b)[k - 1] * BASE + b[k]
         /\ Value(a) = Prefix(a)[Len(a)] /\ Value(b) = Prefix(b)[Len(a)]
<1>1. Len(a) \in Nat /\ \A k \in 1 .. Len(a) : a[k] \in Digits /\ k - 1 \in 0 .. Len(a)
  OBVIOUS
<1>2. \A k \in 1 .. Len(a) : b[k] \in Digits
  OBVIOUS
<1>3. QED
  BY Zenon, <1>1, <1>2, PrefixIs

\* Names of one width, in the order of strings, stand for numbers in that order.
LEMMA NamesInOrder ==
  ASSUME NEW a \in Seq(Digits), NEW b \in Seq(Digits), Len(a) = Len(b), NameLess(a, b)
  PROVE  Value(a) < Value(b)
<1> DEFINE n == Len(a)
           pa == Prefix(a)
           pb == Prefix(b)
<1>1. /\ n \in Nat /\ pa[0] = 0 /\ pb[0] = 0
      /\ \A k \in 0 .. n : pa[k] \in Nat /\ pb[k] \in Nat
      /\ \A k \in 1 .. n : /\ a[k] \in Digits /\ b[k] \in Digits /\ k - 1 \in 0 .. n
                           /\ pa[k] = pa[k - 1] * BASE + a[k] /\ pb[k] = pb[k - 1] * BASE + b[k]
      /\ Value(a) = pa[n] /\ Value(b) = pb[n]
  BY Zenon, PrefixesAre
<1>2. PICK i \in 1 .. n : a[i] < b[i] /\ \A k \in 1 .. i - 1 : a[k] = b[k]
  BY DEF NameLess
<1> DEFINE S == {k \in 0 .. n : (k < i => pa[k] = pb[k]) /\ (k >= i => pa[k] < pb[k])}
<1> HIDE DEF n, pa, pb
<1>3. 0 \in S
  BY <1>1, <1>2
<1>4. ASSUME NEW k \in 1 .. n, k - 1 \in S PROVE k \in S
  <2> DEFINE x == pa[k - 1]
             y == pb[k - 1]
  <2>0. k - 1 \in 0 .. n /\ x \in Nat /\ y \in Nat /\ a[k] \in Digits /\ b[k] \in Digits
    BY Zenon, <1>1
  <2>1. pa[k] = x * BASE + a[k] /\ pb[k] = y * BASE + b[k]
    BY Zenon, <1>1
  <2>2. (k - 1 < i => x = y) /\ (k - 1 >= i => x < y)
    BY Zenon, <1>4
  <2>3. n \in Nat /\ i \in Int /\ k \in Int /\ k \in 0 .. n
    BY <1>1, <1>2
  <2> HIDE DEF x, y
  <2>4. CASE k < i
    <3>1. x = y /\ a[k] = b[k]
      BY <1>1, <1>2, <2>2, <2>4
    <3>2. pa[k] = pb[k]
      BY Zenon, <2>1, <3>1
    <3>3. ~(k >= i)
      BY <2>4, <2>3
    <3>4. QED
      BY Zenon, <2>3, <3>2, <3>3
  <2>5. CASE k = i
    <3>1. x = y /\ a[k] < b[k]
      BY <1>1, <1>2, <2>2, <2>5
    <3>2. pa[k] < pb[k]
      BY ZenonT(60), <2>0, <2>1, <3>1, DigitKeepsOrder
    <3>3. ~(k < i)
      BY <2>5, <2>3
    <3>4. QED
      BY Zenon, <2>3, <3>2, <3>3
  <2>6. CASE k > i
    <3>1. x < y
      BY <1>1, <1>2, <2>2, <2>6
    <3>2. pa[k] < pb[k]
      BY ZenonT(60), <2>0, <2>1, <3>1, DigitKeepsOrder
    <3>3. ~(k < i)
      BY <2>6, <2>3
    <3>4. QED
      BY Zenon, <2>3, <3>2, <3>3
  <2>7. QED
    BY <2>4, <2>5, <2>6, <2>3
<1>5. n \in S
  <2>1. n \in 0 .. n
    BY <1>1
  <2> HIDE DEF S
  <2>2. QED
    BY Zenon, <1>1, <1>3, <1>4, <2>1, UpTo
<1>6. pa[n] < pb[n]
  BY <1>1, <1>2, <1>5
<1>7. QED
  BY Zenon, <1>1, <1>6

\* Names of one width that stand for numbers in order are in the order of strings.
LEMMA NumbersInOrder ==
  ASSUME NEW a \in Seq(Digits), NEW b \in Seq(Digits), Len(a) = Len(b), Value(a) < Value(b)
  PROVE  NameLess(a, b)
<1> SUFFICES ASSUME ~NameLess(a, b) PROVE FALSE
  OBVIOUS
<1> DEFINE n == Len(a)
           pa == Prefix(a)
           pb == Prefix(b)
           same(k) == \A m \in 1 .. k : a[m] = b[m]
           S == {k \in 0 .. n : pb[k] < pa[k] \/ (pa[k] = pb[k] /\ same(k))}
<1>1. /\ n \in Nat /\ pa[0] = 0 /\ pb[0] = 0
      /\ \A k \in 0 .. n : pa[k] \in Nat /\ pb[k] \in Nat
      /\ \A k \in 1 .. n : /\ a[k] \in Digits /\ b[k] \in Digits /\ k - 1 \in 0 .. n
                           /\ pa[k] = pa[k - 1] * BASE + a[k] /\ pb[k] = pb[k - 1] * BASE + b[k]
      /\ Value(a) = pa[n] /\ Value(b) = pb[n]
  BY Zenon, PrefixesAre
<1>2. \A k \in 1 .. n : ~(a[k] < b[k] /\ same(k - 1))
  BY DEF NameLess
<1> HIDE DEF n, pa, pb
<1>3. 0 \in S
  <2>1. 0 \in 0 .. n /\ same(0)
    BY <1>1
  <2>2. QED
    BY Zenon, <1>1, <2>1
<1>4. ASSUME NEW k \in 1 .. n, k - 1 \in S PROVE k \in S
  <2> DEFINE x == pa[k - 1]
             y == pb[k - 1]
  <2>0. k - 1 \in 0 .. n /\ x \in Nat /\ y \in Nat /\ a[k] \in Digits /\ b[k] \in Digits
    BY Zenon, <1>1
  <2>1. pa[k] = x * BASE + a[k] /\ pb[k] = y * BASE + b[k]
    BY Zenon, <1>1
  <2>2. y < x \/ (x = y /\ same(k - 1))
    BY Zenon, <1>4
  <2> HIDE DEF x, y
  <2>3. k \in 0 .. n
    BY <1>1
  <2>4. CASE y < x
    <3>1. pb[k] < pa[k]
      BY ZenonT(60), <2>0, <2>1, <2>4, DigitKeepsOrder
    <3>2. QED
      BY Zenon, <2>3, <3>1
  <2>5. CASE x = y /\ same(k - 1)
    <3>1. ~(a[k] < b[k])
      BY Zenon, <1>2, <2>5
    <3>2. b[k] < a[k] \/ a[k] = b[k]
      BY <2>0, <3>1, SizesAre DEF Digits
    <3>3. CASE b[k] < a[k]
      <4>1. pb[k] < pa[k]
        BY ZenonT(60), <2>0, <2>1, <2>5, <3>3, DigitKeepsOrder
      <4>2. QED
        BY Zenon, <2>3, <4>1
    <3>4. CASE a[k] = b[k]
      <4>1. pa[k] = pb[k]
        BY Zenon, <2>1, <2>5, <3>4
      <4>2. \A m \in 1 .. k : m = k \/ m \in 1 .. k - 1
        BY <1>1
      <4>3. same(k)
        BY Zenon, <2>5, <3>4, <4>2
      <4>4. QED
        BY Zenon, <2>3, <4>1, <4>3
    <3>5. QED
      BY Zenon, <3>2, <3>3, <3>4
  <2>6. QED
    BY Zenon, <2>2, <2>4, <2>5
<1>5. n \in S
  <2>1. n \in 0 .. n
    BY <1>1
  <2> HIDE DEF S
  <2>2. QED
    BY Zenon, <1>1, <1>3, <1>4, <2>1, UpTo
<1>6. pb[n] < pa[n] \/ pa[n] = pb[n]
  BY Zenon, <1>5
<1>7. pa[n] \in Nat /\ pb[n] \in Nat /\ pa[n] < pb[n]
  BY <1>1
<1>8. QED
  BY <1>6, <1>7

\* A strictly increasing function of 1 .. n to itself is the identity.
LEMMA IncreasingIsIdentity ==
  ASSUME NEW n \in Nat, NEW f, \A i \in 1 .. n : f[i] \in 1 .. n,
         \A i, k \in 1 .. n : i < k => f[i] < f[k]
  PROVE  \A i \in 1 .. n : f[i] = i
<1> DEFINE S == {i \in 0 .. n : i = 0 \/ i <= f[i]}
           T == {j \in 0 .. n : j = n \/ f[n - j] <= n - j}
<1>1. 0 \in S /\ 0 \in T
  OBVIOUS
<1>2. ASSUME NEW i \in 1 .. n, i - 1 \in S PROVE i \in S
  <2>1. CASE i = 1
    BY <2>1
  <2>2. CASE i # 1
    <3>1. i - 1 \in 1 .. n /\ i - 1 < i
      BY <2>2
    <3>2. i - 1 <= f[i - 1]
      BY <1>2, <3>1
    <3>3. f[i - 1] < f[i] /\ f[i - 1] \in 1 .. n /\ f[i] \in 1 .. n
      BY Zenon, <3>1
    <3>4. QED
      BY <3>2, <3>3
  <2>3. QED
    BY Zenon, <2>1, <2>2
<1>3. ASSUME NEW j \in 1 .. n, j - 1 \in T PROVE j \in T
  <2>1. CASE j = n
    BY <2>1
  <2>2. CASE j # n
    <3> DEFINE i == n - j
    <3>0. i + 1 = n - (j - 1)
      OBVIOUS
    <3>1. i \in 1 .. n /\ i + 1 \in 1 .. n /\ i < i + 1 /\ j - 1 # n
      BY <2>2
    <3>2. f[n - (j - 1)] <= n - (j - 1)
      BY Zenon, <1>3, <3>1
    <3> HIDE DEF i
    <3>3. f[i + 1] <= i + 1
      BY Zenon, <3>0, <3>2
    <3>4. f[i] < f[i + 1] /\ f[i] \in 1 .. n /\ f[i + 1] \in 1 .. n
      BY Zenon, <3>1
    <3>5. f[i] <= i
      BY <3>1, <3>3, <3>4
    <3>6. QED
      BY <3>5 DEF i
  <2>3. QED
    BY Zenon, <2>1, <2>2
<1>4. (\A i \in 0 .. n : i \in S) /\ \A j \in 0 .. n : j \in T
  <2> HIDE DEF S, T
  <2>1. \A i \in 0 .. n : i \in S
    BY Zenon, <1>1, <1>2, UpTo
  <2>2. \A j \in 0 .. n : j \in T
    BY Zenon, <1>1, <1>3, UpTo
  <2>3. QED
    BY Zenon, <2>1, <2>2
<1>5. ASSUME NEW i \in 1 .. n PROVE f[i] = i
  <2>1. i \in 0 .. n /\ n - i \in 0 .. n /\ n - i # n /\ n - (n - i) = i /\ i # 0
    OBVIOUS
  <2>2. i <= f[i]
    BY Zenon, <1>4, <2>1
  <2>3. f[n - (n - i)] <= n - (n - i)
    BY Zenon, <1>4, <2>1
  <2>4. f[i] <= i
    BY Zenon, <2>1, <2>3
  <2>5. QED
    BY <2>2, <2>4
<1>6. QED
  BY Zenon, <1>5

\* open(): sorting the names as strings gives the extents in their order.
LEMMA NamesAreSorted ==
  /\ DOMAIN filenames = 1 .. N
  /\ \A i \in 1 .. N : filenames[i] = Extents[i].offset
<1> DEFINE name(i) == Extents[i].offset
           names == {files[i].file_name : i \in DOMAIN files}
           Sorted(s) == \A i, k \in DOMAIN files : i < k => NameLess(s[i], s[k])
           e == [i \in 1 .. N |-> name(i)]
<1>1. N \in Nat /\ DOMAIN files = 1 .. N /\ names = {name(i) : i \in 1 .. N}
  BY ZenonT(40), FilesAre
<1>2. \A i \in 1 .. N : name(i) \in Seq(Digits) /\ Len(name(i)) = Len(name(1))
  BY Zenon, FilesAre
<1>3. ASSUME NEW i \in 1 .. N, NEW k \in 1 .. N, i < k PROVE Value(name(i)) < Value(name(k))
  <2>1. Start(i) + Length(i) <= Start(k) /\ Length(i) > 0
    BY Zenon, <1>3, FilesAre
  <2>2. Start(i) \in Nat /\ Start(k) \in Nat /\ Length(i) \in Nat
    BY Zenon, FilesAre
  <2>3. Start(i) < Start(k)
    BY <2>1, <2>2
  <2>4. QED
    BY Zenon, <2>3 DEF Start
<1>4. e \in [DOMAIN files -> names] /\ Sorted(e)
  <2>1. e \in [DOMAIN files -> names]
    BY Zenon, <1>1
  <2>2. ASSUME NEW i \in 1 .. N, NEW k \in 1 .. N, i < k PROVE NameLess(e[i], e[k])
    <3>1. name(i) \in Seq(Digits) /\ name(k) \in Seq(Digits) /\ Len(name(i)) = Len(name(k))
      BY Zenon, <1>2
    <3>2. NameLess(name(i), name(k))
      BY Zenon, <1>3, <2>2, <3>1, NumbersInOrder
    <3>3. QED
      BY Zenon, <3>2
  <2>3. QED
    BY Zenon, <1>1, <2>1, <2>2
<1> DEFINE s == filenames
<1>5. s \in [DOMAIN files -> names] /\ Sorted(s)
  <2> HIDE DEF e, names
  <2>1. s = CHOOSE t \in [DOMAIN files -> names] : \A i, k \in DOMAIN files : i < k => NameLess(t[i], t[k])
    BY Zenon DEF filenames, names
  <2>2. QED
    BY Zenon, <1>4, <2>1
<1> HIDE DEF s, e
<1> DEFINE f == [i \in 1 .. N |-> CHOOSE k \in 1 .. N : s[i] = name(k)]
<1>6. \A i \in 1 .. N : f[i] \in 1 .. N /\ s[i] = name(f[i])
  <2>1. ASSUME NEW i \in 1 .. N PROVE \E k \in 1 .. N : s[i] = name(k)
    BY Zenon, <1>1, <1>5
  <2>2. QED
    BY Zenon, <2>1
<1> HIDE DEF f
<1>7. ASSUME NEW i \in 1 .. N, NEW k \in 1 .. N, i < k PROVE f[i] < f[k]
  <2> DEFINE a == f[i]
             b == f[k]
  <2>1. a \in 1 .. N /\ b \in 1 .. N /\ s[i] = name(a) /\ s[k] = name(b)
    BY Zenon, <1>6
  <2> HIDE DEF a, b
  <2>2. NameLess(name(a), name(b))
    BY Zenon, <1>1, <1>5, <1>7, <2>1
  <2>3. name(a) \in Seq(Digits) /\ name(b) \in Seq(Digits) /\ Len(name(a)) = Len(name(b))
    BY Zenon, <1>2, <2>1
  <2>4. Value(name(a)) < Value(name(b))
    BY Zenon, <2>2, <2>3, NamesInOrder
  <2>5. Value(name(a)) \in Nat /\ Value(name(b)) \in Nat
    BY Zenon, <2>3, ValueIsNat
  <2>6. b < a => Value(name(b)) < Value(name(a))
    BY Zenon, <1>3, <2>1
  <2>7. a = b => Value(name(a)) = Value(name(b))
    BY Zenon
  <2>8. a < b
    <3> DEFINE va == Value(name(a))
               vb == Value(name(b))
    <3>1. va < vb /\ va \in Nat /\ vb \in Nat /\ (b < a => vb < va) /\ (a = b => va = vb)
      BY Zenon, <2>4, <2>5, <2>6, <2>7
    <3> HIDE DEF va, vb
    <3>2. QED
      BY <2>1, <3>1
  <2>9. QED
    BY Zenon, <2>8 DEF a, b
<1>8. \A i \in 1 .. N : f[i] = i
  BY Zenon, <1>1, <1>6, <1>7, IncreasingIsIdentity
<1>9. QED
  BY Zenon, <1>1, <1>5, <1>6, <1>8 DEF s

\* What open() has of the files: their offsets, sizes and contents.
LEMMA ServedFilesAre ==
  /\ DOMAIN fd_list = 1 .. N /\ Len(fd_list) = N
  /\ \A i \in 1 .. N :
       /\ fd_list[i] = Start(i) /\ st_size(i) = Length(i)
       /\ \A m : Content(i, m) = FileEnd[i - 1] + m + 1
<1>1. fd_list = [i \in 1 .. N |-> Start(i)] /\ N \in Nat
  <2>1. fd_list = [i \in 1 .. N |-> Value(filenames[i])]
    BY Zenon, NamesAreSorted DEF fd_list
  <2>2. \A i \in 1 .. N : Value(filenames[i]) = Start(i)
    BY Zenon, NamesAreSorted DEF Start
  <2>3. QED
    BY Zenon, <2>1, <2>2, FilesAre
<1>2. Len(fd_list) = N
  BY <1>1
<1>3. ASSUME NEW i \in 1 .. N PROVE FileOf(filenames[i]) = i
  <2> DEFINE k == CHOOSE k \in DOMAIN files : files[k].file_name = filenames[i]
  <2>1. files[i].file_name = filenames[i] /\ i \in DOMAIN files /\ DOMAIN files = 1 .. N
    BY Zenon, FilesAre, NamesAreSorted
  <2>2. k \in 1 .. N /\ files[k].file_name = filenames[i]
    BY Zenon, <2>1
  <2>3. k = FileOf(filenames[i])
    BY Zenon DEF FileOf
  <2> HIDE DEF k
  <2>4. Extents[k].offset = Extents[i].offset
    BY Zenon, <2>2, FilesAre, NamesAreSorted
  <2>5. Start(k) = Start(i)
    BY Zenon, <2>4 DEF Start
  <2>6. /\ (i < k => Start(i) + Length(i) <= Start(k)) /\ (k < i => Start(k) + Length(k) <= Start(i))
        /\ Start(i) \in Nat /\ Length(i) \in Nat /\ Length(i) > 0 /\ Length(k) \in Nat /\ Length(k) > 0
    BY Zenon, <2>2, FilesAre
  <2>7. k = i
    BY <2>2, <2>5, <2>6
  <2>8. QED
    BY Zenon, <2>3, <2>7
<1>4. ASSUME NEW i \in 1 .. N PROVE st_size(i) = Length(i)
  BY Zenon, <1>3, FilesAre DEF st_size
<1>5. ASSUME NEW i \in 1 .. N, NEW m PROVE Content(i, m) = FileEnd[i - 1] + m + 1
  BY Zenon, <1>3 DEF Content, FileStart
<1>6. QED
  BY Zenon, <1>1, <1>2, <1>4, <1>5

\* bisect_left counts the extents that start before x: the first k.
LEMMA BisectIs ==
  ASSUME NEW x \in Int
  PROVE  \E k \in 0 .. N : bisect_left(fd_list, x) = k /\ \A i \in 1 .. N : Start(i) < x <=> i <= k
<1> DEFINE Splits(m, k) == \A i \in 1 .. m : Start(i) < x <=> i <= k
           S == {m \in 0 .. N : \E k \in 0 .. m : Splits(m, k)}
<1>1. N \in Nat /\ \A i \in 1 .. N : Start(i) \in Nat
  BY Zenon, FilesAre
<1>2. \A i, j \in 1 .. N : i < j => Start(i) < Start(j)
  <2>1. ASSUME NEW i \in 1 .. N, NEW j \in 1 .. N, i < j PROVE Start(i) < Start(j)
    <3>1. Start(i) + Length(i) <= Start(j) /\ Length(i) > 0 /\ Length(i) \in Nat
      BY Zenon, <2>1, FilesAre
    <3>2. QED
      BY <1>1, <3>1
  <2>2. QED
    BY Zenon, <2>1
<1>3. 0 \in S
  BY <1>1
<1>4. ASSUME NEW m \in 1 .. N, m - 1 \in S PROVE m \in S
  <2>1. PICK k \in 0 .. m - 1 : Splits(m - 1, k)
    BY Zenon, <1>4
  <2>2. m \in 0 .. N
    BY <1>1
  <2>3. CASE Start(m) < x
    <3>1. ASSUME NEW i \in 1 .. m PROVE Start(i) < x
      <4>1. i \in 1 .. N /\ (i = m \/ i < m)
        BY <1>1
      <4>2. i = m \/ Start(i) < Start(m)
        BY Zenon, <1>2, <4>1
      <4>3. Start(i) \in Nat /\ Start(m) \in Nat
        BY Zenon, <1>1, <4>1
      <4>4. QED
        BY <2>3, <4>2, <4>3
    <3>2. Splits(m, m) /\ m \in 0 .. m
      BY <1>1, <3>1
    <3> HIDE DEF Splits
    <3>3. QED
      BY Zenon, <2>2, <3>2
  <2>4. CASE ~(Start(m) < x)
    <3>1. Splits(m, k) /\ k \in 0 .. m
      <4>1. ASSUME NEW i \in 1 .. m PROVE Start(i) < x <=> i <= k
        <5>1. i = m \/ i \in 1 .. m - 1
          BY <1>1
        <5>2. ~(m <= k)
          BY <1>1
        <5>3. QED
          BY Zenon, <2>1, <2>4, <5>1, <5>2
      <4>2. QED
        BY <4>1
    <3> HIDE DEF Splits
    <3>2. QED
      BY Zenon, <2>2, <3>1
  <2>5. QED
    BY Zenon, <2>3, <2>4
<1>5. N \in S
  <2>1. N \in 0 .. N
    BY <1>1
  <2> HIDE DEF S
  <2>2. QED
    BY Zenon, <1>1, <1>3, <1>4, <2>1, UpTo
<1>6. PICK k \in 0 .. N : Splits(N, k)
  BY Zenon, <1>5
<1>7. {i \in DOMAIN fd_list : fd_list[i] < x} = 1 .. k
  <2>1. {i \in DOMAIN fd_list : fd_list[i] < x} = {i \in 1 .. N : Start(i) < x}
    BY Zenon, ServedFilesAre
  <2>2. {i \in 1 .. N : Start(i) < x} = 1 .. k
    BY <1>1, <1>6
  <2>3. QED
    BY Zenon, <2>1, <2>2
<1>8. Cardinality(1 .. k) = k
  BY FS_Interval
<1>9. QED
  BY Zenon, <1>6, <1>7, <1>8 DEF bisect_left

\* The lookup of pread finds the extent that an offset lies in, unless the offset is the
\* first of an extent other than the first: then it finds the one before.
LEMMA IndexIs ==
  ASSUME NEW offset \in Nat
  PROVE  /\ Index(offset) \in Nat
         /\ \A i \in 1 .. N :
              offset \in Places(i) /\ (offset = Start(i) => i = 1) => Index(offset) = i - 1
<1>1. PICK k \in 0 .. N : bisect_left(fd_list, offset) = k /\ \A i \in 1 .. N : Start(i) < offset <=> i <= k
  <2>1. offset \in Int
    OBVIOUS
  <2>2. QED
    BY Zenon, <2>1, BisectIs
<1>2. Index(offset) = IF k - 1 > 0 THEN k - 1 ELSE 0
  BY Zenon, <1>1 DEF Index
<1>3. N \in Nat
  BY Zenon, FilesAre
<1>4. ASSUME NEW i \in 1 .. N, offset \in Places(i), offset = Start(i) => i = 1
      PROVE  Index(offset) = i - 1
  <2>1. /\ offset \in Start(i) .. Start(i) + Length(i) - 1
        /\ Start(i) \in Nat /\ Length(i) \in Nat
    BY Zenon, <1>4, FilesAre
  <2>2. i + 1 \in 1 .. N => Start(i) + Length(i) <= Start(i + 1) /\ Start(i + 1) \in Nat
    <3>1. i < i + 1
      OBVIOUS
    <3>2. QED
      BY Zenon, <3>1, FilesAre
  <2>3. (Start(i) < offset <=> i <= k) /\ (i + 1 \in 1 .. N => (Start(i + 1) < offset <=> i + 1 <= k))
    BY Zenon, <1>1
  <2>4. CASE offset = Start(i)
    <3>1. i = 1 /\ ~(i <= k)
      BY SMTT(60), <1>4, <2>1, <2>3, <2>4
    <3>2. QED
      BY <1>2, <3>1
  <2>5. CASE offset # Start(i)
    <3>1. i <= k
      BY SMTT(60), <2>1, <2>3, <2>5
    <3>2. i + 1 \in 1 .. N => ~(i + 1 <= k)
      BY SMTT(60), <2>1, <2>2, <2>3
    <3>3. k = i
      BY SMTT(60), <1>1, <1>3, <3>1, <3>2
    <3>4. QED
      BY <1>2, <3>3
  <2>6. QED
    BY Zenon, <2>4, <2>5
<1>5. QED
  BY <1>2, <1>4

\* An offset behind extent i and before the next one, if there is one, is not in use.
LEMMA GapIsUnused ==
  ASSUME NEW i \in 1 .. N, NEW x \in 0 .. PARTITION_SIZE - 1, x >= Start(i) + Length(i),
         i < N => x < Start(i + 1)
  PROVE  Original[x] = 0
<1>1. N \in Nat
  BY Zenon, FilesAre
<1>2. ASSUME NEW k \in 1 .. N PROVE x \notin Places(k)
  <2>1. /\ Places(k) = Start(k) .. Start(k) + Length(k) - 1
        /\ Start(i) \in Nat /\ Start(k) \in Nat /\ Length(i) \in Nat /\ Length(k) \in Nat /\ Length(i) > 0
        /\ k < i => Start(k) + Length(k) <= Start(i)
    BY Zenon, FilesAre
  <2>2. i < k => Start(i + 1) <= Start(k) /\ Start(i + 1) \in Nat /\ i < N
    <3>1. SUFFICES ASSUME i < k PROVE Start(i + 1) <= Start(k) /\ Start(i + 1) \in Nat /\ i < N
      OBVIOUS
    <3>2. i + 1 \in 1 .. N /\ (i + 1 = k \/ i + 1 < k) /\ i < N
      BY <1>1, <3>1
    <3>3. /\ Start(i + 1) \in Nat /\ Length(i + 1) \in Nat
          /\ i + 1 < k => Start(i + 1) + Length(i + 1) <= Start(k)
      BY Zenon, <3>2, FilesAre
    <3>4. CASE i + 1 = k
      BY SMTT(60), <2>1, <3>2, <3>4
    <3>5. CASE i + 1 < k
      BY SMTT(60), <2>1, <3>2, <3>3, <3>5
    <3>6. QED
      BY Zenon, <3>2, <3>4, <3>5
  <2>3. i = k \/ i < k \/ k < i
    OBVIOUS
  <2>4. CASE i = k
    BY SMTT(60), <2>1, <2>4
  <2>5. CASE i < k
    <3>1. x < Start(i + 1) /\ Start(i + 1) <= Start(k) /\ Start(i + 1) \in Nat
      BY Zenon, <2>2, <2>5
    <3>2. QED
      BY SMTT(60), <2>1, <3>1
  <2>6. CASE k < i
    BY <2>1, <2>6
  <2>7. QED
    BY Zenon, <2>3, <2>4, <2>5, <2>6
<1>3. QED
  BY Zenon, <1>2, OriginalIs

-----------------------------------------------------------------------------
(* What ezio-nbd serves.                                                   *)

\* A read that began in an extent is in it, or at the end of the one before.
OnTrack(q) ==
  \/ q.buf_offset = 0 /\ q.index + 1 \in 1 .. N /\ q.current_offset \in Places(q.index + 1)
  \/ q.index \in 1 .. N /\ q.current_offset = Start(q.index) + Length(q.index)

\* A call has copied the first buf_offset units that it was asked for; one that began
\* in an extent ends when it has them all, or where the partition is not in use.
RequestInv(q) ==
  /\ q.offset + Len(q.buf) <= PARTITION_SIZE
  /\ q.current_offset = q.offset + q.buf_offset /\ q.remain_len = Len(q.buf) - q.buf_offset
  /\ \A n \in 1 .. Len(q.buf) : q.buf[n] = IF n <= q.buf_offset THEN Original[q.offset + n - 1] ELSE 0
  /\ q.pc \in {"open", "opened", "error"} => q.remain_len > 0
  /\ q.pc = "opened" => q.index < N
  /\ Begins(q) => /\ q.pc \in {"open", "opened"} => OnTrack(q)
                  /\ q.pc = "ok" => q.buf_offset = Len(q.buf)
                  /\ q.pc = "error" => Original[q.current_offset] = 0

\* The fields of a call of pread.
LEMMA FieldsAre ==
  ASSUME NEW q \in RequestRec
  PROVE  /\ q.pc \in {"open", "opened", "ok", "nofile", "error"}
         /\ q.offset \in Nat /\ q.current_offset \in Nat /\ q.index \in Nat
         /\ q.remain_len \in Nat /\ q.buf_offset \in Nat /\ q.buf \in Seq(0 .. TotalSize)
         /\ Len(q.buf) \in Nat /\ DOMAIN q.buf = 1 .. Len(q.buf)
         /\ q # NoRequest
<1>1. /\ q.pc \in {"open", "opened", "ok", "nofile", "error"}
      /\ q.offset \in Nat /\ q.current_offset \in Nat /\ q.index \in Nat
      /\ q.remain_len \in Nat /\ q.buf_offset \in Nat /\ q.buf \in Seq(0 .. TotalSize)
  BY Zenon DEF RequestRec
<1>2. NoRequest.pc = "idle"
  BY Zenon DEF NoRequest
<1>3. Len(q.buf) \in Nat /\ DOMAIN q.buf = 1 .. Len(q.buf)
  <2> DEFINE T == 0 .. TotalSize
             s == q.buf
  <2>1. s \in Seq(T)
    BY Zenon, <1>1
  <2> HIDE DEF T, s
  <2>2. Len(s) \in Nat /\ DOMAIN s = 1 .. Len(s)
    BY <2>1
  <2>3. QED
    BY Zenon, <2>2 DEF s
<1>4. q # NoRequest
  BY Zenon, <1>1, <1>2
<1>5. QED
  BY Zenon, <1>1, <1>3, <1>4

\* A call whose pc alone changes.
LEMMA PcChanges ==
  ASSUME NEW q \in RequestRec, RequestInv(q), NEW pc \in {"open", "opened", "ok", "nofile", "error"},
         q.pc \in {"open", "opened"},
         pc = "opened" => q.index < N,
         Begins(q) => /\ pc # "ok" /\ (pc = "error" => Original[q.current_offset] = 0)
  PROVE  [q EXCEPT !.pc = pc] \in RequestRec /\ RequestInv([q EXCEPT !.pc = pc])
<1> DEFINE v == [q EXCEPT !.pc = pc]
<1>1. v \in RequestRec
  BY Zenon DEF RequestRec
<1>2. /\ v.pc = pc /\ v.offset = q.offset /\ v.current_offset = q.current_offset /\ v.index = q.index
      /\ v.remain_len = q.remain_len /\ v.buf_offset = q.buf_offset /\ v.buf = q.buf
  BY Zenon DEF RequestRec
<1> HIDE DEF v
<1>3. (Begins(v) <=> Begins(q)) /\ (OnTrack(v) <=> OnTrack(q))
  BY Zenon, <1>2 DEF Begins, OnTrack
<1>4. RequestInv(v)
  <2>1. q.remain_len > 0 /\ (Begins(q) => OnTrack(q))
    BY Zenon DEF RequestInv
  <2>2. /\ q.offset + Len(q.buf) <= PARTITION_SIZE
        /\ q.current_offset = q.offset + q.buf_offset /\ q.remain_len = Len(q.buf) - q.buf_offset
        /\ \A n \in 1 .. Len(q.buf) : q.buf[n] = IF n <= q.buf_offset THEN Original[q.offset + n - 1] ELSE 0
    BY Zenon DEF RequestInv
  <2>3. QED
    BY Zenon, <1>2, <1>3, <2>1, <2>2 DEF RequestInv
<1>5. QED
  BY Zenon, <1>1, <1>4 DEF v

\* Where a call stops that is on its track and finds no more data.
LEMMA TrackEnds ==
  ASSUME NEW q \in RequestRec, RequestInv(q), q.pc \in {"open", "opened"}, OnTrack(q),
         q.index < N => q.current_offset < Start(q.index + 1)
  PROVE  Original[q.current_offset] = 0
<1>1. /\ q.index \in Nat /\ q.offset \in Nat /\ q.buf_offset \in Nat /\ q.remain_len \in Nat
      /\ q.current_offset \in Nat /\ Len(q.buf) \in Nat
  BY Zenon, FieldsAre
<1>2. /\ q.offset + Len(q.buf) <= PARTITION_SIZE /\ q.current_offset = q.offset + q.buf_offset
      /\ q.remain_len = Len(q.buf) - q.buf_offset /\ q.remain_len > 0
  BY Zenon DEF RequestInv
<1>3. q.current_offset \in 0 .. PARTITION_SIZE - 1
  BY SMTT(60), <1>1, <1>2, SizesAre
<1>4. q.index + 1 \in 1 .. N => q.index < N
  BY SMTT(60), <1>1, FilesAre
<1>5. ASSUME q.index + 1 \in 1 .. N PROVE q.current_offset \notin Places(q.index + 1)
  <2>1. q.current_offset < Start(q.index + 1)
    BY Zenon, <1>4, <1>5
  <2>2. /\ Places(q.index + 1) = Start(q.index + 1) .. Start(q.index + 1) + Length(q.index + 1) - 1
        /\ Start(q.index + 1) \in Nat /\ Length(q.index + 1) \in Nat
    BY Zenon, <1>5, FilesAre
  <2>3. QED
    BY SMTT(60), <1>1, <2>1, <2>2
<1>6. q.index \in 1 .. N /\ q.current_offset = Start(q.index) + Length(q.index)
  BY Zenon, <1>5 DEF OnTrack
<1>7. Start(q.index) + Length(q.index) \in Nat
  BY Zenon, <1>1, <1>6
<1>8. q.current_offset >= Start(q.index) + Length(q.index)
  BY SMTT(60), <1>6, <1>7
<1>9. QED
  BY Zenon, <1>3, <1>6, <1>8, GapIsUnused

\* A call of pread starts with nothing copied.
LEMMA PreadStarts ==
  ASSUME NEW length \in 1 .. MAX_LENGTH, NEW offset \in 0 .. PARTITION_SIZE - length,
         NEW q, q = [pc |-> "open", offset |-> offset, current_offset |-> offset, index |-> Index(offset),
                     remain_len |-> length, buf_offset |-> 0, buf |-> [n \in 1 .. length |-> 0]]
  PROVE  q \in RequestRec /\ RequestInv(q)
<1> DEFINE zeros == [n \in 1 .. length |-> 0]
           index == Index(offset)
<1>1. offset \in Nat /\ length \in Nat /\ length > 0 /\ offset + length <= PARTITION_SIZE
  BY SizesAre
<1>2. zeros \in Seq(0 .. TotalSize) /\ Len(zeros) = length /\ \A n \in 1 .. length : zeros[n] = 0
  <2>1. 0 \in 0 .. TotalSize
    BY UnitsAre
  <2> DEFINE T == 0 .. TotalSize
  <2> HIDE DEF T
  <2>2. zeros \in Seq(T) /\ Len(zeros) = length /\ \A n \in 1 .. length : zeros[n] = 0
    BY <1>1, <2>1 DEF T
  <2>3. QED
    BY Zenon, <2>2 DEF T
<1>3. index \in Nat
  BY Zenon, <1>1, IndexIs
<1> HIDE DEF zeros, index
<1>4. q = [pc |-> "open", offset |-> offset, current_offset |-> offset, index |-> index,
           remain_len |-> length, buf_offset |-> 0, buf |-> zeros]
  BY Zenon DEF zeros, index
<1>5. /\ q.pc = "open" /\ q.offset = offset /\ q.current_offset = offset /\ q.index = index
      /\ q.remain_len = length /\ q.buf_offset = 0 /\ q.buf = zeros
  BY SMTT(60), <1>4
<1>6. q \in RequestRec
  BY SMTT(60), <1>1, <1>2, <1>3, <1>4 DEF RequestRec
<1>7. ASSUME Begins(q) PROVE OnTrack(q)
  <2>1. PICK i \in 1 .. N : offset \in Places(i) /\ (offset = Start(i) => i = 1)
    BY Zenon, <1>5, <1>7, FilesAre DEF Begins, Start
  <2>2. index = i - 1
    BY Zenon, <1>1, <2>1, IndexIs DEF index
  <2>3. index + 1 = i
    BY <2>2
  <2>4. QED
    BY Zenon, <1>5, <2>1, <2>3 DEF OnTrack
<1>8. /\ offset + Len(zeros) <= PARTITION_SIZE /\ offset = offset + 0 /\ length = Len(zeros) - 0
      /\ \A n \in 1 .. Len(zeros) : ~(n <= 0)
  BY <1>1, <1>2
<1>9. RequestInv(q)
  BY Zenon, <1>1, <1>2, <1>5, <1>7, <1>8 DEF RequestInv
<1>10. QED
  BY Zenon, <1>6, <1>9

\* The file that a call has open.
LEMMA OpenedIs ==
  ASSUME NEW q \in RequestRec, RequestInv(q), q.pc = "opened"
  PROVE  /\ q.index + 1 \in 1 .. N /\ q.index < N
         /\ block_offset(q) = q.current_offset - Start(q.index + 1) /\ block_offset(q) \in Int
         /\ st_size(q.index + 1) = Length(q.index + 1)
         /\ Start(q.index + 1) \in Nat /\ Length(q.index + 1) \in Nat /\ Length(q.index + 1) > 0
         /\ q.index \in 1 .. N => Start(q.index) + Length(q.index) <= Start(q.index + 1)
<1>1. q.index \in Nat /\ q.current_offset \in Nat /\ N \in Nat
  BY Zenon, FieldsAre, FilesAre
<1>2. q.index < N
  BY Zenon DEF RequestInv
<1>3. q.index + 1 \in 1 .. N /\ q.index < q.index + 1
  BY <1>1, <1>2
<1>4. /\ Start(q.index + 1) \in Nat /\ Length(q.index + 1) \in Nat /\ Length(q.index + 1) > 0
      /\ q.index \in 1 .. N => Start(q.index) + Length(q.index) <= Start(q.index + 1)
  BY Zenon, <1>3, FilesAre
<1>5. /\ block_offset(q) = q.current_offset - Start(q.index + 1)
      /\ st_size(q.index + 1) = Length(q.index + 1)
  BY Zenon, <1>3, ServedFilesAre DEF block_offset
<1>6. block_offset(q) \in Int
  BY <1>1, <1>4, <1>5
<1>7. QED
  BY Zenon, <1>2, <1>3, <1>4, <1>5, <1>6

\* Whether or not the file can be opened, what the call has copied stays right.
LEMMA OpenKeeps ==
  ASSUME NEW q \in RequestRec, RequestInv(q), q.pc = "open", NEW pc \in {"error", "nofile", "opened"},
         pc = "error" <=> q.index >= N
  PROVE  [q EXCEPT !.pc = pc] \in RequestRec /\ RequestInv([q EXCEPT !.pc = pc])
<1>1. q.index \in Nat /\ N \in Nat
  BY Zenon, FieldsAre, FilesAre
<1>2. (pc = "opened" => q.index < N) /\ (pc = "error" => ~(q.index < N))
  BY <1>1
<1>3. ASSUME Begins(q), pc = "error" PROVE Original[q.current_offset] = 0
  <2>1. OnTrack(q)
    BY Zenon, <1>3 DEF RequestInv
  <2>2. QED
    BY Zenon, <1>2, <1>3, <2>1, TrackEnds
<1>4. pc \in {"open", "opened", "ok", "nofile", "error"} /\ pc # "ok" /\ q.pc \in {"open", "opened"}
  OBVIOUS
<1>5. QED
  BY Zenon, <1>2, <1>3, <1>4, PcChanges

\* When there is no data at the offset in the open file, what was copied stays right.
LEMMA MissedKeeps ==
  ASSUME NEW q \in RequestRec, RequestInv(q), q.pc = "opened",
         block_offset(q) >= st_size(q.index + 1) \/ block_offset(q) < 0,
         NEW pc, pc = IF block_offset(q) < 0 THEN "error" ELSE "ok"
  PROVE  [q EXCEPT !.pc = pc] \in RequestRec /\ RequestInv([q EXCEPT !.pc = pc])
<1> DEFINE start == Start(q.index + 1)
           size == Length(q.index + 1)
           x == q.current_offset
<1>1. /\ q.index + 1 \in 1 .. N /\ start \in Nat /\ size \in Nat /\ size > 0 /\ x \in Nat
      /\ block_offset(q) = x - start /\ st_size(q.index + 1) = size
      /\ q.index \in 1 .. N => Start(q.index) + Length(q.index) <= start
  BY Zenon, FieldsAre, OpenedIs
<1>2. ASSUME Begins(q) PROVE pc = "error" /\ Original[x] = 0
  <2>1. OnTrack(q)
    BY Zenon, <1>2 DEF RequestInv
  <2>2. x < start + size
    <3>1. CASE x \in Places(q.index + 1)
      <4>1. x \in start .. start + size - 1
        BY Zenon, <1>1, <3>1, FilesAre
      <4> HIDE DEF start, size, x
      <4>2. QED
        BY <1>1, <4>1
    <3>2. CASE q.index \in 1 .. N /\ x = Start(q.index) + Length(q.index)
      <4>1. x <= start
        BY Zenon, <1>1, <3>2
      <4> HIDE DEF start, size, x
      <4>2. QED
        BY <1>1, <4>1
    <3>3. QED
      BY Zenon, <2>1, <3>1, <3>2 DEF OnTrack
  <2>3. x < start /\ block_offset(q) < 0
    <3> HIDE DEF start, size, x
    <3> QED
      BY <1>1, <2>2
  <2>4. Original[x] = 0
    BY Zenon, <2>1, <2>3, TrackEnds
  <2>5. QED
    BY Zenon, <2>3, <2>4
<1>3. pc \in {"open", "opened", "ok", "nofile", "error"} /\ pc # "opened" /\ q.pc \in {"open", "opened"}
  OBVIOUS
<1>4. pc = "error" => pc # "ok"
  OBVIOUS
<1>5. QED
  BY Zenon, <1>2, <1>3, <1>4, PcChanges

\* What is read from the open file are the next units that were asked for.
LEMMA FilledKeeps ==
  ASSUME NEW q \in RequestRec, RequestInv(q), q.pc = "opened",
         block_offset(q) \in 0 .. st_size(q.index + 1) - 1
  PROVE  Filled(q) \in RequestRec /\ RequestInv(Filled(q)) /\ Filled(q).pc \in {"open", "ok"}
<1> DEFINE v == Filled(q)
           index == q.index + 1
           start == Start(index)
           size == Length(index)
           x == q.current_offset
           done == q.buf_offset
           len == read_len(q)
           pc == IF q.remain_len > len THEN "open" ELSE "ok"
           copied(n) == Content(index, block_offset(q) + n - done - 1)
           buf == [n \in 1 .. Len(q.buf) |-> IF n \in done + 1 .. done + len THEN copied(n) ELSE q.buf[n]]
           all == Len(q.buf)
<1>1. /\ index \in 1 .. N /\ start \in Nat /\ size \in Nat /\ size > 0
      /\ block_offset(q) = x - start /\ st_size(index) = size
  BY Zenon, OpenedIs
<1>2. /\ x \in Nat /\ done \in Nat /\ all \in Nat /\ q.offset \in Nat /\ q.remain_len \in Nat /\ q.index \in Nat
  BY Zenon, FieldsAre
<1>b. q.buf \in Seq(0 .. TotalSize) /\ DOMAIN q.buf = 1 .. all
  BY Zenon, FieldsAre
<1>3. /\ q.offset + all <= PARTITION_SIZE /\ x = q.offset + done /\ q.remain_len = all - done /\ q.remain_len > 0
  BY Zenon DEF RequestInv
<1>c. \A n \in 1 .. all : q.buf[n] = IF n <= done THEN Original[q.offset + n - 1] ELSE 0
  BY Zenon DEF RequestInv
<1>4. x - start \in 0 .. size - 1
  BY Zenon, <1>1
<1>5. len = IF size - (x - start) < q.remain_len THEN size - (x - start) ELSE q.remain_len
  BY Zenon, <1>1 DEF read_len
<1>6. v = [q EXCEPT !.buf = buf, !.remain_len = q.remain_len - len, !.buf_offset = done + len,
                    !.current_offset = x + len, !.index = index, !.pc = pc]
  BY Zenon, <1>b DEF Filled
<1> HIDE DEF v, index, start, size, x, len, pc, buf, all, copied, done
<1>7. len \in Nat /\ len > 0 /\ len <= q.remain_len /\ len <= size - (x - start)
      /\ (q.remain_len > len => len = size - (x - start))
  BY SMTT(60), <1>1, <1>2, <1>3, <1>4, <1>5
<1>8. /\ pc \in {"open", "ok"} /\ (pc = "open" <=> q.remain_len > len)
  BY Zenon DEF pc
<1>9. ASSUME NEW n \in 1 .. all
      PROVE  buf[n] = IF n <= done + len THEN Original[q.offset + n - 1] ELSE 0
  <2>0. buf[n] = IF n \in done + 1 .. done + len THEN copied(n) ELSE q.buf[n]
    BY Zenon DEF buf, all
  <2>1. CASE n \in done + 1 .. done + len
    <3> DEFINE place == q.offset + n - 1
    <3>1. place \in start .. start + size - 1 /\ place - start = (x - start) + n - done - 1 /\ n <= done + len
      BY SMTT(60), <1>1, <1>2, <1>3, <1>4, <1>7, <2>1
    <3>2. place \in Places(index)
      BY Zenon, <1>1, <3>1, FilesAre DEF start, size
    <3>3. Original[place] = FileEnd[index - 1] + place - start + 1
      BY Zenon, <1>1, <3>2, OriginalIs DEF start
    <3>4. copied(n) = FileEnd[index - 1] + ((x - start) + n - done - 1) + 1
      BY Zenon, <1>1, ServedFilesAre DEF copied
    <3>5. FileEnd[index - 1] \in Nat
      BY SMTT(60), <1>1, FilesAre, FileEndIs
    <3> DEFINE fs == FileEnd[index - 1]
    <3> HIDE DEF place, fs
    <3>6. fs + place - start + 1 = fs + ((x - start) + n - done - 1) + 1
      BY Zenon, <1>1, <1>2, <3>1, <3>5 DEF fs
    <3>7. QED
      BY ZenonT(40), <2>0, <2>1, <3>1, <3>3, <3>4, <3>6 DEF fs, place
  <2>2. CASE n \notin done + 1 .. done + len
    <3>1. n <= done <=> n <= done + len
      BY SMTT(60), <1>2, <1>7, <2>2
    <3>2. QED
      BY Zenon, <1>c, <2>0, <2>2, <3>1
  <2>3. QED
    BY Zenon, <2>1, <2>2
<1>10. buf \in Seq(0 .. TotalSize) /\ Len(buf) = all
  <2>1. ASSUME NEW n \in 1 .. all PROVE buf[n] \in 0 .. TotalSize
    <3>1. q.offset + n - 1 \in 0 .. PARTITION_SIZE - 1 /\ 0 \in 0 .. TotalSize
      <4>1. PARTITION_SIZE \in Nat /\ TotalSize \in Nat
        BY Zenon, SizesAre, UnitsAre
      <4>2. QED
        BY <1>2, <1>3, <4>1
    <3>2. QED
      BY Zenon, <1>9, <3>1, UnitsAre
  <2>2. buf = [n \in 1 .. all |-> buf[n]]
    BY Zenon DEF buf, all
  <2> DEFINE T == 0 .. TotalSize
  <2>3. \A n \in 1 .. all : buf[n] \in T
    BY Zenon, <2>1
  <2> HIDE DEF T
  <2>4. buf \in Seq(T) /\ Len(buf) = all
    BY SMTT(60), <1>2, <2>2, <2>3
  <2>5. QED
    BY Zenon, <2>4 DEF T
<1>11. /\ v.pc = pc /\ v.offset = q.offset /\ v.current_offset = x + len /\ v.index = index
       /\ v.remain_len = q.remain_len - len /\ v.buf_offset = done + len /\ v.buf = buf
  BY Zenon, <1>6 DEF RequestRec
<1>12. v \in RequestRec
  <2> DEFINE T == Seq(0 .. TotalSize)
             PC == {"open", "opened", "ok", "nofile", "error"}
             rest == q.remain_len - len
             done2 == done + len
             x2 == x + len
  <2>1. /\ x2 \in Nat /\ index \in Nat /\ rest \in Nat /\ done2 \in Nat /\ buf \in T /\ pc \in PC
    BY SMTT(60), <1>1, <1>2, <1>7, <1>8, <1>10
  <2>2. v = [q EXCEPT !.buf = buf, !.remain_len = rest, !.buf_offset = done2,
                      !.current_offset = x2, !.index = index, !.pc = pc]
    BY Zenon, <1>6
  <2>3. q \in [pc : PC, offset : Nat, current_offset : Nat, index : Nat, remain_len : Nat, buf_offset : Nat, buf : T]
    BY Zenon DEF RequestRec
  <2> HIDE DEF T, PC, rest, done2, x2
  <2>4. v \in [pc : PC, offset : Nat, current_offset : Nat, index : Nat, remain_len : Nat, buf_offset : Nat, buf : T]
    BY Zenon, <2>1, <2>2, <2>3
  <2>5. QED
    BY Zenon, <2>4 DEF RequestRec, T, PC
<1>13. /\ v.offset + Len(v.buf) <= PARTITION_SIZE
       /\ v.current_offset = v.offset + v.buf_offset /\ v.remain_len = Len(v.buf) - v.buf_offset
       /\ v.pc = "open" => v.remain_len > 0
       /\ v.pc = "ok" => v.buf_offset = Len(v.buf)
  <2>1. /\ q.offset + all <= PARTITION_SIZE /\ x + len = q.offset + (done + len)
        /\ q.remain_len - len = all - (done + len)
        /\ pc = "open" => q.remain_len - len > 0
        /\ pc = "ok" => done + len = all
    BY <1>2, <1>3, <1>7, <1>8
  <2>2. QED
    BY Zenon, <1>10, <1>11, <2>1
<1>14. v.pc = "open" => OnTrack(v)
  <2>1. SUFFICES ASSUME v.pc = "open" PROVE OnTrack(v)
    OBVIOUS
  <2>2. x + len = start + size
    BY SMTT(60), <1>1, <1>2, <1>7, <1>8, <1>11, <2>1
  <2>3. QED
    BY Zenon, <1>1, <1>11, <2>2 DEF OnTrack, start, size
<1>15. v.pc \in {"open", "ok"} /\ v.pc # "opened" /\ v.pc # "error"
  BY Zenon, <1>8, <1>11
<1>16. \A n \in 1 .. Len(v.buf) : v.buf[n] = IF n <= v.buf_offset THEN Original[v.offset + n - 1] ELSE 0
  BY Zenon, <1>9, <1>10, <1>11
<1>17. RequestInv(v)
  BY Zenon, <1>13, <1>14, <1>15, <1>16 DEF RequestInv
<1>18. QED
  BY Zenon, <1>12, <1>15, <1>17 DEF v

\* The threads with a file open, by what their calls are.
Opened(calls) == {r \in Reader : calls[r].pc = "opened"}

NbdInv ==
  /\ request \in [Reader -> RequestRec \cup {NoRequest}]
  /\ \A r \in Reader : request[r] # NoRequest => RequestInv(request[r])
  /\ open_fds \in 0 .. MAX_FD /\ leaked \in Nat /\ open_fds = leaked + Cardinality(Opened(request))

\* The calls that have a file open are finitely many.
LEMMA OpenedIsFinite ==
  ASSUME NEW calls
  PROVE  IsFiniteSet(Opened(calls)) /\ Cardinality(Opened(calls)) \in Nat
<1>1. IsFiniteSet(Reader)
  BY Zenon, NbdAssumption
<1>2. Opened(calls) \subseteq Reader
  BY Zenon DEF Opened
<1>3. IsFiniteSet(Opened(calls))
  BY Zenon, <1>1, <1>2, FS_Subset
<1>4. QED
  BY Zenon, <1>3, FS_CardinalityType

\* What becomes of the threads with a file open when a call changes.
LEMMA OpenedChanges ==
  ASSUME request \in [Reader -> RequestRec \cup {NoRequest}], NEW r \in Reader, NEW v,
         request' = [request EXCEPT ![r] = v]
  PROVE  /\ request[r].pc # "opened" /\ v.pc = "opened"
              => Cardinality(Opened(request')) = Cardinality(Opened(request)) + 1
         /\ request[r].pc = "opened" /\ v.pc # "opened"
              => Cardinality(Opened(request')) = Cardinality(Opened(request)) - 1
         /\ request[r].pc # "opened" /\ v.pc # "opened" => Opened(request') = Opened(request)
<1>1. request'[r] = v /\ \A x \in Reader : x # r => request'[x] = request[x]
  BY Zenon
<1>2. IsFiniteSet(Opened(request))
  BY Zenon, OpenedIsFinite
<1>3. ASSUME request[r].pc # "opened", v.pc = "opened"
      PROVE  Opened(request') = Opened(request) \cup {r} /\ r \notin Opened(request)
  BY Zenon, <1>1, <1>3 DEF Opened
<1>4. ASSUME request[r].pc = "opened", v.pc # "opened"
      PROVE  Opened(request') = Opened(request) \ {r} /\ r \in Opened(request)
  BY Zenon, <1>1, <1>4 DEF Opened
<1>5. ASSUME request[r].pc # "opened", v.pc # "opened"
      PROVE  Opened(request') = Opened(request)
  BY Zenon, <1>1, <1>5 DEF Opened
<1> DEFINE O == Opened(request)
<1> HIDE DEF O
<1>6. r \notin O => Cardinality(O \cup {r}) = Cardinality(O) + 1
  BY Zenon, <1>2, FS_AddElement DEF O
<1>7. r \in O => Cardinality(O \ {r}) = Cardinality(O) - 1
  BY Zenon, <1>2, FS_RemoveElement DEF O
<1>8. QED
  BY Zenon, <1>3, <1>4, <1>5, <1>6, <1>7 DEF O

\* A step that changes one call.
LEMMA CallChanges ==
  ASSUME NbdInv, NEW r \in Reader, NEW v, request' = [request EXCEPT ![r] = v],
         v = NoRequest \/ (v \in RequestRec /\ RequestInv(v))
  PROVE  /\ request' \in [Reader -> RequestRec \cup {NoRequest}]
         /\ \A x \in Reader : request'[x] # NoRequest => RequestInv(request'[x])
<1>1. request \in [Reader -> RequestRec \cup {NoRequest}]
  BY Zenon DEF NbdInv
<1>2. request' \in [Reader -> RequestRec \cup {NoRequest}]
  BY Zenon, <1>1
<1>3. ASSUME NEW x \in Reader, request'[x] # NoRequest PROVE RequestInv(request'[x])
  <2>1. CASE x = r
    BY Zenon, <1>1, <1>3, <2>1
  <2>2. CASE x # r
    <3>1. request'[x] = request[x]
      BY Zenon, <1>1, <2>2
    <3>2. QED
      BY Zenon, <1>3, <3>1 DEF NbdInv
  <2>3. QED
    BY Zenon, <2>1, <2>2
<1>4. QED
  BY Zenon, <1>2, <1>3

\* A call whose pc is not that of NoRequest.
LEMMA CallIs ==
  ASSUME NbdInv, NEW r \in Reader, request[r].pc # "idle"
  PROVE  request[r] \in RequestRec /\ RequestInv(request[r])
<1>1. NoRequest.pc = "idle"
  BY Zenon DEF NoRequest
<1>2. QED
  BY Zenon, <1>1 DEF NbdInv

\* A call of pread preserves the invariant.
LEMMA PreadKeeps ==
  ASSUME NbdInv, NEW r \in Reader, NEW length \in 1 .. MAX_LENGTH,
         NEW offset \in 0 .. PARTITION_SIZE - length, pread(r, offset, length)
  PROVE  NbdInv'
<1> DEFINE v == [pc |-> "open", offset |-> offset, current_offset |-> offset, index |-> Index(offset),
                 remain_len |-> length, buf_offset |-> 0, buf |-> [n \in 1 .. length |-> 0]]
<1>1. /\ request[r] = NoRequest /\ request' = [request EXCEPT ![r] = v]
      /\ open_fds' = open_fds /\ leaked' = leaked
  BY Zenon DEF pread
<1>2. v \in RequestRec /\ RequestInv(v)
  BY Zenon, PreadStarts
<1>3. v.pc = "open"
  BY Zenon
<1> HIDE DEF v
<1>4. /\ request' \in [Reader -> RequestRec \cup {NoRequest}]
      /\ \A x \in Reader : request'[x] # NoRequest => RequestInv(request'[x])
  BY Zenon, <1>1, <1>2, CallChanges
<1>5. request[r].pc # "opened" /\ v.pc # "opened"
  BY <1>1, <1>3 DEF NoRequest
<1>6. Opened(request') = Opened(request)
  BY Zenon, <1>1, <1>5, OpenedChanges DEF NbdInv
<1>7. QED
  BY Zenon, <1>1, <1>4, <1>6 DEF NbdInv

\* Opening a file preserves the invariant.
LEMMA OpenFileKeeps ==
  ASSUME NbdInv, NEW r \in Reader, OpenFile(r)
  PROVE  NbdInv'
<1> DEFINE q == request[r]
           next == IF q.index >= Len(fd_list) THEN "error" ELSE IF open_fds = MAX_FD THEN "nofile" ELSE "opened"
           v == [q EXCEPT !.pc = next]
<1>1. /\ q.pc = "open" /\ request' = [request EXCEPT ![r] = v]
      /\ open_fds' = (IF next = "opened" THEN open_fds + 1 ELSE open_fds) /\ leaked' = leaked
  BY Zenon DEF OpenFile
<1>2. q \in RequestRec /\ RequestInv(q)
  <2>1. q.pc # "idle"
    BY Zenon, <1>1
  <2>2. QED
    BY Zenon, <2>1, CallIs
<1>3. /\ next \in {"error", "nofile", "opened"} /\ (next = "error" <=> q.index >= N)
      /\ next = "opened" => open_fds # MAX_FD
  BY Zenon, ServedFilesAre
<1>4. v.pc = next
  BY Zenon, <1>2 DEF RequestRec
<1> HIDE DEF next
<1>5. v \in RequestRec /\ RequestInv(v)
  BY Zenon, <1>1, <1>2, <1>3, OpenKeeps
<1> HIDE DEF v, q
<1>6. /\ request' \in [Reader -> RequestRec \cup {NoRequest}]
      /\ \A x \in Reader : request'[x] # NoRequest => RequestInv(request'[x])
  BY Zenon, <1>1, <1>5, CallChanges
<1>7. q.pc # "opened"
  BY Zenon, <1>1
<1>8. /\ next = "opened" => Cardinality(Opened(request')) = Cardinality(Opened(request)) + 1
      /\ next # "opened" => Cardinality(Opened(request')) = Cardinality(Opened(request))
  BY Zenon, <1>1, <1>4, <1>7, OpenedChanges DEF NbdInv, q
<1>9. /\ open_fds \in 0 .. MAX_FD /\ leaked \in Nat /\ open_fds = leaked + Cardinality(Opened(request))
      /\ Cardinality(Opened(request)) \in Nat /\ MAX_FD \in Nat
  BY Zenon, OpenedIsFinite, NbdAssumption DEF NbdInv
<1>10. /\ open_fds' \in 0 .. MAX_FD /\ leaked' \in Nat /\ open_fds' = leaked' + Cardinality(Opened(request'))
  <2>1. CASE next = "opened"
    BY SMTT(60), <1>1, <1>3, <1>8, <1>9, <2>1
  <2>2. CASE next # "opened"
    BY Zenon, <1>1, <1>8, <1>9, <2>2
  <2>3. QED
    BY Zenon, <2>1, <2>2
<1>11. QED
  BY Zenon, <1>6, <1>10 DEF NbdInv

\* Finding no data at the offset preserves the invariant.
LEMMA MissedStep ==
  ASSUME NbdInv, NEW r \in Reader, Missed(r)
  PROVE  NbdInv'
<1> DEFINE q == request[r]
           next == IF block_offset(q) < 0 THEN "error" ELSE "ok"
           v == [q EXCEPT !.pc = next]
<1>1. /\ q.pc = "opened" /\ request' = [request EXCEPT ![r] = v]
      /\ block_offset(q) >= st_size(q.index + 1) \/ block_offset(q) < 0
      /\ open_fds' = open_fds /\ leaked' = leaked + 1
  BY Zenon DEF Missed
<1>2. q \in RequestRec /\ RequestInv(q)
  <2>1. q.pc # "idle"
    BY Zenon, <1>1
  <2>2. QED
    BY Zenon, <2>1, CallIs
<1>3. next # "opened"
  BY Zenon
<1>4. v.pc = next
  <2> HIDE DEF next
  <2> QED
    BY <1>2 DEF RequestRec
<1>5. v \in RequestRec /\ RequestInv(v)
  BY Zenon, <1>1, <1>2, MissedKeeps
<1> HIDE DEF v, q, next
<1>6. /\ request' \in [Reader -> RequestRec \cup {NoRequest}]
      /\ \A x \in Reader : request'[x] # NoRequest => RequestInv(request'[x])
  BY Zenon, <1>1, <1>5, CallChanges
<1>7. Cardinality(Opened(request')) = Cardinality(Opened(request)) - 1
  BY ZenonT(40), <1>1, <1>3, <1>4, OpenedChanges DEF NbdInv, q
<1>8. /\ open_fds \in 0 .. MAX_FD /\ leaked \in Nat /\ open_fds = leaked + Cardinality(Opened(request))
      /\ Cardinality(Opened(request)) \in Nat /\ MAX_FD \in Nat
  BY Zenon, OpenedIsFinite, NbdAssumption DEF NbdInv
<1>9. open_fds' \in 0 .. MAX_FD /\ leaked' \in Nat /\ open_fds' = leaked' + Cardinality(Opened(request'))
  BY SMTT(60), <1>1, <1>7, <1>8
<1>10. QED
  BY Zenon, <1>6, <1>9 DEF NbdInv

\* Reading from the open file preserves the invariant.
LEMMA ReadFileKeeps ==
  ASSUME NbdInv, NEW r \in Reader, ReadFile(r)
  PROVE  NbdInv'
<1> DEFINE q == request[r]
           v == Filled(q)
<1>1. /\ q.pc = "opened" /\ request' = [request EXCEPT ![r] = v]
      /\ block_offset(q) \in 0 .. st_size(q.index + 1) - 1
      /\ open_fds' = open_fds - 1 /\ leaked' = leaked
  BY Zenon DEF ReadFile
<1>2. q \in RequestRec /\ RequestInv(q)
  <2>1. q.pc # "idle"
    BY Zenon, <1>1
  <2>2. QED
    BY Zenon, <2>1, CallIs
<1>3. v \in RequestRec /\ RequestInv(v) /\ v.pc \in {"open", "ok"}
  BY Zenon, <1>1, <1>2, FilledKeeps
<1> HIDE DEF v, q
<1>4. v.pc # "opened"
  BY Zenon, <1>3
<1>5. /\ request' \in [Reader -> RequestRec \cup {NoRequest}]
      /\ \A x \in Reader : request'[x] # NoRequest => RequestInv(request'[x])
  BY Zenon, <1>1, <1>3, CallChanges
<1>6. Cardinality(Opened(request')) = Cardinality(Opened(request)) - 1
  BY Zenon, <1>1, <1>4, OpenedChanges DEF NbdInv, q
<1>7. /\ open_fds \in 0 .. MAX_FD /\ leaked \in Nat /\ open_fds = leaked + Cardinality(Opened(request))
      /\ Cardinality(Opened(request)) \in Nat /\ Cardinality(Opened(request')) \in Nat /\ MAX_FD \in Nat
  BY Zenon, OpenedIsFinite, NbdAssumption DEF NbdInv
<1>8. open_fds' \in 0 .. MAX_FD /\ leaked' \in Nat /\ open_fds' = leaked' + Cardinality(Opened(request'))
  BY <1>1, <1>6, <1>7
<1>9. QED
  BY Zenon, <1>5, <1>8 DEF NbdInv

\* The reply to a call preserves the invariant.
LEMMA ReplyKeeps ==
  ASSUME NbdInv, NEW r \in Reader, Reply(r)
  PROVE  NbdInv'
<1>1. /\ request[r].pc \in {"ok", "nofile", "error"} /\ request' = [request EXCEPT ![r] = NoRequest]
      /\ open_fds' = open_fds /\ leaked' = leaked
  BY Zenon DEF Reply
<1>2. request[r].pc # "opened" /\ NoRequest.pc # "opened"
  BY Zenon, <1>1 DEF NoRequest
<1>3. /\ request' \in [Reader -> RequestRec \cup {NoRequest}]
      /\ \A x \in Reader : request'[x] # NoRequest => RequestInv(request'[x])
  BY Zenon, <1>1, CallChanges
<1>4. Opened(request') = Opened(request)
  BY Zenon, <1>1, <1>2, OpenedChanges DEF NbdInv
<1>5. QED
  BY Zenon, <1>1, <1>3, <1>4 DEF NbdInv

\* With no call and no open file the invariant holds.
LEMMA NbdStarts ==
  Init => NbdInv
<1> SUFFICES ASSUME Init PROVE NbdInv
  OBVIOUS
<1>1. request \in [Reader -> RequestRec \cup {NoRequest}] /\ \A r \in Reader : request[r] = NoRequest
  BY Zenon DEF Init
<1>2. Opened(request) = {}
  BY <1>1 DEF Opened, NoRequest
<1>3. Cardinality(Opened(request)) = 0
  BY Zenon, <1>2, FS_EmptySet
<1>4. open_fds \in 0 .. MAX_FD /\ leaked \in Nat /\ open_fds = leaked + Cardinality(Opened(request))
  BY <1>3, NbdAssumption DEF Init
<1>5. QED
  BY Zenon, <1>1, <1>4 DEF NbdInv

\* The invariant holds in every state.
LEMMA NbdHolds ==
  Spec => []NbdInv
<1>1. ASSUME NbdInv, [Next]_vars PROVE NbdInv'
  <2>1. CASE UNCHANGED nbdVars
    BY Zenon, <1>1, <2>1 DEF NbdInv, nbdVars
  <2>2. CASE NbdNext
    BY ZenonT(40), <1>1, <2>2, PreadKeeps, OpenFileKeeps, MissedStep, ReadFileKeeps, ReplyKeeps DEF NbdNext
  <2>3. UNCHANGED vars => UNCHANGED nbdVars
    BY Zenon DEF vars
  <2>4. QED
    BY Zenon, <1>1, <2>1, <2>2, <2>3 DEF Next
<1>2. QED
  BY <1>1, NbdStarts, PTL DEF Spec

\* The types of the image's partition, of the blocks written to it and of the calls of
\* ezio-nbd; the files open in the process never exceed its limit.
THEOREM ServerTypesHold ==
  Spec => []TypeOK
<1>1. ASSUME PartitionInv, NbdInv PROVE TypeOK
  <2>1. Cardinality(Opened(request)) \in Nat /\ MAX_FD \in Nat
    BY Zenon, OpenedIsFinite, NbdAssumption
  <2>2. open_fds \in 0 .. MAX_FD /\ leaked \in Nat /\ open_fds = leaked + Cardinality(Opened(request))
    BY Zenon, <1>1 DEF NbdInv
  <2>3. leaked \in 0 .. MAX_FD
    BY <2>1, <2>2
  <2>4. QED
    BY Zenon, <1>1, <2>2, <2>3 DEF TypeOK, PartitionInv, NbdInv
<1>2. QED
  BY <1>1, PartitionHolds, NbdHolds, PTL

\* A call of ezio-nbd's pread that finds its data closes every file that it opened:
\* files stay open only for calls under way and for those that found none.
THEOREM FilesAreClosedHolds ==
  Spec => []FilesAreClosed
<1>1. NbdInv => FilesAreClosed
  BY Zenon DEF NbdInv, FilesAreClosed, Opened
<1>2. QED
  BY <1>1, NbdHolds, PTL

\* For every image and any number of threads: what ezio-nbd returns for a read is what
\* partition_storage deploys there or zero; a read that begins in the first extent, or
\* behind the start of another, returns all of it or runs into an unused place.
THEOREM ServedHolds ==
  Spec => []ServedIsDeployed
<1>1. ASSUME NbdInv PROVE ServedIsDeployed
  <2>1. SUFFICES ASSUME NEW r \in Reader, NEW q, q = request[r]
                 PROVE  /\ q.pc = "ok" =>
                             /\ \A n \in DOMAIN q.buf : q.buf[n] \in {0, Asked(q)[n]}
                             /\ Begins(q) => q.buf = Asked(q)
                        /\ q.pc = "error" /\ Begins(q) => \E n \in DOMAIN q.buf : Asked(q)[n] = 0
    BY Zenon DEF ServedIsDeployed
  <2>2. ASSUME q.pc \in {"ok", "error"}
        PROVE  /\ q \in RequestRec /\ RequestInv(q) /\ DOMAIN q.buf = 1 .. Len(q.buf) /\ Len(q.buf) \in Nat
               /\ \A n \in 1 .. Len(q.buf) : Asked(q)[n] = Original[q.offset + n - 1]
               /\ \A n \in 1 .. Len(q.buf) :
                    q.buf[n] = IF n <= q.buf_offset THEN Original[q.offset + n - 1] ELSE 0
    <3>1. q.pc # "idle"
      BY Zenon, <2>2
    <3>2. q \in RequestRec /\ RequestInv(q)
      BY Zenon, <1>1, <2>1, <3>1, CallIs
    <3>3. DOMAIN q.buf = 1 .. Len(q.buf) /\ Len(q.buf) \in Nat
      BY Zenon, <3>2, FieldsAre
    <3>4. QED
      BY Zenon, <3>2, <3>3 DEF Asked, RequestInv
  <2>3. ASSUME q.pc = "ok" PROVE \A n \in DOMAIN q.buf : q.buf[n] \in {0, Asked(q)[n]}
    BY Zenon, <2>2, <2>3
  <2>4. ASSUME q.pc = "ok", Begins(q) PROVE q.buf = Asked(q)
    <3>1. q.pc \in {"ok", "error"} /\ q.buf_offset = Len(q.buf)
      BY Zenon, <2>2, <2>4 DEF RequestInv
    <3>2. \A n \in 1 .. Len(q.buf) : n <= q.buf_offset
      BY SMTT(60), <2>2, <3>1
    <3>3. ASSUME NEW n \in 1 .. Len(q.buf) PROVE q.buf[n] = Asked(q)[n]
      <4>1. /\ Asked(q)[n] = Original[q.offset + n - 1]
            /\ q.buf[n] = IF n <= q.buf_offset THEN Original[q.offset + n - 1] ELSE 0
        BY Zenon, <2>2, <3>1
      <4>2. QED
        BY Zenon, <3>2, <4>1
    <3>4. q.buf \in Seq(0 .. TotalSize)
      BY Zenon, <2>2, <3>1, FieldsAre
    <3>5. q.buf = [n \in 1 .. Len(q.buf) |-> q.buf[n]]
      <4> DEFINE T == 0 .. TotalSize
                 s == q.buf
      <4>1. s \in Seq(T)
        BY Zenon, <3>4
      <4> HIDE DEF T, s
      <4>2. s = [n \in 1 .. Len(s) |-> s[n]]
        BY <4>1
      <4>3. QED
        BY Zenon, <4>2 DEF s
    <3>6. Asked(q) = [n \in 1 .. Len(q.buf) |-> Asked(q)[n]]
      BY Zenon, <2>2, <3>1 DEF Asked
    <3>7. QED
      BY ZenonT(40), <3>3, <3>5, <3>6
  <2>5. ASSUME q.pc = "error", Begins(q) PROVE \E n \in DOMAIN q.buf : Asked(q)[n] = 0
    <3>1. q \in RequestRec /\ RequestInv(q)
      BY Zenon, <2>2, <2>5
    <3>2. /\ q.offset \in Nat /\ q.buf_offset \in Nat /\ q.remain_len \in Nat
          /\ Len(q.buf) \in Nat /\ DOMAIN q.buf = 1 .. Len(q.buf)
      BY Zenon, <3>1, FieldsAre
    <3>3. /\ Original[q.current_offset] = 0 /\ q.current_offset = q.offset + q.buf_offset
          /\ q.remain_len = Len(q.buf) - q.buf_offset /\ q.remain_len > 0
      BY Zenon, <2>5, <3>1 DEF RequestInv
    <3> DEFINE n == q.buf_offset + 1
    <3>4. n \in 1 .. Len(q.buf) /\ q.offset + n - 1 = q.current_offset
      BY <3>2, <3>3
    <3> HIDE DEF n
    <3>5. Asked(q)[n] = 0
      BY Zenon, <2>2, <2>5, <3>3, <3>4
    <3>6. QED
      BY Zenon, <3>2, <3>4, <3>5
  <2>6. QED
    BY Zenon, <2>3, <2>4, <2>5
<1>2. QED
  BY <1>1, NbdHolds, PTL

=============================================================================
