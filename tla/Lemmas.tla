------------------------------- MODULE Lemmas -------------------------------
(***************************************************************************)
(* Facts the other proofs rest on: two about sets of natural numbers, and  *)
(* those about the block arithmetic of PartialRR, for every record length. *)
(***************************************************************************)
EXTENDS PartialRR, FiniteSetTheorems, WellFoundedInduction, TLAPS

\* A non-empty set of natural numbers has a least element.
LEMMA LeastElement ==
  ASSUME NEW S \in SUBSET Nat, S # {}
  PROVE  \E j \in S : \A k \in S : j <= k
<1>1. PICK j \in S : \A k \in S : ~ (<<k, j>> \in OpToRel(<, Nat))
  BY NatLessThanWellFounded, WFMin
<1>2. \A k \in S : ~ (k < j)
  BY <1>1 DEF OpToRel
<1> QED
  BY <1>2

\* The interval a .. b - 1 has b - a elements.
LEMMA IntervalSize ==
  ASSUME NEW a \in Int, NEW b \in Int, a <= b
  PROVE  IsFiniteSet(a .. b - 1) /\ Cardinality(a .. b - 1) = b - a
<1> DEFINE c == b - 1
<1>1. c \in Int /\ (IF a > c THEN 0 ELSE c - a + 1) = b - a
  OBVIOUS
<1> HIDE DEF c
<1>2. IsFiniteSet(a .. c) /\ Cardinality(a .. c) = b - a
  BY <1>1, FS_Interval
<1> QED
  BY <1>2 DEF c
-----------------------------------------------------------------------------
\* A fragment the two ends agree on: of a record of n bytes, starting at a
\* block and inside the record.
FragmentOf(f, n) ==
  /\ f \in Fragment
  /\ f.rrsize = n
  /\ f.curidx % BLOCKSIZE = 0
  /\ f.curidx + f.fragsize <= n

\* A record of at least one byte has at least one block, and the blocks of a
\* record are those whose first byte is in it.
LEMMA BlocksOfRecord ==
  ASSUME NEW n \in Nat \ {0}
  PROVE  /\ Blocks(n) \in Nat \ {0}
         /\ \A j \in Nat : j < Blocks(n) <=> j * BLOCKSIZE < n
  BY DEF Blocks, BLOCKSIZE

\* The blocks a fragment fills are blocks of the record (copy_section writes
\* block_markers[blockidx .. lastblockidx - 1] without checking).
LEMMA SpanInRecord ==
  ASSUME NEW n \in Nat \ {0}, NEW f, FragmentOf(f, n)
  PROVE  /\ Span(f) \subseteq 0 .. Blocks(n) - 1
         /\ BlockIdx(f) \in Nat
         /\ LastBlockIdx(f) \in Nat
         /\ BlockIdx(f) <= LastBlockIdx(f)
  BY DEF Span, BlockIdx, LastBlockIdx, Blocks, BLOCKSIZE, FragmentOf, Fragment

\* What copy_section adds to blocks_received is the number of blocks filled.
LEMMA SpanSize ==
  ASSUME NEW n \in Nat \ {0}, NEW f, FragmentOf(f, n)
  PROVE  /\ IsFiniteSet(Span(f))
         /\ Cardinality(Span(f)) = LastBlockIdx(f) - BlockIdx(f)
<1>1. /\ BlockIdx(f) \in Int /\ LastBlockIdx(f) \in Int
      /\ BlockIdx(f) <= LastBlockIdx(f)
  BY SpanInRecord
<1> QED
  BY <1>1, IntervalSize DEF Span

\* Fresh markers are all free.
LEMMA FreshMarkersFree ==
  ASSUME NEW n \in Nat \ {0}
  PROVE  /\ FreshMarkers(n) \in [0 .. Blocks(n) - 1 -> Marker]
         /\ DOMAIN FreshMarkers(n) = 0 .. Blocks(n) - 1
         /\ DOMAIN FreshMarkers(n) # {}
         /\ Received(FreshMarkers(n)) = {}
         /\ Free(FreshMarkers(n)) = 0 .. Blocks(n) - 1
<1>1. Blocks(n) \in Nat \ {0}
  BY BlocksOfRecord
<1>2. 0 \in 0 .. Blocks(n) - 1
  BY <1>1
<1>3. BLOCKFREE \in Marker /\ BLOCKFREE # BLOCKRECVD
  BY DEF Marker, BLOCKFREE, BLOCKRECVD
<1> QED
  BY <1>2, <1>3 DEF FreshMarkers, Received, Free

\* Marking blocks received adds exactly them to those received.
LEMMA MarkReceived ==
  ASSUME NEW D, NEW m \in [D -> Marker], NEW blocks \in SUBSET D
  PROVE  /\ Mark(m, blocks, BLOCKRECVD) \in [D -> Marker]
         /\ DOMAIN Mark(m, blocks, BLOCKRECVD) = D
         /\ Received(Mark(m, blocks, BLOCKRECVD)) = Received(m) \cup blocks
         /\ Free(Mark(m, blocks, BLOCKRECVD)) = Free(m) \ blocks
  BY DEF Mark, Received, Free, Marker, BLOCKRECVD, BLOCKFREE

\* Marking free blocks as waiting leaves those received alone.
LEMMA MarkWaiting ==
  ASSUME NEW D, NEW m \in [D -> Marker], NEW blocks, blocks \subseteq Free(m)
  PROVE  /\ Mark(m, blocks, BLOCKWAITING) \in [D -> Marker]
         /\ DOMAIN Mark(m, blocks, BLOCKWAITING) = D
         /\ Received(Mark(m, blocks, BLOCKWAITING)) = Received(m)
         /\ Free(Mark(m, blocks, BLOCKWAITING)) = Free(m) \ blocks
  BY DEF Mark, Received, Free, Marker, BLOCKWAITING, BLOCKRECVD, BLOCKFREE

\* The first free block is one, and no free block comes before it.
LEMMA FirstFreeIsFirst ==
  ASSUME NEW n \in Nat, NEW m \in [0 .. n - 1 -> Marker], Free(m) # {}
  PROVE  FirstFree(m) \in Free(m) /\ \A k \in Free(m) : FirstFree(m) <= k
<1>1. Free(m) \subseteq Nat
  BY DEF Free
<1>2. \E j \in Free(m) : \A k \in Free(m) : j <= k
  BY <1>1, LeastElement
<1> QED
  BY <1>2 DEF FirstFree

\* What pack_section asks for is a fragment of the record, and it marks the
\* blocks of that fragment and no block beyond the record.
LEMMA AskedIsFragment ==
  ASSUME NEW n \in Nat \ {0}, NEW m \in [0 .. Blocks(n) - 1 -> Marker],
         Free(m) # {}, NEW canfit \in Nat
  PROVE  /\ FragmentOf(AskedFragment(m, n, canfit), n)
         /\ FirstFree(m) \in 0 .. Blocks(n) - 1
         /\ AskedBlocks(m, canfit) \in 0 .. Blocks(n) - FirstFree(m)
         /\ Span(AskedFragment(m, n, canfit)) \subseteq AskedSpan(m, canfit)
<1> DEFINE first == FirstFree(m)
           free == Cardinality(Free(m))
           asked == AskedBlocks(m, canfit)
<1>1. Blocks(n) \in Nat \ {0}
  BY BlocksOfRecord
<1>2. first \in Free(m) /\ \A k \in Free(m) : first <= k
  BY <1>1, FirstFreeIsFirst
<1>3. first \in 0 .. Blocks(n) - 1
  BY <1>2 DEF Free
<1>4. Free(m) \subseteq first .. Blocks(n) - 1
  BY <1>1, <1>2, <1>3 DEF Free
<1>5. free \in 0 .. Blocks(n) - first
  <2>1. /\ IsFiniteSet(first .. Blocks(n) - 1)
        /\ Cardinality(first .. Blocks(n) - 1) = Blocks(n) - first
    BY <1>1, <1>3, IntervalSize
  <2>2. IsFiniteSet(Free(m)) /\ free <= Blocks(n) - first
    BY <1>4, <2>1, FS_Subset
  <2>3. free \in Nat
    BY <2>2, FS_CardinalityType
  <2> QED
    BY <2>2, <2>3, <1>1, <1>3
<1>6. asked \in 0 .. free
  <2>1. canfit \div BLOCKSIZE \in Nat
    BY DEF BLOCKSIZE
  <2>2. free \in Nat
    BY <1>5
  <2> QED
    BY <2>1, <2>2 DEF AskedBlocks
<1>7. asked < free => (first + asked) * BLOCKSIZE < n
  <2> SUFFICES ASSUME asked < free
               PROVE  (first + asked) * BLOCKSIZE < n
    OBVIOUS
  <2>1. first + asked \in Nat /\ first + asked < Blocks(n)
    BY <1>1, <1>3, <1>5, <1>6
  <2> QED
    BY <2>1, BlocksOfRecord
<1>8. /\ FragmentOf(AskedFragment(m, n, canfit), n)
      /\ Span(AskedFragment(m, n, canfit)) \subseteq AskedSpan(m, canfit)
  <2>1. first * BLOCKSIZE < n
    BY <1>3, <1>1, BlocksOfRecord
  <2> DEFINE f == AskedFragment(m, n, canfit)
  <2>2. f = [curidx |-> first * BLOCKSIZE,
             fragsize |-> IF asked = free /\ asked * BLOCKSIZE > n - first * BLOCKSIZE
                            THEN n - first * BLOCKSIZE ELSE asked * BLOCKSIZE,
             rrsize |-> n]
    BY DEF AskedFragment
  <2>3. AskedSpan(m, canfit) = first .. first + asked - 1
    BY DEF AskedSpan
  <2>4. first \in Nat /\ free \in Nat /\ asked \in Nat /\ asked <= free
    BY <1>1, <1>3, <1>5, <1>6
  <2> HIDE DEF first, free, asked, f
  <2>5. FragmentOf(f, n)
    BY <2>1, <2>2, <2>4, <1>7 DEF FragmentOf, Fragment, BLOCKSIZE
  <2>6. f.curidx = first * BLOCKSIZE /\ f.fragsize \in Nat
        /\ f.fragsize <= asked * BLOCKSIZE
    BY <2>1, <2>2, <2>4 DEF BLOCKSIZE
  <2>7. BlockIdx(f) = first /\ LastBlockIdx(f) <= first + asked
    BY <2>4, <2>6 DEF BlockIdx, LastBlockIdx, Blocks, BLOCKSIZE
  <2>8. LastBlockIdx(f) \in Nat
    BY <2>5, SpanInRecord
  <2>9. Span(f) \subseteq AskedSpan(m, canfit)
    BY <2>3, <2>4, <2>7, <2>8 DEF Span
  <2> QED
    BY <2>5, <2>9 DEF f
<1> QED
  BY <1>1, <1>3, <1>5, <1>6, <1>8

\* When the free blocks are the tail of the record, the blocks pack_section
\* marks are free ones, and those left free are again the tail.
LEMMA AskedSpanFree ==
  ASSUME NEW n \in Nat \ {0}, NEW m \in [0 .. Blocks(n) - 1 -> Marker],
         Free(m) # {}, NEW canfit \in Nat,
         \A j \in Free(m), k \in DOMAIN m : j < k => k \in Free(m)
  PROVE  LET left == Free(m) \ AskedSpan(m, canfit)
         IN  /\ AskedSpan(m, canfit) \subseteq Free(m)
             /\ \A j \in left, k \in DOMAIN m : j < k => k \in left
<1> DEFINE first == FirstFree(m)
           asked == AskedBlocks(m, canfit)
<1>1. first \in 0 .. Blocks(n) - 1 /\ asked \in 0 .. Blocks(n) - first
      /\ Blocks(n) \in Nat
  BY AskedIsFragment, BlocksOfRecord
<1>2. first \in Free(m) /\ \A k \in Free(m) : first <= k
  BY <1>1, FirstFreeIsFirst
<1>3. AskedSpan(m, canfit) = first .. first + asked - 1
  BY DEF AskedSpan
<1> HIDE DEF first, asked
<1>4. Free(m) \subseteq 0 .. Blocks(n) - 1 /\ DOMAIN m = 0 .. Blocks(n) - 1
  BY DEF Free
<1>5. first .. first + asked - 1 \subseteq Free(m)
  BY <1>1, <1>2, <1>4
<1>6. \A j \in Free(m) \ (first .. first + asked - 1), k \in DOMAIN m :
         j < k => k \in Free(m) \ (first .. first + asked - 1)
  BY <1>1, <1>2, <1>4
<1> QED
  BY <1>3, <1>5, <1>6

-----------------------------------------------------------------------------
\* Offsets are what the running sum of copy_section's byteidx says: the
\* recursion has a solution.  (By a least length for which it has none.)
LEMMA OffsetsExist ==
  ASSUME NEW sizes \in Seq(Int)
  PROVE  \E at \in [0 .. Len(sizes) -> Int] :
           at = [i \in 0 .. Len(sizes) |-> IF i = 0 THEN 0 ELSE at[i - 1] + sizes[i]]
<1> DEFINE Solves(at, n) ==
             at = [i \in 0 .. n |-> IF i = 0 THEN 0 ELSE at[i - 1] + sizes[i]]
           Bad == {n \in 0 .. Len(sizes) : ~ \E at \in [0 .. n -> Int] : Solves(at, n)}
<1>1. /\ Len(sizes) \in Nat
      /\ \A i \in 1 .. Len(sizes) : sizes[i] \in Int
  OBVIOUS
<1>2. SUFFICES ASSUME Bad # {} PROVE FALSE
  BY <1>1
<1>3. PICK n \in Bad : \A k \in Bad : n <= k
  <2>1. Bad \in SUBSET Nat
    BY <1>1
  <2> HIDE DEF Bad
  <2> QED
    BY <1>2, <2>1, LeastElement
<1>4. CASE n = 0
  <2>1. [i \in 0 .. 0 |-> 0] \in [0 .. 0 -> Int] /\ Solves([i \in 0 .. 0 |-> 0], 0)
    OBVIOUS
  <2> QED
    BY <1>4, <1>3, <2>1
<1>5. CASE n # 0
  <2>1. n - 1 \in 0 .. Len(sizes) /\ n - 1 \notin Bad
    <3>1. n \in 0 .. Len(sizes)
      BY <1>3
    <3> HIDE DEF Bad
    <3> QED
      BY <1>1, <1>3, <1>5, <3>1
  <2>2. PICK at \in [0 .. n - 1 -> Int] : Solves(at, n - 1)
    BY <2>1
  <2> DEFINE next == [i \in 0 .. n |-> IF i = n THEN at[n - 1] + sizes[n] ELSE at[i]]
  <2>3. n \in 1 .. Len(sizes) /\ sizes[n] \in Int
    BY <1>1, <1>3, <1>5
  <2>4. next \in [0 .. n -> Int]
    BY <2>2, <2>3
  <2>5. ASSUME NEW i \in 0 .. n
        PROVE  next[i] = IF i = 0 THEN 0 ELSE next[i - 1] + sizes[i]
    <3>1. CASE i = n
      BY <2>3, <3>1
    <3>2. CASE i # n
      <4>1. i \in 0 .. n - 1 /\ (i # 0 => i - 1 \in 0 .. n - 1 /\ i - 1 # n)
        BY <2>3, <3>2
      <4>2. at[i] = IF i = 0 THEN 0 ELSE at[i - 1] + sizes[i]
        BY <2>2, <4>1
      <4> QED
        BY <3>2, <4>1, <4>2
    <3> QED
      BY <3>1, <3>2
  <2>6. Solves(next, n)
    BY <2>5
  <2> HIDE DEF next
  <2> QED
    BY <1>3, <2>4, <2>6
<1> QED
  BY <1>4, <1>5

LEMMA OffsetsStep ==
  ASSUME NEW sizes \in Seq(Int)
  PROVE  /\ Len(sizes) \in Nat /\ \A i \in 1 .. Len(sizes) : sizes[i] \in Int
         /\ Offsets(sizes) \in [0 .. Len(sizes) -> Int]
         /\ Offsets(sizes)[0] = 0
         /\ \A i \in 1 .. Len(sizes) : Offsets(sizes)[i] = Offsets(sizes)[i - 1] + sizes[i]
<1> DEFINE Solves(at) ==
             at = [i \in 0 .. Len(sizes) |-> IF i = 0 THEN 0 ELSE at[i - 1] + sizes[i]]
           at == CHOOSE g : Solves(g)
<1>1. Offsets(sizes) = at
  BY DEF Offsets
<1>2. PICK g \in [0 .. Len(sizes) -> Int] : Solves(g)
  BY OffsetsExist
<1>3. Solves(at)
  BY <1>2
<1> HIDE DEF at
<1>4. /\ DOMAIN at = 0 .. Len(sizes)
      /\ at[0] = 0
      /\ \A i \in 1 .. Len(sizes) : at[i] = at[i - 1] + sizes[i]
  <2>1. Len(sizes) \in Nat
    OBVIOUS
  <2>2. \A i \in 0 .. Len(sizes) : at[i] = IF i = 0 THEN 0 ELSE at[i - 1] + sizes[i]
    BY <1>3, Zenon
  <2>3. DOMAIN at = 0 .. Len(sizes)
    BY <1>3
  <2>4. 0 \in 0 .. Len(sizes) /\ \A i \in 1 .. Len(sizes) : i \in 0 .. Len(sizes) /\ i # 0
    BY <2>1
  <2> QED
    BY <2>2, <2>3, <2>4
<1>5. \A i \in 0 .. Len(sizes) : at[i] \in Int
  <2> DEFINE Bad == {i \in 0 .. Len(sizes) : at[i] \notin Int}
  <2>1. SUFFICES ASSUME Bad # {} PROVE FALSE
    OBVIOUS
  <2>2. PICK i \in Bad : \A k \in Bad : i <= k
    <3>1. Bad \in SUBSET Nat
      OBVIOUS
    <3> HIDE DEF Bad
    <3> QED
      BY <2>1, <3>1, LeastElement
  <2>3. i \in 1 .. Len(sizes) /\ at[i] \notin Int
    BY <1>4, <2>2
  <2>4. i - 1 \notin Bad
    <3> HIDE DEF Bad
    <3> QED
      BY <2>2, <2>3
  <2>5. at[i - 1] \in Int /\ sizes[i] \in Int
    BY <2>3, <2>4
  <2> QED
    BY <1>4, <2>3, <2>5
<1>6. at \in [0 .. Len(sizes) -> Int]
  <2>1. at = [i \in 0 .. Len(sizes) |-> at[i]]
    BY <1>3, <1>4
  <2> QED
    BY <1>5, <2>1
<1> QED
  BY <1>1, <1>4, <1>6

\* Two lists whose sizes differ by the steps of D have offsets that differ by
\* D.  Everything else that is said of offsets follows from it.
LEMMA OffsetsDiffer ==
  ASSUME NEW s \in Seq(Int), NEW t \in Seq(Int), NEW n \in Nat,
         n <= Len(s), n <= Len(t),
         NEW D \in [0 .. n -> Int], D[0] = 0,
         \A i \in 1 .. n : t[i] = s[i] + D[i] - D[i - 1]
  PROVE  \A i \in 0 .. n : Offsets(t)[i] = Offsets(s)[i] + D[i]
<1> DEFINE Bad == {i \in 0 .. n : Offsets(t)[i] # Offsets(s)[i] + D[i]}
<1>1. SUFFICES ASSUME Bad # {} PROVE FALSE
  OBVIOUS
<1>2. PICK i \in Bad : \A k \in Bad : i <= k
  <2>1. Bad \in SUBSET Nat
    OBVIOUS
  <2> HIDE DEF Bad
  <2> QED
    BY <1>1, <2>1, LeastElement
<1>3. \A u \in {s, t} :
        /\ Len(u) \in Nat /\ \A k \in 1 .. Len(u) : u[k] \in Int
        /\ Offsets(u) \in [0 .. Len(u) -> Int] /\ Offsets(u)[0] = 0
        /\ \A k \in 1 .. Len(u) : Offsets(u)[k] = Offsets(u)[k - 1] + u[k]
  <2> SUFFICES ASSUME NEW u \in Seq(Int)
               PROVE  /\ Len(u) \in Nat /\ \A k \in 1 .. Len(u) : u[k] \in Int
                      /\ Offsets(u) \in [0 .. Len(u) -> Int] /\ Offsets(u)[0] = 0
                      /\ \A k \in 1 .. Len(u) : Offsets(u)[k] = Offsets(u)[k - 1] + u[k]
    OBVIOUS
  <2> QED
    BY OffsetsStep
<1>4. i \in 1 .. n /\ Offsets(t)[i] # Offsets(s)[i] + D[i]
  BY <1>2, <1>3
<1>5. Offsets(t)[i - 1] = Offsets(s)[i - 1] + D[i - 1]
  <2>1. i - 1 \in 0 .. n /\ i - 1 \notin Bad
    <3> HIDE DEF Bad
    <3> QED
      BY <1>2, <1>4
  <2> QED
    BY <2>1
<1>6. /\ i \in 1 .. Len(s) /\ i \in 1 .. Len(t) /\ i - 1 \in 0 .. Len(s)
      /\ i - 1 \in 0 .. n /\ i \in 0 .. n
  BY <1>3, <1>4
<1> HIDE DEF Bad
<1>7. /\ Offsets(s)[i - 1] \in Int /\ D[i - 1] \in Int /\ D[i] \in Int
      /\ s[i] \in Int /\ t[i] = s[i] + D[i] - D[i - 1]
  BY <1>3, <1>4, <1>6
<1>8. Offsets(s)[i] = Offsets(s)[i - 1] + s[i] /\ Offsets(t)[i] = Offsets(t)[i - 1] + t[i]
  BY <1>3, <1>6
<1> DEFINE a == Offsets(s)[i - 1]
           d == D[i - 1]
           e == D[i]
           x == s[i]
<1>9. /\ a \in Int /\ d \in Int /\ e \in Int /\ x \in Int
      /\ Offsets(t)[i] = (a + d) + (x + e - d) /\ Offsets(s)[i] + D[i] = (a + x) + e
  BY <1>5, <1>7, <1>8
<1> HIDE DEF a, d, e, x
<1>10. (a + d) + (x + e - d) = (a + x) + e
  BY <1>9
<1> QED
  BY <1>4, <1>9, <1>10

\* The offsets of the first things do not depend on those after them.
LEMMA OffsetsAgree ==
  ASSUME NEW s \in Seq(Int), NEW t \in Seq(Int), NEW n \in Nat,
         n <= Len(s), n <= Len(t), \A i \in 1 .. n : t[i] = s[i]
  PROVE  \A i \in 0 .. n : Offsets(t)[i] = Offsets(s)[i]
<1> DEFINE D == [i \in 0 .. n |-> 0]
<1>1. D \in [0 .. n -> Int] /\ D[0] = 0
      /\ \A i \in 1 .. n : s[i] \in Int /\ t[i] = s[i] + D[i] - D[i - 1]
  OBVIOUS
<1>2. \A i \in 0 .. n : Offsets(t)[i] = Offsets(s)[i] + D[i]
  <2> HIDE DEF D
  <2> QED
    BY <1>1, OffsetsDiffer
<1>3. \A i \in 0 .. n : Offsets(s)[i] \in Int
  <2>1. Offsets(s) \in [0 .. Len(s) -> Int] /\ Len(s) \in Nat
    BY OffsetsStep
  <2>2. \A i \in 0 .. n : i \in 0 .. Len(s)
    BY <2>1
  <2> QED
    BY <2>1, <2>2
<1> QED
  BY <1>2, <1>3

\* One thing more is put at the end of the others.
LEMMA TotalAppend ==
  ASSUME NEW s \in Seq(Int), NEW x \in Int
  PROVE  /\ \A i \in 0 .. Len(s) : Offsets(Append(s, x))[i] = Offsets(s)[i]
         /\ Total(Append(s, x)) = Total(s) + x
         /\ Total(s) \in Int
<1> DEFINE t == Append(s, x)
<1>1. /\ t \in Seq(Int) /\ Len(s) \in Nat /\ Len(t) = Len(s) + 1 /\ t[Len(t)] = x
      /\ \A i \in 1 .. Len(s) : t[i] = s[i]
  OBVIOUS
<1> HIDE DEF t
<1> DEFINE n == Len(s)
<1>2. \A i \in 0 .. n : Offsets(t)[i] = Offsets(s)[i]
  <2>1. n \in Nat /\ n <= Len(s) /\ n <= Len(t) /\ \A i \in 1 .. n : t[i] = s[i]
    BY <1>1
  <2> HIDE DEF n
  <2> QED
    BY <1>1, <2>1, OffsetsAgree
<1>3. Offsets(t)[Len(s) + 1] = Offsets(t)[Len(s)] + x
  <2>1. \A i \in 1 .. Len(t) : Offsets(t)[i] = Offsets(t)[i - 1] + t[i]
    BY <1>1, OffsetsStep
  <2>2. Len(t) \in 1 .. Len(t) /\ Len(t) - 1 = Len(s)
    BY <1>1
  <2> QED
    BY <1>1, <2>1, <2>2
<1>4. Offsets(s)[Len(s)] \in Int
  <2>1. Offsets(s) \in [0 .. Len(s) -> Int]
    BY OffsetsStep
  <2> QED
    BY <1>1, <2>1
<1> QED
  BY <1>1, <1>2, <1>3, <1>4 DEF Total, t

\* One thing is replaced with another.
LEMMA TotalReplace ==
  ASSUME NEW s \in Seq(Int), NEW t \in Seq(Int), NEW j \in 1 .. Len(s),
         Len(t) = Len(s), \A i \in 1 .. Len(s) : i # j => t[i] = s[i]
  PROVE  Total(t) = Total(s) - s[j] + t[j]
<1> DEFINE D == [i \in 0 .. Len(s) |-> IF i < j THEN 0 ELSE t[j] - s[j]]
<1>1. Len(s) \in Nat /\ s[j] \in Int /\ t[j] \in Int
      /\ \A i \in 1 .. Len(s) : s[i] \in Int
  OBVIOUS
<1>2. D \in [0 .. Len(s) -> Int] /\ D[0] = 0 /\ D[Len(s)] = t[j] - s[j]
  BY <1>1
<1>3. ASSUME NEW i \in 1 .. Len(s)
      PROVE  t[i] = s[i] + D[i] - D[i - 1]
  <2>1. CASE i = j
    BY <1>1, <2>1
  <2>2. CASE i # j
    BY <1>1, <2>2
  <2> QED
    BY <2>1, <2>2
<1> HIDE DEF D
<1> DEFINE n == Len(s)
<1>4. \A i \in 0 .. n : Offsets(t)[i] = Offsets(s)[i] + D[i]
  <2>1. n \in Nat /\ n <= Len(s) /\ n <= Len(t) /\ D \in [0 .. n -> Int]
        /\ \A i \in 1 .. n : t[i] = s[i] + D[i] - D[i - 1]
    BY <1>1, <1>2, <1>3
  <2> HIDE DEF n
  <2> QED
    BY <1>2, <2>1, OffsetsDiffer
<1>5. Offsets(s)[Len(s)] \in Int
  <2>1. Offsets(s) \in [0 .. Len(s) -> Int]
    BY OffsetsStep
  <2> QED
    BY <1>1, <2>1
<1>6. Offsets(t)[Len(s)] = Offsets(s)[Len(s)] + D[Len(s)]
  BY <1>1, <1>4
<1> QED
  BY <1>1, <1>2, <1>5, <1>6 DEF Total
=============================================================================
