-------------------------- MODULE ReassemblyProofs --------------------------
(***************************************************************************)
(* Reassembly for every record length, first fragment, room, pattern of    *)
(* loss and duplication, and outcome of realloc.                           *)
(***************************************************************************)
EXTENDS Reassembly, Lemmas, SequenceTheorems

AllBlocks == 0 .. Blocks(size) - 1
Opened == DOMAIN block_markers # {}

\* The handler is somewhere in the loop that makes room, or past it.
Copying == pc \in {"copy", "grow"}

\* Every fragment anywhere is one of this record.
FragmentsFit ==
  /\ \A f \in InFlight : FragmentOf(f, size)
  /\ Copying => FragmentOf(arrived, size)

\* block_markers is allocated with the first fragment, for all blocks.
MarkersFit ==
  \/ /\ ~Opened /\ pc = "idle"
     /\ blocks_received = 0
  \/ /\ Opened
     /\ DOMAIN block_markers = AllBlocks
     /\ expected_blocks = Blocks(size)
     /\ rrsize = size

\* blocks_received counts the received blocks.
CountAgrees == blocks_received = Cardinality(Received(block_markers))

\* is_complete is set when the counts agree, and then only.
CompleteByCount == is_complete <=> Opened /\ blocks_received = expected_blocks

\* The sanity check has been passed when the copy begins.
CopyIsNew == Copying => Span(arrived) \cap Received(block_markers) = {}

\* No block of a fragment in flight is free, once the first fragment has been
\* stored; until then all blocks are free, and only copies of that fragment
\* exist.  The free blocks are a tail because the first fragment is a prefix.
NoneAskedTwice ==
  \/ /\ ~Opened
     /\ \A f \in InFlight : f.curidx = 0 /\ \A g \in InFlight : f = g
  \/ /\ Opened /\ Copying
     /\ Free(block_markers) = AllBlocks
     /\ arrived.curidx = 0 /\ \A f \in InFlight : f = arrived
  \/ /\ Opened
     /\ FreeIsTail
     /\ \A f \in InFlight : Span(f) \cap Free(block_markers) = {}
     /\ Copying => Span(arrived) \cap Free(block_markers) = {}

\* The array of headers is freed when the record is put together.
HeadersFreed == is_complete => "headers" \notin live

Inv ==
  /\ TypeOK
  /\ FragmentsFit
  /\ MarkersFit
  /\ CountAgrees
  /\ CompleteByCount
  /\ CopyIsNew
  /\ NoneAskedTwice
  /\ HeadersFreed
-----------------------------------------------------------------------------
\* The markers received are blocks of the record, finitely many.
LEMMA ReceivedFinite ==
  ASSUME TypeOK, MarkersFit
  PROVE  /\ IsFiniteSet(Received(block_markers))
         /\ Received(block_markers) \subseteq AllBlocks
         /\ Cardinality(Received(block_markers)) \in Nat
<1>1. Blocks(size) \in Nat \ {0}
  BY ReassemblyAssumption, BlocksOfRecord DEF TypeOK
<1>2. Received(block_markers) \subseteq AllBlocks
  BY DEF Received, MarkersFit, Opened
<1>3. IsFiniteSet(AllBlocks)
  BY <1>1, IntervalSize DEF AllBlocks
<1> QED
  BY <1>2, <1>3, FS_Subset, FS_CardinalityType

\* When the number of received blocks is the number of blocks, all of them
\* have been received.
LEMMA FullByCount ==
  ASSUME TypeOK, MarkersFit
  PROVE  Cardinality(Received(block_markers)) = Blocks(size)
            <=> Received(block_markers) = AllBlocks
<1>1. Blocks(size) \in Nat \ {0}
  BY ReassemblyAssumption, BlocksOfRecord DEF TypeOK
<1>2. IsFiniteSet(AllBlocks) /\ Cardinality(AllBlocks) = Blocks(size)
  BY <1>1, IntervalSize DEF AllBlocks
<1> QED
  BY <1>2, ReceivedFinite, FS_Subset

\* Before the first fragment nothing is allocated, marked or counted.
LEMMA InitInv == Init => Inv
<1> SUFFICES ASSUME Init PROVE Inv
  OBVIOUS
<1> USE DEF Init
<1>1. size \in Nat \ {0}
  BY ReassemblyAssumption
<1>2. \A f \in FirstFragments(size) : FragmentOf(f, size)
  BY <1>1, ReassemblyAssumption
     DEF FirstFragments, FragmentOf, Fragment, BLOCKSIZE
<1>3. TypeOK
  <2>1. block_markers \in [DOMAIN block_markers -> Marker]
    OBVIOUS
  <2>2. responses \subseteq Fragment
    BY <1>2 DEF FragmentOf
  <2>3. arrived \in Fragment
    BY DEF NoFragment, Fragment
  <2>4. bytes \in Seq(Int) /\ headers \in Seq([frag_start : Nat, frag_size : Nat])
    OBVIOUS
  <2> QED
    BY <2>1, <2>2, <2>3, <2>4 DEF TypeOK
<1>4. FragmentsFit
  BY <1>2 DEF FragmentsFit, InFlight, Copying
<1>5. Received(block_markers) = {} /\ ~Opened
  BY DEF Received, Opened
<1>6. CountAgrees
  BY <1>5, FS_EmptySet DEF CountAgrees
<1>7. NoneAskedTwice
  <2>1. \A f \in FirstFragments(size) : f.curidx = 0
    BY DEF FirstFragments
  <2> QED
    BY <2>1, <1>5 DEF NoneAskedTwice, InFlight
<1> QED
  BY <1>3, <1>4, <1>5, <1>6, <1>7 DEF Inv, MarkersFit, CompleteByCount, CopyIsNew, HeadersFreed
-----------------------------------------------------------------------------
\* No record is empty (it has a header at least), so it has a block.
LEMMA SizeIsPositive == TypeOK => size \in Nat \ {0}
  BY ReassemblyAssumption DEF TypeOK

\* copy_section up to its sanity check: markers are allocated for the first
\* fragment, and a fragment that passes fills new blocks only.
LEMMA ArriveInv ==
  ASSUME Inv, NEW f \in responses, Arrive(f)
  PROVE  Inv'
<1> DEFINE found == IF DOMAIN block_markers = {} THEN FreshMarkers(f.rrsize)
                                                ELSE block_markers
<1>1. FragmentOf(f, size) /\ size \in Nat \ {0}
  BY SizeIsPositive DEF Inv, FragmentsFit, InFlight
<1>2. f \in Fragment /\ f.rrsize = size
  BY <1>1 DEF FragmentOf
<1>3. /\ found \in [AllBlocks -> Marker]
      /\ DOMAIN found = AllBlocks
      /\ AllBlocks # {}
      /\ Received(found) = Received(block_markers)
  <2>1. CASE Opened
    BY <2>1 DEF Inv, MarkersFit, Opened, TypeOK
  <2>2. CASE ~Opened
    <3>1. Received(block_markers) = {}
      BY <2>2 DEF Opened, Received
    <3> QED
      BY <1>1, <1>2, <2>2, <3>1, FreshMarkersFree DEF Opened, AllBlocks
  <2> QED
    BY <2>1, <2>2
<1>4. block_markers' = found /\ size' = size
  BY DEF Arrive, record
<1>5. TypeOK'
  <2>1. responses' \subseteq Fragment
    BY DEF Inv, TypeOK, Arrive, Delivered
  <2>2. block_markers' \in [DOMAIN block_markers' -> Marker]
    BY <1>3, <1>4
  <2>3. expected_blocks' \in Nat
    BY <1>1, <1>2, BlocksOfRecord DEF Inv, TypeOK, Arrive
  <2>4. arrived' \in Fragment
    BY <1>2 DEF Inv, TypeOK, Arrive
  <2>5. rrsize' \in Nat /\ bytes_capacity' \in Nat
    BY <1>2 DEF Inv, TypeOK, Arrive, Fragment
  <2>6. /\ headers_capacity' \in Nat
        /\ live' \subseteq {"bytes", "headers"}
        /\ pc' \in {"idle", "copy", "grow", "pack"}
        /\ status' \in {"running", "aborted", "undefined"}
    BY DEF Inv, TypeOK, Arrive
  <2>7. /\ size' \in RRSIZES /\ requests' \subseteq Fragment
        /\ blocks_received' \in Nat /\ bytes' \in Seq(Int)
        /\ headers' \in Seq([frag_start : Nat, frag_size : Nat])
        /\ is_complete' \in BOOLEAN
    BY DEF Inv, TypeOK, Arrive, record
  <2>8. twice' \in BOOLEAN
    <3>1. twice' = (twice \/ f \in responses')
      BY DEF Arrive, Noting
    <3> QED
      BY <3>1
  <2> QED
    BY <2>1, <2>2, <2>3, <2>4, <2>5, <2>6, <2>7, <2>8 DEF TypeOK
<1>6. FragmentsFit'
  <2>1. InFlight' \subseteq InFlight
    BY DEF Arrive, Delivered, InFlight
  <2>2. Copying' => arrived' = f
    BY DEF Arrive, Copying
  <2> QED
    BY <1>1, <1>4, <2>1, <2>2 DEF FragmentsFit, Inv
<1>7. MarkersFit' /\ Opened'
  <2>1. /\ expected_blocks' = IF DOMAIN block_markers = {} THEN Blocks(f.rrsize)
                              ELSE expected_blocks
        /\ rrsize' = IF DOMAIN block_markers = {} THEN f.rrsize ELSE rrsize
    BY DEF Arrive
  <2> QED
    BY <1>2, <1>3, <1>4, <2>1 DEF MarkersFit, Opened, Inv, AllBlocks
<1>8. CountAgrees'
  BY <1>3, <1>4 DEF CountAgrees, Inv, Arrive
<1>9. CompleteByCount'
  <2>1. is_complete' = is_complete /\ blocks_received' = blocks_received
    BY DEF Arrive
  <2>2. CASE Opened
    BY <2>1, <2>2, <1>7 DEF CompleteByCount, Inv, Arrive, Opened
  <2>3. CASE ~Opened
    <3>1. blocks_received = 0 /\ ~is_complete
      BY <2>3 DEF Inv, MarkersFit, CompleteByCount
    <3>2. expected_blocks' \in Nat \ {0}
      BY <2>3, <1>1, <1>2, BlocksOfRecord DEF Arrive, Opened
    <3> QED
      BY <2>1, <3>1, <3>2 DEF CompleteByCount
  <2> QED
    BY <2>2, <2>3
<1>10. CopyIsNew'
  <2>1. Copying' => ~Overwrites(found, f) /\ arrived' = f
    BY DEF Arrive, Copying
  <2>2. ~Overwrites(found, f) => Span(f) \cap Received(found) = {}
    BY DEF Overwrites, Received
  <2> QED
    BY <1>4, <2>1, <2>2 DEF CopyIsNew
<1>11. NoneAskedTwice'
  <2>1. InFlight' \subseteq InFlight /\ f \in InFlight
    BY DEF Arrive, Delivered, InFlight
  <2>2. \/ pc' = "copy" /\ arrived' = f
        \/ pc' = "idle" /\ Overwrites(found, f)
    BY DEF Arrive
  <2>3. AllBlocks' = AllBlocks
    BY <1>4 DEF AllBlocks
  <2>4. CASE ~Opened
    <3>1. found = FreshMarkers(size)
      BY <2>4, <1>2 DEF Opened
    <3>2. Free(found) = AllBlocks /\ Received(found) = {}
      BY <1>1, <3>1, FreshMarkersFree DEF AllBlocks
    <3>3. ~Overwrites(found, f)
      <4>1. Span(f) \subseteq DOMAIN found
        BY <1>1, <1>3, SpanInRecord DEF AllBlocks
      <4> QED
        BY <4>1, <3>2 DEF Overwrites, Received
    <3>4. f.curidx = 0 /\ \A g \in InFlight : g = f
      BY <2>1, <2>4 DEF Inv, NoneAskedTwice
    <3> QED
      BY <1>4, <1>7, <2>1, <2>2, <2>3, <3>2, <3>3, <3>4 DEF NoneAskedTwice, Copying
  <2>5. CASE Opened
    <3>1. block_markers' = block_markers
      BY <2>5, <1>4 DEF Opened
    <3>2. ~Copying
      BY DEF Arrive, Copying
    <3>3. /\ FreeIsTail
          /\ \A g \in InFlight : Span(g) \cap Free(block_markers) = {}
      BY <2>5, <3>2 DEF Inv, NoneAskedTwice
    <3> QED
      BY <1>7, <2>1, <2>2, <3>1, <3>3 DEF NoneAskedTwice, FreeIsTail, Copying
  <2> QED
    BY <2>4, <2>5
<1>12. HeadersFreed'
  BY DEF Arrive, Inv, HeadersFreed, CompleteByCount, Opened
<1> QED
  BY <1>5, <1>6, <1>7, <1>8, <1>9, <1>10, <1>11, <1>12 DEF Inv

\* Steps that touch neither the markers nor the counts.
LEMMA FrameInv ==
  ASSUME Inv, TypeOK',
         UNCHANGED <<size, markers, is_complete, arrived>>,
         InFlight' \subseteq InFlight, live' \subseteq live,
         pc' = pc \/ (Opened /\ Copying' = Copying)
  PROVE  Inv'
<1>1. /\ Received(block_markers)' = Received(block_markers)
      /\ Free(block_markers)' = Free(block_markers)
      /\ AllBlocks' = AllBlocks /\ Opened' = Opened
  BY DEF markers, AllBlocks, Opened
<1>2. FragmentsFit'
  BY DEF Inv, FragmentsFit, Copying
<1>3. MarkersFit'
  BY <1>1 DEF Inv, MarkersFit, markers
<1>4. CountAgrees' /\ CompleteByCount' /\ CopyIsNew'
  BY <1>1 DEF Inv, CountAgrees, CompleteByCount, CopyIsNew, markers, Copying
<1>5. NoneAskedTwice'
  BY <1>1 DEF Inv, NoneAskedTwice, FreeIsTail, markers, Copying
<1>6. HeadersFreed'
  BY DEF Inv, HeadersFreed
<1> QED
  BY <1>2, <1>3, <1>4, <1>5, <1>6 DEF Inv

\* The blocks of the fragment being copied are new blocks of the record, and
\* copying adds their number to the count.
LEMMA CopyCount ==
  ASSUME Inv, pc = "copy"
  PROVE  /\ Opened
         /\ Span(arrived) \subseteq AllBlocks
         /\ LET got == Received(block_markers) \cup Span(arrived)
                count == blocks_received + LastBlockIdx(arrived) - BlockIdx(arrived)
            IN  /\ count = Cardinality(got)
                /\ count \in Nat
<1> DEFINE old == Received(block_markers)
           new == Span(arrived)
<1>1. FragmentOf(arrived, size) /\ size \in Nat \ {0}
  BY SizeIsPositive DEF Inv, FragmentsFit, Copying
<1>2. Opened
  BY DEF Inv, MarkersFit
<1>3. new \subseteq AllBlocks /\ BlockIdx(arrived) \in Nat /\ LastBlockIdx(arrived) \in Nat
  BY <1>1, SpanInRecord DEF AllBlocks
<1>4. IsFiniteSet(new) /\ Cardinality(new) = LastBlockIdx(arrived) - BlockIdx(arrived)
  BY <1>1, SpanSize
<1>5. IsFiniteSet(old) /\ Cardinality(old) \in Nat /\ blocks_received = Cardinality(old)
  BY ReceivedFinite DEF Inv, CountAgrees
<1>6. new \cap old = {}
  BY DEF Inv, CopyIsNew, Copying
<1> HIDE DEF old, new
<1>7. /\ IsFiniteSet(old \cup new)
      /\ Cardinality(old \cup new) = Cardinality(old) + Cardinality(new)
  <2>1. Cardinality(old \cap new) = 0
    BY <1>6, FS_EmptySet
  <2>2. Cardinality(new) \in Nat
    BY <1>4, FS_CardinalityType
  <2>3. /\ IsFiniteSet(old \cup new)
        /\ Cardinality(old \cup new) =
             Cardinality(old) + Cardinality(new) - Cardinality(old \cap new)
    BY <1>4, <1>5, FS_Union, Zenon
  <2> QED
    BY <1>5, <2>1, <2>2, <2>3
<1>8. Cardinality(old \cup new) \in Nat
  BY <1>7, FS_CardinalityType
<1>9. blocks_received + LastBlockIdx(arrived) - BlockIdx(arrived)
        = Cardinality(old \cup new)
  BY <1>3, <1>4, <1>5, <1>7
<1> QED
  BY <1>2, <1>3, <1>8, <1>9 DEF old, new

\* A fragment of a complete record is never stored: its header would go
\* through the freed array.
LEMMA StoreNotComplete ==
  ASSUME Inv, Store, status' # "undefined"
  PROVE  ~is_complete
  BY DEF Inv, HeadersFreed, Store

\* What one successful copy does to the markers and the count.
LEMMA StoreEffect ==
  ASSUME Inv, Store, status' # "undefined"
  PROVE  /\ Received(block_markers)' = Received(block_markers) \cup Span(arrived)
         /\ block_markers' \in [AllBlocks -> Marker]
         /\ blocks_received' =
              blocks_received + LastBlockIdx(arrived) - BlockIdx(arrived)
         /\ is_complete' = (is_complete \/ blocks_received' = expected_blocks)
         /\ Free(block_markers)' = Free(block_markers) \ Span(arrived)
         /\ UNCHANGED <<size, network, expected_blocks, rrsize, arrived, status>>
         /\ pc' = "pack"
<1>1. Opened /\ Span(arrived) \subseteq AllBlocks
  BY CopyCount DEF Store
<1>2. block_markers \in [AllBlocks -> Marker]
  BY <1>1 DEF Inv, TypeOK, MarkersFit
<1>3. block_markers' = Mark(block_markers, Span(arrived), BLOCKRECVD)
  BY DEF Store
<1>4. Received(block_markers') = Received(block_markers) \cup Span(arrived)
      /\ block_markers' \in [AllBlocks -> Marker]
      /\ Free(block_markers') = Free(block_markers) \ Span(arrived)
  BY <1>1, <1>2, <1>3, MarkReceived
<1> QED
  BY <1>4 DEF Store, record

\* Putting fragments in order yields a sequence of as many bytes.
LEMMA ScatterType ==
  ASSUME NEW unsorted \in Seq(Int), NEW frags
  PROVE  Scatter(unsorted, frags) \in Seq(Int)
<1>1. Len(unsorted) \in Nat /\ DOMAIN unsorted = 1 .. Len(unsorted)
      /\ \A k \in 1 .. Len(unsorted) : unsorted[k] \in Int
  OBVIOUS
<1>2. Scatter(unsorted, frags) \in [1 .. Len(unsorted) -> Int]
  BY <1>1 DEF Scatter, Junk
<1> QED
  BY <1>1, <1>2

\* The rest of copy_section: blocks marked, counted, the record put together.
LEMMA StoreInv ==
  ASSUME Inv, Store
  PROVE  Inv'
<1>1. CASE status' = "undefined"
  <2>1. /\ UNCHANGED <<size, network, markers, is_complete, arrived, pc>>
        /\ UNCHANGED <<bytes, bytes_capacity, headers, headers_capacity>>
        /\ live' \subseteq live
    BY <1>1 DEF Store, record, Running
  <2>2. TypeOK'
    BY <1>1, <2>1 DEF Inv, TypeOK, network, markers
  <2>3. InFlight' \subseteq InFlight
    BY <2>1 DEF InFlight, network
  <2> QED
    BY <2>1, <2>2, <2>3, FrameInv DEF markers
<1>2. CASE status' # "undefined"
  <2> DEFINE got == Received(block_markers) \cup Span(arrived)
             count == blocks_received + LastBlockIdx(arrived) - BlockIdx(arrived)
  <2>1. /\ Received(block_markers)' = got
        /\ block_markers' \in [AllBlocks -> Marker]
        /\ blocks_received' = count
        /\ is_complete' = (is_complete \/ count = expected_blocks)
        /\ UNCHANGED <<size, network, expected_blocks, rrsize, arrived, status>>
        /\ pc' = "pack"
    BY <1>2, StoreEffect
  <2>2. /\ Opened /\ Span(arrived) \subseteq AllBlocks
        /\ count = Cardinality(got) /\ count \in Nat
    BY CopyCount DEF Store
  <2>3. DOMAIN block_markers = AllBlocks /\ DOMAIN block_markers' = AllBlocks
        /\ AllBlocks' = AllBlocks
    BY <2>1, <2>2 DEF Inv, MarkersFit, AllBlocks
  <2>4. TypeOK'
    <3>1. Data(arrived) \in Seq(Int)
      <4>1. arrived.curidx \in Nat /\ arrived.fragsize \in Nat
        BY DEF Inv, TypeOK, Fragment
      <4> QED
        BY <4>1 DEF Data
    <3>2. bytes \o Data(arrived) \in Seq(Int)
      BY <3>1 DEF Inv, TypeOK
    <3>3. bytes' \in Seq(Int)
      <4>1. \E frags : bytes' \in {bytes \o Data(arrived),
                                   Scatter(bytes \o Data(arrived), frags)}
        BY <1>2 DEF Store
      <4> QED
        BY <4>1, <3>2, ScatterType
    <3>4. headers' \in Seq([frag_start : Nat, frag_size : Nat])
      <4>1. headers' = Append(headers, [frag_start |-> arrived.curidx,
                                        frag_size |-> arrived.fragsize])
        BY <1>2 DEF Store
      <4>2. [frag_start |-> arrived.curidx, frag_size |-> arrived.fragsize]
              \in [frag_start : Nat, frag_size : Nat]
        BY DEF Inv, TypeOK, Fragment
      <4> QED
        BY <4>1, <4>2 DEF Inv, TypeOK
    <3>5. headers_capacity' \in Nat /\ bytes_capacity' \in Nat
          /\ live' \subseteq {"bytes", "headers"}
      BY <1>2 DEF Store, Inv, TypeOK
    <3>6. block_markers' \in [DOMAIN block_markers' -> Marker]
      BY <2>1, <2>3
    <3>7. is_complete' \in BOOLEAN
      BY <2>1 DEF Inv, TypeOK
    <3>8. blocks_received' \in Nat
      BY <2>1, <2>2
    <3> QED
      BY <2>1, <3>3, <3>4, <3>5, <3>6, <3>7, <3>8 DEF Inv, TypeOK, network
  <2>5. FragmentsFit'
    BY <2>1 DEF Inv, FragmentsFit, InFlight, network, Copying
  <2>6. MarkersFit' /\ Opened'
    BY <2>1, <2>2, <2>3 DEF Inv, MarkersFit, Opened
  <2>7. CountAgrees'
    BY <2>1, <2>2 DEF CountAgrees
  <2>8. CompleteByCount'
    BY <1>2, <2>1, <2>6, StoreNotComplete DEF CompleteByCount
  <2>9. CopyIsNew'
    BY <2>1 DEF CopyIsNew, Copying
  <2>10. NoneAskedTwice'
    <3>1. Free(block_markers)' = Free(block_markers) \ Span(arrived)
      BY <1>2, StoreEffect
    <3>2. InFlight' = InFlight
      BY <2>1 DEF InFlight, network
    <3>3. CASE /\ Free(block_markers) = AllBlocks
               /\ arrived.curidx = 0 /\ \A f \in InFlight : f = arrived
      <4>1. FragmentOf(arrived, size) /\ size \in Nat \ {0}
        BY SizeIsPositive DEF Inv, FragmentsFit, Store, Copying
      <4>2. BlockIdx(arrived) = 0 /\ LastBlockIdx(arrived) \in Nat
        BY <4>1, <3>3, SpanInRecord DEF BlockIdx, BLOCKSIZE
      <4>3. Blocks(size) \in Nat
        BY <4>1, BlocksOfRecord
      <4>4. \A j \in AllBlocks \ Span(arrived), k \in AllBlocks :
               j < k => k \in AllBlocks \ Span(arrived)
        BY <4>2, <4>3 DEF AllBlocks, Span
      <4>5. FreeIsTail'
        BY <2>3, <3>1, <3>3, <4>4 DEF FreeIsTail
      <4> QED
        BY <2>1, <2>6, <3>1, <3>2, <3>3, <4>5 DEF NoneAskedTwice
    <3>4. CASE /\ FreeIsTail
               /\ \A f \in InFlight : Span(f) \cap Free(block_markers) = {}
               /\ Span(arrived) \cap Free(block_markers) = {}
      <4>1. Free(block_markers)' = Free(block_markers)
        BY <3>1, <3>4
      <4>2. FreeIsTail'
        BY <2>2, <2>3, <3>4, <4>1 DEF FreeIsTail
      <4> QED
        BY <2>1, <2>6, <3>2, <3>4, <4>1, <4>2 DEF NoneAskedTwice
    <3> QED
      BY <2>2, <3>3, <3>4 DEF Inv, NoneAskedTwice, Store, Copying
  <2>11. HeadersFreed'
    <3>1. ~is_complete
      BY <1>2, StoreNotComplete
    <3>2. is_complete' => live' = {"bytes"}
      BY <1>2, <3>1 DEF Store
    <3> QED
      BY <3>2 DEF HeadersFreed
  <2> QED
    BY <2>4, <2>5, <2>6, <2>7, <2>8, <2>9, <2>10, <2>11 DEF Inv
<1> QED
  BY <1>1, <1>2

\* pack_section marks as awaited only blocks that were free.
LEMMA PackInv ==
  ASSUME Inv, NEW canfit \in ROOM, Pack(canfit)
  PROVE  Inv'
<1>1. CASE UNCHANGED <<requests, block_markers>>
  <2>1. UNCHANGED <<size, markers, is_complete, arrived>>
        /\ pc = "pack" /\ pc' = "idle" /\ Opened
    BY <1>1 DEF Pack, record, markers, Inv, MarkersFit
  <2>2. TypeOK'
    BY <1>1 DEF Pack, Inv, TypeOK, record, buffers
  <2>3. InFlight' \subseteq InFlight /\ live' \subseteq live
    BY <1>1 DEF Pack, InFlight, buffers
  <2> QED
    BY <2>1, <2>2, <2>3, FrameInv DEF Copying
<1>2. CASE ~UNCHANGED <<requests, block_markers>>
  <2> DEFINE f == AskedFragment(block_markers, rrsize, canfit)
             span == AskedSpan(block_markers, canfit)
  <2>1. /\ Free(block_markers) # {}
        /\ requests' = requests \cup {f}
        /\ block_markers' = Mark(block_markers, span, BLOCKWAITING)
    BY <1>2 DEF Pack
  <2>2. /\ UNCHANGED <<size, responses, twice, expected_blocks, blocks_received,
                       rrsize, buffers, is_complete, arrived, status>>
        /\ pc' = "idle"
    BY DEF Pack, record
  <2>3. Opened /\ DOMAIN block_markers = AllBlocks /\ rrsize = size
    BY <2>1 DEF Inv, MarkersFit, Opened, Free
  <2>4. size \in Nat \ {0} /\ block_markers \in [AllBlocks -> Marker]
        /\ canfit \in Nat
    BY <2>3, SizeIsPositive, ReassemblyAssumption DEF Inv, TypeOK
  <2>5. FragmentOf(f, size) /\ Span(f) \subseteq span
    BY <2>1, <2>3, <2>4, AskedIsFragment DEF AllBlocks
  <2>6. /\ FreeIsTail
         /\ \A g \in InFlight : Span(g) \cap Free(block_markers) = {}
    BY <2>3 DEF Inv, NoneAskedTwice, Pack, Copying
  <2>7. /\ span \subseteq Free(block_markers)
         /\ \A j \in Free(block_markers) \ span, k \in AllBlocks :
               j < k => k \in Free(block_markers) \ span
    BY <2>1, <2>3, <2>4, <2>6, AskedSpanFree DEF FreeIsTail, AllBlocks
  <2>8. /\ block_markers' \in [AllBlocks -> Marker]
        /\ DOMAIN block_markers' = AllBlocks
        /\ Received(block_markers') = Received(block_markers)
        /\ Free(block_markers') = Free(block_markers) \ span
    BY <2>1, <2>4, <2>7, MarkWaiting
  <2>9. TypeOK'
    BY <2>1, <2>2, <2>5, <2>8 DEF Inv, TypeOK, buffers, FragmentOf
  <2>10. FragmentsFit'
    BY <2>1, <2>2, <2>5 DEF Inv, FragmentsFit, InFlight, Copying
  <2>11. MarkersFit' /\ Opened'
    BY <2>2, <2>3, <2>8 DEF Inv, MarkersFit, Opened, AllBlocks
  <2>12. CountAgrees' /\ CompleteByCount' /\ CopyIsNew'
    BY <2>2, <2>3, <2>8, <2>11 DEF Inv, CountAgrees, CompleteByCount, CopyIsNew, Copying
  <2>13. NoneAskedTwice'
    <3>1. FreeIsTail'
      BY <2>3, <2>8, <2>7 DEF FreeIsTail
    <3>2. \A g \in InFlight' : g \in InFlight \/ g = f
      BY <2>1, <2>2 DEF InFlight
    <3>3. \A g \in InFlight' : Span(g) \cap Free(block_markers)' = {}
      BY <2>5, <2>8, <2>6, <3>2
    <3> QED
      BY <2>2, <2>11, <3>1, <3>3 DEF NoneAskedTwice, Copying
  <2>14. HeadersFreed'
    BY <2>2 DEF Inv, HeadersFreed, buffers
  <2> QED
    BY <2>9, <2>10, <2>11, <2>12, <2>13, <2>14 DEF Inv
<1> QED
  BY <1>1, <1>2

\* The other steps: a fragment dropped, a turn of the growing loop, another
\* record's fragment, an answer, a loss.
LEMMA OtherInv ==
  ASSUME Inv,
         \/ \E f \in responses : Discard(f)
         \/ Full \/ Grow \/ OtherArrives
         \/ \E f \in requests : Serve(f)
         \/ Lose
  PROVE  Inv'
<1>1. ASSUME NEW f \in responses, Discard(f) PROVE Inv'
  <2>1. TypeOK'
    BY <1>1 DEF Discard, Inv, TypeOK, record, markers, buffers, handler
  <2>2. InFlight' \subseteq InFlight /\ live' \subseteq live
    BY <1>1 DEF buffers, Discard, InFlight
  <2> QED
    BY <1>1, <2>1, <2>2, FrameInv DEF Discard, record, handler
<1>2. CASE Full \/ Grow
  <2>1. 2 * bytes_capacity \in Nat
    BY DEF Inv, TypeOK
  <2>2. TypeOK'
    <3>1. CASE Full
      BY <3>1 DEF Full, Inv, TypeOK, record, network, markers, buffers
    <3>2. CASE Grow
      BY <2>1, <3>2 DEF Grow, Inv, TypeOK, record, network, markers
    <3> QED
      BY <1>2, <3>1, <3>2
  <2>3. /\ InFlight' \subseteq InFlight /\ live' \subseteq live
        /\ UNCHANGED <<size, markers, is_complete, arrived>>
        /\ Copying /\ Copying'
    BY <1>2 DEF buffers, Full, Grow, InFlight, network, record, Copying
  <2>4. Opened
    BY <2>3 DEF Inv, MarkersFit, Copying
  <2> QED
    BY <2>2, <2>3, <2>4, FrameInv
<1>3. CASE OtherArrives
  <2>1. TypeOK'
    BY <1>3 DEF OtherArrives, Inv, TypeOK, record, network, markers, buffers
  <2>2. InFlight' \subseteq InFlight /\ live' \subseteq live
    BY <1>3 DEF buffers, OtherArrives, InFlight, network
  <2> QED
    BY <1>3, <2>1, <2>2, FrameInv DEF OtherArrives, record, Opened, Copying
<1>4. ASSUME NEW f \in requests, Serve(f) PROVE Inv'
  <2>1. TypeOK'
    <3>1. twice' \in BOOLEAN
      BY <1>4 DEF Serve, Noting
    <3> QED
      BY <1>4, <3>1
         DEF Serve, Delivered, Inv, TypeOK, record, markers, buffers, handler
  <2>2. InFlight' \subseteq InFlight /\ live' \subseteq live
    BY <1>4 DEF buffers, Serve, Delivered, InFlight
  <2> QED
    BY <1>4, <2>1, <2>2, FrameInv DEF Serve, record, handler
<1>5. CASE Lose
  <2>1. TypeOK'
    BY <1>5 DEF Lose, Inv, TypeOK, record, markers, buffers, handler
  <2>2. InFlight' \subseteq InFlight /\ live' \subseteq live
    BY <1>5 DEF buffers, Lose, InFlight
  <2> QED
    BY <1>5, <2>1, <2>2, FrameInv DEF Lose, record, handler
<1> QED
  BY <1>1, <1>2, <1>3, <1>4, <1>5

\* Every step keeps the inductive invariant.
LEMMA NextInv == Inv /\ [Next]_vars => Inv'
<1> SUFFICES ASSUME Inv, [Next]_vars PROVE Inv'
  OBVIOUS
<1>1. ASSUME NEW f \in responses, Arrive(f) PROVE Inv'
  BY <1>1, ArriveInv
<1>2. CASE Store
  BY <1>2, StoreInv
<1>3. ASSUME NEW canfit \in ROOM, Pack(canfit) PROVE Inv'
  BY <1>3, PackInv
<1>4. CASE \/ \E f \in responses : Discard(f)
           \/ Full \/ Grow \/ OtherArrives
           \/ \E f \in requests : Serve(f)
           \/ Lose
  BY <1>4, OtherInv
<1>5. CASE UNCHANGED vars
  <2>1. UNCHANGED <<size, network, markers, buffers, is_complete, handler>>
    BY <1>5 DEF vars, record
  <2>2. TypeOK' /\ InFlight' = InFlight /\ live' = live
    BY <2>1 DEF Inv, TypeOK, InFlight, network, markers, buffers, handler
  <2> QED
    BY <2>1, <2>2, FrameInv DEF handler
<1> QED
  BY <1>1, <1>2, <1>3, <1>4, <1>5 DEF Next, Handler

\* Only storing a fragment adds to the received blocks; nothing else sets
\* is_complete or writes to bytes.
LEMMA OnlyStoreReceives ==
  ASSUME Inv, [Next]_vars, ~(Store /\ status' # "undefined")
  PROVE  /\ UNCHANGED <<size, is_complete, bytes>>
         /\ Received(block_markers)' = Received(block_markers)
<1>1. ASSUME NEW f \in responses, Arrive(f)
      PROVE  /\ UNCHANGED <<size, is_complete, bytes>>
             /\ Received(block_markers)' = Received(block_markers)
  <2>1. CASE Opened
    BY <1>1, <2>1 DEF Arrive, record, Opened
  <2>2. CASE ~Opened
    <3>1. block_markers' = FreshMarkers(size) /\ size \in Nat \ {0}
      BY <1>1, <2>2, SizeIsPositive
         DEF Arrive, Opened, Inv, FragmentsFit, InFlight, FragmentOf
    <3>2. Received(block_markers) = {}
      BY <2>2 DEF Opened, Received
    <3> QED
      BY <1>1, <3>1, <3>2, FreshMarkersFree DEF Arrive, record
  <2> QED
    BY <2>1, <2>2
<1>2. ASSUME NEW canfit \in ROOM, Pack(canfit)
      PROVE  /\ UNCHANGED <<size, is_complete, bytes>>
             /\ Received(block_markers)' = Received(block_markers)
  <2>1. UNCHANGED <<size, is_complete, bytes>>
    BY <1>2 DEF Pack, record, buffers
  <2>2. CASE block_markers' = block_markers
    BY <2>1, <2>2
  <2>3. CASE block_markers' # block_markers
    <3>1. /\ Free(block_markers) # {}
          /\ block_markers' = Mark(block_markers, AskedSpan(block_markers, canfit),
                                   BLOCKWAITING)
          /\ pc = "pack"
      BY <1>2, <2>3 DEF Pack
    <3>2. /\ size \in Nat \ {0} /\ canfit \in Nat
          /\ block_markers \in [AllBlocks -> Marker]
      BY <3>1, SizeIsPositive, ReassemblyAssumption DEF Inv, TypeOK, MarkersFit
    <3>3. FreeIsTail
      BY <3>1 DEF Inv, NoneAskedTwice, MarkersFit, Copying
    <3>4. AskedSpan(block_markers, canfit) \subseteq Free(block_markers)
      BY <3>1, <3>2, <3>3, AskedSpanFree DEF FreeIsTail, AllBlocks
    <3>5. Received(block_markers') = Received(block_markers)
      BY <3>1, <3>2, <3>4, MarkWaiting
    <3> QED
      BY <2>1, <3>5
  <2> QED
    BY <2>2, <2>3
<1>3. CASE Store
  BY <1>3 DEF Store, record, markers, buffers, Running
<1>4. CASE \/ \E f \in responses : Discard(f)
           \/ Full \/ Grow \/ OtherArrives
           \/ \E f \in requests : Serve(f)
           \/ Lose \/ UNCHANGED vars
  BY <1>4 DEF Discard, Full, Grow, OtherArrives, Serve, Lose, vars,
              record, markers, buffers
<1> QED
  BY <1>1, <1>2, <1>3, <1>4 DEF Next, Handler

\* The inductive invariant holds throughout.
THEOREM Invariance == Spec => []Inv
  BY InitInv, NextInv, PTL DEF Spec

\* Every variable keeps its type.
THEOREM TypeCorrect == Spec => []TypeOK
<1>1. Inv => TypeOK
  BY DEF Inv
<1> QED
  BY <1>1, Invariance, PTL

\* The assertion in copy_section's completion branch cannot fail: a record
\* whose counts agree has every block, whatever is lost or comes twice.
THEOREM CompleteIsFullHolds == Spec => []CompleteIsFull
<1>1. Inv => CompleteIsFull
  <2> SUFFICES ASSUME Inv, is_complete
               PROVE  Received(block_markers) = 0 .. Blocks(size) - 1
    BY DEF CompleteIsFull
  <2>1. Cardinality(Received(block_markers)) = Blocks(size)
    BY DEF Inv, CompleteByCount, MarkersFit, CountAgrees
  <2> QED
    BY <2>1, FullByCount DEF Inv, AllBlocks
<1> QED
  BY <1>1, Invariance, PTL

\* pack_section may take the free blocks for one run at the record's end.
THEOREM FreeIsTailHolds == Spec => []FreeIsTail
<1>1. Inv => FreeIsTail
  <2>1. ~Opened => FreeIsTail
    BY DEF Opened, FreeIsTail
  <2>2. Inv /\ Opened /\ Free(block_markers) = AllBlocks => FreeIsTail
    BY DEF Inv, MarkersFit, FreeIsTail
  <2> QED
    BY <2>1, <2>2 DEF Inv, NoneAskedTwice
<1> QED
  BY <1>1, Invariance, PTL

\* A received block stays received, and a record once put together is not
\* written to again.
THEOREM ReceivedStaysHolds == Spec => ReceivedStays
<1> DEFINE A == /\ Received(block_markers) \subseteq Received(block_markers')
                /\ is_complete => is_complete' /\ bytes' = bytes
<1>1. Inv /\ [Next]_vars => A
  <2> SUFFICES ASSUME Inv, [Next]_vars PROVE A
    OBVIOUS
  <2>1. CASE Store /\ status' # "undefined"
    BY <2>1, StoreEffect, StoreNotComplete
  <2>2. CASE ~(Store /\ status' # "undefined")
    BY <2>2, OnlyStoreReceives
  <2> QED
    BY <2>1, <2>2
<1> QED
  BY <1>1, Invariance, PTL DEF Spec, ReceivedStays

\* The markers implement the abstract transfer of the record's blocks: each
\* step that stores a fragment is a Receive of new blocks or changes nothing,
\* and the record is put together exactly in the step that fills it.
THEOREM Refinement == Spec => ImplementsTransfer
<1>1. Init => Transfer!TransferInit
  <2> SUFFICES ASSUME Init PROVE Transfer!TransferInit
    OBVIOUS
  <2>1. Inv
    BY InitInv
  <2>2. Blocks(size) \in Nat \ {0}
    BY <2>1, SizeIsPositive, BlocksOfRecord DEF Inv
  <2>3. 0 .. Blocks(size) - 1 # {}
    BY <2>2
  <2>4. Received(block_markers) = {}
    BY DEF Init, Received
  <2> QED
    BY <2>3, <2>4 DEF Transfer!TransferInit, Init
<1>2. Inv /\ Inv' /\ [Next]_vars => [Transfer!Receive]_(Transfer!transferVars)
  <2> SUFFICES ASSUME Inv, Inv', [Next]_vars
               PROVE  Transfer!Receive \/ UNCHANGED Transfer!transferVars
    OBVIOUS
  <2> DEFINE same == UNCHANGED <<size, Received(block_markers), is_complete>>
  <2>1. same => UNCHANGED Transfer!transferVars
    BY DEF Transfer!transferVars
  <2>2. CASE Store /\ status' # "undefined"
    <3> DEFINE new == Span(arrived)
               got == Received(block_markers)
    <3>1. /\ Received(block_markers)' = got \cup new
          /\ is_complete' = (is_complete \/ blocks_received' = expected_blocks)
          /\ UNCHANGED <<size, expected_blocks>>
          /\ pc = "copy"
      BY <2>2, StoreEffect DEF Store
    <3>2. Opened /\ new \subseteq AllBlocks /\ new \cap got = {}
      BY <3>1, CopyCount DEF Inv, CopyIsNew, Copying
    <3>3. expected_blocks = Blocks(size) /\ Opened'
      BY <2>2, <3>2, StoreEffect DEF Inv, MarkersFit
    <3>4. is_complete' <=> blocks_received' = Blocks(size)
      BY <3>1, <3>3 DEF Inv, CompleteByCount
    <3>5. AllBlocks' = AllBlocks /\ Blocks(size)' = Blocks(size)
      BY <3>1 DEF AllBlocks
    <3>6. is_complete' <=> Received(block_markers)' = AllBlocks
      <4>1. (Cardinality(Received(block_markers)) = Blocks(size)
               <=> Received(block_markers) = AllBlocks)'
        BY FullByCount, PTL DEF Inv
      <4> QED
        BY <3>4, <3>5, <4>1 DEF Inv, CountAgrees
    <3>7. is_complete <=> got = AllBlocks
      BY <3>2, <3>3, FullByCount DEF Inv, CompleteByCount, CountAgrees
    <3>8. CASE new = {}
      BY <2>1, <3>1, <3>5, <3>6, <3>7, <3>8 DEF Inv, TypeOK
    <3>9. CASE new # {}
      <4>1. new \in SUBSET (AllBlocks \ got)
        BY <3>2
      <4> QED
        BY <4>1, <3>1, <3>5, <3>6, <3>9 DEF Transfer!Receive, AllBlocks, Inv, TypeOK
    <3> QED
      BY <3>8, <3>9
  <2>3. CASE ~(Store /\ status' # "undefined")
    BY <2>1, <2>3, OnlyStoreReceives
  <2> QED
    BY <2>2, <2>3
<1> QED
  BY <1>1, <1>2, Invariance, PTL DEF Spec, ImplementsTransfer, Transfer!TransferSpec

-----------------------------------------------------------------------------
(***************************************************************************)
(* While no datagram comes twice, the requester asks for every block of a  *)
(* record at most once and the sanity check of copy_section never ends the *)
(* process.                                                                *)
(***************************************************************************)
\* Once the first fragment is stored, what is in flight or being copied fills
\* blocks no other fragment fills, and what is in flight only awaited ones.
\* Before, nothing but the first fragment is in flight.
Apart ==
  /\ requests \cap responses # {} => \A f \in requests \cap responses : Span(f) = {}
  /\ ~Opened => requests = {}
  /\ Opened =>
       /\ \A f \in InFlight : Span(f) \subseteq Waiting(block_markers)
       /\ \A f, g \in InFlight : f # g => Span(f) \cap Span(g) = {}
       /\ Copying => \A f \in InFlight : Span(f) \cap Span(arrived) = {}

\* The process has not been ended by the sanity check.
AbortsExcused == status = "aborted" => "bytes" \notin live

Once == ~twice => Apart /\ AbortsExcused
-----------------------------------------------------------------------------
\* Initially only the first fragment is in flight.
LEMMA InitOnce == Init => Once
  BY DEF Init, Once, Apart, AbortsExcused, Opened, InFlight

\* A fragment taken off the channel is no longer in flight, and passes the
\* check: its blocks are awaited, or all blocks are free.
LEMMA ArriveOnce ==
  ASSUME Inv, Once, NEW f \in responses, Arrive(f)
  PROVE  Once'
<1> SUFFICES ASSUME ~twice' PROVE Apart' /\ AbortsExcused'
  BY DEF Once
<1>1. ~twice /\ f \notin responses' /\ responses' = responses \ {f}
      /\ UNCHANGED <<size, requests>>
  BY DEF Arrive, Noting, Delivered, Inv, TypeOK, record
<1>2. Apart /\ AbortsExcused
  BY <1>1 DEF Once
<1>3. f \in InFlight /\ InFlight' \subseteq InFlight /\ status # "aborted"
  BY <1>1 DEF InFlight, Arrive, Running
<1>4. CASE Opened
  <2>1. block_markers' = block_markers
    BY <1>4 DEF Arrive, Opened
  <2>2. Span(f) \subseteq Waiting(block_markers)
    BY <1>2, <1>3, <1>4 DEF Apart
  <2>3. ~Overwrites(block_markers, f)
    BY <2>2 DEF Overwrites, Waiting, BLOCKWAITING, BLOCKRECVD
  <2>4. pc' = "copy" /\ arrived' = f /\ status' = status
    BY <1>4, <2>3 DEF Arrive, Opened
  <2>5. \A g \in InFlight' : Span(g) \cap Span(f) = {}
    <3> SUFFICES ASSUME NEW g \in InFlight' PROVE Span(g) \cap Span(f) = {}
      OBVIOUS
    <3>1. CASE g = f
      <4>1. f \in requests \cap responses
        BY <1>1, <3>1 DEF InFlight
      <4> QED
        BY <1>2, <3>1, <4>1 DEF Apart
    <3>2. CASE g # f
      BY <1>2, <1>3, <1>4, <3>2 DEF Apart
    <3> QED
      BY <3>1, <3>2
  <2> QED
    BY <1>1, <1>2, <1>3, <1>4, <2>1, <2>4, <2>5 DEF Apart, AbortsExcused, Opened
<1>5. CASE ~Opened
  <2>1. \A g \in InFlight : g = f
    BY <1>3, <1>5 DEF Inv, NoneAskedTwice
  <2>2. requests = {} /\ InFlight' = {} /\ requests' = {}
    BY <1>1, <1>2, <1>5, <2>1 DEF Apart, InFlight
  <2>3. f.rrsize \in Nat \ {0} /\ Span(f) \subseteq 0 .. Blocks(f.rrsize) - 1
    BY <1>3, SizeIsPositive, SpanInRecord DEF Inv, FragmentsFit, FragmentOf
  <2>4. ~Overwrites(FreshMarkers(f.rrsize), f)
    BY <2>3 DEF Overwrites, FreshMarkers, BLOCKFREE, BLOCKRECVD
  <2>5. status' = status
    BY <1>5, <2>4 DEF Arrive, Opened
  <2> QED
    BY <1>2, <1>3, <2>2, <2>5 DEF Apart, AbortsExcused
<1> QED
  BY <1>4, <1>5

\* Storing a fragment takes only its own blocks from the awaited ones.
LEMMA StoreOnce ==
  ASSUME Inv, Once, Store
  PROVE  Once'
<1> SUFFICES ASSUME ~twice' PROVE Apart' /\ AbortsExcused'
  BY DEF Once
<1>1. ~twice /\ UNCHANGED <<network, arrived>> /\ pc = "copy" /\ Running
  BY DEF Store, network
<1>2. Apart /\ InFlight' = InFlight /\ status' # "aborted"
  BY <1>1 DEF Once, InFlight, network, Store, Running
<1>3. CASE status' = "undefined"
  <2>1. block_markers' = block_markers /\ pc' = pc
    BY <1>3 DEF Store, Running, markers
  <2> QED
    BY <1>1, <1>2, <2>1 DEF Apart, AbortsExcused, Opened, network, Copying
<1>4. CASE status' # "undefined"
  <2>1. /\ block_markers' = Mark(block_markers, Span(arrived), BLOCKRECVD)
        /\ pc' = "pack"
    BY <1>4 DEF Store
  <2>2. Opened /\ Opened'
    BY <1>1, <2>1, CopyCount DEF Opened, Mark
  <2>3. Waiting(block_markers)' = Waiting(block_markers) \ Span(arrived)
    BY <2>1 DEF Waiting, Mark, BLOCKRECVD, BLOCKWAITING
  <2> QED
    BY <1>1, <1>2, <2>1, <2>2, <2>3 DEF Apart, AbortsExcused, network, Copying
<1> QED
  BY <1>3, <1>4

\* A fragment asked for fills free blocks, which become awaited: no fragment
\* in flight fills them.
LEMMA PackOnce ==
  ASSUME Inv, Once, NEW canfit \in ROOM, Pack(canfit)
  PROVE  Once'
<1> SUFFICES ASSUME ~twice' PROVE Apart' /\ AbortsExcused'
  BY DEF Once
<1>1. ~twice /\ Apart /\ UNCHANGED <<size, responses, status, live>>
      /\ pc = "pack" /\ pc' = "idle" /\ status # "aborted"
  BY DEF Pack, Once, record, buffers, Running
<1>2. CASE UNCHANGED <<requests, block_markers>>
  BY <1>1, <1>2 DEF Apart, AbortsExcused, InFlight, Opened, Copying
<1>3. CASE ~UNCHANGED <<requests, block_markers>>
  <2> DEFINE f == AskedFragment(block_markers, rrsize, canfit)
             span == AskedSpan(block_markers, canfit)
  <2>1. /\ Free(block_markers) # {}
        /\ requests' = requests \cup {f}
        /\ block_markers' = Mark(block_markers, span, BLOCKWAITING)
    BY <1>3 DEF Pack
  <2>2. Opened /\ DOMAIN block_markers = AllBlocks /\ rrsize = size
    BY <2>1 DEF Inv, MarkersFit, Opened, Free
  <2>3. size \in Nat \ {0} /\ block_markers \in [AllBlocks -> Marker]
        /\ canfit \in Nat
    BY <2>2, SizeIsPositive, ReassemblyAssumption DEF Inv, TypeOK
  <2>4. Span(f) \subseteq span
    BY <2>1, <2>2, <2>3, AskedIsFragment DEF AllBlocks
  <2>5. FreeIsTail
    BY <1>1, <2>2 DEF Inv, NoneAskedTwice, Copying
  <2>6. span \subseteq Free(block_markers)
    BY <2>1, <2>2, <2>3, <2>5, AskedSpanFree DEF FreeIsTail, AllBlocks
  <2> HIDE DEF f, span
  <2>7. /\ Waiting(block_markers') = Waiting(block_markers) \cup span
        /\ span \cap Waiting(block_markers) = {}
        /\ Opened'
    BY <2>1, <2>2, <2>6 DEF Waiting, Free, Mark, BLOCKFREE, BLOCKWAITING, Opened
  <2>8. InFlight' = InFlight \cup {f}
    BY <1>1, <2>1 DEF InFlight
  <2>9. \A g \in InFlight : Span(g) \subseteq Waiting(block_markers)
                            /\ Span(g) \cap Span(f) = {}
    BY <1>1, <2>2, <2>4, <2>7 DEF Apart
  <2>10. f \in responses => Span(f) = {}
    BY <2>9 DEF InFlight
  <2> QED
    BY <1>1, <2>1, <2>2, <2>4, <2>7, <2>8, <2>9, <2>10 DEF Apart, AbortsExcused, Copying
<1> QED
  BY <1>2, <1>3

\* The other steps ask for nothing and store nothing.
LEMMA OtherOnce ==
  ASSUME Inv, Once,
         \/ \E f \in responses : Discard(f)
         \/ Full \/ Grow \/ OtherArrives
         \/ \E f \in requests : Serve(f)
         \/ Lose \/ UNCHANGED vars
  PROVE  Once'
<1> SUFFICES ASSUME ~twice' PROVE Apart' /\ AbortsExcused'
  BY DEF Once
<1>1. CASE Full \/ Grow
  <2>1. ~twice /\ UNCHANGED <<requests, responses, block_markers, arrived>>
        /\ Running /\ Copying /\ Copying'
    <3>1. CASE Full
      BY <3>1 DEF Full, network, markers, buffers, Copying, Running
    <3>2. CASE Grow
      BY <3>2 DEF Grow, network, markers, Copying, Running
    <3> QED
      BY <1>1, <3>1, <3>2
  <2>2. status' = "aborted" => "bytes" \notin live'
    BY <1>1, <2>1 DEF Full, Grow, Running
  <2> QED
    BY <2>1, <2>2 DEF Once, Apart, AbortsExcused, InFlight, Opened
<1>2. CASE OtherArrives
  <2>1. ~twice /\ UNCHANGED <<requests, responses, block_markers, arrived, status>>
        /\ Opened /\ pc = "idle" /\ pc' = "pack"
        /\ live' = live
    BY <1>2 DEF OtherArrives, network, markers, Opened, buffers
  <2> QED
    BY <2>1 DEF Once, Apart, AbortsExcused, InFlight, Opened, Copying
<1>3. ASSUME NEW f \in requests, Serve(f)
      PROVE  Apart' /\ AbortsExcused'
  <2>1. /\ ~twice /\ requests' = requests \ {f} /\ responses' = responses \cup {f}
        /\ UNCHANGED <<block_markers, arrived, pc, status, live>>
    BY <1>3 DEF Serve, Noting, Delivered, Inv, TypeOK, markers, handler, buffers
  <2>2. InFlight' = InFlight /\ Opened' = Opened
    BY <2>1 DEF InFlight, Opened
  <2>3. Apart /\ AbortsExcused
    BY <2>1 DEF Once
  <2> QED
    BY <2>1, <2>2, <2>3 DEF Apart, AbortsExcused, Copying
<1>4. CASE (\E f \in responses : Discard(f)) \/ Lose \/ UNCHANGED vars
  <2>1. /\ ~twice /\ requests' \subseteq requests /\ responses' \subseteq responses
        /\ UNCHANGED <<block_markers, arrived, pc, status, live>>
    BY <1>4 DEF Discard, Lose, vars, network, markers, handler, buffers
  <2> QED
    BY <2>1 DEF Once, Apart, AbortsExcused, InFlight, Opened, Copying
<1> QED
  BY <1>1, <1>2, <1>3, <1>4

\* Together: no block is asked for, or comes, twice.
LEMMA NextOnce == Inv /\ Once /\ [Next]_vars => Once'
  BY ArriveOnce, StoreOnce, PackOnce, OtherOnce DEF Next, Handler
-----------------------------------------------------------------------------
\* The inductive invariant holds throughout.
THEOREM OnceInvariance == Spec => []Once
  BY InitOnce, NextOnce, Invariance, PTL DEF Spec

\* pack_section never asks for a block whose answer is still awaited.
THEOREM AskedOnceHolds == Spec => []AskedOnce
<1>1. Once => AskedOnce
  BY DEF Once, Apart, AskedOnce, Opened
<1> QED
  BY <1>1, OnceInvariance, PTL

\* "block wasn't waiting for data": the check that ends the process can fail
\* only after a duplicated datagram.
THEOREM NeverAbortsHolds == Spec => []NeverAborts
<1>1. Once => NeverAborts
  BY DEF Once, AbortsExcused, NeverAborts
<1> QED
  BY <1>1, OnceInvariance, PTL
-----------------------------------------------------------------------------
(***************************************************************************)
(* The bytes of a record: the buffers are large enough, and a record that  *)
(* is put together is the responder's byte for byte.                       *)
(***************************************************************************)

\* A fragment ends where a block ends, or where the record does.
EndsAtBlock(f, n) == f.fragsize % BLOCKSIZE = 0 \/ f.curidx + f.fragsize = n

FragmentsWhole ==
  /\ \A f \in InFlight : EndsAtBlock(f, size)
  /\ Copying => EndsAtBlock(arrived, size)

\* How many bytes some blocks of a record of n bytes have: its last block may
\* be a short one.
Short(n, blocks) == IF Blocks(n) - 1 \in blocks THEN BLOCKSIZE * Blocks(n) - n ELSE 0
ByteCount(n, blocks) == BLOCKSIZE * Cardinality(blocks) - Short(n, blocks)

\* bytes holds as many bytes as the received blocks have.
LengthAgrees == Len(bytes) = ByteCount(size, Received(block_markers))

\* The fragments whose headers are frags lie in the buffer one after another,
\* each with its own bytes, and every byte of the blocks received is in one.
Covers(frag, k) == k - frag.frag_start \in 0 .. frag.frag_size - 1
Sizes(frags) == [i \in 1 .. Len(frags) |-> frags[i].frag_size]

Placed(buffer, frags, blocks, n) ==
  /\ Len(buffer) = Total(Sizes(frags))
  /\ \A i \in 1 .. Len(frags) :
       LET from == ByteIdx(frags)[i] IN
       /\ from \in Nat /\ from + frags[i].frag_size <= Len(buffer)
       /\ frags[i].frag_start + frags[i].frag_size <= n
       /\ \A k \in 1 .. frags[i].frag_size :
            buffer[from + k] = frags[i].frag_start + k - 1
  /\ \A k \in 0 .. n - 1 :
       k \div BLOCKSIZE \in blocks => \E i \in 1 .. Len(frags) : Covers(frags[i], k)

BytesInv ==
  /\ FragmentsWhole
  /\ LengthAgrees
  /\ ~is_complete => Placed(bytes, headers, Received(block_markers), size)
  /\ Intact
  /\ NeverOverruns
-----------------------------------------------------------------------------
\* The bytes of a fragment are those of the blocks it fills.
LEMMA FragmentBytes ==
  ASSUME NEW n \in Nat \ {0}, NEW f, FragmentOf(f, n), EndsAtBlock(f, n)
  PROVE  f.fragsize = BLOCKSIZE * (LastBlockIdx(f) - BlockIdx(f)) - Short(n, Span(f))
<1>1. f.curidx \in Nat /\ f.fragsize \in Nat /\ f.curidx % BLOCKSIZE = 0
      /\ f.curidx + f.fragsize <= n
  BY DEF FragmentOf, Fragment
<1> DEFINE b == f.curidx \div BLOCKSIZE
           c == Blocks(f.fragsize)
<1>2. b \in Nat /\ f.curidx = BLOCKSIZE * b
  BY <1>1 DEF BLOCKSIZE
<1>3. c \in Nat /\ LastBlockIdx(f) - BlockIdx(f) = c
      /\ (Blocks(n) - 1 \in Span(f) <=> b <= Blocks(n) - 1 /\ Blocks(n) - 1 < b + c)
  BY <1>1, <1>2 DEF Blocks, BLOCKSIZE, LastBlockIdx, BlockIdx, Span
<1> HIDE DEF b, c
<1>4. CASE f.fragsize % BLOCKSIZE = 0
  <2>1. BLOCKSIZE * c = f.fragsize
    <3> DEFINE q == f.fragsize \div BLOCKSIZE
    <3>1. q \in Nat /\ f.fragsize = BLOCKSIZE * q
      BY <1>1, <1>4 DEF BLOCKSIZE
    <3> HIDE DEF q
    <3>2. c = q
      BY <3>1 DEF Blocks, BLOCKSIZE, c
    <3> QED
      BY <3>1, <3>2
  <2>2. Blocks(n) - 1 < b + c => BLOCKSIZE * Blocks(n) - n = 0
    BY <1>1, <1>2, <1>3, <2>1 DEF Blocks, BLOCKSIZE
  <2> QED
    BY <1>1, <1>3, <2>1, <2>2 DEF Short, BLOCKSIZE
<1>5. CASE f.fragsize % BLOCKSIZE # 0
  <2>1. f.curidx + f.fragsize = n
    BY <1>5 DEF EndsAtBlock
  <2>2. Blocks(n) = b + c /\ c > 0
    <3>1. f.fragsize > 0
      BY <1>1, <1>5 DEF BLOCKSIZE
    <3>2. c > 0 /\ BLOCKSIZE * c < f.fragsize + BLOCKSIZE /\ f.fragsize <= BLOCKSIZE * c
      BY <1>1, <3>1 DEF Blocks, BLOCKSIZE, c
    <3>3. Blocks(n) \in Nat /\ BLOCKSIZE * Blocks(n) < n + BLOCKSIZE
          /\ n <= BLOCKSIZE * Blocks(n)
      BY DEF Blocks, BLOCKSIZE
    <3> QED
      BY <1>1, <1>2, <1>3, <2>1, <3>2, <3>3 DEF BLOCKSIZE
  <2> QED
    BY <1>1, <1>2, <1>3, <2>1, <2>2 DEF Short, BLOCKSIZE
<1> QED
  BY <1>4, <1>5

\* New blocks add their bytes.
LEMMA ByteCountAdds ==
  ASSUME NEW n \in Nat \ {0}, NEW f, FragmentOf(f, n), EndsAtBlock(f, n),
         NEW blocks, IsFiniteSet(blocks), blocks \cap Span(f) = {}
  PROVE  ByteCount(n, blocks \cup Span(f)) = ByteCount(n, blocks) + f.fragsize
<1>1. /\ IsFiniteSet(Span(f)) /\ Cardinality(Span(f)) = LastBlockIdx(f) - BlockIdx(f)
  BY SpanSize
<1>2. Cardinality(blocks) \in Nat /\ Cardinality(Span(f)) \in Nat
  BY <1>1, FS_CardinalityType
<1>3. Cardinality(blocks \cup Span(f)) = Cardinality(blocks) + Cardinality(Span(f))
  <2>1. Cardinality(blocks \cap Span(f)) = 0
    BY FS_EmptySet
  <2>2. Cardinality(blocks \cup Span(f)) =
          Cardinality(blocks) + Cardinality(Span(f)) - Cardinality(blocks \cap Span(f))
    BY <1>1, FS_Union, Zenon
  <2> QED
    BY <1>2, <2>1, <2>2
<1>4. Short(n, blocks \cup Span(f)) = Short(n, blocks) + Short(n, Span(f))
      /\ Short(n, blocks) \in Int /\ Short(n, Span(f)) \in Int
  BY DEF Short, Blocks, BLOCKSIZE
<1>5. f.fragsize = BLOCKSIZE * Cardinality(Span(f)) - Short(n, Span(f))
  BY <1>1, FragmentBytes
<1> HIDE DEF Short
<1> QED
  BY <1>2, <1>3, <1>4, <1>5 DEF ByteCount, BLOCKSIZE

\* All blocks have all bytes.
LEMMA AllBytes ==
  ASSUME NEW n \in Nat \ {0}
  PROVE  ByteCount(n, 0 .. Blocks(n) - 1) = n
<1>1. Blocks(n) \in Nat \ {0}
  BY BlocksOfRecord
<1>2. Cardinality(0 .. Blocks(n) - 1) = Blocks(n) - 0
  BY <1>1, IntervalSize
<1>3. Short(n, 0 .. Blocks(n) - 1) = BLOCKSIZE * Blocks(n) - n
  BY <1>1 DEF Short
<1> QED
  BY <1>1, <1>2, <1>3 DEF ByteCount, BLOCKSIZE
-----------------------------------------------------------------------------
\* A set of indices has a largest one.
LEMMA LargestIndex ==
  ASSUME NEW m \in Nat, NEW S \in SUBSET (1 .. m), S # {}
  PROVE  Max(S) \in S /\ \A y \in S : Max(S) >= y
<1> DEFINE T == {m - x : x \in S}
<1>1. T \in SUBSET Nat /\ T # {}
  <2>1. \A x \in S : x \in 1 .. m /\ m - x \in Nat
    OBVIOUS
  <2>2. PICK x \in S : TRUE
    OBVIOUS
  <2>3. m - x \in T
    OBVIOUS
  <2> QED
    BY <2>1, <2>3
<1>2. PICK j \in T : \A k \in T : j <= k
  <2> HIDE DEF T
  <2> QED
    BY <1>1, LeastElement
<1>3. PICK x \in S : j = m - x
  BY <1>2
<1>4. \A y \in S : x >= y
  <2> TAKE y \in S
  <2>1. j <= m - y
    BY <1>2
  <2> QED
    BY <1>3, <2>1
<1> QED
  BY <1>3, <1>4 DEF Max

Header == [frag_start : Nat, frag_size : Nat]

\* The sizes of some fragments, and the header of one more.
LEMMA SizesAppend ==
  ASSUME NEW frags \in Seq(Header), NEW frag \in Header
  PROVE  /\ Sizes(frags) \in Seq(Int) /\ Len(Sizes(frags)) = Len(frags)
         /\ Sizes(Append(frags, frag)) = Append(Sizes(frags), frag.frag_size)
<1>1. /\ Len(frags) \in Nat /\ \A i \in 1 .. Len(frags) : frags[i] \in Header
      /\ Len(Append(frags, frag)) = Len(frags) + 1
      /\ \A i \in 1 .. Len(frags) : Append(frags, frag)[i] = frags[i]
      /\ Append(frags, frag)[Len(frags) + 1] = frag
  OBVIOUS
<1>2. Sizes(frags) \in Seq(Int) /\ Len(Sizes(frags)) = Len(frags)
      /\ \A i \in 1 .. Len(frags) : Sizes(frags)[i] = frags[i].frag_size
  BY <1>1 DEF Sizes, Header
<1> DEFINE s == Sizes(Append(frags, frag))
           u == Append(Sizes(frags), frag.frag_size)
<1>3. s \in Seq(Int) /\ u \in Seq(Int) /\ Len(s) = Len(frags) + 1 /\ Len(u) = Len(frags) + 1
  BY <1>1, <1>2 DEF Sizes, Header
<1>4. ASSUME NEW i \in 1 .. Len(frags) + 1 PROVE s[i] = u[i]
  <2>1. CASE i = Len(frags) + 1
    BY <1>1, <1>2, <2>1 DEF Sizes, Header
  <2>2. CASE i # Len(frags) + 1
    <3>1. i \in 1 .. Len(frags)
      BY <1>1, <2>2
    <3>2. s[i] = frags[i].frag_size
      BY <1>1, <3>1 DEF Sizes
    <3>3. u[i] = Sizes(frags)[i]
      BY <1>2, <3>1 DEF Header
    <3> QED
      BY <1>2, <3>1, <3>2, <3>3
  <2> QED
    BY <2>1, <2>2
<1> HIDE DEF s, u
<1>5. s = u
  BY <1>3, <1>4, SeqEqual
<1> QED
  BY <1>2, <1>5 DEF s, u

\* Fragments that hold all bytes of a record make the record.
LEMMA ScatterExact ==
  ASSUME NEW n \in Nat \ {0}, NEW frags \in Seq(Header), NEW buffer \in Seq(Int),
         Len(buffer) = n, Placed(buffer, frags, 0 .. Blocks(n) - 1, n)
  PROVE  Scatter(buffer, frags) = [k \in 1 .. n |-> k - 1]
<1> DEFINE filling(b) == {i \in DOMAIN frags :
                            b - frags[i].frag_start \in 0 .. frags[i].frag_size - 1}
           byte(k) == LET i == Max(filling(k - 1))
                          at == ByteIdx(frags)[i] + k - frags[i].frag_start
                      IN  IF at \in DOMAIN buffer THEN buffer[at] ELSE Junk
<1>1. /\ Len(frags) \in Nat /\ DOMAIN frags = 1 .. Len(frags)
      /\ DOMAIN buffer = 1 .. n
      /\ \A i \in 1 .. Len(frags) : frags[i].frag_start \in Nat /\ frags[i].frag_size \in Nat
  <2>1. /\ Len(frags) \in Nat /\ DOMAIN frags = 1 .. Len(frags)
        /\ DOMAIN buffer = 1 .. n /\ \A i \in 1 .. Len(frags) : frags[i] \in Header
    OBVIOUS
  <2> QED
    BY <2>1 DEF Header
<1>2. Scatter(buffer, frags) =
        [k \in 1 .. n |-> IF filling(k - 1) = {} THEN Junk ELSE byte(k)]
  BY DEF Scatter
<1>3. ASSUME NEW k \in 1 .. n
      PROVE  filling(k - 1) # {} /\ byte(k) = k - 1
  <2> DEFINE F == filling(k - 1)
             i == Max(F)
             start == frags[i].frag_start
             from == ByteIdx(frags)[i]
  <2>1. F \in SUBSET (1 .. Len(frags)) /\ F # {}
    <3>1. k - 1 \in 0 .. n - 1 /\ (k - 1) \div BLOCKSIZE \in 0 .. Blocks(n) - 1
      BY DEF Blocks, BLOCKSIZE
    <3>2. PICK j \in 1 .. Len(frags) : Covers(frags[j], k - 1)
      BY <3>1 DEF Placed
    <3> QED
      BY <1>1, <3>2 DEF Covers
  <2>2. i \in F
    <3> HIDE DEF F
    <3> QED
      BY <1>1, <2>1, LargestIndex
  <2>3. /\ i \in 1 .. Len(frags) /\ start \in Nat /\ frags[i].frag_size \in Nat
        /\ k - 1 - start \in 0 .. frags[i].frag_size - 1
    BY <1>1, <2>2
  <2> HIDE DEF F, i
  <2>4. /\ from \in Nat /\ from + frags[i].frag_size <= n
        /\ \A j \in 1 .. frags[i].frag_size : buffer[from + j] = start + j - 1
    BY <2>3 DEF Placed
  <2> HIDE DEF start, from
  <2>5. k - start \in 1 .. frags[i].frag_size /\ k \in 1 .. n
    BY <2>3
  <2>6. buffer[from + (k - start)] = start + (k - start) - 1
    BY <2>4, <2>5
  <2> DEFINE length == frags[i].frag_size
  <2>7. /\ from \in Nat /\ start \in Nat /\ length \in Nat /\ k \in Nat
        /\ from + length <= n /\ 1 <= k - start /\ k - start <= length
    BY <2>3, <2>4, <2>5
  <2> HIDE DEF length
  <2>8. /\ from + (k - start) = from + k - start
        /\ 1 <= from + k - start /\ from + k - start <= n
        /\ start + (k - start) - 1 = k - 1
    BY <2>7
  <2>9. from + k - start \in 1 .. n
    BY <2>7, <2>8
  <2> QED
    BY <1>1, <2>1, <2>6, <2>8, <2>9 DEF F, i, start, from
<1> HIDE DEF filling, byte
<1> QED
  BY <1>2, <1>3

\* The data of a fragment is a sequence of as many bytes as it says.
LEMMA DataBytes ==
  ASSUME NEW f, f.curidx \in Nat, f.fragsize \in Nat
  PROVE  /\ Data(f) \in Seq(Int) /\ Len(Data(f)) = f.fragsize
         /\ \A k \in 1 .. f.fragsize : Data(f)[k] = f.curidx + k - 1
<1>1. Data(f) \in [1 .. f.fragsize -> Int]
  BY DEF Data
<1>2. Data(f) \in Seq(Int) /\ Len(Data(f)) = f.fragsize
  BY <1>1
<1> QED
  BY <1>2 DEF Data

\* Storing a fragment's bytes and its header behind those of the others.
LEMMA PlaceOne ==
  ASSUME NEW n \in Nat \ {0}, NEW frags \in Seq(Header), NEW buffer \in Seq(Int),
         NEW blocks, Placed(buffer, frags, blocks, n),
         NEW f, FragmentOf(f, n), EndsAtBlock(f, n)
  PROVE  LET frag == [frag_start |-> f.curidx, frag_size |-> f.fragsize]
         IN  Placed(buffer \o Data(f), Append(frags, frag), blocks \cup Span(f), n)
<1> DEFINE frag == [frag_start |-> f.curidx, frag_size |-> f.fragsize]
           more == Append(frags, frag)
           longer == buffer \o Data(f)
           m == Len(frags)
<1>1. f.curidx \in Nat /\ f.fragsize \in Nat /\ f.curidx % BLOCKSIZE = 0
      /\ f.curidx + f.fragsize <= n
  BY DEF FragmentOf, Fragment
<1>2. frag \in Header /\ frag.frag_start = f.curidx /\ frag.frag_size = f.fragsize
  BY <1>1 DEF Header
<1>3. /\ m \in Nat /\ Len(more) = m + 1 /\ more[m + 1] = frag
      /\ \A i \in 1 .. m : more[i] = frags[i] /\ frags[i] \in Header
  BY <1>2
<1>4. /\ Data(f) \in Seq(Int) /\ Len(Data(f)) = f.fragsize
      /\ \A k \in 1 .. f.fragsize : Data(f)[k] = f.curidx + k - 1
  BY <1>1, DataBytes
<1>5. /\ Len(buffer) \in Nat /\ Len(longer) = Len(buffer) + f.fragsize
      /\ \A k \in 1 .. Len(buffer) : longer[k] = buffer[k]
      /\ \A k \in 1 .. f.fragsize : longer[Len(buffer) + k] = f.curidx + k - 1
  <2> DEFINE data == Data(f)
             l == Len(buffer)
             z == f.fragsize
             both == buffer \o data
  <2>1. buffer \in Seq(Int) /\ data \in Seq(Int) /\ l \in Nat /\ z \in Nat /\ Len(data) = z
        /\ \A k \in 1 .. z : data[k] = f.curidx + k - 1
    BY <1>1, <1>4
  <2> HIDE DEF data
  <2>2. /\ Len(both) = l + z
        /\ \A i \in 1 .. l + z : both[i] = IF i <= l THEN buffer[i] ELSE data[i - l]
    BY <2>1, ConcatProperties
  <2> HIDE DEF both, l, z
  <2>3. \A k \in 1 .. l : both[k] = buffer[k]
    BY <2>1, <2>2
  <2>4. \A k \in 1 .. z : both[l + k] = data[k]
    <3> SUFFICES ASSUME NEW k \in 1 .. z PROVE both[l + k] = data[k]
      OBVIOUS
    <3> DEFINE i == l + k
    <3>1. i \in 1 .. l + z /\ ~(i <= l) /\ i - l = k
      BY <2>1
    <3> HIDE DEF i
    <3>2. both[i] = data[k]
      BY <2>2, <3>1
    <3> QED
      BY <3>2 DEF i
  <2> QED
    BY <2>1, <2>2, <2>3, <2>4 DEF both, l, z, data
<1>6. /\ \A i \in 0 .. m : Offsets(Sizes(more))[i] = Offsets(Sizes(frags))[i]
      /\ Total(Sizes(more)) = Total(Sizes(frags)) + f.fragsize
      /\ Total(Sizes(frags)) = Offsets(Sizes(frags))[m]
  <2>1. /\ Sizes(frags) \in Seq(Int) /\ Len(Sizes(frags)) = m
        /\ Sizes(more) = Append(Sizes(frags), f.fragsize)
    BY <1>2, SizesAppend
  <2>2. \A i \in 0 .. Len(Sizes(frags)) :
           Offsets(Append(Sizes(frags), f.fragsize))[i] = Offsets(Sizes(frags))[i]
    <3> DEFINE u == Sizes(frags)
               x == f.fragsize
    <3>1. u \in Seq(Int) /\ x \in Int
      BY <1>1, <2>1
    <3> HIDE DEF u, x
    <3>2. \A i \in 0 .. Len(u) : Offsets(Append(u, x))[i] = Offsets(u)[i]
      BY <3>1, TotalAppend, Zenon
    <3> QED
      BY <3>2 DEF u, x
  <2>3. Total(Append(Sizes(frags), f.fragsize)) = Total(Sizes(frags)) + f.fragsize
    <3> DEFINE u == Sizes(frags)
               x == f.fragsize
    <3>1. u \in Seq(Int) /\ x \in Int
      BY <1>1, <2>1
    <3> HIDE DEF u, x
    <3>2. Total(Append(u, x)) = Total(u) + x
      BY <3>1, TotalAppend, Zenon
    <3> QED
      BY <3>2 DEF u, x
  <2>4. Total(Sizes(frags)) = Offsets(Sizes(frags))[m]
    BY <2>1 DEF Total
  <2> HIDE DEF m, more
  <2> QED
    BY <2>1, <2>2, <2>3, <2>4
<1>7. /\ \A i \in 1 .. m : ByteIdx(more)[i] = ByteIdx(frags)[i]
      /\ ByteIdx(more)[m + 1] = Len(buffer)
  <2>1. /\ ByteIdx(more) = [i \in 1 .. m + 1 |-> Offsets(Sizes(more))[i - 1]]
        /\ ByteIdx(frags) = [i \in 1 .. m |-> Offsets(Sizes(frags))[i - 1]]
    BY <1>3 DEF ByteIdx, Sizes
  <2>2. Len(buffer) = Total(Sizes(frags))
    BY DEF Placed
  <2> HIDE DEF m, more
  <2>3. /\ \A i \in 1 .. m : i - 1 \in 0 .. m /\ i \in 1 .. m + 1
        /\ m + 1 \in 1 .. m + 1 /\ (m + 1) - 1 = m /\ m \in 0 .. m
    BY <1>3
  <2> QED
    BY <1>6, <2>1, <2>2, <2>3
<1> HIDE DEF more, longer, frag, m
<1>8. Len(longer) = Total(Sizes(more))
  BY <1>5, <1>6 DEF Placed
<1>9. ASSUME NEW i \in 1 .. Len(more)
      PROVE  LET from == ByteIdx(more)[i] IN
             /\ from \in Nat /\ from + more[i].frag_size <= Len(longer)
             /\ more[i].frag_start + more[i].frag_size <= n
             /\ \A k \in 1 .. more[i].frag_size :
                  longer[from + k] = more[i].frag_start + k - 1
  <2>1. CASE i = m + 1
    <3>1. ByteIdx(more)[i] = Len(buffer) /\ more[i] = frag
      BY <1>3, <1>7, <2>1
    <3>2. more[i].frag_start = f.curidx /\ more[i].frag_size = f.fragsize
      BY <1>2, <3>1
    <3> QED
      BY <1>1, <1>5, <3>1, <3>2
  <2>2. CASE i # m + 1
    <3>1. i \in 1 .. m /\ more[i] = frags[i] /\ ByteIdx(more)[i] = ByteIdx(frags)[i]
          /\ frags[i].frag_size \in Nat
      <4>1. i \in 1 .. m
        BY <1>3, <2>2
      <4> QED
        BY <1>3, <1>7, <4>1 DEF Header
    <3> DEFINE from == ByteIdx(frags)[i]
               sz == frags[i].frag_size
    <3>2. /\ from \in Nat /\ from + sz <= Len(buffer)
          /\ frags[i].frag_start + sz <= n
          /\ \A k \in 1 .. sz : buffer[from + k] = frags[i].frag_start + k - 1
      BY <3>1 DEF Placed, m
    <3> HIDE DEF from
    <3>3. \A k \in 1 .. sz : longer[from + k] = buffer[from + k]
      <4>1. sz \in Nat /\ from \in Nat /\ from + sz <= Len(buffer)
        BY <3>1, <3>2
      <4> HIDE DEF sz
      <4>2. \A k \in 1 .. sz : from + k \in 1 .. Len(buffer)
        BY <1>5, <4>1
      <4> QED
        BY <1>5, <4>2
    <3> QED
      BY <1>1, <1>5, <3>1, <3>2, <3>3 DEF from
  <2> QED
    BY <2>1, <2>2
<1>10. ASSUME NEW k \in 0 .. n - 1, k \div BLOCKSIZE \in blocks \cup Span(f)
       PROVE  \E i \in 1 .. Len(more) : Covers(more[i], k)
  <2>1. CASE k \div BLOCKSIZE \in blocks
    <3>1. PICK i \in 1 .. m : Covers(frags[i], k)
      BY <2>1 DEF Placed, m
    <3> QED
      BY <1>3, <3>1
  <2>2. CASE k \div BLOCKSIZE \in Span(f)
    <3> DEFINE b == f.curidx \div BLOCKSIZE
               c == Blocks(f.fragsize)
               q == k \div BLOCKSIZE
    <3>1. k \in f.curidx .. f.curidx + f.fragsize - 1
      <4>1. /\ b \in Nat /\ f.curidx = BLOCKSIZE * b /\ c \in Nat
            /\ q \in Nat /\ BLOCKSIZE * q <= k /\ k < BLOCKSIZE * q + BLOCKSIZE
            /\ k \in Nat /\ k < n
        BY <1>1 DEF Blocks, BLOCKSIZE
      <4>2. b <= q /\ q < b + c
        BY <2>2, <4>1 DEF Span, BlockIdx, LastBlockIdx
      <4>3. f.fragsize % BLOCKSIZE = 0 => BLOCKSIZE * c = f.fragsize
        <5> DEFINE r == f.fragsize \div BLOCKSIZE
        <5>1. f.fragsize % BLOCKSIZE = 0 => r \in Nat /\ f.fragsize = BLOCKSIZE * r
          BY <1>1 DEF BLOCKSIZE
        <5> HIDE DEF r
        <5>2. r \in Nat => (BLOCKSIZE * r + BLOCKSIZE - 1) \div BLOCKSIZE = r
          BY DEF BLOCKSIZE
        <5>3. f.fragsize % BLOCKSIZE = 0 => c = r
          BY <5>1, <5>2 DEF Blocks
        <5> QED
          BY <5>1, <5>3
      <4> HIDE DEF b, c, q
      <4>4. CASE f.fragsize % BLOCKSIZE = 0
        BY <1>1, <4>1, <4>2, <4>3, <4>4 DEF BLOCKSIZE
      <4>5. CASE f.curidx + f.fragsize = n
        BY <1>1, <4>1, <4>2, <4>5 DEF BLOCKSIZE
      <4> QED
        BY <4>4, <4>5 DEF EndsAtBlock
    <3>2. Covers(frag, k)
      BY <1>1, <1>2, <3>1 DEF Covers
    <3> QED
      BY <1>3, <3>2
  <2> QED
    BY <1>10, <2>1, <2>2
<1> QED
  BY <1>8, <1>9, <1>10 DEF Placed, more, longer, frag
-----------------------------------------------------------------------------
\* Nothing has been received, and nothing is being copied.
LEMMA InitBytes == Init => BytesInv
<1> SUFFICES ASSUME Init PROVE BytesInv
  OBVIOUS
<1>1. Inv
  BY InitInv
<1>2. size \in Nat \ {0} /\ Received(block_markers) = {} /\ bytes = <<>> /\ headers = <<>>
      /\ ~is_complete /\ status = "running"
  <2>1. size \in Nat \ {0}
    BY <1>1, SizeIsPositive DEF Inv
  <2>2. block_markers = <<>> /\ bytes = <<>> /\ headers = <<>> /\ ~is_complete /\ status = "running"
    BY DEF Init
  <2>3. Received(block_markers) = {}
    BY <2>2 DEF Received
  <2> QED
    BY <2>1, <2>2, <2>3
<1>3. FragmentsWhole
  <2>1. \A f \in FirstFragments(size) : f.fragsize % BLOCKSIZE = 0
    <3> SUFFICES ASSUME NEW f \in FirstFragments(size) PROVE f.fragsize % BLOCKSIZE = 0
      OBVIOUS
    <3>1. PICK n \in FIRSTBLOCKS : f.fragsize = n * BLOCKSIZE
      BY DEF FirstFragments
    <3>2. n \in Nat
      BY ReassemblyAssumption
    <3> QED
      BY <3>1, <3>2 DEF BLOCKSIZE
  <2> QED
    BY <2>1 DEF FragmentsWhole, InFlight, EndsAtBlock, Init, Copying
<1>4. LengthAgrees
  <2>1. Short(size, {}) = 0 /\ Cardinality({}) = 0
    BY FS_EmptySet DEF Short
  <2> QED
    BY <1>2, <2>1 DEF LengthAgrees, ByteCount, BLOCKSIZE
<1>5. Placed(bytes, headers, Received(block_markers), size)
  <2>1. Sizes(headers) = <<>> /\ Len(headers) = 0 /\ Len(bytes) = 0
    BY <1>2 DEF Sizes
  <2>2. <<>> \in Seq(Int) /\ Len(<<>>) = 0
    OBVIOUS
  <2>3. Offsets(<<>>)[0] = 0
    BY <2>2, OffsetsStep
  <2>4. Total(<<>>) = 0
    BY <2>2, <2>3 DEF Total
  <2>5. 1 .. Len(headers) = {}
    BY <2>1
  <2> QED
    BY <1>2, <2>1, <2>4, <2>5 DEF Placed
<1> QED
  BY <1>2, <1>3, <1>4, <1>5 DEF BytesInv, Intact, NeverOverruns

\* What pack_section asks for ends at a block's end or at the record's.
LEMMA AskedWhole ==
  ASSUME NEW n \in Nat \ {0}, NEW m \in [0 .. Blocks(n) - 1 -> Marker],
         Free(m) # {}, NEW canfit \in Nat
  PROVE  EndsAtBlock(AskedFragment(m, n, canfit), n)
<1> DEFINE first == FirstFree(m)
           free == Cardinality(Free(m))
           asked == AskedBlocks(m, canfit)
<1>1. first \in Nat /\ asked \in Nat
  <2>1. first \in 0 .. Blocks(n) - 1 /\ asked \in 0 .. Blocks(n) - first
    BY AskedIsFragment
  <2> HIDE DEF first, asked
  <2> QED
    BY <2>1
<1>2. AskedFragment(m, n, canfit) =
        [curidx |-> first * BLOCKSIZE,
         fragsize |-> IF asked = free /\ asked * BLOCKSIZE > n - first * BLOCKSIZE
                        THEN n - first * BLOCKSIZE ELSE asked * BLOCKSIZE,
         rrsize |-> n]
  BY DEF AskedFragment
<1> HIDE DEF first, free, asked
<1> QED
  BY <1>1, <1>2 DEF EndsAtBlock, BLOCKSIZE

\* Every fragment in flight or being copied ends so.
LEMMA NextWhole ==
  ASSUME Inv, FragmentsWhole, [Next]_vars
  PROVE  FragmentsWhole'
<1>1. ASSUME NEW f \in responses, Arrive(f) PROVE FragmentsWhole'
  BY <1>1 DEF FragmentsWhole, InFlight, Arrive, Delivered, record, Copying
<1>2. ASSUME NEW canfit \in ROOM, Pack(canfit) PROVE FragmentsWhole'
  <2>1. /\ size' = size /\ responses' = responses /\ pc' = "idle"
    BY <1>2 DEF Pack, record
  <2>2. CASE requests' = requests
    BY <2>1, <2>2 DEF FragmentsWhole, InFlight, Copying
  <2>3. CASE requests' # requests
    <3> DEFINE f == AskedFragment(block_markers, rrsize, canfit)
    <3>1. Free(block_markers) # {} /\ requests' = requests \cup {f}
      BY <1>2, <2>3 DEF Pack
    <3>2. Opened
      BY <3>1 DEF Opened, Free
    <3>3. size \in Nat \ {0} /\ block_markers \in [0 .. Blocks(size) - 1 -> Marker]
          /\ rrsize = size /\ canfit \in Nat
      BY <3>2, SizeIsPositive, ReassemblyAssumption DEF Inv, TypeOK, MarkersFit, AllBlocks
    <3>4. EndsAtBlock(f, size)
      BY <3>1, <3>3, AskedWhole
    <3> HIDE DEF f
    <3> QED
      BY <2>1, <3>1, <3>4 DEF FragmentsWhole, InFlight, Copying
  <2> QED
    BY <2>2, <2>3
<1>3. CASE \/ Store \/ Full \/ Grow \/ OtherArrives \/ Lose \/ UNCHANGED vars
           \/ \E f \in responses : Discard(f)
           \/ \E f \in requests : Serve(f)
  <2>1. /\ size' = size /\ arrived' = arrived /\ InFlight' \subseteq InFlight
        /\ Copying' => Copying
    <3>1. CASE Store
      BY <3>1 DEF Store, record, network, InFlight, Copying
    <3>2. CASE Full \/ Grow \/ OtherArrives \/ UNCHANGED vars
      BY <3>2 DEF Copying, Full, Grow, OtherArrives, vars, record, network, handler, InFlight
    <3>3. CASE Lose
      BY <3>3 DEF Lose, record, handler, InFlight, Copying
    <3>4. CASE \E f \in responses : Discard(f)
      BY <3>4 DEF Discard, record, handler, InFlight, Copying
    <3>5. CASE \E f \in requests : Serve(f)
      BY <3>5 DEF Serve, Delivered, record, handler, InFlight, Copying
    <3> QED
      BY <1>3, <3>1, <3>2, <3>3, <3>4, <3>5
  <2> QED
    BY <2>1 DEF FragmentsWhole
<1> QED
  BY <1>1, <1>2, <1>3 DEF Next, Handler

\* What storing a fragment does to the buffer.
LEMMA StoreBytes ==
  ASSUME Inv, BytesInv, Store, ~is_complete
  PROVE  LET stored == bytes \o Data(arrived)
             frags == Append(headers, [frag_start |-> arrived.curidx,
                                       frag_size |-> arrived.fragsize])
             got == Received(block_markers) \cup Span(arrived)
         IN  /\ Placed(stored, frags, got, size)
             /\ Len(stored) = ByteCount(size, got)
             /\ stored \in Seq(Int) /\ frags \in Seq(Header)
             /\ Len(stored) <= bytes_capacity
             /\ \A i \in DOMAIN frags : frags[i].frag_start + frags[i].frag_size <= size
<1> DEFINE frag == [frag_start |-> arrived.curidx, frag_size |-> arrived.fragsize]
           stored == bytes \o Data(arrived)
           frags == Append(headers, frag)
           old == Received(block_markers)
           got == old \cup Span(arrived)
<1>1. FragmentOf(arrived, size) /\ EndsAtBlock(arrived, size) /\ size \in Nat \ {0}
      /\ old \cap Span(arrived) = {} /\ IsFiniteSet(old)
  BY SizeIsPositive, ReceivedFinite
     DEF Store, Inv, BytesInv, FragmentsWhole, FragmentsFit, CopyIsNew, Copying
<1>2. bytes \in Seq(Int) /\ headers \in Seq(Header) /\ bytes_capacity \in Nat
  BY DEF Inv, TypeOK, Header
<1>3. arrived.fragsize \in Nat /\ arrived.curidx \in Nat /\ frag \in Header
  BY <1>1 DEF FragmentOf, Fragment, Header
<1>4. Data(arrived) \in Seq(Int) /\ Len(Data(arrived)) = arrived.fragsize
  BY <1>3, DataBytes
<1>5. stored \in Seq(Int) /\ Len(stored) = Len(bytes) + arrived.fragsize
      /\ frags \in Seq(Header)
  <2>1. frags \in Seq(Header)
    <3> HIDE DEF frag
    <3> QED
      BY <1>2, <1>3
  <2>2. stored \in Seq(Int) /\ Len(stored) = Len(bytes) + arrived.fragsize
    <3> DEFINE d == Data(arrived)
    <3>1. d \in Seq(Int) /\ Len(d) = arrived.fragsize
      BY <1>4
    <3> HIDE DEF d
    <3>2. bytes \o d \in Seq(Int) /\ Len(bytes \o d) = Len(bytes) + Len(d)
      BY <1>2, <3>1, ConcatProperties, Zenon
    <3> QED
      BY <3>1, <3>2 DEF d
  <2> QED
    BY <2>1, <2>2
<1>6. Placed(stored, frags, got, size)
  BY <1>1, <1>2, PlaceOne DEF BytesInv
<1>7. Len(stored) = ByteCount(size, got)
  <2>1. ByteCount(size, got) = ByteCount(size, old) + arrived.fragsize
    BY <1>1, ByteCountAdds
  <2> QED
    BY <1>5, <2>1 DEF BytesInv, LengthAgrees
<1>8. Len(stored) <= bytes_capacity
  BY <1>5 DEF Store, Fits, bytes_received
<1> HIDE DEF stored, frags, got
<1>9. \A i \in DOMAIN frags : frags[i].frag_start + frags[i].frag_size <= size
  BY <1>5, <1>6 DEF Placed
<1> QED
  BY <1>5, <1>6, <1>7, <1>8, <1>9 DEF stored, frags, got

\* All fragments of a full record fit in the buffer; whoever writes beyond one
\* writes through a pointer that no longer is good.
LEMMA StoreUndefined ==
  ASSUME Inv, BytesInv, Store, status' = "undefined"
  PROVE  NeverOverruns'
<1> DEFINE frags == Append(headers, [frag_start |-> arrived.curidx,
                                     frag_size |-> arrived.fragsize])
           got == Received(block_markers) \cup Span(arrived)
           count == blocks_received + LastBlockIdx(arrived) - BlockIdx(arrived)
           overrun == \E i \in DOMAIN frags :
                        frags[i].frag_start + frags[i].frag_size > bytes_capacity
<1>1. SUFFICES ASSUME {"bytes", "headers"} \subseteq live' PROVE FALSE
  BY DEF NeverOverruns
<1>2. PICK moved \in IF HeadersFull THEN MOVES ELSE {FALSE} :
        /\ ~({"bytes", "headers"} \subseteq live /\ ~moved) \/ (count = expected_blocks /\ overrun)
        /\ live' = IF moved THEN live \ {"headers"} ELSE live
  BY DEF Store, Running
<1>3. {"bytes", "headers"} \subseteq live /\ count = expected_blocks /\ overrun
  BY <1>1, <1>2
<1>4. ~is_complete /\ pc = "copy" /\ size \in Nat \ {0}
  BY <1>3, SizeIsPositive DEF Inv, HeadersFreed, Store
<1>5. /\ Len(bytes \o Data(arrived)) = ByteCount(size, got)
      /\ bytes \o Data(arrived) \in Seq(Int)
      /\ Len(bytes \o Data(arrived)) <= bytes_capacity
      /\ frags \in Seq(Header)
      /\ \A i \in DOMAIN frags : frags[i].frag_start + frags[i].frag_size <= size
  BY <1>4, StoreBytes
<1>6. Opened /\ got \subseteq AllBlocks /\ count = Cardinality(got)
  BY <1>4, CopyCount, ReceivedFinite DEF Inv
<1>7. expected_blocks = Blocks(size) /\ Blocks(size) \in Nat \ {0}
  BY <1>4, <1>6, BlocksOfRecord DEF Inv, MarkersFit
<1>8. got = AllBlocks
  <2>1. IsFiniteSet(AllBlocks) /\ Cardinality(AllBlocks) = Blocks(size) - 0
    BY <1>7, IntervalSize DEF AllBlocks
  <2>2. Cardinality(got) = Cardinality(AllBlocks)
    BY <1>3, <1>6, <1>7, <2>1
  <2> HIDE DEF got
  <2> QED
    BY <1>6, <2>1, <2>2, FS_Subset, Zenon
<1>9. size <= bytes_capacity
  BY <1>4, <1>5, <1>8, AllBytes DEF AllBlocks
<1>10. bytes_capacity \in Nat /\ \A i \in DOMAIN frags :
         frags[i].frag_start + frags[i].frag_size \in Nat
  <2>1. \A i \in DOMAIN frags : frags[i] \in Header
    BY <1>5
  <2> HIDE DEF frags
  <2> QED
    BY <2>1 DEF Header, Inv, TypeOK
<1> HIDE DEF frags
<1> QED
  BY <1>3, <1>4, <1>5, <1>9, <1>10

\* copy_section stores the fragment, and puts the record together if it was
\* the last one.
LEMMA StoreDefined ==
  ASSUME Inv, BytesInv, FragmentsWhole', Store, status' # "undefined"
  PROVE  BytesInv'
<1> DEFINE stored == bytes \o Data(arrived)
           frags == Append(headers, [frag_start |-> arrived.curidx,
                                     frag_size |-> arrived.fragsize])
           got == Received(block_markers) \cup Span(arrived)
           count == blocks_received + LastBlockIdx(arrived) - BlockIdx(arrived)
           last == count = expected_blocks
<1>1. ~is_complete /\ pc = "copy" /\ size \in Nat \ {0} /\ status = "running"
  BY StoreNotComplete, SizeIsPositive DEF Inv, Store, Running
<1>2. /\ Received(block_markers)' = got
      /\ size' = size /\ status' = status /\ is_complete' = last
      /\ headers' = frags
      /\ bytes' = IF last THEN Scatter(stored, frags) ELSE stored
  <2>1. /\ Received(block_markers)' = got /\ size' = size /\ status' = status
        /\ is_complete' = (is_complete \/ blocks_received' = expected_blocks)
        /\ blocks_received' = count
    BY StoreEffect
  <2>2. headers' = frags /\ bytes' = IF last THEN Scatter(stored, frags) ELSE stored
    BY DEF Store
  <2> QED
    BY <1>1, <2>1, <2>2
<1>3. /\ Placed(stored, frags, got, size) /\ Len(stored) = ByteCount(size, got)
      /\ stored \in Seq(Int) /\ frags \in Seq(Header)
  BY <1>1, StoreBytes
<1>4. last => got = 0 .. Blocks(size) - 1
  <2>1. Opened /\ got \subseteq AllBlocks /\ count = Cardinality(got)
    BY <1>1, CopyCount, ReceivedFinite DEF Inv
  <2>2. expected_blocks = Blocks(size) /\ Blocks(size) \in Nat \ {0}
    BY <1>1, <2>1, BlocksOfRecord DEF Inv, MarkersFit
  <2>3. IsFiniteSet(AllBlocks) /\ Cardinality(AllBlocks) = Blocks(size) - 0
    BY <2>2, IntervalSize DEF AllBlocks
  <2>4. last => Cardinality(got) = Cardinality(AllBlocks)
    BY <2>1, <2>2, <2>3
  <2> HIDE DEF got
  <2> QED
    BY <2>1, <2>3, <2>4, FS_Subset DEF AllBlocks
<1> HIDE DEF stored, frags, got, count
<1>5. CASE last
  <2>1. Placed(stored, frags, 0 .. Blocks(size) - 1, size)
        /\ Len(stored) = ByteCount(size, 0 .. Blocks(size) - 1)
    BY <1>3, <1>4, <1>5
  <2>2. Len(stored) = size
    BY <1>1, <2>1, AllBytes
  <2>3. bytes' = [k \in 1 .. size |-> k - 1]
    BY <1>1, <1>2, <1>3, <1>5, <2>1, <2>2, ScatterExact
  <2>4. bytes' \in [1 .. size -> Int] /\ Len(bytes') = size
    BY <1>1, <2>3
  <2>5. LengthAgrees'
    BY <1>2, <1>3, <2>2, <2>4 DEF LengthAgrees, ByteCount, Short
  <2> QED
    BY <1>1, <1>2, <1>5, <2>3, <2>5 DEF BytesInv, Intact, NeverOverruns
<1>6. CASE ~last
  <2>1. LengthAgrees'
    BY <1>2, <1>3, <1>6 DEF LengthAgrees, ByteCount, Short
  <2>2. Placed(bytes, headers, Received(block_markers), size)'
    BY <1>2, <1>3, <1>6
  <2> QED
    BY <1>1, <1>2, <1>6, <2>1, <2>2 DEF BytesInv, Intact, NeverOverruns
<1> QED
  BY <1>5, <1>6

\* The other steps write neither to bytes nor to the headers.
LEMMA OtherBytes ==
  ASSUME Inv, BytesInv, FragmentsWhole', [Next]_vars, ~Store
  PROVE  BytesInv'
<1>1. UNCHANGED <<size, is_complete, bytes>>
      /\ Received(block_markers)' = Received(block_markers)
  BY OnlyStoreReceives
<1>2. headers' = headers
      /\ \/ status' # "undefined"
         \/ status' = status /\ live' = live
  <2>1. ASSUME NEW f \in responses, Arrive(f) \/ Discard(f)
        PROVE  headers' = headers
               /\ (status' # "undefined" \/ (status' = status /\ live' = live))
    <3>1. CASE Arrive(f)
      <4>1. headers' = headers /\ status = "running"
            /\ (status' = "aborted" \/ status' = status)
        BY <3>1 DEF Arrive, Running
      <4> QED
        BY <4>1
    <3>2. CASE Discard(f)
      BY <3>2 DEF Discard, buffers, handler
    <3> QED
      BY <2>1, <3>1, <3>2
  <2>2. ASSUME NEW canfit \in ROOM, Pack(canfit)
        PROVE  headers' = headers /\ status' = status /\ live' = live
    BY <2>2 DEF Pack, buffers
  <2>3. CASE Full \/ Grow
    BY <2>3 DEF Full, Grow, Running, buffers
  <2>4. CASE OtherArrives \/ Lose \/ UNCHANGED vars \/ \E f \in requests : Serve(f)
    BY <2>4 DEF OtherArrives, Lose, Serve, vars, buffers, handler
  <2> QED
    BY <2>1, <2>2, <2>3, <2>4 DEF Next, Handler
<1>3. LengthAgrees' /\ Intact'
  BY <1>1 DEF BytesInv, LengthAgrees, ByteCount, Short, Intact
<1>4. NeverOverruns'
  BY <1>2 DEF BytesInv, NeverOverruns
<1>5. (~is_complete => Placed(bytes, headers, Received(block_markers), size))'
  BY <1>1, <1>2 DEF BytesInv
<1> QED
  BY <1>3, <1>4, <1>5 DEF BytesInv

\* Together.
LEMMA NextBytes == Inv /\ BytesInv /\ [Next]_vars => BytesInv'
<1> SUFFICES ASSUME Inv, BytesInv, [Next]_vars PROVE BytesInv'
  OBVIOUS
<1>1. FragmentsWhole'
  BY NextWhole DEF BytesInv
<1>2. CASE Store /\ status' = "undefined"
  <2>1. UNCHANGED <<size, is_complete, bytes>>
        /\ Received(block_markers)' = Received(block_markers)
    BY <1>2, OnlyStoreReceives
  <2>2. headers' = headers
    BY <1>2 DEF Store, Running
  <2>3. NeverOverruns'
    BY <1>2, StoreUndefined
  <2>4. LengthAgrees' /\ Intact'
    BY <2>1 DEF BytesInv, LengthAgrees, ByteCount, Short, Intact
  <2>5. (~is_complete => Placed(bytes, headers, Received(block_markers), size))'
    BY <2>1, <2>2 DEF BytesInv
  <2> QED
    BY <1>1, <2>3, <2>4, <2>5 DEF BytesInv
<1> QED
  BY <1>1, <1>2, StoreDefined, OtherBytes

-----------------------------------------------------------------------------
\* The buffer always holds the bytes of the blocks received, each fragment's
\* where copy_section will look for it.
THEOREM BytesInvariance == Spec => []BytesInv
  BY InitBytes, NextBytes, Invariance, PTL DEF Spec

\* The doubling of bytes makes it large enough, for the fragment and for the
\* record: the only undefined writes of copy_section are those through a
\* pointer that realloc or the end of an earlier reassembly left dangling.
THEOREM NeverOverrunsHolds == Spec => []NeverOverruns
<1>1. BytesInv => NeverOverruns
  BY DEF BytesInv
<1> QED
  BY <1>1, BytesInvariance, PTL

\* The record put together is the responder's byte for byte, for every length
\* and every order in which its fragments come.
THEOREM IntactHolds == Spec => []Intact
<1>1. BytesInv => Intact
  BY DEF BytesInv
<1> QED
  BY <1>1, BytesInvariance, PTL
=============================================================================
