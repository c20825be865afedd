----------------------------- MODULE PartialRR -----------------------------
(***************************************************************************)
(* The block accounting of one partially received resource record: the     *)
(* struct PartialRR of pqc-dynamic/src/daemon.c and the arithmetic that    *)
(* copy_section and pack_section do on it.  A record of n bytes is cut     *)
(* into blocks of BLOCKSIZE bytes, the last of which may be short; a       *)
(* fragment names the bytes curidx .. curidx + fragsize - 1 of it.         *)
(*                                                                         *)
(* Only operators, no state: Reassembly and Requester use them.            *)
(*                                                                         *)
(* An operator marked (mutant) is a likely mistake in the one after it.    *)
(* Nothing uses it: put in its place it makes a property fail, which shows *)
(* that the property depends on the code's getting it right.               *)
(***************************************************************************)
EXTENDS Integers, FiniteSets, Sequences

BLOCKSIZE == 32

\* Values of block_markers[j]: received, not requested, requested.
BLOCKRECVD == 0
BLOCKFREE == -1
BLOCKWAITING == 1
Marker == {BLOCKRECVD, BLOCKFREE, BLOCKWAITING}

\* Number of blocks of n bytes: ceil(n / (double)BLOCKSIZE).
Blocks(n) == (n + BLOCKSIZE - 1) \div BLOCKSIZE

\* A fragment as it travels (struct RRFrag, without its rrid and its data).
Fragment == [curidx : Nat, fragsize : Nat, rrsize : Nat]

BlockIdx(f) == f.curidx \div BLOCKSIZE
LastBlockIdx(f) == BlockIdx(f) + Blocks(f.fragsize)

\* The blocks a fragment fills.
Span(f) == BlockIdx(f) .. LastBlockIdx(f) - 1

\* A block_markers array just allocated for a record of n bytes.
FreshMarkers(n) == [j \in 0 .. Blocks(n) - 1 |-> BLOCKFREE]

Received(markers) == {j \in DOMAIN markers : markers[j] = BLOCKRECVD}
\* (mutant) Blocks asked for count as free until they arrive.
NotReceived(markers) == {j \in DOMAIN markers : markers[j] # BLOCKRECVD}

Free(markers) == {j \in DOMAIN markers : markers[j] = BLOCKFREE}
Waiting(markers) == {j \in DOMAIN markers : markers[j] = BLOCKWAITING}

\* (mutant) Nothing is checked.
NeverOverwrites(markers, f) == FALSE

\* The sanity check of copy_section fails: the fragment would overwrite
\* something already received.
Overwrites(markers, f) == \E j \in Span(f) : markers[j] = BLOCKRECVD

Mark(markers, blocks, value) ==
  [j \in DOMAIN markers |-> IF j \in blocks THEN value ELSE markers[j]]

\* (mutants) The last free block; the first block, free or not.
LastFree(markers) ==
  CHOOSE j \in Free(markers) : \A k \in Free(markers) : k <= j
FirstBlock(markers) == 0

\* pack_section on one record: the first free block, how many free blocks
\* there are, and the fragment asked for when canfit bytes of room are left.
\* It takes the free blocks to be the contiguous tail of the record.
FirstFree(markers) ==
  CHOOSE j \in Free(markers) : \A k \in Free(markers) : j <= k

\* (mutant) Blocks are asked for only when all that are free fit.
AllOrNone(markers, canfit) ==
  IF canfit \div BLOCKSIZE >= Cardinality(Free(markers))
  THEN Cardinality(Free(markers)) ELSE 0

AskedBlocks(markers, canfit) ==
  LET numblocks == Cardinality(Free(markers))
      numblockscanfit == canfit \div BLOCKSIZE
  IN  IF numblockscanfit >= numblocks THEN numblocks ELSE numblockscanfit

\* (mutant) The fragment starts after the first free block.
NextFragment(markers, rrsize, canfit) ==
  LET first == (FirstFree(markers) + 1) * BLOCKSIZE
      asked == AskedBlocks(markers, canfit)
      clipped == asked * BLOCKSIZE > rrsize - first
  IN  [curidx |-> first,
       fragsize |-> IF clipped THEN rrsize - first ELSE asked * BLOCKSIZE,
       rrsize |-> rrsize]

AskedFragment(markers, rrsize, canfit) ==
  LET first == FirstFree(markers) * BLOCKSIZE
      asked == AskedBlocks(markers, canfit)
      clipped == /\ asked = Cardinality(Free(markers))
                 /\ asked * BLOCKSIZE > rrsize - first
  IN  [curidx |-> first,
       fragsize |-> IF clipped THEN rrsize - first ELSE asked * BLOCKSIZE,
       rrsize |-> rrsize]

\* (mutant) One block too few is marked.
ShortSpan(markers, canfit) ==
  FirstFree(markers) .. FirstFree(markers) + AskedBlocks(markers, canfit) - 2

\* The blocks pack_section marks BLOCKWAITING for that fragment.
AskedSpan(markers, canfit) ==
  FirstFree(markers) .. FirstFree(markers) + AskedBlocks(markers, canfit) - 1

-----------------------------------------------------------------------------
\* Where each of some things laid one after another begins, counted from 0,
\* and where the last one ends.
Offsets(sizes) ==
  LET at[i \in 0 .. Len(sizes)] == IF i = 0 THEN 0 ELSE at[i - 1] + sizes[i]
  IN  at

Total(sizes) == Offsets(sizes)[Len(sizes)]
=============================================================================
