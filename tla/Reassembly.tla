----------------------------- MODULE Reassembly -----------------------------
(***************************************************************************)
(* One resource record on its way from responder to requester.             *)
(*                                                                         *)
(* The responder's first response carries the record's first blocks (or    *)
(* none of them: fragsize 0); the requester copies each fragment it gets   *)
(* into a PartialRR (copy_section) and asks for what is missing, one       *)
(* fragment of this record per follow-up query at most (pack_section); the *)
(* responder answers a query by the bytes it names (process_dns_message).  *)
(* Datagrams are UDP: they may be lost, duplicated and reordered.          *)
(*                                                                         *)
(* The daemon handles one packet at a time (the poll loop of main), so the *)
(* handler's steps, separated by pc, interleave with the network and the   *)
(* responder only.                                                         *)
(***************************************************************************)
EXTENDS PartialRR, Sequences, SequencesExt

CONSTANTS
  RRSIZES,      \* lengths the record may have, in bytes
  FIRSTBLOCKS,  \* numbers of blocks the first response may carry
  ROOM,         \* bytes that may be left in a follow-up query for this record
  OTHERS,       \* another record of the message is incomplete all along
  LOSSY,        \* the network may lose datagrams
  DUPLICATES,   \* the network may deliver a datagram twice
  MOVES         \* whether realloc moved the block: the outcomes considered

ASSUME ReassemblyAssumption ==
  /\ RRSIZES \subseteq Nat \ {0}
  /\ FIRSTBLOCKS \subseteq Nat
  /\ ROOM \subseteq Nat
  /\ {OTHERS, LOSSY, DUPLICATES} \subseteq BOOLEAN
  /\ MOVES \subseteq BOOLEAN

VARIABLES
  size,               \* responder: length of the cached record
  requests,           \* network: fragments asked for
  responses,          \* network: fragments on their way to the requester
  twice,              \* network: some datagram was delivered and a copy stayed
  block_markers,      \* PartialRR; empty until the first fragment (NULL)
  expected_blocks,    \* PartialRR
  blocks_received,    \* PartialRR
  rrsize,             \* PartialRR
  bytes,              \* PartialRR: contents, byte k of the record written k
  bytes_capacity,     \* PartialRR: bytes of memory allocated for bytes
  headers,            \* PartialRR: frag_start and frag_size of each fragment
  headers_capacity,   \* PartialRR
  is_complete,        \* PartialRR
  live,               \* which of bytes and headers point at allocated memory
  arrived,            \* handler: the fragment being copied
  pc,                 \* handler: where it is
  status              \* whether the process still runs

record == <<size>>
network == <<requests, responses, twice>>
markers == <<block_markers, expected_blocks, blocks_received, rrsize>>
buffers == <<bytes, bytes_capacity, headers, headers_capacity, live>>
handler == <<arrived, pc, status>>
vars == <<record, network, markers, buffers, is_complete, handler>>

NoFragment == [curidx |-> 0, fragsize |-> 0, rrsize |-> 0]
Running == status = "running"

bytes_received == Len(bytes)

\* The bytes of the record a fragment carries.
Data(f) == [k \in 1 .. f.fragsize |-> f.curidx + k - 1]
-----------------------------------------------------------------------------
(***************************************************************************)
(* Initially the first response is in flight.  The responder fragments a   *)
(* record only after whole blocks and never sends all of it that way (its  *)
(* fragsize is at most rdsize, which is less than the record's length).    *)
(***************************************************************************)
FirstFragments(n) ==
  {[curidx |-> 0, fragsize |-> k * BLOCKSIZE, rrsize |-> n] :
     k \in {b \in FIRSTBLOCKS : b * BLOCKSIZE < n}}

Init ==
  /\ size \in RRSIZES
  /\ \E f \in FirstFragments(size) : responses = {f}
  /\ requests = {} /\ twice = FALSE
  /\ block_markers = <<>> /\ expected_blocks = 0 /\ blocks_received = 0
  /\ rrsize = 0
  /\ bytes = <<>> /\ bytes_capacity = 0
  /\ headers = <<>> /\ headers_capacity = 0
  /\ live = {}
  /\ is_complete = FALSE
  /\ arrived = NoFragment /\ pc = "idle" /\ status = "running"

\* Once the message is complete, fragments for it are dropped.
MessageComplete == is_complete /\ ~OTHERS

\* A datagram is delivered: taken off the channel, or a copy of it stays.
Delivered(channel, f) ==
  IF DUPLICATES THEN {channel, channel \ {f}} ELSE {channel \ {f}}

Noting(channel, f) == twice' = (twice \/ f \in channel)
-----------------------------------------------------------------------------
(***************************************************************************)
(* copy_section, one fragment.  The buffers are allocated for the first    *)
(* one; then the sanity check either ends the process or lets the copy go  *)
(* on.                                                                     *)
(***************************************************************************)
Arrive(f) ==
  /\ Running /\ pc = "idle" /\ ~MessageComplete
  /\ responses' \in Delivered(responses, f)
  /\ Noting(responses', f)
  /\ LET opening == DOMAIN block_markers = {}
         found == IF opening THEN FreshMarkers(f.rrsize) ELSE block_markers
     IN  /\ block_markers' = found
         /\ expected_blocks' = IF opening THEN Blocks(f.rrsize) ELSE expected_blocks
         /\ rrsize' = IF opening THEN f.rrsize ELSE rrsize
         /\ bytes_capacity' = IF opening THEN f.fragsize ELSE bytes_capacity
         /\ headers_capacity' = IF opening THEN 1 ELSE headers_capacity
         /\ live' = IF opening THEN {"bytes", "headers"} ELSE live
         /\ \/ /\ Overwrites(found, f)
               /\ status' = "aborted"
               /\ UNCHANGED <<arrived, pc>>
            \/ /\ ~Overwrites(found, f)
               /\ arrived' = f
               /\ pc' = "copy"
               /\ UNCHANGED status
  /\ UNCHANGED <<record, requests, blocks_received, bytes, headers, is_complete>>

\* A fragment of a complete message: NF_DROP.
Discard(f) ==
  /\ Running /\ pc = "idle" /\ MessageComplete
  /\ responses' = responses \ {f}
  /\ UNCHANGED <<record, requests, twice, markers, buffers, is_complete, handler>>

\* (mutant) The buffer is taken to be large enough.
AlwaysFits == TRUE

Fits == bytes_received + arrived.fragsize <= bytes_capacity

\* The test of the loop that makes room finds too little of it.
Full ==
  /\ Running /\ pc = "copy" /\ ~Fits /\ pc' = "grow"
  /\ UNCHANGED <<record, network, markers, buffers, is_complete, arrived, status>>

(***************************************************************************)
(* The body of that loop, which doubles the buffer.  The result of realloc *)
(* is thrown away: when the block moved, or when its size became zero and  *)
(* it was freed, bytes points at freed memory.  A realloc of such a        *)
(* pointer is undefined: the allocator goes on, or notices and aborts.     *)
(***************************************************************************)
Grow ==
  /\ Running /\ pc = "grow" /\ pc' = "copy"
  /\ bytes_capacity' = 2 * bytes_capacity
  /\ \/ /\ "bytes" \in live
        /\ \E moved \in IF bytes_capacity = 0 THEN {TRUE} ELSE MOVES :
             live' = IF moved THEN live \ {"bytes"} ELSE live
        /\ UNCHANGED status
     \/ /\ "bytes" \notin live
        /\ status' \in {"running", "aborted"}
        /\ UNCHANGED live
  /\ UNCHANGED <<record, network, markers, bytes, headers, headers_capacity,
                 is_complete, arrived>>

\* The array of headers is full; as for bytes, the result of realloc is lost.
HeadersFull == Len(headers) + 1 > headers_capacity

\* Putting the fragments in order.  The unsorted buffer holds the fragments'
\* bytes one after another; each fragment is copied to its frag_start in the
\* new buffer, over what an earlier one put there.  Bytes no fragment fills,
\* and bytes beyond what was received, are junk.
Junk == -1

\* (mutant) Every fragment's bytes are taken from the start of the buffer.
FromStart(frags) == [i \in 1 .. Len(frags) |-> 0]

ByteIdx(frags) ==
  LET sizes == [i \in 1 .. Len(frags) |-> frags[i].frag_size]
  IN  [i \in 1 .. Len(frags) |-> Offsets(sizes)[i - 1]]

Scatter(unsorted, frags) ==
  LET byteidx == ByteIdx(frags)
      filling(b) == {i \in DOMAIN frags :
                       b - frags[i].frag_start \in 0 .. frags[i].frag_size - 1}
  IN  [k \in 1 .. Len(unsorted) |->
         IF filling(k - 1) = {} THEN Junk
         ELSE LET i == Max(filling(k - 1))
                  at == byteidx[i] + k - frags[i].frag_start
              IN  IF at \in DOMAIN unsorted THEN unsorted[at] ELSE Junk]

(***************************************************************************)
(* The rest of copy_section for the fragment: append its bytes and its     *)
(* header, mark its blocks, and put the record together if it was the last *)
(* one.  Writing through a pointer to freed memory, or beyond the buffer,  *)
(* is undefined and the model follows the process no further.              *)
(***************************************************************************)
Store ==
  /\ Running /\ pc = "copy" /\ Fits
  /\ \E moved \in IF HeadersFull THEN MOVES ELSE {FALSE} :
       LET usable == {"bytes", "headers"} \subseteq live /\ ~moved
           stored == bytes \o Data(arrived)
           frags == Append(headers, [frag_start |-> arrived.curidx,
                                     frag_size |-> arrived.fragsize])
           count == blocks_received + LastBlockIdx(arrived) - BlockIdx(arrived)
           last == count = expected_blocks
           overrun == \E i \in DOMAIN frags :
                        frags[i].frag_start + frags[i].frag_size > bytes_capacity
       IN  \/ /\ ~usable \/ (last /\ overrun)
              /\ status' = "undefined"
              /\ live' = IF moved THEN live \ {"headers"} ELSE live
              /\ UNCHANGED <<markers, bytes, bytes_capacity, headers,
                             headers_capacity, is_complete, pc>>
           \/ /\ usable /\ ~(last /\ overrun)
              /\ headers_capacity' = IF HeadersFull THEN 2 * headers_capacity
                                                    ELSE headers_capacity
              /\ headers' = frags
              /\ block_markers' = Mark(block_markers, Span(arrived), BLOCKRECVD)
              /\ blocks_received' = count
              /\ is_complete' = (is_complete \/ last)
              /\ bytes' = IF last THEN Scatter(stored, frags) ELSE stored
              /\ live' = IF last THEN {"bytes"} ELSE live
              /\ pc' = "pack"
              /\ UNCHANGED <<expected_blocks, rrsize, bytes_capacity, status>>
  /\ UNCHANGED <<record, network, arrived>>

(***************************************************************************)
(* pack_section reaches this record with canfit bytes left in the query:   *)
(* it asks for free blocks, or for nothing when there are none or no block *)
(* fits.  A complete record is not considered.                             *)
(***************************************************************************)
Pack(canfit) ==
  /\ Running /\ pc = "pack"
  /\ pc' = "idle"
  /\ \/ /\ is_complete \/ Free(block_markers) = {} \/ canfit < BLOCKSIZE
        /\ UNCHANGED <<requests, block_markers>>
     \/ /\ ~is_complete /\ Free(block_markers) # {} /\ canfit >= BLOCKSIZE
        /\ requests' = requests \cup {AskedFragment(block_markers, rrsize, canfit)}
        /\ block_markers' = Mark(block_markers, AskedSpan(block_markers, canfit),
                                 BLOCKWAITING)
  /\ UNCHANGED <<record, responses, twice, expected_blocks, blocks_received,
                 rrsize, buffers, is_complete, arrived, status>>

\* A fragment of another record of the message was copied: the handler goes
\* on to pack the next query with this record in it.
OtherArrives ==
  /\ OTHERS
  /\ Running /\ pc = "idle" /\ DOMAIN block_markers # {}
  /\ pc' = "pack"
  /\ UNCHANGED <<record, network, markers, buffers, is_complete, arrived, status>>

\* The responder answers a fragment of a follow-up query from its cache.
Serve(f) ==
  /\ requests' \in Delivered(requests, f)
  /\ Noting(requests', f)
  /\ responses' = responses \cup {f}
  /\ UNCHANGED <<record, markers, buffers, is_complete, handler>>

\* A datagram is lost.
Lose ==
  /\ LOSSY /\ UNCHANGED twice
  /\ \/ \E f \in requests : requests' = requests \ {f} /\ UNCHANGED responses
     \/ \E f \in responses : responses' = responses \ {f} /\ UNCHANGED requests
  /\ UNCHANGED <<record, markers, buffers, is_complete, handler>>

Handler ==
  \/ \E f \in responses : Arrive(f) \/ Discard(f)
  \/ Full \/ Grow
  \/ Store
  \/ \E canfit \in ROOM : Pack(canfit)

Next ==
  \/ Handler
  \/ OtherArrives
  \/ \E f \in requests : Serve(f)
  \/ Lose

Spec == Init /\ [][Next]_vars

(***************************************************************************)
(* The poll loop reads every packet the queue holds, and runs each handler *)
(* to its end; the responder does the same.  Only used without loss.       *)
(***************************************************************************)
FairSpec ==
  /\ Spec
  /\ WF_vars(Handler)
  /\ WF_vars(\E f \in requests : Serve(f))
-----------------------------------------------------------------------------
\* The shape of every variable.
TypeOK ==
  /\ size \in RRSIZES
  /\ requests \subseteq Fragment
  /\ responses \subseteq Fragment
  /\ twice \in BOOLEAN
  /\ block_markers \in [DOMAIN block_markers -> Marker]
  /\ expected_blocks \in Nat
  /\ blocks_received \in Nat
  /\ rrsize \in Nat
  /\ bytes \in Seq(Int)
  /\ bytes_capacity \in Nat
  /\ headers \in Seq([frag_start : Nat, frag_size : Nat])
  /\ headers_capacity \in Nat
  /\ live \subseteq {"bytes", "headers"}
  /\ is_complete \in BOOLEAN
  /\ arrived \in Fragment
  /\ pc \in {"idle", "copy", "grow", "pack"}
  /\ status \in {"running", "aborted", "undefined"}

\* The assertion of copy_section's completion branch: a record taken to be
\* complete because the counts agree really has every block, even when
\* datagrams come twice, late or never.  (ImplementsTransfer says more.)
CompleteIsFull ==
  is_complete => Received(block_markers) = 0 .. Blocks(size) - 1

\* pack_section counts all free blocks but asks for, and marks, the run that
\* starts at the first one: the free blocks have to be the record's tail.
FreeIsTail ==
  \A j \in Free(block_markers), k \in DOMAIN block_markers :
    j < k => k \in Free(block_markers)

InFlight == requests \cup responses

\* While no datagram came twice, a block is asked for at most once: whatever
\* is in flight after the first fragment fills only blocks marked as waiting,
\* and no block twice.
AskedOnce ==
  ~twice /\ DOMAIN block_markers # {} =>
    \A f \in InFlight :
      /\ Span(f) \subseteq Waiting(block_markers)
      /\ \A g \in InFlight : f # g => Span(f) \cap Span(g) = {}

\* Only a datagram that came twice, or an allocator that noticed a pointer to
\* a block it had moved, ends the process: the sanity check ("block wasn't
\* waiting for data") never does so by itself.
NeverAborts == status = "aborted" => twice \/ "bytes" \notin live

\* Every buffer is large enough: no write is undefined, neither past a
\* buffer's end when a fragment is stored nor when the last one is placed,
\* unless realloc moved a block and left a dangling pointer to it.
NeverOverruns == status = "undefined" => ~ {"bytes", "headers"} \subseteq live

\* The reassembled record is the responder's, byte for byte, in whatever
\* order its fragments came.
Intact == is_complete => bytes = [k \in 1 .. size |-> k - 1]

\* What has been received is never asked for or awaited again, and a record
\* once put together is not touched.
ReceivedStays ==
  [][ /\ Received(block_markers) \subseteq Received(block_markers')
      /\ is_complete => is_complete' /\ bytes' = bytes ]_vars

\* Making room for a fragment takes finitely many turns of the loop: whatever
\* passes the sanity check is copied in the end, if nothing ends the process.
GrowthEnds == Running /\ pc \in {"copy", "grow"} ~> pc = "pack" \/ ~Running

(***************************************************************************)
(* The markers implement the transfer of a set of blocks.                  *)
(***************************************************************************)
Transfer ==
  INSTANCE BlockTransfer WITH
    pieces <- 0 .. Blocks(size) - 1,
    got <- Received(block_markers),
    done <- is_complete

ImplementsTransfer == Transfer!TransferSpec
=============================================================================
