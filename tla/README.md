# A formal model of the ARRF daemon

`pqc-dynamic/src/daemon.c` is a sidecar that sits in front of a DNS server or
resolver (netfilter queue) and makes DNS messages that are too large for UDP
travel in pieces. The responder's daemon replaces records of an answer with
*fragments* (`RRFRAG`, "ARRF"); the requester's daemon collects the fragments,
asks for the missing ones in follow-up queries, and hands the client one whole
message. This directory holds TLA+ modules of that protocol, TLC runs that check
it on small instances, and theorems about it checked by TLAPS.

Source lines are those of `src/pqc-dynamic/src/daemon.c` unless another file is
named. `PROJECT.json` maps every definition to its lines.

## 1. Inventory

| part | state it keeps | operations | what makes it correct |
|---|---|---|---|
| reassembly of a record, `copy_section`, `pack_section` (165-338, 868-962) | `PartialRR`: `block_markers` (received, free, waiting), counters, an unsorted buffer that doubles, an array of fragment headers | copy a fragment; put the record together when the counts agree; ask for the next blocks that fit | complete means every block, in its place; no block asked for twice; received blocks stay; no write out of bounds |
| requester, `process_dns_message`, `requester_thread` (964-1137, 1459-1483, 1580-1604) | `requester_state`: a `PartialDNSMessage` for each 16-bit id | register a query; copy a response; pack and send a follow-up query; send the whole message through the daemon's own queue; end the transaction | a client gets the whole answer in order; one thing at a time under way; state released; follow-ups ask for something |
| responder, `insert_into_state...`, `responding_thread_*`, served queries (1139-1363, 1487-1574) | `responder_cache`: rrid to record; `connection_info` | put a query to the name server; enter the records of its answer; shrink the answer; send; serve fragments | the response fits; fragments are usable; an rrid stands for one record |
| connection table (477-602, 729-777) | `connection_info`: (question hash, port) to socket and headers | open, look up, poll, close | one entry for one socket; every connection answered and closed |
| dispatch (1365-1684) | none of its own | a branch and a verdict for each packet | own packets accepted, consumed ones dropped; fragments never reach a client or a name server |
| hash map (`lib/hashmap/src/map.c`) | open addressing with tombstones, a linked list in order of insertion | get, set, remove, iterate, resize | an ordered partial function; searches end |
| codecs (`dns_message.c`, `resource_record.c`, `rrfrag.c`, `packedrr.c`, `question.c`) | none | to and from bytes | what is written is read back, to the last byte; lengths agree with the accounting of the daemon |
| raw sockets, checksums (604-727), start-up (1691-1766) | socket | send; `poll` loop | I/O |
| `test/` | | copies of the codecs, `sandbox.c` and `original.c` (variants of `copy_section`), benchmark drivers | not run in production |

**Interaction.** One process, one thread: `main` polls the netfilter queue and
runs `cb` to its end for each packet (1741-1762). The semaphores of `shared_map`
and the names `..._thread` are left from an earlier design. What runs
concurrently is everything outside: clients, the name server, the network, and
the daemon of the other side. Packets the daemon sends itself come back through
its own queue (a whole message as a plain response, a follow-up query as a query
from the client); that is how a transaction ends, and why an entry of
`requester_state` outlives the handler that completed it.

**What is hard.** UDP loses, duplicates and reorders. The protocol has no timer:
a lost follow-up is never repeated by the daemon, only by a client that starts
over. Completion is decided by comparing counters. Buffers grow by doubling. State
is keyed by an id of 16 bits that clients choose, and records by a hash of 16
bits. The arithmetic of sizes mixes unsigned and absolute values with header
lengths that differ between a record (10 and its name) and a fragment (15).
`PROJECT.json` lists the hazards at their lines with the properties that cover
them.

## 2. Modules

| module | models | state and actions |
|---|---|---|
| `PartialRR` | the arithmetic of blocks in `copy_section` and `pack_section` | operators only |
| `BlockTransfer` | what reassembling a record promises: pieces arrive, none twice, and the record is handed on when none is missing | abstract specification |
| `Reassembly` | one record between responder and requester, byte by byte | variables named as the fields of `PartialRR`, two channels, a program counter. `Arrive` (allocation, sanity check), `Full` and `Grow` (test and body of the doubling loop), `Store` (append, mark, put together), `Pack`, `OtherArrives` (a fragment of another record triggers packing), `Discard`; environment `Serve`, `Lose` |
| `Requester` | the requester's daemon with several clients | `requester_state` as a partial function from ids to `PartialDNSMessage`s. `Register`, `Accept`, `Drop`, `Receive`, then one step per record: `CopyRRFrag`, `CopyRR`; then `Complete`, or `StartPacking`, `PackOne` per record, `SendFollowUp`; environment `Ask`, `GiveUp`, `Respond`, `Lose` |
| `Responder` | the responder's daemon with several queries | `responder_cache`, the message being made, `rrids`, `cur_size`. `Start`, `Answer`, `Insert` per record, `Inserted`, `Shrink` per turn of the loop, `Fits`, `Send`, `Serve` |
| `DnsSystem` | `Requester` and `Responder` composed, and a responder that restarts with an empty cache | INSTANCEs both; its own `Serve` answers what `Requester` asks for out of `Responder`'s cache; `Restart` |
| `Dispatch` | which branch of `process_dns_message` each packet takes and with what verdict, on a resolver's and a name server's host; `connection_info`, its sockets and their descriptors | a queue of packets at a hook of a host. `Pass`, `Register`, `Clear`, `Reassemble`; `Serve`, `Forward` (open and send), `Internal` (look up, poll, close, answer); environment `Ask`, `Reply`, `Withhold` |
| `OrderedMap` | what the maps of the daemon promise | abstract specification |
| `HashMap` | `lib/hashmap/src/map.c` as the daemon compiles it (with `__HASHMAP_REMOVABLE`) | buckets, counters, linked list. `Set` (the three operations that set), `hashmap_get`, `hashmap_remove`; growth is `StartResize`, one `MoveEntry` per old bucket, and `FinishResize`, the call that asked for it |
| `Codec` | `dns_message_to_bytes` and `dns_message_from_bytes` with what they call, byte by byte | `Write` makes the bytes; `ReadHeader`, `ReadQuestion` and `ReadRecord` per question and record, `EndQuestions`, `Create` |
| `Selection` | the elements of a sequence that pass a test, as `SelectSeq` gives them, by a recursive function proofs can unfold; `HashMap` and `OrderedMap` use it for what is left of a list | operators only |
| `Lemmas` | lemmas on sets of numbers and on the operators of `PartialRR` | |
| `ReassemblyProofs`, `RequesterProofs`, `ResponderProofs`, `HashMapProofs`, `DispatchProofs`, `CodecProofs`, `SystemProofs` | theorems | section 4 |
| `MC...` | one for each checked module: records, messages, keys and sizes for TLC | |

Composition: `Reassembly` and `Requester` use `PartialRR`; `DnsSystem` instantiates
`Requester` and `Responder`. `Dispatch` takes from them only whether a response
is fragmented and how many follow-up queries it needs. All modules use the maps as
partial functions, which is what `HashMap` is shown to be.

An operator whose comment begins with `(mutant)` is a likely mistake in the
definition that follows it. No specification uses it: put in place of that
definition it makes a property fail, which shows the property depends on what
the code does there (`PROJECT.json`, "mutants").

### Correspondence with the code, and what is abstracted

* `copy_section` uses the fields `bytes_capacity`, `headers`, `num_headers` and
  `headers_capacity` of `PartialRR`, which `daemon.c` does not declare; they are
  those of `test/sandbox.h`, initialised as in `test/sandbox.c:53-72`. `Reassembly`
  has them. In `Requester`, where a buffer is the blocks it holds, of its size only this matters:
  one allocated for an empty fragment (`noroom`) has no room ever after.
* A record's contents are byte numbers in `Reassembly`, sets of (record, block)
  in `Requester` and `DnsSystem`, sizes in `Responder`, bytes in `Codec`. Names and
  types otherwise matter only by their length. A record with parts of another, or
  not all of it, is `GARBLED`.
* `copy_section` asserts that a record it takes to be complete has no block that is
  not received (260-262). `Requester` has that assertion in `Outcome`; where a record
  is received more than once (shared ids, duplicates) it can fail.
* Undefined behaviour ends a behaviour of the model: `status` becomes
  `"undefined"` (a write through a pointer that is freed or out of bounds, an
  uninitialised variable), `"crashed"` (a NULL pointer), `"hung"` (a loop that
  cannot end) or `"aborted"` (`ERROR`, `assert`). Reallocating a freed pointer
  either goes on or aborts. Properties say which of these can happen.
* The handler is one step per record or loop turn in `Reassembly`, `Requester`,
  `Responder` and `DnsSystem`: nothing interrupts it in the code; in the model only
  the network and the other daemon move meanwhile, which the handler does not look
  at. In `Dispatch` a handler is one step, because there what matters is the order
  of packets.
* In `Requester` the far side is the environment. Its first responses are those
  `Responder` shows to be possible (`FragmentsUsable`), except the one fragment
  that advertises 0 bytes (1312): a requester takes that record to be complete
  at once and then parses an empty buffer. A record that comes whole has no rrid
  on the wire; its rrid is 0 there, as its `PartialRR`'s stays (79, 325), and it is
  never fragmented. Other rrids within an answer are distinct, which `RridsApart` shows except for equal
  records in one message, which share one: the requester finds only the first slot of
  the two. In `DnsSystem` the far side is `Responder` itself, and neither exception is
  made: the theorems about it name them as a hypothesis (`Advertised`, section 4).
* A client's retransmission, with the id and port of its first query, is not modelled, and so
  not what becomes of an entry it finds half reassembled. A datagram that comes
  twice is modelled: in `Requester` up to `DUPLICATES` of them, counted by `copies`.
* The comment at 1245 says that OPT records are left out of the cache; the code enters every
  record of the additional section, and so does `Responder`.
* `daemon.c` ends in a second `main` (1768-1810), which hands `copy_section` one fragment of 5
  bytes. It is taken for a test driver, and the first `main` for the daemon's.
* `Dispatch`: that every packet passes the OUTPUT hook of its sender's host and the
  INPUT hook of its receiver's is how the code describes its queue rules; netfilter
  is external. The two daemons share one `status`: when either stops, so does the
  model. `"exited"` stands for the exits and the assertion (1551-1554) that follow when
  no descriptor is free. The poll of a socket (757) is a choice among `POLLS`,
  since whether the answer is readable at that instant is a matter of the kernel. A packet is
  delivered in any order and is not lost; `Requester` covers loss.
* `HashMap`: the hash is a constant function, probing is a bounded search whose
  end is a property. Callbacks of `hashmap_set_free` and `hashmap_remove_free` are
  represented by the value they are handed; one that changes the map, which the
  daemon has not, is left out, and so are failing allocations. `hashmap_iterate` calls back
  for the filled buckets of the list, as `Live` does, but gives up after 1002 of them,
  tombstones included (map.c 362-376), although `map.h` promises every element. The daemon never
  iterates, and `Live` is all that the list holds.
* `Codec`: bytes are numbers below 256. A name is text in a question and bytes in a
  record, as in the code; the four sections are a function of their numbers. `Messages` are
  what a name server and the daemon build (`IsMessage`, which the constants are assumed to
  satisfy): labels of 1 to 63 bytes, a pointer only at the end of a name, texts with a dot
  after each label, numbers that fit their fields, a fragment's data of the size it
  states. A response's fragment without data, for which the daemon has a NULL pointer and `fragsize`
  0 (1288, 1312), has the empty sequence here: the bytes are the same, none. Malformed bytes are not read. `is_dns_message` returns true at once (`dns_message.c`), so
  nothing is modelled of the checks after it.

## 3. Runs

| run | question | bounds |
|---|---|---|
| `reassembly` | Is a record that is put together the responder's, byte for byte; is no block asked for twice; does the sanity check fail only after a duplicate; are buffers respected; do the markers implement `BlockTransfer`? | records of 33, 70, 96, 130 bytes (2 to 5 blocks, exact and short last block), first fragment of 1 or 2 blocks, room for no, one, two or all blocks; datagrams lost, reordered and duplicated, `realloc` free to move, other records of the message incomplete |
| `requester_lossy` | What stops the process, does the exchange stay stop-and-wait, does a client get its whole answer or nothing, how large is what is asked for? | two clients with ids of their own; three answers of up to 3 records over all sections, one without answer records, of up to 5 blocks each; any of them fragmented, one with 1 or 2 blocks in the first response and the others with none, so that follow-up queries are full with the fragments of two records; loss, clients that give up; `MAXUDP` 100 |
| `requester_shared` | Do the counters of an entry agree with its records, and is a complete record made of its blocks, whatever two clients with one id and duplicated datagrams do to it? | two clients, one id; an answer with a short record and, in the additional section, one of 4 blocks, whose later fragments come as answers; up to 3 datagrams that come again |
| `responder_sizes` | Does the response fit, to the byte; are its fragments usable; do rrids stand for one record? | two queries over 37 messages with sizes on both sides of every branch, 8 rrids, collisions, exhaustion of rrids, nothing left to fragment; polls may miss |
| `system` | Does the composition give every client the name server's answer, also across a restart of the responder; what stops either daemon, and what leaves state behind? | two queries; a message of three records, one of which takes two follow-up queries, one with two records to fragment, the first of them without data, and one without answer records; one restart at any moment; `MAXUDP` 160 |
| `dispatch` | Do sockets and table correspond, does only that leak which is known to, do daemons keep fragments to themselves, is every other client answered? | three clients, two with one question, all questions with one hash; two descriptors, three ports; two follow-up queries for one question and none for the other; polls may miss, the name server may not answer |
| `hashmap` | Do searches end and find what is there, are list and counters true, is it an `OrderedMap`? | three keys, two with one hash and the third where their probes wrap around; capacity 4 growing to 8; values 0 (as an empty bucket has) and 1 |
| `codec` | Is every message read back as it was written, and has it the length the daemon accounts for? | 4105 queries and responses: root, one and two labels, pointers, labels before a pointer, a pointer with a zero byte; types below and above 255; data with zeros; fragments with data, with none, and asked for |
| `reassembly_hang` | refuted: making room ends (`GrowthEnds`) | first fragment of size 0 |
| `requester_mixed` | refuted: a client gets its whole answer although another uses its id | two clients with one id |
| `requester_denial` | refuted: copying a response does not stop the process | answer without answer records |
| `responder_dangling` | refuted: an announced rrid can be served (`Servable`) | two records with one hash |

The bounds suffice to reach every branch: each disjunct of each next-state
relation is taken in some passing run. Block counts include the exact multiple,
the short last block and more blocks than one query has room for. Sizes in
`responder_sizes` were chosen around the values at which `Shrink` changes course
(data just enough, absolute value of a negative excess, no room at all). Keys
in `hashmap` fill the small map to its load limit with tombstones and force one
growth, from every order of calls. Two descriptors for three clients in
`dispatch` make them run out, and one leaked entry still lets a later client
reuse the other descriptor. Constants of the code are kept (`BLOCKSIZE`, header
lengths, type of a fragment); `MAXUDP`, the number of rrids and the capacity
of a map are scaled down, since only their relation to record sizes and to the
number of records and keys matters.

`CHECK_DEADLOCK FALSE`: every system here but `HashMap` comes to rest when all
queries have been answered, or when datagrams are lost, since the daemon has no
timers; `Codec` stops when the message has been read.

**Fairness.** Weak fairness of a daemon as a whole, because the loop of
`main` never stops reading the queue and each handler runs to its end, and
of what it waits for: the other daemon, which is the same program (`DnsSystem`,
`FairSpec` of `Reassembly`), and the name server (`Dispatch`), which may decide
not to answer but does not hold a query for ever undecided. It is used only
where no datagram is lost. In `system` a restart may take a query away, and
two kinds of answers stop the requester: after that a query may remain
unanswered, and `Answered` says so; the message of three records is what comes through,
in three exchanges. `Requester`, `Responder`, `HashMap` and `Codec` have no
fairness: what they promise is safety. `reassembly_hang` is a
behaviour in which the handler runs for ever, in the circle `Full`, `Grow`, `Full`, ...: every step
of it changes the state, `status` remains `"running"`, and the fairness of the handler is met. So the
counterexample is one of the code, not of the schedule. An allocator that notices the pointer
ends the circle with an abort, which `GrowthEnds` accepts.

### What the refuted properties say

1. *Hang on an empty first fragment* (221-231). `bytes_capacity` starts as the first
   fragment's size. The responder sends fragments of size 0 whenever it fragments more
   than one record (1288); doubling 0 never makes room. The first turn of the loop makes `realloc`
   free the buffer, and the next ones hand it the freed pointer. The handler runs for ever, or until
   the allocator notices and aborts; either way no client of that daemon is answered
   any more. `Requester` has this as `status` `"hung"`, `DnsSystem` too (`StopsOnlyForgetful`).
2. *Clients that share an id* (1602, 1478). A plain response for one client removes the
   entry the other's record is being reassembled in; what comes next opens a new
   entry from a follow-up response, whose fragments are all answers, and the
   client is given a message with the record in the wrong section.
3. *First response without answers* (374-383). The follow-up response carries its
   fragments as answers, for which there is an array of no elements, of which as many
   are initialised as the response has.
4. *Freed entries in the cache* (1207). A record whose hash is taken is
   entered as the message's own, and freed with it.

Also visible in the models, without a run that states the contrary:

* a stale buffer after `realloc` (224): the result is not assigned, as
  `test/sandbox.c:160` does. In `reassembly` the block may move; `live` then loses
  `"bytes"`, and `NeverOverruns` and `NeverAborts` say that nothing else goes wrong;
* a response that comes twice makes the sanity check end the process
  (215; `NeverAborts` says only that does);
* with a shared id no duplicate is needed. A plain response for another client erases
  the entry, a follow-up response opens it anew, and from then on the free blocks
  are not a tail: `pack_section` asks for as many blocks as are free, from the first
  free one, and so for some that have been received. They count twice, and
  the count reaches `expected_blocks` with a block missing, which only the assertion
  (260-262) notices, or passes it and the record is never complete. The
  record of 100 bytes of `requester_shared` is long enough for it; without the assertion
  (mutant `Unasserted`) the run gives a record with a hole in it, also when nothing is duplicated;
* a full follow-up query is answered by a message larger than `MAXUDP` by up to ten
  bytes a fragment and five (`ResponseNearlyFits` has the bound; nothing checks it in
  the code);
* a name server that never answers, or a poll that misses the answer, leaves an
  entry and its socket behind until no descriptor is free and the daemon
  exits (`NothingElseLeaks`, `StopsOnlyWhenFull`);
* a follow-up query for an rrid from before a restart makes the responder exit
  (1524; `StopsOnlyForgetful`), and the requester's entry of that query, like that of any query that
  was lost, stays in `requester_state`: `StateReleased` is about what happens when nothing was lost;
* when all rrids are taken, the probe for one never ends (1202; status `"hung"` in
  `responder_sizes`), and when nothing is left to fragment an uninitialised index is
  used (1256; status `"undefined"`).

## 4. Proofs

All theorems hold for every value of the constants that satisfies the named
assumptions; those type the constants, and say besides that ports and ids are
distinct and the kernel has a port for every descriptor (`DispatchAssumption`),
that messages are as section 2 describes them (`CodecAssumption`),
that a map has more than one bucket (`HashMapAssumption`), and
that the value `Requester` uses for no query is no query (`RequesterAssumption`,
`SystemAssumption`). `PartsAssumption` says that the constants of `DnsSystem` are as
`Requester` and `Responder` want theirs. Nothing is assumed of the network, except where a hypothesis is named.

**Reassembly** (`ReassemblyProofs`, lemmas in `Lemmas`). The
inductive invariant `Inv` strengthens `TypeOK` with: every fragment anywhere lies
within the record and starts at a block (`FragmentsFit`); the array of markers is
that of the record (`MarkersFit`); `blocks_received` is the number of received
blocks (`CountAgrees`), for which a fragment being copied must be new (`CopyIsNew`,
what the sanity check gives); `is_complete` is set exactly when the counts
agree; and nothing in flight names a free block, once the first fragment has been
stored (`NoneAskedTwice`), whence the free blocks are a tail. The last needs three
cases: before the first fragment only copies of it exist; while it is copied all
blocks are free; afterwards what is asked for is marked before it is sent.
From `Inv`: `TypeCorrect`, `CompleteIsFullHolds`, `FreeIsTailHolds`,
`ReceivedStaysHolds` (an action property), and `Refinement`, that the markers
implement `BlockTransfer`.

A second invariant adds what holds until a datagram comes twice (`twice` records
that one did): what is in flight waits for, and no two fragments in flight overlap. It
takes the first as given at each step, and `Lemmas` for what a
packed query leaves free. `AskedOnceHolds` follows, and `NeverAbortsHolds`: the
sanity check fails only after a duplicate, or the allocator noticed a stale pointer.

A third is about bytes. The buffer holds the fragments in the order they came, and
each header says how many bytes are its own; where a fragment begins is the sum of
those before it. That sum is `Offsets` of `PartialRR`, a recursive function of the
prefix. What it gives for every sequence is proved with the least counterexample:
were there a prefix for which the claim fails, there would be a least one, and
one step of the recursion refutes it. `NeverOverrunsHolds`: the headers fit their array, the fragments
the buffer, and their places the record. `IntactHolds`: the record put together has at each place the
byte of the responder's.

**Responder** (`ResponderProofs`). `Inv` says that the fragments sent, those of the
message in hand, and the records of it not yet replaced are found in
`responder_cache` under their rrids (`SentNamed`, `MessageNamed`, `RridsNamed`). It
is preserved because the probe ends at a free rrid if there is one (`ProbeFree`), so
no entry ever comes to hold another record (`CacheKept`), and because the loop
chooses a record that has an rrid (`LargestIsCandidate`). `RridsApartHolds` and
`ServedRightHolds` follow. `SizeAccountedHolds` says that `cur_size` is the length of the message:
an item that is replaced changes the sum by the difference of the two sizes,
for a message of any length (`Total`, by the least counterexample again). With it
`NeverOversizeHolds`: the loop ends only when what it has made fits, so the
assertion of `responding_thread_end` never fails. `UsableInv` says that until the loop that makes room ends no fragment of the
message in hand has data, and that the turn that gives one its data ends it; room is
in whole blocks and less than the record (`RoomUsable`). It gives
`FragmentsUsableHolds`, which is what `Requester` assumes of the far side.

**Requester** (`RequesterProofs`). `OneUnderWayHolds` has the hypothesis that the
network does not duplicate: its invariant `One` says that of a query at most one
datagram, or the handler, is under way, and only while its client had asked and was not
answered. `DoneIsCompleteHolds` has no hypothesis, neither about the network nor about ids: every `PartialDNSMessage` is
`Counted`, which each step keeps because it replaces one slot at most
(`SlotReplaced`) and counts it where it completes.

The second half of the module is about records and answers. `CompleteIsWholeHolds` needs
that an rrid names one record (`RridsApart` of that module, what `RridsApartHolds`
shows of the responder), and nothing else: datagrams may come twice and clients share
ids. Its invariant `Sound` says that a slot holds blocks of one record only, and all that its
markers call received. The count of blocks may be too high, and it is the
assertion that keeps a record with a hole from being taken as complete.

The other theorems are those of an exchange nothing disturbs. Their hypothesis
`Undisturbed` says that nothing comes twice, ids are distinct, and an rrid names one record,
which is once in an answer. Loss, clients that give up, answers without answer
records and fragments without data are allowed, and end in `"hung"` or `"undefined"` where the code
does (`Ended`): once the process has stopped its state is claimed nothing of. The invariant `Exchange` fixes for each
place a query can be at what the `PartialDNSMessage` of its id holds then: of a record in
fragments the blocks before `r` are received, those up to `w` asked for by
what is under way, the others free (`Slot`, `Prefix`), and the fragments under way
are for exactly these records and blocks (`Due`). `Expects` says so of any list of items: each has a place of its own
where the slot waits for it, and the slots of all other places are settled, that
is complete, or of blocks received and blocks free. The items are those still to be copied, or those of
the query being packed (`Packing`), so that each step of the handler takes one off the
list or adds one. From it:
`StopsAsKnownHolds` (the process stops over these two kinds of answers only: no
fragment is for a record the message has not, none carries a block twice), `AnswersIntactHolds` (a client gets the server's answer, each record whole
and in its place), `FollowUpNotEmptyHolds` (the room of one block that
`RequesterAssumption` gives is enough for the first record missing) and
`ResponseNearlyFitsHolds`.

**Hash map** (`HashMapProofs`). The inductive invariant `Inv` says: no key is in two
buckets, and from the home of every key the probe meets no empty bucket before it
finds the key (`KeysReachable`); the list goes through the filled buckets, each once
(`ListIsWhole`); and `Counted`: `count` and `tombstone_count` count, and at most three
quarters of the buckets are filled. During growth the keys still to be moved wait
in one old bucket each and are in none of the new (`PendingOnce`, `WaitingApart`), and
the new table, with them, is at most three eighths full.
From it follow that searches end (`SearchesEndHolds`, for any number of keys, hashes and
any capacity), that they find every key (`KeysReachableHolds`), and that list and
counters are true (`ListIsWholeHolds`, `CountsAgreeHolds`, `ResizesSomethingHolds`).

`ImplementsMapHolds` is the refinement: with `Live`, the elements the list leads to, as
its entries, `HashMap` implements `OrderedMap`. Every call maps to the same call of the abstract map
(`PutImplements`, `GetImplements`, `RemoveImplements`) and the steps of growth to
none (`StartResizeStutters`, `MoveEntryStutters`): the entries keep their order in the
new table. A search finds a key exactly if the list has it, with the
value the list has (`LookupIsSearch`); what a call does to the list is done to
`Live` by lemmas about `Selected`, what is selected of a list with one
more element, without one, or with one changed.

**Dispatch** (`DispatchProofs`). Each packet has one of a few forms (`Shapes`), which
fixes the branch it takes (`Branches`). The heart of the invariant is
`OneUnderWay`, one packet for each query under way, and `Awaiting`, that what is
between a socket and the name server is awaited by an entry with its id and port. A
step that concerns packets outside the name server's host is dealt with once
(`OutsideStep`). `SocketsMatch`, `NothingElseLeaks`, `FragmentsIntercepted`,
`StateReleased` and `StopsOnlyWhenFull` are parts of the invariant or follow from it,
for any number of clients, descriptors and ports and any collisions of hashes.

**Codecs** (`CodecProofs`). What is proved is that the reader keeps in step with the
writer, for messages of any number of items, names and data of any length. `Holds(p, s)`
says that the bytes at `p` are those of `s`; it splits at a concatenation
(`HoldsConcat`), so that a part's fields lie at the sums of the lengths before them. A
message is its header and its parts laid one after another; `FlattenParts` says so of
`FlattenSeq`, whose recursive function is followed by a chain of values that exists for
every length (`StepsExist`). Where an item begins is `Begin`: the
header and the sum (`Offsets`) of the sizes of the items before it, by the daemon's own
arithmetic of sizes (`PartSize`, `PartBytes`). `LengthAccountedHolds` is this for the
end of the message, readable or not.

The scan for the end of a name is the delicate part. `Places` are the bytes at which
`dns_name_from_bytes` looks for a length. They are the beginnings of the labels, up to the
zero or the pointer that ends the name (`PlacesHold`, `PlacesAre`), by induction up to a bound,
on a set (`UpTo`). In a name that ends in its only zero the scan ends there (`RootName`).
In one that ends in a pointer and has no zero it ends in the first byte of the type, which
is 0 since the type is below 256; the pointer's first byte, 192 or more, makes the reader
stop and give back the byte it took too many (`PointerName`, `NameBytes`). `is_rrfrag` takes
none back: it reads the type one byte late, and the type's second byte, which is not 0, keeps it
from seeing a fragment. That is what `Scannable` asks for. For a question,
whose name is text, `TextBytes` shows that what is written for it are labels ending in the
root, and that the text comes back.

So an item is read as it was written, and the reader stands where the next one begins
(`QuestionRead`, `FragmentRead`, `RecordRead`, together `ItemRead`). The invariant `Inv`
(`ReadSoFar`) says this of the whole message: for some number of items of each section
the reader has read just these, has the others left to read, and stands at the `Begin` of the
next. It gives `NeverFailsHolds` and `RoundTripsHolds`.

**The composition** (`SystemProofs`). A query of `DnsSystem` can be in one of six
places: on its way out, in the network, in a response, with either handler, or with
the name server. `Once` and `Apart` say it is in one at most, and `Awaited` that its client then
waits. `KeptForWaitingHolds`, that state is kept only of ids of which a client waits, follows for any ids, shared ones too, and any number of restarts, which
only take queries away.

Then each half is shown to be what it was modelled as. *The responder*: its steps
are steps of `Responder` (`HandlingIsResponders`) until it sends; a restart, and a
response that leaves, put it back to an empty message, so `RInv`, the invariant of
`ResponderProofs`, holds throughout (`NextRInv`). *The requester*: its steps are steps of
`Requester` (`RequesterIsRequesters`) with a far side made of the responder's state:
a query of `Requester`'s is one on the network or with the responder (`Unanswered`); its
answer is the name server's message as its first response has it (`WireAnswer`,
`WireFirst`), each record with an rrid exactly if it was fragmented. What the answer and
its first response are is open until the response is sent, and any choice will do until
then: `SettlesExchange` (`RequesterProofs`) says that a far side may settle both
in the step that sends it. `ResponseIsFirst` shows that what `Responder` makes
(`IsResponse`, `RP!Usable`) is a first response as `Requester` allows it; a follow-up
query is served as its `Respond` does (`ServeExchanges`); what `Restart` takes
is a loss (`LostExchanges`). So `Exchanges`, the invariant of
`RequesterProofs`, holds in `DnsSystem` too. What ties the two together across restarts is
`Exact`: the cache has records under their own hash and only copies (`Cached`), each query
is put to the name server once and responded to once (`SentOnce`), and as long as
there was no restart what was announced is cached (`Remembered`). `IInv` is all of it.

The hypotheses exclude what section 3 shows to go wrong and these theorems do not allow for:

* `IdsApart`: no two queries have one id (`requester_mixed` is what happens otherwise);
* `HashesApart`: no two records the name server knows have one hash (`responder_dangling`).
  It is needed for another reason too: after a restart, with a collision, an rrid could
  name another record than the one announced;
* `Advertised`, a predicate of the state and not a constraint on the constants: in
  the first responses sent so far each fragment advertises the size of its record (1312
  is the exception), and no record is fragmented twice in one message.
  It refers to what has been sent, and what has been sent does not change (`NextExact`),
  so a theorem `Spec => [](Advertised => P)` says that P holds up to the first
  response that is otherwise, and for ever if there is none. In `system`
  it holds in every reachable state;
* `Shrinkable`, for `StopsOnlyForgetfulHolds` and `StateReleasedHolds`: a message with every record that may be
  fragmented replaced by an empty fragment leaves room. If not, the loop of
  `insert_into_state_and_construct_map` runs out of records (1256).

`AnswersIntactHolds`, across any number of restarts: a client gets the name server's records,
each whole, in its section and place. `FollowUpNotEmptyHolds`. `StopsOnlyForgetfulHolds`:
the handler finds a record to replace because, when none is left, the message in hand has the
sizes of the smallest one there is (`ShrinkFinds`), and every rrid asked for is known
before the first restart (`AsksKnown`, `Remembered`). Requester's daemon stops only as `Exchange`
has it (`EndsAsKnown`). `StateReleasedHolds`: while both daemons run and nothing
restarted, every client that waits has its query, a response to it or the handling of one
`Everywhere`, that is in one of the six places (`Going`). No step leaves a place without entering
the next, for a response with fragments is never dropped (`FragmentsAwaited`: a slot waits for what
it carries). Since state is kept only for ids of waiting clients (`KeptForWaiting`), something of
each of these is under way.

`CompleteIsFull` and `ResizesSomething` are proved and not also checked by a run:
they follow from `ImplementsTransfer`, and from `CountsAgree` with `ListIsWhole`.

**Only model-checked:** liveness, `Answered` of `Dispatch` and of `DnsSystem`, which is
out of the prover's reach; and the four refuted properties, which are runs with a
counterexample. Every invariant and every action property of the passing runs is
stated by a theorem. The run of
`DnsSystem` checks its invariants without the hypothesis `Advertised`, for the messages it has.

## 5. Not modelled, and the plan

Done, in this order: `PartialRR`, `BlockTransfer`, `Reassembly`, `Requester`,
`Responder`, `Dispatch`, `HashMap` and `OrderedMap`, `Codec`, `DnsSystem`; the proofs
of section 4.

What is left, in order of importance:

1. *Collisions and restarts together*: `system` has records with hashes of their own, and
   the theorems about it assume them (`HashesApart`), so that an rrid names the same record
   after a restart. With collisions it could name another of the same size, which the
   requester cannot tell.
2. *A client that asks again*, with the same id and port, while its first query is under way.

Not modelled, and not planned:

* raw sockets and checksums (604-727): I/O. A packet sent is a packet in a queue, its
  descriptor is `Dispatch`'s. Sockets that two error paths close twice (725, 1362, 1567) do no
  harm with one thread, since no other socket can have been given the number meanwhile;
* start-up, netfilter calls, `getifaddrs` (1686-1766): I/O, except that the maps
  begin empty and that the loop is fair;
* TCP and the BYPASS configuration: packets are accepted unseen (1405), no state
  changes; the TCP code behind that is never reached;
* a name server's own traffic and other UDP, which are accepted in the same way;
* iteration with callbacks that change a hash map, and statistics of it: not used;
* failing allocations: each is an `exit` or an assertion;
* cloning, printing and destroying messages: no state of the daemon;
* `test/`: copies of the sources and drivers of benchmarks. `sandbox.c` and
  `original.c` were read for the fields and the intent of `copy_section`.
