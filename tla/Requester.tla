----------------------------- MODULE Requester -----------------------------
(***************************************************************************)
(* The requester side of the daemon: the packets of the process behind it  *)
(* that ask a DNS server, and what comes back.  For each outstanding       *)
(* query id the daemon keeps a PartialDNSMessage (requester_state); a      *)
(* response with fragments is copied into it, and as long as a record is   *)
(* incomplete a follow-up query asks for more.  A complete message is sent *)
(* through the daemon's own queue as a plain response, which ends the      *)
(* transaction.                                                            *)
(*                                                                         *)
(* The far side is the environment: it knows the whole answer and sends    *)
(* any fragment asked for (Responder models it).  The daemon is single     *)
(* threaded; pc splits its handler into one step per record, to which      *)
(* nothing but the network runs in parallel.                               *)
(***************************************************************************)
EXTENDS PartialRR, Sequences, SequencesExt

CONSTANTS
  Transactions, \* queries the clients make; each has its own source port
  ID,           \* the 16-bit identification of each query
  Answers,      \* whole answers: for each section a sequence of records
  FIRSTBLOCKS,  \* numbers of blocks the first response may carry of a record
  MAXUDP,       \* size the daemon keeps UDP messages to
  LOSSY,        \* the network may lose datagrams, and clients give up
  DUPLICATES    \* how many datagrams the network may deliver twice

DNSMESSAGEHEADER == 12
RRHEADER == 10
RRFRAGHEADER == 15

Sections == 0 .. 2     \* answer, authoritative, additional
NONE == "none"

Ids == {ID[t] : t \in Transactions}
AllRecords ==
  UNION {UNION {ToSet(a[s]) : s \in Sections} : a \in Answers}

\* The rrid of a record that always comes whole is 0.
ASSUME RequesterAssumption ==
  /\ ID \in [Transactions -> Nat] /\ NONE \notin Transactions
  /\ Answers \subseteq [Sections -> Seq(AllRecords)]
  /\ \A rr \in AllRecords : rr.rrid \in Nat /\ rr.len \in Nat \ {0}
  /\ FIRSTBLOCKS \subseteq Nat
  /\ MAXUDP \in Nat /\ MAXUDP >= DNSMESSAGEHEADER + BLOCKSIZE
  /\ LOSSY \in BOOLEAN /\ DUPLICATES \in Nat

VARIABLES
  answer,           \* far side: the answer to each query
  first,            \* far side: its first response to each query
  client,           \* each query: "new", "waiting", "answered" or "gone"
  got,              \* what each client was given
  outgoing,         \* packets queued for the daemon on their way out
  queries,          \* network: queries and follow-up queries
  responses,        \* network: responses
  copies,           \* network: how many datagrams were delivered and stayed
  requester_state,  \* daemon: the PartialDNSMessage of each outstanding id
  packet,           \* handler: the query whose response it handles
  todo,             \* handler: what is left of it to copy
  missing,          \* handler: the records it has yet to pack, by their places
  cursize,          \* handler: cur_message_size
  asked,            \* handler: fragments of the follow-up query so far
  pc,               \* handler: where it is
  status            \* whether the process still runs

clients == <<answer, first, client, got>>
network == <<outgoing, queries, responses, copies>>
handler == <<packet, todo, missing, cursize, asked, pc>>
vars == <<clients, network, requester_state, handler, status>>

Running == status = "running"
-----------------------------------------------------------------------------
(***************************************************************************)
(* Messages.  An item of a response is a whole record or a fragment of     *)
(* one; only the record itself and the blocks it carries matter.           *)
(***************************************************************************)
Empty == [s \in Sections |-> <<>>]

Whole(rr) == [isRRFrag |-> FALSE, rr |-> rr]
Part(rr, from, size) ==
  [isRRFrag |-> TRUE, rr |-> rr, curidx |-> from, fragsize |-> size,
   rrsize |-> rr.len]

Places(sections) ==
  UNION {{s} \X DOMAIN sections[s] : s \in Sections}

ContainsRRFrag(items) == \E p \in Places(items) : items[p[1]][p[2]].isRRFrag

WholeMessage(sections) ==
  [s \in Sections |-> [i \in DOMAIN sections[s] |-> Whole(sections[s][i])]]

\* The far side sends each record whole or its first blocks only, and at most
\* one of them in part: fragmenting stops at the first record of which
\* something fits, and those before it are sent with fragsize 0.
WHOLE == -1

FirstResponses(sections) ==
  LET choices == {c \in [Places(sections) -> FIRSTBLOCKS \cup {WHOLE}] :
                    /\ \A p \in Places(sections) :
                         /\ c[p] * BLOCKSIZE < sections[p[1]][p[2]].len
                         /\ sections[p[1]][p[2]].rrid = 0 => c[p] = WHOLE
                    /\ Cardinality({p \in Places(sections) : c[p] > 0}) <= 1}
      item(rr, k) == IF k = WHOLE THEN Whole(rr) ELSE Part(rr, 0, k * BLOCKSIZE)
  IN  {[s \in Sections |->
          [i \in DOMAIN sections[s] |-> item(sections[s][i], c[<<s, i>>])]] :
         c \in choices}

Query(t, asks, followup) == [t |-> t, asks |-> asks, followup |-> followup]
Response(t, items) == [t |-> t, items |-> items]

\* A datagram delivered is gone from its channel, or stays to come again.
Taken(channel, left, m) ==
  \/ left = channel \ {m} /\ UNCHANGED copies
  \/ left = channel /\ copies < DUPLICATES /\ copies' = copies + 1
-----------------------------------------------------------------------------
(***************************************************************************)
(* PartialDNSMessage.  A slot is a PartialRR: its contents are the blocks  *)
(* copied into its buffer, each with the record it came from.              *)
(***************************************************************************)
Zero == [s \in Sections |-> 0]

\* init_partialdnsmessage
Fresh == [set |-> FALSE, count |-> Zero, slots |-> Empty, done |-> Zero]

\* init_partialrr, and the rrid of a fragment of the message it is made for.
NewSlot(item) ==
  [rrid |-> IF item.isRRFrag THEN item.rr.rrid ELSE 0,
   block_markers |-> <<>>, blocks_received |-> 0, rrsize |-> 0,
   noroom |-> FALSE,        \* bytes is allocated, with bytes_capacity = 0
   is_complete |-> FALSE, contents |-> {}]

BlocksOf(rr, blocks) == {<<rr, b>> : b \in blocks}

\* copy_message_contents before it copies records: the counts and the slots
\* are those of the first message.
Opened(e, items) ==
  IF e.set THEN e
  ELSE [e EXCEPT !.set = TRUE,
                 !.count = [s \in Sections |-> Len(items[s])],
                 !.slots = [s \in Sections |->
                              [i \in DOMAIN items[s] |-> NewSlot(items[s][i])]]]

\* A section the first message left empty has no array yet.  For the answers
\* one is made of ancount, that is no, elements when a later message has some,
\* but as many are initialised as that message has.
Overruns(e, items) == e.set /\ e.count[0] = 0 /\ items[0] # <<>>

\* (mutant) Only the answers, where later fragments come, are searched.
InAnswers(e, rrid) ==
  {p \in {0} \X DOMAIN e.slots[0] : e.slots[p[1]][p[2]].rrid = rrid}

\* find_partialrr: the first slot with that rrid, by section.
Matching(e, rrid) ==
  {p \in Places(e.slots) : e.slots[p[1]][p[2]].rrid = rrid}

Before(p, q) == p[1] < q[1] \/ (p[1] = q[1] /\ p[2] <= q[2])
First(places) == CHOOSE p \in places : \A q \in places : Before(p, q)

\* No fragment has come for the slot.
Opening(slot) == DOMAIN slot.block_markers = {}

\* (mutant) A record completed by a fragment is counted where fragments arrive.
PutWhereItArrived(e, p, slot, completed) ==
  LET s == IF Opening(slot) THEN p[1] ELSE 0
  IN  [e EXCEPT !.slots[p[1]][p[2]] = slot,
                !.done[s] = IF completed THEN @ + 1 ELSE @]

\* A slot is changed, and counted if the change made it complete.
Put(e, p, slot, completed) ==
  [e EXCEPT !.slots[p[1]][p[2]] = slot,
            !.done[p[1]] = IF completed THEN @ + 1 ELSE @]

\* copy_section, a fragment, in the slot it belongs to.
MarkersFor(slot, f) ==
  IF Opening(slot) THEN FreshMarkers(f.rrsize) ELSE slot.block_markers

NowReceived(slot, f) == slot.blocks_received + LastBlockIdx(f) - BlockIdx(f)

LastPiece(slot, f) ==
  NowReceived(slot, f) = Cardinality(DOMAIN MarkersFor(slot, f))

MarkersAfter(slot, f) == Mark(MarkersFor(slot, f), Span(f), BLOCKRECVD)

Filled(slot, f) ==
  [slot EXCEPT
     !.block_markers = MarkersAfter(slot, f),
     !.blocks_received = NowReceived(slot, f),
     !.rrsize = IF Opening(slot) THEN f.rrsize ELSE @,
     !.noroom = IF Opening(slot) THEN f.fragsize = 0 ELSE @,
     !.is_complete = @ \/ LastPiece(slot, f),
     !.contents = @ \cup BlocksOf(f.rr, Span(f))]

\* (mutant) The assertion that every block is there is compiled out.
Unasserted(slot, f) ==
  IF Overwrites(MarkersFor(slot, f), f) THEN "aborted"
  ELSE IF ~Opening(slot) /\ slot.noroom /\ f.fragsize > 0 THEN "hung"
  ELSE IF slot.is_complete THEN "crashed"
  ELSE "running"

\* What may end the handler instead: the sanity check, the loop that doubles
\* a buffer of no bytes (an allocator that notices the buffer freed again and
\* again aborts it; Reassembly has the steps), the headers of a complete record,
\* which are freed, and the assertion that a record of which enough blocks came
\* has all of them.
Outcome(slot, f) ==
  IF Overwrites(MarkersFor(slot, f), f) THEN "aborted"
  ELSE IF ~Opening(slot) /\ slot.noroom /\ f.fragsize > 0 THEN "hung"
  ELSE IF slot.is_complete THEN "crashed"
  ELSE IF LastPiece(slot, f) /\ Received(MarkersAfter(slot, f)) # DOMAIN MarkersAfter(slot, f)
       THEN "aborted"
  ELSE "running"

\* (mutant) A whole record goes in any slot that is not complete.
AnyUnfilled(e, s) == {p \in {s} \X DOMAIN e.slots[s] : ~e.slots[s][p[2]].is_complete}

\* copy_section, a whole record, in the slot it gets.
Unfilled(e, s) ==
  {p \in {s} \X DOMAIN e.slots[s] :
     ~e.slots[s][p[2]].is_complete /\ e.slots[s][p[2]].rrid = 0}

WithWhole(slot, rr) ==
  [slot EXCEPT !.rrsize = rr.len, !.is_complete = TRUE,
               !.contents = BlocksOf(rr, 0 .. Blocks(rr.len) - 1)]

\* message_complete
message_complete(e) == e.set /\ e.count = e.done

\* partial_to_dnsmessage: a slot whose bytes are not one record, all of it,
\* gives a garbled one.
GARBLED == [rrid |-> 0, len |-> 0]

Reassembled(slot) ==
  LET exact == {rr \in {c[1] : c \in slot.contents} :
                  slot.contents = BlocksOf(rr, 0 .. Blocks(rr.len) - 1)}
  IN  Whole(IF exact = {} THEN GARBLED ELSE CHOOSE rr \in exact : TRUE)

partial_to_dnsmessage(e) ==
  [s \in Sections |-> [i \in DOMAIN e.slots[s] |-> Reassembled(e.slots[s][i])]]
-----------------------------------------------------------------------------
Init ==
  /\ answer \in [Transactions -> Answers]
  /\ first \in [Transactions -> UNION {FirstResponses(a) : a \in Answers}]
  /\ \A t \in Transactions : first[t] \in FirstResponses(answer[t])
  /\ client = [t \in Transactions |-> "new"]
  /\ got = [t \in Transactions |-> Empty]
  /\ outgoing = {} /\ queries = {} /\ responses = {} /\ copies = 0
  /\ requester_state = <<>>
  /\ packet = NONE /\ todo = <<>> /\ missing = {} /\ cursize = 0
  /\ asked = <<>> /\ pc = "idle"
  /\ status = "running"

\* A client sends a query.
Ask(t) ==
  /\ client[t] = "new"
  /\ client' = [client EXCEPT ![t] = "waiting"]
  /\ outgoing' = outgoing \cup {Query(t, <<>>, FALSE)}
  /\ UNCHANGED <<answer, first, got, queries, responses, copies, requester_state, handler, status>>

\* process_dns_message, a query on its way out, a client's or one of the
\* daemon's own: there has to be a PartialDNSMessage for its id.
Register(q) ==
  LET id == ID[q.t] IN
  /\ Running /\ pc = "idle"
  /\ outgoing' = outgoing \ {q}
  /\ queries' = queries \cup {q}
  /\ requester_state' =
       [x \in DOMAIN requester_state \cup {id} |->
          IF x \in DOMAIN requester_state THEN requester_state[x] ELSE Fresh]
  /\ UNCHANGED <<clients, responses, copies, handler, status>>

\* The far side finds a record by its rrid.
Stored(rrid) == CHOOSE rr \in AllRecords : rr.rrid = rrid

Served(asks) ==
  [i \in DOMAIN asks |->
     Part(Stored(asks[i].rrid), asks[i].curidx, asks[i].fragsize)]

\* The far side answers: a query with a first response, a follow-up query
\* with the fragments it names, all of them as answers.  One that names none
\* is passed to the name server, which knows nothing by that question.
Respond(q) ==
  /\ Taken(queries, queries', q)
  /\ LET items == IF ~q.followup THEN first[q.t]
                  ELSE [Empty EXCEPT ![0] = Served(q.asks)]
     IN  responses' = responses \cup {Response(q.t, items)}
  /\ UNCHANGED <<clients, outgoing, requester_state, handler, status>>

\* (mutant) The PartialDNSMessage stays.
AcceptAndKeep(m) ==
  /\ Running /\ pc = "idle" /\ ~ContainsRRFrag(m.items)
  /\ Taken(responses, responses', m)
  /\ IF client[m.t] = "waiting"
     THEN /\ client' = [client EXCEPT ![m.t] = "answered"]
          /\ got' = [got EXCEPT ![m.t] = m.items]
     ELSE UNCHANGED <<client, got>>
  /\ UNCHANGED <<answer, first, outgoing, queries, requester_state, handler, status>>

\* process_dns_message, a response without fragments: it ends the transaction
\* and goes on to the client.
Accept(m) ==
  /\ Running /\ pc = "idle" /\ ~ContainsRRFrag(m.items)
  /\ Taken(responses, responses', m)
  /\ requester_state' =
       Restrict(requester_state, DOMAIN requester_state \ {ID[m.t]})
  /\ IF client[m.t] = "waiting"
     THEN /\ client' = [client EXCEPT ![m.t] = "answered"]
          /\ got' = [got EXCEPT ![m.t] = m.items]
     ELSE UNCHANGED <<client, got>>
  /\ UNCHANGED <<answer, first, outgoing, queries, handler, status>>

\* (mutant) Of each id only one response is awaited.
AwaitedOnce(m) ==
  /\ ID[m.t] \in DOMAIN requester_state
  /\ ~requester_state[ID[m.t]].set

Awaited(m) ==
  /\ ID[m.t] \in DOMAIN requester_state
  /\ ~message_complete(requester_state[ID[m.t]])

\* process_dns_message, a response with fragments: dropped if nobody waits
\* for it, otherwise handed to requester_thread, which copies it.
Drop(m) ==
  /\ Running /\ pc = "idle" /\ ContainsRRFrag(m.items) /\ ~Awaited(m)
  /\ responses' = responses \ {m}
  /\ UNCHANGED <<clients, outgoing, queries, copies, requester_state, handler, status>>

Tagged(items, s) == [i \in DOMAIN items[s] |-> [section |-> s, item |-> items[s][i]]]
Items(items) == Tagged(items, 0) \o Tagged(items, 1) \o Tagged(items, 2)

Receive(m) ==
  LET id == ID[m.t]
      e == requester_state[id]
  IN
  /\ Running /\ pc = "idle" /\ ContainsRRFrag(m.items) /\ Awaited(m)
  /\ Taken(responses, responses', m)
  /\ \/ /\ Overruns(e, m.items)
        /\ status' = "undefined"
        /\ UNCHANGED <<requester_state, packet, todo, pc>>
     \/ /\ ~Overruns(e, m.items)
        /\ requester_state' = [requester_state EXCEPT ![id] = Opened(e, m.items)]
        /\ packet' = m.t /\ todo' = Items(m.items) /\ pc' = "copy"
        /\ UNCHANGED status
  /\ UNCHANGED <<clients, outgoing, queries, missing, cursize, asked>>

entry == requester_state[ID[packet]]
SetEntry(e) == requester_state' = [requester_state EXCEPT ![ID[packet]] = e]

\* copy_section, the next record of the response.
CopyRRFrag ==
  LET f == Head(todo).item
      found == Matching(entry, f.rr.rrid)
      p == First(found)
      slot == entry.slots[p[1]][p[2]]
  IN
  /\ Running /\ pc = "copy" /\ todo # <<>> /\ f.isRRFrag
  /\ IF found = {}
     THEN status' = "crashed" /\ UNCHANGED <<requester_state, todo>>
     ELSE /\ status' = Outcome(slot, f)
          /\ IF Outcome(slot, f) = "running"
             THEN /\ SetEntry(Put(entry, p, Filled(slot, f), LastPiece(slot, f)))
                  /\ todo' = Tail(todo)
             ELSE UNCHANGED <<requester_state, todo>>
  /\ UNCHANGED <<clients, network, packet, missing, cursize, asked, pc>>

CopyRR ==
  LET next == Head(todo)
      free == Unfilled(entry, next.section)
      p == First(free)
      slot == entry.slots[p[1]][p[2]]
  IN
  /\ Running /\ pc = "copy" /\ todo # <<>> /\ ~next.item.isRRFrag
  /\ IF free = {} THEN UNCHANGED requester_state
     ELSE SetEntry(Put(entry, p, WithWhole(slot, next.item.rr), TRUE))
  /\ todo' = Tail(todo)
  /\ UNCHANGED <<clients, network, packet, missing, cursize, asked, pc, status>>

\* (mutant) The handler does not return but goes on to pack a query.
CompleteAndGoOn ==
  /\ Running /\ pc = "copy" /\ todo = <<>> /\ message_complete(entry)
  /\ responses' =
       responses \cup {Response(packet, partial_to_dnsmessage(entry))}
  /\ pc' = "pack"
  /\ UNCHANGED <<clients, outgoing, queries, copies, requester_state, packet,
                 todo, missing, cursize, asked, status>>

\* Everything is there: the message is sent to the client, through the queue.
Complete ==
  /\ Running /\ pc = "copy" /\ todo = <<>> /\ message_complete(entry)
  /\ responses' =
       responses \cup {Response(packet, partial_to_dnsmessage(entry))}
  /\ packet' = NONE /\ pc' = "idle"
  /\ UNCHANGED <<clients, outgoing, queries, copies, requester_state, todo, missing,
                 cursize, asked, status>>

\* The incomplete records with an rrid, which are packed section by section.
Incomplete(e) ==
  {p \in Places(e.slots) :
     ~e.slots[p[1]][p[2]].is_complete /\ e.slots[p[1]][p[2]].rrid # 0}

StartPacking ==
  /\ Running /\ pc = "copy" /\ todo = <<>> /\ ~message_complete(entry)
  /\ missing' = Incomplete(entry)
  /\ cursize' = DNSMESSAGEHEADER /\ asked' = <<>> /\ pc' = "pack"
  /\ UNCHANGED <<clients, network, requester_state, packet, todo, status>>

\* pack_section, one record: it is found by its rrid, the first in its section.
\* When not all that is missing fits, the rest of the section is left.
NamedLike(p) ==
  <<p[1], CHOOSE i \in DOMAIN entry.slots[p[1]] :
            /\ entry.slots[p[1]][i].rrid = entry.slots[p[1]][p[2]].rrid
            /\ \A k \in 1 .. i - 1 :
                 entry.slots[p[1]][k].rrid # entry.slots[p[1]][p[2]].rrid>>

AfterSection(places, s) == {p \in places : p[1] # s}

LastBlockSize(n) == IF n % BLOCKSIZE = 0 THEN BLOCKSIZE ELSE n % BLOCKSIZE

\* (mutant) The query's size is not counted up.
NotGrown(n, all, rrsize) == 0

\* What n blocks, all that the record lacks or not, add to the size so far.
GrownBy(n, all, rrsize) ==
  (IF all THEN (n - 1) * BLOCKSIZE + LastBlockSize(rrsize) ELSE n * BLOCKSIZE)
    - RRHEADER + RRFRAGHEADER

PackOne ==
  LET next == First(missing)
      p == NamedLike(next)
      slot == entry.slots[p[1]][p[2]]
      markers == slot.block_markers
      canfit == MAXUDP - cursize
      n == AskedBlocks(markers, canfit)
      all == n = Cardinality(Free(markers))
      f == AskedFragment(markers, slot.rrsize, canfit)
  IN
  /\ Running /\ pc = "pack" /\ missing # {}
  /\ \/ /\ cursize < MAXUDP /\ Free(markers) = {}
        /\ missing' = missing \ {next}
        /\ UNCHANGED <<requester_state, cursize, asked>>
     \/ /\ cursize >= MAXUDP \/ (Free(markers) # {} /\ n = 0)
        /\ missing' = AfterSection(missing, p[1])
        /\ UNCHANGED <<requester_state, cursize, asked>>
     \/ /\ cursize < MAXUDP /\ Free(markers) # {} /\ n > 0
        /\ SetEntry([entry EXCEPT !.slots[p[1]][p[2]].block_markers =
                       Mark(markers, AskedSpan(markers, canfit), BLOCKWAITING)])
        /\ asked' = Append(asked, [rrid |-> slot.rrid, curidx |-> f.curidx,
                                   fragsize |-> f.fragsize])
        /\ cursize' = cursize + GrownBy(n, all, slot.rrsize)
        /\ missing' = IF all THEN missing \ {next} ELSE AfterSection(missing, p[1])
  /\ UNCHANGED <<clients, network, packet, todo, pc, status>>

\* The follow-up query is sent as if from the client.
SendFollowUp ==
  /\ Running /\ pc = "pack" /\ missing = {}
  /\ outgoing' = outgoing \cup {Query(packet, asked, TRUE)}
  /\ packet' = NONE /\ asked' = <<>> /\ cursize' = 0 /\ pc' = "idle"
  /\ UNCHANGED <<clients, queries, responses, copies, requester_state, todo, missing, status>>

\* A client gives up; a datagram is lost.
GiveUp(t) ==
  /\ LOSSY /\ client[t] = "waiting"
  /\ client' = [client EXCEPT ![t] = "gone"]
  /\ UNCHANGED <<answer, first, got, network, requester_state, handler, status>>

Lose ==
  /\ LOSSY
  /\ \/ \E q \in queries : queries' = queries \ {q} /\ UNCHANGED responses
     \/ \E m \in responses : responses' = responses \ {m} /\ UNCHANGED queries
  /\ UNCHANGED <<clients, outgoing, copies, requester_state, handler, status>>

Daemon ==
  \/ \E q \in outgoing : Register(q)
  \/ \E m \in responses : Accept(m) \/ Drop(m) \/ Receive(m)
  \/ CopyRRFrag \/ CopyRR \/ Complete
  \/ StartPacking \/ PackOne \/ SendFollowUp

Next ==
  \/ Daemon
  \/ \E t \in Transactions : Ask(t) \/ GiveUp(t)
  \/ \E q \in queries : Respond(q)
  \/ Lose

Spec == Init /\ [][Next]_vars
-----------------------------------------------------------------------------
Slots(e) == {e.slots[p[1]][p[2]] : p \in Places(e.slots)}

\* The counters that decide that a message is complete count the complete
\* records of their section, whichever section a fragment arrived in.
DoneIsComplete ==
  \A id \in DOMAIN requester_state, s \in Sections :
    LET e == requester_state[id] IN
    /\ e.done[s] = Cardinality({i \in DOMAIN e.slots[s] : e.slots[s][i].is_complete})
    /\ e.count[s] = Len(e.slots[s])

\* A record taken to be complete, because the blocks received are as many as
\* it has, consists of all the blocks of one record, even when responses come
\* twice, and when another client's answer erased what had been received: then
\* pack_section asks for blocks that are there, which count twice, and only the
\* assertion at the end of copy_section tells.
CompleteIsWhole ==
  \A id \in DOMAIN requester_state :
    \A slot \in Slots(requester_state[id]) :
      slot.is_complete => Reassembled(slot).rr # GARBLED

\* Copying a response ends neither in a failed check, nor in an endless loop,
\* nor with a pointer that is NULL, freed or out of bounds.
NeverStops == Running

\* With ids of their own and no datagram twice two answers alone stop the
\* process: one that began a record with a fragment without data, whose next
\* fragment finds a buffer of no bytes, and one that is fragmented and has no
\* record in its answer section, whose follow-up is answered there.  No other
\* loss or mixing of responses fails a check or follows a bad pointer.
Hollow(items) ==
  \E p \in Places(items) :
    LET item == items[p[1]][p[2]] IN item.isRRFrag /\ item.fragsize = 0

StopsAsKnown ==
  \/ Running
  \/ status = "hung" /\ Hollow(first[packet])
  \/ status = "undefined" /\ \E t \in Transactions :
       client[t] # "new" /\ answer[t][0] = <<>> /\ ContainsRRFrag(first[t])

\* The daemon's next query always asks for something: one that asks for
\* nothing would count as a query of its own, and its answer would end the
\* transaction.
FollowUpNotEmpty == \A q \in outgoing \cup queries : q.followup => q.asks # <<>>

\* Stop and wait: of one query at most one thing is under way, be it the
\* query, a response, a follow-up or the handling of one.  This is why no
\* block is ever asked for and lost sight of.
UnderWay(t) ==
  {<<"out", q>> : q \in {x \in outgoing : x.t = t}}
    \cup {<<"query", q>> : q \in {x \in queries : x.t = t}}
    \cup {<<"response", m>> : m \in {x \in responses : x.t = t}}
    \cup (IF packet = t THEN {<<"handler", t>>} ELSE {})

OneUnderWay ==
  \A t \in Transactions :
    Cardinality(UnderWay(t)) <= (IF client[t] \in {"waiting", "gone"} THEN 1 ELSE 0)

\* A client is given the whole answer to its query, every record whole and
\* in its section and place.
AnswersIntact ==
  \A t \in Transactions :
    client[t] = "answered" => got[t] = WholeMessage(answer[t])

\* The daemon keeps state only of ids of which a client still waits.
KeptForWaiting ==
  \A id \in DOMAIN requester_state :
    \E t \in Transactions : ID[t] = id /\ client[t] = "waiting"

\* The response to a follow-up query, each fragment with its header of 15
\* bytes where pack_section counted 5 and let the last fragment fill the room
\* to the brim, is larger than the UDP size by no more than that.
ResponseSize(asks) ==
  DNSMESSAGEHEADER + Total([i \in 1 .. Len(asks) |-> RRFRAGHEADER + asks[i].fragsize])

ResponseNearlyFits ==
  \A q \in {x \in outgoing \cup queries : x.followup} :
    ResponseSize(q.asks)
      <= MAXUDP + Len(q.asks) * RRHEADER + RRFRAGHEADER - RRHEADER
=============================================================================
