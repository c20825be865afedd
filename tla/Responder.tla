----------------------------- MODULE Responder -----------------------------
(***************************************************************************)
(* The responder side of the daemon: queries that come in for the name     *)
(* server behind it.  A client's query is put to the name server over a    *)
(* socket of the daemon's own; the answer is entered in responder_cache    *)
(* record by record, and made to fit MAXUDP by replacing records with      *)
(* fragments, the largest first.  A fragment names its record by an rrid,  *)
(* a 16-bit hash or the next free number after it, and a follow-up query   *)
(* asks for the rest by that name.                                         *)
(*                                                                         *)
(* The daemon is single threaded: the steps of the handler, one per record *)
(* inserted or replaced, are separated by pc and nothing interrupts them.  *)
(* What runs in parallel are clients, requesters and the name server.      *)
(***************************************************************************)
EXTENDS PartialRR, Sequences, SequencesExt

CONSTANTS
  Queries,   \* the clients' queries
  Messages,  \* what the name server may answer: sequences of records, the
             \* three sections one after another
  RRIDS,     \* number of rrids, 2^16 in the code
  QSIZE,     \* bytes of the question section
  MAXUDP,    \* size the daemon keeps UDP messages to
  POLLS      \* is the answer readable when poll asks: outcomes considered

DNSMESSAGEHEADER == 12
RRHEADER == 10
RRFRAGHEADER == 15

\* A record as far as it matters: the length of its name and of its data (a
\* uint16_t), the hash of its bytes, and a tag to tell it from others like it.
MAXRDSIZE == 65535
Record ==
  [tag : STRING, name : Nat, rdsize : 0 .. MAXRDSIZE, hash : 0 .. RRIDS - 1]

ASSUME ResponderAssumption ==
  /\ RRIDS \in Nat \ {0}
  /\ Messages \subseteq Seq(Record)
  /\ QSIZE \in Nat
  /\ MAXUDP \in Nat /\ MAXUDP > 2 * DNSMESSAGEHEADER
  /\ POLLS \subseteq BOOLEAN /\ POLLS # {}

VARIABLES
  wanted,           \* name server: its answer to each query
  asked,            \* the queries clients have sent
  connection_info,  \* daemon: queries put to the name server over a socket
  internal,         \* answers of the name server on their way to the daemon
  responder_cache,  \* daemon: the record of each rrid, and where it is kept
  sent,             \* the first responses sent: a message for each query
  served,           \* fragments sent for follow-up queries
  query,            \* handler: the query whose answer it handles
  message,          \* handler: that answer, records or fragments
  rrids,            \* handler: rrid of each record; 0 once it is a fragment
  cur_size,         \* handler
  pc,               \* handler: where it is
  status            \* whether the process still runs

environment == <<wanted, asked, sent, served>>
handler == <<query, message, rrids, cur_size, pc>>
vars == <<environment, connection_info, internal, responder_cache, handler, status>>

NONE == "none"
Running == status = "running"
-----------------------------------------------------------------------------
RRSize(rr) == rr.name + RRHEADER + rr.rdsize

Whole(rr) == [isRRFrag |-> FALSE, rr |-> rr]

\* A fragment; rr is the record whose place it takes, which it names only by
\* its rrid.
Part(rr, rrid, fragsize, rrsize) ==
  [isRRFrag |-> TRUE, rr |-> rr, rrid |-> rrid, fragsize |-> fragsize,
   rrsize |-> rrsize]

ItemSize(item) ==
  IF item.isRRFrag THEN RRFRAGHEADER + item.fragsize ELSE RRSize(item.rr)

\* The length of dns_message_to_bytes.
MessageSize(items) ==
  DNSMESSAGEHEADER + QSIZE + Total([i \in 1 .. Len(items) |-> ItemSize(items[i])])

Fragments(items) == {item \in ToSet(items) : item.isRRFrag}

\* An entry of the cache is a copy of a record, or the message's own record,
\* known by its place, which is freed while the entry stays.
Copy == 0
Freed == -1
Entry(rr, at) == [rr |-> rr, at |-> at]
-----------------------------------------------------------------------------
Init ==
  /\ wanted \in [Queries -> Messages]
  /\ asked = {} /\ connection_info = {} /\ internal = {}
  /\ responder_cache = <<>>
  /\ sent = <<>> /\ served = {}
  /\ query = NONE /\ message = <<>> /\ rrids = <<>> /\ cur_size = 0
  /\ pc = "idle" /\ status = "running"

\* responding_thread_start: a client's query is put to the name server, with
\* the largest UDP size there is; its answer comes back to the same socket.
\* (The daemon of a resolver passes the query on instead.)
Start(q) ==
  /\ Running /\ pc = "idle" /\ q \notin asked
  /\ asked' = asked \cup {q}
  /\ connection_info' = connection_info \cup {q}
  /\ internal' = internal \cup {q}
  /\ UNCHANGED <<wanted, sent, served, responder_cache, handler, status>>

\* handle_internal_packet: the answer is let through to the socket, and read
\* if poll finds it there at once; otherwise it is taken for a packet of the
\* daemon's own and never looked at again.
Answer(q) ==
  /\ Running /\ pc = "idle" /\ q \in internal
  /\ internal' = internal \ {q}
  /\ \/ /\ FALSE \in POLLS
        /\ UNCHANGED <<connection_info, handler>>
     \/ /\ TRUE \in POLLS
        /\ connection_info' = connection_info \ {q}
        /\ query' = q
        /\ message' = [i \in DOMAIN wanted[q] |-> Whole(wanted[q][i])]
        /\ rrids' = <<>>
        /\ cur_size' = DNSMESSAGEHEADER + QSIZE
        /\ pc' = "insert"
  /\ UNCHANGED <<environment, responder_cache, status>>

\* The k-th rrid after h: a uint16_t is incremented, and wraps around.
After(h, k) == IF h + k < RRIDS THEN h + k ELSE h + k - RRIDS

\* The probe finds rrid k steps after h taken.
Taken(h, k) == After(h, k) \in DOMAIN responder_cache

\* (mutant) The next rrid is taken, free or not.
NextToHash(h) == After(h, 1)

\* The first rrid after h that is not taken.
Probe(h) ==
  LET free == {k \in 1 .. RRIDS : ~Taken(h, k)}
  IN  After(h, CHOOSE k \in free : \A j \in free : k <= j)

\* (mutant) Records of one hash are not told apart.
SameHash(rr, other) == rr.hash = other.hash

is_resource_record_equal(rr, other) == rr = other

Enter(rrid, entry) ==
  responder_cache' = [id \in DOMAIN responder_cache \cup {rrid} |->
                        IF id = rrid THEN entry ELSE responder_cache[id]]

(***************************************************************************)
(* insert_into_state, the next record.  A record not seen before is copied *)
(* into the cache; one that collides is entered as it is, not copied, even *)
(* if it was entered before.  When no rrid is free the probe never ends.   *)
(***************************************************************************)
Insert ==
  LET i == Len(rrids) + 1
      rr == message[i].rr
      hit == rr.hash \in DOMAIN responder_cache
      collides == hit /\ ~is_resource_record_equal(rr, responder_cache[rr.hash].rr)
      stale == hit /\ responder_cache[rr.hash].at = Freed
      full == DOMAIN responder_cache = 0 .. RRIDS - 1
      entered(rrid) == /\ rrids' = Append(rrids, rrid)
                       /\ cur_size' = cur_size + RRSize(rr)
                       /\ UNCHANGED status
  IN
  /\ Running /\ pc = "insert" /\ i <= Len(message)
  /\ \/ /\ ~hit
        /\ Enter(rr.hash, Entry(rr, Copy))
        /\ entered(rr.hash)
     \/ /\ hit /\ ~stale /\ ~collides
        /\ UNCHANGED responder_cache
        /\ entered(rr.hash)
     \/ /\ collides /\ ~stale /\ ~full
        /\ Enter(Probe(rr.hash), Entry(rr, i))
        /\ entered(Probe(rr.hash))
     \/ /\ collides /\ ~stale /\ full
        /\ status' = "hung"
        /\ UNCHANGED <<responder_cache, rrids, cur_size>>
     \/ /\ stale
        /\ status' = "undefined"
        /\ UNCHANGED <<responder_cache, rrids, cur_size>>
  /\ UNCHANGED <<environment, connection_info, internal, query, message, pc>>

Inserted ==
  /\ Running /\ pc = "insert" /\ Len(rrids) = Len(message)
  /\ pc' = "shrink"
  /\ UNCHANGED <<environment, connection_info, internal, responder_cache,
                 query, message, rrids, cur_size, status>>
-----------------------------------------------------------------------------
Limit == MAXUDP - DNSMESSAGEHEADER

CachedRecord(i) == responder_cache[rrids[i]].rr

\* Those the loop may choose from: records with data and an rrid that is not
\* 0, be it that it was set to 0 or that it has always been.
Candidates == {i \in DOMAIN rrids : rrids[i] # 0 /\ CachedRecord(i).rdsize > 0}

\* The first one with the most data.
Largest ==
  CHOOSE i \in Candidates : \A j \in Candidates :
    \/ CachedRecord(j).rdsize < CachedRecord(i).rdsize
    \/ CachedRecord(j).rdsize = CachedRecord(i).rdsize /\ i <= j

Abs(x) == IF x < 0 THEN -x ELSE x

\* cs: how much of the record's data the message has room for.
Room(rr) ==
  LET excess == Abs(cur_size + RRFRAGHEADER - RRHEADER - rr.name - Limit)
  IN  IF excess > rr.rdsize THEN 0 ELSE rr.rdsize - excess

\* (mutants) Any number of bytes; a last block in part.
AnyBytes(n) == n
RoundedUp(n) == ((n + BLOCKSIZE - 1) \div BLOCKSIZE) * BLOCKSIZE

WholeBlocks(n) == (n \div BLOCKSIZE) * BLOCKSIZE

\* (mutant) The record's own header is not taken off.
DataOnly(rr, fragment) == cur_size - rr.rdsize + ItemSize(fragment)

SizeWith(rr, fragment) == cur_size - RRSize(rr) + ItemSize(fragment)

\* The message's own record i is freed; an entry that is that record, and not
\* a copy of it, refers to freed memory from now on.
Release(places) ==
  responder_cache' = [id \in DOMAIN responder_cache |->
    IF responder_cache[id].at \in places
    THEN Entry(responder_cache[id].rr, Freed) ELSE responder_cache[id]]

\* insert_rrfrag
Replace(i, fragment) ==
  /\ message' = [message EXCEPT ![i] = fragment]
  /\ rrids' = [rrids EXCEPT ![i] = 0]
  /\ cur_size' = SizeWith(CachedRecord(i), fragment)
  /\ Release({i})

(***************************************************************************)
(* insert_into_state_and_construct_map, one turn of its loop.  When taking *)
(* out the data is not enough the record is replaced with a fragment       *)
(* without data and the loop goes on; when it is enough, the fragment has  *)
(* as many blocks as there is room for, and the loop ends.  If there is no *)
(* room at all that fragment advertises a record of no bytes.  With no     *)
(* record left to choose, the loop uses an uninitialised rrid.             *)
(***************************************************************************)
Shrink ==
  LET i == Largest
      rr == CachedRecord(i)
      room == Room(rr)
      enough == cur_size - rr.rdsize < Limit
      fragment(size, advertised) == Part(message[i].rr, rrids[i], size, advertised)
  IN
  /\ Running /\ pc = "shrink" /\ cur_size > Limit
  /\ \/ /\ Candidates = {}
        /\ status' = "undefined"
        /\ UNCHANGED <<responder_cache, message, rrids, cur_size, pc>>
     \/ /\ Candidates # {} /\ ~enough
        /\ Replace(i, fragment(0, RRSize(rr)))
        /\ UNCHANGED <<pc, status>>
     \/ /\ Candidates # {} /\ enough
        /\ Replace(i, fragment(WholeBlocks(room), IF room > 0 THEN RRSize(rr) ELSE 0))
        /\ pc' = "send"
        /\ UNCHANGED status
  /\ UNCHANGED <<environment, connection_info, internal, query>>

Fits ==
  /\ Running /\ pc = "shrink" /\ cur_size <= Limit
  /\ pc' = "send"
  /\ UNCHANGED <<environment, connection_info, internal, responder_cache,
                 query, message, rrids, cur_size, status>>

\* responding_thread_end: the message is freed, its length asserted, and the
\* response sent.
Send ==
  /\ Running /\ pc = "send"
  /\ Release(DOMAIN message)
  /\ IF MessageSize(message) > MAXUDP
     THEN status' = "aborted" /\ UNCHANGED sent
     ELSE /\ sent' = [q \in DOMAIN sent \cup {query} |->
                        IF q = query THEN message ELSE sent[q]]
          /\ UNCHANGED status
  /\ query' = NONE /\ message' = <<>> /\ rrids' = <<>> /\ cur_size' = 0
  /\ pc' = "idle"
  /\ UNCHANGED <<wanted, asked, served, connection_info, internal>>

\* process_dns_message, a follow-up query: a requester that was sent fragment
\* f asks for more of it, and gets it from the record of that rrid.  There is
\* one, as nothing is ever removed from the cache (ServedRight depends on it);
\* without one the process would exit.
Serve(f) ==
  LET entry == responder_cache[f.rrid] IN
  /\ Running /\ pc = "idle"
  /\ \/ /\ entry.at = Freed
        /\ status' = "undefined"
        /\ UNCHANGED served
     \/ /\ entry.at = Copy
        /\ served' = served \cup {[rrid |-> f.rrid, rr |-> entry.rr, asked |-> f.rr]}
        /\ UNCHANGED status
  /\ UNCHANGED <<wanted, asked, sent, connection_info, internal,
                 responder_cache, handler>>

Announced == UNION {Fragments(sent[q]) : q \in DOMAIN sent}

Next ==
  \/ \E q \in Queries : Start(q) \/ Answer(q)
  \/ Insert \/ Inserted \/ Shrink \/ Fits \/ Send
  \/ \E f \in Announced : Serve(f)

Spec == Init /\ [][Next]_vars
-----------------------------------------------------------------------------
\* The size that insert_into_state_and_construct_map keeps by adding and
\* subtracting, from cached records, is the length of the message to be sent.
SizeAccounted ==
  pc \in {"shrink", "send"} => cur_size = MessageSize(message)

\* The assertion of responding_thread_end: a first response keeps to MAXUDP.
\* Wherever the loop stops there is no excess, although the room for the last
\* fragment is the absolute value of a difference.
NeverOversize == status # "aborted"

\* What a requester relies on: of a message at most one fragment carries data,
\* in whole blocks and never all of it; a fragment without data is one too.
\* One that advertises a record of no bytes carries none.
FragmentsUsable ==
  \A q \in DOMAIN sent :
    /\ Cardinality({i \in DOMAIN sent[q] :
         sent[q][i].isRRFrag /\ sent[q][i].fragsize > 0}) <= 1
    /\ \A f \in Fragments(sent[q]) :
         /\ f.fragsize % BLOCKSIZE = 0
         /\ f.fragsize < RRSize(f.rr)
         /\ f.rrsize = RRSize(f.rr) \/ (f.rrsize = 0 /\ f.fragsize = 0)

\* An rrid that was announced names one record for all requesters, and is not
\* 0, which a requester takes for a record that came whole.
RridsApart ==
  \A f, g \in Announced : f.rrid # 0 /\ (f.rrid = g.rrid => f.rr = g.rr)

\* A follow-up query is served from the record it asks for, however many
\* messages were handled, and records inserted, since the rrid was announced.
ServedRight == \A s \in served : s.rr = s.asked

\* An rrid that was announced can be served: the cache "uses rrids for keys,
\* then the value is the RR", as the comment in process_dns_message has it.
Servable == \A f \in Announced : responder_cache[f.rrid].at = Copy
=============================================================================
