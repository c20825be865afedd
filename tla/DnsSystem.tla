----------------------------- MODULE DnsSystem -----------------------------
(***************************************************************************)
(* Requester and Responder put together: a client's query, fragmented by   *)
(* the daemon of the name server it reaches, asked for piece by piece by   *)
(* the daemon of the client's resolver.  Fragments name records by rrids   *)
(* that only the responder's cache can translate, and the cache is lost    *)
(* when the responder's daemon restarts.                                   *)
(***************************************************************************)
EXTENDS PartialRR, Sequences, SequencesExt

CONSTANTS
  Transactions, \* queries the clients make
  ID,           \* the 16-bit identification of each query
  Messages,     \* what the name server may answer, as in Responder
  SECTIONS,     \* how many records of each message are in each section
  RRIDS, QSIZE, MAXUDP,
  RESTARTS      \* how often the responder's daemon restarts

ASSUME SystemAssumption ==
  /\ SECTIONS \in [Messages -> Seq(Nat)]
  /\ \A m \in Messages :
       Len(SECTIONS[m]) = 3 /\ SECTIONS[m][1] + SECTIONS[m][2] + SECTIONS[m][3] = Len(m)
  /\ RESTARTS \in Nat
  /\ "none" \notin Transactions  \* NONE of Requester and Responder

VARIABLES
  client, got, outgoing, queries, responses,               \* as in Requester
  requester_state, packet, todo, missing, cursize, asked, pc, status,
  wanted, connection_info, internal, responder_cache, sent, \* as in Responder
  query, message, rrids, cur_size,
  put,              \* responder: queries put to the name server
  rpc, rstatus,     \* responder: pc and status
  restarts          \* how often it has restarted

requester == <<client, got, outgoing, queries, responses, requester_state,
               packet, todo, missing, cursize, asked, pc, status>>
responder == <<wanted, connection_info, internal, responder_cache, sent, query,
               message, rrids, cur_size, put, rpc, rstatus>>
vars == <<requester, responder, restarts>>

\* The far side of Requester is not its own any more, but the responder.
Q == INSTANCE Requester WITH
       Answers <- {}, FIRSTBLOCKS <- {}, LOSSY <- FALSE, DUPLICATES <- 0,
       answer <- <<>>, first <- <<>>, copies <- 0

\* Follow-up queries are not served by Responder's own action: what it serves
\* is what Requester asks for.
R == INSTANCE Responder WITH
       Queries <- Transactions, POLLS <- {TRUE}, asked <- put, served <- {},
       pc <- rpc, status <- rstatus

ASSUME PartsAssumption == Q!RequesterAssumption /\ R!ResponderAssumption
-----------------------------------------------------------------------------
(***************************************************************************)
(* The wire: a record as Requester has it is known by its length and what  *)
(* it is, and by its rrid if it comes in fragments.                        *)
(***************************************************************************)
OnTheWire(rrid, rr) == [rrid |-> rrid, len |-> R!RRSize(rr), of |-> rr.tag]

Item(item) ==
  IF item.isRRFrag
  THEN [isRRFrag |-> TRUE, rr |-> OnTheWire(item.rrid, item.rr), curidx |-> 0,
        fragsize |-> item.fragsize, rrsize |-> item.rrsize]
  ELSE Q!Whole(OnTheWire(0, item.rr))

\* The records of a message by section.
BySection(m, records) ==
  LET end == Offsets(SECTIONS[m])
  IN  [s \in 0 .. 2 |-> SubSeq(records, end[s] + 1, end[s + 1])]

FirstResponse(t, items) ==
  Q!Response(t, BySection(wanted[t], [i \in DOMAIN items |-> Item(items[i])]))

\* A fragment asked for, cut from the record cached under its rrid.
Cut(ask) ==
  Q!Part(OnTheWire(ask.rrid, responder_cache[ask.rrid].rr), ask.curidx, ask.fragsize)
-----------------------------------------------------------------------------
Init ==
  /\ wanted \in [Transactions -> Messages]
  /\ client = [t \in Transactions |-> "new"] /\ got = [t \in Transactions |-> Q!Empty]
  /\ outgoing = {} /\ queries = {} /\ responses = {} /\ requester_state = <<>>
  /\ packet = Q!NONE /\ todo = <<>> /\ missing = {} /\ cursize = 0 /\ asked = <<>>
  /\ pc = "idle" /\ status = "running"
  /\ put = {} /\ connection_info = {} /\ internal = {} /\ responder_cache = <<>>
  /\ sent = <<>> /\ query = R!NONE /\ message = <<>> /\ rrids = <<>> /\ cur_size = 0
  /\ rpc = "idle" /\ rstatus = "running" /\ restarts = 0

Requester ==
  /\ \/ \E t \in Transactions : Q!Ask(t)
     \/ Q!Daemon
  /\ UNCHANGED <<responder, restarts>>

\* A client's query arrives, and is put to the name server.
Start(q) ==
  /\ ~q.followup /\ R!Start(q.t)
  /\ queries' = queries \ {q}
  /\ UNCHANGED <<client, got, outgoing, responses, requester_state, packet, todo,
                 missing, cursize, asked, pc, status, restarts>>

\* The responder's work on the name server's answer.
Handle ==
  /\ \/ \E t \in Transactions : R!Answer(t)
     \/ R!Insert \/ R!Inserted \/ R!Shrink \/ R!Fits
  /\ UNCHANGED <<requester, restarts>>

Send ==
  /\ R!Send
  /\ responses' = IF rstatus' = "running"
                  THEN responses \cup {FirstResponse(query, message)} ELSE responses
  /\ UNCHANGED <<client, got, outgoing, queries, requester_state, packet, todo,
                 missing, cursize, asked, pc, status, restarts>>

Known(rrid) == rrid \in DOMAIN responder_cache

AllKnown(asks) == \A i \in DOMAIN asks : Known(asks[i].rrid)

\* process_dns_message, a follow-up query: every fragment is cut from a cached
\* record.  If there is none of that rrid, the process exits; if it was not a
\* copy, and was freed, that is undefined.
Serve(q) ==
  LET freed == \E i \in DOMAIN q.asks :
                 /\ Known(q.asks[i].rrid)
                 /\ responder_cache[q.asks[i].rrid].at = R!Freed
  IN
  /\ R!Running /\ rpc = "idle" /\ q.followup
  /\ queries' = queries \ {q}
  /\ IF AllKnown(q.asks) /\ ~freed
     THEN /\ responses' = responses \cup
               {Q!Response(q.t, [Q!Empty EXCEPT
                  ![0] = [i \in DOMAIN q.asks |-> Cut(q.asks[i])]])}
          /\ UNCHANGED rstatus
     ELSE /\ rstatus' = IF freed THEN "undefined" ELSE "exited"
          /\ UNCHANGED responses
  /\ UNCHANGED <<client, got, outgoing, requester_state, packet, todo, missing, cursize,
                 asked, pc, status, wanted, connection_info, internal, responder_cache,
                 sent, query, message, rrids, cur_size, put, rpc, restarts>>

\* The responder's daemon stops, wherever it is, or has stopped, and starts
\* again: init_shared_map.  The name server's answers find its sockets closed.
Restart ==
  /\ restarts < RESTARTS
  /\ restarts' = restarts + 1
  /\ responder_cache' = <<>> /\ connection_info' = {} /\ internal' = {}
  /\ query' = R!NONE /\ message' = <<>> /\ rrids' = <<>> /\ cur_size' = 0
  /\ rpc' = "idle" /\ rstatus' = "running"
  /\ UNCHANGED <<requester, wanted, sent, put>>

Responder == (\E q \in queries : Start(q) \/ Serve(q)) \/ Handle \/ Send

Next == Requester \/ Responder \/ Restart

(***************************************************************************)
(* The poll loop of each daemon takes every packet in turn, and its        *)
(* handlers run to their end.                                              *)
(***************************************************************************)
Spec ==
  /\ Init /\ [][Next]_vars
  /\ WF_vars(Q!Daemon /\ UNCHANGED <<responder, restarts>>) /\ WF_vars(Responder)
-----------------------------------------------------------------------------
\* The daemon's next query always asks for something: one that asks for
\* nothing would count as a query of its own, and its answer would end the
\* transaction.
FollowUpNotEmpty == Q!FollowUpNotEmpty

\* As long as nothing was lost requester keeps a PartialDNSMessage only while
\* something of its id is under way: a query, a response, or what one of the
\* daemons has in hand.  With a restart a query is lost, and the state stays.
UnderWay(t) ==
  \/ Q!UnderWay(t) # {}
  \/ t \in internal
  \/ query = t

StateReleased ==
  status = "running" /\ restarts = 0 =>
    \A id \in DOMAIN requester_state : \E t \in Transactions : ID[t] = id /\ UnderWay(t)

\* Requester's daemon stops over two kinds of first responses alone: one with
\* a fragment without data, whose next fragment finds a buffer of no bytes,
\* and one with a fragment but without answers, whose follow-up is answered
\* where there is no array.  Responder's stops only if it restarted since it
\* announced an rrid: it exits when it is asked for one it does not know.
Parts(t) == IF t \in DOMAIN sent THEN R!Fragments(sent[t]) ELSE {}

StopsOnlyForgetful ==
  /\ \/ status = "running"
     \/ status = "hung" /\ \E f \in Parts(packet) : f.fragsize = 0
     \/ status = "undefined" /\ \E t \in Transactions :
          SECTIONS[wanted[t]][1] = 0 /\ Parts(t) # {}
  /\ rstatus \in {"running", "exited"} /\ (rstatus = "exited" => restarts > 0)

\* A client is given all records of the name server's answer to its query, in
\* their sections and places, each put together from the blocks of that very
\* record: none is mixed with another, even across a restart.
AnswersIntact ==
  \A t \in Transactions : client[t] = "answered" =>
    LET expected == BySection(wanted[t], wanted[t]) IN
    \A s \in 0 .. 2 :
      /\ Len(got[t][s]) = Len(expected[s])
      /\ \A i \in DOMAIN got[t][s] :
           got[t][s][i] = Q!Whole(OnTheWire(got[t][s][i].rr.rrid, expected[s][i]))

\* Unless the responder restarts, or an answer stops requester's daemon
\* (StopsOnlyForgetful says which do), every query is answered.
Answered ==
  \A t \in Transactions :
    client[t] = "waiting" ~>
      client[t] = "answered" \/ restarts > 0 \/ status # "running"
=============================================================================
