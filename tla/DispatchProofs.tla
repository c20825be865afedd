--------------------------- MODULE DispatchProofs ---------------------------
(***************************************************************************)
(* The safety properties of Dispatch, for any number of clients, sockets   *)
(* and ports.  At most one packet of each query is under way, and one that *)
(* is between the daemon and the name server is awaited by the entry of    *)
(* connection_info that has its id.                                        *)
(***************************************************************************)
EXTENDS Dispatch, FiniteSetTheorems, TLAPS

Facts == INSTANCE Lemmas

In(host, p) == [host |-> host, hook |-> "INPUT", packet |-> p]

\* The four kinds of packets: between client and server, and between the
\* daemon's sockets and the name server.
Query(c, frag) == ToServer(c, c, QUESTION[c], frag)
Response(c, frag) == ToClient(c, c, QUESTION[c], frag)
Put(c, port) == Packet(SERVER, port, SERVER, DNS, c, TRUE, QUESTION[c], FALSE)
Answer(c, port) == Packet(SERVER, DNS, SERVER, port, c, FALSE, QUESTION[c], FALSE)

Outside(e) ==
  \E c \in Clients, frag \in BOOLEAN :
    \/ e \in {Sent(RESOLVER, Query(c, frag)), In(SERVER, Query(c, frag))}
    \/ e \in {Sent(SERVER, Response(c, frag)), Sent(RESOLVER, Response(c, frag)),
              In(RESOLVER, Response(c, frag))}

Inside(e) ==
  \E c \in Clients, port \in EPHEMERAL :
    e \in {Sent(SERVER, Put(c, port)), In(SERVER, Put(c, port)),
           Sent(SERVER, Answer(c, port)), In(SERVER, Answer(c, port))}

\* Every packet is of one of these kinds, on one of the two hosts.
Shapes ==
  /\ \A e \in queue : Outside(e) \/ Inside(e)
  /\ \A p \in resolving : \E c \in Clients, port \in EPHEMERAL : p = Put(c, port)
  /\ \A p \in unanswered : ~p.frag

\* One packet of each query at most is under way, while its client waits.
OneUnderWay ==
  /\ \A e, f \in queue : e.packet.id = f.packet.id => e = f
  /\ \A p, q \in resolving : p.id = q.id => p = q
  /\ \A e \in queue, p \in resolving : e.packet.id # p.id
  /\ \A e \in queue : client[e.packet.id] = "waiting"
  /\ \A p \in resolving : client[p.id] = "waiting"

\* What is between a socket and the name server is awaited by an entry.
Port(p) == IF p.query THEN p.sport ELSE p.dport
IsAwaited(p) ==
  /\ Key(p.about, Port(p)) \in DOMAIN connection_info
  /\ connection_info[Key(p.about, Port(p))].packet = ToServer(p.id, p.id, p.about, FALSE)

Awaiting ==
  /\ \A e \in queue : Inside(e) => IsAwaited(e.packet)
  /\ \A p \in resolving : IsAwaited(p)

Stops == ~Running => status = "exited" /\ DOMAIN open = FDS

Inv ==
  /\ TypeOK /\ Shapes /\ OneUnderWay /\ Awaiting
  /\ SocketsMatch /\ NothingElseLeaks /\ FragmentsIntercepted /\ StateReleased
  /\ Stops
-----------------------------------------------------------------------------
\* The lowest of some free descriptors is one of them.
LEMMA LowestIsFree ==
  ASSUME NEW S, S \subseteq Nat, S # {}
  PROVE  Min(S) \in S
<1>1. \E x \in S : \A y \in S : x <= y
  BY Facts!LeastElement
<1> QED
  BY <1>1 DEF Min

\* What a packet is that a branch is taken for.
LEMMA Branches ==
  ASSUME Shapes, NEW e \in queue
  PROVE  /\ Branch(e.host, e.packet) # "error"
         /\ Branch(e.host, e.packet) = "accept" =>
              \E c \in Clients, frag \in BOOLEAN : e = Sent(SERVER, Response(c, frag))
         /\ Branch(e.host, e.packet) = "register" =>
              \E c \in Clients, frag \in BOOLEAN : e = Sent(RESOLVER, Query(c, frag))
         /\ Branch(e.host, e.packet) = "serve" =>
              \E c \in Clients : e = In(SERVER, Query(c, TRUE))
         /\ Branch(e.host, e.packet) = "forward" =>
              \E c \in Clients : e = In(SERVER, Query(c, FALSE))
         /\ Branch(e.host, e.packet) = "reassemble" =>
              \E c \in Clients : e \in {Sent(RESOLVER, Response(c, TRUE)),
                                        In(RESOLVER, Response(c, TRUE))}
         /\ Branch(e.host, e.packet) = "clear" =>
              \E c \in Clients : e \in {Sent(RESOLVER, Response(c, FALSE)),
                                        In(RESOLVER, Response(c, FALSE))}
         /\ Branch(e.host, e.packet) = "internal" => Inside(e)
<1>1. CASE Inside(e)
  <2>1. e.host = SERVER /\ e.packet.saddr = SERVER /\ e.packet.daddr = SERVER
    BY <1>1 DEF Inside, Sent, In, Put, Answer, Packet
  <2>2. Branch(e.host, e.packet) = "internal"
    BY <2>1 DEF Branch, is_internal_packet, is_resolver, SERVER, RESOLVER
  <2> QED
    BY <1>1, <2>2
<1>2. CASE Outside(e)
  <2>1. PICK c \in Clients, frag \in BOOLEAN :
          \/ e \in {Sent(RESOLVER, Query(c, frag)), In(SERVER, Query(c, frag))}
          \/ e \in {Sent(SERVER, Response(c, frag)), Sent(RESOLVER, Response(c, frag)),
                    In(RESOLVER, Response(c, frag))}
    BY <1>2 DEF Outside
  <2>2. c # DNS
    BY DispatchAssumption
  <2>3. CASE e = Sent(RESOLVER, Query(c, frag))
    <3>1. Branch(e.host, e.packet) = "register"
      BY <2>3 DEF Branch, is_internal_packet, is_resolver, QueryOut, QueryIn,
                  ResponseOut, ResponseIn, SERVER, RESOLVER, Sent,
                  Query, ToServer, Packet
    <3> QED
      BY <2>3, <3>1
  <2>4. CASE e = In(SERVER, Query(c, frag))
    <3>1. Branch(e.host, e.packet) = IF frag THEN "serve" ELSE "forward"
      BY <2>4 DEF Branch, is_internal_packet, is_resolver, QueryOut, QueryIn,
                  ResponseOut, ResponseIn, SERVER, RESOLVER, In,
                  Query, ToServer, Packet
    <3> QED
      BY <2>4, <3>1
  <2>5. CASE e = Sent(SERVER, Response(c, frag))
    <3>1. Branch(e.host, e.packet) = "accept"
      BY <2>2, <2>5 DEF Branch, is_internal_packet, is_resolver, QueryOut, QueryIn,
                  ResponseOut, ResponseIn, SERVER, RESOLVER, Sent,
                  Response, ToClient, Packet
    <3> QED
      BY <2>5, <3>1
  <2>6. CASE e \in {Sent(RESOLVER, Response(c, frag)), In(RESOLVER, Response(c, frag))}
    <3>1. Branch(e.host, e.packet) = IF frag THEN "reassemble" ELSE "clear"
      BY <2>6 DEF Branch, is_internal_packet, is_resolver, QueryOut, QueryIn,
                  ResponseOut, ResponseIn, SERVER, RESOLVER, Sent, In,
                  Response, ToClient, Packet
    <3> QED
      BY <2>6, <3>1
  <2> QED
    BY <2>1, <2>3, <2>4, <2>5, <2>6
<1> QED
  BY <1>1, <1>2 DEF Shapes

\* What the kinds of packets have in common.
LEMMA Kinds ==
  ASSUME NEW e
  PROVE  /\ Outside(e) => e.packet.saddr # e.packet.daddr /\ e.packet.id \in Clients
         /\ Inside(e) => e.packet.saddr = SERVER /\ e.packet.daddr = SERVER
                         /\ e.packet.id \in Clients
         /\ Outside(e) \/ Inside(e) =>
              e.host \in Hosts /\ e.hook \in {"OUTPUT", "INPUT"}
<1>1. ASSUME Outside(e)
      PROVE  /\ e.packet.saddr # e.packet.daddr /\ e.packet.id \in Clients
             /\ e.host \in Hosts /\ e.hook \in {"OUTPUT", "INPUT"}
  BY <1>1 DEF Outside, Sent, In, Query, Response, ToServer, ToClient, Packet, Hosts,
              SERVER, RESOLVER
<1>2. ASSUME Inside(e)
      PROVE  /\ e.packet.saddr = SERVER /\ e.packet.daddr = SERVER /\ e.packet.id \in Clients
             /\ e.host \in Hosts /\ e.hook \in {"OUTPUT", "INPUT"}
  BY <1>2 DEF Inside, Sent, In, Put, Answer, Packet, Hosts, SERVER
<1> QED
  BY <1>1, <1>2

\* A packet gives way to one of the same query at most.
LEMMA Resent ==
  ASSUME Inv, NEW e \in queue, NEW F,
         \A f \in F : f.packet.id = e.packet.id /\ \A g \in F : g = f,
         queue' = (queue \ {e}) \cup F, UNCHANGED resolving,
         \A c \in Clients : client'[c] = client[c] \/ (F = {} /\ c = e.packet.id)
  PROVE  OneUnderWay'
<1> USE DEF Inv
<1>1. \A f \in queue : f.packet.id \in Clients
  BY Kinds DEF Shapes
<1>2. \A p \in resolving : p.id \in Clients
  BY DEF Shapes, Put, Packet
<1>3. \A f \in queue : f # e => f.packet.id # e.packet.id
  BY DEF OneUnderWay
<1>4. \A p \in resolving : p.id # e.packet.id
  BY DEF OneUnderWay
<1>5. \A f, g \in queue' : f.packet.id = g.packet.id => f = g
  BY <1>3 DEF OneUnderWay
<1>6. \A f \in queue', p \in resolving' : f.packet.id # p.id
  BY <1>4 DEF OneUnderWay
<1>7. \A f \in queue' : client'[f.packet.id] = "waiting"
  BY <1>1, <1>3 DEF OneUnderWay
<1>8. \A p \in resolving' : client'[p.id] = "waiting"
  BY <1>2, <1>4 DEF OneUnderWay
<1> QED
  BY <1>5, <1>6, <1>7, <1>8 DEF OneUnderWay

\* A step with a packet between client and server leaves what is between
\* sockets and name server alone.
LEMMA OutsideStep ==
  ASSUME Inv, NEW e \in queue, Outside(e), NEW F,
         \A f \in F : /\ Outside(f) /\ f.packet.id = e.packet.id
                      /\ \A g \in F : g = f,
         queue' = (queue \ {e}) \cup F,
         UNCHANGED <<resolving, unanswered, connection_info, open, missed>>,
         \A c \in Clients : client'[c] = client[c] \/ (F = {} /\ c = e.packet.id)
  PROVE  Shapes' /\ OneUnderWay' /\ Awaiting' /\ SocketsMatch' /\ NothingElseLeaks'
<1> USE DEF Inv
<1>1. Shapes'
  BY DEF Shapes, Outside, Inside
<1>2. OneUnderWay'
  BY Resent
<1>3. Awaiting'
  <2>1. \A f \in queue' : Inside(f) => f \in queue
    BY Kinds
  <2> QED
    BY <2>1 DEF Awaiting, IsAwaited, Inside
<1>4. SocketsMatch'
  BY DEF SocketsMatch
<1>5. NothingElseLeaks'
  <2> SUFFICES ASSUME NEW key \in DOMAIN connection_info
               PROVE  \E p \in {f.packet : f \in queue'} \cup resolving \cup unanswered
                                 \cup missed :
                        /\ p.saddr = SERVER /\ p.daddr = SERVER
                        /\ key = Key(p.about, IF p.query THEN p.sport ELSE p.dport)
                        /\ p.id = connection_info[key].packet.id
    BY DEF NothingElseLeaks
  <2>1. PICK p \in {f.packet : f \in queue} \cup resolving \cup unanswered \cup missed :
               /\ p.saddr = SERVER /\ p.daddr = SERVER
               /\ key = Key(p.about, IF p.query THEN p.sport ELSE p.dport)
               /\ p.id = connection_info[key].packet.id
    BY DEF NothingElseLeaks
  <2>2. p # e.packet
    BY <2>1, Kinds
  <2>3. p \in {f.packet : f \in queue'} \cup resolving \cup unanswered \cup missed
    BY <2>1, <2>2
  <2> QED
    BY <2>1, <2>3
<1> QED
  BY <1>1, <1>2, <1>3, <1>4, <1>5
-----------------------------------------------------------------------------
\* Initially there are neither packets, nor entries, nor sockets.
LEMMA InitInv == Init => Inv
<1> SUFFICES ASSUME Init PROVE Inv
  OBVIOUS
<1> USE DEF Init
<1>1. TypeOK
  BY DEF TypeOK, Range
<1>2. Shapes /\ OneUnderWay /\ Awaiting
  BY DEF Shapes, OneUnderWay, Awaiting
<1>3. SocketsMatch
  BY DEF SocketsMatch, Range, IsInjective
<1>4. NothingElseLeaks /\ FragmentsIntercepted /\ StateReleased /\ Stops
  BY DEF NothingElseLeaks, FragmentsIntercepted, StateReleased, Stops, Running
<1> QED
  BY <1>1, <1>2, <1>3, <1>4 DEF Inv

\* A client that was idle has no packet under way.
LEMMA AskInv ==
  ASSUME Inv, NEW c \in Clients, Ask(c)
  PROVE  Inv'
<1> USE DEF Inv
<1> DEFINE new == Sent(RESOLVER, Query(c, FALSE))
<1>1. /\ queue' = queue \cup {new} /\ client[c] = "new"
      /\ client' = [client EXCEPT ![c] = "waiting"]
      /\ UNCHANGED <<got, resolving, unanswered, requester_state, connection_info,
                     open, missed, status>>
  BY DEF Ask, Query
<1>2. Outside(new) /\ new.packet.id = c
  BY DEF Outside, Sent, Query, ToServer, Packet
<1>3. client' \in [Clients -> {"new", "waiting", "answered"}] /\ client'[c] = "waiting"
      /\ \A x \in Clients : client[x] = "waiting" => client'[x] = "waiting"
  BY <1>1 DEF TypeOK
<1> HIDE DEF new
<1>4. Shapes'
  BY <1>1, <1>2 DEF Shapes, Outside, Inside
<1>5. TypeOK'
  <2>1. \A e \in queue' : e.host \in Hosts /\ e.hook \in {"OUTPUT", "INPUT"}
    BY <1>4, Kinds DEF Shapes, Outside, Inside
  <2> QED
    BY <1>1, <1>3, <2>1 DEF TypeOK
<1>6. OneUnderWay'
  <2>1. \A e \in queue : e.packet.id # c /\ e.packet.id \in Clients
    BY <1>1, Kinds DEF OneUnderWay, Shapes
  <2>2. \A p \in resolving : p.id # c /\ p.id \in Clients
    BY <1>1 DEF OneUnderWay, Shapes, Put, Packet
  <2>3. \A e, f \in queue' : e.packet.id = f.packet.id => e = f
    BY <1>1, <1>2, <2>1 DEF OneUnderWay
  <2>4. \A e \in queue', p \in resolving' : e.packet.id # p.id
    BY <1>1, <1>2, <2>2 DEF OneUnderWay
  <2>5. \A e \in queue' : client'[e.packet.id] = "waiting"
    BY <1>1, <1>2, <1>3, <2>1 DEF OneUnderWay
  <2>6. \A p \in resolving' : client'[p.id] = "waiting"
    BY <1>1, <1>3, <2>2 DEF OneUnderWay
  <2> QED
    BY <1>1, <2>3, <2>4, <2>5, <2>6 DEF OneUnderWay
<1>7. Awaiting'
  <2>1. \A e \in queue' : Inside(e) => e \in queue
    BY <1>1, <1>2, Kinds
  <2> QED
    BY <1>1, <2>1 DEF Awaiting, IsAwaited, Inside
<1>8. SocketsMatch'
  BY <1>1 DEF SocketsMatch
<1>9. NothingElseLeaks'
  BY <1>1 DEF NothingElseLeaks
<1>10. FragmentsIntercepted' /\ Stops'
  BY <1>1 DEF FragmentsIntercepted, Stops, Running
<1>11. StateReleased'
  BY <1>1, <1>3 DEF StateReleased, TypeOK
<1> QED
  BY <1>4, <1>5, <1>6, <1>7, <1>8, <1>9, <1>10, <1>11

\* What is left of the invariant.
LEMMA RestInv ==
  ASSUME Shapes', DOMAIN open' \subseteq FDS, Range(open)' \subseteq EPHEMERAL,
         client' \in [Clients -> {"new", "waiting", "answered"}], DOMAIN got' = Clients,
         \A c \in Clients : got'[c] \subseteq {[about |-> QUESTION[c], frag |-> FALSE]},
         DOMAIN requester_state' \subseteq Clients,
         \A id \in DOMAIN requester_state' :
           requester_state'[id] \in Nat \cup {UNSET} /\ client'[id] = "waiting",
         status' = "running" \/ (status' = "exited" /\ DOMAIN open' = FDS)
  PROVE  TypeOK' /\ FragmentsIntercepted' /\ StateReleased' /\ Stops'
<1>1. \A e \in queue' : e.host \in Hosts /\ e.hook \in {"OUTPUT", "INPUT"}
  BY Kinds DEF Shapes, Outside, Inside
<1>2. TypeOK'
  BY <1>1 DEF TypeOK
<1>3. FragmentsIntercepted'
  BY DEF FragmentsIntercepted, Shapes, Put, Packet
<1>4. StateReleased' /\ Stops'
  BY DEF StateReleased, Stops, Running
<1> QED
  BY <1>2, <1>3, <1>4

\* A response leaves the name server's host.
LEMMA PassInv ==
  ASSUME Inv, NEW e \in queue, Pass(e)
  PROVE  Inv'
<1> USE DEF Inv
<1>1. PICK c \in Clients, frag \in BOOLEAN : e = Sent(SERVER, Response(c, frag))
  BY Branches DEF Pass, Took
<1>2. Accepted(e) /\ status' = "running"
      /\ UNCHANGED <<unanswered, requester_state, connection_info, open, missed>>
  BY Branches DEF Pass, Took, Running
<1> DEFINE next == In(RESOLVER, Response(c, frag))
<1>3. Onward(e) = {next} /\ Outside(e) /\ Outside(next) /\ next.packet.id = e.packet.id
      /\ e.hook = "OUTPUT"
  BY <1>1 DEF Onward, Outside, Sent, In, Response, ToClient, Packet
<1>4. queue' = (queue \ {e}) \cup {next} /\ UNCHANGED <<client, got, resolving>>
  BY <1>2, <1>3 DEF Accepted
<1> HIDE DEF next
<1>5. Shapes' /\ OneUnderWay' /\ Awaiting' /\ SocketsMatch' /\ NothingElseLeaks'
  BY <1>2, <1>3, <1>4, OutsideStep
<1>6. TypeOK' /\ FragmentsIntercepted' /\ StateReleased' /\ Stops'
  BY <1>2, <1>4, <1>5, RestInv DEF TypeOK, FragmentsIntercepted, StateReleased
<1> QED
  BY <1>2, <1>5, <1>6

\* A query leaves the resolver's host: its client waits, so it may have state.
LEMMA RegisterInv ==
  ASSUME Inv, NEW e \in queue, Register(e)
  PROVE  Inv'
<1> USE DEF Inv
<1>1. PICK c \in Clients, frag \in BOOLEAN : e = Sent(RESOLVER, Query(c, frag))
  BY Branches DEF Register, Took
<1>2. /\ Accepted(e) /\ status = "running"
      /\ requester_state' =
           [id \in DOMAIN requester_state \cup {e.packet.id} |->
              IF id \in DOMAIN requester_state THEN requester_state[id] ELSE UNSET]
      /\ UNCHANGED <<unanswered, connection_info, open, missed, status>>
  BY DEF Register, Took, Running
<1> DEFINE next == In(SERVER, Query(c, frag))
<1>3. Onward(e) = {next} /\ Outside(e) /\ Outside(next) /\ next.packet.id = e.packet.id
      /\ e.hook = "OUTPUT" /\ e.packet.id = c
  BY <1>1 DEF Onward, Outside, Sent, In, Query, ToServer, Packet
<1>4. queue' = (queue \ {e}) \cup {next} /\ UNCHANGED <<client, got, resolving>>
  BY <1>2, <1>3 DEF Accepted
<1> HIDE DEF next
<1>5. Shapes' /\ OneUnderWay' /\ Awaiting' /\ SocketsMatch' /\ NothingElseLeaks'
  BY <1>2, <1>3, <1>4, OutsideStep
<1>6. client[c] = "waiting"
  BY <1>3 DEF OneUnderWay
<1>7. \A id \in DOMAIN requester_state' :
        requester_state'[id] \in Nat \cup {UNSET} /\ client'[id] = "waiting"
  BY <1>2, <1>3, <1>4, <1>6 DEF TypeOK, StateReleased
<1>8. TypeOK' /\ FragmentsIntercepted' /\ StateReleased' /\ Stops'
  BY <1>2, <1>3, <1>4, <1>5, <1>7, RestInv DEF TypeOK, FragmentsIntercepted, StateReleased
<1> QED
  BY <1>5, <1>8

\* A response without fragments ends the transaction, and reaches its client.
LEMMA ClearInv ==
  ASSUME Inv, NEW e \in queue, Clear(e)
  PROVE  Inv'
<1> USE DEF Inv
<1>1. PICK c \in Clients : e \in {Sent(RESOLVER, Response(c, FALSE)),
                                  In(RESOLVER, Response(c, FALSE))}
  BY Branches DEF Clear, Took
<1>2. /\ Accepted(e) /\ status = "running" /\ requester_state' = Cleared(e.packet.id)
      /\ UNCHANGED <<unanswered, connection_info, open, missed, status>>
  BY DEF Clear, Took, Running
<1>3. /\ Outside(e) /\ e.packet.id = c /\ e.packet.dport = c /\ e.packet.about = QUESTION[c]
      /\ e.packet.frag = FALSE /\ e.packet.daddr = RESOLVER
  <2>1. Outside(e)
    BY <1>1 DEF Outside
  <2> QED
    BY <1>1, <2>1 DEF Sent, In, Response, ToClient, Packet
<1>4. DOMAIN requester_state' = DOMAIN requester_state \ {c}
      /\ \A id \in DOMAIN requester_state' : requester_state'[id] = requester_state[id]
  BY <1>2, <1>3 DEF Cleared, Restrict
<1>5. UNCHANGED resolving
  BY <1>2, <1>3 DEF Accepted, RESOLVER, SERVER
<1>6. CASE e = Sent(RESOLVER, Response(c, FALSE))
  <2> DEFINE next == In(RESOLVER, Response(c, FALSE))
  <2>1. Onward(e) = {next} /\ Outside(next) /\ next.packet.id = e.packet.id
        /\ e.hook = "OUTPUT"
    BY <1>6 DEF Onward, Outside, Sent, In, Response, ToClient, Packet
  <2> HIDE DEF next
  <2> DEFINE F == {next}
  <2>2. queue' = (queue \ {e}) \cup F /\ UNCHANGED <<client, got>>
        /\ \A f \in F : /\ Outside(f) /\ f.packet.id = e.packet.id
                        /\ \A g \in F : g = f
    BY <1>2, <2>1 DEF Accepted
  <2> HIDE DEF F
  <2>3. Shapes' /\ OneUnderWay' /\ Awaiting' /\ SocketsMatch' /\ NothingElseLeaks'
    BY <1>2, <1>3, <1>5, <2>2, OutsideStep
  <2>4. TypeOK' /\ FragmentsIntercepted' /\ StateReleased' /\ Stops'
    BY <1>2, <1>4, <1>5, <2>2, <2>3, RestInv DEF TypeOK, FragmentsIntercepted, StateReleased
  <2> QED
    BY <2>3, <2>4
<1>7. CASE e = In(RESOLVER, Response(c, FALSE))
  <2>1. Onward(e) = {} /\ e.hook = "INPUT"
    BY <1>7 DEF Onward, In
  <2>2. /\ queue' = (queue \ {e}) \cup {}
        /\ client' = [client EXCEPT ![c] = "answered"]
        /\ got' = [got EXCEPT ![c] = @ \cup {[about |-> QUESTION[c], frag |-> FALSE]}]
    BY <1>2, <1>3, <2>1 DEF Accepted
  <2>3. client' \in [Clients -> {"new", "waiting", "answered"}]
        /\ \A x \in Clients : client'[x] = client[x] \/ x = e.packet.id
    BY <1>3, <2>2 DEF TypeOK
  <2>4. Shapes' /\ OneUnderWay' /\ Awaiting' /\ SocketsMatch' /\ NothingElseLeaks'
    BY <1>2, <1>3, <1>5, <2>2, <2>3, OutsideStep
  <2>5. /\ DOMAIN got' = Clients
        /\ \A x \in Clients : got'[x] \subseteq {[about |-> QUESTION[x], frag |-> FALSE]}
    BY <2>2 DEF TypeOK, FragmentsIntercepted
  <2>6. \A id \in DOMAIN requester_state' :
          requester_state'[id] \in Nat \cup {UNSET} /\ client'[id] = "waiting"
    BY <1>3, <1>4, <2>3 DEF TypeOK, StateReleased
  <2>7. TypeOK' /\ FragmentsIntercepted' /\ StateReleased' /\ Stops'
    BY <1>2, <1>4, <1>5, <2>3, <2>4, <2>5, <2>6, RestInv DEF TypeOK
  <2> QED
    BY <2>4, <2>7
<1> QED
  BY <1>1, <1>6, <1>7

\* A response with fragments is followed up, or complete, or not awaited.
LEMMA ReassembleInv ==
  ASSUME Inv, NEW e \in queue, Reassemble(e)
  PROVE  Inv'
<1> USE DEF Inv
<1>1. PICK c \in Clients : e \in {Sent(RESOLVER, Response(c, TRUE)),
                                  In(RESOLVER, Response(c, TRUE))}
  BY Branches DEF Reassemble, Took
<1>2. /\ Outside(e) /\ e.packet.id = c /\ e.packet.dport = c
      /\ e.packet.about = QUESTION[c] /\ e.host = RESOLVER
  <2>1. Outside(e)
    BY <1>1 DEF Outside
  <2> QED
    BY <1>1, <2>1 DEF Sent, In, Response, ToClient, Packet
<1> DEFINE left == Left(c, QUESTION[c])
           sent == IF left = 0 THEN Response(c, FALSE) ELSE Query(c, TRUE)
<1>3. /\ status = "running"
      /\ UNCHANGED <<unanswered, connection_info, open, missed, status>>
      /\ \/ /\ c \in DOMAIN requester_state /\ requester_state[c] # 0
            /\ requester_state' = [requester_state EXCEPT ![c] = left]
            /\ Replaced(e, {sent})
         \/ UNCHANGED requester_state /\ Replaced(e, {})
  BY <1>2 DEF Reassemble, Took, Running, Query, Response
<1>4. client[c] = "waiting"
  BY <1>2 DEF OneUnderWay
<1>5. ASSUME c \in DOMAIN requester_state, requester_state[c] # 0
      PROVE  left \in Nat
  <2>1. ROUNDS[QUESTION[c]] \in Nat
    BY DispatchAssumption DEF Questions
  <2>2. requester_state[c] \in Nat \cup {UNSET}
    BY <1>5 DEF TypeOK
  <2> QED
    BY <1>5, <2>1, <2>2 DEF Left, UNSET
<1> HIDE DEF left
<1>6. Outside(Sent(RESOLVER, sent)) /\ Sent(RESOLVER, sent).packet.id = c
  BY DEF Outside, Sent, Response, Query, ToClient, ToServer, Packet
<1> HIDE DEF sent
<1>7. ASSUME NEW F, \A f \in F : f = Sent(RESOLVER, sent),
             queue' = (queue \ {e}) \cup F, UNCHANGED <<client, got, resolving>>
      PROVE  Shapes' /\ OneUnderWay' /\ Awaiting' /\ SocketsMatch' /\ NothingElseLeaks'
  <2>1. \A f \in F : /\ Outside(f) /\ f.packet.id = e.packet.id
                    /\ \A g \in F : g = f
    BY <1>2, <1>6, <1>7
  <2> QED
    BY <1>2, <1>3, <1>7, <2>1, OutsideStep
<1>8. Shapes' /\ OneUnderWay' /\ Awaiting' /\ SocketsMatch' /\ NothingElseLeaks'
      /\ UNCHANGED <<client, got, resolving>>
  <2> DEFINE F(S) == {Sent(e.host, p) : p \in S}
  <2>1. \A f \in F({sent}) \cup F({}) : f = Sent(RESOLVER, sent)
    BY <1>2
  <2>2. \/ queue' = (queue \ {e}) \cup F({sent}) /\ UNCHANGED <<client, got, resolving>>
        \/ queue' = (queue \ {e}) \cup F({}) /\ UNCHANGED <<client, got, resolving>>
    BY <1>3 DEF Replaced
  <2> HIDE DEF F
  <2> QED
    BY <1>7, <2>1, <2>2
<1>9. DOMAIN requester_state' \subseteq Clients
      /\ \A id \in DOMAIN requester_state' :
           requester_state'[id] \in Nat \cup {UNSET} /\ client'[id] = "waiting"
  BY <1>3, <1>5, <1>8 DEF TypeOK, StateReleased
<1>10. TypeOK' /\ FragmentsIntercepted' /\ StateReleased' /\ Stops'
  BY <1>3, <1>8, <1>9, RestInv DEF TypeOK, FragmentsIntercepted
<1> QED
  BY <1>8, <1>10

\* A follow-up query is answered, if there is a descriptor to do it with.
LEMMA ServeInv ==
  ASSUME Inv, NEW e \in queue, Serve(e)
  PROVE  Inv'
<1> USE DEF Inv
<1>1. PICK c \in Clients : e = In(SERVER, Query(c, TRUE))
  BY Branches DEF Serve, Took
<1>2. /\ Outside(e) /\ e.packet.id = c /\ e.packet.sport = c
      /\ e.packet.about = QUESTION[c] /\ e.host = SERVER
  BY <1>1 DEF Outside, In, Query, ToServer, Packet
<1> DEFINE sent == Response(c, TRUE)
<1>3. /\ status = "running"
      /\ UNCHANGED <<unanswered, requester_state, connection_info, open, missed>>
      /\ \/ /\ Free = {} /\ status' = "exited"
            /\ UNCHANGED <<client, got, queue, resolving>>
         \/ Replaced(e, {sent}) /\ status' = "running"
  BY <1>2 DEF Serve, Took, Running, Response
<1>4. Outside(Sent(SERVER, sent)) /\ Sent(SERVER, sent).packet.id = c
  BY DEF Outside, Sent, Response, ToClient, Packet
<1> HIDE DEF sent
<1>5. CASE Free = {} /\ status' = "exited" /\ UNCHANGED <<client, got, queue, resolving>>
  <2> DEFINE F == {e}
  <2>1. queue' = (queue \ {e}) \cup F /\ UNCHANGED <<client, resolving>>
        /\ \A f \in F : /\ Outside(f) /\ f.packet.id = e.packet.id
                        /\ \A g \in F : g = f
    BY <1>2, <1>5
  <2> HIDE DEF F
  <2>2. Shapes' /\ OneUnderWay' /\ Awaiting' /\ SocketsMatch' /\ NothingElseLeaks'
    BY <1>2, <1>3, <2>1, OutsideStep
  <2>3. DOMAIN open = FDS
    BY <1>5 DEF Free, TypeOK
  <2>4. TypeOK' /\ FragmentsIntercepted' /\ StateReleased' /\ Stops'
    BY <1>3, <1>5, <2>2, <2>3, RestInv DEF TypeOK, FragmentsIntercepted, StateReleased
  <2> QED
    BY <2>2, <2>4
<1>6. CASE Replaced(e, {sent}) /\ status' = "running"
  <2> DEFINE F == {Sent(SERVER, sent)}
  <2>1. queue' = (queue \ {e}) \cup F /\ UNCHANGED <<client, got, resolving>>
        /\ \A f \in F : /\ Outside(f) /\ f.packet.id = e.packet.id
                        /\ \A g \in F : g = f
    BY <1>2, <1>4, <1>6 DEF Replaced
  <2> HIDE DEF F
  <2>2. Shapes' /\ OneUnderWay' /\ Awaiting' /\ SocketsMatch' /\ NothingElseLeaks'
    BY <1>2, <1>3, <2>1, OutsideStep
  <2>3. TypeOK' /\ FragmentsIntercepted' /\ StateReleased' /\ Stops'
    BY <1>3, <1>6, <2>1, <2>2, RestInv DEF TypeOK, FragmentsIntercepted, StateReleased
  <2> QED
    BY <2>2, <2>3
<1> QED
  BY <1>3, <1>5, <1>6

\* The name server's answer takes the place of the query it answers.
LEMMA ReplyInv ==
  ASSUME Inv, NEW p \in resolving, Reply(p)
  PROVE  Inv'
<1> USE DEF Inv
<1>1. PICK c \in Clients, port \in EPHEMERAL : p = Put(c, port)
  BY DEF Shapes
<1> DEFINE answer == Answer(c, port)
           e == Sent(SERVER, answer)
<1>2. /\ resolving' = resolving \ {p} /\ queue' = queue \cup {e}
      /\ UNCHANGED <<client, got, unanswered, requester_state, connection_info, open,
                     missed, status>>
  BY <1>1 DEF Reply, Put, Answer, Packet
<1>3. Inside(e) /\ e.packet = answer
  <2>1. Inside(e)
    BY DEF Inside
  <2> QED
    BY <2>1 DEF Sent
<1>4. /\ answer.id = p.id /\ p.id = c /\ answer.about = p.about /\ Port(answer) = Port(p)
      /\ answer.saddr = SERVER /\ answer.daddr = SERVER
  BY <1>1 DEF Port, Put, Answer, Packet
<1> HIDE DEF answer, e
<1>5. Shapes'
  BY <1>2, <1>3 DEF Shapes, Outside, Inside
<1>6. OneUnderWay'
  BY <1>2, <1>3, <1>4 DEF OneUnderWay
<1>7. Awaiting'
  <2>1. IsAwaited(answer)
    BY <1>4 DEF Awaiting, IsAwaited
  <2> QED
    BY <1>2, <1>3, <2>1 DEF Awaiting, IsAwaited, Inside
<1>8. SocketsMatch'
  BY <1>2 DEF SocketsMatch
<1>9. NothingElseLeaks'
  BY <1>2, <1>3, <1>4 DEF NothingElseLeaks, Port
<1>10. TypeOK' /\ FragmentsIntercepted' /\ StateReleased' /\ Stops'
  BY <1>2, <1>5, RestInv DEF TypeOK, FragmentsIntercepted, StateReleased, Stops, Running
<1> QED
  BY <1>5, <1>6, <1>7, <1>8, <1>9, <1>10

\* A query never answered is remembered.
LEMMA WithholdInv ==
  ASSUME Inv, NEW p \in resolving, Withhold(p)
  PROVE  Inv'
<1> USE DEF Inv
<1>1. /\ resolving' = resolving \ {p} /\ unanswered' = unanswered \cup {p}
      /\ UNCHANGED <<client, got, queue, requester_state, connection_info, open, missed,
                     status>>
  BY DEF Withhold
<1>2. ~p.frag
  BY DEF Shapes, Put, Packet
<1>3. Shapes'
  BY <1>1, <1>2 DEF Shapes
<1>4. OneUnderWay' /\ Awaiting'
  BY <1>1 DEF OneUnderWay, Awaiting, IsAwaited
<1>5. SocketsMatch' /\ NothingElseLeaks'
  BY <1>1 DEF SocketsMatch, NothingElseLeaks
<1>6. TypeOK' /\ FragmentsIntercepted' /\ StateReleased' /\ Stops'
  BY <1>1, <1>3, RestInv DEF TypeOK, FragmentsIntercepted, StateReleased, Stops, Running
<1> QED
  BY <1>3, <1>4, <1>5, <1>6

\* A socket with a port of its own, and an entry under a key that is new: the
\* port of every key there is belongs to an open socket.
LEMMA ForwardInv ==
  ASSUME Inv, NEW e \in queue, Forward(e)
  PROVE  Inv'
<1> USE DEF Inv
<1>1. PICK c \in Clients : e = In(SERVER, Query(c, FALSE))
  BY Branches DEF Forward, Took
<1>2. /\ Outside(e) /\ e.packet.id = c /\ e.packet.about = QUESTION[c] /\ e.host = SERVER
      /\ e.packet = Query(c, FALSE)
  <2>1. Outside(e)
    BY <1>1 DEF Outside
  <2> QED
    BY <1>1, <2>1 DEF In, Query, ToServer, Packet
<1>3. status = "running" /\ UNCHANGED <<unanswered, requester_state, missed>>
  BY DEF Forward, Took, Running
<1>4. CASE /\ Free = {} /\ status' = "exited"
           /\ UNCHANGED <<client, got, queue, resolving, connection_info, open>>
  <2> DEFINE F == {e}
  <2>1. queue' = (queue \ {e}) \cup F
        /\ \A f \in F : /\ Outside(f) /\ f.packet.id = e.packet.id
                        /\ \A g \in F : g = f
    BY <1>2, <1>4
  <2> HIDE DEF F
  <2>2. Shapes' /\ OneUnderWay' /\ Awaiting' /\ SocketsMatch' /\ NothingElseLeaks'
    BY <1>2, <1>3, <1>4, <2>1, OutsideStep
  <2>3. DOMAIN open = FDS
    BY <1>4 DEF Free, TypeOK
  <2>4. TypeOK' /\ FragmentsIntercepted' /\ StateReleased' /\ Stops'
    BY <1>3, <1>4, <2>2, <2>3, RestInv DEF TypeOK, FragmentsIntercepted, StateReleased
  <2> QED
    BY <2>2, <2>4
<1>5. CASE Free # {}
  <2> DEFINE fd == Min(Free)
  <2>1. PICK port \in EPHEMERAL \ Range(open) :
          /\ IF Key(QUESTION[c], port) \in DOMAIN connection_info
             THEN status' = "aborted" /\ UNCHANGED connection_info
             ELSE /\ connection_info' = With(connection_info, Key(QUESTION[c], port),
                                             [fd |-> fd, packet |-> e.packet])
                  /\ UNCHANGED status
          /\ open' = With(open, fd, port)
          /\ Replaced(e, {Put(c, port)})
    BY <1>2, <1>5 DEF Forward, Put
  <2> DEFINE key == Key(QUESTION[c], port)
             new == Sent(SERVER, Put(c, port))
             entry == [fd |-> fd, packet |-> e.packet]
  <2>2. fd \in FDS /\ fd \notin DOMAIN open
    <3>1. Free \subseteq Nat
      BY DispatchAssumption DEF Free
    <3>2. fd \in Free
      BY <1>5, <3>1, LowestIsFree
    <3> QED
      BY <3>2 DEF Free
  <2> HIDE DEF fd
  <2>3. key[2] = port
    BY DEF Key
  <2>4. key \notin DOMAIN connection_info
    <3>1. ASSUME key \in DOMAIN connection_info PROVE FALSE
      <4>1. connection_info[key].fd \in DOMAIN open
            /\ open[connection_info[key].fd] = port
        BY <2>3, <3>1 DEF SocketsMatch
      <4> QED
        BY <4>1 DEF Range
    <3> QED
      BY <3>1
  <2>5. /\ connection_info' = With(connection_info, key, entry)
        /\ status' = "running" /\ open' = With(open, fd, port)
        /\ queue' = (queue \ {e}) \cup {new} /\ UNCHANGED <<client, got, resolving>>
    BY <1>2, <1>3, <2>1, <2>4 DEF Replaced
  <2>6. Inside(new) /\ new.packet = Put(c, port)
    <3>1. Inside(new)
      BY DEF Inside
    <3> QED
      BY <3>1 DEF Sent
  <2>7. /\ new.packet.id = c /\ new.packet.about = QUESTION[c] /\ Port(new.packet) = port
        /\ new.packet.saddr = SERVER /\ new.packet.daddr = SERVER
    BY <2>6 DEF Put, Packet, Port
  <2>8. /\ entry.fd = fd /\ entry.packet = ToServer(c, c, QUESTION[c], FALSE)
        /\ entry.packet.id = c
    BY <1>2 DEF Query, ToServer, Packet
  <2>9. key = Key(new.packet.about, Port(new.packet))
    BY <2>7
  <2> HIDE DEF new, entry, key
  <2>10. /\ DOMAIN connection_info' = DOMAIN connection_info \cup {key}
         /\ connection_info'[key] = entry
         /\ \A k \in DOMAIN connection_info : connection_info'[k] = connection_info[k]
    BY <2>4, <2>5 DEF With
  <2>11. /\ DOMAIN open' = DOMAIN open \cup {fd} /\ open'[fd] = port
         /\ \A x \in DOMAIN open : open'[x] = open[x]
    BY <2>2, <2>5 DEF With
  <2>12. Shapes'
    BY <1>3, <2>5, <2>6 DEF Shapes, Outside, Inside
  <2>13. OneUnderWay'
    <3> DEFINE F == {new}
    <3>1. queue' = (queue \ {e}) \cup F
          /\ \A f \in F : f.packet.id = e.packet.id /\ \A g \in F : g = f
      BY <1>2, <2>5, <2>7
    <3> HIDE DEF F
    <3> QED
      BY <2>5, <3>1, Resent
  <2>14. Awaiting'
    <3>1. IsAwaited(new.packet)'
      BY <2>7, <2>8, <2>9, <2>10 DEF IsAwaited
    <3>2. \A p : IsAwaited(p) => IsAwaited(p)'
      BY <2>10 DEF IsAwaited
    <3> QED
      BY <2>5, <3>1, <3>2 DEF Awaiting, Inside
  <2>15. SocketsMatch'
    <3>1. \A k \in DOMAIN connection_info :
            /\ connection_info[k].fd \in DOMAIN open /\ open[connection_info[k].fd] = k[2]
            /\ connection_info[k].fd # fd
      BY <2>2 DEF SocketsMatch
    <3>2. \A j, k \in DOMAIN connection_info :
            connection_info[j].fd = connection_info[k].fd => j = k
      BY DEF SocketsMatch, IsInjective
    <3>3. \A x \in DOMAIN open : \E k \in DOMAIN connection_info : connection_info[k].fd = x
      BY DEF SocketsMatch, Range
    <3>4. \A k \in DOMAIN connection_info' :
            connection_info'[k].fd \in DOMAIN open' /\ open'[connection_info'[k].fd] = k[2]
      BY <2>3, <2>8, <2>10, <2>11, <3>1 DEF key
    <3>5. \A j, k \in DOMAIN connection_info' :
            connection_info'[j].fd = connection_info'[k].fd => j = k
      BY <2>8, <2>10, <3>1, <3>2
    <3>6. \A x \in DOMAIN open' :
            \E k \in DOMAIN connection_info' : connection_info'[k].fd = x
      BY <2>8, <2>10, <2>11, <3>3
    <3> QED
      BY <3>4, <3>5, <3>6 DEF SocketsMatch, Range, IsInjective
  <2>16. NothingElseLeaks'
    <3> DEFINE Holds(k, p) == /\ p.saddr = SERVER /\ p.daddr = SERVER
                              /\ k = Key(p.about, IF p.query THEN p.sport ELSE p.dport)
    <3>1. ASSUME NEW k \in DOMAIN connection_info
          PROVE  \E p \in {f.packet : f \in queue'} \cup resolving' \cup unanswered' \cup missed' :
                   Holds(k, p) /\ p.id = connection_info'[k].packet.id
      <4>1. PICK p \in {f.packet : f \in queue} \cup resolving \cup unanswered \cup missed :
                   Holds(k, p) /\ p.id = connection_info[k].packet.id
        BY <3>1 DEF NothingElseLeaks
      <4>2. p # e.packet
        BY <1>2, <4>1, Kinds
      <4>3. p \in {f.packet : f \in queue'} \cup resolving' \cup unanswered' \cup missed'
        BY <1>3, <2>5, <4>1, <4>2
      <4> QED
        BY <2>10, <3>1, <4>1, <4>3
    <3>2. new.packet \in {f.packet : f \in queue'}
          /\ Holds(key, new.packet) /\ new.packet.id = connection_info'[key].packet.id
      BY <2>5, <2>7, <2>8, <2>9, <2>10 DEF Port
    <3> QED
      BY <2>10, <3>1, <3>2 DEF NothingElseLeaks
  <2>17. TypeOK' /\ FragmentsIntercepted' /\ StateReleased' /\ Stops'
    <3>1. DOMAIN open' \subseteq FDS /\ Range(open)' \subseteq EPHEMERAL
      BY <2>2, <2>11 DEF TypeOK, Range
    <3> QED
      BY <1>3, <2>5, <2>12, <3>1, RestInv DEF TypeOK, FragmentsIntercepted, StateReleased
  <2> QED
    BY <2>12, <2>13, <2>14, <2>15, <2>16, <2>17
<1> QED
  BY <1>4, <1>5 DEF Forward

\* The answer to an entry closes its socket and goes to the entry's client;
\* every other packet between socket and name server goes on.
LEMMA InternalInv ==
  ASSUME Inv, NEW e \in queue, Internal(e)
  PROVE  Inv'
<1> USE DEF Inv
<1> DEFINE p == e.packet
           key == Key(p.about, p.dport)
           awaited == key \in DOMAIN connection_info /\ p.dport # DNS
           entry == connection_info[key]
<1>1. Inside(e) /\ status = "running"
      /\ UNCHANGED <<unanswered, requester_state, status>>
  BY Branches DEF Internal, Took, Running
<1>2. PICK c \in Clients, port \in EPHEMERAL :
        e \in {Sent(SERVER, Put(c, port)), In(SERVER, Put(c, port)),
              Sent(SERVER, Answer(c, port)), In(SERVER, Answer(c, port))}
  BY <1>1 DEF Inside
<1>3. /\ p.id = c /\ p.about = QUESTION[c] /\ Port(p) = port /\ p.saddr = SERVER
      /\ p.daddr = SERVER /\ port # DNS /\ port \notin Clients /\ p.dport \notin Clients
      /\ e.host = SERVER
      /\ p.query => p.dport = DNS
      /\ ~p.query => p.dport = port
      /\ p.dport = DNS => p = Put(c, port)
  <2>1. port # DNS /\ port \notin Clients /\ DNS \notin Clients
    BY DispatchAssumption
  <2>2. e.host = SERVER /\ p \in {Put(c, port), Answer(c, port)}
    BY <1>2 DEF Sent, In
  <2> HIDE DEF p
  <2>3. CASE p = Put(c, port)
    <3>1. p.query = TRUE /\ p.sport = port
      BY <2>3 DEF Put, Packet
    <3>2. Port(p) = port
      BY <3>1 DEF Port
    <3> QED
      BY <2>1, <2>2, <2>3, <3>1, <3>2 DEF Put, Packet
  <2>4. CASE p = Answer(c, port)
    <3>1. p.query = FALSE /\ p.dport = port
      BY <2>4 DEF Answer, Packet
    <3>2. Port(p) = port
      BY <3>1 DEF Port
    <3> QED
      BY <2>1, <2>2, <2>4, <3>1, <3>2 DEF Answer, Packet
  <2> QED
    BY <2>2, <2>3, <2>4
<1>4. IsAwaited(p)
  BY <1>1 DEF Awaiting
<1>5. CASE /\ awaited /\ e.hook = "INPUT"
           /\ connection_info' = EntryRemoved(key)
           /\ open' = Without(open, entry.fd)
           /\ Replaced(e, {ToClient(entry.packet.sport, p.id, p.about, ROUNDS[p.about] > 0)})
           /\ UNCHANGED missed
  <2> DEFINE frag == ROUNDS[QUESTION[c]] > 0
             new == Sent(SERVER, Response(c, frag))
  <2>1. Port(p) = p.dport /\ p.dport = port
    BY <1>3, <1>5
  <2>2. key = Key(p.about, Port(p)) /\ key \in DOMAIN connection_info
    BY <1>5, <2>1
  <2>3. entry.packet = ToServer(c, c, QUESTION[c], FALSE)
    BY <1>3, <1>4, <2>2 DEF IsAwaited
  <2>4. entry.packet.sport = c /\ entry.packet.id = c
    BY <2>3 DEF ToServer, Packet
  <2>5. queue' = (queue \ {e}) \cup {new} /\ UNCHANGED <<client, got, resolving>>
    BY <1>3, <1>5, <2>4 DEF Replaced, Response
  <2>6. Outside(new) /\ new.packet.id = c
    <3>1. frag \in BOOLEAN
      OBVIOUS
    <3> HIDE DEF frag
    <3>2. Outside(new)
      BY <3>1 DEF Outside
    <3> QED
      BY <3>2 DEF Sent, Response, ToClient, Packet
  <2> HIDE DEF new
  <2>7. /\ DOMAIN connection_info' = DOMAIN connection_info \ {key}
        /\ \A k \in DOMAIN connection_info' : connection_info'[k] = connection_info[k]
    BY <1>5 DEF EntryRemoved, Without, Restrict
  <2>8. /\ DOMAIN open' = DOMAIN open \ {entry.fd}
        /\ \A x \in DOMAIN open' : open'[x] = open[x]
    BY <1>5 DEF Without, Restrict
  <2>9. Shapes'
    BY <1>1, <2>5, <2>6 DEF Shapes, Outside, Inside
  <2>10. OneUnderWay'
    <3> DEFINE F == {new}
    <3>1. queue' = (queue \ {e}) \cup F
          /\ \A f \in F : f.packet.id = e.packet.id /\ \A g \in F : g = f
      BY <1>3, <2>5, <2>6
    <3> HIDE DEF F
    <3> QED
      BY <2>5, <3>1, Resent
  <2>11. Awaiting'
    <3>1. ASSUME NEW q, IsAwaited(q), q.id # c
          PROVE  IsAwaited(q)'
      <4> DEFINE k == Key(q.about, Port(q))
      <4>1. connection_info[k].packet.id = q.id
        BY <3>1 DEF IsAwaited, ToServer, Packet
      <4>2. k # key
        BY <2>4, <3>1, <4>1
      <4> QED
        BY <2>7, <3>1, <4>2 DEF IsAwaited
    <3>2. \A f \in queue : f # e => f.packet.id # c
      BY <1>3 DEF OneUnderWay
    <3>3. \A q \in resolving : q.id # c
      BY <1>3 DEF OneUnderWay
    <3>4. ~Inside(new)
      BY <2>6, Kinds
    <3>5. \A f \in queue' : Inside(f) => IsAwaited(f.packet)'
      BY <2>5, <3>1, <3>2, <3>4 DEF Awaiting
    <3>6. \A q \in resolving' : IsAwaited(q)'
      BY <2>5, <3>1, <3>3 DEF Awaiting
    <3> QED
      BY <3>5, <3>6 DEF Awaiting, Inside
  <2>12. SocketsMatch'
    <3>1. \A k \in DOMAIN connection_info :
            connection_info[k].fd \in DOMAIN open /\ open[connection_info[k].fd] = k[2]
      BY DEF SocketsMatch
    <3>2. \A j, k \in DOMAIN connection_info :
            connection_info[j].fd = connection_info[k].fd => j = k
      BY DEF SocketsMatch, IsInjective
    <3>3. \A x \in DOMAIN open : \E k \in DOMAIN connection_info : connection_info[k].fd = x
      BY DEF SocketsMatch, Range
    <3>4. \A k \in DOMAIN connection_info' :
            connection_info'[k].fd \in DOMAIN open' /\ open'[connection_info'[k].fd] = k[2]
      BY <2>2, <2>7, <2>8, <3>1, <3>2
    <3>5. \A j, k \in DOMAIN connection_info' :
            connection_info'[j].fd = connection_info'[k].fd => j = k
      BY <2>7, <3>2
    <3>6. \A x \in DOMAIN open' :
            \E k \in DOMAIN connection_info' : connection_info'[k].fd = x
      BY <2>7, <2>8, <3>3
    <3> QED
      BY <3>4, <3>5, <3>6 DEF SocketsMatch, Range, IsInjective
  <2>13. NothingElseLeaks'
    <3> DEFINE Holds(k, q) == /\ q.saddr = SERVER /\ q.daddr = SERVER
                              /\ k = Key(q.about, IF q.query THEN q.sport ELSE q.dport)
    <3> SUFFICES ASSUME NEW k \in DOMAIN connection_info'
                 PROVE  \E q \in {f.packet : f \in queue'} \cup resolving' \cup unanswered'
                                   \cup missed' :
                          Holds(k, q) /\ q.id = connection_info'[k].packet.id
      BY DEF NothingElseLeaks
    <3>1. PICK q \in {f.packet : f \in queue} \cup resolving \cup unanswered \cup missed :
                 Holds(k, q) /\ q.id = connection_info[k].packet.id
      BY <2>7 DEF NothingElseLeaks
    <3>2. q # p
      BY <2>2, <2>7, <3>1 DEF Port
    <3>3. q \in {f.packet : f \in queue'} \cup resolving' \cup unanswered' \cup missed'
      BY <1>1, <1>5, <2>5, <3>1, <3>2
    <3> QED
      BY <2>7, <3>1, <3>3
  <2>14. TypeOK' /\ FragmentsIntercepted' /\ StateReleased' /\ Stops'
    <3>1. DOMAIN open' \subseteq FDS /\ Range(open)' \subseteq EPHEMERAL
      BY <2>8 DEF TypeOK, Range
    <3> QED
      BY <1>1, <2>5, <2>9, <3>1, RestInv DEF TypeOK, FragmentsIntercepted, StateReleased
  <2> QED
    BY <2>9, <2>10, <2>11, <2>12, <2>13, <2>14
<1>6. CASE /\ Accepted(e)
           /\ missed' = IF awaited /\ e.hook = "INPUT" THEN missed \cup {p} ELSE missed
           /\ UNCHANGED <<connection_info, open>>
  <2>1. UNCHANGED <<client, got>>
    BY <1>3, <1>6 DEF Accepted, SERVER, RESOLVER
  <2>2. /\ queue' = (queue \ {e}) \cup Onward(e)
        /\ resolving' = IF e.hook = "INPUT" /\ p.dport = DNS
                        THEN resolving \cup {p} ELSE resolving
    BY <1>3, <1>6 DEF Accepted
  <2>3. /\ \A f \in Onward(e) : f = In(SERVER, p)
        /\ e.hook # "INPUT" => Onward(e) = {In(SERVER, p)}
    BY <1>2, <1>3 DEF Onward, Sent, In
  <2>4. \A f \in Onward(e) : Inside(f) /\ f.packet = p
    <3>1. ASSUME NEW f \in Onward(e) PROVE f = In(SERVER, p) /\ p \in {Put(c, port), Answer(c, port)}
      BY <1>2, <2>3 DEF Sent, In
    <3>2. ASSUME NEW f \in Onward(e) PROVE Inside(f)
      BY <3>1, <3>2 DEF Inside
    <3>3. ASSUME NEW f \in Onward(e) PROVE f.packet = p
      BY <3>1, <3>3 DEF In
    <3> QED
      BY <3>2, <3>3
  <2>5. e.hook = "INPUT" => Onward(e) = {}
    BY DEF Onward
  <2>6. p.dport = DNS => p = Put(c, port)
    BY <1>3
  <2> HIDE DEF p
  <2>7. Shapes'
    BY <1>1, <2>2, <2>4, <2>6 DEF Shapes, Outside, Inside
  <2>8. \A f \in queue : f # e => f.packet.id # c
    BY <1>3 DEF OneUnderWay, p
  <2>9. \A q \in resolving : q.id # c
    BY <1>3 DEF OneUnderWay, p
  <2>10. OneUnderWay'
    <3>1. \A f, g \in queue' : f.packet.id = g.packet.id => f = g
      BY <1>3, <2>2, <2>3, <2>4, <2>8 DEF OneUnderWay
    <3>2. \A q, r \in resolving' : q.id = r.id => q = r
      BY <1>3, <2>2, <2>9 DEF OneUnderWay
    <3>3. \A f \in queue', q \in resolving' : f.packet.id # q.id
      BY <1>3, <2>2, <2>4, <2>5, <2>8, <2>9 DEF OneUnderWay
    <3>4. client[c] = "waiting"
      BY <1>3 DEF OneUnderWay, p
    <3>5. \A f \in queue' : client'[f.packet.id] = "waiting"
      BY <1>3, <2>1, <2>2, <2>4, <3>4 DEF OneUnderWay
    <3>6. \A q \in resolving' : client'[q.id] = "waiting"
      BY <1>3, <2>1, <2>2, <3>4 DEF OneUnderWay
    <3> QED
      BY <3>1, <3>2, <3>3, <3>5, <3>6 DEF OneUnderWay
  <2>11. Awaiting'
    <3>1. \A q : IsAwaited(q) => IsAwaited(q)'
      BY <1>6 DEF IsAwaited
    <3> QED
      BY <1>4, <2>2, <2>4, <3>1 DEF Awaiting, Inside
  <2>12. SocketsMatch'
    BY <1>6 DEF SocketsMatch
  <2>13. NothingElseLeaks'
    <3> DEFINE Holds(k, q) == /\ q.saddr = SERVER /\ q.daddr = SERVER
                              /\ k = Key(q.about, IF q.query THEN q.sport ELSE q.dport)
    <3> SUFFICES ASSUME NEW k \in DOMAIN connection_info
                 PROVE  \E q \in {f.packet : f \in queue'} \cup resolving' \cup unanswered'
                                   \cup missed' :
                          Holds(k, q) /\ q.id = connection_info[k].packet.id
      BY <1>6 DEF NothingElseLeaks
    <3>1. PICK q \in {f.packet : f \in queue} \cup resolving \cup unanswered \cup missed :
                 Holds(k, q) /\ q.id = connection_info[k].packet.id
      BY DEF NothingElseLeaks
    <3>2. CASE q # p
      BY <1>1, <1>6, <2>2, <3>1, <3>2 DEF p
    <3>3. CASE q = p
      <4>1. CASE e.hook # "INPUT"
        <5>1. In(SERVER, p) \in queue' /\ In(SERVER, p).packet = p
          BY <2>2, <2>3, <2>4, <4>1
        <5> QED
          BY <3>1, <3>3, <5>1
      <4>2. CASE e.hook = "INPUT" /\ p.dport = DNS
        BY <2>2, <3>1, <3>3, <4>2
      <4>3. CASE e.hook = "INPUT" /\ p.dport # DNS
        <5>1. k = key
          BY <1>3, <3>1, <3>3, <4>3 DEF p
        <5>2. p \in missed'
          BY <1>6, <4>3, <5>1
        <5> QED
          BY <3>1, <3>3, <5>2
      <4> QED
        BY <4>1, <4>2, <4>3
    <3> QED
      BY <3>2, <3>3
  <2>14. TypeOK' /\ FragmentsIntercepted' /\ StateReleased' /\ Stops'
    BY <1>1, <1>6, <2>1, <2>7, RestInv DEF TypeOK, FragmentsIntercepted, StateReleased
  <2> QED
    BY <2>7, <2>10, <2>11, <2>12, <2>13, <2>14
<1> QED
  BY <1>5, <1>6 DEF Internal
-----------------------------------------------------------------------------
\* Every step preserves the invariant.
LEMMA NextInv == Inv /\ [Next]_vars => Inv'
<1> SUFFICES ASSUME Inv, [Next]_vars PROVE Inv'
  OBVIOUS
<1>1. ASSUME NEW c \in Clients, Ask(c) PROVE Inv'
  BY <1>1, AskInv
<1>2. ASSUME NameServer PROVE Inv'
  BY <1>2, ReplyInv, WithholdInv DEF NameServer
<1>3. ASSUME Daemon PROVE Inv'
  <2> PICK e \in queue : \/ Pass(e) \/ Register(e) \/ Clear(e) \/ Reassemble(e)
                         \/ Serve(e) \/ Forward(e) \/ Internal(e)
    BY <1>3 DEF Daemon
  <2> QED
    BY PassInv, RegisterInv, ClearInv, ReassembleInv, ServeInv, ForwardInv, InternalInv
<1>4. ASSUME UNCHANGED vars PROVE Inv'
  BY <1>4 DEF Inv, vars, TypeOK, Shapes, OneUnderWay, Awaiting, IsAwaited, SocketsMatch,
     NothingElseLeaks, FragmentsIntercepted, StateReleased, Stops, Running, Outside, Inside
<1> QED
  BY <1>1, <1>2, <1>3, <1>4 DEF Next

\* The invariant holds throughout.
THEOREM Invariance == Spec => []Inv
  BY InitInv, NextInv, PTL DEF Spec

\* Type correctness.
THEOREM TypeCorrect == Spec => []TypeOK
  BY Invariance, PTL DEF Inv

\* Sockets and entries of connection_info correspond one to one.
THEOREM SocketsMatchHolds == Spec => []SocketsMatch
  BY Invariance, PTL DEF Inv

\* Nothing but a withheld or missed answer leaves an entry behind.
THEOREM NothingElseLeaksHolds == Spec => []NothingElseLeaks
  BY Invariance, PTL DEF Inv

\* The branches that should never be taken are not, and no key is taken twice:
\* a daemon stops only for want of descriptors.
THEOREM StopsOnlyWhenFullHolds == Spec => []StopsOnlyWhenFull
<1>1. Inv => StopsOnlyWhenFull
  BY DEF Inv, Stops, StopsOnlyWhenFull
<1> QED
  BY <1>1, Invariance, PTL

\* A client is answered its own question and is never shown a fragment, nor is
\* the name server.
THEOREM FragmentsInterceptedHolds == Spec => []FragmentsIntercepted
  BY Invariance, PTL DEF Inv

\* The requester's state of a query goes when its client is answered.
THEOREM StateReleasedHolds == Spec => []StateReleased
  BY Invariance, PTL DEF Inv
=============================================================================
