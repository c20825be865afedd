----------------------------- MODULE Dispatch ------------------------------
(***************************************************************************)
(* What becomes of a packet, on two hosts with a daemon each: a resolver   *)
(* and a name server.  Every packet is queued for the daemon of a host     *)
(* twice in its life, on its way out of the sender's and on its way into   *)
(* the receiver's host (twice on one host when it does not leave it), also *)
(* those the daemons send themselves.  The daemon accepts it, drops it, or *)
(* handles it and sends packets of its own instead.                        *)
(*                                                                         *)
(* On the name server's host a client's query is put to the name server    *)
(* over a socket of the daemon's own.  connection_info remembers, under    *)
(* the question's hash and the socket's port, which client it was for.     *)
(*                                                                         *)
(* What a message says is left to Requester and Responder; here a response *)
(* is fragmented or not, and needs a number of follow-up queries.          *)
(***************************************************************************)
EXTENDS Integers, FiniteSets, FiniteSetsExt, Functions

CONSTANTS
  Clients,     \* processes on the resolver's host with one query each
  QUESTION,    \* the question of each client
  HASH,        \* hash_16bit of each question
  ROUNDS,      \* follow-up queries needed for the answer to each question
  FDS,         \* descriptors that the name server's daemon may open
  EPHEMERAL,   \* ports the kernel gives to its sockets
  POLLS        \* is the answer readable when poll asks: outcomes considered

RESOLVER == "resolver"
SERVER == "server"
Hosts == {RESOLVER, SERVER}
is_resolver(host) == host = RESOLVER
DNS == 53

Questions == {QUESTION[c] : c \in Clients}

ASSUME DispatchAssumption ==
  /\ Clients \cap EPHEMERAL = {} /\ DNS \notin Clients \cup EPHEMERAL
  /\ HASH \in [Questions -> Nat] /\ ROUNDS \in [Questions -> Nat]
  /\ FDS \subseteq Nat /\ IsFiniteSet(FDS)
  /\ IsFiniteSet(EPHEMERAL) /\ Cardinality(EPHEMERAL) >= Cardinality(FDS)
  /\ POLLS \subseteq BOOLEAN /\ POLLS # {}

VARIABLES
  client,           \* each client: "new", "waiting" or "answered"
  got,              \* what it was given
  queue,            \* packets in the netfilter queues
  resolving,        \* queries the name server works on
  unanswered,       \* those it will never answer
  requester_state,  \* resolver: for each id the follow-ups still needed
  connection_info,  \* name server: descriptor and query for each key
  open,             \* name server: the port of each open descriptor
  missed,           \* answers the daemon took for packets of its own
  status            \* "running", "exited" (for want of a descriptor) or "aborted"

vars == <<client, got, queue, resolving, unanswered, requester_state,
          connection_info, open, missed, status>>

Running == status = "running"
-----------------------------------------------------------------------------
(***************************************************************************)
(* A packet is a DNS message in UDP.  A client's port is its name, and so  *)
(* is the identification of its query.                                     *)
(***************************************************************************)
Packet(from, sport, to, dport, id, query, about, frag) ==
  [saddr |-> from, sport |-> sport, daddr |-> to, dport |-> dport, id |-> id,
   query |-> query, about |-> about, frag |-> frag]

ToServer(port, id, about, frag) ==
  Packet(RESOLVER, port, SERVER, DNS, id, TRUE, about, frag)
ToClient(port, id, about, frag) ==
  Packet(SERVER, DNS, RESOLVER, port, id, FALSE, about, frag)

Sent(host, p) == [host |-> host, hook |-> "OUTPUT", packet |-> p]

\* Where an accepted packet is queued next.
Onward(e) ==
  IF e.hook = "OUTPUT"
  THEN {[host |-> e.packet.daddr, hook |-> "INPUT", packet |-> e.packet]} ELSE {}

\* What process_packet and process_dns_message do with a packet, by its
\* direction, its ports and its kind.  The branch "error" ends the process.
is_internal_packet(host, p) == ~is_resolver(host) /\ p.saddr = host /\ p.daddr = host

QueryOut(host, p) == p.query /\ p.saddr = host /\ p.dport = DNS
QueryIn(host, p) == p.query /\ p.daddr = host /\ p.dport = DNS
ResponseOut(host, p) == ~p.query /\ p.saddr = host /\ p.sport = DNS
ResponseIn(host, p) == ~p.query /\ p.daddr = host /\ p.sport = DNS

\* (mutant) Fragments are handled like whole records.
Lenient(host, p) ==
  IF is_internal_packet(host, p) THEN "internal"
  ELSE IF QueryOut(host, p) THEN "register"
  ELSE IF QueryIn(host, p) /\ ~is_resolver(host) THEN "forward"
  ELSE IF ResponseIn(host, p) THEN "clear"
  ELSE "accept"

Branch(host, p) ==
  IF is_internal_packet(host, p) THEN "internal"
  ELSE IF p.dport # DNS /\ p.sport # DNS THEN "accept"
  ELSE IF QueryOut(host, p) THEN "register"
  ELSE IF QueryIn(host, p) /\ p.frag THEN "serve"
  ELSE IF QueryIn(host, p) /\ ~is_resolver(host) THEN "forward"
  ELSE IF ResponseIn(host, p) THEN (IF p.frag THEN "reassemble" ELSE "clear")
  ELSE IF p.query \/ ResponseOut(host, p) THEN "accept"
  ELSE "error"

\* (mutant) Queries are told apart by the question alone.
ByQuestion(question, port) == <<HASH[question], 0>>

\* The key of connection_info: of the packet to the name server the source
\* port, of its answer the destination port.
Key(question, port) == <<HASH[question], port>>
-----------------------------------------------------------------------------
Init ==
  /\ client = [c \in Clients |-> "new"] /\ got = [c \in Clients |-> {}]
  /\ queue = {} /\ resolving = {} /\ unanswered = {}
  /\ requester_state = <<>> /\ connection_info = <<>> /\ open = <<>>
  /\ missed = {} /\ status = "running"

Ask(c) ==
  /\ client[c] = "new"
  /\ client' = [client EXCEPT ![c] = "waiting"]
  /\ queue' = queue \cup {Sent(RESOLVER, ToServer(c, c, QUESTION[c], FALSE))}
  /\ UNCHANGED <<got, resolving, unanswered, requester_state, connection_info,
                 open, missed, status>>

\* The name server answers a query, where it came from, or never does.
Reply(p) ==
  /\ p \in resolving
  /\ resolving' = resolving \ {p}
  /\ queue' = queue \cup {Sent(SERVER,
       Packet(SERVER, DNS, SERVER, p.sport, p.id, FALSE, p.about, FALSE))}
  /\ UNCHANGED <<client, got, unanswered, requester_state, connection_info, open,
                 missed, status>>

Withhold(p) ==
  /\ p \in resolving
  /\ resolving' = resolving \ {p} /\ unanswered' = unanswered \cup {p}
  /\ UNCHANGED <<client, got, queue, requester_state, connection_info, open, missed, status>>

\* NF_ACCEPT: the packet goes on, at last to the process that owns the port.
Accepted(e) ==
  LET p == e.packet
      arrives(host) == e.hook = "INPUT" /\ p.daddr = host
  IN
  /\ queue' = (queue \ {e}) \cup Onward(e)
  /\ IF arrives(RESOLVER) /\ p.dport \in Clients
     THEN /\ client' = [client EXCEPT ![p.dport] = "answered"]
          /\ got' = [got EXCEPT ![p.dport] = @ \cup {[about |-> p.about, frag |-> p.frag]}]
     ELSE UNCHANGED <<client, got>>
  /\ resolving' = IF arrives(SERVER) /\ p.dport = DNS
                  THEN resolving \cup {p} ELSE resolving

\* NF_DROP, and packets sent instead.
Replaced(e, sent) ==
  /\ queue' = (queue \ {e}) \cup {Sent(e.host, p) : p \in sent}
  /\ UNCHANGED <<client, got, resolving>>

Took(e, branch) == /\ Running /\ e \in queue /\ Branch(e.host, e.packet) = branch

\* What the daemon only lets through, or was never meant to get.
Pass(e) ==
  /\ Took(e, "accept") \/ Took(e, "error")
  /\ IF Branch(e.host, e.packet) = "error"
     THEN status' = "aborted" /\ UNCHANGED <<client, got, queue, resolving>>
     ELSE Accepted(e) /\ UNCHANGED status
  /\ UNCHANGED <<unanswered, requester_state, connection_info, open, missed>>
-----------------------------------------------------------------------------
\* The resolver.  An id whose first response has not come needs any number of
\* follow-ups.
UNSET == -1

Register(e) ==
  /\ Took(e, "register") /\ Accepted(e)
  /\ requester_state' =
       [id \in DOMAIN requester_state \cup {e.packet.id} |->
          IF id \in DOMAIN requester_state THEN requester_state[id] ELSE UNSET]
  /\ UNCHANGED <<unanswered, connection_info, open, missed, status>>

\* (mutant) The entry of the id stays.
NotCleared(id) == requester_state

Cleared(id) == Restrict(requester_state, DOMAIN requester_state \ {id})

Clear(e) ==
  /\ Took(e, "clear") /\ Accepted(e)
  /\ requester_state' = Cleared(e.packet.id)
  /\ UNCHANGED <<unanswered, connection_info, open, missed, status>>

\* (mutants) The first response counts as a follow-up; none counts.
AlwaysOneLess(id, about) == requester_state[id] - 1
NeverLess(id, about) == ROUNDS[about]

\* How many follow-ups are needed after a response with fragments.
Left(id, about) ==
  IF requester_state[id] = UNSET THEN ROUNDS[about] ELSE requester_state[id] - 1

\* requester_thread: the follow-up query, or the complete message, which the
\* daemon sends as if from the name server.
Reassemble(e) ==
  LET p == e.packet
      id == p.id
      left == Left(id, p.about)
      awaited == id \in DOMAIN requester_state /\ requester_state[id] # 0
  IN
  /\ Took(e, "reassemble")
  /\ IF awaited
     THEN /\ requester_state' = [requester_state EXCEPT ![id] = left]
          /\ Replaced(e, {IF left = 0 THEN ToClient(p.dport, id, p.about, FALSE)
                          ELSE ToServer(p.dport, id, p.about, TRUE)})
     ELSE Replaced(e, {}) /\ UNCHANGED requester_state
  /\ UNCHANGED <<unanswered, connection_info, open, missed, status>>
-----------------------------------------------------------------------------
\* The name server's daemon.
Free == FDS \ DOMAIN open
With(f, x, y) == [z \in DOMAIN f \cup {x} |-> IF z = x THEN y ELSE f[z]]
Without(f, x) == Restrict(f, DOMAIN f \ {x})

\* process_dns_message, a query for fragments: it is answered from the cache,
\* through a raw socket, which needs a descriptor for as long as that takes.
\* Without one an assertion fails; that, too, is "exited" here.
Serve(e) ==
  /\ Took(e, "serve")
  /\ IF Free = {}
     THEN status' = "exited" /\ UNCHANGED <<client, got, queue, resolving>>
     ELSE /\ Replaced(e, {ToClient(e.packet.sport, e.packet.id, e.packet.about, TRUE)})
          /\ UNCHANGED status
  /\ UNCHANGED <<unanswered, requester_state, connection_info, open, missed>>

\* responding_thread_start and internal_send: a socket is opened, which gets
\* the lowest free descriptor and a port of no other socket, and the query is
\* sent through it.  Something under its key already is an assertion failed.
Forward(e) ==
  LET p == e.packet
      fd == Min(Free)
  IN
  /\ Took(e, "forward")
  /\ \/ /\ Free = {}
        /\ status' = "exited"
        /\ UNCHANGED <<client, got, queue, resolving, connection_info, open>>
     \/ /\ Free # {}
        /\ \E port \in EPHEMERAL \ Range(open) :
             /\ IF Key(p.about, port) \in DOMAIN connection_info
                THEN status' = "aborted" /\ UNCHANGED connection_info
                ELSE /\ connection_info' = With(connection_info, Key(p.about, port),
                                                [fd |-> fd, packet |-> p])
                     /\ UNCHANGED status
             /\ open' = With(open, fd, port)
             /\ Replaced(e, {Packet(SERVER, port, SERVER, DNS, p.id, TRUE, p.about, FALSE)})
  /\ UNCHANGED <<unanswered, requester_state, missed>>

\* (mutant) The entry stays behind.
EntryKept(key) == connection_info

\* internal_close
EntryRemoved(key) == Without(connection_info, key)

\* handle_internal_packet and responding_thread_end.  The packet is accepted
\* at once; if it is an answer, and poll finds it there, it is read, the
\* socket closed and the response sent to the client.  On its way out it
\* cannot be there yet.
Internal(e) ==
  LET p == e.packet
      key == Key(p.about, p.dport)
      awaited == key \in DOMAIN connection_info /\ p.dport # DNS
      entry == connection_info[key]
  IN
  /\ Took(e, "internal")
  /\ \/ /\ awaited /\ e.hook = "INPUT" /\ TRUE \in POLLS
        /\ connection_info' = EntryRemoved(key)
        /\ open' = Without(open, entry.fd)
        /\ Replaced(e, {ToClient(entry.packet.sport, p.id, p.about, ROUNDS[p.about] > 0)})
        /\ UNCHANGED missed
     \/ /\ awaited => (e.hook = "OUTPUT" \/ FALSE \in POLLS)
        /\ Accepted(e)
        /\ missed' = IF awaited /\ e.hook = "INPUT" THEN missed \cup {p} ELSE missed
        /\ UNCHANGED <<connection_info, open>>
  /\ UNCHANGED <<unanswered, requester_state, status>>

Daemon ==
  \E e \in queue :
    \/ Pass(e) \/ Register(e) \/ Clear(e) \/ Reassemble(e)
    \/ Serve(e) \/ Forward(e) \/ Internal(e)

NameServer == \E p \in resolving : Reply(p) \/ Withhold(p)

Next == (\E c \in Clients : Ask(c)) \/ NameServer \/ Daemon

(***************************************************************************)
(* The poll loops of the daemons take every packet in turn, and the name   *)
(* server deals with every query.                                          *)
(***************************************************************************)
Spec == Init /\ [][Next]_vars /\ WF_vars(Daemon) /\ WF_vars(NameServer)
-----------------------------------------------------------------------------
\* The shape of every variable.
TypeOK ==
  /\ client \in [Clients -> {"new", "waiting", "answered"}] /\ DOMAIN got = Clients
  /\ \A e \in queue : e.host \in Hosts /\ e.hook \in {"OUTPUT", "INPUT"}
  /\ DOMAIN requester_state \subseteq Clients
  /\ \A id \in DOMAIN requester_state : requester_state[id] \in Nat \cup {UNSET}
  /\ DOMAIN open \subseteq FDS /\ Range(open) \subseteq EPHEMERAL
  /\ status \in {"running", "exited", "aborted"}

\* connection_info and the sockets correspond one to one: the descriptor of
\* each entry is open and has the port of the entry's key, no other entry has
\* it, and no socket is open without an entry.
SocketsMatch ==
  LET fdOf == [key \in DOMAIN connection_info |-> connection_info[key].fd]
  IN  /\ \A key \in DOMAIN fdOf : fdOf[key] \in DOMAIN open /\ open[fdOf[key]] = key[2]
      /\ DOMAIN open \subseteq Range(fdOf) /\ IsInjective(fdOf)

\* An entry, with its socket, is left behind only if the name server did not
\* answer or the poll missed its answer; all others are on their way.
NothingElseLeaks ==
  \A key \in DOMAIN connection_info :
    \E p \in {e.packet : e \in queue} \cup resolving \cup unanswered \cup missed :
      /\ p.saddr = SERVER /\ p.daddr = SERVER
      /\ key = Key(p.about, IF p.query THEN p.sport ELSE p.dport)
      /\ p.id = connection_info[key].packet.id

\* Neither branch that "should never" be taken is, nor is there something
\* already under a key of connection_info: a daemon stops only when it has no
\* descriptor left, all being taken by queries the name server was asked.
StopsOnlyWhenFull == ~Running => status = "exited" /\ DOMAIN open = FDS

\* A client is answered its own question, and is never shown a fragment; nor
\* is the name server: daemons keep them to themselves.
FragmentsIntercepted ==
  /\ \A c \in Clients : got[c] \subseteq {[about |-> QUESTION[c], frag |-> FALSE]}
  /\ \A p \in resolving \cup unanswered : ~p.frag

\* The requester's state is kept for a query only while it waits.
StateReleased == \A c \in DOMAIN requester_state : client[c] = "waiting"

\* A client whose query the name server answers, and whose answer the poll
\* does not miss, is answered, as long as the daemons run.
Answered ==
  \A c \in Clients :
    client[c] = "waiting" ~>
      \/ client[c] # "waiting" \/ ~Running
      \/ \E p \in unanswered \cup missed : p.id = c
=============================================================================
