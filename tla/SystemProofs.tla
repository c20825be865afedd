---------------------------- MODULE SystemProofs ----------------------------
(***************************************************************************)
(* Requester and Responder together, for any number of queries, any        *)
(* messages and sizes, and any number of restarts of the responder.        *)
(*                                                                         *)
(* First, one thing at most of each query is anywhere in the system, so    *)
(* that what the requester keeps for an id is kept for a client that       *)
(* waits.  Then each half is shown to be the component it was modelled as: *)
(* the requester's steps are steps of Requester, with the responder as its *)
(* far side, and the responder's are steps of Responder, so that what is   *)
(* proved of those (RequesterProofs, ResponderProofs) holds here.  From    *)
(* this it follows what a client is given in the end, and what can stop    *)
(* either.                                                                 *)
(***************************************************************************)
EXTENDS DnsSystem, TLAPS, Lemmas, SequenceTheorems

Of(messages) == {x.t : x \in messages}

\* What a handler is at, if anything.
At(t) == {t} \ {"none"}

Asking == {t \in Transactions : client[t] = "waiting"}

\* The queries that are in one of these places are in no other, and there once.
Once ==
  /\ \A q, r \in outgoing : q.t = r.t => q = r
  /\ \A q, r \in queries : q.t = r.t => q = r
  /\ \A m, n \in responses : m.t = n.t => m = n

Apart ==
  /\ Of(outgoing) \cap (Of(queries) \cup Of(responses) \cup At(packet)) = {}
  /\ Of(queries) \cap (Of(responses) \cup At(packet)) = {}
  /\ Of(responses) \cap At(packet) = {}
  /\ internal \cap At(query) = {}
  /\ (Of(outgoing) \cup Of(queries) \cup Of(responses) \cup At(packet))
       \cap (internal \cup At(query)) = {}

\* They are those of clients that wait.
Awaited ==
  Of(outgoing) \cup Of(queries) \cup Of(responses) \cup At(packet)
    \cup internal \cup At(query) \subseteq Asking

Handlers ==
  /\ pc = "idle" <=> packet = "none"
  /\ rpc = "idle" <=> query = "none"
  /\ client \in [Transactions -> {"new", "waiting", "answered"}]

KeptForWaiting == Q!KeptForWaiting

Inv == Once /\ Apart /\ Awaited /\ Handlers /\ KeptForWaiting

LEMMA InitInv == Init => Inv
<1> SUFFICES ASSUME Init PROVE Inv
  OBVIOUS
<1>1. /\ outgoing = {} /\ queries = {} /\ responses = {} /\ internal = {}
      /\ packet = "none" /\ query = "none" /\ pc = "idle" /\ rpc = "idle"
      /\ requester_state = <<>> /\ client = [t \in Transactions |-> "new"]
  BY DEF Init, Q!NONE, R!NONE
<1>2. DOMAIN requester_state = {}
  BY <1>1
<1>3. KeptForWaiting
  BY <1>2 DEF KeptForWaiting, Q!KeptForWaiting
<1> QED
  BY <1>1, <1>3 DEF Inv, Once, Apart, Awaited, Handlers, Of, At

\* A response has the query it is made for.
LEMMA Fields ==
  ASSUME NEW t, NEW asks, NEW followup, NEW items
  PROVE  Q!Query(t, asks, followup).t = t /\ Q!Response(t, items).t = t
BY DEF Q!Query, Q!Response

\* What is kept for an id stays justified while no waiting client is answered
\* and no id is added.
LEMMA Kept ==
  ASSUME KeptForWaiting, client' = client,
         DOMAIN requester_state' = DOMAIN requester_state
  PROVE  KeptForWaiting'
BY DEF KeptForWaiting, Q!KeptForWaiting

\* A client asks.
LEMMA AskInv ==
  ASSUME Inv, NEW t \in Transactions, Q!Ask(t), UNCHANGED <<responder, restarts>>
  PROVE  Inv'
<1> DEFINE q == Q!Query(t, <<>>, FALSE)
<1>1. /\ q.t = t /\ outgoing' = outgoing \cup {q}
      /\ client[t] = "new" /\ client' = [client EXCEPT ![t] = "waiting"]
      /\ UNCHANGED <<queries, responses, packet, pc, requester_state>>
  BY Fields DEF Q!Ask, Q!handler
<1>2. UNCHANGED <<internal, query, rpc>>
  BY DEF responder
<1> HIDE DEF q
<1>3. t \notin Asking /\ Asking' = Asking \cup {t}
  BY <1>1 DEF Inv, Handlers, Asking
<1>4. Of(outgoing)' = Of(outgoing) \cup {t} /\ Of(queries)' = Of(queries)
      /\ Of(responses)' = Of(responses) /\ At(packet)' = At(packet) /\ At(query)' = At(query)
  BY <1>1, <1>2 DEF Of, At
<1>5. Apart' /\ Awaited'
  BY <1>2, <1>3, <1>4 DEF Inv, Apart, Awaited
<1>6. \A x \in outgoing : x.t # t
  BY <1>3 DEF Inv, Awaited, Of
<1>7. Once'
  BY <1>1, <1>6 DEF Inv, Once
<1>8. Handlers'
  BY <1>1, <1>2 DEF Inv, Handlers
<1>9. KeptForWaiting'
  BY <1>1 DEF Inv, KeptForWaiting, Q!KeptForWaiting
<1> QED
  BY <1>5, <1>7, <1>8, <1>9 DEF Inv
\* A packet taken from a channel was the only one of its query there.
Single(channel) == \A x, y \in channel : x.t = y.t => x = y

LEMMA Taken ==
  ASSUME NEW channel, Single(channel), NEW m \in channel
  PROVE  /\ Of(channel \ {m}) = Of(channel) \ {m.t} /\ m.t \in Of(channel)
         /\ Single(channel \ {m})
BY DEF Single, Of

\* One added to a channel where there is none of its query.
LEMMA Added ==
  ASSUME NEW channel, Single(channel), NEW m, m.t \notin Of(channel)
  PROVE  Of(channel \cup {m}) = Of(channel) \cup {m.t} /\ Single(channel \cup {m})
BY DEF Single, Of

LEMMA OnceIsSingle == Once <=> Single(outgoing) /\ Single(queries) /\ Single(responses)
BY DEF Once, Single

\* The daemon registers a query, and it goes to the network.
LEMMA RegisterInv ==
  ASSUME Inv, NEW q \in outgoing, Q!Register(q), UNCHANGED <<responder, restarts>>
  PROVE  Inv'
<1>1. /\ outgoing' = outgoing \ {q} /\ queries' = queries \cup {q}
      /\ DOMAIN requester_state' = DOMAIN requester_state \cup {ID[q.t]}
      /\ UNCHANGED <<client, responses, packet, pc>>
  BY DEF Q!Register, Q!clients, Q!handler
<1>2. UNCHANGED <<internal, query, rpc>>
  BY DEF responder
<1>3. Single(outgoing) /\ Single(queries) /\ Single(responses)
  BY OnceIsSingle DEF Inv
<1>4. Of(outgoing)' = Of(outgoing) \ {q.t} /\ q.t \in Of(outgoing) /\ Single(outgoing)'
  BY <1>1, <1>3, Taken
<1>5. q.t \notin Of(queries) /\ q.t \in Asking
  BY <1>4 DEF Inv, Apart, Awaited
<1>6. Of(queries)' = Of(queries) \cup {q.t} /\ Single(queries)'
  BY <1>1, <1>3, <1>5, Added
<1>7. Of(responses)' = Of(responses) /\ At(packet)' = At(packet) /\ At(query)' = At(query)
      /\ Asking' = Asking /\ Single(responses)'
  BY <1>1, <1>2, <1>3 DEF Of, At, Asking, Single
<1>8. Apart'
  BY <1>2, <1>4, <1>6, <1>7 DEF Inv, Apart
<1>9. Awaited'
  BY <1>2, <1>4, <1>5, <1>6, <1>7 DEF Inv, Awaited
<1>10. Once' /\ Handlers'
  BY <1>1, <1>2, <1>4, <1>6, <1>7 DEF Inv, Once, Single, Handlers
<1>11. KeptForWaiting'
  BY <1>1, <1>5 DEF Inv, KeptForWaiting, Q!KeptForWaiting, Asking
<1> QED
  BY <1>8, <1>9, <1>10, <1>11 DEF Inv

\* What the network delivers here it delivers once.
LEMMA TakenOnce ==
  ASSUME NEW channel, NEW m, NEW rest, Q!Taken(channel, rest, m)
  PROVE  rest = channel \ {m}
BY DEF Q!Taken

\* A response without fragments ends the transaction: the client is answered
\* and, whoever else uses the id, nothing is kept for it.
LEMMA AcceptInv ==
  ASSUME Inv, NEW m \in responses, Q!Accept(m), UNCHANGED <<responder, restarts>>
  PROVE  Inv'
<1>1. /\ responses' = responses \ {m}
      /\ DOMAIN requester_state' = DOMAIN requester_state \ {ID[m.t]}
      /\ UNCHANGED <<outgoing, queries, packet, pc>>
  BY TakenOnce DEF Q!Accept, Q!handler, Q!Restrict
<1>2. UNCHANGED <<internal, query, rpc>>
  BY DEF responder
<1>3. Single(outgoing) /\ Single(queries) /\ Single(responses)
  BY OnceIsSingle DEF Inv
<1>4. Of(responses)' = Of(responses) \ {m.t} /\ m.t \in Of(responses) /\ Single(responses)'
  BY <1>1, <1>3, Taken
<1>5. m.t \in Asking
  BY <1>4 DEF Inv, Awaited
<1>6. client' = [client EXCEPT ![m.t] = "answered"]
  BY <1>5 DEF Q!Accept, Asking
<1>7. Asking' = Asking \ {m.t} /\ client' \in [Transactions -> {"new", "waiting", "answered"}]
  BY <1>5, <1>6 DEF Inv, Handlers, Asking
<1>8. Of(outgoing)' = Of(outgoing) /\ Of(queries)' = Of(queries)
      /\ At(packet)' = At(packet) /\ At(query)' = At(query)
      /\ Single(outgoing)' /\ Single(queries)'
  BY <1>1, <1>2, <1>3 DEF Of, At, Single
<1>9. Apart' /\ Awaited'
  BY <1>2, <1>4, <1>7, <1>8 DEF Inv, Apart, Awaited
<1>10. Once' /\ Handlers'
  BY <1>1, <1>2, <1>4, <1>7, <1>8 DEF Inv, Once, Single, Handlers
<1>11. KeptForWaiting'
  <2> SUFFICES ASSUME NEW id \in DOMAIN requester_state'
               PROVE  \E t \in Transactions : ID[t] = id /\ client'[t] = "waiting"
    BY DEF KeptForWaiting, Q!KeptForWaiting
  <2>1. id \in DOMAIN requester_state /\ id # ID[m.t]
    BY <1>1
  <2>2. PICK t \in Transactions : ID[t] = id /\ client[t] = "waiting"
    BY <2>1 DEF Inv, KeptForWaiting, Q!KeptForWaiting
  <2> QED
    BY <1>7, <2>1, <2>2 DEF Asking
<1> QED
  BY <1>9, <1>10, <1>11 DEF Inv

\* One with fragments is dropped, or its handler begins.
LEMMA ReceiveInv ==
  ASSUME Inv, NEW m \in responses, Q!Drop(m) \/ Q!Receive(m),
         UNCHANGED <<responder, restarts>>
  PROVE  Inv'
<1>1. /\ responses' = responses \ {m} /\ pc = "idle"
      /\ \/ UNCHANGED <<packet, pc>>
         \/ packet' = m.t /\ pc' = "copy"
      /\ DOMAIN requester_state' = DOMAIN requester_state
      /\ UNCHANGED <<client, outgoing, queries>>
  BY TakenOnce DEF Q!Drop, Q!Receive, Q!clients, Q!handler
<1>2. UNCHANGED <<internal, query, rpc>>
  BY DEF responder
<1>3. Single(outgoing) /\ Single(queries) /\ Single(responses)
  BY OnceIsSingle DEF Inv
<1>4. Of(responses)' = Of(responses) \ {m.t} /\ m.t \in Of(responses) /\ Single(responses)'
  BY <1>1, <1>3, Taken
<1>5. m.t \in Asking /\ m.t # "none"
  BY <1>4, SystemAssumption DEF Inv, Awaited, Asking
<1>6. Of(outgoing)' = Of(outgoing) /\ Of(queries)' = Of(queries) /\ At(query)' = At(query)
      /\ Asking' = Asking /\ Single(outgoing)' /\ Single(queries)'
  BY <1>1, <1>2, <1>3 DEF Of, At, Asking, Single
<1>7. At(packet) = {} /\ (At(packet)' = {} \/ At(packet)' = {m.t})
  BY <1>1, <1>5 DEF Inv, Handlers, At
<1>8. Apart'
  BY <1>2, <1>4, <1>6, <1>7 DEF Inv, Apart
<1>9. Awaited'
  BY <1>2, <1>4, <1>5, <1>6, <1>7 DEF Inv, Awaited
<1>10. Once' /\ Handlers'
  BY <1>1, <1>2, <1>4, <1>5, <1>6 DEF Inv, Once, Single, Handlers
<1>11. KeptForWaiting'
  BY <1>1, Kept DEF Inv
<1> QED
  BY <1>8, <1>9, <1>10, <1>11 DEF Inv

\* Copying and packing move nothing.
LEMMA StillInv ==
  ASSUME Inv, UNCHANGED <<client, outgoing, queries, responses, packet, internal, query>>,
         pc' = "idle" <=> pc = "idle", rpc' = "idle" <=> rpc = "idle",
         DOMAIN requester_state' = DOMAIN requester_state
  PROVE  Inv'
<1>1. Of(outgoing)' = Of(outgoing) /\ Of(queries)' = Of(queries)
      /\ Of(responses)' = Of(responses) /\ At(packet)' = At(packet)
      /\ At(query)' = At(query) /\ Asking' = Asking
  BY DEF Of, At, Asking
<1>2. Apart' /\ Awaited'
  BY <1>1 DEF Inv, Apart, Awaited
<1>3. Once' /\ Handlers'
  BY DEF Inv, Once, Handlers
<1> QED
  BY <1>2, <1>3, Kept DEF Inv

LEMMA CopyInv ==
  ASSUME Inv, Q!CopyRRFrag \/ Q!CopyRR \/ Q!StartPacking \/ Q!PackOne,
         UNCHANGED <<responder, restarts>>
  PROVE  Inv'
<1>1. UNCHANGED <<client, outgoing, queries, responses, packet>>
  BY DEF Q!CopyRRFrag, Q!CopyRR, Q!StartPacking, Q!PackOne, Q!clients, Q!network
<1>2. pc # "idle" /\ pc' # "idle"
  BY DEF Q!CopyRRFrag, Q!CopyRR, Q!StartPacking, Q!PackOne
<1>3. DOMAIN requester_state' = DOMAIN requester_state
  <2>1. CASE Q!CopyRRFrag
    BY <2>1 DEF Q!CopyRRFrag, Q!SetEntry
  <2>2. CASE Q!CopyRR
    BY <2>2 DEF Q!CopyRR, Q!SetEntry
  <2>3. CASE Q!StartPacking
    BY <2>3 DEF Q!StartPacking
  <2>4. CASE Q!PackOne
    BY <2>4 DEF Q!PackOne, Q!SetEntry
  <2> QED
    BY <2>1, <2>2, <2>3, <2>4
<1>4. UNCHANGED <<internal, query, rpc>>
  BY DEF responder
<1> QED
  BY <1>1, <1>2, <1>3, <1>4, StillInv

\* The handler ends with one packet of its query, the whole message or a
\* follow-up query.
LEMMA EndInv ==
  ASSUME Inv, Q!Complete \/ Q!SendFollowUp, UNCHANGED <<responder, restarts>>
  PROVE  Inv'
<1>1. /\ pc # "idle" /\ pc' = "idle" /\ packet' = "none"
      /\ UNCHANGED <<client, queries, requester_state>>
      /\ \E x : x.t = packet /\
           \/ responses' = responses \cup {x} /\ outgoing' = outgoing
           \/ outgoing' = outgoing \cup {x} /\ responses' = responses
  BY Fields DEF Q!Complete, Q!SendFollowUp, Q!clients, Q!NONE
<1>2. UNCHANGED <<internal, query, rpc>>
  BY DEF responder
<1>3. Single(outgoing) /\ Single(queries) /\ Single(responses)
  BY OnceIsSingle DEF Inv
<1>4. At(packet) = {packet} /\ At(packet)' = {} /\ At(query)' = At(query)
  BY <1>1, <1>2 DEF Inv, Handlers, At
<1>5. packet \notin Of(outgoing) /\ packet \notin Of(responses) /\ packet \in Asking
  BY <1>4 DEF Inv, Apart, Awaited
<1>6. Of(queries)' = Of(queries) /\ Asking' = Asking /\ Single(queries)'
  BY <1>1, <1>3 DEF Of, Asking, Single
<1>7. /\ Single(outgoing)' /\ Single(responses)'
      /\ \/ Of(responses)' = Of(responses) \cup {packet} /\ Of(outgoing)' = Of(outgoing)
         \/ Of(outgoing)' = Of(outgoing) \cup {packet} /\ Of(responses)' = Of(responses)
  <2>1. PICK x : x.t = packet /\
           \/ responses' = responses \cup {x} /\ outgoing' = outgoing
           \/ outgoing' = outgoing \cup {x} /\ responses' = responses
    BY <1>1
  <2>2. CASE responses' = responses \cup {x} /\ outgoing' = outgoing
    <3>1. Of(responses \cup {x}) = Of(responses) \cup {packet} /\ Single(responses \cup {x})
      BY <1>3, <1>5, <2>1, Added
    <3> QED
      BY <1>3, <2>2, <3>1 DEF Of, Single
  <2>3. CASE outgoing' = outgoing \cup {x} /\ responses' = responses
    <3>1. Of(outgoing \cup {x}) = Of(outgoing) \cup {packet} /\ Single(outgoing \cup {x})
      BY <1>3, <1>5, <2>1, Added
    <3> QED
      BY <1>3, <2>3, <3>1 DEF Of, Single
  <2> QED
    BY <2>1, <2>2, <2>3
<1>8. Apart'
  BY <1>2, <1>4, <1>6, <1>7 DEF Inv, Apart
<1>9. Awaited'
  BY <1>2, <1>4, <1>5, <1>6, <1>7 DEF Inv, Awaited
<1>10. Once' /\ Handlers'
  BY <1>1, <1>2, <1>6, <1>7 DEF Inv, Once, Single, Handlers
<1>11. KeptForWaiting'
  BY <1>1, Kept DEF Inv
<1> QED
  BY <1>8, <1>9, <1>10, <1>11 DEF Inv

\* The responder takes a query from the network, and either puts it to the
\* name server or answers it, or stops.
LEMMA TakeInv ==
  ASSUME Inv, NEW q \in queries, Start(q) \/ Serve(q)
  PROVE  Inv'
<1>1. /\ queries' = queries \ {q}
      /\ UNCHANGED <<client, outgoing, requester_state, packet, pc, query, rpc>>
  BY DEF Start, Serve, R!Start, R!handler
<1>2. \/ internal' = internal \cup {q.t} /\ responses' = responses
      \/ internal' = internal /\ responses' = responses
      \/ internal' = internal /\ \E m : m.t = q.t /\ responses' = responses \cup {m}
  <2>1. CASE Start(q)
    BY <2>1 DEF Start, R!Start
  <2>2. CASE Serve(q)
    BY <2>2, Fields DEF Serve
  <2> QED
    BY <2>1, <2>2
<1>3. Single(outgoing) /\ Single(queries) /\ Single(responses)
  BY OnceIsSingle DEF Inv
<1>4. Of(queries)' = Of(queries) \ {q.t} /\ q.t \in Of(queries) /\ Single(queries)'
  BY <1>1, <1>3, Taken
<1>5. q.t \notin Of(responses) /\ q.t \in Asking
  BY <1>4 DEF Inv, Apart, Awaited
<1>6. Of(outgoing)' = Of(outgoing) /\ At(packet)' = At(packet) /\ At(query)' = At(query)
      /\ Asking' = Asking /\ Single(outgoing)'
  BY <1>1, <1>3 DEF Of, At, Asking, Single
<1>7. /\ Single(responses)'
      /\ \/ internal' = internal \cup {q.t} /\ Of(responses)' = Of(responses)
         \/ internal' = internal /\ Of(responses)' = Of(responses)
         \/ internal' = internal /\ Of(responses)' = Of(responses) \cup {q.t}
  <2>1. CASE responses' = responses
    BY <1>2, <1>3, <1>5, <2>1, Added DEF Of, Single
  <2>2. CASE internal' = internal /\ \E m : m.t = q.t /\ responses' = responses \cup {m}
    <3>1. PICK m : m.t = q.t /\ responses' = responses \cup {m}
      BY <2>2
    <3>2. Of(responses \cup {m}) = Of(responses) \cup {q.t} /\ Single(responses \cup {m})
      BY <1>3, <1>5, <3>1, Added
    <3> QED
      BY <2>2, <3>1, <3>2 DEF Of, Single
  <2> QED
    BY <1>2, <2>1, <2>2
<1>8. Apart'
  BY <1>4, <1>6, <1>7 DEF Inv, Apart
<1>9. Awaited'
  BY <1>4, <1>5, <1>6, <1>7 DEF Inv, Awaited
<1>10. Once' /\ Handlers'
  BY <1>1, <1>4, <1>6, <1>7 DEF Inv, Once, Single, Handlers
<1>11. KeptForWaiting'
  BY <1>1, Kept DEF Inv
<1> QED
  BY <1>8, <1>9, <1>10, <1>11 DEF Inv

\* The name server's answer goes through the handler, which does not move it
\* until it sends it.
LEMMA HandleInv ==
  ASSUME Inv, Handle
  PROVE  Inv'
<1>1. UNCHANGED <<client, outgoing, queries, responses, requester_state, packet, pc>>
  BY DEF Handle, requester
<1>2. CASE R!Insert \/ R!Inserted \/ R!Shrink \/ R!Fits
  <2>1. UNCHANGED <<internal, query>> /\ rpc # "idle" /\ rpc' # "idle"
    BY <1>2 DEF R!Insert, R!Inserted, R!Shrink, R!Fits
  <2> QED
    BY <1>1, <2>1, StillInv
<1>3. ASSUME NEW t \in Transactions, R!Answer(t) PROVE Inv'
  <2>1. /\ t \in internal /\ internal' = internal \ {t} /\ rpc = "idle"
        /\ (UNCHANGED <<query, rpc>> \/ (query' = t /\ rpc' = "insert"))
    BY <1>3 DEF R!Answer, R!handler
  <2>2. t # "none"
    BY SystemAssumption
  <2>3. At(query) = {} /\ (At(query)' = {} \/ At(query)' = {t})
    BY <2>1, <2>2 DEF Inv, Handlers, At
  <2>4. Of(outgoing)' = Of(outgoing) /\ Of(queries)' = Of(queries)
        /\ Of(responses)' = Of(responses) /\ At(packet)' = At(packet) /\ Asking' = Asking
    BY <1>1 DEF Of, At, Asking
  <2>5. Apart' /\ Awaited'
    BY <2>1, <2>3, <2>4 DEF Inv, Apart, Awaited
  <2>6. Once' /\ Handlers'
    BY <1>1, <2>1, <2>2 DEF Inv, Once, Handlers
  <2> QED
    BY <1>1, <2>5, <2>6, Kept DEF Inv
<1> QED
  BY <1>2, <1>3 DEF Handle

LEMMA SendInv ==
  ASSUME Inv, Send
  PROVE  Inv'
<1>1. /\ rpc = "send" /\ query' = "none" /\ rpc' = "idle"
      /\ UNCHANGED <<client, outgoing, queries, requester_state, packet, pc, internal>>
  BY DEF Send, R!Send, R!NONE
<1>2. \/ responses' = responses
      \/ \E m : m.t = query /\ responses' = responses \cup {m}
  BY Fields DEF Send, FirstResponse
<1>3. Single(outgoing) /\ Single(queries) /\ Single(responses)
  BY OnceIsSingle DEF Inv
<1>4. At(query) = {query} /\ At(query)' = {} /\ At(packet)' = At(packet)
  BY <1>1 DEF Inv, Handlers, At
<1>5. query \notin Of(responses) /\ query \in Asking
  BY <1>4 DEF Inv, Apart, Awaited
<1>6. Single(responses)' /\ (\/ Of(responses)' = Of(responses)
                             \/ Of(responses)' = Of(responses) \cup {query})
  <2>1. CASE responses' = responses
    BY <1>3, <2>1 DEF Single
  <2>2. CASE \E m : m.t = query /\ responses' = responses \cup {m}
    <3>1. PICK m : m.t = query /\ responses' = responses \cup {m}
      BY <2>2
    <3>2. Of(responses \cup {m}) = Of(responses) \cup {query} /\ Single(responses \cup {m})
      BY <1>3, <1>5, <3>1, Added
    <3> QED
      BY <3>1, <3>2 DEF Of, Single
  <2> QED
    BY <1>2, <2>1, <2>2
<1>7. Of(outgoing)' = Of(outgoing) /\ Of(queries)' = Of(queries) /\ Asking' = Asking
  BY <1>1 DEF Of, Asking
<1>8. Apart' /\ Awaited'
  BY <1>1, <1>4, <1>5, <1>6, <1>7 DEF Inv, Apart, Awaited
<1>9. Once' /\ Handlers'
  BY <1>1, <1>6 DEF Inv, Once, Single, Handlers
<1> QED
  BY <1>1, <1>8, <1>9, Kept DEF Inv

\* A restart forgets what the responder was at.
LEMMA RestartInv ==
  ASSUME Inv, Restart
  PROVE  Inv'
<1>1. /\ query' = "none" /\ rpc' = "idle" /\ internal' = {}
      /\ UNCHANGED <<client, outgoing, queries, responses, requester_state, packet, pc>>
  BY DEF Restart, requester, R!NONE
<1>2. Of(outgoing)' = Of(outgoing) /\ Of(queries)' = Of(queries)
      /\ Of(responses)' = Of(responses) /\ At(packet)' = At(packet)
      /\ At(query)' = {} /\ Asking' = Asking
  BY <1>1 DEF Of, At, Asking
<1>3. Apart' /\ Awaited'
  BY <1>1, <1>2 DEF Inv, Apart, Awaited
<1>4. Once' /\ Handlers'
  BY <1>1 DEF Inv, Once, Handlers
<1> QED
  BY <1>1, <1>3, <1>4, Kept DEF Inv

LEMMA NextInv ==
  ASSUME Inv, [Next]_vars
  PROVE  Inv'
<1>1. CASE UNCHANGED vars
  <2>1. UNCHANGED <<client, outgoing, queries, responses, requester_state, packet, pc,
                    internal, query, rpc>>
    BY <1>1 DEF vars, requester, responder
  <2> QED
    BY <2>1, StillInv
<1>2. CASE Requester
  <2>1. UNCHANGED <<responder, restarts>>
    BY <1>2 DEF Requester
  <2>2. CASE \E t \in Transactions : Q!Ask(t)
    BY <2>1, <2>2, AskInv
  <2>3. CASE Q!Daemon
    <3>1. \/ \E q \in outgoing : Q!Register(q)
          \/ \E m \in responses : Q!Accept(m) \/ Q!Drop(m) \/ Q!Receive(m)
          \/ Q!CopyRRFrag \/ Q!CopyRR \/ Q!StartPacking \/ Q!PackOne
          \/ Q!Complete \/ Q!SendFollowUp
      BY <2>3 DEF Q!Daemon
    <3> QED
      BY <2>1, <3>1, RegisterInv, AcceptInv, ReceiveInv, CopyInv, EndInv
  <2> QED
    BY <1>2, <2>2, <2>3 DEF Requester
<1>3. CASE Responder
  BY <1>3, TakeInv, HandleInv, SendInv DEF Responder
<1>4. CASE Restart
  BY <1>4, RestartInv
<1> QED
  BY <1>1, <1>2, <1>3, <1>4 DEF Next

\* Whatever ids the clients use, whatever the name server answers and however
\* often the responder's daemon restarts, the requester keeps a
\* PartialDNSMessage only for an id of which a client is still waiting: the
\* plain response that completes an exchange erases it (hashmap_remove in
\* process_dns_message), and nothing of that exchange is left to enter it anew.
THEOREM KeptForWaitingHolds == Spec => []KeptForWaiting
<1>1. Inv => KeptForWaiting
  BY DEF Inv
<1>2. Inv /\ [Next]_vars => Inv'
  BY NextInv
<1> QED
  BY <1>1, <1>2, InitInv, PTL DEF Spec
-----------------------------------------------------------------------------
(***************************************************************************)
(* The records of a message by section, and their places in the message.   *)
(***************************************************************************)
Base(m, s) == Offsets(SECTIONS[m])[s]
Index(m, p) == Base(m, p[1]) + p[2]
SectionPlaces(m) == UNION {{s} \X (1 .. SECTIONS[m][s + 1]) : s \in 0 .. 2}

\* The three sections of a message are one after another, and make it up.
LEMMA MessageFields ==
  ASSUME NEW m \in Messages
  PROVE  /\ Len(m) \in Nat /\ DOMAIN m = 1 .. Len(m)
         /\ \A i \in DOMAIN m : m[i] \in R!Record
         /\ \A s \in 0 .. 2 : SECTIONS[m][s + 1] \in Nat /\ Base(m, s) \in Nat
                              /\ Base(m, s + 1) = Base(m, s) + SECTIONS[m][s + 1]
         /\ Base(m, 0) = 0 /\ Base(m, 3) = Len(m)
<1> DEFINE S == SECTIONS[m]
<1>1. m \in Seq(R!Record)
  BY PartsAssumption DEF R!ResponderAssumption
<1>2. S \in Seq(Nat) /\ Len(S) = 3 /\ S[1] + S[2] + S[3] = Len(m)
  BY SystemAssumption
<1> HIDE DEF S
<1>3. S \in Seq(Int) /\ S[1] \in Nat /\ S[2] \in Nat /\ S[3] \in Nat
  <2>1. \A i \in 1 .. 3 : S[i] \in Nat
    BY <1>2, ElementOfSeq
  <2> QED
    BY <1>2, <2>1
<1>4. /\ Offsets(S)[0] = 0
      /\ Offsets(S)[1] = Offsets(S)[0] + S[1]
      /\ Offsets(S)[2] = Offsets(S)[1] + S[2]
      /\ Offsets(S)[3] = Offsets(S)[2] + S[3]
  <2>1. /\ Offsets(S)[0] = 0
        /\ \A i \in 1 .. 3 : Offsets(S)[i] = Offsets(S)[i - 1] + S[i]
    BY <1>2, <1>3, OffsetsStep
  <2> QED
    BY <2>1
<1>5. \A s \in 0 .. 2 : S[s + 1] \in Nat /\ Offsets(S)[s] \in Nat
                        /\ Offsets(S)[s + 1] = Offsets(S)[s] + S[s + 1]
  BY <1>3, <1>4
<1>6. Offsets(S)[3] = Len(m)
  BY <1>2, <1>3, <1>4
<1> QED
  BY <1>1, <1>4, <1>5, <1>6 DEF Base, S

\* A section has the records of the message from its base on.
LEMMA SectionFields ==
  ASSUME NEW m \in Messages, NEW records, NEW s \in 0 .. 2
  PROVE  LET list == BySection(m, records)[s] IN
         /\ list \in Seq({records[i] : i \in DOMAIN m})
         /\ Len(list) = SECTIONS[m][s + 1] /\ DOMAIN list = 1 .. SECTIONS[m][s + 1]
         /\ \A i \in 1 .. SECTIONS[m][s + 1] :
              Base(m, s) + i \in DOMAIN m /\ list[i] = records[Base(m, s) + i]
<1> DEFINE list == BySection(m, records)[s]
           n == SECTIONS[m][s + 1]
           b == Base(m, s)
           e == Base(m, s + 1)
           V == {records[i] : i \in DOMAIN m}
<1>1. n \in Nat /\ b \in Nat /\ e = b + n
  BY MessageFields
<1>2. \A i \in 1 .. n : b + i \in DOMAIN m
  <2>1. /\ Base(m, 0) = 0 /\ Base(m, 3) = Len(m) /\ DOMAIN m = 1 .. Len(m)
        /\ SECTIONS[m][1] \in Nat /\ SECTIONS[m][2] \in Nat /\ SECTIONS[m][3] \in Nat
        /\ Base(m, 1) = Base(m, 0) + SECTIONS[m][1]
        /\ Base(m, 2) = Base(m, 1) + SECTIONS[m][2]
        /\ Base(m, 3) = Base(m, 2) + SECTIONS[m][3]
    BY MessageFields
  <2>2. \/ b = Base(m, 0) /\ n = SECTIONS[m][1]
        \/ b = Base(m, 1) /\ n = SECTIONS[m][2]
        \/ b = Base(m, 2) /\ n = SECTIONS[m][3]
    <3>1. s = 0 \/ s = 1 \/ s = 2
      OBVIOUS
    <3> QED
      BY <3>1
  <2> DEFINE x == SECTIONS[m][1]
             y == SECTIONS[m][2]
             z == SECTIONS[m][3]
             l == Len(m)
  <2>3. /\ x \in Nat /\ y \in Nat /\ z \in Nat /\ l = x + y + z
        /\ \/ b = 0 /\ n = x
           \/ b = x /\ n = y
           \/ b = x + y /\ n = z
    <3> HIDE DEF b, n
    <3> QED
      BY <2>1, <2>2
  <2> HIDE DEF x, y, z, n, b, l
  <2>4. \A i \in 1 .. n : b + i \in 1 .. l
    BY <2>3
  <2> QED
    BY <2>1, <2>4 DEF l
<1>3. list = SubSeq(records, b + 1, e)
  BY DEF BySection, Base
<1> HIDE DEF n, b, e, list
<1>4. \A i \in b + 1 .. e : records[i] \in V
  <2> SUFFICES ASSUME NEW i \in b + 1 .. e PROVE i \in DOMAIN m
    OBVIOUS
  <2>1. i - b \in 1 .. n /\ b + (i - b) = i
    BY <1>1
  <2> QED
    BY <1>2, <2>1
<1> HIDE DEF V
<1>5. /\ SubSeq(records, b + 1, e) \in Seq(V)
      /\ Len(SubSeq(records, b + 1, e)) = IF b + 1 <= e THEN e - (b + 1) + 1 ELSE 0
      /\ \A i \in 1 .. e - (b + 1) + 1 : SubSeq(records, b + 1, e)[i] = records[(b + 1) + i - 1]
  BY <1>1, <1>4, SubSeqProperties
<1>6. list \in Seq(V) /\ Len(list) = n /\ \A i \in 1 .. n : list[i] = records[b + i]
  BY <1>1, <1>3, <1>5
<1> QED
  BY <1>2, <1>6 DEF list, n, b, V

\* Different places of the sections are different places of the message.
LEMMA IndexFields ==
  ASSUME NEW m \in Messages
  PROVE  /\ \A p \in SectionPlaces(m) :
              /\ Index(m, p) \in DOMAIN m
              /\ p[1] \in 0 .. 2 /\ p[2] \in 1 .. SECTIONS[m][p[1] + 1] /\ p = <<p[1], p[2]>>
         /\ \A p, q \in SectionPlaces(m) : Index(m, p) = Index(m, q) => p = q
<1>1. ASSUME NEW p \in SectionPlaces(m)
      PROVE  p[1] \in 0 .. 2 /\ p[2] \in 1 .. SECTIONS[m][p[1] + 1] /\ p = <<p[1], p[2]>>
  BY <1>1 DEF SectionPlaces
<1>2. ASSUME NEW p \in SectionPlaces(m) PROVE Index(m, p) \in DOMAIN m
  <2>1. p[1] \in 0 .. 2 /\ p[2] \in 1 .. SECTIONS[m][p[1] + 1]
    BY <1>1
  <2> QED
    BY <2>1, SectionFields DEF Index
<1>3. ASSUME NEW p \in SectionPlaces(m), NEW q \in SectionPlaces(m),
             Index(m, p) = Index(m, q)
      PROVE  p = q
  <2> DEFINE s == p[1]
             t == q[1]
             i == p[2]
             j == q[2]
  <2>1. /\ s \in 0 .. 2 /\ i \in 1 .. SECTIONS[m][s + 1] /\ p = <<s, i>>
        /\ t \in 0 .. 2 /\ j \in 1 .. SECTIONS[m][t + 1] /\ q = <<t, j>>
    BY <1>1
  <2>2. Base(m, s) + i = Base(m, t) + j
    BY <1>3 DEF Index
  <2> HIDE DEF s, t, i, j
  <2>3. /\ Base(m, 0) = 0
        /\ SECTIONS[m][1] \in Nat /\ SECTIONS[m][2] \in Nat /\ SECTIONS[m][3] \in Nat
        /\ Base(m, 1) = Base(m, 0) + SECTIONS[m][1]
        /\ Base(m, 2) = Base(m, 1) + SECTIONS[m][2]
    BY MessageFields
  <2>4. i \in Nat \ {0} /\ j \in Nat \ {0}
    BY <2>1, <2>3
  <2>5. s = 0 => i <= SECTIONS[m][1]
    BY <2>1
  <2>6. s = 1 => i <= SECTIONS[m][2]
    BY <2>1
  <2>7. t = 0 => j <= SECTIONS[m][1]
    BY <2>1
  <2>8. t = 1 => j <= SECTIONS[m][2]
    BY <2>1
  <2>9. s \in {0, 1, 2} /\ t \in {0, 1, 2}
    BY <2>1
  <2>10. s = t
    BY <2>2, <2>3, <2>4, <2>5, <2>6, <2>7, <2>8, <2>9
  <2>11. i = j
    <3>1. Base(m, s) \in Nat
      BY <2>1, MessageFields
    <3> QED
      BY <2>2, <2>4, <2>10, <3>1
  <2> QED
    BY <2>1, <2>10, <2>11
<1> QED
  BY <1>1, <1>2, <1>3
-----------------------------------------------------------------------------
(***************************************************************************)
(* The responder as the far side of Requester: which answer it gives to a  *)
(* query, and by which first response, shows when it sends that response.  *)
(* Until then the answer is as good as one without fragments, and the      *)
(* query still under way.                                                  *)
(***************************************************************************)
Records == UNION {ToSet(m) : m \in Messages}

\* What the results assume: no two queries have one id, and no two records the
\* name server knows have one hash.
IdsApart == \A t, u \in Transactions : ID[t] = ID[u] => t = u
HashesApart == \A x, y \in Records : x.hash = y.hash => x = y

\* What they assume of the first responses sent: a fragment tells the size of
\* its record and is the only one of that rrid in the message.
Parted(items) == {i \in DOMAIN items : items[i].isRRFrag}

Regular(items) ==
  /\ \A i \in Parted(items) : items[i].rrsize > 0
  /\ \A i, j \in Parted(items) : items[i].rrid = items[j].rrid => i = j

Advertised == \A t \in DOMAIN sent : Regular(sent[t])

\* Message m as a requester has it, with fragments in the places P.
OfRecord(rr, inParts) == OnTheWire(IF inParts THEN rr.hash ELSE 0, rr)
Wire(m, P) == BySection(m, [i \in DOMAIN m |-> OfRecord(m[i], i \in P)])

MayPart(m, P) ==
  /\ \A i \in P : m[i].hash # 0
  /\ \A i, j \in P : m[i].hash = m[j].hash => i = j

WireAnswers ==
  UNION {{Wire(m, P) : P \in {X \in SUBSET DOMAIN m : MayPart(m, X)}} : m \in Messages}

AnswerOf(A, m, P) == m \in Messages /\ P \subseteq DOMAIN m /\ MayPart(m, P) /\ A = Wire(m, P)

\* A first response, sent or as good as sent.
WholeItems(m) == [i \in DOMAIN m |-> R!Whole(m[i])]
AsSent(t) == IF t \in DOMAIN sent THEN sent[t] ELSE WholeItems(wanted[t])
WireItems(m, items) == BySection(m, [i \in DOMAIN items |-> Item(items[i])])

WireAnswer == [t \in Transactions |-> Wire(wanted[t], Parted(AsSent(t)))]
WireFirst == [t \in Transactions |-> WireItems(wanted[t], AsSent(t))]

\* The queries the responder has not responded to, on the network or in hand.
InHand == internal \cup At(query)
Unanswered == queries \cup {Q!Query(t, <<>>, FALSE) : t \in InHand}

AP == INSTANCE RequesterProofs WITH
        Answers <- WireAnswers, FIRSTBLOCKS <- Nat, LOSSY <- TRUE,
        DUPLICATES <- 0, answer <- WireAnswer, first <- WireFirst,
        queries <- Unanswered, copies <- 0

\* A section has the records of the message from its base on, as a requester
\* has them.
LEMMA WireFields ==
  ASSUME NEW m \in Messages, NEW P, NEW s \in 0 .. 2
  PROVE  LET list == Wire(m, P)[s] IN
         /\ Len(list) = SECTIONS[m][s + 1] /\ DOMAIN list = 1 .. SECTIONS[m][s + 1]
         /\ list \in Seq({OfRecord(m[i], i \in P) : i \in DOMAIN m})
         /\ \A i \in 1 .. SECTIONS[m][s + 1] :
              /\ Base(m, s) + i \in DOMAIN m
              /\ list[i] = OfRecord(m[Base(m, s) + i], Base(m, s) + i \in P)
<1> DEFINE records == [i \in DOMAIN m |-> OfRecord(m[i], i \in P)]
<1>1. \A i \in DOMAIN m : records[i] = OfRecord(m[i], i \in P)
  OBVIOUS
<1>2. {records[i] : i \in DOMAIN m} = {OfRecord(m[i], i \in P) : i \in DOMAIN m}
  BY <1>1
<1>3. Wire(m, P) = BySection(m, records)
  BY DEF Wire
<1> HIDE DEF records
<1>4. LET list == BySection(m, records)[s] IN
      /\ list \in Seq({records[i] : i \in DOMAIN m})
      /\ Len(list) = SECTIONS[m][s + 1] /\ DOMAIN list = 1 .. SECTIONS[m][s + 1]
      /\ \A i \in 1 .. SECTIONS[m][s + 1] :
           Base(m, s) + i \in DOMAIN m /\ list[i] = records[Base(m, s) + i]
  BY SectionFields
<1> QED
  BY <1>1, <1>2, <1>3, <1>4

\* So it has as many places in a section as the message has records there.
LEMMA WireDomain ==
  ASSUME NEW m \in Messages, NEW P, NEW s \in 0 .. 2
  PROVE  DOMAIN Wire(m, P)[s] = 1 .. SECTIONS[m][s + 1]
<1> DEFINE records == [i \in DOMAIN m |-> OfRecord(m[i], i \in P)]
<1>1. Wire(m, P) = BySection(m, records)
  BY DEF Wire
<1> HIDE DEF records
<1>2. LET list == BySection(m, records)[s] IN
      /\ list \in Seq({records[i] : i \in DOMAIN m})
      /\ Len(list) = SECTIONS[m][s + 1] /\ DOMAIN list = 1 .. SECTIONS[m][s + 1]
      /\ \A i \in 1 .. SECTIONS[m][s + 1] :
           Base(m, s) + i \in DOMAIN m /\ list[i] = records[Base(m, s) + i]
  BY SectionFields
<1> QED
  BY <1>1, <1>2

\* A record as a requester has it is known by its rrid only if it is fragmented,
\* and has a length.
LEMMA OfRecordFields ==
  ASSUME NEW rr \in R!Record, NEW inParts
  PROVE  LET r == OfRecord(rr, inParts) IN
         /\ r.rrid = (IF inParts THEN rr.hash ELSE 0) /\ r.len = R!RRSize(rr)
         /\ r.rrid \in Nat /\ r.len \in Nat \ {0}
<1>1. rr.name \in Nat /\ rr.rdsize \in Nat /\ rr.hash \in Nat
  <2>1. rr.name \in Nat /\ rr.rdsize \in Nat
    BY DEF R!Record
  <2>2. rr.hash \in Nat
    BY DEF R!Record
  <2> QED
    BY <2>1, <2>2
<1>2. R!RRSize(rr) \in Nat \ {0}
  BY <1>1 DEF R!RRSize, R!RRHEADER
<1> QED
  BY <1>1, <1>2 DEF OfRecord, OnTheWire

\* The records of the answers.
LEMMA WireRecords ==
  /\ WireAnswers \subseteq [AP!Sections -> Seq(AP!AllRecords)]
  /\ \A x \in AP!AllRecords : \E rr \in Records, b \in BOOLEAN :
       x = OfRecord(rr, b) /\ rr \in R!Record
<1>1. ASSUME NEW A \in WireAnswers
      PROVE  \E m, P : AnswerOf(A, m, P)
  BY DEF WireAnswers, AnswerOf
<1>2. ASSUME NEW A \in WireAnswers, NEW s \in 0 .. 2
      PROVE  A[s] \in Seq(AP!AllRecords)
  <2>1. PICK m, P : m \in Messages /\ A = Wire(m, P)
    BY <1>1 DEF AnswerOf
  <2> DEFINE list == A[s]
             V == {OfRecord(m[i], i \in P) : i \in DOMAIN m}
  <2>2. list \in Seq(V)
    BY <2>1, WireFields
  <2>3. \A i \in DOMAIN list : list[i] \in AP!AllRecords
    <3>1. \A i \in DOMAIN list : list[i] \in AP!ToSet(A[s])
      BY DEF AP!ToSet
    <3> QED
      BY <3>1 DEF AP!AllRecords, AP!Sections
  <2> HIDE DEF list, V
  <2>4. list \in Seq(AP!AllRecords)
    BY <2>2, <2>3
  <2> QED
    BY <2>4 DEF list
<1>3. ASSUME NEW A \in WireAnswers PROVE A \in [AP!Sections -> Seq(AP!AllRecords)]
  <2>1. A = [s \in 0 .. 2 |-> A[s]]
    BY <1>1 DEF AnswerOf, Wire, BySection
  <2> QED
    BY <1>2, <2>1 DEF AP!Sections
<1>4. ASSUME NEW x \in AP!AllRecords
      PROVE  \E rr \in Records, b \in BOOLEAN : x = OfRecord(rr, b) /\ rr \in R!Record
  <2>1. PICK A \in WireAnswers, s \in 0 .. 2 : x \in AP!ToSet(A[s])
    BY DEF AP!AllRecords, AP!Sections
  <2>2. PICK m, P : m \in Messages /\ A = Wire(m, P)
    BY <1>1 DEF AnswerOf
  <2>3. PICK i \in DOMAIN A[s] : x = A[s][i]
    BY <2>1 DEF AP!ToSet
  <2> DEFINE k == Base(m, s) + i
  <2>4. k \in DOMAIN m /\ x = OfRecord(m[k], k \in P)
    BY <2>2, <2>3, WireFields
  <2> HIDE DEF k
  <2>5. m[k] \in Records /\ m[k] \in R!Record
    BY <2>2, <2>4, MessageFields DEF Records, ToSet
  <2>6. (k \in P) \in BOOLEAN
    OBVIOUS
  <2> QED
    BY <2>4, <2>5, <2>6
<1> QED
  BY <1>3, <1>4

\* The far side of Requester, as the responder is it, is one that Requester
\* assumes.
LEMMA FarSide == AP!RequesterAssumption
<1>1. WireAnswers \subseteq [AP!Sections -> Seq(AP!AllRecords)]
  BY WireRecords
<1>2. \A x \in AP!AllRecords : x.rrid \in Nat /\ x.len \in Nat \ {0}
  BY WireRecords, OfRecordFields
<1>4. /\ ID \in [Transactions -> Nat] /\ AP!NONE \notin Transactions
      /\ MAXUDP \in Nat /\ MAXUDP >= AP!DNSMESSAGEHEADER + AP!BLOCKSIZE
  BY PartsAssumption DEF Q!RequesterAssumption, AP!NONE, Q!NONE, AP!DNSMESSAGEHEADER,
     Q!DNSMESSAGEHEADER, AP!BLOCKSIZE, Q!BLOCKSIZE
<1> QED
  BY <1>1, <1>2, <1>4 DEF AP!RequesterAssumption

\* Places of an answer are places of the message.
LEMMA WirePlaces ==
  ASSUME NEW m \in Messages, NEW P, NEW p \in AP!Places(Wire(m, P))
  PROVE  /\ p \in SectionPlaces(m)
         /\ Index(m, p) \in DOMAIN m /\ m[Index(m, p)] \in R!Record
         /\ AP!At(Wire(m, P), p) = OfRecord(m[Index(m, p)], Index(m, p) \in P)
<1>1. PICK s \in 0 .. 2 : p \in {s} \X DOMAIN Wire(m, P)[s]
  BY DEF AP!Places, AP!Sections
<1>2. DOMAIN Wire(m, P)[s] = 1 .. SECTIONS[m][s + 1]
  BY WireFields
<1>3. p[1] = s /\ p[2] \in 1 .. SECTIONS[m][s + 1] /\ p \in SectionPlaces(m)
  BY <1>1, <1>2 DEF SectionPlaces
<1>4. Wire(m, P)[p[1]][p[2]] =
        OfRecord(m[Base(m, p[1]) + p[2]], Base(m, p[1]) + p[2] \in P)
  BY <1>3, WireFields
<1>5. Index(m, p) \in DOMAIN m
  BY <1>3, IndexFields
<1> QED
  BY <1>3, <1>4, <1>5, MessageFields DEF AP!At, Index

\* With ids and hashes told apart, the queries and the records of the far side
\* are, as the argument about Requester wants it.
LEMMA Apartness ==
  ASSUME IdsApart, HashesApart
  PROVE  AP!Undisturbed
<1>2. ASSUME NEW x \in AP!AllRecords, NEW y \in AP!AllRecords, x.rrid = y.rrid, x.rrid # 0
      PROVE  x = y
  <2>1. PICK rr \in Records, b \in BOOLEAN : x = OfRecord(rr, b) /\ rr \in R!Record
    BY WireRecords
  <2>2. PICK other \in Records, c \in BOOLEAN : y = OfRecord(other, c) /\ other \in R!Record
    BY WireRecords
  <2>3. x.rrid = (IF b THEN rr.hash ELSE 0) /\ y.rrid = (IF c THEN other.hash ELSE 0)
    BY <2>1, <2>2, OfRecordFields
  <2>4. b = TRUE /\ c = TRUE /\ rr.hash = other.hash
    BY <1>2, <2>3
  <2> QED
    BY <2>1, <2>2, <2>4 DEF HashesApart
<1>3. ASSUME NEW A \in WireAnswers
      PROVE  \A p, q \in AP!Places(A) :
               AP!At(A, p).rrid = AP!At(A, q).rrid /\ AP!At(A, p).rrid # 0 => p = q
  <2>1. PICK m, P : m \in Messages /\ A = Wire(m, P) /\ MayPart(m, P)
    BY DEF WireAnswers
  <2>2. ASSUME NEW p \in AP!Places(A), AP!At(A, p).rrid # 0
        PROVE  /\ Index(m, p) \in P /\ p \in SectionPlaces(m)
               /\ AP!At(A, p).rrid = m[Index(m, p)].hash
    <3>1. /\ AP!At(A, p) = OfRecord(m[Index(m, p)], Index(m, p) \in P)
          /\ m[Index(m, p)] \in R!Record /\ p \in SectionPlaces(m)
      BY <2>1, WirePlaces
    <3>2. AP!At(A, p).rrid = IF Index(m, p) \in P THEN m[Index(m, p)].hash ELSE 0
      BY <3>1 DEF OfRecord, OnTheWire
    <3> QED
      BY <2>2, <3>1, <3>2
  <2>4. ASSUME NEW p \in AP!Places(A), NEW q \in AP!Places(A),
               AP!At(A, p).rrid = AP!At(A, q).rrid, AP!At(A, p).rrid # 0
        PROVE  p = q
    <3>1. /\ Index(m, p) \in P /\ Index(m, q) \in P
          /\ p \in SectionPlaces(m) /\ q \in SectionPlaces(m)
          /\ m[Index(m, p)].hash = m[Index(m, q)].hash
      BY <2>2, <2>4
    <3>2. Index(m, p) = Index(m, q)
      BY <2>1, <3>1 DEF MayPart
    <3> QED
      BY <2>1, <3>1, <3>2, IndexFields
  <2> QED
    BY <2>4
<1> QED
  BY <1>2, <1>3 DEF AP!Undisturbed, IdsApart
-----------------------------------------------------------------------------
(***************************************************************************)
(* A step of the requester's daemon is one of Requester's, on that far     *)
(* side.                                                                   *)
(***************************************************************************)
\* What such a step leaves alone.
FarSideStill == UNCHANGED <<WireAnswer, WireFirst, Unanswered>>

\* The copies that two instances have of a definition say the same: here those
\* that count,
LEMMA SameCardinality ==
  /\ \A S : Q!Cardinality(S) = Cardinality(S)
  /\ \A S : AP!Cardinality(S) = Cardinality(S)
<1>1. \A S : Q!Cardinality(S) = Cardinality(S)
  BY DEF Q!Cardinality, Cardinality
<1>2. \A S : AP!Cardinality(S) = Cardinality(S)
  BY DEF AP!Cardinality, Cardinality
<1> QED
  BY <1>1, <1>2

\* those that fill the blocks of a record,
LEMMA SameFilling ==
  ASSUME NEW slot, NEW f
  PROVE  /\ Q!Outcome(slot, f) = AP!Outcome(slot, f)
         /\ Q!Filled(slot, f) = AP!Filled(slot, f)
         /\ (Q!LastPiece(slot, f) <=> AP!LastPiece(slot, f))
<1>1. /\ \A n : Q!Blocks(n) = AP!Blocks(n) /\ Q!FreshMarkers(n) = AP!FreshMarkers(n)
      /\ \A m : Q!Received(m) = AP!Received(m)
      /\ \A m, s, v : Q!Mark(m, s, v) = AP!Mark(m, s, v)
      /\ \A m, s : Q!BlocksOf(m, s) = AP!BlocksOf(m, s)
  BY DEF Q!Blocks, AP!Blocks, Q!FreshMarkers, AP!FreshMarkers, Q!BLOCKSIZE, AP!BLOCKSIZE,
     Q!BLOCKFREE, AP!BLOCKFREE, Q!Received, AP!Received, Q!BLOCKRECVD, AP!BLOCKRECVD,
     Q!Mark, AP!Mark, Q!BlocksOf, AP!BlocksOf
<1>2. Q!BlockIdx(f) = AP!BlockIdx(f) /\ Q!LastBlockIdx(f) = AP!LastBlockIdx(f)
      /\ Q!Span(f) = AP!Span(f)
  BY <1>1 DEF Q!BlockIdx, AP!BlockIdx, Q!LastBlockIdx, AP!LastBlockIdx, Q!Span, AP!Span,
     Q!BLOCKSIZE, AP!BLOCKSIZE
<1>3. /\ Q!Opening(slot) <=> AP!Opening(slot)
      /\ Q!MarkersFor(slot, f) = AP!MarkersFor(slot, f)
      /\ Q!NowReceived(slot, f) = AP!NowReceived(slot, f)
      /\ Q!MarkersAfter(slot, f) = AP!MarkersAfter(slot, f)
      /\ Q!LastPiece(slot, f) <=> AP!LastPiece(slot, f)
  <2>1. Q!Opening(slot) <=> AP!Opening(slot)
    BY DEF Q!Opening, AP!Opening
  <2>2. Q!MarkersFor(slot, f) = AP!MarkersFor(slot, f)
    BY <1>1, <2>1 DEF Q!MarkersFor, AP!MarkersFor
  <2>3. Q!NowReceived(slot, f) = AP!NowReceived(slot, f)
    BY <1>2 DEF Q!NowReceived, AP!NowReceived
  <2>4. Q!MarkersAfter(slot, f) = AP!MarkersAfter(slot, f)
    BY <1>1, <1>2, <2>2 DEF Q!MarkersAfter, AP!MarkersAfter, Q!BLOCKRECVD, AP!BLOCKRECVD
  <2>5. Q!LastPiece(slot, f) <=> AP!LastPiece(slot, f)
    BY <2>2, <2>3, SameCardinality DEF Q!LastPiece, AP!LastPiece
  <2> QED
    BY <2>1, <2>2, <2>3, <2>4, <2>5
<1>4. Q!Overwrites(Q!MarkersFor(slot, f), f) = AP!Overwrites(AP!MarkersFor(slot, f), f)
  BY <1>2, <1>3 DEF Q!Overwrites, AP!Overwrites, Q!BLOCKRECVD, AP!BLOCKRECVD
<1>5. Q!Filled(slot, f) = AP!Filled(slot, f)
  BY Zenon, <1>1, <1>2, <1>3 DEF Q!Filled, AP!Filled
<1>6. Q!Outcome(slot, f) = AP!Outcome(slot, f)
  BY <1>1, <1>3, <1>4 DEF Q!Outcome, AP!Outcome
<1> QED
  BY <1>3, <1>5, <1>6

\* those of the state of the daemon,
LEMMA SameState ==
  /\ Q!entry = AP!entry
  /\ \A e : Q!SetEntry(e) <=> AP!SetEntry(e)
  /\ \A e, p, slot, done : Q!Put(e, p, slot, done) = AP!Put(e, p, slot, done)
  /\ \A e, id : Q!Matching(e, id) = AP!Matching(e, id)
  /\ \A e, s : Q!Unfilled(e, s) = AP!Unfilled(e, s)
  /\ \A S : Q!First(S) = AP!First(S)
  /\ \A e : Q!message_complete(e) <=> AP!message_complete(e)
<1>1. Q!entry = AP!entry /\ \A e : Q!SetEntry(e) <=> AP!SetEntry(e)
  BY DEF Q!entry, AP!entry, Q!SetEntry, AP!SetEntry
<1>2. \A e, p, slot, done : Q!Put(e, p, slot, done) = AP!Put(e, p, slot, done)
  BY DEF Q!Put, AP!Put
<1>3. \A e, id : Q!Matching(e, id) = AP!Matching(e, id)
  BY DEF Q!Matching, AP!Matching, Q!Places, AP!Places, Q!Sections, AP!Sections
<1>4. \A e, s : Q!Unfilled(e, s) = AP!Unfilled(e, s)
  BY DEF Q!Unfilled, AP!Unfilled
<1>5. \A S : Q!First(S) = AP!First(S)
  BY DEF Q!First, AP!First, Q!Before, AP!Before
<1>6. \A e : Q!message_complete(e) <=> AP!message_complete(e)
  BY DEF Q!message_complete, AP!message_complete
<1> QED
  BY <1>1, <1>2, <1>3, <1>4, <1>5, <1>6

\* copy_section on a fragment,
LEMMA CopyingIsRequesters ==
  ASSUME Q!CopyRRFrag, FarSideStill
  PROVE  AP!CopyRRFrag
<1>1. UNCHANGED <<Q!clients, Q!network, packet, missing, cursize, asked, pc>>
  BY Zenon DEF Q!CopyRRFrag
<1>2. UNCHANGED <<AP!clients, AP!network, packet, missing, cursize, asked, pc>>
  BY <1>1 DEF Q!clients, Q!network, FarSideStill, AP!clients, AP!network
<1> DEFINE f == Head(todo).item
           found == AP!Matching(AP!entry, f.rr.rrid)
           p == AP!First(found)
           slot == AP!entry.slots[p[1]][p[2]]
<1>3. /\ Q!Matching(Q!entry, f.rr.rrid) = found
      /\ Q!First(Q!Matching(Q!entry, f.rr.rrid)) = p
      /\ Q!entry.slots[p[1]][p[2]] = slot
  BY SameState
<1>4. /\ Q!Outcome(slot, f) = AP!Outcome(slot, f) /\ Q!Filled(slot, f) = AP!Filled(slot, f)
      /\ (Q!LastPiece(slot, f) <=> AP!LastPiece(slot, f))
  BY Zenon, SameFilling
<1>5. /\ Q!Running /\ pc = "copy" /\ todo # <<>> /\ f.isRRFrag
      /\ IF found = {}
         THEN status' = "crashed" /\ UNCHANGED <<requester_state, todo>>
         ELSE /\ status' = Q!Outcome(slot, f)
              /\ IF Q!Outcome(slot, f) = "running"
                 THEN /\ Q!SetEntry(Q!Put(Q!entry, p, Q!Filled(slot, f), Q!LastPiece(slot, f)))
                      /\ todo' = Tail(todo)
                 ELSE UNCHANGED <<requester_state, todo>>
  BY Zenon, <1>3 DEF Q!CopyRRFrag
<1>6. Q!SetEntry(Q!Put(Q!entry, p, Q!Filled(slot, f), Q!LastPiece(slot, f)))
        => AP!SetEntry(AP!Put(AP!entry, p, AP!Filled(slot, f), AP!LastPiece(slot, f)))
  <2> HIDE DEF f, found, p, slot
  <2>1. Q!entry = AP!entry
    BY SameState
  <2> QED
    BY <1>4, <2>1 DEF Q!SetEntry, AP!SetEntry, Q!Put, AP!Put
<1> QED
  BY Zenon, <1>2, <1>4, <1>5, <1>6 DEF AP!CopyRRFrag, Q!Running, AP!Running

\* the operators of pack_section,
LEMMA SameOperators ==
  /\ \A slot, rr : Q!WithWhole(slot, rr) = AP!WithWhole(slot, rr)
  /\ \A e : Q!partial_to_dnsmessage(e) = AP!partial_to_dnsmessage(e)
  /\ \A e : Q!Incomplete(e) = AP!Incomplete(e)
  /\ \A t, items : Q!Response(t, items) = AP!Response(t, items)
  /\ \A t, asks, followup : Q!Query(t, asks, followup) = AP!Query(t, asks, followup)
  /\ \A items : Q!ContainsRRFrag(items) <=> AP!ContainsRRFrag(items)
  /\ \A channel, left, m : Q!Taken(channel, left, m) <=> AP!Taken(channel, left, m)
  /\ \A f, S : Q!Restrict(f, S) = AP!Restrict(f, S)
  /\ \A m : Q!Awaited(m) <=> AP!Awaited(m)
  /\ \A e, items : Q!Overruns(e, items) <=> AP!Overruns(e, items)
  /\ \A e, items : Q!Opened(e, items) = AP!Opened(e, items)
  /\ \A items : Q!Items(items) = AP!Items(items)
  /\ Q!Fresh = AP!Fresh /\ Q!NONE = AP!NONE
<1>1. \A slot, rr : Q!WithWhole(slot, rr) = AP!WithWhole(slot, rr)
  BY DEF Q!WithWhole, AP!WithWhole, Q!BlocksOf, AP!BlocksOf, Q!Blocks, AP!Blocks,
     Q!BLOCKSIZE, AP!BLOCKSIZE
<1>3. \A e : Q!partial_to_dnsmessage(e) = AP!partial_to_dnsmessage(e)
  BY Zenon DEF Q!partial_to_dnsmessage, AP!partial_to_dnsmessage, Q!Reassembled, AP!Reassembled,
     Q!BlocksOf, AP!BlocksOf, Q!Blocks, AP!Blocks, Q!BLOCKSIZE, AP!BLOCKSIZE,
     Q!GARBLED, AP!GARBLED, Q!Whole, AP!Whole, Q!Sections, AP!Sections
<1>4. \A e : Q!Incomplete(e) = AP!Incomplete(e)
  BY Zenon DEF Q!Incomplete, AP!Incomplete, Q!Places, AP!Places, Q!Sections, AP!Sections
<1>5. /\ \A t, items : Q!Response(t, items) = AP!Response(t, items)
      /\ \A t, asks, followup : Q!Query(t, asks, followup) = AP!Query(t, asks, followup)
  BY Zenon DEF Q!Response, AP!Response, Q!Query, AP!Query
<1>6. \A items : Q!ContainsRRFrag(items) <=> AP!ContainsRRFrag(items)
  BY Zenon DEF Q!ContainsRRFrag, AP!ContainsRRFrag, Q!Places, AP!Places, Q!Sections, AP!Sections
<1>7. \A channel, left, m : Q!Taken(channel, left, m) <=> AP!Taken(channel, left, m)
  BY DEF Q!Taken, AP!Taken
<1>8. \A f, S : Q!Restrict(f, S) = AP!Restrict(f, S)
  BY DEF Q!Restrict, AP!Restrict
<1>9. \A e : Q!message_complete(e) <=> AP!message_complete(e)
  BY DEF Q!message_complete, AP!message_complete
<1>10. \A m : Q!Awaited(m) <=> AP!Awaited(m)
  BY <1>9 DEF Q!Awaited, AP!Awaited
<1>11. \A e, items : Q!Overruns(e, items) <=> AP!Overruns(e, items)
  BY Zenon DEF Q!Overruns, AP!Overruns
<1>12. \A e, items : Q!Opened(e, items) = AP!Opened(e, items)
  BY Zenon DEF Q!Opened, AP!Opened, Q!NewSlot, AP!NewSlot, Q!Sections, AP!Sections
<1>13. \A items : Q!Items(items) = AP!Items(items)
  BY Zenon DEF Q!Items, AP!Items, Q!Tagged, AP!Tagged
<1>14. Q!Fresh = AP!Fresh /\ Q!NONE = AP!NONE
  BY Zenon DEF Q!Fresh, AP!Fresh, Q!Zero, AP!Zero, Q!Empty, AP!Empty, Q!Sections, AP!Sections,
     Q!NONE, AP!NONE
<1> QED
  BY <1>1, <1>3, <1>4, <1>5, <1>6, <1>7, <1>8, <1>10, <1>11, <1>12, <1>13, <1>14

\* copy_section on a record,
LEMMA CopyingRecordsIsRequesters ==
  ASSUME Q!CopyRR, FarSideStill
  PROVE  AP!CopyRR
<1>1. UNCHANGED <<Q!clients, Q!network, packet, missing, cursize, asked, pc, status>>
  BY Zenon DEF Q!CopyRR
<1>2. UNCHANGED <<AP!clients, AP!network, packet, missing, cursize, asked, pc, status>>
  BY <1>1 DEF Q!clients, Q!network, FarSideStill, AP!clients, AP!network
<1> DEFINE next == Head(todo)
           free == AP!Unfilled(AP!entry, next.section)
           p == AP!First(free)
           slot == AP!entry.slots[p[1]][p[2]]
           new == AP!WithWhole(slot, next.item.rr)
<1>3. /\ Q!entry = AP!entry /\ Q!Unfilled(AP!entry, next.section) = free
      /\ Q!First(free) = p /\ Q!WithWhole(slot, next.item.rr) = new
  BY SameState, SameOperators
<1>4. /\ Q!Running /\ pc = "copy" /\ todo # <<>> /\ ~next.item.isRRFrag
      /\ IF free = {} THEN UNCHANGED requester_state
         ELSE Q!SetEntry(Q!Put(AP!entry, p, new, TRUE))
      /\ todo' = Tail(todo)
  BY Zenon, <1>3 DEF Q!CopyRR
<1>5. Q!SetEntry(Q!Put(AP!entry, p, new, TRUE)) => AP!SetEntry(AP!Put(AP!entry, p, new, TRUE))
  <2> HIDE DEF new, p
  <2> QED
    BY <1>3 DEF Q!SetEntry, AP!SetEntry, Q!Put, AP!Put
<1> QED
  BY Zenon, <1>2, <1>4, <1>5 DEF AP!CopyRR, Q!Running, AP!Running

\* the end of a response,
LEMMA EndingIsRequesters ==
  ASSUME Q!Complete \/ Q!StartPacking \/ Q!SendFollowUp, FarSideStill
  PROVE  AP!Complete \/ AP!StartPacking \/ AP!SendFollowUp
<1>1. /\ Q!entry = AP!entry /\ (Q!message_complete(AP!entry) <=> AP!message_complete(AP!entry))
      /\ Q!partial_to_dnsmessage(AP!entry) = AP!partial_to_dnsmessage(AP!entry)
      /\ Q!Incomplete(AP!entry) = AP!Incomplete(AP!entry)
      /\ \A items : Q!Response(packet, items) = AP!Response(packet, items)
      /\ Q!Query(packet, asked, TRUE) = AP!Query(packet, asked, TRUE)
      /\ Q!NONE = AP!NONE
  <2>1. Q!message_complete(AP!entry) <=> AP!message_complete(AP!entry)
    BY Zenon, SameState
  <2> QED
    BY Zenon, <2>1, SameState, SameOperators
<1>2. CASE Q!Complete
  <2>1. UNCHANGED <<AP!clients, Unanswered>>
    BY <1>2 DEF Q!Complete, Q!clients, FarSideStill, AP!clients
  <2> QED
    BY <1>1, <1>2, <2>1 DEF Q!Complete, AP!Complete, Q!Running, AP!Running
<1>3. CASE Q!StartPacking
  <2>1. UNCHANGED <<AP!clients, AP!network>>
    BY <1>3 DEF Q!StartPacking, Q!clients, Q!network, FarSideStill, AP!clients, AP!network
  <2> QED
    BY <1>1, <1>3, <2>1 DEF Q!StartPacking, AP!StartPacking, Q!Running, AP!Running,
       Q!DNSMESSAGEHEADER, AP!DNSMESSAGEHEADER
<1>4. CASE Q!SendFollowUp
  <2>1. UNCHANGED <<AP!clients, Unanswered>>
    BY <1>4 DEF Q!SendFollowUp, Q!clients, FarSideStill, AP!clients
  <2> QED
    BY <1>1, <1>4, <2>1 DEF Q!SendFollowUp, AP!SendFollowUp, Q!Running, AP!Running
<1> QED
  BY <1>2, <1>3, <1>4

\* pack_section on one record,
LEMMA PackingIsRequesters ==
  ASSUME Q!PackOne, FarSideStill
  PROVE  AP!PackOne
<1>1. UNCHANGED <<Q!clients, Q!network, packet, todo, pc, status>>
  BY Zenon DEF Q!PackOne
<1>2. UNCHANGED <<AP!clients, AP!network, packet, todo, pc, status>>
  BY <1>1 DEF Q!clients, Q!network, FarSideStill, AP!clients, AP!network
<1>3. /\ \A m : Q!Free(m) = AP!Free(m)
      /\ \A S : Q!Cardinality(S) = AP!Cardinality(S)
      /\ \A S : Q!First(S) = AP!First(S)
      /\ \A S, s : Q!AfterSection(S, s) = AP!AfterSection(S, s)
      /\ \A n : Q!LastBlockSize(n) = AP!LastBlockSize(n)
      /\ \A m, s, v : Q!Mark(m, s, v) = AP!Mark(m, s, v)
      /\ Q!entry = AP!entry
      /\ \A p : Q!NamedLike(p) = AP!NamedLike(p)
  <2>1. \A m : Q!Free(m) = AP!Free(m)
    BY DEF Q!Free, AP!Free, Q!BLOCKFREE, AP!BLOCKFREE
  <2>2. \A S : Q!Cardinality(S) = AP!Cardinality(S)
    BY SameCardinality
  <2>3. \A S, s : Q!AfterSection(S, s) = AP!AfterSection(S, s)
    BY DEF Q!AfterSection, AP!AfterSection
  <2>4. \A n : Q!LastBlockSize(n) = AP!LastBlockSize(n)
    BY DEF Q!LastBlockSize, AP!LastBlockSize, Q!BLOCKSIZE, AP!BLOCKSIZE
  <2>5. \A m, s, v : Q!Mark(m, s, v) = AP!Mark(m, s, v)
    BY DEF Q!Mark, AP!Mark
  <2>6. \A p : Q!NamedLike(p) = AP!NamedLike(p)
    BY Zenon DEF Q!NamedLike, AP!NamedLike, Q!entry, AP!entry
  <2> QED
    BY <2>1, <2>2, <2>3, <2>4, <2>5, <2>6, SameState
<1>4. ASSUME NEW m, NEW canfit, NEW size
      PROVE  /\ Q!AskedBlocks(m, canfit) = AP!AskedBlocks(m, canfit)
             /\ Q!AskedFragment(m, size, canfit) = AP!AskedFragment(m, size, canfit)
             /\ Q!AskedSpan(m, canfit) = AP!AskedSpan(m, canfit)
  <2>1. Q!AskedBlocks(m, canfit) = AP!AskedBlocks(m, canfit)
    BY <1>3 DEF Q!AskedBlocks, AP!AskedBlocks, Q!BLOCKSIZE, AP!BLOCKSIZE
  <2>2. Q!FirstFree(m) = AP!FirstFree(m)
    BY <1>3 DEF Q!FirstFree, AP!FirstFree
  <2>3. Q!AskedFragment(m, size, canfit) = AP!AskedFragment(m, size, canfit)
    BY <1>3, <2>1, <2>2 DEF Q!AskedFragment, AP!AskedFragment, Q!BLOCKSIZE, AP!BLOCKSIZE
  <2> QED
    BY <2>1, <2>2, <2>3 DEF Q!AskedSpan, AP!AskedSpan
<1> DEFINE next == AP!First(missing)
           p == AP!NamedLike(next)
           slot == AP!entry.slots[p[1]][p[2]]
           markers == slot.block_markers
           canfit == MAXUDP - cursize
           n == AP!AskedBlocks(markers, canfit)
           free == AP!Free(markers)
           f == AP!AskedFragment(markers, slot.rrsize, canfit)
           left == AP!AfterSection(missing, p[1])
           marked == AP!Mark(markers, AP!AskedSpan(markers, canfit), AP!BLOCKWAITING)
           new == [AP!entry EXCEPT !.slots[p[1]][p[2]].block_markers = marked]
           ask == [rrid |-> slot.rrid, curidx |-> f.curidx, fragsize |-> f.fragsize]
           grown(last) == IF n = AP!Cardinality(free) THEN (n - 1) * AP!BLOCKSIZE + last
                          ELSE n * AP!BLOCKSIZE
           last == AP!LastBlockSize(slot.rrsize)
<1>5. /\ Q!First(missing) = next /\ Q!NamedLike(next) = p /\ Q!entry = AP!entry
      /\ Q!Free(markers) = free /\ Q!AskedBlocks(markers, canfit) = n
      /\ Q!AskedFragment(markers, slot.rrsize, canfit) = f
      /\ Q!AfterSection(missing, p[1]) = left
      /\ Q!Mark(markers, Q!AskedSpan(markers, canfit), Q!BLOCKWAITING) = marked
      /\ Q!Cardinality(free) = AP!Cardinality(free)
      /\ Q!LastBlockSize(slot.rrsize) = last
      /\ Q!BLOCKSIZE = AP!BLOCKSIZE
      /\ Q!RRHEADER = AP!RRHEADER /\ Q!RRFRAGHEADER = AP!RRFRAGHEADER
  <2>1. Q!BLOCKWAITING = AP!BLOCKWAITING /\ Q!BLOCKSIZE = AP!BLOCKSIZE
        /\ Q!RRHEADER = AP!RRHEADER /\ Q!RRFRAGHEADER = AP!RRFRAGHEADER
    BY DEF Q!BLOCKWAITING, AP!BLOCKWAITING, Q!BLOCKSIZE, AP!BLOCKSIZE,
       Q!RRHEADER, AP!RRHEADER, Q!RRFRAGHEADER, AP!RRFRAGHEADER
  <2>2. Q!AskedSpan(markers, canfit) = AP!AskedSpan(markers, canfit)
    BY <1>4
  <2> QED
    BY Zenon, <1>3, <1>4, <2>1, <2>2
<1>6. /\ Q!Running /\ pc = "pack" /\ missing # {}
      /\ \/ /\ cursize < MAXUDP /\ free = {}
            /\ missing' = missing \ {next}
            /\ UNCHANGED <<requester_state, cursize, asked>>
         \/ /\ cursize >= MAXUDP \/ (free # {} /\ n = 0)
            /\ missing' = left
            /\ UNCHANGED <<requester_state, cursize, asked>>
         \/ /\ cursize < MAXUDP /\ free # {} /\ n > 0
            /\ Q!SetEntry(new)
            /\ asked' = Append(asked, ask)
            /\ cursize' = cursize + (grown(last) - AP!RRHEADER + AP!RRFRAGHEADER)
            /\ missing' = IF n = AP!Cardinality(free) THEN missing \ {next} ELSE left
  BY Zenon, <1>5 DEF Q!PackOne, Q!GrownBy
<1>7. Q!SetEntry(new) => AP!SetEntry(new)
  BY Zenon, SameState
<1> QED
  BY Zenon, <1>2, <1>6, <1>7 DEF AP!PackOne, AP!GrownBy, Q!Running, AP!Running

\* a query that goes out,
LEMMA RegisteringIsRequesters ==
  ASSUME NEW q \in outgoing, Q!Register(q), UNCHANGED <<WireAnswer, WireFirst, InHand>>
  PROVE  AP!Register(q)
<1>1. UNCHANGED <<client, got>> /\ queries' = queries \cup {q}
  BY DEF Q!Register, Q!clients
<1>2. Unanswered' = Unanswered \cup {q}
  BY <1>1 DEF Unanswered, Q!Query
<1>3. UNCHANGED AP!clients
  BY <1>1 DEF AP!clients
<1>4. UNCHANGED AP!handler
  BY DEF Q!Register, Q!handler, AP!handler
<1> QED
  BY <1>2, <1>3, <1>4, SameOperators DEF Q!Register, AP!Register, Q!Running, AP!Running

\* a response that comes in,
LEMMA ReceivingIsRequesters ==
  ASSUME NEW m \in responses, Q!Accept(m) \/ Q!Drop(m) \/ Q!Receive(m), FarSideStill
  PROVE  AP!Accept(m) \/ AP!Drop(m) \/ AP!Receive(m)
<1>1. /\ Q!ContainsRRFrag(m.items) <=> AP!ContainsRRFrag(m.items)
      /\ Q!Taken(responses, responses', m) <=> AP!Taken(responses, responses', m)
      /\ Q!Awaited(m) <=> AP!Awaited(m)
      /\ Q!Restrict(requester_state, DOMAIN requester_state \ {ID[m.t]})
           = AP!Restrict(requester_state, DOMAIN requester_state \ {ID[m.t]})
      /\ Q!Overruns(requester_state[ID[m.t]], m.items)
           <=> AP!Overruns(requester_state[ID[m.t]], m.items)
      /\ Q!Opened(requester_state[ID[m.t]], m.items) = AP!Opened(requester_state[ID[m.t]], m.items)
      /\ Q!Items(m.items) = AP!Items(m.items)
  BY Zenon, SameOperators
<1>2. UNCHANGED Q!handler => UNCHANGED AP!handler
  BY DEF Q!handler, AP!handler
<1>3. UNCHANGED Q!clients => UNCHANGED AP!clients
  BY DEF Q!clients, AP!clients, FarSideStill
<1>4. CASE Q!Accept(m)
  <2>1. UNCHANGED <<WireAnswer, WireFirst, outgoing, Unanswered, AP!handler, status>>
    BY <1>2, <1>4 DEF Q!Accept, FarSideStill
  <2> QED
    BY Zenon, <1>1, <1>4, <2>1 DEF Q!Accept, AP!Accept, Q!Running, AP!Running
<1>5. CASE Q!Drop(m)
  <2>1. UNCHANGED <<AP!clients, outgoing, Unanswered, requester_state, AP!handler, status>>
    BY <1>2, <1>3, <1>5 DEF Q!Drop, FarSideStill
  <2> QED
    BY Zenon, <1>1, <1>5, <2>1 DEF Q!Drop, AP!Drop, Q!Running, AP!Running
<1>6. CASE Q!Receive(m)
  <2>1. UNCHANGED <<AP!clients, outgoing, Unanswered, missing, cursize, asked>>
    BY <1>3, <1>6 DEF Q!Receive, FarSideStill
  <2> QED
    BY Zenon, <1>1, <1>6, <2>1 DEF Q!Receive, AP!Receive, Q!Running, AP!Running
<1> QED
  BY <1>4, <1>5, <1>6

\* and a client that asks.
LEMMA AskingIsRequesters ==
  ASSUME NEW t \in Transactions, Q!Ask(t), FarSideStill
  PROVE  AP!Ask(t)
<1>1. Q!Query(t, <<>>, FALSE) = AP!Query(t, <<>>, FALSE)
  BY SameOperators
<1>2. UNCHANGED <<WireAnswer, WireFirst, got, Unanswered, responses, requester_state,
                  AP!handler, status>>
  BY DEF Q!Ask, Q!handler, AP!handler, FarSideStill
<1> QED
  BY <1>1, <1>2 DEF Q!Ask, AP!Ask

\* So a step of the requester here is one of Requester, whose far side it does
\* not see.
LEMMA RequesterIsRequesters ==
  ASSUME Requester
  PROVE  AP!Next
<1>1. UNCHANGED <<wanted, internal, query, sent>>
  BY DEF Requester, responder
<1>2. UNCHANGED <<WireAnswer, WireFirst, InHand>>
  BY <1>1 DEF WireAnswer, WireFirst, AsSent, InHand
<1>3. UNCHANGED queries => FarSideStill
  BY <1>2 DEF FarSideStill, Unanswered
<1>4. ASSUME NEW t \in Transactions, Q!Ask(t) PROVE AP!Next
  <2>1. UNCHANGED queries
    BY <1>4 DEF Q!Ask
  <2> QED
    BY <1>3, <1>4, <2>1, AskingIsRequesters DEF AP!Next
<1>5. ASSUME NEW q \in outgoing, Q!Register(q) PROVE AP!Next
  BY <1>2, <1>5, RegisteringIsRequesters DEF AP!Next, AP!Daemon
<1>6. ASSUME NEW m \in responses, Q!Accept(m) \/ Q!Drop(m) \/ Q!Receive(m) PROVE AP!Next
  <2>1. UNCHANGED queries
    BY <1>6 DEF Q!Accept, Q!Drop, Q!Receive
  <2> QED
    BY <1>3, <1>6, <2>1, ReceivingIsRequesters DEF AP!Next, AP!Daemon
<1>7. CASE Q!CopyRRFrag \/ Q!CopyRR \/ Q!PackOne
  <2>1. UNCHANGED Q!network
    BY Zenon, <1>7 DEF Q!CopyRRFrag, Q!CopyRR, Q!PackOne
  <2>2. UNCHANGED queries
    BY <2>1 DEF Q!network
  <2> QED
    BY <1>3, <1>7, <2>2, CopyingIsRequesters, CopyingRecordsIsRequesters, PackingIsRequesters
       DEF AP!Next, AP!Daemon
<1>8. CASE Q!Complete \/ Q!StartPacking \/ Q!SendFollowUp
  <2>1. UNCHANGED queries
    BY <1>8 DEF Q!Complete, Q!StartPacking, Q!SendFollowUp, Q!network
  <2> QED
    BY <1>3, <1>8, <2>1, EndingIsRequesters DEF AP!Next, AP!Daemon
<1> QED
  BY <1>4, <1>5, <1>6, <1>7, <1>8 DEF Requester, Q!Daemon
-----------------------------------------------------------------------------
(***************************************************************************)
(* The responder: what is shown of Responder holds of it until it sends a  *)
(* response.  What it has sent is looked at here, across restarts.         *)
(***************************************************************************)
RP == INSTANCE ResponderProofs WITH
        Queries <- Transactions, POLLS <- {TRUE}, asked <- put, served <- {},
        sent <- <<>>, pc <- rpc, status <- rstatus

\* Responder's assumption is among those here.
LEMMA ResponderSide == RP!ResponderAssumption
<1>1. R!Record = RP!Record
  BY DEF R!Record, RP!Record, R!MAXRDSIZE, RP!MAXRDSIZE
<1>2. R!DNSMESSAGEHEADER = RP!DNSMESSAGEHEADER
  BY DEF R!DNSMESSAGEHEADER, RP!DNSMESSAGEHEADER
<1> QED
  BY <1>1, <1>2, PartsAssumption DEF R!ResponderAssumption, RP!ResponderAssumption

\* The operators of Responder are the same for both instances of it,
LEMMA SameResponder ==
  /\ R!Record = RP!Record /\ R!Copy = RP!Copy /\ R!Freed = RP!Freed
  /\ \A rr : R!RRSize(rr) = RP!RRSize(rr) /\ R!Whole(rr) = RP!Whole(rr)
  /\ \A rr, rrid, size, adv : R!Part(rr, rrid, size, adv) = RP!Part(rr, rrid, size, adv)
  /\ \A rr, at : R!Entry(rr, at) = RP!Entry(rr, at)
  /\ \A item : R!ItemSize(item) = RP!ItemSize(item)
  /\ \A items : R!MessageSize(items) = RP!MessageSize(items)
  /\ R!Limit = RP!Limit
  /\ R!DNSMESSAGEHEADER = RP!DNSMESSAGEHEADER
<1>1. /\ R!Record = RP!Record /\ R!Copy = RP!Copy /\ R!Freed = RP!Freed
      /\ \A rr : R!RRSize(rr) = RP!RRSize(rr) /\ R!Whole(rr) = RP!Whole(rr)
      /\ \A rr, rrid, size, adv : R!Part(rr, rrid, size, adv) = RP!Part(rr, rrid, size, adv)
      /\ \A rr, at : R!Entry(rr, at) = RP!Entry(rr, at)
      /\ R!Limit = RP!Limit /\ R!DNSMESSAGEHEADER = RP!DNSMESSAGEHEADER
      /\ R!RRFRAGHEADER = RP!RRFRAGHEADER
  <2>1. R!Record = RP!Record /\ R!Copy = RP!Copy /\ R!Freed = RP!Freed
    BY DEF R!Record, RP!Record, R!MAXRDSIZE, RP!MAXRDSIZE, R!Copy, RP!Copy, R!Freed, RP!Freed
  <2>2. \A rr : R!RRSize(rr) = RP!RRSize(rr) /\ R!Whole(rr) = RP!Whole(rr)
    BY DEF R!RRSize, RP!RRSize, R!RRHEADER, RP!RRHEADER, R!Whole, RP!Whole
  <2>3. \A rr, rrid, size, adv : R!Part(rr, rrid, size, adv) = RP!Part(rr, rrid, size, adv)
    BY DEF R!Part, RP!Part
  <2>4. \A rr, at : R!Entry(rr, at) = RP!Entry(rr, at)
    BY DEF R!Entry, RP!Entry
  <2>5. R!Limit = RP!Limit /\ R!DNSMESSAGEHEADER = RP!DNSMESSAGEHEADER
        /\ R!RRFRAGHEADER = RP!RRFRAGHEADER
    BY DEF R!Limit, RP!Limit, R!DNSMESSAGEHEADER, RP!DNSMESSAGEHEADER,
       R!RRFRAGHEADER, RP!RRFRAGHEADER
  <2> QED
    BY <2>1, <2>2, <2>3, <2>4, <2>5
<1>2. \A item : R!ItemSize(item) = RP!ItemSize(item)
  BY <1>1 DEF R!ItemSize, RP!ItemSize
<1>3. \A sizes : R!Total(sizes) = RP!Total(sizes)
  BY Zenon DEF R!Total, RP!Total, R!Offsets, RP!Offsets
<1>4. \A items : R!MessageSize(items) = RP!MessageSize(items)
  BY <1>1, <1>2, <1>3 DEF R!MessageSize, RP!MessageSize
<1> QED
  BY <1>1, <1>2, <1>4

\* insert_into_state is,
LEMMA InsertingIsResponders ==
  ASSUME R!Insert
  PROVE  RP!Insert
<1>1. UNCHANGED <<RP!environment, connection_info, internal, query, message, rpc>>
  <2>1. UNCHANGED <<R!environment, connection_info, internal, query, message, rpc>>
    BY Zenon DEF R!Insert
  <2> QED
    BY <2>1 DEF R!environment, RP!environment
<1>2. \A h, k : R!After(h, k) = RP!After(h, k)
  BY DEF R!After, RP!After
<1>3. \A h : R!Probe(h) = RP!Probe(h)
  BY Zenon, <1>2 DEF R!Probe, RP!Probe, R!Taken, RP!Taken
<1>4. \A rrid, entry : R!Enter(rrid, entry) <=> RP!Enter(rrid, entry)
  BY Zenon DEF R!Enter, RP!Enter
<1>5. \A rr, other : R!is_resource_record_equal(rr, other) <=> RP!is_resource_record_equal(rr, other)
  BY Zenon DEF R!is_resource_record_equal, RP!is_resource_record_equal
<1>6. /\ R!Copy = RP!Copy /\ R!Freed = RP!Freed
      /\ \A rr : R!RRSize(rr) = RP!RRSize(rr)
      /\ \A rr, at : R!Entry(rr, at) = RP!Entry(rr, at)
  BY SameResponder
<1> QED
  BY Zenon, <1>1, <1>3, <1>4, <1>5, <1>6 DEF R!Insert, RP!Insert, R!Running, RP!Running

\* insert_into_state_and_construct_map is,
LEMMA ShrinkingIsResponders ==
  ASSUME R!Shrink
  PROVE  RP!Shrink
<1>1. UNCHANGED <<RP!environment, connection_info, internal, query>>
  <2>1. UNCHANGED <<R!environment, connection_info, internal, query>>
    BY Zenon DEF R!Shrink
  <2> QED
    BY <2>1 DEF R!environment, RP!environment
<1>2. \A i : R!CachedRecord(i) = RP!CachedRecord(i)
  BY Zenon DEF R!CachedRecord, RP!CachedRecord
<1>3. R!Candidates = RP!Candidates
  BY Zenon, <1>2 DEF R!Candidates, RP!Candidates
<1>4. R!Largest = RP!Largest
  BY Zenon, <1>2, <1>3 DEF R!Largest, RP!Largest
<1>5. /\ R!Limit = RP!Limit
      /\ \A rr : R!RRSize(rr) = RP!RRSize(rr)
      /\ \A rr, rrid, size, adv : R!Part(rr, rrid, size, adv) = RP!Part(rr, rrid, size, adv)
      /\ \A item : R!ItemSize(item) = RP!ItemSize(item)
  BY SameResponder
<1>6. \A rr : R!Room(rr) = RP!Room(rr)
  BY Zenon, <1>5 DEF R!Room, RP!Room, R!Abs, RP!Abs, R!RRHEADER, RP!RRHEADER, R!RRFRAGHEADER,
     RP!RRFRAGHEADER
<1>7. \A n : R!WholeBlocks(n) = RP!WholeBlocks(n)
  BY DEF R!WholeBlocks, RP!WholeBlocks, R!BLOCKSIZE, RP!BLOCKSIZE
<1>8. \A rr, fragment : R!SizeWith(rr, fragment) = RP!SizeWith(rr, fragment)
  BY Zenon, <1>5 DEF R!SizeWith, RP!SizeWith
<1>9. \A places : R!Release(places) <=> RP!Release(places)
  BY Zenon DEF R!Release, RP!Release, R!Entry, RP!Entry, R!Freed, RP!Freed
<1>10. \A i, fragment : R!Replace(i, fragment) <=> RP!Replace(i, fragment)
  BY Zenon, <1>2, <1>8, <1>9 DEF R!Replace, RP!Replace
<1> QED
  BY Zenon, <1>1, <1>2, <1>3, <1>4, <1>5, <1>6, <1>7, <1>10 DEF R!Shrink, RP!Shrink, R!Running,
     RP!Running

\* so that a step of the handler here is one of Responder.
LEMMA HandlingIsResponders ==
  ASSUME Handle
  PROVE  RP!Next
<1>1. UNCHANGED R!environment => UNCHANGED RP!environment
  BY DEF R!environment, RP!environment
<1>2. ASSUME NEW t \in Transactions, R!Answer(t) PROVE RP!Next
  <2>1. UNCHANGED R!handler => UNCHANGED RP!handler
    BY DEF R!handler, RP!handler
  <2>2. RP!Answer(t)
    BY <1>1, <1>2, <2>1, SameResponder DEF R!Answer, RP!Answer, R!Running, RP!Running
  <2> QED
    BY <2>2 DEF RP!Next
<1>3. CASE R!Insert
  BY <1>3, InsertingIsResponders DEF RP!Next
<1>4. CASE R!Inserted
  BY <1>1, <1>4 DEF R!Inserted, RP!Inserted, RP!Next, R!Running, RP!Running
<1>5. CASE R!Shrink
  BY <1>5, ShrinkingIsResponders DEF RP!Next
<1>6. CASE R!Fits
  <2>1. R!Limit = RP!Limit
    BY SameResponder
  <2> QED
    BY <1>1, <1>6, <2>1 DEF R!Fits, RP!Fits, RP!Next, R!Running, RP!Running
<1> QED
  BY <1>2, <1>3, <1>4, <1>5, <1>6 DEF Handle

\* A response as the responder makes it of message m: each record whole, or a
\* fragment in its place.
IsResponse(items, m) ==
  /\ DOMAIN items = DOMAIN m
  /\ \A i \in DOMAIN m :
       \/ items[i] = R!Whole(m[i])
       \/ /\ m[i].hash # 0 /\ m[i].rdsize > 0
          /\ \E size \in Nat, adv \in Int : items[i] = R!Part(m[i], m[i].hash, size, adv)

ItemOf(items, m, i) ==
  /\ i \in DOMAIN items /\ items[i].rr = m[i]
  /\ (i \in Parted(items)) <=> items[i].isRRFrag
  /\ i \notin Parted(items) => items[i] = R!Whole(m[i])
  /\ i \in Parted(items) =>
       /\ items[i].isRRFrag = TRUE
       /\ items[i].rrid = m[i].hash /\ m[i].hash # 0 /\ m[i].rdsize > 0
       /\ items[i].fragsize \in Nat /\ items[i].rrsize \in Int

\* Each item of a response is the record in its place, or a fragment of it.
LEMMA ResponseFields ==
  ASSUME NEW m, NEW items, IsResponse(items, m)
  PROVE  \A i \in DOMAIN m : ItemOf(items, m, i)
BY DEF IsResponse, ItemOf, Parted, R!Whole, R!Part

\* With the fragments that Responder makes, and that advertise a record, it is
\* a first response as Requester expects it.
LEMMA ResponseIsFirst ==
  ASSUME NEW m \in Messages, NEW items, IsResponse(items, m), RP!Usable(items), Regular(items)
  PROVE  /\ Wire(m, Parted(items)) \in WireAnswers
         /\ WireItems(m, items) \in AP!FirstResponses(Wire(m, Parted(items)))
<1> DEFINE P == Parted(items)
           A == Wire(m, P)
<1>0. \A i \in DOMAIN m : ItemOf(items, m, i)
  BY ResponseFields
<1>1. MayPart(m, P)
  <2>1. P \subseteq DOMAIN m
    BY DEF Parted, IsResponse
  <2>3. \A i \in P : m[i].hash # 0 /\ items[i].rrid = m[i].hash
    BY <1>0, <2>1 DEF ItemOf
  <2>4. \A i, j \in P : items[i].rrid = items[j].rrid => i = j
    BY DEF Regular
  <2> QED
    BY <2>3, <2>4 DEF MayPart
<1>2. A \in WireAnswers
  <2>1. P \in {X \in SUBSET DOMAIN m : MayPart(m, X)}
    BY <1>1 DEF Parted, IsResponse
  <2> QED
    BY <2>1 DEF WireAnswers
<1> DEFINE frag(p) == items[Index(m, p)].isRRFrag
           c == [p \in AP!Places(A) |->
                   IF frag(p) THEN items[Index(m, p)].fragsize \div 32 ELSE AP!WHOLE]
           item(rr, k) == IF k = AP!WHOLE THEN AP!Whole(rr) ELSE AP!Part(rr, 0, k * AP!BLOCKSIZE)
           choices == {d \in [AP!Places(A) -> Nat \cup {AP!WHOLE}] :
                    /\ \A p \in AP!Places(A) :
                         /\ d[p] * AP!BLOCKSIZE < A[p[1]][p[2]].len
                         /\ A[p[1]][p[2]].rrid = 0 => d[p] = AP!WHOLE
                    /\ AP!Cardinality({p \in AP!Places(A) : d[p] > 0}) <= 1}
<1>3. ASSUME NEW p \in AP!Places(A)
      PROVE  LET k == Index(m, p)
             IN  /\ p \in SectionPlaces(m) /\ k \in DOMAIN m /\ m[k] \in R!Record
                 /\ A[p[1]][p[2]].len = R!RRSize(m[k]) /\ R!RRSize(m[k]) \in Nat \ {0}
                 /\ A[p[1]][p[2]].rrid = IF frag(p) THEN m[k].hash ELSE 0
  <2> DEFINE k == Index(m, p)
  <2>1. /\ p \in SectionPlaces(m) /\ k \in DOMAIN m /\ m[k] \in R!Record
        /\ AP!At(A, p) = OfRecord(m[k], k \in P)
    BY WirePlaces
  <2>2. k \in P <=> frag(p)
    BY <1>0, <2>1 DEF ItemOf
  <2> HIDE DEF k, A, P
  <2>3. /\ OfRecord(m[k], k \in P).len = R!RRSize(m[k]) /\ R!RRSize(m[k]) \in Nat \ {0}
        /\ OfRecord(m[k], k \in P).rrid = IF k \in P THEN m[k].hash ELSE 0
    BY <2>1, OfRecordFields
  <2> QED
    BY <2>1, <2>2, <2>3 DEF AP!At, k
<1>4. ASSUME NEW p \in AP!Places(A), frag(p)
      PROVE  LET f == items[Index(m, p)]
             IN  /\ f.fragsize \in Nat /\ f.fragsize = 32 * (f.fragsize \div 32)
                 /\ f.fragsize < R!RRSize(m[Index(m, p)])
                 /\ f.rrsize = R!RRSize(m[Index(m, p)]) /\ m[Index(m, p)].hash # 0
  <2> DEFINE k == Index(m, p)
             f == items[k]
  <2>1. k \in DOMAIN m
    BY <1>3
  <2>2. k \in Parted(items) /\ k \in DOMAIN items
    BY <1>0, <1>4, <2>1 DEF ItemOf
  <2>3. f.rr = m[k] /\ m[k].hash # 0 /\ f.fragsize \in Nat
    BY <1>0, <2>1, <2>2 DEF ItemOf
  <2>4. f.rrsize > 0
    BY <2>2 DEF Regular
  <2>5. RP!UsableFragment(f)
    BY <1>4, <2>2 DEF RP!Usable
  <2>6. /\ f.fragsize % 32 = 0 /\ f.fragsize < R!RRSize(m[k])
        /\ f.rrsize = R!RRSize(m[k]) \/ f.rrsize = 0
    <3>1. RP!RRSize(f.rr) = R!RRSize(f.rr)
      BY SameResponder
    <3> QED
      BY <2>3, <2>5, <3>1 DEF RP!UsableFragment, RP!BLOCKSIZE
  <2> HIDE DEF f, k
  <2>7. f.fragsize = 32 * (f.fragsize \div 32)
    BY <2>3, <2>6
  <2> QED
    BY <2>3, <2>4, <2>6, <2>7 DEF f, k
<1>5. AP!BLOCKSIZE = 32 /\ AP!WHOLE = -1
  BY DEF AP!BLOCKSIZE, AP!WHOLE
<1>6. ASSUME NEW p \in AP!Places(A)
      PROVE  /\ c[p] \in Nat \cup {AP!WHOLE}
             /\ c[p] * AP!BLOCKSIZE < A[p[1]][p[2]].len
             /\ A[p[1]][p[2]].rrid = 0 => c[p] = AP!WHOLE
             /\ c[p] > 0 => frag(p) /\ items[Index(m, p)].fragsize > 0
  <2> DEFINE f == items[Index(m, p)]
             n == f.fragsize
             l == A[p[1]][p[2]].len
  <2>1. l \in Nat \ {0} /\ (frag(p) => A[p[1]][p[2]].rrid # 0)
    BY <1>3, <1>4
  <2>2. CASE ~frag(p)
    <3>1. c[p] = -1
      BY <1>5, <2>2
    <3> HIDE DEF c, A, l
    <3>2. (-1) * 32 < l
      BY <2>1
    <3> QED
      BY <1>5, <2>2, <3>1, <3>2 DEF l
  <2>3. CASE frag(p)
    <3>1. c[p] = n \div 32
      BY <2>3
    <3>2. n \in Nat /\ n = 32 * (n \div 32) /\ n < l
      BY <1>3, <1>4, <2>3
    <3> HIDE DEF c, A, l, n
    <3>3. n \div 32 \in Nat /\ (n \div 32) * 32 < l
          /\ (n \div 32 > 0 => n > 0)
      BY <3>2
    <3> QED
      BY <1>5, <2>1, <2>3, <3>1, <3>3 DEF l, n
  <2> QED
    BY <2>2, <2>3
<1>7. AP!Cardinality({p \in AP!Places(A) : c[p] > 0}) <= 1
  <2> DEFINE S == {p \in AP!Places(A) : c[p] > 0}
  <2>1. ASSUME NEW p \in S, NEW q \in S PROVE p = q
    <3>1. /\ frag(p) /\ items[Index(m, p)].fragsize > 0 /\ frag(q)
          /\ items[Index(m, q)].fragsize > 0
      BY <1>6
    <3>2. /\ p \in SectionPlaces(m) /\ q \in SectionPlaces(m)
          /\ Index(m, p) \in DOMAIN items /\ Index(m, q) \in DOMAIN items
      BY <1>3 DEF IsResponse
    <3>3. Index(m, p) = Index(m, q)
      BY <3>1, <3>2 DEF RP!Usable, RP!HasData
    <3> QED
      BY <3>2, <3>3, IndexFields
  <2> HIDE DEF S
  <2>2. Cardinality(S) <= 1
    <3>1. CASE S = {}
      BY <3>1, FS_EmptySet
    <3>2. CASE S # {}
      <4>1. PICK p : p \in S
        BY <3>2
      <4>2. S = {p}
        BY <2>1, <4>1
      <4>3. Cardinality({p}) = 1
        BY FS_Singleton
      <4> QED
        BY <4>2, <4>3
    <3> QED
      BY <3>1, <3>2
  <2> QED
    BY <2>2, SameCardinality DEF S
<1>8. c \in choices
  <2> HIDE DEF A, P
  <2>1. c \in [AP!Places(A) -> Nat \cup {AP!WHOLE}]
    <3>1. c = [p \in AP!Places(A) |-> c[p]]
      OBVIOUS
    <3> HIDE DEF c
    <3> QED
      BY <1>6, <3>1
  <2> HIDE DEF c
  <2> QED
    BY <1>6, <1>7, <2>1
<1> DEFINE r == WireItems(m, items)
           d == [s \in 0 .. 2 |-> [i \in DOMAIN A[s] |-> item(A[s][i], c[<<s, i>>])]]
<1>9. ASSUME NEW s \in 0 .. 2 PROVE r[s] = d[s]
  <2> DEFINE records == [i \in DOMAIN items |-> Item(items[i])]
             n == SECTIONS[m][s + 1]
             V == {records[i] : i \in DOMAIN m}
  <2>1. /\ r[s] \in Seq(V) /\ Len(r[s]) = n /\ DOMAIN r[s] = 1 .. n
        /\ \A i \in 1 .. n : Base(m, s) + i \in DOMAIN m /\ r[s][i] = records[Base(m, s) + i]
    <3>1. r[s] = BySection(m, records)[s]
      BY DEF WireItems
    <3> HIDE DEF records, r
    <3>2. LET list == BySection(m, records)[s] IN
          /\ list \in Seq({records[i] : i \in DOMAIN m})
          /\ Len(list) = SECTIONS[m][s + 1] /\ DOMAIN list = 1 .. SECTIONS[m][s + 1]
          /\ \A i \in 1 .. SECTIONS[m][s + 1] :
               Base(m, s) + i \in DOMAIN m /\ list[i] = records[Base(m, s) + i]
      BY ONLY SectionFields, m \in Messages, s \in 0 .. 2
    <3> QED
      BY <3>1, <3>2
  <2>2. DOMAIN A[s] = 1 .. n
    <3>1. DOMAIN Wire(m, P)[s] = 1 .. SECTIONS[m][s + 1]
      <4> HIDE DEF P
      <4> QED
        BY ONLY WireDomain, m \in Messages, s \in 0 .. 2
    <3> QED
      BY <3>1
  <2>3. ASSUME NEW i \in 1 .. n PROVE r[s][i] = item(A[s][i], c[<<s, i>>])
    <3> DEFINE k == Base(m, s) + i
               p == <<s, i>>
    <3>1. p \in AP!Places(A)
      <4> HIDE DEF A
      <4>1. i \in DOMAIN A[s]
        BY <2>2
      <4>2. p \in {s} \X DOMAIN A[s]
        BY <4>1
      <4> QED
        BY <4>2 DEF AP!Places, AP!Sections
    <3>2. k \in DOMAIN m /\ Index(m, p) = k /\ p[1] = s /\ p[2] = i
      BY <2>1 DEF Index
    <3>3. r[s][i] = Item(items[k])
      BY <2>1, <3>2 DEF IsResponse
    <3>4. A[s][i] = OfRecord(m[k], k \in P)
      BY WireFields
    <3>5. CASE frag(p)
      <4>1. k \in P /\ items[k].isRRFrag = TRUE /\ items[k].rrid = m[k].hash /\ items[k].rr = m[k]
        BY <1>0, <3>2, <3>5 DEF ItemOf
      <4>2. A[s][i] = OnTheWire(m[k].hash, m[k])
        BY <3>4, <4>1 DEF OfRecord
      <4>3. /\ items[k].fragsize \in Nat
            /\ items[k].fragsize = 32 * (items[k].fragsize \div 32)
            /\ items[k].rrsize = R!RRSize(m[k])
        BY <1>4, <3>1, <3>2, <3>5
      <4>4. c[p] = items[k].fragsize \div 32
        BY <3>1, <3>2, <3>5
      <4>5. r[s][i] = [isRRFrag |-> TRUE, rr |-> OnTheWire(m[k].hash, m[k]), curidx |-> 0,
                       fragsize |-> items[k].fragsize, rrsize |-> R!RRSize(m[k])]
        BY <3>3, <4>1, <4>3 DEF Item
      <4> HIDE DEF c, A, r, k
      <4>6. c[p] # AP!WHOLE /\ c[p] * AP!BLOCKSIZE = items[k].fragsize
        BY <1>5, <4>3, <4>4
      <4>7. item(A[s][i], c[p]) = AP!Part(OnTheWire(m[k].hash, m[k]), 0, items[k].fragsize)
        BY <4>2, <4>6
      <4> QED
        BY <4>5, <4>7 DEF AP!Part, OnTheWire
    <3>6. CASE ~frag(p)
      <4>1. k \notin P /\ items[k] = R!Whole(m[k])
        BY <1>0, <3>2, <3>6 DEF ItemOf
      <4>2. A[s][i] = OnTheWire(0, m[k])
        BY <3>4, <4>1 DEF OfRecord
      <4>3. c[p] = AP!WHOLE
        BY <3>1, <3>2, <3>6
      <4>4. r[s][i] = AP!Whole(OnTheWire(0, m[k]))
        BY <3>3, <4>1 DEF Item, R!Whole, Q!Whole, AP!Whole
      <4> QED
        BY <4>2, <4>3, <4>4
    <3> QED
      BY <3>5, <3>6
  <2> DEFINE new(i) == item(A[s][i], c[<<s, i>>])
  <2>4. d[s] = [i \in 1 .. n |-> new(i)]
    BY <2>2
  <2>5. \A i \in 1 .. n : r[s][i] = new(i)
    BY <2>3
  <2>6. r[s] = [i \in 1 .. n |-> r[s][i]]
    <3> HIDE DEF r, n, V
    <3> QED
      BY <2>1
  <2> HIDE DEF r, d, n, new
  <2> QED
    BY <2>4, <2>5, <2>6
<1>10. r = d
  <2>1. r = [s \in 0 .. 2 |-> r[s]]
    BY DEF WireItems, BySection
  <2>2. d = [s \in 0 .. 2 |-> d[s]]
    OBVIOUS
  <2> HIDE DEF r, d
  <2> QED
    BY <1>9, <2>1, <2>2
<1>11. r \in {[s \in AP!Sections |-> [i \in DOMAIN A[s] |-> item(A[s][i], e[<<s, i>>])]] :
                e \in choices}
  <2>1. d = [s \in AP!Sections |-> [i \in DOMAIN A[s] |-> item(A[s][i], c[<<s, i>>])]]
    BY DEF AP!Sections
  <2> HIDE DEF choices, c, r, A
  <2> QED
    BY <1>8, <1>10, <2>1
<1> QED
  BY Zenon, <1>2, <1>11 DEF AP!FirstResponses

\* So is one without fragments, as if none was sent yet.
LEMMA WholeIsResponse ==
  ASSUME NEW m \in Messages
  PROVE  /\ IsResponse(WholeItems(m), m) /\ RP!Usable(WholeItems(m))
         /\ Regular(WholeItems(m)) /\ Parted(WholeItems(m)) = {}
<1> DEFINE items == WholeItems(m)
<1>1. DOMAIN items = DOMAIN m /\ \A i \in DOMAIN m : items[i] = R!Whole(m[i])
  BY DEF WholeItems
<1>2. \A i \in DOMAIN items : ~items[i].isRRFrag
  BY <1>1 DEF R!Whole
<1> HIDE DEF items
<1>3. IsResponse(items, m)
  BY <1>1 DEF IsResponse
<1>4. Parted(items) = {}
  BY <1>2 DEF Parted
<1>5. RP!Usable(items)
  BY <1>2 DEF RP!Usable, RP!HasData
<1>6. Regular(items)
  BY <1>4 DEF Regular
<1> QED
  BY <1>3, <1>4, <1>5, <1>6 DEF items
-----------------------------------------------------------------------------
(***************************************************************************)
(* What is shown of Responder goes for the responder here.                 *)
(***************************************************************************)
RInv == RP!Inv /\ RP!UsableInv /\ RP!SizesInv

\* Nothing has been cached yet.
LEMMA InitRInv == Init => RInv
<1> SUFFICES ASSUME Init PROVE RInv
  OBVIOUS
<1>1. /\ wanted \in [Transactions -> Messages] /\ responder_cache = <<>>
      /\ message = <<>> /\ rrids = <<>> /\ cur_size = 0 /\ rpc = "idle" /\ rstatus = "running"
  BY DEF Init
<1>2. message \in Seq(RP!Items) /\ rrids \in Seq(RP!Rrids)
  BY <1>1
<1>3. RP!Inv
  BY <1>1, <1>2 DEF RP!Inv, RP!Shape, RP!RridsNamed, RP!MessageNamed, RP!SentNamed, RP!ServedRight
<1>4. RP!UsableInv
  BY <1>1 DEF RP!UsableInv, RP!Usable, RP!HasData
<1>5. RP!SizesInv
  BY <1>1 DEF RP!SizesInv, RP!NeverOversize
<1> QED
  BY <1>3, <1>4, <1>5 DEF RInv

\* The response is sent, or forgotten.
LEMMA EmptiedRInv ==
  ASSUME RInv, wanted' = wanted, message' = <<>>, rrids' = <<>>, cur_size' = 0, rpc' = "idle",
         DOMAIN responder_cache' \subseteq RP!Rrids, rstatus' # "aborted",
         \A id \in DOMAIN responder_cache' : responder_cache'[id].rr \in RP!Record
  PROVE  RInv'
<1>1. message' \in Seq(RP!Items) /\ rrids' \in Seq(RP!Rrids)
  OBVIOUS
<1>2. RP!Shape'
  BY <1>1 DEF RInv, RP!Inv, RP!Shape
<1>3. RP!Inv'
  BY <1>2 DEF RP!Inv, RP!RridsNamed, RP!MessageNamed, RP!SentNamed, RP!ServedRight
<1>4. RP!UsableInv'
  BY DEF RP!UsableInv, RP!Usable, RP!HasData
<1>5. RP!SizesInv'
  BY DEF RP!SizesInv, RP!NeverOversize
<1> QED
  BY <1>3, <1>4, <1>5 DEF RInv

\* A response that is sent keeps to MAXUDP.
LEMMA SendingRuns ==
  ASSUME RInv, R!Send
  PROVE  rstatus' = "running" /\ rstatus = "running" /\ rpc = "send"
<1>1. rpc = "send" /\ rstatus = "running"
  BY DEF R!Send, R!Running
<1>2. message \in Seq(RP!Items) /\ cur_size \in Int
  BY DEF RInv, RP!Inv, RP!Shape
<1>3. RP!MessageSize(message) = RP!SizeUpTo(message, Len(message))
  BY <1>2, ResponderSide, RP!WholeMessage
<1>4. cur_size = RP!SizeUpTo(message, Len(message)) /\ cur_size <= MAXUDP
  BY <1>1 DEF RInv, RP!SizesInv
<1>5. R!MessageSize(message) = cur_size
  BY <1>3, <1>4, SameResponder
<1>6. MAXUDP \in Int
  BY ResponderSide DEF RP!ResponderAssumption
<1>7. ~(R!MessageSize(message) > MAXUDP)
  BY <1>2, <1>4, <1>5, <1>6
<1> QED
  BY <1>1, <1>7 DEF R!Send

\* Nothing enters the cache when a message is freed.
LEMMA ReleaseFields ==
  ASSUME NEW places, R!Release(places)
  PROVE  /\ DOMAIN responder_cache' = DOMAIN responder_cache
         /\ \A id \in DOMAIN responder_cache : responder_cache'[id].rr = responder_cache[id].rr
         /\ (\A id \in DOMAIN responder_cache : responder_cache[id].at \notin places)
              => \A id \in DOMAIN responder_cache : responder_cache'[id] = responder_cache[id]
BY DEF R!Release, R!Entry

\* Each step of the system is one of Responder, leaves its state alone, or
\* empties it.
LEMMA NextRInv ==
  ASSUME RInv, [Next]_vars
  PROVE  RInv'
<1>1. ASSUME UNCHANGED <<wanted, responder_cache, message, rrids, cur_size, rpc>>,
             rstatus' # "aborted" \/ rstatus' = rstatus
      PROVE  RInv'
  <2>1. RP!Inv'
    <3>1. UNCHANGED <<wanted, <<>>, {}, responder_cache, message, rrids, cur_size>>
      BY <1>1
    <3> QED
      BY <3>1, ResponderSide, RP!OthersPreserve DEF RInv
  <2>2. RP!UsableInv'
    <3>1. UNCHANGED <<message, <<>>>> /\ (rpc' = "send" \/ rpc # "send")
      BY <1>1
    <3> QED
      BY <3>1, ResponderSide, RP!OthersUsable DEF RInv
  <2>3. RP!SizesInv'
    BY <1>1, ResponderSide, RP!OthersSizes DEF RInv
  <2> QED
    BY <2>1, <2>2, <2>3 DEF RInv
<1>2. CASE UNCHANGED vars
  BY <1>1, <1>2 DEF vars, responder
<1>3. CASE Requester
  BY <1>1, <1>3 DEF Requester, responder
<1>4. ASSUME NEW q \in queries, Start(q) PROVE RInv'
  BY <1>1, <1>4 DEF Start, R!Start, R!handler
<1>5. ASSUME NEW q \in queries, Serve(q) PROVE RInv'
  BY <1>1, <1>5 DEF Serve
<1>6. CASE Handle
  <2>1. RP!Next
    BY <1>6, HandlingIsResponders
  <2> QED
    BY <2>1, ResponderSide, RP!NextPreserves, RP!NextUsable, RP!NextSizes DEF RInv
<1>7. CASE Send
  <2>1. R!Send
    BY <1>7 DEF Send
  <2>2. rstatus' = "running"
    BY <2>1, SendingRuns
  <2>3. R!Release(DOMAIN message) /\ wanted' = wanted /\ message' = <<>> /\ rrids' = <<>>
        /\ cur_size' = 0 /\ rpc' = "idle"
    BY <2>1 DEF R!Send
  <2> QED
    BY <2>2, <2>3, ReleaseFields, EmptiedRInv DEF RInv, RP!Inv, RP!Shape
<1>8. CASE Restart
  BY <1>8, EmptiedRInv DEF Restart
<1> QED
  BY <1>2, <1>3, <1>4, <1>5, <1>6, <1>7, <1>8 DEF Next, Responder
-----------------------------------------------------------------------------
(***************************************************************************)
(* With no two records of one hash, the responder's cache has a copy of    *)
(* each record it has seen under its hash, and nothing else.               *)
(***************************************************************************)
Cached ==
  \A id \in DOMAIN responder_cache :
    /\ responder_cache[id].rr \in Records /\ responder_cache[id].rr.hash = id
    /\ responder_cache[id].at = R!Copy

\* The response in hand is one to the query in hand; what has no rrid is a
\* fragment, or has a hash of 0.
InProgress ==
  rpc # "idle" =>
    /\ IsResponse(message, wanted[query])
    /\ \A i \in DOMAIN rrids :
         rrids[i] = 0 => wanted[query][i].hash = 0 \/ message[i].isRRFrag

\* A query is put to the name server once, and responded to once.
SentOnce ==
  /\ InHand \subseteq put /\ DOMAIN sent \subseteq put /\ DOMAIN sent \cap InHand = {}
  /\ put \subseteq Transactions
  /\ \A t \in DOMAIN sent : IsResponse(sent[t], wanted[t]) /\ RP!Usable(sent[t])

\* Until it restarts the responder knows every rrid it has announced.
Remembered ==
  /\ restarts \in Nat
  /\ restarts = 0 =>
       \A t \in DOMAIN sent : \A i \in Parted(sent[t]) : sent[t][i].rrid \in DOMAIN responder_cache

Exact == Cached /\ InProgress /\ SentOnce /\ Remembered

\* The query in hand.
LEMMA QueryInHand ==
  ASSUME Inv, RInv, Exact, rpc # "idle"
  PROVE  /\ query \in Transactions /\ query \in put /\ query \in InHand /\ query \notin DOMAIN sent
         /\ wanted[query] \in Messages /\ query # "none"
<1>1. query # "none" /\ query \in InHand
  BY DEF Inv, Handlers, InHand, At
<1>2. query \in Transactions /\ query \in put /\ query \notin DOMAIN sent
  BY <1>1 DEF Exact, SentOnce
<1>3. wanted \in [Transactions -> Messages]
  BY DEF RInv, RP!Inv, RP!Shape
<1> QED
  BY <1>1, <1>2, <1>3

\* Steps that neither touch the cache nor the message nor send anything.
LEMMA StillExact ==
  ASSUME Exact, UNCHANGED <<wanted, responder_cache, sent, restarts>>,
         UNCHANGED <<query, message, rrids, rpc>> \/ (query' = query /\ InProgress'),
         put \subseteq put', put' \subseteq Transactions,
         InHand' \subseteq put', InHand' \cap DOMAIN sent = {}
  PROVE  Exact'
<1>1. Cached'
  BY DEF Exact, Cached
<1>2. InProgress'
  BY DEF Exact, InProgress, IsResponse
<1>3. SentOnce'
  BY DEF Exact, SentOnce
<1>4. Remembered'
  BY DEF Exact, Remembered
<1> QED
  BY <1>1, <1>2, <1>3, <1>4 DEF Exact

\* The name server's answer comes in, with no fragments yet.
LEMMA AnswerExact ==
  ASSUME Inv, RInv, Exact, NEW t \in Transactions, R!Answer(t), restarts' = restarts
  PROVE  Exact' /\ rstatus' = rstatus /\ InHand' = InHand /\ UNCHANGED <<wanted, sent>>
<1>1. /\ t \in internal /\ internal' = internal \ {t} /\ rpc = "idle"
      /\ UNCHANGED <<wanted, put, sent, responder_cache, rstatus>>
      /\ query' = t /\ message' = WholeItems(wanted[t]) /\ rrids' = <<>>
  BY DEF R!Answer, R!environment, WholeItems
<1>2. t # "none" /\ query = "none"
  BY <1>1, SystemAssumption DEF Inv, Handlers
<1>3. InHand' = InHand
  BY <1>1, <1>2 DEF InHand, At
<1>4. wanted[t] \in Messages
  BY DEF RInv, RP!Inv, RP!Shape
<1>5. InProgress'
  <2>1. IsResponse(message', wanted'[query'])
    BY <1>1, <1>4, WholeIsResponse
  <2>2. DOMAIN rrids' = {}
    BY <1>1
  <2> QED
    BY <2>1, <2>2 DEF InProgress, IsResponse
<1>6. Cached' /\ Remembered'
  BY <1>1 DEF Exact, Cached, Remembered
<1>7. SentOnce'
  BY <1>1, <1>3 DEF Exact, SentOnce
<1> QED
  BY <1>1, <1>3, <1>5, <1>6, <1>7 DEF Exact

\* insert_into_state: with no two records of one hash nothing collides, and a
\* record is cached under its hash.
LEMMA InsertExact ==
  ASSUME HashesApart, Inv, RInv, Exact, R!Insert, restarts' = restarts
  PROVE  Exact' /\ rstatus' = rstatus
<1> DEFINE i == Len(rrids) + 1
           rr == message[i].rr
           m == wanted[query]
<1>1. /\ rpc = "insert" /\ i <= Len(message)
      /\ UNCHANGED <<wanted, put, sent, internal, query, message, rpc>>
  BY Zenon DEF R!Insert, R!environment
<1>2. m \in Messages /\ query \in Transactions
  BY <1>1, QueryInHand
<1>3. message \in Seq(RP!Items) /\ rrids \in Seq(RP!Rrids) /\ i \in DOMAIN message
  BY <1>1 DEF RInv, RP!Inv, RP!Shape
<1>4. i \in DOMAIN m /\ rr = m[i] /\ DOMAIN message = DOMAIN m
  <2>1. IsResponse(message, m)
    BY <1>1 DEF Exact, InProgress
  <2>2. i \in DOMAIN m /\ DOMAIN message = DOMAIN m
    BY <1>3, <2>1 DEF IsResponse
  <2>3. ItemOf(message, m, i)
    BY <2>1, <2>2, ResponseFields
  <2> QED
    BY <2>2, <2>3 DEF ItemOf
<1>5. rr \in Records
  BY <1>2, <1>4 DEF Records, ToSet
<1> HIDE DEF i, rr
<1>6. rr.hash \in DOMAIN responder_cache =>
        responder_cache[rr.hash].rr = rr /\ responder_cache[rr.hash].at # R!Freed
  BY <1>5 DEF Exact, Cached, HashesApart, R!Copy, R!Freed
<1>7. /\ \/ /\ rr.hash \notin DOMAIN responder_cache
            /\ R!Enter(rr.hash, R!Entry(rr, R!Copy))
         \/ UNCHANGED responder_cache
      /\ rrids' = Append(rrids, rr.hash) /\ rstatus' = rstatus
  BY <1>6 DEF R!Insert, R!is_resource_record_equal, i, rr
<1>8. Cached'
  BY <1>5, <1>7 DEF Exact, Cached, R!Enter, R!Entry
<1>9. DOMAIN responder_cache \subseteq DOMAIN responder_cache'
  BY <1>7 DEF R!Enter
<1>10. Remembered'
  BY <1>1, <1>9 DEF Exact, Remembered
<1>11. SentOnce'
  BY <1>1 DEF Exact, SentOnce, InHand
<1>12. InProgress'
  <2>1. IsResponse(message', wanted'[query'])
    BY <1>1 DEF Exact, InProgress
  <2>2. Len(rrids) \in Nat /\ DOMAIN rrids = 1 .. Len(rrids) /\ DOMAIN rrids' = 1 .. i
        /\ rrids'[i] = rr.hash /\ \A j \in DOMAIN rrids : rrids'[j] = rrids[j]
    BY <1>3, <1>7 DEF i
  <2>3. ASSUME NEW j \in DOMAIN rrids', rrids'[j] = 0
        PROVE  m[j].hash = 0 \/ message[j].isRRFrag
    <3>1. CASE j = i
      BY <1>4, <2>2, <2>3, <3>1
    <3>2. CASE j # i
      <4>1. j \in DOMAIN rrids
        BY <2>2, <3>2 DEF i
      <4> QED
        BY <1>1, <2>2, <2>3, <4>1 DEF Exact, InProgress
    <3> QED
      BY <3>1, <3>2
  <2> QED
    BY <1>1, <2>1, <2>3 DEF InProgress
<1> QED
  BY <1>7, <1>8, <1>10, <1>11, <1>12 DEF Exact

\* A fragment that takes the place of a record is named by its hash.
LEMMA ShrinkExact ==
  ASSUME Inv, RInv, Exact, R!Shrink, restarts' = restarts
  PROVE  /\ Exact' /\ UNCHANGED <<wanted, sent, internal, query>>
         /\ rstatus' = rstatus \/ R!Candidates = {}
<1> DEFINE m == wanted[query]
<1>1. rpc = "shrink" /\ rpc' \in {"shrink", "send"}
      /\ UNCHANGED <<wanted, put, sent, internal, query>>
  BY Zenon DEF R!Shrink, R!environment
<1>2. m \in Messages /\ query \in Transactions
  BY <1>1, QueryInHand
<1>3. CASE R!Candidates = {}
  <2>1. UNCHANGED <<responder_cache, message, rrids, rpc>>
    BY Zenon, <1>3 DEF R!Shrink
  <2>2. InHand' = InHand
    BY <1>1 DEF InHand
  <2> QED
    BY <1>1, <1>3, <2>1, <2>2, StillExact DEF Exact, SentOnce
<1>4. CASE R!Candidates # {}
  <2>1. RP!Shrink /\ RP!Candidates # {}
    <3>1. \A j : R!CachedRecord(j) = RP!CachedRecord(j)
      BY Zenon DEF R!CachedRecord, RP!CachedRecord
    <3>2. R!Candidates = RP!Candidates
      BY Zenon, <3>1 DEF R!Candidates, RP!Candidates
    <3> QED
      BY <1>4, <3>2, ShrinkingIsResponders
  <2> DEFINE i == RP!Largest
             rr == RP!CachedRecord(i)
  <2>2. i \in RP!Candidates
    BY <2>1, ResponderSide, RP!LargestIsCandidate DEF RInv
  <2>3. rstatus' = rstatus
        /\ \/ RP!Replace(i, RP!Part(message[i].rr, rrids[i], 0, RP!RRSize(rr)))
           \/ RP!Replace(i, RP!Part(message[i].rr, rrids[i], RP!WholeBlocks(RP!Room(rr)),
                                    IF RP!Room(rr) > 0 THEN RP!RRSize(rr) ELSE 0))
    BY Zenon, <2>1 DEF RP!Shrink
  <2>4. /\ i \in DOMAIN rrids /\ rrids[i] # 0 /\ rr.rdsize > 0
        /\ rrids[i] \in DOMAIN responder_cache /\ rr = message[i].rr /\ rr.hash = rrids[i]
    <3>1. i \in DOMAIN rrids /\ rrids[i] # 0 /\ rr.rdsize > 0 /\ rr = responder_cache[rrids[i]].rr
      BY <2>2 DEF RP!Candidates, RP!CachedRecord
    <3> HIDE DEF i, rr
    <3> QED
      BY <3>1 DEF RInv, RP!Inv, RP!RridsNamed, Exact, Cached
  <2>5. message \in Seq(RP!Items) /\ rrids \in Seq(RP!Rrids) /\ Len(rrids) = Len(message)
        /\ cur_size \in Int
    BY <1>1 DEF RInv, RP!Inv, RP!Shape, RP!SizesInv
  <2>6. rr \in RP!Record
    BY <2>4 DEF RInv, RP!Inv, RP!Shape, RP!CachedRecord
  <2> HIDE DEF i, rr
  <2>7. i \in DOMAIN message /\ i \in Nat \ {0}
    BY <2>4, <2>5
  <2>8. PICK size \in Nat, adv \in Int : RP!Replace(i, RP!Part(message[i].rr, rrids[i], size, adv))
    <3>1. RP!Room(rr) \in 0 .. rr.rdsize /\ RP!WholeBlocks(RP!Room(rr)) \in 0 .. RP!Room(rr)
          /\ RP!RRSize(rr) \in Nat
      BY <2>5, <2>6, ResponderSide, RP!RoomUsable
    <3>2. rr.rdsize \in Nat
      BY <2>6 DEF RP!Record
    <3>3. RP!WholeBlocks(RP!Room(rr)) \in Nat
      BY <3>1, <3>2
    <3>4. (IF RP!Room(rr) > 0 THEN RP!RRSize(rr) ELSE 0) \in Int /\ RP!RRSize(rr) \in Int
      BY <3>1
    <3>5. CASE RP!Replace(i, RP!Part(message[i].rr, rrids[i], 0, RP!RRSize(rr)))
      <4>1. 0 \in Nat
        OBVIOUS
      <4> QED
        BY <3>4, <3>5, <4>1
    <3> QED
      BY <2>3, <3>3, <3>4, <3>5
  <2> DEFINE f == RP!Part(message[i].rr, rrids[i], size, adv)
  <2>9. message' = [message EXCEPT ![i] = f] /\ rrids' = [rrids EXCEPT ![i] = 0]
        /\ RP!Release({i})
    BY <2>8 DEF RP!Replace
  <2>10. IsResponse(message, m)
         /\ \A j \in DOMAIN rrids : rrids[j] = 0 => m[j].hash = 0 \/ message[j].isRRFrag
    BY <1>1 DEF Exact, InProgress
  <2>11. i \in DOMAIN m /\ ItemOf(message, m, i)
    BY <2>7, <2>10, ResponseFields DEF IsResponse
  <2>12. m[i].hash = rrids[i] /\ m[i].rdsize > 0 /\ f = R!Part(m[i], m[i].hash, size, adv)
         /\ f.isRRFrag
    <3>1. rr = m[i]
      BY <2>4, <2>11 DEF ItemOf
    <3>2. R!Part(m[i], m[i].hash, size, adv) = RP!Part(m[i], m[i].hash, size, adv)
      BY SameResponder
    <3>3. f.isRRFrag
      BY DEF RP!Part
    <3> QED
      BY <2>4, <3>1, <3>2, <3>3
  <2> HIDE DEF f
  <2>13. /\ DOMAIN message' = DOMAIN message /\ message'[i] = f
         /\ \A j \in DOMAIN message : j # i => message'[j] = message[j]
         /\ DOMAIN rrids' = DOMAIN rrids
         /\ \A j \in DOMAIN rrids : j # i => rrids'[j] = rrids[j]
    BY <2>7, <2>9
  <2>14. IsResponse(message', m)
    <3>1. DOMAIN message' = DOMAIN m
      BY <2>10, <2>13 DEF IsResponse
    <3>2. ASSUME NEW j \in DOMAIN m
          PROVE  \/ message'[j] = R!Whole(m[j])
                 \/ /\ m[j].hash # 0 /\ m[j].rdsize > 0
                    /\ \E sz \in Nat, ad \in Int : message'[j] = R!Part(m[j], m[j].hash, sz, ad)
      <4>1. CASE j = i
        BY <2>4, <2>12, <2>13, <4>1
      <4>2. CASE j # i
        <5>1. message'[j] = message[j]
          BY <2>10, <2>13, <4>2 DEF IsResponse
        <5> QED
          BY <2>10, <5>1 DEF IsResponse
      <4> QED
        BY <4>1, <4>2
    <3> QED
      BY <3>1, <3>2 DEF IsResponse
  <2>15. InProgress'
    <3>1. ASSUME NEW j \in DOMAIN rrids', rrids'[j] = 0
          PROVE  m[j].hash = 0 \/ message'[j].isRRFrag
      <4>1. CASE j = i
        BY <2>12, <2>13, <4>1
      <4>2. CASE j # i
        <5>1. j \in DOMAIN rrids /\ j \in DOMAIN message /\ rrids[j] = 0
          BY <2>5, <2>13, <3>1, <4>2
        <5> QED
          BY <2>10, <2>13, <4>2, <5>1
      <4> QED
        BY <4>1, <4>2
    <3> QED
      BY <1>1, <2>14, <3>1 DEF InProgress
  <2>16. /\ DOMAIN responder_cache' = DOMAIN responder_cache
         /\ \A id \in DOMAIN responder_cache : responder_cache'[id] = responder_cache[id]
    <3>1. \A id \in DOMAIN responder_cache : responder_cache[id].at \notin {i}
      BY <2>7 DEF Exact, Cached, R!Copy
    <3> QED
      BY <2>9, <3>1 DEF RP!Release
  <2>17. Cached' /\ Remembered'
    BY <1>1, <2>16 DEF Exact, Cached, Remembered
  <2>18. SentOnce'
    BY <1>1 DEF Exact, SentOnce, InHand
  <2> QED
    BY <1>1, <2>3, <2>15, <2>17, <2>18 DEF Exact
<1> QED
  BY <1>3, <1>4

\* What the response in hand announces is known when it is sent.
LEMMA SendExact ==
  ASSUME Inv, RInv, Exact, R!Send, restarts' = restarts
  PROVE  /\ Exact' /\ rstatus' = "running" /\ wanted' = wanted
         /\ InHand' = InHand \ {query} /\ query \notin DOMAIN sent
         /\ sent' = [t \in DOMAIN sent \cup {query} |-> IF t = query THEN message ELSE sent[t]]
         /\ IsResponse(message, wanted[query]) /\ RP!Usable(message)
<1> DEFINE new == [t \in DOMAIN sent \cup {query} |-> IF t = query THEN message ELSE sent[t]]
<1>1. rstatus' = "running" /\ rstatus = "running" /\ rpc = "send"
  BY SendingRuns
<1>2. sent' = new
  BY <1>1 DEF R!Send
<1>3. /\ UNCHANGED <<wanted, put, internal>> /\ R!Release(DOMAIN message)
      /\ query' = "none" /\ message' = <<>> /\ rrids' = <<>> /\ rpc' = "idle"
  BY DEF R!Send, R!NONE
<1>4. /\ query \in put /\ query \in Transactions /\ query \notin DOMAIN sent
      /\ wanted[query] \in Messages /\ query # "none" /\ query \in InHand
  BY <1>1, QueryInHand
<1>5. query \notin internal /\ At(query) = {query} /\ At(query)' = {}
  BY <1>3, <1>4 DEF Inv, Apart, At
<1>6. InHand' = InHand \ {query}
  BY <1>3, <1>5 DEF InHand
<1>7. IsResponse(message, wanted[query]) /\ RP!Usable(message)
  BY <1>1 DEF Exact, InProgress, RInv, RP!UsableInv
<1>8. /\ DOMAIN responder_cache' = DOMAIN responder_cache
      /\ \A id \in DOMAIN responder_cache : responder_cache'[id] = responder_cache[id]
  <2>1. DOMAIN message = 1 .. Len(message) /\ Len(message) \in Nat
    BY DEF RInv, RP!Inv, RP!Shape
  <2>2. \A id \in DOMAIN responder_cache : responder_cache[id].at \notin DOMAIN message
    BY <2>1 DEF Exact, Cached, R!Copy
  <2> QED
    BY <1>3, <2>2, ReleaseFields
<1>9. Cached'
  BY <1>8 DEF Exact, Cached
<1>10. InProgress'
  BY <1>3 DEF InProgress
<1>11. DOMAIN sent' = DOMAIN sent \cup {query} /\ sent'[query] = message
       /\ \A t \in DOMAIN sent : sent'[t] = sent[t]
  BY <1>2, <1>4
<1>12. SentOnce'
  BY <1>3, <1>4, <1>6, <1>7, <1>11 DEF Exact, SentOnce
<1>13. Remembered'
  <2>1. \A i \in Parted(message) : message[i].rrid \in DOMAIN responder_cache
    BY DEF RInv, RP!Inv, RP!MessageNamed, RP!Named, Parted
  <2>2. ASSUME restarts = 0, NEW t \in DOMAIN sent', NEW i \in Parted(sent'[t])
        PROVE  sent'[t][i].rrid \in DOMAIN responder_cache
    <3>1. CASE t = query
      BY <1>11, <2>1, <2>2, <3>1
    <3>2. CASE t # query
      BY <1>11, <2>2, <3>2 DEF Exact, Remembered
    <3> QED
      BY <3>1, <3>2
  <2>3. restarts' \in Nat
    BY DEF Exact, Remembered
  <2> QED
    BY <1>8, <2>2, <2>3 DEF Remembered, Parted
<1> QED
  BY <1>1, <1>2, <1>3, <1>4, <1>6, <1>7, <1>9, <1>10, <1>12, <1>13 DEF Exact

\* A query is taken for the name server.
LEMMA StartExact ==
  ASSUME Inv, RInv, Exact, NEW q \in queries, Start(q)
  PROVE  Exact' /\ rstatus' = rstatus /\ InHand' = InHand \cup {q.t} /\ UNCHANGED <<wanted, sent>>
<1>1. /\ UNCHANGED <<wanted, sent, responder_cache, query, message, rrids, rpc, rstatus, restarts>>
      /\ put' = put \cup {q.t} /\ internal' = internal \cup {q.t} /\ q.t \notin put
  BY DEF Start, R!Start, R!handler
<1>2. q.t \in Transactions
  BY DEF Inv, Awaited, Asking, Of
<1>3. InHand' = InHand \cup {q.t}
  BY <1>1 DEF InHand
<1>4. /\ put \subseteq put' /\ put' \subseteq Transactions /\ InHand' \subseteq put'
      /\ InHand' \cap DOMAIN sent = {}
  BY <1>1, <1>2, <1>3 DEF Exact, SentOnce
<1>5. Exact'
  BY <1>1, <1>4, StillExact
<1> QED
  BY <1>1, <1>3, <1>5

\* A restart forgets what was cached and what was in hand.
LEMMA RestartExact ==
  ASSUME Exact, Restart
  PROVE  Exact' /\ rstatus' = "running" /\ restarts' > 0 /\ InHand' = {} /\ UNCHANGED <<wanted, sent>>
<1>1. /\ UNCHANGED <<wanted, sent, put>> /\ responder_cache' = <<>> /\ internal' = {}
      /\ query' = "none" /\ rpc' = "idle" /\ restarts' = restarts + 1 /\ rstatus' = "running"
  BY DEF Restart, R!NONE
<1>2. restarts' \in Nat /\ restarts' > 0
  BY <1>1 DEF Exact, Remembered
<1>3. InHand' = {}
  BY <1>1 DEF InHand, At
<1>4. Cached' /\ InProgress'
  BY <1>1 DEF Cached, InProgress
<1>5. SentOnce'
  BY <1>1, <1>3 DEF Exact, SentOnce
<1>6. Remembered'
  BY <1>2 DEF Remembered
<1> QED
  BY <1>1, <1>2, <1>3, <1>4, <1>5, <1>6 DEF Exact

\* The handler's steps before it sends.
LEMMA HandleExact ==
  ASSUME HashesApart, Inv, RInv, Exact, Handle
  PROVE  /\ Exact' /\ InHand' = InHand /\ UNCHANGED <<wanted, sent>>
         /\ rstatus' = rstatus \/ (R!Shrink /\ R!Candidates = {})
<1>1. restarts' = restarts
  BY DEF Handle
<1>2. ASSUME NEW t \in Transactions, R!Answer(t)
      PROVE  Exact' /\ InHand' = InHand /\ UNCHANGED <<wanted, sent>> /\ rstatus' = rstatus
  BY <1>1, <1>2, AnswerExact
<1>3. CASE R!Insert
  <2>1. UNCHANGED <<wanted, sent, internal, query>>
    BY Zenon, <1>3 DEF R!Insert, R!environment
  <2>2. InHand' = InHand
    BY <2>1 DEF InHand
  <2> QED
    BY <1>1, <1>3, <2>1, <2>2, InsertExact
<1>4. CASE R!Shrink
  <2>1. InHand' = InHand
    BY <1>1, <1>4, ShrinkExact DEF InHand
  <2> QED
    BY <1>1, <1>4, <2>1, ShrinkExact
<1>5. CASE R!Inserted \/ R!Fits
  <2>1. /\ UNCHANGED <<wanted, put, sent, internal, responder_cache, query, message, rrids, rstatus>>
        /\ rpc # "idle"
    BY <1>5 DEF R!Inserted, R!Fits, R!environment
  <2>2. InProgress'
    BY <2>1 DEF Exact, InProgress, IsResponse
  <2>3. InHand' = InHand
    BY <2>1 DEF InHand
  <2>4. Exact'
    BY <1>1, <2>1, <2>2, <2>3, StillExact DEF Exact, SentOnce
  <2> QED
    BY <2>1, <2>3, <2>4
<1> QED
  BY <1>2, <1>3, <1>4, <1>5 DEF Handle

\* Those that do not concern the responder's handler.
LEMMA OthersExact ==
  ASSUME Exact, UNCHANGED <<wanted, responder_cache, sent, restarts, put, internal, query,
                            message, rrids, rpc>>
  PROVE  Exact' /\ InHand' = InHand
<1>1. InHand' = InHand
  BY DEF InHand
<1> QED
  BY <1>1, StillExact DEF Exact, SentOnce

\* Nothing has been cached, or sent, yet.
LEMMA InitExact == Init => Exact
<1> SUFFICES ASSUME Init PROVE Exact
  OBVIOUS
<1>1. /\ put = {} /\ internal = {} /\ responder_cache = <<>> /\ sent = <<>> /\ query = "none"
      /\ rpc = "idle" /\ restarts = 0
  BY DEF Init, R!NONE
<1>2. InHand = {} /\ DOMAIN sent = {}
  BY <1>1 DEF InHand, At
<1>3. Cached /\ InProgress /\ SentOnce /\ Remembered
  BY <1>1, <1>2 DEF Cached, InProgress, SentOnce, Remembered
<1> QED
  BY <1>3 DEF Exact
-----------------------------------------------------------------------------
\* A client's query asks for nothing else.
Plain ==
  \A q \in outgoing \cup queries : ~q.followup => q = Q!Query(q.t, <<>>, FALSE)

\* Only clients' queries are not follow-ups, and they ask for nothing.
LEMMA NextPlain ==
  ASSUME Plain, [Next]_vars
  PROVE  Plain'
<1> DEFINE AsAsked ==
             \/ outgoing' \cup queries' \subseteq outgoing \cup queries
             \/ \E t : outgoing' = outgoing \cup {Q!Query(t, <<>>, FALSE)} /\ queries' = queries
             \/ \E t, asks : outgoing' = outgoing \cup {Q!Query(t, asks, TRUE)} /\ queries' = queries
<1>1. AsAsked
  <2>1. CASE UNCHANGED vars
    BY <2>1 DEF vars, requester
  <2>2. ASSUME NEW t \in Transactions, Q!Ask(t) PROVE AsAsked
    BY <2>2 DEF Q!Ask
  <2>3. ASSUME NEW q \in outgoing, Q!Register(q) PROVE AsAsked
    BY <2>3 DEF Q!Register
  <2>4. ASSUME NEW m \in responses, Q!Accept(m) \/ Q!Drop(m) \/ Q!Receive(m) PROVE AsAsked
    BY <2>4 DEF Q!Accept, Q!Drop, Q!Receive
  <2>5. CASE Q!CopyRRFrag \/ Q!CopyRR \/ Q!PackOne
    <3>1. UNCHANGED Q!network
      BY Zenon, <2>5 DEF Q!CopyRRFrag, Q!CopyRR, Q!PackOne
    <3> QED
      BY <3>1 DEF Q!network
  <2>6. CASE Q!Complete \/ Q!StartPacking
    BY <2>6 DEF Q!Complete, Q!StartPacking, Q!network
  <2>7. CASE Q!SendFollowUp
    BY <2>7 DEF Q!SendFollowUp
  <2>8. ASSUME NEW q \in queries, Start(q) \/ Serve(q) PROVE AsAsked
    BY <2>8 DEF Start, Serve
  <2>9. CASE Handle \/ Send \/ Restart
    BY <2>9 DEF Handle, Send, Restart, requester
  <2> QED
    BY <2>1, <2>2, <2>3, <2>4, <2>5, <2>6, <2>7, <2>8, <2>9 DEF Next, Requester, Responder, Q!Daemon
<1> QED
  BY <1>1 DEF Plain, Q!Query
-----------------------------------------------------------------------------
(***************************************************************************)
(* While the first responses sent are as a requester expects them, what is *)
(* shown of Requester goes for the requester here.                         *)
(***************************************************************************)
\* One thing at most of each query is anywhere, as the argument about Requester
\* wants it.
LEMMA SystemOne ==
  ASSUME Inv
  PROVE  AP!One /\ Of(Unanswered) = Of(queries) \cup InHand
<1>1. \A t : Q!Query(t, <<>>, FALSE).t = t
  BY DEF Q!Query
<1>2. Of(Unanswered) = Of(queries) \cup InHand
  BY <1>1 DEF Of, Unanswered
<1>3. Of(queries) \cap InHand = {}
  BY DEF Inv, Apart, InHand
<1>4. \A q, r \in Unanswered : q.t = r.t => q = r
  <2>1. ASSUME NEW q \in Unanswered
        PROVE  \/ q \in queries /\ q.t \in Of(queries)
               \/ q = Q!Query(q.t, <<>>, FALSE) /\ q.t \in InHand
    <3>1. CASE q \in queries
      BY <3>1 DEF Of
    <3>2. CASE q \in {Q!Query(t, <<>>, FALSE) : t \in InHand}
      BY <1>1, <3>2
    <3> QED
      BY <3>1, <3>2 DEF Unanswered
  <2> QED
    BY <1>3, <2>1 DEF Inv, Once
<1>5. Of(Unanswered) \cap (Of(outgoing) \cup Of(responses) \cup At(packet)) = {}
  BY <1>2 DEF Inv, Apart, InHand
<1>6. Of(outgoing) \cup Of(Unanswered) \cup Of(responses) \cup At(packet) \subseteq Asking
  BY <1>2 DEF Inv, Awaited, InHand
<1>7. /\ \A x \in outgoing : x.t \in Of(outgoing)
      /\ \A x \in responses : x.t \in Of(responses)
      /\ \A x \in Unanswered : x.t \in Of(Unanswered)
  BY DEF Of
<1>8. /\ \A q \in outgoing, r \in Unanswered : q.t # r.t
      /\ \A q \in outgoing \cup Unanswered, m \in responses : q.t # m.t
  BY <1>5, <1>7 DEF Inv, Apart
<1>9. \A x \in outgoing \cup Unanswered \cup responses :
        x.t \in Asking /\ (x.t # packet \/ packet = "none")
  BY <1>5, <1>6, <1>7 DEF Inv, Apart, At
<1>10. "none" \notin Asking /\ \A t \in Asking : t \in Transactions /\ client[t] \in AP!Pending
  BY SystemAssumption DEF Asking, AP!Pending
<1>11. \A x \in outgoing \cup Unanswered \cup responses :
         x.t \in Transactions /\ client[x.t] \in AP!Pending /\ x.t # packet
  BY <1>9, <1>10
<1>12. packet # AP!NONE => packet \in Transactions /\ client[packet] \in AP!Pending
  BY <1>6, <1>10 DEF At, AP!NONE
<1>13. /\ pc = "idle" <=> packet = AP!NONE
       /\ client \in [Transactions -> AP!Pending \cup {"new", "answered"}]
  BY DEF Inv, Handlers, AP!NONE, AP!Pending
<1> QED
  BY <1>2, <1>4, <1>8, <1>11, <1>12, <1>13 DEF AP!One, Inv, Once

\* The answer to each query and the first response to it belong together.
LEMMA AnswersSettled ==
  ASSUME RInv, SentOnce, Advertised, NEW t \in Transactions
  PROVE  WireAnswer[t] \in WireAnswers /\ WireFirst[t] \in AP!FirstResponses(WireAnswer[t])
<1>1. wanted[t] \in Messages
  BY DEF RInv, RP!Inv, RP!Shape
<1>2. IsResponse(AsSent(t), wanted[t]) /\ RP!Usable(AsSent(t)) /\ Regular(AsSent(t))
  BY <1>1, WholeIsResponse DEF SentOnce, Advertised, AsSent
<1>3. /\ Wire(wanted[t], Parted(AsSent(t))) \in WireAnswers
      /\ WireItems(wanted[t], AsSent(t)) \in AP!FirstResponses(Wire(wanted[t], Parted(AsSent(t))))
  BY <1>1, <1>2, ResponseIsFirst
<1> QED
  BY <1>3 DEF WireAnswer, WireFirst

Exchanges == AP!Inv /\ AP!Exchange

\* No query has been asked yet.
LEMMA InitExchanges == Init => Exchanges
<1> SUFFICES ASSUME Init PROVE Exchanges
  OBVIOUS
<1>1. RInv /\ SentOnce /\ DOMAIN sent = {}
  BY InitRInv, InitExact DEF Exact, Init
<1>2. Advertised
  BY <1>1 DEF Advertised
<1>3. \A t \in Transactions :
        WireAnswer[t] \in WireAnswers /\ WireFirst[t] \in AP!FirstResponses(WireAnswer[t])
  BY <1>1, <1>2, AnswersSettled
<1>4. /\ WireAnswer \in [Transactions -> WireAnswers]
      /\ WireFirst \in [Transactions -> UNION {AP!FirstResponses(a) : a \in WireAnswers}]
  <2>1. WireAnswer = [t \in Transactions |-> WireAnswer[t]]
        /\ WireFirst = [t \in Transactions |-> WireFirst[t]]
    BY DEF WireAnswer, WireFirst
  <2> QED
    BY <1>3, <2>1
<1>5. Unanswered = {}
  BY DEF Init, R!NONE, Unanswered, InHand, At
<1>6. AP!Init
  BY <1>3, <1>4, <1>5 DEF Init, AP!Init, AP!NONE, Q!NONE, Q!Empty, AP!Empty, Q!Sections, AP!Sections
<1> QED
  BY <1>6, FarSide, AP!InitInv, AP!InitExchange DEF Exchanges

\* The requester's steps, and those it does not see.
LEMMA StepExchanges ==
  ASSUME IdsApart, HashesApart, Inv, Exchanges, [AP!Next]_AP!vars
  PROVE  Exchanges'
<1>1. AP!Undisturbed
  BY Apartness
<1>2. AP!One
  BY SystemOne
<1>3. AP!Exchange'
  BY <1>1, <1>2, FarSide, AP!NextExchange DEF Exchanges
<1>4. AP!Inv'
  BY FarSide, AP!NextInv DEF Exchanges
<1> QED
  BY <1>3, <1>4 DEF Exchanges

\* What the requester does not see, it is not disturbed by.
LEMMA UnseenExchanges ==
  ASSUME IdsApart, HashesApart, Inv, Exchanges,
         UNCHANGED <<WireAnswer, WireFirst, client, got, outgoing, Unanswered, responses,
                     requester_state, packet, todo, missing, cursize, asked, pc, status>>
  PROVE  Exchanges'
<1>1. UNCHANGED AP!vars
  BY DEF AP!vars, AP!clients, AP!network, AP!handler
<1> QED
  BY <1>1, StepExchanges

\* Queries are lost with the responder that stops.
LEMMA LostExchanges ==
  ASSUME Exchanges, Unanswered' \subseteq Unanswered,
         UNCHANGED <<WireAnswer, WireFirst, client, got, outgoing, responses,
                     requester_state, packet, todo, missing, cursize, asked, pc, status>>
  PROVE  Exchanges'
<1>1. UNCHANGED AP!handler
  BY DEF AP!handler
<1>2. AP!Exchange'
  BY <1>1, FarSide, AP!NetworkExchange DEF Exchanges
<1>3. AP!Messages' /\ AP!States'
  BY DEF Exchanges, AP!Inv, AP!Messages, AP!States
<1> QED
  BY <1>2, <1>3 DEF Exchanges, AP!Inv

\* A response that is sent settles the answer to its query, and what the first
\* response to it is.
LEMMA SendExchanges ==
  ASSUME Inv, RInv, Exact, Exchanges, Send, Advertised'
  PROVE  Exchanges'
<1> DEFINE q == AP!Query(query, <<>>, FALSE)
           m == FirstResponse(query, message)
           w == wanted[query]
<1>1. R!Send /\ restarts' = restarts
  BY DEF Send
<1>2. /\ rstatus' = "running" /\ wanted' = wanted
      /\ InHand' = InHand \ {query} /\ query \notin DOMAIN sent
      /\ sent' = [t \in DOMAIN sent \cup {query} |-> IF t = query THEN message ELSE sent[t]]
      /\ IsResponse(message, w) /\ RP!Usable(message)
  BY <1>1, SendExact
<1>3. query \in InHand /\ query \in Transactions /\ w \in Messages
  BY <1>1, SendingRuns, QueryInHand
<1>4. /\ UNCHANGED <<client, got, outgoing, queries, requester_state, packet, todo, missing,
                     cursize, asked, pc, status>>
      /\ responses' = responses \cup {m}
  BY <1>2 DEF Send
<1>5. DOMAIN sent' = DOMAIN sent \cup {query} /\ sent'[query] = message
      /\ \A t \in DOMAIN sent : sent'[t] = sent[t]
  BY <1>2
<1>6. Regular(message)
  BY <1>2, <1>5 DEF Advertised
<1>7. /\ Wire(w, Parted(message)) \in WireAnswers
      /\ WireItems(w, message) \in AP!FirstResponses(Wire(w, Parted(message)))
  BY <1>2, <1>3, <1>6, ResponseIsFirst
<1>8. ASSUME NEW t \in Transactions
      PROVE  AsSent(t)' = IF t = query THEN message ELSE AsSent(t)
  <2>1. CASE t = query
    BY <1>5, <2>1 DEF AsSent
  <2>2. CASE t # query
    BY <1>2, <1>5, <2>2 DEF AsSent
  <2> QED
    BY <2>1, <2>2
<1>9. WireAnswer'[query] = Wire(w, Parted(message)) /\ WireFirst'[query] = WireItems(w, message)
  <2>1. ASSUME NEW t \in Transactions, t = query
        PROVE  WireAnswer'[t] = Wire(w, Parted(message)) /\ WireFirst'[t] = WireItems(w, message)
    <3>1. AsSent(t)' = message /\ wanted'[t] = w
      BY <1>2, <1>8, <2>1
    <3>2. WireAnswer'[t] = Wire(wanted'[t], Parted(AsSent(t)'))
      BY DEF WireAnswer
    <3>3. WireFirst'[t] = WireItems(wanted'[t], AsSent(t)')
      BY DEF WireFirst
    <3> QED
      BY <3>1, <3>2, <3>3
  <2> QED
    BY <1>3, <2>1
<1>10. ASSUME NEW t \in Transactions \ {query}
       PROVE  WireAnswer'[t] = WireAnswer[t] /\ WireFirst'[t] = WireFirst[t]
  BY <1>2, <1>8 DEF WireAnswer, WireFirst
<1>11. q.t = query /\ ~q.followup /\ q \in Unanswered /\ q = Q!Query(query, <<>>, FALSE)
  BY <1>3 DEF AP!Query, Q!Query, Unanswered
<1>12. m.t = query /\ m.items = WireItems(w, message)
  BY DEF FirstResponse, Q!Response, WireItems
<1>13. Unanswered' = Unanswered \ {q}
  <2>1. q \notin queries
    BY <1>3, <1>11 DEF Inv, Apart, Of, InHand
  <2>2. \A t : Q!Query(t, <<>>, FALSE) = q => t = query
    <3>1. \A t : Q!Query(t, <<>>, FALSE).t = t
      BY DEF Q!Query
    <3> HIDE DEF q
    <3> QED
      BY <1>11, <3>1
  <2>3. Unanswered' = queries \cup {Q!Query(t, <<>>, FALSE) : t \in InHand \ {query}}
    BY <1>2, <1>4 DEF Unanswered
  <2> HIDE DEF q
  <2> QED
    BY <1>11, <2>1, <2>2, <2>3 DEF Unanswered
<1>14. UNCHANGED AP!handler
  BY <1>4 DEF AP!handler
<1> HIDE DEF q, m, w
<1>15. AP!Settles(q, m)
  BY <1>4, <1>7, <1>9, <1>10, <1>11, <1>12, <1>13, <1>14 DEF AP!Settles
<1>16. AP!One
  BY SystemOne
<1> QED
  BY <1>11, <1>15, <1>16, FarSide, AP!SettlesExchange, AP!SettlesInv DEF Exchanges

\* What a follow-up query asks for is a fragment that was sent, and is cut from
\* the record it was a fragment of.
LEMMA AsksKnown ==
  ASSUME IdsApart, HashesApart, RInv, Exact, Advertised, Exchanges,
         NEW q \in queries, q.followup, q.t \in Transactions, NEW i \in DOMAIN q.asks
  PROVE  /\ q.t \in DOMAIN sent
         /\ \E k \in Parted(sent[q.t]) : sent[q.t][k].rrid = q.asks[i].rrid
         /\ Known(q.asks[i].rrid) =>
              OnTheWire(q.asks[i].rrid, responder_cache[q.asks[i].rrid].rr)
                = AP!Stored(q.asks[i].rrid)
<1> DEFINE t == q.t
           w == wanted[t]
           P == Parted(AsSent(t))
           A == WireAnswer[t]
           rrid == q.asks[i].rrid
<1>1. q \in Unanswered
  BY DEF Unanswered
<1>2. AP!Naming(q.asks, A)
  BY <1>1 DEF Exchanges, AP!Exchange, AP!QueryDue, AP!Due
<1>3. PICK p \in AP!Places(A) : AP!At(A, p).rrid # 0 /\ rrid = AP!At(A, p).rrid
  BY <1>2 DEF AP!Naming
<1>4. w \in Messages /\ A = Wire(w, P) /\ A \in WireAnswers
  BY AnswersSettled DEF RInv, RP!Inv, RP!Shape, WireAnswer, Exact
<1> DEFINE k == Index(w, p)
<1>5. k \in DOMAIN w /\ w[k] \in R!Record /\ AP!At(A, p) = OfRecord(w[k], k \in P)
  BY <1>3, <1>4, WirePlaces
<1>6. k \in P /\ rrid = w[k].hash /\ AP!At(A, p) = OnTheWire(rrid, w[k])
  BY <1>3, <1>5 DEF OfRecord, OnTheWire
<1>7. t \in DOMAIN sent /\ P = Parted(sent[t])
  BY <1>4, <1>6, WholeIsResponse DEF AsSent
<1>8. sent[t][k].rrid = rrid
  <2>1. IsResponse(sent[t], w)
    BY <1>7 DEF Exact, SentOnce
  <2>2. ItemOf(sent[t], w, k)
    BY <1>5, <2>1, ResponseFields
  <2> QED
    BY <1>6, <1>7, <2>2 DEF ItemOf
<1>9. ASSUME Known(rrid)
      PROVE  OnTheWire(rrid, responder_cache[rrid].rr) = AP!Stored(rrid)
  <2>1. w[k] \in Records
    BY <1>4, <1>5 DEF Records, ToSet
  <2>2. responder_cache[rrid].rr = w[k]
    BY <1>6, <1>9, <2>1 DEF Known, Exact, Cached, HashesApart
  <2>3. AP!At(A, p) \in AP!AllRecords
    <3>1. p[1] \in AP!Sections /\ p[2] \in DOMAIN A[p[1]]
      BY <1>3 DEF AP!Places
    <3>2. AP!At(A, p) \in AP!ToSet(A[p[1]])
      BY <3>1 DEF AP!At, AP!ToSet
    <3> QED
      BY <1>4, <3>1, <3>2 DEF AP!AllRecords
  <2>4. \A x, y \in AP!AllRecords : x.rrid = y.rrid /\ x.rrid # 0 => x = y
    BY Apartness DEF AP!Undisturbed
  <2> DEFINE x == AP!At(A, p)
  <2> HIDE DEF x, A, k, rrid, w
  <2>5. x.rrid = rrid /\ x.rrid # 0 /\ x \in AP!AllRecords
    BY <1>3, <2>3 DEF x
  <2>6. AP!Stored(rrid) = x
    BY <2>4, <2>5 DEF AP!Stored
  <2> QED
    BY <1>6, <2>2, <2>6 DEF x
<1> QED
  BY <1>6, <1>7, <1>8, <1>9

\* A follow-up query is served as Requester's far side would.
LEMMA ServeExchanges ==
  ASSUME IdsApart, HashesApart, Inv, RInv, Exact, Advertised, Exchanges,
         NEW q \in queries, Serve(q)
  PROVE  Exchanges'
<1>1. /\ q.followup /\ queries' = queries \ {q}
      /\ UNCHANGED <<client, got, outgoing, requester_state, packet, todo, missing, cursize,
                     asked, pc, status, wanted, sent, internal, query>>
  BY DEF Serve
<1>2. UNCHANGED <<WireAnswer, WireFirst, InHand>>
  BY <1>1 DEF WireAnswer, WireFirst, AsSent, InHand
<1>3. q.t \in Transactions
  BY DEF Inv, Awaited, Asking, Of
<1>4. Unanswered' = Unanswered \ {q} /\ q \in Unanswered
  <2>1. \A t : Q!Query(t, <<>>, FALSE) # q
    BY <1>1 DEF Q!Query
  <2> QED
    BY <1>1, <1>2, <2>1 DEF Unanswered
<1>5. CASE responses' = responses
  BY <1>1, <1>2, <1>4, <1>5, LostExchanges
<1>6. CASE /\ \A i \in DOMAIN q.asks : Known(q.asks[i].rrid)
           /\ responses' = responses \cup
                {Q!Response(q.t, [Q!Empty EXCEPT ![0] = [i \in DOMAIN q.asks |-> Cut(q.asks[i])]])}
  <2>1. \A i \in DOMAIN q.asks :
          Cut(q.asks[i]) = AP!Part(AP!Stored(q.asks[i].rrid), q.asks[i].curidx, q.asks[i].fragsize)
    BY <1>1, <1>3, <1>6, AsksKnown DEF Cut, Q!Part, AP!Part
  <2>2. [i \in DOMAIN q.asks |-> Cut(q.asks[i])] = AP!Served(q.asks)
    BY <2>1 DEF AP!Served
  <2>3. Q!Empty = AP!Empty /\ \A t, x : Q!Response(t, x) = AP!Response(t, x)
    BY DEF Q!Empty, AP!Empty, Q!Sections, AP!Sections, Q!Response, AP!Response
  <2>4. responses' = responses \cup
          {AP!Response(q.t, [AP!Empty EXCEPT ![0] = AP!Served(q.asks)])}
    BY <1>6, <2>2, <2>3
  <2>5. AP!Respond(q)
    <3>1. UNCHANGED AP!clients /\ UNCHANGED AP!handler
      BY <1>1, <1>2 DEF AP!clients, AP!handler
    <3>2. AP!Taken(Unanswered, Unanswered', q)
      BY <1>4 DEF AP!Taken
    <3> QED
      BY <1>1, <2>4, <3>1, <3>2 DEF AP!Respond
  <2>6. AP!Next
    BY <1>4, <2>5 DEF AP!Next
  <2> QED
    BY <2>6, StepExchanges
<1> QED
  BY <1>5, <1>6 DEF Serve, AllKnown
-----------------------------------------------------------------------------
(***************************************************************************)
(* The inductive invariant, and what follows from it.                      *)
(***************************************************************************)
IInv == Inv /\ RInv /\ Exact /\ Plain /\ (Advertised => Exchanges)

\* What has been sent stays as it is.
LEMMA NextExact ==
  ASSUME HashesApart, Inv, RInv, Exact, [Next]_vars
  PROVE  Exact' /\ (Advertised' => Advertised)
<1>1. UNCHANGED <<wanted, sent>> => (Advertised' => Advertised)
  BY DEF Advertised
<1>2. CASE UNCHANGED vars
  BY <1>1, <1>2, OthersExact DEF vars, responder
<1>3. CASE Requester
  BY <1>1, <1>3, OthersExact DEF Requester, responder
<1>4. ASSUME NEW q \in queries, Start(q) PROVE Exact' /\ (Advertised' => Advertised)
  BY <1>1, <1>4, StartExact
<1>5. ASSUME NEW q \in queries, Serve(q) PROVE Exact' /\ (Advertised' => Advertised)
  BY <1>1, <1>5, OthersExact DEF Serve
<1>6. CASE Handle
  BY <1>1, <1>6, HandleExact
<1>7. CASE Send
  <2>1. /\ Exact' /\ wanted' = wanted /\ query \notin DOMAIN sent
        /\ sent' = [t \in DOMAIN sent \cup {query} |-> IF t = query THEN message ELSE sent[t]]
    BY <1>7, SendExact DEF Send
  <2>2. \A t \in DOMAIN sent : t \in DOMAIN sent' /\ sent'[t] = sent[t]
    BY <2>1
  <2> QED
    BY <2>1, <2>2 DEF Advertised
<1>8. CASE Restart
  BY <1>1, <1>8, RestartExact
<1> QED
  BY <1>2, <1>3, <1>4, <1>5, <1>6, <1>7, <1>8 DEF Next, Responder

\* Each step preserves what is shown of Requester, as long as fragments
\* advertise their records.
LEMMA NextExchanges ==
  ASSUME IdsApart, HashesApart, IInv, [Next]_vars, Advertised'
  PROVE  Exchanges'
<1>1. Inv /\ RInv /\ Exact /\ Plain
  BY DEF IInv
<1>2. Advertised /\ Exchanges
  BY <1>1, NextExact DEF IInv
<1>3. UNCHANGED <<wanted, sent>> => UNCHANGED <<WireAnswer, WireFirst>>
  BY DEF WireAnswer, WireFirst, AsSent
<1>4. UNCHANGED <<queries, InHand>> => UNCHANGED Unanswered
  BY DEF Unanswered
<1>5. CASE UNCHANGED vars
  <2>1. UNCHANGED InHand
    BY <1>5 DEF vars, responder, InHand
  <2> QED
    BY <1>1, <1>2, <1>3, <1>4, <1>5, <2>1, UnseenExchanges DEF vars, requester, responder
<1>6. CASE Requester
  BY <1>1, <1>2, <1>6, RequesterIsRequesters, StepExchanges
<1>7. ASSUME NEW q \in queries, Start(q) PROVE Exchanges'
  <2>1. InHand' = InHand \cup {q.t} /\ UNCHANGED <<wanted, sent>>
    BY <1>1, <1>7, StartExact
  <2>2. q = Q!Query(q.t, <<>>, FALSE) /\ queries' = queries \ {q}
    BY <1>1, <1>7 DEF Start, Plain
  <2>3. Unanswered' = Unanswered
    <3> DEFINE inHand == {Q!Query(t, <<>>, FALSE) : t \in InHand}
    <3>1. {Q!Query(t, <<>>, FALSE) : t \in InHand'} = inHand \cup {q}
      BY <2>1, <2>2
    <3>2. Unanswered' = (queries \ {q}) \cup (inHand \cup {q})
      BY <2>2, <3>1 DEF Unanswered
    <3> QED
      BY <1>7, <3>2 DEF Unanswered
  <2> QED
    BY <1>1, <1>2, <1>3, <1>7, <2>1, <2>3, UnseenExchanges DEF Start
<1>8. ASSUME NEW q \in queries, Serve(q) PROVE Exchanges'
  BY <1>1, <1>2, <1>8, ServeExchanges
<1>9. CASE Handle
  <2>1. InHand' = InHand /\ UNCHANGED <<wanted, sent>>
    BY <1>1, <1>9, HandleExact
  <2> QED
    BY <1>1, <1>2, <1>3, <1>4, <1>9, <2>1, UnseenExchanges DEF Handle, requester
<1>10. CASE Send
  BY <1>1, <1>2, <1>10, SendExchanges
<1>11. CASE Restart
  <2>1. InHand' = {} /\ UNCHANGED <<wanted, sent>>
    BY <1>1, <1>11, RestartExact
  <2>2. Unanswered' \subseteq Unanswered
    BY <1>11, <2>1 DEF Unanswered, Restart, requester
  <2> QED
    BY <1>2, <1>3, <1>11, <2>1, <2>2, LostExchanges DEF Restart, requester
<1> QED
  BY <1>5, <1>6, <1>7, <1>8, <1>9, <1>10, <1>11 DEF Next, Responder

\* The invariant holds.
LEMMA SpecIInv ==
  ASSUME IdsApart, HashesApart
  PROVE  Spec => []IInv
<1>1. Init => IInv
  <2>1. Init => Plain
    BY DEF Init, Plain
  <2> QED
    BY <2>1, InitInv, InitRInv, InitExact, InitExchanges DEF IInv
<1>2. IInv /\ [Next]_vars => IInv'
  <2> SUFFICES ASSUME IInv, [Next]_vars PROVE IInv'
    OBVIOUS
  <2>1. Inv' /\ RInv' /\ Exact' /\ Plain'
    BY NextInv, NextRInv, NextExact, NextPlain DEF IInv
  <2>2. Advertised' => Exchanges'
    BY NextExchanges
  <2> QED
    BY <2>1, <2>2 DEF IInv
<1> QED
  BY <1>1, <1>2, PTL DEF Spec

\* Between two daemons, and across restarts of the responder's, a client gets
\* the records of the name server's answer, each whole, in its section and its
\* place: as long as ids and hashes are told apart, and fragments advertise
\* their records (which those made where there was no room at all do not, see
\* insert_into_state_and_construct_map).
THEOREM AnswersIntactHolds ==
  ASSUME IdsApart, HashesApart
  PROVE  Spec => [](Advertised => AnswersIntact)
<1>1. IInv => (Advertised => AnswersIntact)
  <2> SUFFICES ASSUME IInv, Advertised, NEW t \in Transactions, client[t] = "answered",
                      NEW s \in 0 .. 2
               PROVE  LET expected == BySection(wanted[t], wanted[t])
                      IN  /\ Len(got[t][s]) = Len(expected[s])
                          /\ \A i \in DOMAIN got[t][s] :
                               got[t][s][i] = Q!Whole(OnTheWire(got[t][s][i].rr.rrid, expected[s][i]))
    BY DEF AnswersIntact
  <2> DEFINE w == wanted[t]
             P == Parted(AsSent(t))
             list == Wire(w, P)[s]
             expected == BySection(w, w)[s]
             n == SECTIONS[w][s + 1]
  <2>1. w \in Messages
    BY DEF IInv, RInv, RP!Inv, RP!Shape
  <2>2. got[t] = AP!WholeMessage(Wire(w, P))
    BY DEF IInv, Exchanges, AP!Exchange, AP!ClientDue, WireAnswer
  <2>3. got[t][s] = [i \in DOMAIN list |-> AP!Whole(list[i])]
    BY <2>2 DEF AP!WholeMessage, AP!Sections
  <2>4. LET l == Wire(w, P)[s] IN
        /\ Len(l) = SECTIONS[w][s + 1] /\ DOMAIN l = 1 .. SECTIONS[w][s + 1]
        /\ l \in Seq({OfRecord(w[i], i \in P) : i \in DOMAIN w})
        /\ \A i \in 1 .. SECTIONS[w][s + 1] :
             /\ Base(w, s) + i \in DOMAIN w
             /\ l[i] = OfRecord(w[Base(w, s) + i], Base(w, s) + i \in P)
    BY <2>1, WireFields
  <2>5. LET l == BySection(w, w)[s] IN
        /\ l \in Seq({w[i] : i \in DOMAIN w})
        /\ Len(l) = SECTIONS[w][s + 1] /\ DOMAIN l = 1 .. SECTIONS[w][s + 1]
        /\ \A i \in 1 .. SECTIONS[w][s + 1] : Base(w, s) + i \in DOMAIN w /\ l[i] = w[Base(w, s) + i]
    <3> HIDE DEF w
    <3> QED
      BY ONLY <2>1, SectionFields, s \in 0 .. 2
  <2>6. n \in Nat
    BY <2>1, MessageFields
  <2> DEFINE b == Base(w, s)
             given == got[t][s]
  <2>7. /\ DOMAIN list = 1 .. n
        /\ \A i \in 1 .. n : list[i] = OfRecord(w[b + i], b + i \in P)
        /\ Len(expected) = n /\ \A i \in 1 .. n : expected[i] = w[b + i]
    BY <2>4, <2>5
  <2>8. ASSUME NEW i \in 1 .. n
        PROVE  given[i] = Q!Whole(OnTheWire(given[i].rr.rrid, expected[i]))
    <3> HIDE DEF list, n, b, expected, given
    <3>1. given[i] = AP!Whole(list[i])
      BY <2>3, <2>7 DEF given
    <3>2. list[i] = OfRecord(expected[i], b + i \in P)
      BY <2>7
    <3>3. list[i] = OnTheWire(list[i].rrid, expected[i])
      BY <3>2 DEF OfRecord, OnTheWire
    <3>4. given[i].rr = list[i] /\ given[i] = Q!Whole(list[i])
      BY <3>1 DEF AP!Whole, Q!Whole
    <3> QED
      BY <3>3, <3>4
  <2>9. DOMAIN given = 1 .. n /\ Len(given) = n
    <3> HIDE DEF list, n
    <3> QED
      BY <2>3, <2>6, <2>7
  <2> QED
    BY <2>7, <2>8, <2>9
<1> QED
  BY <1>1, SpecIInv, PTL

\* Then, too, the daemon's next query always asks for something, whichever of
\* the records came in the first response and however far it got.
THEOREM FollowUpNotEmptyHolds ==
  ASSUME IdsApart, HashesApart
  PROVE  Spec => [](Advertised => FollowUpNotEmpty)
<1>1. IInv => (Advertised => FollowUpNotEmpty)
  <2> SUFFICES ASSUME IInv, Advertised, NEW q \in outgoing \cup queries, q.followup
               PROVE  q.asks # <<>>
    BY DEF FollowUpNotEmpty, Q!FollowUpNotEmpty
  <2>1. q \in outgoing \/ q \in Unanswered
    BY DEF Unanswered
  <2> QED
    BY <2>1 DEF IInv, Exchanges, AP!Exchange, AP!OutgoingDue, AP!QueryDue, AP!Due
<1> QED
  BY <1>1, SpecIInv, PTL
-----------------------------------------------------------------------------
(***************************************************************************)
(* Neither daemon stops, but for the responder that does not know what it  *)
(* is asked for.  This takes messages that can be made to fit: what is     *)
(* left when every record that may be fragmented is a fragment without     *)
(* data has room in a datagram.                                            *)
(***************************************************************************)
MayBePart(rr) == rr.hash # 0 /\ rr.rdsize > 0

Smallest(m) ==
  [i \in DOMAIN m |->
     IF MayBePart(m[i]) THEN R!Part(m[i], m[i].hash, 0, R!RRSize(m[i])) ELSE R!Whole(m[i])]

Shrinkable == \A m \in Messages : R!MessageSize(Smallest(m)) <= R!Limit

\* A message that is still too long has a record left to replace.
LEMMA ShrinkFinds ==
  ASSUME Shrinkable, Inv, RInv, Exact, R!Shrink
  PROVE  R!Candidates # {}
<1> SUFFICES ASSUME R!Candidates = {} PROVE FALSE
  OBVIOUS
<1> DEFINE m == wanted[query]
<1>1. rpc = "shrink" /\ cur_size > R!Limit
  BY Zenon DEF R!Shrink
<1>2. m \in Messages
  BY <1>1, QueryInHand
<1>3. message \in Seq(RP!Items) /\ rrids \in Seq(RP!Rrids) /\ Len(rrids) = Len(message)
      /\ cur_size \in Int /\ cur_size = RP!SizeUpTo(message, Len(message))
  BY <1>1 DEF RInv, RP!Inv, RP!Shape, RP!SizesInv
<1>4. R!MessageSize(message) = cur_size
  <2>1. RP!MessageSize(message) = RP!SizeUpTo(message, Len(message))
    BY <1>3, ResponderSide, RP!WholeMessage
  <2> QED
    BY <1>3, <2>1, SameResponder
<1>5. /\ DOMAIN message = DOMAIN m
      /\ \A i \in DOMAIN rrids : rrids[i] = 0 => m[i].hash = 0 \/ message[i].isRRFrag
      /\ \A i \in DOMAIN m : ItemOf(message, m, i)
  BY <1>1, ResponseFields DEF Exact, InProgress, IsResponse
<1>6. m \in Seq(R!Record)
  BY <1>2, PartsAssumption DEF R!ResponderAssumption
<1>7. DOMAIN rrids = DOMAIN m /\ DOMAIN m = 1 .. Len(message) /\ Len(m) = Len(message)
  BY <1>3, <1>5, <1>6
<1> HIDE DEF m
<1>8. ASSUME NEW i \in DOMAIN m
      PROVE  R!ItemSize(message[i]) = R!ItemSize(Smallest(m)[i])
  <2>1. ItemOf(message, m, i) /\ message[i].rr = m[i]
    BY <1>5 DEF ItemOf
  <2>2. CASE message[i].isRRFrag
    <3>1. i \in Parted(message)
      BY <2>1, <2>2 DEF ItemOf, Parted
    <3>2. MayBePart(m[i]) /\ message[i].fragsize \in Nat
      BY <2>1, <3>1 DEF ItemOf, MayBePart
    <3>3. ~(message[i].fragsize > 0)
      BY <1>1, <1>5, <2>2 DEF RInv, RP!UsableInv, RP!HasData
    <3>4. message[i].fragsize = 0
      BY <3>2, <3>3
    <3>5. Smallest(m)[i].isRRFrag /\ Smallest(m)[i].fragsize = 0
      BY <3>2 DEF Smallest, R!Part
    <3> QED
      BY <2>2, <3>4, <3>5 DEF R!ItemSize
  <2>3. CASE ~message[i].isRRFrag
    <3>1. message[i] = R!Whole(m[i])
      BY <2>1, <2>3 DEF ItemOf, Parted
    <3>2. ~MayBePart(m[i])
      <4> SUFFICES ASSUME MayBePart(m[i]) PROVE FALSE
        OBVIOUS
      <4>1. rrids[i] # 0 /\ i \in DOMAIN rrids
        BY <1>5, <1>7, <2>3 DEF MayBePart
      <4>2. R!CachedRecord(i) = m[i]
        BY <2>1, <4>1 DEF RInv, RP!Inv, RP!RridsNamed, R!CachedRecord
      <4>3. i \in R!Candidates
        BY <4>1, <4>2 DEF R!Candidates, MayBePart
      <4> QED
        BY <4>3
    <3>3. Smallest(m)[i] = R!Whole(m[i])
      BY <3>2 DEF Smallest
    <3> QED
      BY <3>1, <3>3
  <2> QED
    BY <2>2, <2>3
<1>9. Len(Smallest(m)) = Len(message)
  <2>1. DOMAIN Smallest(m) = 1 .. Len(message) /\ Len(message) \in Nat
    BY <1>3, <1>7 DEF Smallest
  <2> QED
    BY <2>1
<1>10. R!MessageSize(Smallest(m)) = R!MessageSize(message)
  <2>1. [i \in 1 .. Len(Smallest(m)) |-> R!ItemSize(Smallest(m)[i])]
          = [i \in 1 .. Len(message) |-> R!ItemSize(message[i])]
    BY <1>7, <1>8, <1>9
  <2> QED
    BY Zenon, <2>1 DEF R!MessageSize
<1>11. cur_size <= R!Limit
  BY <1>2, <1>4, <1>10 DEF Shrinkable
<1>12. R!Limit \in Int
  BY PartsAssumption DEF R!ResponderAssumption, R!Limit, R!DNSMESSAGEHEADER
<1> QED
  BY <1>1, <1>3, <1>11, <1>12

\* The responder runs, or has exited since it restarted.
Healthy == rstatus \in {"running", "exited"} /\ (rstatus = "exited" => restarts > 0)

\* Only a responder that was restarted is asked for what it does not know, and
\* the handler always finds a record to replace.
LEMMA NextHealthy ==
  ASSUME IdsApart, HashesApart, Shrinkable, IInv, Advertised, Healthy, [Next]_vars
  PROVE  Healthy'
<1>1. Inv /\ RInv /\ Exact /\ Exchanges /\ restarts \in Nat
  BY DEF IInv, Exact, Remembered
<1>2. UNCHANGED <<rstatus, restarts>> => Healthy'
  BY DEF Healthy
<1>3. CASE UNCHANGED vars
  BY <1>2, <1>3 DEF vars, responder
<1>4. CASE Requester
  BY <1>2, <1>4 DEF Requester, responder
<1>5. ASSUME NEW q \in queries, Start(q) PROVE Healthy'
  BY <1>2, <1>5 DEF Start, R!Start
<1>6. ASSUME NEW q \in queries, Serve(q) PROVE Healthy'
  <2>1. q.followup /\ restarts' = restarts
    BY <1>6 DEF Serve
  <2>2. q.t \in Transactions
    BY <1>1 DEF Inv, Awaited, Asking, Of
  <2>3. \A i \in DOMAIN q.asks :
          /\ q.t \in DOMAIN sent
          /\ \E k \in Parted(sent[q.t]) : sent[q.t][k].rrid = q.asks[i].rrid
    BY <1>1, <2>1, <2>2, AsksKnown
  <2>4. restarts = 0 => \A i \in DOMAIN q.asks : Known(q.asks[i].rrid)
    BY <1>1, <2>3 DEF Exact, Remembered, Known
  <2>5. \A i \in DOMAIN q.asks :
          Known(q.asks[i].rrid) => responder_cache[q.asks[i].rrid].at # R!Freed
    BY <1>1 DEF Exact, Cached, Known, R!Copy, R!Freed
  <2>6. /\ rstatus' = rstatus \/ rstatus' = "exited"
        /\ (\A i \in DOMAIN q.asks : Known(q.asks[i].rrid)) => rstatus' = rstatus
    BY <1>6, <2>5 DEF Serve, AllKnown
  <2>7. rstatus' = rstatus \/ (rstatus' = "exited" /\ restarts # 0)
    BY <2>4, <2>6
  <2> QED
    BY <1>1, <1>2, <2>1, <2>7 DEF Healthy
<1>7. CASE Handle
  <2>1. rstatus' = rstatus /\ restarts' = restarts
    BY <1>1, <1>7, HandleExact, ShrinkFinds DEF Handle
  <2> QED
    BY <1>2, <2>1
<1>8. CASE Send
  BY <1>1, <1>8, SendExact DEF Send, Healthy
<1>9. CASE Restart
  BY <1>1, <1>9, RestartExact DEF Healthy
<1> QED
  BY <1>3, <1>4, <1>5, <1>6, <1>7, <1>8, <1>9 DEF Next, Responder

\* So it goes on.
LEMMA SpecHealthy ==
  ASSUME IdsApart, HashesApart, Shrinkable
  PROVE  Spec => [](Advertised => Healthy)
<1>1. Init => Healthy
  BY DEF Init, Healthy
<1>2. IInv /\ [Next]_vars /\ (Advertised => Healthy) => (Advertised' => Healthy')
  <2> SUFFICES ASSUME IInv, [Next]_vars, Advertised => Healthy, Advertised' PROVE Healthy'
    OBVIOUS
  <2>1. Advertised
    BY NextExact DEF IInv
  <2> QED
    BY <2>1, NextHealthy
<1> QED
  BY <1>1, <1>2, SpecIInv, PTL DEF Spec

\* The places of a first response, as a requester has it, have the items sent.
LEMMA WireItemsFields ==
  ASSUME NEW m \in Messages, NEW items, DOMAIN items = DOMAIN m,
         NEW p \in AP!Places(WireItems(m, items))
  PROVE  \E k \in DOMAIN items : WireItems(m, items)[p[1]][p[2]] = Item(items[k])
<1> DEFINE records == [i \in DOMAIN items |-> Item(items[i])]
<1>1. PICK s \in 0 .. 2 : p \in {s} \X DOMAIN WireItems(m, items)[s]
  BY DEF AP!Places, AP!Sections
<1>2. WireItems(m, items) = BySection(m, records) /\ DOMAIN records = DOMAIN m
  BY DEF WireItems
<1>3. \A i \in DOMAIN m : records[i] = Item(items[i])
  OBVIOUS
<1> HIDE DEF records
<1>4. LET list == BySection(m, records)[s] IN
      /\ list \in Seq({records[i] : i \in DOMAIN m})
      /\ Len(list) = SECTIONS[m][s + 1] /\ DOMAIN list = 1 .. SECTIONS[m][s + 1]
      /\ \A i \in 1 .. SECTIONS[m][s + 1] :
           Base(m, s) + i \in DOMAIN m /\ list[i] = records[Base(m, s) + i]
  BY SectionFields
<1>5. p[1] = s /\ p[2] \in 1 .. SECTIONS[m][s + 1]
      /\ WireItems(m, items)[p[1]][p[2]] = records[Base(m, s) + p[2]]
      /\ Base(m, s) + p[2] \in DOMAIN m
  BY <1>1, <1>2, <1>4
<1> QED
  BY <1>3, <1>5

\* One that has a fragment was sent, with that fragment.
LEMMA FragmentSent ==
  ASSUME RInv, SentOnce, NEW t \in Transactions, NEW p \in AP!Places(WireFirst[t]),
         WireFirst[t][p[1]][p[2]].isRRFrag
  PROVE  \E f \in Parts(t) : f.fragsize = WireFirst[t][p[1]][p[2]].fragsize
<1> DEFINE w == wanted[t]
           items == AsSent(t)
<1>1. w \in Messages
  BY DEF RInv, RP!Inv, RP!Shape
<1>2. IsResponse(items, w)
  BY <1>1, WholeIsResponse DEF SentOnce, AsSent
<1>3. WireFirst[t] = WireItems(w, items)
  BY DEF WireFirst
<1>4. PICK k \in DOMAIN items : WireFirst[t][p[1]][p[2]] = Item(items[k])
  <2> HIDE DEF w, items
  <2>1. DOMAIN items = DOMAIN w
    BY <1>2 DEF IsResponse
  <2> QED
    BY <1>1, <1>3, <2>1, WireItemsFields
<1>5. items[k].isRRFrag /\ Item(items[k]).fragsize = items[k].fragsize
  <2>1. CASE items[k].isRRFrag
    BY <2>1 DEF Item
  <2>2. CASE ~items[k].isRRFrag
    BY <1>4, <2>2 DEF Item, Q!Whole
  <2> QED
    BY <2>1, <2>2
<1>6. t \in DOMAIN sent
  <2> SUFFICES ASSUME t \notin DOMAIN sent PROVE FALSE
    OBVIOUS
  <2>1. items = WholeItems(w)
    BY DEF AsSent
  <2>2. ~items[k].isRRFrag
    BY <2>1 DEF WholeItems, R!Whole
  <2> QED
    BY <1>5, <2>2
<1>7. items[k] \in R!Fragments(sent[t]) /\ items = sent[t]
  BY <1>5, <1>6 DEF AsSent, R!Fragments, R!ToSet
<1>8. items[k] \in Parts(t)
  BY <1>6, <1>7 DEF Parts
<1> QED
  BY <1>4, <1>5, <1>8

\* What Requester is shown to stop over, in terms of what was sent.
LEMMA EndsAsKnown ==
  ASSUME IInv, Advertised
  PROVE  \/ status = "running"
         \/ status = "hung" /\ \E f \in Parts(packet) : f.fragsize = 0
         \/ status = "undefined" /\ \E t \in Transactions :
              SECTIONS[wanted[t]][1] = 0 /\ Parts(t) # {}
<1>1. RInv /\ SentOnce /\ AP!Ended
  BY DEF IInv, Exact, Exchanges, AP!Exchange
<1>2. CASE status = "hung" /\ packet \in Transactions /\ AP!Hollow(WireFirst[packet])
  <2>1. PICK p \in AP!Places(WireFirst[packet]) :
          /\ WireFirst[packet][p[1]][p[2]].isRRFrag
          /\ WireFirst[packet][p[1]][p[2]].fragsize = 0
    BY <1>2 DEF AP!Hollow
  <2>2. \E f \in Parts(packet) : f.fragsize = WireFirst[packet][p[1]][p[2]].fragsize
    BY <1>1, <1>2, <2>1, FragmentSent
  <2> QED
    BY <1>2, <2>1, <2>2
<1>3. ASSUME status = "undefined", NEW t \in Transactions,
             WireAnswer[t][0] = <<>>, AP!ContainsRRFrag(WireFirst[t])
      PROVE  SECTIONS[wanted[t]][1] = 0 /\ Parts(t) # {}
  <2>1. wanted[t] \in Messages
    BY <1>1 DEF RInv, RP!Inv, RP!Shape
  <2>2. PICK p \in AP!Places(WireFirst[t]) : WireFirst[t][p[1]][p[2]].isRRFrag
    BY <1>3 DEF AP!ContainsRRFrag
  <2>3. Parts(t) # {}
    BY <1>1, <2>2, FragmentSent
  <2> DEFINE P == Parted(AsSent(t))
             w == wanted[t]
  <2>4. Wire(w, P)[0] = <<>>
    BY <1>3 DEF WireAnswer
  <2>5. Len(Wire(w, P)[0]) = SECTIONS[w][1]
    <3> HIDE DEF P, w
    <3>1. w \in Messages /\ 0 \in 0 .. 2 /\ 0 + 1 = 1
      BY <2>1 DEF w
    <3>2. Len(Wire(w, P)[0]) = SECTIONS[w][0 + 1]
      BY ONLY <3>1, WireFields
    <3> QED
      BY <3>1, <3>2
  <2>6. SECTIONS[w][1] = 0
    <3> HIDE DEF P, w
    <3> QED
      BY <2>4, <2>5
  <2> QED
    BY <2>3, <2>6
<1> QED
  BY <1>1, <1>2, <1>3 DEF AP!Ended, AP!Running

\* Then two kinds of first responses alone stop requester's daemon, one with a
\* fragment without data (copy_section doubles a buffer of no bytes) and one
\* with a fragment and no answer records (copy_message_contents makes no array
\* for what the follow-up is answered with), and nothing stops responder's but
\* an rrid it does not know since it restarted (process_dns_message): when
\* every message can be made to fit, insert_into_state_and_construct_map always
\* finds a record to replace.
THEOREM StopsOnlyForgetfulHolds ==
  ASSUME IdsApart, HashesApart, Shrinkable
  PROVE  Spec => [](Advertised => StopsOnlyForgetful)
<1>1. IInv /\ (Advertised => Healthy) => (Advertised => StopsOnlyForgetful)
  BY EndsAsKnown DEF Healthy, StopsOnlyForgetful
<1> QED
  BY <1>1, SpecIInv, SpecHealthy, PTL
-----------------------------------------------------------------------------
(***************************************************************************)
(* A client that waits is not forgotten: as long as both daemons run and   *)
(* responder's has not restarted, its query, a response to it or the       *)
(* handling of one is somewhere in the system.                             *)
(***************************************************************************)
Everywhere ==
  Of(outgoing) \cup Of(queries) \cup Of(responses) \cup At(packet) \cup InHand

Undamaged == status = "running" /\ rstatus = "running" /\ restarts = 0

Going == Undamaged => Asking \subseteq Everywhere

\* Something moves from one place to another.
LEMMA Moved ==
  ASSUME NEW channel, NEW m
  PROVE  /\ Of(channel) \subseteq Of(channel \ {m}) \cup {m.t}
         /\ Of(channel \cup {m}) = Of(channel) \cup {m.t}
BY DEF Of

\* Responses with fragments are never dropped, so the requester's steps leave
\* something of each query.
LEMMA RequesterGoing ==
  ASSUME IInv, Advertised, Asking \subseteq Everywhere, Requester, status' = "running"
  PROVE  Asking' \subseteq Everywhere'
<1>1. UNCHANGED <<responder, restarts>> /\ UNCHANGED InHand
  BY DEF Requester, responder, InHand
<1>2. ASSUME NEW t \in Transactions, Q!Ask(t) PROVE Asking' \subseteq Everywhere'
  <2>1. Asking' \subseteq Asking \cup {t}
    BY <1>2 DEF Q!Ask, Asking
  <2>2. outgoing' = outgoing \cup {Q!Query(t, <<>>, FALSE)} /\ Q!Query(t, <<>>, FALSE).t = t
        /\ UNCHANGED <<queries, responses, packet>>
    BY <1>2, Fields DEF Q!Ask, Q!handler
  <2>3. Of(outgoing') = Of(outgoing) \cup {t}
    BY <2>2, Moved
  <2> QED
    BY <1>1, <2>1, <2>2, <2>3 DEF Everywhere, Of
<1>3. ASSUME NEW q \in outgoing, Q!Register(q) PROVE Asking' \subseteq Everywhere'
  <2>1. outgoing' = outgoing \ {q} /\ queries' = queries \cup {q}
        /\ UNCHANGED <<client, responses, packet>>
    BY <1>3 DEF Q!Register, Q!clients, Q!handler
  <2>2. Of(outgoing) \subseteq Of(outgoing') \cup {q.t} /\ Of(queries') = Of(queries) \cup {q.t}
    BY <2>1, Moved
  <2> QED
    BY <1>1, <2>1, <2>2 DEF Everywhere, Of, Asking
<1>4. ASSUME NEW m \in responses, Q!Accept(m) PROVE Asking' \subseteq Everywhere'
  <2>1. responses' = responses \ {m} /\ UNCHANGED <<outgoing, queries, packet>>
        /\ Asking' \subseteq Asking \ {m.t}
    <3>1. responses' = responses \ {m} /\ UNCHANGED <<outgoing, queries, packet>>
      BY <1>4, TakenOnce DEF Q!Accept, Q!handler
    <3>2. m.t \in Asking
      BY DEF IInv, Inv, Awaited, Of
    <3>3. client' = [client EXCEPT ![m.t] = "answered"]
      BY <1>4, <3>2 DEF Q!Accept, Asking
    <3>4. Asking' \subseteq Asking \ {m.t}
      BY <3>2, <3>3 DEF IInv, Inv, Handlers, Asking
    <3> QED
      BY <3>1, <3>4
  <2>2. Of(responses) \subseteq Of(responses') \cup {m.t}
    BY <2>1, Moved
  <2> QED
    BY <1>1, <2>1, <2>2 DEF Everywhere, Of
<1>5. ASSUME NEW m \in responses, Q!Drop(m) PROVE FALSE
  <2>1. ~Q!Awaited(m) /\ Q!ContainsRRFrag(m.items)
    BY <1>5 DEF Q!Drop
  <2>2. ~AP!Awaited(m) /\ AP!ContainsRRFrag(m.items)
    BY <2>1, SameOperators
  <2> QED
    BY <2>2, FarSide, AP!FragmentsAwaited DEF IInv, Exchanges
<1>6. ASSUME NEW m \in responses, Q!Receive(m) PROVE Asking' \subseteq Everywhere'
  <2>1. responses' = responses \ {m} /\ packet' = m.t /\ pc = "idle"
        /\ UNCHANGED <<client, outgoing, queries>>
    BY <1>6, TakenOnce DEF Q!Receive, Q!clients
  <2>2. Of(responses) \subseteq Of(responses') \cup {m.t}
    BY <2>1, Moved
  <2>3. At(packet) = {} /\ (m.t # "none" => At(packet') = {m.t}) /\ "none" \notin Asking
    BY <2>1, SystemAssumption DEF IInv, Inv, Handlers, At, Asking
  <2> QED
    BY <1>1, <2>1, <2>2, <2>3 DEF Everywhere, Of, Asking
<1>7. CASE Q!CopyRRFrag \/ Q!CopyRR \/ Q!StartPacking \/ Q!PackOne
  <2>1. UNCHANGED <<client, outgoing, queries, responses, packet>>
    BY <1>7 DEF Q!CopyRRFrag, Q!CopyRR, Q!StartPacking, Q!PackOne, Q!clients, Q!network
  <2> QED
    BY <1>1, <2>1 DEF Everywhere, Of, Asking, At
<1>8. CASE Q!Complete \/ Q!SendFollowUp
  <2>1. /\ UNCHANGED <<client, queries>>
        /\ \E x : x.t = packet /\
             \/ responses' = responses \cup {x} /\ outgoing' = outgoing
             \/ outgoing' = outgoing \cup {x} /\ responses' = responses
    BY <1>8, Fields DEF Q!Complete, Q!SendFollowUp, Q!clients
  <2>2. PICK x : x.t = packet /\
           \/ responses' = responses \cup {x} /\ outgoing' = outgoing
           \/ outgoing' = outgoing \cup {x} /\ responses' = responses
    BY <2>1
  <2>3. /\ Of(responses \cup {x}) = Of(responses) \cup {packet}
        /\ Of(outgoing \cup {x}) = Of(outgoing) \cup {packet}
    BY <2>2, Moved
  <2>4. At(packet) \subseteq {packet}
    BY DEF At
  <2> QED
    BY <1>1, <2>1, <2>2, <2>3, <2>4 DEF Everywhere, Of, Asking
<1> QED
  BY <1>2, <1>3, <1>4, <1>5, <1>6, <1>7, <1>8 DEF Requester, Q!Daemon

\* So do the responder's.
LEMMA ResponderGoing ==
  ASSUME HashesApart, IInv, Asking \subseteq Everywhere, Responder, rstatus' = "running"
  PROVE  Asking' \subseteq Everywhere'
<1>1. ASSUME NEW q \in queries, Start(q) \/ Serve(q) PROVE Asking' \subseteq Everywhere'
  <2>1. /\ queries' = queries \ {q}
        /\ UNCHANGED <<client, outgoing, packet, query>>
    BY <1>1 DEF Start, Serve, R!Start, R!handler
  <2>2. \/ internal' = internal \cup {q.t} /\ responses' = responses
        \/ internal' = internal /\ \E m : m.t = q.t /\ responses' = responses \cup {m}
    <3>1. CASE Start(q)
      BY <3>1 DEF Start, R!Start
    <3>2. CASE Serve(q)
      BY <3>2, Fields DEF Serve
    <3> QED
      BY <1>1, <3>1, <3>2
  <2>3. Of(queries) \subseteq Of(queries') \cup {q.t}
    BY <2>1, Moved
  <2>4. CASE internal' = internal \cup {q.t} /\ responses' = responses
    BY <2>1, <2>3, <2>4 DEF Everywhere, Of, Asking, At, InHand
  <2>5. ASSUME internal' = internal, NEW m, m.t = q.t, responses' = responses \cup {m}
        PROVE  Asking' \subseteq Everywhere'
    <3>1. Of(responses') = Of(responses) \cup {q.t}
      BY <2>5, Moved
    <3> QED
      BY <2>1, <2>3, <2>5, <3>1 DEF Everywhere, Of, Asking, At, InHand
  <2> QED
    BY <2>2, <2>4, <2>5
<1>2. CASE Handle
  <2>1. UNCHANGED <<client, outgoing, queries, responses, packet>>
    BY <1>2 DEF Handle, requester
  <2>2. InHand' = InHand
    BY <1>2, HandleExact DEF IInv
  <2> QED
    BY <2>1, <2>2 DEF Everywhere, Of, Asking, At
<1>3. CASE Send
  <2>1. /\ responses' = responses \cup {FirstResponse(query, message)}
        /\ UNCHANGED <<client, outgoing, queries, packet, internal>>
    BY <1>3 DEF Send, R!Send
  <2>2. FirstResponse(query, message).t = query
    BY Fields DEF FirstResponse
  <2>3. Of(responses') = Of(responses) \cup {query} /\ At(query) \subseteq {query}
    BY <2>1, <2>2, Moved DEF At
  <2> QED
    BY <2>1, <2>3 DEF Everywhere, Of, Asking, At, InHand
<1> QED
  BY <1>1, <1>2, <1>3 DEF Responder

\* A daemon that has stopped does not run again without a restart.
LEMMA NextGoing ==
  ASSUME HashesApart, IInv, Advertised, Going, [Next]_vars
  PROVE  Going'
<1> SUFFICES ASSUME Undamaged' PROVE Asking' \subseteq Everywhere'
  BY DEF Going
<1>1. CASE UNCHANGED vars
  BY <1>1 DEF vars, requester, responder, Going, Undamaged, Asking, Everywhere, Of, At, InHand
<1>2. CASE Requester
  <2>1. UNCHANGED <<rstatus, restarts>>
    BY <1>2 DEF Requester, responder
  <2>2. status = "running"
    <3>1. ASSUME NEW t \in Transactions, Q!Ask(t) PROVE status = "running"
      BY <3>1 DEF Q!Ask, Undamaged
    <3>2. CASE Q!Daemon
      BY <3>2 DEF Q!Daemon, Q!Register, Q!Accept, Q!Drop, Q!Receive, Q!CopyRRFrag, Q!CopyRR,
         Q!Complete, Q!StartPacking, Q!PackOne, Q!SendFollowUp, Q!Running
    <3> QED
      BY <1>2, <3>1, <3>2 DEF Requester
  <2> QED
    BY <1>2, <2>1, <2>2, RequesterGoing DEF Going, Undamaged
<1>3. CASE Responder
  <2>1. UNCHANGED <<status, restarts>>
    BY <1>3 DEF Responder, Start, Serve, Handle, Send, requester
  <2>2. rstatus = "running"
    BY <1>3 DEF Responder, Start, Serve, Handle, Send, R!Start, R!Answer, R!Insert, R!Inserted,
       R!Shrink, R!Fits, R!Send, R!Running
  <2> QED
    BY <1>3, <2>1, <2>2, ResponderGoing DEF Going, Undamaged
<1>4. CASE Restart
  BY <1>4 DEF Restart, Undamaged, IInv, Exact, Remembered
<1> QED
  BY <1>1, <1>2, <1>3, <1>4 DEF Next

\* Then requester keeps a PartialDNSMessage only while something of its id is
\* under way, as long as its daemon runs and the responder's did not restart:
\* no response with fragments is dropped (process_dns_message), and each step
\* leaves a query, a response or a packet in hand for every client that waits.
THEOREM StateReleasedHolds ==
  ASSUME IdsApart, HashesApart, Shrinkable
  PROVE  Spec => [](Advertised => StateReleased)
<1>1. Init => Going
  BY DEF Init, Going, Asking
<1>2. IInv /\ [Next]_vars /\ (Advertised => Going) => (Advertised' => Going')
  <2> SUFFICES ASSUME IInv, [Next]_vars, Advertised => Going, Advertised' PROVE Going'
    OBVIOUS
  <2>1. Advertised
    BY NextExact DEF IInv
  <2> QED
    BY <2>1, NextGoing
<1>3. IInv /\ (Advertised => Healthy) /\ (Advertised => Going) => (Advertised => StateReleased)
  <2> SUFFICES ASSUME IInv, Healthy, Going, status = "running", restarts = 0,
                      NEW id \in DOMAIN requester_state
               PROVE  \E t \in Transactions : ID[t] = id /\ UnderWay(t)
    BY DEF StateReleased
  <2>1. PICK t \in Transactions : ID[t] = id /\ client[t] = "waiting"
    BY DEF IInv, Inv, KeptForWaiting, Q!KeptForWaiting
  <2>2. t \in Everywhere
    BY <2>1 DEF Healthy, Going, Undamaged, Asking
  <2>3. ASSUME t \in Of(outgoing) \cup Of(queries) \cup Of(responses) \cup At(packet)
        PROVE  Q!UnderWay(t) # {}
    <3>1. CASE t \in Of(outgoing)
      BY <3>1 DEF Of, Q!UnderWay
    <3>2. CASE t \in Of(queries)
      BY <3>2 DEF Of, Q!UnderWay
    <3>3. CASE t \in Of(responses)
      BY <3>3 DEF Of, Q!UnderWay
    <3>4. CASE t \in At(packet)
      BY <3>4 DEF At, Q!UnderWay
    <3> QED
      BY <2>3, <3>1, <3>2, <3>3, <3>4
  <2>4. t \in InHand => t \in internal \/ query = t
    BY DEF InHand, At
  <2> QED
    BY <2>1, <2>2, <2>3, <2>4 DEF Everywhere, UnderWay
<1> QED
  BY <1>1, <1>2, <1>3, SpecIInv, SpecHealthy, PTL DEF Spec
=============================================================================
