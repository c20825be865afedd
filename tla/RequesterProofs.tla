-------------------------- MODULE RequesterProofs --------------------------
(***************************************************************************)
(* Requester, for any number of clients, ids, answers and sizes: the       *)
(* exchange is stop-and-wait as long as the network does not duplicate,    *)
(* and the counters of a PartialDNSMessage are true even if it does; then  *)
(* what a PartialDNSMessage holds at each stage of an exchange.            *)
(***************************************************************************)
EXTENDS Requester, Lemmas, SequenceTheorems

Pending == {"waiting", "gone"}

\* No two things of one query are under way, and its client had asked for it
\* and was not given an answer yet.
One ==
  /\ \A q, r \in outgoing : q.t = r.t => q = r
  /\ \A q, r \in queries : q.t = r.t => q = r
  /\ \A m, n \in responses : m.t = n.t => m = n
  /\ \A q \in outgoing, r \in queries : q.t # r.t
  /\ \A q \in outgoing \cup queries, m \in responses : q.t # m.t
  /\ \A x \in outgoing \cup queries \cup responses :
       x.t \in Transactions /\ client[x.t] \in Pending /\ x.t # packet
  /\ packet # NONE => packet \in Transactions /\ client[packet] \in Pending
  /\ pc = "idle" <=> packet = NONE
  /\ client \in [Transactions -> Pending \cup {"new", "answered"}]
  /\ copies \in Nat

LEMMA InitOne == Init => One
BY DEF Init, One

\* A query's fields.
LEMMA Fields ==
  ASSUME NEW t, NEW asks, NEW followup, NEW items
  PROVE  Query(t, asks, followup).t = t /\ Response(t, items).t = t
BY DEF Query, Response

\* Where the network does not duplicate, what is delivered is gone.
LEMMA TakenOnce ==
  ASSUME DUPLICATES = 0, copies \in Nat, NEW channel, NEW left, NEW m, Taken(channel, left, m)
  PROVE  left = channel \ {m} /\ UNCHANGED copies
BY DEF Taken

LEMMA NextOne ==
  ASSUME DUPLICATES = 0, One, [Next]_vars
  PROVE  One'
<1>1. CASE UNCHANGED vars
  BY <1>1 DEF One, vars, clients, network, handler
<1>2. ASSUME NEW t \in Transactions, Ask(t) PROVE One'
  <2> DEFINE q == Query(t, <<>>, FALSE)
  <2>1. /\ q.t = t /\ outgoing' = outgoing \cup {q}
        /\ client[t] = "new" /\ client' = [client EXCEPT ![t] = "waiting"]
        /\ UNCHANGED <<queries, responses, copies, packet, pc>>
    BY <1>2, Fields DEF Ask, handler
  <2> HIDE DEF q
  <2>2. client' \in [Transactions -> Pending \cup {"new", "answered"}] /\ client'[t] = "waiting"
        /\ \A u \in Transactions : u # t => client'[u] = client[u]
    BY <2>1 DEF One, Pending
  <2>3. t # packet /\ \A x \in outgoing \cup queries \cup responses : x.t # t
    BY <2>1, RequesterAssumption DEF One, Pending
  <2> QED
    BY <2>1, <2>2, <2>3 DEF One, Pending
<1>3. ASSUME NEW t \in Transactions, GiveUp(t) PROVE One'
  <2>1. /\ client[t] = "waiting" /\ client' = [client EXCEPT ![t] = "gone"]
        /\ UNCHANGED <<outgoing, queries, responses, copies, packet, pc>>
    BY <1>3 DEF GiveUp, network, handler
  <2>2. client' \in [Transactions -> Pending \cup {"new", "answered"}] /\ client'[t] \in Pending
        /\ \A u \in Transactions : u # t => client'[u] = client[u]
    BY <2>1 DEF One, Pending
  <2> QED
    BY <2>1, <2>2 DEF One
<1>4. ASSUME NEW q \in outgoing, Register(q) PROVE One'
  BY <1>4 DEF Register, One, clients, handler
<1>5. ASSUME NEW q \in queries, Respond(q) PROVE One'
  <2>1. PICK m : m.t = q.t /\ responses' = responses \cup {m}
    BY <1>5, Fields DEF Respond
  <2>2. queries' = queries \ {q} /\ UNCHANGED <<client, outgoing, copies, packet, pc>>
    BY <1>5, TakenOnce DEF Respond, clients, handler, One
  <2> QED
    BY <2>1, <2>2 DEF One
<1>6. ASSUME NEW m \in responses, Accept(m) PROVE One'
  <2>1. responses' = responses \ {m} /\ UNCHANGED <<outgoing, queries, copies, packet, pc>>
    BY <1>6, TakenOnce DEF Accept, handler, One
  <2>2. pc = "idle" /\ (client' = client \/ client' = [client EXCEPT ![m.t] = "answered"])
    BY <1>6 DEF Accept
  <2>3. client' \in [Transactions -> Pending \cup {"new", "answered"}]
        /\ \A u \in Transactions : u # m.t => client'[u] = client[u]
    BY <2>2 DEF One
  <2>4. \A x \in outgoing' \cup queries' \cup responses' : x.t # m.t
    BY <2>1 DEF One
  <2> QED
    BY <2>1, <2>2, <2>3, <2>4 DEF One
<1>7. ASSUME NEW m \in responses, Drop(m) PROVE One'
  BY <1>7 DEF Drop, One, clients, handler
<1>8. ASSUME NEW m \in responses, Receive(m) PROVE One'
  <2>1. responses' = responses \ {m} /\ UNCHANGED <<client, outgoing, queries, copies>>
    BY <1>8, TakenOnce DEF Receive, clients, One
  <2>2. \/ UNCHANGED <<packet, pc>>
        \/ packet' = m.t /\ pc' = "copy"
    BY <1>8 DEF Receive
  <2>3. m.t \in Transactions /\ m.t # NONE /\ client[m.t] \in Pending /\ packet = NONE
    BY <1>8, RequesterAssumption DEF One, Receive
  <2> QED
    BY <2>1, <2>2, <2>3 DEF One
<1>9. CASE CopyRRFrag \/ CopyRR \/ PackOne
  BY <1>9 DEF CopyRRFrag, CopyRR, PackOne, One, clients, network
<1>10. CASE StartPacking
  BY <1>10 DEF StartPacking, One, clients, network
<1>11. CASE Complete
  <2>1. PICK m : m.t = packet /\ responses' = responses \cup {m}
    BY <1>11, Fields DEF Complete
  <2>2. pc = "copy" /\ packet' = NONE /\ pc' = "idle"
        /\ UNCHANGED <<client, outgoing, queries, copies>>
    BY <1>11 DEF Complete, clients
  <2> QED
    BY <2>1, <2>2, RequesterAssumption DEF One
<1>12. CASE SendFollowUp
  <2>1. PICK q : q.t = packet /\ outgoing' = outgoing \cup {q}
    BY <1>12, Fields DEF SendFollowUp
  <2>2. pc = "pack" /\ packet' = NONE /\ pc' = "idle"
        /\ UNCHANGED <<client, responses, queries, copies>>
    BY <1>12 DEF SendFollowUp, clients
  <2> QED
    BY <2>1, <2>2, RequesterAssumption DEF One
<1>13. CASE Lose
  BY <1>13 DEF Lose, One, clients, handler
<1> QED
  BY <1>1, <1>2, <1>3, <1>4, <1>5, <1>6, <1>7, <1>8, <1>9, <1>10, <1>11, <1>12, <1>13
     DEF Next, Daemon

\* While no datagram comes twice, one thing of a query is under way at most:
\* the daemon asks for more only when a response has been dealt with
\* (requester_thread), and a client that was answered is left alone.
THEOREM OneUnderWayHolds ==
  ASSUME DUPLICATES = 0
  PROVE  Spec => []OneUnderWay
<1>1. One => OneUnderWay
  <2> SUFFICES ASSUME One, NEW t \in Transactions
               PROVE  Cardinality(UnderWay(t)) <= (IF client[t] \in Pending THEN 1 ELSE 0)
    BY DEF OneUnderWay, Pending
  <2> DEFINE things == UnderWay(t)
  <2>1. \A x, y \in things : x = y
    BY DEF One, UnderWay
  <2>2. things # {} => client[t] \in Pending
    BY RequesterAssumption DEF One, UnderWay
  <2> HIDE DEF things
  <2>3. things = {} \/ \E x : things = {x}
    BY <2>1
  <2>4. Cardinality(things) = 0 \/ (Cardinality(things) = 1 /\ things # {})
    BY <2>3, FS_EmptySet, FS_Singleton
  <2> QED
    BY <2>2, <2>4 DEF things
<1>2. One /\ [Next]_vars => One'
  BY NextOne
<1> QED
  BY <1>1, <1>2, InitOne, PTL DEF Spec
-----------------------------------------------------------------------------
\* A list, whatever its elements are.
IsList(f) == f \in Seq(Range(f))

IsMessage(items) == \A s \in Sections : IsList(items[s])

IsSlot(slot) ==
  "is_complete" \in DOMAIN slot /\ slot.is_complete \in BOOLEAN

CompleteIn(list) == {i \in DOMAIN list : list[i].is_complete}

\* What is true of every PartialDNSMessage.
Counted(e) ==
  /\ e = [set |-> e.set, count |-> e.count, slots |-> e.slots, done |-> e.done]
  /\ e.count \in [Sections -> Nat] /\ e.done \in [Sections -> Nat]
  /\ e.slots = [s \in Sections |-> e.slots[s]]
  /\ \A s \in Sections :
       /\ IsList(e.slots[s]) /\ Len(e.slots[s]) = e.count[s]
       /\ \A i \in DOMAIN e.slots[s] : IsSlot(e.slots[s][i])
       /\ e.done[s] = Cardinality(CompleteIn(e.slots[s]))
       /\ ~e.set => e.slots[s] = <<>>

\* Messages consist of lists, and while a response is copied what is left of it
\* is one.
Messages ==
  /\ \A t \in Transactions : IsMessage(first[t])
  /\ \A q \in outgoing \cup queries : q.t \in Transactions /\ IsList(q.asks)
  /\ \A m \in responses : m.t \in Transactions /\ IsMessage(m.items)
  /\ IsList(asked)
  /\ pc # "idle" => packet \in Transactions /\ ID[packet] \in DOMAIN requester_state
  /\ pc = "copy" => IsList(todo) /\ \A i \in DOMAIN todo : todo[i].section \in Sections

States ==
  /\ requester_state = [id \in DOMAIN requester_state |-> requester_state[id]]
  /\ \A id \in DOMAIN requester_state : Counted(requester_state[id])

Inv == Messages /\ States
-----------------------------------------------------------------------------
\* Lists are those of any set of elements, have a length, and are mapped to lists.
LEMMA AnyList ==
  ASSUME NEW S, NEW f \in Seq(S)
  PROVE  IsList(f)
BY SeqOfRange DEF IsList

LEMMA ListLength ==
  ASSUME NEW f, IsList(f)
  PROVE  Len(f) \in Nat /\ DOMAIN f = 1 .. Len(f) /\ f = [i \in 1 .. Len(f) |-> f[i]]
BY LenProperties DEF IsList

LEMMA ListOf ==
  ASSUME NEW n \in Nat, NEW f, f = [i \in 1 .. n |-> f[i]]
  PROVE  IsList(f) /\ Len(f) = n
<1>1. f \in [1 .. n -> Range(f)]
  BY DEF Range
<1>2. f \in Seq(Range(f))
  BY <1>1, SeqDef
<1>3. DOMAIN f = 1 .. n /\ DOMAIN f = 1 .. Len(f) /\ Len(f) \in Nat
  BY <1>1, <1>2, LenProperties
<1> QED
  BY <1>2, <1>3 DEF IsList

LEMMA MappedList ==
  ASSUME NEW f, IsList(f), NEW g, g = [i \in DOMAIN f |-> g[i]]
  PROVE  IsList(g) /\ Len(g) = Len(f) /\ DOMAIN g = DOMAIN f
BY ListLength, ListOf

\* Each section searched is a list: its places can be numbered, and one of any
\* of them is the first.
LEMMA FirstIsOne ==
  ASSUME NEW S \in SUBSET (Sections \X Nat), S # {}
  PROVE  First(S) \in S /\ \A q \in S : Before(First(S), q)
<1> DEFINE sections == {p[1] : p \in S}
<1>1. PICK s \in sections : \A u \in sections : s <= u
  <2>1. sections \in SUBSET Nat /\ sections # {}
    BY DEF Sections
  <2> HIDE DEF sections
  <2> QED
    BY <2>1, LeastElement
<1> DEFINE places == {p[2] : p \in {q \in S : q[1] = s}}
<1>2. PICK i \in places : \A k \in places : i <= k
  <2>1. places \in SUBSET Nat /\ places # {}
    OBVIOUS
  <2> HIDE DEF places
  <2> QED
    BY <2>1, LeastElement
<1>3. PICK p \in S : p[1] = s /\ p[2] = i
  OBVIOUS
<1>4. \A q \in S : Before(p, q)
  <2> SUFFICES ASSUME NEW q \in S PROVE Before(p, q)
    OBVIOUS
  <2>1. s <= q[1] /\ s \in Nat /\ q[1] \in Nat /\ (q[1] = s => i <= q[2])
    BY <1>1, <1>2 DEF Sections
  <2> QED
    BY <1>3, <2>1 DEF Before
<1> QED
  BY <1>4 DEF First

LEMMA PlacesOfSlots ==
  ASSUME NEW e, Counted(e)
  PROVE  /\ Places(e.slots) \in SUBSET (Sections \X Nat)
         /\ \A p \in Places(e.slots) : p[1] \in Sections /\ p[2] \in DOMAIN e.slots[p[1]]
BY ListLength DEF Counted, Places

\* A slot is replaced, and one that becomes complete by that is counted.
LEMMA SlotReplaced ==
  ASSUME NEW e, Counted(e), NEW s \in Sections, NEW k \in DOMAIN e.slots[s],
         NEW slot, IsSlot(slot), e.slots[s][k].is_complete => slot.is_complete,
         NEW n, n = IF slot.is_complete /\ ~e.slots[s][k].is_complete
                    THEN e.done[s] + 1 ELSE e.done[s]
  PROVE  Counted([set |-> e.set, count |-> e.count,
                  slots |-> [e.slots EXCEPT ![s][k] = slot],
                  done |-> [e.done EXCEPT ![s] = n]])
<1> DEFINE old == e.slots[s]
           new == [old EXCEPT ![k] = slot]
<1>1. IsList(old) /\ Len(old) = e.count[s] /\ e.done[s] = Cardinality(CompleteIn(old))
      /\ (\A i \in DOMAIN old : IsSlot(old[i])) /\ e.done[s] \in Nat
      /\ (e.set \/ old = <<>>)
  BY DEF Counted
<1>2. k \in DOMAIN old /\ DOMAIN old = 1 .. Len(old)
  BY <1>1, ListLength
<1>3. new = [i \in DOMAIN old |-> new[i]] /\ new[k] = slot
      /\ \A i \in DOMAIN old : i # k => new[i] = old[i]
  BY <1>2
<1>4. e.set
  BY <1>1, <1>2
<1>5. e.slots = [u \in Sections |-> e.slots[u]]
  BY DEF Counted
<1>6. [e.slots EXCEPT ![s][k] = slot] = [u \in Sections |-> IF u = s THEN new ELSE e.slots[u]]
  BY <1>5
<1> HIDE DEF new, old
<1>7. IsList(new) /\ Len(new) = Len(old) /\ DOMAIN new = DOMAIN old
  BY <1>1, <1>3, MappedList
<1>8. IsFiniteSet(CompleteIn(old))
  <2>1. IsFiniteSet(DOMAIN old)
    <3>1. Len(old) \in Int
      BY <1>1, ListLength
    <3>2. IsFiniteSet(1 .. Len(old))
      BY <3>1, FS_Interval
    <3> QED
      BY <1>2, <3>2
  <2>2. CompleteIn(old) \in SUBSET DOMAIN old
    BY DEF CompleteIn
  <2> QED
    BY <2>1, <2>2, FS_Subset
<1>9. \A i \in DOMAIN new : IsSlot(new[i])
  BY <1>1, <1>3, <1>7
<1>10. n = Cardinality(CompleteIn(new)) /\ n \in Nat
  <2>1. CASE slot.is_complete /\ ~old[k].is_complete
    <3>1. CompleteIn(new) = CompleteIn(old) \cup {k} /\ k \notin CompleteIn(old)
      BY <1>2, <1>3, <1>7, <2>1 DEF CompleteIn
    <3>2. Cardinality(CompleteIn(new)) = Cardinality(CompleteIn(old)) + 1
      BY <1>8, <3>1, FS_AddElement
    <3>3. n = e.done[s] + 1
      BY <2>1 DEF old
    <3> QED
      BY <1>1, <3>2, <3>3
  <2>2. CASE ~(slot.is_complete /\ ~old[k].is_complete)
    <3>1. slot.is_complete <=> old[k].is_complete
      BY <1>1, <1>2, <2>2 DEF IsSlot, old
    <3>2. CompleteIn(new) = CompleteIn(old)
      BY <1>3, <1>7, <3>1 DEF CompleteIn
    <3>3. n = e.done[s]
      BY <2>2 DEF old
    <3> QED
      BY <1>1, <3>2, <3>3
  <2> QED
    BY <2>1, <2>2
<1> DEFINE slots == [u \in Sections |-> IF u = s THEN new ELSE e.slots[u]]
           done == [e.done EXCEPT ![s] = n]
<1>11. e.count \in [Sections -> Nat] /\ done \in [Sections -> Nat]
       /\ done[s] = n /\ \A u \in Sections : u # s => done[u] = e.done[u]
  BY <1>10 DEF Counted
<1>12. \A u \in Sections :
         /\ IsList(slots[u]) /\ Len(slots[u]) = e.count[u]
         /\ \A i \in DOMAIN slots[u] : IsSlot(slots[u][i])
         /\ done[u] = Cardinality(CompleteIn(slots[u]))
  <2> SUFFICES ASSUME NEW u \in Sections
               PROVE  /\ IsList(slots[u]) /\ Len(slots[u]) = e.count[u]
                      /\ \A i \in DOMAIN slots[u] : IsSlot(slots[u][i])
                      /\ done[u] = Cardinality(CompleteIn(slots[u]))
    OBVIOUS
  <2> HIDE DEF done
  <2>1. CASE u = s
    <3>1. slots[u] = new
      BY <2>1
    <3> QED
      BY <1>1, <1>7, <1>9, <1>10, <1>11, <2>1, <3>1
  <2>2. CASE u # s
    <3>1. slots[u] = e.slots[u]
      BY <2>2
    <3> QED
      BY <1>11, <2>2, <3>1 DEF Counted
  <2> QED
    BY <2>1, <2>2
<1>13. slots = [u \in Sections |-> slots[u]]
  OBVIOUS
<1> HIDE DEF slots, done
<1> QED
  BY <1>4, <1>6, <1>11, <1>12, <1>13 DEF Counted, slots, done

\* The same, as Put writes it, and as pack_section does, which leaves
\* is_complete alone.
LEMMA PutFields ==
  ASSUME NEW e, Counted(e), NEW p, NEW slot, NEW completed \in BOOLEAN
  PROVE  Put(e, p, slot, completed) =
           [set |-> e.set, count |-> e.count,
            slots |-> [e.slots EXCEPT ![p[1]][p[2]] = slot],
            done |-> [e.done EXCEPT ![p[1]] =
                        IF completed THEN e.done[p[1]] + 1 ELSE e.done[p[1]]]]
<1> DEFINE n == IF completed THEN e.done[p[1]] + 1 ELSE e.done[p[1]]
           slots == [e.slots EXCEPT ![p[1]][p[2]] = slot]
           mid == [e EXCEPT !.slots = slots]
           done == [e.done EXCEPT ![p[1]] = n]
<1>1. e = [set |-> e.set, count |-> e.count, slots |-> e.slots, done |-> e.done]
  BY DEF Counted
<1>2. Put(e, p, slot, completed) = [mid EXCEPT !.done = done]
  <2>1. CASE completed
    BY <2>1 DEF Put
  <2>2. CASE ~completed
    BY <2>2 DEF Put
  <2> QED
    BY <2>1, <2>2
<1> HIDE DEF slots, done
<1>3. mid = [set |-> e.set, count |-> e.count, slots |-> slots, done |-> e.done]
  BY <1>1
<1> HIDE DEF mid
<1>4. [mid EXCEPT !.done = done] =
        [set |-> e.set, count |-> e.count, slots |-> slots, done |-> done]
  BY <1>3
<1> QED
  BY <1>2, <1>4 DEF slots, done

LEMMA PutCounted ==
  ASSUME NEW e, Counted(e), NEW p \in Places(e.slots),
         NEW slot, IsSlot(slot), e.slots[p[1]][p[2]].is_complete => slot.is_complete,
         NEW completed \in BOOLEAN,
         completed <=> slot.is_complete /\ ~e.slots[p[1]][p[2]].is_complete
  PROVE  Counted(Put(e, p, slot, completed))
<1>1. p[1] \in Sections /\ p[2] \in DOMAIN e.slots[p[1]]
  BY PlacesOfSlots
<1> DEFINE n == IF completed THEN e.done[p[1]] + 1 ELSE e.done[p[1]]
<1>2. n = IF slot.is_complete /\ ~e.slots[p[1]][p[2]].is_complete
          THEN e.done[p[1]] + 1 ELSE e.done[p[1]]
  OBVIOUS
<1>3. Put(e, p, slot, completed) =
        [set |-> e.set, count |-> e.count, slots |-> [e.slots EXCEPT ![p[1]][p[2]] = slot],
         done |-> [e.done EXCEPT ![p[1]] = n]]
  BY PutFields
<1> HIDE DEF n
<1> QED
  BY <1>1, <1>2, <1>3, SlotReplaced

LEMMA MarkedCounted ==
  ASSUME NEW e, Counted(e), NEW s, NEW k, NEW markers
  PROVE  Counted([e EXCEPT !.slots[s][k].block_markers = markers])
<1> DEFINE old == e.slots[s][k]
           slot == [old EXCEPT !.block_markers = markers]
           new == [e EXCEPT !.slots[s][k].block_markers = markers]
<1>1. e = [set |-> e.set, count |-> e.count, slots |-> e.slots, done |-> e.done]
      /\ e.slots = [u \in Sections |-> e.slots[u]]
      /\ e.done \in [Sections -> Nat]
      /\ \A u \in Sections : IsList(e.slots[u])
  BY DEF Counted
<1>2. new = [set |-> e.set, count |-> e.count, slots |-> [e.slots EXCEPT ![s][k] = slot],
             done |-> e.done]
  BY <1>1
<1>3. CASE s \in Sections /\ k \in DOMAIN e.slots[s]
  <2>1. IsSlot(old)
    BY <1>3 DEF Counted
  <2>2. IsSlot(slot) /\ slot.is_complete = old.is_complete
    BY <2>1 DEF IsSlot
  <2>3. e.done = [e.done EXCEPT ![s] = e.done[s]]
    BY <1>1
  <2> HIDE DEF slot
  <2>4. Counted([set |-> e.set, count |-> e.count, slots |-> [e.slots EXCEPT ![s][k] = slot],
                 done |-> [e.done EXCEPT ![s] = e.done[s]]])
    BY <1>3, <2>2, SlotReplaced
  <2> HIDE DEF new
  <2> QED
    BY <1>2, <2>3, <2>4 DEF new
<1>4. CASE s \notin Sections
  <2>1. [e.slots EXCEPT ![s][k] = slot] = e.slots
    BY <1>1, <1>4
  <2> QED
    BY <1>1, <1>2, <2>1
<1>5. CASE s \in Sections /\ k \notin DOMAIN e.slots[s]
  <2>1. e.slots[s] = [i \in DOMAIN e.slots[s] |-> e.slots[s][i]]
    BY <1>1, <1>5, ListLength
  <2>2. [e.slots[s] EXCEPT ![k] = slot] = e.slots[s]
    BY <1>5, <2>1
  <2>3. [e.slots EXCEPT ![s][k] = slot] = e.slots
    BY <1>1, <2>2
  <2> QED
    BY <1>1, <1>2, <2>3
<1> QED
  BY <1>3, <1>4, <1>5

\* The counts and slots of the first message to be copied are its own.
LEMMA OpenedCounted ==
  ASSUME NEW e, Counted(e), NEW items, IsMessage(items)
  PROVE  Counted(Opened(e, items))
<1> DEFINE new == Opened(e, items)
           slots == [s \in Sections |-> [i \in DOMAIN items[s] |-> NewSlot(items[s][i])]]
           count == [s \in Sections |-> Len(items[s])]
<1>1. CASE e.set
  BY <1>1 DEF Opened
<1>2. CASE ~e.set
  <2>1. new = [set |-> TRUE, count |-> count, slots |-> slots, done |-> e.done]
    <3>1. e = [set |-> e.set, count |-> e.count, slots |-> e.slots, done |-> e.done]
      BY DEF Counted
    <3> QED
      BY <1>2, <3>1 DEF Opened
  <2>2. \A s \in Sections : IsList(items[s])
    BY DEF IsMessage
  <2>3. \A s \in Sections : IsList(slots[s]) /\ Len(slots[s]) = count[s] /\ count[s] \in Nat
    <3> SUFFICES ASSUME NEW s \in Sections
                 PROVE  IsList(slots[s]) /\ Len(slots[s]) = count[s] /\ count[s] \in Nat
      OBVIOUS
    <3>1. slots[s] = [i \in DOMAIN items[s] |-> slots[s][i]] /\ count[s] = Len(items[s])
      OBVIOUS
    <3> HIDE DEF slots, count
    <3> QED
      BY <2>2, <3>1, MappedList, ListLength
  <2>4. \A s \in Sections : \A i \in DOMAIN slots[s] :
          IsSlot(slots[s][i]) /\ ~slots[s][i].is_complete
    BY DEF IsSlot, NewSlot
  <2>5. \A s \in Sections : e.done[s] = 0
    <3> SUFFICES ASSUME NEW s \in Sections PROVE e.done[s] = 0
      OBVIOUS
    <3>1. e.slots[s] = <<>> /\ e.done[s] = Cardinality(CompleteIn(e.slots[s]))
      BY <1>2 DEF Counted
    <3>2. CompleteIn(e.slots[s]) = {}
      BY <3>1 DEF CompleteIn
    <3> QED
      BY <3>1, <3>2, FS_EmptySet
  <2>6. \A s \in Sections : e.done[s] = Cardinality(CompleteIn(slots[s]))
    <3>1. \A s \in Sections : CompleteIn(slots[s]) = {}
      BY <2>4 DEF CompleteIn
    <3> QED
      BY <2>5, <3>1, FS_EmptySet
  <2>7. count \in [Sections -> Nat] /\ e.done \in [Sections -> Nat]
        /\ slots = [s \in Sections |-> slots[s]]
    BY <2>3 DEF Counted
  <2> HIDE DEF new, slots, count
  <2> QED
    BY <2>1, <2>3, <2>4, <2>6, <2>7 DEF Counted, new
<1> QED
  BY <1>1, <1>2

LEMMA FreshCounted == Counted(Fresh)
<1>1. IsList(<<>>) /\ Len(<<>>) = 0
  BY EmptySeq, AnyList
<1>2. CompleteIn(<<>>) = {} /\ Cardinality({}) = 0
  BY FS_EmptySet DEF CompleteIn
<1>3. Fresh = [set |-> FALSE, count |-> Fresh.count, slots |-> Fresh.slots,
               done |-> Fresh.done]
      /\ Fresh.slots = [s \in Sections |-> <<>>]
      /\ Fresh.count = [s \in Sections |-> 0] /\ Fresh.done = [s \in Sections |-> 0]
  BY DEF Fresh, Zero, Empty
<1>4. \A s \in Sections : Fresh.slots[s] = <<>> /\ Fresh.done[s] = 0 /\ Fresh.count[s] = 0
  BY <1>3
<1>5. DOMAIN <<>> = {}
  OBVIOUS
<1>6. \A s \in Sections :
        /\ IsList(Fresh.slots[s]) /\ Len(Fresh.slots[s]) = Fresh.count[s]
        /\ \A i \in DOMAIN Fresh.slots[s] : IsSlot(Fresh.slots[s][i])
        /\ Fresh.done[s] = Cardinality(CompleteIn(Fresh.slots[s]))
  <2> SUFFICES ASSUME NEW s \in Sections
               PROVE  /\ IsList(Fresh.slots[s]) /\ Len(Fresh.slots[s]) = Fresh.count[s]
                      /\ \A i \in DOMAIN Fresh.slots[s] : IsSlot(Fresh.slots[s][i])
                      /\ Fresh.done[s] = Cardinality(CompleteIn(Fresh.slots[s]))
    OBVIOUS
  <2> QED
    BY <1>1, <1>2, <1>4, <1>5
<1>7. Fresh.count \in [Sections -> Nat] /\ Fresh.done \in [Sections -> Nat]
      /\ Fresh.slots = [s \in Sections |-> Fresh.slots[s]]
  BY <1>3
<1> QED
  BY <1>3, <1>4, <1>6, <1>7 DEF Counted
-----------------------------------------------------------------------------
\* The far side's first responses are lists, section by section.
LEMMA FirstIsMessage ==
  ASSUME NEW S, NEW sections \in [Sections -> Seq(S)], NEW items \in FirstResponses(sections)
  PROVE  IsMessage(items)
<1> DEFINE item(rr, k) == IF k = WHOLE THEN Whole(rr) ELSE Part(rr, 0, k * BLOCKSIZE)
<1>1. PICK c : items = [s \in Sections |->
                          [i \in DOMAIN sections[s] |-> item(sections[s][i], c[<<s, i>>])]]
  BY DEF FirstResponses
<1> HIDE DEF item
<1> SUFFICES ASSUME NEW s \in Sections PROVE IsList(items[s])
  BY DEF IsMessage
<1>2. IsList(sections[s])
  BY AnyList
<1>3. items[s] = [i \in DOMAIN sections[s] |-> items[s][i]]
  BY <1>1
<1> QED
  BY <1>2, <1>3, MappedList

\* So are a complete message and the answer to a follow-up query.
LEMMA CompleteIsMessage ==
  ASSUME NEW e, Counted(e)
  PROVE  IsMessage(partial_to_dnsmessage(e))
<1> SUFFICES ASSUME NEW s \in Sections PROVE IsList(partial_to_dnsmessage(e)[s])
  BY DEF IsMessage
<1> DEFINE list == partial_to_dnsmessage(e)[s]
<1>1. list = [i \in DOMAIN e.slots[s] |-> list[i]]
  BY DEF partial_to_dnsmessage
<1> HIDE DEF list
<1> QED
  BY <1>1, MappedList DEF Counted, list

LEMMA EmptyList == IsList(<<>>)
BY EmptySeq, AnyList

LEMMA ServedIsMessage ==
  ASSUME NEW asks, IsList(asks)
  PROVE  IsMessage([Empty EXCEPT ![0] = Served(asks)])
<1> DEFINE served == Served(asks)
<1>1. served = [i \in DOMAIN asks |-> served[i]]
  BY DEF Served
<1> HIDE DEF served
<1>2. IsList(served)
  BY <1>1, MappedList
<1> QED
  BY <1>2, EmptyList DEF IsMessage, Empty, served

\* What is to be copied is a list of records with their sections.
LEMMA ItemsListed ==
  ASSUME NEW items, IsMessage(items)
  PROVE  /\ IsList(Items(items))
         /\ \A i \in DOMAIN Items(items) : Items(items)[i].section \in Sections
<1>1. \A s \in Sections : IsList(Tagged(items, s))
        /\ \A i \in DOMAIN Tagged(items, s) : Tagged(items, s)[i].section \in Sections
  <2> SUFFICES ASSUME NEW s \in Sections
               PROVE  IsList(Tagged(items, s))
                      /\ \A i \in DOMAIN Tagged(items, s) : Tagged(items, s)[i].section \in Sections
    OBVIOUS
  <2> DEFINE list == Tagged(items, s)
  <2>1. list = [i \in DOMAIN items[s] |-> list[i]]
        /\ \A i \in DOMAIN items[s] : list[i].section \in Sections
    BY DEF Tagged
  <2> HIDE DEF list
  <2>2. IsList(list) /\ DOMAIN list = DOMAIN items[s]
    BY <2>1, MappedList DEF IsMessage
  <2> QED
    BY <2>1, <2>2 DEF list
<1> DEFINE X == UNION {Range(Tagged(items, s)) : s \in Sections}
           a == Tagged(items, 0)
           b == Tagged(items, 1)
           c == Tagged(items, 2)
<1>2. \A x \in X : x.section \in Sections
  BY <1>1 DEF Range
<1>3. a \in Seq(X) /\ b \in Seq(X) /\ c \in Seq(X)
  <2>1. \A s \in Sections : Range(Tagged(items, s)) \subseteq X
    OBVIOUS
  <2> HIDE DEF X
  <2>2. \A s \in Sections : Tagged(items, s) \in Seq(X)
    BY <1>1, <2>1, SeqMonotonic DEF IsList
  <2> QED
    BY <2>2 DEF Sections
<1> HIDE DEF X, a, b, c
<1>4. (a \o b) \o c \in Seq(X)
  BY <1>3, ConcatProperties
<1>5. Items(items) = (a \o b) \o c
  BY DEF Items, a, b, c
<1> DEFINE list == (a \o b) \o c
<1> HIDE DEF list
<1>6. IsList(list) /\ \A i \in DOMAIN list : list[i] \in X
  BY <1>4, AnyList, LenProperties DEF list
<1> QED
  BY <1>2, <1>5, <1>6 DEF list

\* The tail of such a list is one.
LEMMA TailListed ==
  ASSUME IsList(todo), todo # <<>>, \A i \in DOMAIN todo : todo[i].section \in Sections
  PROVE  /\ Head(todo).section \in Sections
         /\ IsList(Tail(todo))
         /\ \A i \in DOMAIN Tail(todo) : Tail(todo)[i].section \in Sections
<1>1. \A x \in Range(todo) : x.section \in Sections
  BY DEF Range
<1>2. Head(todo) \in Range(todo) /\ Tail(todo) \in Seq(Range(todo))
  BY HeadTailProperties DEF IsList
<1>3. IsList(Tail(todo)) /\ \A i \in DOMAIN Tail(todo) : Tail(todo)[i] \in Range(todo)
  BY <1>2, AnyList, LenProperties
<1> QED
  BY <1>1, <1>2, <1>3

\* One PartialDNSMessage is replaced.
LEMMA StateSet ==
  ASSUME States, NEW id, NEW e, Counted(e),
         requester_state' = [requester_state EXCEPT ![id] = e]
  PROVE  States' /\ DOMAIN requester_state' = DOMAIN requester_state
<1>1. DOMAIN requester_state' = DOMAIN requester_state
      /\ requester_state' = [x \in DOMAIN requester_state' |-> requester_state'[x]]
      /\ \A x \in DOMAIN requester_state : requester_state'[x] = e \/ requester_state'[x] = requester_state[x]
  OBVIOUS
<1>2. \A x \in DOMAIN requester_state' : Counted(requester_state'[x])
  BY <1>1 DEF States
<1> QED
  BY <1>1, <1>2 DEF States
-----------------------------------------------------------------------------
LEMMA InitInv == Init => Inv
<1> SUFFICES ASSUME Init PROVE Inv
  OBVIOUS
<1>1. \A t \in Transactions : IsMessage(first[t])
  BY FirstIsMessage, RequesterAssumption DEF Init
<1>2. requester_state = [id \in DOMAIN requester_state |-> requester_state[id]]
      /\ DOMAIN requester_state = {}
  BY DEF Init
<1> QED
  BY <1>1, <1>2, EmptyList DEF Init, Inv, Messages, States

\* Steps that only take packets from a queue.
LEMMA OthersPreserve ==
  ASSUME Inv, outgoing' \subseteq outgoing, queries' \subseteq outgoing \cup queries,
         responses' \subseteq responses, UNCHANGED <<first, requester_state, handler>>
  PROVE  Inv'
<1>1. States'
  BY DEF Inv, States
<1>2. Messages'
  BY DEF Inv, Messages, handler
<1> QED
  BY <1>1, <1>2 DEF Inv

LEMMA AskInv ==
  ASSUME Inv, NEW t \in Transactions, Ask(t)
  PROVE  Inv'
<1>1. PICK q : q.t = t /\ q.asks = <<>> /\ outgoing' = outgoing \cup {q}
  BY DEF Ask, Query
<1>2. UNCHANGED <<first, queries, responses, requester_state, handler>>
  BY DEF Ask
<1>3. Messages' /\ States'
  BY <1>1, <1>2, EmptyList DEF Inv, Messages, States, handler
<1> QED
  BY <1>3 DEF Inv

\* A query goes out: there is a PartialDNSMessage for it.
LEMMA RegisterInv ==
  ASSUME Inv, NEW q \in outgoing, Register(q)
  PROVE  Inv'
<1>1. /\ DOMAIN requester_state \subseteq DOMAIN requester_state'
      /\ requester_state' = [x \in DOMAIN requester_state' |-> requester_state'[x]]
      /\ \A x \in DOMAIN requester_state' :
           \/ requester_state'[x] = Fresh
           \/ x \in DOMAIN requester_state /\ requester_state'[x] = requester_state[x]
  BY DEF Register
<1>2. \A x \in DOMAIN requester_state' : Counted(requester_state'[x])
  BY <1>1, FreshCounted DEF Inv, States
<1>3. States'
  BY <1>1, <1>2 DEF States
<1>4. Messages'
  BY <1>1 DEF Register, Inv, Messages, clients, handler
<1> QED
  BY <1>3, <1>4 DEF Inv

\* The far side answers with lists.
LEMMA RespondInv ==
  ASSUME Inv, NEW q \in queries, Respond(q)
  PROVE  Inv'
<1>1. IsMessage(first[q.t]) /\ IsMessage([Empty EXCEPT ![0] = Served(q.asks)])
      /\ q.t \in Transactions
  BY ServedIsMessage DEF Inv, Messages
<1>2. PICK m : m.t = q.t /\ IsMessage(m.items) /\ responses' = responses \cup {m}
  <2> DEFINE items == IF ~q.followup THEN first[q.t] ELSE [Empty EXCEPT ![0] = Served(q.asks)]
  <2>1. IsMessage(items) /\ responses' = responses \cup {Response(q.t, items)}
    BY <1>1 DEF Respond
  <2> HIDE DEF items
  <2> QED
    BY <2>1 DEF Response
<1>3. queries' \subseteq queries /\ UNCHANGED <<first, outgoing, requester_state, handler>>
  BY DEF Respond, Taken, clients
<1>4. Messages' /\ States'
  BY <1>1, <1>2, <1>3 DEF Inv, Messages, States, handler
<1> QED
  BY <1>4 DEF Inv

\* The transaction ends.
LEMMA AcceptInv ==
  ASSUME Inv, NEW m \in responses, Accept(m)
  PROVE  Inv'
<1>1. responses' \subseteq responses /\ pc = "idle" /\ UNCHANGED <<first, outgoing, queries, handler>>
  BY DEF Accept, Taken
<1>2. /\ requester_state' = [x \in DOMAIN requester_state' |-> requester_state'[x]]
      /\ \A x \in DOMAIN requester_state' :
           x \in DOMAIN requester_state /\ requester_state'[x] = requester_state[x]
  BY DEF Accept, Restrict
<1>3. \A x \in DOMAIN requester_state' : Counted(requester_state'[x])
  BY <1>2 DEF Inv, States
<1>4. States'
  BY <1>2, <1>3 DEF States
<1>5. Messages'
  BY <1>1 DEF Inv, Messages, handler
<1> QED
  BY <1>4, <1>5 DEF Inv

\* A response is going to be copied.
LEMMA ReceiveInv ==
  ASSUME Inv, NEW m \in responses, Receive(m)
  PROVE  Inv'
<1> DEFINE id == ID[m.t]
           e == requester_state[id]
<1>1. responses' \subseteq responses /\ id \in DOMAIN requester_state
      /\ UNCHANGED <<first, outgoing, queries, missing, cursize, asked>>
  BY DEF Receive, Taken, Awaited, clients
<1>2. CASE UNCHANGED <<requester_state, packet, todo, pc>>
  BY <1>1, <1>2, OthersPreserve DEF handler
<1>3. CASE /\ requester_state' = [requester_state EXCEPT ![id] = Opened(e, m.items)]
           /\ packet' = m.t /\ todo' = Items(m.items) /\ pc' = "copy"
  <2>1. m.t \in Transactions /\ IsMessage(m.items) /\ Counted(e) /\ States
    BY <1>1 DEF Inv, Messages, States
  <2>2. Counted(Opened(e, m.items))
    BY <2>1, OpenedCounted
  <2>3. IsList(Items(m.items))
        /\ \A i \in DOMAIN Items(m.items) : Items(m.items)[i].section \in Sections
    BY <2>1, ItemsListed
  <2> DEFINE new == Opened(e, m.items)
             items == Items(m.items)
  <2> HIDE DEF new, items, e, id
  <2>4. States' /\ DOMAIN requester_state' = DOMAIN requester_state
    BY <1>3, <2>1, <2>2, StateSet DEF new
  <2>5. todo' = items /\ IsList(items) /\ \A i \in DOMAIN items : items[i].section \in Sections
    BY <1>3, <2>3 DEF items
  <2>6. Messages'
    BY <1>1, <1>3, <2>1, <2>4, <2>5 DEF Inv, Messages, id
  <2> QED
    BY <2>4, <2>6 DEF Inv
<1> QED
  BY <1>2, <1>3 DEF Receive

\* One record is copied: its slot is changed, and what is left gets shorter.
LEMMA CopyFrame ==
  ASSUME Inv, pc = "copy", todo # <<>>, NEW e, Counted(e), SetEntry(e), todo' = Tail(todo),
         UNCHANGED <<first, outgoing, queries, responses, packet, asked, pc>>
  PROVE  Inv'
<1>1. States' /\ DOMAIN requester_state' = DOMAIN requester_state
  BY StateSet DEF Inv, SetEntry
<1>2. IsList(Tail(todo)) /\ \A i \in DOMAIN Tail(todo) : Tail(todo)[i].section \in Sections
  BY TailListed DEF Inv, Messages
<1> DEFINE rest == Tail(todo)
<1>3. todo' = rest /\ IsList(rest) /\ \A i \in DOMAIN rest : rest[i].section \in Sections
  BY <1>2
<1> HIDE DEF rest
<1>4. Messages'
  BY <1>1, <1>3 DEF Inv, Messages
<1> QED
  BY <1>1, <1>4 DEF Inv

\* A fragment that completes its record is counted, for the record's section.
LEMMA CopyRRFragInv ==
  ASSUME Inv, CopyRRFrag
  PROVE  Inv'
<1> DEFINE f == Head(todo).item
           found == Matching(entry, f.rr.rrid)
           p == First(found)
           slot == entry.slots[p[1]][p[2]]
           completed == LastPiece(slot, f)
<1>1. pc = "copy" /\ todo # <<>>
      /\ UNCHANGED <<first, outgoing, queries, responses, packet, asked, pc, missing, cursize>>
  BY DEF CopyRRFrag, clients, network
<1>2. CASE UNCHANGED <<requester_state, todo>>
  BY <1>1, <1>2, OthersPreserve DEF handler
<1>3. CASE /\ found # {} /\ Outcome(slot, f) = "running" /\ todo' = Tail(todo)
           /\ SetEntry(Put(entry, p, Filled(slot, f), completed))
  <2>1. Counted(entry)
    BY <1>1 DEF Inv, Messages, States, entry
  <2>2. p \in found /\ found \subseteq Places(entry.slots)
    <3>1. found \subseteq Places(entry.slots) /\ found \in SUBSET (Sections \X Nat)
      BY <2>1, PlacesOfSlots DEF Matching
    <3> HIDE DEF found
    <3> QED
      BY <1>3, <3>1, FirstIsOne
  <2> HIDE DEF p, found, f
  <2>3. p[1] \in Sections /\ p[2] \in DOMAIN entry.slots[p[1]] /\ p \in Places(entry.slots)
    BY <2>1, <2>2, PlacesOfSlots
  <2>4. IsSlot(slot)
    BY <2>1, <2>3 DEF Counted
  <2> HIDE DEF slot
  <2>5. ~slot.is_complete
    BY <1>3 DEF Outcome, slot, p, found, f
  <2>6. completed \in BOOLEAN
    BY DEF LastPiece
  <2>7. IsSlot(Filled(slot, f)) /\ Filled(slot, f).is_complete = completed
    BY <2>4, <2>5, <2>6 DEF Filled, IsSlot
  <2> DEFINE new == Filled(slot, f)
  <2> HIDE DEF new, completed
  <2>8. Counted(Put(entry, p, new, completed))
    BY <2>1, <2>3, <2>5, <2>6, <2>7, PutCounted DEF slot, new
  <2> QED
    BY <1>1, <1>3, <2>8, CopyFrame DEF new
<1> QED
  BY <1>2, <1>3 DEF CopyRRFrag

\* A whole record completes a slot that was not.
LEMMA CopyRRInv ==
  ASSUME Inv, CopyRR
  PROVE  Inv'
<1> DEFINE next == Head(todo)
           free == Unfilled(entry, next.section)
           p == First(free)
           slot == entry.slots[p[1]][p[2]]
           new == WithWhole(slot, next.item.rr)
<1>1. pc = "copy" /\ todo # <<>> /\ todo' = Tail(todo)
      /\ UNCHANGED <<first, outgoing, queries, responses, packet, asked, pc, missing, cursize>>
  BY DEF CopyRR, clients, network
<1>2. ID[packet] \in DOMAIN requester_state /\ Counted(entry) /\ next.section \in Sections
  BY <1>1, TailListed DEF Inv, Messages, States, entry
<1>3. CASE UNCHANGED requester_state
  <2>1. SetEntry(entry)
    BY <1>3, <1>2 DEF SetEntry, entry, Inv, States
  <2> QED
    BY <1>1, <1>2, <2>1, CopyFrame
<1>4. CASE free # {} /\ SetEntry(Put(entry, p, new, TRUE))
  <2>1. p \in free /\ free \subseteq Places(entry.slots)
    <3>1. free \subseteq Places(entry.slots)
      BY <1>2 DEF Unfilled, Places
    <3>2. free \in SUBSET (Sections \X Nat)
      BY <1>2, <3>1, PlacesOfSlots
    <3> HIDE DEF free
    <3> QED
      BY <1>4, <3>1, <3>2, FirstIsOne
  <2>2. p[1] = next.section /\ ~entry.slots[p[1]][p[2]].is_complete
    BY <2>1 DEF Unfilled
  <2> HIDE DEF p, free, next
  <2>3. p[1] \in Sections /\ p[2] \in DOMAIN entry.slots[p[1]] /\ p \in Places(entry.slots)
    BY <1>2, <2>1, PlacesOfSlots
  <2>4. IsSlot(slot) /\ ~slot.is_complete
    BY <1>2, <2>2, <2>3 DEF Counted
  <2> HIDE DEF slot
  <2>5. IsSlot(new) /\ new.is_complete
    BY <2>4 DEF WithWhole, IsSlot
  <2> HIDE DEF new
  <2>6. Counted(Put(entry, p, new, TRUE))
    BY <1>2, <2>3, <2>4, <2>5, PutCounted DEF slot
  <2> QED
    BY <1>1, <1>4, <2>6, CopyFrame
<1> QED
  BY <1>3, <1>4 DEF CopyRR

LEMMA CompleteInv ==
  ASSUME Inv, Complete
  PROVE  Inv'
<1>1. pc = "copy" /\ pc' = "idle" /\ UNCHANGED <<first, outgoing, queries, requester_state, asked>>
  BY DEF Complete, clients
<1>2. packet \in Transactions /\ IsMessage(partial_to_dnsmessage(entry))
  BY <1>1, CompleteIsMessage DEF Inv, Messages, States, entry
<1>3. PICK m : m.t = packet /\ IsMessage(m.items) /\ responses' = responses \cup {m}
  BY <1>2 DEF Complete, Response
<1>4. Messages' /\ States'
  BY <1>1, <1>2, <1>3 DEF Inv, Messages, States
<1> QED
  BY <1>4 DEF Inv

\* What is asked for is marked, and nothing else changes in the message.
LEMMA PackInv ==
  ASSUME Inv, StartPacking \/ PackOne \/ SendFollowUp
  PROVE  Inv'
<1>1. CASE StartPacking
  <2>1. asked' = <<>> /\ pc = "copy" /\ pc' = "pack"
        /\ UNCHANGED <<first, outgoing, queries, responses, requester_state, packet>>
    BY <1>1 DEF StartPacking, clients, network
  <2>2. Messages' /\ States'
    BY <2>1, EmptyList DEF Inv, Messages, States
  <2> QED
    BY <2>2 DEF Inv
<1>2. CASE SendFollowUp
  <2>1. asked' = <<>> /\ pc = "pack" /\ pc' = "idle"
        /\ UNCHANGED <<first, queries, responses, requester_state>>
    BY <1>2 DEF SendFollowUp, clients
  <2>2. PICK q : q.t = packet /\ q.asks = asked /\ outgoing' = outgoing \cup {q}
    BY <1>2 DEF SendFollowUp, Query
  <2>3. Messages' /\ States'
    BY <2>1, <2>2, EmptyList DEF Inv, Messages, States
  <2> QED
    BY <2>3 DEF Inv
<1>3. CASE PackOne
  <2>1. pc = "pack" /\ UNCHANGED <<first, outgoing, queries, responses, packet, pc>>
    BY <1>3 DEF PackOne, clients, network
  <2>2. CASE UNCHANGED <<requester_state, asked>>
    <3>1. Messages' /\ States'
      BY <2>1, <2>2 DEF Inv, Messages, States
    <3> QED
      BY <3>1 DEF Inv
  <2>3. ASSUME NEW s, NEW k, NEW markers, NEW ask,
               SetEntry([entry EXCEPT !.slots[s][k].block_markers = markers]),
               asked' = Append(asked, ask)
        PROVE  Inv'
    <3>1. Counted(entry)
      BY <2>1 DEF Inv, Messages, States, entry
    <3> DEFINE new == [entry EXCEPT !.slots[s][k].block_markers = markers]
    <3>2. Counted(new)
      BY <3>1, MarkedCounted
    <3> HIDE DEF new
    <3>3. States' /\ DOMAIN requester_state' = DOMAIN requester_state
      BY <2>3, <3>2, StateSet DEF Inv, SetEntry, new
    <3>4. IsList(Append(asked, ask))
      <4> DEFINE S == Range(asked) \cup {ask}
      <4>1. asked \in Seq(S) /\ ask \in S
        BY SeqMonotonic DEF Inv, Messages, IsList
      <4> HIDE DEF S
      <4>2. Append(asked, ask) \in Seq(S)
        BY <4>1, AppendProperties
      <4> QED
        BY <4>2, AnyList
    <3> DEFINE longer == Append(asked, ask)
    <3>5. asked' = longer /\ IsList(longer)
      BY <2>3, <3>4
    <3> HIDE DEF longer
    <3>6. Messages'
      BY <2>1, <3>3, <3>5 DEF Inv, Messages
    <3> QED
      BY <3>3, <3>6 DEF Inv
  <2>4. \/ UNCHANGED <<requester_state, asked>>
        \/ \E s, k, markers, ask :
             /\ SetEntry([entry EXCEPT !.slots[s][k].block_markers = markers])
             /\ asked' = Append(asked, ask)
    BY <1>3 DEF PackOne
  <2> QED
    BY <2>2, <2>3, <2>4
<1> QED
  BY <1>1, <1>2, <1>3

LEMMA NextInv ==
  ASSUME Inv, [Next]_vars
  PROVE  Inv'
<1>1. CASE UNCHANGED vars
  BY <1>1, OthersPreserve DEF vars, clients, network
<1>2. ASSUME NEW t \in Transactions, Ask(t) PROVE Inv'
  BY <1>2, AskInv
<1>3. ASSUME NEW t \in Transactions, GiveUp(t) PROVE Inv'
  BY <1>3, OthersPreserve DEF GiveUp, network
<1>4. ASSUME NEW q \in outgoing, Register(q) PROVE Inv'
  BY <1>4, RegisterInv
<1>5. ASSUME NEW q \in queries, Respond(q) PROVE Inv'
  BY <1>5, RespondInv
<1>6. ASSUME NEW m \in responses, Accept(m) PROVE Inv'
  BY <1>6, AcceptInv
<1>7. ASSUME NEW m \in responses, Drop(m) PROVE Inv'
  BY <1>7, OthersPreserve DEF Drop, clients
<1>8. ASSUME NEW m \in responses, Receive(m) PROVE Inv'
  BY <1>8, ReceiveInv
<1>9. CASE CopyRRFrag \/ CopyRR
  BY <1>9, CopyRRFragInv, CopyRRInv
<1>10. CASE Complete \/ StartPacking \/ PackOne \/ SendFollowUp
  BY <1>10, CompleteInv, PackInv
<1>11. CASE Lose
  BY <1>11, OthersPreserve DEF Lose, clients
<1> QED
  BY <1>1, <1>2, <1>3, <1>4, <1>5, <1>6, <1>7, <1>8, <1>9, <1>10, <1>11 DEF Next, Daemon

\* Whatever comes twice, late or for another client with the same id: the
\* counters that say a message is complete count its complete records, for a
\* fragment of one that is complete already ends the process (copy_section).
THEOREM DoneIsCompleteHolds == Spec => []DoneIsComplete
<1>1. Inv => DoneIsComplete
  BY DEF Inv, States, Counted, CompleteIn, DoneIsComplete
<1>2. Inv /\ [Next]_vars => Inv'
  BY NextInv
<1> QED
  BY <1>1, <1>2, InitInv, PTL DEF Spec
-----------------------------------------------------------------------------
(***************************************************************************)
(* What a PartialDNSMessage holds at each stage of an exchange.            *)
(***************************************************************************)
\* The markers of n blocks of which the first r have been received and those
\* after them, up to w, have been asked for.
Prefix(n, r, w) ==
  [j \in 0 .. n - 1 |-> IF j < r THEN BLOCKRECVD
                        ELSE IF j < w THEN BLOCKWAITING ELSE BLOCKFREE]

\* A slot in that state, and the fragment it waits for.  One begun with a
\* fragment without data has no room, and never gets a block.
Slot(rr, r, w) ==
  [rrid |-> rr.rrid, block_markers |-> Prefix(Blocks(rr.len), r, w),
   blocks_received |-> r, rrsize |-> rr.len, noroom |-> (r = 0),
   is_complete |-> (r = Blocks(rr.len)), contents |-> BlocksOf(rr, 0 .. r - 1)]

AskSize(rr, r, w) ==
  IF w = Blocks(rr.len) THEN rr.len - r * BLOCKSIZE ELSE (w - r) * BLOCKSIZE

Piece(rr, r, w) == Part(rr, r * BLOCKSIZE, AskSize(rr, r, w))

\* The numbers that occur there.
Extent(rr, r, w) == r \in Nat /\ w \in Nat /\ r <= w /\ w <= Blocks(rr.len)

\* A slot has seven fields.
IsRecord(slot) ==
  slot = [rrid |-> slot.rrid, block_markers |-> slot.block_markers,
          blocks_received |-> slot.blocks_received, rrsize |-> slot.rrsize,
          noroom |-> slot.noroom, is_complete |-> slot.is_complete,
          contents |-> slot.contents]

LEMMA PieceSpan ==
  ASSUME NEW rr, rr.len \in Nat \ {0}, NEW r, NEW w, Extent(rr, r, w), r < w
  PROVE  /\ BlockIdx(Piece(rr, r, w)) = r /\ LastBlockIdx(Piece(rr, r, w)) = w
         /\ Span(Piece(rr, r, w)) = r .. w - 1
         /\ AskSize(rr, r, w) \in Nat \ {0}
<1> DEFINE n == rr.len
           f == Piece(rr, r, w)
           size == AskSize(rr, r, w)
<1>1. f.curidx = r * BLOCKSIZE /\ f.fragsize = size
  BY DEF Piece, Part
<1>2. size \in Nat \ {0} /\ Blocks(size) = w - r
  BY DEF Extent, AskSize, Blocks, BLOCKSIZE
<1> HIDE DEF f, size
<1>3. BlockIdx(f) = r
  BY <1>1 DEF BlockIdx, BLOCKSIZE, Extent
<1>4. LastBlockIdx(f) = w
  BY <1>1, <1>2, <1>3 DEF LastBlockIdx, Extent
<1> QED
  BY <1>2, <1>3, <1>4 DEF Span, f, size

\* What the markers of such a slot say.
LEMMA PrefixSets ==
  ASSUME NEW n \in Nat, NEW r \in Nat, NEW w \in Nat, r <= w, w <= n
  PROVE  /\ DOMAIN Prefix(n, r, w) = 0 .. n - 1
         /\ Cardinality(DOMAIN Prefix(n, r, w)) = n
         /\ Prefix(n, r, w) \in [0 .. n - 1 -> Marker]
         /\ Received(Prefix(n, r, w)) = 0 .. r - 1
         /\ Free(Prefix(n, r, w)) = w .. n - 1
         /\ Cardinality(Free(Prefix(n, r, w))) = n - w
<1>1. DOMAIN Prefix(n, r, w) = 0 .. n - 1
  BY DEF Prefix
<1>2. Prefix(n, r, w) \in [0 .. n - 1 -> Marker]
  BY DEF Prefix, Marker
<1>3. Received(Prefix(n, r, w)) = 0 .. r - 1 /\ Free(Prefix(n, r, w)) = w .. n - 1
  BY DEF Prefix, Received, Free, BLOCKRECVD, BLOCKWAITING, BLOCKFREE
<1>4. Cardinality(0 .. n - 1) = n /\ Cardinality(w .. n - 1) = n - w
  <2>1. Cardinality(0 .. n - 1) = n - 0 /\ Cardinality(w .. n - 1) = n - w
    BY IntervalSize
  <2> QED
    BY <2>1
<1> QED
  BY <1>1, <1>2, <1>3, <1>4

\* A slot gets the fragment it waits for.
LEMMA FillSlot ==
  ASSUME NEW rr, rr.len \in Nat \ {0}, NEW r, NEW w, Extent(rr, r, w), r < w
  PROVE  LET slot == Slot(rr, r, w)
             f == Piece(rr, r, w)
         IN  /\ Outcome(slot, f) = IF r = 0 THEN "hung" ELSE "running"
             /\ r # 0 => Filled(slot, f) = Slot(rr, w, w)
             /\ LastPiece(slot, f) <=> w = Blocks(rr.len)
             /\ ~slot.is_complete
<1> DEFINE slot == Slot(rr, r, w)
           f == Piece(rr, r, w)
           n == Blocks(rr.len)
<1>1. /\ f.rr = rr /\ f.fragsize = AskSize(rr, r, w)
      /\ slot.block_markers = Prefix(n, r, w) /\ slot.blocks_received = r
      /\ slot.noroom = (r = 0) /\ slot.is_complete = (r = n) /\ slot.rrsize = rr.len
      /\ slot.contents = BlocksOf(rr, 0 .. r - 1)
      /\ slot.rrid = rr.rrid
  BY DEF Piece, Part, Slot
<1>2. n \in Nat \ {0} /\ r \in Nat /\ w \in Nat /\ w <= n /\ r <= w
  BY BlocksOfRecord DEF Extent
<1>3. BlockIdx(f) = r /\ LastBlockIdx(f) = w /\ Span(f) = r .. w - 1
      /\ AskSize(rr, r, w) \in Nat \ {0}
  BY PieceSpan
<1>4. IsRecord(slot)
  BY DEF Slot, IsRecord
<1> HIDE DEF slot, f, n
<1>5. ~slot.is_complete
  <2>1. r # n
    BY <1>2
  <2> QED
    BY <1>1, <2>1
<1>6. /\ DOMAIN Prefix(n, r, w) = 0 .. n - 1 /\ Cardinality(DOMAIN Prefix(n, r, w)) = n
      /\ Received(Prefix(n, w, w)) = 0 .. w - 1 /\ DOMAIN Prefix(n, w, w) = 0 .. n - 1
  <2>1. n \in Nat /\ w <= w
    BY <1>2
  <2>2. DOMAIN Prefix(n, r, w) = 0 .. n - 1 /\ Cardinality(DOMAIN Prefix(n, r, w)) = n
    BY <1>2, <2>1, PrefixSets
  <2>3. Received(Prefix(n, w, w)) = 0 .. w - 1 /\ DOMAIN Prefix(n, w, w) = 0 .. n - 1
    <3>1. ASSUME NEW u \in Nat, u <= n
          PROVE  Received(Prefix(n, u, u)) = 0 .. u - 1 /\ DOMAIN Prefix(n, u, u) = 0 .. n - 1
      <4>1. n \in Nat /\ u <= u
        BY <2>1
      <4> QED
        BY <3>1, <4>1, PrefixSets
    <3> QED
      BY <1>2, <3>1
  <2> QED
    BY <2>2, <2>3
<1>7. ~Opening(slot)
  <2>1. 0 \in DOMAIN slot.block_markers
    BY <1>1, <1>2, <1>6
  <2> QED
    BY <2>1 DEF Opening
<1>8. MarkersFor(slot, f) = Prefix(n, r, w)
  BY <1>1, <1>7 DEF MarkersFor
<1>9. ~Overwrites(Prefix(n, r, w), f)
  <2>1. \A j \in r .. w - 1 : Prefix(n, r, w)[j] = BLOCKWAITING
    BY <1>2 DEF Prefix
  <2> QED
    BY <1>3, <2>1 DEF Overwrites, BLOCKRECVD, BLOCKWAITING
<1>10. MarkersAfter(slot, f) = Prefix(n, w, w)
  <2>1. Mark(Prefix(n, r, w), r .. w - 1, BLOCKRECVD) = Prefix(n, w, w)
    BY <1>2 DEF Mark, Prefix
  <2> QED
    BY <1>3, <1>8, <2>1 DEF MarkersAfter
<1>11. NowReceived(slot, f) = w
  BY <1>1, <1>2, <1>3 DEF NowReceived
<1>12. LastPiece(slot, f) <=> w = n
  BY <1>6, <1>8, <1>11 DEF LastPiece
<1>13. Outcome(slot, f) = IF r = 0 THEN "hung" ELSE "running"
  <2>1. w = n => Received(Prefix(n, w, w)) = DOMAIN Prefix(n, w, w)
    BY <1>6
  <2>2. f.fragsize > 0
    BY <1>1, <1>3
  <2>3. CASE r = 0
    BY <1>1, <1>7, <1>8, <1>9, <2>2, <2>3 DEF Outcome
  <2>4. CASE r # 0
    BY <1>1, <1>5, <1>8, <1>9, <1>10, <1>12, <2>1, <2>4 DEF Outcome
  <2> QED
    BY <2>3, <2>4
<1>14. BlocksOf(rr, 0 .. r - 1) \cup BlocksOf(rr, r .. w - 1) = BlocksOf(rr, 0 .. w - 1)
  BY <1>2 DEF BlocksOf
<1> DEFINE all == BlocksOf(rr, 0 .. w - 1)
<1>15. ASSUME r # 0
       PROVE  Filled(slot, f) =
         [rrid |-> rr.rrid, block_markers |-> Prefix(n, w, w), blocks_received |-> w,
          rrsize |-> rr.len, noroom |-> (w = 0), is_complete |-> (w = n), contents |-> all]
  <2>1. slot.noroom = FALSE /\ (w = 0) = FALSE
    <3>1. w # 0
      BY <1>2, <1>15
    <3>2. slot.noroom = (r = 0)
      BY <1>1
    <3> QED
      BY ONLY <1>15, <3>1, <3>2, Zenon
  <2>2. (slot.is_complete \/ LastPiece(slot, f)) = (w = n)
    BY <1>5, <1>12 DEF LastPiece
  <2>3. slot.contents \cup BlocksOf(f.rr, Span(f)) = all
    BY <1>1, <1>3, <1>14
  <2> DEFINE complete == slot.is_complete \/ LastPiece(slot, f)
             contents == slot.contents \cup BlocksOf(f.rr, Span(f))
             markers == Prefix(n, w, w)
  <2> HIDE DEF all
  <2>4. complete = (w = n) /\ contents = all
    BY <2>2, <2>3
  <2>5. Filled(slot, f) =
          [slot EXCEPT !.block_markers = markers, !.blocks_received = w,
             !.rrsize = rr.len, !.noroom = FALSE, !.is_complete = complete,
             !.contents = contents]
    BY <1>1, <1>7, <1>10, <1>11, <2>1 DEF Filled
  <2> HIDE DEF complete, contents, markers
  <2>6. Filled(slot, f) =
          [rrid |-> slot.rrid, block_markers |-> markers, blocks_received |-> w,
           rrsize |-> rr.len, noroom |-> FALSE, is_complete |-> complete,
           contents |-> contents]
    BY <1>4, <2>5 DEF IsRecord
  <2> QED
    BY <1>1, <2>1, <2>4, <2>6 DEF markers
<1> QED
  BY <1>5, <1>12, <1>13, <1>15 DEF Slot, slot, f, n

\* A slot gets the first blocks of its record.
LEMMA FillNew ==
  ASSUME NEW rr, rr.len \in Nat \ {0}, NEW k \in Nat, k * BLOCKSIZE < rr.len
  PROVE  LET f == Part(rr, 0, k * BLOCKSIZE)
             slot == NewSlot(f)
         IN  /\ Outcome(slot, f) = "running"
             /\ Filled(slot, f) = Slot(rr, k, k)
             /\ Extent(rr, k, k) /\ ~LastPiece(slot, f) /\ ~slot.is_complete
<1> DEFINE f == Part(rr, 0, k * BLOCKSIZE)
           slot == NewSlot(f)
           n == Blocks(rr.len)
<1>1. /\ f.rr = rr /\ f.fragsize = k * BLOCKSIZE /\ f.curidx = 0 /\ f.rrsize = rr.len
      /\ slot = [rrid |-> rr.rrid, block_markers |-> <<>>, blocks_received |-> 0, rrsize |-> 0,
                 noroom |-> FALSE, is_complete |-> FALSE, contents |-> {}]
  BY DEF Part, NewSlot
<1>2. n \in Nat \ {0} /\ k < n
  BY BlocksOfRecord
<1>3. BlockIdx(f) = 0 /\ LastBlockIdx(f) = k /\ Span(f) = 0 .. k - 1
  <2>1. Blocks(k * BLOCKSIZE) = k
    BY DEF Blocks, BLOCKSIZE
  <2> HIDE DEF f
  <2> QED
    BY <1>1, <2>1 DEF BlockIdx, LastBlockIdx, Span, BLOCKSIZE
<1> HIDE DEF f
<1>4. slot.noroom = FALSE /\ slot.is_complete = FALSE /\ slot.block_markers = <<>>
      /\ slot.blocks_received = 0 /\ slot.contents = {} /\ slot.rrid = rr.rrid
  BY <1>1
<1> HIDE DEF slot, n
<1>5. Opening(slot)
  BY <1>4 DEF Opening
<1>6. MarkersFor(slot, f) = Prefix(n, 0, 0)
  <2>1. FreshMarkers(rr.len) = Prefix(n, 0, 0)
    BY DEF FreshMarkers, Prefix, n
  <2> QED
    BY <1>1, <1>5, <2>1 DEF MarkersFor
<1>7. ~Overwrites(Prefix(n, 0, 0), f)
  <2>1. \A j \in 0 .. k - 1 : Prefix(n, 0, 0)[j] = BLOCKFREE
    BY <1>2 DEF Prefix
  <2> QED
    BY <1>3, <2>1 DEF Overwrites, BLOCKRECVD, BLOCKFREE
<1>8. MarkersAfter(slot, f) = Prefix(n, k, k)
  <2>1. Mark(Prefix(n, 0, 0), 0 .. k - 1, BLOCKRECVD) = Prefix(n, k, k)
    BY <1>2 DEF Mark, Prefix
  <2> QED
    BY <1>3, <1>6, <2>1 DEF MarkersAfter
<1>9. NowReceived(slot, f) = k
  BY <1>3, <1>4 DEF NowReceived
<1>10. ~LastPiece(slot, f)
  <2>1. Cardinality(DOMAIN Prefix(n, 0, 0)) = n
    BY <1>2, PrefixSets
  <2> QED
    BY <1>2, <1>6, <1>9, <2>1 DEF LastPiece
<1>11. Outcome(slot, f) = "running"
  BY <1>4, <1>5, <1>6, <1>7, <1>10 DEF Outcome
<1>12. Filled(slot, f) = Slot(rr, k, k)
  <2>1. (f.fragsize = 0) = (k = 0)
    BY <1>1 DEF BLOCKSIZE
  <2>2. (slot.is_complete \/ LastPiece(slot, f)) = FALSE
    BY <1>4, <1>10
  <2> DEFINE contents == slot.contents \cup BlocksOf(f.rr, Span(f))
             markers == Prefix(n, k, k)
  <2>3. contents = BlocksOf(rr, 0 .. k - 1)
    BY <1>1, <1>3, <1>4
  <2> HIDE DEF contents, markers
  <2>4. Filled(slot, f) =
          [slot EXCEPT !.block_markers = markers, !.blocks_received = k,
             !.rrsize = rr.len, !.noroom = (k = 0), !.is_complete = FALSE,
             !.contents = contents]
    BY <1>1, <1>5, <1>8, <1>9, <2>1, <2>2 DEF Filled, contents, markers
  <2>5. Filled(slot, f) =
          [rrid |-> rr.rrid, block_markers |-> markers, blocks_received |-> k,
           rrsize |-> rr.len, noroom |-> (k = 0), is_complete |-> FALSE, contents |-> contents]
    BY <1>1, <2>4
  <2>6. (k = n) = FALSE
    BY <1>2
  <2> QED
    BY <2>3, <2>5, <2>6 DEF Slot, markers, n
<1> QED
  BY <1>2, <1>4, <1>10, <1>11, <1>12 DEF Extent, f, slot, n

\* The last block is what the others leave.
LEMMA LastBlock ==
  ASSUME NEW n \in Nat \ {0}
  PROVE  /\ n <= Blocks(n) * BLOCKSIZE /\ Blocks(n) * BLOCKSIZE < n + BLOCKSIZE
         /\ LastBlockSize(n) = n - (Blocks(n) - 1) * BLOCKSIZE
<1> DEFINE q == n \div 32
           d == n % 32
<1>1. q \in Nat /\ d \in 0 .. 31 /\ n = 32 * q + d
  OBVIOUS
<1>2. Blocks(n) = (n + 31) \div 32 /\ LastBlockSize(n) = IF d = 0 THEN 32 ELSE d
  BY DEF Blocks, LastBlockSize, BLOCKSIZE
<1> HIDE DEF q, d
<1>3. (n + 31) \div 32 = IF d = 0 THEN q ELSE q + 1
  BY <1>1
<1> QED
  BY <1>1, <1>2, <1>3 DEF BLOCKSIZE

\* What pack_section asks for of a slot that waits for nothing.
LEMMA PackSlot ==
  ASSUME NEW rr, rr.len \in Nat \ {0}, NEW r, Extent(rr, r, r), r < Blocks(rr.len),
         NEW canfit \in Nat
  PROVE  LET slot == Slot(rr, r, r)
             n == AskedBlocks(slot.block_markers, canfit)
             all == n = Cardinality(Free(slot.block_markers))
             f == AskedFragment(slot.block_markers, slot.rrsize, canfit)
         IN  /\ Free(slot.block_markers) # {}
             /\ n \in Nat /\ n * BLOCKSIZE <= canfit /\ (canfit >= BLOCKSIZE => n > 0)
             /\ Extent(rr, r, r + n)
             /\ n > 0 =>
                  /\ f.curidx = r * BLOCKSIZE /\ f.fragsize = AskSize(rr, r, r + n)
                  /\ f.fragsize = IF all THEN (n - 1) * BLOCKSIZE + LastBlockSize(slot.rrsize)
                                  ELSE n * BLOCKSIZE
                  /\ [slot EXCEPT !.block_markers =
                        Mark(slot.block_markers, AskedSpan(slot.block_markers, canfit),
                             BLOCKWAITING)]
                       = Slot(rr, r, r + n)
<1> DEFINE slot == Slot(rr, r, r)
           b == Blocks(rr.len)
           markers == Prefix(b, r, r)
           n == AskedBlocks(markers, canfit)
           f == AskedFragment(markers, rr.len, canfit)
           size == AskSize(rr, r, r + n)
<1>1. slot.block_markers = markers /\ slot.rrsize = rr.len
  BY DEF Slot
<1>2. b \in Nat \ {0} /\ r \in Nat /\ r < b
  BY BlocksOfRecord DEF Extent
<1>3. Free(markers) = r .. b - 1 /\ Cardinality(Free(markers)) = b - r
      /\ markers \in [0 .. b - 1 -> Marker]
  <2> HIDE DEF b
  <2> QED
    BY <1>2, PrefixSets
<1>4. r \in Free(markers) /\ \A j \in Free(markers) : r <= j /\ j \in Nat
  <2> HIDE DEF markers, b
  <2> QED
    BY <1>2, <1>3
<1>5. FirstFree(markers) = r
  <2>1. markers \in [0 .. b - 1 -> Marker] /\ b \in Nat /\ Free(markers) # {}
    BY <1>2, <1>3, <1>4
  <2> HIDE DEF markers, b
  <2> DEFINE j == FirstFree(markers)
  <2>2. j \in Free(markers) /\ \A k \in Free(markers) : j <= k
    BY <2>1, FirstFreeIsFirst
  <2> HIDE DEF j
  <2>3. j \in Nat /\ j <= r /\ r <= j
    BY <1>4, <2>2
  <2> QED
    BY <1>2, <2>3 DEF j
<1> HIDE DEF markers
<1>6. n \in Nat /\ n * BLOCKSIZE <= canfit /\ n <= b - r /\ (canfit >= BLOCKSIZE => n > 0)
  <2> HIDE DEF b
  <2>1. n = IF canfit \div BLOCKSIZE >= b - r THEN b - r ELSE canfit \div BLOCKSIZE
    BY <1>3 DEF AskedBlocks
  <2> HIDE DEF n
  <2> QED
    BY <1>2, <2>1 DEF BLOCKSIZE
<1>7. Extent(rr, r, r + n)
  <2> HIDE DEF n
  <2> QED
    BY <1>2, <1>6 DEF Extent
<1>8. ASSUME n > 0
      PROVE  f.curidx = r * BLOCKSIZE /\ f.fragsize = size
             /\ size = IF n = b - r THEN (n - 1) * BLOCKSIZE + LastBlockSize(rr.len)
                       ELSE n * BLOCKSIZE
  <2>1. /\ f.curidx = r * BLOCKSIZE
        /\ f.fragsize = IF n = b - r /\ n * BLOCKSIZE > rr.len - r * BLOCKSIZE
                        THEN rr.len - r * BLOCKSIZE ELSE n * BLOCKSIZE
    BY <1>3, <1>5 DEF AskedFragment
  <2>2. size = IF r + n = b THEN rr.len - r * BLOCKSIZE ELSE n * BLOCKSIZE
    <3> HIDE DEF n
    <3> DEFINE w == r + n
    <3>2. AskSize(rr, r, w) = IF w = b THEN rr.len - r * BLOCKSIZE ELSE (w - r) * BLOCKSIZE
      <4> HIDE DEF w, b
      <4> QED
        BY DEF AskSize, b
    <3>3. w - r = n
      BY <1>2, <1>6
    <3> HIDE DEF w, b
    <3>4. AskSize(rr, r, w) = IF w = b THEN rr.len - r * BLOCKSIZE ELSE n * BLOCKSIZE
      BY <3>2, <3>3
    <3> QED
      BY <3>4 DEF w
  <2>3. /\ rr.len <= b * BLOCKSIZE /\ b * BLOCKSIZE < rr.len + BLOCKSIZE
        /\ LastBlockSize(rr.len) = rr.len - (b - 1) * BLOCKSIZE
    BY LastBlock
  <2> DEFINE last == LastBlockSize(rr.len)
             len == rr.len
             fsize == f.fragsize
  <2>4. len \in Nat /\ last = len - (b - 1) * BLOCKSIZE
    BY <2>3
  <2> HIDE DEF n, b, f, size, last, len
  <2>5. fsize = size
    BY <1>2, <1>6, <2>1, <2>2, <2>3 DEF BLOCKSIZE
  <2>6. size = IF n = b - r THEN (n - 1) * BLOCKSIZE + last ELSE n * BLOCKSIZE
    BY <1>2, <1>6, <2>2, <2>4 DEF BLOCKSIZE, len
  <2> QED
    BY <2>1, <2>5, <2>6 DEF last
<1>9. Mark(markers, AskedSpan(markers, canfit), BLOCKWAITING) = Prefix(b, r, r + n)
  <2>1. AskedSpan(markers, canfit) = r .. r + n - 1
    BY <1>5 DEF AskedSpan
  <2> HIDE DEF n, b
  <2>2. Mark(Prefix(b, r, r), r .. r + n - 1, BLOCKWAITING) = Prefix(b, r, r + n)
    BY <1>2, <1>6 DEF Mark, Prefix
  <2> QED
    BY <2>1, <2>2 DEF markers
<1>10. [slot EXCEPT !.block_markers = Prefix(b, r, r + n)] = Slot(rr, r, r + n)
  <2> DEFINE new == Prefix(b, r, r + n)
  <2>1. /\ IsRecord(slot) /\ slot.rrid = rr.rrid /\ slot.blocks_received = r
        /\ slot.rrsize = rr.len /\ slot.noroom = (r = 0) /\ slot.is_complete = (r = b)
        /\ slot.contents = BlocksOf(rr, 0 .. r - 1)
    BY DEF Slot, IsRecord
  <2> HIDE DEF new, slot
  <2>2. [slot EXCEPT !.block_markers = new] =
          [rrid |-> slot.rrid, block_markers |-> new,
           blocks_received |-> slot.blocks_received, rrsize |-> slot.rrsize,
           noroom |-> slot.noroom, is_complete |-> slot.is_complete,
           contents |-> slot.contents]
    BY <2>1 DEF IsRecord
  <2> QED
    BY <2>1, <2>2 DEF new, Slot
<1> HIDE DEF slot, n, f, size, b
<1> QED
  BY <1>1, <1>2, <1>3, <1>4, <1>6, <1>7, <1>8, <1>9, <1>10 DEF slot, n, f, size, b
-----------------------------------------------------------------------------
\* The record at a place, and the places that come after one.
At(A, p) == A[p[1]][p[2]]
Ahead(p, q) == Before(p, q) /\ p # q

\* Between two responses a slot has its whole record, or blocks 0 .. r - 1 of
\* one that comes in fragments.
Settled(slot, rr) ==
  \/ slot = WithWhole(NewSlot(Whole(rr)), rr)
  \/ \E r \in Nat : rr.rrid # 0 /\ Extent(rr, r, r) /\ slot = Slot(rr, r, r)

\* The slot at p is going to get what x, an element of todo, carries.
Expecting(slot, p, rr, x) ==
  \/ x = [section |-> p[1], item |-> Whole(rr)] /\ slot = NewSlot(x.item)
  \/ \E k \in FIRSTBLOCKS :
       /\ rr.rrid # 0 /\ k * BLOCKSIZE < rr.len /\ x.item = Part(rr, 0, k * BLOCKSIZE)
       /\ slot = NewSlot(x.item)
  \/ \E r, w \in Nat :
       /\ rr.rrid # 0 /\ Extent(rr, r, w) /\ r < w /\ x.item = Piece(rr, r, w)
       /\ slot = Slot(rr, r, w)

\* A PartialDNSMessage for answer A is laid out like it, and expects these
\* items for the places P, in that order; nothing is under way for the others.
Shaped(e, A) ==
  e.set /\ \A s \in Sections : DOMAIN e.slots[s] = DOMAIN A[s]

Plan(e, A, items, P) ==
  /\ Shaped(e, A)
  /\ P \in [DOMAIN items -> Places(A)]
  /\ \A i, j \in DOMAIN items : i < j => Ahead(P[i], P[j])
  /\ \A i \in DOMAIN items :
       Expecting(At(e.slots, P[i]), P[i], At(A, P[i]), items[i])
  /\ \A p \in Places(A) :
       (\A i \in DOMAIN items : p # P[i]) => Settled(At(e.slots, p), At(A, p))

\* The places of rest come after those, and blocks are missing there.
Expects(e, A, items, rest) ==
  \E P : /\ Plan(e, A, items, P)
         /\ rest \subseteq Incomplete(e)
         /\ \A p \in rest, i \in DOMAIN items : Ahead(P[i], p)

\* What the first response tells of a slot: it has no room only if a fragment
\* without data began it, and has an rrid only if a fragment came.
TracedSlot(slot, F) ==
  /\ slot.noroom => Hollow(F)
  /\ slot.rrid # 0 => ContainsRRFrag(F)

Traced(e, F) == \A p \in Places(e.slots) : TracedSlot(At(e.slots, p), F)

\* Only the first response has fragments without data.
TracedItems(items, F) ==
  \A i \in DOMAIN items :
    items[i].item.isRRFrag /\ items[i].item.fragsize = 0 => Hollow(F)

\* What the answer to a follow-up query is copied from.
Listed(asks) == [i \in DOMAIN asks |-> [section |-> 0, item |-> Served(asks)[i]]]
-----------------------------------------------------------------------------
\* Nothing comes twice, no two clients use one id, and an rrid stands for one
\* record, which is once in an answer.
Undisturbed ==
  /\ DUPLICATES = 0
  /\ \A t, u \in Transactions : ID[t] = ID[u] => t = u
  /\ \A x, y \in AllRecords : x.rrid = y.rrid /\ x.rrid # 0 => x = y
  /\ \A A \in Answers : \A p, q \in Places(A) :
       At(A, p).rrid = At(A, q).rrid /\ At(A, p).rrid # 0 => p = q

LEMMA AnswerFields ==
  ASSUME NEW A \in Answers
  PROVE  /\ \A s \in Sections : /\ Len(A[s]) \in Nat /\ DOMAIN A[s] = 1 .. Len(A[s])
                                /\ IsList(A[s])
         /\ Places(A) \in SUBSET (Sections \X Nat)
         /\ \A p \in Places(A) :
              /\ p[1] \in Sections /\ p[2] \in DOMAIN A[p[1]] /\ p = <<p[1], p[2]>>
              /\ At(A, p) \in AllRecords
              /\ At(A, p).rrid \in Nat /\ At(A, p).len \in Nat \ {0}
<1> DEFINE R == AllRecords
<1>1. \A s \in Sections : A[s] \in Seq(R)
  BY RequesterAssumption
<1>2. \A s \in Sections : Len(A[s]) \in Nat /\ DOMAIN A[s] = 1 .. Len(A[s]) /\ IsList(A[s])
  <2> HIDE DEF R
  <2> QED
    BY <1>1, LenProperties, AnyList
<1>3. \A s \in Sections : \A i \in DOMAIN A[s] : A[s][i] \in AllRecords /\ i \in Nat
  <2> SUFFICES ASSUME NEW s \in Sections, NEW i \in DOMAIN A[s]
               PROVE  A[s][i] \in AllRecords /\ i \in Nat
    OBVIOUS
  <2>1. A[s][i] \in ToSet(A[s])
    BY DEF ToSet
  <2> QED
    BY <1>2, <2>1 DEF AllRecords
<1>4. Places(A) \in SUBSET (Sections \X Nat)
      /\ \A p \in Places(A) : p[1] \in Sections /\ p[2] \in DOMAIN A[p[1]]
  BY <1>3 DEF Places
<1>5. \A p \in Places(A) : p = <<p[1], p[2]>>
  BY <1>4
<1>6. \A p \in Places(A) : At(A, p) \in AllRecords
  BY <1>3, <1>4 DEF At
<1> QED
  BY <1>2, <1>4, <1>5, <1>6, RequesterAssumption

\* A message laid out like the answer has the same places.
LEMMA SamePlaces ==
  ASSUME NEW e, NEW A, Shaped(e, A)
  PROVE  Places(e.slots) = Places(A)
BY DEF Shaped, Places

\* What tells slots from each other.
LEMMA SettledFields ==
  ASSUME NEW rr, rr.len \in Nat \ {0}, NEW slot, Settled(slot, rr)
  PROVE  /\ \/ slot.rrid = rr.rrid /\ rr.rrid # 0
            \/ slot.rrid = 0 /\ slot.is_complete
         /\ ~slot.is_complete =>
              /\ rr.rrid # 0
              /\ \E r \in Nat : /\ r < Blocks(rr.len) /\ Extent(rr, r, r)
                                /\ slot = Slot(rr, r, r)
<1>1. CASE slot = WithWhole(NewSlot(Whole(rr)), rr)
  BY <1>1 DEF WithWhole, NewSlot, Whole
<1>2. ASSUME NEW r \in Nat, rr.rrid # 0, Extent(rr, r, r), slot = Slot(rr, r, r)
      PROVE  slot.rrid = rr.rrid /\ (~slot.is_complete => r < Blocks(rr.len))
  <2>1. slot.rrid = rr.rrid /\ slot.is_complete = (r = Blocks(rr.len))
    BY <1>2 DEF Slot
  <2>2. Blocks(rr.len) \in Nat /\ r \in Nat /\ r <= Blocks(rr.len)
    BY <1>2, BlocksOfRecord DEF Extent
  <2>3. r # Blocks(rr.len) => r < Blocks(rr.len)
    BY <2>2
  <2>4. ~slot.is_complete => r # Blocks(rr.len)
    BY <2>1
  <2> QED
    BY <2>1, <2>3, <2>4
<1> QED
  BY <1>1, <1>2 DEF Settled

\* A slot that waits for something is not complete, and whole records have
\* slots without an rrid.
Fitting(slot, p, rr, x) ==
  /\ x.item.isRRFrag \in BOOLEAN /\ x.item.rr = rr
  /\ slot.is_complete = FALSE
  /\ slot.rrid = IF x.item.isRRFrag THEN rr.rrid ELSE 0
  /\ x.item.isRRFrag => rr.rrid # 0
  /\ ~x.item.isRRFrag =>
       x = [section |-> p[1], item |-> Whole(rr)] /\ slot = NewSlot(Whole(rr))

LEMMA ExpectingFields ==
  ASSUME NEW rr, rr.len \in Nat \ {0}, NEW p, NEW slot, NEW x, Expecting(slot, p, rr, x)
  PROVE  Fitting(slot, p, rr, x)
<1>1. CASE x = [section |-> p[1], item |-> Whole(rr)] /\ slot = NewSlot(x.item)
  BY <1>1 DEF Whole, NewSlot, Fitting
<1>2. ASSUME NEW k, rr.rrid # 0, x.item = Part(rr, 0, k * BLOCKSIZE), slot = NewSlot(x.item)
      PROVE  /\ x.item.isRRFrag = TRUE /\ x.item.rr = rr
             /\ slot.is_complete = FALSE /\ slot.rrid = rr.rrid
  BY <1>2 DEF Part, NewSlot
<1>3. ASSUME NEW r \in Nat, NEW w \in Nat, rr.rrid # 0, Extent(rr, r, w), r < w,
             x.item = Piece(rr, r, w), slot = Slot(rr, r, w)
      PROVE  /\ x.item.isRRFrag = TRUE /\ x.item.rr = rr
             /\ slot.is_complete = FALSE /\ slot.rrid = rr.rrid
  <2>1. x.item.isRRFrag = TRUE /\ x.item.rr = rr
    BY <1>3 DEF Piece, Part
  <2>2. slot.rrid = rr.rrid /\ slot.is_complete = (r = Blocks(rr.len))
    BY <1>3 DEF Slot
  <2>3. r # Blocks(rr.len)
    BY <1>3, BlocksOfRecord DEF Extent
  <2> QED
    BY <2>1, <2>2, <2>3
<1> QED
  BY <1>1, <1>2, <1>3 DEF Expecting, Fitting

\* One slot of a PartialDNSMessage is replaced.
Replaced(new, e, p, slot) ==
  new.set = e.set /\ new.slots = [e.slots EXCEPT ![p[1]][p[2]] = slot]

LEMMA AtReplaced ==
  ASSUME NEW e, Counted(e), NEW p \in Places(e.slots), NEW slot, NEW new,
         Replaced(new, e, p, slot)
  PROVE  /\ \A s \in Sections : DOMAIN new.slots[s] = DOMAIN e.slots[s]
         /\ At(new.slots, p) = slot
         /\ \A q \in Places(e.slots) : q # p => At(new.slots, q) = At(e.slots, q)
<1>1. /\ p[1] \in Sections /\ p[2] \in DOMAIN e.slots[p[1]] /\ p = <<p[1], p[2]>>
      /\ \A q \in Places(e.slots) :
           q[1] \in Sections /\ q[2] \in DOMAIN e.slots[q[1]] /\ q = <<q[1], q[2]>>
  BY PlacesOfSlots
<1>2. e.slots = [s \in Sections |-> e.slots[s]]
  BY DEF Counted
<1>3. \A s \in Sections : new.slots[s] = IF s = p[1] THEN [e.slots[s] EXCEPT ![p[2]] = slot]
                                          ELSE e.slots[s]
  BY <1>1, <1>2 DEF Replaced
<1>4. \A s \in Sections : DOMAIN new.slots[s] = DOMAIN e.slots[s]
  BY <1>3
<1>5. At(new.slots, p) = slot
  BY <1>1, <1>3 DEF At
<1>6. ASSUME NEW q \in Places(e.slots), q # p
      PROVE  At(new.slots, q) = At(e.slots, q)
  <2>1. /\ q[1] \in Sections /\ q[2] \in DOMAIN e.slots[q[1]]
        /\ q[1] # p[1] \/ q[2] # p[2]
    BY <1>1, <1>6
  <2>2. CASE q[1] # p[1]
    <3>1. new.slots[q[1]] = e.slots[q[1]]
      BY <1>3, <2>1, <2>2
    <3> QED
      BY <3>1 DEF At
  <2>3. CASE q[1] = p[1] /\ q[2] # p[2]
    <3>1. new.slots[q[1]][q[2]] = e.slots[q[1]][q[2]]
      BY <1>3, <2>1, <2>3
    <3> QED
      BY <3>1 DEF At
  <2> QED
    BY <2>1, <2>2, <2>3
<1> QED
  BY <1>4, <1>5, <1>6

LEMMA TracedReplaced ==
  ASSUME NEW e, Counted(e), NEW p \in Places(e.slots), NEW slot, NEW new,
         Replaced(new, e, p, slot), NEW F, Traced(e, F), TracedSlot(slot, F)
  PROVE  Traced(new, F)
<1>1. /\ \A s \in Sections : DOMAIN new.slots[s] = DOMAIN e.slots[s]
      /\ At(new.slots, p) = slot
      /\ \A q \in Places(e.slots) : q # p => At(new.slots, q) = At(e.slots, q)
  BY ONLY Counted(e), p \in Places(e.slots), Replaced(new, e, p, slot), AtReplaced
<1>2. Places(new.slots) = Places(e.slots)
  BY <1>1 DEF Places
<1> QED
  BY <1>1, <1>2 DEF Traced

LEMMA PlanStep ==
  ASSUME NEW A \in Answers, NEW e, Counted(e), NEW items, IsList(items), 1 \in DOMAIN items,
         NEW P, Plan(e, A, items, P), NEW slot, Settled(slot, At(A, P[1])),
         NEW new, Replaced(new, e, P[1], slot)
  PROVE  \E T : Plan(new, A, Tail(items), T)
<1> DEFINE rest == Tail(items)
           p == P[1]
           T == [i \in DOMAIN rest |-> P[i + 1]]
<1>1. /\ DOMAIN items = 1 .. Len(items) /\ Len(items) \in Nat \ {0}
      /\ DOMAIN rest = 1 .. Len(items) - 1 /\ \A i \in DOMAIN rest : rest[i] = items[i + 1]
  <2>1. DOMAIN items = 1 .. Len(items) /\ Len(items) \in Nat
    BY ListLength
  <2>2. Len(items) # 0 /\ items # <<>>
    BY <2>1, EmptySeq
  <2>3. /\ Tail(items) \in Seq(Range(items)) /\ Len(Tail(items)) = Len(items) - 1
        /\ \A i \in 1 .. Len(items) - 1 : Tail(items)[i] = items[i + 1]
    BY HeadTailProperties DEF IsList
  <2>4. DOMAIN Tail(items) = 1 .. Len(Tail(items))
    BY <2>3, LenProperties
  <2> QED
    BY <2>1, <2>2, <2>3, <2>4
<1>2. p \in Places(A) /\ Places(e.slots) = Places(A)
  BY <1>1, SamePlaces DEF Plan
<1>10. p \in Places(e.slots) /\ Replaced(new, e, p, slot)
  BY <1>2
<1> HIDE DEF rest, p
<1>3. /\ \A s \in Sections : DOMAIN new.slots[s] = DOMAIN e.slots[s]
      /\ At(new.slots, p) = slot
      /\ \A q \in Places(A) : q # p => At(new.slots, q) = At(e.slots, q)
  <2>1. /\ \A s \in Sections : DOMAIN new.slots[s] = DOMAIN e.slots[s]
        /\ At(new.slots, p) = slot
        /\ \A q \in Places(e.slots) : q # p => At(new.slots, q) = At(e.slots, q)
    BY <1>10, AtReplaced
  <2> QED
    BY <1>2, <2>1
<1>4. \A i \in DOMAIN rest : i + 1 \in DOMAIN items /\ T[i] = P[i + 1] /\ T[i] \in Places(A)
                             /\ T[i] # p
  <2> SUFFICES ASSUME NEW i \in DOMAIN rest
               PROVE  i + 1 \in DOMAIN items /\ T[i] = P[i + 1] /\ T[i] \in Places(A)
                      /\ T[i] # p
    OBVIOUS
  <2>1. 1 \in DOMAIN items /\ i + 1 \in DOMAIN items /\ 1 < i + 1
    BY <1>1
  <2>2. T[i] = P[i + 1]
    OBVIOUS
  <2> QED
    BY <2>1, <2>2 DEF Plan, Ahead, p
<1>5. Shaped(new, A)
  BY <1>3, <1>10 DEF Plan, Shaped, Replaced
<1>6. T \in [DOMAIN rest -> Places(A)]
  BY <1>4
<1> HIDE DEF T
<1>7. \A i, j \in DOMAIN rest : i < j => Ahead(T[i], T[j])
  <2> SUFFICES ASSUME NEW i \in DOMAIN rest, NEW j \in DOMAIN rest, i < j
               PROVE  Ahead(T[i], T[j])
    OBVIOUS
  <2>1. i + 1 < j + 1 /\ i + 1 \in DOMAIN items /\ j + 1 \in DOMAIN items
    BY <1>1, <1>4
  <2> QED
    BY <1>4, <2>1 DEF Plan
<1>8. \A i \in DOMAIN rest : Expecting(At(new.slots, T[i]), T[i], At(A, T[i]), rest[i])
  BY <1>1, <1>3, <1>4 DEF Plan
<1>9. ASSUME NEW q \in Places(A), \A i \in DOMAIN rest : q # T[i]
      PROVE  Settled(At(new.slots, q), At(A, q))
  <2>1. CASE q = p
    BY <1>3, <2>1 DEF p
  <2>2. CASE q # p
    <3>1. \A i \in DOMAIN items : q # P[i]
      <4> SUFFICES ASSUME NEW i \in DOMAIN items, i # 1 PROVE q # P[i]
        BY <2>2 DEF p
      <4>1. i - 1 \in DOMAIN rest /\ i - 1 + 1 = i
        BY <1>1
      <4>2. T[i - 1] = P[i - 1 + 1]
        BY <1>4, <4>1
      <4> QED
        BY <1>9, <4>1, <4>2
    <3> QED
      BY <1>3, <2>2, <3>1 DEF Plan
  <2> QED
    BY <2>1, <2>2
<1> QED
  BY <1>5, <1>6, <1>7, <1>8, <1>9 DEF Plan, rest

\* The slots of a plan have an rrid of their own or none, and those without one
\* that are not complete wait for a whole record.
LEMMA PlanFields ==
  ASSUME NEW A \in Answers, NEW e, NEW items, NEW P, Plan(e, A, items, P),
         NEW p \in Places(A)
  PROVE  /\ At(e.slots, p).rrid \in {0, At(A, p).rrid}
         /\ ~At(e.slots, p).is_complete /\ At(e.slots, p).rrid = 0 =>
              \E i \in DOMAIN items : p = P[i] /\ ~items[i].item.isRRFrag
<1> DEFINE slot == At(e.slots, p)
           rr == At(A, p)
<1>1. rr.len \in Nat \ {0} /\ rr.rrid \in Nat
  BY AnswerFields
<1>2. ASSUME NEW i \in DOMAIN items, p = P[i]
      PROVE  /\ slot.rrid \in {0, rr.rrid}
             /\ slot.rrid = 0 => ~items[i].item.isRRFrag
  <2> DEFINE x == items[i]
  <2>1. Expecting(slot, p, rr, x)
    BY <1>2 DEF Plan
  <2> HIDE DEF slot, rr, x
  <2>2. Fitting(slot, p, rr, x)
    BY <1>1, <2>1, ExpectingFields
  <2>3. slot.rrid \in {0, rr.rrid} /\ (slot.rrid = 0 => ~x.item.isRRFrag)
    BY <1>1, <2>2 DEF Fitting
  <2> QED
    BY <2>3 DEF x
<1>3. ASSUME \A i \in DOMAIN items : p # P[i]
      PROVE  slot.rrid \in {0, rr.rrid} /\ (slot.rrid = 0 => slot.is_complete)
  <2>1. Settled(slot, rr)
    BY <1>3 DEF Plan
  <2> HIDE DEF slot, rr
  <2> QED
    BY <1>1, <2>1, SettledFields
<1> QED
  BY <1>2, <1>3

\* The places of a list come one after another.
LEMMA FirstOfOne ==
  ASSUME NEW S \in SUBSET (Sections \X Nat), NEW p \in S, \A q \in S : Before(p, q)
  PROVE  First(S) = p
<1> DEFINE x == First(S)
<1>1. x \in S /\ \A q \in S : Before(x, q)
  BY DEF First
<1> HIDE DEF x
<1>2. Before(x, p) /\ Before(p, x)
  BY <1>1
<1>3. x = <<x[1], x[2]>> /\ p = <<p[1], p[2]>> /\ x[1] \in Nat /\ p[1] \in Nat
      /\ x[2] \in Nat /\ p[2] \in Nat
  BY <1>1 DEF Sections
<1>4. x[1] = p[1] /\ x[2] = p[2]
  BY <1>2, <1>3 DEF Before
<1> QED
  BY <1>3, <1>4 DEF x

\* A fragment is copied to the slot that waits for it, if there is room.
LEMMA FragmentCopied ==
  ASSUME Undisturbed, NEW A \in Answers, NEW e, NEW items, 1 \in DOMAIN items,
         NEW P, Plan(e, A, items, P), items[1].item.isRRFrag
  PROVE  LET f == items[1].item
             found == Matching(e, f.rr.rrid)
             slot == At(e.slots, P[1])
         IN  /\ found # {} /\ First(found) = P[1]
             /\ Outcome(slot, f) = IF slot.noroom THEN "hung" ELSE "running"
             /\ ~slot.noroom => /\ Settled(Filled(slot, f), At(A, P[1]))
                                /\ Filled(slot, f).rrid = slot.rrid
                                /\ Filled(slot, f).noroom => f.fragsize = 0
<1> DEFINE f == items[1].item
           p == P[1]
           slot == At(e.slots, p)
           rr == At(A, p)
           found == Matching(e, f.rr.rrid)
<1>1. p \in Places(A) /\ Places(e.slots) = Places(A) /\ Expecting(slot, p, rr, items[1])
  BY SamePlaces DEF Plan
<1>2. rr.len \in Nat \ {0} /\ Places(A) \in SUBSET (Sections \X Nat)
  BY <1>1, AnswerFields
<1>3. f.rr = rr /\ slot.rrid = rr.rrid /\ slot.is_complete = FALSE /\ rr.rrid # 0
  <2> DEFINE x == items[1]
  <2>1. Expecting(slot, p, rr, x) /\ x.item.isRRFrag
    BY <1>1
  <2>3. rr.len \in Nat \ {0}
    BY <1>2
  <2> HIDE DEF slot, rr, p, x
  <2>4. Fitting(slot, p, rr, x)
    BY <2>1, <2>3, ExpectingFields
  <2>2. x.item.rr = rr /\ slot.rrid = rr.rrid /\ slot.is_complete = FALSE /\ rr.rrid # 0
    BY <2>1, <2>4 DEF Fitting
  <2> QED
    BY <2>2 DEF x
<1>4. found = {p}
  <2>1. p \in found
    BY <1>1, <1>3 DEF Matching, At
  <2>2. ASSUME NEW q \in found PROVE q = p
    <3>1. q \in Places(A) /\ At(e.slots, q).rrid = rr.rrid
      BY <1>1, <1>3 DEF Matching, At
    <3> HIDE DEF rr
    <3>2. At(A, q).rrid = rr.rrid
      BY <1>3, <3>1, PlanFields
    <3> QED
      BY <1>1, <1>3, <3>1, <3>2 DEF Undisturbed, rr
  <2> QED
    BY <2>1, <2>2
<1>5. First(found) = p
  <2>1. found \in SUBSET (Sections \X Nat) /\ found # {}
    BY <1>1, <1>2, <1>4
  <2> HIDE DEF found, p
  <2>2. First(found) \in found
    BY <2>1, FirstIsOne
  <2> QED
    BY <1>4, <2>2
<1> DEFINE Copied(old, g) ==
             /\ Outcome(old, g) = IF old.noroom THEN "hung" ELSE "running"
             /\ ~old.noroom => /\ Settled(Filled(old, g), rr)
                               /\ Filled(old, g).rrid = old.rrid
                               /\ Filled(old, g).noroom => g.fragsize = 0
<1>6. Copied(slot, f)
  <2>1. ASSUME NEW k \in FIRSTBLOCKS, k * BLOCKSIZE < rr.len, f = Part(rr, 0, k * BLOCKSIZE),
               slot = NewSlot(f)
        PROVE  Copied(slot, f)
    <3>1. k \in Nat
      BY RequesterAssumption
    <3>2. /\ Outcome(slot, f) = "running" /\ Filled(slot, f) = Slot(rr, k, k)
          /\ Extent(rr, k, k)
      <4> HIDE DEF rr, f, slot
      <4> QED
        BY <1>2, <2>1, <3>1, FillNew
    <3>3. f.fragsize = k * BLOCKSIZE /\ slot.noroom = FALSE
      BY <2>1 DEF Part, NewSlot
    <3>4. Slot(rr, k, k).noroom = (k = 0) /\ Slot(rr, k, k).rrid = rr.rrid
      BY DEF Slot
    <3>5. k = 0 => f.fragsize = 0
      BY <3>3 DEF BLOCKSIZE
    <3>6. Settled(Slot(rr, k, k), rr)
      BY <1>3, <3>1, <3>2 DEF Settled
    <3> HIDE DEF rr, f, slot
    <3> QED
      BY <1>3, <3>2, <3>3, <3>4, <3>5, <3>6
  <2>2. ASSUME NEW r \in Nat, NEW w \in Nat, Extent(rr, r, w), r < w, f = Piece(rr, r, w),
               slot = Slot(rr, r, w)
        PROVE  Copied(slot, f)
    <3>1. /\ Outcome(slot, f) = IF r = 0 THEN "hung" ELSE "running"
          /\ r # 0 => Filled(slot, f) = Slot(rr, w, w)
      <4> HIDE DEF rr, f, slot
      <4> QED
        BY <1>2, <2>2, FillSlot
    <3>2. Extent(rr, w, w) /\ (w = 0) = FALSE
      BY <2>2 DEF Extent
    <3>3. slot.noroom = (r = 0)
      BY <2>2 DEF Slot
    <3>4. Slot(rr, w, w).noroom = (w = 0) /\ Slot(rr, w, w).rrid = rr.rrid
      BY DEF Slot
    <3>5. Settled(Slot(rr, w, w), rr)
      BY <1>3, <3>2 DEF Settled
    <3> HIDE DEF rr, f, slot
    <3> QED
      BY <1>3, <3>1, <3>2, <3>3, <3>4, <3>5
  <2> HIDE DEF rr, slot, p, Copied
  <2> QED
    BY <1>1, <1>3, <2>1, <2>2 DEF Expecting, Whole
<1> QED
  BY <1>3, <1>4, <1>5, <1>6

\* A whole record is copied to its own slot, though any slot would do that is
\* not complete and was not made for a fragment.
LEMMA WholeCopied ==
  ASSUME NEW A \in Answers, NEW e, NEW items, IsList(items), 1 \in DOMAIN items,
         NEW P, Plan(e, A, items, P), ~items[1].item.isRRFrag
  PROVE  LET free == Unfilled(e, items[1].section)
             rr == items[1].item.rr
             slot == At(e.slots, P[1])
         IN  /\ free # {} /\ First(free) = P[1] /\ ~slot.is_complete
             /\ Settled(WithWhole(slot, rr), At(A, P[1]))
             /\ \A F : TracedSlot(WithWhole(slot, rr), F)
<1> DEFINE p == P[1]
           slot == At(e.slots, p)
           rr == At(A, p)
           free == Unfilled(e, items[1].section)
<1>1. p \in Places(A) /\ Places(e.slots) = Places(A) /\ Expecting(slot, p, rr, items[1])
      /\ Places(A) \in SUBSET (Sections \X Nat)
  BY SamePlaces, AnswerFields DEF Plan
<1>2. rr.len \in Nat \ {0} /\ p[1] \in Sections
      /\ p[2] \in DOMAIN A[p[1]] /\ p = <<p[1], p[2]>>
  BY <1>1, AnswerFields
<1>3. /\ items[1] = [section |-> p[1], item |-> Whole(rr)] /\ slot = NewSlot(Whole(rr))
      /\ slot.is_complete = FALSE /\ slot.rrid = 0
  <2> DEFINE x == items[1]
  <2>1. Expecting(slot, p, rr, x)
    BY <1>1
  <2>5. ~x.item.isRRFrag
    OBVIOUS
  <2>3. rr.len \in Nat \ {0}
    BY <1>2
  <2> HIDE DEF slot, rr, p, x
  <2>4. Fitting(slot, p, rr, x)
    BY <2>1, <2>3, ExpectingFields
  <2>2. /\ x = [section |-> p[1], item |-> Whole(rr)] /\ slot = NewSlot(Whole(rr))
        /\ slot.is_complete = FALSE /\ slot.rrid = 0
    BY <2>4, <2>5 DEF Fitting
  <2> QED
    BY <2>2 DEF x
<1>4. items[1].section = p[1] /\ items[1].item.rr = rr
  BY <1>3 DEF Whole
<1>5. free \subseteq Places(A) /\ p \in free
  <2>1. free = {q \in {p[1]} \X DOMAIN e.slots[p[1]] :
                  ~e.slots[p[1]][q[2]].is_complete /\ e.slots[p[1]][q[2]].rrid = 0}
    BY <1>4 DEF Unfilled
  <2>2. DOMAIN e.slots[p[1]] = DOMAIN A[p[1]]
    BY <1>2 DEF Plan, Shaped
  <2>3. e.slots[p[1]][p[2]] = slot
    BY DEF At
  <2> HIDE DEF free, p, slot
  <2>4. free \subseteq Places(A)
    BY <1>2, <2>1, <2>2 DEF Places
  <2>5. p \in {p[1]} \X DOMAIN e.slots[p[1]]
    BY <1>2, <2>2
  <2> QED
    BY <1>3, <2>1, <2>3, <2>4, <2>5
<1>6. ASSUME NEW q \in free PROVE Before(p, q)
  <2>1. ~At(e.slots, q).is_complete /\ At(e.slots, q).rrid = 0 /\ q \in Places(A)
    BY <1>4, <1>5 DEF Unfilled, At
  <2>2. PICK i \in DOMAIN items : q = P[i]
    <3> HIDE DEF p, free
    <3> QED
      BY <2>1, PlanFields
  <2>3. i = 1 \/ 1 < i
    BY ListLength
  <2>4. i = 1 => Before(p, q)
    BY <1>1, <2>2 DEF Before, Sections
  <2> QED
    BY <2>2, <2>3, <2>4 DEF Plan, Ahead
<1>7. First(free) = p
  <2>1. free \in SUBSET (Sections \X Nat)
    BY <1>1, <1>5
  <2> HIDE DEF free, p
  <2> QED
    BY <1>5, <1>6, <2>1, FirstOfOne
<1>8. Settled(WithWhole(slot, items[1].item.rr), rr)
  BY <1>3, <1>4 DEF Settled
<1>9. \A F : TracedSlot(WithWhole(slot, items[1].item.rr), F)
  <2> DEFINE new == WithWhole(slot, items[1].item.rr)
  <2>1. new.rrid = 0 /\ new.noroom = FALSE
    BY <1>3 DEF WithWhole, NewSlot, Whole
  <2> HIDE DEF new
  <2>2. \A F : TracedSlot(new, F)
    BY <2>1 DEF TracedSlot
  <2> QED
    BY <2>2 DEF new
<1> QED
  BY <1>3, <1>5, <1>7, <1>8, <1>9
-----------------------------------------------------------------------------
\* The counters say whether every slot is complete.
LEMMA AllCounted ==
  ASSUME NEW e, Counted(e), e.set
  PROVE  message_complete(e) <=> \A p \in Places(e.slots) : At(e.slots, p).is_complete
<1>1. ASSUME NEW s \in Sections
      PROVE  e.count[s] = e.done[s] <=> \A i \in DOMAIN e.slots[s] : e.slots[s][i].is_complete
  <2> DEFINE list == e.slots[s]
             complete == CompleteIn(list)
  <2>1. IsList(list) /\ Len(list) = e.count[s] /\ e.done[s] = Cardinality(complete)
    BY DEF Counted
  <2>2. Len(list) \in Nat /\ DOMAIN list = 1 .. Len(list)
    BY <2>1, ListLength
  <2>3. IsFiniteSet(DOMAIN list) /\ Cardinality(DOMAIN list) = Len(list)
    <3> DEFINE n == Len(list)
    <3>1. n \in Nat /\ DOMAIN list = 1 .. n
      BY <2>2
    <3> HIDE DEF n
    <3>2. IsFiniteSet(1 .. n) /\ Cardinality(1 .. n) = n
      BY <3>1, FS_Interval
    <3> QED
      BY <3>1, <3>2 DEF n
  <2>4. complete \subseteq DOMAIN list
    BY DEF CompleteIn
  <2> HIDE DEF list
  <2>5. Cardinality(complete) = Cardinality(DOMAIN list) <=> complete = DOMAIN list
    <3> HIDE DEF complete
    <3> QED
      BY <2>3, <2>4, FS_Subset
  <2>6. complete = DOMAIN list <=> \A i \in DOMAIN list : list[i].is_complete
    BY DEF CompleteIn
  <2> QED
    BY <2>1, <2>3, <2>5, <2>6 DEF list
<1>2. e.count = e.done <=> \A s \in Sections : e.count[s] = e.done[s]
  BY DEF Counted
<1>3. (\A p \in Places(e.slots) : At(e.slots, p).is_complete)
        <=> \A s \in Sections : \A i \in DOMAIN e.slots[s] : e.slots[s][i].is_complete
  <2>1. ASSUME NEW s \in Sections, NEW i \in DOMAIN e.slots[s]
        PROVE  <<s, i>> \in Places(e.slots) /\ At(e.slots, <<s, i>>) = e.slots[s][i]
    BY DEF Places, At
  <2>2. \A p \in Places(e.slots) : /\ p[1] \in Sections /\ p[2] \in DOMAIN e.slots[p[1]]
                                   /\ At(e.slots, p) = e.slots[p[1]][p[2]]
    BY PlacesOfSlots DEF At
  <2> QED
    BY <2>1, <2>2
<1> QED
  BY <1>1, <1>2, <1>3 DEF message_complete

\* The contents of a complete slot are put together to its record.
LEMMA SettledWhole ==
  ASSUME NEW rr, rr.len \in Nat \ {0}, NEW slot, Settled(slot, rr), slot.is_complete
  PROVE  Reassembled(slot) = Whole(rr)
<1> DEFINE all(x) == BlocksOf(x, 0 .. Blocks(x.len) - 1)
           exact == {x \in {c[1] : c \in slot.contents} : slot.contents = all(x)}
<1>1. slot.contents = all(rr)
  <2>1. CASE slot = WithWhole(NewSlot(Whole(rr)), rr)
    BY <2>1 DEF WithWhole, NewSlot, Whole
  <2>2. ASSUME NEW r \in Nat, slot = Slot(rr, r, r) PROVE slot.contents = all(rr)
    <3>1. slot.is_complete = (r = Blocks(rr.len)) /\ slot.contents = BlocksOf(rr, 0 .. r - 1)
      BY <2>2 DEF Slot
    <3> QED
      BY <3>1
  <2> QED
    BY <2>1, <2>2 DEF Settled
<1>2. <<rr, 0>> \in slot.contents /\ \A c \in slot.contents : c[1] = rr
  <2>1. 0 \in 0 .. Blocks(rr.len) - 1
    BY BlocksOfRecord
  <2> QED
    BY <1>1, <2>1 DEF BlocksOf
<1>3. {c[1] : c \in slot.contents} = {rr}
  BY <1>2
<1>4. exact = {rr}
  <2> HIDE DEF all
  <2> QED
    BY <1>1, <1>3
<1>5. Reassembled(slot) = Whole(IF exact = {} THEN GARBLED ELSE CHOOSE x \in exact : TRUE)
  BY DEF Reassembled
<1> HIDE DEF exact
<1> QED
  BY <1>4, <1>5

\* When nothing is expected any more, the message is put together if it is
\* complete, or there is something to ask for.
LEMMA AllSettled ==
  ASSUME NEW A \in Answers, NEW e, Counted(e), Shaped(e, A),
         \A p \in Places(A) : Settled(At(e.slots, p), At(A, p))
  PROVE  /\ message_complete(e) => partial_to_dnsmessage(e) = WholeMessage(A)
         /\ ~message_complete(e) => Incomplete(e) # {}
<1>1. Places(e.slots) = Places(A) /\ e.set
  BY SamePlaces DEF Shaped
<1>2. \A p \in Places(A) : At(A, p).len \in Nat \ {0}
  BY AnswerFields
<1>3. ASSUME message_complete(e)
      PROVE  partial_to_dnsmessage(e) = WholeMessage(A)
  <2>1. ASSUME NEW s \in Sections, NEW i \in DOMAIN A[s]
        PROVE  Reassembled(e.slots[s][i]) = Whole(A[s][i])
    <3> DEFINE p == <<s, i>>
               slot == At(e.slots, p)
               rr == At(A, p)
    <3>1. p \in Places(A) /\ slot = e.slots[s][i] /\ rr = A[s][i]
      BY DEF Places, At
    <3>2. rr.len \in Nat \ {0} /\ Settled(slot, rr) /\ slot.is_complete
      BY <1>1, <1>2, <1>3, <3>1, AllCounted
    <3> HIDE DEF p, slot, rr
    <3>3. Reassembled(slot) = Whole(rr)
      BY <3>2, SettledWhole
    <3> QED
      BY <3>1, <3>3
  <2>2. \A s \in Sections : DOMAIN e.slots[s] = DOMAIN A[s]
    BY DEF Shaped
  <2> QED
    BY <2>1, <2>2 DEF partial_to_dnsmessage, WholeMessage
<1>4. ASSUME ~message_complete(e)
      PROVE  Incomplete(e) # {}
  <2>1. PICK p \in Places(A) : ~At(e.slots, p).is_complete
    BY <1>1, <1>4, AllCounted
  <2> DEFINE slot == At(e.slots, p)
             rr == At(A, p)
  <2>2. rr.len \in Nat \ {0} /\ Settled(slot, rr) /\ ~slot.is_complete
    BY <1>2, <2>1
  <2> HIDE DEF slot, rr
  <2>3. slot.rrid # 0
    BY <2>2, SettledFields
  <2> QED
    BY <1>1, <2>1, <2>3 DEF Incomplete, slot, At
<1> QED
  BY <1>3, <1>4
-----------------------------------------------------------------------------
\* The slot of one more place is waiting.
Longer(more, items, n, x) ==
  /\ n \in Nat /\ DOMAIN items = 1 .. n /\ DOMAIN more = 1 .. n + 1
  /\ \A i \in 1 .. n : more[i] = items[i]
  /\ more[n + 1] = x

PlacedAlike(T, more, P, items, p) ==
  \A i \in DOMAIN more : T[i] = p \/ \E j \in DOMAIN items : T[i] = P[j]

AllAhead(P, items, p) == \A i \in DOMAIN items : Ahead(P[i], p)

LEMMA PlanGrows ==
  ASSUME NEW A \in Answers, NEW e, Counted(e), NEW items, NEW more, NEW n, NEW x,
         Longer(more, items, n, x), NEW P, Plan(e, A, items, P),
         NEW p \in Places(A), AllAhead(P, items, p),
         NEW slot, Expecting(slot, p, At(A, p), x), NEW new, Replaced(new, e, p, slot)
  PROVE  \E T : Plan(new, A, more, T) /\ PlacedAlike(T, more, P, items, p)
<1>0. /\ n \in Nat /\ DOMAIN items = 1 .. n /\ DOMAIN more = 1 .. n + 1
      /\ (\A i \in 1 .. n : more[i] = items[i]) /\ more[n + 1] = x
      /\ \A i \in 1 .. n : Ahead(P[i], p)
  BY DEF Longer, AllAhead
<1> DEFINE T == [i \in 1 .. n + 1 |-> IF i = n + 1 THEN p ELSE P[i]]
<1>1. Places(e.slots) = Places(A)
  BY SamePlaces DEF Plan
<1>2. /\ \A s \in Sections : DOMAIN new.slots[s] = DOMAIN e.slots[s]
      /\ At(new.slots, p) = slot
      /\ \A q \in Places(A) : q # p => At(new.slots, q) = At(e.slots, q)
  <2>1. Counted(e) /\ p \in Places(e.slots) /\ Replaced(new, e, p, slot)
    BY <1>1
  <2>2. /\ \A s \in Sections : DOMAIN new.slots[s] = DOMAIN e.slots[s]
        /\ At(new.slots, p) = slot
        /\ \A q \in Places(e.slots) : q # p => At(new.slots, q) = At(e.slots, q)
    BY ONLY <2>1, AtReplaced
  <2> QED
    BY <1>1, <2>2
<1>3. \A i \in 1 .. n + 1 : i = n + 1 \/ i \in 1 .. n
  BY <1>0
<1>4. P \in [1 .. n -> Places(A)] /\ T[n + 1] = p /\ \A i \in 1 .. n : T[i] = P[i] /\ P[i] # p
  <2>1. \A i \in 1 .. n : i # n + 1 /\ i \in 1 .. n + 1
    BY <1>0
  <2>2. n + 1 \in 1 .. n + 1
    BY <1>0
  <2> QED
    BY <1>0, <2>1, <2>2 DEF Plan, Ahead
<1>5. T \in [1 .. n + 1 -> Places(A)]
  BY <1>3, <1>4
<1> HIDE DEF T
<1>6. Shaped(new, A)
  BY <1>2 DEF Plan, Shaped, Replaced
<1>7. ASSUME NEW i \in 1 .. n + 1, NEW j \in 1 .. n + 1, i < j
      PROVE  Ahead(T[i], T[j])
  <2>1. i \in 1 .. n
    BY <1>0, <1>7
  <2>2. CASE j = n + 1
    BY <1>0, <1>4, <2>1, <2>2
  <2>3. CASE j \in 1 .. n
    BY <1>0, <1>4, <1>7, <2>1, <2>3 DEF Plan
  <2> QED
    BY <1>3, <2>2, <2>3
<1>8. ASSUME NEW i \in 1 .. n + 1
      PROVE  Expecting(At(new.slots, T[i]), T[i], At(A, T[i]), more[i])
  <2>1. CASE i = n + 1
    BY <1>0, <1>2, <1>4, <2>1
  <2>2. CASE i \in 1 .. n
    <3>1. P[i] \in Places(A) /\ T[i] = P[i] /\ P[i] # p /\ more[i] = items[i]
      BY <1>0, <1>4, <2>2
    <3>2. At(new.slots, P[i]) = At(e.slots, P[i])
      BY <1>2, <3>1
    <3>3. Expecting(At(e.slots, P[i]), P[i], At(A, P[i]), items[i])
      BY <1>0, <2>2 DEF Plan
    <3> QED
      BY <3>1, <3>2, <3>3
  <2> QED
    BY <1>3, <2>1, <2>2
<1>9. ASSUME NEW q \in Places(A), \A i \in 1 .. n + 1 : q # T[i]
      PROVE  Settled(At(new.slots, q), At(A, q))
  <2>1. q # T[n + 1] /\ \A i \in 1 .. n : q # T[i]
    BY <1>0, <1>9
  <2>2. q # p /\ \A i \in 1 .. n : q # P[i]
    BY <1>4, <2>1
  <2> QED
    BY <1>0, <1>2, <2>2 DEF Plan
<1>10. \A i \in 1 .. n + 1 : T[i] = p \/ \E j \in 1 .. n : T[i] = P[j]
  BY <1>3, <1>4
<1>11. Plan(new, A, more, T)
  <2>1. /\ T \in [DOMAIN more -> Places(A)]
        /\ \A i, j \in DOMAIN more : i < j => Ahead(T[i], T[j])
    BY <1>0, <1>5, <1>7
  <2>2. \A i \in DOMAIN more : Expecting(At(new.slots, T[i]), T[i], At(A, T[i]), more[i])
    BY <1>0, <1>8
  <2>3. \A q \in Places(A) :
          (\A i \in DOMAIN more : q # T[i]) => Settled(At(new.slots, q), At(A, q))
    BY <1>0, <1>9
  <2> QED
    BY <1>6, <2>1, <2>2, <2>3 DEF Plan
<1>12. PlacedAlike(T, more, P, items, p)
  BY <1>0, <1>10 DEF PlacedAlike
<1> QED
  BY <1>11, <1>12

\* pack_section finds the record itself by its rrid.
LEMMA NamedLikeItself ==
  ASSUME Undisturbed, NEW A \in Answers, NEW items, NEW P, Plan(entry, A, items, P),
         NEW p \in Places(A), At(entry.slots, p).rrid # 0
  PROVE  NamedLike(p) = p
<1> DEFINE s == p[1]
           list == entry.slots[s]
           named(i) == /\ list[i].rrid = list[p[2]].rrid
                       /\ \A k \in 1 .. i - 1 : list[k].rrid # list[p[2]].rrid
<1>1. /\ s \in Sections /\ p[2] \in DOMAIN A[s] /\ p = <<s, p[2]>>
      /\ DOMAIN A[s] = 1 .. Len(A[s]) /\ Len(A[s]) \in Nat
  BY AnswerFields
<1>2. DOMAIN list = DOMAIN A[s]
  BY <1>1 DEF Plan, Shaped
<1>3. ASSUME NEW i \in DOMAIN list, list[i].rrid = list[p[2]].rrid
      PROVE  i = p[2]
  <2> DEFINE q == <<s, i>>
  <2>1. q \in Places(A) /\ q[2] = i
    BY <1>1, <1>2 DEF Places
  <2>2. At(entry.slots, q).rrid = At(entry.slots, p).rrid
    BY <1>3 DEF At
  <2> HIDE DEF q, s
  <2>3. At(entry.slots, q).rrid \in {0, At(A, q).rrid}
        /\ At(entry.slots, p).rrid \in {0, At(A, p).rrid}
    BY <2>1, PlanFields
  <2>4. At(A, q).rrid = At(A, p).rrid /\ At(A, p).rrid # 0
    BY <2>2, <2>3
  <2>5. q = p
    BY <2>1, <2>4 DEF Undisturbed
  <2> QED
    BY <2>1, <2>5
<1>4. p[2] \in DOMAIN list /\ named(p[2])
  <2>1. p[2] \in Nat /\ \A k \in 1 .. p[2] - 1 : k \in DOMAIN list /\ k # p[2]
    BY <1>1, <1>2
  <2> HIDE DEF list
  <2> QED
    BY <1>1, <1>2, <1>3, <2>1
<1>5. NamedLike(p) = <<s, CHOOSE i \in DOMAIN list : named(i)>>
  BY DEF NamedLike
<1>6. \A i \in DOMAIN list : named(i) => i = p[2]
  BY <1>3
<1> HIDE DEF named
<1>7. (CHOOSE i \in DOMAIN list : named(i)) = p[2]
  BY <1>4, <1>6
<1> QED
  BY <1>1, <1>5, <1>7

\* What is asked for are fragments, each of some size.
LEMMA AskSizes ==
  ASSUME NEW A \in Answers, NEW e, NEW asks, NEW P, Plan(e, A, Listed(asks), P)
  PROVE  \A i \in DOMAIN asks : asks[i].fragsize \in Nat
<1> SUFFICES ASSUME NEW i \in DOMAIN asks PROVE asks[i].fragsize \in Nat
  OBVIOUS
<1> DEFINE x == Listed(asks)[i]
           rr == At(A, P[i])
<1>1. P[i] \in Places(A) /\ Expecting(At(e.slots, P[i]), P[i], rr, x)
  BY DEF Plan, Listed
<1>2. x.item.isRRFrag = TRUE /\ x.item.fragsize = asks[i].fragsize
  BY DEF Listed, Served, Part
<1>3. rr.len \in Nat \ {0}
  BY <1>1, AnswerFields
<1>4. ASSUME NEW k \in FIRSTBLOCKS, x.item = Part(rr, 0, k * BLOCKSIZE)
      PROVE  x.item.fragsize \in Nat
  <2>1. x.item.fragsize = k * BLOCKSIZE /\ k \in Nat
    BY <1>4, RequesterAssumption DEF Part
  <2> QED
    BY <2>1 DEF BLOCKSIZE
<1>5. ASSUME NEW r \in Nat, NEW w \in Nat, Extent(rr, r, w), r < w, x.item = Piece(rr, r, w)
      PROVE  x.item.fragsize \in Nat
  <2>1. x.item.fragsize = AskSize(rr, r, w)
    BY <1>5 DEF Piece, Part
  <2> HIDE DEF rr
  <2>2. AskSize(rr, r, w) \in Nat \ {0}
    BY <1>3, <1>5, PieceSpan
  <2> QED
    BY <2>1, <2>2
<1>6. x.item # Whole(rr)
  BY <1>2 DEF Whole
<1> HIDE DEF x, rr
<1> QED
  BY <1>1, <1>2, <1>4, <1>5, <1>6 DEF Expecting

\* One more fragment is asked for.
LEMMA SizeAppend ==
  ASSUME NEW asks, IsList(asks), \A i \in DOMAIN asks : asks[i].fragsize \in Nat,
         NEW ask, ask.fragsize \in Nat
  PROVE  /\ ResponseSize(Append(asks, ask)) = ResponseSize(asks) + RRFRAGHEADER + ask.fragsize
         /\ ResponseSize(asks) \in Int
         /\ Len(Append(asks, ask)) = Len(asks) + 1 /\ Len(asks) \in Nat
         /\ DOMAIN asks = 1 .. Len(asks)
         /\ \A i \in 1 .. Len(asks) : Append(asks, ask)[i] = asks[i]
         /\ Append(asks, ask)[Len(asks) + 1] = ask
         /\ DOMAIN Append(asks, ask) = 1 .. Len(asks) + 1
<1> DEFINE n == Len(asks)
           more == Append(asks, ask)
           size(a) == RRFRAGHEADER + a.fragsize
           s == [i \in 1 .. n |-> size(asks[i])]
<1>1. n \in Nat /\ DOMAIN asks = 1 .. n
  BY ListLength
<1>2. Len(more) = n + 1 /\ DOMAIN more = 1 .. n + 1 /\ more[n + 1] = ask
      /\ \A i \in 1 .. n : more[i] = asks[i]
  <2> DEFINE S == Range(asks) \cup {ask}
  <2>1. asks \in Seq(S) /\ ask \in S
    BY SeqMonotonic DEF IsList
  <2> HIDE DEF S
  <2>2. more \in Seq(S) /\ Len(more) = Len(asks) + 1 /\ more[Len(asks) + 1] = ask
        /\ \A i \in 1 .. Len(asks) : more[i] = asks[i]
    BY <2>1, AppendProperties
  <2>3. DOMAIN more = 1 .. Len(more)
    BY <2>2, LenProperties
  <2> QED
    BY <2>2, <2>3
<1> HIDE DEF n, more
<1>3. s \in [1 .. n -> Int]
  BY <1>1 DEF RRFRAGHEADER
<1>4. s \in Seq(Int) /\ Len(s) = n
  <2> HIDE DEF s
  <2>1. s \in Seq(Int)
    BY <1>1, <1>3, SeqDef
  <2>2. DOMAIN s = 1 .. n
    BY <1>3
  <2> QED
    BY <1>1, <2>1, <2>2, LenProperties
<1>5. Append(s, size(ask)) = [i \in 1 .. n + 1 |-> size(more[i])]
  <2>1. Append(s, size(ask)) = [i \in 1 .. n + 1 |-> IF i = n + 1 THEN size(ask) ELSE s[i]]
    <3> DEFINE x == size(ask)
    <3>1. x \in Int
      BY DEF RRFRAGHEADER
    <3> HIDE DEF s, x
    <3> QED
      BY <1>4, <3>1
  <2>2. ASSUME NEW i \in 1 .. n + 1
        PROVE  (IF i = n + 1 THEN size(ask) ELSE s[i]) = size(more[i])
    <3>1. CASE i = n + 1
      BY <1>2, <3>1
    <3>2. CASE i \in 1 .. n
      BY <1>1, <1>2, <3>2
    <3> QED
      BY <1>1, <3>1, <3>2
  <2> QED
    BY <2>1, <2>2
<1>6. Total(Append(s, size(ask))) = Total(s) + size(ask) /\ Total(s) \in Int
  <2> DEFINE x == size(ask)
  <2>1. x \in Int
    BY DEF RRFRAGHEADER
  <2> HIDE DEF s, x
  <2>2. Total(Append(s, x)) = Total(s) + x /\ Total(s) \in Int
    BY <1>4, <2>1, TotalAppend
  <2> QED
    BY <2>2 DEF x
<1>7. ResponseSize(asks) = DNSMESSAGEHEADER + Total(s)
      /\ ResponseSize(more) = DNSMESSAGEHEADER + Total(Append(s, size(ask)))
  BY <1>2, <1>5 DEF ResponseSize, n
<1> HIDE DEF s
<1>8. ResponseSize(more) = ResponseSize(asks) + RRFRAGHEADER + ask.fragsize
      /\ ResponseSize(asks) \in Int
  BY <1>6, <1>7 DEF DNSMESSAGEHEADER, RRFRAGHEADER
<1> QED
  BY <1>1, <1>2, <1>8 DEF n, more
-----------------------------------------------------------------------------
\* Fragments, of some bytes, are asked for by the rrids of records of the answer.
Naming(asks, A) ==
  \A i \in DOMAIN asks :
    /\ asks[i].fragsize # 0
    /\ \E p \in Places(A) : At(A, p).rrid # 0 /\ asks[i].rrid = At(A, p).rrid

\* While a follow-up query is packed: the fragments asked for so far are
\* expected, the response to it nearly fits, and it is not going to be empty.
Packing ==
  /\ Expects(entry, answer[packet], Listed(asked), missing)
  /\ cursize \in Nat /\ cursize <= MAXUDP + RRFRAGHEADER - RRHEADER
  /\ ResponseSize(asked) = cursize + RRHEADER * Len(asked)
  /\ asked = <<>> => missing # {} /\ cursize = DNSMESSAGEHEADER
  /\ Naming(asked, answer[packet])

\* The record that is packed next: it is found by its rrid, nothing of it is
\* expected, and blocks of it are missing.
LEMMA NextMissing ==
  ASSUME Undisturbed, NEW A \in Answers, NEW asks, NEW P, Plan(entry, A, Listed(asks), P),
         NEW rest, rest \subseteq Incomplete(entry), rest # {},
         \A p \in rest, i \in DOMAIN Listed(asks) : Ahead(P[i], p)
  PROVE  LET next == First(rest)
             rr == At(A, next)
         IN  /\ next \in rest /\ next \in Places(A) /\ NamedLike(next) = next
             /\ \A p \in rest \ {next} : Ahead(next, p)
             /\ rr.len \in Nat \ {0} /\ rr.rrid # 0 /\ rr \in AllRecords
             /\ \E r \in Nat : /\ r < Blocks(rr.len) /\ Extent(rr, r, r)
                               /\ At(entry.slots, next) = Slot(rr, r, r)
<1> DEFINE next == First(rest)
           slot == At(entry.slots, next)
           rr == At(A, next)
<1>1. Places(entry.slots) = Places(A) /\ Places(A) \in SUBSET (Sections \X Nat)
  BY SamePlaces, AnswerFields DEF Plan
<1>2. rest \subseteq Places(A)
  BY <1>1 DEF Incomplete
<1>3. next \in rest /\ \A q \in rest : Before(next, q)
  <2>1. rest \in SUBSET (Sections \X Nat)
    BY <1>1, <1>2
  <2> QED
    BY <2>1, FirstIsOne
<1>4. next \in Places(A) /\ ~slot.is_complete /\ slot.rrid # 0
  BY <1>2, <1>3 DEF Incomplete, At
<1>5. NamedLike(next) = next
  <2> HIDE DEF next
  <2> QED
    BY <1>4, NamedLikeItself
<1>6. rr.len \in Nat \ {0} /\ rr \in AllRecords
  <2> HIDE DEF next
  <2> QED
    BY <1>4, AnswerFields
<1>7. Settled(slot, rr)
  BY <1>3, <1>4 DEF Plan, Ahead
<1>8. /\ rr.rrid # 0
      /\ \E r \in Nat : r < Blocks(rr.len) /\ Extent(rr, r, r) /\ slot = Slot(rr, r, r)
  <2> HIDE DEF slot, rr, next
  <2> QED
    BY <1>4, <1>6, <1>7, SettledFields
<1> HIDE DEF next
<1> QED
  BY <1>3, <1>4, <1>5, <1>6, <1>8 DEF Ahead, next

LEMMA PackOnePacking ==
  ASSUME Undisturbed, Inv, answer[packet] \in Answers, Packing, PackOne
  PROVE  Packing' /\ \A F : Traced(entry, F) => Traced(entry', F)
<1> DEFINE A == answer[packet]
           next == First(missing)
           rr == At(A, next)
           canfit == MAXUDP - cursize
<1>1. /\ pc = "pack" /\ missing # {} /\ ID[packet] \in DOMAIN requester_state
      /\ UNCHANGED <<answer, packet>> /\ Counted(entry) /\ IsList(asked)
  BY DEF PackOne, clients, Inv, Messages, States, entry
<1>2. PICK P : /\ Plan(entry, A, Listed(asked), P) /\ missing \subseteq Incomplete(entry)
               /\ \A p \in missing, i \in DOMAIN Listed(asked) : Ahead(P[i], p)
  BY DEF Packing, Expects
<1> HIDE DEF A
<1>3. A \in Answers
  BY DEF A
<1>4. /\ next \in missing /\ next \in Places(A) /\ NamedLike(next) = next
      /\ \A p \in missing \ {next} : Ahead(next, p)
      /\ rr.len \in Nat \ {0} /\ rr.rrid # 0 /\ rr \in AllRecords
  BY <1>1, <1>2, <1>3, NextMissing
<1>5. PICK r \in Nat : r < Blocks(rr.len) /\ Extent(rr, r, r)
                       /\ At(entry.slots, next) = Slot(rr, r, r)
  BY <1>1, <1>2, <1>3, NextMissing
<1> DEFINE slot == Slot(rr, r, r)
           markers == slot.block_markers
           n == AskedBlocks(markers, canfit)
           all == n = Cardinality(Free(markers))
           f == AskedFragment(markers, slot.rrsize, canfit)
           grown == GrownBy(n, all, slot.rrsize)
           marked == Mark(markers, AskedSpan(markers, canfit), BLOCKWAITING)
           ask == [rrid |-> slot.rrid, curidx |-> f.curidx, fragsize |-> f.fragsize]
           after == AfterSection(missing, next[1])
<1>6. entry.slots[next[1]][next[2]] = slot
  BY <1>5 DEF At
<1>7. after \subseteq missing \ {next}
  BY <1>4 DEF AfterSection
<1>8. cursize \in Nat /\ MAXUDP \in Nat /\ MAXUDP >= DNSMESSAGEHEADER + BLOCKSIZE
  BY RequesterAssumption DEF Packing
<1>9. cursize < MAXUDP =>
        /\ Free(markers) # {}
        /\ n \in Nat /\ n * BLOCKSIZE <= canfit /\ (canfit >= BLOCKSIZE => n > 0)
        /\ Extent(rr, r, r + n)
        /\ n > 0 => /\ f.curidx = r * BLOCKSIZE /\ f.fragsize = AskSize(rr, r, r + n)
                    /\ grown = f.fragsize - RRHEADER + RRFRAGHEADER
                    /\ [slot EXCEPT !.block_markers = marked] = Slot(rr, r, r + n)
  <2> SUFFICES ASSUME cursize < MAXUDP PROVE
        /\ Free(markers) # {}
        /\ n \in Nat /\ n * BLOCKSIZE <= canfit /\ (canfit >= BLOCKSIZE => n > 0)
        /\ Extent(rr, r, r + n)
        /\ n > 0 => /\ f.curidx = r * BLOCKSIZE /\ f.fragsize = AskSize(rr, r, r + n)
                    /\ grown = f.fragsize - RRHEADER + RRFRAGHEADER
                    /\ [slot EXCEPT !.block_markers = marked] = Slot(rr, r, r + n)
    OBVIOUS
  <2>1. canfit \in Nat
    BY <1>8
  <2> HIDE DEF rr, canfit
  <2>2. /\ Free(markers) # {}
        /\ n \in Nat /\ n * BLOCKSIZE <= canfit /\ (canfit >= BLOCKSIZE => n > 0)
        /\ Extent(rr, r, r + n)
        /\ n > 0 => /\ f.curidx = r * BLOCKSIZE /\ f.fragsize = AskSize(rr, r, r + n)
                    /\ f.fragsize = IF all THEN (n - 1) * BLOCKSIZE + LastBlockSize(slot.rrsize)
                                    ELSE n * BLOCKSIZE
                    /\ [slot EXCEPT !.block_markers = marked] = Slot(rr, r, r + n)
    BY <1>4, <1>5, <2>1, PackSlot
  <2> HIDE DEF all, f, n, slot
  <2> QED
    BY <2>2 DEF GrownBy
<1>10. asked = <<>> => n > 0 /\ cursize < MAXUDP
  BY <1>8, <1>9 DEF Packing, DNSMESSAGEHEADER, BLOCKSIZE
<1>11. \/ /\ cursize >= MAXUDP \/ (Free(markers) # {} /\ n = 0) \/ Free(markers) = {}
          /\ UNCHANGED <<requester_state, cursize, asked>> /\ missing' \subseteq missing
       \/ /\ cursize < MAXUDP /\ n > 0
          /\ SetEntry([entry EXCEPT !.slots[next[1]][next[2]].block_markers = marked])
          /\ asked' = Append(asked, ask)
          /\ cursize' = cursize + grown
          /\ missing' \subseteq missing \ {next}
  <2>1. NamedLike(First(missing)) = next
    BY <1>4
  <2> HIDE DEF f, n, marked, grown
  <2>2. n = AskedBlocks(markers, canfit) /\ f = AskedFragment(markers, slot.rrsize, canfit)
        /\ marked = Mark(markers, AskedSpan(markers, canfit), BLOCKWAITING)
        /\ grown = GrownBy(n, all, slot.rrsize)
    BY DEF f, n, marked, grown
  <2> QED
    BY <1>6, <1>7, <2>1, <2>2 DEF PackOne
<1>12. CASE UNCHANGED <<requester_state, cursize, asked>> /\ missing' \subseteq missing
            /\ (cursize >= MAXUDP \/ (Free(markers) # {} /\ n = 0) \/ Free(markers) = {})
  <2>1. asked # <<>>
    <3> HIDE DEF n, markers
    <3> QED
      BY <1>8, <1>9, <1>10, <1>12
  <2>2. entry' = entry /\ answer'[packet'] = A
    BY <1>1, <1>12 DEF entry, A
  <2>3. \A p \in missing', i \in DOMAIN Listed(asked) : Ahead(P[i], p)
    BY <1>2, <1>12
  <2>4. missing' \subseteq Incomplete(entry)
    BY <1>2, <1>12
  <2>5. Expects(entry, A, Listed(asked), missing')
    BY <1>2, <2>3, <2>4 DEF Expects
  <2>6. asked' = asked /\ cursize' = cursize
    BY <1>12
  <2> HIDE DEF n, markers
  <2>7. Expects(entry', answer'[packet'], Listed(asked'), missing')
    BY <2>2, <2>5, <2>6
  <2>8. Naming(asked', answer'[packet'])
    BY <2>2, <2>6 DEF Packing, A
  <2> QED
    BY <2>1, <2>2, <2>6, <2>7, <2>8 DEF Packing
<1>13. CASE /\ cursize < MAXUDP /\ n > 0
            /\ SetEntry([entry EXCEPT !.slots[next[1]][next[2]].block_markers = marked])
            /\ asked' = Append(asked, ask)
            /\ cursize' = cursize + grown
            /\ missing' \subseteq missing \ {next}
  <2> DEFINE new == [entry EXCEPT !.slots[next[1]][next[2]].block_markers = marked]
             waiting == Slot(rr, r, r + n)
             w == r + n
  <2>1. [slot EXCEPT !.block_markers = marked] = waiting /\ Extent(rr, r, w) /\ w \in Nat /\ r < w
        /\ n \in Nat
    BY <1>9, <1>13
  <2>2. Replaced(new, entry, next, waiting)
    <3>1. entry = [set |-> entry.set, count |-> entry.count, slots |-> entry.slots,
                   done |-> entry.done]
      BY <1>1 DEF Counted
    <3> HIDE DEF marked, slot, waiting, next
    <3>2. new.set = entry.set
          /\ new.slots = [entry.slots EXCEPT ![next[1]][next[2]] =
                            [entry.slots[next[1]][next[2]] EXCEPT !.block_markers = marked]]
      BY <3>1
    <3> QED
      BY <1>6, <2>1, <3>2 DEF Replaced
  <2> DEFINE more == Append(asked, ask)
             size == Len(asked)
             piece == Piece(rr, r, w)
  <2>3. /\ size \in Nat /\ DOMAIN asked = 1 .. size /\ DOMAIN more = 1 .. size + 1
        /\ Len(more) = size + 1
        /\ more[size + 1] = ask /\ \A i \in 1 .. size : more[i] = asked[i]
        /\ ResponseSize(more) = ResponseSize(asked) + RRFRAGHEADER + ask.fragsize
        /\ ask.fragsize = AskSize(rr, r, w) /\ ask.fragsize \in Nat \ {0}
    <3>1. \A i \in DOMAIN asked : asked[i].fragsize \in Nat
      BY <1>2, <1>3, AskSizes
    <3>2. ask.fragsize = AskSize(rr, r, w)
      BY <1>9, <1>13
    <3> HIDE DEF ask, w, rr
    <3>3. AskSize(rr, r, w) \in Nat \ {0}
      BY <1>4, <1>5, <2>1, PieceSpan
    <3>4. ask.fragsize \in Nat \ {0}
      BY <3>2, <3>3
    <3> QED
      BY <1>1, <3>1, <3>2, <3>4, SizeAppend
  <2>4. Listed(more)[size + 1] = [section |-> 0, item |-> piece]
    <3>1. Stored(rr.rrid) = rr
      BY <1>4 DEF Stored, Undisturbed
    <3>2. ask.rrid = rr.rrid /\ ask.curidx = r * BLOCKSIZE
      BY <1>9, <1>13 DEF Slot
    <3> HIDE DEF ask, more, rr, w
    <3>3. size + 1 \in DOMAIN more
      BY <2>3
    <3>4. Listed(more)[size + 1] =
            [section |-> 0, item |-> Part(Stored(ask.rrid), ask.curidx, ask.fragsize)]
      BY <2>3, <3>3 DEF Listed, Served
    <3> QED
      BY <2>3, <3>1, <3>2, <3>4 DEF Piece
  <2>5. DOMAIN Listed(asked) = 1 .. size /\ DOMAIN Listed(more) = 1 .. size + 1
        /\ \A i \in 1 .. size : Listed(more)[i] = Listed(asked)[i]
    <3> HIDE DEF more, ask
    <3>1. DOMAIN Listed(asked) = 1 .. size /\ DOMAIN Listed(more) = 1 .. size + 1
      BY <2>3 DEF Listed
    <3>2. \A i \in 1 .. size : i \in DOMAIN more /\ i \in DOMAIN asked /\ more[i] = asked[i]
      BY <2>3
    <3> QED
      BY <3>1, <3>2 DEF Listed, Served
  <2>6. Expecting(waiting, next, rr, Listed(more)[size + 1])
    <3> HIDE DEF more, rr, next, w
    <3> QED
      BY <1>4, <2>1, <2>4 DEF Expecting, w, rr
  <2> HIDE DEF new, waiting, more, rr, next, w, ask, piece, size
  <2>7. PICK T : /\ Plan(new, A, Listed(more), T)
                 /\ PlacedAlike(T, Listed(more), P, Listed(asked), next)
    <3> DEFINE items == Listed(asked)
               longer == Listed(more)
               x == longer[size + 1]
    <3>1. Longer(longer, items, size, x)
      BY <2>3, <2>5 DEF Longer
    <3>2. /\ Plan(entry, A, items, P) /\ Expecting(waiting, next, At(A, next), x)
          /\ AllAhead(P, items, next)
      BY <1>2, <1>4, <2>6 DEF rr, AllAhead
    <3> HIDE DEF items, longer, x
    <3>3. \E T : Plan(new, A, longer, T) /\ PlacedAlike(T, longer, P, items, next)
      <4>1. A \in Answers /\ Counted(entry) /\ next \in Places(A)
            /\ Replaced(new, entry, next, waiting)
        BY <1>1, <1>3, <1>4, <2>2
      <4> QED
        BY ONLY <3>1, <3>2, <4>1, PlanGrows
    <3> QED
      BY <3>3 DEF items, longer
  <2>8. \A p \in missing' : p \in missing /\ p # next /\ Ahead(next, p)
    BY <1>4, <1>13
  <2>9. \A p \in missing', i \in DOMAIN Listed(more) : Ahead(T[i], p)
    BY <1>2, <2>7, <2>8 DEF PlacedAlike
  <2>10. missing' \subseteq Incomplete(new)
    <3> SUFFICES ASSUME NEW p \in missing' PROVE p \in Incomplete(new)
      OBVIOUS
    <3>1. p \in Places(entry.slots) /\ p # next /\ ~At(entry.slots, p).is_complete
          /\ At(entry.slots, p).rrid # 0
      BY <1>2, <2>8 DEF Incomplete, At
    <3>2. Places(new.slots) = Places(entry.slots) /\ next \in Places(entry.slots)
      <4>1. Shaped(new, A) /\ Shaped(entry, A)
        BY <1>2, <2>7 DEF Plan
      <4> QED
        BY <1>4, <4>1, SamePlaces
    <3>3. At(new.slots, p) = At(entry.slots, p)
      <4>1. Counted(entry) /\ next \in Places(entry.slots) /\ Replaced(new, entry, next, waiting)
        BY <1>1, <2>2, <3>2
      <4>2. \A q \in Places(entry.slots) : q # next => At(new.slots, q) = At(entry.slots, q)
        BY ONLY <4>1, AtReplaced
      <4> QED
        BY <3>1, <4>2
    <3> QED
      BY <3>1, <3>2, <3>3 DEF Incomplete, At
  <2>11. Expects(new, A, Listed(more), missing')
    BY <2>7, <2>9, <2>10 DEF Expects
  <2>12. entry' = new /\ answer'[packet'] = A /\ asked' = more
    BY <1>1, <1>13 DEF entry, A, SetEntry, new, more, ask
  <2>13. ask.fragsize <= MAXUDP - cursize /\ grown = ask.fragsize - RRHEADER + RRFRAGHEADER
    <3>1. grown = ask.fragsize - RRHEADER + RRFRAGHEADER /\ n * BLOCKSIZE <= MAXUDP - cursize
      BY <1>9, <1>13 DEF ask
    <3>2. AskSize(rr, r, w) <= n * BLOCKSIZE
      <4> DEFINE b == Blocks(rr.len)
                 len == rr.len
      <4>1. len \in Nat /\ b \in Nat /\ len <= b * BLOCKSIZE
        BY <1>4, LastBlock, BlocksOfRecord
      <4>2. AskSize(rr, r, w) = IF w = b THEN len - r * BLOCKSIZE ELSE (w - r) * BLOCKSIZE
        BY DEF AskSize
      <4> HIDE DEF b, len, n
      <4>3. w - r = n
        BY <2>1 DEF w
      <4>4. CASE w = b
        BY <2>1, <4>1, <4>2, <4>3, <4>4 DEF BLOCKSIZE
      <4>5. CASE w # b
        BY <2>1, <4>2, <4>3, <4>5 DEF BLOCKSIZE
      <4> QED
        BY <4>4, <4>5
    <3> DEFINE m == n * BLOCKSIZE
               a == ask.fragsize
    <3>3. a \in Nat /\ a <= m /\ m <= MAXUDP - cursize /\ m \in Nat
      BY <2>1, <2>3, <3>1, <3>2 DEF BLOCKSIZE
    <3> HIDE DEF m, a
    <3>4. a <= MAXUDP - cursize
      BY <1>8, <3>3
    <3> QED
      BY <3>1, <3>4 DEF a
  <2> DEFINE a == ask.fragsize
             before == ResponseSize(asked)
             later == ResponseSize(more)
  <2>14. /\ cursize' = cursize + (a - RRHEADER + RRFRAGHEADER) /\ a <= MAXUDP - cursize /\ a \in Nat
         /\ later = before + RRFRAGHEADER + a /\ before = cursize + RRHEADER * size
         /\ Len(more) = size + 1
    BY <1>13, <2>3, <2>13 DEF Packing, size
  <2> HIDE DEF a, before, later
  <2>15. /\ cursize' \in Nat /\ cursize' <= MAXUDP + RRFRAGHEADER - RRHEADER
         /\ later = cursize' + RRHEADER * Len(more)
    BY <1>8, <2>3, <2>14 DEF RRFRAGHEADER, RRHEADER
  <2>16. more # <<>>
    BY <2>3
  <2>17. Expects(entry', answer'[packet'], Listed(asked'), missing')
    BY <2>11, <2>12
  <2>18. Naming(asked', answer'[packet'])
    <3>1. Naming(asked, A)
      BY DEF Packing, A
    <3>2. ask.rrid = rr.rrid /\ ask.fragsize # 0
      BY <2>3 DEF ask, Slot
    <3>3. \A i \in DOMAIN more : (i \in DOMAIN asked /\ more[i] = asked[i]) \/ more[i] = ask
      BY <2>3
    <3>4. rr = At(A, next) /\ next \in Places(A) /\ rr.rrid # 0
      BY <1>4 DEF rr
    <3>5. Naming(more, A)
      BY ONLY <3>1, <3>2, <3>3, <3>4 DEF Naming
    <3> QED
      BY <2>12, <3>5
  <2>19. ASSUME NEW F, Traced(entry, F)
         PROVE  Traced(entry', F)
    <3>1. next \in Places(entry.slots)
      BY <1>2, <1>4, SamePlaces DEF Plan
    <3>2. TracedSlot(slot, F)
      BY <1>5, <2>19, <3>1 DEF Traced
    <3>3. waiting.rrid = slot.rrid /\ waiting.noroom = slot.noroom
      BY DEF waiting, Slot
    <3>4. TracedSlot(waiting, F)
      BY ONLY <3>2, <3>3 DEF TracedSlot
    <3>5. Traced(new, F)
      BY ONLY <1>1, <2>2, <2>19, <3>1, <3>4, TracedReplaced
    <3> QED
      BY <2>12, <3>5
  <2> QED
    BY <2>12, <2>15, <2>16, <2>17, <2>18, <2>19 DEF Packing, later
<1> QED
  BY <1>11, <1>12, <1>13
-----------------------------------------------------------------------------
\* Two lists, one after the other.
LEMMA Joined ==
  ASSUME NEW a, IsList(a), NEW b, IsList(b)
  PROVE  /\ IsList(a \o b) /\ Len(a \o b) = Len(a) + Len(b)
         /\ DOMAIN (a \o b) = 1 .. Len(a) + Len(b)
         /\ \A i \in 1 .. Len(a) + Len(b) :
              (a \o b)[i] = IF i <= Len(a) THEN a[i] ELSE b[i - Len(a)]
<1> DEFINE S == Range(a) \cup Range(b)
           both == a \o b
<1>1. a \in Seq(S) /\ b \in Seq(S)
  BY SeqMonotonic DEF IsList
<1> HIDE DEF S
<1>2. /\ both \in Seq(S) /\ Len(both) = Len(a) + Len(b)
      /\ \A i \in 1 .. Len(a) + Len(b) : both[i] = IF i <= Len(a) THEN a[i] ELSE b[i - Len(a)]
  BY <1>1, ConcatProperties
<1> HIDE DEF both
<1>3. IsList(both) /\ DOMAIN both = 1 .. Len(both)
  BY <1>2, AnyList, LenProperties
<1> QED
  BY <1>2, <1>3 DEF both

\* A message's records are copied section by section, from the first to the last.
AsPlaced(list, P, items) ==
  /\ P \in [DOMAIN list -> Places(items)]
  /\ \A i, j \in DOMAIN list : i < j => Ahead(P[i], P[j])
  /\ \A i \in DOMAIN list : list[i] = [section |-> P[i][1], item |-> At(items, P[i])]
  /\ \A p \in Places(items) : \E i \in DOMAIN list : p = P[i]

LEMMA ItemsPlaced ==
  ASSUME NEW items, IsMessage(items)
  PROVE  \E P : AsPlaced(Items(items), P, items)
<1> DEFINE a == Tagged(items, 0)
           b == Tagged(items, 1)
           c == Tagged(items, 2)
           k == Len(a)
           l == Len(b)
           m == Len(c)
           list == Items(items)
           P == [i \in 1 .. k + l + m |->
                   IF i <= k THEN <<0, i>> ELSE IF i <= k + l THEN <<1, i - k>>
                   ELSE <<2, i - k - l>>]
           tagged(s, i) == [section |-> s, item |-> items[s][i]]
<1>1. ASSUME NEW s \in Sections
      PROVE  LET t == Tagged(items, s) IN
             /\ IsList(t) /\ Len(t) \in Nat /\ DOMAIN t = 1 .. Len(t)
             /\ DOMAIN items[s] = 1 .. Len(t)
             /\ \A i \in 1 .. Len(t) : t[i] = tagged(s, i)
  <2> DEFINE t == Tagged(items, s)
  <2>1. t = [i \in DOMAIN items[s] |-> tagged(s, i)] /\ IsList(items[s])
    BY DEF Tagged, IsMessage
  <2> HIDE DEF tagged
  <2>2. t = [i \in DOMAIN items[s] |-> t[i]] /\ \A i \in DOMAIN items[s] : t[i] = tagged(s, i)
    BY <2>1
  <2> HIDE DEF t
  <2>3. IsList(t) /\ DOMAIN t = DOMAIN items[s]
    BY <2>1, <2>2, MappedList
  <2>4. Len(t) \in Nat /\ DOMAIN t = 1 .. Len(t)
    BY <2>3, ListLength
  <2> QED
    BY <2>2, <2>3, <2>4 DEF t
<1>2. /\ IsList(a) /\ IsList(b) /\ IsList(c) /\ k \in Nat /\ l \in Nat /\ m \in Nat
      /\ DOMAIN items[0] = 1 .. k /\ DOMAIN items[1] = 1 .. l /\ DOMAIN items[2] = 1 .. m
      /\ \A i \in 1 .. k : a[i] = tagged(0, i)
      /\ \A i \in 1 .. l : b[i] = tagged(1, i)
      /\ \A i \in 1 .. m : c[i] = tagged(2, i)
  BY <1>1 DEF Sections
<1> DEFINE ab == a \o b
<1>3. list = ab \o c
  BY DEF Items
<1> HIDE DEF a, b, c, tagged
<1>4. IsList(ab) /\ Len(ab) = k + l
      /\ \A i \in 1 .. k + l : ab[i] = IF i <= k THEN a[i] ELSE b[i - k]
  BY <1>2, Joined
<1> HIDE DEF ab
<1>5. DOMAIN list = 1 .. k + l + m
      /\ \A i \in 1 .. k + l + m : list[i] = IF i <= k + l THEN ab[i] ELSE c[i - (k + l)]
  <2>1. IsList(ab) /\ IsList(c)
    BY <1>2, <1>4
  <2> DEFINE u == Len(ab)
             both == ab \o c
  <2>2. DOMAIN both = 1 .. u + m
        /\ \A i \in 1 .. u + m : both[i] = IF i <= u THEN ab[i] ELSE c[i - u]
    BY ONLY <2>1, Joined
  <2> HIDE DEF u, both
  <2>3. u = k + l
    BY <1>4 DEF u
  <2> QED
    BY <1>3, <2>2, <2>3 DEF both
<1> HIDE DEF k, l, m, list
<1>6. /\ \A i \in 1 .. k : i \in 1 .. k + l + m /\ list[i] = tagged(0, i)
      /\ \A i \in 1 .. l : k + i \in 1 .. k + l + m /\ list[k + i] = tagged(1, i)
      /\ \A i \in 1 .. m : k + l + i \in 1 .. k + l + m /\ list[k + l + i] = tagged(2, i)
  <2>1. ASSUME NEW i \in 1 .. k PROVE i \in 1 .. k + l + m /\ list[i] = tagged(0, i)
    <3>1. i \in 1 .. k + l + m /\ i \in 1 .. k + l /\ i <= k
      BY <1>2
    <3> QED
      BY <1>2, <1>4, <1>5, <3>1
  <2>2. ASSUME NEW i \in 1 .. l PROVE k + i \in 1 .. k + l + m /\ list[k + i] = tagged(1, i)
    <3> DEFINE j == k + i
    <3>1. j \in 1 .. k + l + m /\ j \in 1 .. k + l /\ ~(j <= k) /\ j - k = i
      BY <1>2
    <3> HIDE DEF j
    <3>2. list[j] = ab[j] /\ ab[j] = b[j - k]
      BY <1>2, <1>4, <1>5, <3>1
    <3> QED
      BY <1>2, <3>1, <3>2 DEF j
  <2>3. ASSUME NEW i \in 1 .. m
        PROVE  k + l + i \in 1 .. k + l + m /\ list[k + l + i] = tagged(2, i)
    <3> DEFINE j == k + l + i
    <3>1. j \in 1 .. k + l + m /\ ~(j <= k + l) /\ j - (k + l) = i
      BY <1>2
    <3> HIDE DEF j
    <3>2. list[j] = c[j - (k + l)]
      BY <1>5, <3>1
    <3> QED
      BY <1>2, <3>1, <3>2 DEF j
  <2> QED
    BY <2>1, <2>2, <2>3
<1>7. /\ \A i \in 1 .. k : P[i] = <<0, i>>
      /\ \A i \in 1 .. l : P[k + i] = <<1, i>>
      /\ \A i \in 1 .. m : P[k + l + i] = <<2, i>>
  BY <1>2
<1>8. \A j \in 1 .. k + l + m :
        \/ j \in 1 .. k
        \/ \E i \in 1 .. l : j = k + i
        \/ \E i \in 1 .. m : j = k + l + i
  <2> SUFFICES ASSUME NEW j \in 1 .. k + l + m
               PROVE  \/ j \in 1 .. k
                      \/ \E i \in 1 .. l : j = k + i
                      \/ \E i \in 1 .. m : j = k + l + i
    OBVIOUS
  <2>1. CASE j <= k
    BY <1>2, <2>1
  <2>2. CASE ~(j <= k) /\ j <= k + l
    <3>1. j - k \in 1 .. l /\ j = k + (j - k)
      BY <1>2, <2>2
    <3> QED
      BY <3>1
  <2>3. CASE ~(j <= k + l)
    <3>1. j - (k + l) \in 1 .. m /\ j = k + l + (j - (k + l))
      BY <1>2, <2>3
    <3> QED
      BY <3>1
  <2> QED
    BY <2>1, <2>2, <2>3
<1>9. /\ \A i \in 1 .. k : <<0, i>> \in Places(items) /\ At(items, <<0, i>>) = items[0][i]
      /\ \A i \in 1 .. l : <<1, i>> \in Places(items) /\ At(items, <<1, i>>) = items[1][i]
      /\ \A i \in 1 .. m : <<2, i>> \in Places(items) /\ At(items, <<2, i>>) = items[2][i]
  BY <1>2 DEF Places, At, Sections
<1> HIDE DEF P
<1>10. \A j \in 1 .. k + l + m :
         P[j] \in Places(items) /\ list[j] = [section |-> P[j][1], item |-> At(items, P[j])]
  <2> DEFINE Good(j) == /\ P[j] \in Places(items)
                        /\ list[j] = [section |-> P[j][1], item |-> At(items, P[j])]
  <2>0. ASSUME NEW j, NEW s, NEW i, P[j] = <<s, i>>, list[j] = tagged(s, i),
               <<s, i>> \in Places(items), At(items, <<s, i>>) = items[s][i]
        PROVE  Good(j)
    <3> DEFINE p == P[j]
    <3>1. p[1] = s /\ p = <<s, i>>
      BY <2>0
    <3> HIDE DEF p
    <3>2. list[j] = [section |-> p[1], item |-> At(items, p)]
      BY <2>0, <3>1 DEF tagged
    <3> QED
      BY <2>0, <3>2 DEF p
  <2> HIDE DEF Good
  <2>1. \A i \in 1 .. k : Good(i)
    BY <1>6, <1>7, <1>9, <2>0
  <2>2. \A i \in 1 .. l : Good(k + i)
    BY <1>6, <1>7, <1>9, <2>0
  <2>3. \A i \in 1 .. m : Good(k + l + i)
    BY <1>6, <1>7, <1>9, <2>0
  <2>4. \A j \in 1 .. k + l + m : Good(j)
    BY <1>8, <2>1, <2>2, <2>3
  <2> QED
    BY <2>4 DEF Good
<1>11. \A i, j \in 1 .. k + l + m : i < j => Ahead(P[i], P[j])
  <2> SUFFICES ASSUME NEW i \in 1 .. k + l + m, NEW j \in 1 .. k + l + m, i < j
               PROVE  Ahead(P[i], P[j])
    OBVIOUS
  <2> DEFINE In0(h) == h \in 1 .. k /\ P[h] = <<0, h>>
             In1(h) == h > k /\ h <= k + l /\ P[h] = <<1, h - k>>
             In2(h) == h > k + l /\ P[h] = <<2, h - k - l>>
  <2>1. ASSUME NEW h \in 1 .. k + l + m PROVE In0(h) \/ In1(h) \/ In2(h)
    <3>1. CASE h \in 1 .. k
      BY <1>7, <3>1
    <3>2. ASSUME NEW g \in 1 .. l, h = k + g PROVE In1(h)
      <4>1. P[h] = <<1, g>>
        BY <1>7, <3>2
      <4>2. h > k /\ h <= k + l /\ h - k = g
        <5>1. k \in Nat /\ l \in Nat /\ g \in 1 .. l /\ h = k + g
          BY <1>2, <3>2
        <5> QED
          BY <5>1
      <4> QED
        BY <4>1, <4>2
    <3>3. ASSUME NEW g \in 1 .. m, h = k + l + g PROVE In2(h)
      <4>1. P[h] = <<2, g>>
        BY <1>7, <3>3
      <4>2. h > k + l /\ h - k - l = g
        BY <1>2, <3>3
      <4> QED
        BY <4>1, <4>2
    <3> HIDE DEF In0, In1, In2
    <3> QED
      BY <1>8, <3>1, <3>2, <3>3
  <2>2. (In0(i) \/ In1(i) \/ In2(i)) /\ (In0(j) \/ In1(j) \/ In2(j)) /\ i \in Int /\ j \in Int
    BY <1>2, <2>1
  <2>3. CASE In0(i)
    BY <1>2, <2>2, <2>3 DEF Ahead, Before
  <2>4. CASE In1(i)
    BY <1>2, <2>2, <2>4 DEF Ahead, Before
  <2>5. CASE In2(i)
    BY <1>2, <2>2, <2>5 DEF Ahead, Before
  <2> QED
    BY <2>2, <2>3, <2>4, <2>5
<1>12. \A p \in Places(items) : \E j \in 1 .. k + l + m : p = P[j]
  <2> SUFFICES ASSUME NEW p \in Places(items) PROVE \E j \in 1 .. k + l + m : p = P[j]
    OBVIOUS
  <2>1. \/ \E i \in 1 .. k : p = <<0, i>>
        \/ \E i \in 1 .. l : p = <<1, i>>
        \/ \E i \in 1 .. m : p = <<2, i>>
    BY <1>2 DEF Places, Sections
  <2> QED
    BY <1>6, <1>7, <2>1
<1>13. DOMAIN P = 1 .. k + l + m /\ P = [j \in 1 .. k + l + m |-> P[j]]
  BY DEF P
<1>14. P \in [DOMAIN list -> Places(items)]
  BY <1>5, <1>10, <1>13
<1> DEFINE domain == DOMAIN list
<1>15. domain = 1 .. k + l + m
  BY <1>5
<1>16. AsPlaced(list, P, items)
  BY <1>10, <1>11, <1>12, <1>14, <1>15 DEF AsPlaced
<1> QED
  BY <1>16 DEF list
-----------------------------------------------------------------------------
(***************************************************************************)
(* Responses: the first one, complete ones, and those to follow-up queries *)
(***************************************************************************)
LaidOut(items, A) ==
  items = [s \in Sections |-> [i \in DOMAIN A[s] |-> items[s][i]]]

Begins(item, rr) ==
  \/ item = Whole(rr)
  \/ \E k \in FIRSTBLOCKS :
       rr.rrid # 0 /\ k * BLOCKSIZE < rr.len /\ item = Part(rr, 0, k * BLOCKSIZE)

LEMMA FirstFields ==
  ASSUME NEW A \in Answers, NEW items \in FirstResponses(A)
  PROVE  /\ IsMessage(items) /\ LaidOut(items, A)
         /\ \A p \in Places(A) : Begins(At(items, p), At(A, p))
<1> DEFINE item(rr, k) == IF k = WHOLE THEN Whole(rr) ELSE Part(rr, 0, k * BLOCKSIZE)
           choices == {d \in [Places(A) -> FIRSTBLOCKS \cup {WHOLE}] :
                         \A p \in Places(A) : /\ d[p] * BLOCKSIZE < A[p[1]][p[2]].len
                                              /\ A[p[1]][p[2]].rrid = 0 => d[p] = WHOLE}
<1>1. PICK c \in choices :
        items = [s \in Sections |-> [i \in DOMAIN A[s] |-> item(A[s][i], c[<<s, i>>])]]
  BY DEF FirstResponses
<1>2. IsMessage(items)
  BY FirstIsMessage, RequesterAssumption
<1>3. LaidOut(items, A)
  BY <1>1 DEF LaidOut
<1>4. ASSUME NEW p \in Places(A) PROVE Begins(At(items, p), At(A, p))
  <2>1. p[1] \in Sections /\ p[2] \in DOMAIN A[p[1]] /\ p = <<p[1], p[2]>>
    BY AnswerFields
  <2>2. At(items, p) = item(At(A, p), c[<<p[1], p[2]>>])
    BY <1>1, <2>1 DEF At
  <2>3. At(items, p) = item(At(A, p), c[p])
    BY <2>1, <2>2
  <2>4. /\ c[p] \in FIRSTBLOCKS \cup {WHOLE} /\ c[p] * BLOCKSIZE < At(A, p).len
        /\ At(A, p).rrid = 0 => c[p] = WHOLE
    BY <1>1 DEF At
  <2> QED
    BY <2>3, <2>4 DEF Begins
<1> QED
  BY <1>2, <1>3, <1>4

LEMMA WholeFields ==
  ASSUME NEW A
  PROVE  /\ LaidOut(WholeMessage(A), A)
         /\ \A p \in Places(A) : At(WholeMessage(A), p) = Whole(At(A, p))
BY DEF LaidOut, WholeMessage, At, Places

LEMMA LaidOutFields ==
  ASSUME NEW A, NEW items, LaidOut(items, A)
  PROVE  /\ Places(items) = Places(A)
         /\ \A s \in Sections : DOMAIN items[s] = DOMAIN A[s]
         /\ ContainsRRFrag(items) <=> \E p \in Places(A) : At(items, p).isRRFrag
<1>1. \A s \in Sections : DOMAIN items[s] = DOMAIN A[s]
  BY DEF LaidOut
<1>2. Places(items) = Places(A)
  BY <1>1 DEF Places
<1> QED
  BY <1>1, <1>2 DEF ContainsRRFrag, At

\* A response without fragments is the whole answer.
LEMMA NoFragments ==
  ASSUME NEW A \in Answers, NEW items, LaidOut(items, A),
         \A p \in Places(A) : Begins(At(items, p), At(A, p)), ~ContainsRRFrag(items)
  PROVE  items = WholeMessage(A)
<1>1. ASSUME NEW p \in Places(A) PROVE At(items, p) = Whole(At(A, p))
  <2>1. ~At(items, p).isRRFrag
    BY LaidOutFields
  <2> QED
    BY <2>1 DEF Begins, Part
<1>2. ASSUME NEW s \in Sections, NEW i \in DOMAIN A[s] PROVE items[s][i] = Whole(A[s][i])
  <2>1. <<s, i>> \in Places(A)
    BY DEF Places
  <2> QED
    BY <1>1, <2>1 DEF At
<1> QED
  BY <1>2 DEF LaidOut, WholeMessage

LEMMA WholeHasNone ==
  ASSUME NEW A \in Answers
  PROVE  ~ContainsRRFrag(WholeMessage(A))
<1>1. \A p \in Places(A) : ~At(WholeMessage(A), p).isRRFrag
  BY WholeFields DEF Whole
<1> QED
  BY <1>1, WholeFields, LaidOutFields

Further(asks) == [Empty EXCEPT ![0] = Served(asks)]

LEMMA FurtherFields ==
  ASSUME NEW asks, IsList(asks)
  PROVE  /\ IsMessage(Further(asks))
         /\ Further(asks)[0] = Served(asks) /\ Further(asks)[1] = <<>> /\ Further(asks)[2] = <<>>
         /\ IsList(Served(asks)) /\ Len(Served(asks)) = Len(asks)
         /\ DOMAIN Served(asks) = DOMAIN asks
<1>1. IsMessage(Further(asks))
  BY ServedIsMessage DEF Further
<1>2. Further(asks)[0] = Served(asks) /\ Further(asks)[1] = <<>> /\ Further(asks)[2] = <<>>
  BY DEF Further, Empty, Sections
<1> DEFINE served == Served(asks)
<1>3. served = [i \in DOMAIN asks |-> served[i]]
  BY DEF Served
<1> HIDE DEF served
<1>4. IsList(served) /\ Len(served) = Len(asks) /\ DOMAIN served = DOMAIN asks
  BY <1>3, MappedList
<1> QED
  BY <1>1, <1>2, <1>4 DEF served

\* It is one fragment or more, and they are copied in their order.
LEMMA FurtherHasSome ==
  ASSUME NEW asks, IsList(asks), asks # <<>>
  PROVE  ContainsRRFrag(Further(asks))
<1>1. Len(asks) \in Nat /\ DOMAIN asks = 1 .. Len(asks) /\ Len(asks) # 0
  BY ListLength, EmptySeq DEF IsList
<1>2. 1 \in DOMAIN Further(asks)[0] /\ Further(asks)[0][1].isRRFrag
  <2>1. 1 \in DOMAIN asks
    BY <1>1
  <2>2. \A i \in DOMAIN asks : Served(asks)[i].isRRFrag
    BY DEF Served, Part
  <2>3. Further(asks)[0] = Served(asks) /\ DOMAIN Served(asks) = DOMAIN asks
    BY FurtherFields
  <2> QED
    BY <2>1, <2>2, <2>3
<1>3. <<0, 1>> \in Places(Further(asks))
  BY <1>2 DEF Places, Sections
<1> QED
  BY <1>2, <1>3 DEF ContainsRRFrag

LEMMA FurtherItems ==
  ASSUME NEW asks, IsList(asks)
  PROVE  Items(Further(asks)) = Listed(asks)
<1> DEFINE items == Further(asks)
           a == Tagged(items, 0)
           n == Len(asks)
<1>1. Tagged(items, 1) = <<>> /\ Tagged(items, 2) = <<>>
  <2>1. items[1] = <<>> /\ items[2] = <<>>
    BY FurtherFields
  <2> HIDE DEF items
  <2> QED
    BY <2>1 DEF Tagged
<1>2. n \in Nat /\ DOMAIN asks = 1 .. n
  BY ListLength
<1>3. a = Listed(asks) /\ a = [i \in DOMAIN asks |-> a[i]]
  BY FurtherFields DEF Tagged, Listed
<1> HIDE DEF items, a
<1>4. IsList(a)
  BY <1>3, MappedList
<1>5. a \o <<>> = a
  BY <1>4, ConcatEmptySeq DEF IsList
<1>6. Items(items) = (a \o <<>>) \o <<>>
  BY <1>1 DEF Items, a
<1> QED
  BY <1>3, <1>5, <1>6 DEF items

\* The first response gives a PartialDNSMessage its slots, and is expected in
\* them.
LEMMA OpenedExpects ==
  ASSUME NEW A \in Answers, NEW items, IsMessage(items), LaidOut(items, A),
         \A p \in Places(A) : Begins(At(items, p), At(A, p))
  PROVE  Expects(Opened(Fresh, items), A, Items(items), {})
<1> DEFINE e == Opened(Fresh, items)
           list == Items(items)
<1>1. PICK P : AsPlaced(list, P, items)
  BY ItemsPlaced
<1>2. e.set /\ e.slots = [s \in Sections |-> [i \in DOMAIN items[s] |-> NewSlot(items[s][i])]]
  BY DEF Opened, Fresh
<1>3. Places(items) = Places(A) /\ \A s \in Sections : DOMAIN items[s] = DOMAIN A[s]
  BY LaidOutFields
<1> HIDE DEF e, list
<1>4. Shaped(e, A)
  BY <1>2, <1>3 DEF Shaped
<1>5. ASSUME NEW p \in Places(A)
      PROVE  /\ At(e.slots, p) = NewSlot(At(items, p))
             /\ Expecting(At(e.slots, p), p, At(A, p), [section |-> p[1], item |-> At(items, p)])
  <2>1. At(e.slots, p) = NewSlot(At(items, p))
    BY <1>2, <1>3 DEF At, Places
  <2> DEFINE item == At(items, p)
             x == [section |-> p[1], item |-> item]
  <2>2. Begins(item, At(A, p))
    OBVIOUS
  <2> HIDE DEF item
  <2>3. x.item = item
    OBVIOUS
  <2>4. Expecting(NewSlot(item), p, At(A, p), x)
    BY <2>2, <2>3 DEF Begins, Expecting
  <2> QED
    BY <2>1, <2>4 DEF item
<1>6. Plan(e, A, list, P)
  <2>1. P \in [DOMAIN list -> Places(A)]
    BY <1>1, <1>3 DEF AsPlaced
  <2>2. \A i \in DOMAIN list : Expecting(At(e.slots, P[i]), P[i], At(A, P[i]), list[i])
    BY <1>1, <1>5, <2>1 DEF AsPlaced
  <2>3. \A p \in Places(A) : \E i \in DOMAIN list : p = P[i]
    BY <1>1, <1>3 DEF AsPlaced
  <2>4. \A i, j \in DOMAIN list : i < j => Ahead(P[i], P[j])
    BY <1>1 DEF AsPlaced
  <2> QED
    BY <1>4, <2>1, <2>2, <2>3, <2>4 DEF Plan
<1>7. Expects(e, A, list, {})
  BY <1>6 DEF Expects
<1> QED
  BY <1>7 DEF e, list
-----------------------------------------------------------------------------
(***************************************************************************)
(* The exchange of one query: at each stage the PartialDNSMessage of its   *)
(* id expects exactly what is under way for it.                            *)
(***************************************************************************)
Known(t) == ID[t] \in DOMAIN requester_state
Entry(t) == requester_state[ID[t]]

\* A follow-up query, or the response to it, is under way.
Due(e, A, asks) ==
  IsList(asks) /\ asks # <<>> /\ Naming(asks, A) /\ Expects(e, A, Listed(asks), {})

Fits(asks) ==
  ResponseSize(asks) <= MAXUDP + Len(asks) * RRHEADER + RRFRAGHEADER - RRHEADER

OutgoingDue(q) ==
  IF q.followup THEN Known(q.t) /\ Due(Entry(q.t), answer[q.t], q.asks) /\ Fits(q.asks)
  ELSE ~Known(q.t)

QueryDue(q) ==
  /\ Known(q.t)
  /\ IF q.followup THEN Due(Entry(q.t), answer[q.t], q.asks) /\ Fits(q.asks)
     ELSE Entry(q.t) = Fresh

AnswerDue(m) ==
  \/ m.items = WholeMessage(answer[m.t])
  \/ Known(m.t) /\ m.items = first[m.t] /\ Entry(m.t) = Fresh
  \/ Known(m.t) /\ \E asks : m.items = Further(asks) /\ Due(Entry(m.t), answer[m.t], asks)

ClientDue(t) ==
  /\ answer[t] \in Answers /\ first[t] \in FirstResponses(answer[t])
  /\ client[t] = "new" => ~Known(t)
  /\ client[t] = "answered" => got[t] = WholeMessage(answer[t])
  /\ Known(t) => Traced(Entry(t), first[t])

\* The process runs; or the handler hangs in a response to a query whose first
\* one had a fragment without data; or it was stopped by the response to a
\* follow-up query about an answer that has no answer records.
Ended ==
  \/ Running
  \/ status = "hung" /\ packet \in Transactions /\ Hollow(first[packet])
  \/ /\ status = "undefined"
     /\ \E t \in Transactions :
          /\ client[t] # "new" /\ answer[t][0] = <<>> /\ ContainsRRFrag(first[t])
          /\ Known(t) /\ Entry(t).set

Exchange ==
  /\ Ended /\ DOMAIN got = Transactions
  /\ \A t \in Transactions : ClientDue(t)
  /\ \A q \in outgoing : OutgoingDue(q)
  /\ \A q \in queries : QueryDue(q)
  /\ \A m \in responses : AnswerDue(m)
  /\ pc = "copy" => /\ Expects(entry, answer[packet], todo, {})
                    /\ TracedItems(todo, first[packet])
  /\ pc = "pack" => Packing

\* What happens to other ids does not concern a query.
Spared(t) ==
  /\ answer'[t] = answer[t] /\ first'[t] = first[t]
  /\ Known(t)' <=> Known(t)
  /\ Known(t) => Entry(t)' = Entry(t)

LEMMA SparedDue ==
  ASSUME NEW x, Spared(x.t)
  PROVE  /\ OutgoingDue(x) => OutgoingDue(x)'
         /\ QueryDue(x) => QueryDue(x)'
         /\ AnswerDue(x) => AnswerDue(x)'
<1> DEFINE t == x.t
<1>1. answer'[t] = answer[t] /\ first'[t] = first[t] /\ (Known(t)' <=> Known(t))
      /\ (Known(t) => Entry(t)' = Entry(t))
  BY DEF Spared
<1>2. OutgoingDue(x) => OutgoingDue(x)'
  BY <1>1 DEF OutgoingDue
<1>3. QueryDue(x) => QueryDue(x)'
  BY <1>1 DEF QueryDue
<1>4. AnswerDue(x) => AnswerDue(x)'
  BY <1>1 DEF AnswerDue
<1> QED
  BY <1>2, <1>3, <1>4

LEMMA SparedClient ==
  ASSUME NEW t, Spared(t), ClientDue(t), client'[t] = "new" => client[t] = "new",
         client'[t] = "answered" => client[t] = "answered" /\ got'[t] = got[t]
  PROVE  ClientDue(t)'
BY DEF Spared, ClientDue

\* No action but these changes a PartialDNSMessage, and only that of one id.
LEMMA AllSpared ==
  ASSUME UNCHANGED <<answer, first, requester_state>>, NEW t
  PROVE  Spared(t)
BY DEF Spared, Known, Entry

LEMMA OthersSpared ==
  ASSUME Undisturbed, UNCHANGED <<answer, first>>, NEW u \in Transactions,
         \A x : x # ID[u] =>
           /\ x \in DOMAIN requester_state' <=> x \in DOMAIN requester_state
           /\ x \in DOMAIN requester_state => requester_state'[x] = requester_state[x],
         NEW t \in Transactions, t # u
  PROVE  Spared(t)
<1>1. ID[t] # ID[u]
  BY DEF Undisturbed
<1> QED
  BY <1>1 DEF Spared, Known, Entry

LEMMA SetSpares ==
  ASSUME Undisturbed, UNCHANGED <<answer, first>>, NEW u \in Transactions, NEW e,
         requester_state' = [requester_state EXCEPT ![ID[u]] = e],
         NEW t \in Transactions, t # u
  PROVE  Spared(t)
<1>1. \A x : x # ID[u] =>
        /\ x \in DOMAIN requester_state' <=> x \in DOMAIN requester_state
        /\ x \in DOMAIN requester_state => requester_state'[x] = requester_state[x]
  OBVIOUS
<1> QED
  BY <1>1, OthersSpared

\* Nor does what happens on the network concern the handler.
Handling ==
  /\ pc = "copy" => /\ Expects(entry, answer[packet], todo, {})
                    /\ TracedItems(todo, first[packet])
  /\ pc = "pack" => Packing

LEMMA HandlerSpared ==
  ASSUME UNCHANGED <<answer, first, requester_state, handler>>, Handling
  PROVE  Handling'
<1>1. entry' = entry /\ answer' = answer /\ first' = first /\ todo' = todo /\ packet' = packet /\ pc' = pc
      /\ cursize' = cursize /\ asked' = asked /\ missing' = missing
  BY DEF entry, handler
<1>2. Packing => Packing'
  BY <1>1 DEF Packing
<1> QED
  BY <1>1, <1>2 DEF Handling

LEMMA ExchangeParts ==
  Exchange <=>
    /\ Ended /\ Handling /\ DOMAIN got = Transactions
    /\ \A t \in Transactions : ClientDue(t)
    /\ \A q \in outgoing : OutgoingDue(q)
    /\ \A q \in queries : QueryDue(q)
    /\ \A m \in responses : AnswerDue(m)
BY DEF Exchange, Handling

\* What stopped the process stays what it is.
LEMMA EndedKept ==
  ASSUME Ended, UNCHANGED <<requester_state, packet, status>>,
         \A t \in Transactions : client'[t] = "new" => client[t] = "new",
         \A t \in Transactions : t = packet \/ (Known(t) /\ Entry(t).set) =>
           answer'[t] = answer[t] /\ first'[t] = first[t]
  PROVE  Ended'
<1>1. CASE Running
  BY <1>1 DEF Ended, Running
<1>2. CASE status = "hung" /\ packet \in Transactions /\ Hollow(first[packet])
  <2>1. first'[packet'] = first[packet]
    BY <1>2
  <2>2. Hollow(first'[packet'])
    BY <1>2, <2>1
  <2> QED
    BY <1>2, <2>2 DEF Ended
<1>3. ASSUME status = "undefined", NEW t \in Transactions,
             client[t] # "new", answer[t][0] = <<>>, ContainsRRFrag(first[t]),
             Known(t), Entry(t).set
      PROVE  Ended'
  <2>1. answer'[t] = answer[t] /\ first'[t] = first[t] /\ client'[t] # "new"
    BY <1>3
  <2>2. Known(t)' /\ (Entry(t).set)'
    BY <1>3 DEF Known, Entry
  <2>3. ContainsRRFrag(first'[t]) /\ answer'[t][0] = <<>> /\ status' = "undefined"
    BY <1>3, <2>1
  <2> QED
    BY <2>1, <2>2, <2>3 DEF Ended
<1> QED
  BY <1>1, <1>2, <1>3 DEF Ended

\* A new PartialDNSMessage has no slots, and one opened by the first response
\* those that it tells of.
LEMMA FreshTraced ==
  ASSUME NEW F
  PROVE  Traced(Fresh, F)
<1>1. Places(Fresh.slots) = {}
  BY DEF Fresh, Empty, Places
<1> QED
  BY <1>1 DEF Traced

LEMMA OpenedTraced ==
  ASSUME NEW items, IsMessage(items)
  PROVE  Traced(Opened(Fresh, items), items) /\ TracedItems(Items(items), items)
<1> DEFINE e == Opened(Fresh, items)
           list == Items(items)
<1>1. e.slots = [s \in Sections |-> [i \in DOMAIN items[s] |-> NewSlot(items[s][i])]]
  BY DEF Opened, Fresh
<1> HIDE DEF e
<1>2. ASSUME NEW p \in Places(e.slots)
      PROVE  TracedSlot(At(e.slots, p), items)
  <2>1. PICK s \in Sections : p \in {s} \X DOMAIN e.slots[s]
    BY DEF Places
  <2>2. p[1] = s /\ p[2] \in DOMAIN items[s]
    BY <1>1, <2>1
  <2> DEFINE item == items[s][p[2]]
  <2>3. At(e.slots, p) = NewSlot(item)
    BY <1>1, <2>2 DEF At
  <2>4. NewSlot(item).noroom = FALSE /\ (NewSlot(item).rrid # 0 => item.isRRFrag)
    BY DEF NewSlot
  <2>5. item.isRRFrag => ContainsRRFrag(items)
    <3>1. <<s, p[2]>> \in Places(items)
      BY <2>2 DEF Places
    <3> QED
      BY <3>1 DEF ContainsRRFrag
  <2> HIDE DEF item
  <2> QED
    BY <2>3, <2>4, <2>5 DEF TracedSlot
<1>3. Traced(e, items)
  BY <1>2 DEF Traced
<1>4. PICK P : AsPlaced(list, P, items)
  BY ItemsPlaced
<1> HIDE DEF list
<1>5. ASSUME NEW i \in DOMAIN list, list[i].item.isRRFrag, list[i].item.fragsize = 0
      PROVE  Hollow(items)
  <2>1. P[i] \in Places(items) /\ list[i].item = At(items, P[i])
    BY <1>4 DEF AsPlaced
  <2> QED
    BY <1>5, <2>1 DEF Hollow, At
<1>6. TracedItems(list, items)
  BY <1>5 DEF TracedItems
<1> QED
  BY <1>3, <1>6 DEF e, list

LEMMA NetworkExchange ==
  ASSUME Exchange, UNCHANGED <<answer, first, got, requester_state, handler>>,
         status' = status \/ Ended',
         \A t \in Transactions :
           client'[t] \in {"new", "answered"} => client'[t] = client[t],
         \A q \in outgoing' : q \in outgoing \/ OutgoingDue(q),
         queries' \subseteq queries,
         \A m \in responses' : m \in responses \/ AnswerDue(m)
  PROVE  Exchange'
<1>1. Ended' /\ Handling'
  <2>1. Handling'
    BY ExchangeParts, HandlerSpared
  <2>2. Ended /\ UNCHANGED packet
    BY DEF Exchange, handler
  <2> QED
    BY <2>1, <2>2, EndedKept
<1>2. \A t : Spared(t)
  BY AllSpared
<1>3. \A t \in Transactions : ClientDue(t)'
  <2> SUFFICES ASSUME NEW t \in Transactions PROVE ClientDue(t)'
    OBVIOUS
  <2>1. ClientDue(t) /\ Spared(t)
    BY <1>2 DEF Exchange
  <2> QED
    BY <2>1, SparedClient
<1>4. \A q \in outgoing' : OutgoingDue(q)'
  BY <1>2, SparedDue DEF Exchange
<1>5. \A q \in queries' : QueryDue(q)'
  BY <1>2, SparedDue DEF Exchange
<1>6. \A m \in responses' : AnswerDue(m)'
  BY <1>2, SparedDue DEF Exchange
<1> QED
  BY <1>1, <1>3, <1>4, <1>5, <1>6 DEF Exchange, Handling

LEMMA InitExchange == Init => Exchange
<1> SUFFICES ASSUME Init PROVE Exchange
  OBVIOUS
<1>1. Running /\ pc = "idle" /\ outgoing = {} /\ queries = {} /\ responses = {}
      /\ DOMAIN got = Transactions
  BY DEF Init, Running
<1>2. \A t \in Transactions : answer[t] \in Answers /\ first[t] \in FirstResponses(answer[t])
  BY DEF Init
<1>3. \A t \in Transactions : client[t] = "new" /\ ~Known(t)
  BY DEF Init, Known
<1>4. \A t \in Transactions : ClientDue(t)
  BY <1>2, <1>3 DEF ClientDue
<1> QED
  BY <1>1, <1>4 DEF Exchange, Ended

LEMMA AskExchange ==
  ASSUME One, Exchange, NEW t \in Transactions, Ask(t)
  PROVE  Exchange'
<1> DEFINE q == Query(t, <<>>, FALSE)
<1>1. /\ client[t] = "new" /\ client' = [client EXCEPT ![t] = "waiting"]
      /\ outgoing' = outgoing \cup {q}
      /\ UNCHANGED <<answer, first, got, queries, responses, requester_state, handler, status>>
  BY DEF Ask
<1>2. ~Known(t)
  BY <1>1 DEF Exchange, ClientDue
<1>3. OutgoingDue(q)
  BY <1>2 DEF OutgoingDue, Query
<1>4. \A u \in Transactions : client'[u] \in {"new", "answered"} => client'[u] = client[u]
  BY <1>1 DEF One
<1> HIDE DEF q
<1> QED
  BY <1>1, <1>3, <1>4, NetworkExchange

LEMMA GiveUpExchange ==
  ASSUME One, Exchange, NEW t \in Transactions, GiveUp(t)
  PROVE  Exchange'
<1>1. /\ client' = [client EXCEPT ![t] = "gone"]
      /\ UNCHANGED <<answer, first, got, outgoing, queries, responses, requester_state,
                     handler, status>>
  BY DEF GiveUp, network
<1>2. \A u \in Transactions : client'[u] \in {"new", "answered"} => client'[u] = client[u]
  BY <1>1 DEF One
<1> QED
  BY <1>1, <1>2, NetworkExchange

LEMMA LoseExchange ==
  ASSUME Exchange, Lose
  PROVE  Exchange'
<1>1. queries' \subseteq queries /\ responses' \subseteq responses
      /\ UNCHANGED <<clients, outgoing, requester_state, handler, status>>
  BY DEF Lose
<1> QED
  BY <1>1, NetworkExchange DEF clients

\* The far side's response to a query, or to a follow-up query.
LEMMA RespondExchange ==
  ASSUME Exchange, NEW q \in queries, Respond(q)
  PROVE  Exchange'
<1> DEFINE items == IF ~q.followup THEN first[q.t] ELSE Further(q.asks)
           m == Response(q.t, items)
<1>1. responses' = responses \cup {m} /\ queries' \subseteq queries
      /\ UNCHANGED <<clients, outgoing, requester_state, handler, status>>
  BY DEF Respond, Taken, Further
<1>2. AnswerDue(m)
  <2>1. m.t = q.t /\ m.items = items /\ QueryDue(q)
    BY DEF Response, Exchange
  <2>2. CASE q.followup
    BY <2>1, <2>2 DEF QueryDue, AnswerDue
  <2>3. CASE ~q.followup
    BY <2>1, <2>3 DEF QueryDue, AnswerDue
  <2> QED
    BY <2>2, <2>3
<1> HIDE DEF m
<1> QED
  BY <1>1, <1>2, NetworkExchange DEF clients

\* A client's query goes out: its PartialDNSMessage is a new one.  With a
\* follow-up query nothing changes there.
LEMMA RegisterExchange ==
  ASSUME Undisturbed, Inv, One, Exchange, NEW q \in outgoing, Register(q)
  PROVE  Exchange'
<1> DEFINE t == q.t
           id == ID[t]
<1>1. /\ outgoing' = outgoing \ {q} /\ queries' = queries \cup {q} /\ pc = "idle" /\ Running
      /\ UNCHANGED <<answer, first, client, got, responses, handler, status>>
      /\ requester_state' =
           [x \in DOMAIN requester_state \cup {id} |->
              IF x \in DOMAIN requester_state THEN requester_state[x] ELSE Fresh]
  BY DEF Register, clients
<1>2. OutgoingDue(q) /\ t \in Transactions /\ client[t] \in Pending
  BY DEF Exchange, One
<1>3. \A x : x # id =>
        /\ x \in DOMAIN requester_state' <=> x \in DOMAIN requester_state
        /\ x \in DOMAIN requester_state => requester_state'[x] = requester_state[x]
  BY <1>1
<1>4. \A u \in Transactions : u # t => Spared(u)
  BY <1>1, <1>2, <1>3, OthersSpared
<1>5. QueryDue(q)'
  <2>1. CASE q.followup
    <3>1. Known(t) /\ Due(Entry(t), answer[t], q.asks) /\ Fits(q.asks)
      BY <1>2, <2>1 DEF OutgoingDue
    <3>2. Spared(t)
      BY <1>1, <3>1 DEF Spared, Known, Entry
    <3>3. QueryDue(q)
      BY <2>1, <3>1 DEF QueryDue
    <3> QED
      BY <3>2, <3>3, SparedDue
  <2>2. CASE ~q.followup
    <3>1. ~Known(t)
      BY <1>2, <2>2 DEF OutgoingDue
    <3>2. Known(t)' /\ Entry(t)' = Fresh
      BY <1>1, <3>1 DEF Known, Entry
    <3> QED
      BY <2>2, <3>2 DEF QueryDue
  <2> QED
    BY <2>1, <2>2
<1>6. \A u \in Transactions : ClientDue(u)'
  <2> SUFFICES ASSUME NEW u \in Transactions PROVE ClientDue(u)'
    OBVIOUS
  <2>1. ClientDue(u)
    BY DEF Exchange
  <2>2. CASE u # t
    BY <1>1, <1>4, <2>1, <2>2, SparedClient
  <2>3. CASE u = t
    <3>1. Traced(Entry(t)', first'[t])
      <4>1. CASE Known(t)
        <5>1. Entry(t)' = Entry(t) /\ first'[t] = first[t]
          BY <1>1, <4>1 DEF Known, Entry
        <5> QED
          BY <2>1, <2>3, <4>1, <5>1 DEF ClientDue
      <4>2. CASE ~Known(t)
        <5>1. Entry(t)' = Fresh
          BY <1>1, <4>2 DEF Known, Entry
        <5> QED
          BY <5>1, FreshTraced
      <4> QED
        BY <4>1, <4>2
    <3> QED
      BY <1>1, <1>2, <2>1, <2>3, <3>1 DEF ClientDue, Pending
  <2> QED
    BY <2>2, <2>3
<1>7. \A r \in outgoing' : OutgoingDue(r)'
  <2> SUFFICES ASSUME NEW r \in outgoing, r # q PROVE OutgoingDue(r)'
    BY <1>1
  <2>1. r.t \in Transactions /\ r.t # t /\ OutgoingDue(r)
    BY DEF One, Exchange
  <2> QED
    BY <1>4, <2>1, SparedDue
<1>8. \A r \in queries' : QueryDue(r)'
  <2> SUFFICES ASSUME NEW r \in queries PROVE QueryDue(r)'
    BY <1>1, <1>5
  <2>1. r.t \in Transactions /\ r.t # t /\ QueryDue(r)
    BY DEF One, Exchange
  <2> QED
    BY <1>4, <2>1, SparedDue
<1>9. \A m \in responses' : AnswerDue(m)'
  <2> SUFFICES ASSUME NEW m \in responses PROVE AnswerDue(m)'
    BY <1>1
  <2>1. m.t \in Transactions /\ m.t # t /\ AnswerDue(m)
    BY DEF One, Exchange
  <2> QED
    BY <1>4, <2>1, SparedDue
<1>10. Ended' /\ pc' = "idle" /\ DOMAIN got' = Transactions
  BY <1>1 DEF Exchange, Ended, Running, handler
<1> QED
  BY <1>6, <1>7, <1>8, <1>9, <1>10 DEF Exchange

\* A response without fragments is the whole answer, whichever one it is.
LEMMA PlainIsWhole ==
  ASSUME Exchange, NEW m \in responses, m.t \in Transactions, ~ContainsRRFrag(m.items)
  PROVE  m.items = WholeMessage(answer[m.t])
<1> DEFINE A == answer[m.t]
           t == m.t
<1>1. AnswerDue(m) /\ A \in Answers /\ first[t] \in FirstResponses(A)
  BY DEF Exchange, ClientDue
<1>2. CASE m.items = first[t]
  BY <1>1, <1>2, FirstFields, NoFragments
<1>3. ASSUME NEW asks, m.items = Further(asks), Due(Entry(t), A, asks)
      PROVE  FALSE
  BY <1>3, FurtherHasSome DEF Due
<1> QED
  BY <1>1, <1>2, <1>3 DEF AnswerDue

\* The transaction ends: the client has what it asked for.
LEMMA AcceptExchange ==
  ASSUME Undisturbed, Inv, One, Exchange, NEW m \in responses, Accept(m)
  PROVE  Exchange'
<1> DEFINE t == m.t
           id == ID[t]
<1>0. responses' = responses \ {m}
  <2>1. DUPLICATES = 0 /\ copies \in Nat /\ Taken(responses, responses', m)
    BY DEF Accept, Undisturbed, One
  <2> QED
    BY <2>1, TakenOnce
<1>1. /\ pc = "idle" /\ Running /\ ~ContainsRRFrag(m.items) /\ responses' = responses \ {m}
      /\ UNCHANGED <<answer, first, outgoing, queries, handler, status>>
      /\ requester_state' = Restrict(requester_state, DOMAIN requester_state \ {id})
      /\ IF client[t] = "waiting"
         THEN /\ client' = [client EXCEPT ![t] = "answered"]
              /\ got' = [got EXCEPT ![t] = m.items]
         ELSE UNCHANGED <<client, got>>
  BY <1>0 DEF Accept
<1>2. t \in Transactions /\ client[t] \in Pending /\ m.items = WholeMessage(answer[t])
  BY <1>1, PlainIsWhole DEF One
<1>3. \A x : x # id =>
        /\ x \in DOMAIN requester_state' <=> x \in DOMAIN requester_state
        /\ x \in DOMAIN requester_state => requester_state'[x] = requester_state[x]
  BY <1>1 DEF Restrict
<1>4. \A u \in Transactions : u # t => Spared(u)
  BY <1>1, <1>2, <1>3, OthersSpared
<1>5. \A u \in Transactions : ClientDue(u)'
  <2> SUFFICES ASSUME NEW u \in Transactions PROVE ClientDue(u)'
    OBVIOUS
  <2>1. ClientDue(u)
    BY DEF Exchange
  <2>2. CASE u # t
    <3>1. DOMAIN client = Transactions /\ DOMAIN got = Transactions
      BY DEF One, Exchange
    <3>2. client'[u] = client[u] /\ got'[u] = got[u]
      BY <1>1, <2>2, <3>1
    <3> QED
      BY <1>4, <2>1, <2>2, <3>2, SparedClient
  <2>3. CASE u = t
    <3>1. answer'[t] = answer[t] /\ first'[t] = first[t] /\ client'[t] # "new"
      BY <1>1, <1>2 DEF One, Pending
    <3>2. client'[t] = "answered" => got'[t] = WholeMessage(answer[t])
      BY <1>1, <1>2 DEF One, Exchange, Pending
    <3>3. ~Known(t)'
      BY <1>1 DEF Known, Restrict
    <3> QED
      BY <2>1, <2>3, <3>1, <3>2, <3>3 DEF ClientDue
  <2> QED
    BY <2>2, <2>3
<1>6. \A q \in outgoing' : OutgoingDue(q)'
  <2> SUFFICES ASSUME NEW q \in outgoing PROVE OutgoingDue(q)'
    BY <1>1
  <2>1. q.t \in Transactions /\ q.t # t /\ OutgoingDue(q)
    BY DEF One, Exchange
  <2> QED
    BY <1>4, <2>1, SparedDue
<1>7. \A q \in queries' : QueryDue(q)'
  <2> SUFFICES ASSUME NEW q \in queries PROVE QueryDue(q)'
    BY <1>1
  <2>1. q.t \in Transactions /\ q.t # t /\ QueryDue(q)
    BY DEF One, Exchange
  <2> QED
    BY <1>4, <2>1, SparedDue
<1>8. \A n \in responses' : AnswerDue(n)'
  <2> SUFFICES ASSUME NEW n \in responses, n # m PROVE AnswerDue(n)'
    BY <1>1
  <2>1. n.t \in Transactions /\ n.t # t /\ AnswerDue(n)
    BY DEF One, Exchange
  <2> QED
    BY <1>4, <2>1, SparedDue
<1>9. Ended' /\ pc' = "idle" /\ DOMAIN got' = Transactions
  BY <1>1 DEF Exchange, Ended, Running, handler
<1> QED
  BY <1>5, <1>6, <1>7, <1>8, <1>9 DEF Exchange

LEMMA DropExchange ==
  ASSUME Exchange, NEW m \in responses, Drop(m)
  PROVE  Exchange'
<1>1. responses' \subseteq responses
      /\ UNCHANGED <<clients, outgoing, queries, requester_state, handler, status>>
  BY DEF Drop
<1> QED
  BY <1>1, NetworkExchange DEF clients

\* While the handler works on its packet, nothing else is under way for it.
LEMMA HandlerExchange ==
  ASSUME Undisturbed, Inv, One, Exchange, Running,
         NEW u \in Transactions, client[u] # "new", Known(u), NEW e, Traced(e, first[u]),
         requester_state' = [requester_state EXCEPT ![ID[u]] = e],
         UNCHANGED <<clients, outgoing, queries, status>>, responses' \subseteq responses,
         \A x \in outgoing \cup queries \cup responses' : x.t # u, Handling'
  PROVE  Exchange'
<1>1. \A t \in Transactions : t # u => Spared(t)
  BY SetSpares DEF clients
<1>2. \A t \in Transactions : ClientDue(t)'
  <2> SUFFICES ASSUME NEW t \in Transactions PROVE ClientDue(t)'
    OBVIOUS
  <2>1. ClientDue(t) /\ UNCHANGED <<answer, first, client, got>>
    BY DEF Exchange, clients
  <2>2. CASE t # u
    BY <1>1, <2>1, <2>2, SparedClient
  <2>3. CASE t = u
    <3>1. Entry(u)' = e
      BY DEF Entry, Known
    <3>2. Traced(Entry(u)', first'[u])
      BY <2>1, <3>1
    <3> QED
      BY <2>1, <2>3, <3>2 DEF ClientDue
  <2> QED
    BY <2>2, <2>3
<1>3. ASSUME NEW x \in outgoing \cup queries \cup responses' PROVE Spared(x.t)
  <2>1. x.t \in Transactions /\ x.t # u
    BY DEF One
  <2> QED
    BY <1>1, <2>1
<1>4. \A q \in outgoing' : OutgoingDue(q)'
  BY <1>3, SparedDue DEF Exchange
<1>5. \A q \in queries' : QueryDue(q)'
  BY <1>3, SparedDue DEF Exchange
<1>6. \A m \in responses' : AnswerDue(m)'
  BY <1>3, SparedDue DEF Exchange
<1>7. Ended' /\ DOMAIN got' = Transactions
  BY DEF Exchange, Ended, Running, clients
<1> QED
  BY <1>2, <1>4, <1>5, <1>6, <1>7 DEF Exchange, Handling

\* A follow-up query is for a record that comes in fragments.
LEMMA DueRecord ==
  ASSUME NEW A \in Answers, NEW e, NEW asks, Due(e, A, asks)
  PROVE  \E p \in Places(A) : At(A, p).rrid # 0
<1>1. 1 \in DOMAIN asks
  BY ListLength, EmptySeq DEF Due, IsList
<1> QED
  BY <1>1 DEF Due, Naming

\* A response with fragments is never dropped: a slot expects what it carries,
\* and is not complete.
LEMMA FragmentsAwaited ==
  ASSUME Inv, Exchange, NEW m \in responses, ContainsRRFrag(m.items)
  PROVE  Awaited(m)
<1> DEFINE t == m.t
           e == Entry(t)
           A == answer[t]
<1>1. t \in Transactions /\ A \in Answers /\ AnswerDue(m)
  BY DEF Inv, Messages, Exchange, ClientDue
<1>2. CASE m.items = WholeMessage(A)
  BY <1>1, <1>2, WholeHasNone
<1>3. CASE Known(t) /\ e = Fresh
  BY <1>3 DEF Awaited, Known, Entry, message_complete, Fresh
<1>4. ASSUME Known(t), NEW asks, Due(e, A, asks) PROVE Awaited(m)
  <2>1. PICK P : Plan(e, A, Listed(asks), P)
    BY <1>4 DEF Due, Expects
  <2>2. 1 \in DOMAIN asks /\ DOMAIN Listed(asks) = DOMAIN asks
    BY <1>4, ListLength, EmptySeq DEF Due, IsList, Listed
  <2> DEFINE p == P[1]
             slot == At(e.slots, p)
             rr == At(A, p)
             x == Listed(asks)[1]
  <2>3. p \in Places(A) /\ p \in Places(e.slots) /\ Expecting(slot, p, rr, x)
    <3>1. Places(e.slots) = Places(A)
      BY <2>1, SamePlaces DEF Plan
    <3> QED
      BY <2>1, <2>2, <3>1 DEF Plan
  <2>4. rr.len \in Nat \ {0}
    BY <1>1, <2>3, AnswerFields
  <2>5. ~slot.is_complete
    <3> HIDE DEF slot, rr, x, p
    <3>1. Fitting(slot, p, rr, x)
      BY <2>3, <2>4, ExpectingFields
    <3> QED
      BY <3>1 DEF Fitting
  <2>6. Counted(e) /\ e.set
    BY <1>4, <2>1 DEF Inv, States, Known, Entry, Plan, Shaped
  <2>7. ~message_complete(e)
    BY <2>3, <2>5, <2>6, AllCounted
  <2> QED
    BY <1>4, <2>7 DEF Awaited, Known, Entry
<1> QED
  BY <1>1, <1>2, <1>3, <1>4 DEF AnswerDue

\* A response with fragments is what the PartialDNSMessage expects.
LEMMA ReceivedExpects ==
  ASSUME Undisturbed, Inv, Exchange, NEW m \in responses, m.t \in Transactions,
         ContainsRRFrag(m.items), Known(m.t)
  PROVE  LET e == Entry(m.t)
             A == answer[m.t]
             F == first[m.t]
         IN  /\ Overruns(e, m.items) => e.set /\ A[0] = <<>> /\ ContainsRRFrag(F)
             /\ Expects(Opened(e, m.items), A, Items(m.items), {})
             /\ Traced(Opened(e, m.items), F) /\ TracedItems(Items(m.items), F)
<1> DEFINE t == m.t
           e == Entry(t)
           A == answer[t]
           F == first[t]
           AsDue == /\ Overruns(e, m.items) => e.set /\ A[0] = <<>> /\ ContainsRRFrag(F)
                    /\ Expects(Opened(e, m.items), A, Items(m.items), {})
                    /\ Traced(Opened(e, m.items), F) /\ TracedItems(Items(m.items), F)
<1>1. /\ AnswerDue(m) /\ A \in Answers /\ F \in FirstResponses(A) /\ Counted(e)
      /\ Traced(e, F)
  BY DEF Exchange, ClientDue, Inv, States, Known, Entry
<1>2. ASSUME m.items = F, e = Fresh
      PROVE  AsDue
  <2>1. IsMessage(F) /\ LaidOut(F, A) /\ \A p \in Places(A) : Begins(At(F, p), At(A, p))
    BY <1>1, FirstFields
  <2>2. Expects(Opened(Fresh, F), A, Items(F), {})
    BY <1>1, <2>1, OpenedExpects
  <2>3. Traced(Opened(Fresh, F), F) /\ TracedItems(Items(F), F)
    BY <2>1, OpenedTraced
  <2>4. ~Overruns(Fresh, F)
    BY DEF Overruns, Fresh
  <2> HIDE DEF e, F, A
  <2> QED
    BY <1>2, <2>2, <2>3, <2>4
<1>3. ASSUME NEW asks, m.items = Further(asks), Due(e, A, asks)
      PROVE  AsDue
  <2>1. IsList(asks) /\ Naming(asks, A) /\ asks # <<>> /\ Expects(e, A, Listed(asks), {})
    BY <1>3 DEF Due
  <2> DEFINE items == Listed(asks)
  <2>2. PICK P : Plan(e, A, items, P)
    BY <2>1 DEF Expects
  <2>3. Shaped(e, A)
    BY <2>2 DEF Plan
  <2>4. Opened(e, m.items) = e /\ e.set
    BY <2>3 DEF Shaped, Opened
  <2>5. Items(m.items) = items /\ Expects(e, A, items, {})
    BY <1>3, <2>1, FurtherItems
  <2>6. DOMAIN items = DOMAIN asks /\ 1 \in DOMAIN asks
        /\ \A i \in DOMAIN items : /\ items[i].item.isRRFrag
                                   /\ items[i].item.fragsize = asks[i].fragsize
    <3>1. 1 \in DOMAIN asks
      BY <2>1, ListLength, EmptySeq DEF IsList
    <3> QED
      BY <3>1 DEF Listed, Served, Part
  <2>7. TracedItems(items, F)
    BY <2>1, <2>6 DEF TracedItems, Naming
  <2>8. ContainsRRFrag(F)
    <3> DEFINE p == P[1]
               slot == At(e.slots, p)
               rr == At(A, p)
               x == items[1]
    <3>1. p \in Places(A) /\ p \in Places(e.slots) /\ Expecting(slot, p, rr, x)
      BY <2>2, <2>3, <2>6, SamePlaces DEF Plan
    <3>2. rr.len \in Nat \ {0}
      BY <1>1, <3>1, AnswerFields
    <3>3. x.item.isRRFrag
      BY <2>6
    <3>4. TracedSlot(slot, F)
      BY <1>1, <3>1 DEF Traced
    <3> HIDE DEF p, slot, rr, x
    <3>5. Fitting(slot, p, rr, x)
      BY <3>1, <3>2, ExpectingFields
    <3>6. slot.rrid # 0
      BY <3>3, <3>5 DEF Fitting
    <3> QED
      BY <3>4, <3>6 DEF TracedSlot
  <2>9. ASSUME e.count[0] = 0
        PROVE  A[0] = <<>>
    <3> DEFINE list == e.slots[0]
               records == A[0]
    <3>1. IsList(list) /\ Len(list) = 0 /\ DOMAIN list = DOMAIN records
      BY <1>1, <2>3, <2>9 DEF Counted, Shaped, Sections
    <3>2. IsList(records) /\ Len(records) \in Nat /\ DOMAIN records = 1 .. Len(records)
      BY <1>1, AnswerFields DEF Sections
    <3> HIDE DEF list, records
    <3>3. DOMAIN list = {}
      BY <3>1, ListLength
    <3>4. Len(records) = 0
      BY <3>1, <3>2, <3>3
    <3>5. records = <<>>
      BY <3>2, <3>4, EmptySeq DEF IsList
    <3> QED
      BY <3>5 DEF records
  <2>10. Overruns(e, m.items) => e.count[0] = 0
    BY DEF Overruns
  <2> HIDE DEF items, e, A, F
  <2> QED
    BY <1>1, <2>4, <2>5, <2>7, <2>8, <2>9, <2>10
<1>4. m.items # WholeMessage(A)
  BY <1>1, WholeHasNone
<1>5. AsDue
  <2> HIDE DEF AsDue
  <2> QED
    BY <1>1, <1>2, <1>3, <1>4 DEF AnswerDue
<1> QED
  BY <1>5

LEMMA ReceiveExchange ==
  ASSUME Undisturbed, Inv, One, Exchange, NEW m \in responses, Receive(m)
  PROVE  Exchange'
<1> DEFINE t == m.t
           old == Entry(t)
           e == Opened(old, m.items)
           items == Items(m.items)
<1>0. responses' = responses \ {m}
  <2>1. DUPLICATES = 0 /\ copies \in Nat /\ Taken(responses, responses', m)
    BY DEF Receive, Undisturbed, One
  <2> QED
    BY <2>1, TakenOnce
<1>1. /\ pc = "idle" /\ Running /\ ContainsRRFrag(m.items) /\ Known(t)
      /\ responses' = responses \ {m} /\ UNCHANGED <<clients, outgoing, queries>>
  BY <1>0 DEF Receive, Awaited, Known
<1>2. t \in Transactions /\ client[t] \in Pending
  BY DEF One
<1>3. /\ Overruns(old, m.items) =>
           old.set /\ answer[t][0] = <<>> /\ ContainsRRFrag(first[t])
      /\ Expects(e, answer[t], items, {}) /\ Traced(e, first[t]) /\ TracedItems(items, first[t])
  BY <1>1, <1>2, ReceivedExpects
<1>4. \/ /\ Overruns(old, m.items) /\ status' = "undefined"
         /\ UNCHANGED <<requester_state, handler>>
      \/ /\ requester_state' = [requester_state EXCEPT ![ID[t]] = e]
         /\ packet' = t /\ todo' = items /\ pc' = "copy" /\ UNCHANGED status
  BY DEF Receive, Entry, handler
<1>5. client[t] # "new"
  BY <1>2 DEF Pending
<1> HIDE DEF e, items, t
<1>6. CASE /\ Overruns(old, m.items) /\ status' = "undefined"
           /\ UNCHANGED <<requester_state, handler>>
  <2>1. Known(t)' /\ (Entry(t).set)'
    BY <1>1, <1>3, <1>6 DEF Known, Entry
  <2>2. client'[t] # "new" /\ answer'[t][0] = <<>> /\ ContainsRRFrag(first'[t])
    BY <1>1, <1>3, <1>5, <1>6 DEF clients
  <2>3. Ended'
    BY <1>2, <1>6, <2>1, <2>2 DEF Ended
  <2> QED
    BY <1>1, <1>6, <2>3, NetworkExchange DEF clients
<1>7. CASE /\ requester_state' = [requester_state EXCEPT ![ID[t]] = e]
           /\ packet' = t /\ todo' = items /\ pc' = "copy" /\ UNCHANGED status
  <2>1. Handling'
    <3>1. entry' = e /\ answer' = answer /\ first' = first
      BY <1>1, <1>7 DEF entry, Known, clients
    <3>2. Expects(entry', answer'[packet'], todo', {}) /\ TracedItems(todo', first'[packet'])
      BY <1>3, <1>7, <3>1
    <3> QED
      BY <1>7, <3>2 DEF Handling
  <2>2. \A x \in outgoing \cup queries \cup responses' : x.t # t
    BY <1>1 DEF One, t
  <2> QED
    BY <1>1, <1>2, <1>3, <1>5, <1>7, <2>1, <2>2, HandlerExchange
<1> QED
  BY <1>4, <1>6, <1>7

\* One record is copied where it is expected, and then the rest is.
LEMMA CopyPlan ==
  ASSUME Inv, Exchange, pc = "copy", todo # <<>>
  PROVE  /\ Counted(entry) /\ Known(packet) /\ packet \in Transactions
         /\ answer[packet] \in Answers
         /\ IsList(todo) /\ 1 \in DOMAIN todo /\ Head(todo) = todo[1]
         /\ \E P : Plan(entry, answer[packet], todo, P)
<1>1. Counted(entry) /\ Known(packet) /\ packet \in Transactions /\ IsList(todo)
  BY DEF Inv, Messages, States, entry, Known
<1>2. Len(todo) \in Nat \ {0} /\ DOMAIN todo = 1 .. Len(todo) /\ Head(todo) = todo[1]
  BY <1>1, EmptySeq, ListLength DEF IsList
<1> QED
  BY <1>1, <1>2 DEF Exchange, ClientDue, Expects

LEMMA CopyExchange ==
  ASSUME Undisturbed, Inv, One, Exchange, Running, pc = "copy", todo # <<>>,
         NEW P, Plan(entry, answer[packet], todo, P), NEW slot,
         Settled(slot, At(answer[packet], P[1])), TracedSlot(slot, first[packet]),
         NEW completed \in BOOLEAN,
         SetEntry(Put(entry, P[1], slot, completed)), todo' = Tail(todo),
         UNCHANGED <<clients, network, packet, missing, cursize, asked, pc, status>>
  PROVE  Exchange'
<1> DEFINE A == answer[packet]
           p == P[1]
           e == Put(entry, p, slot, completed)
           rest == Tail(todo)
<1>1. /\ Counted(entry) /\ Known(packet) /\ packet \in Transactions /\ A \in Answers
      /\ IsList(todo) /\ 1 \in DOMAIN todo
  BY CopyPlan
<1>2. Replaced(e, entry, p, slot)
  <2> HIDE DEF p
  <2> DEFINE slots == [entry.slots EXCEPT ![p[1]][p[2]] = slot]
             done == [entry.done EXCEPT ![p[1]] = IF completed THEN entry.done[p[1]] + 1
                                                  ELSE entry.done[p[1]]]
  <2>1. e = [set |-> entry.set, count |-> entry.count, slots |-> slots, done |-> done]
    BY <1>1, PutFields
  <2> HIDE DEF slots, done, e
  <2>2. e.set = entry.set /\ e.slots = slots
    BY <2>1
  <2> QED
    BY <2>2 DEF Replaced, slots
<1> HIDE DEF e, p
<1>3. \E T : Plan(e, A, rest, T)
  <2> HIDE DEF A
  <2> QED
    BY <1>1, <1>2, PlanStep DEF A, p
<1>4. Expects(e, A, rest, {})
  BY <1>3 DEF Expects
<1>11. Traced(e, first[packet])
  <2> DEFINE F == first[packet]
  <2>1. Traced(entry, F)
    BY <1>1 DEF Exchange, ClientDue, Entry, entry
  <2>2. p \in Places(entry.slots)
    BY <1>1, SamePlaces DEF Plan, p
  <2> HIDE DEF F
  <2>3. TracedSlot(slot, F)
    BY DEF F
  <2>4. Traced(e, F)
    BY ONLY <1>1, <1>2, <2>1, <2>2, <2>3, TracedReplaced
  <2> QED
    BY <2>4 DEF F
<1>12. TracedItems(rest, first[packet])
  <2>1. TracedItems(todo, first[packet])
    BY DEF Exchange
  <2>2. \A i \in DOMAIN rest : i + 1 \in DOMAIN todo /\ rest[i] = todo[i + 1]
    <3>1. todo \in Seq(Range(todo)) /\ Len(todo) \in Nat /\ DOMAIN todo = 1 .. Len(todo)
      BY <1>1, ListLength DEF IsList
    <3>2. /\ rest \in Seq(Range(todo)) /\ Len(rest) = Len(todo) - 1
          /\ \A i \in 1 .. Len(rest) : rest[i] = todo[i + 1]
      BY <3>1, HeadTailProperties
    <3>3. DOMAIN rest = 1 .. Len(rest)
      BY <3>2, LenProperties
    <3> HIDE DEF rest
    <3> QED
      BY <3>1, <3>2, <3>3
  <2> HIDE DEF rest
  <2> QED
    BY <2>1, <2>2 DEF TracedItems
<1> HIDE DEF rest
<1>5. requester_state' = [requester_state EXCEPT ![ID[packet]] = e]
  BY DEF SetEntry, e, p
<1>6. Handling'
  <2>1. entry' = e /\ answer'[packet'] = A /\ todo' = rest /\ pc' = "copy"
    BY <1>1, <1>5 DEF entry, Known, clients, rest
  <2>2. Expects(entry', answer'[packet'], todo', {})
    BY <1>4, <2>1
  <2>3. TracedItems(todo', first'[packet'])
    BY <1>12, <2>1 DEF clients
  <2> QED
    BY <2>1, <2>2, <2>3 DEF Handling
<1>7. \A x \in outgoing \cup queries \cup responses' : x.t # packet
  BY DEF One, network
<1>8. client[packet] # "new"
  BY <1>1 DEF One, Pending
<1>9. UNCHANGED <<clients, outgoing, queries, status>> /\ responses' \subseteq responses
  BY DEF network
<1> QED
  BY <1>1, <1>5, <1>6, <1>7, <1>8, <1>9, <1>11, HandlerExchange

LEMMA CopyRRFragExchange ==
  ASSUME Undisturbed, Inv, One, Exchange, CopyRRFrag
  PROVE  Exchange'
<1>1. pc = "copy" /\ Running /\ todo # <<>> /\ Head(todo).item.isRRFrag
      /\ UNCHANGED <<clients, network, packet, missing, cursize, asked, pc>>
  BY Zenon DEF CopyRRFrag
<1>2. PICK P : Plan(entry, answer[packet], todo, P)
  BY <1>1, CopyPlan
<1> DEFINE F == first[packet]
           f == Head(todo).item
           found == Matching(entry, f.rr.rrid)
           p == P[1]
           slot == At(entry.slots, p)
           new == Filled(slot, f)
           completed == LastPiece(slot, f)
<1>3. /\ 1 \in DOMAIN todo /\ answer[packet] \in Answers /\ f = todo[1].item
      /\ Known(packet) /\ packet \in Transactions
  BY <1>1, CopyPlan
<1>4. /\ found # {} /\ First(found) = p
      /\ Outcome(slot, f) = IF slot.noroom THEN "hung" ELSE "running"
      /\ ~slot.noroom => /\ Settled(new, At(answer[packet], p)) /\ new.rrid = slot.rrid
                         /\ new.noroom => f.fragsize = 0
  <2> DEFINE g == todo[1].item
             A == answer[packet]
             e == entry
  <2>1. A \in Answers /\ 1 \in DOMAIN todo /\ Plan(e, A, todo, P) /\ g.isRRFrag
    BY <1>1, <1>2, <1>3
  <2> HIDE DEF A, e
  <2>2. LET match == Matching(e, g.rr.rrid)
            old == At(e.slots, P[1])
        IN  /\ match # {} /\ First(match) = P[1]
            /\ Outcome(old, g) = IF old.noroom THEN "hung" ELSE "running"
            /\ ~old.noroom => /\ Settled(Filled(old, g), At(A, P[1]))
                              /\ Filled(old, g).rrid = old.rrid
                              /\ Filled(old, g).noroom => g.fragsize = 0
    BY ONLY Undisturbed, <2>1, FragmentCopied
  <2>3. f = g
    BY <1>3
  <2> HIDE DEF f, g
  <2> QED
    BY <2>2, <2>3 DEF A, e
<1>5. completed \in BOOLEAN
  BY DEF LastPiece
<1>6. slot = entry.slots[p[1]][p[2]]
  BY DEF At
<1>7. TracedSlot(slot, F) /\ (f.fragsize = 0 => Hollow(F))
  <2>1. Traced(entry, F) /\ TracedItems(todo, F)
    BY <1>1, <1>3 DEF Exchange, ClientDue, Entry, entry
  <2>2. p \in Places(entry.slots)
    BY <1>2, <1>3, SamePlaces DEF Plan
  <2> QED
    BY <1>1, <1>3, <2>1, <2>2 DEF Traced, TracedItems
<1> HIDE DEF p, slot, found, f, F
<1>8. IF slot.noroom
      THEN status' = "hung" /\ UNCHANGED <<requester_state, todo>>
      ELSE /\ status' = "running" /\ SetEntry(Put(entry, p, new, completed))
           /\ todo' = Tail(todo)
  <2> DEFINE q == First(found)
             copied == entry.slots[q[1]][q[2]]
  <2>1. found # {} =>
          /\ status' = Outcome(copied, f)
          /\ IF Outcome(copied, f) = "running"
             THEN /\ SetEntry(Put(entry, q, Filled(copied, f), LastPiece(copied, f)))
                  /\ todo' = Tail(todo)
             ELSE UNCHANGED <<requester_state, todo>>
    BY Zenon DEF CopyRRFrag, f, found
  <2>2. q = p /\ copied = slot
    BY <1>4, <1>6
  <2> HIDE DEF q, copied
  <2> QED
    BY <1>4, <2>1, <2>2
<1>9. CASE slot.noroom
  <2>1. status' = "hung" /\ Hollow(F)
        /\ UNCHANGED <<clients, network, requester_state, handler>>
    BY <1>1, <1>7, <1>8, <1>9 DEF TracedSlot, handler
  <2>2. Hollow(first'[packet']) /\ packet' \in Transactions
    BY <1>3, <2>1 DEF clients, handler, F
  <2>3. Ended'
    BY <2>1, <2>2 DEF Ended
  <2> QED
    BY <2>1, <2>3, NetworkExchange DEF clients, network
<1>10. CASE ~slot.noroom
  <2>1. UNCHANGED status /\ SetEntry(Put(entry, p, new, completed)) /\ todo' = Tail(todo)
    BY <1>1, <1>8, <1>10 DEF Running
  <2>2. Settled(new, At(answer[packet], p)) /\ TracedSlot(new, F)
    BY <1>4, <1>7, <1>10 DEF TracedSlot
  <2> HIDE DEF new, completed
  <2> QED
    BY <1>1, <1>2, <1>5, <2>1, <2>2, CopyExchange DEF p, F
<1> QED
  BY <1>9, <1>10

LEMMA CopyRRExchange ==
  ASSUME Undisturbed, Inv, One, Exchange, CopyRR
  PROVE  Exchange'
<1>1. pc = "copy" /\ Running /\ todo # <<>> /\ ~Head(todo).item.isRRFrag /\ todo' = Tail(todo)
      /\ UNCHANGED <<clients, network, packet, missing, cursize, asked, pc, status>>
  BY DEF CopyRR
<1>2. PICK P : Plan(entry, answer[packet], todo, P)
  BY <1>1, CopyPlan
<1> DEFINE next == Head(todo)
           free == Unfilled(entry, next.section)
           p == P[1]
           slot == At(entry.slots, p)
           new == WithWhole(slot, next.item.rr)
<1>3. 1 \in DOMAIN todo /\ answer[packet] \in Answers /\ next = todo[1] /\ IsList(todo)
  BY <1>1, CopyPlan
<1>4. /\ free # {} /\ First(free) = p /\ Settled(new, At(answer[packet], p))
      /\ TracedSlot(new, first[packet])
  <2> DEFINE x == todo[1]
             A == answer[packet]
             e == entry
  <2>1. /\ A \in Answers /\ IsList(todo) /\ 1 \in DOMAIN todo /\ Plan(e, A, todo, P)
        /\ ~x.item.isRRFrag
    BY <1>1, <1>2, <1>3
  <2> HIDE DEF A, e
  <2>2. LET unfilled == Unfilled(e, x.section)
            rr == x.item.rr
            old == At(e.slots, P[1])
        IN  /\ unfilled # {} /\ First(unfilled) = P[1] /\ ~old.is_complete
            /\ Settled(WithWhole(old, rr), At(A, P[1]))
            /\ \A F : TracedSlot(WithWhole(old, rr), F)
    BY ONLY <2>1, WholeCopied
  <2>3. next = x
    BY <1>3
  <2> HIDE DEF next, x
  <2> QED
    BY <2>2, <2>3 DEF A, e
<1>5. slot = entry.slots[p[1]][p[2]]
  BY DEF At
<1> HIDE DEF p, slot, free, next
<1>6. SetEntry(Put(entry, p, new, TRUE))
  BY <1>4, <1>5 DEF CopyRR, next, free
<1> HIDE DEF new
<1> QED
  BY <1>1, <1>2, <1>4, <1>6, CopyExchange DEF p

\* When all of a response is copied the places are settled: either the message
\* is complete, and the whole answer, or blocks of a record are missing.
LEMMA AllCopied ==
  ASSUME Inv, Exchange, pc = "copy", todo = <<>>
  PROVE  /\ Counted(entry) /\ Known(packet) /\ packet \in Transactions
         /\ answer[packet] \in Answers
         /\ message_complete(entry) => partial_to_dnsmessage(entry) = WholeMessage(answer[packet])
         /\ ~message_complete(entry) => Incomplete(entry) # {}
         /\ \E P : Plan(entry, answer[packet], <<>>, P)
<1> DEFINE A == answer[packet]
<1>1. Counted(entry) /\ Known(packet) /\ packet \in Transactions
  BY DEF Inv, Messages, States, entry, Known
<1>2. A \in Answers /\ \E P : Plan(entry, A, <<>>, P)
  BY <1>1 DEF Exchange, ClientDue, Expects
<1>3. Shaped(entry, A) /\ \A p \in Places(A) : Settled(At(entry.slots, p), At(A, p))
  <2>1. DOMAIN <<>> = {}
    OBVIOUS
  <2> QED
    BY <1>2, <2>1 DEF Plan
<1> HIDE DEF A
<1>4. /\ message_complete(entry) => partial_to_dnsmessage(entry) = WholeMessage(A)
      /\ ~message_complete(entry) => Incomplete(entry) # {}
  BY <1>1, <1>2, <1>3, AllSettled
<1> QED
  BY <1>1, <1>2, <1>4 DEF A

LEMMA CompleteExchange ==
  ASSUME Undisturbed, Inv, One, Exchange, Complete
  PROVE  Exchange'
<1> DEFINE m == Response(packet, partial_to_dnsmessage(entry))
<1>1. /\ pc = "copy" /\ Running /\ todo = <<>> /\ message_complete(entry)
      /\ responses' = responses \cup {m} /\ pc' = "idle"
      /\ UNCHANGED <<clients, outgoing, queries, requester_state, status>>
  BY DEF Complete
<1>2. m.t = packet /\ m.items = WholeMessage(answer[packet])
  BY <1>1, AllCopied DEF Response
<1>3. AnswerDue(m)
  BY <1>2 DEF AnswerDue
<1> HIDE DEF m
<1>4. \A t : Spared(t)
  BY <1>1, AllSpared DEF clients
<1>5. \A t \in Transactions : ClientDue(t)'
  <2> SUFFICES ASSUME NEW t \in Transactions PROVE ClientDue(t)'
    OBVIOUS
  <2>1. ClientDue(t) /\ Spared(t)
    BY <1>4 DEF Exchange
  <2> QED
    BY <1>1, <2>1, SparedClient DEF clients
<1>6. /\ \A q \in outgoing' : OutgoingDue(q)'
      /\ \A q \in queries' : QueryDue(q)'
      /\ \A n \in responses' : AnswerDue(n)'
  BY <1>1, <1>3, <1>4, SparedDue DEF Exchange
<1> QED
  BY <1>1, <1>5, <1>6 DEF Exchange, Ended, Running, clients

LEMMA StartPackingExchange ==
  ASSUME Undisturbed, Inv, One, Exchange, StartPacking
  PROVE  Exchange'
<1>1. /\ pc = "copy" /\ Running /\ todo = <<>> /\ ~message_complete(entry)
      /\ missing' = Incomplete(entry) /\ cursize' = DNSMESSAGEHEADER /\ asked' = <<>>
      /\ pc' = "pack" /\ UNCHANGED <<clients, network, requester_state, packet, todo, status>>
  BY DEF StartPacking
<1>2. /\ Known(packet) /\ packet \in Transactions /\ Incomplete(entry) # {}
      /\ \E P : Plan(entry, answer[packet], <<>>, P)
  BY <1>1, AllCopied
<1>3. entry' = entry /\ answer' = answer
  BY <1>1 DEF entry, clients
<1>4. Listed(<<>>) = <<>> /\ DOMAIN <<>> = {}
  BY DEF Listed
<1>5. Expects(entry, answer[packet], Listed(<<>>), Incomplete(entry))
  BY <1>2, <1>4 DEF Expects
<1>6. ResponseSize(<<>>) = DNSMESSAGEHEADER /\ Len(<<>>) = 0
  <2> DEFINE sizes == [i \in 1 .. Len(<<>>) |-> RRFRAGHEADER + <<>>[i].fragsize]
  <2>1. sizes = <<>> /\ Len(<<>>) = 0 /\ <<>> \in Seq(Int)
    BY EmptySeq
  <2> HIDE DEF sizes
  <2>2. Total(sizes) = 0
    <3>1. Offsets(<<>>)[0] = 0
      BY <2>1, OffsetsStep
    <3> QED
      BY <2>1, <3>1 DEF Total
  <2> QED
    BY <2>1, <2>2 DEF ResponseSize, sizes, DNSMESSAGEHEADER
<1>7. Packing'
  <2>1. DNSMESSAGEHEADER \in Nat /\ DNSMESSAGEHEADER <= MAXUDP + RRFRAGHEADER - RRHEADER
        /\ ResponseSize(<<>>) = DNSMESSAGEHEADER + RRHEADER * Len(<<>>)
    BY <1>6, RequesterAssumption DEF DNSMESSAGEHEADER, RRFRAGHEADER, RRHEADER, BLOCKSIZE
  <2>2. Expects(entry', answer'[packet'], Listed(asked'), missing')
    BY <1>1, <1>3, <1>5
  <2> QED
    BY <1>1, <1>2, <2>1, <2>2 DEF Packing, Naming
<1>8. requester_state' = [requester_state EXCEPT ![ID[packet]] = entry]
  BY <1>1, <1>2 DEF entry, Inv, States
<1>9. Handling'
  BY <1>1, <1>7 DEF Handling
<1>10. \A x \in outgoing \cup queries \cup responses' : x.t # packet
  BY <1>1 DEF One, network
<1>11. client[packet] # "new"
  BY <1>1 DEF One, Pending
<1>12. UNCHANGED <<clients, outgoing, queries, status>> /\ responses' \subseteq responses
  BY <1>1 DEF network
<1>13. Traced(entry, first[packet])
  BY <1>2 DEF Exchange, ClientDue, Entry, entry
<1> QED
  BY <1>1, <1>2, <1>8, <1>9, <1>10, <1>11, <1>12, <1>13, HandlerExchange

LEMMA PackOneExchange ==
  ASSUME Undisturbed, Inv, One, Exchange, PackOne
  PROVE  Exchange'
<1>1. pc = "pack" /\ Running /\ UNCHANGED <<clients, network, packet, todo, pc, status>>
  BY Zenon DEF PackOne
<1>2. Known(packet) /\ packet \in Transactions /\ Packing
  BY <1>1 DEF Exchange, Inv, Messages, Known
<1>3. answer[packet] \in Answers
  BY <1>2 DEF Exchange, ClientDue
<1>4. Packing' /\ \A F : Traced(entry, F) => Traced(entry', F)
  BY <1>2, <1>3, PackOnePacking
<1>5. Handling'
  BY <1>1, <1>4 DEF Handling
<1>6. /\ requester_state' = [requester_state EXCEPT ![ID[packet]] = entry']
      /\ Traced(entry', first[packet])
  <2>1. (\E e : SetEntry(e)) \/ requester_state' = requester_state
    BY Zenon DEF PackOne
  <2>2. requester_state = [requester_state EXCEPT ![ID[packet]] = entry]
    BY <1>2 DEF entry, Inv, States
  <2>3. PICK e : requester_state' = [requester_state EXCEPT ![ID[packet]] = e]
    BY <2>1, <2>2 DEF SetEntry
  <2>4. entry' = e
    BY <1>1, <1>2, <2>3 DEF entry, Known
  <2>5. Traced(entry, first[packet])
    BY <1>2 DEF Exchange, ClientDue, Entry, entry
  <2> QED
    BY <1>4, <2>3, <2>4, <2>5
<1>7. \A x \in outgoing \cup queries \cup responses' : x.t # packet
  BY <1>1 DEF One, network
<1>8. client[packet] # "new"
  BY <1>1 DEF One, Pending
<1>9. UNCHANGED <<clients, outgoing, queries, status>> /\ responses' \subseteq responses
  BY <1>1 DEF network
<1> QED
  BY <1>1, <1>2, <1>5, <1>6, <1>7, <1>8, <1>9, HandlerExchange

\* The follow-up query asks for what the PartialDNSMessage waits for.
LEMMA SendFollowUpExchange ==
  ASSUME Undisturbed, Inv, One, Exchange, SendFollowUp
  PROVE  Exchange'
<1> DEFINE q == Query(packet, asked, TRUE)
<1>1. /\ pc = "pack" /\ Running /\ missing = {} /\ outgoing' = outgoing \cup {q} /\ pc' = "idle"
      /\ UNCHANGED <<clients, queries, responses, requester_state, status>>
  BY DEF SendFollowUp
<1>2. Packing /\ Known(packet) /\ packet \in Transactions /\ IsList(asked)
  BY <1>1 DEF Exchange, Inv, Messages, Known
<1>3. Due(entry, answer[packet], asked)
  <2>1. /\ asked # <<>> /\ Expects(entry, answer[packet], Listed(asked), {})
        /\ Naming(asked, answer[packet])
    BY <1>1, <1>2 DEF Packing
  <2> QED
    BY <1>2, <2>1 DEF Due
<1>4. Fits(asked)
  <2>1. Len(asked) \in Nat
    BY <1>2, ListLength
  <2> DEFINE n == Len(asked)
             size == ResponseSize(asked)
  <2>2. n \in Nat /\ size = cursize + RRHEADER * n
        /\ cursize \in Nat /\ cursize <= MAXUDP + RRFRAGHEADER - RRHEADER /\ MAXUDP \in Nat
    BY <1>2, <2>1, RequesterAssumption DEF Packing
  <2> HIDE DEF n, size
  <2>3. size <= MAXUDP + n * RRHEADER + RRFRAGHEADER - RRHEADER
    BY <2>2 DEF RRFRAGHEADER, RRHEADER
  <2> QED
    BY <2>3 DEF Fits, n, size
<1>5. OutgoingDue(q)
  <2>1. q.t = packet /\ q.asks = asked /\ q.followup
    BY DEF Query
  <2>2. Entry(packet) = entry
    BY DEF Entry, entry
  <2> HIDE DEF q
  <2> QED
    BY <1>2, <1>3, <1>4, <2>1, <2>2 DEF OutgoingDue
<1> HIDE DEF q
<1>6. \A t : Spared(t)
  BY <1>1, AllSpared DEF clients
<1>7. \A t \in Transactions : ClientDue(t)'
  <2> SUFFICES ASSUME NEW t \in Transactions PROVE ClientDue(t)'
    OBVIOUS
  <2>1. ClientDue(t) /\ Spared(t)
    BY <1>6 DEF Exchange
  <2> QED
    BY <1>1, <2>1, SparedClient DEF clients
<1>8. /\ \A r \in outgoing' : OutgoingDue(r)'
      /\ \A r \in queries' : QueryDue(r)'
      /\ \A m \in responses' : AnswerDue(m)'
  BY <1>1, <1>5, <1>6, SparedDue DEF Exchange
<1> QED
  BY <1>1, <1>7, <1>8 DEF Exchange, Ended, Running, clients

LEMMA NextExchange ==
  ASSUME Undisturbed, Inv, One, Exchange, [Next]_vars
  PROVE  Exchange'
<1>1. CASE UNCHANGED vars
  <2>1. UNCHANGED <<clients, outgoing, queries, responses, requester_state, handler, status>>
    BY <1>1 DEF vars, network
  <2> QED
    BY <2>1, NetworkExchange DEF clients
<1>2. ASSUME NEW t \in Transactions, Ask(t) \/ GiveUp(t) PROVE Exchange'
  BY <1>2, AskExchange, GiveUpExchange
<1>3. ASSUME NEW q \in outgoing, Register(q) PROVE Exchange'
  BY <1>3, RegisterExchange
<1>4. ASSUME NEW q \in queries, Respond(q) PROVE Exchange'
  BY <1>4, RespondExchange
<1>5. ASSUME NEW m \in responses, Accept(m) \/ Drop(m) \/ Receive(m) PROVE Exchange'
  BY <1>5, AcceptExchange, DropExchange, ReceiveExchange
<1>6. CASE CopyRRFrag \/ CopyRR
  BY <1>6, CopyRRFragExchange, CopyRRExchange
<1>7. CASE Complete \/ StartPacking \/ PackOne \/ SendFollowUp
  BY <1>7, CompleteExchange, StartPackingExchange, PackOneExchange, SendFollowUpExchange
<1>8. CASE Lose
  BY <1>8, LoseExchange
<1> QED
  BY <1>1, <1>2, <1>3, <1>4, <1>5, <1>6, <1>7, <1>8 DEF Next, Daemon
-----------------------------------------------------------------------------
(***************************************************************************)
(* For a far side that settles its answer when it responds: the step that  *)
(* does both.                                                              *)
(***************************************************************************)
Settles(q, m) ==
  /\ ~q.followup /\ m.t = q.t /\ m.items = first'[q.t]
  /\ queries' = queries \ {q} /\ responses' = responses \cup {m}
  /\ \A t \in Transactions \ {q.t} : answer'[t] = answer[t] /\ first'[t] = first[t]
  /\ answer'[q.t] \in Answers /\ first'[q.t] \in FirstResponses(answer'[q.t])
  /\ UNCHANGED <<client, got, outgoing, requester_state, handler, status>>

LEMMA SettlesExchange ==
  ASSUME One, Exchange, NEW q \in queries, NEW m, Settles(q, m)
  PROVE  Exchange'
<1> DEFINE t == q.t
<1>1. t \in Transactions /\ client[t] \in Pending /\ t # packet
  BY DEF One
<1>2. Known(t) /\ Entry(t) = Fresh
  BY DEF Settles, Exchange, QueryDue
<1>3. /\ \A u : Known(u)' <=> Known(u)
      /\ \A u : Entry(u)' = Entry(u)
      /\ UNCHANGED <<client, got, outgoing, requester_state, status>>
      /\ UNCHANGED handler
  BY DEF Settles, Known, Entry
<1>4. ASSUME NEW u \in Transactions, u # t PROVE Spared(u)
  BY <1>3, <1>4 DEF Settles, Spared
<1>5. Handling'
  <2>1. packet # NONE => packet \in Transactions
    BY DEF One
  <2>2. pc \in {"copy", "pack"} =>
          answer'[packet] = answer[packet] /\ first'[packet] = first[packet]
    BY <1>1, <2>1 DEF Settles, One
  <2>3. entry' = entry /\ todo' = todo /\ packet' = packet /\ pc' = pc
        /\ cursize' = cursize /\ asked' = asked /\ missing' = missing
    BY <1>3 DEF entry, handler
  <2>4. Handling
    BY ExchangeParts
  <2>5. CASE pc = "copy"
    BY <2>2, <2>3, <2>4, <2>5 DEF Handling
  <2>6. CASE pc = "pack"
    <3>1. Packing'
      BY <2>2, <2>3, <2>4, <2>6 DEF Handling, Packing
    <3> QED
      BY <2>3, <2>6, <3>1 DEF Handling
  <2> QED
    BY <2>3, <2>5, <2>6 DEF Handling
<1>6. ASSUME NEW u \in Transactions PROVE ClientDue(u)'
  <2>1. CASE u = t
    <3>1. Traced(Entry(t)', first'[t])
      BY <1>2, <1>3, FreshTraced
    <3> QED
      BY <1>1, <1>3, <2>1, <3>1 DEF Settles, ClientDue, Pending
  <2>2. CASE u # t
    <3>1. ClientDue(u) /\ Spared(u)
      BY <1>4, <2>2 DEF Exchange
    <3> QED
      BY <1>3, <3>1, SparedClient
  <2> QED
    BY <2>1, <2>2
<1>7. ASSUME NEW r \in outgoing' PROVE OutgoingDue(r)'
  <2>1. r \in outgoing /\ r.t # t /\ r.t \in Transactions
    BY <1>3 DEF One
  <2> QED
    BY <1>4, <2>1, SparedDue DEF Exchange
<1>8. ASSUME NEW r \in queries' PROVE QueryDue(r)'
  <2>1. r \in queries /\ r.t # t /\ r.t \in Transactions
    BY DEF One, Settles
  <2> QED
    BY <1>4, <2>1, SparedDue DEF Exchange
<1>9. ASSUME NEW n \in responses' PROVE AnswerDue(n)'
  <2>1. CASE n = m
    BY <1>2, <1>3, <2>1 DEF Settles, AnswerDue
  <2>2. CASE n # m
    <3>1. n \in responses /\ n.t # t /\ n.t \in Transactions
      BY <2>2 DEF One, Settles
    <3> QED
      BY <1>4, <3>1, SparedDue DEF Exchange
  <2> QED
    BY <2>1, <2>2
<1>10. Ended' /\ DOMAIN got' = Transactions
  <2>1. ~Entry(t).set
    BY <1>2 DEF Fresh
  <2>2. UNCHANGED packet /\ Ended /\ DOMAIN got = Transactions
    BY <1>3 DEF handler, Exchange
  <2>3. ASSUME NEW u \in Transactions, u = packet \/ (Known(u) /\ Entry(u).set)
        PROVE  answer'[u] = answer[u] /\ first'[u] = first[u]
    BY <1>1, <2>1, <2>3 DEF Settles
  <2> QED
    BY <1>3, <2>2, <2>3, EndedKept
<1> QED
  BY <1>5, <1>6, <1>7, <1>8, <1>9, <1>10 DEF Exchange, Handling

LEMMA SettlesInv ==
  ASSUME Inv, NEW q \in queries, NEW m, Settles(q, m)
  PROVE  Inv'
<1>1. /\ queries' = queries \ {q} /\ responses' = responses \cup {m} /\ m.t = q.t
      /\ UNCHANGED <<outgoing, requester_state, asked, todo, packet, pc>>
      /\ m.items = first'[q.t]
  BY DEF Settles, handler
<1>2. q.t \in Transactions
  BY DEF Inv, Messages
<1>3. IsMessage(first'[q.t])
  BY FirstIsMessage, RequesterAssumption DEF Settles
<1>4. \A t \in Transactions : IsMessage(first'[t])
  BY <1>3 DEF Settles, Inv, Messages
<1>5. Messages'
  BY <1>1, <1>2, <1>3, <1>4 DEF Inv, Messages
<1>6. States'
  BY <1>1 DEF Inv, States
<1> QED
  BY <1>5, <1>6 DEF Inv
-----------------------------------------------------------------------------
(***************************************************************************)
(* What follows, for queries whose ids differ on a network that duplicates *)
(* nothing, but may lose any datagram.                                     *)
(***************************************************************************)
LEMMA SpecExchange ==
  ASSUME Undisturbed
  PROVE  Spec => [](Inv /\ One /\ Exchange)
<1>1. DUPLICATES = 0
  BY DEF Undisturbed
<1>2. Init => Inv /\ One /\ Exchange
  BY InitInv, InitOne, InitExchange
<1>3. (Inv /\ One /\ Exchange) /\ [Next]_vars => (Inv /\ One /\ Exchange)'
  BY <1>1, NextInv, NextOne, NextExchange
<1> QED
  BY <1>2, <1>3, PTL DEF Spec

\* The two answers known to stop the process are the only ones that do, however
\* many queries are under way, and whatever is lost: one begun by a fragment
\* without data, in the buffer of which a later fragment hangs, and one without
\* answer records, the array of which the follow-up's response overruns.  For
\* all others no fragment is for a record the message does not have, none
\* carries a block twice, and none makes a record complete that is not.
THEOREM StopsAsKnownHolds ==
  ASSUME Undisturbed
  PROVE  Spec => []StopsAsKnown
<1>1. Exchange => StopsAsKnown
  BY DEF Exchange, Ended, StopsAsKnown
<1> QED
  BY <1>1, SpecExchange, PTL

\* Whatever the first response carries of which records, and however many
\* follow-up queries the rest takes: the client gets the server's answer.
THEOREM AnswersIntactHolds ==
  ASSUME Undisturbed
  PROVE  Spec => []AnswersIntact
<1>1. Exchange => AnswersIntact
  BY DEF Exchange, ClientDue, AnswersIntact
<1> QED
  BY <1>1, SpecExchange, PTL

\* The response to a follow-up query is larger than the UDP size by no more
\* than ten bytes for each fragment and five.
THEOREM ResponseNearlyFitsHolds ==
  ASSUME Undisturbed
  PROVE  Spec => []ResponseNearlyFits
<1>1. Exchange => ResponseNearlyFits
  BY DEF Exchange, OutgoingDue, QueryDue, Fits, ResponseNearlyFits
<1> QED
  BY <1>1, SpecExchange, PTL

\* A follow-up query asks for something: pack_section always finds a record of
\* which blocks are missing, and the first of them fits.
THEOREM FollowUpNotEmptyHolds ==
  ASSUME Undisturbed
  PROVE  Spec => []FollowUpNotEmpty
<1>1. Exchange => FollowUpNotEmpty
  BY DEF Exchange, OutgoingDue, QueryDue, Due, FollowUpNotEmpty
<1> QED
  BY <1>1, SpecExchange, PTL
-----------------------------------------------------------------------------
(***************************************************************************)
(* Clients that share an id, and datagrams that come twice.  Nothing is    *)
(* known then of what a PartialDNSMessage expects, but each slot has only  *)
(* blocks of one record, and one that is complete has all of them.         *)
(***************************************************************************)
AllOf(rr) == BlocksOf(rr, 0 .. Blocks(rr.len) - 1)

HasBlocks(slot, rr) ==
  \/ slot.block_markers = <<>> /\ slot.contents = {}
  \/ /\ slot.block_markers \in [0 .. Blocks(rr.len) - 1 -> Marker]
     /\ slot.rrsize = rr.len
     /\ slot.contents \subseteq AllOf(rr)
     /\ BlocksOf(rr, Received(slot.block_markers)) \subseteq slot.contents

SoundSlot(slot) ==
  /\ IsRecord(slot)
  /\ slot.is_complete => \E rr \in AllRecords : slot.contents = AllOf(rr)
  /\ slot.rrid # 0 => \E rr \in AllRecords : rr.rrid = slot.rrid /\ HasBlocks(slot, rr)

\* What the two ends say of a fragment fits its record.
Within(rr, from, size) ==
  FragmentOf([curidx |-> from, fragsize |-> size, rrsize |-> rr.len], rr.len)

SoundItem(x) ==
  \E rr \in AllRecords :
    \/ x = Whole(rr)
    \/ rr.rrid # 0 /\ \E from, size : x = Part(rr, from, size) /\ Within(rr, from, size)

SoundAsk(ask) ==
  \E rr \in AllRecords :
    rr.rrid # 0 /\ rr.rrid = ask.rrid /\ Within(rr, ask.curidx, ask.fragsize)

SoundAsks(asks) == \A i \in DOMAIN asks : SoundAsk(asks[i])

SoundItems(items) ==
  ContainsRRFrag(items) => \A p \in Places(items) : SoundItem(At(items, p))

SoundEntry(e) == \A p \in Places(e.slots) : SoundSlot(At(e.slots, p))

Sound ==
  /\ \A t \in Transactions : answer[t] \in Answers /\ first[t] \in FirstResponses(answer[t])
  /\ \A q \in outgoing \cup queries : SoundAsks(q.asks)
  /\ SoundAsks(asked)
  /\ \A m \in responses : SoundItems(m.items)
  /\ pc = "copy" => \A i \in DOMAIN todo : SoundItem(todo[i].item)
  /\ \A id \in DOMAIN requester_state : SoundEntry(requester_state[id])
  /\ pc = "pack" => cursize \in Nat /\ missing \subseteq Incomplete(entry)

\* An rrid stands for one record.
RridsApart == \A x, y \in AllRecords : x.rrid = y.rrid /\ x.rrid # 0 => x = y

LEMMA RecordFields ==
  ASSUME NEW rr \in AllRecords
  PROVE  rr.len \in Nat \ {0} /\ Blocks(rr.len) \in Nat \ {0}
BY RequesterAssumption, BlocksOfRecord

\* The blocks a fragment carries are some of its record's.
LEMMA PartFields ==
  ASSUME NEW rr \in AllRecords, NEW from, NEW size, Within(rr, from, size)
  PROVE  LET f == Part(rr, from, size) IN
         /\ f.isRRFrag /\ f.rr = rr /\ f.rrsize = rr.len /\ f.fragsize = size
         /\ Span(f) \subseteq 0 .. Blocks(rr.len) - 1
<1> DEFINE f == Part(rr, from, size)
           g == [curidx |-> from, fragsize |-> size, rrsize |-> rr.len]
<1>1. f.curidx = g.curidx /\ f.fragsize = g.fragsize
  BY DEF Part
<1>2. Span(f) = Span(g)
  BY <1>1 DEF Span, BlockIdx, LastBlockIdx
<1>3. FragmentOf(g, rr.len)
  BY DEF Within
<1>4. rr.len \in Nat \ {0}
  BY RecordFields
<1>5. Span(g) \subseteq 0 .. Blocks(rr.len) - 1
  <2> HIDE DEF g
  <2> QED
    BY <1>3, <1>4, SpanInRecord
<1> QED
  BY <1>2, <1>5 DEF Part

\* A fragment is copied into a slot of its record.
LEMMA FilledSound ==
  ASSUME RridsApart, NEW rr \in AllRecords, rr.rrid # 0, NEW from, NEW size,
         Within(rr, from, size), NEW slot, SoundSlot(slot), slot.rrid = rr.rrid,
         Outcome(slot, Part(rr, from, size)) = "running"
  PROVE  SoundSlot(Filled(slot, Part(rr, from, size)))
<1> DEFINE f == Part(rr, from, size)
           all == 0 .. Blocks(rr.len) - 1
           before == MarkersFor(slot, f)
           after == MarkersAfter(slot, f)
           complete == slot.is_complete \/ LastPiece(slot, f)
           contents == slot.contents \cup BlocksOf(f.rr, Span(f))
           received == NowReceived(slot, f)
           rrsize == IF Opening(slot) THEN f.rrsize ELSE slot.rrsize
           noroom == IF Opening(slot) THEN f.fragsize = 0 ELSE slot.noroom
           new == [rrid |-> slot.rrid, block_markers |-> after, blocks_received |-> received,
                   rrsize |-> rrsize, noroom |-> noroom, is_complete |-> complete,
                   contents |-> contents]
<1>1. f.rr = rr /\ f.rrsize = rr.len /\ Span(f) \subseteq all
  BY PartFields
<1>2. rr.len \in Nat \ {0} /\ all # {}
  <2> DEFINE n == Blocks(rr.len)
  <2>1. rr.len \in Nat \ {0} /\ n \in Nat \ {0}
    BY RecordFields
  <2> HIDE DEF n
  <2>2. 0 \in 0 .. n - 1
    BY <2>1
  <2> QED
    BY <2>1, <2>2 DEF n
<1>3. HasBlocks(slot, rr)
  <2>1. PICK x \in AllRecords : x.rrid = slot.rrid /\ HasBlocks(slot, x)
    BY <1>2 DEF SoundSlot
  <2>2. x = rr
    BY <1>2, <2>1 DEF RridsApart
  <2> QED
    BY <2>1, <2>2
<1> HIDE DEF f, all
<1>4. Filled(slot, f) = new
  <2>1. IsRecord(slot)
    BY DEF SoundSlot
  <2>2. Filled(slot, f) =
          [slot EXCEPT !.block_markers = after, !.blocks_received = received,
             !.rrsize = rrsize, !.noroom = noroom, !.is_complete = complete,
             !.contents = contents]
    BY DEF Filled
  <2> HIDE DEF after, received, rrsize, noroom, complete, contents
  <2> QED
    BY <2>1, <2>2 DEF IsRecord
<1>5. /\ before \in [all -> Marker] /\ rrsize = rr.len /\ slot.contents \subseteq BlocksOf(rr, all)
      /\ BlocksOf(rr, Received(before)) \subseteq slot.contents
  <2>1. CASE Opening(slot)
    <3>1. slot.contents = {}
      <4>1. CASE slot.block_markers \in [all -> Marker]
        BY <1>2, <2>1, <4>1 DEF Opening
      <4>2. CASE slot.contents = {}
        BY <4>2
      <4> QED
        BY <1>3, <4>1, <4>2 DEF HasBlocks, all
    <3>2. before = FreshMarkers(rr.len)
      BY <1>1, <2>1 DEF MarkersFor
    <3>3. before \in [all -> Marker] /\ Received(before) = {}
      BY <1>2, <3>2, FreshMarkersFree DEF all
    <3> QED
      BY <1>1, <2>1, <3>1, <3>3 DEF BlocksOf
  <2>2. CASE ~Opening(slot)
    <3>1. before = slot.block_markers /\ DOMAIN before # {}
      BY <2>2 DEF MarkersFor, Opening
    <3>2. before # <<>>
      BY <3>1
    <3> QED
      BY <1>3, <2>2, <3>1, <3>2 DEF HasBlocks, all, AllOf
  <2> QED
    BY <2>1, <2>2
<1> HIDE DEF before
<1>6. after \in [all -> Marker] /\ DOMAIN after = all /\ Received(after) = Received(before) \cup Span(f)
  <2>1. after = Mark(before, Span(f), BLOCKRECVD)
    BY DEF MarkersAfter, before
  <2> QED
    BY <1>1, <1>5, <2>1, MarkReceived
<1> HIDE DEF after, rrsize
<1>7. contents \subseteq BlocksOf(rr, all) /\ BlocksOf(rr, Received(after)) \subseteq contents
  BY <1>1, <1>5, <1>6 DEF BlocksOf
<1>8. complete => contents = BlocksOf(rr, all)
  <2>1. ~slot.is_complete /\ (LastPiece(slot, f) => Received(after) = DOMAIN after)
    BY DEF Outcome, after, f
  <2> QED
    BY <1>6, <1>7, <2>1
<1> HIDE DEF contents, complete, noroom, received
<1>9. /\ new.rrid = slot.rrid /\ new.block_markers = after /\ new.rrsize = rr.len
      /\ new.is_complete = complete /\ new.contents = contents /\ IsRecord(new)
  BY <1>5 DEF IsRecord
<1> HIDE DEF new
<1>10. HasBlocks(new, rr)
  BY <1>6, <1>7, <1>9 DEF HasBlocks, all, AllOf
<1>11. SoundSlot(new)
  BY <1>8, <1>9, <1>10 DEF SoundSlot, all, AllOf
<1> QED
  BY <1>4, <1>11 DEF f

\* A whole record is copied into one without an rrid.
LEMMA WithWholeSound ==
  ASSUME NEW rr \in AllRecords, NEW slot, SoundSlot(slot), slot.rrid = 0
  PROVE  SoundSlot(WithWhole(slot, rr))
<1> DEFINE new == WithWhole(slot, rr)
           contents == AllOf(rr)
<1>1. new = [slot EXCEPT !.rrsize = rr.len, !.is_complete = TRUE, !.contents = contents]
  BY DEF WithWhole, AllOf
<1> HIDE DEF new, contents
<1>2. IsRecord(slot)
  BY DEF SoundSlot
<1>3. new = [rrid |-> slot.rrid, block_markers |-> slot.block_markers,
             blocks_received |-> slot.blocks_received, rrsize |-> rr.len,
             noroom |-> slot.noroom, is_complete |-> TRUE, contents |-> contents]
  BY <1>1, <1>2 DEF IsRecord
<1>4. IsRecord(new) /\ new.rrid = 0 /\ new.contents = contents
  BY <1>3 DEF IsRecord
<1> QED
  BY <1>4 DEF SoundSlot, contents, new

\* Blocks of a slot are marked as asked for, be they free or not; what is asked
\* for is a fragment of the slot's record.
LEMMA MarkedSound ==
  ASSUME NEW slot, SoundSlot(slot), slot.rrid # 0, Free(slot.block_markers) # {},
         NEW canfit \in Nat
  PROVE  LET markers == slot.block_markers
             f == AskedFragment(markers, slot.rrsize, canfit)
         IN  /\ \A span : SoundSlot([slot EXCEPT !.block_markers = Mark(markers, span, BLOCKWAITING)])
             /\ SoundAsk([rrid |-> slot.rrid, curidx |-> f.curidx, fragsize |-> f.fragsize])
             /\ slot.rrsize \in Nat \ {0} /\ AskedBlocks(markers, canfit) \in Nat
<1> DEFINE markers == slot.block_markers
           f == AskedFragment(markers, slot.rrsize, canfit)
<1>1. PICK rr \in AllRecords : rr.rrid = slot.rrid /\ HasBlocks(slot, rr)
  BY DEF SoundSlot
<1> DEFINE all == 0 .. Blocks(rr.len) - 1
<1>2. markers # <<>>
  <2>1. Free(<<>>) = {}
    BY DEF Free
  <2> QED
    BY <2>1
<1>3. /\ markers \in [all -> Marker] /\ slot.rrsize = rr.len
      /\ slot.contents \subseteq AllOf(rr) /\ BlocksOf(rr, Received(markers)) \subseteq slot.contents
  BY <1>1, <1>2 DEF HasBlocks
<1>4. rr.len \in Nat \ {0} /\ Blocks(rr.len) \in Nat
  BY RecordFields
<1> HIDE DEF markers
<1>5. FragmentOf(f, rr.len) /\ FirstFree(markers) \in all
      /\ AskedBlocks(markers, canfit) \in 0 .. Blocks(rr.len) - FirstFree(markers)
  <2> DEFINE n == rr.len
  <2>1. n \in Nat \ {0} /\ markers \in [0 .. Blocks(n) - 1 -> Marker] /\ Free(markers) # {}
    BY <1>3, <1>4 DEF markers
  <2> HIDE DEF n
  <2>2. /\ FragmentOf(AskedFragment(markers, n, canfit), n)
        /\ FirstFree(markers) \in 0 .. Blocks(n) - 1
        /\ AskedBlocks(markers, canfit) \in 0 .. Blocks(n) - FirstFree(markers)
    BY <2>1, AskedIsFragment
  <2> QED
    BY <1>3, <2>2 DEF n
<1>6. SoundAsk([rrid |-> slot.rrid, curidx |-> f.curidx, fragsize |-> f.fragsize])
  <2>1. f = [curidx |-> f.curidx, fragsize |-> f.fragsize, rrsize |-> rr.len]
    BY <1>3 DEF AskedFragment
  <2> HIDE DEF f
  <2>2. Within(rr, f.curidx, f.fragsize)
    BY <1>5, <2>1 DEF Within
  <2> QED
    BY <1>1, <2>2 DEF SoundAsk
<1>7. ASSUME NEW span
      PROVE  SoundSlot([slot EXCEPT !.block_markers = Mark(markers, span, BLOCKWAITING)])
  <2> DEFINE marked == Mark(markers, span, BLOCKWAITING)
             new == [slot EXCEPT !.block_markers = marked]
  <2>1. marked \in [all -> Marker] /\ Received(marked) \subseteq Received(markers)
    BY <1>3 DEF Mark, Received, Marker, BLOCKRECVD, BLOCKWAITING
  <2> HIDE DEF marked
  <2>2. new = [rrid |-> slot.rrid, block_markers |-> marked,
               blocks_received |-> slot.blocks_received, rrsize |-> slot.rrsize,
               noroom |-> slot.noroom, is_complete |-> slot.is_complete,
               contents |-> slot.contents]
    BY DEF SoundSlot, IsRecord
  <2> HIDE DEF new
  <2>3. /\ IsRecord(new) /\ new.rrid = slot.rrid /\ new.block_markers = marked
        /\ new.rrsize = rr.len /\ new.is_complete = slot.is_complete
        /\ new.contents = slot.contents
    BY <1>3, <2>2 DEF IsRecord
  <2>4. BlocksOf(rr, Received(marked)) \subseteq new.contents
    BY <1>3, <2>1, <2>3 DEF BlocksOf
  <2>5. HasBlocks(new, rr)
    BY <1>3, <2>1, <2>3, <2>4 DEF HasBlocks
  <2>6. new.is_complete => \E x \in AllRecords : new.contents = AllOf(x)
    BY <2>3 DEF SoundSlot
  <2>7. SoundSlot(new)
    BY <1>1, <2>3, <2>5, <2>6 DEF SoundSlot
  <2> QED
    BY <2>7 DEF new, marked
<1>8. AskedBlocks(markers, canfit) \in Nat
  BY <1>4, <1>5
<1> QED
  BY <1>3, <1>4, <1>6, <1>7, <1>8 DEF markers

\* A slot for a record is one whose record is to come.
LEMMA NewSound ==
  ASSUME NEW x, SoundItem(x)
  PROVE  SoundSlot(NewSlot(x))
<1> DEFINE slot == NewSlot(x)
<1>1. PICK rr \in AllRecords :
        x = Whole(rr) \/ \E from, size : x = Part(rr, from, size) /\ Within(rr, from, size)
  BY DEF SoundItem
<1>2. x.rr = rr
  BY <1>1 DEF Whole, Part
<1>3. /\ IsRecord(slot) /\ slot.is_complete = FALSE /\ slot.block_markers = <<>>
      /\ slot.contents = {} /\ slot.rrid \in {0, rr.rrid}
  BY <1>2 DEF NewSlot, IsRecord
<1> HIDE DEF slot
<1>4. HasBlocks(slot, rr)
  BY <1>3 DEF HasBlocks
<1> QED
  BY <1>3, <1>4 DEF SoundSlot, slot

LEMMA OpenedSound ==
  ASSUME NEW e, Counted(e), SoundEntry(e), NEW items,
         \A p \in Places(items) : SoundItem(At(items, p))
  PROVE  SoundEntry(Opened(e, items))
<1> DEFINE new == Opened(e, items)
<1>1. CASE e.set
  BY <1>1 DEF Opened
<1>2. CASE ~e.set
  <2>1. new.slots = [s \in Sections |-> [i \in DOMAIN items[s] |-> NewSlot(items[s][i])]]
    BY <1>2 DEF Opened, Counted
  <2>2. Places(new.slots) = Places(items)
    BY <2>1 DEF Places
  <2>3. \A p \in Places(items) : At(new.slots, p) = NewSlot(At(items, p))
    BY <2>1 DEF At, Places
  <2> HIDE DEF new
  <2> QED
    BY <2>2, <2>3, NewSound DEF SoundEntry, new
<1> QED
  BY <1>1, <1>2

\* A message whose complete records are whole, as CompleteIsWhole states it.
LEMMA SoundWhole ==
  ASSUME NEW slot, SoundSlot(slot), slot.is_complete
  PROVE  Reassembled(slot).rr # GARBLED
<1>1. PICK rr \in AllRecords : slot.contents = AllOf(rr)
  BY DEF SoundSlot
<1> DEFINE exact == {x \in {c[1] : c \in slot.contents} : slot.contents = AllOf(x)}
<1>2. <<rr, 0>> \in slot.contents
  <2>1. 0 \in 0 .. Blocks(rr.len) - 1
    BY RecordFields
  <2> QED
    BY <1>1, <2>1 DEF AllOf, BlocksOf
<1>3. rr \in exact
  <2>1. rr \in {c[1] : c \in slot.contents}
    <3>1. <<rr, 0>>[1] = rr
      OBVIOUS
    <3> QED
      BY <1>2, <3>1
  <2> QED
    BY <1>1, <2>1
<1>4. \A x \in exact : x = rr
  <2>1. \A c \in slot.contents : c[1] = rr
    BY <1>1 DEF AllOf, BlocksOf
  <2> QED
    BY <2>1
<1>5. Reassembled(slot) = Whole(IF exact = {} THEN GARBLED ELSE CHOOSE x \in exact : TRUE)
  BY DEF Reassembled, AllOf
<1> HIDE DEF exact
<1>6. Reassembled(slot) = Whole(rr)
  BY <1>3, <1>4, <1>5
<1>7. rr # GARBLED
  <2>1. rr.len # 0
    BY RecordFields
  <2> QED
    BY <2>1 DEF GARBLED
<1> QED
  BY <1>6, <1>7 DEF Whole
-----------------------------------------------------------------------------
\* Steps of the network and the clients, and those that begin a transaction or
\* end it, which the daemon takes between two responses.
LEMMA NetworkSound ==
  ASSUME Sound, UNCHANGED <<answer, first, handler>>,
         \/ requester_state' = requester_state
         \/ /\ pc = "idle"
            /\ \A id \in DOMAIN requester_state' : SoundEntry(requester_state'[id]),
         \A q \in outgoing' \cup queries' : SoundAsks(q.asks),
         \A m \in responses' : SoundItems(m.items)
  PROVE  Sound'
<1>1. pc' = "copy" => \A i \in DOMAIN todo' : SoundItem(todo'[i].item)
  BY DEF Sound, handler
<1>2. pc' = "pack" => cursize' \in Nat /\ missing' \subseteq Incomplete(entry')
  BY DEF Sound, handler, entry
<1>3. SoundAsks(asked')
  BY DEF Sound, handler
<1>4. \A id \in DOMAIN requester_state' : SoundEntry(requester_state'[id])
  BY DEF Sound
<1> QED
  BY <1>1, <1>2, <1>3, <1>4 DEF Sound

LEMMA EmptySound ==
  /\ SoundAsks(<<>>) /\ SoundEntry(Fresh) /\ DOMAIN <<>> = {}
<1>1. DOMAIN <<>> = {}
  OBVIOUS
<1>2. Places(Fresh.slots) = {}
  BY <1>1 DEF Fresh, Empty, Places
<1> QED
  BY <1>1, <1>2 DEF SoundAsks, SoundEntry

LEMMA InitSound == Init => Sound
<1> SUFFICES ASSUME Init PROVE Sound
  OBVIOUS
<1>1. \A t \in Transactions : answer[t] \in Answers /\ first[t] \in FirstResponses(answer[t])
  BY DEF Init
<1>2. asked = <<>> /\ requester_state = <<>> /\ pc = "idle"
      /\ outgoing = {} /\ queries = {} /\ responses = {}
  BY DEF Init
<1> QED
  BY <1>1, <1>2, EmptySound DEF Sound

\* The first response to a query has records of the answer or their beginnings.
LEMMA FirstSound ==
  ASSUME NEW A \in Answers, NEW items \in FirstResponses(A)
  PROVE  SoundItems(items)
<1> SUFFICES ASSUME NEW p \in Places(items) PROVE SoundItem(At(items, p))
  BY DEF SoundItems
<1> DEFINE rr == At(A, p)
           x == At(items, p)
<1>1. p \in Places(A) /\ Begins(x, rr)
  BY FirstFields, LaidOutFields
<1>2. rr \in AllRecords
  BY <1>1, AnswerFields
<1> HIDE DEF x, rr
<1>3. ASSUME NEW k \in FIRSTBLOCKS, k * BLOCKSIZE < rr.len
      PROVE  Within(rr, 0, k * BLOCKSIZE)
  <2>1. rr.len \in Nat /\ k \in Nat
    BY <1>2, RecordFields, RequesterAssumption
  <2> QED
    BY <1>3, <2>1 DEF Within, FragmentOf, Fragment, BLOCKSIZE
<1>4. SoundItem(x)
  BY <1>1, <1>2, <1>3 DEF Begins, SoundItem
<1> QED
  BY <1>4 DEF x

\* A follow-up query is answered with the fragments it asks for.
LEMMA FurtherSound ==
  ASSUME RridsApart, NEW asks, IsList(asks), SoundAsks(asks)
  PROVE  SoundItems(Further(asks))
<1> DEFINE items == Further(asks)
<1> SUFFICES ASSUME NEW p \in Places(items) PROVE SoundItem(At(items, p))
  BY DEF SoundItems
<1>1. items[0] = Served(asks) /\ items[1] = <<>> /\ items[2] = <<>>
  BY FurtherFields
<1>2. PICK s \in Sections : p \in {s} \X DOMAIN items[s]
  BY DEF Places
<1>3. p[1] = s /\ p[2] \in DOMAIN items[s] /\ At(items, p) = items[s][p[2]]
  BY <1>2 DEF At
<1>4. s = 0
  BY <1>1, <1>3, EmptySound DEF Sections
<1> DEFINE i == p[2]
<1>5. i \in DOMAIN asks /\ At(items, p) = Part(Stored(asks[i].rrid), asks[i].curidx, asks[i].fragsize)
  BY <1>1, <1>3, <1>4 DEF Served
<1>6. PICK rr \in AllRecords :
        rr.rrid # 0 /\ rr.rrid = asks[i].rrid /\ Within(rr, asks[i].curidx, asks[i].fragsize)
  BY <1>5 DEF SoundAsks, SoundAsk
<1>7. Stored(asks[i].rrid) = rr
  BY <1>6 DEF Stored, RridsApart
<1> QED
  BY <1>5, <1>6, <1>7 DEF SoundItem

LEMMA AskSound ==
  ASSUME Sound, NEW t \in Transactions, Ask(t)
  PROVE  Sound'
<1>1. PICK q : q.asks = <<>> /\ outgoing' = outgoing \cup {q}
  BY DEF Ask, Query
<1>2. UNCHANGED <<answer, first, queries, responses, requester_state, handler>>
  BY DEF Ask
<1>3. \A r \in outgoing' \cup queries' : SoundAsks(r.asks)
  BY <1>1, <1>2, EmptySound DEF Sound
<1>4. \A m \in responses' : SoundItems(m.items)
  BY <1>2 DEF Sound
<1> QED
  BY <1>2, <1>3, <1>4, NetworkSound

\* Steps that only take packets from a queue.
LEMMA OthersSound ==
  ASSUME Sound, outgoing' \subseteq outgoing, queries' \subseteq outgoing \cup queries,
         responses' \subseteq responses, UNCHANGED <<answer, first, requester_state, handler>>
  PROVE  Sound'
<1>1. \A q \in outgoing' \cup queries' : SoundAsks(q.asks)
  BY DEF Sound
<1>2. \A m \in responses' : SoundItems(m.items)
  BY DEF Sound
<1> QED
  BY <1>1, <1>2, NetworkSound

LEMMA RegisterSound ==
  ASSUME Sound, NEW q \in outgoing, Register(q)
  PROVE  Sound'
<1>1. \A x \in DOMAIN requester_state' :
        \/ requester_state'[x] = Fresh
        \/ x \in DOMAIN requester_state /\ requester_state'[x] = requester_state[x]
  BY DEF Register
<1>2. \A x \in DOMAIN requester_state' : SoundEntry(requester_state'[x])
  BY <1>1, EmptySound DEF Sound
<1>3. /\ pc = "idle" /\ UNCHANGED <<answer, first, handler>>
      /\ \A r \in outgoing' \cup queries' : SoundAsks(r.asks)
      /\ \A m \in responses' : SoundItems(m.items)
  BY DEF Register, Sound, clients
<1> QED
  BY <1>2, <1>3, NetworkSound

LEMMA AcceptSound ==
  ASSUME Sound, NEW m \in responses, Accept(m)
  PROVE  Sound'
<1>1. \A x \in DOMAIN requester_state' :
        x \in DOMAIN requester_state /\ requester_state'[x] = requester_state[x]
  BY DEF Accept, Restrict
<1>2. \A x \in DOMAIN requester_state' : SoundEntry(requester_state'[x])
  BY <1>1 DEF Sound
<1>3. /\ pc = "idle" /\ UNCHANGED <<answer, first, handler>>
      /\ \A r \in outgoing' \cup queries' : SoundAsks(r.asks)
      /\ \A n \in responses' : SoundItems(n.items)
  BY DEF Accept, Sound, Taken
<1> QED
  BY <1>2, <1>3, NetworkSound

LEMMA RespondSound ==
  ASSUME RridsApart, Inv, Sound, NEW q \in queries, Respond(q)
  PROVE  Sound'
<1> DEFINE items == IF ~q.followup THEN first[q.t] ELSE Further(q.asks)
           m == Response(q.t, items)
<1>1. responses' = responses \cup {m} /\ queries' \subseteq queries
      /\ UNCHANGED <<answer, first, outgoing, requester_state, handler>>
  BY DEF Respond, Taken, Further, clients
<1>2. SoundItems(items)
  <2>1. q.t \in Transactions /\ IsList(q.asks) /\ SoundAsks(q.asks)
    BY DEF Inv, Messages, Sound
  <2>2. SoundItems(first[q.t])
    <3>1. answer[q.t] \in Answers /\ first[q.t] \in FirstResponses(answer[q.t])
      BY <2>1 DEF Sound
    <3> QED
      BY ONLY <3>1, FirstSound
  <2>3. SoundItems(Further(q.asks))
    BY <2>1, FurtherSound
  <2> QED
    BY <2>2, <2>3
<1>3. m.items = items
  BY DEF Response
<1> HIDE DEF m, items
<1>4. \A n \in responses' : SoundItems(n.items)
  BY <1>1, <1>2, <1>3 DEF Sound
<1>5. \A r \in outgoing' \cup queries' : SoundAsks(r.asks)
  BY <1>1 DEF Sound
<1> QED
  BY <1>1, <1>4, <1>5, NetworkSound
-----------------------------------------------------------------------------
\* Steps of the handler: they change no PartialDNSMessage but one, and nothing
\* on the network that says something new.
LEMMA HandlerSound ==
  ASSUME Sound, NEW id, NEW e, SoundEntry(e),
         requester_state' = [requester_state EXCEPT ![id] = e],
         UNCHANGED <<answer, first, outgoing, queries>>, responses' \subseteq responses,
         SoundAsks(asked'),
         pc' = "copy" => \A i \in DOMAIN todo' : SoundItem(todo'[i].item),
         pc' = "pack" => cursize' \in Nat /\ missing' \subseteq Incomplete(entry')
  PROVE  Sound'
<1>1. \A x \in DOMAIN requester_state' :
        x \in DOMAIN requester_state /\
        (requester_state'[x] = e \/ requester_state'[x] = requester_state[x])
  OBVIOUS
<1>2. \A x \in DOMAIN requester_state' : SoundEntry(requester_state'[x])
  BY <1>1 DEF Sound
<1>3. /\ \A q \in outgoing' \cup queries' : SoundAsks(q.asks)
      /\ \A m \in responses' : SoundItems(m.items)
  BY DEF Sound
<1> QED
  BY <1>2, <1>3 DEF Sound

LEMMA ReceiveSound ==
  ASSUME Inv, Sound, NEW m \in responses, Receive(m)
  PROVE  Sound'
<1> DEFINE id == ID[m.t]
           e == requester_state[id]
           new == Opened(e, m.items)
           list == Items(m.items)
<1>1. /\ responses' \subseteq responses /\ id \in DOMAIN requester_state
      /\ ContainsRRFrag(m.items)
      /\ UNCHANGED <<answer, first, outgoing, queries, missing, cursize, asked>>
  BY DEF Receive, Taken, Awaited, clients
<1>2. CASE UNCHANGED <<requester_state, packet, todo, pc>>
  BY <1>1, <1>2, OthersSound DEF handler
<1>3. CASE /\ requester_state' = [requester_state EXCEPT ![id] = new]
           /\ todo' = list /\ pc' = "copy"
  <2>1. IsMessage(m.items) /\ Counted(e)
    BY <1>1 DEF Inv, Messages, States
  <2>2. SoundEntry(e) /\ \A p \in Places(m.items) : SoundItem(At(m.items, p))
    BY <1>1 DEF Sound, SoundItems
  <2>3. SoundEntry(new)
    BY <2>1, <2>2, OpenedSound
  <2>4. \A i \in DOMAIN list : SoundItem(list[i].item)
    <3>1. PICK P : AsPlaced(list, P, m.items)
      BY <2>1, ItemsPlaced
    <3> HIDE DEF list
    <3>2. \A i \in DOMAIN list : P[i] \in Places(m.items) /\ list[i].item = At(m.items, P[i])
      BY <3>1 DEF AsPlaced
    <3> QED
      BY <2>2, <3>2
  <2> HIDE DEF new, list, id
  <2>5. SoundAsks(asked')
    BY <1>1 DEF Sound
  <2> QED
    BY <1>1, <1>3, <2>3, <2>4, <2>5, HandlerSound
<1> QED
  BY <1>2, <1>3 DEF Receive

\* One record is copied.
LEMMA CopySound ==
  ASSUME Inv, Sound, pc = "copy", todo # <<>>, NEW e, SoundEntry(e), SetEntry(e),
         todo' = Tail(todo), UNCHANGED <<clients, network, packet, asked, pc>>
  PROVE  Sound'
<1> DEFINE rest == Tail(todo)
<1>1. \A i \in DOMAIN rest : SoundItem(rest[i].item)
  <2>1. IsList(todo) /\ \A i \in DOMAIN todo : SoundItem(todo[i].item)
    BY DEF Inv, Messages, Sound
  <2>2. \A x \in Range(todo) : SoundItem(x.item)
    BY <2>1 DEF Range
  <2>3. rest \in Seq(Range(todo))
    BY <2>1, HeadTailProperties DEF IsList
  <2>4. \A i \in DOMAIN rest : rest[i] \in Range(todo)
    BY <2>3, LenProperties
  <2> QED
    BY <2>2, <2>4
<1> HIDE DEF rest
<1>2. /\ todo' = rest /\ pc' = "copy" /\ UNCHANGED <<answer, first, outgoing, queries>>
      /\ responses' \subseteq responses /\ SoundAsks(asked')
      /\ requester_state' = [requester_state EXCEPT ![ID[packet]] = e]
  BY DEF rest, clients, network, SetEntry, Sound
<1> QED
  BY <1>1, <1>2, HandlerSound

\* The slots of a message whose slot at p is replaced.
LEMMA ReplacedSound ==
  ASSUME NEW e, Counted(e), SoundEntry(e), NEW p \in Places(e.slots), NEW slot,
         SoundSlot(slot), NEW new, Replaced(new, e, p, slot)
  PROVE  SoundEntry(new)
<1>1. Places(new.slots) = Places(e.slots)
  <2>1. \A s \in Sections : DOMAIN new.slots[s] = DOMAIN e.slots[s]
    BY AtReplaced
  <2> QED
    BY <2>1 DEF Places
<1>2. \A q \in Places(e.slots) : q = p \/ At(new.slots, q) = At(e.slots, q)
  BY AtReplaced
<1>3. At(new.slots, p) = slot
  BY AtReplaced
<1> QED
  BY <1>1, <1>2, <1>3 DEF SoundEntry

LEMMA PutReplaced ==
  ASSUME NEW e, Counted(e), NEW p, NEW slot, NEW completed \in BOOLEAN
  PROVE  Replaced(Put(e, p, slot, completed), e, p, slot)
<1> DEFINE new == Put(e, p, slot, completed)
           slots == [e.slots EXCEPT ![p[1]][p[2]] = slot]
           done == [e.done EXCEPT ![p[1]] = IF completed THEN e.done[p[1]] + 1
                                            ELSE e.done[p[1]]]
<1>1. new = [set |-> e.set, count |-> e.count, slots |-> slots, done |-> done]
  BY PutFields
<1> HIDE DEF slots, done, new
<1>2. new.set = e.set /\ new.slots = slots
  BY <1>1
<1> QED
  BY <1>2 DEF Replaced, slots, new

\* What is known when a record is copied.
LEMMA Copying ==
  ASSUME Inv, Sound, pc = "copy", todo # <<>>
  PROVE  /\ Counted(entry) /\ SoundEntry(entry)
         /\ SoundItem(Head(todo).item) /\ Head(todo).section \in Sections
         /\ ID[packet] \in DOMAIN requester_state
<1>1. IsList(todo) /\ ID[packet] \in DOMAIN requester_state /\ Counted(entry)
  BY DEF Inv, Messages, States, entry
<1>2. 1 \in DOMAIN todo /\ Head(todo) = todo[1]
  BY <1>1, EmptySeq, ListLength DEF IsList
<1> QED
  BY <1>1, <1>2 DEF Sound, Inv, Messages, entry

\* A place of those found is a place of the message.
LEMMA FirstPlace ==
  ASSUME NEW e, Counted(e), NEW found, found # {}, found \subseteq Places(e.slots)
  PROVE  First(found) \in found /\ First(found) \in Places(e.slots)
<1>1. found \in SUBSET (Sections \X Nat)
  BY PlacesOfSlots
<1> QED
  BY <1>1, FirstIsOne

LEMMA CopyRRFragSound ==
  ASSUME RridsApart, Inv, Sound, CopyRRFrag
  PROVE  Sound'
<1> DEFINE f == Head(todo).item
           found == Matching(entry, f.rr.rrid)
           p == First(found)
           slot == At(entry.slots, p)
           new == Filled(slot, f)
           completed == LastPiece(slot, f)
<1>1. pc = "copy" /\ todo # <<>> /\ f.isRRFrag
      /\ UNCHANGED <<clients, network, packet, missing, cursize, asked, pc>>
  BY Zenon DEF CopyRRFrag
<1>2. CASE UNCHANGED <<requester_state, todo>>
  BY <1>1, <1>2, OthersSound DEF clients, network, handler
<1>3. CASE /\ found # {} /\ Outcome(slot, f) = "running" /\ todo' = Tail(todo)
           /\ SetEntry(Put(entry, p, new, completed))
  <2>1. Counted(entry) /\ SoundEntry(entry) /\ SoundItem(f)
    BY <1>1, Copying
  <2>2. p \in found /\ p \in Places(entry.slots)
    <3>1. found \subseteq Places(entry.slots)
      BY DEF Matching
    <3> HIDE DEF found
    <3> QED
      BY <1>3, <2>1, <3>1, FirstPlace
  <2> HIDE DEF p, f
  <2>3. slot.rrid = f.rr.rrid
    BY <2>2 DEF Matching, At
  <2> HIDE DEF found
  <2>4. SoundSlot(slot)
    BY <2>1, <2>2 DEF SoundEntry
  <2> HIDE DEF slot
  <2>0. PICK rr \in AllRecords :
          rr.rrid # 0 /\ \E from, size : f = Part(rr, from, size) /\ Within(rr, from, size)
    BY <1>1, <2>1 DEF SoundItem, Whole, f
  <2>5. PICK from, size : f = Part(rr, from, size) /\ Within(rr, from, size)
    BY <2>0
  <2>6. f.rr = rr
    BY <2>5 DEF Part
  <2>7. SoundSlot(Filled(slot, Part(rr, from, size)))
    BY <1>3, <2>0, <2>3, <2>4, <2>5, <2>6, FilledSound
  <2>8. SoundSlot(new)
    BY <2>5, <2>7
  <2>9. completed \in BOOLEAN
    BY DEF LastPiece
  <2> HIDE DEF new, completed
  <2> DEFINE e == Put(entry, p, new, completed)
  <2>10. Replaced(e, entry, p, new)
    BY <2>1, <2>9, PutReplaced
  <2>11. SetEntry(e)
    BY <1>3
  <2> HIDE DEF e
  <2>12. SoundEntry(e)
    BY <2>1, <2>2, <2>8, <2>10, ReplacedSound
  <2> QED
    BY <1>1, <1>3, <2>11, <2>12, CopySound
<1>4. \/ UNCHANGED <<requester_state, todo>>
      \/ /\ found # {} /\ Outcome(slot, f) = "running" /\ todo' = Tail(todo)
         /\ SetEntry(Put(entry, p, new, completed))
  <2> DEFINE copied == entry.slots[p[1]][p[2]]
  <2>1. \/ UNCHANGED <<requester_state, todo>>
        \/ /\ found # {} /\ Outcome(copied, f) = "running" /\ todo' = Tail(todo)
           /\ SetEntry(Put(entry, p, Filled(copied, f), LastPiece(copied, f)))
    BY Zenon DEF CopyRRFrag
  <2>2. copied = slot
    BY DEF At
  <2> HIDE DEF copied, slot, p, found, f
  <2> QED
    BY <2>1, <2>2
<1> QED
  BY <1>2, <1>3, <1>4

LEMMA CopyRRSound ==
  ASSUME Inv, Sound, CopyRR
  PROVE  Sound'
<1> DEFINE next == Head(todo)
           free == Unfilled(entry, next.section)
           p == First(free)
           slot == At(entry.slots, p)
           new == WithWhole(slot, next.item.rr)
<1>1. pc = "copy" /\ todo # <<>> /\ ~next.item.isRRFrag /\ todo' = Tail(todo)
      /\ UNCHANGED <<clients, network, packet, missing, cursize, asked, pc, status>>
  BY DEF CopyRR
<1>2. /\ Counted(entry) /\ SoundEntry(entry) /\ SoundItem(next.item)
      /\ next.section \in Sections /\ ID[packet] \in DOMAIN requester_state
  BY <1>1, Copying
<1>3. CASE UNCHANGED requester_state
  <2>1. SetEntry(entry)
    BY <1>2, <1>3 DEF SetEntry, entry, Inv, States
  <2> QED
    BY <1>1, <1>2, <2>1, CopySound
<1>4. CASE free # {} /\ SetEntry(Put(entry, p, new, TRUE))
  <2>1. p \in free /\ p \in Places(entry.slots)
    <3>1. free \subseteq Places(entry.slots)
      BY <1>2 DEF Unfilled, Places
    <3> HIDE DEF free
    <3> QED
      BY <1>2, <1>4, <3>1, FirstPlace
  <2> HIDE DEF p, next
  <2>2. slot.rrid = 0
    BY <2>1 DEF Unfilled, At
  <2> HIDE DEF free
  <2>3. SoundSlot(slot)
    BY <1>2, <2>1 DEF SoundEntry
  <2> HIDE DEF slot
  <2>4. PICK rr \in AllRecords : next.item = Whole(rr)
    <3>1. \A rr, from, size : Part(rr, from, size).isRRFrag
      BY DEF Part
    <3> QED
      BY <1>1, <1>2, <3>1 DEF SoundItem
  <2>5. next.item.rr = rr
    BY <2>4 DEF Whole
  <2>6. SoundSlot(new)
    BY <2>2, <2>3, <2>5, WithWholeSound
  <2> HIDE DEF new
  <2> DEFINE e == Put(entry, p, new, TRUE)
  <2>7. Replaced(e, entry, p, new)
    BY <1>2, PutReplaced
  <2>8. SetEntry(e)
    BY <1>4
  <2> HIDE DEF e
  <2>9. SoundEntry(e)
    BY <1>2, <2>1, <2>6, <2>7, ReplacedSound
  <2> QED
    BY <1>1, <2>8, <2>9, CopySound
<1>5. UNCHANGED requester_state \/ (free # {} /\ SetEntry(Put(entry, p, new, TRUE)))
  BY DEF CopyRR, At
<1> QED
  BY <1>3, <1>4, <1>5
-----------------------------------------------------------------------------
\* Between the last record copied and the next response.
LEMMA CompleteSound ==
  ASSUME Inv, Sound, Complete
  PROVE  Sound'
<1> DEFINE items == partial_to_dnsmessage(entry)
           m == Response(packet, items)
<1>1. /\ responses' = responses \cup {m} /\ pc' = "idle"
      /\ UNCHANGED <<answer, first, outgoing, queries, requester_state, asked>>
  BY DEF Complete, clients
<1>2. ~ContainsRRFrag(items)
  <2>1. \A s \in Sections : \A i \in DOMAIN items[s] : ~items[s][i].isRRFrag
    BY DEF partial_to_dnsmessage, Reassembled, Whole
  <2> HIDE DEF items
  <2> QED
    BY <2>1 DEF ContainsRRFrag, Places
<1>3. m.items = items
  BY DEF Response
<1> HIDE DEF m, items
<1>4. \A n \in responses' : SoundItems(n.items)
  BY <1>1, <1>2, <1>3 DEF Sound, SoundItems
<1> QED
  BY <1>1, <1>4 DEF Sound

LEMMA StartPackingSound ==
  ASSUME Inv, Sound, StartPacking
  PROVE  Sound'
<1>1. /\ pc' = "pack" /\ missing' = Incomplete(entry) /\ cursize' = DNSMESSAGEHEADER
      /\ asked' = <<>> /\ UNCHANGED <<answer, first, outgoing, queries, responses,
                                      requester_state, packet>>
  BY DEF StartPacking, clients, network
<1>2. entry' = entry /\ cursize' \in Nat /\ SoundAsks(asked')
  BY <1>1, EmptySound DEF entry, DNSMESSAGEHEADER
<1> QED
  BY <1>1, <1>2 DEF Sound

LEMMA SendFollowUpSound ==
  ASSUME Inv, Sound, SendFollowUp
  PROVE  Sound'
<1>1. /\ pc' = "idle" /\ asked' = <<>>
      /\ UNCHANGED <<answer, first, queries, responses, requester_state>>
  BY DEF SendFollowUp, clients
<1>2. PICK q : q.asks = asked /\ outgoing' = outgoing \cup {q}
  BY DEF SendFollowUp, Query
<1>3. \A r \in outgoing' \cup queries' : SoundAsks(r.asks)
  BY <1>1, <1>2 DEF Sound
<1> QED
  BY <1>1, <1>3, EmptySound DEF Sound

\* The record that is packed in place of p has the rrid of the one at p.
LEMMA NamedLikePlace ==
  ASSUME Counted(entry), NEW p \in Places(entry.slots)
  PROVE  LET q == NamedLike(p) IN
         /\ q \in Places(entry.slots)
         /\ At(entry.slots, q).rrid = At(entry.slots, p).rrid
<1> DEFINE s == p[1]
           list == entry.slots[s]
           alike == {i \in DOMAIN list : list[i].rrid = list[p[2]].rrid}
           named(i) == /\ list[i].rrid = list[p[2]].rrid
                       /\ \A k \in 1 .. i - 1 : list[k].rrid # list[p[2]].rrid
           i == CHOOSE j \in DOMAIN list : named(j)
<1>1. s \in Sections /\ p[2] \in DOMAIN list
  BY PlacesOfSlots
<1>2. DOMAIN list = 1 .. Len(list) /\ Len(list) \in Nat
  BY <1>1, ListLength DEF Counted
<1> HIDE DEF s, list
<1>3. alike \in SUBSET Nat /\ alike # {}
  BY <1>1, <1>2
<1>4. PICK j \in alike : \A k \in alike : j <= k
  <2> HIDE DEF alike
  <2> QED
    BY <1>3, LeastElement
<1>5. j \in DOMAIN list /\ named(j)
  <2>1. \A k \in 1 .. j - 1 : k \in DOMAIN list /\ ~(j <= k)
    BY <1>2, <1>4
  <2> QED
    BY <1>4, <2>1
<1>6. i \in DOMAIN list /\ list[i].rrid = list[p[2]].rrid
  <2>1. i \in DOMAIN list /\ named(i)
    <3> HIDE DEF named
    <3> QED
      BY <1>5
  <2> QED
    BY <2>1
<1>7. NamedLike(p) = <<s, i>>
  BY DEF NamedLike, list, s
<1> HIDE DEF i
<1>8. <<s, i>> \in Places(entry.slots)
  BY <1>1, <1>6 DEF Places, list
<1>9. At(entry.slots, <<s, i>>) = list[i] /\ At(entry.slots, p) = list[p[2]]
  BY DEF At, list, s
<1> QED
  BY <1>6, <1>7, <1>8, <1>9

\* The message when blocks of one of its records are marked.
LEMMA MarkedReplaced ==
  ASSUME NEW e, Counted(e), NEW p \in Places(e.slots), NEW markers
  PROVE  Replaced([e EXCEPT !.slots[p[1]][p[2]].block_markers = markers], e, p,
                  [At(e.slots, p) EXCEPT !.block_markers = markers])
<1> DEFINE new == [e EXCEPT !.slots[p[1]][p[2]].block_markers = markers]
<1>1. e = [set |-> e.set, count |-> e.count, slots |-> e.slots, done |-> e.done]
  BY DEF Counted
<1>2. /\ new.set = e.set
      /\ new.slots = [e.slots EXCEPT ![p[1]][p[2]] =
                        [e.slots[p[1]][p[2]] EXCEPT !.block_markers = markers]]
  BY <1>1
<1> QED
  BY <1>2 DEF Replaced, At

\* It lacks the same records.
LEMMA StillIncomplete ==
  ASSUME NEW e, Counted(e), NEW p \in Places(e.slots), NEW slot, NEW new,
         Replaced(new, e, p, slot), slot.rrid = At(e.slots, p).rrid,
         slot.is_complete = At(e.slots, p).is_complete
  PROVE  Incomplete(new) = Incomplete(e)
<1>0. /\ \A s \in Sections : DOMAIN new.slots[s] = DOMAIN e.slots[s]
      /\ At(new.slots, p) = slot
      /\ \A q \in Places(e.slots) : q # p => At(new.slots, q) = At(e.slots, q)
  BY AtReplaced
<1>1. Places(new.slots) = Places(e.slots)
  BY <1>0 DEF Places
<1>2. \A q \in Places(e.slots) :
        /\ At(new.slots, q).rrid = At(e.slots, q).rrid
        /\ At(new.slots, q).is_complete = At(e.slots, q).is_complete
  BY <1>0
<1>3. \A x : Incomplete(x) = {q \in Places(x.slots) :
                                ~At(x.slots, q).is_complete /\ At(x.slots, q).rrid # 0}
  BY DEF Incomplete, At
<1> QED
  BY <1>1, <1>2, <1>3

LEMMA PackOneSound ==
  ASSUME Inv, Sound, PackOne
  PROVE  Sound'
<1> DEFINE next == First(missing)
           p == NamedLike(next)
           slot == At(entry.slots, p)
           markers == slot.block_markers
           canfit == MAXUDP - cursize
           n == AskedBlocks(markers, canfit)
           all == n = Cardinality(Free(markers))
           f == AskedFragment(markers, slot.rrsize, canfit)
           grown == GrownBy(n, all, slot.rrsize)
           marked == Mark(markers, AskedSpan(markers, canfit), BLOCKWAITING)
           ask == [rrid |-> slot.rrid, curidx |-> f.curidx, fragsize |-> f.fragsize]
           new == [entry EXCEPT !.slots[p[1]][p[2]].block_markers = marked]
<1>1. /\ pc = "pack" /\ missing # {} /\ ID[packet] \in DOMAIN requester_state
      /\ UNCHANGED <<answer, first, outgoing, queries, responses, packet, pc>>
      /\ Counted(entry) /\ SoundEntry(entry) /\ IsList(asked) /\ SoundAsks(asked)
      /\ cursize \in Nat /\ missing \subseteq Incomplete(entry)
  <2>1. pc = "pack" /\ missing # {} /\ UNCHANGED <<clients, network, packet, pc>>
    BY Zenon DEF PackOne
  <2> QED
    BY <2>1 DEF clients, network, Inv, Messages, States, Sound, entry
<1>2. next \in missing /\ next \in Places(entry.slots) /\ At(entry.slots, next).rrid # 0
  <2>1. missing \subseteq Places(entry.slots)
    BY <1>1 DEF Incomplete
  <2>2. next \in missing /\ next \in Places(entry.slots)
    BY <1>1, <2>1, FirstPlace
  <2> QED
    BY <1>1, <2>2 DEF Incomplete, At
<1> HIDE DEF next
<1>3. p \in Places(entry.slots) /\ slot.rrid # 0
  BY <1>1, <1>2, NamedLikePlace
<1>4. SoundSlot(slot)
  BY <1>1, <1>3 DEF SoundEntry
<1>5. \/ /\ UNCHANGED <<requester_state, cursize, asked>> /\ missing' \subseteq missing
      \/ /\ cursize < MAXUDP /\ Free(markers) # {} /\ n > 0
         /\ SetEntry(new) /\ asked' = Append(asked, ask) /\ missing' \subseteq missing
         /\ cursize' = cursize + grown
  <2> DEFINE copied == entry.slots[p[1]][p[2]]
             m == copied.block_markers
             k == AskedBlocks(m, canfit)
             g == AskedFragment(m, copied.rrsize, canfit)
  <2>1. \/ /\ UNCHANGED <<requester_state, cursize, asked>>
           /\ missing' = missing \ {next} \/ missing' = AfterSection(missing, p[1])
        \/ /\ cursize < MAXUDP /\ Free(m) # {} /\ k > 0
           /\ SetEntry([entry EXCEPT !.slots[p[1]][p[2]].block_markers =
                          Mark(m, AskedSpan(m, canfit), BLOCKWAITING)])
           /\ asked' = Append(asked, [rrid |-> copied.rrid, curidx |-> g.curidx,
                                      fragsize |-> g.fragsize])
           /\ missing' = missing \ {next} \/ missing' = AfterSection(missing, p[1])
           /\ cursize' = cursize + GrownBy(k, k = Cardinality(Free(m)), copied.rrsize)
    BY Zenon DEF PackOne, next
  <2>2. copied = slot
    BY DEF At
  <2> HIDE DEF copied, slot, p
  <2>3. AfterSection(missing, p[1]) \subseteq missing
    BY DEF AfterSection
  <2> QED
    BY <2>1, <2>2, <2>3
<1> HIDE DEF p
<1>6. requester_state = [requester_state EXCEPT ![ID[packet]] = entry]
  BY <1>1 DEF entry, Inv, States
<1>7. CASE UNCHANGED <<requester_state, cursize, asked>> /\ missing' \subseteq missing
  <2>1. entry' = entry
    BY <1>1, <1>7 DEF entry
  <2> QED
    BY <1>1, <1>6, <1>7, <2>1, HandlerSound
<1>8. CASE /\ cursize < MAXUDP /\ Free(markers) # {} /\ n > 0
           /\ SetEntry(new) /\ asked' = Append(asked, ask) /\ missing' \subseteq missing
           /\ cursize' = cursize + grown
  <2>1. canfit \in Nat
    BY <1>1, <1>8, RequesterAssumption
  <2> HIDE DEF slot, canfit
  <2>2. /\ SoundSlot([slot EXCEPT !.block_markers = marked]) /\ SoundAsk(ask)
        /\ slot.rrsize \in Nat \ {0} /\ n \in Nat
    BY <1>3, <1>4, <1>8, <2>1, MarkedSound
  <2>3. cursize' \in Nat
    <3> HIDE DEF n, markers
    <3>1. LastBlockSize(slot.rrsize) \in Nat
      BY <2>2 DEF LastBlockSize, BLOCKSIZE
    <3>2. grown \in Nat
      BY <1>8, <2>2, <3>1 DEF GrownBy, BLOCKSIZE, RRHEADER, RRFRAGHEADER
    <3> HIDE DEF grown
    <3> QED
      BY <1>1, <1>8, <3>2
  <2> DEFINE full == [slot EXCEPT !.block_markers = marked]
  <2> HIDE DEF marked, ask, grown, n
  <2>4. full.rrid = slot.rrid /\ full.is_complete = slot.is_complete
    BY <1>4 DEF SoundSlot, IsRecord
  <2>5. Replaced(new, entry, p, full)
    BY <1>1, <1>3, MarkedReplaced DEF slot
  <2>6. SetEntry(new)
    BY <1>8
  <2> HIDE DEF full, new
  <2>7. SoundEntry(new)
    BY <1>1, <1>3, <2>2, <2>5, ReplacedSound DEF full
  <2>8. Incomplete(new) = Incomplete(entry)
    BY <1>1, <1>3, <2>4, <2>5, StillIncomplete DEF slot
  <2>9. entry' = new
    BY <1>1, <2>6 DEF entry, SetEntry
  <2>10. SoundAsks(asked')
    <3> DEFINE more == Append(asked, ask)
    <3>1. Len(asked) \in Nat /\ DOMAIN asked = 1 .. Len(asked)
      BY <1>1, ListLength
    <3>2. \A i \in DOMAIN more : (i \in DOMAIN asked /\ more[i] = asked[i]) \/ more[i] = ask
      <4> DEFINE S == Range(asked) \cup {ask}
      <4>1. asked \in Seq(S) /\ ask \in S
        BY <1>1, SeqMonotonic DEF IsList
      <4> HIDE DEF S
      <4>2. more \in Seq(S) /\ Len(more) = Len(asked) + 1 /\ more[Len(asked) + 1] = ask
            /\ \A i \in 1 .. Len(asked) : more[i] = asked[i]
        BY <4>1, AppendProperties
      <4>3. DOMAIN more = 1 .. Len(asked) + 1
        BY <4>2, LenProperties
      <4> HIDE DEF more
      <4> QED
        BY <3>1, <4>2, <4>3
    <3> QED
      BY <1>1, <1>8, <2>2, <3>2 DEF SoundAsks
  <2>11. requester_state' = [requester_state EXCEPT ![ID[packet]] = new]
    BY <2>6 DEF SetEntry
  <2>12. missing' \subseteq Incomplete(entry')
    BY <1>1, <1>8, <2>8, <2>9
  <2>13. pc' = "pack"
    BY <1>1
  <2> QED
    BY <1>1, <2>3, <2>7, <2>10, <2>11, <2>12, <2>13, HandlerSound
<1> QED
  BY <1>5, <1>7, <1>8

LEMMA NextSound ==
  ASSUME RridsApart, Inv, Sound, [Next]_vars
  PROVE  Sound'
<1>1. CASE UNCHANGED vars
  BY <1>1, OthersSound DEF vars, clients, network
<1>2. ASSUME NEW t \in Transactions, Ask(t) PROVE Sound'
  BY <1>2, AskSound
<1>3. ASSUME NEW t \in Transactions, GiveUp(t) PROVE Sound'
  BY <1>3, OthersSound DEF GiveUp, network
<1>4. ASSUME NEW q \in outgoing, Register(q) PROVE Sound'
  BY <1>4, RegisterSound
<1>5. ASSUME NEW q \in queries, Respond(q) PROVE Sound'
  BY <1>5, RespondSound
<1>6. ASSUME NEW m \in responses, Accept(m) PROVE Sound'
  BY <1>6, AcceptSound
<1>7. ASSUME NEW m \in responses, Drop(m) PROVE Sound'
  BY <1>7, OthersSound DEF Drop, clients
<1>8. ASSUME NEW m \in responses, Receive(m) PROVE Sound'
  BY <1>8, ReceiveSound
<1>9. CASE CopyRRFrag \/ CopyRR
  BY <1>9, CopyRRFragSound, CopyRRSound
<1>10. CASE Complete \/ StartPacking \/ PackOne \/ SendFollowUp
  BY <1>10, CompleteSound, StartPackingSound, PackOneSound, SendFollowUpSound
<1>11. CASE Lose
  BY <1>11, OthersSound DEF Lose, clients
<1> QED
  BY <1>1, <1>2, <1>3, <1>4, <1>5, <1>6, <1>7, <1>8, <1>9, <1>10, <1>11 DEF Next, Daemon

\* A record that counts as complete has all its blocks and none of another,
\* whatever comes twice, late or for another client, as long as an rrid stands
\* for one record: of what else could have happened copy_section's assertion
\* tells, which is part of the step.
THEOREM CompleteIsWholeHolds ==
  ASSUME RridsApart
  PROVE  Spec => []CompleteIsWhole
<1>1. Sound => CompleteIsWhole
  <2> SUFFICES ASSUME Sound, NEW id \in DOMAIN requester_state,
                      NEW slot \in Slots(requester_state[id]), slot.is_complete
               PROVE  Reassembled(slot).rr # GARBLED
    BY DEF CompleteIsWhole
  <2> DEFINE e == requester_state[id]
  <2>1. PICK p \in Places(e.slots) : slot = At(e.slots, p)
    BY DEF Slots, At
  <2>2. SoundSlot(slot)
    BY <2>1 DEF Sound, SoundEntry
  <2> QED
    BY <2>2, SoundWhole
<1>2. Init => Inv /\ Sound
  BY InitInv, InitSound
<1>3. (Inv /\ Sound) /\ [Next]_vars => (Inv /\ Sound)'
  BY NextInv, NextSound
<1> QED
  BY <1>1, <1>2, <1>3, PTL DEF Spec
=============================================================================
