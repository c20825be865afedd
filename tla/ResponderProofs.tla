-------------------------- MODULE ResponderProofs --------------------------
(***************************************************************************)
(* The rrids of Responder, for all messages, collisions of hashes and      *)
(* numbers of rrids.                                                       *)
(***************************************************************************)
EXTENDS Responder, Lemmas, SequenceTheorems

Rrids == 0 .. RRIDS - 1

Items ==
  {Whole(rr) : rr \in Record}
    \cup {Part(rr, rrid, fragsize, rrsize) :
            rr \in Record, rrid \in Rrids, fragsize \in Int, rrsize \in Int}

\* The cache has the fragment's record under the fragment's rrid.
Named(f) ==
  /\ f.rrid # 0
  /\ f.rrid \in DOMAIN responder_cache
  /\ responder_cache[f.rrid].rr = f.rr

\* The shape of what the argument looks at.
Shape ==
  /\ wanted \in [Queries -> Messages]
  /\ message \in Seq(Items)
  /\ rrids \in Seq(Rrids)
  /\ cur_size \in Int
  /\ DOMAIN responder_cache \subseteq Rrids
  /\ \A id \in DOMAIN responder_cache : responder_cache[id].rr \in Record

\* An rrid other than 0 is that of the record in its place.
RridsNamed ==
  \A i \in DOMAIN rrids :
    rrids[i] # 0 =>
      /\ rrids[i] \in DOMAIN responder_cache
      /\ responder_cache[rrids[i]].rr = message[i].rr

MessageNamed == \A i \in DOMAIN message : message[i].isRRFrag => Named(message[i])

SentNamed ==
  \A q \in DOMAIN sent : \A i \in DOMAIN sent[q] :
    sent[q][i].isRRFrag => Named(sent[q][i])

Inv == Shape /\ RridsNamed /\ MessageNamed /\ SentNamed /\ ServedRight

\* No entry is removed, and none comes to hold another record.
CacheKept ==
  \A id \in DOMAIN responder_cache :
    /\ id \in DOMAIN responder_cache'
    /\ responder_cache'[id].rr = responder_cache[id].rr

-----------------------------------------------------------------------------
\* The probe of insert_into_state ends at an rrid that nothing has, if there
\* is one.
LEMMA ProbeFree ==
  ASSUME DOMAIN responder_cache \subseteq Rrids,
         DOMAIN responder_cache # Rrids,
         NEW h \in Rrids
  PROVE  Probe(h) \in Rrids \ DOMAIN responder_cache
<1> DEFINE free == {k \in 1 .. RRIDS : ~Taken(h, k)}
<1>1. PICK id \in Rrids : id \notin DOMAIN responder_cache
  OBVIOUS
<1>2. free # {}
  <2> DEFINE k == IF id > h THEN id - h ELSE id - h + RRIDS
  <2>1. k \in 1 .. RRIDS /\ After(h, k) = id
    BY ResponderAssumption DEF After, Rrids
  <2>2. k \in free
    BY <2>1, <1>1 DEF Taken
  <2> QED BY <2>2
<1>3. \E k \in free : \A j \in free : k <= j
  <2>1. free \in SUBSET Nat
    OBVIOUS
  <2> HIDE DEF free
  <2> QED BY <2>1, <1>2, LeastElement
<1>4. (CHOOSE k \in free : \A j \in free : k <= j) \in free
  BY <1>3
<1>5. \A k \in free : After(h, k) \in Rrids \ DOMAIN responder_cache
  BY ResponderAssumption DEF Taken, After, Rrids
<1> QED BY <1>4, <1>5 DEF Probe

\* What is named stays named while the cache is kept.
LEMMA NamedKept ==
  ASSUME NEW f, Named(f), CacheKept
  PROVE  /\ f.rrid # 0
         /\ f.rrid \in DOMAIN responder_cache'
         /\ responder_cache'[f.rrid].rr = f.rr
BY DEF Named, CacheKept

\* Entering a record under an rrid that is free keeps the cache.
LEMMA EnterKeeps ==
  ASSUME NEW rrid \in Rrids \ DOMAIN responder_cache, NEW rr \in Record, NEW at,
         Shape, Enter(rrid, Entry(rr, at))
  PROVE  /\ CacheKept
         /\ DOMAIN responder_cache' \subseteq Rrids
         /\ \A id \in DOMAIN responder_cache' : responder_cache'[id].rr \in Record
         /\ rrid \in DOMAIN responder_cache' /\ responder_cache'[rrid].rr = rr
BY DEF Enter, Entry, CacheKept, Shape

\* So does releasing records, which only marks entries.
LEMMA ReleaseKeeps ==
  ASSUME NEW places, Shape, Release(places)
  PROVE  /\ CacheKept
         /\ DOMAIN responder_cache' \subseteq Rrids
         /\ \A id \in DOMAIN responder_cache' : responder_cache'[id].rr \in Record
BY DEF Release, Entry, CacheKept, Shape

\* An item is a record or a fragment of one.
LEMMA ItemRecord ==
  ASSUME NEW item \in Items
  PROVE  item.rr \in Record
<1>1. CASE item \in {Whole(rr) : rr \in Record}
  <2>1. PICK rr \in Record : item = Whole(rr)
    BY <1>1
  <2> QED BY <2>1 DEF Whole
<1>2. CASE \E rr \in Record, rrid \in Rrids, fragsize \in Int, rrsize \in Int :
             item = Part(rr, rrid, fragsize, rrsize)
  <2>1. PICK rr \in Record, rrid \in Rrids, fragsize \in Int, rrsize \in Int :
               item = Part(rr, rrid, fragsize, rrsize)
    BY <1>2
  <2> QED BY <2>1 DEF Part
<1> QED BY <1>1, <1>2 DEF Items

\* The loop of insert_into_state_and_construct_map keeps the first index with
\* the largest size; there is one.
LEMMA FirstLargest ==
  ASSUME NEW S \in SUBSET Nat, S # {}, NEW m \in Nat, NEW size \in [S -> 0 .. m]
  PROVE  \E i \in S : \A j \in S :
           size[j] < size[i] \/ (size[j] = size[i] /\ i <= j)
<1>1. \A j \in S : size[j] \in Nat /\ m - size[j] \in Nat
  OBVIOUS
<1>2. PICK i \in S : \A j \in S : size[j] <= size[i]
  <2> DEFINE lacks == {m - size[k] : k \in S}
  <2>1. lacks \in SUBSET Nat
    BY <1>1
  <2>2. lacks # {}
    OBVIOUS
  <2> HIDE DEF lacks
  <2>3. PICK least \in lacks : \A other \in lacks : least <= other
    BY <2>1, <2>2, LeastElement
  <2>4. PICK k \in S : least = m - size[k]
    BY <2>3 DEF lacks
  <2>5. \A j \in S : m - size[j] \in lacks
    BY DEF lacks
  <2>6. ASSUME NEW j \in S PROVE size[j] <= size[k]
    <3>1. m - size[k] <= m - size[j]
      BY <2>3, <2>4, <2>5
    <3> QED BY <1>1, <3>1
  <2> QED BY <2>6
<1> DEFINE largest == {j \in S : size[j] = size[i]}
<1>3. largest \in SUBSET Nat /\ largest # {}
  BY <1>2
<1> HIDE DEF largest
<1>4. PICK first \in largest : \A k \in largest : first <= k
  BY <1>3, LeastElement
<1> QED BY <1>1, <1>2, <1>4 DEF largest

\* A loop that has records to choose from chooses one of them.
LEMMA LargestIsCandidate ==
  ASSUME Inv, Candidates # {}
  PROVE  Largest \in Candidates
<1> DEFINE size == [i \in Candidates |-> CachedRecord(i).rdsize]
<1>1. Candidates \in SUBSET Nat /\ size \in [Candidates -> 0 .. MAXRDSIZE]
  BY DEF Inv, Shape, RridsNamed, Candidates, CachedRecord, Record
<1>2. MAXRDSIZE \in Nat
  BY DEF MAXRDSIZE
<1> HIDE DEF size
<1>3. \E i \in Candidates : \A j \in Candidates :
         size[j] < size[i] \/ (size[j] = size[i] /\ i <= j)
  BY <1>1, <1>2, FirstLargest
<1> QED BY <1>3 DEF Largest, size
-----------------------------------------------------------------------------
LEMMA InitInv == Init => Inv
<1> SUFFICES ASSUME Init PROVE Inv
  OBVIOUS
<1>1. message \in Seq(Items) /\ rrids \in Seq(Rrids)
  BY DEF Init
<1>2. Shape
  BY <1>1 DEF Init, Shape
<1> QED BY <1>2 DEF Init, Inv, RridsNamed, MessageNamed, SentNamed, ServedRight

\* A step that keeps the cache, and neither works on the message, nor sends
\* one, nor serves a fragment, preserves Inv.
LEMMA OthersPreserve ==
  ASSUME Inv, UNCHANGED <<wanted, sent, served, responder_cache, message, rrids,
                          cur_size>>
  PROVE  Inv'
BY DEF Inv, Shape, RridsNamed, MessageNamed, SentNamed, ServedRight, Named, Items

\* The answer of the name server has no fragments yet.
LEMMA AnswerPreserves ==
  ASSUME Inv, NEW q \in Queries, Answer(q)
  PROVE  Inv'
<1>1. CASE UNCHANGED <<connection_info, handler>>
  BY <1>1, OthersPreserve DEF Answer, environment, handler
<1>2. CASE /\ message' = [i \in DOMAIN wanted[q] |-> Whole(wanted[q][i])]
           /\ rrids' = <<>>
           /\ cur_size' = DNSMESSAGEHEADER + QSIZE
  <2>1. UNCHANGED <<wanted, sent, served, responder_cache>>
    BY DEF Answer, environment
  <2>2. wanted[q] \in Seq(Record)
    BY ResponderAssumption DEF Inv, Shape
  <2>3. message' \in Seq(Items)
    <3>1. /\ DOMAIN wanted[q] = 1 .. Len(wanted[q]) /\ Len(wanted[q]) \in Nat
          /\ \A i \in DOMAIN wanted[q] : Whole(wanted[q][i]) \in Items
      BY <2>2 DEF Items
    <3> QED BY <1>2, <3>1, IsASeq
  <2>4. Shape'
    BY <1>2, <2>1, <2>3, ResponderAssumption DEF Inv, Shape, DNSMESSAGEHEADER
  <2>5. RridsNamed' /\ MessageNamed'
    BY <1>2 DEF RridsNamed, MessageNamed, Whole
  <2> QED BY <2>1, <2>4, <2>5 DEF Inv, SentNamed, Named, ServedRight
<1> QED BY <1>1, <1>2 DEF Answer

\* insert_into_state gives a record the rrid of an equal one, or a free one.
LEMMA InsertPreserves ==
  ASSUME Inv, Insert
  PROVE  Inv'
<1> DEFINE i == Len(rrids) + 1
           rr == message[i].rr
           entered(rrid) == /\ rrids' = Append(rrids, rrid)
                            /\ cur_size' = cur_size + RRSize(rr)
<1>1. UNCHANGED <<wanted, sent, served, message>>
  BY DEF Insert, environment
<1>2. rr \in Record /\ rr.hash \in Rrids
  <2>1. i \in DOMAIN message
    BY DEF Inv, Shape, Insert
  <2>2. message[i] \in Items
    BY <2>1 DEF Inv, Shape
  <2>3. rr \in Record
    BY <2>2, ItemRecord
  <2> QED BY <2>3 DEF Record, Rrids
<1>3. ASSUME NEW rrid \in Rrids, entered(rrid), CacheKept,
             DOMAIN responder_cache' \subseteq Rrids,
             \A id \in DOMAIN responder_cache' : responder_cache'[id].rr \in Record,
             rrid \in DOMAIN responder_cache', responder_cache'[rrid].rr = rr
      PROVE  Inv'
  <2>1. rrids' \in Seq(Rrids) /\ DOMAIN rrids' = DOMAIN rrids \cup {i}
        /\ rrids'[i] = rrid /\ \A j \in DOMAIN rrids : rrids'[j] = rrids[j]
    BY <1>3 DEF Inv, Shape
  <2>2. cur_size' \in Int
    BY <1>2, <1>3 DEF Inv, Shape, RRSize, RRHEADER, Record
  <2>3. Shape'
    BY <1>1, <1>3, <2>1, <2>2 DEF Inv, Shape, Items
  <2>4. RridsNamed'
    BY <1>1, <1>3, <2>1 DEF Inv, RridsNamed, CacheKept
  <2>5. MessageNamed' /\ SentNamed'
    BY <1>1, <1>3, NamedKept DEF Inv, MessageNamed, SentNamed, Named
  <2> QED BY <1>1, <2>3, <2>4, <2>5 DEF Inv, ServedRight
<1> DEFINE hit == rr.hash \in DOMAIN responder_cache
           collides == hit /\ ~is_resource_record_equal(rr, responder_cache[rr.hash].rr)
<1>4. CASE ~hit /\ Enter(rr.hash, Entry(rr, Copy)) /\ entered(rr.hash)
  BY <1>2, <1>3, <1>4, EnterKeeps DEF Inv
<1>5. CASE hit /\ ~collides /\ UNCHANGED responder_cache /\ entered(rr.hash)
  BY <1>2, <1>3, <1>5 DEF Inv, Shape, CacheKept, is_resource_record_equal
<1>6. CASE /\ collides /\ DOMAIN responder_cache # Rrids
           /\ Enter(Probe(rr.hash), Entry(rr, i))
           /\ entered(Probe(rr.hash))
  <2>1. Probe(rr.hash) \in Rrids \ DOMAIN responder_cache
    BY <1>2, <1>6, ProbeFree DEF Inv, Shape
  <2> DEFINE at == i
  <2>2. Enter(Probe(rr.hash), Entry(rr, at))
    BY <1>6
  <2> HIDE DEF at
  <2> QED BY <1>2, <1>3, <1>6, <2>1, <2>2, EnterKeeps DEF Inv
<1>7. CASE UNCHANGED <<responder_cache, rrids, cur_size>>
  BY <1>1, <1>7, OthersPreserve
<1> QED BY <1>4, <1>5, <1>6, <1>7 DEF Insert, Rrids

\* A fragment put in a record's place has the record's rrid, which is then
\* taken out of rrids.
LEMMA ShrinkPreserves ==
  ASSUME Inv, Shrink
  PROVE  Inv'
<1> DEFINE i == Largest
           rr == CachedRecord(i)
<1>1. UNCHANGED <<wanted, sent, served>>
  BY DEF Shrink, environment
<1>2. CASE UNCHANGED <<responder_cache, message, rrids, cur_size>>
  BY <1>1, <1>2, OthersPreserve
<1>3. ASSUME NEW size \in Int, NEW advertised \in Int, i \in Candidates,
             Replace(i, Part(message[i].rr, rrids[i], size, advertised))
      PROVE  Inv'
  <2> DEFINE f == Part(message[i].rr, rrids[i], size, advertised)
  <2>1. /\ message' = [message EXCEPT ![i] = f]
        /\ rrids' = [rrids EXCEPT ![i] = 0]
        /\ cur_size' = SizeWith(rr, f)
        /\ Release({i})
    BY <1>3 DEF Replace
  <2>2. /\ i \in DOMAIN rrids /\ rrids[i] # 0 /\ rrids[i] \in Rrids
        /\ rrids[i] \in DOMAIN responder_cache
        /\ rr = responder_cache[rrids[i]].rr /\ rr = message[i].rr
        /\ rr \in Record
    BY <1>3 DEF Inv, Shape, Candidates, RridsNamed, CachedRecord
  <2> HIDE DEF i, rr
  <2>3. Named(f)
    BY <2>2 DEF Named, Part
  <2>4. f \in Items /\ f.rr = rr /\ ItemSize(f) \in Int
    <3>1. f \in Items
      BY <2>2, <1>3 DEF Items
    <3> QED BY <3>1, <1>3, <2>2 DEF Part, ItemSize, RRFRAGHEADER
  <2> HIDE DEF f
  <2>5. Shape'
    <3>1. message' \in Seq(Items) /\ rrids' \in Seq(Rrids)
      <4>1. 0 \in Rrids /\ rrids \in Seq(Rrids) /\ message \in Seq(Items)
        BY ResponderAssumption DEF Inv, Shape, Rrids
      <4>2. rrids' \in Seq(Rrids)
        BY <2>1, <2>2, <4>1, ExceptSeq
      <4>3. CASE i \in DOMAIN message
        BY <2>1, <2>4, <4>1, <4>2, <4>3, ExceptSeq
      <4>4. CASE i \notin DOMAIN message
        <5>1. message = [k \in DOMAIN message |-> message[k]]
          BY <4>1
        <5>2. message' = [k \in DOMAIN message |-> message[k]]
          BY <2>1, <4>4
        <5> QED BY <4>1, <4>2, <5>1, <5>2
      <4> QED BY <4>3, <4>4
    <3>2. cur_size' \in Int
      <4>1. RRSize(rr) \in Int
        BY <2>2 DEF RRSize, RRHEADER, Record
      <4> QED BY <2>1, <2>4, <4>1 DEF Inv, Shape, SizeWith
    <3>3. /\ DOMAIN responder_cache' \subseteq Rrids
          /\ \A id \in DOMAIN responder_cache' : responder_cache'[id].rr \in Record
      BY <2>1, ReleaseKeeps DEF Inv
    <3> QED BY <1>1, <3>1, <3>2, <3>3 DEF Inv, Shape
  <2>6. CacheKept
    BY <2>1, ReleaseKeeps DEF Inv
  <2>7. \A j \in DOMAIN message : j # i => message'[j] = message[j]
    BY <2>1
  <2>8. RridsNamed'
    <3> SUFFICES ASSUME NEW j \in DOMAIN rrids', rrids'[j] # 0
                 PROVE  /\ rrids'[j] \in DOMAIN responder_cache'
                        /\ responder_cache'[rrids'[j]].rr = message'[j].rr
      BY DEF RridsNamed
    <3>1. j # i /\ j \in DOMAIN rrids /\ rrids'[j] = rrids[j]
      BY <2>1, <2>2
    <3>2. message'[j] = message[j]
      BY <2>1, <3>1
    <3> QED BY <2>6, <3>1, <3>2 DEF Inv, RridsNamed, CacheKept
  <2>9. MessageNamed'
    <3> SUFFICES ASSUME NEW j \in DOMAIN message', message'[j].isRRFrag
                 PROVE  /\ message'[j].rrid # 0
                        /\ message'[j].rrid \in DOMAIN responder_cache'
                        /\ responder_cache'[message'[j].rrid].rr = message'[j].rr
      BY DEF MessageNamed, Named
    <3>1. Named(message'[j])
      BY <2>1, <2>3 DEF Inv, MessageNamed
    <3> QED BY <2>6, <3>1, NamedKept
  <2>10. SentNamed'
    <3> SUFFICES ASSUME NEW q \in DOMAIN sent', NEW j \in DOMAIN sent'[q],
                        sent'[q][j].isRRFrag
                 PROVE  /\ sent'[q][j].rrid # 0
                        /\ sent'[q][j].rrid \in DOMAIN responder_cache'
                        /\ responder_cache'[sent'[q][j].rrid].rr = sent'[q][j].rr
      BY DEF SentNamed, Named
    <3>1. Named(sent'[q][j])
      BY <1>1 DEF Inv, SentNamed
    <3> QED BY <2>6, <3>1, NamedKept
  <2> QED BY <1>1, <2>5, <2>8, <2>9, <2>10 DEF Inv, ServedRight
<1>4. CASE Candidates # {}
  <2>1. i \in Candidates
    BY <1>4, LargestIsCandidate
  <2>2. rr \in Record
    BY <2>1 DEF Inv, Shape, Candidates, RridsNamed, CachedRecord
  <2>3. RRSize(rr) \in Int /\ WholeBlocks(Room(rr)) \in Int
    <3> HIDE DEF i, rr
    <3>1. rr.name \in Int /\ rr.rdsize \in Int
      BY <2>2 DEF Record
    <3>2. cur_size \in Int /\ MAXUDP \in Int
      BY ResponderAssumption DEF Inv, Shape
    <3>3. RRSize(rr) \in Int
      BY <3>1 DEF RRSize, RRHEADER
    <3>4. Room(rr) \in Int
      BY <3>1, <3>2 DEF Room, Abs, Limit, RRHEADER, RRFRAGHEADER, DNSMESSAGEHEADER
    <3> QED BY <3>3, <3>4 DEF WholeBlocks, BLOCKSIZE
  <2>4. \/ UNCHANGED <<responder_cache, message, rrids, cur_size>>
        \/ Replace(i, Part(message[i].rr, rrids[i], 0, RRSize(rr)))
        \/ Replace(i, Part(message[i].rr, rrids[i], WholeBlocks(Room(rr)),
                           IF Room(rr) > 0 THEN RRSize(rr) ELSE 0))
    BY <1>4 DEF Shrink
  <2> HIDE DEF i, rr
  <2> QED BY <1>2, <1>3, <2>1, <2>3, <2>4
<1> QED BY <1>2, <1>4 DEF Shrink

\* Sending a message announces its fragments, which are named already.
LEMMA SendPreserves ==
  ASSUME Inv, Send
  PROVE  Inv'
<1>1. CacheKept /\ UNCHANGED <<wanted, served>>
      /\ message' = <<>> /\ rrids' = <<>> /\ cur_size' = 0
  BY ReleaseKeeps DEF Send, Inv
<1>2. Shape'
  BY <1>1, ReleaseKeeps DEF Send, Inv, Shape
<1>3. RridsNamed' /\ MessageNamed'
  BY <1>1 DEF RridsNamed, MessageNamed
<1>4. \A q \in DOMAIN sent' :
        sent'[q] = message \/ (q \in DOMAIN sent /\ sent'[q] = sent[q])
  BY DEF Send
<1>5. SentNamed'
  <2> SUFFICES ASSUME NEW q \in DOMAIN sent', NEW i \in DOMAIN sent'[q],
                      sent'[q][i].isRRFrag
               PROVE  /\ sent'[q][i].rrid # 0
                      /\ sent'[q][i].rrid \in DOMAIN responder_cache'
                      /\ responder_cache'[sent'[q][i].rrid].rr = sent'[q][i].rr
    BY DEF SentNamed, Named
  <2>1. Named(sent'[q][i])
    BY <1>4 DEF Inv, MessageNamed, SentNamed
  <2> QED BY <1>1, <2>1, NamedKept
<1> QED BY <1>1, <1>2, <1>3, <1>5 DEF Inv, ServedRight

\* What was announced is named, so a fragment is served from its record.
LEMMA AnnouncedNamed ==
  ASSUME SentNamed, NEW f \in Announced
  PROVE  Named(f)
BY DEF SentNamed, Announced, Fragments, ToSet

LEMMA ServePreserves ==
  ASSUME Inv, NEW f \in Announced, Serve(f)
  PROVE  Inv'
<1>1. Named(f)
  BY AnnouncedNamed DEF Inv
<1>2. UNCHANGED <<wanted, sent, responder_cache, message, rrids, cur_size>>
  BY DEF Serve, handler
<1>3. ServedRight'
  BY <1>1 DEF Inv, Serve, ServedRight, Named
<1>4. Shape' /\ RridsNamed' /\ MessageNamed' /\ SentNamed'
  BY <1>2 DEF Inv, Shape, RridsNamed, MessageNamed, SentNamed, Named, Items
<1> QED BY <1>3, <1>4 DEF Inv

LEMMA NextPreserves == Inv /\ [Next]_vars => Inv'
<1> SUFFICES ASSUME Inv, [Next]_vars PROVE Inv'
  OBVIOUS
<1>1. CASE UNCHANGED vars
  BY <1>1, OthersPreserve DEF vars, environment, handler
<1>2. ASSUME NEW q \in Queries, Start(q) PROVE Inv'
  BY <1>2, OthersPreserve DEF Start, handler
<1>3. ASSUME NEW q \in Queries, Answer(q) PROVE Inv'
  BY <1>3, AnswerPreserves
<1>4. CASE Insert
  BY <1>4, InsertPreserves
<1>5. CASE Inserted \/ Fits
  BY <1>5, OthersPreserve DEF Inserted, Fits, environment
<1>6. CASE Shrink
  BY <1>6, ShrinkPreserves
<1>7. CASE Send
  BY <1>7, SendPreserves
<1>8. ASSUME NEW f \in Announced, Serve(f) PROVE Inv'
  BY <1>8, ServePreserves
<1> QED BY <1>1, <1>2, <1>3, <1>4, <1>5, <1>6, <1>7, <1>8 DEF Next

\* The inductive invariant: what is announced, in hand or still whole is found
\* in the cache under its rrid.
THEOREM NamesInvariance == Spec => []Inv
<1> QED BY InitInv, NextPreserves, PTL DEF Spec

\* Whatever the messages, the hashes that collide and the order of queries, an
\* rrid that was announced stands for one record (insert_into_state probes for
\* one that nothing has, and nothing leaves responder_cache).
THEOREM RridsApartHolds == Spec => []RridsApart
<1>1. Inv => RridsApart
  <2> SUFFICES ASSUME Inv, NEW f \in Announced, NEW g \in Announced
               PROVE  f.rrid # 0 /\ (f.rrid = g.rrid => f.rr = g.rr)
    BY DEF RridsApart
  <2>1. Named(f) /\ Named(g)
    BY AnnouncedNamed DEF Inv
  <2> QED BY <2>1 DEF Named
<1> QED BY <1>1, NamesInvariance, PTL

\* A follow-up query is answered from the record whose fragment was announced
\* (process_dns_message looks it up by rrid alone).
THEOREM ServedRightHolds == Spec => []ServedRight
<1>1. Inv => ServedRight
  BY DEF Inv
<1> QED BY <1>1, NamesInvariance, PTL
-----------------------------------------------------------------------------
\* What FragmentsUsable asks of one fragment.
UsableFragment(f) ==
  /\ f.fragsize % BLOCKSIZE = 0
  /\ f.fragsize < RRSize(f.rr)
  /\ f.rrsize = RRSize(f.rr) \/ (f.rrsize = 0 /\ f.fragsize = 0)

\* It has a fragment, with data, in its i-th place.
HasData(m, i) == m[i].isRRFrag /\ m[i].fragsize > 0

Usable(m) ==
  /\ \A i \in DOMAIN m : m[i].isRRFrag => UsableFragment(m[i])
  /\ \A i, j \in DOMAIN m : HasData(m, i) /\ HasData(m, j) => i = j

\* Until the loop ends no fragment has data; the one that has ends it.
UsableInv ==
  /\ Usable(message)
  /\ pc # "send" => \A i \in DOMAIN message : ~HasData(message, i)
  /\ \A q \in DOMAIN sent : Usable(sent[q])

\* The room for a record's data is less than the record, in whole blocks.
LEMMA RoomUsable ==
  ASSUME NEW rr \in Record, cur_size \in Int
  PROVE  /\ Room(rr) \in 0 .. rr.rdsize
         /\ WholeBlocks(Room(rr)) \in 0 .. Room(rr)
         /\ WholeBlocks(Room(rr)) % BLOCKSIZE = 0
         /\ RRSize(rr) \in Nat /\ rr.rdsize < RRSize(rr)
<1>1. rr.name \in Nat /\ rr.rdsize \in Nat
  BY DEF Record
<1> DEFINE excess == Abs(cur_size + RRFRAGHEADER - RRHEADER - rr.name - Limit)
<1>2. excess \in Nat
  BY <1>1, ResponderAssumption DEF Abs, Limit, RRHEADER, RRFRAGHEADER, DNSMESSAGEHEADER
<1>3. Room(rr) = IF excess > rr.rdsize THEN 0 ELSE rr.rdsize - excess
  BY DEF Room
<1> HIDE DEF excess
<1>4. Room(rr) \in 0 .. rr.rdsize
  BY <1>1, <1>2, <1>3
<1>5. \A n \in Nat : WholeBlocks(n) \in 0 .. n /\ WholeBlocks(n) % BLOCKSIZE = 0
  BY DEF WholeBlocks, BLOCKSIZE
<1> QED
  BY <1>1, <1>4, <1>5 DEF RRSize, RRHEADER

\* A fragment in a record's place: if it has data it is the only one.
LEMMA ReplaceUsable ==
  ASSUME Inv, UsableInv, pc = "shrink", NEW i \in Candidates,
         NEW size \in Int, NEW advertised \in Int,
         Replace(i, Part(message[i].rr, rrids[i], size, advertised)),
         size % BLOCKSIZE = 0, size < RRSize(CachedRecord(i)),
         advertised = RRSize(CachedRecord(i)) \/ (advertised = 0 /\ size = 0)
  PROVE  /\ Usable(message')
         /\ size = 0 => \A j \in DOMAIN message' : ~HasData(message', j)
<1> DEFINE f == Part(message[i].rr, rrids[i], size, advertised)
<1>1. message' = [message EXCEPT ![i] = f]
  BY DEF Replace
<1>2. CachedRecord(i) = message[i].rr
  BY DEF Inv, RridsNamed, CachedRecord, Candidates
<1>3. f.isRRFrag /\ f.rr = message[i].rr /\ f.fragsize = size /\ f.rrsize = advertised
  BY DEF Part
<1> HIDE DEF f
<1>4. UsableFragment(f)
  BY <1>2, <1>3 DEF UsableFragment
<1>5. \A j \in DOMAIN message :
        ~HasData(message, j) /\ (message[j].isRRFrag => UsableFragment(message[j]))
  BY DEF UsableInv, Usable
<1>6. DOMAIN message' = DOMAIN message
      /\ \A j \in DOMAIN message : (message'[j] = f /\ j = i) \/ message'[j] = message[j]
  BY <1>1
<1>7. \A j \in DOMAIN message' :
        /\ message'[j].isRRFrag => UsableFragment(message'[j])
        /\ HasData(message', j) => j = i /\ size > 0
  BY <1>3, <1>4, <1>5, <1>6 DEF HasData
<1> QED
  BY <1>7 DEF Usable

\* One turn of the loop.
LEMMA ShrinkUsable ==
  ASSUME Inv, UsableInv, Shrink
  PROVE  UsableInv'
<1> DEFINE i == Largest
           rr == CachedRecord(i)
           blocks == WholeBlocks(Room(rr))
           advertised == IF Room(rr) > 0 THEN RRSize(rr) ELSE 0
<1>1. pc = "shrink" /\ sent' = sent
  BY DEF Shrink, environment
<1>2. CASE Candidates = {}
  <2>1. message' = message /\ pc' = pc
    BY <1>2 DEF Shrink
  <2> QED
    BY <1>1, <2>1 DEF UsableInv
<1>3. CASE Candidates # {}
  <2>1. i \in Candidates
    BY <1>3, LargestIsCandidate
  <2>2. rr \in Record /\ cur_size \in Int
    BY <2>1 DEF Inv, Shape, Candidates, RridsNamed, CachedRecord
  <2>3. \/ Replace(i, Part(message[i].rr, rrids[i], 0, RRSize(rr)))
        \/ pc' = "send" /\ Replace(i, Part(message[i].rr, rrids[i], blocks, advertised))
    BY <1>3 DEF Shrink
  <2> HIDE DEF i
  <2>4. /\ Room(rr) \in Nat /\ blocks \in 0 .. Room(rr) /\ blocks % BLOCKSIZE = 0
        /\ RRSize(rr) \in Nat /\ blocks < RRSize(rr) /\ 0 < RRSize(rr)
    <3>1. rr.rdsize \in Nat
      BY <2>2 DEF Record
    <3> HIDE DEF rr
    <3> QED
      BY <2>2, <3>1, RoomUsable
  <2>5. advertised \in Int /\ (advertised = RRSize(rr) \/ (advertised = 0 /\ blocks = 0))
    BY <2>4
  <2>6. CASE Replace(i, Part(message[i].rr, rrids[i], 0, RRSize(rr)))
    <3>1. 0 % BLOCKSIZE = 0
      BY DEF BLOCKSIZE
    <3>2. Usable(message') /\ \A j \in DOMAIN message' : ~HasData(message', j)
      BY <1>1, <2>1, <2>4, <2>6, <3>1, ReplaceUsable
    <3> QED
      BY <1>1, <3>2 DEF UsableInv
  <2>7. CASE pc' = "send" /\ Replace(i, Part(message[i].rr, rrids[i], blocks, advertised))
    <3> HIDE DEF blocks, advertised
    <3>1. blocks \in Int
      BY <2>4
    <3>2. Usable(message')
      BY <1>1, <2>1, <2>4, <2>5, <2>7, <3>1, ReplaceUsable
    <3> QED
      BY <1>1, <2>7, <3>2 DEF UsableInv
  <2> QED
    BY <2>3, <2>6, <2>7
<1> QED
  BY <1>2, <1>3

\* Steps that leave the message as it is, and send nothing.
LEMMA OthersUsable ==
  ASSUME UsableInv, UNCHANGED <<message, sent>>, pc' = "send" \/ pc # "send"
  PROVE  UsableInv'
BY DEF UsableInv, Usable, HasData, UsableFragment

LEMMA NextUsable == Inv /\ UsableInv /\ [Next]_vars => UsableInv'
<1> SUFFICES ASSUME Inv, UsableInv, [Next]_vars PROVE UsableInv'
  OBVIOUS
<1>1. CASE UNCHANGED vars
  BY <1>1, OthersUsable DEF vars, environment, handler
<1>2. ASSUME NEW q \in Queries, Start(q) PROVE UsableInv'
  BY <1>2, OthersUsable DEF Start, handler
<1>3. ASSUME NEW q \in Queries, Answer(q) PROVE UsableInv'
  <2>1. sent' = sent
    BY <1>3 DEF Answer, environment
  <2>2. CASE UNCHANGED <<message, pc>>
    BY <1>3, <2>1, <2>2, OthersUsable DEF Answer
  <2>3. CASE message' = [i \in DOMAIN wanted[q] |-> Whole(wanted[q][i])]
    <3>1. \A i \in DOMAIN message' : ~message'[i].isRRFrag
      BY <2>3 DEF Whole
    <3>2. Usable(message') /\ \A i \in DOMAIN message' : ~HasData(message', i)
      BY <3>1 DEF Usable, HasData
    <3> QED
      BY <2>1, <3>2 DEF UsableInv
  <2> QED
    BY <1>3, <2>2, <2>3 DEF Answer, handler
<1>4. CASE Insert
  BY <1>4, OthersUsable DEF Insert, environment
<1>5. CASE Inserted \/ Fits
  BY <1>5, OthersUsable DEF Inserted, Fits, environment
<1>6. CASE Shrink
  BY <1>6, ShrinkUsable
<1>7. CASE Send
  <2>1. message' = <<>> /\ \A q \in DOMAIN sent' :
          sent'[q] = message \/ (q \in DOMAIN sent /\ sent'[q] = sent[q])
    BY <1>7 DEF Send
  <2>2. Usable(message') /\ \A i \in DOMAIN message' : ~HasData(message', i)
    BY <2>1 DEF Usable
  <2>3. \A q \in DOMAIN sent' : Usable(sent'[q])
    BY <2>1 DEF UsableInv
  <2> QED
    BY <2>2, <2>3 DEF UsableInv
<1>8. ASSUME NEW f \in Announced, Serve(f) PROVE UsableInv'
  BY <1>8, OthersUsable DEF Serve, handler
<1> QED BY <1>1, <1>2, <1>3, <1>4, <1>5, <1>6, <1>7, <1>8 DEF Next

\* Whatever fits, does not fit or leaves no room at all: a requester gets at
\* most one fragment with data to a message, in whole blocks and less than the
\* record (insert_into_state_and_construct_map ends its loop with that one).
THEOREM FragmentsUsableHolds == Spec => []FragmentsUsable
<1>1. Init => UsableInv
  BY DEF Init, UsableInv, Usable, HasData
<1>2. UsableInv => FragmentsUsable
  <2> SUFFICES ASSUME UsableInv, NEW q \in DOMAIN sent
               PROVE  /\ Cardinality({i \in DOMAIN sent[q] :
                            sent[q][i].isRRFrag /\ sent[q][i].fragsize > 0}) <= 1
                      /\ \A f \in Fragments(sent[q]) : UsableFragment(f)
    BY DEF FragmentsUsable, UsableFragment
  <2>1. Usable(sent[q])
    BY DEF UsableInv
  <2> DEFINE withData == {i \in DOMAIN sent[q] :
                            sent[q][i].isRRFrag /\ sent[q][i].fragsize > 0}
  <2>2. withData = {} \/ \E i : withData = {i}
    BY <2>1 DEF Usable, HasData
  <2>3. Cardinality(withData) <= 1
    <3> HIDE DEF withData
    <3> QED
      BY <2>2, FS_EmptySet, FS_Singleton
  <2> QED
    BY <2>1, <2>3 DEF Usable, Fragments, ToSet
<1> QED BY <1>1, <1>2, NextUsable, NamesInvariance, PTL DEF Spec
-----------------------------------------------------------------------------
\* The sizes of a message's records and fragments.
ItemSizes(items) == [i \in 1 .. Len(items) |-> ItemSize(items[i])]

\* The size of the first n of them with everything before them.
SizeUpTo(items, n) == DNSMESSAGEHEADER + QSIZE + Offsets(ItemSizes(items))[n]

\* cur_size is the size of what insert_into_state has got to, and then of the
\* whole message, in which what still has an rrid is a record.
SizesInv ==
  /\ pc = "insert" => Len(rrids) <= Len(message)
  /\ pc \in {"shrink", "send"} => Len(rrids) = Len(message)
  /\ pc # "idle" => cur_size = SizeUpTo(message, Len(rrids))
  /\ pc = "insert" => \A i \in 1 .. Len(message) : ~message[i].isRRFrag
  /\ pc = "shrink" => \A i \in 1 .. Len(message) : rrids[i] # 0 => ~message[i].isRRFrag
  /\ pc = "send" => cur_size <= MAXUDP
  /\ pc \in {"idle", "insert", "shrink", "send"}
  /\ NeverOversize

\* Every record and every fragment has a size.
LEMMA SizesAreNumbers ==
  ASSUME NEW items \in Seq(Items)
  PROVE  /\ ItemSizes(items) \in Seq(Int)
         /\ Len(ItemSizes(items)) = Len(items) /\ Len(items) \in Nat
         /\ \A i \in 1 .. Len(items) : ItemSizes(items)[i] = ItemSize(items[i])
<1>1. Len(items) \in Nat /\ \A i \in 1 .. Len(items) : items[i] \in Items
  OBVIOUS
<1>2. ASSUME NEW item \in Items PROVE ItemSize(item) \in Int
  <2>1. CASE item \in {Whole(rr) : rr \in Record}
    <3>1. PICK rr \in Record : item = Whole(rr)
      BY <2>1
    <3>2. rr.name \in Int /\ rr.rdsize \in Int
      BY DEF Record
    <3> QED
      BY <3>1, <3>2 DEF Whole, ItemSize, RRSize, RRHEADER
  <2>2. CASE \E rr \in Record, rrid \in Rrids, fragsize \in Int, rrsize \in Int :
               item = Part(rr, rrid, fragsize, rrsize)
    <3>1. PICK rr \in Record, rrid \in Rrids, fragsize \in Int, rrsize \in Int :
                 item = Part(rr, rrid, fragsize, rrsize)
      BY <2>2
    <3> QED
      BY <3>1 DEF Part, ItemSize, RRFRAGHEADER
  <2> QED
    BY <2>1, <2>2 DEF Items
<1>3. ItemSizes(items) \in [1 .. Len(items) -> Int]
  BY <1>1, <1>2 DEF ItemSizes
<1>4. ItemSizes(items) \in Seq(Int) /\ Len(ItemSizes(items)) = Len(items)
  BY <1>1, <1>3
<1> QED
  BY <1>1, <1>4 DEF ItemSizes

\* A message all of which has been entered is as long as SizeUpTo says.
LEMMA WholeMessage ==
  ASSUME NEW items \in Seq(Items)
  PROVE  MessageSize(items) = SizeUpTo(items, Len(items))
<1>1. Len(ItemSizes(items)) = Len(items)
  BY SizesAreNumbers
<1> QED
  BY <1>1 DEF MessageSize, SizeUpTo, Total, ItemSizes

\* insert_into_state adds the size of the record it enters.
LEMMA InsertSizes ==
  ASSUME Inv, SizesInv, Insert
  PROVE  SizesInv'
<1> DEFINE i == Len(rrids) + 1
           rr == message[i].rr
<1>1. pc = "insert" /\ pc' = pc /\ message' = message /\ i <= Len(message)
      /\ status' # "aborted"
  BY DEF Insert, Running
<1>2. message \in Seq(Items) /\ rrids \in Seq(Rrids) /\ Len(rrids) \in Nat
  BY DEF Inv, Shape
<1>3. CASE UNCHANGED <<rrids, cur_size>>
  BY <1>1, <1>3 DEF SizesInv, NeverOversize, SizeUpTo
<1>4. ASSUME NEW rrid, rrids' = Append(rrids, rrid), cur_size' = cur_size + RRSize(rr)
      PROVE  SizesInv'
  <2>1. Len(rrids') = i
    BY <1>2, <1>4
  <2>2. i \in 1 .. Len(message) /\ i - 1 = Len(rrids)
    <3>1. Len(message) \in Nat
      BY <1>2
    <3> QED
      BY <1>1, <1>2, <3>1
  <2>3. ItemSize(message[i]) = RRSize(rr)
    BY <1>1, <2>2 DEF SizesInv, ItemSize
  <2>4. /\ Offsets(ItemSizes(message))[i] =
             Offsets(ItemSizes(message))[i - 1] + ItemSize(message[i])
        /\ Offsets(ItemSizes(message))[i - 1] \in Int
        /\ ItemSize(message[i]) \in Int
    <3> DEFINE sizes == ItemSizes(message)
    <3>1. /\ sizes \in Seq(Int) /\ Len(sizes) = Len(message)
          /\ sizes[i] = ItemSize(message[i])
      BY <1>2, <2>2, SizesAreNumbers
    <3> HIDE DEF sizes
    <3>2. /\ Offsets(sizes) \in [0 .. Len(sizes) -> Int] /\ Len(sizes) \in Nat
          /\ \A k \in 1 .. Len(sizes) : Offsets(sizes)[k] = Offsets(sizes)[k - 1] + sizes[k]
          /\ \A k \in 1 .. Len(sizes) : sizes[k] \in Int
      BY <3>1, OffsetsStep
    <3>3. i \in 1 .. Len(sizes) /\ i - 1 \in 0 .. Len(sizes)
      BY <2>2, <3>1, <3>2
    <3> HIDE DEF i
    <3> QED
      BY <3>1, <3>2, <3>3 DEF sizes
  <2>5. cur_size = SizeUpTo(message, i - 1)
    BY <1>1, <2>2 DEF SizesInv
  <2>6. cur_size' = SizeUpTo(message, i)
    <3> DEFINE before == Offsets(ItemSizes(message))[i - 1]
               one == ItemSize(message[i])
    <3>1. before \in Int /\ one \in Int /\ cur_size = DNSMESSAGEHEADER + QSIZE + before
          /\ SizeUpTo(message, i) = DNSMESSAGEHEADER + QSIZE + (before + one)
          /\ cur_size' = cur_size + one
      BY <1>4, <2>3, <2>4, <2>5 DEF SizeUpTo
    <3> HIDE DEF before, one
    <3> QED
      BY <3>1, ResponderAssumption DEF DNSMESSAGEHEADER
  <2> QED
    BY <1>1, <2>1, <2>6 DEF SizesInv, NeverOversize, SizeUpTo
<1> QED
  BY <1>3, <1>4 DEF Insert

\* A fragment in a record's place: the one's size is taken off, the other's
\* added.
LEMMA ReplaceSizes ==
  ASSUME Inv, SizesInv, pc = "shrink", NEW i \in Candidates,
         NEW size \in Int, NEW advertised \in Int,
         Replace(i, Part(message[i].rr, rrids[i], size, advertised))
  PROVE  /\ Len(rrids') = Len(rrids) /\ Len(message') = Len(message)
         /\ cur_size' = SizeUpTo(message', Len(rrids'))
         /\ cur_size' = cur_size - RRSize(CachedRecord(i)) + (RRFRAGHEADER + size)
         /\ \A j \in 1 .. Len(message') : rrids'[j] # 0 => ~message'[j].isRRFrag
<1> DEFINE f == Part(message[i].rr, rrids[i], size, advertised)
           rr == CachedRecord(i)
<1>1. /\ message' = [message EXCEPT ![i] = f]
      /\ rrids' = [rrids EXCEPT ![i] = 0]
      /\ cur_size' = SizeWith(rr, f)
  BY DEF Replace
<1>2. /\ message \in Seq(Items) /\ rrids \in Seq(Rrids) /\ Len(rrids) = Len(message)
      /\ Len(rrids) \in Nat
  BY DEF Inv, Shape, SizesInv
<1>3. /\ i \in 1 .. Len(rrids) /\ rrids[i] # 0 /\ rrids[i] \in Rrids
      /\ rr = message[i].rr /\ rr \in Record /\ ~message[i].isRRFrag
  BY <1>2 DEF Inv, Shape, Candidates, RridsNamed, CachedRecord, SizesInv
<1>4. f \in Items /\ ItemSize(f) = RRFRAGHEADER + size /\ f.isRRFrag
  <2>1. message[i].rr \in Record /\ rrids[i] \in Rrids
    BY <1>3
  <2>2. f \in Items
    BY <2>1 DEF Items
  <2> QED
    BY <2>2 DEF Part, ItemSize
<1>5. ItemSize(message[i]) = RRSize(rr) /\ RRSize(rr) \in Int
  <2>1. rr.name \in Int /\ rr.rdsize \in Int
    <3> HIDE DEF rr
    <3> QED
      BY <1>3 DEF Record
  <2> QED
    BY <1>3, <2>1 DEF ItemSize, RRSize, RRHEADER
<1> HIDE DEF f, rr
<1>6. 0 \in Rrids
  BY ResponderAssumption DEF Rrids
<1>7. message' \in Seq(Items) /\ Len(message') = Len(message)
      /\ Len(rrids') = Len(rrids)
      /\ message'[i] = f /\ \A j \in 1 .. Len(message) : j # i => message'[j] = message[j]
  <2>1. message' \in Seq(Items) /\ Len(message') = Len(message)
    BY <1>1, <1>2, <1>3, <1>4, ExceptSeq
  <2>2. Len(rrids') = Len(rrids)
    BY <1>1, <1>2, <1>3, <1>6, ExceptSeq
  <2>3. message'[i] = f /\ \A j \in 1 .. Len(message) : j # i => message'[j] = message[j]
    BY <1>1, <1>2, <1>3
  <2> QED
    BY <2>1, <2>2, <2>3
<1> DEFINE old == ItemSizes(message)
           new == ItemSizes(message')
<1>8. /\ old \in Seq(Int) /\ new \in Seq(Int) /\ Len(old) = Len(message)
      /\ Len(new) = Len(message) /\ i \in 1 .. Len(old)
      /\ old[i] = RRSize(rr) /\ new[i] = RRFRAGHEADER + size
      /\ \A j \in 1 .. Len(old) : j # i => new[j] = old[j]
  <2>1. /\ old \in Seq(Int) /\ Len(old) = Len(message)
        /\ \A j \in 1 .. Len(message) : old[j] = ItemSize(message[j])
    BY <1>2, SizesAreNumbers
  <2>2. /\ new \in Seq(Int) /\ Len(new) = Len(message)
        /\ \A j \in 1 .. Len(message) : new[j] = ItemSize(message'[j])
    BY <1>7, SizesAreNumbers
  <2> HIDE DEF old, new
  <2> QED
    BY <1>2, <1>3, <1>4, <1>5, <1>7, <2>1, <2>2
<1> HIDE DEF old, new
<1>9. Total(new) = Total(old) - old[i] + new[i] /\ Total(old) \in Int
  <2>1. Total(new) = Total(old) - old[i] + new[i]
    BY <1>8, TotalReplace
  <2>2. Total(old) \in Int
    BY <1>8, TotalAppend
  <2> QED
    BY <2>1, <2>2
<1>10. /\ cur_size = DNSMESSAGEHEADER + QSIZE + Total(old)
       /\ SizeUpTo(message', Len(rrids')) = DNSMESSAGEHEADER + QSIZE + Total(new)
  BY <1>2, <1>7, <1>8 DEF SizesInv, SizeUpTo, Total, old, new
<1>11. cur_size' = cur_size - RRSize(rr) + (RRFRAGHEADER + size)
  BY <1>1, <1>4 DEF SizeWith
<1>12. cur_size' = SizeUpTo(message', Len(rrids'))
  <2> DEFINE c == cur_size
             d == cur_size'
             total == Total(old)
             r == RRSize(rr)
             u == SizeUpTo(message', Len(rrids'))
             v == Total(new)
  <2>1. c \in Int /\ total \in Int /\ r \in Int
    BY <1>5, <1>9 DEF Inv, Shape
  <2>2. c = DNSMESSAGEHEADER + QSIZE + total /\ u = DNSMESSAGEHEADER + QSIZE + v
    BY <1>10
  <2>3. d = c - r + (RRFRAGHEADER + size)
    BY <1>11
  <2>4. v = total - r + (RRFRAGHEADER + size)
    BY <1>8, <1>9
  <2> HIDE DEF c, d, total, r, u, v
  <2>5. d = u
    BY <2>1, <2>2, <2>3, <2>4, ResponderAssumption DEF DNSMESSAGEHEADER, RRFRAGHEADER
  <2> QED
    BY <2>5 DEF d, u
<1>13. ASSUME NEW j \in 1 .. Len(message'), rrids'[j] # 0
       PROVE  ~message'[j].isRRFrag
  <2>1. j # i /\ j \in 1 .. Len(message) /\ rrids'[j] = rrids[j]
    BY <1>1, <1>2, <1>3, <1>7, <1>13
  <2> QED
    BY <1>7, <1>13, <2>1 DEF SizesInv
<1> QED
  BY <1>7, <1>11, <1>12, <1>13 DEF rr

\* When the record's data was too much but its header is not, the fragment that
\* takes its place fits: the room is an absolute value, but never more than
\* there is.
LEMMA RoomFits ==
  ASSUME NEW rr \in Record, cur_size \in Int, cur_size - rr.rdsize < Limit
  PROVE  cur_size - RRSize(rr) + (RRFRAGHEADER + WholeBlocks(Room(rr))) <= MAXUDP
<1> DEFINE name == rr.name
           data == rr.rdsize
           over == cur_size + RRFRAGHEADER - RRHEADER - name - Limit
           room == Room(rr)
           blocks == WholeBlocks(room)
<1>1. name \in Nat /\ data \in Nat /\ MAXUDP \in Nat
  BY ResponderAssumption DEF Record
<1>2. room \in 0 .. data /\ blocks \in 0 .. room
  BY RoomUsable
<1>3. room = IF Abs(over) > data THEN 0 ELSE data - Abs(over)
  BY DEF Room
<1>4. RRSize(rr) = name + RRHEADER + data
  BY DEF RRSize
<1> HIDE DEF name, room, blocks, data
<1>5. over \in Int /\ over = cur_size + 5 - name - (MAXUDP - 12)
      /\ cur_size - data < MAXUDP - 12
  BY <1>1 DEF Limit, RRHEADER, RRFRAGHEADER, DNSMESSAGEHEADER, data
<1>6. cur_size - RRSize(rr) + (RRFRAGHEADER + blocks) = over + (MAXUDP - 12) - data + blocks
  BY <1>1, <1>2, <1>4, <1>5 DEF RRHEADER, RRFRAGHEADER
<1> HIDE DEF over
<1>7. over + (MAXUDP - 12) - data + blocks <= MAXUDP
  <2>1. CASE Abs(over) > data
    <3>1. blocks = 0
      BY <1>1, <1>2, <1>3, <2>1
    <3> QED
      BY <1>1, <1>5, <3>1
  <2>2. CASE ~(Abs(over) > data)
    <3>1. Abs(over) \in Nat /\ over <= Abs(over)
      BY <1>5 DEF Abs
    <3>2. blocks <= data - Abs(over)
      BY <1>1, <1>2, <1>3, <2>2, <3>1
    <3> QED
      BY <1>1, <1>2, <1>5, <3>1, <3>2
  <2> QED
    BY <2>1, <2>2
<1> QED
  BY <1>6, <1>7 DEF blocks, room

\* One turn of the loop.
LEMMA ShrinkSizes ==
  ASSUME Inv, SizesInv, Shrink
  PROVE  SizesInv'
<1> DEFINE i == Largest
           rr == CachedRecord(i)
           blocks == WholeBlocks(Room(rr))
           advertised == IF Room(rr) > 0 THEN RRSize(rr) ELSE 0
<1>1. pc = "shrink"
  BY DEF Shrink
<1>2. CASE Candidates = {}
  <2>1. UNCHANGED <<message, rrids, cur_size, pc>> /\ status' # "aborted"
    BY <1>2 DEF Shrink
  <2> QED
    BY <1>1, <2>1 DEF SizesInv, SizeUpTo, NeverOversize
<1>3. CASE Candidates # {}
  <2>1. i \in Candidates
    BY <1>3, LargestIsCandidate
  <2>2. rr \in Record /\ cur_size \in Int
    BY <2>1 DEF Inv, Shape, Candidates, RridsNamed, CachedRecord
  <2>3. /\ status' = "running"
        /\ \/ /\ pc' = "shrink"
              /\ Replace(i, Part(message[i].rr, rrids[i], 0, RRSize(rr)))
           \/ /\ pc' = "send" /\ cur_size - rr.rdsize < Limit
              /\ Replace(i, Part(message[i].rr, rrids[i], blocks, advertised))
    BY <1>3 DEF Shrink, Running
  <2> HIDE DEF i
  <2>4. Room(rr) \in Int /\ blocks \in Int /\ RRSize(rr) \in Int
    <3>1. rr.rdsize \in Nat
      BY <2>2 DEF Record
    <3> HIDE DEF rr
    <3> QED
      BY <2>2, <3>1, RoomUsable
  <2>5. advertised \in Int
    BY <2>4
  <2>6. CASE /\ pc' = "shrink"
             /\ Replace(i, Part(message[i].rr, rrids[i], 0, RRSize(rr)))
    <3>1. /\ Len(rrids') = Len(rrids) /\ Len(message') = Len(message)
          /\ cur_size' = SizeUpTo(message', Len(rrids'))
          /\ \A j \in 1 .. Len(message') : rrids'[j] # 0 => ~message'[j].isRRFrag
      BY <1>1, <2>1, <2>4, <2>6, ReplaceSizes
    <3> QED
      BY <1>1, <2>3, <2>6, <3>1 DEF SizesInv, SizeUpTo, NeverOversize
  <2>7. CASE /\ pc' = "send" /\ cur_size - rr.rdsize < Limit
             /\ Replace(i, Part(message[i].rr, rrids[i], blocks, advertised))
    <3>1. cur_size - RRSize(rr) + (RRFRAGHEADER + blocks) <= MAXUDP
      <4> HIDE DEF rr
      <4> QED
        BY <2>2, <2>7, RoomFits
    <3> HIDE DEF blocks, advertised
    <3>2. /\ Len(rrids') = Len(rrids) /\ Len(message') = Len(message)
          /\ cur_size' = SizeUpTo(message', Len(rrids'))
          /\ cur_size' = cur_size - RRSize(rr) + (RRFRAGHEADER + blocks)
      BY <1>1, <2>1, <2>4, <2>5, <2>7, ReplaceSizes
    <3> QED
      BY <1>1, <2>3, <2>7, <3>1, <3>2 DEF SizesInv, SizeUpTo, NeverOversize
  <2> QED
    BY <2>3, <2>6, <2>7
<1> QED
  BY <1>2, <1>3

\* Steps that leave the message as it is and do not end the process.
LEMMA OthersSizes ==
  ASSUME SizesInv, UNCHANGED <<message, rrids, cur_size, pc>>, status' # "aborted"
         \/ status' = status
  PROVE  SizesInv'
BY DEF SizesInv, SizeUpTo, ItemSizes, ItemSize, NeverOversize, RRSize

LEMMA NextSizes == Inv /\ SizesInv /\ [Next]_vars => SizesInv'
<1> SUFFICES ASSUME Inv, SizesInv, [Next]_vars PROVE SizesInv'
  OBVIOUS
<1>1. CASE UNCHANGED vars
  BY <1>1, OthersSizes DEF vars, handler
<1>2. ASSUME NEW q \in Queries, Start(q) PROVE SizesInv'
  BY <1>2, OthersSizes DEF Start, handler
<1>3. ASSUME NEW q \in Queries, Answer(q) PROVE SizesInv'
  <2>1. status' = status
    BY <1>3 DEF Answer
  <2>2. CASE UNCHANGED handler
    BY <2>1, <2>2, OthersSizes DEF handler
  <2>3. CASE ~UNCHANGED handler
    <3>1. /\ message' = [i \in DOMAIN wanted[q] |-> Whole(wanted[q][i])]
          /\ rrids' = <<>> /\ cur_size' = DNSMESSAGEHEADER + QSIZE /\ pc' = "insert"
      BY <1>3, <2>3 DEF Answer
    <3>2. message' \in Seq(Items)
      BY <1>3, AnswerPreserves DEF Inv, Shape
    <3>3. Offsets(ItemSizes(message'))[0] = 0 /\ Len(message') \in Nat
      BY <3>2, SizesAreNumbers, OffsetsStep
    <3>4. \A i \in 1 .. Len(message') : ~message'[i].isRRFrag
      BY <3>1, <3>2 DEF Whole
    <3>5. Len(rrids') = 0
      BY <3>1
    <3>6. cur_size' = SizeUpTo(message', 0)
      BY <3>1, <3>3, ResponderAssumption DEF SizeUpTo, DNSMESSAGEHEADER
    <3> QED
      BY <2>1, <3>1, <3>3, <3>4, <3>5, <3>6 DEF SizesInv, NeverOversize, SizeUpTo
  <2> QED
    BY <2>2, <2>3
<1>4. CASE Insert
  BY <1>4, InsertSizes
<1>5. CASE Inserted
  <2>1. /\ pc = "insert" /\ pc' = "shrink" /\ Len(rrids) = Len(message)
        /\ UNCHANGED <<message, rrids, cur_size, status>>
    BY <1>5 DEF Inserted
  <2> QED
    BY <2>1 DEF SizesInv, NeverOversize, SizeUpTo
<1>6. CASE Fits
  <2>1. /\ pc = "shrink" /\ pc' = "send" /\ cur_size <= Limit
        /\ UNCHANGED <<message, rrids, cur_size, status>>
    BY <1>6 DEF Fits
  <2>2. cur_size <= MAXUDP
    BY <2>1, ResponderAssumption DEF Limit, DNSMESSAGEHEADER, Inv, Shape
  <2> QED
    BY <2>1, <2>2 DEF SizesInv, NeverOversize, SizeUpTo
<1>7. CASE Shrink
  BY <1>7, ShrinkSizes
<1>8. CASE Send
  <2>1. pc = "send" /\ pc' = "idle" /\ status = "running"
    BY <1>8 DEF Send, Running
  <2>2. MessageSize(message) <= MAXUDP
    <3>1. MessageSize(message) = SizeUpTo(message, Len(message))
      BY WholeMessage DEF Inv, Shape
    <3>2. cur_size = SizeUpTo(message, Len(message)) /\ cur_size <= MAXUDP
      BY <2>1 DEF SizesInv
    <3> QED
      BY <3>1, <3>2
  <2>3. status' = status
    <3>1. ~(MessageSize(message) > MAXUDP)
      <4>1. MessageSize(message) \in Int /\ MAXUDP \in Int
        BY <2>1, WholeMessage, ResponderAssumption DEF SizesInv, Inv, Shape
      <4> QED
        BY <2>2, <4>1
    <3> QED
      BY <1>8, <3>1 DEF Send
  <2> QED
    BY <2>1, <2>3 DEF SizesInv, NeverOversize
<1>9. ASSUME NEW f \in Announced, Serve(f) PROVE SizesInv'
  <2>1. UNCHANGED <<message, rrids, cur_size, pc>> /\ status' # "aborted"
    BY <1>9 DEF Serve, handler, Running
  <2> QED
    BY <2>1, OthersSizes
<1> QED
  BY <1>1, <1>2, <1>3, <1>4, <1>5, <1>6, <1>7, <1>8, <1>9 DEF Next

\* The size is kept right record by record and fragment by fragment.
THEOREM SizesInvariance == Spec => []SizesInv
<1>1. Init => SizesInv
  BY DEF Init, SizesInv, NeverOversize
<1> QED
  BY <1>1, NextSizes, NamesInvariance, PTL DEF Spec

\* The size that insert_into_state_and_construct_map keeps by adding and
\* subtracting, from cached records, is the length of the message.
THEOREM SizeAccountedHolds == Spec => []SizeAccounted
<1>1. Inv /\ SizesInv => SizeAccounted
  BY WholeMessage DEF Inv, Shape, SizesInv, SizeAccounted
<1> QED
  BY <1>1, SizesInvariance, NamesInvariance, PTL

\* The assertion of responding_thread_end cannot fail: whatever the records and
\* their sizes, a first response that is sent keeps to MAXUDP.
THEOREM NeverOversizeHolds == Spec => []NeverOversize
<1>1. SizesInv => NeverOversize
  BY DEF SizesInv
<1> QED
  BY <1>1, SizesInvariance, PTL
=============================================================================
