------------------------------- MODULE Codec -------------------------------
(***************************************************************************)
(* A DNS message written to bytes and read back: dns_message_to_bytes and  *)
(* dns_message_from_bytes with the functions they call for questions,      *)
(* records and fragments.  Nothing in the bytes says how long a question   *)
(* or a record is: the reader finds the end of its name by scanning for a  *)
(* zero, the rest by the fields behind it, and begins with the next one    *)
(* where it believes this one to end.  What this module is about is        *)
(* whether the reader keeps in step with the writer.                       *)
(*                                                                         *)
(* Bytes are numbers; a message is one that a name server or the daemon    *)
(* itself builds.  One step reads one question or record.                  *)
(***************************************************************************)
EXTENDS PartialRR, Sequences, SequencesExt

CONSTANTS
  Messages,    \* the messages written
  RRFRAG       \* the type of a fragment, 108 in the code

DOT == 46
WORD == 65536               \* what fits in two bytes is less
DNSHEADERSIZE == 12
RRHEADER == 10
RRFRAGHEADER == 15
NULL == <<-1>>              \* a fragment without data, not with none

\* The sections of a message: the questions, then the records that answer
\* them, are authoritative for them or are additional to them.
QUESTIONS == 1
Sections == 1 .. 4

VARIABLES
  message,   \* the message written
  bytes,     \* what dns_message_to_bytes made of it
  cur_pos,   \* reader: how many of them it has read
  counts,    \* reader: how much is left to read of each section
  parsed,    \* reader: what it has read
  pc,        \* "write", "header", "questions", "records" or "done"
  status     \* "running", "aborted" (an assertion) or "overrun"

vars == <<message, bytes, cur_pos, counts, parsed, pc, status>>

Running == status = "running"
-----------------------------------------------------------------------------
\* htons, htonl: a number in two bytes and in four.
BE2(n) == <<(n \div 256) % 256, n % 256>>
BE4(n) == BE2(n \div WORD) \o BE2(n)

\* dns_name_to_bytes: each dot of the text, and its beginning, makes room for
\* the length of the label that follows.
dns_name_to_bytes(text) ==
  LET label(i) == {j \in i .. Len(text) : text[j] = DOT}
      length(i) == (IF label(i) = {} THEN Len(text) + 1 ELSE Min(label(i))) - i
  IN  IF text \in {<<>>, <<DOT>>} THEN <<0>>
      ELSE [i \in 1 .. Len(text) |->
              IF i = 1 \/ text[i - 1] = DOT THEN length(i) ELSE text[i - 1]] \o <<0>>

question_to_bytes(q) ==
  dns_name_to_bytes(q.qname) \o BE2(q.qtype) \o BE2(q.qclass)

resource_record_to_bytes(rr) ==
  rr.name_bytes \o BE2(rr.type) \o BE2(rr.clas) \o BE4(rr.ttl)
    \o BE2(Len(rr.rdata)) \o rr.rdata

\* (mutant) A fragment asked for comes with its data.
PaddedFragment(f) ==
  <<0>> \o BE2(f.type) \o BE2(f.fragsize) \o BE4(f.curidx)
    \o BE4(f.rrsize) \o BE2(f.rrid)
    \o (IF f.fragdata = NULL THEN [i \in 1 .. f.fragsize |-> 0] ELSE f.fragdata)

rrfrag_to_bytes(f) ==
  <<0>> \o BE2(f.type) \o BE2(f.fragsize) \o BE4(f.curidx)
    \o BE4(f.rrsize) \o BE2(f.rrid)
    \o (IF f.fragdata = NULL THEN <<>> ELSE f.fragdata)

\* packedrr_create
packedrr_create(in) == [isRRFrag |-> in.type = RRFRAG, data |-> in]

packedrr_to_bytes(prr) ==
  IF prr.isRRFrag THEN rrfrag_to_bytes(prr.data)
  ELSE resource_record_to_bytes(prr.data)

\* The questions and records of a message in the order they are written.
Part(k, item) ==
  IF k = QUESTIONS THEN question_to_bytes(item) ELSE packedrr_to_bytes(item)

SectionParts(m, k) ==
  [i \in DOMAIN m.sections[k] |-> Part(k, m.sections[k][i])]

Parts(m) ==
  SectionParts(m, 1) \o SectionParts(m, 2) \o SectionParts(m, 3) \o SectionParts(m, 4)

Count(m, k) == BE2(Len(m.sections[k]))

Header(m) ==
  BE2(m.identification) \o BE2(m.flags)
    \o Count(m, 1) \o Count(m, 2) \o Count(m, 3) \o Count(m, 4)

dns_message_to_bytes(m) == Header(m) \o FlattenSeq(Parts(m))
-----------------------------------------------------------------------------
(***************************************************************************)
(* Reading.  Offsets count from 0, as in the code.  A function that reads  *)
(* a part returns how many bytes it processed and what it read, or why it  *)
(* failed.                                                                 *)
(***************************************************************************)
At(i) == bytes[i + 1]
Bytes(from, n) == SubSeq(bytes, from + 1, from + n)
Number2(from) == 256 * At(from) + At(from + 1)
Number4(from) == WORD * Number2(from) + Number2(from + 2)

Zeros(from) == {i \in from .. Len(bytes) - 1 : At(i) = 0}

\* The scan for the zero that ends a name, zero included; a name without one
\* is scanned past the end of the message.
Scanned(from) == Min(Zeros(from)) - from + 1

\* dns_name_from_bytes: where it looks for the next label after looking at i
\* in a name of n bytes, and the places it comes to; it stops where it stays.
NextLabel(from, n, i) ==
  IF i >= n \/ At(from + i) = 0 \/ At(from + i) + i > n THEN i
  ELSE i + At(from + i) + 1

Places(from, n) ==
  LET place[k \in 0 .. n] ==
        IF k = 0 THEN 0 ELSE NextLabel(from, n, place[k - 1])
  IN  place

Labels(from, n) == {Places(from, n)[k] : k \in 0 .. n}

Stop(from, n) == Places(from, n)[n]

\* It stops at a length that exceeds the name, which stands for a pointer.
IsPointerName(from, n) == Stop(from, n) < n /\ At(from + Stop(from, n)) # 0

\* (mutant) The zero is counted into a name that ends in a pointer.
WithZero(from, n) == IF IsPointerName(from, n) THEN n ELSE Stop(from, n) + 1

\* bytes_processed of dns_name_from_bytes.
NameBytes(from, n) == IF IsPointerName(from, n) THEN n - 1 ELSE Stop(from, n) + 1

POINTERNAME == <<"POINTER NAME">>

\* The text of a name, each length but the first turned into a dot.
NameText(from, n) ==
  IF IsPointerName(from, n) THEN POINTERNAME
  ELSE IF Stop(from, n) = 0 THEN <<DOT>>
  ELSE [i \in 1 .. Stop(from, n) |->
          IF i \in Labels(from, n) THEN DOT ELSE At(from + i)]

Read(n, item) == [outcome |-> "running", processed |-> n, item |-> item]
Failed(why) == [outcome |-> why, processed |-> 0]

question_from_bytes(from) ==
  LET n == Scanned(from)
      fields == from + NameBytes(from, n)
  IN  IF Stop(from, n) > n THEN Failed("aborted")
      ELSE IF from + n + 4 > Len(bytes) THEN Failed("overrun")
      ELSE Read(n + 4,
             [qname |-> NameText(from, n), qtype |-> Number2(fields),
              qclass |-> Number2(fields + 2)])

\* is_rrfrag
is_rrfrag(from) == Number2(from + Scanned(from)) = RRFRAG

FragmentAt(from, withdata) ==
  LET fragsize == Number2(from + 3)
      datasize == IF withdata THEN fragsize ELSE 0
  IN  IF At(from) # 0 THEN Failed("aborted")
      ELSE IF \/ from + RRFRAGHEADER > Len(bytes)
              \/ from + RRFRAGHEADER + datasize > Len(bytes)
           THEN Failed("overrun")
      ELSE Read(RRFRAGHEADER + datasize,
             [type |-> RRFRAG, fragsize |-> fragsize, curidx |-> Number4(from + 5),
              rrsize |-> Number4(from + 9), rrid |-> Number2(from + 13),
              fragdata |-> IF withdata THEN Bytes(from + 15, fragsize) ELSE NULL])

\* (mutant) The data are taken to be there, whoever asks.
AlwaysData(from, query) == FragmentAt(from, TRUE)

rrfrag_from_bytes(from, query) == FragmentAt(from, ~query)

resource_record_from_bytes(from) ==
  LET n == Scanned(from)
      fields == from + NameBytes(from, n)
      rdsize == Number2(fields + 8)
      rdata == fields + RRHEADER
  IN  IF Stop(from, n) > n THEN Failed("aborted")
      ELSE IF rdata > Len(bytes) THEN Failed("overrun")
      ELSE IF Number2(fields) = RRFRAG \/ rdsize > Len(bytes) - rdata
           THEN Failed("aborted")
      ELSE Read(rdata + rdsize - from,
             [type |-> Number2(fields), name_bytes |-> Bytes(from, fields - from),
              clas |-> Number2(fields + 2), ttl |-> Number4(fields + 4),
              rdata |-> Bytes(rdata, rdsize)])

packedrr_from_bytes(from, query) ==
  IF is_rrfrag(from) THEN rrfrag_from_bytes(from, query)
  ELSE resource_record_from_bytes(from)
-----------------------------------------------------------------------------
QRFLAG == 32768
RCODEMASK == 15

\* dns_message_from_bytes: query
IsQuery(flags) == flags < QRFLAG /\ flags % (RCODEMASK + 1) = 0

Blank == [identification |-> 0, flags |-> 0, sections |-> [k \in Sections |-> <<>>]]

Init ==
  /\ message \in Messages
  /\ bytes = <<>> /\ cur_pos = 0 /\ counts = [k \in Sections |-> 0]
  /\ parsed = Blank /\ pc = "write" /\ status = "running"

Write ==
  /\ pc = "write"
  /\ bytes' = dns_message_to_bytes(message) /\ pc' = "header"
  /\ UNCHANGED <<message, cur_pos, counts, parsed, status>>

ReadHeader ==
  /\ pc = "header"
  /\ parsed' = [identification |-> Number2(0), flags |-> Number2(2),
                sections |-> parsed.sections]
  /\ counts' = [k \in Sections |-> Number2(2 + 2 * k)]
  /\ cur_pos' = DNSHEADERSIZE /\ pc' = "questions"
  /\ UNCHANGED <<message, bytes, status>>

\* A loop reads its next item, and goes on behind it or fails.
Take(result, k, item) ==
  /\ status' = result.outcome
  /\ IF result.outcome = "running"
     THEN /\ cur_pos' = cur_pos + result.processed
          /\ counts' = [counts EXCEPT ![k] = @ - 1]
          /\ parsed' = [parsed EXCEPT !.sections[k] = Append(@, item)]
     ELSE UNCHANGED <<cur_pos, counts, parsed>>
  /\ UNCHANGED <<message, bytes, pc>>

\* Nothing more of the message can be read: a scan finds no zero, or finds it
\* so late that the type is behind the end.
OffTheEnd == Zeros(cur_pos) = {} \/ cur_pos + Scanned(cur_pos) + 2 > Len(bytes)

ReadQuestion ==
  LET result == IF OffTheEnd THEN Failed("overrun") ELSE question_from_bytes(cur_pos)
  IN  /\ Running /\ pc = "questions" /\ counts[QUESTIONS] > 0
      /\ Take(result, QUESTIONS, result.item)

\* The sections of records of which some are left.
Left == {k \in Sections \ {QUESTIONS} : counts[k] > 0}

ReadRecord ==
  LET result == IF OffTheEnd THEN Failed("overrun")
                ELSE packedrr_from_bytes(cur_pos, IsQuery(parsed.flags))
  IN  /\ Running /\ pc = "records" /\ Left # {}
      /\ Take(result, Min(Left), packedrr_create(result.item))

EndQuestions ==
  /\ Running /\ pc = "questions" /\ counts[QUESTIONS] = 0 /\ pc' = "records"
  /\ UNCHANGED <<message, bytes, cur_pos, counts, parsed, status>>

\* dns_message_create
Create ==
  /\ Running /\ pc = "records" /\ Left = {} /\ pc' = "done"
  /\ UNCHANGED <<message, bytes, cur_pos, counts, parsed, status>>

Next == Write \/ ReadHeader \/ ReadQuestion \/ EndQuestions \/ ReadRecord \/ Create

Spec == Init /\ [][Next]_vars
-----------------------------------------------------------------------------
(***************************************************************************)
(* The messages there are.  Labels are of 1 to 63 bytes, each behind its   *)
(* length; the last is followed by a zero or by a pointer: two bytes, the  *)
(* first 192 or more, as no length is.  The text of a name has a dot after *)
(* each label.  Numbers fit the fields that hold them.                     *)
(***************************************************************************)
Byte == 0 .. 255
Word == 0 .. WORD - 1
IsDWord(n) == n \in Nat /\ n \div WORD \in Word

\* Labels, one after another, fill the first n bytes of a name.
LabelsFill(name, n) ==
  \E starts \in SUBSET (0 .. n) :
    /\ {0, n} \subseteq starts
    /\ \A i \in starts \ {n} :
         name[i + 1] \in 1 .. 63 /\ i + name[i + 1] + 1 \in starts

EndsInRoot(name) ==
  /\ name # <<>> /\ name[Len(name)] = 0
  /\ LabelsFill(name, Len(name) - 1)

EndsInPointer(name) ==
  /\ Len(name) >= 2 /\ name[Len(name) - 1] >= 192
  /\ LabelsFill(name, Len(name) - 2)

IsText(text) ==
  \/ text \in {<<>>, <<DOT>>}
  \/ /\ text # <<>> /\ text \in Seq(Byte \ {0})
     /\ text[1] # DOT /\ text[Len(text)] = DOT
     /\ \A i \in 2 .. Len(text) : ~ (text[i - 1] = DOT /\ text[i] = DOT)
     /\ \A i \in 1 .. Len(text) : \E j \in i .. i + 63 : j <= Len(text) /\ text[j] = DOT

IsQuestion(q) ==
  /\ q \in [qname : Seq(Byte), qtype : Word, qclass : Word]
  /\ IsText(q.qname)

IsRecord(rr) ==
  /\ rr \in [type : Word \ {RRFRAG}, name_bytes : Seq(Byte), clas : Word, ttl : Nat,
             rdata : Seq(Byte)]
  /\ EndsInRoot(rr.name_bytes) \/ EndsInPointer(rr.name_bytes)
  /\ IsDWord(rr.ttl) /\ Len(rr.rdata) \in Word

IsFragment(f) ==
  /\ f \in [type : {RRFRAG}, fragsize : Word, curidx : Nat, rrsize : Nat, rrid : Word,
            fragdata : {NULL} \cup Seq(Byte)]
  /\ IsDWord(f.curidx) /\ IsDWord(f.rrsize)
  /\ f.fragdata = NULL \/ Len(f.fragdata) = f.fragsize

IsItem(k, item) ==
  IF k = QUESTIONS THEN IsQuestion(item)
  ELSE /\ item = packedrr_create(item.data)
       /\ IF item.isRRFrag THEN IsFragment(item.data) ELSE IsRecord(item.data)

IsMessage(m) ==
  /\ m = [identification |-> m.identification, flags |-> m.flags, sections |-> m.sections]
  /\ m.identification \in Word /\ m.flags \in Word
  /\ DOMAIN m.sections = Sections
  /\ \A k \in Sections :
       /\ m.sections[k] \in Seq(ToSet(m.sections[k])) /\ Len(m.sections[k]) \in Word
       /\ \A i \in DOMAIN m.sections[k] : IsItem(k, m.sections[k][i])

ASSUME CodecAssumption == RRFRAG \in 1 .. 255 /\ \A m \in Messages : IsMessage(m)
-----------------------------------------------------------------------------
(***************************************************************************)
(* What the scan can cope with, said of the message alone: a name that     *)
(* ends in its only zero; or one that has no zero, ends in a pointer and   *)
(* is followed by a type whose first byte is 0 and whose second is not.    *)
(***************************************************************************)
Zeroless(name) == \A i \in DOMAIN name : name[i] # 0

OnlyLastZero(name) == \A i \in DOMAIN name : name[i] = 0 => i = Len(name)

Scannable(rr) ==
  \/ EndsInRoot(rr.name_bytes) /\ OnlyLastZero(rr.name_bytes)
  \/ EndsInPointer(rr.name_bytes) /\ Zeroless(rr.name_bytes) /\ rr.type \in 1 .. 255

\* A fragment is to be read if it has no data in a query, where it asks for
\* them, and has data elsewhere.
ReadableItem(m, item) ==
  IF item.isRRFrag THEN item.data.fragdata = NULL <=> IsQuery(m.flags)
  ELSE Scannable(item.data)

Readable(m) ==
  \A k \in Sections \ {QUESTIONS} : \A i \in DOMAIN m.sections[k] :
    ReadableItem(m, m.sections[k][i])

\* The empty name is written like the root.
RootAsDot(k, item) ==
  IF k = QUESTIONS /\ item.qname = <<>> THEN [item EXCEPT !.qname = <<DOT>>] ELSE item

\* The first n of each section of a message, as they are read.
Expected(m, n) ==
  [k \in Sections |-> [i \in 1 .. n[k] |-> RootAsDot(k, m.sections[k][i])]]

Lengths(m) == [k \in Sections |-> Len(m.sections[k])]

\* A message in which every name can be scanned is read back as it was
\* written, to its last byte, whatever follows a compressed name; only the
\* empty name that a follow-up query asks for comes back as the root, a dot.
RoundTrips ==
  pc = "done" /\ Readable(message) =>
    /\ parsed = [message EXCEPT !.sections = Expected(message, Lengths(message))]
    /\ cur_pos = Len(bytes)

\* Reading such a message neither trips an assertion nor leaves the message.
NeverFails == Readable(message) => Running

\* What the daemon takes the size of a question or record to be: 10 bytes and
\* the name for a record, 15 for a fragment, and its data where it has any.
PartSize(k, item) ==
  IF k = QUESTIONS THEN Len(dns_name_to_bytes(item.qname)) + 4
  ELSE IF item.isRRFrag
       THEN RRFRAGHEADER
              + (IF item.data.fragdata = NULL THEN 0 ELSE item.data.fragsize)
       ELSE Len(item.data.name_bytes) + RRHEADER + Len(item.data.rdata)

SectionSizes(m, k) ==
  [i \in DOMAIN m.sections[k] |-> PartSize(k, m.sections[k][i])]

PartSizes(m) ==
  SectionSizes(m, 1) \o SectionSizes(m, 2) \o SectionSizes(m, 3) \o SectionSizes(m, 4)

\* A message is as long as the sum that the daemon keeps while it builds one.
LengthAccounted ==
  pc # "write" => Len(bytes) = DNSHEADERSIZE + Total(PartSizes(message))
=============================================================================
