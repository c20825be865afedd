------------------------------ MODULE MCCodec ------------------------------
(***************************************************************************)
(* Messages for TLC: queries and responses with up to two records in one   *)
(* section and one in another.  Names are the root, one and two labels, a  *)
(* pointer, labels before a pointer, and a pointer to an offset that is a  *)
(* multiple of 256; types are A, RRSIG and CAA, which needs both bytes.    *)
(***************************************************************************)
EXTENDS Codec

Texts == {<<DOT>>, <<119, DOT>>, <<119, DOT, 120, 121, DOT>>}
Names ==
  {dns_name_to_bytes(t) : t \in Texts} \cup {<<192, 12>>, <<1, 119, 192, 12>>, <<193, 0>>}

RRs ==
  {[type |-> t, name_bytes |-> n, clas |-> 1, ttl |-> 3600, rdata |-> d] :
     t \in {1, 257}, n \in Names, d \in {<<>>, <<0, 7>>}}
    \cup {[type |-> 46, name_bytes |-> n, clas |-> 1, ttl |-> 0, rdata |-> <<7, 0, 0>>] :
            n \in Names}

Fragments(data) ==
  {[type |-> RRFRAG, fragsize |-> Len(d), curidx |-> 32, rrsize |-> 2420,
    rrid |-> 300, fragdata |-> d] : d \in data}
Asked ==
  {[type |-> RRFRAG, fragsize |-> 3, curidx |-> i, rrsize |-> 2420,
    rrid |-> 7, fragdata |-> NULL] : i \in {0, 64}}

Questions == {[qname |-> t, qtype |-> 1, qclass |-> 1] : t \in Texts}

FollowUp == [qname |-> <<>>, qtype |-> RRFRAG, qclass |-> 1]

Message(flags, question, s, t, u) ==
  LET packed(rrs) == [i \in DOMAIN rrs |-> packedrr_create(rrs[i])] IN
  [identification |-> 513, flags |-> flags,
   sections |-> <<question, packed(s), packed(t), packed(u)>>]

Opt == [type |-> 41, name_bytes |-> <<0>>, clas |-> 1232, ttl |-> 0, rdata |-> <<>>]

ItemsOfResponse == RRs \cup Fragments({<<>>, <<0, 5, 0>>})

SomeMessages ==
  {Message(0, <<q>>, <<>>, <<>>, <<Opt>>) : q \in Questions}
  \cup {Message(0, <<FollowUp>>, <<>>, <<>>, asks) :
          asks \in {<<f>> : f \in Asked} \cup {<<f, g>> : f, g \in Asked}}
  \cup {Message(QRFLAG, <<q>>, <<a>>, <<b>>, <<Opt>>) :
          q \in Questions, a, b \in ItemsOfResponse}
  \cup {Message(QRFLAG, <<>>, <<a, b>>, <<>>, <<>>) : a, b \in ItemsOfResponse}
=============================================================================
