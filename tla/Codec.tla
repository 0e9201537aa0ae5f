------------------------------- MODULE Codec -------------------------------
(***************************************************************************)
(* A message on its way: a sender marshals it, the bytes arrive as they    *)
(* are or altered, a node unmarshals them, and what it has understood it   *)
(* marshals into its store and reads again later.                          *)
(***************************************************************************)
EXTENDS Wire, SequencesExt

CONSTANTS
  Samples,      \* the messages that are sent, and the messages in them
  Extensions,   \* fields of a later version of the protocol
  RawMessages,  \* the kinds of messages that raw bytes are taken for
  RawBytes,     \* the bytes that raw input is made of
  MaxRaw        \* bound on the length of raw input

VARIABLES
  sent,   \* the message that was marshalled
  fault   \* what happened to the bytes: "none", "extended", "cut" or "raw"

vars == <<decoderVars, sent, fault>>

-----------------------------------------------------------------------------
(* Marshal, and the bytes that it allocates.  A kind of message is generated *)
(* after the kinds that it embeds, and its code calls theirs: Inner below.   *)

\* The kinds that embed only kinds of a set.
Embedding(kinds) ==
  {fields \in Schemas : \A n \in 1 .. Len(fields) :
     fields[n].type = "message" => fields[n].fields \in kinds}

\* As the query for an order book embeds a book, that orders, and those coins.
ASSUME NestingAssumption ==
  /\ Schemas = Embedding(Embedding(Embedding(Embedding({}))))
  /\ \A fields \in Schemas : 1 .. Len(fields) \subseteq FieldNumbers

LeavesNilOut(n, field, message) ==
  IF n \in DOMAIN message THEN IF field.card = "many" THEN message[n] ELSE <<message[n]>>
  ELSE IF field.card = "one" /\ field.type = "message" THEN <<EmptyStore>>
  ELSE <<>>

\* What is written of a field.  Zero values are left out, except that an embedded
\* message is always written, and an integer too, a nil one as 0.
Elements(n, field, message) ==
  IF n \in DOMAIN message THEN IF field.card = "many" THEN message[n] ELSE <<message[n]>>
  ELSE IF field.card = "one" /\ field.type = "message" THEN <<EmptyStore>>
  ELSE IF field.type = "integer" THEN <<ZeroInteger>>
  ELSE <<>>

ElementBy(Inner(_, _), n, field, x) ==
  Written(n, WireTypeOf(field),
          CASE field.type \in Numbers   -> AsUint64(x)
            [] field.type \in {"text", "integer"} -> x
            [] field.type = "message"   -> Inner(field.fields, x))

FieldBy(Inner(_, _), n, field, elements) ==
  FlattenSeq([i \in 1 .. Len(elements) |-> ElementBy(Inner, n, field, elements[i])])

MarshalBy(Inner(_, _), fields, message) ==
  FlattenSeq([n \in 1 .. Len(fields) |->
                FieldBy(Inner, n, fields[n], Elements(n, fields[n], message))])

MarshalFlat(fields, message)  == MarshalBy(LAMBDA f, m : <<>>, fields, message)
MarshalOnce(fields, message)  == MarshalBy(MarshalFlat, fields, message)
MarshalTwice(fields, message) == MarshalBy(MarshalOnce, fields, message)
Marshal(fields, message)      == MarshalBy(MarshalTwice, fields, message)

SizeOfElementBy(Inner(_, _), n, field, x) ==
  LET Prefix(l) == l + Sov(AsUint64(l))
  IN Sov(n * 8) +
       CASE field.type \in Numbers -> Sov(AsUint64(x))
         [] field.type \in {"text", "integer"} -> Prefix(Len(x))
         [] field.type = "message" -> Prefix(Inner(field.fields, x))

SizeOfFieldBy(Inner(_, _), n, field, elements) ==
  SumFunction([i \in 1 .. Len(elements) |-> SizeOfElementBy(Inner, n, field, elements[i])])

SizeBy(Inner(_, _), fields, message) ==
  SumFunction([n \in 1 .. Len(fields) |->
                 SizeOfFieldBy(Inner, n, fields[n], Elements(n, fields[n], message))])

\* The bytes that Marshal allocates before it fills them from the end.
SizeFlat(fields, message)  == SizeBy(LAMBDA f, m : 0, fields, message)
SizeOnce(fields, message)  == SizeBy(SizeFlat, fields, message)
SizeTwice(fields, message) == SizeBy(SizeOnce, fields, message)
Size(fields, message)      == SizeBy(SizeTwice, fields, message)

\* A message as it is meant to arrive: a nil integer counts as zero.
SettledBy(Inner(_, _), fields, message) ==
  [n \in {k \in 1 .. Len(fields) : k \in DOMAIN message \/ fields[k].type = "integer"} |->
     IF n \notin DOMAIN message THEN ZeroInteger
     ELSE IF fields[n].type # "message" THEN message[n]
     ELSE IF fields[n].card # "many" THEN Inner(fields[n].fields, message[n])
     ELSE [i \in 1 .. Len(message[n]) |-> Inner(fields[n].fields, message[n][i])]]

SettledFlat(fields, message)  == SettledBy(LAMBDA f, m : m, fields, message)
SettledOnce(fields, message)  == SettledBy(SettledFlat, fields, message)
SettledTwice(fields, message) == SettledBy(SettledOnce, fields, message)
Settled(fields, message)      == SettledBy(SettledTwice, fields, message)

-----------------------------------------------------------------------------
(* What is sent.                                                            *)

\* Messages that fit into memory.
ASSUME SamplesAssumption ==
  /\ Closed(Samples)
  /\ \A s \in Samples : s[1] \in Schemas /\ InMemory(Marshal(s[1], s[2]))

\* An extension is fields one after the other, of which some open and close groups:
\* outside of a group they have numbers that no message knows.
ASSUME ExtensionsAssumption ==
  \A e \in Extensions :
    /\ e \in Seq(Range(e))
    /\ \A k \in 1 .. Len(e) : /\ e[k].field \in FieldNumbers /\ e[k].wire \in 0 .. 5
                              /\ e[k].content \in Contents(e[k].wire)
    /\ \E groups \in [0 .. Len(e) -> 0 .. Len(e)] :
         /\ groups[0] = 0 /\ groups[Len(e)] = 0
         /\ \A k \in 1 .. Len(e) :
              /\ groups[k] - groups[k - 1] =
                   IF e[k].wire = 3 THEN 1 ELSE IF e[k].wire = 4 THEN -1 ELSE 0
              /\ groups[k - 1] = 0 => \A fields \in Schemas : e[k].field > Len(fields)

ExtensionBytes(e) ==
  FlattenSeq([k \in 1 .. Len(e) |-> Written(e[k].field, e[k].wire, e[k].content)])

ASSUME RawAssumption == RawMessages \subseteq Schemas /\ RawBytes \subseteq Bytes /\ MaxRaw \in Nat

Send(fields, message, bytes, how) ==
  /\ sent = message
  /\ fault = how
  /\ Start(fields, bytes)

Init ==
  \/ \E s \in Samples :
       LET fields  == s[1]
           message == s[2]
           bytes   == Marshal(fields, message)
       IN \/ Send(fields, message, bytes, "none")
          \/ \E e \in Extensions :
               Send(fields, message, ExtensionBytes(e) \o bytes \o ExtensionBytes(e), "extended")
          \/ \E k \in 0 .. Len(bytes) - 1 :
               Send(fields, message, SubSeq(bytes, 1, k), "cut")
  \/ \E fields \in RawMessages, l \in 0 .. MaxRaw :
       \E bytes \in [1 .. l -> RawBytes] : Send(fields, EmptyStore, bytes, "raw")

Unmarshal == Decode /\ UNCHANGED <<sent, fault>>

\* What was understood of altered bytes goes into the store, and is read again, as
\* long as the bytes fit into memory.
Persist ==
  /\ status = "decoded" /\ fault # "none"
  /\ InMemory(Marshal(schema, Message))
  /\ sent' = Message
  /\ fault' = "none"
  /\ input' = Marshal(schema, Message)
  /\ pos' = 0
  /\ stack' = <<Frame(schema, 0, Len(input'), EmptyStore)>>
  /\ status' = "reading"
  /\ UNCHANGED <<schema, depth>>

Next == Unmarshal \/ Persist

Spec == Init /\ [][Next]_vars

\* A node that has started to decode a message goes on to the end.
FairSpec == Spec /\ WF_vars(Unmarshal)

-----------------------------------------------------------------------------
(* Correctness *)

\* A message arrives as it was sent, also when the sender's version of the
\* protocol has fields that the receiver does not know, and what a node has
\* understood of any bytes is what it reads again from its store: no second
\* spelling of a number or an amount, no group, repeated field or dropped high bit
\* makes the two differ.  Only a nil amount arrives as what it counts as, zero.
ArrivesAsSent ==
  status = "decoded" /\ fault \in {"none", "extended"} => Message = Settled(schema, sent)

\* Nothing that was marshalled is rejected.
NothingSentIsRejected == status = "rejected" => fault \in {"cut", "raw"}

\* Bytes that were cut off are rejected or understood as the message without its
\* last fields and list elements: no field gets a value that was not sent.
PartOf(message) ==
  \A n \in DOMAIN Message :
    /\ n \in DOMAIN message
    /\ IF schema[n].card = "many" THEN IsPrefix(Message[n], message[n])
       ELSE Message[n] = message[n]

CutMessagesAreParts == status = "decoded" /\ fault = "cut" => PartOf(Settled(schema, sent))

\* Marshal allocates what it fills, for varints at every boundary of length.
SizeIsExact == fault = "none" /\ pos = 0 => Size(schema, sent) = Len(input)

\* Whatever the bytes are, decoding comes to an end.
DecodingEnds == status = "reading" ~> status # "reading"
=============================================================================
