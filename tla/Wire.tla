-------------------------------- MODULE Wire --------------------------------
(***************************************************************************)
(* Unmarshal of the generated protobuf code, for every message of the four *)
(* modules: a loop over the fields of a byte string, which calls itself    *)
(* for an embedded message.  The calls are a stack of frames here.  And    *)
(* what Marshal writes for a tag, a number and a length.                   *)
(*                                                                         *)
(* A message is the function from the numbers of its fields to their       *)
(* values that leaves out what has its zero value: a number 0, an empty    *)
(* text, a list without elements, a nil pointer or amount, and an embedded *)
(* message without fields.  Numbers are scaled: a byte carries PayloadBits *)
(* of a varint, a uint64 and an int have WideBits and a uint32 NarrowBits. *)
(***************************************************************************)
EXTENDS Store, Sequences, Functions, FiniteSetsExt

CONSTANTS
  PayloadBits,  \* bits of a number per byte, 7 in the code
  WideBits,     \* bits of a uint64 and of an int, 64 in the code
  NarrowBits,   \* bits of a uint32, 32 in the code
  Fixed64,      \* bytes of a fixed64 field, 8 in the code
  Fixed32,      \* bytes of a fixed32 field, 4 in the code
  Schemas,      \* the kinds of messages: the fields of each
  Canonical,    \* the text that math.Int writes for each text that it reads
  ZeroInteger   \* the text that it writes for 0

ASSUME WireAssumption ==
  /\ PayloadBits \in Nat \ {0}
  /\ WideBits \in Nat \ {0} /\ NarrowBits \in 1 .. WideBits

VARIABLES
  schema,  \* the fields of the message to decode
  input,   \* dAtA: the bytes
  pos,     \* iNdEx: how many bytes are read
  stack,   \* the running Unmarshal calls, the innermost last
  depth,   \* skip's depth: the groups of an unknown field that are open
  status   \* "reading", "decoded" or "rejected"

decoderVars == <<schema, input, pos, stack, depth, status>>

-----------------------------------------------------------------------------
(* Fields: what the struct tags of the generated types say.                *)

Numbers == {"uint64", "int64", "uint32", "enum", "bool"}

Scalar(type)     == [type |-> type, card |-> "one", fields |-> <<>>]
Uint64           == Scalar("uint64")
Int64            == Scalar("int64")
Uint32           == Scalar("uint32")
Enum             == Scalar("enum")
Bool             == Scalar("bool")
Text             == Scalar("text")
Integer          == Scalar("integer")
Texts            == [type |-> "text", card |-> "many", fields |-> <<>>]
Embedded(fields) == [type |-> "message", card |-> "one", fields |-> fields]
Pointer(fields)  == [type |-> "message", card |-> "optional", fields |-> fields]
List(fields)     == [type |-> "message", card |-> "many", fields |-> fields]

\* What Unmarshal is generated from: a number is a single one, only a message is
\* optional, an embedded message is of a kind that there is code for, and one that
\* is no pointer has no integer.
ASSUME SchemasAssumption ==
  \A fields \in Schemas : Len(fields) \in Nat /\ \A n \in 1 .. Len(fields) :
    /\ fields[n].type \in Numbers \cup {"text", "integer", "message"}
    /\ fields[n].type \in Numbers \cup {"integer"} => fields[n].card = "one"
    /\ fields[n].type = "text" => fields[n].card \in {"one", "many"}
    /\ fields[n].type = "message" => fields[n].card \in {"one", "optional", "many"}
    /\ fields[n].type = "message" =>
         /\ fields[n].fields \in Schemas
         /\ fields[n].card = "one" =>
              \A k \in 1 .. Len(fields[n].fields) : fields[n].fields[k].type # "integer"

\* The wire type a field must have: varint or length-delimited.
WireTypeOf(field) == IF field.type \in Numbers THEN 0 ELSE 2

-----------------------------------------------------------------------------
(* Numbers.  Variants named after what they get wrong are slips that the     *)
(* checks must detect; the specification never uses them.                   *)

Base   == 2 ^ PayloadBits
Wide   == 2 ^ WideBits
Narrow == 2 ^ NarrowBits

\* The longest varint: a further byte would shift by WideBits or more.
MaxVarint == (WideBits + PayloadBits - 1) \div PayloadBits

\* What a proof needs to know of powers: each is twice the one before, and those of
\* Base are powers of two.
ASSUME PowersAssumption ==
  /\ 2 ^ 0 = 1
  /\ \A n \in 0 .. PayloadBits * MaxVarint : 2 ^ (n + 1) = 2 * 2 ^ n
  /\ \A k \in 0 .. MaxVarint : Base ^ k = 2 ^ (PayloadBits * k)

\* Two's complement.
Signed(x, modulus) == IF x < modulus \div 2 THEN x ELSE x - modulus

\* What a field of a type holds of the number x on the wire: the shifts of its
\* own type drop the high bits.
Held(type, x) ==
  CASE type = "uint64" -> x
    [] type = "int64"  -> Signed(x, Wide)
    [] type = "uint32" -> x % Narrow
    [] type = "enum"   -> Signed(x % Narrow, Narrow)
    [] type = "bool"   -> IF x = 0 THEN 0 ELSE 1

\* int arithmetic: what is half of Wide or more comes out negative.
AsInt(x) == Signed(x % Wide, Wide)

\* A slice: the number of its bytes is an int.
InMemory(bytes) == Len(bytes) < Wide \div 2

ASSUME FixedAssumption == Fixed64 \in 0 .. Wide \div 2 - 1 /\ Fixed32 \in 0 .. Wide \div 2 - 1

\* Where the varint that starts after byte p ends: nowhere if it is cut off by
\* the limit or goes on beyond WideBits.
VarintEnds(p, limit) ==
  {q \in p + 1 .. limit : /\ q - p <= MaxVarint
                          /\ input[q] < Base
                          /\ \A r \in p + 1 .. q - 1 : input[r] >= Base}

\* The number in bytes p + 1 .. q, in uint64 arithmetic.
Varint(p, q) ==
  SumFunctionOnSet([r \in p + 1 .. q |-> (input[r] % Base) * Base ^ (r - p - 1)],
                   p + 1 .. q) % Wide

-----------------------------------------------------------------------------
(* What Marshal writes for them.                                            *)

\* A number as uint64(v) converts it.
AsUint64(x) == x % Wide

\* encodeVarint: the low bits first, a set high bit in every byte but the last.
VarintBytes(x) ==
  LET top == CHOOSE k \in 0 .. MaxVarint - 1 :
               x < Base ^ (k + 1) /\ (k > 0 => x >= Base ^ k)
  IN [i \in 1 .. top + 1 |->
        ((x \div Base ^ (i - 1)) % Base) + (IF i <= top THEN Base ELSE 0)]

Prefixed(bytes) == VarintBytes(AsUint64(Len(bytes))) \o bytes

\* Field numbers: positive numbers of 32 bits that a tag has room for.
FieldNumbers == {n \in 1 .. Narrow \div 2 - 1 : n * 8 + 7 < Wide}

Bytes == 0 .. 2 * Base - 1

\* Several texts are one number, of which one is written; and no text is not a number.
ASSUME CanonicalAssumption ==
  /\ ZeroInteger \in Range(Canonical)
  /\ <<>> \notin DOMAIN Canonical
  /\ \A text \in Range(Canonical) :
       text \in Seq(Bytes) /\ text \in DOMAIN Canonical /\ Canonical[text] = text

\* What a field can hold on the wire.
Contents(wire) ==
  CASE wire = 0 -> 0 .. Wide - 1
    [] wire = 1 -> {x \in Seq(Bytes) : Len(x) = Fixed64}
    [] wire = 2 -> {x \in Seq(Bytes) : InMemory(x)}
    [] wire = 5 -> {x \in Seq(Bytes) : Len(x) = Fixed32}
    [] wire \in {3, 4} -> {<<>>}

\* A field with number n: the tag, and behind it a number as a varint, bytes with their
\* length, anything else as it is.
Tag(n, wire) == VarintBytes(n * 8 + wire)
Written(n, wire, x) ==
  Tag(n, wire) \o
    CASE wire = 0 -> VarintBytes(x)
      [] wire = 2 -> Prefixed(x)
      [] OTHER    -> x

\* sov: the number of bytes of a varint, by the length of its binary form.
BitLength(x) == CHOOSE k \in 0 .. WideBits : x < 2 ^ k /\ (k > 0 => x >= 2 ^ (k - 1))
SovRoundsDown(x) == Max({1, BitLength(x) \div PayloadBits})
Sov(x) == (Max({1, BitLength(x)}) + PayloadBits - 1) \div PayloadBits

-----------------------------------------------------------------------------
(* Tokens: a tag and what its wire type announces.                          *)

FieldNumber(tag) == Signed((tag \div 8) % Narrow, Narrow)

Token(tag, start, number, next) ==
  [field |-> FieldNumber(tag), wire |-> tag % 8,
   start |-> start, number |-> number, next |-> next]

EndsWrapAround(q, l) == {e \in {AsInt(q + l)} : l >= 0}

\* Where l bytes that start after byte q end, unless the length is negative, or the
\* end because it wraps around.
Ends(q, l) == {e \in {AsInt(q + l)} : l >= 0 /\ e >= 0}

TokensAfter(tag, q, limit) ==
  CASE tag % 8 = 0 -> {Token(tag, q, Varint(q, r), r) : r \in VarintEnds(q, limit)}
    [] tag % 8 = 1 -> {Token(tag, q, 0, e) : e \in Ends(q, Fixed64)}
    [] tag % 8 = 2 -> UNION {{Token(tag, r, 0, e) : e \in Ends(r, AsInt(Varint(q, r)))} :
                               r \in VarintEnds(q, limit)}
    [] tag % 8 = 5 -> {Token(tag, q, 0, e) : e \in Ends(q, Fixed32)}
    [] tag % 8 \in {3, 4} -> {Token(tag, q, 0, q)}
    [] OTHER -> {}

TokensBeyond(p, limit) ==
  UNION {TokensAfter(Varint(p, q), q, limit) : q \in VarintEnds(p, limit)}

TokensCutShort(p, limit) ==
  {[t EXCEPT !.next = Min({t.next, limit})] : t \in TokensBeyond(p, limit)}

\* The token that starts after byte p, if it is complete before the limit.
Tokens(p, limit) == {t \in TokensBeyond(p, limit) : t.next <= limit}

-----------------------------------------------------------------------------
(* Messages in memory.                                                      *)

\* The integers of a type.
Holds(type) ==
  CASE type = "uint64" -> 0 .. Wide - 1
    [] type = "int64"  -> -(Wide \div 2) .. Wide - 1 - (Wide \div 2)
    [] type = "uint32" -> 0 .. Narrow - 1
    [] type = "enum"   -> -(Narrow \div 2) .. Narrow - 1 - (Narrow \div 2)
    [] type = "bool"   -> {0, 1}

\* Values that are left out.  An integer that is not nil is never one, zero or not.
IsZero(field, x) ==
  /\ field.card = "one" /\ field.type # "integer"
  /\ IF field.type \in Numbers THEN x = 0 ELSE x = <<>>

\* A message of a kind.
Part(fields, message) == <<fields, message>>

\* What a field, or an element of it, can hold if the messages are those in parts.
FitsField(field, x, parts) ==
  /\ field.type \in Numbers => x \in Holds(field.type)
  /\ field.type = "text"    => x \in Seq(Bytes)
  /\ field.type = "integer" => x \in Range(Canonical)
  /\ field.type = "message" => Part(field.fields, x) \in parts

Fits(fields, message, parts) ==
  /\ message = [n \in DOMAIN message |-> message[n]]
  /\ \A n \in DOMAIN message :
       /\ n \in 1 .. Len(fields)
       /\ IF fields[n].card = "many"
          THEN /\ message[n] \in Seq(Range(message[n])) \ {<<>>}
               /\ \A i \in DOMAIN message[n] : FitsField(fields[n], message[n][i], parts)
          ELSE ~IsZero(fields[n], message[n]) /\ FitsField(fields[n], message[n], parts)

\* Messages, with the messages in their fields.
Closed(parts) == \A part \in parts : Fits(part[1], part[2], parts)

-----------------------------------------------------------------------------
(* The calls of Unmarshal.                                                  *)

Top == stack[Len(stack)]

Frame(fields, field, limit, value) ==
  [schema |-> fields, field |-> field, limit |-> limit, value |-> value]

Start(fields, bytes) ==
  /\ schema = fields /\ input = bytes /\ InMemory(bytes)
  /\ pos = 0 /\ depth = 0 /\ status = "reading"
  /\ stack = <<Frame(fields, 0, Len(bytes), EmptyStore)>>

ValueOr(message, n, zero) == IF n \in DOMAIN message THEN message[n] ELSE zero

Unset(message, n) == [k \in DOMAIN message \ {n} |-> message[k]]

\* The message after x is read for field n: a list grows, anything else is
\* replaced.
SetField(message, n, field, x) ==
  IF field.card = "many" THEN Put(message, n, Append(ValueOr(message, n, <<>>), x))
  ELSE IF IsZero(field, x) THEN Unset(message, n)
  ELSE Put(message, n, x)

Known(t) == t.field \in 1 .. Len(Top.schema)

\* The bytes that a token announces.
Slice(t) == SubSeq(input, t.start + 1, t.next)

\* A token that the loop goes on with: inside an unknown group anything, else
\* no end of a group, no field number below one, no known field with another
\* wire type, and no text that should be an integer and is none.
Acceptable(t) ==
  \/ depth > 0
  \/ /\ t.wire # 4
     /\ t.field > 0
     /\ Known(t) => /\ t.wire = WireTypeOf(Top.schema[t.field])
                    /\ Top.schema[t.field].type = "integer" =>
                         Slice(t) \in DOMAIN Canonical \cup {<<>>}

Reads(t) ==
  /\ status = "reading"
  /\ t \in Tokens(pos, Top.limit)
  /\ Acceptable(t)

Assign(t, x) ==
  stack' = [stack EXCEPT ![Len(stack)].value = SetField(@, t.field, Top.schema[t.field], x)]

ReadNumber(t) ==
  /\ Reads(t) /\ depth = 0 /\ Known(t)
  /\ Top.schema[t.field].type \in Numbers
  /\ Assign(t, Held(Top.schema[t.field].type, t.number))
  /\ pos' = t.next
  /\ UNCHANGED <<schema, input, depth, status>>

ReadText(t) ==
  /\ Reads(t) /\ depth = 0 /\ Known(t)
  /\ Top.schema[t.field].type = "text"
  /\ Assign(t, Slice(t))
  /\ pos' = t.next
  /\ UNCHANGED <<schema, input, depth, status>>

\* math.Int's own Unmarshal, which leaves the integer as it is if there are no bytes.
ReadInteger(t) ==
  /\ Reads(t) /\ depth = 0 /\ Known(t)
  /\ Top.schema[t.field].type = "integer"
  /\ IF Slice(t) = <<>> THEN UNCHANGED stack ELSE Assign(t, Canonical[Slice(t)])
  /\ pos' = t.next
  /\ UNCHANGED <<schema, input, depth, status>>

\* Unmarshal of an embedded message, on its slice of the bytes.  It goes on with
\* the message that the field has, unless the field is a list.
OpenMessage(t) ==
  /\ Reads(t) /\ depth = 0 /\ Known(t)
  /\ LET field == Top.schema[t.field]
         start == IF field.card = "many" THEN EmptyStore
                  ELSE ValueOr(Top.value, t.field, EmptyStore)
     IN /\ field.type = "message"
        /\ stack' = Append(stack, Frame(field.fields, t.field, t.next, start))
  /\ pos' = t.start
  /\ UNCHANGED <<schema, input, depth, status>>

CloseMessage ==
  /\ status = "reading" /\ depth = 0 /\ pos = Top.limit
  /\ Len(stack) > 1
  /\ LET outer == SubSeq(stack, 1, Len(stack) - 1)
         field == outer[Len(outer)].schema[Top.field]
     IN stack' = [outer EXCEPT ![Len(outer)].value = SetField(@, Top.field, field, Top.value)]
  /\ UNCHANGED <<schema, input, pos, depth, status>>

ForgetsDepth(t) == 0

\* The depth after token t is skipped: groups may contain groups.
DepthAfter(t) == IF t.wire = 3 THEN depth + 1 ELSE IF t.wire = 4 THEN depth - 1 ELSE depth

\* skip: a field with an unknown number is passed over, a group with all it
\* contains.
Skip(t) ==
  /\ Reads(t) /\ (depth > 0 \/ ~Known(t))
  /\ depth' = DepthAfter(t)
  /\ pos' = t.next
  /\ UNCHANGED <<schema, input, stack, status>>

Finish ==
  /\ status = "reading" /\ depth = 0 /\ pos = Top.limit
  /\ Len(stack) = 1
  /\ status' = "decoded"
  /\ UNCHANGED <<schema, input, pos, stack, depth>>

NoGoodToken == pos < Top.limit /\ \A t \in Tokens(pos, Top.limit) : ~Acceptable(t)

\* The bytes end inside a field or a group, or a tag is not acceptable.
Malformed ==
  IF pos = Top.limit THEN depth > 0
  ELSE \A t \in Tokens(pos, Top.limit) : ~Acceptable(t)

\* Any error ends all the calls.
Reject ==
  /\ status = "reading"
  /\ Malformed
  /\ status' = "rejected"
  /\ UNCHANGED <<schema, input, pos, stack, depth>>

Decode ==
  \/ \E t \in Tokens(pos, Top.limit) :
       ReadNumber(t) \/ ReadText(t) \/ ReadInteger(t) \/ OpenMessage(t) \/ Skip(t)
  \/ CloseMessage
  \/ Finish
  \/ Reject

Message == stack[1].value

\* The decoder on its own: any bytes for any kind of message.

DecoderInit == \E fields \in Schemas, bytes \in Seq(Bytes) : Start(fields, bytes)

DecoderSpec == DecoderInit /\ [][Decode]_decoderVars

-----------------------------------------------------------------------------
(* Correctness *)

\* Whatever lengths the bytes announce, also those that are negative as an int or
\* wrap around when they are added to the index: every call of Unmarshal stays
\* inside the slice it was given, that slice lies in the caller's, and the next one
\* to be cut out of it does not end before it starts, which would be a panic.
ReadsInside ==
  /\ pos \in 0 .. Top.limit
  /\ stack[1].limit = Len(input)
  /\ \A i \in 1 .. Len(stack) - 1 : stack[i + 1].limit \in 0 .. stack[i].limit
  /\ \A t \in Tokens(pos, Top.limit) : pos < t.start /\ t.start <= t.next
=============================================================================
