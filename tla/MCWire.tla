------------------------------- MODULE MCWire -------------------------------
(***************************************************************************)
(* Messages on small instances: numbers of 16 and 8 bits instead of 64 and *)
(* 32, so that a varint has at most three bytes.                           *)
(***************************************************************************)
EXTENDS Codec, Messages

\* The number of a type that has the low bits of x.
Number(type, x) ==
  LET modulus == CASE type \in {"uint64", "int64"}  -> Wide
                   [] type \in {"uint32", "enum"}   -> Narrow
                   [] type = "bool"                 -> 2
      low     == x % modulus
  IN CHOOSE y \in {low, low - modulus} : y \in Holds(type)

\* Of the texts of the letters "-", "0" and "1": 0, 1 and -1, each in several spellings.
MCZero == <<48>>
MCCanonical ==
  LET one      == <<49>>
      minusOne == <<45, 49>>
  IN [text \in {<<48>>, <<48, 48>>, <<45, 48>>, one, <<48, 49>>, minusOne} |->
        CASE text \in {one, <<48, 49>>} -> one
          [] text = minusOne -> minusOne
          [] OTHER -> MCZero]

RECURSIVE Sample(_, _, _, _)

\* A message whose fields hold the number x, the text t and lists of c elements;
\* with no elements, pointers are nil as well, and integers without a text.
Sample(fields, x, t, c) ==
  LET Value(field) ==
        CASE field.type \in Numbers -> Number(field.type, x)
          [] field.type = "text"    -> t
          [] field.type = "integer" -> IF x = 0 THEN MCZero ELSE <<45, 49>>
          [] field.type = "message" -> Sample(field.fields, x, t, c)
      Absent(field) == CASE field.type = "integer" -> t = <<>>
                         [] field.card = "one"     -> IsZero(field, Value(field))
                         [] OTHER                  -> c = 0
  IN [n \in {k \in 1 .. Len(fields) : ~Absent(fields[k])} |->
        IF fields[n].card = "many" THEN [i \in 1 .. c |-> Value(fields[n])]
        ELSE Value(fields[n])]

MCSamples ==
  {Part(fields, Sample(fields, x, t, c)) :
     fields \in MessageKinds, x \in {0, 127, 128, 65535}, t \in {<<>>, <<130, 10>>}, c \in {0, 2}}

Unknown(n, wire, x) == [field |-> n, wire |-> wire, content |-> x]

\* Field 15 with each wire type, the group with a field and a group inside; and a
\* tag of two bytes.
MCExtensions ==
  {<<Unknown(15, 0, 128)>>, <<Unknown(15, 1, <<8, 8>>)>>, <<Unknown(15, 2, <<10, 10>>)>>,
   <<Unknown(15, 5, <<9>>)>>,
   <<Unknown(15, 3, <<>>), Unknown(1, 0, 1), Unknown(14, 3, <<>>), Unknown(14, 4, <<>>),
     Unknown(15, 4, <<>>)>>,
   <<Unknown(16, 0, 5)>>}

MCRawMessages == {OrderBookEntry, Coin, PredictionGenesisState}

\* Tags of fields 0 to 4 with several wire types, the digit 0, and lengths: short ones
\* and, of three bytes, the largest int (255, 255, 1), which wraps around when it is
\* added to the index, and the -1 of an int (255, 255, 3).
MCRawBytes == {0, 1, 2, 3, 10, 18, 24, 35, 36, 48, 255}
=============================================================================
