------------------------------ MODULE Protocol ------------------------------
(***************************************************************************)
(* The schema-less Protobuf dissector of reverify/protocol_parser.py and    *)
(* the protobuf_field check of reverify/verifier.py that judges by it.  A   *)
(* byte carries Group payload bits below its continuation bit and a varint *)
(* is meant to hold Width bits: 7 and 64 in the code.                       *)
(***************************************************************************)
EXTENDS Integers, FiniteSets, Sequences, SequencesExt, Numbers

CONSTANTS Group, Width,
          Fixed(_),      \* bytes of wire types 1 and 5: 8 and 4 in the code
          Printable,     \* the bytes that are printable text
          Spelled(_),    \* such text as Python reads it, see below
          Record         \* what messages are made of
ASSUME WidthAssumption == Group \in Nat \ {0} /\ Width \in Nat
ASSUME FixedAssumption == Fixed(1) \in Nat /\ Fixed(5) \in Nat

More == Pow2[Group]      \* the continuation bit
Byte == 0..(2 * More - 1)

After(data, n) == SubSeq(data, n + 1, Len(data))

-----------------------------------------------------------------------------
Fail == [ok |-> FALSE, value |-> 0, rest |-> <<>>]

\* decode_varint reads up to a byte without continuation bit; without one the
\* data is truncated, and a shift beyond Width raises
Stops(data) == {i \in DOMAIN data : data[i] < More}

Decode(data) ==
  LET n == CHOOSE n \in Stops(data) : \A i \in Stops(data) : n <= i
  IN  IF Stops(data) = {} \/ Group * (n - 1) > Width THEN Fail
      ELSE [ok |-> TRUE, value |-> Number([i \in 1..n |-> data[i] % More], Group),
            rest |-> After(data, n)]

\* encode_varint, of a value that is not negative
Encoded[value \in Nat] ==
  IF value < More THEN <<value>>
  ELSE <<More + (value % More)>> \o Encoded[value \div More]

\* Bytes the decoder takes before it raises: the last one may start at bit
\* Width itself.
MaxBytes == (Width \div Group) + 1
Limit == Pow2[Group * MaxBytes]

(***************************************************************************)
(* Decoding undoes encoding and takes exactly the bytes of the encoding,    *)
(* whatever follows; a prefix is truncated, not a smaller number; padding   *)
(* with empty groups changes nothing until the limit.  The limit is in      *)
(* bytes: values of more than Width bits decode as long as they fit in      *)
(* MaxBytes groups (in the code, 70 bits pass for 64).                      *)
(***************************************************************************)
VarintExact(value, rest, pad) ==
  LET code == Encoded[value]
      front == SubSeq(code, 1, Len(code) - 1)
      padded == front \o <<More + Last(code)>> \o [i \in 1..pad |-> More] \o <<0>>
  IN  /\ Decode(code \o rest) = IF value < Limit
                                THEN [ok |-> TRUE, value |-> value, rest |-> rest]
                                ELSE Fail
      /\ Decode(front) = Fail
      /\ Len(padded) <= MaxBytes => Decode(padded).value = value
      /\ Len(padded) > MaxBytes => Decode(padded) = Fail

-----------------------------------------------------------------------------
(***************************************************************************)
(* ProtobufDissector.dissect: keys are the fields with an entry list, the   *)
(* list possibly empty; raised is the error of a length or value varint,    *)
(* which the caller sees, while a bad tag only ends the loop.               *)
(***************************************************************************)
Nothing == [keys |-> {}, entries |-> <<>>, raised |-> FALSE]
Raise == [Nothing EXCEPT !.raised = TRUE]
Stub(field) == [Nothing EXCEPT !.keys = {field}]

\* one entry, and what the rest of the payload gave
Then(field, type, value, tree) ==
  [keys |-> tree.keys \union {field},
   entries |-> <<[field |-> field, type |-> type, value |-> value]>> \o tree.entries,
   raised |-> tree.raised]

\* struct.unpack_from("<Q") and ("<I")
Little(data, n) == Number(SubSeq(data, 1, n), Group + 1)

IsText(raw) == raw # <<>> /\ ToSet(raw) \subseteq Printable

Node(data, dissect) ==
  LET tag == Decode(data)
      field == tag.value \div 8
      wire == tag.value % 8
      number == Decode(tag.rest)
      size == Fixed(wire)
      raw == SubSeq(number.rest, 1, number.value)
      nested == dissect[raw]
      kind == IF IsText(raw) THEN "string"
              ELSE IF ~ nested.raised /\ nested.keys # {} THEN "nested" ELSE "bytes"
  IN  IF ~ tag.ok \/ field = 0 THEN Nothing
      ELSE CASE wire = 0 /\ number.ok ->
                  Then(field, "varint", number.value, dissect[number.rest])
             [] wire = 2 /\ number.ok /\ number.value <= Len(number.rest) ->
                  Then(field, kind, raw, dissect[After(number.rest, number.value)])
             [] wire \in {0, 2} /\ ~ number.ok -> Raise
             [] wire \in {1, 5} /\ size <= Len(tag.rest) ->
                  Then(field, IF wire = 1 THEN "fixed64" ELSE "fixed32",
                       Little(tag.rest, size), dissect[After(tag.rest, size)])
             [] OTHER -> Stub(field)

Tree[data \in Seq(Byte)] == Node(data, Tree)

-----------------------------------------------------------------------------
(***************************************************************************)
(* Texts, by the number int(text, 0) reads in them: as str(n) and hex(n)    *)
(* write it, in another spelling (0X28), or none at all.                    *)
(***************************************************************************)
Decimal(n) == [style |-> "decimal", number |-> n, raw |-> <<>>]
Hex(n) == [style |-> "hex", number |-> n, raw |-> <<>>]
Numeric(text) == text.style # "word"

\* An entry's value as text: a varint is a number, a fixed one hex(n), a string
\* itself; nested messages and bytes have none.
Said(entry) ==
  CASE entry.type = "varint" -> Decimal(entry.value)
    [] entry.type = "string" -> Spelled(entry.value)
    [] OTHER -> Hex(entry.value)

\* _value_matches: two strings are compared as they are, anything else as the
\* numbers it reads as, and what is no number by its text.
Matches(entry, want) ==
  LET quoted == entry.type # "varint"
  IN  /\ entry.type \in {"varint", "fixed32", "fixed64", "string"}
      /\ IF ~ (quoted /\ want.quoted) /\ Numeric(Said(entry)) /\ Numeric(want.text)
         THEN Said(entry).number = want.text.number
         ELSE Said(entry) = want.text

\* Mutant: a field is present once it has an entry of the claimed value.
FieldVerdictAnyType(data, claim) ==
  LET tree == Tree[data]
  IN  IF tree.raised THEN "inconclusive"
      ELSE IF \A want \in claim.wants :
                \E e \in ToSet(tree.entries) : e.field = claim.field /\ Matches(e, want)
           THEN "verified" ELSE "refuted"

\* _check_protobuf_field; a claim may name a type, a value (wants holds it: a
\* JSON string, quoted, or anything else), both or neither
FieldVerdict(data, claim) ==
  LET tree == Tree[data]
      entries == {e \in ToSet(tree.entries) : e.field = claim.field}
  IN  CASE tree.raised -> "inconclusive"
        [] /\ ~ tree.raised
           /\ claim.field \in tree.keys
           /\ claim.type # "any" => \E e \in entries : e.type = claim.type
           /\ \A want \in claim.wants : \E e \in entries : Matches(e, want)
           -> "verified"
        [] OTHER -> "refuted"

\* The reference: a message is a list of records, and its bytes are theirs.
\* A record of type length has its payload for a value.
WireOf(type) == CASE type = "varint" -> 0 [] type = "fixed64" -> 1
                  [] type = "fixed32" -> 5 [] OTHER -> 2

ASSUME RecordAssumption ==
  \A r \in Record :
    /\ r.field \in Nat \ {0} /\ 8 * r.field + 7 < Limit
    /\ \/ r.type = "varint" /\ r.value \in 0..(Limit - 1)
       \/ r.type = "length" /\ r.payload \in Seq(Byte) /\ Len(r.payload) < Limit
       \/ /\ r.type \in {"fixed64", "fixed32"}
          /\ r.value \in 0..(Pow2[(Group + 1) * Fixed(WireOf(r.type))] - 1)

Digits(value, n) == [i \in 1..n |-> (value \div Pow2[(Group + 1) * (i - 1)]) % (2 * More)]

BytesOf(r) ==
  Encoded[8 * r.field + WireOf(r.type)] \o
    CASE r.type = "varint" -> Encoded[r.value]
      [] r.type = "length" -> Encoded[Len(r.payload)] \o r.payload
      [] OTHER -> Digits(r.value, Fixed(WireOf(r.type)))

\* the bytes of the records and what follows them
Message(records, kept) ==
  LET last[k \in 0..Len(records)] ==
        IF k = 0 THEN kept ELSE BytesOf(records[Len(records) - k + 1]) \o last[k-1]
  IN  last[Len(records)]

\* a length-delimited entry is one of three kinds; only text has a value
SameEntry(entry, r) ==
  /\ entry.field = r.field
  /\ entry.value = IF r.type = "length" THEN r.payload ELSE r.value
  /\ IF r.type = "length" THEN /\ entry.type \in {"string", "nested", "bytes"}
                               /\ entry.type = "string" <=> IsText(r.payload)
     ELSE entry.type = r.type

SameNumber(text, want) == Numeric(text) /\ Numeric(want) /\ text.number = want.number

\* The value a claim names is the record's.
HasValue(r, want) ==
  CASE r.type = "varint" -> SameNumber(Decimal(r.value), want.text)
    [] r.type = "length" ->
         /\ IsText(r.payload)
         /\ \/ Spelled(r.payload) = want.text
            \/ ~ want.quoted /\ SameNumber(Spelled(r.payload), want.text)
    [] OTHER -> IF want.quoted THEN want.text = Hex(r.value)
                ELSE SameNumber(Hex(r.value), want.text)

(***************************************************************************)
(* A payload cut anywhere in its last record gives exactly the records      *)
(* before it.  The cut record leaves its field behind without an entry once *)
(* its tag was whole, so that a claim of the field alone is verified on     *)
(* nothing; cut inside its number, it takes the other fields with it and    *)
(* the claim is not settled.  A claim of a type and a value is verified     *)
(* if the field has a record of the type and one of the value, which need   *)
(* not be the same.  A number agrees with a number however spelled, and     *)
(* with text that spells it: the text "40" verifies a claim of the number   *)
(* 40; but a fixed number claimed as a string only as hex(n) writes it.     *)
(***************************************************************************)
FieldsJustified(records, last, cut, claim) ==
  LET kept == SubSeq(BytesOf(last), 1, Len(BytesOf(last)) - cut)
      data == Message(records, kept)
      tree == Tree[data]
      tag == Decode(kept)
      all == IF cut = 0 THEN Append(records, last) ELSE records
      named == {r \in ToSet(all) : r.field = claim.field}
      verdict == FieldVerdict(data, claim)
  IN  /\ tree.raised <=> /\ cut > 0 /\ tag.ok
                         /\ last.type \in {"varint", "length"} /\ ~ Decode(tag.rest).ok
      /\ ~ tree.raised =>
           /\ Len(tree.entries) = Len(all)
           /\ \A i \in DOMAIN all : SameEntry(tree.entries[i], all[i])
           /\ tree.keys = {r.field : r \in ToSet(all)} \union
                          (IF cut > 0 /\ tag.ok THEN {last.field} ELSE {})
      /\ verdict = "verified" =>
           /\ ~ tree.raised
           /\ claim.type # "any" => \E r \in named : r.type \in {claim.type, "length"}
           /\ \A want \in claim.wants : \E r \in named : HasValue(r, want)
           /\ named = {} => cut > 0 /\ last.field = claim.field
      /\ /\ \E r \in named : claim.type \in {"any", r.type} /\ claim.type # "length"
         /\ \A want \in claim.wants : \E r \in named : HasValue(r, want)
         /\ ~ tree.raised
         => verdict = "verified"
=============================================================================
