------------------------- MODULE AlgorithmRelations -------------------------
(***************************************************************************)
(* The sets and relations the theorems about Algorithms are stated in: what *)
(* holds between a state of an algorithm and the part of its input that is  *)
(* dealt with, and between the results of two of them.                      *)
(***************************************************************************)
EXTENDS Algorithms

\* An algorithm is only ever called with its inputs.
Asked ==
  /\ op = "view" => arg \in Views
  /\ op = "merge" => arg \in Merges
  /\ op = "context" => arg \in Contexts
  /\ op = "install" => arg \in Installs
  /\ op = "listen" => arg \in Listens
  /\ op = "graph" => arg \in Graphs
  /\ op = "fallback" => arg \in Fallbacks
  /\ op = "translate" => arg \in Translations
  /\ op = "bytes" => arg \in Reads
  /\ op = "search" => arg \in Searches
  /\ op = "instructions" => arg \in Decodings
  /\ op = "table" => arg \in Tables
  /\ op = "varint" => arg \in Varints
  /\ op = "field" => arg \in Payloads
  /\ op = "emulate" => arg \in Emulations
  /\ op = "prove" => arg \in Provings
  /\ op = "compare" => arg \in Comparisons

\* A value computed step by step from the one before.
Steps(n, A) == [(1..n) \X A -> A]
Iterated(f, a, step, n) == f[0] = a /\ \A i \in 1..n : f[i] = step[<<i, f[i-1]>>]
CanIterate(a, step, n, A) == \E f \in [0..n -> A] : Iterated(f, a, step, n)

\* A body looks only at what lies less deep; a function follows its body.
Contracts(S, depth, T, body) ==
  \A s \in S : \A f, g \in [S -> T] :
    (\A r \in S : depth[r] < depth[s] => f[r] = g[r]) => body[<<s, f>>] = body[<<s, g>>]
Recurs(S, body, f) == \A s \in S : f[s] = body[<<s, f>>]

\* kept[i]: what the filter keeps of the first i entries.
Keeps(s, T, kept) ==
  /\ kept[0] = <<>>
  /\ \A i \in 1..Len(s) : kept[i] = IF s[i] \in T THEN Append(kept[i-1], s[i]) ELSE kept[i-1]

\* The lists install leaves in an event it registers and in one it does not.
Registered(entries) == Append(NotOurs(entries), {"us"})

\* The sizes of the ends of a transcript, from the shortest to the longest.
Sized(lines, size) ==
  /\ size[0] = 0
  /\ \A j \in 1..Len(lines) : size[j] = size[j - 1] + lines[Len(lines) - j + 1].size

\* Where the search stands before each position.
Searched(data, pattern, start) ==
  /\ start[0] = 0
  /\ \A o \in 1..(Len(data) + 1) :
       start[o] = IF start[o - 1] <= o - 1 /\ OccursAt(data, pattern, o - 1)
                  THEN o - 1 + Larger(1, Len(pattern))
                  ELSE start[o - 1]

\* What a decoder notes, and how far it has come.
Disassembled == [name : Mnemonic \ {"jz"}, ops : CodeByte \union {""}, size : Nat]
Progress == [at : Nat \ {0}, out : Seq(Disassembled)]

\* The rounds of a decoder.
Decodes(code, all, after) ==
  /\ after[0] = [at |-> 1, out |-> <<>>]
  /\ \A k \in 1..Len(code) : after[k] = DecodeNext(code, all, after[k - 1])

\* What the decoders give is the same, or parts at the j-th instruction.
Alike(a, p) == a.out = p.out /\ \A i \in DOMAIN p.out : p.out[i].name \notin Pseudo
Parted(code, a, p, j) ==
  /\ j \in DOMAIN p.out /\ p.out[j].name \in Pseudo
  /\ Len(a.out) >= j - 1
  /\ \A i \in 1..(j - 1) : p.out[i].name \notin Pseudo /\ a.out[i] = p.out[i]
  /\ Len(a.out) = j - 1 => a.at <= Len(code)

\* What the claim asks of what was decoded.
Fits(claim, actual) ==
  /\ IF claim.mode = "contains" THEN IsSubsequence(claim.expected, Names(actual))
     ELSE IF claim.length = NoLength
     THEN FirstOf(Names(actual), Len(claim.expected)) = claim.expected
     ELSE Names(actual) = claim.expected
  /\ OperandsFit(actual, claim.operands)

\* What was decoded, in the built-in decoder's words.
Respelled(actual) ==
  [i \in DOMAIN actual |-> [actual[i] EXCEPT !.name = Own(@), !.ops = Own(@)]]

\* T is s in the built-in decoder's words.
Translates(T, s) ==
  /\ T \in Seq(Mnemonic) /\ s \in Seq(Mnemonic) /\ Len(T) = Len(s)
  /\ \A i \in 1..Len(s) : T[i] = Own(s[i]) /\ s[i] # "jz"

\* How many members of a set of numbers come after one of them.
Above(S, i) == {j \in S : j > i}
Rank(S) == [i \in S |-> Cardinality(Above(S, i))]

\* How many members of a set of numbers come before one of them.
Below(S, i) == {j \in S : j < i}
Place(S) == [i \in S |-> Cardinality(Below(S, i))]

\* Remembering item after item.
Remembers(list, update, after) ==
  /\ after[0] = list
  /\ \A i \in 1..Len(update) : after[i] = Remember(after[i - 1], update[i])

\* How many entries are cut off a list that is longer than k.
CutOf(s, k) == IF Len(s) <= k THEN 0 ELSE Len(s) - k

\* Adding number after number.
Adds(lens, n, total) ==
  total[0] = 0 /\ \A i \in 1..n : total[i] = total[i - 1] + lens[i]

\* The states of context_for_directory's loop.
Filling == [total : Nat, stop : BOOLEAN, parts : Seq(Nat)]
Unfilled == [total |-> 0, stop |-> FALSE, parts |-> <<>>]

\* Taking ledger after ledger.
Fills(lens, max, n, after) ==
  /\ after[0] = Unfilled
  /\ \A i \in 1..n : after[i] = Fit(after[i - 1], lens[i], max)

\* How many ledgers are looked at.
Looked(lens, limit) == IF Len(lens) < limit THEN Len(lens) ELSE limit

\* What is filled after the first i ledgers were looked at.
Filled(lens, max, i, s) ==
  LET l == Len(s.parts)
  IN  /\ s \in Filling
      /\ l <= i /\ (~s.stop => l = i) /\ (i # 0 => l # 0)
      /\ \A j \in 1..l : s.parts[j] = IF lens[j] < max THEN lens[j] ELSE max
      /\ s.total = SumTo(lens, l)
      /\ SumTo(s.parts, l) <= max /\ SumTo(s.parts, l) <= s.total
      /\ s.stop => l < i /\ SumTo(lens, l + 1) > max

Words == 0..(Word - 1)
Machine == [regs : [Reg -> Words], mem : [Cells -> Words], ip : Nat, steps : Int, halted : BOOLEAN]

\* While a run goes on it has come to the instruction of its round; it never
\* counts more steps than there are instructions or than its limit.
Going(s, n, len, max) ==
  /\ s.ip = s.steps + 1 /\ s.steps \in 0..len /\ s.steps <= max
  /\ s.halted = TRUE \/ s.steps >= max \/ s.steps = n

\* The processor, and what it has in common with the machine.
Processor == [a : Words, b : Words, stack : Seq(Words), done : BOOLEAN]

\* What a processor may have on its stack after n of L instructions.
Deep(m, n, L) == Len(m.stack) \in (L - n)..(L + n)

\* The machine and the processor have the same in their registers and on
\* their stacks; the machine's stack ends at high.
Mirrors(s, m, high) ==
  /\ s.regs["a"] = m.a /\ s.regs["b"] = m.b
  /\ s.regs["sp"] = high - Len(m.stack)
  /\ \A j \in 1..Len(m.stack) : Read(s, high - j) = m.stack[j]

\* What the emulator is asked to run for exactness.
Runs(program, max) ==
  /\ (Top - Len(program))..(Top + Len(program) - 1) \subseteq Cells
  /\ Top + Len(program) < Word
  /\ \A n \in DOMAIN program : Decoded(program[n])
  /\ \A n \in 0..Len(program) : LET t == Rounds(program, max)[n]
                                IN  t.regs["a"] < Half /\ t.regs["b"] < Half

\* Machine and processor after k instructions.
InStep(s, m, k, high, max) ==
  /\ Mirrors(s, m, high)
  /\ m.done => s.halted = TRUE
  /\ ~m.done => s.ip = k + 1 /\ s.steps = k /\ (k < max => s.halted = FALSE)

\* Two functions that agree on the operands of an expression.
AgreeBelow(e, f, g) == (~ Leaf(e) => f[e.a] = g[e.a]) /\ (Binary(e) => f[e.b] = g[e.b])

\* What is computed from the operands exists for every expression.
Locally(T, body) ==
  \A e \in Expr : \A f, g \in [Expr -> T] :
    AgreeBelow(e, f, g) => body[<<e, f>>] = body[<<e, g>>]

\* A value, or none.
MaybeInt == {<<>>} \union {<<i>> : i \in Int}

\* The bit-vectors, as numbers.
Vectors == 0..(Modulus - 1)

\* Numbers that are the same as bit-vectors.
Same(a, b) == a \in Int /\ b \in Int /\ \E k \in Int : a = b + Modulus * k

\* The value of an expression is, as a bit-vector, what its bits are.
Agrees(v, bits) == v \in MaybeInt /\ v # <<>> /\ v[1] % Modulus = bits /\ bits \in Vectors

\* The operators that wrap.
Wrapping == {"~", "neg", "+", "-", "*"}

\* The verdict of a test in terms of what was tried.
Tried(outputs) == {i \in DOMAIN outputs : i <= MaxInputs /\ outputs[i] # NoValue}

\* The digits of a number with their weights, and what adding them up means.
Weighted(digits, w) == [i \in DOMAIN digits |-> digits[i] * Pow2[w * (i - 1)]]

\* How digits make a number, one after another.
MakesUp(digits, w, n, f) ==
  f[0] = 0 /\ \A i \in 1..n : f[i] = f[i - 1] + digits[i] * Pow2[w * (i - 1)]

\* The payload groups of bytes.
Groups(code) == [i \in DOMAIN code |-> code[i] % More]

\* What an encoding looks like: bytes with the continuation bit and a last one
\* without, of which there are as many as the number has groups, which make
\* the number.
Shaped(code, v) ==
  /\ code \in Seq(Byte) /\ Len(code) >= 1
  /\ \A i \in 1..(Len(code) - 1) : code[i] >= More
  /\ code[Len(code)] < More
  /\ \A k \in Nat \ {0} : Len(code) <= k <=> v < Pow2[Group * k]
  /\ Number(Groups(code), Group) = v

\* What is read up to the first byte that stops it.
StoppedAt(data, n) ==
  IF Group * (n - 1) > Width THEN Fail
  ELSE [ok |-> TRUE, value |-> Number([i \in 1..n |-> data[i] % More], Group),
        rest |-> After(data, n)]

\* Sequences one after the other, and the front of one.
Joined(S, s, t, x) ==
  /\ x \in Seq(S) /\ Len(x) = Len(s) + Len(t)
  /\ \A i \in 1..Len(s) : x[i] = s[i]
  /\ \A i \in 1..Len(t) : x[Len(s) + i] = t[i]

\* An encoding padded with empty groups.
Padded(code, pad) ==
  SubSeq(code, 1, Len(code) - 1) \o <<More + Last(code)>> \o [i \in 1..pad |-> More] \o <<0>>

\* What a payload is dissected into.
TreeValue == Int \union Seq(Byte)
TreeEntry == [field : Nat, value : TreeValue,
              type : {"varint", "fixed64", "fixed32", "string", "nested", "bytes"}]
Trees == [keys : SUBSET Nat, entries : Seq(TreeEntry), raised : BOOLEAN]

\* A tree with an entry put before what there was.
Follows(field, type, value, tree, t) ==
  /\ t \in Trees /\ t.keys = tree.keys \union {field} /\ t.raised = tree.raised
  /\ t.entries = <<[field |-> field, type |-> type, value |-> value]>> \o tree.entries

\* One step of the dissector, from what the two varints gave it.
Kind(raw, nested) == IF IsText(raw) THEN "string"
                     ELSE IF ~ nested.raised /\ nested.keys # {} THEN "nested" ELSE "bytes"

\* A node whose tag is whole.
Whole(field, wire, tag, number, f) ==
  LET size == Fixed(wire)
      raw == SubSeq(number.rest, 1, number.value)
  IN  CASE wire = 0 /\ number.ok -> Then(field, "varint", number.value, f[number.rest])
        [] wire = 2 /\ number.ok /\ number.value <= Len(number.rest) ->
             Then(field, Kind(raw, f[raw]), raw, f[After(number.rest, number.value)])
        [] wire \in {0, 2} /\ ~ number.ok -> Raise
        [] wire \in {1, 5} /\ size <= Len(tag.rest) ->
             Then(field, IF wire = 1 THEN "fixed64" ELSE "fixed32",
                  Little(tag.rest, size), f[After(tag.rest, size)])
        [] OTHER -> Stub(field)

\* What a node is, case by case.
Cases(field, wire, tag, number, f, w) ==
  LET raw == SubSeq(number.rest, 1, number.value)
      size == Fixed(wire)
  IN  /\ wire = 0 /\ number.ok => w = Then(field, "varint", number.value, f[number.rest])
      /\ wire = 2 /\ number.ok /\ number.value <= Len(number.rest) =>
           w = Then(field, Kind(raw, f[raw]), raw, f[After(number.rest, number.value)])
      /\ wire = 2 /\ number.ok /\ ~ (number.value <= Len(number.rest)) => w = Stub(field)
      /\ (wire = 0 \/ wire = 2) /\ ~ number.ok => w = Raise
      /\ (wire = 1 \/ wire = 5) /\ size <= Len(tag.rest) =>
           w = Then(field, IF wire = 1 THEN "fixed64" ELSE "fixed32",
                    Little(tag.rest, size), f[After(tag.rest, size)])
      /\ (wire = 1 \/ wire = 5) /\ ~ (size <= Len(tag.rest)) => w = Stub(field)
      /\ wire # 0 /\ wire # 1 /\ wire # 2 /\ wire # 5 => w = Stub(field)

\* What a step reads on with is shorter than what it was given.
Shorter(s, data) == s \in Seq(Byte) /\ Len(s) < Len(data)

\* What a record's bytes are after its tag, by the kind of record.
Body(r) == CASE r.type = "varint" -> Encoded[r.value]
             [] r.type = "length" -> Encoded[Len(r.payload)] \o r.payload
             [] OTHER -> Digits(r.value, Fixed(WireOf(r.type)))
Numbered(r) == r.type = "varint" /\ WireOf(r.type) = 0
               /\ r.value \in Nat /\ r.value < Limit /\ Body(r) = Encoded[r.value]
Measured(r) == r.type = "length" /\ WireOf(r.type) = 2
               /\ r.payload \in Seq(Byte) /\ Len(r.payload) < Limit
               /\ Body(r) = Encoded[Len(r.payload)] \o r.payload
Fixedly(r, wire, n) == r.type = (IF wire = 1 THEN "fixed64" ELSE "fixed32")
                       /\ (wire = 1 \/ wire = 5) /\ n = Fixed(wire) /\ WireOf(r.type) = wire
                       /\ n \in Nat /\ r.value \in Nat /\ r.value < Pow2[(Group + 1) * n]
                       /\ Body(r) = Digits(r.value, n)

\* A record that was dissected, and what came of the bytes after it.
Types == {"varint", "fixed64", "fixed32", "string", "nested", "bytes"}
Holds(r, type, value) == SameEntry([field |-> r.field, type |-> type, value |-> value], r)
Leads(r, tree, rest) ==
  \E type \in Types, value \in TreeValue : tree = Then(r.field, type, value, rest) /\ Holds(r, type, value)

\* What a record that was cut leaves behind.
LeavesBehind(r, kept) ==
  LET tag == Decode(kept)
      tree == Tree[kept]
  IN  /\ tree.raised <=> /\ tag.ok /\ r.type \in {"varint", "length"}
                         /\ ~ Decode(tag.rest).ok
      /\ ~ tree.raised => /\ tree.entries = <<>>
                          /\ tree.keys = IF tag.ok THEN {r.field} ELSE {}

\* The bytes of the last k records and what follows them.
Trails(records, kept, f) ==
  /\ f[0] = kept
  /\ \A k \in 1..Len(records) : f[k] = BytesOf(records[Len(records) - k + 1]) \o f[k - 1]

\* The tree of the last k records upon that of what follows them.
Piled(records, k, tree, base) ==
  LET n == Len(records) - k
  IN  /\ tree \in Trees /\ tree.raised = base.raised
      /\ Len(tree.entries) = k + Len(base.entries)
      /\ \A i \in 1..k : SameEntry(tree.entries[i], records[n + i])
      /\ \A i \in 1..Len(base.entries) : tree.entries[k + i] = base.entries[i]
      /\ tree.keys = base.keys \union {records[i].field : i \in (n + 1)..Len(records)}

\* The records that are whole, and the field a cut one leaves behind.
AllOf(records, last, cut) == IF cut = 0 THEN Append(records, last) ELSE records
KeptOf(last, cut) == SubSeq(BytesOf(last), 1, Len(BytesOf(last)) - cut)

\* What a payload's tree says of its records.
Dissected(records, last, cut, tree) ==
  LET kept == KeptOf(last, cut)
      tag == Decode(kept)
      all == AllOf(records, last, cut)
  IN  /\ tree \in Trees
      /\ tree.raised <=> /\ cut > 0 /\ tag.ok
                         /\ last.type \in {"varint", "length"} /\ ~ Decode(tag.rest).ok
      /\ ~ tree.raised =>
           /\ Len(tree.entries) = Len(all)
           /\ \A i \in DOMAIN all : SameEntry(tree.entries[i], all[i])
           /\ tree.keys = {r.field : r \in ToSet(all)} \union
                          (IF cut > 0 /\ tag.ok THEN {last.field} ELSE {})

\* How a claim is judged by a tree.
JudgedBy(tree, claim, verdict) ==
  LET entries == {e \in ToSet(tree.entries) : e.field = claim.field}
  IN  verdict = "verified" <=>
        /\ ~ tree.raised
        /\ claim.field \in tree.keys
        /\ claim.type # "any" => \E e \in entries : e.type = claim.type
        /\ \A want \in claim.wants : \E e \in entries : Matches(e, want)

\* Unless it was raised, a tree has an entry for each record, in their order,
\* and besides their fields only those left by a record that was cut.
Mirrored(all, left, tree) ==
  ~ tree.raised =>
    /\ tree.entries \in Seq(TreeEntry) /\ Len(tree.entries) = Len(all)
    /\ \A i \in DOMAIN all : SameEntry(tree.entries[i], all[i])
    /\ tree.keys = {r.field : r \in ToSet(all)} \union left

\* What a verdict on a field says of the records.
Warranted(all, left, tree, claim, verdict) ==
  LET named == {r \in ToSet(all) : r.field = claim.field} IN
  /\ verdict = "verified" =>
       /\ ~ tree.raised
       /\ claim.type # "any" => \E r \in named : r.type \in {claim.type, "length"}
       /\ \A want \in claim.wants : \E r \in named : HasValue(r, want)
       /\ named = {} => claim.field \in left
  /\ /\ \E r \in named : claim.type \in {"any", r.type} /\ claim.type # "length"
     /\ \A want \in claim.wants : \E r \in named : HasValue(r, want)
     /\ ~ tree.raised
     => verdict = "verified"
=============================================================================
