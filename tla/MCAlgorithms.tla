---------------------------- MODULE MCAlgorithms ----------------------------
(***************************************************************************)
(* Calls the pure algorithms on every small input: a state is one call.     *)
(***************************************************************************)
EXTENDS Algorithms, Bitwise

Lists(S, n) == UNION {[1..k -> S] : k \in 0..n}

SmallViews == Lists(BOOLEAN, 6) \X (1..4)

SmallMerges == {l \in Lists(1..3, 3) : IsInjective(l)} \X Lists(1..4, 3) \X {3}

SmallContexts == Lists(1..4, 4) \X (1..6) \X (1..3)

SmallInstalls ==
  UNION {{cli} \X Settings(cli, HookEvent, Lists(Entry, 1)) \X BOOLEAN \X BOOLEAN : cli \in Cli}

ShortLine ==
  [kind : {"usage"}, tokens : {0, 1, 2}, at : {NoTime}, size : {1, 2}, whole : BOOLEAN]
    \union [kind : {"human"}, tokens : {0}, at : {NoTime, 1, 2}, size : {1, 2}, whole : BOOLEAN]
    \union [kind : {"injected"}, tokens : {0}, at : {NoTime, 1, 2}, size : {2}, whole : {TRUE}]
    \union [kind : {"side"}, tokens : {2}, at : {NoTime}, size : {1}, whole : {TRUE}]

Angled == [kind : {"angled"}, tokens : {0}, at : {1, 2}, size : {2}, whole : {TRUE}]
Event == [kind : {"event"}, tokens : {0}, at : {1, 2}, size : {1}, whole : {TRUE}]

SmallListens ==
  (Reader \X Lists(ShortLine, 3) \X {2})
    \union (Reader \X Lists(ShortLine \union Angled, 2) \X {2})
    \union ({"codex"} \X Lists(ShortLine \union Event, 3) \X {2})

BlockSets ==
  {{[first |-> 0, last |-> 1, of |-> 0], [first |-> 2, last |-> 2, of |-> 2]},
   {[first |-> 0, last |-> 3, of |-> 0], [first |-> 2, last |-> 2, of |-> 2],
    [first |-> 5, last |-> 5, of |-> 2]},
   {[first |-> 0, last |-> 5, of |-> 0], [first |-> 1, last |-> 1, of |-> 2],
    [first |-> 4, last |-> 4, of |-> 4]}}

Program(starts, names, exports, blocks, edges, refs, entry) ==
  [starts |-> starts, name |-> names, exports |-> exports, blocks |-> blocks,
   edges |-> edges, refs |-> refs, entry |-> entry]

SmallGraphs ==
  {<<Program({0, 2, 4}, [s \in {0, 2, 4} |-> "f"], <<>>, blocks, edges, {[to |-> 3, by |-> 2]}, 0),
     f, g, rva>> :
     edges \in SUBSET ({0, 2, 4} \X {0, 2, 4}), f, g \in {0, 2, 4}, blocks \in BlockSets,
     rva \in {1, 3, 5}}

ClaimTargets == [by : {"addr"}, rva : {0, 1, 2}] \union [by : {"name"}, name : {"f", "g", "entry"}]
                  \union {[by |-> "unmapped"]}

ExportTables ==
  {x \in Lists([name : {"f", "g"}, rva : {0, 2}], 2) :
     \A i, j \in DOMAIN x : x[i].name = x[j].name => i = j}
    \union {<<[name |-> "entry", rva |-> 2], [name |-> "f", rva |-> r]>> : r \in {0, 2}}

SmallFallbacks ==
  UNION {{<<Program(starts, names, exports, {}, (starts \X starts) \ {<<2, 0>>}, {}, entry),
            t, [by |-> "addr", rva |-> 2], name>> :
            names \in [starts -> {"f", "g"}], exports \in ExportTables, entry \in {None, 0, 2},
            t \in ClaimTargets, name \in {"", "f", "g"}} :
         starts \in SUBSET {0, 2}}

Images ==
  {[data |-> d, sections |-> <<[va |-> 1, vsize |-> v1, offset |-> o1, raw |-> r1],
                               [va |-> a2, vsize |-> 2, offset |-> o2, raw |-> r2]>>,
    base |-> 10, parsed |-> p] :
     d \in {<<0, 1, 0, 1, 1>>, <<0, 0, 1, 0>>}, v1 \in {1, 3}, o1 \in {0, 1}, r1 \in {1, 2},
     a2 \in {0, 3, 5}, o2 \in {2, 3}, r2 \in {0, 2}, p \in BOOLEAN}

SmallTranslations == Images \X (0..8)

SmallReads ==
  UNION {Images \X (-1..5) \X {expected} \X {Len(expected), 1} : expected \in Lists({0, 1}, 2)}

SmallSearches ==
  {[data |-> data, sections |-> <<>>, base |-> 0, parsed |-> FALSE] : data \in Lists({0, 1}, 5)}
    \X Lists({0, 1, Wild}, 3) \X (0..5)

InstructionClaim ==
  {c \in [off : {0, 1, 4}, length : {NoLength, 0, 1, 2}, mode : {"exact", "contains"},
          expected : Lists({"nop", "push", "far"}, 2),
          operands : Lists({AnyOperands, "nop"}, 1)] :
     Len(c.operands) <= Len(c.expected)}

WordedClaim ==
  {c \in [off : {0, 1}, length : {NoLength, 2}, mode : {"exact", "contains"},
          expected : Lists({"push", "je", "jz"}, 2), operands : Lists({"low", "0xlow", "nop"}, 1)] :
     Len(c.operands) <= Len(c.expected)}

SmallDecodings ==
  (Lists({"nop", "imm", "far", "rex"}, 4) \X InstructionClaim)
    \union (Lists({"imm", "jcc", "rex", "low"}, 4) \X WordedClaim)

Imports == {<<"k", "f", 1, TRUE>>, <<"k", "f", 2, TRUE>>, <<"n", "f", 1, TRUE>>,
            <<"k", "g", 2, FALSE>>, <<"n", "g", 1, TRUE>>}

Files == [magic : {"PE", "ELF", "MachO", "raw"}, sound : BOOLEAN,
          imports : SUBSET {[lib |-> i[1], function |-> i[2], at |-> i[3], named |-> i[4]] : i \in Imports},
          libs : {{"k", "n"}}, last : {[k |-> 2, n |-> 1]}, exports : {{"f"}},
          sections : {{<<"t", 1>>, <<"t", 2>>}}]

TableClaims ==
  {c \in [kind : {"import"}, function : {NoClaim, "f", "g"}, lib : {NoClaim, "k", "m", "*"}] :
     c.function # NoClaim \/ c.lib # NoClaim}
    \union [kind : {"export"}, name : {"f", "g"}]
    \union [kind : {"section"}, name : {"t", "u"}, va : {NoClaim, 2, 3}]

SmallTables == Files \X TableClaims

MemoryCells == 4..11

BitwiseXor(m, n) == m ^^ n

SmallInstruction ==
  [op : {"push", "pop"}, reg : Reg, src : {"a"}, imm : {0}, form : {"register"}]
    \union [op : {"mov"}, reg : {"a", "sp"}, src : {"a"}, imm : {3, 12}, form : {"register"}]
    \union [op : {"xor", "add"}, reg : {"b"}, src : {"a", "b"}, imm : {0},
            form : {"register", "memory"}]
    \union [op : {"ret", "unknown"}, reg : {"a"}, src : {"a"}, imm : {0}, form : {"register"}]

SmallEmulations == Lists(SmallInstruction, 3) \X {0, 1, 2, 3, 5}

Leaves == {[op |-> "x"], [op |-> "n", n |-> 1], [op |-> "n", n |-> 3]}
Compound(A, B) == [op : {"+", "-", "*", "//", "<<", ">>"}, a : A, b : B]
                    \union [op : {"~", "neg"}, a : A]
Simple == Leaves \union Compound(Leaves, Leaves)
Nested == Compound(Simple, Leaves) \union Compound(Leaves, Simple)
SmallExpr == Simple \union Nested
SmallDepth(e) == IF e \in Leaves THEN 0 ELSE IF e \in Simple THEN 1 ELSE 2

SmallProvings == (Simple \X Simple) \union {<<e, e>> : e \in Nested}

SmallComparisons ==
  UNION {[allowed : BOOLEAN, builds : BOOLEAN] \X [1..n -> {NoValue, 0}]
           \X [1..n -> {NoValue, 0, 1}] : n \in {0, 3, 5}}

FixedBytes(wire) == IF wire = 1 THEN 3 ELSE 2

SmallVarints ==
  {0, 1, 15, 16, 17, 255, 256, 511, 512, 513, 4095, 4096, 5000} \X Lists({0, 5, 16}, 1) \X (0..2)

SmallRecord ==
  LET payload == {<<>>, <<10>>, <<10, 13>>, <<13>>, <<8>>, <<8, 16>>, <<8, 1>>, <<13, 1>>, <<3>>}
  IN  [field : {1, 2}, type : {"varint", "fixed64", "fixed32"}, value : {1, 40}, payload : {<<>>}]
        \union [field : {1, 2}, type : {"length"}, value : {0}, payload : payload]

SmallSpelled(raw) ==
  CASE raw = <<10>> -> Decimal(40)
    [] raw = <<10, 13>> -> [style |-> "other", number |-> 40, raw |-> raw]
    [] OTHER -> [style |-> "word", number |-> 0, raw |-> raw]

SmallWants ==
  {{}} \union {{want} : want \in
     [quoted : BOOLEAN,
      text : {Decimal(40), Hex(40)} \union {SmallSpelled(raw) : raw \in {<<10, 13>>, <<13>>}}]}

SmallPayloads ==
  {p \in Lists(Record, 1) \X Record \X (0..4)
           \X [field : {1, 3}, type : {"any", "varint", "fixed32", "string"},
               wants : SmallWants] :
     p[3] < Len(BytesOf(p[2]))}
=============================================================================
