--------------------------- MODULE SemanticClaims ---------------------------
(***************************************************************************)
(* Claims about functions, calls and references (reverify/semantic.py and   *)
(* the function_at, calls, references and reachable_from_entry checks of    *)
(* reverify/verifier.py), under the analysis engine's view of a binary and  *)
(* under the fallback's, which knows the entry point and the exports only.  *)
(*                                                                          *)
(* A program is what the engine recovers (starts and names of functions,    *)
(* blocks [first, last, of], call edges, references [to, by]) and what the  *)
(* file says: its entry point, and the addresses it exports with their      *)
(* names, in order.  An export may be data, or one of several names of an   *)
(* address, and the engine may miss a function.                             *)
(***************************************************************************)
EXTENDS Integers, FiniteSets, Sequences

CONSTANTS Window,     \* how far function_containing looks back: 65536
          Symbol      \* names of functions and exports
ASSUME WindowAssumption == Window \in Nat

None == -1
Lowest(S) == CHOOSE x \in S : \A y \in S : x <= y

IsProgram(p) ==
  /\ p.starts \subseteq Nat /\ p.entry \in Nat \union {None}
  /\ p.exports \in Seq([name : Symbol, rva : Nat])
  /\ p.edges \subseteq p.starts \X p.starts
  /\ IsFiniteSet(p.blocks) /\ p.blocks \subseteq [first : Nat, last : Nat, of : p.starts]
  /\ p.refs \subseteq [to : Nat, by : Nat \union {None}]

\* what a claim names a function by
IsTarget(t) == t.by = "addr" => t.rva \in Nat

-----------------------------------------------------------------------------
(***************************************************************************)
(* The two views.                                                           *)
(***************************************************************************)
\* nx.descendants of the entry, and the entry: what every set that holds the
\* entry and the callees of its members holds; nothing, if the engine found no
\* function at the entry
Descendants(p) ==
  LET closed == {S \in SUBSET p.starts :
                   p.entry \in S /\ \A e \in p.edges : e[1] \in S => e[2] \in S}
  IN  IF p.entry \in p.starts THEN {f \in p.starts : \A S \in closed : f \in S} ELSE {}

FullView(p) ==
  [complete |-> TRUE, starts |-> p.starts, name |-> p.name, blocks |-> p.blocks,
   edges |-> p.edges, refs |-> p.refs, reachable |-> Descendants(p)]

\* The first name an address is exported by.  An entry point that is not
\* exported is called "entry"; any export renames what is called so.
FirstName(p, rva) ==
  LET named == {i \in DOMAIN p.exports : p.exports[i].rva = rva /\ p.exports[i].name # "entry"}
  IN  IF named = {} THEN "entry" ELSE p.exports[Lowest(named)].name

Certain(p) == ({p.entry} \ {None}) \union {p.exports[i].rva : i \in DOMAIN p.exports}

\* Mutant: the fallback answers as if it knew everything.
PureViewComplete(p) ==
  [complete |-> TRUE, starts |-> Certain(p), name |-> [f \in Certain(p) |-> FirstName(p, f)],
   blocks |-> {}, edges |-> {}, refs |-> {}, reachable |-> {}]

PureView(p) ==
  [complete |-> FALSE, starts |-> Certain(p), name |-> [f \in Certain(p) |-> FirstName(p, f)],
   blocks |-> {}, edges |-> {}, refs |-> {}, reachable |-> {}]

\* resolve_name: functions are indexed in order of address, the first keeps
\* a name that several have
Named(view, name) ==
  LET S == {f \in view.starts : view.name[f] = name}
  IN  IF S = {} THEN None ELSE Lowest(S)

\* function_containing: from the last block that starts at or before rva
\* backwards, until one holds it or ends before it further back than Window
Before(a, b) ==
  \/ a.first < b.first
  \/ a.first = b.first /\ a.last < b.last
  \/ a.first = b.first /\ a.last = b.last /\ a.of < b.of

Containing(view, rva) ==
  LET stops == {b \in view.blocks :
                  /\ b.first <= rva
                  /\ rva <= b.last \/ b.first <= rva - Window}
      stop == CHOOSE b \in stops : \A c \in stops \ {b} : Before(c, b)
  IN  CASE rva \in view.starts -> rva
        [] rva \notin view.starts /\ stops # {} /\ rva <= stop.last -> stop.of
        [] OTHER -> None

\* _sem_target: an address in a section, or a name
Target(view, t) ==
  CASE t.by = "name" -> Named(view, t.name)
    [] t.by = "addr" -> t.rva
    [] OTHER -> None             \* an address outside every section

-----------------------------------------------------------------------------
(***************************************************************************)
(* Verdicts.  Without the engine a boundary, a call or a reference that is  *)
(* not known is not judged.                                                 *)
(***************************************************************************)
Known(view, holds) ==
  CASE holds -> "verified" [] ~ holds /\ view.complete -> "refuted" [] OTHER -> "inconclusive"

\* _check_function_at; name is "" when the claim gives an address only
FunctionAt(view, t, name) ==
  LET rva == Target(view, t)
  IN  CASE rva = None /\ t.by = "name" -> Known(view, FALSE)
        [] rva = None /\ t.by # "name" -> "inconclusive"
        [] rva \in view.starts /\ t.by = "addr" /\ name \notin {"", view.name[rva]} -> "refuted"
        [] OTHER -> Known(view, rva \in view.starts)

\* _check_calls; a callee is the function that starts at, or holds, the target
Calls(view, from, to) ==
  LET src == Target(view, from)
      dst == Target(view, to)
      caller == Containing(view, src)
      callee == Containing(view, dst)
  IN  CASE ~ view.complete -> "inconclusive"
        [] view.complete /\ src = None -> IF from.by = "name" THEN "refuted" ELSE "inconclusive"
        [] view.complete /\ src # None /\ caller = None -> "refuted"
        [] view.complete /\ caller # None /\ dst = None ->
             IF to.by = "name" THEN "refuted" ELSE "inconclusive"
        [] OTHER -> Known(view, callee # None /\ <<caller, callee>> \in view.edges)

\* _check_references, of the exact address, from a function or from anywhere
References(view, to, from) ==
  LET dst == Target(view, to)
      src == Target(view, from)
      users == {r.by : r \in {q \in view.refs : q.to = dst}}
  IN  CASE dst = None \/ ~ view.complete -> "inconclusive"
        [] dst # None /\ view.complete /\ from.by = "any" -> Known(view, users # {})
        [] dst # None /\ view.complete /\ from.by # "any" /\ src = None ->
             IF from.by = "name" THEN "refuted" ELSE "inconclusive"
        [] OTHER -> Known(view, Containing(view, src) \in users \ {None})

\* _check_reachable_from_entry
Reachable(view, t) ==
  LET rva == Target(view, t)
  IN  CASE ~ view.complete \/ (rva = None /\ t.by # "name") -> "inconclusive"
        [] view.complete /\ rva = None /\ t.by = "name" -> "refuted"
        [] OTHER -> Known(view, Containing(view, rva) \in view.reachable)

-----------------------------------------------------------------------------
(***************************************************************************)
(* Verdicts of the engine's view fit together: what a reachable function    *)
(* calls is reachable, anything reachable is the entry or is called from    *)
(* somewhere reachable, a reference from a function is a reference, and a   *)
(* claim gets the verdict of the function its address is in.  A block       *)
(* longer than Window may be missed.                                        *)
(***************************************************************************)
GraphVerdictsFit(p, f, g, rva) ==
  LET v == FullView(p)
      at(x) == [by |-> "addr", rva |-> x]
      owners == {b.of : b \in {c \in p.blocks : c.first <= rva /\ rva <= c.last}}
  IN  /\ p.entry \in p.starts => Reachable(v, at(p.entry)) = "verified"
      /\ Reachable(v, at(f)) = "verified" /\ Calls(v, at(f), at(g)) = "verified" =>
           Reachable(v, at(g)) = "verified"
      /\ Reachable(v, at(g)) = "verified" /\ g # p.entry =>
           \E h \in p.starts : /\ Reachable(v, at(h)) = "verified"
                               /\ Calls(v, at(h), at(g)) = "verified"
      /\ References(v, at(rva), at(f)) = "verified" =>
           References(v, at(rva), [by |-> "any"]) = "verified"
      /\ owners # {} /\ (\A b \in p.blocks : b.last - b.first < Window) =>
           LET owner == Containing(v, rva)
           IN  /\ owner # None
               /\ rva \notin p.starts => owner \in owners
               /\ Calls(v, at(rva), at(g)) = Calls(v, at(owner), at(g))
      /\ owners = {} /\ rva \notin p.starts => Calls(v, at(rva), at(g)) = "refuted"

\* All names an address is exported by.
NamesOf(p, rva) == {p.exports[i].name : i \in {j \in DOMAIN p.exports : p.exports[j].rva = rva}}

(***************************************************************************)
(* What the fallback judges, the engine judges the same way, where it found *)
(* the function and calls it by its only exported name.  Elsewhere they     *)
(* disagree, against "INCONCLUSIVE for everything else - never a guess":    *)
(* the fallback verifies a function at every export and the entry, the data *)
(* and the functions the engine does not have included; it calls an entry   *)
(* point that is not exported "entry", whatever its name; and of several    *)
(* names an address is exported by it refutes all but the first.            *)
(***************************************************************************)
FallbackNeverGuesses(p, t, u, name) ==
  LET pure == PureView(p)
      full == FullView(p)
      mine == FunctionAt(pure, t, name)
      theirs == FunctionAt(full, t, name)
      agree(a, b) == a \in {"inconclusive", b}
      plain(rva) == rva \in p.starts /\ (name = "" \/ NamesOf(p, rva) = {p.name[rva]})
  IN  /\ t.by = "addr" =>
           /\ plain(t.rva) \/ t.rva \notin Certain(p) => agree(mine, theirs)
           /\ t.rva \in Certain(p) \ p.starts =>
                theirs = "refuted" /\ (name = "" => mine = "verified")
           /\ name \in NamesOf(p, t.rva) \ {"", FirstName(p, t.rva)} => mine = "refuted"
      /\ t.by = "name" =>
           /\ agree(mine, theirs) \/ \A f \in p.starts : p.name[f] # t.name
           /\ mine # "refuted"
      /\ t.by \notin {"addr", "name"} => mine = "inconclusive"
      /\ agree(Calls(pure, t, u), Calls(full, t, u))
      /\ agree(References(pure, t, u), References(full, t, u))
      /\ agree(Reachable(pure, t), Reachable(full, t))
=============================================================================
