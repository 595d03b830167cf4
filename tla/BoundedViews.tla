---------------------------- MODULE BoundedViews ----------------------------
(***************************************************************************)
(* What survives a cut: the bounded lists and views that carry facts and    *)
(* hand-offs into a fresh context (reverify/ledger.py, Checkpoint in        *)
(* reverify/rollover.py).  Pure operators; an entry of a list is its index. *)
(***************************************************************************)
EXTENDS Naturals, FiniteSets, Sequences, SequencesExt, Numbers

\* The k largest and the k smallest members of a set of numbers.
Newest(S, k) == {i \in S : Cardinality({j \in S : j > i}) < k}
Oldest(S, k) == {i \in S : Cardinality({j \in S : j < i}) < k}

\* The last k entries of a list (Python's list[-k:]).
LastOf(list, k) == IF Len(list) <= k THEN list
                  ELSE SubSeq(list, Len(list) - k + 1, Len(list))

-----------------------------------------------------------------------------
(***************************************************************************)
(* Ledger.established: pin[i] says that fact i is of test or proof tier.    *)
(***************************************************************************)
Pinned(pin) == {i \in DOMAIN pin : pin[i]}

\* Mutant: the oldest facts go first, pinned or not.
EstablishedUnpinned(pin, n) ==
  LET chosen == Newest(Pinned(pin), n) \union Newest(DOMAIN pin, n)
      excess == Cardinality(chosen) - n
  IN  chosen \ Oldest(chosen, excess)

\* The last n pinned and the last n of all, the oldest unpinned dropped
\* until n are left.
Established(pin, n) ==
  LET chosen == Newest(Pinned(pin), n) \union Newest(DOMAIN pin, n)
      excess == IF Cardinality(chosen) > n THEN Cardinality(chosen) - n ELSE 0
      dropped == Oldest(chosen \ Pinned(pin), excess)
  IN  Newest(chosen \ dropped, n)

\* Ledger.known_false: the newest refutations.
KnownFalse(refuted, limit) == Newest(DOMAIN refuted, limit)

(***************************************************************************)
(* The view is full whenever there are facts to fill it; nothing hidden is  *)
(* newer than something shown of its own kind; and a pinned fact is hidden  *)
(* only behind other pinned ones, so a refill of checked constants never    *)
(* pages a proof out, but n proofs page out every other fact.               *)
(***************************************************************************)
ViewPinsProofs(pin, n) ==
  LET shown == Established(pin, n)
      hidden == DOMAIN pin \ shown
  IN  /\ Cardinality(shown) = IF Len(pin) < n THEN Len(pin) ELSE n
      /\ \A s \in shown, h \in hidden :
           /\ pin[h] => pin[s]
           /\ pin[h] = pin[s] => h < s

-----------------------------------------------------------------------------
(***************************************************************************)
(* Checkpoint.merge, Ledger.remember_path and Ledger.start_run: an item is  *)
(* appended unless the list holds it, then the list is cut to the last k.   *)
(***************************************************************************)
Remember(list, item) == IF Contains(list, item) THEN list ELSE Append(list, item)

\* One list of Checkpoint.merge; start_run and remember_path give one item.
RememberAll(list, update) ==
  LET after[i \in 0..Len(update)] ==
        IF i = 0 THEN list ELSE Remember(after[i - 1], update[i])
  IN  after[Len(update)]

MergeList(list, update, k) == LastOf(RememberAll(list, update), k)

(***************************************************************************)
(* A hand-off saved is a hand-off shown: the list stays within its bound    *)
(* and without repetition; an item the update names for the first time is   *)
(* there afterwards, unless k items came after it; and saving the same      *)
(* hand-off again (a retried re_checkpoint) changes nothing as long as the  *)
(* bound cut nothing.  An item the list already held is not refreshed by    *)
(* being named again: it can drop out in the very merge that names it.      *)
(***************************************************************************)
MergeKeepsNews(list, update, k) ==
  LET after == MergeList(list, update, k)
      all == ToSet(list) \union ToSet(update)
      news == ToSet(update) \ ToSet(list)
  IN  /\ Len(after) <= k /\ IsInjective(after) /\ ToSet(after) \subseteq all
      /\ Cardinality(news) <= k => news \subseteq ToSet(after)
      /\ Cardinality(all) <= k => /\ ToSet(after) = all
                                  /\ MergeList(after, update, k) = after

-----------------------------------------------------------------------------
(***************************************************************************)
(* context_for_directory: the texts of the newest ledgers, by length, until *)
(* the budget is used; the first one is cut to the budget rather than left  *)
(* out.  Returns the lengths of the parts joined by a separator.            *)
(***************************************************************************)
\* total and parts after one more ledger; stop is the loop's break
Fit(s, len, max) ==
  IF s.stop \/ (s.total + len > max /\ s.parts # <<>>) THEN [s EXCEPT !.stop = TRUE]
  ELSE [total |-> s.total + len, stop |-> FALSE,
        parts |-> Append(s.parts, IF len < max THEN len ELSE max)]

ContextParts(lens, max, limit) ==
  LET n == IF Len(lens) < limit THEN Len(lens) ELSE limit
      after[i \in 0..n] == IF i = 0 THEN [total |-> 0, stop |-> FALSE, parts |-> <<>>]
                           ELSE Fit(after[i - 1], lens[i], max)
  IN  after[n].parts

(***************************************************************************)
(* Something is injected whenever there is a ledger, the newest ones first  *)
(* and none skipped, and the parts stay within the budget: max characters   *)
(* plus the separators, which the budget does not count.                    *)
(***************************************************************************)
ContextWithinBudget(lens, max, limit) ==
  LET parts == ContextParts(lens, max, limit)
  IN  /\ lens # <<>> => parts # <<>>
      /\ Len(parts) <= limit
      /\ SumTo(parts, Len(parts)) <= max
      /\ \A i \in DOMAIN parts : parts[i] = IF lens[i] < max THEN lens[i] ELSE max
      /\ Len(parts) < Len(lens) /\ Len(parts) < limit =>
           SumTo(lens, Len(parts) + 1) > max
=============================================================================
