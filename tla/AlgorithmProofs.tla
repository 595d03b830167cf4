-------------------------- MODULE AlgorithmProofs --------------------------
(***************************************************************************)
(* Theorems about Algorithms: what TLC finds of the small inputs holds of   *)
(* all.                                                                     *)
(***************************************************************************)
EXTENDS AlgorithmRelations, FiniteSetTheorems, WellFoundedInduction, TLAPS

\* That holds of every state.
LEMMA AskedInvariant == Spec => []Asked
<1>1. Init => Asked
  BY DEF Init, Asked
<1>2. Asked /\ [Next]_<<op, arg>> => Asked'
  BY DEF Asked, Next, Call, View, Merge, Context, InstallHooks, Listen, Graph, Fallback,
         Translate, ReadBytes, Search, Disassemble, Table,
         RoundTrip, Dissect, Emulate, Prove, Compare
<1>3. QED
  BY <1>1, <1>2, PTL DEF Spec

-----------------------------------------------------------------------------
(***************************************************************************)
(* Induction over numbers, by the least counterexample.                     *)
(***************************************************************************)
\* A non-empty set of numbers has a least element.
LEMMA Least ==
  ASSUME NEW T \in SUBSET Nat, T # {}
  PROVE  \E n \in T : \A m \in T : n <= m
<1>1. PICK n \in T : \A m \in T : ~(<<m, n>> \in OpToRel(<, Nat))
  BY NatLessThanWellFounded, WFMin, Zenon
<1>2. \A m \in T : ~(m < n)
  BY <1>1 DEF OpToRel
<1>3. QED
  BY <1>2

\* A set of numbers that holds 0 and every successor of a member is Nat.
LEMMA Induction ==
  ASSUME NEW S, 0 \in S, \A n \in Nat : n \in S => n + 1 \in S
  PROVE  \A n \in Nat : n \in S
<1> DEFINE T == {n \in Nat : n \notin S}
<1>1. SUFFICES ASSUME T # {} PROVE FALSE
  OBVIOUS
<1>2. PICK n \in T : \A m \in T : n <= m
  <2>1. T \in SUBSET Nat
    OBVIOUS
  <2> HIDE DEF T
  <2>2. QED
    BY <1>1, <2>1, Least
<1>3. n \in Nat /\ n # 0 /\ n - 1 \in Nat
  BY <1>2
<1>4. n - 1 \in S
  BY <1>2, <1>3
<1>5. (n - 1) + 1 \in S
  BY <1>3, <1>4
<1>6. QED
  BY <1>2, <1>3, <1>5

\* The same up to a bound, stepping down.
LEMMA InductionUpto ==
  ASSUME NEW n \in Nat, NEW S, 0 \in S, \A i \in 1..n : i - 1 \in S => i \in S
  PROVE  \A i \in 0..n : i \in S
<1> DEFINE T == {i \in Nat : i <= n => i \in S}
<1>1. 0 \in T
  OBVIOUS
<1>2. ASSUME NEW m \in Nat, m \in T PROVE m + 1 \in T
  <2> SUFFICES ASSUME m + 1 <= n PROVE m + 1 \in S
    OBVIOUS
  <2>1. m + 1 \in 1..n /\ (m + 1) - 1 = m /\ m \in S
    BY <1>2
  <2>2. QED
    BY <2>1
<1>3. \A m \in Nat : m \in T
  <2> HIDE DEF T
  <2>1. QED
    BY <1>1, <1>2, Induction
<1>4. QED
  BY <1>3

\* What is to be iterated can be: the values of a step, one after another.
LEMMA Iteration ==
  ASSUME NEW n \in Nat, NEW A, NEW a \in A, NEW step \in Steps(n, A)
  PROVE  CanIterate(a, step, n, A)
<1> USE DEF Steps
<1> SUFFICES \E f \in [0..n -> A] :
               f[0] = a /\ \A i \in 1..n : f[i] = step[<<i, f[i-1]>>]
  BY DEF CanIterate, Iterated
<1> DEFINE Good(f, m) == f \in [0..m -> A] /\ f[0] = a
                         /\ \A i \in 1..m : f[i] = step[<<i, f[i-1]>>]
           S == {m \in Nat : m <= n => \E f : Good(f, m)}
<1>1. 0 \in S
  <2>1. Good([i \in 0..0 |-> a], 0)
    OBVIOUS
  <2>2. QED
    BY <2>1
<1>2. ASSUME NEW m \in Nat, m \in S PROVE m + 1 \in S
  <2> SUFFICES ASSUME m + 1 <= n PROVE \E f : Good(f, m + 1)
    OBVIOUS
  <2>1. PICK f : Good(f, m)
    BY <1>2
  <2> DEFINE h == [i \in 0..(m + 1) |-> IF i <= m THEN f[i] ELSE step[<<m + 1, f[m]>>]]
  <2>2. f[m] \in A /\ m + 1 \in 1..n
    BY <2>1
  <2>3. step[<<m + 1, f[m]>>] \in A
    BY <2>2
  <2>4. h \in [0..(m + 1) -> A]
    BY <2>1, <2>3
  <2>5. h[0] = a /\ \A i \in 1..(m + 1) : h[i] = step[<<i, h[i-1]>>]
    <3>1. \A i \in 0..m : h[i] = f[i]
      OBVIOUS
    <3>2. h[m + 1] = step[<<m + 1, f[m]>>]
      OBVIOUS
    <3>3. ASSUME NEW i \in 1..(m + 1) PROVE h[i] = step[<<i, h[i-1]>>]
      <4>1. CASE i = m + 1
        <5>1. i - 1 = m /\ m \in 0..m
          BY <4>1
        <5>2. QED
          BY <3>1, <3>2, <4>1, <5>1
      <4>2. CASE i # m + 1
        BY <4>2, <2>1, <3>1
      <4>3. QED
        BY <4>1, <4>2
    <3>4. h[0] = a
      BY <2>1, <3>1
    <3> HIDE DEF h
    <3>5. QED
      BY <3>3, <3>4
  <2>6. QED
    BY <2>4, <2>5
<1>3. n \in S
  <2> HIDE DEF S
  <2>1. QED
    BY <1>1, <1>2, Induction
<1>4. QED
  BY <1>3

\* A definition by recursion on depth has a function: by induction over the depth.
LEMMA Recursion ==
  ASSUME NEW S, NEW depth \in [S -> Nat], NEW T, T # {},
         NEW body \in [S \X [S -> T] -> T], Contracts(S, depth, T, body)
  PROVE  \E f \in [S -> T] : Recurs(S, body, f)
<1> DEFINE Good(f, n) == f \in [S -> T] /\ \A s \in S : depth[s] < n => f[s] = body[<<s, f>>]
           N == {n \in Nat : \E f : Good(f, n)}
           A == {n \in Nat : \A f, g : Good(f, n) /\ Good(g, n) =>
                               \A s \in S : depth[s] < n => f[s] = g[s]}
<1>1. \A s \in S : depth[s] \in Nat
  OBVIOUS
<1>2. \A f, g \in [S -> T] : \A s \in S :
        (\A r \in S : depth[r] < depth[s] => f[r] = g[r]) => body[<<s, f>>] = body[<<s, g>>]
  BY DEF Contracts
<1>3. \A n \in Nat : n \in N
  <2>1. 0 \in N
    <3>1. PICK t : t \in T
      OBVIOUS
    <3>2. Good([s \in S |-> t], 0)
      BY <1>1, <3>1
    <3>3. QED
      BY <3>2
  <2>2. ASSUME NEW n \in Nat, n \in N PROVE n + 1 \in N
    <3>1. PICK f : Good(f, n)
      BY <2>2
    <3> DEFINE g == [s \in S |-> body[<<s, f>>]]
    <3>2. g \in [S -> T]
      BY <3>1
    <3>3. \A s \in S : g[s] = body[<<s, f>>]
      OBVIOUS
    <3> HIDE DEF g
    <3>4. ASSUME NEW s \in S, depth[s] < n + 1 PROVE g[s] = body[<<s, g>>]
      <4>1. ASSUME NEW r \in S, depth[r] < depth[s] PROVE f[r] = g[r]
        <5>1. depth[r] < n
          BY <1>1, <3>4, <4>1
        <5>2. QED
          BY <3>1, <3>3, <5>1
      <4>2. body[<<s, f>>] = body[<<s, g>>]
        BY <1>2, <3>1, <3>2, <4>1
      <4>3. QED
        BY <3>3, <4>2
    <3>5. Good(g, n + 1)
      BY <3>2, <3>4
    <3>6. QED
      BY <3>5
  <2> HIDE DEF N
  <2>3. QED
    BY <2>1, <2>2, Induction
<1>4. \A n \in Nat : n \in A
  <2>1. 0 \in A
    BY <1>1
  <2>2. ASSUME NEW n \in Nat, n \in A PROVE n + 1 \in A
    <3>1. ASSUME NEW f, NEW g, Good(f, n + 1), Good(g, n + 1),
                 NEW s \in S, depth[s] < n + 1
          PROVE  f[s] = g[s]
      <4>1. Good(f, n) /\ Good(g, n)
        BY <1>1, <3>1
      <4>2. ASSUME NEW r \in S, depth[r] < depth[s] PROVE f[r] = g[r]
        <5>1. depth[r] < n
          BY <1>1, <3>1, <4>2
        <5> HIDE DEF Good
        <5>2. QED
          BY <2>2, <4>1, <5>1
      <4>3. body[<<s, f>>] = body[<<s, g>>]
        BY <1>2, <3>1, <4>2
      <4>4. QED
        BY <3>1, <4>3
    <3>2. n + 1 \in Nat
      OBVIOUS
    <3> HIDE DEF Good
    <3>3. QED
      BY <3>1, <3>2
  <2> HIDE DEF A
  <2>3. QED
    BY <2>1, <2>2, Induction
<1>m. \A n, m \in Nat : \A f : m <= n /\ Good(f, n) => Good(f, m)
  BY <1>1
<1>d. \A n \in Nat : \A f : \A s \in S : Good(f, n) /\ depth[s] < n => f[s] = body[<<s, f>>]
  OBVIOUS
<1>a. \A n \in Nat : \A f, g : Good(f, n) /\ Good(g, n) => \A s \in S : depth[s] < n => f[s] = g[s]
  BY <1>4
<1> DEFINE h(n) == CHOOSE f : Good(f, n)
           F == [s \in S |-> h(depth[s] + 1)[s]]
<1>5. \A n \in Nat : Good(h(n), n)
  <2> HIDE DEF Good
  <2>1. QED
    BY <1>3
<1> HIDE DEF h, N
<1>g. \A n \in Nat : \A f : Good(f, n) => f \in [S -> T]
  OBVIOUS
<1> HIDE DEF Good, A
<1>6. \A s \in S : h(depth[s] + 1)[s] \in T
  BY <1>1, <1>5, <1>g
<1>7. F \in [S -> T]
  BY <1>6
<1>8. ASSUME NEW s \in S PROVE F[s] = body[<<s, F>>]
  <2> DEFINE g == h(depth[s] + 1)
  <2>1. depth[s] \in Nat /\ depth[s] + 1 \in Nat /\ depth[s] < depth[s] + 1
    BY <1>1
  <2>2. Good(g, depth[s] + 1) /\ F[s] = g[s]
    BY <1>5, <2>1
  <2>3. g[s] = body[<<s, g>>] /\ g \in [S -> T]
    <3> HIDE DEF g
    <3>1. QED
      BY <1>d, <1>g, <2>1, <2>2
  <2>4. ASSUME NEW r \in S, depth[r] < depth[s] PROVE F[r] = g[r]
    <3> DEFINE k == h(depth[r] + 1)
               n == depth[r] + 1
    <3>1. n \in Nat /\ n <= depth[s] + 1 /\ depth[r] < n
      BY <1>1, <2>1, <2>4
    <3>2. F[r] = k[r] /\ Good(k, n)
      BY <1>5, <3>1
    <3> HIDE DEF g, k, F, n
    <3>3. Good(g, n)
      BY <1>m, <2>1, <2>2, <3>1
    <3>4. g[r] = k[r]
      BY <1>a, <3>1, <3>2, <3>3
    <3>5. QED
      BY <3>2, <3>4
  <2> HIDE DEF F, g
  <2>5. body[<<s, F>>] = body[<<s, g>>]
    BY <1>2, <1>7, <2>3, <2>4
  <2>6. QED
    BY <2>2, <2>3, <2>5
<1>9. QED
  <2> HIDE DEF F
  <2>1. QED
    BY <1>7, <1>8 DEF Recurs

-----------------------------------------------------------------------------
(***************************************************************************)
(* Filtering a list keeps the order, entry by entry.                        *)
(***************************************************************************)

\* Only is the function its recursive definition speaks of.
LEMMA OnlyDefined ==
  ASSUME NEW S, NEW s \in Seq(S), NEW T
  PROVE  \E kept \in [0..Len(s) -> Seq(S)] : Keeps(s, T, kept) /\ Only(s, T) = kept[Len(s)]
<1> DEFINE n == Len(s)
           A == Seq(S)
           step == [p \in (1..n) \X A |->
                      IF s[p[1]] \in T THEN Append(p[2], s[p[1]]) ELSE p[2]]
           kept[i \in 0..Len(s)] ==
             IF i = 0 THEN <<>>
             ELSE IF s[i] \in T THEN Append(kept[i-1], s[i]) ELSE kept[i-1]
<1>1. n \in Nat /\ <<>> \in A /\ \A i \in 1..n : s[i] \in S
  OBVIOUS
<1>2. step \in [(1..n) \X A -> A]
  BY <1>1
<1>3. PICK f \in [0..n -> A] :
        f[0] = <<>> /\ \A i \in 1..n : f[i] = step[<<i, f[i-1]>>]
  <2> DEFINE none == <<>>
  <2>1. none \in A /\ n \in Nat /\ step \in Steps(n, A)
    BY <1>1, <1>2 DEF Steps
  <2> HIDE DEF step, n, A, kept, none
  <2>2. CanIterate(none, step, n, A)
    BY <2>1, Iteration
  <2>3. QED
    BY <2>2 DEF none, CanIterate, Iterated
<1>4. \A i \in 1..n : f[i] = IF s[i] \in T THEN Append(f[i-1], s[i]) ELSE f[i-1]
  <2> HIDE DEF A, n
  <2>1. ASSUME NEW i \in 1..n PROVE i \in 1..n /\ i - 1 \in 0..n
    BY <1>1
  <2>2. ASSUME NEW i \in 1..n PROVE <<i, f[i-1]>> \in (1..n) \X A
    BY <1>3, <2>1
  <2>3. QED
    BY <1>3, <2>2
<1>5. f = [i \in 0..n |->
             IF i = 0 THEN <<>>
             ELSE IF s[i] \in T THEN Append(f[i-1], s[i]) ELSE f[i-1]]
  <2> HIDE DEF step, A, n, kept
  <2>1. \A i \in 0..n : i = 0 \/ i \in 1..n
    BY <1>1
  <2>2. QED
    BY <1>3, <1>4, <2>1
<1>6. kept = [i \in 0..n |->
                IF i = 0 THEN <<>>
                ELSE IF s[i] \in T THEN Append(kept[i-1], s[i]) ELSE kept[i-1]]
  <2> HIDE DEF step, A
  <2>1. QED
    BY <1>5
<1>7. Only(s, T) = kept[n]
  BY DEF Only
<1> HIDE DEF kept, step
<1>8. \A i \in 0..n : kept[i] \in A
  <2> DEFINE M == {k \in 0..n : kept[k] \in A}
  <2> HIDE DEF n
  <2>1. 0 \in M
    BY <1>1, <1>6
  <2>2. ASSUME NEW i \in 1..n, i - 1 \in M PROVE i \in M
    <3>1. i \in 0..n /\ i # 0 /\ s[i] \in S
      BY <1>1
    <3>2. kept[i] = IF s[i] \in T THEN Append(kept[i-1], s[i]) ELSE kept[i-1]
      <4> HIDE DEF A
      <4>1. QED
        BY <1>6, <3>1
    <3>3. kept[i-1] \in Seq(S)
      BY <2>2
    <3>4. kept[i] \in Seq(S)
      BY <3>1, <3>2, <3>3
    <3>5. QED
      BY <3>1, <3>4
  <2> HIDE DEF M
  <2>3. \A i \in 0..n : i \in M
    BY <1>1, <2>1, <2>2, InductionUpto
  <2>4. QED
    BY <2>3 DEF M
<1>9. kept \in [0..n -> A]
  <2> HIDE DEF A, n
  <2>1. kept = [i \in 0..n |-> kept[i]]
    BY <1>6
  <2>2. QED
    BY <1>8, <2>1
<1>10. Keeps(s, T, kept)
  <2>1. \A i \in 1..n : i \in 0..n /\ i # 0
    BY <1>1
  <2>2. 0 \in 0..n
    BY <1>1
  <2>3. QED
    BY <1>6, <2>1, <2>2 DEF Keeps
<1>11. QED
  BY <1>7, <1>9, <1>10

\* A filtered list is a list of the same things.
LEMMA OnlyType ==
  ASSUME NEW S, NEW s \in Seq(S), NEW T
  PROVE  Only(s, T) \in Seq(S)
<1>1. PICK kept \in [0..Len(s) -> Seq(S)] : Only(s, T) = kept[Len(s)]
  BY OnlyDefined
<1>2. Len(s) \in 0..Len(s)
  OBVIOUS
<1>3. QED
  BY <1>1, <1>2

\* Nothing is left of nothing.
LEMMA OnlyEmpty ==
  ASSUME NEW T
  PROVE  Only(<<>>, T) = <<>>
<1>1. <<>> \in Seq({}) /\ Len(<<>>) = 0
  OBVIOUS
<1>2. PICK kept : Keeps(<<>>, T, kept) /\ Only(<<>>, T) = kept[Len(<<>>)]
  BY <1>1, OnlyDefined
<1>3. QED
  BY <1>1, <1>2 DEF Keeps

\* Filtering a longer list filters the shorter one and decides on the last.
LEMMA OnlyAppend ==
  ASSUME NEW S, NEW s \in Seq(S), NEW e \in S, NEW T
  PROVE  Only(Append(s, e), T) = IF e \in T THEN Append(Only(s, T), e) ELSE Only(s, T)
<1> DEFINE n == Len(s)
           t == Append(s, e)
<1>1. t \in Seq(S) /\ Len(t) = n + 1 /\ t[n + 1] = e /\ \A i \in 1..n : t[i] = s[i]
  OBVIOUS
<1>2. n \in Nat
  OBVIOUS
<1>3. PICK a : Keeps(s, T, a) /\ Only(s, T) = a[n]
  BY OnlyDefined
<1> HIDE DEF t
<1>4. PICK b : Keeps(t, T, b) /\ Only(t, T) = b[Len(t)]
  BY <1>1, OnlyDefined
<1> HIDE DEF n
<1> DEFINE M == {i \in 0..n : a[i] = b[i]}
<1>5. 0 \in M
  BY <1>2, <1>3, <1>4 DEF Keeps
<1>6. ASSUME NEW i \in 1..n, i - 1 \in M PROVE i \in M
  BY <1>1, <1>2, <1>6, <1>3, <1>4 DEF n, Keeps
<1>7. a[n] = b[n]
  <2> HIDE DEF M
  <2>1. \A i \in 0..n : i \in M
    BY <1>2, <1>5, <1>6, InductionUpto
  <2>2. n \in M
    BY <1>2, <2>1
  <2>3. QED
    BY <2>2 DEF M
<1>8. b[n + 1] = IF e \in T THEN Append(b[n], e) ELSE b[n]
  BY <1>1, <1>2, <1>4 DEF Keeps
<1>9. QED
  BY <1>1, <1>3, <1>4, <1>7, <1>8 DEF t

\* Filtering twice is filtering for both.
LEMMA OnlyOnly ==
  ASSUME NEW S, NEW s \in Seq(S), NEW T, NEW U
  PROVE  Only(Only(s, T), U) = Only(s, T \cap U)
<1> DEFINE n == Len(s)
<1>1. n \in Nat /\ \A i \in 1..n : s[i] \in S
  OBVIOUS
<1>2. PICK a \in [0..n -> Seq(S)] : Keeps(s, T, a) /\ Only(s, T) = a[n]
  BY OnlyDefined
<1>3. PICK b \in [0..n -> Seq(S)] : Keeps(s, T \cap U, b) /\ Only(s, T \cap U) = b[n]
  BY OnlyDefined
<1> DEFINE M == {i \in 0..n : Only(a[i], U) = b[i]}
<1>4. 0 \in M
  BY <1>1, <1>2, <1>3, OnlyEmpty DEF Keeps
<1>5. ASSUME NEW i \in 1..n, i - 1 \in M PROVE i \in M
  <2>1. i \in 0..n /\ i - 1 \in 0..n /\ s[i] \in S
    BY <1>1
  <2>2. a[i-1] \in Seq(S) /\ Only(a[i-1], U) = b[i-1]
    BY <1>2, <1>5, <2>1
  <2>3. Only(Append(a[i-1], s[i]), U)
          = IF s[i] \in U THEN Append(b[i-1], s[i]) ELSE b[i-1]
    <3>1. \A r \in Seq(S), e \in S :
            Only(Append(r, e), U) = IF e \in U THEN Append(Only(r, U), e) ELSE Only(r, U)
      BY OnlyAppend
    <3>2. QED
      BY <2>1, <2>2, <3>1, Zenon
  <2>4. /\ a[i] = IF s[i] \in T THEN Append(a[i-1], s[i]) ELSE a[i-1]
        /\ b[i] = IF s[i] \in T \cap U THEN Append(b[i-1], s[i]) ELSE b[i-1]
    BY <1>2, <1>3 DEF Keeps
  <2>5. Only(a[i], U) = b[i]
    BY <2>2, <2>3, <2>4
  <2>6. QED
    BY <2>1, <2>5
<1>6. \A i \in 0..n : i \in M
  <2> HIDE DEF M, n
  <2>1. QED
    BY <1>1, <1>4, <1>5, InductionUpto
<1>7. QED
  BY <1>1, <1>2, <1>3, <1>6

\* No member, no entries.
LEMMA OnlyNone ==
  ASSUME NEW S, NEW s \in Seq(S)
  PROVE  Only(s, {}) = <<>>
<1> DEFINE n == Len(s)
<1>1. n \in Nat
  OBVIOUS
<1>2. PICK a : Keeps(s, {}, a) /\ Only(s, {}) = a[n]
  BY OnlyDefined
<1> DEFINE M == {i \in 0..n : a[i] = <<>>}
<1>3. 0 \in M
  BY <1>1, <1>2 DEF Keeps
<1>4. ASSUME NEW i \in 1..n, i - 1 \in M PROVE i \in M
  BY <1>1, <1>2, <1>4 DEF Keeps
<1>5. \A i \in 0..n : i \in M
  <2> HIDE DEF M, n
  <2>1. QED
    BY <1>1, <1>3, <1>4, InductionUpto
<1>6. QED
  BY <1>1, <1>2, <1>5

\* On lists of entries, those not ours are exactly the user's.
LEMMA Filters ==
  ASSUME NEW s \in Seq(Entry)
  PROVE  /\ NotOurs(s) \in Seq(Entry) /\ NotOurs(s) = Users(s)
         /\ Users(NotOurs(s)) = Users(s)
         /\ Users(Registered(s)) = Users(s)
         /\ NotOurs(Registered(s)) = NotOurs(s)
         /\ NotOurs(NotOurs(s)) = NotOurs(s)
         /\ OursIn(NotOurs(s)) = 0 /\ OursIn(Registered(s)) = 1
         /\ Registered(s) \in Seq(Entry)
<1> DEFINE T == {e \in Entry : e # {} /\ ~ IsOurs(e)}
           U == {e \in Entry : "us" \in e}
           us == {"us"}
<1>1. T = {{"user"}}
  BY DEF IsOurs, Entry
<1>2. us \in Entry /\ us \notin T /\ us \in U /\ T \cap U = {} /\ T \cap T = T
  BY DEF IsOurs, Entry
<1> DEFINE r == Only(s, T)
<1>3. NotOurs(s) = r /\ Users(s) = r /\ Registered(s) = Append(r, us)
  BY <1>1 DEF NotOurs, Users, Registered
<1>4. \A q : NotOurs(q) = Only(q, T) /\ Users(q) = Only(q, T) /\ OursIn(q) = Len(Only(q, U))
  BY <1>1 DEF NotOurs, Users, OursIn
<1> HIDE DEF T, U, us
<1>5. r \in Seq(Entry)
  BY OnlyType
<1>6. Only(r, T) = r /\ Only(r, U) = <<>>
  BY OnlyOnly, OnlyNone, <1>2
<1> HIDE DEF r
<1>7. Only(Append(r, us), T) = r /\ Only(Append(r, us), U) = Append(<<>>, us)
  BY <1>2, <1>5, OnlyAppend, <1>6
<1>8. Len(Append(<<>>, us)) = 1 /\ Len(<<>>) = 0 /\ Append(r, us) \in Seq(Entry)
  BY <1>2, <1>5
<1>9. QED
  BY <1>3, <1>4, <1>5, <1>6, <1>7, <1>8

\* What installing and uninstalling do to the lists of every CLI.
LEMMA Hooks ==
  ASSUME NEW event, NEW hooks \in [event -> Seq(Entry)], NEW events
  PROVE  LET in == MergeHooks(hooks, events)
             out == StripHooks(in)
         IN  /\ in \in [event -> Seq(Entry)] /\ out \in [event -> Seq(Entry)]
             /\ MergeHooks(in, events) = in
             /\ \A e \in event :
                  /\ Users(in[e]) = Users(hooks[e])
                  /\ Users(out[e]) = Users(hooks[e])
                  /\ out[e] = Users(hooks[e])
                  /\ OursIn(out[e]) = 0
                  /\ e \in events => OursIn(in[e]) = 1
<1> DEFINE in == MergeHooks(hooks, events)
           out == StripHooks(in)
<1>1. \A e \in event : in[e] = IF e \in events THEN Registered(hooks[e]) ELSE hooks[e]
  BY DEF MergeHooks, Registered
<1>2. in \in [event -> Seq(Entry)]
  <2>1. \A e \in event : Registered(hooks[e]) \in Seq(Entry)
    BY Filters
  <2>2. \A e \in event : in[e] \in Seq(Entry)
    BY <1>1, <2>1
  <2>3. in = [e \in event |-> in[e]]
    BY DEF MergeHooks
  <2> HIDE DEF in
  <2>4. QED
    BY <2>2, <2>3
<1> HIDE DEF in
<1>3. \A e \in event : out[e] = NotOurs(in[e])
  BY <1>2 DEF StripHooks
<1>4. out \in [event -> Seq(Entry)]
  <2>1. \A e \in event : out[e] \in Seq(Entry)
    BY <1>2, <1>3, Filters
  <2>2. out = [e \in event |-> out[e]]
    BY <1>2 DEF StripHooks
  <2> HIDE DEF out
  <2>3. QED
    BY <2>1, <2>2
<1>5. MergeHooks(in, events) = in
  BY <1>1, Filters, <1>2 DEF Registered, MergeHooks
<1>6. ASSUME NEW e \in event
      PROVE  /\ Users(in[e]) = Users(hooks[e])
             /\ Users(out[e]) = Users(hooks[e])
             /\ out[e] = Users(hooks[e])
             /\ OursIn(out[e]) = 0
             /\ e \in events => OursIn(in[e]) = 1
  <2>1. hooks[e] \in Seq(Entry) /\ in[e] \in Seq(Entry)
    BY <1>2
  <2>2. CASE e \in events
    BY <1>1, <1>3, <2>1, <2>2, Filters
  <2>3. CASE e \notin events
    BY <1>1, <1>3, <2>1, <2>3, Filters
  <2>4. QED
    BY <2>2, <2>3
<1>7. QED
  BY <1>2, <1>4, <1>5, <1>6 DEF in, out

\* Installing and uninstalling leave the user's own entries (HooksReversible).
LEMMA ReversibleHolds ==
  ASSUME NEW cli \in Cli, NEW event, NEW s \in Settings(cli, event, Seq(Entry)),
         NEW threshold \in BOOLEAN, NEW disable \in BOOLEAN
  PROVE  HooksReversible(cli, s, threshold, disable)
<1> DEFINE in == Install(cli, s, threshold, disable)
           out == Uninstall(cli, in)
           hooks == s.hooks
           set == MergeHooks(hooks, Events(cli))
           switch == IF disable THEN Mark(cli) ELSE s.switch
<1>1. /\ hooks \in [event -> Seq(Entry)] /\ s.switch \in Switch(cli)
      /\ s.keys \in SUBSET {"tokens", "other"} /\ s.plugin \in BOOLEAN
      /\ cli # "opencode" => s.plugin = FALSE
      /\ cli # "claude" => s.keys = {} /\ s.tuning = {}
      /\ s = [hooks |-> s.hooks, switch |-> s.switch, keys |-> s.keys, tuning |-> s.tuning,
              plugin |-> s.plugin, feature |-> s.feature]
  BY DEF Settings
<1>2. /\ set \in [event -> Seq(Entry)] /\ MergeHooks(set, Events(cli)) = set
      /\ StripHooks(set) \in [event -> Seq(Entry)]
      /\ \A e \in event : /\ Users(set[e]) = Users(hooks[e])
                          /\ StripHooks(set)[e] = Users(hooks[e])
                          /\ Users(StripHooks(set)[e]) = Users(hooks[e])
                          /\ OursIn(StripHooks(set)[e]) = 0
                          /\ e \in Events(cli) => OursIn(set[e]) = 1
  BY <1>1, Hooks
<1>3. DOMAIN hooks = event
  BY <1>1
<1>4. hooks = [e \in event |-> Users(hooks[e])] => StripHooks(set) = hooks
  BY <1>2
<1>5. Unswitched(cli, switch) = s.switch <=>
        s.switch = "none" \/ (s.switch = "kept" /\ ~ disable)
  BY <1>1 DEF Unswitched, Switch, Mark
<1> HIDE DEF set, hooks, in, out
<1>6. CASE cli = "opencode"
  <2>1. in = [s EXCEPT !.switch = IF disable THEN Mark(cli) ELSE @, !.plugin = TRUE]
    BY <1>6 DEF in, Install, OpenCodeInstall
  <2>2. out = [in EXCEPT !.plugin = FALSE, !.switch = Unswitched(cli, @)]
    BY <1>6 DEF out, Uninstall, OpenCodeUninstall
  <2>3. Install(cli, in, threshold, disable)
          = [in EXCEPT !.switch = IF disable THEN Mark(cli) ELSE @, !.plugin = TRUE]
    BY <1>6 DEF Install, OpenCodeInstall
  <2>4. /\ in.hooks = hooks /\ out.hooks = hooks /\ in.keys = {} /\ out.keys = {} /\ s.keys = {}
        /\ ~ out.plugin /\ out.switch = Unswitched(cli, switch)
        /\ out.tuning = s.tuning /\ s.tuning = {} /\ out.feature = s.feature
    BY <1>1, <1>6, <2>1, <2>2 DEF hooks
  <2>5. Install(cli, in, threshold, disable) = in
    BY <1>1, <2>1, <2>3
  <2>6. Events(cli) = {}
    BY <1>6 DEF Events
  <2>7. QED
    BY <1>3, <1>5, <1>6, <2>4, <2>5, <2>6 DEF HooksReversible, in, out, hooks
<1>7. CASE cli # "opencode"
  <2>1. /\ in.hooks = set /\ out.hooks = StripHooks(set) /\ out.keys = s.keys \ {"tokens"}
        /\ ~ out.plugin /\ out.switch = Unswitched(cli, switch)
        /\ out.tuning = IF cli = "claude" /\ disable THEN {} ELSE s.tuning
        /\ out.feature = IF cli = "codex" THEN "true" ELSE s.feature
    <3>1. CASE cli = "claude"
      BY <1>1, <1>7, <3>1 DEF in, out, set, hooks, Install, Uninstall, ClaudeInstall, ClaudeUninstall
    <3>2. CASE cli = "codex"
      BY <1>1, <1>7, <3>2 DEF in, out, set, hooks, Install, Uninstall, CodexInstall, CodexUninstall
    <3>3. CASE cli = "gemini"
      BY <1>1, <1>7, <3>3 DEF in, out, set, hooks, Install, Uninstall, GeminiInstall, GeminiUninstall
    <3>4. QED
      BY <1>7, <3>1, <3>2, <3>3 DEF Cli
  <2>2. Install(cli, in, threshold, disable) = in
    <3>1. CASE cli = "claude"
      <4> DEFINE on == IF disable THEN Mark(cli) ELSE s.switch
                 bare == IF disable THEN {} ELSE s.tuning
                 env == IF threshold THEN s.keys \union {"tokens"} ELSE s.keys
      <4>1. in = [s EXCEPT !.hooks = set, !.switch = on, !.tuning = bare, !.keys = env]
        BY <3>1 DEF in, set, hooks, Install, ClaudeInstall
      <4>2. (IF disable THEN Mark(cli) ELSE on) = on /\ (IF disable THEN {} ELSE bare) = bare
            /\ (IF threshold THEN env \union {"tokens"} ELSE env) = env
        OBVIOUS
      <4> HIDE DEF on, bare, env
      <4>3. in = [hooks |-> set, switch |-> on, keys |-> env, tuning |-> bare,
                  plugin |-> s.plugin, feature |-> s.feature]
        BY <1>1, <4>1
      <4>4. Install(cli, in, threshold, disable)
              = [in EXCEPT !.hooks = MergeHooks(@, Events(cli)),
                           !.switch = IF disable THEN Mark(cli) ELSE @,
                           !.tuning = IF disable THEN {} ELSE @,
                           !.keys = IF threshold THEN @ \union {"tokens"} ELSE @]
        BY <3>1 DEF Install, ClaudeInstall
      <4>5. Install(cli, in, threshold, disable)
              = [hooks |-> MergeHooks(set, Events(cli)),
                 switch |-> IF disable THEN Mark(cli) ELSE on,
                 keys |-> IF threshold THEN env \union {"tokens"} ELSE env,
                 tuning |-> IF disable THEN {} ELSE bare,
                 plugin |-> s.plugin, feature |-> s.feature]
        BY <4>3, <4>4
      <4>6. QED
        BY <1>2, <4>2, <4>3, <4>5
    <3>2. CASE cli = "codex"
      BY <1>1, <1>2, <1>7, <3>2 DEF in, set, hooks, Install, CodexInstall
    <3>3. CASE cli = "gemini"
      BY <1>1, <1>2, <1>7, <3>3 DEF in, set, hooks, Install, GeminiInstall
    <3>4. QED
      BY <1>7, <3>1, <3>2, <3>3 DEF Cli
  <2>3. /\ out.tuning = s.tuning <=> s.tuning = {} \/ ~ disable
        /\ out.feature = s.feature <=> cli # "codex" \/ s.feature = "true"
    BY <1>1, <2>1
  <2>4. QED
    BY <1>2, <1>3, <1>4, <1>5, <1>7, <2>1, <2>2, <2>3 DEF HooksReversible, in, out, hooks
<1>8. QED
  BY <1>6, <1>7

(***************************************************************************)
(* HookInstall's promise, for every CLI, every set of events and every list *)
(* of entries in each: installing is idempotent, uninstalling takes out all *)
(* that is ours, and what is the user's alone stays in its order.           *)
(***************************************************************************)
THEOREM SettingsTheorem == Spec => []SettingsReversible
<1>1. Asked => SettingsReversible
  BY ReversibleHolds, InstallsAssumption DEF Asked, SettingsReversible
<1>2. QED
  BY <1>1, AskedInvariant, PTL
-----------------------------------------------------------------------------
(***************************************************************************)
(* Transcripts.                                                             *)
(***************************************************************************)
\* Of some lines there is a first and a last.
LEMMA Ends ==
  ASSUME NEW n \in Nat, NEW S \in SUBSET (1..n), S # {}
  PROVE  /\ Earliest(S) \in S /\ \A j \in S : Earliest(S) <= j
         /\ Latest(S) \in S /\ \A j \in S : j <= Latest(S)
<1>1. PICK low \in S : \A j \in S : low <= j
  BY Least
<1>2. PICK high \in S : \A j \in S : j <= high
  <2> DEFINE T == {n - j : j \in S}
  <2>1. T \in SUBSET Nat /\ T # {}
    OBVIOUS
  <2>2. PICK m \in T : \A k \in T : m <= k
    <3> HIDE DEF T
    <3>1. QED
      BY <2>1, Least
  <2>3. PICK j \in S : m = n - j
    OBVIOUS
  <2>4. \A k \in S : n - j <= n - k
    BY <2>2, <2>3
  <2>5. \A k \in S : k <= j
    BY <2>4
  <2>6. QED
    BY <2>5
<1>3. Earliest(S) \in S /\ \A j \in S : Earliest(S) <= j
  BY <1>1 DEF Earliest
<1>4. Latest(S) \in S /\ \A j \in S : j <= Latest(S)
  BY <1>2 DEF Latest
<1>5. QED
  BY <1>3, <1>4

\* SizeFrom is the function its recursive definition speaks of.
LEMMA SizeDefined ==
  ASSUME NEW lines \in Seq(Line)
  PROVE  \E size \in [0..Len(lines) -> Nat] :
           /\ Sized(lines, size)
           /\ \A i \in 1..(Len(lines) + 1) : SizeFrom(lines, i) = size[Len(lines) - i + 1]
<1> DEFINE n == Len(lines)
           step == [p \in (1..n) \X Nat |-> p[2] + lines[n - p[1] + 1].size]
           size[j \in 0..Len(lines)] ==
             IF j = 0 THEN 0 ELSE size[j - 1] + lines[Len(lines) - j + 1].size
<1>1. n \in Nat /\ \A j \in 1..n : lines[n - j + 1].size \in Nat
  <2>1. \A k \in 1..n : lines[k] \in Line
    OBVIOUS
  <2>2. \A line \in Line : line.size \in Nat
    BY DEF Line
  <2>3. n \in Nat
    OBVIOUS
  <2> HIDE DEF n
  <2>4. \A j \in 1..n : n - j + 1 \in 1..n
    BY <2>3
  <2>5. QED
    BY <2>1, <2>2, <2>3, <2>4
<1>2. step \in Steps(n, Nat)
  BY <1>1 DEF Steps
<1>3. PICK f \in [0..n -> Nat] : f[0] = 0 /\ \A i \in 1..n : f[i] = step[<<i, f[i-1]>>]
  <2> HIDE DEF step, n, size
  <2>1. CanIterate(0, step, n, Nat)
    BY <1>1, <1>2, Iteration
  <2>2. QED
    BY <2>1 DEF CanIterate, Iterated
<1>4. \A j \in 1..n : f[j] = f[j - 1] + lines[n - j + 1].size
  <2> HIDE DEF n
  <2>1. \A j \in 1..n : <<j, f[j - 1]>> \in (1..n) \X Nat
    BY <1>1
  <2>2. QED
    BY <1>3, <2>1
<1>5. f = [j \in 0..n |-> IF j = 0 THEN 0 ELSE f[j - 1] + lines[n - j + 1].size]
  <2> HIDE DEF step, n, size
  <2>1. \A j \in 0..n : j = 0 \/ j \in 1..n
    BY <1>1
  <2>2. QED
    BY <1>3, <1>4, <2>1
<1>6. size = [j \in 0..n |-> IF j = 0 THEN 0 ELSE size[j - 1] + lines[n - j + 1].size]
  <2> HIDE DEF step
  <2>1. QED
    BY <1>5
<1>7. \A i : SizeFrom(lines, i) = size[n - i + 1]
  BY DEF SizeFrom
<1> HIDE DEF size, step
<1>8. size = f
  <2> DEFINE M == {j \in 0..n : size[j] = f[j]}
  <2> HIDE DEF n
  <2>1. 0 \in M
    BY <1>1, <1>3, <1>6
  <2>2. ASSUME NEW j \in 1..n, j - 1 \in M PROVE j \in M
    BY <1>1, <2>2, <1>6, <1>4
  <2> HIDE DEF M
  <2>3. \A j \in 0..n : j \in M
    BY <1>1, <2>1, <2>2, InductionUpto
  <2>4. \A j \in 0..n : size[j] = f[j]
    BY <2>3 DEF M
  <2>5. size = [j \in 0..n |-> size[j]]
    BY <1>6
  <2>6. QED
    BY <2>4, <2>5
<1>9. QED
  BY <1>3, <1>4, <1>7, <1>8 DEF Sized

\* Going back in the transcript, the end grows.
LEMMA SizeGrows ==
  ASSUME NEW lines \in Seq(Line), NEW i \in 1..Len(lines), NEW j \in i..Len(lines)
  PROVE  /\ SizeFrom(lines, i) \in Nat /\ SizeFrom(lines, j) \in Nat
         /\ SizeFrom(lines, j) <= SizeFrom(lines, i)
<1> DEFINE n == Len(lines)
<1>1. n \in Nat /\ \A k \in 1..n : lines[k] \in Line
  OBVIOUS
<1>2. PICK size \in [0..n -> Nat] :
        Sized(lines, size) /\ \A k \in 1..(n + 1) : SizeFrom(lines, k) = size[n - k + 1]
  BY SizeDefined
<1>3. \A k \in 1..n : size[k - 1] <= size[k]
  <2>1. ASSUME NEW k \in 1..n PROVE size[k - 1] <= size[k]
    <3>1. n - k + 1 \in 1..n /\ k \in 0..n /\ k - 1 \in 0..n
      BY <1>1
    <3>2. lines[n - k + 1].size \in Nat
      BY <1>1, <3>1 DEF Line
    <3>3. size[k] = size[k - 1] + lines[n - k + 1].size
      BY <1>2 DEF Sized
    <3>4. QED
      BY <1>2, <3>1, <3>2, <3>3
  <2>2. QED
    BY <2>1
<1> HIDE DEF n
<1> DEFINE a == n - j + 1
           M == {k \in 0..n : a <= k => size[a] <= size[k]}
<1>4. a \in 1..n /\ i \in 1..n /\ j \in 1..n /\ n - i + 1 \in 0..n /\ a <= n - i + 1
  BY <1>1 DEF n
<1> HIDE DEF a
<1>5. 0 \in M
  BY <1>1, <1>4
<1>6. ASSUME NEW k \in 1..n, k - 1 \in M PROVE k \in M
  <2>1. k \in 0..n /\ k - 1 \in 0..n /\ size[k] \in Nat /\ size[k - 1] \in Nat /\ size[a] \in Nat
    BY <1>1, <1>2, <1>4
  <2>2. a <= k => a = k \/ a <= k - 1
    BY <1>1, <1>4
  <2>3. QED
    BY <1>3, <1>6, <2>1, <2>2
<1>7. \A k \in 0..n : k \in M
  <2> HIDE DEF M
  <2>1. QED
    BY <1>1, <1>5, <1>6, InductionUpto
<1>8. size[a] <= size[n - i + 1]
  BY <1>4, <1>7
<1>9. i \in 1..(n + 1) /\ j \in 1..(n + 1) /\ a \in 0..n
  BY <1>1, <1>4
<1>10. SizeFrom(lines, i) = size[n - i + 1] /\ SizeFrom(lines, j) = size[a]
  BY <1>2, <1>9 DEF a
<1>11. QED
  BY <1>2, <1>4, <1>8, <1>9, <1>10

\* The lines read are the last ones.
LEMMA TailIsAnEnd ==
  ASSUME NEW lines \in Seq(Line), NEW i \in TailOf(lines), NEW j \in i..Len(lines)
  PROVE  i \in 1..Len(lines) /\ j \in TailOf(lines)
<1>1. i \in 1..Len(lines) /\ j \in 1..Len(lines) /\ DOMAIN lines = 1..Len(lines)
  BY DEF TailOf
<1>2. SizeFrom(lines, i) \in Nat /\ SizeFrom(lines, j) \in Nat
      /\ SizeFrom(lines, j) <= SizeFrom(lines, i)
  BY <1>1, SizeGrows
<1>3. QED
  BY <1>1, <1>2, TailAssumption DEF TailOf

\* The tail of a transcript is all of it, or all its later records (CountsCurrent).
LEMMA CountsHold ==
  ASSUME NEW cli \in Reader, NEW lines \in Seq(Line)
  PROVE  CountsCurrent(cli, lines)
<1> DEFINE n == Len(lines)
           D == DOMAIN lines
           all == Usages(lines, D)
           tail == Usages(lines, TailOf(lines))
<1>1. n \in Nat /\ D = 1..n /\ \A i \in D : lines[i] \in Line
  OBVIOUS
<1>2. all \in SUBSET (1..n) /\ tail \in SUBSET (1..n) /\ tail \subseteq all
  BY <1>1 DEF Usages, TailOf
<1>3. \A i \in all : lines[i].tokens \in Nat /\ lines[i].tokens > 0
  BY <1>1, <1>2 DEF Usages, Line
<1>4. tail # {} => Latest(tail) \in all /\ Latest(all) = Latest(tail)
  <2> SUFFICES ASSUME tail # {} PROVE Latest(tail) \in all /\ Latest(all) = Latest(tail)
    OBVIOUS
  <2>1. /\ Latest(tail) \in tail /\ Latest(all) \in all
        /\ \A j \in all : j <= Latest(all)
        /\ \A j \in tail : j <= Latest(tail)
    <3> HIDE DEF tail, all, n
    <3>1. QED
      BY <1>1, <1>2, Ends
  <2>2. Latest(tail) \in TailOf(lines) /\ Latest(all) \in Latest(tail)..n
    BY <1>1, <1>2, <2>1 DEF Usages
  <2>3. Latest(all) \in TailOf(lines)
    BY <2>2, TailIsAnEnd
  <2>4. Latest(all) \in tail
    BY <2>1, <2>3 DEF Usages
  <2>5. Latest(all) <= Latest(tail) /\ Latest(tail) <= Latest(all)
    BY <1>2, <2>1, <2>4
  <2>6. Latest(all) \in Nat /\ Latest(tail) \in Nat
    BY <1>1, <1>2, <2>1
  <2>7. Latest(all) = Latest(tail)
    <3> DEFINE a == Latest(all)  b == Latest(tail)
    <3> HIDE DEF a, b
    <3>1. a = b
      BY <2>5, <2>6 DEF a, b
    <3>2. QED
      BY <3>1 DEF a, b
  <2>8. QED
    BY <1>2, <2>1, <2>7
<1>5. CASE cli = "claude"
  <2>1. all # {} => Latest(all) \in all
    <3> HIDE DEF all, n
    <3>1. QED
      BY <1>1, <1>2, Ends
  <2>2. Tokens(cli, lines) = IF all = {} THEN NoTokens ELSE lines[Latest(all)].tokens
    BY <1>2, <1>4, <1>5 DEF Tokens, ClaudeTokens
  <2>3. QED
    BY <1>5, <2>2 DEF CountsCurrent
<1>6. CASE cli \in {"codex", "gemini"}
  <2>1. Tokens(cli, lines) = IF tail = {} THEN NoTokens ELSE lines[Latest(all)].tokens
    BY <1>4, <1>6 DEF Tokens, CodexTokens, GeminiTokens
  <2>2. tail # {} => Tokens(cli, lines) # NoTokens
    BY <1>3, <1>4, <2>1 DEF NoTokens
  <2>3. tail = {} => \A i \in all : SizeFrom(lines, i) >= TailBytes
    <3> SUFFICES ASSUME tail = {}, NEW i \in all PROVE SizeFrom(lines, i) >= TailBytes
      OBVIOUS
    <3>1. i \in D /\ i \notin TailOf(lines)
      BY DEF Usages
    <3>2. SizeFrom(lines, i) \in Nat
      BY <1>1, <3>1, SizeGrows
    <3>3. QED
      BY <3>1, <3>2, TailAssumption DEF TailOf
  <2>4. QED
    BY <1>6, <2>1, <2>2, <2>3 DEF CountsCurrent
<1>7. CASE cli = "opencode"
  <2> DEFINE counted == {i \in DOMAIN lines : lines[i].whole /\ lines[i].kind = "usage"}
  <2>1. Tokens(cli, lines) = IF counted = {} THEN NoTokens ELSE lines[Latest(counted)].tokens
    BY <1>7 DEF Tokens, OpenCodeTokens
  <2>2. ASSUME Tokens(cli, lines) > 0 PROVE Tokens(cli, lines) = lines[Latest(all)].tokens
    <3>1. counted # {} /\ lines[Latest(counted)].tokens > 0
      BY <2>1, <2>2 DEF NoTokens
    <3>2. counted \in SUBSET (1..n) /\ all \subseteq counted
      BY <1>1 DEF Usages
    <3>3. Latest(counted) \in counted /\ \A j \in counted : j <= Latest(counted)
      <4> HIDE DEF counted, n
      <4>1. QED
        BY <1>1, <3>1, <3>2, Ends
    <3>4. Latest(counted) \in all
      BY <3>1, <3>3 DEF Usages
    <3>5. Latest(all) \in all /\ \A j \in all : j <= Latest(all)
      <4> HIDE DEF all, n
      <4>1. QED
        BY <1>1, <1>2, <3>4, Ends
    <3>6. Latest(all) = Latest(counted)
      <4>1. Latest(all) <= Latest(counted) /\ Latest(counted) <= Latest(all)
        BY <3>2, <3>3, <3>4, <3>5
      <4>2. Latest(all) \in Nat /\ Latest(counted) \in Nat
        BY <1>1, <1>2, <3>2, <3>3, <3>5
      <4>3. QED
        BY <4>1, <4>2
    <3>7. QED
      BY <2>1, <3>1, <3>6
  <2>3. QED
    BY <1>7, <2>2 DEF CountsCurrent
<1>8. QED
  BY <1>5, <1>6, <1>7 DEF Reader

\* What the user said since a moment is heard (WordsHeard).
LEMMA WordsAreHeard ==
  ASSUME NEW cli \in Reader, NEW lines \in Seq(Line), NEW since \in Int
  PROVE  WordsHeard(cli, lines, since)
<1> DEFINE n == Len(lines)
           D == DOMAIN lines
           read == {i \in TailOf(lines) : Readable(lines[i]) /\ lines[i].at # NoTime}
           stale == {i \in read : lines[i].at < since}
           quotable == Quotable(cli, lines)
           spoken == Spoken(lines, since)
           heard == UserMessageAfter(cli, lines, since)
<1>1. n \in Nat /\ D = 1..n /\ \A i \in D : lines[i].at \in Int
  <2>1. \A i \in D : lines[i] \in Line
    OBVIOUS
  <2>2. QED
    BY <2>1 DEF Line
<1>2. /\ read \subseteq D /\ stale \subseteq read /\ read \subseteq TailOf(lines)
      /\ quotable \in SUBSET (1..n) /\ spoken \subseteq D
  BY <1>1 DEF TailOf, Quotable, Spoken
<1>3. heard <=> cli # "opencode" /\ \E i \in read : (\A j \in stale : j < i) /\ Extracts(cli, lines[i])
  BY DEF UserMessageAfter, MessageAfter
<1>4. ASSUME quotable # {}
      PROVE  /\ FirstAnchor(cli, lines) \in quotable /\ FirstAnchor(cli, lines) <= LastAnchor(cli, lines)
             /\ \A i \in quotable : i <= LastAnchor(cli, lines)
  <2>1. FirstAnchor(cli, lines) = Earliest(quotable) /\ LastAnchor(cli, lines) = Latest(quotable)
    BY <1>4 DEF FirstAnchor, LastAnchor
  <2>2. /\ Earliest(quotable) \in quotable /\ \A j \in quotable : Earliest(quotable) <= j
        /\ Latest(quotable) \in quotable /\ \A j \in quotable : j <= Latest(quotable)
    <3> HIDE DEF quotable, n
    <3>1. QED
      BY <1>1, <1>2, <1>4, Ends
  <2> HIDE DEF quotable
  <2>3. QED
    BY <2>1, <2>2
<1>5. FirstAnchor(cli, lines) <= LastAnchor(cli, lines)
  <2>1. CASE quotable = {}
    BY <2>1 DEF FirstAnchor, LastAnchor
  <2>2. QED
    BY <1>4, <2>1
<1>6. ASSUME heard
      PROVE  spoken # {} /\ \E i \in spoken : i <= LastAnchor(cli, lines)
  <2>1. PICK i \in read : (\A j \in stale : j < i) /\ Extracts(cli, lines[i])
    BY <1>3, <1>6
  <2>2. i \in D /\ i \notin stale
    BY <1>1, <1>2, <2>1
  <2>3. lines[i].at # NoTime /\ lines[i].at >= since /\ Readable(lines[i])
    BY <1>1, <2>1, <2>2
  <2>4. lines[i].kind \in {"human", "event"}
    BY <2>1 DEF Extracts, HumanText, CodexUserText
  <2>5. i \in spoken
    BY <2>2, <2>3, <2>4 DEF Spoken
  <2>6. i \in quotable
    BY <2>1, <2>2, <2>3 DEF Quotable
  <2>7. QED
    BY <1>4, <2>5, <2>6
<1>7. ASSUME Ordered(lines), ~ heard, NEW i \in spoken,
             cli # "opencode", i \in TailOf(lines), lines[i].whole,
             lines[i].kind \notin {"angled", "event"}
      PROVE  FALSE
  <2>1. i \in D /\ lines[i].kind = "human" /\ lines[i].at # NoTime /\ lines[i].at >= since
    BY <1>7 DEF Spoken
  <2>2. i \in read /\ Extracts(cli, lines[i])
    BY <1>7, <2>1 DEF Readable, Extracts, HumanText, CodexUserText
  <2>3. ASSUME NEW j \in stale PROVE j < i
    <3>1. j \in D /\ lines[j].at # NoTime /\ lines[j].at < since
      BY <1>2
    <3>2. lines[j].at < lines[i].at
      BY <1>1, <2>1, <3>1
    <3>3. ~ (i < j)
      BY <1>1, <1>7, <2>1, <3>1, <3>2 DEF Ordered
    <3>4. i # j
      BY <1>1, <3>1, <3>2
    <3>5. QED
      BY <1>1, <2>1, <3>1, <3>3, <3>4
  <2>4. QED
    BY <1>3, <1>7, <2>2, <2>3
<1>8. QED
  BY <1>5, <1>6, <1>7 DEF WordsHeard

(***************************************************************************)
(* Transcript's promises, for every transcript, every length of the tail    *)
(* and every moment: a launch is called off only over a message the user    *)
(* sent, none is missed but for the reasons WordsHeard lists, and the count *)
(* of tokens is never an old one.                                           *)
(***************************************************************************)
THEOREM TranscriptTheorem == Spec => []TranscriptsRead
<1>1. Asked => TranscriptsRead
  <2> SUFFICES ASSUME Asked, op = "listen" PROVE TranscriptsRead
    BY DEF TranscriptsRead
  <2>1. arg[1] \in Reader /\ arg[2] \in Seq(Line) /\ arg[3] \in Int
    BY ListensAssumption DEF Asked
  <2>2. WordsHeard(arg[1], arg[2], arg[3]) /\ CountsCurrent(arg[1], arg[2])
    BY <2>1, WordsAreHeard, CountsHold
  <2>3. QED
    BY <2>2 DEF TranscriptsRead
<1>2. QED
  BY <1>1, AskedInvariant, PTL
-----------------------------------------------------------------------------
(***************************************************************************)
(* Functions, blocks and calls.                                             *)
(***************************************************************************)
\* The greatest of some numbers that are bounded.
LEMMA Greatest ==
  ASSUME NEW S \in SUBSET Nat, S # {}, NEW m \in Nat, \A x \in S : x <= m
  PROVE  \E x \in S : \A y \in S : y <= x
<1> DEFINE T == {m - x : x \in S}
<1>1. T \in SUBSET Nat /\ T # {}
  <2>1. \A x \in S : x \in Nat /\ m - x \in Nat
    OBVIOUS
  <2>2. QED
    BY <2>1
<1>2. PICK k \in T : \A l \in T : k <= l
  <2> HIDE DEF T
  <2>1. QED
    BY <1>1, Least
<1>3. PICK x \in S : k = m - x
  OBVIOUS
<1>4. ASSUME NEW y \in S PROVE y <= x
  <2>1. k <= m - y
    BY <1>2
  <2> HIDE DEF T
  <2>2. m \in Nat /\ x \in Nat /\ y \in Nat
    OBVIOUS
  <2>3. QED
    BY <1>3, <2>1, <2>2
<1>5. \A y \in S : y <= x
  BY <1>4
<1>6. QED
  BY <1>5

\* A finite set has a member of the greatest value.
LEMMA GreatestOfFinite ==
  ASSUME NEW S, S # {}, IsFiniteSet(S), NEW v \in [S -> Nat]
  PROVE  \E x \in S : \A y \in S : v[y] <= v[x]
<1>1. PICK n \in Nat : ExistsSurjection(1..n, S)
  BY FS_NatSurjection
<1>2. PICK f \in [1..n -> S] : \A x \in S : \E i \in 1..n : f[i] = x
  BY <1>1 DEF ExistsSurjection, Surjection
<1> DEFINE M == {i \in 0..n : \E m \in Nat : \A j \in 1..i : v[f[j]] <= m}
<1>3. 0 \in M
  OBVIOUS
<1>4. ASSUME NEW i \in 1..n, i - 1 \in M PROVE i \in M
  <2>1. PICK m \in Nat : \A j \in 1..(i - 1) : v[f[j]] <= m
    BY <1>4
  <2>2. \A j \in 1..n : v[f[j]] \in Nat
    BY <1>2
  <2>3. \A j \in 1..i : j \in 1..n /\ (j = i \/ j \in 1..(i - 1))
    OBVIOUS
  <2>4. \A j \in 1..i : v[f[j]] <= m + v[f[i]]
    BY <2>1, <2>2, <2>3
  <2>5. m + v[f[i]] \in Nat /\ i \in 0..n
    BY <2>2
  <2>6. QED
    BY <2>4, <2>5
<1>5. \A i \in 0..n : i \in M
  <2> HIDE DEF M
  <2>1. QED
    BY <1>3, <1>4, InductionUpto
<1>6. PICK m \in Nat : \A j \in 1..n : v[f[j]] <= m
  <2>1. n \in M
    <3> HIDE DEF M
    <3>1. QED
      BY <1>5
  <2>2. QED
    BY <2>1
<1> DEFINE T == {v[x] : x \in S}
<1>7. T \in SUBSET Nat /\ T # {} /\ \A t \in T : t <= m
  BY <1>2, <1>6
<1>8. PICK t \in T : \A u \in T : u <= t
  <2> HIDE DEF T
  <2>1. QED
    BY <1>7, Greatest
<1>9. QED
  BY <1>8

\* Of some blocks one is the last in the order of function_containing.
LEMMA LastBlock ==
  ASSUME NEW B, B # {}, IsFiniteSet(B), B \subseteq [first : Nat, last : Nat, of : Nat]
  PROVE  \E b \in B : \A c \in B \ {b} : Before(c, b)
<1>1. PICK x \in B : \A c \in B : c.first <= x.first
  <2> DEFINE v == [b \in B |-> b.first]
  <2>1. v \in [B -> Nat] /\ B # {} /\ IsFiniteSet(B)
    BY FS_Subset
  <2>2. PICK x1 \in B : \A c \in B : v[c] <= v[x1]
    <3> HIDE DEF v
    <3>1. QED
      BY <2>1, GreatestOfFinite
  <2>3. QED
    BY <2>2
<1> DEFINE B1 == {b \in B : b.first = x.first}
<1>2. PICK y \in B1 : \A c \in B1 : c.last <= y.last
  <2> DEFINE v == [b \in B1 |-> b.last]
  <2>1. v \in [B1 -> Nat] /\ B1 # {} /\ IsFiniteSet(B1)
    BY <1>1, FS_Subset
  <2>2. PICK x1 \in B1 : \A c \in B1 : v[c] <= v[x1]
    <3> HIDE DEF v, B1
    <3>1. QED
      BY <2>1, GreatestOfFinite
  <2>3. QED
    BY <2>2
<1> DEFINE B2 == {b \in B1 : b.last = y.last}
<1>3. PICK z \in B2 : \A c \in B2 : c.of <= z.of
  <2> DEFINE v == [b \in B2 |-> b.of]
  <2>1. v \in [B2 -> Nat] /\ B2 # {} /\ IsFiniteSet(B2)
    BY <1>2, FS_Subset
  <2>2. PICK x1 \in B2 : \A c \in B2 : v[c] <= v[x1]
    <3> HIDE DEF v, B2
    <3>1. QED
      BY <2>1, GreatestOfFinite
  <2>3. QED
    BY <2>2
<1>4. ASSUME NEW c \in B \ {z} PROVE Before(c, z)
  <2>1. z \in B /\ z.first = x.first /\ z.last = y.last
    OBVIOUS
  <2>2. c.first \in Nat /\ c.last \in Nat /\ c.of \in Nat
        /\ z.first \in Nat /\ z.last \in Nat /\ z.of \in Nat
    BY <2>1
  <2>3. c.first <= z.first
    BY <1>1, <2>1
  <2>4. c.first = z.first => c.last <= z.last
    BY <1>2, <2>1
  <2>5. c.first = z.first /\ c.last = z.last => c.of <= z.of
    BY <1>3, <2>1
  <2>6. ~ (c.first = z.first /\ c.last = z.last /\ c.of = z.of)
    BY <2>1
  <2> HIDE DEF B1, B2
  <2>7. QED
    BY <2>2, <2>3, <2>4, <2>5, <2>6 DEF Before
<1>5. z \in B
  OBVIOUS
<1>6. QED
  BY <1>4, <1>5

\* What the engine's search for the function around an address returns: a
\* function that starts there, the owner of a block that holds it, or none
\* when no block does.
LEMMA ContainingIs ==
  ASSUME NEW p, IsProgram(p), NEW rva \in Nat
  PROVE  LET v == FullView(p)
             owner == Containing(v, rva)
             around == {b \in p.blocks : b.first <= rva /\ rva <= b.last}
         IN  /\ rva \in p.starts => owner = rva
             /\ owner \in p.starts \union {None}
             /\ rva \notin p.starts /\ around = {} => owner = None
             /\ rva \notin p.starts /\ around # {}
                  /\ (\A b \in p.blocks : b.last - b.first < Window)
                  => \E b \in around : owner = b.of
<1> DEFINE v == FullView(p)
           owner == Containing(v, rva)
           around == {b \in p.blocks : b.first <= rva /\ rva <= b.last}
           stops == {b \in p.blocks : /\ b.first <= rva
                                      /\ rva <= b.last \/ b.first <= rva - Window}
           stop == CHOOSE b \in stops : \A c \in stops \ {b} : Before(c, b)
<1>1. /\ p.starts \subseteq Nat
      /\ IsFiniteSet(p.blocks) /\ p.blocks \subseteq [first : Nat, last : Nat, of : p.starts]
  BY DEF IsProgram
<1>2. v.starts = p.starts /\ v.blocks = p.blocks
  BY DEF FullView
<1>3. owner = CASE rva \in p.starts -> rva
                [] rva \notin p.starts /\ stops # {} /\ rva <= stop.last -> stop.of
                [] OTHER -> None
  BY <1>2 DEF Containing
<1>4. ASSUME stops # {}
      PROVE  stop \in stops /\ \A c \in stops \ {stop} : Before(c, stop)
  <2>1. IsFiniteSet(stops)
    BY <1>1, FS_Subset
  <2>2. stops \subseteq [first : Nat, last : Nat, of : Nat]
    BY <1>1
  <2>3. \E b \in stops : \A c \in stops \ {b} : Before(c, b)
    <3> HIDE DEF stops
    <3>1. QED
      BY <1>4, <2>1, <2>2, LastBlock
  <2> HIDE DEF stops
  <2>4. QED
    BY <2>3
<1>5. around \subseteq stops
  OBVIOUS
<1>6. ASSUME rva \notin p.starts, stops # {}, rva <= stop.last
      PROVE  stop \in around /\ owner = stop.of
  <2>1. stop \in stops
    BY <1>4, <1>6
  <2>2. stop \in around
    <3> HIDE DEF stop
    <3>1. QED
      BY <1>6, <2>1
  <2>3. QED
    BY <1>3, <1>6, <2>2
<1>7. rva \in p.starts => owner = rva
  BY <1>3
<1>8. owner \in p.starts \union {None}
  <2>1. CASE rva \in p.starts
    BY <1>7, <2>1
  <2>2. CASE rva \notin p.starts /\ stops # {} /\ rva <= stop.last
    <3> HIDE DEF stop, owner
    <3>1. QED
      BY <1>1, <1>6, <2>2
  <2>3. CASE ~ (rva \in p.starts) /\ ~ (rva \notin p.starts /\ stops # {} /\ rva <= stop.last)
    BY <1>3, <2>3
  <2>4. QED
    BY <2>1, <2>2, <2>3
<1>9. ASSUME rva \notin p.starts, around = {} PROVE owner = None
  BY <1>6, <1>9, <1>3
<1>10. ASSUME rva \notin p.starts, around # {}, \A b \in p.blocks : b.last - b.first < Window
       PROVE  \E b \in around : owner = b.of
  <2>1. PICK b \in around : TRUE
    BY <1>10
  <2>2. stops # {} /\ b \in stops
    BY <1>5, <2>1
  <2>3. stop \in stops /\ (b = stop \/ Before(b, stop))
    BY <1>4, <2>2
  <2>4. /\ b.first \in Nat /\ b.last \in Nat /\ b.last - b.first < Window /\ b.first <= rva /\ rva <= b.last
        /\ stop.first \in Nat /\ stop.last \in Nat
        /\ rva <= stop.last \/ stop.first <= rva - Window
    <3>1. stop \in p.blocks /\ b \in p.blocks
      BY <2>1, <2>3
    <3>2. b.first \in Nat /\ b.last \in Nat /\ stop.first \in Nat /\ stop.last \in Nat
      <4> HIDE DEF stop
      <4>1. QED
        BY <1>1, <3>1
    <3>3. rva <= stop.last \/ stop.first <= rva - Window
      <4> HIDE DEF stop
      <4>1. QED
        BY <2>3
    <3>4. QED
      BY <1>10, <2>1, <3>1, <3>2, <3>3
  <2>5. b.first <= stop.first
    <3> HIDE DEF stop
    <3>1. QED
      BY <2>3, <2>4 DEF Before
  <2>6. rva <= stop.last
    <3> HIDE DEF stop
    <3>1. QED
      BY <2>4, <2>5, WindowAssumption
  <2>7. QED
    BY <1>6, <1>10, <2>2, <2>6
<1>11. QED
  BY <1>7, <1>8, <1>9, <1>10

\* The descendants of the entry are closed under calls, and each of them but
\* the entry is called by another.
LEMMA DescendantsAre ==
  ASSUME NEW p, IsProgram(p)
  PROVE  /\ Descendants(p) \subseteq p.starts
         /\ p.entry \in p.starts => p.entry \in Descendants(p)
         /\ \A e \in p.edges : e[1] \in Descendants(p) => e[2] \in Descendants(p)
         /\ \A g \in Descendants(p) \ {p.entry} :
              \E h \in Descendants(p) : <<h, g>> \in p.edges
<1> DEFINE Closed(S) == p.entry \in S /\ \A e \in p.edges : e[1] \in S => e[2] \in S
           D == {f \in p.starts : \A S \in {T \in SUBSET p.starts : Closed(T)} : f \in S}
<1> SUFFICES ASSUME p.entry \in p.starts
             PROVE  /\ Descendants(p) \subseteq p.starts /\ p.entry \in Descendants(p)
                    /\ \A e \in p.edges : e[1] \in Descendants(p) => e[2] \in Descendants(p)
                    /\ \A g \in Descendants(p) \ {p.entry} :
                         \E h \in Descendants(p) : <<h, g>> \in p.edges
  BY DEF Descendants
<1>1. D = Descendants(p)
  BY DEF Descendants
<1>2. p.entry \in p.starts /\ p.edges \subseteq p.starts \X p.starts
  BY DEF IsProgram
<1>3. D \subseteq p.starts /\ p.entry \in D
  BY <1>2
<1>4. ASSUME NEW e \in p.edges, e[1] \in D PROVE e[2] \in D
  BY <1>2, <1>4
<1>5. ASSUME NEW g \in D \ {p.entry} PROVE \E h \in D : <<h, g>> \in p.edges
  <2> SUFFICES ASSUME \A h \in D : <<h, g>> \notin p.edges PROVE FALSE
    OBVIOUS
  <2>1. ASSUME NEW e \in p.edges, e[1] \in D \ {g} PROVE e[2] \in D \ {g}
    <3>1. e = <<e[1], e[2]>> /\ e[2] \in D
      BY <1>2, <1>4, <2>1
    <3> HIDE DEF D
    <3>2. QED
      BY <2>1, <3>1
  <2>2. Closed(D \ {g})
    <3>1. p.entry \in D \ {g}
      BY <1>3, <1>5
    <3> HIDE DEF D
    <3>2. QED
      BY <2>1, <3>1
  <2>3. D \ {g} \in {T \in SUBSET p.starts : Closed(T)}
    <3> HIDE DEF Closed, D
    <3>1. QED
      BY <1>3, <2>2
  <2>4. g \in D \ {g}
    <3> DEFINE C == {T \in SUBSET p.starts : Closed(T)}
    <3>1. \A S \in C : g \in S
      BY <1>5
    <3> HIDE DEF C, D
    <3>2. QED
      BY <2>3, <3>1 DEF C
  <2>5. QED
    BY <2>4
<1>6. QED
  <2> HIDE DEF D
  <2>1. QED
    BY <1>1, <1>3, <1>4, <1>5

\* The verdicts of the engine's view about addresses.
LEMMA AddressVerdicts ==
  ASSUME NEW p, IsProgram(p), NEW x \in Nat, NEW y \in Nat
  PROVE  LET v == FullView(p)
             at(z) == [by |-> "addr", rva |-> z]
         IN  /\ Reachable(v, at(x)) = "verified" <=> Containing(v, x) \in Descendants(p)
             /\ Containing(v, x) = None => Calls(v, at(x), at(y)) = "refuted"
             /\ Containing(v, x) # None =>
                  Calls(v, at(x), at(y)) =
                    Known(v, Containing(v, y) # None /\ <<Containing(v, x), Containing(v, y)>> \in p.edges)
             /\ Calls(v, at(x), at(y)) = "verified" =>
                  /\ Containing(v, x) # None
                  /\ <<Containing(v, x), Containing(v, y)>> \in p.edges
<1> DEFINE v == FullView(p)
           at(z) == [by |-> "addr", rva |-> z]
           c == Containing(v, x)
           d == Containing(v, y)
           holds == d # None /\ <<c, d>> \in p.edges
<1>1. v.complete = TRUE /\ v.reachable = Descendants(p) /\ v.edges = p.edges
  BY DEF FullView
<1>2. \A z \in Nat : Target(v, at(z)) = z /\ z # None /\ at(z).by # "name"
  BY DEF Target, None
<1>3. Reachable(v, at(x)) = Known(v, c \in Descendants(p))
  BY <1>1, <1>2 DEF Reachable
<1>4. Reachable(v, at(x)) = "verified" <=> c \in Descendants(p)
  <2>1. CASE c \in Descendants(p)
    BY <1>3, <2>1 DEF Known
  <2>2. CASE c \notin Descendants(p)
    BY <1>1, <1>3, <2>2 DEF Known
  <2>3. QED
    BY <2>1, <2>2
<1>5. c = None => Calls(v, at(x), at(y)) = "refuted"
  BY <1>1, <1>2 DEF Calls
<1>6. c # None => Calls(v, at(x), at(y)) = Known(v, holds)
  BY <1>1, <1>2 DEF Calls
<1>7. Calls(v, at(x), at(y)) = "verified" => c # None /\ <<c, d>> \in p.edges
  BY <1>1, <1>5, <1>6 DEF Known
<1>8. QED
  BY <1>4, <1>5, <1>6, <1>7

\* Claims judged by the engine fit each other (GraphVerdictsFit).
LEMMA GraphFits ==
  ASSUME NEW p, IsProgram(p), NEW f \in p.starts, NEW g \in p.starts, NEW rva \in Nat
  PROVE  GraphVerdictsFit(p, f, g, rva)
<1> DEFINE v == FullView(p)
           at(x) == [by |-> "addr", rva |-> x]
           D == Descendants(p)
           around == {b \in p.blocks : b.first <= rva /\ rva <= b.last}
           owners == {b.of : b \in around}
           owner == Containing(v, rva)
<1>1. /\ p.starts \subseteq Nat /\ None \notin p.starts
      /\ p.edges \subseteq p.starts \X p.starts
      /\ p.blocks \subseteq [first : Nat, last : Nat, of : p.starts]
  BY DEF IsProgram, None
<1>2. /\ D \subseteq p.starts /\ (p.entry \in p.starts => p.entry \in D)
      /\ \A e \in p.edges : e[1] \in D => e[2] \in D
      /\ \A h \in D \ {p.entry} : \E i \in D : <<i, h>> \in p.edges
  BY DescendantsAre
<1>3. \A h \in p.starts : Containing(v, h) = h
  BY <1>1, ContainingIs
<1>4. \A x \in Nat : Reachable(v, at(x)) = "verified" <=> Containing(v, x) \in D
  BY AddressVerdicts
<1>5. \A x, y \in Nat :
        /\ Containing(v, x) = None => Calls(v, at(x), at(y)) = "refuted"
        /\ Containing(v, x) # None =>
             Calls(v, at(x), at(y)) =
               Known(v, Containing(v, y) # None /\ <<Containing(v, x), Containing(v, y)>> \in p.edges)
        /\ Calls(v, at(x), at(y)) = "verified" =>
             Containing(v, x) # None /\ <<Containing(v, x), Containing(v, y)>> \in p.edges
  BY AddressVerdicts
<1>6. \A x, y \in p.starts : Calls(v, at(x), at(y)) = "verified" <=> <<x, y>> \in p.edges
  <2>1. ASSUME NEW x \in p.starts, NEW y \in p.starts
        PROVE  /\ x \in Nat /\ y \in Nat /\ x # None /\ y # None
               /\ Containing(v, x) = x /\ Containing(v, y) = y
    BY <1>1, <1>3
  <2>2. ASSUME NEW x \in p.starts, NEW y \in p.starts, <<x, y>> \in p.edges
        PROVE  Calls(v, at(x), at(y)) = "verified"
    BY <1>5, <2>1, <2>2 DEF Known
  <2>3. ASSUME NEW x \in p.starts, NEW y \in p.starts, Calls(v, at(x), at(y)) = "verified"
        PROVE  <<x, y>> \in p.edges
    <3>1. <<Containing(v, x), Containing(v, y)>> \in p.edges
      <4> HIDE DEF v, at
      <4>1. QED
        BY <1>5, <2>1, <2>3
    <3>2. QED
      BY <2>1, <3>1
  <2> HIDE DEF v, at
  <2>4. QED
    BY <2>2, <2>3
<1>7. p.entry \in p.starts => Reachable(v, at(p.entry)) = "verified"
  BY <1>1, <1>2, <1>3, <1>4
<1>8. ASSUME Reachable(v, at(f)) = "verified", Calls(v, at(f), at(g)) = "verified"
      PROVE  Reachable(v, at(g)) = "verified"
  <2> HIDE DEF v, at, D
  <2>1. f \in D /\ <<f, g>> \in p.edges
    BY <1>1, <1>3, <1>4, <1>6, <1>8
  <2>2. g \in D
    BY <1>2, <2>1
  <2>3. QED
    BY <1>1, <1>3, <1>4, <2>2
<1>9. ASSUME Reachable(v, at(g)) = "verified", g # p.entry
      PROVE  \E h \in p.starts : /\ Reachable(v, at(h)) = "verified"
                                 /\ Calls(v, at(h), at(g)) = "verified"
  <2> HIDE DEF v, at, D
  <2>1. g \in D \ {p.entry}
    BY <1>1, <1>3, <1>4, <1>9
  <2>2. PICK h \in D : <<h, g>> \in p.edges
    BY <1>2, <2>1
  <2>3. h \in p.starts /\ h \in Nat
    BY <1>1, <1>2
  <2>4. QED
    BY <1>3, <1>4, <1>6, <2>2, <2>3
<1>10. References(v, at(rva), at(f)) = "verified" =>
         References(v, at(rva), [by |-> "any"]) = "verified"
  <2> DEFINE users == {r.by : r \in {q \in v.refs : q.to = rva}}
  <2>1. v.complete = TRUE /\ f \in Nat /\ f # None /\ rva # None
    BY <1>1 DEF FullView, None
  <2>2. /\ Target(v, at(rva)) = rva /\ Target(v, at(f)) = f
        /\ at(f).by # "name" /\ at(f).by # "any"
    BY DEF Target
  <2>3. References(v, at(rva), [by |-> "any"]) = Known(v, users # {})
    BY <2>1, <2>2 DEF References
  <2>4. References(v, at(rva), at(f)) = Known(v, Containing(v, f) \in users \ {None})
    BY <2>1, <2>2 DEF References
  <2>5. users # {} => Known(v, users # {}) = "verified"
    BY DEF Known
  <2>6. users = {} => Known(v, Containing(v, f) \in users \ {None}) = "refuted"
    BY <2>1 DEF Known
  <2> HIDE DEF users, v, at
  <2>7. QED
    BY <2>3, <2>4, <2>5, <2>6
<1>11. ASSUME owners # {}, \A b \in p.blocks : b.last - b.first < Window
       PROVE  /\ owner # None
              /\ rva \notin p.starts => owner \in owners
              /\ Calls(v, at(rva), at(g)) = Calls(v, at(owner), at(g))
  <2>1. owner \in p.starts /\ (rva \notin p.starts => owner \in owners)
    <3>1. CASE rva \in p.starts
      BY <1>3, <3>1
    <3>2. CASE rva \notin p.starts
      <4>1. around # {}
        BY <1>11
      <4>2. PICK b \in around : owner = b.of
        <5> HIDE DEF v
        <5>1. QED
          BY <1>11, <3>2, <4>1, ContainingIs DEF v
      <4>3. b.of \in p.starts
        BY <1>1
      <4>4. QED
        BY <4>2, <4>3
    <3>3. QED
      BY <3>1, <3>2
  <2>2. owner # None /\ owner \in Nat /\ Containing(v, owner) = owner /\ g \in Nat
    BY <1>1, <1>3, <2>1
  <2>3. Calls(v, at(rva), at(g)) = Calls(v, at(owner), at(g))
    <3> HIDE DEF v, at
    <3>1. QED
      BY <1>5, <2>2
  <2>4. QED
    BY <2>1, <2>2, <2>3
<1>12. ASSUME owners = {}, rva \notin p.starts
       PROVE  Calls(v, at(rva), at(g)) = "refuted"
  <2>1. around = {}
    BY <1>12
  <2>2. owner = None
    BY <1>12, <2>1, ContainingIs
  <2>3. QED
    BY <1>1, <1>5, <2>2
<1>13. QED
  <2> HIDE DEF v, at, D, owner
  <2>1. QED
    BY <1>7, <1>8, <1>9, <1>10, <1>11, <1>12 DEF GraphVerdictsFit, v, at, owner

\* Without the engine a call, a reference or reachability is not judged.
LEMMA PureKnowsNothing ==
  ASSUME NEW p, NEW t, NEW u
  PROVE  /\ Calls(PureView(p), t, u) = "inconclusive"
         /\ References(PureView(p), t, u) = "inconclusive"
         /\ Reachable(PureView(p), t) = "inconclusive"
<1>1. PureView(p).complete = FALSE
  BY DEF PureView
<1>2. QED
  BY <1>1 DEF Calls, References, Reachable

\* The lowest of some addresses is one of them.
LEMMA LowestIs ==
  ASSUME NEW S \in SUBSET Nat, S # {}
  PROVE  Lowest(S) \in S
<1>1. \E x \in S : \A y \in S : x <= y
  BY Least
<1>2. QED
  BY <1>1 DEF Lowest

\* What a sequence holds.
LEMMA MembersAre ==
  ASSUME NEW R, NEW s \in Seq(R)
  PROVE  \A i \in DOMAIN s : s[i] \in R
OBVIOUS

\* What the export table says of an address.
LEMMA ExportsAre ==
  ASSUME NEW p, IsProgram(p), NEW rva
  PROVE  /\ NamesOf(p, rva) = {} => FirstName(p, rva) = "entry"
         /\ \A n : NamesOf(p, rva) = {n} => FirstName(p, rva) = n
         /\ rva \in Certain(p) /\ NamesOf(p, rva) = {} => rva = p.entry
         /\ NamesOf(p, rva) # {} => rva \in Certain(p)
<1> DEFINE x == p.exports
           named == {i \in DOMAIN x : x[i].rva = rva /\ x[i].name # "entry"}
<1>1. DOMAIN x \subseteq Nat
  <2>1. x \in Seq([name : Symbol, rva : Nat])
    BY DEF IsProgram
  <2>2. QED
    BY <2>1
<1>2. FirstName(p, rva) = IF named = {} THEN "entry" ELSE x[Lowest(named)].name
  BY DEF FirstName
<1>3. named # {} => Lowest(named) \in named
  <2>1. named \in SUBSET Nat
    BY <1>1
  <2> HIDE DEF named
  <2>2. QED
    BY <2>1, LowestIs
<1>4. NamesOf(p, rva) = {x[i].name : i \in {j \in DOMAIN x : x[j].rva = rva}}
  BY DEF NamesOf
<1>5. \A i \in named : x[i].name \in NamesOf(p, rva)
  BY <1>4
<1>6. NamesOf(p, rva) = {} => FirstName(p, rva) = "entry"
  BY <1>2, <1>5
<1>7. ASSUME NEW n, NamesOf(p, rva) = {n} PROVE FirstName(p, rva) = n
  <2>1. PICK i \in DOMAIN x : x[i].rva = rva /\ x[i].name = n
    BY <1>4, <1>7
  <2>2. CASE named = {}
    BY <1>2, <2>1, <2>2
  <2>3. CASE named # {}
    <3> HIDE DEF named
    <3>1. QED
      BY <1>2, <1>3, <1>5, <1>7, <2>3
  <2>4. QED
    BY <2>2, <2>3
<1>8. rva \in Certain(p) /\ NamesOf(p, rva) = {} => rva = p.entry
  BY <1>4 DEF Certain
<1>9. NamesOf(p, rva) # {} => rva \in Certain(p)
  BY <1>4 DEF Certain
<1>10. QED
  BY <1>6, <1>7, <1>8, <1>9

\* Where the fallback and the engine agree on functions, and where they do
\* not (FallbackNeverGuesses).
LEMMA FallbackFits ==
  ASSUME NEW p, IsProgram(p), NEW t, IsTarget(t), NEW u, NEW name
  PROVE  FallbackNeverGuesses(p, t, u, name)
<1> DEFINE pure == PureView(p)
           full == FullView(p)
           mine == FunctionAt(pure, t, name)
           theirs == FunctionAt(full, t, name)
           plain(rva) == rva \in p.starts /\ (name = "" \/ NamesOf(p, rva) = {p.name[rva]})
<1>1. p.starts \subseteq Nat /\ None \notin p.starts
  BY DEF IsProgram, None
<1>2. /\ pure.complete = FALSE /\ full.complete = TRUE
      /\ pure.starts = Certain(p) /\ full.starts = p.starts /\ full.name = p.name
      /\ \A f \in Certain(p) : pure.name[f] = FirstName(p, f)
  BY DEF PureView, FullView
<1>3. Certain(p) \subseteq Nat /\ None \notin Certain(p)
  <2>1. p.exports \in Seq([name : Symbol, rva : Nat]) /\ p.entry \in Nat \union {None}
    BY DEF IsProgram
  <2>2. \A i \in DOMAIN p.exports : p.exports[i].rva \in Nat
    <3>1. \A i \in DOMAIN p.exports : p.exports[i] \in [name : Symbol, rva : Nat]
      BY <2>1, MembersAre, Zenon
    <3>2. QED
      BY <3>1
  <2>3. QED
    BY <2>1, <2>2 DEF Certain, None
<1> HIDE DEF pure, full
<1>4. ASSUME t.by = "addr"
      PROVE  /\ plain(t.rva) \/ t.rva \notin Certain(p) => mine \in {"inconclusive", theirs}
             /\ t.rva \in Certain(p) \ p.starts =>
                  theirs = "refuted" /\ (name = "" => mine = "verified")
             /\ name \in NamesOf(p, t.rva) \ {"", FirstName(p, t.rva)} => mine = "refuted"
  <2>1. Target(pure, t) = t.rva /\ Target(full, t) = t.rva /\ t.rva # None
    BY <1>4 DEF Target, IsTarget, None
  <2>2. t.rva \notin Certain(p) => mine = "inconclusive"
    BY <1>2, <1>4, <2>1 DEF FunctionAt, Known
  <2>3. t.rva \in Certain(p) =>
          mine = IF name \in {"", FirstName(p, t.rva)} THEN "verified" ELSE "refuted"
    <3>1. CASE name \in {"", FirstName(p, t.rva)}
      BY <1>2, <1>4, <2>1, <3>1 DEF FunctionAt, Known
    <3>2. CASE name \notin {"", FirstName(p, t.rva)}
      BY <1>2, <1>4, <2>1, <3>2 DEF FunctionAt, Known
    <3>3. QED
      BY <3>1, <3>2
  <2>4. t.rva \notin p.starts => theirs = "refuted"
    BY <1>2, <1>4, <2>1 DEF FunctionAt, Known
  <2>5. t.rva \in p.starts => theirs = IF name \in {"", p.name[t.rva]} THEN "verified" ELSE "refuted"
    <3>1. CASE name \in {"", p.name[t.rva]}
      BY <1>2, <1>4, <2>1, <3>1 DEF FunctionAt, Known
    <3>2. CASE name \notin {"", p.name[t.rva]}
      BY <1>2, <1>4, <2>1, <3>2 DEF FunctionAt, Known
    <3>3. QED
      BY <3>1, <3>2
  <2> HIDE DEF mine, theirs
  <2>6. ASSUME plain(t.rva), t.rva \in Certain(p) PROVE mine = theirs
    <3>1. CASE name = ""
      BY <2>3, <2>5, <2>6, <3>1
    <3>2. CASE NamesOf(p, t.rva) = {p.name[t.rva]}
      <4>1. FirstName(p, t.rva) = p.name[t.rva]
        BY <3>2, ExportsAre
      <4>2. QED
        BY <2>3, <2>5, <2>6, <4>1
    <3>3. QED
      BY <2>6, <3>1, <3>2
  <2>7. NamesOf(p, t.rva) # {} => t.rva \in Certain(p)
    BY ExportsAre
  <2>8. QED
    BY <2>2, <2>3, <2>4, <2>6, <2>7
<1>5. ASSUME t.by = "name"
      PROVE  /\ mine \in {"inconclusive", theirs} \/ \A f \in p.starts : p.name[f] # t.name
             /\ mine # "refuted"
  <2> DEFINE S == {f \in pure.starts : pure.name[f] = t.name}
             T == {f \in full.starts : full.name[f] = t.name}
  <2>1. Target(pure, t) = (IF S = {} THEN None ELSE Lowest(S))
        /\ Target(full, t) = (IF T = {} THEN None ELSE Lowest(T))
    BY <1>5 DEF Target, Named
  <2>2. (S # {} => Lowest(S) \in S) /\ (T # {} => Lowest(T) \in T)
    <3>1. S \in SUBSET Nat /\ T \in SUBSET Nat
      BY <1>1, <1>2, <1>3
    <3> HIDE DEF S, T
    <3>2. QED
      BY <3>1, LowestIs
  <2>3. S = {} => mine = "inconclusive"
    BY <2>1, <1>2, <1>5 DEF FunctionAt, Known
  <2>4. ASSUME S # {} PROVE mine = "verified"
    <3>1. Target(pure, t) \in pure.starts /\ Target(pure, t) # None
      BY <1>2, <1>3, <2>1, <2>2, <2>4
    <3>2. QED
      BY <1>5, <3>1 DEF FunctionAt, Known
  <2>5. ASSUME T # {} PROVE theirs = "verified"
    <3>1. Target(full, t) \in full.starts /\ Target(full, t) # None
      BY <1>1, <1>2, <2>1, <2>2, <2>5
    <3>2. QED
      BY <1>5, <3>1 DEF FunctionAt, Known
  <2>6. T = {} => \A f \in p.starts : p.name[f] # t.name
    BY <1>2
  <2> HIDE DEF S, T, mine, theirs
  <2>7. QED
    BY <2>3, <2>4, <2>5, <2>6
<1>6. t.by \notin {"addr", "name"} => mine = "inconclusive"
  BY DEF FunctionAt, Target
<1> HIDE DEF mine, theirs, plain
<1>7. QED
  BY <1>4, <1>5, <1>6, PureKnowsNothing DEF FallbackNeverGuesses, pure, full, mine, theirs, plain

(***************************************************************************)
(* SemanticClaims' promises, for every program the engine may recover:      *)
(* verdicts about functions, calls, references and reachability fit         *)
(* together, and the fallback agrees with the engine where it found the     *)
(* function and knows it by its only exported name.                         *)
(***************************************************************************)
THEOREM SemanticsTheorem == Spec => []SemanticsConsistent
<1>1. Asked => SemanticsConsistent
  <2> SUFFICES ASSUME Asked PROVE SemanticsConsistent
    OBVIOUS
  <2>1. ASSUME op = "graph" PROVE GraphVerdictsFit(arg[1], arg[2], arg[3], arg[4])
    BY <2>1, GraphsAssumption, GraphFits DEF Asked
  <2>2. ASSUME op = "fallback" PROVE FallbackNeverGuesses(arg[1], arg[2], arg[3], arg[4])
    BY <2>2, FallbacksAssumption, FallbackFits DEF Asked
  <2>3. QED
    BY <2>1, <2>2 DEF SemanticsConsistent
<1>2. QED
  BY <1>1, AskedInvariant, PTL

-----------------------------------------------------------------------------
(***************************************************************************)
(* Tables, bytes and instructions.                                          *)
(***************************************************************************)
\* What is listed of a file holds its tables, or nothing was read.
LEMMA InfoIs ==
  ASSUME NEW file, IsFile(file), NEW lief \in BOOLEAN
  PROVE  LET info == ParseBinary(file, lief)
         IN  \/ info = Info(file, lief) /\ file.magic # "raw" /\ (file.magic = "ELF" => lief)
             \/ NotParseable(info)
             \/ info = NoTables("ELF", FALSE) /\ file.magic = "ELF" /\ ~ lief
<1>1. \A format : NotParseable(NoTables(format, TRUE))
  BY DEF NotParseable, NoTables
<1>2. NotParseable(NoTables("raw", FALSE))
  BY DEF NotParseable, NoTables
<1>3. CASE lief /\ file.sound /\ file.magic # "raw"
  <2>1. lief = TRUE /\ ParseBinary(file, lief) = Info(file, TRUE)
    BY <1>3 DEF ParseBinary
  <2>2. QED
    BY <1>3, <2>1
<1>4. CASE ~(lief /\ file.sound /\ file.magic # "raw") /\ file.magic = "PE"
  <2>0. file.sound => lief = FALSE
    BY <1>4
  <2>1. ParseBinary(file, lief) = IF file.sound THEN Info(file, FALSE) ELSE NoTables("PE", TRUE)
    BY <1>4 DEF ParseBinary, ParsePePure
  <2>2. CASE file.sound
    BY <1>4, <2>0, <2>1, <2>2
  <2>3. CASE ~ file.sound
    BY <1>1, <2>1, <2>3
  <2>4. QED
    BY <2>2, <2>3
<1>5. CASE ~(lief /\ file.sound /\ file.magic # "raw") /\ file.magic = "ELF"
  <2>1. ParseBinary(file, lief) = NoTables("ELF", ~ file.sound)
    BY <1>5 DEF ParseBinary, ParseElfPure
  <2>2. CASE file.sound
    BY <1>5, <2>2, <2>1
  <2>3. CASE ~ file.sound
    BY <1>1, <2>1, <2>3
  <2>4. QED
    BY <2>2, <2>3
<1>6. CASE ~(lief /\ file.sound /\ file.magic # "raw") /\ file.magic = "MachO"
  BY <1>1, <1>6 DEF ParseBinary
<1>7. CASE file.magic = "raw"
  BY <1>2, <1>7 DEF ParseBinary
<1>8. QED
  BY <1>3, <1>4, <1>5, <1>6, <1>7 DEF IsFile

\* What the queries find in the tables of a file.
LEMMA QueriesAre ==
  ASSUME NEW file, IsFile(file), NEW claim, NEW lief \in BOOLEAN
  PROVE  LET info == Info(file, lief)
         IN  /\ ImportPresent(info, claim) /\ claim.kind = "import" =>
                  \/ TrueOf(file, claim)
                  \/ /\ file.magic # "PE"
                     /\ \/ claim.lib = Anywhere
                        \/ /\ claim.lib \in file.libs
                           /\ \E i \in file.imports : i.function = claim.function
             /\ TrueOf(file, claim) /\ claim.kind = "import" =>
                  \/ ImportPresent(info, claim)
                  \/ claim.function # NoClaim /\ Meant(file, claim) \subseteq Lost(file, lief)
             /\ claim.kind = "export" => (ExportPresent(info, claim) <=> TrueOf(file, claim))
             /\ claim.kind \notin {"import", "export"} =>
                  (SectionPresent(info, claim) <=> TrueOf(file, claim))
<1> DEFINE info == Info(file, lief)
           kept == file.imports \ Lost(file, lief)
           list(i) == IF file.magic = "PE" THEN i.lib ELSE Anywhere
<1>1. /\ info.format = file.magic /\ info.libs = file.libs /\ info.exports = file.exports
      /\ info.sections = file.sections
      /\ info.imports = {<<list(i), i.function>> : i \in kept}
  BY DEF Info
<1> HIDE DEF info
<1>2. \A function : HasImport(info, function, NoClaim) <=> \E i \in kept : i.function = function
  <2> HIDE DEF kept, list
  <2>1. \A i : NoClaim \in {NoClaim, i[1]}
    OBVIOUS
  <2>2. \A function : HasImport(info, function, NoClaim) <=> \E i \in info.imports : i[2] = function
    BY <2>1, Zenon DEF HasImport
  <2>3. \A function : (\E i \in info.imports : i[2] = function) <=> \E i \in kept : i.function = function
    <3>1. ASSUME NEW i \in kept PROVE \E j \in info.imports : j[2] = i.function
      <4>1. <<list(i), i.function>> \in info.imports
        BY <1>1
      <4>2. <<list(i), i.function>>[2] = i.function
        OBVIOUS
      <4>3. QED
        BY <4>1, <4>2, Zenon
    <3>2. \A j \in info.imports : \E i \in kept : j[2] = i.function
      BY <1>1
    <3>3. QED
      BY <3>1, <3>2, Zenon
  <2>4. QED
    BY <2>2, <2>3
<1>3. /\ \A i \in file.imports : i.lib \in file.libs
      /\ kept \subseteq file.imports
  BY DEF IsFile
<1>4. \A lib : /\ lib \in file.libs => LibKnown(info, lib)
               /\ LibKnown(info, lib) => lib \in file.libs \/ (file.magic # "PE" /\ lib = Anywhere)
  <2>1. \A j \in info.imports : j[1] \in file.libs \/ (file.magic # "PE" /\ j[1] = Anywhere)
    BY <1>1, <1>3
  <2>2. QED
    BY <1>1, <2>1 DEF LibKnown
<1>5. ASSUME claim.kind = "import"
      PROVE  /\ ImportPresent(info, claim) =>
                  \/ TrueOf(file, claim)
                  \/ /\ file.magic # "PE"
                     /\ \/ claim.lib = Anywhere
                        \/ /\ claim.lib \in file.libs
                           /\ \E i \in file.imports : i.function = claim.function
             /\ TrueOf(file, claim) =>
                  \/ ImportPresent(info, claim)
                  \/ claim.function # NoClaim /\ Meant(file, claim) \subseteq Lost(file, lief)
  <2>1. CASE claim.function = NoClaim
    <3>1. ImportPresent(info, claim) <=> LibKnown(info, claim.lib)
      BY <2>1 DEF ImportPresent
    <3>2. TrueOf(file, claim) <=> claim.lib \in file.libs
      BY <1>5, <2>1 DEF TrueOf
    <3>3. QED
      BY <1>4, <3>1, <3>2
  <2>2. CASE claim.function # NoClaim
    <3> DEFINE fits(i) == i.function = claim.function /\ claim.lib \in {NoClaim, i.lib}
               some(S) == \E i \in S : i.function = claim.function
               from(S) == \E i \in S : fits(i)
    <3>1. TrueOf(file, claim) <=> from(file.imports)
      BY <1>5, <2>2 DEF TrueOf, Meant
    <3>2. Meant(file, claim) \subseteq Lost(file, lief) <=> ~ from(kept)
      BY DEF Meant
    <3>3. from(kept) => from(file.imports)
      BY <1>3
    <3>4. CASE claim.lib # NoClaim /\ file.magic = "PE"
      <4>1. ImportPresent(info, claim) <=> HasImport(info, claim.function, claim.lib)
        BY <1>1, <2>2, <3>4 DEF ImportPresent
      <4>2. info.imports = {<<i.lib, i.function>> : i \in kept}
        BY <1>1, <3>4
      <4>3. HasImport(info, claim.function, claim.lib)
              <=> \E j \in info.imports : j[2] = claim.function /\ claim.lib \in {NoClaim, j[1]}
        BY DEF HasImport
      <4>4. HasImport(info, claim.function, claim.lib) <=> from(kept)
        <5> HIDE DEF kept
        <5>1. ASSUME NEW i \in kept, fits(i)
              PROVE  \E j \in info.imports : j[2] = claim.function /\ claim.lib \in {NoClaim, j[1]}
          <6> DEFINE j == <<i.lib, i.function>>
          <6>1. j \in info.imports
            BY <4>2, <5>1
          <6>2. j[2] = claim.function /\ claim.lib \in {NoClaim, j[1]}
            BY <5>1
          <6> HIDE DEF j
          <6>3. QED
            BY <6>1, <6>2
        <5>2. ASSUME NEW j \in info.imports, j[2] = claim.function, claim.lib \in {NoClaim, j[1]}
              PROVE  from(kept)
          BY <4>2, <5>2
        <5>3. QED
          BY <4>3, <5>1, <5>2
      <4>5. QED
        BY <2>2, <3>1, <3>2, <3>3, <4>1, <4>4
    <3>5. CASE claim.lib = NoClaim \/ file.magic # "PE"
      <4>1. ImportPresent(info, claim)
             <=> some(kept) /\ (claim.lib = NoClaim \/ LibKnown(info, claim.lib))
        BY <1>1, <1>2, <2>2, <3>5 DEF ImportPresent
      <4>2. CASE claim.lib = NoClaim
        BY <2>2, <3>1, <3>2, <3>3, <4>1, <4>2
      <4>3. CASE claim.lib # NoClaim
        <5>1. from(kept) => some(kept) /\ claim.lib \in file.libs
          BY <1>3, <4>3
        <5>2. some(kept) => some(file.imports)
          BY <1>3
        <5> HIDE DEF some, from, kept
        <5>3. ImportPresent(info, claim) => some(file.imports) /\ file.magic # "PE"
                /\ (claim.lib \in file.libs \/ claim.lib = Anywhere)
          BY <1>4, <3>5, <4>1, <4>3, <5>2
        <5>4. from(kept) => ImportPresent(info, claim)
          BY <1>4, <4>1, <5>1
        <5>5. QED
          BY <2>2, <3>1, <3>2, <5>3, <5>4 DEF some
      <4>4. QED
        BY <4>2, <4>3
    <3>6. QED
      BY <3>4, <3>5
  <2>3. QED
    BY <2>1, <2>2
<1>6. claim.kind = "export" => (ExportPresent(info, claim) <=> TrueOf(file, claim))
  BY <1>1 DEF ExportPresent, TrueOf
<1>7. claim.kind \notin {"import", "export"} =>
        (SectionPresent(info, claim) <=> TrueOf(file, claim))
  BY <1>1 DEF SectionPresent, TrueOf
<1>8. QED
  BY <1>5, <1>6, <1>7 DEF info

\* Claims about tables are judged truly (TablesTruthful).
LEMMA TablesHold ==
  ASSUME NEW file, IsFile(file), NEW claim
  PROVE  TablesTruthful(file, claim)
<1> SUFFICES ASSUME NEW lief \in BOOLEAN
             PROVE  /\ TableVerdict(file, lief, claim) = "verified" =>
                         \/ TrueOf(file, claim)
                         \/ /\ file.magic # "PE" /\ claim.kind = "import"
                            /\ \/ claim.lib = Anywhere
                               \/ /\ claim.lib \in file.libs
                                  /\ \E i \in file.imports : i.function = claim.function
                    /\ TableVerdict(file, lief, claim) = "refuted" =>
                         \/ ~TrueOf(file, claim)
                         \/ file.magic = "ELF" /\ ~lief
                         \/ /\ claim.kind = "import" /\ claim.function # NoClaim
                            /\ Meant(file, claim) \subseteq Lost(file, lief)
                    /\ ~lief /\ file.magic = "ELF" => TableVerdict(file, lief, claim) # "verified"
  BY Zenon DEF TablesTruthful
<1> DEFINE info == ParseBinary(file, lief)
           holds == Found(info, claim)
           verdict == TableVerdict(file, lief, claim)
<1>0. verdict = IF NotParseable(info) THEN "inconclusive"
                ELSE IF holds THEN "verified" ELSE "refuted"
  BY DEF TableVerdict
<1>h. /\ claim.kind = "import" => holds = ImportPresent(info, claim)
      /\ claim.kind = "export" => holds = ExportPresent(info, claim)
      /\ claim.kind \notin {"import", "export"} => holds = SectionPresent(info, claim)
  <2> HIDE DEF info
  <2>1. QED
    BY DEF Found
<1>2. \/ info = Info(file, lief) /\ file.magic # "raw" /\ (file.magic = "ELF" => lief)
      \/ NotParseable(info)
      \/ info = NoTables("ELF", FALSE) /\ file.magic = "ELF" /\ ~ lief
  BY InfoIs
<1> HIDE DEF info, holds
<1>1. /\ verdict = "verified" => ~ NotParseable(info) /\ holds
      /\ verdict = "refuted" => ~ NotParseable(info) /\ ~ holds
  <2> HIDE DEF verdict
  <2>1. QED
    BY <1>0
<1> HIDE DEF verdict
<1>3. CASE info = Info(file, lief) /\ file.magic # "raw" /\ (file.magic = "ELF" => lief)
  <2>1. CASE claim.kind = "import"
    BY <1>1, <1>h, <1>3, <2>1, QueriesAre DEF verdict
  <2>2. CASE claim.kind = "export"
    BY <1>1, <1>h, <1>3, <2>2, QueriesAre DEF verdict
  <2>3. CASE claim.kind \notin {"import", "export"}
    BY <1>1, <1>h, <1>3, <2>3, QueriesAre DEF verdict
  <2>4. QED
    BY <2>1, <2>2, <2>3
<1>4. CASE info = NoTables("ELF", FALSE) /\ file.magic = "ELF" /\ ~ lief
  <2>0. /\ info.imports = {} /\ info.exports = {} /\ info.sections = {} /\ info.libs = {}
        /\ info.format = "ELF"
    BY <1>4 DEF NoTables
  <2>1. ~ holds
    BY <1>h, <2>0 DEF ImportPresent, ExportPresent, SectionPresent, HasImport, LibKnown
  <2>2. QED
    BY <1>1, <1>4, <2>1 DEF verdict
<1>5. CASE NotParseable(info)
  BY <1>1, <1>5 DEF verdict
<1>6. QED
  BY <1>2, <1>3, <1>4, <1>5

\* The least of some numbers is one of them.
LEMMA MinIs ==
  ASSUME NEW T \in SUBSET Nat, T # {}
  PROVE  Min(T) \in T
<1>1. \E n \in T : \A m \in T : n <= m
  BY Least
<1>2. QED
  BY <1>1 DEF Min

\* Sequences are equal that are as long and hold the same.
LEMMA SameSequence ==
  ASSUME NEW R, NEW s \in Seq(R), NEW t \in Seq(R), NEW n \in Nat, Len(s) = n, Len(t) = n
  PROVE  s = t <=> \A i \in 1..n : s[i] = t[i]
OBVIOUS

\* The sections that count are sections.
LEMMA SectionsAre ==
  ASSUME NEW image, IsImage(image)
  PROVE  /\ Loaded(image) \in SUBSET Nat
         /\ \A i \in Loaded(image) :
              image.sections[i] \in [va : Nat, vsize : Nat, offset : Nat, raw : Nat]
<1>1. image.sections \in Seq([va : Nat, vsize : Nat, offset : Nat, raw : Nat])
  BY DEF IsImage
<1>2. Loaded(image) \subseteq DOMAIN image.sections
  BY DEF Loaded
<1>3. \A i \in DOMAIN image.sections :
        image.sections[i] \in [va : Nat, vsize : Nat, offset : Nat, raw : Nat]
  BY <1>1, MembersAre, Zenon
<1>4. DOMAIN image.sections \subseteq Nat
  BY <1>1
<1>5. QED
  BY <1>2, <1>3, <1>4

\* An address is translated by a section that holds it, or none does.
LEMMA RvaToOffsetIs ==
  ASSUME NEW image, IsImage(image), NEW rva \in Int
  PROVE  LET off == RvaToOffset(image, rva)
         IN  \/ off = Nowhere /\ \A i \in Loaded(image) : rva \notin Span(image.sections[i])
             \/ /\ off \in Nat
                /\ \E i \in Loaded(image) : LET s == image.sections[i]
                                            IN  rva \in Span(s) /\ off = s.offset + (rva - s.va)
<1> DEFINE found == {i \in Loaded(image) : rva \in Span(image.sections[i])}
           s == image.sections[Min(found)]
<1>1. RvaToOffset(image, rva) = IF found = {} THEN Nowhere ELSE s.offset + (rva - s.va)
  BY DEF RvaToOffset
<1>2. CASE found = {}
  BY <1>1, <1>2
<1>3. CASE found # {}
  <2>1. found \in SUBSET Nat
    BY SectionsAre
  <2>2. Min(found) \in found
    <3> HIDE DEF found
    <3>1. QED
      BY <1>3, <2>1, MinIs
  <2> DEFINE first == Min(found)
  <2>3. /\ first \in Loaded(image) /\ rva \in Span(image.sections[first])
        /\ image.sections[first] \in [va : Nat, vsize : Nat, offset : Nat, raw : Nat]
        /\ RvaToOffset(image, rva) = image.sections[first].offset + (rva - image.sections[first].va)
    BY <1>1, <1>3, <2>2, SectionsAre
  <2> HIDE DEF first, found, s
  <2>4. RvaToOffset(image, rva) \in Nat
    BY <2>3 DEF Span, Larger
  <2>5. QED
    BY <2>3, <2>4, Zenon
<1>4. QED
  BY <1>2, <1>3

\* So is a file offset.
LEMMA OffsetToRvaIs ==
  ASSUME NEW image, IsImage(image), NEW off \in Int
  PROVE  LET rva == OffsetToRva(image, off)
         IN  \/ rva = Nowhere /\ \A i \in Loaded(image) : off \notin Raw(image.sections[i])
             \/ /\ rva \in Nat /\ off \in Nat
                /\ \E i \in Loaded(image) : LET s == image.sections[i]
                                            IN  off \in Raw(s) /\ rva = s.va + (off - s.offset)
<1> DEFINE found == {i \in Loaded(image) : off \in Raw(image.sections[i])}
           s == image.sections[Min(found)]
<1>1. OffsetToRva(image, off) = IF found = {} THEN Nowhere ELSE s.va + (off - s.offset)
  BY DEF OffsetToRva
<1>2. CASE found = {}
  BY <1>1, <1>2
<1>3. CASE found # {}
  <2>1. found \in SUBSET Nat
    BY SectionsAre
  <2>2. Min(found) \in found
    <3> HIDE DEF found
    <3>1. QED
      BY <1>3, <2>1, MinIs
  <2> DEFINE first == Min(found)
  <2>3. /\ first \in Loaded(image) /\ off \in Raw(image.sections[first])
        /\ image.sections[first] \in [va : Nat, vsize : Nat, offset : Nat, raw : Nat]
        /\ OffsetToRva(image, off) = image.sections[first].va + (off - image.sections[first].offset)
    BY <1>1, <1>3, <2>2, SectionsAre
  <2> HIDE DEF first, found, s
  <2>4. off \in Nat /\ OffsetToRva(image, off) \in Nat
    BY <2>3 DEF Raw
  <2>5. QED
    BY <2>3, <2>4, Zenon
<1>4. QED
  BY <1>2, <1>3

\* Where spans do not overlap a file offset is translated there and back.
LEMMA ThereAndBack ==
  ASSUME NEW image, IsImage(image), Disjoint(image), NEW off \in Int,
         OffsetToRva(image, off) # Nowhere
  PROVE  RvaToOffset(image, OffsetToRva(image, off)) = off
<1> DEFINE rva == OffsetToRva(image, off)
           sec(i) == image.sections[i]
<1>1. PICK i \in Loaded(image) : off \in Raw(sec(i)) /\ rva = sec(i).va + (off - sec(i).offset)
  BY OffsetToRvaIs
<1>2. \A j \in Loaded(image) : sec(j) \in [va : Nat, vsize : Nat, offset : Nat, raw : Nat]
  BY SectionsAre
<1>3. rva \in Int /\ rva \in Span(sec(i))
  BY <1>1, <1>2 DEF Span, Raw, Larger
<1>4. PICK j \in Loaded(image) : /\ rva \in Span(sec(j))
                                 /\ RvaToOffset(image, rva) = sec(j).offset + (rva - sec(j).va)
  BY <1>3, RvaToOffsetIs
<1>5. sec(i) = sec(j)
  BY <1>3, <1>4 DEF Disjoint
<1>6. QED
  BY <1>1, <1>2, <1>4, <1>5 DEF Raw

\* The two translations undo each other where the file backs the address
\* (TranslationsAgree).
LEMMA TranslationsHold ==
  ASSUME NEW image, IsImage(image), NEW addr \in Nat
  PROVE  TranslationsAgree(image, addr)
<1> DEFINE off == RvaToOffset(image, addr)
           sec(i) == image.sections[i]
<1>1. \A j \in Loaded(image) : sec(j) \in [va : Nat, vsize : Nat, offset : Nat, raw : Nat]
  BY SectionsAre
<1>2. off = Nowhere <=> ~ Mapped(image, addr)
  BY RvaToOffsetIs DEF Mapped, Nowhere
<1>3. ASSUME Disjoint(image), InFile(image, addr, 1)
      PROVE  off # Nowhere /\ OffsetToRva(image, off) = addr
  <2>1. PICK i \in Loaded(image) : addr >= sec(i).va /\ addr + 1 <= sec(i).va + sec(i).raw
    BY <1>3 DEF InFile
  <2>2. addr \in Span(sec(i))
    BY <1>1, <2>1 DEF Span, Larger
  <2>3. PICK j \in Loaded(image) : addr \in Span(sec(j)) /\ off = sec(j).offset + (addr - sec(j).va)
    BY <2>2, RvaToOffsetIs
  <2>4. sec(i) = sec(j)
    BY <1>3, <2>2, <2>3 DEF Disjoint
  <2>5. off \in Nat /\ off \in Raw(sec(i)) /\ off = sec(i).offset + (addr - sec(i).va)
    BY <1>1, <2>1, <2>3, <2>4 DEF Raw
  <2>6. PICK k \in Loaded(image) : /\ off \in Raw(sec(k))
                                   /\ OffsetToRva(image, off) = sec(k).va + (off - sec(k).offset)
    BY <2>5, OffsetToRvaIs
  <2>7. sec(i) = sec(k)
    BY <1>3, <2>5, <2>6 DEF Disjoint
  <2>8. QED
    BY <1>1, <2>5, <2>6, <2>7 DEF Nowhere
<1>4. ASSUME off # Nowhere, OffsetToRva(image, off) = addr
      PROVE  InFile(image, addr, 1)
  <2>1. off \in Nat
    BY <1>4, RvaToOffsetIs
  <2>2. PICK k \in Loaded(image) : off \in Raw(sec(k)) /\ addr = sec(k).va + (off - sec(k).offset)
    BY <1>4, <2>1, OffsetToRvaIs DEF Nowhere
  <2>3. addr >= sec(k).va /\ addr + 1 <= sec(k).va + sec(k).raw
    BY <1>1, <2>2 DEF Raw
  <2>4. QED
    BY <2>3 DEF InFile
<1>5. Disjoint(image) /\ OffsetToRva(image, addr) # Nowhere =>
        RvaToOffset(image, OffsetToRva(image, addr)) = addr
  BY ThereAndBack
<1>6. QED
  BY <1>2, <1>3, <1>4, <1>5 DEF TranslationsAgree

\* A read inside the file yields the bytes there.
LEMMA SliceIs ==
  ASSUME NEW data \in Seq(Nat), NEW off \in Nat, NEW n \in Nat, off + n <= Len(data)
  PROVE  /\ Slice(data, off, n) \in Seq(Nat) /\ Len(Slice(data, off, n)) = n
         /\ \A i \in 1..n : Slice(data, off, n)[i] = data[off + i]
<1>1. Slice(data, off, n) = SubSeq(data, off + 1, off + n)
  BY DEF Slice
<1>2. SubSeq(data, off + 1, off + n) = [i \in 1..n |-> data[off + i]]
  OBVIOUS
<1>3. \A i \in 1..n : data[off + i] \in Nat
  OBVIOUS
<1>4. QED
  BY <1>1, <1>2, <1>3

\* A verdict about bytes is the truth about them, in every address space
\* (BytesTruthful).
LEMMA BytesHold ==
  ASSUME NEW image, IsImage(image), NEW off \in Int, NEW expected \in Seq(Nat), NEW n \in Nat
  PROVE  BytesTruthful(image, off, expected, n)
<1> DEFINE data == image.data
           verdict == BytesAt(image, "file", off, expected, n)
           rva == OffsetToRva(image, off)
<1>1. data \in Seq(Nat) /\ image.base \in Nat
  BY DEF IsImage
<1>2. verdict = IF off < 0 \/ off + n > Len(data) THEN "inconclusive"
                ELSE IF Slice(data, off, n) = expected THEN "verified" ELSE "refuted"
  BY DEF BytesAt, Resolve, Judged
<1>3. verdict = "inconclusive" <=> off < 0 \/ off + n > Len(data)
  <2> HIDE DEF verdict, data
  <2>1. QED
    BY <1>2
<1>4. ASSUME n = Len(expected), verdict # "inconclusive"
      PROVE  verdict = "verified" <=> OccursAt(data, expected, off)
  <2> HIDE DEF data, verdict
  <2>1. off \in Nat /\ off + n <= Len(data)
    BY <1>1, <1>3, <1>4
  <2>2. verdict = "verified" <=> Slice(data, off, n) = expected
    BY <1>2, <2>1
  <2>3. Slice(data, off, n) = expected <=> \A i \in 1..n : expected[i] = data[off + i]
    <3> DEFINE read == Slice(data, off, n)
    <3>1. read \in Seq(Nat) /\ Len(read) = n /\ \A i \in 1..n : read[i] = data[off + i]
      BY <1>1, <2>1, SliceIs
    <3> HIDE DEF read
    <3>2. read = expected <=> \A i \in 1..n : expected[i] = read[i]
      BY <1>4, <3>1, SameSequence
    <3>3. QED
      BY <3>1, <3>2 DEF read
  <2>4. OccursAt(data, expected, off) <=> \A i \in 1..n : expected[i] \in {Wild, data[off + i]}
    <3>1. DOMAIN expected = 1..n
      BY <1>4
    <3>2. off >= 0 /\ off + Len(expected) <= Len(data)
      BY <1>4, <2>1
    <3>3. (\A i \in DOMAIN expected : expected[i] \in {Wild, data[off + i]})
             <=> \A i \in 1..n : expected[i] \in {Wild, data[off + i]}
      BY <3>1
    <3>4. QED
      BY <3>2, <3>3, Zenon DEF OccursAt
  <2>5. \A i \in 1..n : expected[i] # Wild
    BY <1>4 DEF Wild
  <2>6. QED
    BY <2>2, <2>3, <2>4, <2>5
<1>5. ASSUME Disjoint(image), image.parsed, rva # Nowhere
      PROVE  /\ BytesAt(image, "rva", rva, expected, n) = verdict
             /\ BytesAt(image, "va", image.base + rva, expected, n) = verdict
  BY <1>5, OffsetToRvaIs, ThereAndBack, <1>1 DEF Resolve, BytesAt
<1>6. QED
  BY <1>3, <1>4, <1>5 DEF BytesTruthful

\* Scan collects what the search finds.
LEMMA ScanDefined ==
  ASSUME NEW data \in Seq(Nat), NEW pattern \in Seq(Nat \union {Wild})
  PROVE  \E start \in [0..(Len(data) + 1) -> Nat] :
           /\ Searched(data, pattern, start)
           /\ Scan(data, pattern) =
                {o \in 0..Len(data) : start[o] <= o /\ OccursAt(data, pattern, o)}
<1> DEFINE n == Len(data) + 1
           next(o, v) == IF v <= o - 1 /\ OccursAt(data, pattern, o - 1)
                         THEN o - 1 + Larger(1, Len(pattern)) ELSE v
           step == [p \in (1..n) \X Nat |-> next(p[1], p[2])]
           start[o \in 0..(Len(data) + 1)] ==
             IF o = 0 THEN 0
             ELSE IF start[o - 1] <= o - 1 /\ OccursAt(data, pattern, o - 1)
                  THEN o - 1 + Larger(1, Len(pattern))
                  ELSE start[o - 1]
<1>1. n \in Nat /\ \A o \in 1..n, v \in Nat : next(o, v) \in Nat
  <2>1. n \in Nat /\ Len(pattern) \in Nat
    OBVIOUS
  <2> HIDE DEF n
  <2>2. QED
    BY <2>1 DEF Larger
<1>2. step \in Steps(n, Nat)
  <2> HIDE DEF n, next
  <2>1. QED
    BY <1>1 DEF Steps
<1>3. PICK f \in [0..n -> Nat] : f[0] = 0 /\ \A i \in 1..n : f[i] = step[<<i, f[i-1]>>]
  <2> HIDE DEF step, n, start
  <2>1. CanIterate(0, step, n, Nat)
    BY <1>1, <1>2, Iteration
  <2>2. QED
    BY <2>1 DEF CanIterate, Iterated
<1>4. \A o \in 1..n : f[o] = next(o, f[o - 1])
  <2> HIDE DEF n, next
  <2>1. \A o \in 1..n : o - 1 \in 0..n
    BY <1>1
  <2>2. \A o \in 1..n : <<o, f[o - 1]>> \in (1..n) \X Nat
    BY <2>1
  <2>3. QED
    BY <1>3, <2>2
<1>5. f = [o \in 0..n |-> IF o = 0 THEN 0
                          ELSE IF f[o - 1] <= o - 1 /\ OccursAt(data, pattern, o - 1)
                               THEN o - 1 + Larger(1, Len(pattern))
                               ELSE f[o - 1]]
  <2>1. f = [o \in 0..n |-> IF o = 0 THEN 0 ELSE next(o, f[o - 1])]
    <3> HIDE DEF n, next, step, start
    <3>1. \A o \in 0..n : o = 0 \/ o \in 1..n
      BY <1>1
    <3>2. QED
      BY <1>3, <1>4, <3>1
  <2>2. QED
    BY <2>1
<1>6. start = [o \in 0..n |-> IF o = 0 THEN 0
                              ELSE IF start[o - 1] <= o - 1 /\ OccursAt(data, pattern, o - 1)
                                   THEN o - 1 + Larger(1, Len(pattern))
                                   ELSE start[o - 1]]
  <2> HIDE DEF step, next
  <2>1. QED
    BY <1>5
<1>7. Scan(data, pattern) = {o \in 0..Len(data) : start[o] <= o /\ OccursAt(data, pattern, o)}
  BY DEF Scan
<1>8. /\ start = [o \in 0..n |-> start[o]] /\ start[0] = 0
      /\ \A o \in 1..n : start[o] = next(o, start[o - 1])
  <2>1. 0 \in 0..n /\ \A o \in 1..n : o \in 0..n /\ o # 0
    BY <1>1
  <2> HIDE DEF start, step, n
  <2>2. QED
    BY <1>6, <2>1
<1>9. start \in [0..n -> Nat]
  <2> DEFINE M == {o \in 0..n : start[o] \in Nat}
  <2> HIDE DEF start, step, n, next
  <2>1. 0 \in M
    BY <1>1, <1>8
  <2>2. ASSUME NEW o \in 1..n, o - 1 \in M PROVE o \in M
    <3>1. start[o - 1] \in Nat /\ o \in 0..n
      BY <1>1, <2>2
    <3>2. next(o, start[o - 1]) \in Nat
      BY <1>1, <3>1
    <3>3. QED
      BY <1>8, <3>1, <3>2
  <2> HIDE DEF M
  <2>3. \A o \in 0..n : o \in M
    BY <1>1, <2>1, <2>2, InductionUpto
  <2>4. \A o \in 0..n : start[o] \in Nat
    BY <2>3 DEF M
  <2>5. QED
    BY <1>8, <2>4
<1>10. Searched(data, pattern, start)
  <2> HIDE DEF start, step
  <2>1. QED
    BY <1>8 DEF Searched
<1>11. QED
  <2> HIDE DEF start
  <2>1. QED
    BY <1>7, <1>9, <1>10, Zenon DEF n

\* What the search finds, and what it misses: an occurrence that another one
\* before it overlaps.
LEMMA ScanFinds ==
  ASSUME NEW data \in Seq(Nat), NEW pattern \in Seq(Nat \union {Wild})
  PROVE  LET places == FindAll(data, pattern)
             matches == Scan(data, pattern)
         IN  /\ matches \subseteq places
             /\ \A o \in places \ matches :
                  \E p \in places : p < o /\ o < p + Len(pattern)
             /\ places # {} => matches # {}
<1> DEFINE places == FindAll(data, pattern)
           matches == Scan(data, pattern)
           n == Len(data) + 1
           m == Larger(1, Len(pattern))
<1>1. PICK start \in [0..n -> Nat] :
        /\ Searched(data, pattern, start)
        /\ matches = {o \in 0..Len(data) : start[o] <= o /\ OccursAt(data, pattern, o)}
  BY ScanDefined
<1>2. places = {o \in 0..Len(data) : OccursAt(data, pattern, o)}
  BY DEF FindAll
<1>3. n \in Nat /\ Len(pattern) \in Nat /\ m \in Nat /\ Len(data) \in Nat /\ n = Len(data) + 1
  BY DEF Larger
<1>4. /\ start[0] = 0
      /\ \A o \in 1..n : start[o] = IF start[o - 1] <= o - 1 /\ OccursAt(data, pattern, o - 1)
                                    THEN o - 1 + m ELSE start[o - 1]
  BY <1>1 DEF Searched
<1> HIDE DEF places, matches, n, m
<1>5. \A o \in 0..n : start[o] = 0 \/ \E p \in places : p < o /\ start[o] = p + m
  <2> DEFINE Fine(o) == start[o] = 0 \/ \E p \in places : p < o /\ start[o] = p + m
             M == {o \in 0..n : Fine(o)}
  <2>1. 0 \in M
    BY <1>3, <1>4
  <2>2. ASSUME NEW o \in 1..n, o - 1 \in M PROVE o \in M
    <3>1. o \in 0..n /\ o - 1 \in 0..Len(data) /\ Fine(o - 1)
      BY <1>3, <2>2
    <3>2. CASE start[o - 1] <= o - 1 /\ OccursAt(data, pattern, o - 1)
      BY <1>2, <1>4, <3>1, <3>2, <1>3
    <3>3. CASE ~(start[o - 1] <= o - 1 /\ OccursAt(data, pattern, o - 1))
      BY <1>4, <3>3, <1>2, <1>3, <3>1
    <3>4. QED
      BY <3>2, <3>3
  <2> HIDE DEF M
  <2>3. \A o \in 0..n : o \in M
    BY <1>3, <2>1, <2>2, InductionUpto
  <2>4. QED
    BY <2>3 DEF M
<1>6. \A o \in places : o \in 0..n /\ o \in Nat
  BY <1>2, <1>3
<1>7. ASSUME NEW o \in places \ matches
      PROVE  \E p \in places : p < o /\ o < p + Len(pattern)
  <2>1. start[o] > o /\ start[o] \in Nat /\ o \in Nat /\ o \in 0..n
    BY <1>1, <1>2, <1>6
  <2>2. PICK p \in places : p < o /\ start[o] = p + m
    BY <1>5, <2>1
  <2>3. p \in Nat
    BY <1>6
  <2>4. m = Len(pattern)
    BY <1>3, <2>1, <2>2, <2>3 DEF m, Larger
  <2>5. QED
    BY <2>1, <2>2, <2>4
<1>8. ASSUME places # {} PROVE matches # {}
  <2>1. places \in SUBSET Nat
    BY <1>6
  <2>2. PICK o \in places : \A p \in places : o <= p
    BY <1>8, <2>1, Least
  <2>3. o \in Nat /\ \A p \in places : p \in Nat /\ ~ (p < o)
    BY <1>6, <2>2
  <2>4. o \in matches
    BY <1>7, <2>3
  <2>5. QED
    BY <2>4
<1>9. matches \subseteq places
  BY <1>1, <1>2
<1>10. QED
  BY <1>7, <1>8, <1>9 DEF places, matches

\* Searches are judged as SearchTruthful says.
LEMMA SearchesHold ==
  ASSUME NEW image, IsImage(image), NEW pattern \in Seq(Nat \union {Wild}), NEW off \in Nat
  PROVE  SearchTruthful(image, pattern, off)
<1> DEFINE data == image.data
           there == OccursAt(data, pattern, off)
           places == FindAll(data, pattern)
           matches == Scan(data, pattern)
           claim(by, given) == [by |-> by, space |-> "file", given |-> given]
           earlier == {o \in places : o < off /\ off < o + Len(pattern)}
<1>1. data \in Seq(Nat) /\ Len(data) \in Nat
  BY DEF IsImage
<1>2. /\ matches \subseteq places
      /\ \A o \in places \ matches : \E p \in places : p < o /\ o < p + Len(pattern)
      /\ places # {} => matches # {}
  <2> HIDE DEF data
  <2>1. QED
    BY <1>1, ScanFinds
<1>3. there <=> off \in places
  BY <1>1 DEF OccursAt, FindAll
<1>4. IsFiniteSet(places)
  <2>1. places \subseteq 0..Len(data)
    BY DEF FindAll
  <2>2. IsFiniteSet(0..Len(data))
    BY <1>1, FS_Interval
  <2>3. QED
    BY <2>1, <2>2, FS_Subset
<1>5. \A given : /\ claim("place", given).by = "place" /\ claim("any", given).by = "any"
                 /\ claim("count", given).by = "count" /\ claim("count", given).given = given
                 /\ claim("place", given).space = "file" /\ claim("place", given).given = given
  OBVIOUS
<1>6. Resolve(image, "file", off) = off /\ off # Nowhere
  BY DEF Resolve, Nowhere
<1>7. \A found : PlaceVerdict(image, found, "file", off) = Judged(off \in found)
  BY <1>6 DEF PlaceVerdict
<1> HIDE DEF claim
<1>8. /\ StringVerdict(image, pattern, claim("place", off)) = Judged(off \in places)
      /\ StringVerdict(image, pattern, claim("any", 0)) = Judged(places # {})
  BY <1>5, <1>7 DEF StringVerdict
<1>9. /\ PatternVerdict(image, pattern, claim("place", off)) = Judged(off \in matches)
      /\ PatternVerdict(image, pattern, claim("any", 0)) = Judged(matches # {})
      /\ \A k : PatternVerdict(image, pattern, claim("count", k)) = Judged(Cardinality(matches) = k)
  BY <1>5, <1>7 DEF PatternVerdict
<1>10. /\ Judged(TRUE) = "verified" /\ Judged(FALSE) = "refuted"
  BY DEF Judged
<1> HIDE DEF places, matches, data, there
<1>11. (matches # {}) = (places # {})
  BY <1>2
<1>12. ASSUME PatternVerdict(image, pattern, claim("place", off)) = "verified" PROVE there
  BY <1>2, <1>3, <1>9, <1>12 DEF Judged
<1>13. ASSUME there, PatternVerdict(image, pattern, claim("place", off)) = "refuted"
       PROVE  earlier # {}
  BY <1>2, <1>3, <1>9, <1>13 DEF Judged
<1>14. ASSUME NEW k \in 0..Cardinality(places),
              PatternVerdict(image, pattern, claim("count", k)) = "verified"
       PROVE  /\ k <= Cardinality(places)
              /\ k < Cardinality(places) => \E o, p \in places : o < p /\ p < o + Len(pattern)
  <2>1. Cardinality(matches) = k
    BY <1>9, <1>14 DEF Judged
  <2>2. Cardinality(places) \in Nat
    BY <1>4, FS_CardinalityType
  <2>3. ASSUME k < Cardinality(places)
        PROVE  \E o, p \in places : o < p /\ p < o + Len(pattern)
    <3>1. matches # places
      BY <2>1, <2>2, <2>3
    <3>2. PICK p \in places : p \notin matches
      BY <1>2, <3>1
    <3>3. QED
      BY <1>2, <3>2
  <2>4. QED
    BY <2>2, <2>3
<1>15. QED
  <2>1. StringVerdict(image, pattern, claim("place", off)) = Judged(there)
    BY <1>3, <1>8 DEF Judged
  <2>2. PatternVerdict(image, pattern, claim("any", 0)) = Judged(places # {})
    BY <1>9, <1>11
  <2>3. QED
    BY <1>8, <1>12, <1>13, <1>14, <2>1, <2>2, Zenon
       DEF SearchTruthful, claim, earlier, there, places, data

\* What the built-in decoder knows, capstone knows alike.
LEMMA DecodedOne ==
  ASSUME NEW code \in Seq(CodeByte), NEW p \in 1..Len(code), NEW all \in BOOLEAN
  PROVE  /\ WithPrefix(code, p, all) \in Disassembled
         /\ WithPrefix(code, p, FALSE).name \notin Pseudo =>
              WithPrefix(code, p, TRUE) = WithPrefix(code, p, FALSE)
<1>1. \A i \in DOMAIN code : code[i] \in CodeByte
  OBVIOUS
<1>2. \A q \in 1..Len(code) :
        /\ DecodeOne(code, q, all) \in Disassembled
        /\ DecodeOne(code, q, FALSE) \in {Unknown, DecodeOne(code, q, TRUE)}
  <2> SUFFICES ASSUME NEW q \in 1..Len(code)
               PROVE  /\ DecodeOne(code, q, all) \in Disassembled
                      /\ DecodeOne(code, q, FALSE) \in {Unknown, DecodeOne(code, q, TRUE)}
    OBVIOUS
  <2>1. q < Len(code) => code[q + 1] \in CodeByte
    BY <1>1
  <2>2. Unknown \in Disassembled
    BY DEF Unknown, Disassembled, Mnemonic, Pseudo
  <2>3. CASE code[q] = "nop"
    BY <2>3 DEF DecodeOne, Disassembled, Mnemonic
  <2>4. CASE code[q] = "imm" /\ q < Len(code)
    BY <2>1, <2>4 DEF DecodeOne, Disassembled, Mnemonic
  <2>5. CASE code[q] = "far" /\ q < Len(code)
    BY <2>1, <2>2, <2>5 DEF DecodeOne, Disassembled, Mnemonic
  <2>6. CASE code[q] = "jcc" /\ q < Len(code)
    BY <2>1, <2>6 DEF DecodeOne, Disassembled, Mnemonic
  <2>7. CASE code[q] # "nop" /\ ~(code[q] \in {"imm", "far", "jcc"} /\ q < Len(code))
    BY <2>2, <2>7 DEF DecodeOne
  <2>8. QED
    BY <2>3, <2>4, <2>5, <2>6, <2>7
<1>3. Unknown.name \in Pseudo
  BY DEF Unknown, Pseudo
<1>4. CASE code[p] # "rex" \/ p = Len(code)
  BY <1>4, <1>2, <1>3 DEF WithPrefix
<1>5. CASE ~(code[p] # "rex" \/ p = Len(code))
  <2>1. \A any : WithPrefix(code, p, any)
                   = IF DecodeOne(code, p + 1, any) = Unknown
                     THEN [DecodeOne(code, p + 1, any) EXCEPT !.name = "rex"]
                     ELSE [DecodeOne(code, p + 1, any) EXCEPT !.size = @ + 1]
    BY <1>5 DEF WithPrefix
  <2>2. p + 1 \in 1..Len(code)
    BY <1>5
  <2>3. DecodeOne(code, p + 1, all) \in Disassembled
    BY <1>2, <2>2
  <2>4. WithPrefix(code, p, all) \in Disassembled
    <3> DEFINE i == DecodeOne(code, p + 1, all)
    <3>1. i \in Disassembled
      BY <2>3
    <3>2. WithPrefix(code, p, all) = IF i = Unknown THEN [i EXCEPT !.name = "rex"]
                                     ELSE [i EXCEPT !.size = @ + 1]
      BY <2>1
    <3> HIDE DEF i
    <3>3. [i EXCEPT !.name = "rex"] \in Disassembled
      BY <3>1 DEF Disassembled, Mnemonic, Pseudo
    <3>4. [i EXCEPT !.size = @ + 1] \in Disassembled
      <4>1. i.size + 1 \in Nat
        <5>1. i.size \in Nat
          BY <3>1 DEF Disassembled
        <5>2. QED
          BY <5>1
      <4>2. [i EXCEPT !.size = @ + 1] = [i EXCEPT !.size = i.size + 1]
        OBVIOUS
      <4>3. ASSUME NEW m \in Nat PROVE [i EXCEPT !.size = m] \in Disassembled
        BY <3>1 DEF Disassembled
      <4>4. QED
        BY <4>1, <4>2, <4>3
    <3>5. QED
      BY <3>2, <3>3, <3>4
  <2>5. CASE DecodeOne(code, p + 1, FALSE) = Unknown
    BY <2>1, <2>5, <2>4 DEF Unknown, Pseudo
  <2>6. CASE DecodeOne(code, p + 1, FALSE) # Unknown
    BY <1>2, <2>2, <2>6, <2>1, <2>4
  <2>7. QED
    BY <2>5, <2>6
<1>6. QED
  BY <1>4, <1>5

\* One round of a decoder.
LEMMA DecodesOne ==
  ASSUME NEW code \in Seq(CodeByte), NEW all \in BOOLEAN, NEW s \in Progress
  PROVE  /\ DecodeNext(code, all, s) \in Progress
         /\ \/ DecodeNext(code, all, s) = s
            \/ /\ s.at <= Len(code) /\ WithPrefix(code, s.at, all) \in Disassembled
               /\ DecodeNext(code, all, s).at = s.at + WithPrefix(code, s.at, all).size
               /\ DecodeNext(code, all, s).out = Append(s.out, WithPrefix(code, s.at, all))
<1>1. CASE s.at > Len(code) \/ (all /\ WithPrefix(code, s.at, all).name \in Pseudo)
  BY <1>1 DEF DecodeNext
<1>2. CASE ~(s.at > Len(code) \/ (all /\ WithPrefix(code, s.at, all).name \in Pseudo))
  <2> DEFINE i == WithPrefix(code, s.at, all)
  <2>1. s.at \in 1..Len(code)
    BY <1>2 DEF Progress
  <2>2. i \in Disassembled
    BY <2>1, DecodedOne
  <2>3. DecodeNext(code, all, s) = [at |-> s.at + i.size, out |-> Append(s.out, i)]
    BY <1>2 DEF DecodeNext
  <2> HIDE DEF i
  <2>4. s.at + i.size \in Nat \ {0} /\ Append(s.out, i) \in Seq(Disassembled)
    <3>1. i.size \in Nat
      BY <2>2 DEF Disassembled
    <3>2. s.at \in Nat \ {0} /\ s.out \in Seq(Disassembled)
      BY DEF Progress
    <3>3. QED
      BY <2>2, <3>1, <3>2
  <2>5. QED
    BY <2>1, <2>2, <2>3, <2>4 DEF Progress, i
<1>3. QED
  BY <1>1, <1>2

\* Decoding is what the last round leaves.
LEMMA DecodingDefined ==
  ASSUME NEW code \in Seq(CodeByte), NEW all \in BOOLEAN
  PROVE  \E after \in [0..Len(code) -> Progress] :
           Decodes(code, all, after) /\ Decoding(code, all) = after[Len(code)]
<1> DEFINE n == Len(code)
           first == [at |-> 1, out |-> <<>>]
           step == [p \in (1..n) \X Progress |-> DecodeNext(code, all, p[2])]
           after[k \in 0..Len(code)] ==
             IF k = 0 THEN [at |-> 1, out |-> <<>>] ELSE DecodeNext(code, all, after[k - 1])
<1>1. n \in Nat /\ first \in Progress
  BY DEF Progress
<1>2. step \in Steps(n, Progress)
  BY DecodesOne DEF Steps
<1>3. PICK f \in [0..n -> Progress] : f[0] = first /\ \A i \in 1..n : f[i] = step[<<i, f[i-1]>>]
  <2> HIDE DEF step, n, after, first
  <2>1. CanIterate(first, step, n, Progress)
    BY <1>1, <1>2, Iteration
  <2>2. QED
    BY <2>1 DEF CanIterate, Iterated
<1>4. \A k \in 1..n : f[k] = DecodeNext(code, all, f[k - 1])
  <2> HIDE DEF n
  <2>1. \A k \in 1..n : k - 1 \in 0..n
    BY <1>1
  <2>2. \A k \in 1..n : <<k, f[k - 1]>> \in (1..n) \X Progress
    BY <2>1
  <2>3. QED
    BY <1>3, <2>2
<1>5. f = [k \in 0..n |-> IF k = 0 THEN first ELSE DecodeNext(code, all, f[k - 1])]
  <2> HIDE DEF n, step, after, first
  <2>1. \A k \in 0..n : k = 0 \/ k \in 1..n
    BY <1>1
  <2>2. QED
    BY <1>3, <1>4, <2>1
<1>6. after = [k \in 0..n |-> IF k = 0 THEN first ELSE DecodeNext(code, all, after[k - 1])]
  <2> HIDE DEF step
  <2>1. QED
    BY <1>5
<1>7. Decoding(code, all) = after[n]
  BY DEF Decoding
<1>8. /\ after = [k \in 0..n |-> after[k]] /\ after[0] = first
      /\ \A k \in 1..n : after[k] = DecodeNext(code, all, after[k - 1])
  <2>1. 0 \in 0..n /\ \A k \in 1..n : k \in 0..n /\ k # 0
    BY <1>1
  <2> HIDE DEF after, step, n, first
  <2>2. QED
    BY <1>6, <2>1
<1>9. after \in [0..n -> Progress]
  <2> DEFINE M == {k \in 0..n : after[k] \in Progress}
  <2> HIDE DEF after, step, n, first
  <2>1. 0 \in M
    BY <1>1, <1>8
  <2>2. ASSUME NEW k \in 1..n, k - 1 \in M PROVE k \in M
    <3>1. after[k - 1] \in Progress /\ k \in 0..n
      BY <1>1, <2>2
    <3>2. DecodeNext(code, all, after[k - 1]) \in Progress
      BY <3>1, DecodesOne
    <3>3. QED
      BY <1>8, <3>1, <3>2
  <2> HIDE DEF M
  <2>3. \A k \in 0..n : k \in M
    BY <1>1, <2>1, <2>2, InductionUpto
  <2>4. \A k \in 0..n : after[k] \in Progress
    BY <2>3 DEF M
  <2>5. QED
    BY <1>8, <2>4
<1>10. QED
  <2> HIDE DEF after
  <2>1. Decodes(code, all, after)
    BY <1>8 DEF Decodes
  <2>2. QED
    BY <1>7, <1>9, <2>1

\* Up to the first byte the built-in decoder cannot place, both decode alike;
\* if capstone goes no further, it has not come to the end.
LEMMA DecodersPart ==
  ASSUME NEW code \in Seq(CodeByte)
  PROVE  LET a == Decoding(code, TRUE)
             p == Decoding(code, FALSE)
         IN  /\ a \in Progress /\ p \in Progress
             /\ Alike(a, p) \/ \E j \in Nat : Parted(code, a, p, j)
<1> DEFINE n == Len(code)
<1>1. PICK f \in [0..n -> Progress] : Decodes(code, TRUE, f) /\ Decoding(code, TRUE) = f[n]
  BY DecodingDefined
<1>2. PICK g \in [0..n -> Progress] : Decodes(code, FALSE, g) /\ Decoding(code, FALSE) = g[n]
  BY DecodingDefined
<1>3. n \in Nat
  OBVIOUS
<1>4. \A k \in 0..n : \/ f[k] = g[k] /\ Alike(f[k], g[k])
                      \/ \E j \in Nat : Parted(code, f[k], g[k], j)
  <2> DEFINE Fine(a, p) == (a = p /\ Alike(a, p)) \/ \E j \in Nat : Parted(code, a, p, j)
             M == {k \in 0..n : Fine(f[k], g[k])}
  <2>1. 0 \in M
    BY <1>1, <1>2, <1>3 DEF Decodes, Alike
  <2>2. ASSUME NEW k \in 1..n, k - 1 \in M PROVE k \in M
    <3> DEFINE a == f[k - 1]
               p == g[k - 1]
               b == f[k]
               q == g[k]
    <3>1. k - 1 \in 0..n /\ k \in 0..n
      BY <1>3
    <3>2. a \in Progress /\ p \in Progress /\ Fine(a, p)
      BY <2>2, <3>1
    <3>3. b = DecodeNext(code, TRUE, a) /\ q = DecodeNext(code, FALSE, p)
      BY <1>1, <1>2 DEF Decodes
    <3> HIDE DEF a, p, b, q, n
    <3>4. ASSUME a = p, Alike(a, p) PROVE Fine(b, q)
      <4> DEFINE i == WithPrefix(code, p.at, FALSE)
      <4>1. CASE p.at > Len(code)
        BY <3>3, <3>4, <4>1 DEF DecodeNext
      <4>2. CASE ~(p.at > Len(code))
        <5>1. p.at \in 1..Len(code)
          BY <3>2, <4>2 DEF Progress
        <5>2. i \in Disassembled /\ (i.name \notin Pseudo => WithPrefix(code, p.at, TRUE) = i)
          BY <5>1, DecodedOne
        <5>3. q = [at |-> p.at + i.size, out |-> Append(p.out, i)]
          BY <3>3, <4>2 DEF DecodeNext
        <5>4. p.out \in Seq(Disassembled) /\ Len(p.out) \in Nat
          BY <3>2 DEF Progress
        <5> HIDE DEF i
        <5>5. /\ Len(q.out) = Len(p.out) + 1 /\ q.out[Len(p.out) + 1] = i
              /\ \A x \in 1..Len(p.out) : q.out[x] = p.out[x]
              /\ DOMAIN q.out = 1..(Len(p.out) + 1) /\ DOMAIN p.out = 1..Len(p.out)
          BY <5>2, <5>3, <5>4
        <5>6. \A x \in 1..Len(p.out) : p.out[x].name \notin Pseudo
          BY <3>4, <5>5 DEF Alike
        <5>7. CASE i.name \notin Pseudo
          <6>1. b = q
            BY <5>2, <5>7, <4>2, <3>3, <3>4, <5>3 DEF DecodeNext
          <6>2. \A x \in DOMAIN q.out : q.out[x].name \notin Pseudo
            BY <5>4, <5>5, <5>6, <5>7
          <6>3. QED
            BY <6>1, <6>2 DEF Alike
        <5>8. CASE i.name \in Pseudo
          <6> DEFINE j == Len(p.out) + 1
          <6>1. \/ b = a
                \/ \E c \in Disassembled : b.out = Append(a.out, c)
            BY <3>2, <3>3, DecodesOne
          <6>2. /\ Len(b.out) >= Len(p.out)
                /\ \A x \in 1..Len(p.out) : b.out[x] = p.out[x]
                /\ Len(b.out) = Len(p.out) => b = a
            BY <3>4, <5>4, <6>1
          <6>3. Parted(code, b, q, j)
            <7>1. j \in DOMAIN q.out /\ q.out[j].name \in Pseudo
              BY <5>4, <5>5, <5>8
            <7>2. j - 1 = Len(p.out)
              BY <5>4
            <7>3. \A x \in 1..Len(p.out) : q.out[x].name \notin Pseudo /\ b.out[x] = q.out[x]
              BY <5>5, <5>6, <6>2
            <7>4. Len(b.out) = j - 1 => b.at <= Len(code)
              BY <3>4, <5>1, <6>2, <7>2
            <7> HIDE DEF j
            <7>5. QED
              BY <6>2, <7>1, <7>2, <7>3, <7>4 DEF Parted
          <6>4. j \in Nat
            BY <5>4
          <6>5. QED
            BY <6>3, <6>4
        <5>9. QED
          BY <5>7, <5>8
      <4>3. QED
        BY <4>1, <4>2
    <3>5. ASSUME \E j \in Nat : Parted(code, a, p, j) PROVE Fine(b, q)
      <4>1. PICK j \in Nat : Parted(code, a, p, j)
        BY <3>5
      <4>2. /\ a.out \in Seq(Disassembled) /\ p.out \in Seq(Disassembled)
            /\ Len(a.out) \in Nat /\ Len(p.out) \in Nat
        BY <3>2 DEF Progress
      <4>3. b = a \/ \E c \in Disassembled : b.out = Append(a.out, c)
        BY <3>2, <3>3, DecodesOne
      <4>4. q = p \/ \E c \in Disassembled : q.out = Append(p.out, c)
        BY <3>2, <3>3, DecodesOne
      <4>5. /\ Len(b.out) >= Len(a.out) /\ Len(b.out) \in Nat
            /\ \A x \in 1..Len(a.out) : b.out[x] = a.out[x]
            /\ Len(b.out) = Len(a.out) => b = a
        BY <4>2, <4>3
      <4>6. /\ DOMAIN p.out \subseteq DOMAIN q.out
            /\ \A x \in DOMAIN p.out : q.out[x] = p.out[x]
        <5>1. CASE q = p
          BY <5>1
        <5>2. ASSUME NEW c \in Disassembled, q.out = Append(p.out, c)
              PROVE  /\ DOMAIN p.out \subseteq DOMAIN q.out
                     /\ \A x \in DOMAIN p.out : q.out[x] = p.out[x]
          BY <4>2, <5>2
        <5>3. QED
          BY <4>4, <5>1, <5>2
      <4>7. j \in 1..Len(p.out)
        BY <4>1, <4>2 DEF Parted
      <4>8. j \in DOMAIN q.out /\ q.out[j].name \in Pseudo
        BY <4>1, <4>6 DEF Parted
      <4>9. \A x \in 1..(j - 1) : x \in DOMAIN p.out /\ x \in 1..Len(a.out)
        BY <4>1, <4>2, <4>7 DEF Parted
      <4>10. \A x \in 1..(j - 1) : q.out[x].name \notin Pseudo /\ b.out[x] = q.out[x]
        BY <4>1, <4>5, <4>6, <4>9 DEF Parted
      <4>11. Len(b.out) >= j - 1
        BY <4>1, <4>2, <4>5, <4>7 DEF Parted
      <4>12. Len(b.out) = j - 1 => b.at <= Len(code)
        BY <4>1, <4>2, <4>5, <4>7 DEF Parted
      <4>13. Parted(code, b, q, j)
        BY <4>8, <4>10, <4>11, <4>12 DEF Parted
      <4>14. QED
        BY <4>13
    <3>6. Fine(b, q)
      BY <3>2, <3>4, <3>5
    <3>7. QED
      BY <3>1, <3>6 DEF b, q
  <2> HIDE DEF M, n
  <2>3. \A k \in 0..n : k \in M
    BY <1>3, <2>1, <2>2, InductionUpto
  <2>4. QED
    BY <2>3 DEF M
<1>5. n \in 0..n
  BY <1>3
<1>6. QED
  <2> HIDE DEF n
  <2>1. QED
    BY <1>1, <1>2, <1>4, <1>5

\* A part of a sequence.
LEMMA PartIs ==
  ASSUME NEW R, NEW s \in Seq(R), NEW a \in Nat \ {0}, NEW b \in Nat, b <= Len(s)
  PROVE  SubSeq(s, a, b) \in Seq(R)
OBVIOUS

\* What a claim lists.
LEMMA ClaimIs ==
  ASSUME NEW claim, IsInstructions(claim)
  PROVE  /\ claim.expected \in Seq(Mnemonic) /\ Len(claim.expected) \in Nat
         /\ DOMAIN claim.expected = 1..Len(claim.expected)
         /\ Len(claim.operands) \in Nat /\ DOMAIN claim.operands = 1..Len(claim.operands)
<1>1. /\ claim.expected \in Seq(Mnemonic)
      /\ claim.operands \in Seq(CodeByte \union {"", "0xlow", AnyOperands})
  BY DEF IsInstructions
<1>2. ASSUME NEW R, NEW s \in Seq(R) PROVE Len(s) \in Nat /\ DOMAIN s = 1..Len(s)
  OBVIOUS
<1>3. QED
  BY <1>1, <1>2

\* The code a claim is about is a sequence of bytes.
LEMMA CodeIs ==
  ASSUME NEW data \in Seq(CodeByte), NEW claim, IsInstructions(claim), claim.off \in 0..Len(data) - 1
  PROVE  CodeAt(data, claim) \in Seq(CodeByte)
<1> DEFINE n == IF claim.length \in {NoLength, 0} THEN DefaultLength ELSE claim.length
           rest == SubSeq(data, claim.off + 1, Len(data))
<1>1. n \in Nat
  BY LengthAssumption DEF IsInstructions
<1>2. rest \in Seq(CodeByte)
  BY PartIs
<1>3. CodeAt(data, claim) = SubSeq(rest, 1, IF n < Len(rest) THEN n ELSE Len(rest))
  BY DEF CodeAt, FirstOf
<1> HIDE DEF n, rest
<1>4. QED
  BY <1>1, <1>2, <1>3

\* The first members of a sequence.
LEMMA FirstOfIs ==
  ASSUME NEW R, NEW s \in Seq(R), NEW n \in Nat
  PROVE  /\ FirstOf(s, n) \in Seq(R)
         /\ Len(FirstOf(s, n)) = IF n < Len(s) THEN n ELSE Len(s)
         /\ \A i \in 1..Len(FirstOf(s, n)) : FirstOf(s, n)[i] = s[i]
         /\ DOMAIN FirstOf(s, n) = 1..Len(FirstOf(s, n))
<1> DEFINE m == IF n < Len(s) THEN n ELSE Len(s)
<1>1. m \in Nat /\ m <= Len(s)
  OBVIOUS
<1>2. FirstOf(s, n) = SubSeq(s, 1, m)
  BY DEF FirstOf
<1> HIDE DEF m
<1>3. SubSeq(s, 1, m) = [i \in 1..m |-> s[i]]
  BY <1>1
<1>4. QED
  BY <1>1, <1>2, <1>3 DEF m

\* The names of instructions.
LEMMA NamesAre ==
  ASSUME NEW s \in Seq(Disassembled)
  PROVE  /\ Names(s) \in Seq(Mnemonic) /\ Len(Names(s)) = Len(s) /\ DOMAIN Names(s) = DOMAIN s
         /\ DOMAIN s = 1..Len(s)
         /\ \A i \in DOMAIN s : Names(s)[i] = s[i].name
<1>1. DOMAIN s = 1..Len(s) /\ \A i \in DOMAIN s : s[i] \in Disassembled
  OBVIOUS
<1>2. \A i \in DOMAIN s : s[i].name \in Mnemonic
  BY <1>1 DEF Disassembled
<1>3. Names(s) = [i \in 1..Len(s) |-> s[i].name]
  BY <1>1 DEF Names
<1>4. QED
  BY <1>1, <1>2, <1>3

\* A claim is verified if it fits; only without capstone, or with nothing to
\* decode, is it left open.
LEMMA VerdictIs ==
  ASSUME NEW data, NEW claim, NEW capstone \in BOOLEAN
  PROVE  LET code == CodeAt(data, claim)
             actual == IF capstone THEN Capstone(code) ELSE PurePython(code)
             verdict == InstructionsVerdict(data, claim, capstone)
         IN  /\ verdict \in {"inconclusive", "verified", "refuted"}
             /\ verdict # "inconclusive" => /\ claim.off \in 0..Len(data) - 1
                                            /\ capstone \/ ~ Undecoded(actual, claim)
                                            /\ verdict = "verified" <=> Fits(claim, actual)
             /\ claim.off \in 0..Len(data) - 1 /\ capstone => verdict # "inconclusive"
<1> DEFINE code == CodeAt(data, claim)
           actual == IF capstone THEN Capstone(code) ELSE PurePython(code)
           verdict == InstructionsVerdict(data, claim, capstone)
<1>1. verdict = IF claim.off \notin 0..Len(data) - 1 \/ (~ capstone /\ Undecoded(actual, claim))
                THEN "inconclusive"
                ELSE IF Fits(claim, actual) THEN "verified" ELSE "refuted"
  BY DEF InstructionsVerdict, Fits
<1> HIDE DEF verdict, actual
<1>2. QED
  BY <1>1 DEF verdict, actual

LEMMA LengthIs ==
  ASSUME NEW n \in Nat, NEW R, NEW f \in [1..n -> R]
  PROVE  Len(f) = n /\ f \in Seq(R)
OBVIOUS

LEMMA RespelledIs ==
  ASSUME NEW actual \in Seq(Disassembled)
  PROVE  /\ DOMAIN Respelled(actual) = 1..Len(actual) /\ Len(Respelled(actual)) = Len(actual)
         /\ DOMAIN actual = 1..Len(actual) /\ Len(actual) \in Nat
         /\ \A i \in 1..Len(actual) : /\ Respelled(actual)[i].name = Own(actual[i].name)
                                      /\ Respelled(actual)[i].ops = Own(actual[i].ops)
                                      /\ actual[i].name \in Mnemonic \ {"jz"}
                                      /\ actual[i].ops \in CodeByte \union {""}
<1>1. /\ DOMAIN actual = 1..Len(actual) /\ Len(actual) \in Nat
      /\ \A i \in 1..Len(actual) : actual[i] \in Disassembled
  OBVIOUS
<1>2. Respelled(actual) = [i \in 1..Len(actual) |-> [actual[i] EXCEPT !.name = Own(@), !.ops = Own(@)]]
  BY <1>1 DEF Respelled
<1>3. ASSUME NEW r \in Disassembled
      PROVE  /\ [r EXCEPT !.name = Own(@), !.ops = Own(@)].name = Own(r.name)
             /\ [r EXCEPT !.name = Own(@), !.ops = Own(@)].ops = Own(r.ops)
             /\ r.name \in Mnemonic \ {"jz"} /\ r.ops \in CodeByte \union {""}
  BY DEF Disassembled
<1>4. \A i \in 1..Len(actual) : /\ Respelled(actual)[i].name = Own(actual[i].name)
                               /\ Respelled(actual)[i].ops = Own(actual[i].ops)
                               /\ actual[i].name \in Mnemonic \ {"jz"}
                               /\ actual[i].ops \in CodeByte \union {""}
  BY <1>1, <1>2, <1>3
<1>5. DOMAIN Respelled(actual) = 1..Len(actual)
  BY <1>2
<1>6. Len(Respelled(actual)) = Len(actual)
  <2>1. Respelled(actual) \in [1..Len(actual) -> {Respelled(actual)[i] : i \in 1..Len(actual)}]
    BY <1>2
  <2> HIDE DEF Respelled
  <2>2. QED
    BY <1>1, <2>1, LengthIs
<1>7. QED
  BY <1>1, <1>4, <1>5, <1>6

\* Its words tell names of instructions apart, and operands.
LEMMA OwnIsInjective ==
  /\ \A u, v \in Mnemonic \ {"jz"} : Own(u) = Own(v) <=> u = v
  /\ \A u, v \in CodeByte \union {"", AnyOperands} : Own(u) = Own(v) <=> u = v
  /\ \A u \in CodeByte \union {"", AnyOperands} : Own(u) = AnyOperands <=> u = AnyOperands
  /\ \A u \in Mnemonic : Own(u) \in Mnemonic /\ (Own(u) \in Pseudo <=> u \in Pseudo) /\ Own(u) # "je"
  /\ \A u \in CodeByte \union {""} : Own(u) # "low"
BY DEF Own, Mnemonic, Pseudo, CodeByte, AnyOperands

LEMMA TranslatesAlike ==
  ASSUME NEW S, NEW s, NEW T, NEW t, Translates(S, s), Translates(T, t)
  PROVE  S = T <=> s = t
<1>1. /\ S \in Seq(Mnemonic) /\ s \in Seq(Mnemonic) /\ T \in Seq(Mnemonic) /\ t \in Seq(Mnemonic)
      /\ Len(S) = Len(s) /\ Len(T) = Len(t)
  BY DEF Translates
<1>2. CASE Len(s) # Len(t)
  BY <1>1, <1>2
<1>3. CASE Len(s) = Len(t)
  <2> DEFINE n == Len(s)
  <2>1. n \in Nat /\ Len(S) = n /\ Len(T) = n /\ Len(t) = n /\ Len(s) = n
    BY <1>1, <1>3
  <2>2. \A i \in 1..n : s[i] \in Mnemonic \ {"jz"} /\ t[i] \in Mnemonic \ {"jz"}
    BY <1>1, <1>3 DEF Translates
  <2>3. \A i \in 1..n : S[i] = T[i] <=> s[i] = t[i]
    <3>1. \A i \in 1..n : S[i] = Own(s[i]) /\ T[i] = Own(t[i])
      BY <1>3 DEF Translates
    <3> HIDE DEF n
    <3>2. \A i \in 1..n : Own(s[i]) = Own(t[i]) <=> s[i] = t[i]
      BY <2>2, OwnIsInjective
    <3>3. QED
      BY <3>1, <3>2
  <2> HIDE DEF n
  <2>4. S = T <=> \A i \in 1..n : S[i] = T[i]
    BY <1>1, <2>1, SameSequence
  <2>5. s = t <=> \A i \in 1..n : s[i] = t[i]
    BY <1>1, <2>1, SameSequence
  <2>6. QED
    BY <2>3, <2>4, <2>5
<1>4. QED
  BY <1>2, <1>3

LEMMA FirstTranslates ==
  ASSUME NEW T, NEW s, Translates(T, s), NEW n \in Nat
  PROVE  Translates(FirstOf(T, n), FirstOf(s, n))
<1>1. T \in Seq(Mnemonic) /\ s \in Seq(Mnemonic) /\ Len(T) = Len(s) /\ Len(s) \in Nat
  BY DEF Translates
<1>2. /\ FirstOf(T, n) \in Seq(Mnemonic) /\ Len(FirstOf(T, n)) = IF n < Len(T) THEN n ELSE Len(T)
      /\ \A i \in 1..Len(FirstOf(T, n)) : FirstOf(T, n)[i] = T[i]
  BY <1>1, FirstOfIs
<1>3. /\ FirstOf(s, n) \in Seq(Mnemonic) /\ Len(FirstOf(s, n)) = IF n < Len(s) THEN n ELSE Len(s)
      /\ \A i \in 1..Len(FirstOf(s, n)) : FirstOf(s, n)[i] = s[i]
  BY <1>1, FirstOfIs
<1>4. Len(FirstOf(T, n)) = Len(FirstOf(s, n)) /\ \A i \in 1..Len(FirstOf(s, n)) : i \in 1..Len(s)
  BY <1>1, <1>2, <1>3
<1>5. QED
  BY <1>2, <1>3, <1>4 DEF Translates

\* The names of what was decoded, and those of a claim in capstone's words.
LEMMA NamesTranslate ==
  ASSUME NEW actual \in Seq(Disassembled)
  PROVE  Translates(Names(Respelled(actual)), Names(actual))
<1> DEFINE names == Names(Respelled(actual))
           plain == Names(actual)
<1>1. /\ plain \in Seq(Mnemonic) /\ Len(plain) = Len(actual)
      /\ \A i \in 1..Len(actual) : plain[i] = actual[i].name
      /\ Len(actual) \in Nat
  BY NamesAre
<1>2. names = [i \in 1..Len(actual) |-> Respelled(actual)[i].name]
  BY RespelledIs DEF Names
<1>3. \A i \in 1..Len(actual) : names[i] = Own(actual[i].name) /\ actual[i].name \in Mnemonic \ {"jz"}
  BY <1>2, RespelledIs
<1>4. \A i \in 1..Len(actual) : names[i] \in Mnemonic
  BY <1>3, OwnIsInjective
<1> HIDE DEF plain
<1>5. names \in Seq(Mnemonic) /\ Len(names) = Len(actual)
  <2>1. names \in [1..Len(actual) -> Mnemonic]
    BY <1>2, <1>4
  <2> HIDE DEF names
  <2>2. QED
    BY <1>1, <2>1
<1> HIDE DEF names
<1>6. QED
  BY <1>1, <1>3, <1>5 DEF Translates, names, plain

LEMMA ExpectedTranslates ==
  ASSUME NEW claim, IsInstructions(claim), ~ Uses(claim, "jz", "0xlow")
  PROVE  Translates(InOwnWords(claim).expected, claim.expected)
<1> DEFINE s == claim.expected
           T == [i \in DOMAIN s |-> Own(s[i])]
<1>1. s \in Seq(Mnemonic) /\ Len(s) \in Nat /\ DOMAIN s = 1..Len(s)
  BY ClaimIs
<1>2. \A i \in 1..Len(s) : s[i] \in Mnemonic /\ s[i] # "jz"
  BY <1>1 DEF Uses
<1>3. \A i \in 1..Len(s) : Own(s[i]) \in Mnemonic
  BY <1>2, OwnIsInjective
<1>4. InOwnWords(claim).expected = T
  BY DEF InOwnWords
<1>5. T \in [1..Len(s) -> Mnemonic] /\ \A i \in 1..Len(s) : T[i] = Own(s[i])
  BY <1>1, <1>3
<1> HIDE DEF T
<1>6. T \in Seq(Mnemonic) /\ Len(T) = Len(s)
  BY <1>1, <1>5
<1>7. QED
  BY <1>1, <1>2, <1>4, <1>5, <1>6 DEF Translates

\* A claim in capstone's words fits what was decoded if, in its own words, it
\* fits what the built-in decoder shows of it.
LEMMA OwnWordsFit ==
  ASSUME NEW claim, IsInstructions(claim), ~ Uses(claim, "jz", "0xlow"),
         NEW actual \in Seq(Disassembled)
  PROVE  Fits(InOwnWords(claim), Respelled(actual)) <=> Fits(claim, actual)
<1> DEFINE own == InOwnWords(claim)
           shown == Respelled(actual)
           names == Names(shown)
           plain == Names(actual)
<1>1. Translates(names, plain) /\ Translates(own.expected, claim.expected)
  BY NamesTranslate, ExpectedTranslates
<1>2. /\ own.mode = claim.mode /\ own.length = claim.length
      /\ own.operands = [i \in DOMAIN claim.operands |-> Own(claim.operands[i])]
  BY DEF InOwnWords
<1>3. Len(own.expected) = Len(claim.expected) /\ Len(claim.expected) \in Nat
  BY <1>1, ClaimIs DEF Translates
<1>4. OperandsFit(shown, own.operands) <=> OperandsFit(actual, claim.operands)
  <2>1. \A i \in DOMAIN claim.operands : claim.operands[i] \in CodeByte \union {"", AnyOperands}
    <3>1. claim.operands \in Seq(CodeByte \union {"", "0xlow", AnyOperands})
      BY DEF IsInstructions
    <3>2. \A i \in DOMAIN claim.operands :
            claim.operands[i] \in CodeByte \union {"", "0xlow", AnyOperands}
      BY <3>1, MembersAre, Zenon
    <3>3. \A i \in DOMAIN claim.operands : claim.operands[i] # "0xlow"
      BY DEF Uses
    <3>4. QED
      BY <3>2, <3>3
  <2>2. \A i \in DOMAIN claim.operands :
          /\ own.operands[i] = AnyOperands <=> claim.operands[i] = AnyOperands
          /\ i \in DOMAIN shown <=> i \in DOMAIN actual
          /\ i \in DOMAIN actual =>
               (shown[i].ops = own.operands[i] <=> actual[i].ops = claim.operands[i])
    <3>1. \A i \in DOMAIN claim.operands : own.operands[i] = Own(claim.operands[i])
      BY <1>2
    <3>2. /\ DOMAIN shown = DOMAIN actual
          /\ \A i \in DOMAIN actual : shown[i].ops = Own(actual[i].ops)
                                     /\ actual[i].ops \in CodeByte \union {"", AnyOperands}
      BY RespelledIs
    <3> HIDE DEF own, shown
    <3>3. \A i \in DOMAIN claim.operands :
            own.operands[i] = AnyOperands <=> claim.operands[i] = AnyOperands
      BY <2>1, <3>1, OwnIsInjective
    <3>4. \A i \in DOMAIN claim.operands : i \in DOMAIN actual =>
            (Own(actual[i].ops) = Own(claim.operands[i]) <=> actual[i].ops = claim.operands[i])
      BY <2>1, <3>2, OwnIsInjective
    <3>5. QED
      BY <3>1, <3>2, <3>3, <3>4
  <2> HIDE DEF own, shown
  <2>3. DOMAIN own.operands = DOMAIN claim.operands
    BY <1>2
  <2>4. QED
    BY <2>2, <2>3 DEF OperandsFit
<1>5. IsSubsequence(own.expected, names) <=> IsSubsequence(claim.expected, plain)
  <2>1. /\ own.expected \in Seq(Mnemonic) /\ claim.expected \in Seq(Mnemonic)
        /\ names \in Seq(Mnemonic) /\ plain \in Seq(Mnemonic)
        /\ Len(own.expected) = Len(claim.expected) /\ Len(names) = Len(plain)
    BY <1>1 DEF Translates
  <2> HIDE DEF own, names, plain
  <2>2. DOMAIN own.expected = DOMAIN claim.expected /\ DOMAIN names = DOMAIN plain
    BY <2>1
  <2>3. \A i \in DOMAIN claim.expected : \A j \in DOMAIN plain :
          own.expected[i] = names[j] <=> claim.expected[i] = plain[j]
    <3> SUFFICES ASSUME NEW i \in DOMAIN claim.expected, NEW j \in DOMAIN plain
                 PROVE  own.expected[i] = names[j] <=> claim.expected[i] = plain[j]
      OBVIOUS
    <3>1. i \in 1..Len(claim.expected) /\ j \in 1..Len(plain)
      BY <2>1
    <3>2. claim.expected[i] \in Mnemonic \ {"jz"} /\ plain[j] \in Mnemonic \ {"jz"}
      BY <1>1, <2>1, <3>1 DEF Translates
    <3>3. own.expected[i] = Own(claim.expected[i]) /\ names[j] = Own(plain[j])
      BY <1>1, <3>1 DEF Translates
    <3>4. QED
      BY <3>2, <3>3, OwnIsInjective
  <2>4. QED
    BY <2>2, <2>3 DEF IsSubsequence
<1>6. (names = own.expected) <=> (plain = claim.expected)
  BY <1>1, TranslatesAlike
<1>7. FirstOf(names, Len(own.expected)) = own.expected
        <=> FirstOf(plain, Len(claim.expected)) = claim.expected
  <2> HIDE DEF own, names, plain
  <2>1. Translates(FirstOf(names, Len(claim.expected)), FirstOf(plain, Len(claim.expected)))
    BY <1>1, <1>3, FirstTranslates
  <2>2. QED
    BY <1>1, <1>3, <2>1, TranslatesAlike
<1> HIDE DEF own, names, plain
<1>8. QED
  BY <1>2, <1>4, <1>5, <1>6, <1>7 DEF Fits, own, names, plain

\* Whether it decoded what it was asked does not depend on the words.
LEMMA OwnWordsUndecoded ==
  ASSUME NEW claim, IsInstructions(claim), ~ Uses(claim, "jz", "0xlow"),
         NEW actual \in Seq(Disassembled)
  PROVE  Undecoded(Respelled(actual), InOwnWords(claim)) <=> Undecoded(actual, claim)
<1> DEFINE own == InOwnWords(claim)
           shown == Respelled(actual)
           n == IF claim.expected = <<>> THEN 1 ELSE Len(claim.expected)
<1>1. own.mode = claim.mode
  BY DEF InOwnWords
<1>2. (IF own.expected = <<>> THEN 1 ELSE Len(own.expected)) = n /\ n \in Nat
  <2>1. /\ own.expected \in Seq(Mnemonic) /\ claim.expected \in Seq(Mnemonic)
        /\ Len(own.expected) = Len(claim.expected) /\ Len(claim.expected) \in Nat
    BY ExpectedTranslates DEF Translates
  <2>2. own.expected = <<>> <=> claim.expected = <<>>
    <3> HIDE DEF own
    <3>1. QED
      BY <2>1
  <2>3. QED
    BY <2>1, <2>2
<1> HIDE DEF n
<1>3. \A i \in 1..Len(actual) : shown[i].name \in Pseudo <=> actual[i].name \in Pseudo
  <2>1. \A i \in 1..Len(actual) : shown[i].name = Own(actual[i].name) /\ actual[i].name \in Mnemonic
    BY RespelledIs
  <2> HIDE DEF shown
  <2>2. \A i \in 1..Len(actual) : Own(actual[i].name) \in Pseudo <=> actual[i].name \in Pseudo
    BY <2>1, OwnIsInjective
  <2>3. QED
    BY <2>1, <2>2
<1>4. DOMAIN shown = 1..Len(actual) /\ Len(shown) = Len(actual) /\ DOMAIN actual = 1..Len(actual)
      /\ Len(actual) \in Nat
  BY RespelledIs
<1>5. CASE claim.mode = "contains"
  BY <1>1, <1>3, <1>4, <1>5 DEF Undecoded
<1>6. CASE claim.mode # "contains"
  <2>1. Undecoded(shown, own) <=> \E i \in DOMAIN FirstOf(shown, n) : FirstOf(shown, n)[i].name \in Pseudo
    BY <1>1, <1>2, <1>6 DEF Undecoded
  <2>2. Undecoded(actual, claim)
          <=> \E i \in DOMAIN FirstOf(actual, n) : FirstOf(actual, n)[i].name \in Pseudo
    BY <1>6 DEF Undecoded, n
  <2>3. shown \in Seq({shown[i] : i \in 1..Len(actual)})
    <3>1. shown \in [1..Len(actual) -> {shown[i] : i \in 1..Len(actual)}]
      BY <1>4 DEF Respelled
    <3> HIDE DEF shown
    <3>2. QED
      BY <1>4, <3>1
  <2> HIDE DEF shown
  <2>4. /\ DOMAIN FirstOf(shown, n) = DOMAIN FirstOf(actual, n)
        /\ \A i \in DOMAIN FirstOf(actual, n) : /\ FirstOf(shown, n)[i] = shown[i]
                                              /\ FirstOf(actual, n)[i] = actual[i]
                                              /\ i \in 1..Len(actual)
    <3>1. /\ Len(FirstOf(shown, n)) = IF n < Len(actual) THEN n ELSE Len(actual)
          /\ \A i \in 1..Len(FirstOf(shown, n)) : FirstOf(shown, n)[i] = shown[i]
          /\ DOMAIN FirstOf(shown, n) = 1..Len(FirstOf(shown, n))
      BY <1>2, <1>4, <2>3, FirstOfIs
    <3>2. /\ Len(FirstOf(actual, n)) = IF n < Len(actual) THEN n ELSE Len(actual)
          /\ \A i \in 1..Len(FirstOf(actual, n)) : FirstOf(actual, n)[i] = actual[i]
          /\ DOMAIN FirstOf(actual, n) = 1..Len(FirstOf(actual, n))
      BY <1>2, FirstOfIs
    <3>3. \A i \in 1..Len(FirstOf(actual, n)) : i \in 1..Len(actual)
      BY <1>2, <1>4, <3>2
    <3>4. QED
      BY <3>1, <3>2, <3>3
  <2>5. \A i \in DOMAIN FirstOf(actual, n) :
          FirstOf(shown, n)[i].name \in Pseudo <=> FirstOf(actual, n)[i].name \in Pseudo
    BY <1>3, <2>4
  <2>6. QED
    BY <2>1, <2>2, <2>4, <2>5 DEF shown
<1>7. QED
  BY <1>5, <1>6

\* What the built-in decoder shows never fits a claim in words only capstone
\* has.
LEMMA ForeignWordsNeverFit ==
  ASSUME NEW claim, IsInstructions(claim), Uses(claim, "je", "low"),
         Len(claim.operands) <= Len(claim.expected), NEW actual \in Seq(Disassembled)
  PROVE  ~ Fits(claim, Respelled(actual))
<1> DEFINE shown == Respelled(actual)
           names == Names(shown)
<1>1. Translates(names, Names(actual))
  BY NamesTranslate
<1>2. /\ names \in Seq(Mnemonic) /\ Len(names) \in Nat /\ DOMAIN names = 1..Len(names)
      /\ \A i \in 1..Len(names) : names[i] # "je"
  <2>1. \A i \in 1..Len(names) : names[i] = Own(Names(actual)[i]) /\ Names(actual)[i] \in Mnemonic
    BY <1>1 DEF Translates
  <2>2. names \in Seq(Mnemonic)
    BY <1>1 DEF Translates
  <2> HIDE DEF names
  <2>3. \A i \in 1..Len(names) : Own(Names(actual)[i]) # "je"
    BY <2>1, OwnIsInjective
  <2>4. QED
    BY <2>1, <2>2, <2>3
<1>3. ASSUME NEW k \in DOMAIN claim.operands, claim.operands[k] = "low" PROVE ~ Fits(claim, shown)
  <2>1. \A i \in DOMAIN shown : shown[i].ops # "low"
    <3>1. \A i \in DOMAIN shown : shown[i].ops = Own(actual[i].ops)
                                   /\ actual[i].ops \in CodeByte \union {""}
      BY RespelledIs
    <3> HIDE DEF shown
    <3>2. \A i \in DOMAIN shown : Own(actual[i].ops) # "low"
      BY <3>1, OwnIsInjective
    <3>3. QED
      BY <3>1, <3>2
  <2>2. claim.operands[k] # AnyOperands
    BY <1>3 DEF AnyOperands
  <2>3. QED
    BY <1>3, <2>1, <2>2 DEF Fits, OperandsFit
<1>4. ASSUME NEW k \in DOMAIN claim.expected, claim.expected[k] = "je", Fits(claim, shown) PROVE FALSE
  <2>1. claim.expected \in Seq(Mnemonic) /\ Len(claim.expected) \in Nat
        /\ DOMAIN claim.expected = 1..Len(claim.expected)
    BY ClaimIs
  <2> HIDE DEF names
  <2>2. CASE claim.mode = "contains"
    BY <1>2, <1>4, <2>2 DEF Fits, IsSubsequence, names
  <2>3. CASE claim.mode # "contains" /\ claim.length = NoLength
    <3>1. FirstOf(names, Len(claim.expected)) = claim.expected
      BY <1>4, <2>3 DEF Fits, names
    <3>2. claim.expected[k] = names[k] /\ k \in 1..Len(names)
      <4>1. /\ Len(claim.expected) <= Len(names)
            /\ \A i \in 1..Len(claim.expected) : claim.expected[i] = names[i]
        <5>1. /\ Len(FirstOf(names, Len(claim.expected))) <= Len(names)
              /\ \A i \in 1..Len(FirstOf(names, Len(claim.expected))) :
                   FirstOf(names, Len(claim.expected))[i] = names[i]
          BY <1>2, <2>1, FirstOfIs
        <5>2. QED
          BY <3>1, <5>1
      <4>2. QED
        BY <1>2, <2>1, <4>1
    <3>3. QED
      BY <1>2, <1>4, <3>2
  <2>4. CASE claim.mode # "contains" /\ claim.length # NoLength
    BY <1>2, <1>4, <2>4 DEF Fits, names
  <2>5. QED
    BY <2>2, <2>3, <2>4
<1>5. QED
  BY <1>3, <1>4 DEF Uses

\* The first few instructions decide an exact claim that gives no length.
LEMMA ExactFits ==
  ASSUME NEW claim, IsInstructions(claim), claim.mode = "exact", claim.length = NoLength,
         Len(claim.operands) <= Len(claim.expected), NEW actual \in Seq(Disassembled)
  PROVE  Fits(claim, actual) <=>
           /\ Len(claim.expected) <= Len(actual)
           /\ \A i \in 1..Len(claim.expected) : actual[i].name = claim.expected[i]
           /\ \A i \in 1..Len(claim.operands) : claim.operands[i] \in {AnyOperands, actual[i].ops}
<1> DEFINE e == Len(claim.expected)
           names == Names(actual)
<1>1. claim.expected \in Seq(Mnemonic) /\ e \in Nat /\ Len(claim.operands) \in Nat
      /\ DOMAIN claim.operands = 1..Len(claim.operands)
  BY ClaimIs
<1>2. /\ names \in Seq(Mnemonic) /\ Len(names) = Len(actual) /\ DOMAIN actual = 1..Len(actual)
      /\ \A i \in 1..Len(actual) : names[i] = actual[i].name
      /\ Len(actual) \in Nat
  BY NamesAre
<1>3. /\ FirstOf(names, e) \in Seq(Mnemonic)
      /\ Len(FirstOf(names, e)) = IF e < Len(names) THEN e ELSE Len(names)
      /\ \A i \in 1..Len(FirstOf(names, e)) : FirstOf(names, e)[i] = names[i]
  <2> HIDE DEF e, names
  <2>1. QED
    BY <1>1, <1>2, FirstOfIs
<1> HIDE DEF names
<1>4. FirstOf(names, e) = claim.expected <=>
        e <= Len(actual) /\ \A i \in 1..e : actual[i].name = claim.expected[i]
  <2> DEFINE got == FirstOf(names, e)
  <2> HIDE DEF got
  <2>1. ASSUME e <= Len(actual)
        PROVE  got = claim.expected <=> \A i \in 1..e : actual[i].name = claim.expected[i]
    <3>1. Len(got) = e /\ got \in Seq(Mnemonic)
      BY <1>1, <1>2, <1>3, <2>1 DEF got
    <3>2. got = claim.expected <=> \A i \in 1..e : got[i] = claim.expected[i]
      BY <1>1, <3>1, SameSequence
    <3>3. \A i \in 1..e : got[i] = actual[i].name
      <4> HIDE DEF e
      <4>1. \A i \in 1..e : i \in 1..Len(got) /\ i \in 1..Len(actual)
        BY <1>1, <1>2, <2>1, <3>1
      <4>2. QED
        BY <1>2, <1>3, <4>1 DEF got
    <3>4. QED
      BY <3>2, <3>3
  <2>2. ASSUME ~(e <= Len(actual)) PROVE got # claim.expected
    BY <1>1, <1>2, <1>3, <2>2 DEF got
  <2>3. QED
    BY <2>1, <2>2 DEF got
<1>5. ASSUME e <= Len(actual)
      PROVE  OperandsFit(actual, claim.operands) <=>
               \A i \in 1..Len(claim.operands) : claim.operands[i] \in {AnyOperands, actual[i].ops}
  BY <1>1, <1>2, <1>5 DEF OperandsFit
<1>6. Fits(claim, actual) <=> /\ FirstOf(names, e) = claim.expected
                              /\ OperandsFit(actual, claim.operands)
  BY DEF Fits, names
<1>7. QED
  BY <1>4, <1>5, <1>6

\* So do all of them, if it gives one.
LEMMA WholeFits ==
  ASSUME NEW claim, IsInstructions(claim), claim.mode = "exact", claim.length # NoLength,
         Len(claim.operands) <= Len(claim.expected), NEW actual \in Seq(Disassembled)
  PROVE  Fits(claim, actual) <=>
           /\ Len(claim.expected) = Len(actual)
           /\ \A i \in 1..Len(claim.expected) : actual[i].name = claim.expected[i]
           /\ \A i \in 1..Len(claim.operands) : claim.operands[i] \in {AnyOperands, actual[i].ops}
<1> DEFINE e == Len(claim.expected)
           names == Names(actual)
<1>1. claim.expected \in Seq(Mnemonic) /\ e \in Nat /\ Len(claim.operands) \in Nat
      /\ DOMAIN claim.operands = 1..Len(claim.operands)
  BY ClaimIs
<1>2. /\ names \in Seq(Mnemonic) /\ Len(names) = Len(actual) /\ DOMAIN actual = 1..Len(actual)
      /\ \A i \in 1..Len(actual) : names[i] = actual[i].name
      /\ Len(actual) \in Nat
  BY NamesAre
<1> HIDE DEF names
<1>3. names = claim.expected <=>
        e = Len(actual) /\ \A i \in 1..e : actual[i].name = claim.expected[i]
  <2>1. ASSUME e = Len(actual)
        PROVE  names = claim.expected <=> \A i \in 1..e : names[i] = claim.expected[i]
    <3>1. Len(names) = e
      BY <1>2, <2>1
    <3>2. names \in Seq(Mnemonic) /\ claim.expected \in Seq(Mnemonic) /\ e \in Nat
      BY <1>1, <1>2
    <3>3. Len(claim.expected) = e
      OBVIOUS
    <3> HIDE DEF e
    <3>4. QED
      BY <3>1, <3>2, <3>3, SameSequence
  <2>2. ASSUME e # Len(actual) PROVE names # claim.expected
    BY <1>1, <1>2, <2>2
  <2>3. QED
    BY <1>2, <2>1, <2>2
<1>4. ASSUME e = Len(actual)
      PROVE  OperandsFit(actual, claim.operands) <=>
               \A i \in 1..Len(claim.operands) : claim.operands[i] \in {AnyOperands, actual[i].ops}
  BY <1>1, <1>2, <1>4 DEF OperandsFit
<1>5. Fits(claim, actual) <=> names = claim.expected /\ OperandsFit(actual, claim.operands)
  BY DEF Fits, names
<1>6. QED
  BY <1>3, <1>4, <1>5

\* What was decoded before the first byte the built-in decoder cannot place is
\* all it is asked for.
LEMMA BeforeParting ==
  ASSUME NEW claim, IsInstructions(claim), NEW code, NEW a \in Progress, NEW p \in Progress,
         NEW j \in Nat, Parted(code, a, p, j), ~ Undecoded(p.out, claim)
  PROVE  /\ claim.mode = "exact"
         /\ Len(claim.expected) < j /\ j <= Len(p.out) /\ j - 1 <= Len(a.out)
         /\ \A i \in 1..Len(claim.expected) : a.out[i] = p.out[i]
<1> DEFINE e == Len(claim.expected)
           w == IF claim.expected = <<>> THEN 1 ELSE e
           window == FirstOf(p.out, w)
<1>1. p.out \in Seq(Disassembled) /\ Len(p.out) \in Nat /\ DOMAIN p.out = 1..Len(p.out)
      /\ a.out \in Seq(Disassembled) /\ Len(a.out) \in Nat
  BY DEF Progress
<1>2. j \in 1..Len(p.out) /\ p.out[j].name \in Pseudo
  BY <1>1 DEF Parted
<1>3. claim.mode = "exact"
  BY <1>1, <1>2 DEF Undecoded, IsInstructions
<1>4. \A i \in DOMAIN window : window[i].name \notin Pseudo
  BY <1>3 DEF Undecoded
<1>5. e \in Nat /\ w \in Nat /\ e <= w
  <2>1. claim.expected \in Seq(Mnemonic) /\ e \in Nat
    BY ClaimIs
  <2>2. claim.expected = <<>> => e = 0
    OBVIOUS
  <2> HIDE DEF e
  <2>3. QED
    BY <2>1, <2>2
<1>6. /\ Len(window) = IF w < Len(p.out) THEN w ELSE Len(p.out)
      /\ DOMAIN window = 1..Len(window) /\ \A i \in 1..Len(window) : window[i] = p.out[i]
  <2> HIDE DEF w
  <2>1. QED
    BY <1>1, <1>5, FirstOfIs
<1> HIDE DEF window, w, e
<1>7. j > w
  <2>1. ASSUME j <= w PROVE FALSE
    BY <1>1, <1>2, <1>5, <1>6, <2>1, <1>4
  <2>2. QED
    BY <1>5, <2>1
<1>8. e < j /\ j <= Len(p.out) /\ j - 1 <= Len(a.out)
  BY <1>1, <1>2, <1>5, <1>7 DEF Parted
<1>9. \A i \in 1..(j - 1) : a.out[i] = p.out[i]
  BY DEF Parted
<1>10. \A i \in 1..e : i \in 1..(j - 1)
  BY <1>5, <1>8
<1>11. QED
  BY <1>3, <1>8, <1>9, <1>10 DEF e

\* In its own words the built-in decoder judges as capstone does, but for a
\* length that cuts an instruction short.
LEMMA PureAgrees ==
  ASSUME NEW data \in Seq(CodeByte), NEW claim, IsInstructions(claim),
         ~ Uses(claim, "jz", "0xlow"), Len(claim.operands) <= Len(claim.expected),
         InstructionsVerdict(data, InOwnWords(claim), FALSE) # "inconclusive"
  PROVE  LET pure == InstructionsVerdict(data, InOwnWords(claim), FALSE)
         IN  \/ pure = InstructionsVerdict(data, claim, TRUE)
             \/ CutShort(data, claim) /\ pure = "refuted"
<1> DEFINE pure == InstructionsVerdict(data, InOwnWords(claim), FALSE)
           full == InstructionsVerdict(data, claim, TRUE)
           code == CodeAt(data, claim)
           a == Decoding(code, TRUE)
           p == Decoding(code, FALSE)
           e == Len(claim.expected)
<1>0. /\ InOwnWords(claim).off = claim.off
      /\ CodeAt(data, InOwnWords(claim)) = code /\ PurePython(code) = Respelled(p.out)
  <2>1. InOwnWords(claim).off = claim.off /\ InOwnWords(claim).length = claim.length
    BY DEF InOwnWords
  <2>2. QED
    BY <2>1 DEF CodeAt, PurePython, Respelled
<1>1. /\ claim.off \in 0..Len(data) - 1 /\ ~ Undecoded(p.out, claim)
      /\ pure \in {"verified", "refuted"} /\ (pure = "verified" <=> Fits(claim, p.out))
  <2>1. /\ claim.off \in 0..Len(data) - 1
        /\ ~ Undecoded(Respelled(p.out), InOwnWords(claim)) /\ pure \in {"verified", "refuted"}
        /\ pure = "verified" <=> Fits(InOwnWords(claim), Respelled(p.out))
    <3> HIDE DEF code, p
    <3>1. QED
      BY <1>0, VerdictIs
  <2>2. p.out \in Seq(Disassembled)
    <3>1. code \in Seq(CodeByte)
      BY <2>1, CodeIs
    <3> HIDE DEF code
    <3>2. p \in Progress
      BY <3>1, DecodersPart
    <3>3. QED
      BY <3>2 DEF Progress
  <2> HIDE DEF p, pure, code
  <2>3. QED
    BY <2>1, <2>2, OwnWordsFit, OwnWordsUndecoded
<1>2. full \in {"verified", "refuted"} /\ (full = "verified" <=> Fits(claim, a.out))
  BY <1>1, VerdictIs DEF Capstone
<1>3. code \in Seq(CodeByte)
  BY <1>1, CodeIs
<1>4. a \in Progress /\ p \in Progress /\ (Alike(a, p) \/ \E j \in Nat : Parted(code, a, p, j))
  <2> HIDE DEF code
  <2>1. QED
    BY <1>3, DecodersPart
<1>5. CutShort(data, claim) <=> claim.length # NoLength /\ a.at <= Len(code)
  BY DEF CutShort
<1> HIDE DEF pure, full, a, p, code
<1>6. CASE Alike(a, p)
  BY <1>6, <1>1, <1>2 DEF Alike, pure, full
<1>7. CASE \E j \in Nat : Parted(code, a, p, j)
  <2>1. PICK j \in Nat : Parted(code, a, p, j)
    BY <1>7
  <2>2. /\ claim.mode = "exact" /\ e < j /\ j <= Len(p.out) /\ j - 1 <= Len(a.out)
        /\ \A i \in 1..e : a.out[i] = p.out[i]
    BY <1>1, <1>4, <2>1, BeforeParting
  <2>3. a.out \in Seq(Disassembled) /\ p.out \in Seq(Disassembled)
    BY <1>4 DEF Progress
  <2>4. Len(a.out) \in Nat /\ Len(p.out) \in Nat
    BY <2>3
  <2>5. e \in Nat /\ Len(claim.operands) \in Nat
    BY ClaimIs
  <2>6. \A i \in 1..Len(claim.operands) : i \in 1..e
    BY <2>5
  <2> HIDE DEF e
  <2>7. CASE claim.length = NoLength
    <3>1. /\ Fits(claim, a.out) <=>
               /\ e <= Len(a.out) /\ \A i \in 1..e : a.out[i].name = claim.expected[i]
               /\ \A i \in 1..Len(claim.operands) : claim.operands[i] \in {AnyOperands, a.out[i].ops}
          /\ Fits(claim, p.out) <=>
               /\ e <= Len(p.out) /\ \A i \in 1..e : p.out[i].name = claim.expected[i]
               /\ \A i \in 1..Len(claim.operands) : claim.operands[i] \in {AnyOperands, p.out[i].ops}
      BY <2>2, <2>3, <2>7, ExactFits DEF e
    <3>2. e <= Len(a.out) /\ e <= Len(p.out)
      BY <2>2, <2>4, <2>5
    <3>3. Fits(claim, a.out) <=> Fits(claim, p.out)
      BY <2>2, <2>6, <3>1, <3>2
    <3>4. QED
      BY <1>1, <1>2, <3>3 DEF pure, full
  <2>8. CASE claim.length # NoLength
    <3>1. /\ Fits(claim, a.out) => e = Len(a.out)
          /\ Fits(claim, p.out) => e = Len(p.out)
      BY <2>2, <2>3, <2>8, WholeFits DEF e
    <3>2. pure = "refuted"
      BY <1>1, <2>2, <2>4, <2>5, <3>1
    <3>3. CASE full = "verified"
      <4>1. Len(a.out) = j - 1
        BY <1>2, <2>2, <2>4, <2>5, <3>1, <3>3
      <4>2. a.at <= Len(code)
        BY <2>1, <4>1 DEF Parted
      <4>3. QED
        BY <1>5, <2>8, <3>2, <4>2 DEF pure
    <3>4. CASE full = "refuted"
      BY <3>2, <3>4 DEF pure, full
    <3>5. QED
      BY <1>2, <3>3, <3>4
  <2>9. QED
    BY <2>7, <2>8
<1>8. QED
  BY <1>4, <1>6, <1>7

\* With capstone an exact claim is judged as documented, and so is one in mode
\* contains that gives no operands.
LEMMA FullIsAsWritten ==
  ASSUME NEW data \in Seq(CodeByte), NEW claim, IsInstructions(claim),
         Len(claim.operands) <= Len(claim.expected),
         claim.mode = "exact" \/ claim.operands = <<>>,
         InstructionsVerdict(data, claim, TRUE) # "inconclusive"
  PROVE  InstructionsVerdict(data, claim, TRUE) = "verified" <=> HoldsAsWritten(data, claim)
<1> DEFINE full == InstructionsVerdict(data, claim, TRUE)
           code == CodeAt(data, claim)
           actual == Capstone(code)
           e == Len(claim.expected)
<1>1. claim.off \in 0..Len(data) - 1 /\ (full = "verified" <=> Fits(claim, actual))
  BY VerdictIs
<1>2. code \in Seq(CodeByte)
  BY <1>1, CodeIs
<1>3. actual \in Seq(Disassembled)
  <2> HIDE DEF code
  <2>1. Decoding(code, TRUE) \in Progress
    BY <1>2, DecodersPart
  <2>2. QED
    BY <2>1 DEF Capstone, Progress
<1>4. HoldsAsWritten(data, claim) <=>
        \E f \in [DOMAIN claim.expected -> DOMAIN actual] :
          /\ \A i, j \in DOMAIN f : i < j => f[i] < f[j]
          /\ claim.mode = "exact" => \A i \in DOMAIN f : f[i] = i
          /\ claim.mode = "exact" /\ claim.length # NoLength => Len(actual) = e
          /\ \A i \in DOMAIN f : /\ actual[f[i]].name = claim.expected[i]
                                 /\ i \in DOMAIN claim.operands =>
                                      claim.operands[i] \in {AnyOperands, actual[f[i]].ops}
  BY DEF HoldsAsWritten
<1> HIDE DEF full, actual
<1>5. /\ e \in Nat /\ DOMAIN claim.expected = 1..e /\ Len(claim.operands) \in Nat
      /\ DOMAIN claim.operands = 1..Len(claim.operands)
  BY ClaimIs
<1>6. Len(actual) \in Nat /\ DOMAIN actual = 1..Len(actual)
  BY <1>3
<1> HIDE DEF e
<1>7. CASE claim.mode = "contains"
  <2>1. Fits(claim, actual) <=> /\ IsSubsequence(claim.expected, Names(actual))
                                /\ OperandsFit(actual, claim.operands)
    BY <1>7 DEF Fits
  <2>2. claim.operands = <<>>
    BY <1>7
  <2>3. DOMAIN claim.operands = {}
    BY <2>2
  <2>4. OperandsFit(actual, claim.operands)
    BY <2>3 DEF OperandsFit
  <2>5. DOMAIN Names(actual) = DOMAIN actual /\ \A i \in DOMAIN actual : Names(actual)[i] = actual[i].name
    BY <1>3, NamesAre
  <2>6. IsSubsequence(claim.expected, Names(actual)) <=>
          \E f \in [DOMAIN claim.expected -> DOMAIN actual] :
            /\ \A i, j \in DOMAIN claim.expected : i < j => f[i] < f[j]
            /\ \A i \in DOMAIN claim.expected : claim.expected[i] = actual[f[i]].name
    BY <2>5 DEF IsSubsequence
  <2>7. HoldsAsWritten(data, claim) <=>
          \E f \in [DOMAIN claim.expected -> DOMAIN actual] :
            /\ \A i, j \in DOMAIN claim.expected : i < j => f[i] < f[j]
            /\ \A i \in DOMAIN claim.expected : claim.expected[i] = actual[f[i]].name
    BY <1>4, <1>7, <2>3
  <2>8. QED
    BY <1>1, <2>1, <2>4, <2>6, <2>7 DEF full
<1>8. CASE claim.mode = "exact"
  <2> DEFINE Hold == /\ e <= Len(actual) /\ (claim.length # NoLength => e = Len(actual))
                     /\ \A i \in 1..e : actual[i].name = claim.expected[i]
                     /\ \A i \in 1..Len(claim.operands) :
                          claim.operands[i] \in {AnyOperands, actual[i].ops}
  <2>1. Fits(claim, actual) <=> Hold
    <3>1. CASE claim.length = NoLength
      BY <1>3, <1>8, <3>1, ExactFits DEF e
    <3>2. CASE claim.length # NoLength
      BY <1>3, <1>8, <3>2, WholeFits, <1>5, <1>6 DEF e
    <3>3. QED
      BY <3>1, <3>2
  <2>2. ASSUME Hold PROVE HoldsAsWritten(data, claim)
    <3> DEFINE f == [i \in 1..e |-> i]
    <3>1. f \in [DOMAIN claim.expected -> DOMAIN actual] /\ DOMAIN f = 1..e
          /\ \A i \in 1..e : f[i] = i
      BY <1>5, <1>6, <2>2
    <3> HIDE DEF f
    <3>2. /\ \A i, j \in DOMAIN f : i < j => f[i] < f[j]
          /\ \A i \in DOMAIN f : f[i] = i
          /\ claim.length # NoLength => Len(actual) = e
      BY <2>2, <3>1
    <3>3. \A i \in DOMAIN f : /\ actual[f[i]].name = claim.expected[i]
                              /\ i \in DOMAIN claim.operands =>
                                   claim.operands[i] \in {AnyOperands, actual[f[i]].ops}
      BY <1>5, <2>2, <3>1
    <3>4. QED
      BY <1>4, <3>1, <3>2, <3>3
  <2>3. ASSUME HoldsAsWritten(data, claim) PROVE Hold
    <3>1. PICK f \in [1..e -> DOMAIN actual] :
            /\ \A i \in 1..e : f[i] = i
            /\ claim.length # NoLength => Len(actual) = e
            /\ \A i \in 1..e : /\ actual[f[i]].name = claim.expected[i]
                               /\ i \in DOMAIN claim.operands =>
                                    claim.operands[i] \in {AnyOperands, actual[f[i]].ops}
      BY <1>4, <1>5, <1>8, <2>3
    <3>2. e <= Len(actual)
      <4>1. CASE e = 0
        BY <1>6, <4>1
      <4>2. CASE e # 0
        <5>1. e \in 1..e
          BY <1>5, <4>2
        <5>2. f[e] \in DOMAIN actual /\ f[e] = e
          BY <3>1, <5>1
        <5>3. QED
          BY <5>2, <1>6
      <4>3. QED
        BY <4>1, <4>2
    <3>3. \A i \in 1..Len(claim.operands) : i \in 1..e
      BY <1>5 DEF e
    <3>4. \A i \in 1..Len(claim.operands) : claim.operands[i] \in {AnyOperands, actual[i].ops}
      BY <1>5, <3>1, <3>3
    <3>5. \A i \in 1..e : actual[i].name = claim.expected[i]
      BY <3>1
    <3>6. QED
      BY <3>1, <3>2, <3>4, <3>5
  <2> HIDE DEF Hold
  <2>4. QED
    BY <1>1, <2>1, <2>2, <2>3 DEF full
<1>9. QED
  BY <1>7, <1>8 DEF IsInstructions

\* Claims about instructions are judged as InstructionsTruthful says.
LEMMA InstructionsHold ==
  ASSUME NEW data \in Seq(CodeByte), NEW claim, IsInstructions(claim)
  PROVE  InstructionsTruthful(data, claim)
<1>1. ASSUME claim.mode # "exact", claim.operands # <<>>
      PROVE  claim.mode = "contains" /\ claim.operands # <<>>
  BY <1>1 DEF IsInstructions
<1>2. ASSUME Uses(claim, "je", "low"), Len(claim.operands) <= Len(claim.expected)
      PROVE  InstructionsVerdict(data, claim, FALSE) # "verified"
  <2> SUFFICES ASSUME InstructionsVerdict(data, claim, FALSE) = "verified" PROVE FALSE
    OBVIOUS
  <2> DEFINE code == CodeAt(data, claim)
  <2>1. claim.off \in 0..Len(data) - 1 /\ Fits(claim, PurePython(code))
    BY VerdictIs
  <2>2. code \in Seq(CodeByte)
    BY <2>1, CodeIs
  <2> HIDE DEF code
  <2>3. Decoding(code, FALSE).out \in Seq(Disassembled)
    BY <2>2, DecodersPart DEF Progress
  <2>4. PurePython(code) = Respelled(Decoding(code, FALSE).out)
    BY DEF PurePython, Respelled
  <2>5. QED
    BY <1>2, <2>1, <2>3, <2>4, ForeignWordsNeverFit
<1>3. QED
  BY <1>1, <1>2, PureAgrees, FullIsAsWritten DEF InstructionsTruthful

(***************************************************************************)
(* BytesJudgedTruly holds.                                                  *)
(***************************************************************************)
THEOREM BytesTheorem == Spec => []BytesJudgedTruly
<1>1. Asked => BytesJudgedTruly
  <2> SUFFICES ASSUME Asked PROVE BytesJudgedTruly
    OBVIOUS
  <2>1. ASSUME op = "translate" PROVE TranslationsAgree(arg[1], arg[2])
    BY <2>1, TranslationsHold, TranslationsAssumption DEF Asked
  <2>2. ASSUME op = "bytes" PROVE BytesTruthful(arg[1], arg[2], arg[3], arg[4])
    BY <2>2, BytesHold, ReadsAssumption DEF Asked
  <2>3. ASSUME op = "search" PROVE SearchTruthful(arg[1], arg[2], arg[3])
    BY <2>3, SearchesHold, SearchesAssumption DEF Asked
  <2>4. ASSUME op = "instructions" PROVE InstructionsTruthful(arg[1], arg[2])
    BY <2>4, InstructionsHold, DecodingsAssumption DEF Asked
  <2>5. ASSUME op = "table" PROVE TablesTruthful(arg[1], arg[2])
    BY <2>5, TablesHold, TablesAssumption DEF Asked
  <2>6. QED
    BY <2>1, <2>2, <2>3, <2>4, <2>5 DEF BytesJudgedTruly
<1>2. QED
  BY <1>1, AskedInvariant, PTL

-----------------------------------------------------------------------------
(***************************************************************************)
(* The bounded views of ledgers, hand-offs and contexts.                    *)
(***************************************************************************)
\* No two have as many, and every count below the size of the set is that of
\* a member.
LEMMA RanksAre ==
  ASSUME NEW S \in SUBSET Nat, IsFiniteSet(S)
  PROVE  /\ Rank(S) \in Bijection(S, 0..(Cardinality(S) - 1))
         /\ \A i, j \in S : i < j => Rank(S)[j] < Rank(S)[i]
<1> DEFINE n == Cardinality(S)
           r == Rank(S)
<1>1. n \in Nat
  BY FS_CardinalityType
<1>2. \A i \in S : IsFiniteSet(Above(S, i)) /\ Above(S, i) \in SUBSET S
  BY FS_Subset DEF Above
<1>3. \A i \in S : r[i] = Cardinality(Above(S, i)) /\ r[i] \in Nat
  BY <1>2, FS_CardinalityType DEF Rank
<1>4. \A i \in S : r[i] < n
  <2> SUFFICES ASSUME NEW i \in S PROVE r[i] < n
    OBVIOUS
  <2>1. i \notin Above(S, i)
    BY DEF Above
  <2>2. Cardinality(Above(S, i)) <= n /\ n # Cardinality(Above(S, i))
    BY <1>2, <2>1, FS_Subset
  <2> HIDE DEF r
  <2>3. QED
    BY <1>1, <1>3, <2>2
<1>5. ASSUME NEW i \in S, NEW j \in S, i < j PROVE r[j] < r[i]
  <2>1. Above(S, j) \subseteq Above(S, i) /\ j \in Above(S, i) /\ j \notin Above(S, j)
    <3>1. i \in Nat /\ j \in Nat /\ \A x \in S : x \in Nat
      OBVIOUS
    <3>2. j > i /\ ~(j > j) /\ \A x \in S : x > j => x > i
      BY <1>5, <3>1
    <3>3. QED
      BY <3>2 DEF Above
  <2>2. /\ Cardinality(Above(S, j)) <= Cardinality(Above(S, i))
        /\ Cardinality(Above(S, i)) # Cardinality(Above(S, j))
    BY <1>2, <2>1, FS_Subset
  <2> HIDE DEF r
  <2>3. QED
    BY <1>3, <2>2
<1>6. r \in [S -> 0..(n - 1)]
  <2>1. \A i \in S : r[i] \in 0..(n - 1)
    <3> HIDE DEF r
    <3>1. QED
      BY <1>1, <1>3, <1>4
  <2>2. QED
    BY <2>1 DEF Rank
<1>7. \A i, j \in S : r[i] = r[j] => i = j
  <2> SUFFICES ASSUME NEW i \in S, NEW j \in S, i # j PROVE r[i] # r[j]
    OBVIOUS
  <2>1. i < j \/ j < i
    OBVIOUS
  <2> HIDE DEF r
  <2>2. QED
    BY <1>3, <1>5, <2>1
<1> HIDE DEF r
<1>8. r \in Injection(S, 0..(n - 1))
  BY <1>6, <1>7 DEF Injection, IsInjective
<1>9. IsFiniteSet(0..(n - 1)) /\ Cardinality(0..(n - 1)) = n
  <2> HIDE DEF n
  <2>1. IsFiniteSet(0..(n - 1)) /\ Cardinality(0..(n - 1)) = IF 0 > n - 1 THEN 0 ELSE n - 1 - 0 + 1
    BY <1>1, FS_Interval
  <2>2. QED
    BY <1>1, <2>1
<1>10. r \in Surjection(S, 0..(n - 1))
  <2>1. Cardinality(S) = Cardinality(0..(n - 1))
    BY <1>9
  <2> HIDE DEF n
  <2>2. QED
    BY <1>8, <1>9, <2>1, FS_Injection
<1>11. r \in Bijection(S, 0..(n - 1))
  BY <1>8, <1>10 DEF Bijection
<1>12. QED
  BY <1>5, <1>11 DEF r

\* The k largest members are k, or all of them; what is larger than one of
\* them is one of them.
LEMMA NewestAre ==
  ASSUME NEW S \in SUBSET Nat, IsFiniteSet(S), NEW k \in Nat
  PROVE  /\ Newest(S, k) \in SUBSET S
         /\ IsFiniteSet(Newest(S, k))
         /\ Cardinality(Newest(S, k)) = IF k < Cardinality(S) THEN k ELSE Cardinality(S)
         /\ Cardinality(S) <= k => Newest(S, k) = S
         /\ \A i \in Newest(S, k), j \in S : i < j => j \in Newest(S, k)
<1> DEFINE n == Cardinality(S)
           m == IF k < n THEN k ELSE n
           r == Rank(S)
           N == Newest(S, k)
<1>1. n \in Nat /\ m \in Nat
  BY FS_CardinalityType
<1>2. /\ r \in Bijection(S, 0..(n - 1))
      /\ \A i, j \in S : i < j => r[j] < r[i]
  BY RanksAre
<1>3. N = {i \in S : r[i] < k}
  BY DEF Newest, Rank, Above
<1>4. N \in SUBSET S /\ IsFiniteSet(N)
  BY <1>3, FS_Subset
<1> HIDE DEF n, m, r, N
<1>5. /\ \A i \in S : r[i] \in 0..(n - 1)
      /\ \A i, j \in S : r[i] = r[j] => i = j
      /\ \A x \in 0..(n - 1) : \E i \in S : r[i] = x
  BY <1>2 DEF Bijection, Injection, Surjection, IsInjective
<1>6. \A i \in N, j \in S : i < j => j \in N
  <2> SUFFICES ASSUME NEW i \in N, NEW j \in S, i < j PROVE j \in N
    OBVIOUS
  <2>1. r[j] < r[i] /\ r[i] < k /\ r[i] \in Nat /\ r[j] \in Nat
    BY <1>1, <1>2, <1>3, <1>5
  <2>2. QED
    BY <1>3, <2>1
<1>7. ASSUME n <= k PROVE N = S
  <2>1. \A x \in 0..(n - 1) : x < k
    BY <1>1, <1>7
  <2>2. QED
    BY <1>3, <1>5, <2>1
<1>8. Cardinality(N) = m
  <2> DEFINE f == [i \in N |-> r[i]]
  <2>1. f \in [N -> 0..(m - 1)]
    <3>1. \A x \in 0..(n - 1) : x < k => x \in 0..(m - 1)
      BY <1>1 DEF m
    <3>2. \A i \in N : r[i] \in 0..(m - 1)
      BY <1>3, <1>5, <3>1
    <3>3. QED
      BY <3>2
  <2>2. \A i, j \in N : f[i] = f[j] => i = j
    BY <1>4, <1>5
  <2>3. \A x \in 0..(m - 1) : \E i \in N : f[i] = x
    <3> SUFFICES ASSUME NEW x \in 0..(m - 1) PROVE \E i \in N : f[i] = x
      OBVIOUS
    <3>1. x \in 0..(n - 1) /\ x < k
      BY <1>1 DEF m
    <3>2. PICK i \in S : r[i] = x
      BY <1>5, <3>1
    <3>3. QED
      BY <1>3, <3>1, <3>2
  <2> HIDE DEF f
  <2>4. f \in Bijection(N, 0..(m - 1))
    BY <2>1, <2>2, <2>3 DEF Bijection, Injection, Surjection, IsInjective
  <2>5. Cardinality(0..(m - 1)) = Cardinality(N)
    BY <2>4, <1>4, FS_Bijection DEF ExistsBijection
  <2>6. Cardinality(0..(m - 1)) = IF 0 > m - 1 THEN 0 ELSE m - 1 - 0 + 1
    BY <1>1, FS_Interval
  <2>7. QED
    BY <1>1, <2>5, <2>6
<1>9. QED
  BY <1>4, <1>6, <1>7, <1>8 DEF n, m, N

\* No two have as many here either.
LEMMA PlacesAre ==
  ASSUME NEW S \in SUBSET Nat, IsFiniteSet(S)
  PROVE  /\ Place(S) \in Bijection(S, 0..(Cardinality(S) - 1))
         /\ \A i, j \in S : i > j => Place(S)[j] < Place(S)[i]
<1> DEFINE n == Cardinality(S)
           r == Place(S)
<1>1. n \in Nat
  BY FS_CardinalityType
<1>2. \A i \in S : IsFiniteSet(Below(S, i)) /\ Below(S, i) \in SUBSET S
  BY FS_Subset DEF Below
<1>3. \A i \in S : r[i] = Cardinality(Below(S, i)) /\ r[i] \in Nat
  BY <1>2, FS_CardinalityType DEF Place
<1>4. \A i \in S : r[i] < n
  <2> SUFFICES ASSUME NEW i \in S PROVE r[i] < n
    OBVIOUS
  <2>1. i \notin Below(S, i)
    BY DEF Below
  <2>2. Cardinality(Below(S, i)) <= n /\ n # Cardinality(Below(S, i))
    BY <1>2, <2>1, FS_Subset
  <2> HIDE DEF r
  <2>3. QED
    BY <1>1, <1>3, <2>2
<1>5. ASSUME NEW i \in S, NEW j \in S, i > j PROVE r[j] < r[i]
  <2>1. Below(S, j) \subseteq Below(S, i) /\ j \in Below(S, i) /\ j \notin Below(S, j)
    <3>1. i \in Nat /\ j \in Nat /\ \A x \in S : x \in Nat
      OBVIOUS
    <3>2. j < i /\ ~(j < j) /\ \A x \in S : x < j => x < i
      BY <1>5, <3>1
    <3>3. QED
      BY <3>2 DEF Below
  <2>2. /\ Cardinality(Below(S, j)) <= Cardinality(Below(S, i))
        /\ Cardinality(Below(S, i)) # Cardinality(Below(S, j))
    BY <1>2, <2>1, FS_Subset
  <2> HIDE DEF r
  <2>3. QED
    BY <1>3, <2>2
<1>6. r \in [S -> 0..(n - 1)]
  <2>1. \A i \in S : r[i] \in 0..(n - 1)
    <3> HIDE DEF r
    <3>1. QED
      BY <1>1, <1>3, <1>4
  <2>2. QED
    BY <2>1 DEF Place
<1>7. \A i, j \in S : r[i] = r[j] => i = j
  <2> SUFFICES ASSUME NEW i \in S, NEW j \in S, i # j PROVE r[i] # r[j]
    OBVIOUS
  <2>1. i > j \/ j > i
    OBVIOUS
  <2> HIDE DEF r
  <2>2. QED
    BY <1>3, <1>5, <2>1
<1> HIDE DEF r
<1>8. r \in Injection(S, 0..(n - 1))
  BY <1>6, <1>7 DEF Injection, IsInjective
<1>9. IsFiniteSet(0..(n - 1)) /\ Cardinality(0..(n - 1)) = n
  <2> HIDE DEF n
  <2>1. IsFiniteSet(0..(n - 1)) /\ Cardinality(0..(n - 1)) = IF 0 > n - 1 THEN 0 ELSE n - 1 - 0 + 1
    BY <1>1, FS_Interval
  <2>2. QED
    BY <1>1, <2>1
<1>10. r \in Surjection(S, 0..(n - 1))
  <2>1. Cardinality(S) = Cardinality(0..(n - 1))
    BY <1>9
  <2> HIDE DEF n
  <2>2. QED
    BY <1>8, <1>9, <2>1, FS_Injection
<1>11. r \in Bijection(S, 0..(n - 1))
  BY <1>8, <1>10 DEF Bijection
<1>12. QED
  BY <1>5, <1>11 DEF r

\* The k smallest members are k, or all of them; what is smaller than one of
\* them is one of them.
LEMMA OldestAre ==
  ASSUME NEW S \in SUBSET Nat, IsFiniteSet(S), NEW k \in Nat
  PROVE  /\ Oldest(S, k) \in SUBSET S
         /\ IsFiniteSet(Oldest(S, k))
         /\ Cardinality(Oldest(S, k)) = IF k < Cardinality(S) THEN k ELSE Cardinality(S)
         /\ Cardinality(S) <= k => Oldest(S, k) = S
         /\ \A i \in Oldest(S, k), j \in S : i > j => j \in Oldest(S, k)
<1> DEFINE n == Cardinality(S)
           m == IF k < n THEN k ELSE n
           r == Place(S)
           N == Oldest(S, k)
<1>1. n \in Nat /\ m \in Nat
  BY FS_CardinalityType
<1>2. /\ r \in Bijection(S, 0..(n - 1))
      /\ \A i, j \in S : i > j => r[j] < r[i]
  BY PlacesAre
<1>3. N = {i \in S : r[i] < k}
  BY DEF Oldest, Place, Below
<1>4. N \in SUBSET S /\ IsFiniteSet(N)
  BY <1>3, FS_Subset
<1> HIDE DEF n, m, r, N
<1>5. /\ \A i \in S : r[i] \in 0..(n - 1)
      /\ \A i, j \in S : r[i] = r[j] => i = j
      /\ \A x \in 0..(n - 1) : \E i \in S : r[i] = x
  BY <1>2 DEF Bijection, Injection, Surjection, IsInjective
<1>6. \A i \in N, j \in S : i > j => j \in N
  <2> SUFFICES ASSUME NEW i \in N, NEW j \in S, i > j PROVE j \in N
    OBVIOUS
  <2>1. r[j] < r[i] /\ r[i] < k /\ r[i] \in Nat /\ r[j] \in Nat
    BY <1>1, <1>2, <1>3, <1>5
  <2>2. QED
    BY <1>3, <2>1
<1>7. ASSUME n <= k PROVE N = S
  <2>1. \A x \in 0..(n - 1) : x < k
    BY <1>1, <1>7
  <2>2. QED
    BY <1>3, <1>5, <2>1
<1>8. Cardinality(N) = m
  <2> DEFINE f == [i \in N |-> r[i]]
  <2>1. f \in [N -> 0..(m - 1)]
    <3>1. \A x \in 0..(n - 1) : x < k => x \in 0..(m - 1)
      BY <1>1 DEF m
    <3>2. \A i \in N : r[i] \in 0..(m - 1)
      BY <1>3, <1>5, <3>1
    <3>3. QED
      BY <3>2
  <2>2. \A i, j \in N : f[i] = f[j] => i = j
    BY <1>4, <1>5
  <2>3. \A x \in 0..(m - 1) : \E i \in N : f[i] = x
    <3> SUFFICES ASSUME NEW x \in 0..(m - 1) PROVE \E i \in N : f[i] = x
      OBVIOUS
    <3>1. x \in 0..(n - 1) /\ x < k
      BY <1>1 DEF m
    <3>2. PICK i \in S : r[i] = x
      BY <1>5, <3>1
    <3>3. QED
      BY <1>3, <3>1, <3>2
  <2> HIDE DEF f
  <2>4. f \in Bijection(N, 0..(m - 1))
    BY <2>1, <2>2, <2>3 DEF Bijection, Injection, Surjection, IsInjective
  <2>5. Cardinality(0..(m - 1)) = Cardinality(N)
    BY <2>4, <1>4, FS_Bijection DEF ExistsBijection
  <2>6. Cardinality(0..(m - 1)) = IF 0 > m - 1 THEN 0 ELSE m - 1 - 0 + 1
    BY <1>1, FS_Interval
  <2>7. QED
    BY <1>1, <2>5, <2>6
<1>9. QED
  BY <1>4, <1>6, <1>7, <1>8 DEF n, m, N

\* The view of the ledger: full, and what it hides is older or unpinned
\* (ViewPinsProofs).
LEMMA ViewHolds ==
  ASSUME NEW pin \in Seq(BOOLEAN), NEW n \in Nat \ {0}
  PROVE  ViewPinsProofs(pin, n)
<1> DEFINE D == DOMAIN pin
           P == Pinned(pin)
           Q == Newest(P, n)
           R == Newest(D, n)
           chosen == Q \union R
           spare == chosen \ P
           excess == IF Cardinality(chosen) > n THEN Cardinality(chosen) - n ELSE 0
           dropped == Oldest(spare, excess)
           shown == Newest(chosen \ dropped, n)
           L == Len(pin)
<1>1. L \in Nat /\ D = 1..L /\ n \in Nat /\ n # 0 /\ \A i \in D : pin[i] \in BOOLEAN
  OBVIOUS
<1>2. /\ D \in SUBSET Nat /\ IsFiniteSet(D) /\ Cardinality(D) = L
      /\ P \in SUBSET D /\ P \in SUBSET Nat /\ IsFiniteSet(P) /\ Cardinality(P) \in Nat
  <2>1. D \in SUBSET Nat /\ P \in SUBSET D
    BY <1>1 DEF Pinned
  <2>2. IsFiniteSet(1..L) /\ Cardinality(1..L) = IF 1 > L THEN 0 ELSE L - 1 + 1
    BY <1>1, FS_Interval
  <2>3. IsFiniteSet(D) /\ Cardinality(D) = L
    BY <1>1, <2>2
  <2>4. IsFiniteSet(P)
    BY <2>1, <2>3, FS_Subset
  <2>5. QED
    BY <2>1, <2>3, <2>4, FS_CardinalityType
<1>3. \A i \in D : i \in P <=> pin[i]
  BY DEF Pinned
<1>4. shown = Established(pin, n)
  BY DEF Established
<1> HIDE DEF D, P, L
<1>5. /\ Q \in SUBSET P /\ IsFiniteSet(Q)
      /\ Cardinality(Q) = IF n < Cardinality(P) THEN n ELSE Cardinality(P)
      /\ Cardinality(P) <= n => Q = P
      /\ \A i \in Q, j \in P : i < j => j \in Q
  BY <1>1, <1>2, NewestAre
<1>6. /\ R \in SUBSET D /\ IsFiniteSet(R)
      /\ Cardinality(R) = IF n < L THEN n ELSE L
      /\ \A i \in R, j \in D : i < j => j \in R
  BY <1>1, <1>2, NewestAre
<1>7. R \cap P \subseteq Q
  <2> SUFFICES ASSUME NEW i \in R \cap P PROVE i \in Q
    OBVIOUS
  <2>1. Cardinality({j \in D : j > i}) < n
    BY DEF Newest
  <2>2. {j \in D : j > i} \in SUBSET D /\ {j \in P : j > i} \in SUBSET {j \in D : j > i}
    BY <1>2
  <2>3. IsFiniteSet({j \in D : j > i}) /\ Cardinality({j \in D : j > i}) \in Nat
    BY <1>2, <2>2, FS_Subset, FS_CardinalityType
  <2>4. /\ Cardinality({j \in P : j > i}) <= Cardinality({j \in D : j > i})
        /\ IsFiniteSet({j \in P : j > i})
    BY <2>2, <2>3, FS_Subset
  <2>5. Cardinality({j \in P : j > i}) \in Nat
    BY <2>4, FS_CardinalityType
  <2>6. Cardinality({j \in P : j > i}) < n
    BY <1>1, <2>1, <2>3, <2>4, <2>5
  <2>7. QED
    BY <2>6 DEF Newest
<1> HIDE DEF Q, R
<1>8. chosen \cap P = Q /\ spare = R \ P /\ chosen = Q \union spare /\ Q \cap spare = {}
  BY <1>5, <1>7
<1>9. /\ chosen \in SUBSET D /\ IsFiniteSet(chosen) /\ IsFiniteSet(spare)
      /\ spare \in SUBSET Nat /\ chosen \in SUBSET Nat
      /\ Cardinality(chosen) \in Nat /\ Cardinality(spare) \in Nat /\ Cardinality(Q) \in Nat
      /\ Cardinality(chosen) <= L
  BY <1>2, <1>5, <1>6, FS_Subset, FS_CardinalityType
<1>10. Cardinality(chosen) = Cardinality(Q) + Cardinality(spare)
  <2>1. Cardinality(Q \union spare) = Cardinality(Q) + Cardinality(spare) - Cardinality(Q \cap spare)
    BY <1>5, <1>9, FS_Union
  <2>2. Cardinality(Q \cap spare) = 0
    BY <1>8, FS_EmptySet
  <2> HIDE DEF chosen, spare
  <2>3. Cardinality(Q \union spare) = Cardinality(chosen)
    BY <1>8
  <2>4. QED
    BY <1>9, <2>1, <2>2, <2>3
<1>11. Cardinality(R) <= Cardinality(chosen)
  BY <1>9, FS_Subset
<1>12. Cardinality(Q) <= n
  BY <1>1, <1>2, <1>5
<1> HIDE DEF chosen, spare
<1>13. excess \in Nat /\ excess <= Cardinality(spare)
       /\ Cardinality(chosen) - excess <= n
       /\ (Cardinality(chosen) - excess = IF n < L THEN n ELSE L)
  BY <1>1, <1>6, <1>9, <1>10, <1>11, <1>12
<1> HIDE DEF excess
<1>14. /\ dropped \in SUBSET spare /\ IsFiniteSet(dropped) /\ Cardinality(dropped) = excess
       /\ \A i \in dropped, j \in spare : i > j => j \in dropped
  BY <1>9, <1>13, OldestAre
<1> HIDE DEF dropped
<1> DEFINE kept == chosen \ dropped
<1>15. kept \in SUBSET Nat /\ IsFiniteSet(kept) /\ Cardinality(kept) = Cardinality(chosen) - excess
  <2>1. dropped \in SUBSET chosen /\ kept \in SUBSET chosen
    BY <1>8, <1>14
  <2>2. IsFiniteSet(kept) /\ Cardinality(kept) \in Nat
    BY <1>9, <2>1, FS_Subset, FS_CardinalityType
  <2>3. Cardinality(kept \union dropped)
          = Cardinality(kept) + Cardinality(dropped) - Cardinality(kept \cap dropped)
    BY <1>14, <2>2, FS_Union
  <2>4. kept \union dropped = chosen /\ kept \cap dropped = {}
    BY <2>1
  <2>5. Cardinality(kept \cap dropped) = 0
    BY <2>4, FS_EmptySet
  <2>6. Cardinality(kept) = Cardinality(chosen) - excess
    <3> HIDE DEF kept
    <3>1. Cardinality(kept \union dropped) = Cardinality(chosen)
      BY <2>4
    <3>2. Cardinality(chosen) = Cardinality(kept) + excess - 0
      BY <1>14, <2>3, <2>5, <3>1
    <3>3. QED
      BY <1>9, <1>13, <2>2, <3>2
  <2>7. QED
    BY <1>9, <2>1, <2>2, <2>6
<1>16. shown = kept
  <2>1. Cardinality(kept) <= n
    BY <1>13, <1>15
  <2> HIDE DEF kept
  <2>2. Newest(kept, n) = kept
    BY <1>1, <1>15, <2>1, NewestAre
  <2>3. QED
    BY <2>2 DEF kept
<1> HIDE DEF shown
<1>17. Cardinality(shown) = IF n < L THEN n ELSE L
  BY <1>13, <1>15, <1>16
<1>18. shown \cap P = Q /\ Q \in SUBSET shown /\ shown \in SUBSET D
  BY <1>8, <1>9, <1>14, <1>16
<1>19. ASSUME NEW s \in shown, NEW h \in D \ shown
       PROVE  /\ h \in P => s \in P
              /\ (h \in P <=> s \in P) => h < s
  <2>1. s \in Nat /\ h \in Nat /\ h # s /\ s \in D
    BY <1>2, <1>18, <1>19
  <2>2. ASSUME h \in P PROVE s \in P /\ h < s
    <3>1. h \notin Q
      BY <1>18
    <3>2. Cardinality(Q) = n
      BY <1>1, <1>2, <1>5, <2>2, <3>1
    <3>3. Cardinality(shown) <= n
      BY <1>1, <1>17
    <3>4. shown = Q
      BY <1>15, <1>16, FS_CardinalityType, <1>18, FS_Subset, <1>1, <3>2, <3>3
    <3>5. s \in Q
      BY <3>4
    <3>6. s \in P /\ ~(s < h)
      BY <1>5, <2>2, <3>1, <3>5
    <3>7. QED
      BY <2>1, <3>6
  <2>3. ASSUME h \notin P, s \notin P PROVE h < s
    <3>1. s \in R /\ s \in spare /\ s \notin dropped
      BY <1>8, <1>16, <2>3
    <3>2. CASE h \in dropped
      BY <1>14, <2>1, <3>1, <3>2
    <3>3. CASE h \notin dropped
      BY <1>8, <1>16, <2>3, <3>3, <1>6, <3>1, <2>1
    <3>4. QED
      BY <3>2, <3>3
  <2>4. QED
    BY <2>2, <2>3
<1>20. Cardinality(shown) = IF L < n THEN L ELSE n
  BY <1>1, <1>17
<1>21. \A s \in shown, h \in D \ shown : /\ pin[h] => pin[s]
                                         /\ pin[h] = pin[s] => h < s
  <2> SUFFICES ASSUME NEW s \in shown, NEW h \in D \ shown
               PROVE  /\ pin[h] => pin[s]
                      /\ pin[h] = pin[s] => h < s
    OBVIOUS
  <2>1. s \in D
    BY <1>18
  <2>2. (h \in P <=> pin[h]) /\ (s \in P <=> pin[s])
    BY <1>3, <2>1
  <2>3. QED
    BY <1>19, <2>2
<1>22. QED
  BY <1>4, <1>20, <1>21 DEF ViewPinsProofs, D, L

\* RememberAll is what remembering the last one leaves.
LEMMA RememberDefined ==
  ASSUME NEW list \in Seq(Nat), NEW update \in Seq(Nat)
  PROVE  \E after \in [0..Len(update) -> Seq(Nat)] :
           /\ Remembers(list, update, after)
           /\ RememberAll(list, update) = after[Len(update)]
<1> DEFINE n == Len(update)
           A == Seq(Nat)
           step == [p \in (1..n) \X A |-> Remember(p[2], update[p[1]])]
           after[i \in 0..Len(update)] ==
             IF i = 0 THEN list ELSE Remember(after[i - 1], update[i])
<1>1. n \in Nat /\ list \in A /\ \A i \in 1..n : update[i] \in Nat
  OBVIOUS
<1>2. \A i \in 1..n, s \in A : Remember(s, update[i]) \in A
  BY <1>1 DEF Remember
<1>3. step \in Steps(n, A)
  <2> HIDE DEF n, A
  <2>1. QED
    BY <1>2 DEF Steps
<1>4. PICK f \in [0..n -> A] : f[0] = list /\ \A i \in 1..n : f[i] = step[<<i, f[i-1]>>]
  <2> HIDE DEF step, n, after, A
  <2>1. CanIterate(list, step, n, A)
    BY <1>1, <1>3, Iteration
  <2>2. QED
    BY <2>1 DEF CanIterate, Iterated
<1>5. \A i \in 1..n : f[i] = Remember(f[i - 1], update[i])
  <2> HIDE DEF n, A
  <2>1. \A i \in 1..n : i - 1 \in 0..n
    BY <1>1
  <2>2. \A i \in 1..n : <<i, f[i - 1]>> \in (1..n) \X A
    BY <2>1
  <2>3. QED
    BY <1>4, <2>2
<1>6. f = [i \in 0..n |-> IF i = 0 THEN list ELSE Remember(f[i - 1], update[i])]
  <2> HIDE DEF n, step, after, A
  <2>1. \A i \in 0..n : i = 0 \/ i \in 1..n
    BY <1>1
  <2>2. QED
    BY <1>4, <1>5, <2>1
<1>7. after = [i \in 0..n |-> IF i = 0 THEN list ELSE Remember(after[i - 1], update[i])]
  <2> HIDE DEF step, A
  <2>1. QED
    BY <1>6
<1>8. RememberAll(list, update) = after[n]
  BY DEF RememberAll
<1>9. /\ after = [i \in 0..n |-> after[i]] /\ after[0] = list
      /\ \A i \in 1..n : after[i] = Remember(after[i - 1], update[i])
  <2>1. 0 \in 0..n /\ \A i \in 1..n : i \in 0..n /\ i # 0
    BY <1>1
  <2> HIDE DEF after, step, n, A
  <2>2. QED
    BY <1>7, <2>1
<1>10. after \in [0..n -> A]
  <2> DEFINE M == {i \in 0..n : after[i] \in A}
  <2> HIDE DEF after, step, n, A
  <2>1. 0 \in M
    BY <1>1, <1>9
  <2>2. ASSUME NEW i \in 1..n, i - 1 \in M PROVE i \in M
    <3>1. after[i - 1] \in A /\ i \in 0..n
      BY <1>1, <2>2
    <3>2. Remember(after[i - 1], update[i]) \in A
      BY <1>2, <3>1
    <3>3. QED
      BY <1>9, <3>1, <3>2
  <2> HIDE DEF M
  <2>3. \A i \in 0..n : i \in M
    BY <1>1, <2>1, <2>2, InductionUpto
  <2>4. \A i \in 0..n : after[i] \in A
    BY <2>3 DEF M
  <2>5. QED
    BY <1>9, <2>4
<1>11. QED
  <2> HIDE DEF after
  <2>1. Remembers(list, update, after)
    BY <1>9 DEF Remembers
  <2>2. QED
    BY <1>8, <1>10, <2>1

\* What a list holds that ends in item.
LEMMA Remembered ==
  ASSUME NEW s \in Seq(Nat), IsInjective(s), NEW item \in Nat
  PROVE  LET t == Remember(s, item)
         IN  /\ t \in Seq(Nat) /\ IsInjective(t) /\ Len(t) >= Len(s)
             /\ \A j \in 1..Len(s) : t[j] = s[j]
             /\ ToSet(t) = ToSet(s) \union {item}
             /\ item \in ToSet(s) => t = s
<1> DEFINE n == Len(s)
<1>1. n \in Nat /\ DOMAIN s = 1..n /\ \A j \in 1..n : s[j] \in Nat
  OBVIOUS
<1>2. Contains(s, item) <=> item \in ToSet(s)
  BY <1>1 DEF Contains, ToSet
<1>3. CASE item \in ToSet(s)
  <2>1. Remember(s, item) = s
    BY <1>2, <1>3 DEF Remember
  <2>2. ToSet(s) = ToSet(s) \union {item} /\ Len(s) >= Len(s)
    BY <1>1, <1>3
  <2> HIDE DEF n
  <2>3. QED
    BY <2>1, <2>2
<1>4. CASE item \notin ToSet(s)
  <2> DEFINE t == Append(s, item)
  <2>1. Remember(s, item) = t
    BY <1>2, <1>4 DEF Remember
  <2>2. /\ t \in Seq(Nat) /\ Len(t) = n + 1 /\ DOMAIN t = 1..(n + 1)
        /\ \A j \in 1..n : t[j] = s[j]
        /\ t[n + 1] = item
    OBVIOUS
  <2> HIDE DEF t, n
  <2>3. \A j \in 1..n : s[j] # item
    BY <1>1, <1>4 DEF ToSet
  <2>4. \A j \in 1..(n + 1) : j \in 1..n \/ j = n + 1
    BY <1>1
  <2>5. \A i, j \in DOMAIN t : t[i] = t[j] => i = j
    <3> SUFFICES ASSUME NEW i \in 1..(n + 1), NEW j \in 1..(n + 1), t[i] = t[j] PROVE i = j
      BY <2>2
    <3>1. CASE i \in 1..n /\ j \in 1..n
      BY <1>1, <2>2, <3>1 DEF IsInjective
    <3>2. CASE ~(i \in 1..n /\ j \in 1..n)
      BY <2>2, <2>3, <2>4, <3>2
    <3>3. QED
      BY <3>1, <3>2
  <2>6. IsInjective(t)
    BY <2>5 DEF IsInjective
  <2>7. ToSet(t) = ToSet(s) \union {item}
    <3>1. ASSUME NEW x \in ToSet(t) PROVE x \in ToSet(s) \union {item}
      BY <1>1, <2>2, <2>4 DEF ToSet
    <3>2. ASSUME NEW x \in ToSet(s) PROVE x \in ToSet(t)
      <4>1. PICK j \in 1..n : x = s[j]
        BY <1>1 DEF ToSet
      <4>2. j \in DOMAIN t /\ x = t[j]
        BY <1>1, <2>2, <4>1
      <4>3. QED
        BY <4>2 DEF ToSet
    <3>3. item \in ToSet(t)
      BY <1>1, <2>2 DEF ToSet
    <3>4. QED
      BY <3>1, <3>2, <3>3
  <2>8. Len(t) >= Len(s)
    BY <1>1, <2>2 DEF n
  <2>9. QED
    BY <1>4, <2>1, <2>2, <2>6, <2>7, <2>8 DEF n
<1>5. QED
  BY <1>3, <1>4

\* All items are remembered behind those the list held, and none twice.
LEMMA RememberedAll ==
  ASSUME NEW list \in Seq(Nat), IsInjective(list), NEW update \in Seq(Nat)
  PROVE  LET all == RememberAll(list, update)
         IN  /\ all \in Seq(Nat) /\ IsInjective(all) /\ Len(all) >= Len(list)
             /\ \A j \in 1..Len(list) : all[j] = list[j]
             /\ ToSet(all) = ToSet(list) \union ToSet(update)
             /\ ToSet(update) \subseteq ToSet(list) => all = list
<1> DEFINE n == Len(update)
<1>1. PICK after \in [0..n -> Seq(Nat)] :
        Remembers(list, update, after) /\ RememberAll(list, update) = after[n]
  BY RememberDefined
<1>2. n \in Nat /\ \A i \in 1..n : update[i] \in Nat
  OBVIOUS
<1>3. DOMAIN update = 1..n
  OBVIOUS
<1> HIDE DEF n
<1> DEFINE Given(i) == {update[j] : j \in 1..i}
           Fine(s, i) ==
             /\ s \in Seq(Nat) /\ IsInjective(s) /\ Len(s) >= Len(list)
             /\ \A j \in 1..Len(list) : s[j] = list[j]
             /\ ToSet(s) = ToSet(list) \union Given(i)
             /\ ToSet(update) \subseteq ToSet(list) => s = list
           M == {i \in 0..n : Fine(after[i], i)}
<1>4. 0 \in M
  <2>1. after[0] = list
    BY <1>1 DEF Remembers
  <2>2. Given(0) = {} /\ Len(list) \in Nat
    OBVIOUS
  <2> HIDE DEF Given
  <2>3. Fine(list, 0)
    BY <2>2
  <2> HIDE DEF Fine
  <2>4. QED
    BY <1>2, <2>1, <2>3
<1>5. ASSUME NEW i \in 1..n, i - 1 \in M PROVE i \in M
  <2> DEFINE s == after[i - 1]
             t == after[i]
  <2>1. i \in 0..n /\ i - 1 \in 0..n /\ Fine(s, i - 1)
    BY <1>2, <1>5
  <2>2. t = Remember(s, update[i])
    BY <1>1 DEF Remembers, n
  <2> HIDE DEF s, t, Fine
  <2>3. /\ s \in Seq(Nat) /\ IsInjective(s) /\ Len(s) >= Len(list)
        /\ \A j \in 1..Len(list) : s[j] = list[j]
        /\ ToSet(s) = ToSet(list) \union Given(i - 1)
        /\ ToSet(update) \subseteq ToSet(list) => s = list
    BY <2>1 DEF Fine
  <2>4. /\ t \in Seq(Nat) /\ IsInjective(t) /\ Len(t) >= Len(s)
        /\ \A j \in 1..Len(s) : t[j] = s[j]
        /\ ToSet(t) = ToSet(s) \union {update[i]}
        /\ update[i] \in ToSet(s) => t = s
    BY <1>2, <2>2, <2>3, Remembered
  <2>5. Given(i) = Given(i - 1) \union {update[i]}
    <3>1. 1..i = (1..(i - 1)) \union {i}
      BY <1>2
    <3>2. QED
      BY <3>1
  <2>6. update[i] \in ToSet(update)
    BY <1>3 DEF ToSet
  <2> HIDE DEF Given
  <2>7. Len(list) \in Nat /\ Len(s) \in Nat /\ Len(t) \in Nat
    BY <2>3, <2>4
  <2>8. Len(t) >= Len(list) /\ \A j \in 1..Len(list) : j \in 1..Len(s)
    BY <2>3, <2>4, <2>7
  <2>9. \A j \in 1..Len(list) : t[j] = list[j]
    BY <2>3, <2>4, <2>8
  <2>10. ToSet(t) = ToSet(list) \union Given(i)
    BY <2>3, <2>4, <2>5
  <2>11. ToSet(update) \subseteq ToSet(list) => t = list
    BY <2>3, <2>4, <2>6
  <2>12. Fine(t, i)
    BY <2>4, <2>8, <2>9, <2>10, <2>11 DEF Fine
  <2>13. QED
    BY <2>1, <2>12 DEF t
<1> HIDE DEF M
<1>6. \A i \in 0..n : i \in M
  BY <1>2, <1>4, <1>5, InductionUpto
<1>7. Fine(after[n], n)
  <2> HIDE DEF Fine
  <2>1. n \in 0..n
    BY <1>2
  <2>2. QED
    BY <1>6, <2>1 DEF M
<1>8. Given(n) = ToSet(update)
  BY <1>3 DEF ToSet
<1>9. QED
  <2> HIDE DEF Given
  <2>1. QED
    BY <1>1, <1>7, <1>8

\* The last entries of a list are those behind the cut.
LEMMA LastOfIs ==
  ASSUME NEW s \in Seq(Nat), NEW k \in Nat \ {0}
  PROVE  /\ LastOf(s, k) \in Seq(Nat)
         /\ Len(LastOf(s, k)) = Len(s) - CutOf(s, k)
         /\ \A i \in 1..Len(LastOf(s, k)) : LastOf(s, k)[i] = s[CutOf(s, k) + i]
         /\ Len(s) <= k => LastOf(s, k) = s
         /\ CutOf(s, k) \in Nat
<1>1. Len(s) \in Nat /\ k \in Nat
  OBVIOUS
<1>2. CASE Len(s) <= k
  BY <1>2, <1>1 DEF LastOf, CutOf
<1>3. CASE ~(Len(s) <= k)
  <2> DEFINE cut == Len(s) - k
  <2>1. LastOf(s, k) = SubSeq(s, cut + 1, Len(s)) /\ CutOf(s, k) = cut
    BY <1>3 DEF LastOf, CutOf
  <2>2. cut \in Nat /\ cut + k = Len(s) /\ k = Len(s) - cut /\ cut + k <= Len(s)
    BY <1>1, <1>3
  <2> HIDE DEF cut
  <2>3. LastOf(s, k) = Slice(s, cut, k)
    BY <2>1, <2>2 DEF Slice
  <2>4. /\ Slice(s, cut, k) \in Seq(Nat) /\ Len(Slice(s, cut, k)) = k
        /\ \A i \in 1..k : Slice(s, cut, k)[i] = s[cut + i]
    BY <1>1, <2>2, SliceIs
  <2>5. QED
    BY <1>3, <2>1, <2>2, <2>3, <2>4
<1>4. QED
  BY <1>2, <1>3

\* A list without repetition is as long as what it holds is many.
LEMMA InjectiveCounts ==
  ASSUME NEW s \in Seq(Nat), IsInjective(s)
  PROVE  IsFiniteSet(ToSet(s)) /\ Cardinality(ToSet(s)) = Len(s)
<1> DEFINE n == Len(s)
           T == ToSet(s)
<1>1. n \in Nat /\ DOMAIN s = 1..n
  OBVIOUS
<1>2. s \in Bijection(1..n, T)
  BY <1>1 DEF ToSet, Bijection, Injection, Surjection, IsInjective
<1> HIDE DEF T, n
<1>3. IsFiniteSet(1..n) /\ Cardinality(1..n) = n
  BY <1>1, FS_Interval
<1>4. ExistsBijection(1..n, T)
  BY <1>2 DEF ExistsBijection
<1>5. IsFiniteSet(T) /\ Cardinality(T) = Cardinality(1..n)
  BY <1>3, <1>4, FS_Bijection
<1>6. QED
  BY <1>3, <1>5 DEF T, n

\* A merged list keeps what the update brings (MergeKeepsNews).
LEMMA MergeHolds ==
  ASSUME NEW list \in Seq(Nat), IsInjective(list), NEW update \in Seq(Nat), NEW k \in Nat \ {0}
  PROVE  MergeKeepsNews(list, update, k)
<1> DEFINE all == RememberAll(list, update)
           after == LastOf(all, k)
           held == ToSet(list) \union ToSet(update)
           news == ToSet(update) \ ToSet(list)
           c == CutOf(all, k)
<1>1. /\ all \in Seq(Nat) /\ IsInjective(all) /\ Len(all) >= Len(list)
      /\ \A j \in 1..Len(list) : all[j] = list[j]
      /\ ToSet(all) = held
  BY RememberedAll
<1> HIDE DEF all
<1>2. /\ after \in Seq(Nat) /\ Len(after) = Len(all) - c
      /\ \A i \in 1..Len(after) : after[i] = all[c + i]
      /\ Len(all) <= k => after = all
      /\ c \in Nat
  BY <1>1, LastOfIs
<1>3. c = IF Len(all) <= k THEN 0 ELSE Len(all) - k
  BY DEF CutOf
<1> DEFINE m == Len(all)
           l == Len(list)
           a == Len(after)
<1>4. /\ m \in Nat /\ l \in Nat /\ a \in Nat /\ k \in Nat /\ c \in Nat
      /\ a = m - c /\ (m <= k => c = 0) /\ (m > k => c = m - k)
  BY <1>1, <1>2, <1>3
<1> HIDE DEF after, c
<1>5. /\ Len(all) \in Nat /\ Len(after) \in Nat /\ Len(list) \in Nat /\ k \in Nat
      /\ DOMAIN all = 1..Len(all) /\ DOMAIN after = 1..Len(after) /\ DOMAIN list = 1..Len(list)
  BY <1>1, <1>2
<1>6. \A i \in 1..Len(after) : c + i \in 1..Len(all)
  BY <1>2, <1>5
<1>7. a <= k
  <2> HIDE DEF m, l, a
  <2>1. QED
    BY <1>4
<1>8. IsInjective(after)
  <2> SUFFICES ASSUME NEW i \in 1..Len(after), NEW j \in 1..Len(after), after[i] = after[j]
               PROVE  i = j
    BY <1>5 DEF IsInjective
  <2>1. all[c + i] = all[c + j]
    BY <1>2
  <2>2. c + i = c + j
    BY <1>1, <1>5, <1>6, <2>1 DEF IsInjective
  <2>3. QED
    BY <1>2, <1>5, <2>2
<1>9. ToSet(after) \subseteq held
  <2> SUFFICES ASSUME NEW x \in ToSet(after) PROVE x \in ToSet(all)
    BY <1>1
  <2>1. PICK i \in 1..Len(after) : x = after[i]
    BY <1>5 DEF ToSet
  <2>2. c + i \in DOMAIN all /\ x = all[c + i]
    BY <1>2, <1>5, <1>6, <2>1
  <2>3. QED
    BY <2>2 DEF ToSet
<1>10. /\ IsFiniteSet(held) /\ Cardinality(held) = Len(all)
      /\ IsFiniteSet(ToSet(list)) /\ Cardinality(ToSet(list)) = Len(list)
  BY <1>1, InjectiveCounts
<1>11. ASSUME Cardinality(news) <= k PROVE news \subseteq ToSet(after)
  <2>1. Cardinality(news) = Len(all) - Len(list)
    <3>1. held \ ToSet(list) = news /\ held \cap ToSet(list) = ToSet(list)
      OBVIOUS
    <3>2. Cardinality(held \ ToSet(list)) = Cardinality(held) - Cardinality(held \cap ToSet(list))
      BY <1>10, FS_Difference
    <3>3. QED
      BY <1>10, <3>1, <3>2
  <2>2. c <= l
    <3>1. m - l <= k
      BY <1>11, <2>1
    <3> HIDE DEF m, l, a
    <3>2. QED
      BY <1>4, <3>1
  <2> SUFFICES ASSUME NEW x \in news PROVE x \in ToSet(after)
    OBVIOUS
  <2>3. PICK p \in 1..Len(all) : x = all[p]
    <3>1. x \in ToSet(all)
      BY <1>1
    <3>2. QED
      BY <1>5, <3>1 DEF ToSet
  <2>4. p \notin 1..Len(list)
    BY <1>1, <1>5, <2>3 DEF ToSet
  <2>5. p - c \in 1..Len(after) /\ c + (p - c) = p
    BY <1>2, <1>5, <2>2, <2>4
  <2>6. x = after[p - c]
    BY <1>2, <2>3, <2>5
  <2>7. QED
    BY <1>5, <2>5, <2>6 DEF ToSet
<1>12. ASSUME Cardinality(held) <= k
       PROVE  ToSet(after) = held /\ MergeList(after, update, k) = after
  <2>1. after = all
    BY <1>2, <1>10, <1>12
  <2>2. ToSet(update) \subseteq ToSet(after)
    BY <1>1, <2>1
  <2>3. RememberAll(after, update) = after
    BY <1>2, <1>8, <2>2, RememberedAll
  <2>4. LastOf(after, k) = after
    BY <1>2, <1>7, LastOfIs
  <2>5. QED
    BY <1>1, <2>1, <2>3, <2>4 DEF MergeList
<1>13. MergeList(list, update, k) = after
  BY DEF MergeList, after, all
<1>14. QED
  BY <1>7, <1>8, <1>9, <1>11, <1>12, <1>13 DEF MergeKeepsNews

\* SumTo is what adding the first n of them leaves.
LEMMA SumDefined ==
  ASSUME NEW lens \in Seq(Nat), NEW n \in 0..Len(lens)
  PROVE  \E total \in [0..n -> Nat] : Adds(lens, n, total) /\ SumTo(lens, n) = total[n]
<1> DEFINE step == [p \in (1..n) \X Nat |-> p[2] + lens[p[1]]]
           total[i \in 0..n] == IF i = 0 THEN 0 ELSE total[i - 1] + lens[i]
<1>1. n \in Nat /\ 0 \in Nat /\ \A i \in 1..n : lens[i] \in Nat
  OBVIOUS
<1>2. step \in Steps(n, Nat)
  BY <1>1 DEF Steps
<1>3. PICK f \in [0..n -> Nat] : f[0] = 0 /\ \A i \in 1..n : f[i] = step[<<i, f[i-1]>>]
  <2> HIDE DEF step, total
  <2>1. CanIterate(0, step, n, Nat)
    BY <1>1, <1>2, Iteration
  <2>2. QED
    BY <2>1 DEF CanIterate, Iterated
<1>4. \A i \in 1..n : f[i] = f[i - 1] + lens[i]
  <2>1. \A i \in 1..n : i - 1 \in 0..n
    BY <1>1
  <2>2. \A i \in 1..n : <<i, f[i - 1]>> \in (1..n) \X Nat
    BY <2>1
  <2>3. QED
    BY <1>3, <2>2
<1>5. f = [i \in 0..n |-> IF i = 0 THEN 0 ELSE f[i - 1] + lens[i]]
  <2> HIDE DEF step, total
  <2>1. \A i \in 0..n : i = 0 \/ i \in 1..n
    BY <1>1
  <2>2. QED
    BY <1>3, <1>4, <2>1
<1>6. total = [i \in 0..n |-> IF i = 0 THEN 0 ELSE total[i - 1] + lens[i]]
  <2> HIDE DEF step
  <2>1. QED
    BY <1>5
<1>7. SumTo(lens, n) = total[n]
  BY DEF SumTo
<1>8. /\ total = [i \in 0..n |-> total[i]] /\ total[0] = 0
      /\ \A i \in 1..n : total[i] = total[i - 1] + lens[i]
  <2>1. 0 \in 0..n /\ \A i \in 1..n : i \in 0..n /\ i # 0
    BY <1>1
  <2> HIDE DEF total, step
  <2>2. QED
    BY <1>6, <2>1
<1>9. total \in [0..n -> Nat]
  <2> DEFINE M == {i \in 0..n : total[i] \in Nat}
  <2> HIDE DEF total, step
  <2>1. 0 \in M
    BY <1>1, <1>8
  <2>2. ASSUME NEW i \in 1..n, i - 1 \in M PROVE i \in M
    <3>1. total[i - 1] \in Nat /\ i \in 0..n /\ lens[i] \in Nat
      BY <1>1, <2>2
    <3>2. total[i] = total[i - 1] + lens[i]
      BY <1>8
    <3>3. total[i] \in Nat
      BY <3>1, <3>2
    <3>4. QED
      BY <3>1, <3>3
  <2> HIDE DEF M
  <2>3. \A i \in 0..n : i \in M
    BY <1>1, <2>1, <2>2, InductionUpto
  <2>4. \A i \in 0..n : total[i] \in Nat
    BY <2>3 DEF M
  <2>5. QED
    BY <1>8, <2>4
<1>10. QED
  <2> HIDE DEF total, step
  <2>1. Adds(lens, n, total)
    BY <1>8 DEF Adds
  <2>2. QED
    BY <1>7, <1>9, <2>1

\* What Adds says determines the total.
LEMMA SumIs ==
  ASSUME NEW lens \in Seq(Nat), NEW n \in 0..Len(lens),
         NEW f \in [0..n -> Nat], Adds(lens, n, f)
  PROVE  SumTo(lens, n) = f[n]
<1>1. PICK g \in [0..n -> Nat] : Adds(lens, n, g) /\ SumTo(lens, n) = g[n]
  BY SumDefined
<1> DEFINE M == {i \in 0..n : f[i] = g[i]}
<1>2. n \in Nat
  OBVIOUS
<1>3. 0 \in M
  BY <1>1, <1>2 DEF Adds
<1>4. ASSUME NEW i \in 1..n, i - 1 \in M PROVE i \in M
  BY <1>1, <1>2, <1>4 DEF Adds
<1> HIDE DEF M
<1>5. \A i \in 0..n : i \in M
  BY <1>2, <1>3, <1>4, InductionUpto
<1>6. n \in M
  BY <1>2, <1>5
<1>7. QED
  BY <1>1, <1>6 DEF M

\* The totals of the first of them: one more adds one length.
LEMMA SumsAre ==
  ASSUME NEW lens \in Seq(Nat)
  PROVE  /\ \A n \in 0..Len(lens) : SumTo(lens, n) \in Nat
         /\ SumTo(lens, 0) = 0
         /\ \A n \in 1..Len(lens) : SumTo(lens, n) = SumTo(lens, n - 1) + lens[n]
<1>1. ASSUME NEW n \in 0..Len(lens) PROVE SumTo(lens, n) \in Nat
  <2>1. PICK g \in [0..n -> Nat] : SumTo(lens, n) = g[n]
    BY SumDefined
  <2>2. n \in 0..n
    OBVIOUS
  <2>3. QED
    BY <2>1, <2>2
<1>2. SumTo(lens, 0) = 0
  <2>1. 0 \in 0..Len(lens)
    OBVIOUS
  <2>2. PICK g \in [0..0 -> Nat] : Adds(lens, 0, g) /\ SumTo(lens, 0) = g[0]
    BY <2>1, SumDefined
  <2>3. QED
    BY <2>2 DEF Adds
<1>3. ASSUME NEW n \in 1..Len(lens) PROVE SumTo(lens, n) = SumTo(lens, n - 1) + lens[n]
  <2>1. n \in 0..Len(lens) /\ n - 1 \in 0..Len(lens) /\ n \in Nat
    OBVIOUS
  <2>2. PICK g \in [0..n -> Nat] : Adds(lens, n, g) /\ SumTo(lens, n) = g[n]
    BY <2>1, SumDefined
  <2> DEFINE h == [i \in 0..(n - 1) |-> g[i]]
  <2>3. \A i \in 0..(n - 1) : i \in 0..n
    BY <2>1
  <2>4. h \in [0..(n - 1) -> Nat] /\ \A i \in 0..(n - 1) : h[i] = g[i]
    BY <2>2, <2>3
  <2>5. /\ 0 \in 0..(n - 1) /\ n - 1 \in 0..(n - 1) /\ n \in 1..n
        /\ \A i \in 1..(n - 1) : i \in 0..(n - 1) /\ i - 1 \in 0..(n - 1) /\ i \in 1..n
    BY <2>1
  <2> HIDE DEF h
  <2>6. Adds(lens, n - 1, h)
    BY <2>2, <2>4, <2>5 DEF Adds
  <2>7. SumTo(lens, n - 1) = h[n - 1]
    BY <2>1, <2>4, <2>6, SumIs
  <2>8. QED
    BY <2>2, <2>4, <2>5, <2>7 DEF Adds
<1>4. QED
  BY <1>1, <1>2, <1>3

\* Sums of the first n are the same if the first n are.
LEMMA SumsAgree ==
  ASSUME NEW s \in Seq(Nat), NEW t \in Seq(Nat), NEW n \in Nat, n <= Len(s), n <= Len(t),
         \A i \in 1..n : s[i] = t[i]
  PROVE  SumTo(s, n) = SumTo(t, n)
<1>1. n \in 0..Len(s) /\ n \in 0..Len(t)
  OBVIOUS
<1>2. PICK f \in [0..n -> Nat] : Adds(s, n, f) /\ SumTo(s, n) = f[n]
  BY <1>1, SumDefined
<1>3. Adds(t, n, f)
  BY <1>2 DEF Adds
<1>4. QED
  BY <1>1, <1>2, <1>3, SumIs

\* One more number adds itself.
LEMMA SumAppend ==
  ASSUME NEW s \in Seq(Nat), NEW x \in Nat
  PROVE  SumTo(Append(s, x), Len(s) + 1) = SumTo(s, Len(s)) + x
<1> DEFINE t == Append(s, x)
           n == Len(s)
<1>1. /\ t \in Seq(Nat) /\ n \in Nat /\ Len(t) = n + 1 /\ t[n + 1] = x
      /\ \A i \in 1..n : t[i] = s[i]
  OBVIOUS
<1> HIDE DEF t
<1>2. SumTo(t, n) = SumTo(s, n)
  <2>1. n <= Len(t) /\ n <= Len(s)
    BY <1>1
  <2> HIDE DEF n
  <2>2. QED
    BY <1>1, <2>1, SumsAgree
<1>3. SumTo(t, n + 1) = SumTo(t, n) + t[n + 1]
  <2> HIDE DEF n
  <2>1. n + 1 \in 1..Len(t) /\ (n + 1) - 1 = n
    BY <1>1
  <2>2. QED
    BY <1>1, <2>1, SumsAre
<1>4. QED
  BY <1>1, <1>2, <1>3 DEF t

-----------------------------------------------------------------------------
\* What one more ledger leaves.
LEMMA FitIs ==
  ASSUME NEW s \in Filling, NEW len \in Nat, NEW max \in Nat
  PROVE  /\ Fit(s, len, max) \in Filling
         /\ s.stop \/ (s.total + len > max /\ s.parts # <<>>) =>
              /\ Fit(s, len, max).total = s.total /\ Fit(s, len, max).parts = s.parts
              /\ Fit(s, len, max).stop
         /\ ~(s.stop \/ (s.total + len > max /\ s.parts # <<>>)) =>
              /\ Fit(s, len, max).total = s.total + len /\ ~Fit(s, len, max).stop
              /\ Fit(s, len, max).parts = Append(s.parts, IF len < max THEN len ELSE max)
<1>1. s.total \in Nat /\ s.stop \in BOOLEAN /\ s.parts \in Seq(Nat)
  BY DEF Filling
<1>2. CASE s.stop \/ (s.total + len > max /\ s.parts # <<>>)
  <2>1. Fit(s, len, max) = [s EXCEPT !.stop = TRUE]
    BY <1>2 DEF Fit
  <2> DEFINE t == [s EXCEPT !.stop = TRUE]
  <2>2. t \in Filling
    BY DEF Filling
  <2>3. t.total = s.total /\ t.parts = s.parts
    BY DEF Filling
  <2>4. t.stop
    BY DEF Filling
  <2> HIDE DEF t
  <2>5. QED
    BY <1>2, <2>1, <2>2, <2>3, <2>4 DEF t
<1>3. CASE ~(s.stop \/ (s.total + len > max /\ s.parts # <<>>))
  <2> DEFINE part == IF len < max THEN len ELSE max
  <2>1. Fit(s, len, max) =
          [total |-> s.total + len, stop |-> FALSE, parts |-> Append(s.parts, part)]
    BY <1>3 DEF Fit
  <2>2. part \in Nat
    OBVIOUS
  <2> HIDE DEF part
  <2>3. Append(s.parts, part) \in Seq(Nat) /\ s.total + len \in Nat
    BY <1>1, <2>2
  <2>4. [total |-> s.total + len, stop |-> FALSE, parts |-> Append(s.parts, part)] \in Filling
    BY <2>3 DEF Filling
  <2>5. QED
    BY <1>3, <2>1, <2>4 DEF part
<1>4. QED
  BY <1>2, <1>3

\* ContextParts is what the last ledger taken leaves.
LEMMA ContextDefined ==
  ASSUME NEW lens \in Seq(Nat), NEW max \in Nat, NEW limit \in Nat
  PROVE  \E after \in [0..Looked(lens, limit) -> Filling] :
           /\ Fills(lens, max, Looked(lens, limit), after)
           /\ ContextParts(lens, max, limit) = after[Looked(lens, limit)].parts
<1> DEFINE n == Looked(lens, limit)
           step == [p \in (1..n) \X Filling |-> Fit(p[2], lens[p[1]], max)]
           after[i \in 0..n] == IF i = 0 THEN Unfilled ELSE Fit(after[i - 1], lens[i], max)
<1>1. n \in Nat /\ \A i \in 1..n : lens[i] \in Nat
  BY DEF Looked
<1>2. Unfilled \in Filling
  BY DEF Unfilled, Filling
<1>3. \A i \in 1..n, s \in Filling : Fit(s, lens[i], max) \in Filling
  BY <1>1, FitIs
<1>4. step \in Steps(n, Filling)
  BY <1>3 DEF Steps
<1>5. PICK f \in [0..n -> Filling] :
        f[0] = Unfilled /\ \A i \in 1..n : f[i] = step[<<i, f[i-1]>>]
  <2> HIDE DEF step, after
  <2>1. CanIterate(Unfilled, step, n, Filling)
    BY <1>1, <1>2, <1>4, Iteration
  <2>2. QED
    BY <2>1 DEF CanIterate, Iterated
<1>6. \A i \in 1..n : f[i] = Fit(f[i - 1], lens[i], max)
  <2>1. \A i \in 1..n : i - 1 \in 0..n
    BY <1>1
  <2>2. \A i \in 1..n : <<i, f[i - 1]>> \in (1..n) \X Filling
    BY <2>1
  <2>3. QED
    BY <1>5, <2>2
<1>7. f = [i \in 0..n |-> IF i = 0 THEN Unfilled ELSE Fit(f[i - 1], lens[i], max)]
  <2> HIDE DEF step, after
  <2>1. \A i \in 0..n : i = 0 \/ i \in 1..n
    BY <1>1
  <2>2. QED
    BY <1>5, <1>6, <2>1
<1>8. after = [i \in 0..n |-> IF i = 0 THEN Unfilled ELSE Fit(after[i - 1], lens[i], max)]
  <2> HIDE DEF step
  <2>1. QED
    BY <1>7
<1>9. ContextParts(lens, max, limit) = after[n].parts
  BY DEF ContextParts, Unfilled, Looked
<1>10. /\ after = [i \in 0..n |-> after[i]] /\ after[0] = Unfilled
       /\ \A i \in 1..n : after[i] = Fit(after[i - 1], lens[i], max)
  <2>1. 0 \in 0..n /\ \A i \in 1..n : i \in 0..n /\ i # 0
    BY <1>1
  <2> HIDE DEF after, step
  <2>2. QED
    BY <1>8, <2>1
<1>11. after \in [0..n -> Filling]
  <2> DEFINE M == {i \in 0..n : after[i] \in Filling}
  <2> HIDE DEF after, step
  <2>1. 0 \in M
    BY <1>1, <1>2, <1>10
  <2>2. ASSUME NEW i \in 1..n, i - 1 \in M PROVE i \in M
    <3>1. after[i - 1] \in Filling /\ i \in 0..n
      BY <1>1, <2>2
    <3>2. Fit(after[i - 1], lens[i], max) \in Filling
      BY <1>3, <3>1
    <3>3. QED
      BY <1>10, <3>1, <3>2
  <2> HIDE DEF M
  <2>3. \A i \in 0..n : i \in M
    BY <1>1, <2>1, <2>2, InductionUpto
  <2>4. \A i \in 0..n : after[i] \in Filling
    BY <2>3 DEF M
  <2>5. QED
    BY <1>10, <2>4
<1>12. QED
  <2> HIDE DEF after, step
  <2>1. Fills(lens, max, n, after)
    BY <1>10 DEF Fills
  <2>2. QED
    BY <1>9, <1>11, <2>1

\* One more ledger keeps it so.
LEMMA FilledOneMore ==
  ASSUME NEW lens \in Seq(Nat), NEW max \in Nat, NEW i \in 1..Len(lens),
         NEW s, Filled(lens, max, i - 1, s)
  PROVE  Filled(lens, max, i, Fit(s, lens[i], max))
<1> DEFINE l == Len(s.parts)
           t == Fit(s, lens[i], max)
           part == IF lens[i] < max THEN lens[i] ELSE max
<1> SUFFICES Filled(lens, max, i, t)
  OBVIOUS
<1>1. /\ s \in Filling /\ l <= i - 1 /\ (~s.stop => l = i - 1) /\ (i - 1 # 0 => l # 0)
      /\ \A j \in 1..l : s.parts[j] = IF lens[j] < max THEN lens[j] ELSE max
      /\ s.total = SumTo(lens, l)
      /\ SumTo(s.parts, l) <= max /\ SumTo(s.parts, l) <= s.total
      /\ s.stop => l < i - 1 /\ SumTo(lens, l + 1) > max
  BY DEF Filled
<1>2. /\ s.parts \in Seq(Nat) /\ s.total \in Nat /\ s.stop \in BOOLEAN
      /\ l \in Nat /\ i \in Nat /\ i # 0 /\ lens[i] \in Nat
  BY <1>1 DEF Filling
<1>3. s.parts # <<>> <=> l # 0
  BY <1>2
<1>4. /\ t \in Filling
      /\ s.stop \/ (s.total + lens[i] > max /\ s.parts # <<>>) =>
           t.total = s.total /\ t.parts = s.parts /\ t.stop
      /\ ~(s.stop \/ (s.total + lens[i] > max /\ s.parts # <<>>)) =>
           t.total = s.total + lens[i] /\ ~t.stop /\ t.parts = Append(s.parts, part)
  <2> HIDE DEF l
  <2>1. QED
    BY <1>1, <1>2, FitIs
<1>5. SumTo(lens, i) = SumTo(lens, i - 1) + lens[i]
  BY SumsAre
<1> HIDE DEF t
<1>6. CASE s.stop \/ (s.total + lens[i] > max /\ s.parts # <<>>)
  <2>1. t.total = s.total /\ t.parts = s.parts /\ t.stop
    BY <1>4, <1>6
  <2>2. l <= i /\ l < i /\ l # 0
    <3> HIDE DEF l
    <3>1. CASE s.stop
      BY <1>1, <3>1, <1>2
    <3>2. CASE ~s.stop
      BY <1>1, <1>3, <1>6, <3>2, <1>2
    <3>3. QED
      BY <3>1, <3>2
  <2>3. SumTo(lens, l + 1) > max
    <3> HIDE DEF l
    <3>1. CASE s.stop
      BY <1>1, <3>1
    <3>2. CASE ~s.stop
      BY <1>1, <1>6, <3>2, <1>2, <1>5
    <3>3. QED
      BY <3>1, <3>2
  <2>4. t.parts = s.parts /\ t.total = s.total
    BY <2>1
  <2>5. QED
    BY <1>1, <1>4, <2>1, <2>2, <2>3, <2>4 DEF Filled
<1>7. CASE ~(s.stop \/ (s.total + lens[i] > max /\ s.parts # <<>>))
  <2>1. t.total = s.total + lens[i] /\ ~t.stop /\ t.parts = Append(s.parts, part)
    BY <1>4, <1>7
  <2>2. l = i - 1 /\ l + 1 = i
    <3> HIDE DEF l, part
    <3>1. l = i - 1
      BY <1>1, <1>7
    <3>2. QED
      BY <1>2, <3>1
  <2>3. part \in Nat /\ part <= max /\ part <= lens[i]
    BY <1>2
  <2>4. /\ Len(t.parts) = i /\ t.parts[i] = part
        /\ \A j \in 1..l : t.parts[j] = s.parts[j]
    <3> HIDE DEF part
    <3>1. \A j \in 1..l : Append(s.parts, part)[j] = s.parts[j]
      BY <1>2, <2>3
    <3>2. Len(Append(s.parts, part)) = l + 1 /\ Append(s.parts, part)[l + 1] = part
      BY <1>2, <2>3
    <3>3. QED
      BY <2>1, <2>2, <3>1, <3>2
  <2>5. SumTo(t.parts, i) = SumTo(s.parts, l) + part
    <3> HIDE DEF part
    <3>1. QED
      BY <1>2, <2>1, <2>2, <2>3, SumAppend
  <2>6. t.total = SumTo(lens, i)
    BY <1>1, <1>5, <2>1, <2>2
  <2>7. SumTo(s.parts, l) \in Nat
    <3>1. l \in 0..Len(s.parts)
      BY <1>2
    <3> HIDE DEF l
    <3>2. QED
      BY <1>2, <3>1, SumsAre
  <2>8. SumTo(t.parts, i) <= t.total
    <3> HIDE DEF part, l
    <3>1. QED
      BY <1>1, <1>2, <2>1, <2>3, <2>5, <2>7
  <2>9. SumTo(t.parts, i) <= max
    <3>1. CASE s.parts = <<>>
      <4>1. l = 0
        BY <1>3, <3>1
      <4>2. SumTo(s.parts, l) = 0
        BY <1>2, <4>1, SumsAre
      <4> HIDE DEF part, l
      <4>3. QED
        BY <2>3, <2>5, <4>2
    <3>2. CASE s.parts # <<>>
      <4>1. s.total + lens[i] <= max
        BY <1>2, <1>7, <3>2
      <4>2. t.total <= max
        BY <2>1, <4>1
      <4>3. t.total \in Nat /\ SumTo(t.parts, i) \in Nat
        <5> HIDE DEF part, l
        <5>1. t.total \in Nat
          BY <1>2, <2>1
        <5>2. SumTo(t.parts, i) \in Nat
          BY <2>3, <2>5, <2>7
        <5>3. QED
          BY <5>1, <5>2
      <4> HIDE DEF part, l
      <4>4. QED
        BY <2>8, <4>2, <4>3
    <3>3. QED
      BY <3>1, <3>2
  <2>10. \A j \in 1..i : t.parts[j] = IF lens[j] < max THEN lens[j] ELSE max
    <3>1. \A j \in 1..i : j \in 1..l \/ j = i
      BY <1>2, <2>2
    <3> SUFFICES ASSUME NEW j \in 1..i PROVE t.parts[j] = IF lens[j] < max THEN lens[j] ELSE max
      OBVIOUS
    <3>2. CASE j \in 1..l
      BY <2>4, <3>2, <1>1
    <3>3. CASE j = i
      BY <2>4, <3>3
    <3>4. QED
      BY <3>1, <3>2, <3>3
  <2>11. i <= i
    BY <1>2
  <2> HIDE DEF part, l
  <2>12. QED
    BY <1>2, <1>4, <2>1, <2>4, <2>6, <2>8, <2>9, <2>10, <2>11 DEF Filled
<1>8. QED
  BY <1>6, <1>7

\* A context stays within its budget and leaves no newer ledger out
\* (ContextWithinBudget).
LEMMA ContextHolds ==
  ASSUME NEW lens \in Seq(Nat), NEW max \in Nat, NEW limit \in Nat \ {0}
  PROVE  ContextWithinBudget(lens, max, limit)
<1> DEFINE n == Looked(lens, limit)
           parts == ContextParts(lens, max, limit)
<1>1. n \in Nat /\ n <= Len(lens) /\ n <= limit /\ Len(lens) \in Nat /\ limit \in Nat
  BY DEF Looked
<1>2. PICK after \in [0..n -> Filling] : Fills(lens, max, n, after) /\ parts = after[n].parts
  BY <1>1, ContextDefined
<1>3. \A i \in 1..n : i \in 1..Len(lens)
  BY <1>1
<1>4. Len(lens) = 0 \/ n # 0
  BY <1>1 DEF Looked
<1>5. n = Len(lens) \/ n = limit
  BY DEF Looked
<1> HIDE DEF n, parts
<1> DEFINE M == {i \in 0..n : Filled(lens, max, i, after[i])}
<1>6. 0 \in M
  <2>1. after[0] = Unfilled
    BY <1>2 DEF Fills
  <2>2. /\ Unfilled \in Filling /\ Unfilled.total = 0 /\ ~Unfilled.stop /\ Unfilled.parts = <<>>
    BY DEF Unfilled, Filling
  <2>3. Len(<<>>) = 0 /\ <<>> \in Seq(Nat)
    OBVIOUS
  <2>4. SumTo(lens, 0) = 0 /\ SumTo(<<>>, 0) = 0
    BY <2>3, SumsAre
  <2>5. Filled(lens, max, 0, Unfilled)
    BY <2>2, <2>3, <2>4 DEF Filled
  <2>6. QED
    BY <1>1, <2>1, <2>5
<1>7. ASSUME NEW i \in 1..n, i - 1 \in M PROVE i \in M
  BY <1>1, <1>3, <1>7, <1>2, FilledOneMore DEF Fills
<1> HIDE DEF M
<1>8. \A i \in 0..n : i \in M
  BY <1>1, <1>6, <1>7, InductionUpto
<1>9. Filled(lens, max, n, after[n])
  BY <1>1, <1>8 DEF M
<1> DEFINE s == after[n]
           l == Len(parts)
<1>10. /\ s \in Filling
       /\ l <= n /\ (~s.stop => l = n) /\ (n # 0 => l # 0)
       /\ \A j \in 1..l : parts[j] = IF lens[j] < max THEN lens[j] ELSE max
       /\ SumTo(parts, l) <= max
       /\ s.stop => SumTo(lens, l + 1) > max
  BY <1>2, <1>9 DEF Filled
<1>11. parts \in Seq(Nat)
  BY <1>2, <1>10 DEF Filling
<1>12. l \in Nat /\ DOMAIN parts = 1..l /\ (l # 0 => parts # <<>>)
  BY <1>11
<1> HIDE DEF s, l
<1>13. l <= limit
  BY <1>1, <1>10, <1>12
<1>14. lens # <<>> => parts # <<>>
  BY <1>4, <1>10, <1>12
<1>15. ASSUME l < Len(lens), l < limit PROVE SumTo(lens, l + 1) > max
  BY <1>1, <1>5, <1>12, <1>15, <1>10
<1>16. QED
  BY <1>10, <1>12, <1>13, <1>14, <1>15 DEF ContextWithinBudget, parts, l

(***************************************************************************)
(* ViewsKeepWhatCounts holds.                                               *)
(***************************************************************************)
THEOREM ViewsTheorem == Spec => []ViewsKeepWhatCounts
<1>1. Asked => ViewsKeepWhatCounts
  <2> SUFFICES ASSUME Asked PROVE ViewsKeepWhatCounts
    OBVIOUS
  <2>1. ASSUME op = "view" PROVE ViewPinsProofs(arg[1], arg[2])
    BY <2>1, ViewHolds, ViewsAssumption DEF Asked
  <2>2. ASSUME op = "merge" PROVE MergeKeepsNews(arg[1], arg[2], arg[3])
    BY <2>2, MergeHolds, MergesAssumption DEF Asked
  <2>3. ASSUME op = "context" PROVE ContextWithinBudget(arg[1], arg[2], arg[3])
    <3>1. /\ arg[1] \in Seq(Nat \ {0}) /\ arg[2] \in Nat /\ arg[3] \in Nat \ {0}
      BY <2>3, ContextsAssumption DEF Asked
    <3>2. arg[1] \in Seq(Nat)
      BY <3>1
    <3>3. QED
      BY <3>1, <3>2, ContextHolds
  <2>4. QED
    BY <2>1, <2>2, <2>3 DEF ViewsKeepWhatCounts
<1>2. QED
  BY <1>1, AskedInvariant, PTL

-----------------------------------------------------------------------------
(***************************************************************************)
(* The emulator runs as the processor does.                                 *)
(***************************************************************************)
\* What there is of a machine, and that a value fits its registers.
LEMMA WordsAre ==
  /\ Word \in Nat \ {0} /\ Half \in Words \union {Word} /\ Half # 0
  /\ 0 \in Words /\ \A v \in Int : v % Word \in Words
  /\ \A v \in Words : v % Word = v /\ v \in Nat /\ v \in Int
  /\ Cells \subseteq Words /\ Top \in Words
<1>1. Word \in Nat /\ Word > 0 /\ Half \in 1..Word
  BY HalfAssumption
<1>2. \A v \in Int : v % Word \in 0..(Word - 1)
  BY <1>1
<1>3. \A v \in 0..(Word - 1) : v % Word = v
  BY <1>1
<1>4. QED
  BY <1>1, <1>2, <1>3, CellsAssumption DEF Words

\* The parts of a machine.
LEMMA Parts ==
  ASSUME NEW s \in Machine
  PROVE  /\ s.regs \in [Reg -> Words] /\ s.mem \in [Cells -> Words] /\ s.ip \in Nat
         /\ s.steps \in Int /\ s.halted \in BOOLEAN
         /\ \A r \in Reg : s.regs[r] \in Words
         /\ \A c \in Int : Read(s, c) \in Words
BY WordsAre DEF Machine, Read

\* Writing a register changes nothing else.
LEMMA SetRegIs ==
  ASSUME NEW s \in Machine, NEW r \in Reg, NEW v \in Int
  PROVE  LET t == SetReg(s, r, v)
         IN  /\ t \in Machine /\ t.regs = [s.regs EXCEPT ![r] = v % Word]
             /\ t.mem = s.mem /\ t.ip = s.ip /\ t.steps = s.steps /\ t.halted = s.halted
<1>1. s.regs \in [Reg -> Words] /\ v % Word \in Words
  BY WordsAre DEF Machine
<1>2. [s.regs EXCEPT ![r] = v % Word] \in [Reg -> Words]
  BY <1>1
<1>3. QED
  BY <1>2 DEF SetReg, Machine

\* What moving on to the next instruction changes.
LEMMA AdvanceIs ==
  ASSUME NEW s \in Machine
  PROVE  LET t == Advance(s)
         IN  /\ t \in Machine /\ t.ip = s.ip + 1
             /\ t.regs = s.regs /\ t.mem = s.mem /\ t.steps = s.steps /\ t.halted = s.halted
BY DEF Advance, Machine

\* A push with room for it.
LEMMA PushIs ==
  ASSUME NEW s \in Machine, NEW r \in Reg
  PROVE  LET cell == s.regs["sp"] - 1
             t == Push(s, r)
         IN  IF cell \in Cells
             THEN /\ t \in Machine /\ t.ip = s.ip + 1
                  /\ t.regs = [s.regs EXCEPT !["sp"] = cell % Word]
                  /\ t.mem = [s.mem EXCEPT ![cell] = s.regs[r]]
                  /\ t.steps = s.steps /\ t.halted = s.halted
             ELSE /\ t \in Machine /\ t.ip = s.ip
                  /\ t.steps = s.steps - 1 /\ t.halted = TRUE
<1> DEFINE cell == s.regs["sp"] - 1
           moved == SetReg(s, "sp", cell)
           wrote == [moved EXCEPT !.mem[cell] = s.regs[r]]
<1>1. "sp" \in Reg /\ cell \in Int /\ s.regs[r] \in Words /\ s.mem \in [Cells -> Words]
  BY Parts, WordsAre DEF Reg
<1>2. /\ moved \in Machine /\ moved.regs = [s.regs EXCEPT !["sp"] = cell % Word]
      /\ moved.mem = s.mem /\ moved.ip = s.ip /\ moved.steps = s.steps
      /\ moved.halted = s.halted
  BY <1>1, SetRegIs
<1>3. CASE cell \in Cells
  <2>1. Push(s, r) = Advance(wrote)
    BY <1>3 DEF Push
  <2>2. [s.mem EXCEPT ![cell] = s.regs[r]] \in [Cells -> Words]
    BY <1>1
  <2> HIDE DEF moved
  <2>3. /\ wrote \in Machine /\ wrote.regs = moved.regs
        /\ wrote.mem = [moved.mem EXCEPT ![cell] = s.regs[r]]
        /\ wrote.ip = moved.ip /\ wrote.steps = moved.steps /\ wrote.halted = moved.halted
    BY <1>2, <2>2 DEF Machine
  <2> HIDE DEF wrote
  <2>4. QED
    BY <1>2, <1>3, <2>1, <2>3, AdvanceIs
<1>4. CASE cell \notin Cells
  <2>1. Push(s, r) = [moved EXCEPT !.halted = TRUE, !.steps = @ - 1]
    BY <1>4 DEF Push
  <2> HIDE DEF moved
  <2> DEFINE k == moved.steps - 1
             t == [moved EXCEPT !.halted = TRUE, !.steps = k]
  <2>2. k \in Int /\ Push(s, r) = t
    BY <1>2, <2>1 DEF Machine
  <2> HIDE DEF k
  <2>3. t \in Machine /\ t.ip = moved.ip /\ t.steps = k /\ t.halted = TRUE
    BY <1>2, <2>2 DEF Machine
  <2> HIDE DEF t
  <2>4. QED
    BY <1>2, <1>4, <2>2, <2>3 DEF k
<1>5. QED
  BY <1>3, <1>4

\* A pop.
LEMMA PopIs ==
  ASSUME NEW s \in Machine, NEW r \in Reg
  PROVE  LET sp == s.regs["sp"]
             t == Pop(s, r)
         IN  /\ t \in Machine /\ t.ip = s.ip + 1
             /\ t.regs = [[s.regs EXCEPT !["sp"] = (sp + 1) % Word] EXCEPT ![r] = Read(s, sp)]
             /\ t.mem = s.mem /\ t.steps = s.steps /\ t.halted = s.halted
<1> DEFINE sp == s.regs["sp"]
           moved == SetReg(s, "sp", sp + 1)
           set == SetReg(moved, r, Read(s, sp))
<1>1. "sp" \in Reg /\ sp \in Words /\ sp \in Int /\ sp + 1 \in Int
  BY Parts, WordsAre DEF Reg
<1>2. Read(s, sp) \in Words /\ Read(s, sp) \in Int /\ Read(s, sp) % Word = Read(s, sp)
  BY <1>1, Parts, WordsAre
<1>3. /\ moved \in Machine /\ moved.regs = [s.regs EXCEPT !["sp"] = (sp + 1) % Word]
      /\ moved.mem = s.mem /\ moved.ip = s.ip /\ moved.steps = s.steps
      /\ moved.halted = s.halted
  BY <1>1, SetRegIs
<1>4. Pop(s, r) = Advance(set)
  BY DEF Pop
<1> HIDE DEF moved
<1>5. /\ set \in Machine /\ set.regs = [moved.regs EXCEPT ![r] = Read(s, sp)]
      /\ set.mem = moved.mem /\ set.ip = moved.ip /\ set.steps = moved.steps
      /\ set.halted = moved.halted
  BY <1>2, <1>3, SetRegIs
<1> HIDE DEF set
<1>6. QED
  BY <1>3, <1>4, <1>5, AdvanceIs

\* An instruction is passed, or faults.
LEMMA ExecuteIs ==
  ASSUME NEW s \in Machine, NEW i \in Instruction
  PROVE  LET t == Execute(s, i)
         IN  /\ t \in Machine
             /\ \/ t.ip = s.ip + 1 /\ t.steps = s.steps
                \/ t.ip = s.ip /\ t.steps = s.steps - 1 /\ t.halted = TRUE
<1>1. i.reg \in Reg /\ i.src \in Reg /\ i.imm \in Words
  BY DEF Instruction, Words
<1>2. /\ i.imm \in Int /\ RegXor(s.regs[i.reg], s.regs[i.src]) \in Int
      /\ s.regs[i.reg] + s.regs[i.src] \in Int
  <2>1. s.regs[i.reg] \in Words /\ s.regs[i.src] \in Words
    BY <1>1, Parts
  <2>2. RegXor(s.regs[i.reg], s.regs[i.src]) \in Words
    BY <2>1, XorAssumption DEF Words
  <2>3. \A v \in Words : v \in Int
    BY WordsAre
  <2>4. i.imm \in Int /\ RegXor(s.regs[i.reg], s.regs[i.src]) \in Int
    BY <1>1, <2>2, <2>3
  <2>5. s.regs[i.reg] \in Int /\ s.regs[i.src] \in Int
    BY <2>1, <2>3
  <2>6. QED
    BY <2>4, <2>5
<1>3. CASE i.op = "push"
  <2>1. Execute(s, i) = Push(s, i.reg)
    BY <1>3 DEF Execute
  <2>2. CASE s.regs["sp"] - 1 \in Cells
    <3>1. LET t == Push(s, i.reg)
          IN  t \in Machine /\ t.ip = s.ip + 1 /\ t.steps = s.steps
      BY <1>1, <2>2, PushIs
    <3>2. QED
      BY <2>1, <3>1
  <2>3. CASE s.regs["sp"] - 1 \notin Cells
    BY <1>1, <2>3, PushIs, <2>1
  <2>4. QED
    BY <2>2, <2>3
<1>4. CASE i.op = "pop"
  BY <1>4, <1>1, PopIs DEF Execute
<1>5. CASE i.op = "mov"
  <2> DEFINE u == SetReg(s, i.reg, i.imm)
  <2>1. Execute(s, i) = Advance(u)
    BY <1>5 DEF Execute
  <2>2. u \in Machine /\ u.ip = s.ip /\ u.steps = s.steps
    BY <1>1, <1>2, SetRegIs
  <2> HIDE DEF u
  <2>3. QED
    BY <2>1, <2>2, AdvanceIs
<1>6. CASE i.op = "xor"
  <2> DEFINE u == SetReg(s, i.reg, RegXor(s.regs[i.reg], s.regs[i.src]))
  <2>1. Execute(s, i) = Advance(u)
    BY <1>6 DEF Execute
  <2>2. u \in Machine /\ u.ip = s.ip /\ u.steps = s.steps
    BY <1>1, <1>2, SetRegIs
  <2> HIDE DEF u
  <2>3. QED
    BY <2>1, <2>2, AdvanceIs
<1>7. CASE i.op = "add"
  <2> DEFINE u == SetReg(s, i.reg, s.regs[i.reg] + s.regs[i.src])
  <2>1. Execute(s, i) = Advance(u)
    BY <1>7 DEF Execute
  <2>2. u \in Machine /\ u.ip = s.ip /\ u.steps = s.steps
    BY <1>1, <1>2, SetRegIs
  <2> HIDE DEF u
  <2>3. QED
    BY <2>1, <2>2, AdvanceIs
<1>8. CASE i.op = "ret"
  <2>1. Execute(s, i) = [Advance(s) EXCEPT !.halted = TRUE]
    BY <1>8 DEF Execute
  <2>2. QED
    BY <2>1, AdvanceIs DEF Machine
<1>9. CASE i.op \notin {"push", "pop", "mov", "xor", "add", "ret"}
  BY <1>9, AdvanceIs DEF Execute
<1>10. QED
  BY <1>3, <1>4, <1>5, <1>6, <1>7, <1>8, <1>9

\* A step executes the instruction there is, within the limit, or halts.
LEMMA StepIs ==
  ASSUME NEW s \in Machine, NEW program \in Seq(Instruction), NEW max \in Nat
  PROVE  LET t == Step(s, program, max)
             u == Execute(s, program[s.ip])
         IN  /\ t \in Machine
             /\ s.ip \notin DOMAIN program =>
                  /\ t.halted = TRUE /\ t.regs = s.regs /\ t.mem = s.mem
                  /\ t.ip = s.ip /\ t.steps = s.steps
             /\ s.ip \in DOMAIN program =>
                  /\ u \in Machine
                  /\ t.regs = u.regs /\ t.mem = u.mem /\ t.ip = u.ip /\ t.steps = u.steps + 1
                  /\ t.halted <=> u.halted \/ u.steps + 1 >= max
<1>1. CASE s.ip \notin DOMAIN program
  BY <1>1 DEF Step, Machine
<1>2. CASE s.ip \in DOMAIN program
  <2> DEFINE u == Execute(s, program[s.ip])
  <2>1. Step(s, program, max) = [u EXCEPT !.steps = @ + 1, !.halted = @ \/ u.steps + 1 >= max]
    BY <1>2 DEF Step
  <2>2. program[s.ip] \in Instruction
    BY <1>2
  <2>3. u \in Machine
    BY <2>2, ExecuteIs
  <2> DEFINE v == [u EXCEPT !.steps = @ + 1, !.halted = @ \/ u.steps + 1 >= max]
  <2>4. SUFFICES /\ v \in Machine
                 /\ v.regs = u.regs /\ v.mem = u.mem /\ v.ip = u.ip /\ v.steps = u.steps + 1
                 /\ v.halted <=> u.halted \/ u.steps + 1 >= max
    BY <1>2, <2>1, <2>3
  <2> HIDE DEF u
  <2> DEFINE h == u.halted \/ u.steps + 1 >= max
             k == u.steps + 1
  <2>5. h \in BOOLEAN /\ k \in Int
    BY <2>3 DEF Machine
  <2>6. v = [u EXCEPT !.steps = k, !.halted = h]
    OBVIOUS
  <2> HIDE DEF h, k, v
  <2>7. /\ v \in Machine
        /\ v.regs = u.regs /\ v.mem = u.mem /\ v.ip = u.ip /\ v.steps = k
        /\ v.halted = h
    BY <2>3, <2>5, <2>6 DEF Machine
  <2>8. QED
    BY <2>7 DEF h, k
<1>3. QED
  BY <1>1, <1>2

\* The machine starts with nothing but its stack pointer.
LEMMA StartIs ==
  /\ Start \in Machine
  /\ Start.regs["a"] = 0 /\ Start.regs["b"] = 0 /\ Start.regs["sp"] = Top
  /\ Start.ip = 1 /\ Start.steps = 0 /\ Start.halted = FALSE
  /\ \A c \in Int : Read(Start, c) = 0
<1> DEFINE regs == [r \in Reg |-> IF r = "sp" THEN Top ELSE 0]
           mem == [c \in Cells |-> 0]
<1>1. regs \in [Reg -> Words] /\ mem \in [Cells -> Words]
  BY WordsAre
<1>2. regs["a"] = 0 /\ regs["b"] = 0 /\ regs["sp"] = Top /\ \A c \in Cells : mem[c] = 0
  BY DEF Reg
<1>3. Start = [regs |-> regs, mem |-> mem, ip |-> 1, steps |-> 0, halted |-> FALSE]
  BY DEF Start
<1> HIDE DEF regs, mem
<1>4. Start \in Machine
  BY <1>1, <1>3 DEF Machine
<1>5. Start.regs = regs /\ Start.mem = mem /\ Start.ip = 1 /\ Start.steps = 0 /\ Start.halted = FALSE
  BY <1>3
<1>6. QED
  BY <1>2, <1>4, <1>5 DEF Read

\* A round gives a machine.
LEMMA RoundType ==
  ASSUME NEW s \in Machine, NEW program \in Seq(Instruction), NEW max \in Nat
  PROVE  Round(s, program, max) \in Machine
BY StepIs DEF Round

\* The rounds of a run are what their recursive definition says.
LEMMA RoundsAre ==
  ASSUME NEW program \in Seq(Instruction), NEW max \in Nat
  PROVE  LET R == Rounds(program, max)
         IN  /\ R \in [0..(Len(program) + 1) -> Machine]
             /\ R[0] = Start
             /\ \A n \in 1..(Len(program) + 1) : R[n] = Round(R[n-1], program, max)
<1> DEFINE n == Len(program) + 1
           step == [p \in (1..n) \X Machine |-> Round(p[2], program, max)]
           after[k \in 0..(Len(program) + 1)] == IF k = 0 THEN Start ELSE Round(after[k-1], program, max)
<1>1. n \in Nat
  OBVIOUS
<1>2. step \in [(1..n) \X Machine -> Machine]
  BY RoundType
<1>3. PICK f \in [0..n -> Machine] :
        f[0] = Start /\ \A i \in 1..n : f[i] = step[<<i, f[i-1]>>]
  <2>1. Start \in Machine /\ n \in Nat /\ step \in Steps(n, Machine)
    BY <1>1, <1>2, StartIs DEF Steps
  <2> HIDE DEF step, n
  <2>2. CanIterate(Start, step, n, Machine)
    BY <2>1, Iteration
  <2>3. QED
    BY <2>2 DEF CanIterate, Iterated
<1>4. ASSUME NEW i \in 1..n PROVE f[i] = Round(f[i-1], program, max)
  <2> HIDE DEF n
  <2>1. i \in 1..n /\ i - 1 \in 0..n
    BY <1>1
  <2>2. f[i-1] \in Machine
    BY <2>1
  <2>3. <<i, f[i-1]>> \in (1..n) \X Machine
    BY <2>1, <2>2
  <2>4. QED
    BY <1>3, <2>3
<1>5. f = [i \in 0..n |-> IF i = 0 THEN Start ELSE Round(f[i-1], program, max)]
  <2> HIDE DEF step, n
  <2>1. \A i \in 0..n : i = 0 \/ i \in 1..n
    BY <1>1
  <2>2. QED
    BY <1>3, <1>4, <2>1
<1>6. after = [i \in 0..n |-> IF i = 0 THEN Start ELSE Round(after[i-1], program, max)]
  <2> HIDE DEF step
  <2>1. QED
    BY <1>5
<1>7. Rounds(program, max) = after
  BY DEF Rounds
<1> HIDE DEF after, step, n
<1>8. \A i \in 1..n : i \in 0..n /\ i # 0
  BY <1>1
<1>9. 0 \in 0..n
  BY <1>1
<1>10. \A i \in 0..n : after[i] \in Machine
  <2> DEFINE M == {k \in 0..n : after[k] \in Machine}
  <2>1. 0 \in M
    BY <1>6, <1>9, StartIs
  <2>2. ASSUME NEW i \in 1..n, i - 1 \in M PROVE i \in M
    BY <1>6, <1>8, <2>2, RoundType
  <2> HIDE DEF M
  <2>3. \A i \in 0..n : i \in M
    BY <1>1, <2>1, <2>2, InductionUpto
  <2>4. QED
    BY <2>3 DEF M
<1>11. after \in [0..n -> Machine]
  BY <1>6, <1>10
<1>12. after[0] = Start /\ \A i \in 1..n : after[i] = Round(after[i-1], program, max)
  BY <1>6, <1>8, <1>9
<1>13. QED
  BY <1>7, <1>11, <1>12 DEF n

\* Every round of a run goes on like this.
LEMMA RoundsGoOn ==
  ASSUME NEW program \in Seq(Instruction), NEW max \in Nat,
         NEW n \in 0..(Len(program) + 1)
  PROVE  Going(Rounds(program, max)[n], n, Len(program), max)
<1> DEFINE L == Len(program)
           R == Rounds(program, max)
           M == {k \in 0..(L + 1) : Going(R[k], k, L, max)}
<1>1. L \in Nat /\ L + 1 \in Nat /\ DOMAIN program = 1..L
  OBVIOUS
<1>2. /\ R \in [0..(L + 1) -> Machine] /\ R[0] = Start
      /\ \A k \in 1..(L + 1) : R[k] = Round(R[k-1], program, max)
  BY RoundsAre
<1> HIDE DEF R, L
<1>3. 0 \in M
  BY <1>1, <1>2, StartIs DEF Going
<1>4. ASSUME NEW k \in 1..(L + 1), k - 1 \in M PROVE k \in M
  <2> DEFINE s == R[k-1]
             t == R[k]
  <2>1. /\ k \in 0..(L + 1) /\ k - 1 \in 0..(L + 1) /\ s \in Machine
        /\ Going(s, k - 1, L, max) /\ t = Round(s, program, max)
    BY <1>1, <1>2, <1>4
  <2> SUFFICES Going(t, k, L, max)
    BY <2>1
  <2> HIDE DEF s, t
  <2>2. s.ip \in Nat /\ s.steps \in Int /\ s.halted \in BOOLEAN
    BY <2>1, Parts
  <2>3. CASE s.halted \/ s.steps >= max
    BY <2>1, <2>3, <2>2 DEF Round, Going
  <2>4. CASE ~(s.halted \/ s.steps >= max)
    <3>1. t = Step(s, program, max)
      BY <2>1, <2>4 DEF Round
    <3>2. /\ s.steps = k - 1 /\ s.ip = k /\ s.steps < max /\ s.steps \in 0..L
      BY <1>1, <2>1, <2>2, <2>4 DEF Going
    <3>3. CASE k = L + 1
      <4>1. s.ip \notin DOMAIN program
        BY <1>1, <3>2, <3>3
      <4>2. LET v == Step(s, program, max)
            IN  v.halted = TRUE /\ v.ip = s.ip /\ v.steps = s.steps
        BY <2>1, <4>1, StepIs
      <4>3. t.halted = TRUE /\ t.ip = s.ip /\ t.steps = s.steps
        BY <3>1, <4>2
      <4>4. QED
        BY <1>1, <3>2, <4>3 DEF Going
    <3>4. CASE k # L + 1
      <4> DEFINE u == Execute(s, program[s.ip])
      <4>1. s.ip \in DOMAIN program
        BY <1>1, <3>2, <3>4
      <4>2. /\ t.ip = u.ip /\ t.steps = u.steps + 1 /\ t \in Machine
            /\ t.halted <=> u.halted \/ u.steps + 1 >= max
        <5>1. LET v == Step(s, program, max)
              IN  /\ v.ip = u.ip /\ v.steps = u.steps + 1 /\ v \in Machine
                  /\ v.halted <=> u.halted \/ u.steps + 1 >= max
          BY <2>1, <4>1, StepIs
        <5>2. QED
          BY <3>1, <5>1
      <4>3. /\ u \in Machine
            /\ \/ u.ip = s.ip + 1 /\ u.steps = s.steps
               \/ u.ip = s.ip /\ u.steps = s.steps - 1 /\ u.halted = TRUE
        <5>1. program[s.ip] \in Instruction
          BY <4>1
        <5>2. QED
          BY <2>1, <5>1, ExecuteIs
      <4> HIDE DEF u
      <4>4. t.steps \in Int /\ t.ip \in Nat /\ u.steps \in Int /\ t.halted \in BOOLEAN
        BY <4>2, <4>3, Parts
      <4>5. CASE u.ip = s.ip + 1 /\ u.steps = s.steps
        BY <1>1, <2>2, <3>2, <3>4, <4>2, <4>4, <4>5 DEF Going
      <4>6. CASE u.ip = s.ip /\ u.steps = s.steps - 1 /\ u.halted = TRUE
        BY <4>2, <4>4, <4>6, <1>1, <2>2, <3>2, <3>4 DEF Going
      <4>7. QED
        BY <4>3, <4>5, <4>6
    <3>5. QED
      BY <3>3, <3>4
  <2>5. QED
    BY <2>3, <2>4
<1>5. \A k \in 0..(L + 1) : k \in M
  <2> HIDE DEF M
  <2>1. QED
    BY <1>1, <1>3, <1>4, InductionUpto
<1>6. n \in M
  BY <1>5 DEF L
<1>7. QED
  BY <1>6 DEF R, L

\* A run ends within its limit and counts no step that it did not take.
LEMMA RunEnds ==
  ASSUME NEW program \in Seq(Instruction), NEW max \in Nat
  PROVE  LET s == Run(program, max)
         IN  /\ s.halted \/ s.steps = max
             /\ s.steps <= max /\ s.steps <= Len(program)
             /\ s.ip <= s.steps + 1
<1> DEFINE L == Len(program)
           s == Run(program, max)
<1>1. L \in Nat /\ L + 1 \in 0..(L + 1)
  OBVIOUS
<1>2. s \in Machine /\ Going(s, L + 1, L, max)
  BY <1>1, RoundsAre, RoundsGoOn DEF Run
<1> HIDE DEF s, L
<1>3. s.ip \in Nat /\ s.steps \in Int /\ s.halted \in BOOLEAN
  BY <1>2, Parts
<1>4. s.halted = TRUE \/ s.steps = max
  BY <1>1, <1>2, <1>3 DEF Going
<1>5. s.steps <= max /\ s.steps <= L /\ s.ip <= s.steps + 1
  BY <1>1, <1>2, <1>3 DEF Going
<1>6. SUFFICES /\ s.halted \/ s.steps = max
               /\ s.steps <= max /\ s.steps <= L /\ s.ip <= s.steps + 1
  BY DEF s, L
<1>7. QED
  BY <1>4, <1>5

\* The parts of a processor.
LEMMA ProcessorParts ==
  ASSUME NEW m \in Processor
  PROVE  /\ m.a \in Words /\ m.b \in Words /\ m.stack \in Seq(Words) /\ m.done \in BOOLEAN
         /\ \A r \in Reg : Get(m, r) \in Words
BY DEF Processor, Get

\* Setting a register changes nothing else.
LEMMA PutIs ==
  ASSUME NEW m \in Processor, NEW r \in Reg, NEW v \in Words
  PROVE  LET n == Put(m, r, v)
         IN  /\ n \in Processor /\ n.stack = m.stack /\ n.done = m.done
             /\ n.a = IF r = "a" THEN v ELSE m.a
             /\ n.b = IF r = "a" THEN m.b ELSE v
<1>1. CASE r = "a"
  BY <1>1 DEF Processor, Put
<1>2. CASE r # "a"
  BY <1>2 DEF Processor, Put
<1>3. QED
  BY <1>1, <1>2

\* What an instruction puts into a register.
LEMMA ValuesAre ==
  ASSUME NEW m \in Processor, NEW i \in Instruction
  PROVE  /\ i.reg \in Reg /\ i.src \in Reg /\ i.imm \in Words
         /\ Get(m, i.reg) \in Words /\ Get(m, i.src) \in Words
         /\ RegXor(Get(m, i.reg), Get(m, i.src)) \in Words
         /\ (Get(m, i.reg) + Get(m, i.src)) % Half \in Words
<1>1. i.reg \in Reg /\ i.src \in Reg /\ i.imm \in Words
  BY DEF Instruction, Words
<1>2. Get(m, i.reg) \in Words /\ Get(m, i.src) \in Words
  BY <1>1, ProcessorParts
<1>3. RegXor(Get(m, i.reg), Get(m, i.src)) \in Words
  BY <1>2, XorAssumption DEF Words
<1>4. \A v \in Nat : v % Half \in Words
  BY HalfAssumption DEF Words
<1>5. Get(m, i.reg) \in Nat /\ Get(m, i.src) \in Nat
  BY <1>2, WordsAre
<1>6. Get(m, i.reg) + Get(m, i.src) \in Nat
  BY <1>5
<1>7. (Get(m, i.reg) + Get(m, i.src)) % Half \in Words
  BY <1>4, <1>6
<1>8. QED
  BY <1>1, <1>2, <1>3, <1>7

\* An instruction changes a register, or the stack at its end, or nothing.
LEMMA ActIs ==
  ASSUME NEW m \in Processor, NEW i \in Instruction, Len(m.stack) > 0
  PROVE  LET n == Act(m, i)
             L == Len(m.stack)
         IN  /\ n \in Processor
             /\ i.op = "push" => /\ n.stack = Append(m.stack, Get(m, i.reg))
                                 /\ n.a = m.a /\ n.b = m.b /\ n.done = m.done
             /\ i.op = "pop" => /\ n.stack = SubSeq(m.stack, 1, L - 1) /\ n.done = m.done
                                /\ n.a = IF i.reg = "a" THEN m.stack[L] ELSE m.a
                                /\ n.b = IF i.reg = "a" THEN m.b ELSE m.stack[L]
             /\ i.op \notin {"push", "pop"} => n.stack = m.stack
             /\ i.op \notin {"push", "pop", "ret"} => n.done = m.done
             /\ i.op = "ret" => n.done = TRUE /\ n.a = m.a /\ n.b = m.b
             /\ i.op = "mov" => n = Put(m, i.reg, i.imm)
             /\ i.op = "xor" => n = Put(m, i.reg, RegXor(Get(m, i.reg), Get(m, i.src)))
             /\ i.op = "add" => n = Put(m, i.reg, (Get(m, i.reg) + Get(m, i.src)) % Half)
             /\ i.op \in {"nop", "unknown"} => n = m
<1> DEFINE n == Act(m, i)
           L == Len(m.stack)
<1>1. /\ i.reg \in Reg /\ i.src \in Reg /\ i.imm \in Words /\ m.stack \in Seq(Words)
      /\ Get(m, i.reg) \in Words /\ Get(m, i.src) \in Words
      /\ RegXor(Get(m, i.reg), Get(m, i.src)) \in Words
      /\ (Get(m, i.reg) + Get(m, i.src)) % Half \in Words
  BY ValuesAre, ProcessorParts
<1>2. CASE i.op = "push"
  <2> DEFINE st == Append(m.stack, Get(m, i.reg))
  <2>1. st \in Seq(Words)
    BY <1>1
  <2>2. n = [m EXCEPT !.stack = st]
    BY <1>2 DEF Act
  <2> HIDE DEF st, n
  <2>3. n \in Processor /\ n.stack = st /\ n.a = m.a /\ n.b = m.b /\ n.done = m.done
    BY <2>1, <2>2 DEF Processor
  <2>4. QED
    BY <1>2, <2>3 DEF st, n
<1>3. CASE i.op = "pop"
  <2> DEFINE st == SubSeq(m.stack, 1, L - 1)
             v == m.stack[L]
             k == Put(m, i.reg, v)
  <2>1. st \in Seq(Words) /\ v \in Words
    BY <1>1
  <2>2. n = [k EXCEPT !.stack = SubSeq(k.stack, 1, Len(k.stack) - 1)]
    BY <1>3 DEF Act, Last, Front
  <2> HIDE DEF v
  <2>3. /\ k \in Processor /\ k.stack = m.stack /\ k.done = m.done
        /\ k.a = IF i.reg = "a" THEN v ELSE m.a
        /\ k.b = IF i.reg = "a" THEN m.b ELSE v
    BY <1>1, <2>1, PutIs
  <2>4. n = [k EXCEPT !.stack = st]
    BY <2>2, <2>3
  <2> HIDE DEF k, st, n
  <2>5. n \in Processor /\ n.stack = st /\ n.a = k.a /\ n.b = k.b /\ n.done = k.done
    BY <2>1, <2>3, <2>4 DEF Processor
  <2>6. QED
    BY <1>3, <2>3, <2>5 DEF st, n, v
<1>4. CASE i.op = "mov"
  <2>1. n = Put(m, i.reg, i.imm)
    BY <1>4 DEF Act
  <2> HIDE DEF n
  <2>2. n \in Processor /\ n.stack = m.stack /\ n.done = m.done
    BY <1>1, <2>1, PutIs, ZenonT(60)
  <2>3. QED
    BY <1>4, <2>1, <2>2 DEF n
<1>5. CASE i.op = "xor"
  <2>1. n = Put(m, i.reg, RegXor(Get(m, i.reg), Get(m, i.src)))
    BY <1>5 DEF Act
  <2> HIDE DEF n
  <2>2. n \in Processor /\ n.stack = m.stack /\ n.done = m.done
    BY <1>1, <2>1, PutIs, ZenonT(60)
  <2>3. QED
    BY <1>5, <2>1, <2>2 DEF n
<1>6. CASE i.op = "add"
  <2> DEFINE v == (Get(m, i.reg) + Get(m, i.src)) % Half
  <2>1. n = Put(m, i.reg, v)
    BY <1>6 DEF Act
  <2> HIDE DEF n
  <2>2. v \in Words
    BY <1>1
  <2> HIDE DEF v
  <2>3. n \in Processor /\ n.stack = m.stack /\ n.done = m.done
    BY <1>1, <2>1, <2>2, PutIs, ZenonT(60)
  <2>4. QED
    BY <1>6, <2>1, <2>3 DEF n, v
<1>7. CASE i.op = "ret"
  <2>1. n = [m EXCEPT !.done = TRUE]
    BY <1>7 DEF Act
  <2> HIDE DEF n
  <2>2. n \in Processor /\ n.stack = m.stack /\ n.a = m.a /\ n.b = m.b /\ n.done = TRUE
    BY <2>1 DEF Processor
  <2>3. QED
    BY <1>7, <2>2 DEF n
<1>8. CASE i.op \in {"nop", "unknown"}
  BY <1>8 DEF Act
<1>9. QED
  BY <1>2, <1>3, <1>4, <1>5, <1>6, <1>7, <1>8 DEF Instruction

\* The stack is never empty before the last instruction.
LEMMA StackLasts ==
  ASSUME NEW m \in Processor, NEW i \in Instruction, Len(m.stack) > 0
  PROVE  Len(Act(m, i).stack) \in (Len(m.stack) - 1)..(Len(m.stack) + 1)
<1>1. m.stack \in Seq(Words) /\ Get(m, i.reg) \in Words
  BY ValuesAre, ProcessorParts
<1>2. CASE i.op = "push"
  <2>1. Act(m, i).stack = Append(m.stack, Get(m, i.reg))
    BY <1>2, ActIs
  <2>2. QED
    BY <1>1, <2>1
<1>3. CASE i.op = "pop"
  <2>1. Act(m, i).stack = SubSeq(m.stack, 1, Len(m.stack) - 1)
    BY <1>3, ActIs
  <2>2. QED
    BY <1>1, <2>1
<1>4. CASE i.op \notin {"push", "pop"}
  <2>1. Act(m, i).stack = m.stack
    BY <1>4, ActIs
  <2>2. QED
    BY <1>1, <2>1
<1>5. QED
  BY <1>2, <1>3, <1>4

\* The processor goes on as its recursive definition says.
LEMMA CpusAre ==
  ASSUME NEW program \in Seq(Instruction)
  PROVE  LET C == Cpus(program)
             L == Len(program)
         IN  /\ C \in [0..L -> Processor]
             /\ C[0] = PowerOn(program)
             /\ \A n \in 1..L : C[n] = IF C[n-1].done THEN C[n-1] ELSE Act(C[n-1], program[n])
             /\ \A n \in 0..L : Deep(C[n], n, L)
<1> DEFINE L == Len(program)
           start == PowerOn(program)
           step == [p \in (1..L) \X Processor |->
                      IF p[2].done \/ Len(p[2].stack) = 0 THEN p[2] ELSE Act(p[2], program[p[1]])]
           after[n \in 0..Len(program)] ==
             IF n = 0 THEN PowerOn(program)
             ELSE IF after[n-1].done THEN after[n-1] ELSE Act(after[n-1], program[n])
<1>1. L \in Nat /\ \A n \in 1..L : program[n] \in Instruction
  OBVIOUS
<1>2. start \in Processor /\ Len(start.stack) = L
  <2> DEFINE zeros == [n \in 1..Len(program) |-> 0]
  <2>1. zeros \in Seq(Words) /\ Len(zeros) = L
    BY <1>1, WordsAre
  <2>2. start = [a |-> 0, b |-> 0, stack |-> zeros, done |-> FALSE]
    BY DEF PowerOn
  <2> HIDE DEF zeros, start
  <2>3. QED
    BY <2>1, <2>2, WordsAre DEF Processor
<1>3. step \in [(1..L) \X Processor -> Processor]
  <2>1. ASSUME NEW p \in (1..L) \X Processor
        PROVE  (IF p[2].done \/ Len(p[2].stack) = 0 THEN p[2] ELSE Act(p[2], program[p[1]]))
                 \in Processor
    <3>1. p[2] \in Processor /\ program[p[1]] \in Instruction /\ Len(p[2].stack) \in Nat
      BY <1>1, ProcessorParts
    <3>2. CASE Len(p[2].stack) = 0
      BY <3>1, <3>2
    <3>3. CASE Len(p[2].stack) # 0
      <4>1. Len(p[2].stack) > 0
        BY <3>1, <3>3
      <4>2. Act(p[2], program[p[1]]) \in Processor
        BY <3>1, <4>1, ActIs
      <4>3. QED
        BY <3>1, <4>2
    <3>4. QED
      BY <3>2, <3>3
  <2>2. QED
    BY <2>1
<1>4. PICK f \in [0..L -> Processor] :
        f[0] = start /\ \A i \in 1..L : f[i] = step[<<i, f[i-1]>>]
  <2>1. L \in Nat /\ step \in Steps(L, Processor)
    BY <1>1, <1>3 DEF Steps
  <2> HIDE DEF step, L, start
  <2>2. CanIterate(start, step, L, Processor)
    BY <1>2, <2>1, Iteration
  <2>3. QED
    BY <2>2 DEF CanIterate, Iterated
<1> DEFINE M == {n \in 0..L : Deep(f[n], n, L)}
<1>5. ASSUME NEW n \in 1..L, n - 1 \in M
      PROVE  f[n] = (IF f[n-1].done THEN f[n-1] ELSE Act(f[n-1], program[n])) /\ n \in M
  <2> HIDE DEF L, start
  <2>1. n \in 1..L /\ n - 1 \in 0..L /\ n \in 0..L
    BY <1>1
  <2>2. f[n-1] \in Processor /\ program[n] \in Instruction
    BY <1>1, <2>1
  <2>3. f[n-1].stack \in Seq(Words) /\ Len(f[n-1].stack) \in Nat
    BY <2>2, ProcessorParts
  <2>4. Len(f[n-1].stack) > 0 /\ Len(f[n-1].stack) \in (L - (n - 1))..(L + (n - 1))
    BY <1>1, <1>5, <2>1, <2>3 DEF Deep
  <2>5. <<n, f[n-1]>> \in (1..L) \X Processor
    BY <2>1, <2>2
  <2>6. f[n] = IF f[n-1].done \/ Len(f[n-1].stack) = 0 THEN f[n-1] ELSE Act(f[n-1], program[n])
    BY <1>4, <2>5
  <2>7. f[n] = IF f[n-1].done THEN f[n-1] ELSE Act(f[n-1], program[n])
    BY <2>4, <2>6
  <2>8. Len(f[n].stack) \in (Len(f[n-1].stack) - 1)..(Len(f[n-1].stack) + 1)
    <3>1. CASE f[n-1].done
      BY <2>3, <2>7, <3>1
    <3>2. CASE ~ f[n-1].done
      BY <2>7, <3>2, <2>2, <2>4, StackLasts
    <3>3. QED
      BY <3>1, <3>2
  <2>9. Deep(f[n], n, L)
    BY <1>1, <2>1, <2>4, <2>8 DEF Deep
  <2>10. QED
    BY <2>1, <2>7, <2>9
<1>6. 0 \in M
  <2> HIDE DEF L, start
  <2>1. QED
    BY <1>1, <1>2, <1>4 DEF Deep
<1>7. \A n \in 0..L : n \in M
  <2> HIDE DEF M, L
  <2>1. QED
    BY <1>1, <1>5, <1>6, InductionUpto
<1>8. f = [n \in 0..L |->
             IF n = 0 THEN PowerOn(program)
             ELSE IF f[n-1].done THEN f[n-1] ELSE Act(f[n-1], program[n])]
  <2>1. f[0] = PowerOn(program)
    BY <1>4
  <2> HIDE DEF step, L, start, M
  <2>2. \A n \in 0..L : n = 0 \/ (n \in 1..L /\ n - 1 \in 0..L)
    BY <1>1
  <2>3. \A n \in 1..L : n - 1 \in 0..L
    BY <1>1
  <2>4. \A n \in 1..L : f[n] = IF f[n-1].done THEN f[n-1] ELSE Act(f[n-1], program[n])
    BY <1>5, <1>7, <2>3
  <2>5. QED
    BY <1>4, <2>1, <2>2, <2>4
<1>9. after = [n \in 0..L |->
                 IF n = 0 THEN PowerOn(program)
                 ELSE IF after[n-1].done THEN after[n-1] ELSE Act(after[n-1], program[n])]
  <2> HIDE DEF step, M, start
  <2>1. QED
    BY <1>8
<1>10. Cpus(program) = after
  BY DEF Cpus
<1>11. after = f
  <2> HIDE DEF after, step
  <2> DEFINE E == {n \in 0..L : after[n] = f[n]}
  <2> HIDE DEF L, M, start
  <2>1. 0 \in E
    BY <1>1, <1>8, <1>9
  <2>2. ASSUME NEW n \in 1..L, n - 1 \in E PROVE n \in E
    BY <1>1, <2>2, <1>8, <1>9
  <2> HIDE DEF E
  <2>3. \A n \in 0..L : n \in E
    BY <1>1, <2>1, <2>2, InductionUpto
  <2>4. \A n \in 0..L : after[n] = f[n]
    BY <2>3 DEF E
  <2>5. after = [n \in 0..L |-> after[n]]
    BY <1>9
  <2>6. QED
    BY <1>4, <2>4, <2>5
<1> HIDE DEF after, step
<1>12. \A n \in 1..L : f[n] = IF f[n-1].done THEN f[n-1] ELSE Act(f[n-1], program[n])
  <2> HIDE DEF M, L, start
  <2>1. \A n \in 1..L : n - 1 \in 0..L
    BY <1>1
  <2>2. QED
    BY <1>5, <1>7, <2>1
<1>13. f[0] = PowerOn(program)
  BY <1>4
<1>14. QED
  BY <1>4, <1>7, <1>10, <1>11, <1>12, <1>13

\* A push of both.
LEMMA PushAlike ==
  ASSUME NEW s \in Machine, NEW m \in Processor, NEW high \in Words, NEW r \in Reg, r # "sp",
         Mirrors(s, m, high), high - Len(m.stack) - 1 \in Cells
  PROVE  LET t == Push(s, r)
             n == [m EXCEPT !.stack = Append(@, Get(m, r))]
         IN  Mirrors(t, n, high) /\ t.ip = s.ip + 1 /\ t.steps = s.steps /\ t.halted = s.halted
<1> DEFINE t == Push(s, r)
           n == [m EXCEPT !.stack = Append(@, Get(m, r))]
           cell == s.regs["sp"] - 1
           k == Len(m.stack)
<1>1. /\ s.regs \in [Reg -> Words] /\ s.mem \in [Cells -> Words]
      /\ m.stack \in Seq(Words) /\ k \in Nat /\ high \in Nat
      /\ "sp" \in Reg /\ "a" \in Reg /\ "b" \in Reg
  <2>1. "sp" \in Reg /\ "a" \in Reg /\ "b" \in Reg
    BY DEF Reg
  <2>2. s.regs \in [Reg -> Words] /\ s.mem \in [Cells -> Words] /\ m.stack \in Seq(Words)
    BY Parts, ProcessorParts
  <2>3. high \in Nat
    BY WordsAre
  <2>4. QED
    BY <2>1, <2>2, <2>3
<1>2. cell = high - k - 1 /\ cell \in Cells
  BY DEF Mirrors
<1>3. Get(m, r) = s.regs[r] /\ s.regs[r] \in Words
  BY <1>1 DEF Mirrors, Get, Reg
<1>4. /\ t.ip = s.ip + 1 /\ t.regs = [s.regs EXCEPT !["sp"] = cell % Word]
      /\ t.mem = [s.mem EXCEPT ![cell] = s.regs[r]]
      /\ t.steps = s.steps /\ t.halted = s.halted
  BY <1>2, PushIs
<1>5. cell \in Words /\ cell % Word = cell
  BY <1>2, WordsAre
<1>6. n.stack = Append(m.stack, s.regs[r]) /\ n.a = m.a /\ n.b = m.b
  BY <1>3 DEF Processor
<1>7. Len(n.stack) = k + 1 /\ n.stack[k + 1] = s.regs[r] /\ \A j \in 1..k : n.stack[j] = m.stack[j]
  BY <1>1, <1>3, <1>6
<1> HIDE DEF t, n, cell, k
<1>8. t.regs["a"] = n.a /\ t.regs["b"] = n.b /\ t.regs["sp"] = high - Len(n.stack)
  BY <1>1, <1>4, <1>5, <1>2, <1>6, <1>7 DEF Mirrors
<1>9. ASSUME NEW j \in 1..(k + 1) PROVE Read(t, high - j) = n.stack[j]
  <2>1. CASE j = k + 1
    BY <1>1, <1>2, <2>1, <1>4, <1>7 DEF Read
  <2>2. CASE j # k + 1
    <3>1. j \in 1..k /\ high - j # cell
      BY <1>1, <1>2, <2>2
    <3>2. Read(t, high - j) = Read(s, high - j)
      BY <1>1, <1>4, <3>1 DEF Read
    <3>3. Read(s, high - j) = m.stack[j]
      BY <3>1 DEF Mirrors, k
    <3>4. QED
      BY <1>7, <3>1, <3>2, <3>3
  <2>3. QED
    BY <2>1, <2>2
<1>10. Mirrors(t, n, high)
  BY <1>7, <1>8, <1>9 DEF Mirrors
<1>11. QED
  BY <1>4, <1>10 DEF t, n

\* A pop of both.
LEMMA PopAlike ==
  ASSUME NEW s \in Machine, NEW m \in Processor, NEW high \in Words, NEW r \in Reg, r # "sp",
         Mirrors(s, m, high), Len(m.stack) > 0,
         NEW n, n.stack = SubSeq(m.stack, 1, Len(m.stack) - 1),
         n.a = IF r = "a" THEN m.stack[Len(m.stack)] ELSE m.a,
         n.b = IF r = "a" THEN m.b ELSE m.stack[Len(m.stack)]
  PROVE  LET t == Pop(s, r)
         IN  Mirrors(t, n, high) /\ t.ip = s.ip + 1 /\ t.steps = s.steps /\ t.halted = s.halted
<1> DEFINE t == Pop(s, r)
           sp == s.regs["sp"]
           k == Len(m.stack)
<1>1. /\ s.regs \in [Reg -> Words] /\ m.stack \in Seq(Words) /\ k \in Nat /\ k > 0 /\ high \in Nat
      /\ "sp" \in Reg /\ "a" \in Reg /\ "b" \in Reg
  <2>1. "sp" \in Reg /\ "a" \in Reg /\ "b" \in Reg
    BY DEF Reg
  <2>2. s.regs \in [Reg -> Words] /\ m.stack \in Seq(Words)
    BY Parts, ProcessorParts
  <2>3. high \in Nat
    BY WordsAre
  <2>4. QED
    BY <2>1, <2>2, <2>3
<1>2. sp = high - k /\ k \in 1..k
  BY <1>1 DEF Mirrors
<1>3. Read(s, sp) = m.stack[k]
  BY <1>2 DEF Mirrors
<1>4. /\ t.ip = s.ip + 1
      /\ t.regs = [[s.regs EXCEPT !["sp"] = (sp + 1) % Word] EXCEPT ![r] = m.stack[k]]
      /\ t.mem = s.mem /\ t.steps = s.steps /\ t.halted = s.halted
  BY <1>3, PopIs
<1>5. (sp + 1) % Word = sp + 1
  <2>1. sp \in Nat /\ sp + 1 \in 0..high /\ high < Word
    <3>1. sp \in Words
      BY <1>1
    <3>2. sp \in Nat
      BY <3>1, WordsAre
    <3>3. QED
      BY <1>1, <1>2, <3>2, HalfAssumption DEF Words
  <2> HIDE DEF sp
  <2>2. sp + 1 \in Words
    BY <1>1, <2>1, HalfAssumption DEF Words
  <2>3. QED
    BY <2>2, WordsAre
<1>6. /\ Len(n.stack) = k - 1 /\ \A j \in 1..(k - 1) : n.stack[j] = m.stack[j]
  BY <1>1
<1>7. r = "a" \/ r = "b"
  BY DEF Reg
<1> HIDE DEF t, sp
<1>8. /\ t.regs["a"] = IF r = "a" THEN m.stack[k] ELSE s.regs["a"]
      /\ t.regs["b"] = IF r = "a" THEN s.regs["b"] ELSE m.stack[k]
      /\ t.regs["sp"] = sp + 1
  BY <1>1, <1>4, <1>5, <1>7
<1>9. s.regs["a"] = m.a /\ s.regs["b"] = m.b
  BY DEF Mirrors
<1>10. t.regs["a"] = n.a /\ t.regs["b"] = n.b
  BY <1>8, <1>9
<1>11. t.regs["sp"] = high - Len(n.stack)
  <2>1. sp + 1 = high - (k - 1)
    <3> HIDE DEF k
    <3>1. QED
      BY <1>1, <1>2
  <2>2. QED
    BY <1>6, <1>8, <2>1
<1>12. ASSUME NEW j \in 1..(k - 1) PROVE Read(t, high - j) = n.stack[j]
  BY <1>1, <1>4, <1>6 DEF Read, Mirrors
<1>13. Mirrors(t, n, high)
  <2> HIDE DEF k
  <2>1. QED
    BY <1>6, <1>10, <1>11, <1>12 DEF Mirrors
<1>14. QED
  BY <1>4, <1>13 DEF t

\* Writing the same value into the same register of both.
LEMMA PutAlike ==
  ASSUME NEW s \in Machine, NEW m \in Processor, NEW high, NEW r \in Reg, r # "sp",
         Mirrors(s, m, high), NEW v \in Int, NEW w \in Words, v % Word = w
  PROVE  LET t == Advance(SetReg(s, r, v))
             n == Put(m, r, w)
         IN  Mirrors(t, n, high) /\ t.ip = s.ip + 1 /\ t.steps = s.steps /\ t.halted = s.halted
<1> DEFINE u == SetReg(s, r, v)
           t == Advance(u)
           n == Put(m, r, w)
<1>1. /\ u \in Machine /\ u.regs = [s.regs EXCEPT ![r] = w]
      /\ u.mem = s.mem /\ u.ip = s.ip /\ u.steps = s.steps /\ u.halted = s.halted
  BY SetRegIs
<1> HIDE DEF u
<1>2. /\ t.ip = s.ip + 1 /\ t.regs = [s.regs EXCEPT ![r] = w] /\ t.mem = s.mem
      /\ t.steps = s.steps /\ t.halted = s.halted
  BY <1>1, AdvanceIs
<1>3. /\ n.stack = m.stack
      /\ n.a = IF r = "a" THEN w ELSE m.a
      /\ n.b = IF r = "a" THEN m.b ELSE w
  BY PutIs
<1>4. /\ s.regs \in [Reg -> Words] /\ "sp" \in Reg /\ "a" \in Reg /\ "b" \in Reg
      /\ (r = "a" \/ r = "b")
  BY Parts DEF Reg
<1> HIDE DEF t, n
<1>5. /\ t.regs["a"] = IF r = "a" THEN w ELSE s.regs["a"]
      /\ t.regs["b"] = IF r = "a" THEN s.regs["b"] ELSE w
      /\ t.regs["sp"] = s.regs["sp"]
  BY <1>2, <1>4
<1>6. \A c : Read(t, c) = Read(s, c)
  BY <1>2 DEF Read
<1>7. Mirrors(t, n, high)
  BY <1>3, <1>5, <1>6 DEF Mirrors
<1>8. QED
  BY <1>2, <1>7 DEF t, n, u

\* An addition that stays within half a register is one of half registers.
LEMMA HalfSum ==
  ASSUME NEW x \in Nat, NEW y \in Nat, x < Half, y < Half, (x + y) % Word < Half
  PROVE  (x + y) % Half = (x + y) % Word
<1>1. Word \in Nat /\ Half \in Nat /\ Half > 0
  BY HalfAssumption
<1>2. CASE Half = Word
  BY <1>2
<1>3. CASE 2 * Half <= Word
  <2>1. x + y \in 0..(Word - 1)
    BY <1>1, <1>3
  <2>2. (x + y) % Word = x + y
    BY <1>1, <2>1
  <2>3. x + y \in 0..(Half - 1)
    BY <1>1, <2>2
  <2>4. (x + y) % Half = x + y
    BY <1>1, <2>3
  <2>5. QED
    BY <2>2, <2>4
<1>4. QED
  BY <1>2, <1>3, HalfAssumption

\* A decoded instruction does the same to both.
LEMMA InstructionAlike ==
  ASSUME NEW s \in Machine, NEW m \in Processor, NEW i \in Instruction, NEW high \in Words,
         Decoded(i), Mirrors(s, m, high), Len(m.stack) > 0,
         i.op = "push" => high - Len(m.stack) - 1 \in Cells,
         s.regs["a"] < Half, s.regs["b"] < Half,
         Execute(s, i).regs["a"] < Half, Execute(s, i).regs["b"] < Half
  PROVE  LET u == Execute(s, i)
             n == Act(m, i)
         IN  /\ Mirrors(u, n, high) /\ u.ip = s.ip + 1 /\ u.steps = s.steps
             /\ IF i.op = "ret" THEN u.halted = TRUE /\ n.done = TRUE
                ELSE u.halted = s.halted /\ n.done = m.done
<1> DEFINE u == Execute(s, i)
           n == Act(m, i)
<1>1. /\ i.reg \in {"a", "b"} /\ i.src \in {"a", "b"} /\ i.reg \in Reg
      /\ i.op \in {"push", "pop", "mov", "xor", "add", "ret", "nop"}
  BY DEF Decoded, Instruction, Reg
<1>2. /\ Get(m, i.reg) = s.regs[i.reg] /\ Get(m, i.src) = s.regs[i.src]
      /\ Get(m, i.reg) \in Words /\ Get(m, i.src) \in Words
      /\ RegXor(Get(m, i.reg), Get(m, i.src)) \in Words
      /\ i.imm \in Words
      /\ (Get(m, i.reg) + Get(m, i.src)) % Half \in Words
  BY <1>1, ValuesAre DEF Mirrors, Get
<1> SUFFICES /\ Mirrors(u, n, high) /\ u.ip = s.ip + 1 /\ u.steps = s.steps
             /\ IF i.op = "ret" THEN u.halted = TRUE /\ n.done = TRUE
                ELSE u.halted = s.halted /\ n.done = m.done
  OBVIOUS
<1>3. CASE i.op = "push"
  <2> DEFINE w == [m EXCEPT !.stack = Append(@, Get(m, i.reg))]
  <2>1. u = Push(s, i.reg) /\ n = w
    BY <1>3 DEF Execute, Act
  <2>2. w.done = m.done
    BY DEF Processor
  <2>3. LET t == Push(s, i.reg)
        IN  Mirrors(t, w, high) /\ t.ip = s.ip + 1 /\ t.steps = s.steps /\ t.halted = s.halted
    BY <1>1, <1>3, PushAlike
  <2> HIDE DEF u, n, w
  <2>4. QED
    BY <1>3, <2>1, <2>2, <2>3
<1>4. CASE i.op = "pop"
  <2>1. u = Pop(s, i.reg)
    BY <1>4 DEF Execute
  <2>2. /\ n.stack = SubSeq(m.stack, 1, Len(m.stack) - 1) /\ n.done = m.done
        /\ n.a = IF i.reg = "a" THEN m.stack[Len(m.stack)] ELSE m.a
        /\ n.b = IF i.reg = "a" THEN m.b ELSE m.stack[Len(m.stack)]
    BY <1>4, ActIs
  <2> HIDE DEF u, n
  <2>3. i.reg \in Reg /\ i.reg # "sp"
    BY <1>1
  <2>4. LET t == Pop(s, i.reg)
        IN  Mirrors(t, n, high) /\ t.ip = s.ip + 1 /\ t.steps = s.steps /\ t.halted = s.halted
    BY <2>2, <2>3, PopAlike
  <2>5. QED
    BY <1>4, <2>1, <2>2, <2>4
<1>5. ASSUME NEW v \in Int, NEW w \in Words, v % Word = w,
             u = Advance(SetReg(s, i.reg, v)), n = Put(m, i.reg, w), i.op # "ret", n.done = m.done
      PROVE  /\ Mirrors(u, n, high) /\ u.ip = s.ip + 1 /\ u.steps = s.steps
             /\ IF i.op = "ret" THEN u.halted = TRUE /\ n.done = TRUE
                ELSE u.halted = s.halted /\ n.done = m.done
  <2> HIDE DEF u, n
  <2>1. i.reg \in Reg /\ i.reg # "sp"
    BY <1>1
  <2>2. LET t == Advance(SetReg(s, i.reg, v))
            k == Put(m, i.reg, w)
        IN  Mirrors(t, k, high) /\ t.ip = s.ip + 1 /\ t.steps = s.steps /\ t.halted = s.halted
    BY <1>5, <2>1, PutAlike
  <2>3. QED
    BY <1>5, <2>2
<1>6. CASE i.op = "mov"
  <2>1. u = Advance(SetReg(s, i.reg, i.imm)) /\ n = Put(m, i.reg, i.imm) /\ n.done = m.done
    BY <1>6, ActIs DEF Execute
  <2>2. i.imm \in Int /\ i.imm % Word = i.imm
    BY <1>2, WordsAre
  <2> HIDE DEF u, n
  <2>3. QED
    BY <1>2, <1>5, <1>6, <2>1, <2>2
<1>7. CASE i.op = "xor"
  <2> DEFINE v == RegXor(Get(m, i.reg), Get(m, i.src))
  <2>1. u = Advance(SetReg(s, i.reg, RegXor(s.regs[i.reg], s.regs[i.src])))
    BY <1>7 DEF Execute
  <2>2. n = Put(m, i.reg, v) /\ n.done = m.done
    BY <1>7, ActIs
  <2>3. v \in Words /\ u = Advance(SetReg(s, i.reg, v))
    BY <1>2, <2>1
  <2> HIDE DEF u, n, v
  <2>4. v \in Int /\ v % Word = v
    BY <2>3, WordsAre
  <2>5. QED
    BY <1>5, <1>7, <2>2, <2>3, <2>4
<1>8. CASE i.op = "add"
  <2> DEFINE x == Get(m, i.reg)
             y == Get(m, i.src)
             v == x + y
             w == v % Half
  <2>1. u = Advance(SetReg(s, i.reg, s.regs[i.reg] + s.regs[i.src]))
    BY <1>8 DEF Execute
  <2>2. n = Put(m, i.reg, w) /\ n.done = m.done
    BY <1>8, ActIs
  <2>3. x \in Nat /\ y \in Nat /\ x < Half /\ y < Half
    BY <1>2, WordsAre, <1>1
  <2>4. u = Advance(SetReg(s, i.reg, v)) /\ v \in Int
    BY <1>2, <2>1, <2>3
  <2>5. u.regs[i.reg] = v % Word
    <3> DEFINE k == SetReg(s, i.reg, v)
    <3>1. k \in Machine /\ k.regs = [s.regs EXCEPT ![i.reg] = v % Word]
      BY <1>1, <2>4, SetRegIs
    <3>2. u = Advance(k)
      BY <2>4
    <3> HIDE DEF u, v, k
    <3>3. u.regs = k.regs /\ s.regs \in [Reg -> Words]
      BY <3>1, <3>2, AdvanceIs, Parts
    <3>4. QED
      BY <1>1, <3>1, <3>3
  <2>6. u.regs[i.reg] < Half
    BY <1>1
  <2>7. v % Word = w
    BY <2>3, <2>5, <2>6, HalfSum
  <2>8. w \in Words
    BY <1>2
  <2> HIDE DEF u, n, v, w, x, y
  <2>9. QED
    BY <1>5, <1>8, <2>2, <2>4, <2>7, <2>8
<1>9. CASE i.op = "ret"
  <2>1. u = [Advance(s) EXCEPT !.halted = TRUE]
    BY <1>9 DEF Execute
  <2>2. n.done = TRUE /\ n.a = m.a /\ n.b = m.b /\ n.stack = m.stack
    BY <1>9, ActIs
  <2> HIDE DEF u, n
  <2>3. /\ u.regs = s.regs /\ u.mem = s.mem /\ u.ip = s.ip + 1 /\ u.steps = s.steps
        /\ u.halted = TRUE
    BY <2>1, AdvanceIs DEF Machine
  <2>4. Mirrors(u, n, high)
    BY <2>2, <2>3 DEF Mirrors, Read
  <2>5. QED
    BY <1>9, <2>2, <2>3, <2>4
<1>10. CASE i.op = "nop"
  <2>1. u = Advance(s) /\ n = m
    BY <1>10 DEF Execute, Act
  <2> HIDE DEF u, n
  <2>2. u.regs = s.regs /\ u.mem = s.mem /\ u.ip = s.ip + 1 /\ u.steps = s.steps /\ u.halted = s.halted
    BY <2>1, AdvanceIs
  <2>3. Mirrors(u, n, high)
    BY <2>1, <2>2 DEF Mirrors, Read
  <2>4. QED
    BY <1>10, <2>1, <2>2, <2>3
<1>11. QED
  BY <1>1, <1>3, <1>4, <1>6, <1>7, <1>8, <1>9, <1>10

\* Before its limit the emulator does what the processor does.
LEMMA Lockstep ==
  ASSUME NEW program \in Seq(Instruction), NEW max \in Nat, Runs(program, max),
         NEW k \in 0..Len(program), k <= max
  PROVE  InStep(Rounds(program, max)[k], Cpus(program)[k], k, Top + Len(program), max)
<1> DEFINE L == Len(program)
           R == Rounds(program, max)
           C == Cpus(program)
           high == Top + L
           M == {j \in 0..L : j <= max => InStep(R[j], C[j], j, high, max)}
<1>1. L \in Nat /\ DOMAIN program = 1..L /\ \A j \in 1..L : program[j] \in Instruction
  OBVIOUS
<1>2. /\ R \in [0..(L + 1) -> Machine] /\ R[0] = Start
      /\ \A j \in 1..(L + 1) : R[j] = Round(R[j-1], program, max)
  BY RoundsAre
<1>3. /\ C \in [0..L -> Processor] /\ C[0] = PowerOn(program)
      /\ \A j \in 1..L : C[j] = IF C[j-1].done THEN C[j-1] ELSE Act(C[j-1], program[j])
      /\ \A j \in 0..L : Deep(C[j], j, L)
  BY CpusAre
<1>4. high \in Words /\ Top \in Int
  <2>1. Top \in Nat
    BY WordsAre
  <2>2. QED
    BY <1>1, <2>1, HalfAssumption DEF Runs, Words
<1>5. /\ \A j \in 1..L : Decoded(program[j])
      /\ \A j \in 0..L : R[j].regs["a"] < Half /\ R[j].regs["b"] < Half
      /\ (Top - L)..(high - 1) \subseteq Cells
  <2>1. \A j \in 1..L : Decoded(program[j])
    BY <1>1 DEF Runs
  <2>2. (Top - L)..(high - 1) \subseteq Cells
    BY <1>1, <1>4 DEF Runs
  <2>3. \A j \in 0..L : R[j].regs["a"] < Half /\ R[j].regs["b"] < Half
    BY DEF Runs
  <2>4. QED
    BY <2>1, <2>2, <2>3
<1>6. 0 \in M
  <2>1. 0 \in 0..L
    BY <1>1
  <2> DEFINE zeros == [n \in 1..Len(program) |-> 0]
  <2>2. C[0] = [a |-> 0, b |-> 0, stack |-> zeros, done |-> FALSE]
    BY <1>3 DEF PowerOn
  <2>3. C[0].a = 0 /\ C[0].b = 0 /\ C[0].done = FALSE /\ C[0].stack = zeros
    BY <2>2
  <2>4. Len(zeros) = L /\ \A j \in 1..L : zeros[j] = 0
    BY <1>1
  <2> HIDE DEF C, zeros
  <2>5. R[0].regs["sp"] = high - Len(C[0].stack)
    BY <1>1, <1>4, <1>2, <2>3, <2>4, StartIs
  <2>6. \A j \in 1..Len(C[0].stack) : Read(R[0], high - j) = C[0].stack[j]
    BY <1>1, <1>4, <1>2, <2>3, <2>4, StartIs
  <2>7. Mirrors(R[0], C[0], high)
    BY <1>2, <2>3, <2>5, <2>6, StartIs DEF Mirrors
  <2>8. InStep(R[0], C[0], 0, high, max)
    BY <1>2, <2>3, <2>7, StartIs DEF InStep
  <2>9. QED
    BY <2>1, <2>8
<1>7. ASSUME NEW j \in 1..L, j - 1 \in M PROVE j \in M
  <2> DEFINE s == R[j-1]
             t == R[j]
             m == C[j-1]
             n == C[j]
             i == program[j]
             u == Execute(s, i)
  <2>1. SUFFICES ASSUME j <= max PROVE InStep(t, n, j, high, max)
    BY <1>1
  <2>2. InStep(s, m, j - 1, high, max) /\ j - 1 < max
    BY <1>1, <1>7, <2>1
  <2>3. /\ s \in Machine /\ m \in Processor /\ i \in Instruction /\ Decoded(i)
        /\ t = Round(s, program, max)
        /\ n = IF m.done THEN m ELSE Act(m, i)
        /\ t.regs["a"] < Half /\ t.regs["b"] < Half
        /\ s.regs["a"] < Half /\ s.regs["b"] < Half
    <3>1. j \in 0..L /\ j - 1 \in 0..L /\ j \in 1..(L + 1) /\ j - 1 \in 0..(L + 1)
      BY <1>1
    <3> HIDE DEF L, R, C
    <3>2. QED
      BY <1>1, <1>2, <1>3, <1>5, <3>1
  <2>4. Len(m.stack) \in Nat /\ Len(m.stack) > 0 /\ Len(m.stack) \in (L - (j - 1))..(L + (j - 1))
    <3>1. m.stack \in Seq(Words)
      BY <2>3, ProcessorParts
    <3>2. j - 1 \in 0..L
      BY <1>1
    <3>3. Deep(m, j - 1, L)
      BY <1>3, <3>2
    <3> HIDE DEF L, m
    <3>4. QED
      BY <1>1, <3>1, <3>3 DEF Deep
  <2>5. s.halted \in BOOLEAN /\ s.ip \in Nat /\ s.steps \in Int /\ m.done \in BOOLEAN
    BY <2>3, Parts, ProcessorParts
  <2>6. high - Len(m.stack) - 1 \in Cells
    <3>1. high - Len(m.stack) - 1 \in (Top - L)..(high - 1)
      <4> DEFINE d == Len(m.stack)
      <4>1. d \in Nat /\ d <= L + (j - 1) /\ j <= L /\ j \in Int
        BY <1>1, <2>4
      <4> HIDE DEF L, d
      <4>2. high - d - 1 \in (Top - L)..(high - 1)
        BY <1>1, <1>4, <4>1
      <4>3. QED
        BY <4>2 DEF d
    <3>2. QED
      BY <1>5, <3>1
  <2> HIDE DEF R, C, L, high, s, t, m, n, i
  <2>7. CASE m.done
    BY <2>2, <2>3, <2>7 DEF InStep, Round
  <2>8. CASE ~m.done
    <3>1. s.ip = j /\ s.steps = j - 1 /\ s.halted = FALSE
      BY <1>1, <2>2, <2>8 DEF InStep
    <3>2. t = Step(s, program, max)
      BY <2>2, <2>3, <3>1 DEF Round
    <3>3. s.ip \in DOMAIN program /\ program[s.ip] = i
      BY <1>1, <3>1 DEF i
    <3>4. LET v == Step(s, program, max)
          IN  /\ u \in Machine /\ v \in Machine
              /\ v.regs = u.regs /\ v.mem = u.mem /\ v.ip = u.ip /\ v.steps = u.steps + 1
              /\ v.halted <=> u.halted \/ u.steps + 1 >= max
      BY <2>3, <3>3, StepIs, ZenonT(60)
    <3>5. /\ u \in Machine /\ t \in Machine
          /\ t.regs = u.regs /\ t.mem = u.mem /\ t.ip = u.ip /\ t.steps = u.steps + 1
          /\ t.halted <=> u.halted \/ u.steps + 1 >= max
      BY <3>2, <3>4
    <3>6. n = Act(m, i)
      BY <2>3, <2>8
    <3>7. /\ Mirrors(u, n, high) /\ u.ip = s.ip + 1 /\ u.steps = s.steps
          /\ IF i.op = "ret" THEN u.halted = TRUE /\ n.done = TRUE
             ELSE u.halted = s.halted /\ n.done = m.done
      <4>1. Mirrors(s, m, high)
        BY <2>2 DEF InStep
      <4>2. u.regs["a"] < Half /\ u.regs["b"] < Half
        BY <2>3, <3>5
      <4>3. LET v == Execute(s, i)
                w == Act(m, i)
            IN  /\ Mirrors(v, w, high) /\ v.ip = s.ip + 1 /\ v.steps = s.steps
                /\ IF i.op = "ret" THEN v.halted = TRUE /\ w.done = TRUE
                   ELSE v.halted = s.halted /\ w.done = m.done
        BY <1>4, <2>3, <2>4, <2>6, <4>1, <4>2, InstructionAlike
      <4>4. QED
        BY <3>6, <4>3
    <3> HIDE DEF u
    <3>8. Mirrors(t, n, high)
      BY <3>5, <3>7 DEF Mirrors, Read
    <3>9. t.steps = j /\ t.ip = j + 1
      BY <3>1, <3>5, <3>7
    <3>10. t.halted \in BOOLEAN /\ u.halted \in BOOLEAN
      BY <3>5, Parts
    <3>11. CASE i.op = "ret"
      BY <3>5, <3>7, <3>10, <3>11, <3>8 DEF InStep
    <3>12. CASE i.op # "ret"
      BY <3>1, <3>7, <3>12, <3>5, <3>10, <2>8, <3>8, <3>9 DEF InStep
    <3>13. QED
      BY <3>11, <3>12
  <2>9. QED
    BY <2>5, <2>7, <2>8
<1>8. \A j \in 0..L : j \in M
  <2> HIDE DEF M, L
  <2>1. QED
    BY <1>1, <1>6, <1>7, InductionUpto
<1>9. QED
  BY <1>8

\* A machine that has halted or come to its limit stays as it is.
LEMMA Stays ==
  ASSUME NEW program \in Seq(Instruction), NEW max \in Nat, NEW k \in 0..Len(program),
         LET s == Rounds(program, max)[k] IN s.halted = TRUE \/ s.steps >= max
  PROVE  Run(program, max) = Rounds(program, max)[k]
<1> DEFINE L == Len(program)
           R == Rounds(program, max)
           M == {j \in 0..(L + 1) : j >= k => R[j] = R[k]}
<1>1. L \in Nat /\ L + 1 \in Nat /\ k \in 0..L /\ L + 1 \in 0..(L + 1)
  OBVIOUS
<1>2. \A j \in 1..(L + 1) : R[j] = Round(R[j-1], program, max)
  BY RoundsAre
<1>3. R[k].halted = TRUE \/ R[k].steps >= max
  OBVIOUS
<1> HIDE DEF R
<1>4. 0 \in M
  BY <1>1
<1>5. ASSUME NEW j \in 1..(L + 1), j - 1 \in M PROVE j \in M
  <2> SUFFICES ASSUME j >= k PROVE R[j] = R[k]
    BY <1>1
  <2>1. CASE j = k
    BY <2>1
  <2>2. CASE j # k
    BY <1>1, <2>2, <1>5, <1>2, <1>3 DEF Round
  <2>3. QED
    BY <2>1, <2>2
<1>6. \A j \in 0..(L + 1) : j \in M
  <2> HIDE DEF M, L
  <2>1. QED
    BY <1>1, <1>4, <1>5, InductionUpto
<1>7. R[L + 1] = R[k]
  BY <1>1, <1>6
<1>8. QED
  BY <1>7 DEF R, Run

\* A run of decoded instructions ends as the processor does.
LEMMA RunIsExact ==
  ASSUME NEW program \in Seq(Instruction), NEW max \in Nat, Runs(program, max)
  PROVE  Run(program, max).regs["a"] = Cpu(program, max).a
         /\ Run(program, max).regs["b"] = Cpu(program, max).b
         /\ Run(program, max).regs["sp"] = Top - (Len(Cpu(program, max).stack) - Len(program))
<1> DEFINE L == Len(program)
           k == IF L < max THEN L ELSE max
           R == Rounds(program, max)
           C == Cpus(program)
           s == Run(program, max)
<1>1. L \in Nat /\ k \in 0..L /\ k <= max /\ (k = max \/ (k = L /\ L < max))
  OBVIOUS
<1>2. InStep(R[k], C[k], k, Top + L, max)
  BY <1>1, Lockstep
<1>3. Cpu(program, max) = C[k]
  BY DEF Cpu
<1>4. R[k] \in Machine /\ R[L + 1] = Round(R[L], program, max) /\ s = R[L + 1]
  <2>1. k \in 0..(L + 1) /\ L + 1 \in 1..(L + 1) /\ (L + 1) - 1 = L
    BY <1>1
  <2>2. QED
    BY <2>1, RoundsAre DEF Run
<1>5. s.regs = R[k].regs
  <2>1. CASE R[k].halted = TRUE \/ R[k].steps >= max
    BY <1>1, <2>1, Stays
  <2>2. CASE ~(R[k].halted = TRUE \/ R[k].steps >= max)
    <3> HIDE DEF R, C, L, k, s
    <3>1. R[k].halted \in BOOLEAN
      BY <1>4, Parts
    <3>2. ~C[k].done
      BY <1>2, <2>2 DEF InStep
    <3>3. R[k].ip = k + 1 /\ R[k].steps = k
      BY <1>2, <3>2 DEF InStep
    <3>4. k = L
      BY <1>1, <2>2, <3>3
    <3>5. s = Step(R[k], program, max)
      BY <1>4, <2>2, <3>1, <3>4 DEF Round
    <3>6. R[k].ip \notin DOMAIN program
      BY <3>3, <3>4 DEF L
    <3>7. LET t == Step(R[k], program, max) IN t.regs = R[k].regs
      BY <1>4, <3>6, StepIs
    <3>8. QED
      BY <3>5, <3>7
  <2>3. QED
    BY <2>1, <2>2
<1>6. C[k].stack \in Seq(Words)
  BY <1>1, CpusAre, ProcessorParts
<1>7. Top \in Int
  BY WordsAre
<1> HIDE DEF R, C, k, s
<1>8. s.regs["a"] = C[k].a /\ s.regs["b"] = C[k].b /\ s.regs["sp"] = (Top + L) - Len(C[k].stack)
  BY <1>2, <1>5 DEF InStep, Mirrors
<1>9. (Top + L) - Len(C[k].stack) = Top - (Len(C[k].stack) - L)
  BY <1>1, <1>6, <1>7
<1>10. QED
  BY <1>3, <1>8, <1>9 DEF s

\* The emulator is faithful on every program.
LEMMA MachineHolds ==
  ASSUME NEW program \in Seq(Instruction), NEW max \in Nat
  PROVE  MachineFaithful(program, max)
<1> DEFINE s == Run(program, max)
           cpu == Cpu(program, max)
<1>1. /\ s.halted \/ s.steps = max
      /\ s.steps <= max /\ s.steps <= Len(program) /\ s.ip <= s.steps + 1
  BY RunEnds
<1>2. ASSUME Runs(program, max)
      PROVE  /\ s.regs["a"] = cpu.a /\ s.regs["b"] = cpu.b
             /\ s.regs["sp"] = Top - (Len(cpu.stack) - Len(program))
             /\ \A a \in 0..1 : EmulateResult(program, max, ClaimedA(a)) =
                                  IF a = cpu.a THEN "verified" ELSE "refuted"
  <2>1. /\ s.regs["a"] = cpu.a /\ s.regs["b"] = cpu.b
        /\ s.regs["sp"] = Top - (Len(cpu.stack) - Len(program))
    BY <1>2, RunIsExact
  <2>2. ASSUME NEW a \in 0..1
        PROVE  EmulateResult(program, max, ClaimedA(a)) = IF a = cpu.a THEN "verified" ELSE "refuted"
    <3> DEFINE claim == ClaimedA(a)
    <3>1. /\ claim.placed = TRUE /\ claim.observe = FALSE
          /\ claim.expect = [r \in {"a"} |-> a]
      BY DEF ClaimedA
    <3>2. DOMAIN claim.expect = {"a"} /\ claim.expect["a"] = a
      BY <3>1
    <3> HIDE DEF claim, s
    <3>3. EmulateResult(program, max, claim) = IF s.regs["a"] = a THEN "verified" ELSE "refuted"
      BY <3>1, <3>2 DEF EmulateResult, s
    <3>4. QED
      BY <2>1, <3>3 DEF claim
  <2>3. QED
    BY <2>1, <2>2
<1>3. QED
  BY <1>1, <1>2 DEF MachineFaithful, Runs

\* EmulatorExact holds of every program, limit and width: a run ends within
\* its limit, and the registers that emulate_result claims are judged by are
\* the processor's, if the program is decoded and stays within its bounds.
THEOREM EmulatorTheorem == Spec => []EmulatorExact
<1>1. Asked => EmulatorExact
  <2> SUFFICES ASSUME Asked, op = "emulate" PROVE MachineFaithful(arg[1], arg[2])
    BY DEF EmulatorExact
  <2>1. arg[1] \in Seq(Instruction) /\ arg[2] \in Nat
    BY EmulationsAssumption DEF Asked
  <2>2. QED
    BY <2>1, MachineHolds
<1>2. QED
  BY <1>1, AskedInvariant, PTL

-----------------------------------------------------------------------------
(***************************************************************************)
(* Tests of equivalence agree with its proofs.                              *)
(***************************************************************************)
\* The powers of two, and what a word holds.
LEMMA PowersDefined ==
  /\ Pow2 \in [Nat -> Nat \ {0}]
  /\ Pow2[0] = 1
  /\ \A n \in Nat : Pow2[n + 1] = 2 * Pow2[n]
<1> DEFINE T == Nat \ {0}
           depth == [n \in Nat |-> n]
           node(n, f) == IF n = 0 THEN 1 ELSE 2 * f[n - 1]
           body == [p \in Nat \X [Nat -> T] |-> node(p[1], p[2])]
<1>1. \A n \in Nat, f \in [Nat -> T] : node(n, f) \in T
  <2>1. ASSUME NEW n \in Nat, NEW f \in [Nat -> T], n # 0 PROVE 2 * f[n - 1] \in T
    BY <2>1
  <2>2. QED
    BY <2>1
<1>2. \A n \in Nat, f \in [Nat -> T] : body[<<n, f>>] = node(n, f)
  OBVIOUS
<1>3. body \in [Nat \X [Nat -> T] -> T]
  BY <1>1
<1>4. Contracts(Nat, depth, T, body)
  <2>1. ASSUME NEW n \in Nat, NEW f \in [Nat -> T], NEW g \in [Nat -> T],
               \A m \in Nat : depth[m] < depth[n] => f[m] = g[m]
        PROVE  node(n, f) = node(n, g)
    BY <2>1
  <2>2. ASSUME NEW n \in Nat, NEW f \in [Nat -> T], NEW g \in [Nat -> T],
               \A m \in Nat : depth[m] < depth[n] => f[m] = g[m]
        PROVE  body[<<n, f>>] = body[<<n, g>>]
    <3> HIDE DEF node, body, T
    <3>1. QED
      BY <1>2, <2>1, <2>2
  <2> HIDE DEF body, T, depth
  <2>3. QED
    BY <2>2 DEF Contracts
<1>5. PICK f \in [Nat -> T] : Recurs(Nat, body, f)
  <2>1. depth \in [Nat -> Nat] /\ 1 \in T
    OBVIOUS
  <2> HIDE DEF depth, body, T
  <2>2. QED
    BY <1>3, <1>4, <2>1, Recursion
<1>6. f = [n \in Nat |-> node(n, f)]
  <2>1. \A n \in Nat : f[n] = node(n, f)
    <3> HIDE DEF node, body
    <3>1. QED
      BY <1>2, <1>5 DEF Recurs
  <2> HIDE DEF node
  <2>2. QED
    BY <2>1
<1>7. Pow2 = [n \in Nat |-> node(n, Pow2)]
  <2>1. Pow2 = CHOOSE p : p = [n \in Nat |-> node(n, p)]
    BY DEF Pow2
  <2> HIDE DEF node
  <2>2. QED
    BY <1>6, <2>1
<1>8. \A n \in Nat : Pow2[n] = node(n, Pow2)
  <2> HIDE DEF node
  <2>1. QED
    BY <1>7
<1>9. \A n \in Nat : Pow2[n] \in T
  <2> DEFINE S == {n \in Nat : Pow2[n] \in T}
  <2>1. 0 \in S
    BY <1>8
  <2>2. ASSUME NEW n \in Nat, n \in S PROVE n + 1 \in S
    <3>1. Pow2[n] \in Nat /\ Pow2[n] # 0
      BY <2>2
    <3>2. Pow2[n + 1] = 2 * Pow2[n]
      BY <1>8
    <3>3. QED
      BY <3>1, <3>2
  <2>3. \A n \in Nat : n \in S
    <3> HIDE DEF S
    <3>1. QED
      BY <2>1, <2>2, Induction
  <2>4. QED
    BY <2>3
<1>10. ASSUME NEW n \in Nat PROVE Pow2[n + 1] = 2 * Pow2[n]
  BY <1>8
<1>11. Pow2 \in [Nat -> T]
  <2> HIDE DEF T, node
  <2>1. QED
    BY <1>7, <1>9
<1>12. QED
  BY <1>8, <1>10, <1>11

\* A power is the product of those of two parts of its exponent.
LEMMA PowersMultiply ==
  \A m, n \in Nat : Pow2[m + n] = Pow2[m] * Pow2[n]
<1> SUFFICES ASSUME NEW m \in Nat PROVE \A n \in Nat : Pow2[m + n] = Pow2[m] * Pow2[n]
  OBVIOUS
<1> DEFINE S == {n \in Nat : Pow2[m + n] = Pow2[m] * Pow2[n]}
<1>1. 0 \in S
  BY PowersDefined
<1>2. ASSUME NEW n \in Nat, n \in S PROVE n + 1 \in S
  <2>1. Pow2[m] \in Nat /\ Pow2[n] \in Nat /\ Pow2[m + n] = Pow2[m] * Pow2[n]
    BY <1>2, PowersDefined
  <2>2. Pow2[(m + n) + 1] = 2 * Pow2[m + n] /\ Pow2[n + 1] = 2 * Pow2[n]
    BY PowersDefined
  <2>3. (m + n) + 1 = m + (n + 1)
    OBVIOUS
  <2>4. 2 * (Pow2[m] * Pow2[n]) = Pow2[m] * (2 * Pow2[n])
    BY <2>1
  <2>5. Pow2[m + (n + 1)] = Pow2[m] * Pow2[n + 1]
    BY <2>1, <2>2, <2>3, <2>4
  <2>6. QED
    BY <2>5
<1>3. \A n \in Nat : n \in S
  <2> HIDE DEF S
  <2>1. QED
    BY <1>1, <1>2, Induction
<1>4. QED
  BY <1>3

-----------------------------------------------------------------------------
(***************************************************************************)
(* Expressions: what is computed of one is computed of its operands.        *)
(***************************************************************************)
\* What holds of an expression when it holds of its operands holds of all.
LEMMA ExprInduction ==
  ASSUME NEW T, \A e \in Expr : (~ Leaf(e) => e.a \in T) /\ (Binary(e) => e.b \in T) => e \in T
  PROVE  \A e \in Expr : e \in T
<1> DEFINE S == {n \in Nat : \A e \in Expr : Depth(e) < n => e \in T}
<1>1. 0 \in S
  BY ExprAssumption
<1>2. ASSUME NEW n \in Nat, n \in S PROVE n + 1 \in S
  <2>1. ASSUME NEW e \in Expr, Depth(e) < n + 1 PROVE e \in T
    <3>1. ASSUME NEW f \in Expr, Depth(f) < Depth(e) PROVE f \in T
      BY ExprAssumption, <2>1, <3>1, <1>2
    <3>2. (~ Leaf(e) => e.a \in Expr /\ Depth(e.a) < Depth(e))
          /\ (Binary(e) => e.b \in Expr /\ Depth(e.b) < Depth(e))
      BY ExprAssumption
    <3>3. QED
      BY <3>1, <3>2
  <2>2. QED
    BY <2>1
<1>3. \A n \in Nat : n \in S
  <2> HIDE DEF S
  <2>1. QED
    BY <1>1, <1>2, Induction
<1>4. ASSUME NEW e \in Expr PROVE e \in T
  BY ExprAssumption, <1>3
<1>5. QED
  BY <1>4

\* Recursion over expressions, by their depth.
LEMMA ExprRecursion ==
  ASSUME NEW T, T # {}, NEW body \in [Expr \X [Expr -> T] -> T], Locally(T, body)
  PROVE  \E f \in [Expr -> T] : Recurs(Expr, body, f)
<1> DEFINE depth == [e \in Expr |-> Depth(e)]
<1>1. depth \in [Expr -> Nat]
  BY ExprAssumption
<1>2. Contracts(Expr, depth, T, body)
  <2>1. ASSUME NEW e \in Expr, NEW f \in [Expr -> T], NEW g \in [Expr -> T],
               \A r \in Expr : depth[r] < depth[e] => f[r] = g[r]
        PROVE  body[<<e, f>>] = body[<<e, g>>]
    <3>1. (~ Leaf(e) => e.a \in Expr /\ depth[e.a] < depth[e])
          /\ (Binary(e) => e.b \in Expr /\ depth[e.b] < depth[e])
      BY ExprAssumption
    <3>2. AgreeBelow(e, f, g)
      <4> HIDE DEF depth
      <4>1. QED
        BY <2>1, <3>1 DEF AgreeBelow
    <3>3. QED
      BY <3>2 DEF Locally
  <2> HIDE DEF depth
  <2>2. QED
    BY <2>1 DEF Contracts
<1> HIDE DEF depth
<1>3. QED
  BY <1>1, <1>2, Recursion

\* An expression is one of three sorts, and of one only.
LEMMA ExprSorts ==
  ASSUME NEW e \in Expr
  PROVE  /\ Leaf(e) \/ Unary(e) \/ Binary(e)
         /\ ~ (Leaf(e) /\ Unary(e)) /\ ~ (Leaf(e) /\ Binary(e)) /\ ~ (Unary(e) /\ Binary(e))
         /\ Leaf(e) => e.op = "x" \/ (e.op = "n" /\ e.n \in Nat)
         /\ ~ Leaf(e) => e.a \in Expr
         /\ Binary(e) => e.b \in Expr
<1>1. Leaf(e) \/ Unary(e) \/ Binary(e)
  BY ExprAssumption
<1>2. ~ (Leaf(e) /\ Unary(e)) /\ ~ (Leaf(e) /\ Binary(e)) /\ ~ (Unary(e) /\ Binary(e))
  BY DEF Leaf, Unary, Binary
<1>3. Leaf(e) => e.op = "x" \/ (e.op = "n" /\ e.n \in Nat)
  BY ExprAssumption DEF Leaf
<1>4. QED
  BY <1>1, <1>2, <1>3, ExprAssumption

\* What there is of a value that is one.
LEMMA MaybeIntIs ==
  ASSUME NEW v \in MaybeInt, v # <<>>
  PROVE  v[1] \in Int /\ v = <<v[1]>>
BY DEF MaybeInt

\* A value that is one.
LEMMA SomeInt ==
  ASSUME NEW i \in Int
  PROVE  <<i>> \in MaybeInt /\ <<i>> # <<>> /\ <<i>>[1] = i
BY DEF MaybeInt

\* Python's operators give integers.
LEMMA PyOpType ==
  ASSUME NEW e \in Expr, NEW a \in Int, NEW b \in Int, ~ Leaf(e),
         e.op = "//" => b # 0, e.op \in {"<<", ">>"} => b \in Nat
  PROVE  PyOp(e.op, a, b) \in Int
<1> DEFINE o == e.op
<1>1. Unary(e) \/ Binary(e)
  BY ExprSorts
<1>2. o \in {"~", "neg", "+", "-", "*", "//", "<<", ">>"}
  BY <1>1 DEF Unary, Binary
<1>3. CASE o \in {"~", "neg", "+", "-", "*"}
  BY <1>3 DEF PyOp
<1>4. CASE o = "//"
  BY <1>4 DEF PyOp
<1>5. CASE o \in {"<<", ">>"}
  BY <1>5, PowersDefined DEF PyOp
<1>6. QED
  BY <1>2, <1>3, <1>4, <1>5

\* Each node is computed from what its operands come to.
LEMMA EvalNodeLocal ==
  ASSUME NEW e \in Expr, NEW x, NEW f, NEW g, AgreeBelow(e, f, g)
  PROVE  EvalNode(e, x, f) = EvalNode(e, x, g)
<1>1. CASE Leaf(e)
  BY <1>1, ExprSorts DEF EvalNode
<1>2. CASE Unary(e)
  BY <1>2, ExprSorts DEF AgreeBelow, EvalNode
<1>3. CASE Binary(e)
  BY <1>3, ExprSorts DEF AgreeBelow, EvalNode
<1>4. QED
  BY <1>1, <1>2, <1>3, ExprSorts

\* So do the bits.
LEMMA BitNodeLocal ==
  ASSUME NEW e \in Expr, NEW x, NEW f, NEW g, AgreeBelow(e, f, g)
  PROVE  BitNode(e, x, f) = BitNode(e, x, g)
<1>1. CASE Leaf(e)
  BY <1>1, ExprSorts DEF BitNode
<1>2. CASE Unary(e)
  BY <1>2, ExprSorts DEF AgreeBelow, Unary, BitNode
<1>3. CASE Binary(e)
  BY <1>3, ExprSorts DEF AgreeBelow, BitNode
<1>4. QED
  BY <1>1, <1>2, <1>3, ExprSorts

\* So does what divides.
LEMMA DividesNodeLocal ==
  ASSUME NEW e \in Expr, NEW f, NEW g, AgreeBelow(e, f, g)
  PROVE  DividesNode(e, f) = DividesNode(e, g)
BY DEF DividesNode, AgreeBelow

\* So does what shifts within a word.
LEMMA TameNodeLocal ==
  ASSUME NEW e \in Expr, NEW x, NEW f, NEW g, AgreeBelow(e, f, g)
  PROVE  TameNode(e, x, f) = TameNode(e, x, g)
<1>1. CASE Leaf(e)
  BY <1>1 DEF TameNode
<1>2. CASE Unary(e)
  BY <1>2, ExprSorts DEF AgreeBelow, TameNode
<1>3. CASE Binary(e)
  BY <1>3, ExprSorts DEF AgreeBelow, TameNode
<1>4. QED
  BY <1>1, <1>2, <1>3, ExprSorts

\* The value of an expression whose operands have values is one, or none.
LEMMA EvalNodeType ==
  ASSUME NEW e \in Expr, NEW x \in Int, NEW f \in [Expr -> MaybeInt]
  PROVE  EvalNode(e, x, f) \in MaybeInt
<1>0. <<>> \in MaybeInt /\ <<0>> \in MaybeInt
  BY DEF MaybeInt
<1>1. CASE Leaf(e)
  <2>1. e.op = "x" \/ (e.op = "n" /\ e.n \in Int)
    BY <1>1, ExprSorts
  <2>2. CASE e.op = "x"
    BY <2>2, SomeInt DEF EvalNode
  <2>3. CASE e.op = "n"
    BY <2>3, <2>1, SomeInt DEF EvalNode
  <2>4. QED
    BY <2>1, <2>2, <2>3
<1>2. CASE Unary(e)
  <2>1. f[e.a] \in MaybeInt /\ ~ Leaf(e) /\ e.op \notin {"//", "<<", ">>", "x", "n"}
    BY <1>2, ExprSorts DEF Unary
  <2>2. EvalNode(e, x, f) = IF f[e.a] = <<>> THEN <<>> ELSE <<PyOp(e.op, f[e.a][1], 0)>>
    BY <1>2, <2>1 DEF EvalNode
  <2>3. ASSUME f[e.a] # <<>> PROVE <<PyOp(e.op, f[e.a][1], 0)>> \in MaybeInt
    <3> DEFINE a == f[e.a][1]
    <3>1. a \in Int
      BY <2>1, <2>3, MaybeIntIs
    <3>2. PyOp(e.op, a, 0) \in Int
      <4> HIDE DEF a
      <4>1. e.op # "//" /\ e.op \notin {"<<", ">>"} /\ 0 \in Int
        BY <2>1
      <4>2. QED
        BY <2>1, <3>1, <4>1, PyOpType
    <3>3. QED
      BY <3>2, SomeInt
  <2>4. QED
    BY <1>0, <2>2, <2>3
<1>3. CASE Binary(e)
  <2> DEFINE a == f[e.a]
             b == f[e.b]
             v == EvalNode(e, x, f)
  <2>1. a \in MaybeInt /\ b \in MaybeInt /\ ~ Leaf(e) /\ ~ Unary(e) /\ e.op \notin {"x", "n"}
    BY <1>3, ExprSorts DEF Binary
  <2>2. v = IF b = <<>> \/ (e.op = "//" /\ b[1] = 0) THEN <<>>
            ELSE IF e.op \in {"<<", ">>"} /\ b[1] \notin 0..(ShiftMax - 1) THEN <<0>>
            ELSE IF a = <<>> THEN <<>> ELSE <<PyOp(e.op, a[1], b[1])>>
    BY <2>1 DEF EvalNode
  <2> HIDE DEF a, b, v
  <2>3. ASSUME a # <<>>, b # <<>>, ~ (e.op = "//" /\ b[1] = 0),
               ~ (e.op \in {"<<", ">>"} /\ b[1] \notin 0..(ShiftMax - 1))
        PROVE  <<PyOp(e.op, a[1], b[1])>> \in MaybeInt
    <3>1. a[1] \in Int /\ b[1] \in Int
      BY <2>1, <2>3, MaybeIntIs
    <3>2. e.op \in {"<<", ">>"} => b[1] \in Nat
      BY <2>3, BitsAssumption
    <3>3. PyOp(e.op, a[1], b[1]) \in Int
      BY <2>1, <2>3, <3>1, <3>2, PyOpType
    <3>4. QED
      BY <3>3, SomeInt
  <2>4. v \in MaybeInt
    BY <1>0, <2>2, <2>3
  <2>5. QED
    BY <2>4 DEF v
<1>4. QED
  BY <1>1, <1>2, <1>3, ExprSorts

\* What the value of an expression is, from those of its operands.
LEMMA EvalDefined ==
  ASSUME NEW x \in Int
  PROVE  \E v \in [Expr -> MaybeInt] : /\ \A e \in Expr : v[e] = EvalNode(e, x, v)
                                       /\ \A e \in Expr : EvalExpr(e, x) = v[e]
<1> DEFINE body == [p \in Expr \X [Expr -> MaybeInt] |-> EvalNode(p[1], x, p[2])]
<1>1. body \in [Expr \X [Expr -> MaybeInt] -> MaybeInt]
  BY EvalNodeType
<1>2. \A e \in Expr, f \in [Expr -> MaybeInt] : body[<<e, f>>] = EvalNode(e, x, f)
  OBVIOUS
<1> HIDE DEF body
<1>3. Locally(MaybeInt, body)
  BY <1>2, EvalNodeLocal DEF Locally
<1>4. <<>> \in MaybeInt
  BY DEF MaybeInt
<1>5. PICK f \in [Expr -> MaybeInt] : Recurs(Expr, body, f)
  BY <1>1, <1>3, <1>4, ExprRecursion
<1>6. \A e \in Expr : f[e] = EvalNode(e, x, f)
  BY <1>2, <1>5 DEF Recurs
<1>7. f = [e \in Expr |-> EvalNode(e, x, f)]
  BY <1>6
<1> DEFINE v == CHOOSE w : w = [e \in Expr |-> EvalNode(e, x, w)]
<1>8. v = [e \in Expr |-> EvalNode(e, x, v)]
  BY <1>7
<1>9. \A e \in Expr : EvalExpr(e, x) = v[e]
  BY DEF EvalExpr
<1> HIDE DEF v
<1>10. \A e \in Expr : v[e] = EvalNode(e, x, v)
  BY <1>8
<1>11. \A e \in Expr : v[e] = f[e]
  <2> DEFINE T == {e \in Expr : v[e] = f[e]}
  <2>1. ASSUME NEW e \in Expr, ~ Leaf(e) => e.a \in T, Binary(e) => e.b \in T PROVE e \in T
    BY <2>1, <1>6, <1>10, EvalNodeLocal DEF AgreeBelow
  <2>2. \A e \in Expr : e \in T
    <3> HIDE DEF T
    <3>1. QED
      BY <2>1, ExprInduction
  <2>3. QED
    BY <2>2
<1>12. v = f
  BY <1>7, <1>8, <1>11
<1>13. QED
  BY <1>6, <1>9, <1>12

\* There are 2^Bits bit-vectors.
LEMMA ModulusIs == Modulus \in Nat \ {0} /\ Modulus = Pow2[Bits]
BY PowersDefined, BitsAssumption DEF Modulus

\* Any integer has its bit-vector.
LEMMA Wraps ==
  ASSUME NEW k \in Int
  PROVE  k % Modulus \in Vectors
<1>1. \A m \in Nat \ {0} : k % m \in 0..(m - 1)
  OBVIOUS
<1>2. QED
  BY <1>1, ModulusIs DEF Vectors

\* Dividing makes no number larger.
LEMMA QuotientSmall ==
  ASSUME NEW a \in Nat, NEW d \in Nat \ {0}
  PROVE  a \div d \in 0..a
<1> DEFINE q == a \div d
<1>1. q \in Int /\ a = d * q + (a % d) /\ a % d \in 0..(d - 1)
  OBVIOUS
<1> HIDE DEF q
<1>2. q >= 0
  <2>1. SUFFICES ASSUME q <= -1 PROVE FALSE
    BY <1>1
  <2>2. d * q <= d * (-1)
    BY <1>1, <2>1
  <2>3. QED
    BY <1>1, <2>2
<1>3. q <= a
  BY <1>1, <1>2
<1>4. q \in 0..a
  BY <1>1, <1>2, <1>3
<1>5. QED
  BY <1>4 DEF q

\* The bits of an expression are a bit-vector.
LEMMA BitNodeType ==
  ASSUME NEW e \in Expr, NEW x \in Vectors, NEW f,
         ~ Leaf(e) => f[e.a] \in Vectors, Binary(e) => f[e.b] \in Vectors
  PROVE  BitNode(e, x, f) \in Vectors
<1>1. CASE Leaf(e)
  <2>1. e.op = "x" \/ (e.op = "n" /\ e.n \in Nat)
    BY <1>1, ExprSorts
  <2>2. CASE e.op = "x"
    BY <2>2 DEF BitNode
  <2>3. CASE e.op = "n"
    BY <2>1, <2>3, Wraps DEF BitNode
  <2>4. QED
    BY <2>1, <2>2, <2>3
<1>2. CASE Unary(e)
  <2> DEFINE k == PyOp(e.op, f[e.a], 0)
  <2>1. f[e.a] \in Int /\ ~ Leaf(e)
    BY <1>2, ExprSorts, ModulusIs DEF Vectors
  <2>2. e.op \in {"~", "neg"}
    BY <1>2 DEF Unary
  <2>3. k \in Int
    BY <2>1, <2>2 DEF PyOp
  <2>4. BitNode(e, x, f) = k % Modulus
    BY <1>2, <2>2 DEF BitNode
  <2> HIDE DEF k
  <2>5. QED
    BY <2>3, <2>4, Wraps
<1>3. CASE Binary(e)
  <2> DEFINE a == f[e.a]
             b == f[e.b]
             v == BitNode(e, x, f)
  <2>1. a \in Vectors /\ b \in Vectors /\ a \in Nat /\ b \in Nat /\ 0 \in Vectors
    BY <1>3, ExprSorts, ModulusIs DEF Vectors
  <2>2. e.op \in {"+", "-", "*", "//", "<<", ">>"} /\ ~ Leaf(e) /\ ~ Unary(e)
    BY <1>3, ExprSorts DEF Binary
  <2>3. CASE e.op \in {"+", "-", "*"}
    <3>1. v = PyOp(e.op, a, b) % Modulus
      BY <2>2, <2>3 DEF BitNode
    <3> HIDE DEF a, b, v
    <3>2. PyOp(e.op, a, b) \in Int
      BY <2>1, <2>3 DEF PyOp
    <3>3. v \in Vectors
      BY <3>1, <3>2, Wraps
    <3>4. QED
      BY <3>3 DEF v
  <2>4. CASE e.op = "//"
    BY <2>1, <2>2, <2>4 DEF BitNode
  <2>5. CASE e.op = "<<"
    <3>1. v = IF b < Bits THEN (a * Pow2[b]) % Modulus ELSE 0
      BY <2>5 DEF BitNode
    <3> HIDE DEF a, b, v
    <3>2. a * Pow2[b] \in Int
      BY <2>1, PowersDefined
    <3>3. v \in Vectors
      BY <2>1, <3>1, <3>2, Wraps
    <3>4. QED
      BY <3>3 DEF v
  <2>6. CASE e.op = ">>"
    <3>1. v = IF b < Bits THEN a \div Pow2[b] ELSE 0
      BY <2>6 DEF BitNode
    <3> HIDE DEF a, b, v
    <3>2. a \div Pow2[b] \in 0..a
      BY <2>1, PowersDefined, QuotientSmall
    <3>3. v \in Vectors
      BY <2>1, <3>1, <3>2, ModulusIs DEF Vectors
    <3>4. QED
      BY <3>3 DEF v
  <2>7. QED
    BY <2>2, <2>3, <2>4, <2>5, <2>6
<1>4. QED
  BY <1>1, <1>2, <1>3, ExprSorts

\* What the bits of an expression are, from those of its operands.
LEMMA BitsDefined ==
  ASSUME NEW x \in Vectors
  PROVE  \E v : /\ \A e \in Expr : v[e] = BitNode(e, x, v)
                /\ \A e \in Expr : BitVec(e, x) = v[e]
                /\ \A e \in Expr : v[e] \in Vectors
<1> DEFINE body == [p \in Expr \X [Expr -> Vectors] |-> BitNode(p[1], x, p[2])]
<1>1. body \in [Expr \X [Expr -> Vectors] -> Vectors]
  <2>1. \A e \in Expr, f \in [Expr -> Vectors] : BitNode(e, x, f) \in Vectors
    <3>1. ASSUME NEW e \in Expr, NEW f \in [Expr -> Vectors] PROVE BitNode(e, x, f) \in Vectors
      BY ExprSorts, BitNodeType
    <3>2. QED
      BY <3>1
  <2>2. QED
    BY <2>1
<1>2. \A e \in Expr, f \in [Expr -> Vectors] : body[<<e, f>>] = BitNode(e, x, f)
  OBVIOUS
<1> HIDE DEF body
<1>3. Locally(Vectors, body)
  BY <1>2, BitNodeLocal DEF Locally
<1>4. PICK f \in [Expr -> Vectors] : Recurs(Expr, body, f)
  BY <1>1, <1>3, ExprRecursion
<1>5. f = [e \in Expr |-> BitNode(e, x, f)]
  BY <1>2, <1>4 DEF Recurs
<1> DEFINE v == CHOOSE w : w = [e \in Expr |-> BitNode(e, x, w)]
<1>6. v = [e \in Expr |-> BitNode(e, x, v)]
  BY <1>5
<1>7. \A e \in Expr : BitVec(e, x) = v[e]
  BY DEF BitVec
<1> HIDE DEF v
<1>8. \A e \in Expr : v[e] = BitNode(e, x, v)
  BY <1>6
<1>9. \A e \in Expr : v[e] \in Vectors
  <2> DEFINE T == {e \in Expr : v[e] \in Vectors}
  <2>1. ASSUME NEW e \in Expr, ~ Leaf(e) => e.a \in T, Binary(e) => e.b \in T PROVE e \in T
    BY <2>1, <1>8, BitNodeType
  <2>2. \A e \in Expr : e \in T
    <3> HIDE DEF T
    <3>1. QED
      BY <2>1, ExprInduction
  <2>3. QED
    BY <2>2
<1>10. QED
  BY <1>7, <1>8, <1>9

\* Whether an expression divides, from its operands.
LEMMA DividesDefined ==
  \A e \in Expr : Divides(e) = (~ Leaf(e) /\ \/ e.op = "//" \/ Divides(e.a)
                                             \/ Binary(e) /\ Divides(e.b))
<1> DEFINE body == [p \in Expr \X [Expr -> BOOLEAN] |-> DividesNode(p[1], p[2])]
<1>1. body \in [Expr \X [Expr -> BOOLEAN] -> BOOLEAN]
  BY DEF DividesNode
<1>2. \A e \in Expr, f \in [Expr -> BOOLEAN] : body[<<e, f>>] = DividesNode(e, f)
  OBVIOUS
<1> HIDE DEF body
<1>3. Locally(BOOLEAN, body)
  BY <1>2, DividesNodeLocal DEF Locally
<1>4. PICK f \in [Expr -> BOOLEAN] : Recurs(Expr, body, f)
  BY <1>1, <1>3, ExprRecursion
<1>5. f = [e \in Expr |-> DividesNode(e, f)]
  BY <1>2, <1>4 DEF Recurs
<1> DEFINE v == CHOOSE w : w = [e \in Expr |-> DividesNode(e, w)]
<1>6. v = [e \in Expr |-> DividesNode(e, v)]
  BY <1>5
<1>7. \A e : Divides(e) = v[e]
  BY DEF Divides
<1> HIDE DEF v
<1>8. \A e \in Expr : v[e] = DividesNode(e, v)
  BY <1>6
<1>9. QED
  BY <1>7, <1>8 DEF DividesNode

\* Whether an expression is tame, from its operands.
LEMMA TameDefined ==
  ASSUME NEW x
  PROVE  \E v : /\ \A e \in Expr : v[e] = TameNode(e, x, v)
                /\ \A e : Tame(e, x) = v[e]
<1> DEFINE body == [p \in Expr \X [Expr -> BOOLEAN] |-> TameNode(p[1], x, p[2])]
<1>1. body \in [Expr \X [Expr -> BOOLEAN] -> BOOLEAN]
  BY DEF TameNode
<1>2. \A e \in Expr, f \in [Expr -> BOOLEAN] : body[<<e, f>>] = TameNode(e, x, f)
  OBVIOUS
<1> HIDE DEF body
<1>3. Locally(BOOLEAN, body)
  BY <1>2, TameNodeLocal DEF Locally
<1>4. PICK f \in [Expr -> BOOLEAN] : Recurs(Expr, body, f)
  BY <1>1, <1>3, ExprRecursion
<1>5. f = [e \in Expr |-> TameNode(e, x, f)]
  BY <1>2, <1>4 DEF Recurs
<1> DEFINE v == CHOOSE w : w = [e \in Expr |-> TameNode(e, x, w)]
<1>6. v = [e \in Expr |-> TameNode(e, x, v)]
  BY <1>5
<1>7. \A e : Tame(e, x) = v[e]
  BY DEF Tame
<1> HIDE DEF v
<1>8. \A e \in Expr : v[e] = TameNode(e, x, v)
  BY <1>6
<1>9. QED
  BY <1>7, <1>8

\* Quotient and remainder are the ones there are.
LEMMA ModIs ==
  ASSUME NEW m \in Nat \ {0}, NEW a \in Int, NEW q \in Int, NEW r \in 0..(m - 1), a = m * q + r
  PROVE  a % m = r /\ a \div m = q
<1> DEFINE p == a \div m
           s == a % m
<1>1. p \in Int /\ s \in 0..(m - 1) /\ a = m * p + s
  OBVIOUS
<1> HIDE DEF p, s
<1>2. m * (p - q) = r - s
  BY <1>1
<1>3. ~ (p - q >= 1)
  <2>1. SUFFICES ASSUME p - q >= 1 PROVE FALSE
    OBVIOUS
  <2>2. m * (p - q) >= m * 1
    BY <1>1, <2>1
  <2>3. QED
    BY <1>1, <1>2, <2>2
<1>4. ~ (p - q <= -1)
  <2>1. SUFFICES ASSUME p - q <= -1 PROVE FALSE
    OBVIOUS
  <2>2. m * (p - q) <= m * (-1)
    BY <1>1, <2>1
  <2>3. QED
    BY <1>1, <1>2, <2>2
<1>5. p = q /\ s = r
  BY <1>1, <1>2, <1>3, <1>4
<1>6. QED
  BY <1>5 DEF p, s

\* Such numbers leave the same remainder.
LEMMA SameMod ==
  ASSUME NEW a, NEW b, Same(a, b)
  PROVE  a % Modulus = b % Modulus
<1> DEFINE q == b \div Modulus
           r == b % Modulus
<1>1. PICK k \in Int : a \in Int /\ b \in Int /\ a = b + Modulus * k
  BY DEF Same
<1>2. q \in Int /\ r \in 0..(Modulus - 1) /\ b = Modulus * q + r
  BY <1>1, ModulusIs
<1> HIDE DEF q, r
<1>3. a = Modulus * (q + k) + r
  BY <1>1, <1>2, ModulusIs
<1>4. q + k \in Int
  BY <1>1, <1>2
<1> DEFINE M == Modulus
<1>5. a % M = r
  <2>1. M \in Nat \ {0} /\ a \in Int /\ r \in 0..(M - 1) /\ a = M * (q + k) + r
    BY <1>1, <1>2, <1>3, ModulusIs
  <2> HIDE DEF M
  <2>2. QED
    BY <1>4, <2>1, ModIs
<1>6. QED
  BY <1>5 DEF r

\* A number is the same as its remainder.
LEMMA SameAsMod ==
  ASSUME NEW a \in Int
  PROVE  Same(a, a % Modulus)
<1> DEFINE q == a \div Modulus
           r == a % Modulus
<1>0. \A m \in Nat \ {0} : a % m \in 0..(m - 1) /\ a \div m \in Int
                            /\ a = m * (a \div m) + (a % m)
  OBVIOUS
<1>m. q \in Int /\ r \in 0..(Modulus - 1) /\ a = Modulus * q + r
  BY <1>0, ModulusIs
<1> HIDE DEF q, r
<1>1. q \in Int /\ r \in Int /\ a = r + Modulus * q
  BY <1>m, ModulusIs
<1>2. Same(a, r)
  BY <1>1 DEF Same
<1>3. QED
  BY <1>2 DEF r

\* Sums, differences and complements of the same are the same.
LEMMA SameSums ==
  ASSUME NEW a, NEW b, NEW c, NEW d, Same(a, c), Same(b, d)
  PROVE  Same(a + b, c + d) /\ Same(a - b, c - d) /\ Same(-a, -c) /\ Same(-a - 1, -c - 1)
<1> DEFINE M == Modulus
<1>1. PICK j \in Int : a \in Int /\ c \in Int /\ a = c + M * j
  BY DEF Same
<1>2. PICK k \in Int : b \in Int /\ d \in Int /\ b = d + M * k
  BY DEF Same
<1>3. M \in Int
  BY ModulusIs
<1> HIDE DEF M
<1>4. M * (j + k) = M * j + M * k /\ M * (j - k) = M * j - M * k /\ M * (-j) = -(M * j)
  BY <1>1, <1>2, <1>3
<1>5. j + k \in Int /\ j - k \in Int /\ -j \in Int /\ M * j \in Int /\ M * k \in Int
  BY <1>1, <1>2, <1>3
<1>6. a + b = (c + d) + M * (j + k)
  BY <1>1, <1>2, <1>4, <1>5
<1>7. a - b = (c - d) + M * (j - k)
  BY <1>1, <1>2, <1>4, <1>5
<1>8. -a = -c + M * (-j) /\ -a - 1 = (-c - 1) + M * (-j)
  BY <1>1, <1>4, <1>5
<1>9. a + b \in Int /\ c + d \in Int /\ a - b \in Int /\ c - d \in Int
      /\ -a \in Int /\ -c \in Int /\ -a - 1 \in Int /\ -c - 1 \in Int
  BY <1>1, <1>2
<1>10. QED
  BY <1>5, <1>6, <1>7, <1>8, <1>9 DEF Same, M

\* So are products.
LEMMA SameProducts ==
  ASSUME NEW a, NEW b, NEW c, NEW d, Same(a, c), Same(b, d)
  PROVE  Same(a * b, c * d)
<1> DEFINE M == Modulus
<1>1. PICK j \in Int : a \in Int /\ c \in Int /\ a = c + M * j
  BY DEF Same
<1>2. PICK k \in Int : b \in Int /\ d \in Int /\ b = d + M * k
  BY DEF Same
<1>3. M \in Int
  BY ModulusIs
<1> HIDE DEF M
<1> DEFINE q == j * d + k * c + M * (j * k)
<1>4. q \in Int
  BY <1>1, <1>2, <1>3
<1>5. a * b = c * d + M * q
  BY <1>1, <1>2, <1>3
<1>6. a * b \in Int /\ c * d \in Int
  BY <1>1, <1>2
<1> HIDE DEF q
<1>7. QED
  BY <1>4, <1>5, <1>6 DEF Same, M

\* A number that fits is its own remainder.
LEMMA FitsMod ==
  ASSUME NEW a \in Vectors
  PROVE  a % Modulus = a /\ a \in Nat
<1>1. a \in 0..(Modulus - 1) /\ a \in Int /\ a \in Nat /\ 0 \in Int
  BY ModulusIs DEF Vectors
<1>2. a = Modulus * 0 + a
  BY <1>1, ModulusIs
<1>3. QED
  BY <1>1, <1>2, ModulusIs, ModIs

\* Shifted by the width of the word or more, nothing is left.
LEMMA ShiftedOut ==
  ASSUME NEW a \in Int, NEW b \in Nat, b >= Bits
  PROVE  /\ (a * Pow2[b]) % Modulus = 0
         /\ a \in Vectors => a \div Pow2[b] = 0
<1>1. b - Bits \in Nat /\ Bits \in Nat /\ Bits + (b - Bits) = b
  BY BitsAssumption
<1> DEFINE k == Pow2[b - Bits]
           M == Modulus
           d == Pow2[b]
<1>2. k \in Nat /\ k >= 1 /\ M \in Nat \ {0} /\ d \in Nat \ {0}
  BY <1>1, PowersDefined, ModulusIs
<1>3. d = M * k
  BY <1>1, PowersMultiply, ModulusIs
<1> HIDE DEF k, d
<1>4. (a * d) % M = 0
  <2>1. a * d = M * (a * k) + 0
    BY <1>2, <1>3
  <2>2. a * k \in Int /\ a * d \in Int /\ 0 \in 0..(M - 1)
    BY <1>2
  <2> HIDE DEF M
  <2>3. QED
    BY <1>2, <2>1, <2>2, ModIs
<1>5. ASSUME a \in Vectors PROVE a \div d = 0
  BY <1>2, <1>5, <1>3, ModIs DEF Vectors
<1>6. QED
  BY <1>4, <1>5 DEF d

\* A value that is an integer, with its bits.
LEMMA AgreesIs ==
  ASSUME NEW i \in Int, NEW w \in Vectors, i % Modulus = w
  PROVE  Agrees(<<i>>, w)
BY SomeInt DEF Agrees

\* Wrapping operators commute with taking the remainder.
LEMMA WrappedOps ==
  ASSUME NEW o \in Wrapping, NEW a \in Int, NEW b \in Int,
         NEW c, NEW d, a % Modulus = c, b % Modulus = d
  PROVE  /\ PyOp(o, a, b) \in Int
         /\ PyOp(o, a, b) % Modulus = PyOp(o, c, d) % Modulus
<1> USE DEF Wrapping
<1>1. Same(a, c) /\ Same(b, d)
  BY SameAsMod
<1>2. Same(PyOp(o, a, b), PyOp(o, c, d))
  <2>1. CASE o \in {"~", "neg", "+", "-"}
    BY <1>1, SameSums, <2>1 DEF PyOp
  <2>2. CASE o = "*"
    BY <1>1, SameProducts, <2>2 DEF PyOp
  <2>3. QED
    BY <2>1, <2>2
<1>3. PyOp(o, a, b) % Modulus = PyOp(o, c, d) % Modulus
  BY <1>2, SameMod
<1>4. PyOp(o, a, b) \in Int
  BY <1>2 DEF Same
<1>5. QED
  BY <1>3, <1>4

\* A left shift of values that agree, its count being what it is in Python.
LEMMA LeftShifts ==
  ASSUME NEW a \in Int, NEW c \in Vectors, a % Modulus = c, NEW b \in Vectors
  PROVE  /\ a * Pow2[b] \in Int
         /\ (a * Pow2[b]) % Modulus = IF b < Bits THEN (c * Pow2[b]) % Modulus ELSE 0
<1> DEFINE d == Pow2[b]
<1>1. b \in Nat /\ c \in Nat /\ d \in Int
  BY FitsMod, PowersDefined
<1> HIDE DEF d
<1>2. Same(a, c)
  BY SameAsMod
<1>3. Same(d, d)
  BY <1>1, ModulusIs DEF Same
<1>4. Same(a * d, c * d)
  BY <1>2, <1>3, SameProducts
<1>5. a * d \in Int /\ (a * d) % Modulus = (c * d) % Modulus
  BY <1>4, SameMod DEF Same
<1>6. b >= Bits => (a * d) % Modulus = 0
  BY <1>1, ShiftedOut DEF d
<1>7. b < Bits \/ b >= Bits
  BY <1>1, BitsAssumption
<1>8. ~ (b < Bits) => b >= Bits
  BY <1>7
<1>9. a * d \in Int /\ (a * d) % Modulus = IF b < Bits THEN (c * d) % Modulus ELSE 0
  BY <1>5, <1>6, <1>8
<1>10. QED
  BY <1>9 DEF d

\* A right shift of a value that fits, by one that does.
LEMMA RightShifts ==
  ASSUME NEW a \in Vectors, NEW b \in Vectors
  PROVE  /\ a \div Pow2[b] \in Vectors
         /\ a \div Pow2[b] = IF b < Bits THEN a \div Pow2[b] ELSE 0
<1> DEFINE q == a \div Pow2[b]
<1>1. b \in Nat /\ a \in Nat
  BY FitsMod
<1>2. q \in 0..a
  BY <1>1, PowersDefined, QuotientSmall
<1>3. b >= Bits => q = 0
  BY <1>1, ShiftedOut
<1> HIDE DEF q
<1>4. q \in Vectors
  BY <1>1, <1>2, ModulusIs DEF Vectors
<1>5. ~ (b < Bits) => b >= Bits
  BY <1>1, BitsAssumption
<1>6. q \in Vectors /\ q = IF b < Bits THEN q ELSE 0
  BY <1>3, <1>4, <1>5
<1>7. QED
  BY <1>6 DEF q

\* One step of the evaluation: operands that agree make values that agree.
LEMMA NodesAgree ==
  ASSUME NEW e \in Expr, NEW x \in Vectors, NEW v, NEW w, e.op # "//",
         ~ Leaf(e) => Agrees(v[e.a], w[e.a]),
         Binary(e) => Agrees(v[e.b], w[e.b]),
         e.op = ">>" => v[e.a][1] \in Vectors /\ v[e.b][1] \in Vectors,
         e.op = "<<" => v[e.b][1] \in Vectors
  PROVE  Agrees(EvalNode(e, x, v), BitNode(e, x, w))
<1>1. CASE Leaf(e)
  <2>1. e.op = "x" \/ (e.op = "n" /\ e.n \in Nat)
    BY <1>1, ExprSorts
  <2>2. CASE e.op = "x"
    BY <2>2, FitsMod, AgreesIs DEF EvalNode, BitNode
  <2>3. CASE e.op = "n"
    BY <2>3, <2>1, Wraps, AgreesIs DEF EvalNode, BitNode
  <2>4. QED
    BY <2>1, <2>2, <2>3
<1>2. CASE Unary(e)
  <2> DEFINE a == v[e.a]
             c == w[e.a]
             o == e.op
             i == a[1]
  <2>1. Agrees(a, c) /\ o \in {"~", "neg"} /\ 0 \in Int
    BY <1>2, ExprSorts DEF Unary
  <2>2. EvalNode(e, x, v) = IF a = <<>> THEN <<>> ELSE <<PyOp(o, i, 0)>>
    BY <1>2, <2>1 DEF EvalNode
  <2>3. BitNode(e, x, w) = PyOp(o, c, 0) % Modulus
    BY <1>2, <2>1 DEF BitNode
  <2> HIDE DEF a, c, o
  <2>4. i \in Int /\ i % Modulus = c /\ a # <<>>
    BY <2>1, MaybeIntIs DEF Agrees
  <2> HIDE DEF i
  <2> DEFINE z == 0 % Modulus
  <2>w. o \in Wrapping
    BY <2>1 DEF Wrapping
  <2>5. PyOp(o, i, 0) \in Int /\ PyOp(o, i, 0) % Modulus = PyOp(o, c, z) % Modulus
    <3> HIDE DEF z
    <3>1. 0 % Modulus = z
      BY DEF z
    <3>2. QED
      BY <2>1, <2>w, <2>4, <3>1, WrappedOps
  <2>6. PyOp(o, c, z) = PyOp(o, c, 0)
    BY <2>1 DEF PyOp
  <2>7. PyOp(o, c, 0) % Modulus \in Vectors
    BY <2>5, <2>6, Wraps
  <2>8. Agrees(<<PyOp(o, i, 0)>>, PyOp(o, c, 0) % Modulus)
    BY <2>5, <2>6, <2>7, AgreesIs
  <2>9. QED
    BY <2>2, <2>3, <2>4, <2>8
<1>3. CASE Binary(e)
  <2> DEFINE a == v[e.a]
             b == v[e.b]
             c == w[e.a]
             d == w[e.b]
             o == e.op
             i == a[1]
             j == b[1]
             value == EvalNode(e, x, v)
             bits == BitNode(e, x, w)
  <2>1. Agrees(a, c) /\ Agrees(b, d) /\ o \in {"+", "-", "*", "<<", ">>"}
        /\ ~ Leaf(e) /\ ~ Unary(e)
    BY <1>3, ExprSorts DEF Binary
  <2>2. value = IF b = <<>> \/ (o = "//" /\ j = 0) THEN <<>>
                ELSE IF o \in {"<<", ">>"} /\ j \notin 0..(ShiftMax - 1) THEN <<0>>
                ELSE IF a = <<>> THEN <<>> ELSE <<PyOp(o, i, j)>>
    BY <2>1 DEF EvalNode
  <2>3. (o = ">>" => i \in Vectors /\ j \in Vectors) /\ (o = "<<" => j \in Vectors)
    OBVIOUS
  <2>4. /\ o = "<<" => bits = IF d < Bits THEN (c * Pow2[d]) % Modulus ELSE 0
        /\ o = ">>" => bits = IF d < Bits THEN c \div Pow2[d] ELSE 0
        /\ o \in {"+", "-", "*"} => bits = PyOp(o, c, d) % Modulus
    BY <2>1 DEF BitNode
  <2> HIDE DEF a, b, c, d, o
  <2>5. i \in Int /\ i % Modulus = c /\ a # <<>> /\ j \in Int /\ j % Modulus = d /\ b # <<>>
        /\ c \in Vectors /\ d \in Vectors
    BY <2>1, MaybeIntIs DEF Agrees
  <2> SUFFICES Agrees(value, bits)
    OBVIOUS
  <2> HIDE DEF i, j, value, bits
  <2>6. 0 \in Vectors /\ 0 % Modulus = 0 /\ Agrees(<<0>>, 0)
    BY ModulusIs, FitsMod, AgreesIs DEF Vectors
  <2>7. CASE o \in {"+", "-", "*"}
    <3>1. value = <<PyOp(o, i, j)>> /\ bits = PyOp(o, c, d) % Modulus
      BY <2>2, <2>4, <2>5, <2>7
    <3>2. PyOp(o, i, j) \in Int /\ PyOp(o, i, j) % Modulus = PyOp(o, c, d) % Modulus
      <4>1. o \in Wrapping
        BY <2>7 DEF Wrapping
      <4>2. QED
        BY <2>5, <4>1, WrappedOps
    <3>3. PyOp(o, c, d) % Modulus \in Vectors
      BY <3>2, Wraps
    <3>4. QED
      BY <3>1, <3>2, <3>3, AgreesIs
  <2>8. CASE o = "<<"
    <3>1. j \in Vectors /\ d = j /\ j \in Nat
      BY <2>3, <2>5, <2>8, FitsMod
    <3>2. CASE j \in 0..(ShiftMax - 1)
      <4>1. value = <<i * Pow2[j]>>
        BY <2>2, <2>5, <2>8, <3>2 DEF PyOp
      <4>2. i * Pow2[j] \in Int /\ (i * Pow2[j]) % Modulus = bits
        BY <2>4, <2>5, <2>8, <3>1, LeftShifts
      <4>3. bits \in Vectors
        BY <4>2, Wraps
      <4>4. QED
        BY <4>1, <4>2, <4>3, AgreesIs
    <3>3. CASE j \notin 0..(ShiftMax - 1)
      BY <2>2, <2>5, <2>8, <3>3, <3>1, BitsAssumption, <2>4, <2>6
    <3>4. QED
      BY <3>2, <3>3
  <2>9. CASE o = ">>"
    <3>1. j \in Vectors /\ d = j /\ j \in Nat /\ i \in Vectors /\ c = i
      BY <2>3, <2>5, <2>9, FitsMod
    <3>2. CASE j \in 0..(ShiftMax - 1)
      <4>1. value = <<i \div Pow2[j]>>
        BY <2>2, <2>5, <2>9, <3>2 DEF PyOp
      <4>2. i \div Pow2[j] \in Vectors /\ i \div Pow2[j] = bits
        BY <2>4, <2>9, <3>1, RightShifts
      <4>3. bits \in Vectors /\ bits \in Int /\ bits % Modulus = bits
        BY <4>2, FitsMod
      <4>4. Agrees(<<bits>>, bits)
        BY <4>3, AgreesIs
      <4>5. QED
        BY <4>1, <4>2, <4>4
    <3>3. CASE j \notin 0..(ShiftMax - 1)
      BY <2>2, <2>5, <2>9, <3>3, <3>1, BitsAssumption, <2>4, <2>6
    <3>4. QED
      BY <3>2, <3>3
  <2>10. QED
    BY <2>1, <2>7, <2>8, <2>9
<1>4. QED
  BY <1>1, <1>2, <1>3, ExprSorts

\* Where it divides nowhere and is tame, an expression has a value, and it is
\* what its bits are.
LEMMA ValuesAgree ==
  ASSUME NEW x \in Vectors
  PROVE  \A e \in Expr : ~ Divides(e) /\ Tame(e, x) => Agrees(EvalExpr(e, x), BitVec(e, x))
<1>1. x \in Int
  BY FitsMod
<1>2. PICK v \in [Expr -> MaybeInt] : /\ \A e \in Expr : v[e] = EvalNode(e, x, v)
                                      /\ \A e \in Expr : EvalExpr(e, x) = v[e]
  BY <1>1, EvalDefined
<1>3. PICK w : /\ \A e \in Expr : w[e] = BitNode(e, x, w)
               /\ \A e \in Expr : BitVec(e, x) = w[e]
               /\ \A e \in Expr : w[e] \in Vectors
  BY BitsDefined
<1>4. PICK t : /\ \A e \in Expr : t[e] = TameNode(e, x, t)
               /\ \A e : Tame(e, x) = t[e]
  BY TameDefined
<1> DEFINE T == {e \in Expr : ~ Divides(e) /\ Tame(e, x) => Agrees(v[e], w[e])}
<1>5. ASSUME NEW e \in Expr, ~ Leaf(e) => e.a \in T, Binary(e) => e.b \in T PROVE e \in T
  <2> SUFFICES ASSUME ~ Divides(e), Tame(e, x) PROVE Agrees(v[e], w[e])
    OBVIOUS
  <2>1. ~ Leaf(e) => e.op # "//" /\ ~ Divides(e.a) /\ (Binary(e) => ~ Divides(e.b))
    BY DividesDefined
  <2>2. e.op # "//"
    BY <2>1, ExprSorts DEF Leaf
  <2>3. TameNode(e, x, t)
    BY <1>4
  <2>4. ~ Leaf(e) => Tame(e.a, x)
    BY <1>4, <2>3, ExprSorts DEF TameNode
  <2>5. Binary(e) => Tame(e.b, x)
    BY <1>4, <2>3, ExprSorts DEF TameNode
  <2>6. ~ Leaf(e) => Agrees(v[e.a], w[e.a])
    BY <1>5, <2>1, <2>4
  <2>7. Binary(e) => Agrees(v[e.b], w[e.b]) /\ Agrees(v[e.a], w[e.a])
    BY <1>5, <2>1, <2>5, <2>6, ExprSorts
  <2>8. (e.op = ">>" => v[e.a][1] \in Vectors /\ v[e.b][1] \in Vectors)
        /\ (e.op = "<<" => v[e.b][1] \in Vectors)
    <3>1. e.op \in {"<<", ">>"} => Binary(e) /\ e.a \in Expr /\ e.b \in Expr
      BY ExprSorts DEF Binary
    <3>2. e.op \in {"<<", ">>"} => EvalExpr(e.a, x) = v[e.a] /\ EvalExpr(e.b, x) = v[e.b]
      BY <1>2, <3>1
    <3>3. e.op \in {"<<", ">>"} => ~ Leaf(e) /\ ~ Unary(e)
      BY DEF Leaf, Unary
    <3>4. e.op \in {"<<", ">>"} =>
            (e.op = ">>" => EvalExpr(e.a, x)[1] \in Vectors /\ EvalExpr(e.b, x)[1] \in Vectors)
            /\ (e.op = "<<" => EvalExpr(e.b, x)[1] \in Vectors)
      BY <2>3, <3>3 DEF TameNode, Vectors
    <3>5. QED
      BY <3>2, <3>4
  <2>9. Agrees(EvalNode(e, x, v), BitNode(e, x, w))
    BY <2>2, <2>6, <2>7, <2>8, NodesAgree
  <2>10. QED
    BY <1>2, <1>3, <2>9
<1>6. \A e \in Expr : e \in T
  <2> HIDE DEF T
  <2>1. QED
    BY <1>5, ExprInduction
<1>7. QED
  BY <1>2, <1>3, <1>6

\* What the test is told of an expression is what is proved about.
LEMMA CandidatesAgree ==
  ASSUME NEW f \in Expr, NEW x \in Vectors, ~ Divides(f), Tame(f, x)
  PROVE  Candidate(f, x) = BitVec(f, x)
<1>1. Agrees(EvalExpr(f, x), BitVec(f, x))
  BY ValuesAgree
<1>2. QED
  BY <1>1 DEF Candidate, Agrees

\* When a test refutes, verifies or settles nothing.
LEMMA TestVerdictIs ==
  ASSUME NEW outputs, NEW candidates
  PROVE  /\ BehaviorVerdict(outputs, candidates) = "inconclusive" <=> Tried(outputs) = {}
         /\ BehaviorVerdict(outputs, candidates) = "refuted" <=>
              \E i \in Tried(outputs) : outputs[i] # candidates[i]
         /\ BehaviorVerdict(outputs, candidates) = "verified" <=>
              Tried(outputs) # {} /\ \A i \in Tried(outputs) : outputs[i] = candidates[i]
BY DEF BehaviorVerdict, Tried

\* ProofsSurviveTesting, of any two expressions.
LEMMA ProofsSurvive ==
  ASSUME NEW e \in Expr, NEW f \in Expr
  PROVE  ProofsSurviveTesting(e, f)
<1> DEFINE code == [i \in 1..Modulus |-> BitVec(e, i - 1)]
           cand == [i \in 1..Modulus |-> Candidate(f, i - 1)]
           verdict == BehaviorVerdict(code, cand)
           tame == \A i \in 1..Modulus : Tame(f, i - 1)
<1>1. Divides(f) => ProveVerdict(e, f) = "inconclusive"
  BY DEF ProveVerdict
<1>2. ASSUME ~ Divides(e), ~ Divides(f), tame
      PROVE  /\ ProveVerdict(e, f) = "verified" => verdict = "verified"
             /\ MaxInputs >= Modulus => (verdict = "verified" => ProveVerdict(e, f) = "verified")
  <2>1. ASSUME NEW x \in Vectors
        PROVE  /\ x + 1 \in 1..Modulus /\ (x + 1) - 1 = x
               /\ BitVec(e, x) \in Vectors /\ BitVec(e, x) # NoValue
               /\ Candidate(f, x) = BitVec(f, x)
    <3>1. x + 1 \in 1..Modulus /\ (x + 1) - 1 = x
      BY ModulusIs DEF Vectors
    <3>2. BitVec(e, x) \in Vectors
      <4>1. PICK w : /\ \A g \in Expr : BitVec(g, x) = w[g]
                     /\ \A g \in Expr : w[g] \in Vectors
        BY BitsDefined
      <4>2. QED
        BY <4>1
    <3>3. BitVec(e, x) # NoValue
      BY <3>2, FitsMod DEF NoValue
    <3>4. Tame(f, (x + 1) - 1)
      BY <1>2, <3>1
    <3>5. Candidate(f, x) = BitVec(f, x)
      BY <1>2, <3>1, <3>4, CandidatesAgree
    <3>6. QED
      BY <3>1, <3>2, <3>3, <3>5
  <2>2. ASSUME NEW i \in 1..Modulus PROVE i - 1 \in Vectors
    BY ModulusIs DEF Vectors
  <2>3. \A i \in 1..Modulus : /\ code[i] = BitVec(e, i - 1) /\ code[i] # NoValue
                              /\ cand[i] = BitVec(f, i - 1)
    BY <2>1, <2>2
  <2>4. DOMAIN code = 1..Modulus
    OBVIOUS
  <2>5. 1 \in 1..Modulus
    BY ModulusIs
  <2> HIDE DEF code, cand
  <2>6. Tried(code) = {i \in 1..Modulus : i <= MaxInputs}
    BY <2>3, <2>4 DEF Tried
  <2>7. 1 \in Tried(code)
    BY <2>5, <2>6, InputsAssumption
  <2>8. ProveVerdict(e, f) = "verified" <=>
          \A x \in 0..(Modulus - 1) : BitVec(e, x) = BitVec(f, x)
    BY <1>2 DEF ProveVerdict
  <2>9. verdict = "verified" <=> \A i \in Tried(code) : code[i] = cand[i]
    BY <2>7, TestVerdictIs
  <2>10. ASSUME ProveVerdict(e, f) = "verified" PROVE verdict = "verified"
    <3>1. ASSUME NEW i \in Tried(code) PROVE code[i] = cand[i]
      BY <2>6, <2>2, <2>3, <2>8, <2>10 DEF Vectors
    <3>2. QED
      BY <2>9, <3>1
  <2>11. ASSUME MaxInputs >= Modulus, verdict = "verified" PROVE ProveVerdict(e, f) = "verified"
    <3>1. ASSUME NEW x \in Vectors PROVE BitVec(e, x) = BitVec(f, x)
      <4>1. x + 1 \in 1..Modulus /\ (x + 1) - 1 = x
        BY <2>1
      <4>2. x + 1 \in Tried(code)
        BY <2>11, <4>1, ModulusIs, InputsAssumption, <2>6
      <4>3. code[x + 1] = cand[x + 1]
        BY <2>9, <2>11, <4>2
      <4>4. QED
        BY <2>3, <4>1, <4>3
    <3>2. QED
      BY <2>8, <3>1 DEF Vectors
  <2>12. QED
    BY <2>10, <2>11
<1> HIDE DEF code, cand
<1>3. ProofsSurviveTesting(e, f) =
        (/\ Divides(f) => ProveVerdict(e, f) = "inconclusive"
         /\ ~ Divides(e) /\ ~ Divides(f) /\ tame =>
              /\ ProveVerdict(e, f) = "verified" => verdict = "verified"
              /\ MaxInputs >= Modulus => (verdict = "verified" => ProveVerdict(e, f) = "verified"))
  BY DEF ProofsSurviveTesting, code, cand
<1>4. QED
  BY <1>1, <1>2, <1>3

\* TestsHaveWitnesses, of any outputs.
LEMMA TestsWitnessed ==
  ASSUME NEW setup, NEW outputs \in Seq(Int), NEW candidates \in Seq(Int),
         Len(candidates) = Len(outputs)
  PROVE  TestsHaveWitnesses(setup, outputs, candidates)
<1> DEFINE verdict == BehaviorVerdict(outputs, candidates)
           ran == {i \in DOMAIN outputs : outputs[i] # NoValue}
           tried == Tried(outputs)
<1>1. /\ DOMAIN outputs = 1..Len(outputs) /\ Len(outputs) \in Nat
      /\ tried = {i \in ran : i <= MaxInputs}
  BY DEF Tried
<1>2. /\ verdict = "inconclusive" <=> tried = {}
      /\ verdict = "refuted" <=> \E i \in tried : outputs[i] # candidates[i]
      /\ verdict = "verified" <=> tried # {} /\ \A i \in tried : outputs[i] = candidates[i]
  BY TestVerdictIs
<1>3. \A i \in ran : i \in 1..Len(outputs)
  BY <1>1
<1> HIDE DEF tried, ran
<1>4. verdict = "verified" => \E i \in ran : outputs[i] = candidates[i]
  BY <1>1, <1>2
<1>5. verdict = "refuted" => \E i \in ran : outputs[i] # candidates[i]
  BY <1>1, <1>2
<1>6. verdict = "inconclusive" => \A i \in ran : i > MaxInputs
  BY <1>1, <1>2, <1>3, InputsAssumption
<1>7. verdict = "verified" /\ (\E i \in ran : outputs[i] # candidates[i]) =>
        Len(outputs) > MaxInputs
  <2>1. ASSUME verdict = "verified", NEW i \in ran, outputs[i] # candidates[i]
        PROVE  Len(outputs) > MaxInputs
    BY <1>2, <2>1, <1>1, <1>3, InputsAssumption
  <2>2. QED
    BY <2>1
<1>8. ~Runnable(setup) => /\ FunctionsVerdict(setup, outputs, candidates) = "inconclusive"
                          /\ ExebenchVerdict(setup, outputs, candidates) = "inconclusive"
  BY DEF FunctionsVerdict, ExebenchVerdict
<1>9. ran = DOMAIN outputs /\ Len(outputs) <= MaxInputs =>
        ExebenchVerdict(setup, outputs, candidates) = FunctionsVerdict(setup, outputs, candidates)
  <2> SUFFICES ASSUME ran = DOMAIN outputs, Len(outputs) <= MaxInputs
               PROVE  ExebenchVerdict(setup, outputs, candidates) =
                        FunctionsVerdict(setup, outputs, candidates)
    OBVIOUS
  <2>1. tried = DOMAIN outputs
    BY <1>1, InputsAssumption
  <2>2. outputs = <<>> <=> tried = {}
    BY <1>1, <2>1
  <2>3. CASE Runnable(setup)
    BY <2>3, <2>1, <2>2 DEF FunctionsVerdict, ExebenchVerdict, BehaviorVerdict, tried, Tried
  <2>4. CASE ~ Runnable(setup)
    BY <1>8, <2>4
  <2>5. QED
    BY <2>3, <2>4
<1>10. TestsHaveWitnesses(setup, outputs, candidates) =
  (/\ verdict = "verified" => \E i \in ran : outputs[i] = candidates[i]
   /\ verdict = "refuted" => \E i \in ran : outputs[i] # candidates[i]
   /\ verdict = "inconclusive" => \A i \in ran : i > MaxInputs
   /\ verdict = "verified" /\ (\E i \in ran : outputs[i] # candidates[i]) =>
        Len(outputs) > MaxInputs
   /\ ~Runnable(setup) => /\ FunctionsVerdict(setup, outputs, candidates) = "inconclusive"
                          /\ ExebenchVerdict(setup, outputs, candidates) = "inconclusive"
   /\ ran = DOMAIN outputs /\ Len(outputs) <= MaxInputs =>
        ExebenchVerdict(setup, outputs, candidates) = FunctionsVerdict(setup, outputs, candidates))
  BY DEF TestsHaveWitnesses, ran
<1> HIDE DEF verdict
<1>11. QED
  BY <1>4, <1>5, <1>6, <1>7, <1>8, <1>9, <1>10

(***************************************************************************)
(* Of two expressions proved equal no test refutes one as the other, where  *)
(* no shift saw more than a word, and tests that cover every input prove;   *)
(* verdicts of tests have their witnesses.  Python's integers and the       *)
(* proof's bit-vectors, of any width, are carried through every expression  *)
(* side by side, and agree modulo the word.                                 *)
(***************************************************************************)
THEOREM EquivalenceTheorem == Spec => []EquivalenceConsistent
<1>1. Asked => EquivalenceConsistent
  <2> SUFFICES ASSUME Asked PROVE EquivalenceConsistent
    OBVIOUS
  <2>1. op = "prove" => ProofsSurviveTesting(arg[1], arg[2])
    BY ProvingsAssumption, ProofsSurvive DEF Asked
  <2>2. op = "compare" => TestsHaveWitnesses(arg[1], arg[2], arg[3])
    BY ComparisonsAssumption, TestsWitnessed DEF Asked
  <2>3. QED
    BY <2>1, <2>2 DEF EquivalenceConsistent
<1>2. QED
  BY <1>1, AskedInvariant, PTL

(***************************************************************************)
(* Varints and dissected payloads.                                         *)
(***************************************************************************)

\* Induction over numbers from all the smaller ones.
LEMMA StrongInduction ==
  ASSUME NEW S, \A n \in Nat : (\A m \in Nat : m < n => m \in S) => n \in S
  PROVE  \A n \in Nat : n \in S
<1> DEFINE T == {n \in Nat : \A m \in Nat : m < n => m \in S}
<1>1. 0 \in T
  OBVIOUS
<1>2. ASSUME NEW n \in Nat, n \in T PROVE n + 1 \in T
  <2>1. n \in S
    BY <1>2
  <2>2. ASSUME NEW m \in Nat, m < n + 1 PROVE m \in S
    BY <2>2, <1>2, <2>1
  <2>3. QED
    BY <2>2
<1>3. \A n \in Nat : n \in T
  <2> HIDE DEF T
  <2>1. QED
    BY <1>1, <1>2, Induction
<1>4. QED
  BY <1>3

\* A power of a larger number is larger.
LEMMA PowersGrow ==
  ASSUME NEW m \in Nat, NEW n \in Nat, m <= n
  PROVE  Pow2[m] <= Pow2[n] /\ Pow2[m] \in Nat /\ Pow2[n] \in Nat /\ Pow2[m] > 0
<1>1. n - m \in Nat /\ m + (n - m) = n
  OBVIOUS
<1>2. Pow2[n] = Pow2[m] * Pow2[n - m]
  BY <1>1, PowersMultiply
<1> DEFINE a == Pow2[m]
           k == Pow2[n - m]
<1>3. a \in Nat /\ a > 0 /\ k \in Nat /\ k > 0 /\ Pow2[n] \in Nat
  BY <1>1, PowersDefined
<1> HIDE DEF a, k
<1>4. a * k >= a * 1
  BY <1>3
<1>5. a <= Pow2[n]
  BY <1>2, <1>3, <1>4 DEF a, k
<1>6. QED
  BY <1>3, <1>5 DEF a

\* Weighted digits are numbers, one for each.
LEMMA WeightedIs ==
  ASSUME NEW digits \in Seq(Nat), NEW w \in Nat
  PROVE  /\ Weighted(digits, w) \in Seq(Nat)
         /\ Len(Weighted(digits, w)) = Len(digits)
         /\ \A i \in 1..Len(digits) : /\ w * (i - 1) \in Nat
                                      /\ Weighted(digits, w)[i] = digits[i] * Pow2[w * (i - 1)]
<1> DEFINE n == Len(digits)
           s == Weighted(digits, w)
<1>1. n \in Nat /\ DOMAIN digits = 1..n
  OBVIOUS
<1>2. ASSUME NEW i \in 1..n
      PROVE  w * (i - 1) \in Nat /\ digits[i] * Pow2[w * (i - 1)] \in Nat
  <2>1. i - 1 \in Nat /\ digits[i] \in Nat
    OBVIOUS
  <2>2. w * (i - 1) \in Nat
    BY <2>1
  <2>3. Pow2[w * (i - 1)] \in Nat
    BY <2>2, PowersDefined
  <2>4. digits[i] * Pow2[w * (i - 1)] \in Nat
    BY <2>1, <2>3
  <2>5. QED
    BY <2>2, <2>4
<1>3. s = [i \in 1..n |-> digits[i] * Pow2[w * (i - 1)]]
  BY <1>1 DEF Weighted
<1> HIDE DEF n, s
<1>4. s \in Seq(Nat) /\ Len(s) = n
  BY <1>1, <1>2, <1>3
<1>5. QED
  BY <1>2, <1>3, <1>4 DEF n, s

\* Digits make a number, digit by digit.
LEMMA NumberDefined ==
  ASSUME NEW digits \in Seq(Nat), NEW w \in Nat, NEW n, n = Len(digits)
  PROVE  \E f \in [0..n -> Nat] : MakesUp(digits, w, n, f) /\ Number(digits, w) = f[n]
<1> DEFINE s == Weighted(digits, w)
<1>1. s \in Seq(Nat) /\ Len(s) = n /\ \A i \in 1..n : s[i] = digits[i] * Pow2[w * (i - 1)]
  BY WeightedIs
<1>2. Number(digits, w) = SumTo(s, n)
  BY DEF Number, Weighted
<1> HIDE DEF s
<1>3. n \in 0..Len(s)
  BY <1>1
<1>4. PICK f \in [0..n -> Nat] : Adds(s, n, f) /\ SumTo(s, n) = f[n]
  BY <1>1, <1>3, SumDefined
<1>5. MakesUp(digits, w, n, f)
  BY <1>1, <1>4 DEF Adds, MakesUp
<1>6. QED
  BY <1>2, <1>4, <1>5

\* Whatever adds up digit by digit is the number.
LEMMA NumberIs ==
  ASSUME NEW digits \in Seq(Nat), NEW w \in Nat, NEW n, n = Len(digits),
         NEW f \in [0..n -> Nat], MakesUp(digits, w, n, f)
  PROVE  Number(digits, w) = f[n]
<1> DEFINE s == Weighted(digits, w)
<1>1. s \in Seq(Nat) /\ Len(s) = n /\ \A i \in 1..n : s[i] = digits[i] * Pow2[w * (i - 1)]
  BY WeightedIs
<1>2. Number(digits, w) = SumTo(s, n)
  BY DEF Number, Weighted
<1> HIDE DEF s
<1>3. n \in 0..Len(s)
  BY <1>1
<1>4. Adds(s, n, f)
  BY <1>1 DEF Adds, MakesUp
<1>5. QED
  BY <1>1, <1>2, <1>3, <1>4, SumIs

\* A number from its lowest digit and the others.
LEMMA NumberCons ==
  ASSUME NEW d \in Nat, NEW s \in Seq(Nat), NEW w \in Nat
  PROVE  /\ Number(<<d>> \o s, w) = d + Pow2[w] * Number(s, w)
         /\ Number(s, w) \in Nat
<1> DEFINE n == Len(s)
           t == <<d>> \o s
           p == Pow2[w]
<1>1. n \in Nat /\ p \in Nat
  <2> HIDE DEF t
  <2>1. Pow2[w] \in Nat
    BY PowersDefined
  <2>2. QED
    BY <2>1
<1>2. PICK f \in [0..n -> Nat] : MakesUp(s, w, n, f) /\ Number(s, w) = f[n]
  BY NumberDefined
<1>3. t \in Seq(Nat) /\ Len(t) = n + 1 /\ t[1] = d /\ \A i \in 1..n : t[i + 1] = s[i]
  OBVIOUS
<1> DEFINE g == [i \in 0..(n + 1) |-> IF i = 0 THEN 0 ELSE d + p * f[i - 1]]
<1>4. \A i \in 1..(n + 1) : f[i - 1] \in Nat /\ p * f[i - 1] \in Nat
  <2>1. \A i \in 1..(n + 1) : i - 1 \in 0..n
    BY <1>1
  <2>2. \A i \in 1..(n + 1) : f[i - 1] \in Nat
    BY <2>1
  <2> HIDE DEF p
  <2>3. QED
    BY <1>1, <2>2
<1>5. /\ g[0] = 0 /\ \A i \in 1..(n + 1) : g[i] = d + p * f[i - 1]
      /\ g \in [0..(n + 1) -> Nat]
  <2> HIDE DEF p
  <2>1. \A i \in 0..(n + 1) : i # 0 => i \in 1..(n + 1)
    BY <1>1
  <2>2. QED
    BY <1>1, <1>4, <2>1
<1> HIDE DEF g, t, n
<1>6. MakesUp(t, w, n + 1, g)
  <2>1. ASSUME NEW i \in 1..(n + 1) PROVE g[i] = g[i - 1] + t[i] * Pow2[w * (i - 1)]
    <3>1. CASE i = 1
      <4>1. i - 1 = 0 /\ w * (i - 1) = 0
        BY <3>1
      <4>2. g[i] = d + p * f[0] /\ f[0] = 0 /\ Pow2[w * (i - 1)] = 1
        BY <1>2, <1>5, <4>1, PowersDefined DEF MakesUp
      <4>3. g[i - 1] = 0 /\ t[i] = d
        BY <1>3, <1>5, <3>1, <4>1
      <4> HIDE DEF p
      <4>4. QED
        BY <1>1, <4>2, <4>3
    <3>2. CASE i # 1
      <4> DEFINE j == i - 1
                 q == Pow2[w * (j - 1)]
      <4>1. j \in 1..n /\ j - 1 \in Nat /\ j + 1 = i
        BY <1>1, <3>2
      <4>2. f[j] = f[j - 1] + s[j] * q
        BY <1>2, <4>1 DEF MakesUp
      <4>3. t[i] = s[j] /\ s[j] \in Nat
        <5> HIDE DEF j
        <5>1. s[j] \in Nat
          BY <4>1 DEF n
        <5>2. QED
          BY <1>3, <4>1, <5>1
      <4>4. w * (j - 1) \in Nat /\ w + w * (j - 1) = w * j
        <5> HIDE DEF j
        <5>1. QED
          BY <4>1
      <4>5. Pow2[w * j] = p * q /\ q \in Nat
        BY <4>4, PowersMultiply, PowersDefined
      <4>6. i \in 1..(n + 1) /\ j \in 1..(n + 1) /\ j - 1 \in 0..n /\ i - 1 = j
        BY <1>1, <4>1
      <4> HIDE DEF p, q, j
      <4>7. g[i] = d + p * f[j] /\ g[j] = d + p * f[j - 1] /\ f[j - 1] \in Nat
        BY <1>5, <4>6
      <4>8. \A u, v \in Nat : d + p * (u + v * q) = (d + p * u) + v * (p * q)
        BY <1>1, <4>5
      <4>9. g[i] = g[j] + s[j] * (p * q)
        BY <4>2, <4>3, <4>7, <4>8
      <4>10. QED
        BY <4>3, <4>5, <4>6, <4>9
    <3>3. QED
      BY <3>1, <3>2
  <2>2. QED
    BY <1>5, <2>1 DEF MakesUp
<1>7. Number(t, w) = g[n + 1]
  BY <1>1, <1>3, <1>5, <1>6, NumberIs
<1>8. g[n + 1] = d + p * f[n]
  <2>1. n + 1 \in 1..(n + 1) /\ (n + 1) - 1 = n
    BY <1>1
  <2> HIDE DEF p
  <2>2. QED
    BY <1>5, <2>1
<1>9. f[n] \in Nat
  BY <1>1
<1>10. QED
  BY <1>2, <1>7, <1>8, <1>9 DEF t

\* Zeros on top change nothing.
LEMMA NumberPadded ==
  ASSUME NEW s \in Seq(Nat), NEW t \in Seq(Nat), NEW w \in Nat, Len(s) <= Len(t),
         \A i \in 1..Len(s) : t[i] = s[i], \A i \in (Len(s) + 1)..Len(t) : t[i] = 0
  PROVE  Number(t, w) = Number(s, w)
<1> DEFINE n == Len(s)
           m == Len(t)
<1>1. n \in Nat /\ m \in Nat /\ n <= m
  OBVIOUS
<1>2. PICK f \in [0..n -> Nat] : MakesUp(s, w, n, f) /\ Number(s, w) = f[n]
  BY NumberDefined
<1>3. (\A i \in 1..n : t[i] = s[i]) /\ (\A i \in (n + 1)..m : t[i] = 0)
  OBVIOUS
<1> DEFINE g == [i \in 0..m |-> f[IF i <= n THEN i ELSE n]]
<1> HIDE DEF n, m
<1>4. g \in [0..m -> Nat]
  BY <1>1
<1>5. (\A i \in 0..n : g[i] = f[i]) /\ (\A i \in n..m : g[i] = f[n])
  BY <1>1
<1> HIDE DEF g
<1>6. MakesUp(t, w, m, g)
  <2>1. ASSUME NEW i \in 1..m PROVE g[i] = g[i - 1] + t[i] * Pow2[w * (i - 1)]
    <3>1. i - 1 \in Nat
      OBVIOUS
    <3>2. w * (i - 1) \in Nat
      BY <3>1
    <3>3. Pow2[w * (i - 1)] \in Nat
      BY <3>2, PowersDefined
    <3>4. CASE i <= n
      <4>1. i \in 1..n /\ i \in 0..n /\ i - 1 \in 0..n
        BY <1>1, <3>4
      <4>2. QED
        BY <1>2, <1>3, <1>5, <4>1 DEF MakesUp
    <3>5. CASE i > n
      BY <1>1, <3>5, <1>3, <1>5, <3>3
    <3>6. QED
      BY <1>1, <3>4, <3>5
  <2>2. g[0] = 0
    BY <1>1, <1>2, <1>5 DEF MakesUp
  <2>3. QED
    BY <2>1, <2>2 DEF MakesUp
<1>7. Number(t, w) = g[m]
  BY <1>4, <1>6, NumberIs DEF m
<1>8. g[m] = f[n]
  BY <1>1, <1>5
<1>9. QED
  BY <1>2, <1>7, <1>8

\* The continuation bit and the bytes below it and with it.
LEMMA MoreIs ==
  /\ Group \in Nat \ {0} /\ Width \in Nat /\ More \in Nat /\ More >= 2
  /\ Pow2[Group] = More /\ Pow2[Group + 1] = 2 * More
<1>1. Group \in Nat /\ Group # 0
  BY WidthAssumption
<1>2. Group - 1 \in Nat /\ (Group - 1) + 1 = Group
  BY <1>1
<1>3. Pow2[(Group - 1) + 1] = 2 * Pow2[Group - 1] /\ Pow2[Group - 1] \in Nat /\ Pow2[Group - 1] > 0
  BY <1>2, PowersDefined
<1>4. Pow2[Group + 1] = 2 * Pow2[Group]
  BY <1>1, PowersDefined
<1>5. More = 2 * Pow2[Group - 1]
  BY <1>2, <1>3 DEF More
<1>6. QED
  BY <1>1, <1>3, <1>4, <1>5, WidthAssumption DEF More

\* The bytes, with and without the bit that says more follow.
LEMMA ByteIs ==
  /\ \A v \in Nat : v < More => v \in Byte /\ More + v \in Byte
  /\ \A b \in Byte : b \in Nat
  /\ 0 \in Byte
BY MoreIs DEF Byte

\* Bytes are numbers.
LEMMA BytesAreNumbers ==
  ASSUME NEW s \in Seq(Byte)
  PROVE  s \in Seq(Nat)
BY ByteIs

\* A number is below a product when its quotient is below the other factor.
LEMMA QuotientBelow ==
  ASSUME NEW v \in Nat, NEW d \in Nat \ {0}, NEW p \in Nat
  PROVE  v < d * p <=> v \div d < p
<1> DEFINE q == v \div d
           r == v % d
<1>1. q \in Int /\ v = d * q + r /\ r \in 0..(d - 1)
  OBVIOUS
<1> HIDE DEF q, r
<1>2. ASSUME q < p PROVE v < d * p
  BY <1>1, <1>2
<1>3. ASSUME q >= p PROVE ~ (v < d * p)
  BY <1>1, <1>3
<1>4. QED
  BY <1>1, <1>2, <1>3 DEF q

\* A number in its lowest group and the others.
LEMMA Grouped ==
  ASSUME NEW v \in Nat
  PROVE  /\ v \div More \in Nat /\ v % More \in Nat /\ v % More < More
         /\ v = (v % More) + More * (v \div More)
         /\ v >= More => v \div More < v
         /\ v < More => v % More = v
         /\ (More + (v % More)) % More = v % More
<1> DEFINE q == v \div More
           r == v % More
<1>1. More \in Nat \ {0} /\ More >= 2
  BY MoreIs
<1>2. q \in Nat
  BY <1>1, QuotientSmall
<1>3. v = More * q + r /\ r \in 0..(More - 1)
  BY <1>1
<1>4. v < More => v % More = v
  BY <1>1
<1> HIDE DEF q, r
<1>5. (More + r) % More = r
  BY <1>1, <1>3, ModIs
<1>6. ASSUME v >= More PROVE q < v
  <2>1. q >= 1
    BY <1>1, <1>2, <1>3, <1>6
  <2>2. More * q >= 2 * q
    BY <1>1, <1>2
  <2>3. More * q \in Nat
    BY <1>1, <1>2
  <2>4. QED
    BY <1>1, <1>2, <1>3, <2>1, <2>2, <2>3
<1>7. More * q \in Nat
  BY <1>1, <1>2
<1>8. QED
  BY <1>1, <1>2, <1>3, <1>4, <1>5, <1>6, <1>7 DEF q, r

\* Every number has an encoding.
LEMMA EncodedDefined ==
  /\ Encoded \in [Nat -> Seq(Byte)]
  /\ \A v \in Nat : Encoded[v] = IF v < More THEN <<v>>
                                 ELSE <<More + (v % More)>> \o Encoded[v \div More]
<1> DEFINE T == Seq(Byte)
           depth == [v \in Nat |-> v]
           node(v, f) == IF v < More THEN <<v>> ELSE <<More + (v % More)>> \o f[v \div More]
           body == [p \in Nat \X [Nat -> T] |-> node(p[1], p[2])]
<1>1. \A v \in Nat, f \in [Nat -> T] : node(v, f) \in T
  <2>1. ASSUME NEW v \in Nat, NEW f \in [Nat -> T] PROVE node(v, f) \in T
    <3>1. v < More => <<v>> \in T
      BY ByteIs
    <3>2. v \div More \in Nat /\ More + (v % More) \in Byte
      BY Grouped, ByteIs
    <3>3. f[v \div More] \in T
      BY <3>2
    <3>4. <<More + (v % More)>> \in T
      BY <3>2
    <3>5. <<More + (v % More)>> \o f[v \div More] \in T
      BY <3>3, <3>4
    <3> HIDE DEF T
    <3>6. QED
      BY <3>1, <3>5
  <2>2. QED
    BY <2>1
<1>2. \A v \in Nat, f \in [Nat -> T] : body[<<v, f>>] = node(v, f)
  OBVIOUS
<1>3. body \in [Nat \X [Nat -> T] -> T]
  BY <1>1
<1>4. Contracts(Nat, depth, T, body)
  <2>1. ASSUME NEW v \in Nat, NEW f \in [Nat -> T], NEW g \in [Nat -> T],
               \A m \in Nat : depth[m] < depth[v] => f[m] = g[m]
        PROVE  node(v, f) = node(v, g)
    <3>1. v < More \/ v >= More
      BY MoreIs
    <3>2. v >= More => v \div More \in Nat /\ v \div More < v
      BY Grouped
    <3>3. v >= More => f[v \div More] = g[v \div More]
      BY <2>1, <3>2
    <3>4. QED
      BY <3>1, <3>3
  <2>2. ASSUME NEW v \in Nat, NEW f \in [Nat -> T], NEW g \in [Nat -> T],
               \A m \in Nat : depth[m] < depth[v] => f[m] = g[m]
        PROVE  body[<<v, f>>] = body[<<v, g>>]
    <3> HIDE DEF node, body, T
    <3>1. QED
      BY <1>2, <2>1, <2>2
  <2> HIDE DEF body, T, depth
  <2>3. QED
    BY <2>2 DEF Contracts
<1>5. PICK f \in [Nat -> T] : Recurs(Nat, body, f)
  <2>1. depth \in [Nat -> Nat] /\ T # {}
    <3>1. <<>> \in T
      OBVIOUS
    <3>2. QED
      BY <3>1
  <2> HIDE DEF depth, body, T
  <2>2. QED
    BY <1>3, <1>4, <2>1, Recursion
<1>6. f = [v \in Nat |-> node(v, f)]
  <2>1. \A v \in Nat : f[v] = node(v, f)
    <3> HIDE DEF node, body
    <3>1. QED
      BY <1>2, <1>5 DEF Recurs
  <2> HIDE DEF node
  <2>2. QED
    BY <2>1
<1>7. Encoded = [v \in Nat |-> node(v, Encoded)]
  <2>1. Encoded = CHOOSE e : e = [v \in Nat |-> node(v, e)]
    BY DEF Encoded
  <2> HIDE DEF node
  <2>2. QED
    BY <1>6, <2>1
<1>8. \A v \in Nat : Encoded[v] = node(v, Encoded)
  <2> HIDE DEF node
  <2>1. QED
    BY <1>7
<1>9. \A v \in Nat : Encoded[v] \in T
  <2> DEFINE S == {v \in Nat : Encoded[v] \in T}
  <2>1. ASSUME NEW v \in Nat, \A m \in Nat : m < v => m \in S PROVE v \in S
    <3>1. v < More \/ v >= More
      BY MoreIs
    <3>2. ASSUME v < More PROVE Encoded[v] \in T
      <4>1. Encoded[v] = <<v>>
        BY <1>8, <3>2
      <4>2. QED
        BY <3>2, <4>1, ByteIs
    <3>3. ASSUME v >= More PROVE Encoded[v] \in T
      <4>1. v \div More \in Nat /\ v \div More < v /\ More + (v % More) \in Byte
        BY <3>3, Grouped, ByteIs
      <4>2. Encoded[v \div More] \in T
        BY <2>1, <4>1
      <4>3. ~ (v < More)
        BY <3>3, MoreIs
      <4>4. Encoded[v] = <<More + (v % More)>> \o Encoded[v \div More]
        BY <1>8, <4>3
      <4>5. QED
        BY <4>1, <4>2, <4>4
    <3>4. QED
      BY <3>1, <3>2, <3>3
  <2>2. \A v \in Nat : v \in S
    <3> HIDE DEF S
    <3>1. QED
      BY <2>1, StrongInduction
  <2>3. QED
    BY <2>2
<1>10. Encoded \in [Nat -> T]
  <2> HIDE DEF T, node
  <2>1. QED
    BY <1>7, <1>9
<1>11. QED
  BY <1>8, <1>10

\* There is a group for each byte.
LEMMA GroupsAre ==
  ASSUME NEW s \in Seq(Byte)
  PROVE  /\ Groups(s) \in Seq(Nat) /\ Len(Groups(s)) = Len(s)
         /\ \A i \in 1..Len(s) : s[i] \in Nat /\ Groups(s)[i] = s[i] % More
<1>1. \A i \in 1..Len(s) : s[i] \in Nat
  BY ByteIs
<1>2. \A i \in 1..Len(s) : s[i] % More \in Nat
  BY <1>1, Grouped
<1>3. Groups(s) = [i \in 1..Len(s) |-> s[i] % More]
  BY DEF Groups
<1>4. Len(s) \in Nat
  OBVIOUS
<1>5. QED
  BY <1>1, <1>2, <1>3, <1>4

\* The group of a first byte comes first.
LEMMA GroupsCons ==
  ASSUME NEW b \in Byte, NEW s \in Seq(Byte)
  PROVE  Groups(<<b>> \o s) = <<b % More>> \o Groups(s)
<1> DEFINE t == <<b>> \o s
           u == <<b % More>> \o Groups(s)
<1>1. t \in Seq(Byte) /\ Len(t) = 1 + Len(s) /\ t[1] = b /\ \A i \in 2..(1 + Len(s)) : t[i] = s[i - 1]
  OBVIOUS
<1>2. b % More \in Nat
  BY ByteIs, Grouped
<1>3. /\ Groups(s) \in Seq(Nat) /\ Len(Groups(s)) = Len(s)
      /\ \A i \in 1..Len(s) : Groups(s)[i] = s[i] % More
  BY GroupsAre
<1>4. /\ u \in Seq(Nat) /\ Len(u) = 1 + Len(s) /\ u[1] = b % More
      /\ \A i \in 2..(1 + Len(s)) : u[i] = Groups(s)[i - 1]
  BY <1>2, <1>3
<1> HIDE DEF t, u
<1>5. /\ Groups(t) \in Seq(Nat) /\ Len(Groups(t)) = Len(t)
      /\ \A i \in 1..Len(t) : Groups(t)[i] = t[i] % More
  BY <1>1, GroupsAre
<1>6. ASSUME NEW i \in 1..(1 + Len(s)) PROVE Groups(t)[i] = u[i]
  <2>1. CASE i = 1
    BY <1>1, <1>4, <1>5, <2>1
  <2>2. CASE i # 1
    <3>1. i \in 2..(1 + Len(s)) /\ i - 1 \in 1..Len(s)
      BY <2>2
    <3>2. QED
      BY <1>1, <1>3, <1>4, <1>5, <3>1
  <2>3. QED
    BY <2>1, <2>2
<1>7. Groups(t) = u
  BY <1>1, <1>4, <1>5, <1>6
<1>8. QED
  BY <1>7 DEF t, u

\* A number below More is its own encoding.
LEMMA ShapedSmall ==
  ASSUME NEW v \in Nat, v < More
  PROVE  Shaped(<<v>>, v)
<1> DEFINE code == <<v>>
<1>1. code \in Seq(Byte) /\ Len(code) = 1 /\ code[1] = v
  BY ByteIs
<1>2. ASSUME NEW k \in Nat \ {0} PROVE v < Pow2[Group * k] /\ 1 <= k
  <2>1. Group \in Nat /\ k >= 1
    BY MoreIs
  <2>2. Group <= Group * k /\ Group * k \in Nat
    BY <2>1
  <2>3. More <= Pow2[Group * k] /\ Pow2[Group * k] \in Nat
    BY <2>1, <2>2, PowersGrow, MoreIs
  <2>4. QED
    BY <2>1, <2>3, MoreIs
<1>3. Number(Groups(code), Group) = v
  <2>1. code = <<v>> \o <<>> /\ <<>> \in Seq(Byte) /\ v \in Byte
    BY ByteIs
  <2>2. Groups(code) = <<v % More>> \o Groups(<<>>)
    <3> HIDE DEF code
    <3>1. QED
      BY <2>1, GroupsCons
  <2>3. Groups(<<>>) = <<>> /\ v % More = v
    BY Grouped DEF Groups
  <2>4. /\ Number(<<v>> \o <<>>, Group) = v + Pow2[Group] * Number(<<>>, Group)
        /\ Number(<<>>, Group) \in Nat
    <3>1. <<>> \in Seq(Nat) /\ Group \in Nat
      BY MoreIs
    <3>2. QED
      BY <3>1, NumberCons
  <2>5. Number(<<>>, Group) = 0
    <3> DEFINE none == <<>>
    <3>1. none \in Seq(Nat) /\ Group \in Nat /\ 0 = Len(none)
      BY MoreIs
    <3> HIDE DEF none
    <3>2. PICK f \in [0..0 -> Nat] : MakesUp(none, Group, 0, f) /\ Number(none, Group) = f[0]
      BY <3>1, NumberDefined
    <3>3. QED
      BY <3>2 DEF MakesUp, none
  <2>6. Groups(code) = <<v>> \o <<>>
    BY <2>2, <2>3
  <2>7. v + Pow2[Group] * 0 = v
    BY MoreIs
  <2> HIDE DEF code
  <2>8. QED
    BY <2>4, <2>5, <2>6, <2>7
<1> HIDE DEF code
<1>4. Shaped(code, v)
  BY <1>1, <1>2, <1>3 DEF Shaped
<1>5. QED
  BY <1>4 DEF code

\* A larger one is its lowest group, marked, before the rest.
LEMMA ShapedLarge ==
  ASSUME NEW v \in Nat, v >= More, NEW s, Shaped(s, v \div More)
  PROVE  Shaped(<<More + (v % More)>> \o s, v)
<1> DEFINE b == More + (v % More)
           q == v \div More
           code == <<b>> \o s
<1>1. /\ b \in Byte /\ b >= More /\ b % More = v % More /\ q \in Nat /\ q < v
      /\ v = (v % More) + More * q /\ v % More \in Nat
  <2>1. /\ b % More = v % More /\ q \in Nat /\ q < v /\ v = (v % More) + More * q
        /\ v % More \in Nat /\ v % More < More
    BY Grouped
  <2>2. b \in Byte
    BY <2>1, ByteIs
  <2>3. b >= More
    BY <2>1, MoreIs
  <2>4. QED
    BY <2>1, <2>2, <2>3
<1> HIDE DEF b, q
<1>2. /\ s \in Seq(Byte) /\ Len(s) >= 1 /\ \A i \in 1..(Len(s) - 1) : s[i] >= More
      /\ s[Len(s)] < More
      /\ \A k \in Nat \ {0} : Len(s) <= k <=> q < Pow2[Group * k]
      /\ Number(Groups(s), Group) = q
  BY DEF Shaped, q
<1>3. Len(s) \in Nat
  BY <1>2
<1>4. /\ code \in Seq(Byte) /\ Len(code) = Len(s) + 1 /\ code[1] = b
      /\ \A i \in 2..(Len(s) + 1) : code[i] = s[i - 1]
  BY <1>1, <1>2
<1>5. Number(Groups(code), Group) = v
  <2>1. Groups(code) = <<v % More>> \o Groups(s)
    BY <1>1, <1>2, GroupsCons
  <2>2. Groups(s) \in Seq(Nat) /\ Group \in Nat
    BY <1>2, GroupsAre, MoreIs
  <2>3. Number(<<v % More>> \o Groups(s), Group) = (v % More) + Pow2[Group] * Number(Groups(s), Group)
    BY <1>1, <2>2, NumberCons
  <2>4. QED
    BY <1>1, <1>2, <2>1, <2>3, MoreIs
<1> HIDE DEF code
<1>6. ASSUME NEW i \in 1..(Len(code) - 1) PROVE code[i] >= More
  <2>1. CASE i = 1
    BY <1>1, <1>4, <2>1
  <2>2. CASE i # 1
    BY <1>3, <1>4, <2>2, <1>2
  <2>3. QED
    BY <2>1, <2>2
<1>7. code[Len(code)] < More
  BY <1>2, <1>3, <1>4
<1>8. ASSUME NEW k \in Nat \ {0} PROVE Len(code) <= k <=> v < Pow2[Group * k]
  <2>1. CASE k = 1
    <3>1. Group * k = Group
      BY <2>1, MoreIs
    <3>2. ~ (v < Pow2[Group * k])
      BY <3>1, MoreIs
    <3>3. ~ (Len(code) <= k)
      BY <1>2, <1>3, <1>4, <2>1
    <3>4. QED
      BY <3>2, <3>3
  <2>2. CASE k # 1
    <3> DEFINE j == k - 1
               p == Pow2[Group * j]
    <3>1. j \in Nat \ {0} /\ k = j + 1
      BY <2>2
    <3> HIDE DEF j
    <3>2. Group * j \in Nat /\ Group * k = Group + Group * j
      BY <3>1, MoreIs
    <3>3. p \in Nat /\ Pow2[Group * k] = More * p
      BY <3>2, PowersMultiply, PowersDefined, MoreIs
    <3> HIDE DEF p
    <3>4. v < More * p <=> q < p
      <4>1. More \in Nat \ {0}
        BY MoreIs
      <4>2. v < More * p <=> v \div More < p
        BY <3>3, <4>1, QuotientBelow
      <4>3. QED
        BY <4>2 DEF q
    <3>5. Len(s) <= j <=> q < p
      BY <1>2, <3>1 DEF p
    <3>6. Len(code) <= k <=> Len(s) <= j
      BY <1>3, <1>4, <3>1
    <3>7. QED
      BY <3>3, <3>4, <3>5, <3>6
  <2>3. QED
    BY <2>1, <2>2
<1>9. Shaped(code, v)
  BY <1>2, <1>3, <1>4, <1>5, <1>6, <1>7, <1>8 DEF Shaped
<1>10. QED
  BY <1>9 DEF code, b

\* Every number's encoding has this shape: by induction over the numbers.
LEMMA EncodedIs == \A v \in Nat : Shaped(Encoded[v], v)
<1> DEFINE S == {v \in Nat : Shaped(Encoded[v], v)}
<1>1. ASSUME NEW v \in Nat, \A m \in Nat : m < v => m \in S PROVE v \in S
  <2>1. v < More \/ v >= More
    BY MoreIs
  <2>2. ASSUME v < More PROVE Shaped(Encoded[v], v)
    BY <2>2, EncodedDefined, ShapedSmall
  <2>3. ASSUME v >= More PROVE Shaped(Encoded[v], v)
    <3>1. v \div More \in Nat /\ v \div More < v
      BY <2>3, Grouped
    <3>2. Shaped(Encoded[v \div More], v \div More)
      BY <1>1, <3>1
    <3>3. ~ (v < More)
      BY <2>3, MoreIs
    <3>4. Encoded[v] = <<More + (v % More)>> \o Encoded[v \div More]
      BY <3>3, EncodedDefined
    <3>5. QED
      BY <2>3, <3>2, <3>4, ShapedLarge
  <2>4. QED
    BY <2>1, <2>2, <2>3
<1>2. \A v \in Nat : v \in S
  <2> HIDE DEF S
  <2>1. QED
    BY <1>1, StrongInduction
<1>3. QED
  BY <1>2

\* Decoding stops at the first byte after which no more follow.
LEMMA DecodeStops ==
  ASSUME NEW data \in Seq(Byte), NEW n \in 1..Len(data), data[n] < More,
         \A i \in 1..(n - 1) : data[i] >= More
  PROVE  Decode(data) = StoppedAt(data, n)
<1> DEFINE first == CHOOSE m \in Stops(data) : \A i \in Stops(data) : m <= i
<1>1. n \in Stops(data)
  BY DEF Stops
<1>2. ASSUME NEW i \in Stops(data) PROVE n <= i
  BY ByteIs, MoreIs DEF Stops
<1>3. \A i \in Stops(data) : i \in Nat
  BY DEF Stops
<1>4. first = n
  <2>1. first \in Stops(data) /\ \A i \in Stops(data) : first <= i
    BY <1>1, <1>2
  <2>2. first <= n /\ n <= first /\ first \in Nat
    BY <1>1, <1>2, <1>3, <2>1
  <2>3. QED
    BY <2>2
<1>5. Stops(data) # {}
  BY <1>1
<1>6. Decode(data) = StoppedAt(data, first)
  BY <1>5 DEF Decode, StoppedAt
<1> HIDE DEF first
<1>7. QED
  BY <1>4, <1>6

\* Without such a byte it fails.
LEMMA DecodeFails ==
  ASSUME NEW data \in Seq(Byte), \A i \in 1..Len(data) : data[i] >= More
  PROVE  Decode(data) = Fail
<1>1. ASSUME NEW i \in 1..Len(data) PROVE ~ (data[i] < More)
  BY ByteIs, MoreIs
<1>2. Stops(data) = {}
  BY <1>1 DEF Stops
<1>3. QED
  BY <1>2 DEF Decode

\* Either some byte stops the decoder first, or none does.
LEMMA StopsOrNot ==
  ASSUME NEW data \in Seq(Byte)
  PROVE  \/ \E n \in 1..Len(data) : data[n] < More /\ \A i \in 1..(n - 1) : data[i] >= More
         \/ \A i \in 1..Len(data) : data[i] >= More
<1>1. \A i \in 1..Len(data) : data[i] \in Nat
  BY ByteIs
<1>2. SUFFICES ASSUME ~ \A i \in 1..Len(data) : data[i] >= More
      PROVE  \E n \in 1..Len(data) : data[n] < More /\ \A i \in 1..(n - 1) : data[i] >= More
  OBVIOUS
<1> DEFINE T == {i \in 1..Len(data) : data[i] < More}
<1>3. T \in SUBSET Nat /\ T # {}
  BY <1>1, <1>2, MoreIs
<1>4. PICK n \in T : \A m \in T : n <= m
  <2> HIDE DEF T
  <2>1. QED
    BY <1>3, Least
<1>5. n \in 1..Len(data) /\ data[n] < More
  BY <1>4
<1>6. ASSUME NEW i \in 1..(n - 1) PROVE data[i] >= More
  BY <1>5, <1>4, <1>1, MoreIs
<1>7. QED
  BY <1>5, <1>6

\* What is left of a sequence after its first n.
LEMMA AfterIs ==
  ASSUME NEW S, NEW data \in Seq(S), NEW n \in 0..Len(data)
  PROVE  /\ After(data, n) \in Seq(S) /\ Len(After(data, n)) = Len(data) - n
         /\ \A i \in 1..(Len(data) - n) : After(data, n)[i] = data[n + i]
<1>1. Len(data) \in Nat /\ n \in Nat /\ n <= Len(data)
  OBVIOUS
<1>2. After(data, n) = [i \in 1..(Len(data) - n) |-> data[n + i]]
  BY <1>1 DEF After
<1>3. \A i \in 1..(Len(data) - n) : data[n + i] \in S
  BY <1>1
<1>4. Len(data) - n \in Nat
  BY <1>1
<1>5. QED
  BY <1>2, <1>3, <1>4

\* What is left after the first of two sequences is the second.
LEMMA AfterJoined ==
  ASSUME NEW S, NEW s \in Seq(S), NEW t \in Seq(S)
  PROVE  After(s \o t, Len(s)) = t /\ Len(s) \in 0..Len(s \o t)
<1> DEFINE d == s \o t
           n == Len(s)
<1>1. /\ d \in Seq(S) /\ Len(d) = n + Len(t) /\ n \in Nat /\ Len(t) \in Nat
      /\ \A i \in 1..Len(t) : d[n + i] = t[i]
  OBVIOUS
<1> HIDE DEF d, n
<1>2. n \in 0..Len(d)
  BY <1>1
<1>3. /\ After(d, n) \in Seq(S) /\ Len(After(d, n)) = Len(d) - n
      /\ \A i \in 1..(Len(d) - n) : After(d, n)[i] = d[n + i]
  BY <1>1, <1>2, AfterIs
<1>4. Len(d) - n = Len(t)
  BY <1>1
<1> DEFINE u == After(d, n)
<1>5. /\ u \in Seq(S) /\ Len(u) = Len(t) /\ t \in Seq(S)
      /\ \A i \in 1..Len(t) : u[i] = t[i]
  <2> HIDE DEF u
  <2>1. \A i \in 1..Len(t) : u[i] = t[i]
    BY <1>1, <1>3, <1>4 DEF u
  <2>2. QED
    BY <1>3, <1>4, <2>1 DEF u
<1> HIDE DEF u
<1>6. u = t
  BY <1>5
<1>7. QED
  BY <1>2, <1>6 DEF d, n, u

\* What the decoder gives, in any case.
LEMMA DecodeType ==
  ASSUME NEW data \in Seq(Byte)
  PROVE  LET d == Decode(data) IN
         /\ d.ok \in BOOLEAN /\ d.value \in Nat /\ d.rest \in Seq(Byte)
         /\ d.ok => Len(d.rest) < Len(data)
<1> DEFINE d == Decode(data)
<1>1. SUFFICES /\ d.ok \in BOOLEAN /\ d.value \in Nat /\ d.rest \in Seq(Byte)
               /\ d.ok => Len(d.rest) < Len(data)
  OBVIOUS
<1>2. ASSUME d = Fail
      PROVE  /\ d.ok \in BOOLEAN /\ d.value \in Nat /\ d.rest \in Seq(Byte)
             /\ d.ok => Len(d.rest) < Len(data)
  <2> HIDE DEF d
  <2>1. d.ok = FALSE /\ d.value = 0 /\ d.rest = <<>>
    BY <1>2 DEF Fail
  <2>2. d.value \in Nat /\ d.rest \in Seq(Byte)
    BY <2>1
  <2>3. QED
    BY <2>1, <2>2, Zenon
<1>3. ASSUME NEW n \in 1..Len(data), data[n] < More, \A i \in 1..(n - 1) : data[i] >= More
      PROVE  /\ d.ok \in BOOLEAN /\ d.value \in Nat /\ d.rest \in Seq(Byte)
             /\ d.ok => Len(d.rest) < Len(data)
  <2>1. d = StoppedAt(data, n)
    BY <1>3, DecodeStops
  <2> DEFINE g == [i \in 1..n |-> data[i] % More]
  <2>2. Number(g, Group) \in Nat
    <3>1. \A i \in 1..n : data[i] \in Nat /\ data[i] % More \in Nat
      <4>1. \A i \in 1..n : i \in 1..Len(data)
        OBVIOUS
      <4>2. \A i \in 1..n : data[i] \in Nat
        BY <4>1, ByteIs
      <4>3. QED
        BY <4>2, Grouped
    <3>2. g \in Seq(Nat) /\ Group \in Nat
      BY <3>1, MoreIs
    <3> HIDE DEF g
    <3>3. QED
      BY <3>2, NumberCons
  <2>3. /\ After(data, n) \in Seq(Byte) /\ Len(After(data, n)) = Len(data) - n
    BY AfterIs
  <2> DEFINE e == [ok |-> TRUE, value |-> Number(g, Group), rest |-> After(data, n)]
  <2>4. d = Fail \/ d = e
    BY <2>1 DEF StoppedAt
  <2>5. e.ok = TRUE /\ e.value = Number(g, Group) /\ e.rest = After(data, n)
    OBVIOUS
  <2> HIDE DEF d, e, g
  <2>6. CASE d = e
    <3>1. Len(data) - n < Len(data)
      OBVIOUS
    <3>2. QED
      BY <2>2, <2>3, <2>5, <2>6, <3>1
  <2>7. QED
    BY <1>2, <2>4, <2>6 DEF d
<1>4. QED
  <2> HIDE DEF d
  <2>1. CASE \A i \in 1..Len(data) : data[i] >= More
    BY <2>1, DecodeFails, <1>2 DEF d
  <2>2. QED
    BY <1>3, <2>1, StopsOrNot

\* How many bytes fit in the width.
LEMMA Within ==
  /\ MaxBytes \in Nat \ {0}
  /\ \A n \in Nat \ {0} : n <= MaxBytes <=> ~ (Group * (n - 1) > Width)
  /\ Limit \in Nat /\ Limit > 0
<1>1. Width \in Nat /\ Group \in Nat \ {0}
  BY MoreIs
<1>2. MaxBytes \in Nat \ {0}
  BY <1>1, QuotientSmall DEF MaxBytes
<1>3. ASSUME NEW n \in Nat \ {0} PROVE n <= MaxBytes <=> ~ (Group * (n - 1) > Width)
  <2> DEFINE q == Width \div Group
  <2>1. n - 1 \in Nat
    OBVIOUS
  <2>2. q \in Nat /\ MaxBytes = q + 1
    BY <1>1, QuotientSmall DEF MaxBytes
  <2>3. Width < Group * (n - 1) <=> q < n - 1
    BY <1>1, <2>1, QuotientBelow
  <2> HIDE DEF q
  <2>4. Group * (n - 1) \in Nat
    BY <1>1, <2>1
  <2>5. QED
    BY <1>1, <2>2, <2>3, <2>4
<1>4. Limit \in Nat /\ Limit > 0
  BY <1>1, <1>2, PowersDefined DEF Limit
<1>5. QED
  BY <1>2, <1>3, <1>4

\* Decoding what was encoded.
LEMMA DecodeEncoded ==
  ASSUME NEW v \in Nat, NEW rest \in Seq(Byte)
  PROVE  Decode(Encoded[v] \o rest) = IF v < Limit THEN [ok |-> TRUE, value |-> v, rest |-> rest]
                                      ELSE Fail
<1> DEFINE code == Encoded[v]
           data == code \o rest
           n == Len(code)
<1>1. Shaped(code, v)
  BY EncodedIs
<1> HIDE DEF code
<1>2. /\ code \in Seq(Byte) /\ n >= 1 /\ n \in Nat
      /\ \A i \in 1..(n - 1) : code[i] >= More
      /\ code[n] < More
      /\ \A k \in Nat \ {0} : n <= k <=> v < Pow2[Group * k]
      /\ Number(Groups(code), Group) = v
  BY <1>1 DEF Shaped
<1>3. /\ data \in Seq(Byte) /\ Len(data) = n + Len(rest) /\ Len(rest) \in Nat
      /\ \A i \in 1..n : data[i] = code[i]
      /\ After(data, n) = rest
  BY <1>2, AfterJoined
<1> HIDE DEF data
<1>4. Decode(data) = StoppedAt(data, n)
  <2>1. n \in 1..Len(data) /\ data[n] < More
    BY <1>2, <1>3
  <2> HIDE DEF n
  <2>2. \A i \in 1..(n - 1) : data[i] >= More
    BY <1>2, <1>3
  <2>3. QED
    BY <1>3, <2>1, <2>2, DecodeStops
<1>5. [i \in 1..n |-> data[i] % More] = Groups(code)
  <2>1. Groups(code) = [i \in 1..n |-> code[i] % More]
    BY <1>2 DEF Groups
  <2> HIDE DEF n
  <2>2. QED
    BY <1>3, <2>1
<1>6. ~ (Group * (n - 1) > Width) <=> v < Limit
  <2>1. n <= MaxBytes <=> v < Limit
    BY <1>2, Within DEF Limit
  <2>2. n \in Nat \ {0}
    BY <1>2
  <2> HIDE DEF n
  <2>3. QED
    BY <2>1, <2>2, Within
<1> HIDE DEF n
<1>7. Decode(data) = IF v < Limit THEN [ok |-> TRUE, value |-> v, rest |-> rest] ELSE Fail
  BY <1>2, <1>3, <1>4, <1>5, <1>6 DEF StoppedAt
<1>8. QED
  BY <1>7 DEF data, code

\* A proper prefix of an encoding is none.
LEMMA DecodePrefix ==
  ASSUME NEW v \in Nat, NEW m \in Nat, m < Len(Encoded[v])
  PROVE  /\ Decode(SubSeq(Encoded[v], 1, m)) = Fail
         /\ SubSeq(Encoded[v], 1, m) \in Seq(Byte)
<1> DEFINE code == Encoded[v]
           data == SubSeq(code, 1, m)
<1>1. code \in Seq(Byte) /\ \A i \in 1..(Len(code) - 1) : code[i] >= More
  BY EncodedIs DEF Shaped
<1>2. m < Len(code) /\ Len(code) \in Nat
  BY <1>1
<1> HIDE DEF code
<1>3. /\ data \in Seq(Byte) /\ Len(data) = m
      /\ \A i \in 1..m : data[i] = code[i] /\ i \in 1..(Len(code) - 1)
  BY <1>1, <1>2
<1> HIDE DEF data
<1>4. Decode(data) = Fail
  BY <1>1, <1>3, DecodeFails
<1>5. QED
  BY <1>3, <1>4 DEF data, code

\* Concatenating joins.
LEMMA JoinedIs ==
  ASSUME NEW S, NEW s \in Seq(S), NEW t \in Seq(S)
  PROVE  Joined(S, s, t, s \o t)
BY DEF Joined

\* The first m of a sequence.
LEMMA FrontIs ==
  ASSUME NEW S, NEW s \in Seq(S), NEW m \in 0..Len(s)
  PROVE  /\ SubSeq(s, 1, m) \in Seq(S) /\ Len(SubSeq(s, 1, m)) = m
         /\ \A i \in 1..m : SubSeq(s, 1, m)[i] = s[i]
<1>1. Len(s) \in Nat /\ m \in Nat /\ m <= Len(s)
  OBVIOUS
<1>2. SubSeq(s, 1, m) = [i \in 1..m |-> s[i]]
  BY <1>1
<1>3. \A i \in 1..m : s[i] \in S
  BY <1>1
<1>4. QED
  BY <1>1, <1>2, <1>3

\* The bytes of a padded encoding.
LEMMA PaddedIs ==
  ASSUME NEW code \in Seq(Byte), Len(code) >= 1, code[Len(code)] < More, NEW pad \in Nat
  PROVE  LET n == Len(code)
             p == Padded(code, pad)
         IN  /\ p \in Seq(Byte) /\ Len(p) = n + pad + 1
             /\ \A i \in 1..(n - 1) : p[i] = code[i]
             /\ p[n] = More + code[n]
             /\ \A i \in (n + 1)..(n + pad) : p[i] = More
             /\ p[n + pad + 1] = 0
<1> DEFINE n == Len(code)
           a == SubSeq(code, 1, n - 1)
           b == <<More + Last(code)>>
           c == [i \in 1..pad |-> More]
           d == <<0>>
           ab == a \o b
           abc == ab \o c
           p == abc \o d
<1>1. n \in Nat /\ n >= 1
  OBVIOUS
<1>2. a \in Seq(Byte) /\ Len(a) = n - 1 /\ \A i \in 1..(n - 1) : a[i] = code[i]
  <2>1. n - 1 \in 0..Len(code)
    BY <1>1
  <2> HIDE DEF n
  <2>2. QED
    BY <2>1, FrontIs
<1>3. b \in Seq(Byte) /\ Len(b) = 1 /\ b[1] = More + code[n]
  BY <1>1, ByteIs DEF Last
<1>4. c \in Seq(Byte) /\ Len(c) = pad /\ \A i \in 1..pad : c[i] = More
  <2>1. More \in Byte
    BY ByteIs, MoreIs
  <2>2. QED
    BY <2>1
<1>5. d \in Seq(Byte) /\ Len(d) = 1 /\ d[1] = 0
  BY ByteIs
<1> HIDE DEF a, b, c, d, n
<1>6. /\ ab \in Seq(Byte) /\ Len(ab) = n /\ ab[n] = More + code[n]
      /\ \A i \in 1..(n - 1) : ab[i] = code[i]
  <2>1. /\ ab \in Seq(Byte) /\ Len(ab) = (n - 1) + 1
        /\ \A i \in 1..(n - 1) : ab[i] = a[i]
        /\ \A i \in 1..1 : ab[(n - 1) + i] = b[i]
    <3>1. /\ ab \in Seq(Byte) /\ Len(ab) = Len(a) + Len(b)
          /\ \A i \in 1..Len(a) : ab[i] = a[i]
          /\ \A i \in 1..Len(b) : ab[Len(a) + i] = b[i]
      <4>1. a \in Seq(Byte) /\ b \in Seq(Byte)
        BY <1>2, <1>3
      <4>2. QED
        BY <4>1, JoinedIs DEF Joined
    <3> HIDE DEF ab
    <3>2. QED
      BY <1>2, <1>3, <3>1
  <2>2. 1 \in 1..1 /\ (n - 1) + 1 = n
    BY <1>1
  <2> HIDE DEF ab
  <2>3. QED
    BY <1>2, <1>3, <2>1, <2>2
<1> HIDE DEF ab
<1>7. /\ abc \in Seq(Byte) /\ Len(abc) = n + pad /\ abc[n] = More + code[n]
      /\ \A i \in 1..(n - 1) : abc[i] = code[i]
      /\ \A i \in (n + 1)..(n + pad) : abc[i] = More
  <2>1. /\ abc \in Seq(Byte) /\ Len(abc) = n + pad
        /\ \A i \in 1..n : abc[i] = ab[i]
        /\ \A i \in 1..pad : abc[n + i] = c[i]
    <3>1. /\ abc \in Seq(Byte) /\ Len(abc) = Len(ab) + Len(c)
          /\ \A i \in 1..Len(ab) : abc[i] = ab[i]
          /\ \A i \in 1..Len(c) : abc[Len(ab) + i] = c[i]
      <4>1. ab \in Seq(Byte) /\ c \in Seq(Byte)
        BY <1>4, <1>6
      <4>2. QED
        BY <4>1, JoinedIs DEF Joined
    <3> HIDE DEF abc
    <3>2. QED
      BY <1>4, <1>6, <3>1
  <2> HIDE DEF abc
  <2>2. ASSUME NEW i \in (n + 1)..(n + pad) PROVE abc[i] = More
    <3>1. i - n \in 1..pad /\ n + (i - n) = i
      BY <1>1
    <3>2. QED
      BY <1>4, <2>1, <3>1
  <2>3. \A i \in 1..(n - 1) : i \in 1..n
    BY <1>1
  <2>4. n \in 1..n
    BY <1>1
  <2>5. QED
    BY <1>6, <2>1, <2>2, <2>3, <2>4
<1> HIDE DEF abc
<1>8. /\ p \in Seq(Byte) /\ Len(p) = n + pad + 1 /\ p[n] = More + code[n]
      /\ \A i \in 1..(n - 1) : p[i] = code[i]
      /\ \A i \in (n + 1)..(n + pad) : p[i] = More
      /\ p[n + pad + 1] = 0
  <2>1. /\ p \in Seq(Byte) /\ Len(p) = (n + pad) + 1
        /\ \A i \in 1..(n + pad) : p[i] = abc[i]
        /\ \A i \in 1..1 : p[(n + pad) + i] = d[i]
    <3>1. /\ p \in Seq(Byte) /\ Len(p) = Len(abc) + Len(d)
          /\ \A i \in 1..Len(abc) : p[i] = abc[i]
          /\ \A i \in 1..Len(d) : p[Len(abc) + i] = d[i]
      <4>1. abc \in Seq(Byte) /\ d \in Seq(Byte)
        BY <1>5, <1>7
      <4>2. QED
        BY <4>1, JoinedIs DEF Joined
    <3> HIDE DEF p
    <3>2. QED
      BY <1>5, <1>7, <3>1
  <2> HIDE DEF p
  <2>2. p[n + pad + 1] = 0
    BY <1>1, <1>5, <2>1
  <2>3. \A i \in 1..(n - 1) : i \in 1..(n + pad)
    BY <1>1
  <2>4. \A i \in (n + 1)..(n + pad) : i \in 1..(n + pad)
    BY <1>1
  <2>5. n \in 1..(n + pad)
    BY <1>1
  <2>6. QED
    BY <1>1, <1>7, <2>1, <2>2, <2>3, <2>4, <2>5
<1>9. Padded(code, pad) = p
  BY DEF Padded, n, a, b, c, d, ab, abc
<1> HIDE DEF p
<1>10. QED
  BY <1>8, <1>9 DEF n

\* Padding is read as it was meant, as far as it is read.
LEMMA DecodePadded ==
  ASSUME NEW v \in Nat, NEW code, Shaped(code, v), NEW pad \in Nat, NEW p, p = Padded(code, pad)
  PROVE  /\ Len(p) <= MaxBytes => Decode(p).value = v
         /\ Len(p) > MaxBytes => Decode(p) = Fail
<1> DEFINE n == Len(code)
           m == n + pad + 1
<1>1. /\ code \in Seq(Byte) /\ n >= 1 /\ n \in Nat
      /\ \A i \in 1..(n - 1) : code[i] >= More
      /\ code[n] < More
      /\ Number(Groups(code), Group) = v
  BY DEF Shaped
<1>2. /\ p \in Seq(Byte) /\ Len(p) = m
      /\ \A i \in 1..(n - 1) : p[i] = code[i]
      /\ p[n] = More + code[n]
      /\ \A i \in (n + 1)..(n + pad) : p[i] = More
      /\ p[m] = 0
  BY <1>1, PaddedIs
<1>3. m \in Nat \ {0} /\ m = n + pad + 1
  BY <1>1
<1>4. \A i \in 1..n : code[i] \in Nat
  <2>1. DOMAIN code = 1..n
    BY <1>1
  <2> HIDE DEF n
  <2>2. QED
    BY <1>1, <2>1, ByteIs
<1> HIDE DEF n, m
<1>5. \A i \in 1..(m - 1) : p[i] >= More
  <2>1. ASSUME NEW i \in 1..(m - 1) PROVE p[i] >= More
    <3>1. CASE i < n
      BY <1>1, <3>1, <1>2
    <3>2. CASE i = n
      BY <1>1, <1>2, <1>4, <3>2, MoreIs
    <3>3. CASE i > n
      BY <1>1, <1>3, <3>3, <1>2, MoreIs
    <3>4. QED
      BY <1>1, <3>1, <3>2, <3>3
  <2>2. QED
    BY <2>1
<1>6. m \in 1..Len(p) /\ p[m] < More
  BY <1>2, <1>3, MoreIs
<1>7. Decode(p) = StoppedAt(p, m)
  BY <1>2, <1>5, <1>6, DecodeStops
<1>8. m <= MaxBytes <=> ~ (Group * (m - 1) > Width)
  BY <1>3, Within
<1>9. [i \in 1..m |-> p[i] % More] = Groups(p)
  BY <1>2 DEF Groups
<1>10. Number(Groups(p), Group) = Number(Groups(code), Group)
  <2> DEFINE s == Groups(code)
             t == Groups(p)
  <2>1. s \in Seq(Nat) /\ Len(s) = n /\ \A i \in 1..n : s[i] = code[i] % More
    BY <1>1, GroupsAre DEF n
  <2>2. t \in Seq(Nat) /\ Len(t) = m /\ \A i \in 1..m : t[i] = p[i] % More
    BY <1>2, GroupsAre
  <2> HIDE DEF s, t
  <2>3. Len(s) <= Len(t)
    BY <1>1, <1>3, <2>1, <2>2
  <2>4. ASSUME NEW i \in 1..Len(s) PROVE t[i] = s[i]
    <3>1. i \in 1..n /\ i \in 1..m
      BY <1>1, <1>3, <2>1
    <3>2. CASE i = n
      <4>1. code[n] \in Nat /\ (More + code[n]) % More = code[n] % More
        BY <1>1, <1>4, <3>1, <3>2, Grouped
      <4>2. QED
        BY <1>2, <2>1, <2>2, <3>1, <3>2, <4>1
    <3>3. CASE i # n
      BY <1>1, <3>1, <3>3, <1>2, <2>1, <2>2
    <3>4. QED
      BY <3>2, <3>3
  <2>5. ASSUME NEW i \in (Len(s) + 1)..Len(t) PROVE t[i] = 0
    <3>1. More % More = 0 /\ 0 % More = 0
      <4>1. 0 % More = 0 /\ More + 0 = More
        BY MoreIs
      <4>2. (More + (0 % More)) % More = 0 % More
        BY Grouped
      <4>3. QED
        BY <4>1, <4>2
    <3>2. i \in 1..m /\ (i \in (n + 1)..(n + pad) \/ i = m)
      BY <1>1, <1>3, <2>1, <2>2
    <3>3. p[i] = More \/ p[i] = 0
      BY <1>2, <3>2
    <3>4. QED
      BY <2>2, <3>1, <3>2, <3>3
  <2>6. Group \in Nat
    BY MoreIs
  <2>7. Number(t, Group) = Number(s, Group)
    BY <2>1, <2>2, <2>3, <2>4, <2>5, <2>6, NumberPadded
  <2>8. QED
    BY <2>7 DEF s, t
<1>11. Len(p) <= MaxBytes => Decode(p).value = v
  <2>1. SUFFICES ASSUME m <= MaxBytes PROVE Decode(p).value = v
    BY <1>2
  <2>2. Decode(p) = [ok |-> TRUE, value |-> Number([i \in 1..m |-> p[i] % More], Group),
                     rest |-> After(p, m)]
    BY <1>7, <1>8, <2>1 DEF StoppedAt
  <2>3. Decode(p).value = Number([i \in 1..m |-> p[i] % More], Group)
    BY <2>2
  <2>4. QED
    BY <1>1, <1>9, <1>10, <2>3
<1>12. Len(p) > MaxBytes => Decode(p) = Fail
  <2>1. SUFFICES ASSUME m > MaxBytes PROVE Decode(p) = Fail
    BY <1>2
  <2>2. ~ (m <= MaxBytes)
    BY <1>3, <2>1, Within
  <2>3. QED
    BY <1>7, <1>8, <2>2 DEF StoppedAt
<1>13. QED
  BY <1>11, <1>12

\* Varints, whatever the value and what follows.
LEMMA VarintsHold ==
  ASSUME NEW value \in Nat, NEW rest \in Seq(Byte), NEW pad \in Nat
  PROVE  VarintExact(value, rest, pad)
<1> DEFINE code == Encoded[value]
           front == SubSeq(code, 1, Len(code) - 1)
           p == Padded(code, pad)
<1>1. Shaped(code, value)
  BY EncodedIs
<1>2. Decode(code \o rest) = IF value < Limit THEN [ok |-> TRUE, value |-> value, rest |-> rest]
                             ELSE Fail
  BY DecodeEncoded
<1>3. Decode(front) = Fail
  <2>1. Len(code) >= 1 /\ Len(code) \in Nat
    BY <1>1 DEF Shaped
  <2>2. Len(code) - 1 \in Nat /\ Len(code) - 1 < Len(code)
    BY <2>1
  <2>3. QED
    BY <2>2, DecodePrefix
<1> HIDE DEF code
<1>4. /\ Len(p) <= MaxBytes => Decode(p).value = value
      /\ Len(p) > MaxBytes => Decode(p) = Fail
  <2>1. p = Padded(code, pad)
    OBVIOUS
  <2> HIDE DEF p
  <2>2. QED
    BY <1>1, <2>1, DecodePadded
<1>5. QED
  BY <1>2, <1>3, <1>4 DEF VarintExact, Padded, code

\* A number is that of its bytes.
LEMMA NumberDigits ==
  ASSUME NEW v \in Nat, NEW n \in Nat, v < Pow2[(Group + 1) * n]
  PROVE  /\ Digits(v, n) \in Seq(Byte) /\ Len(Digits(v, n)) = n
         /\ Number(Digits(v, n), Group + 1) = v
<1> DEFINE w == Group + 1
           P(i) == Pow2[w * i]
           s == Digits(v, n)
           g == [i \in 0..n |-> v % P(i)]
<1>1. w \in Nat /\ Pow2[w] = 2 * More /\ 2 * More \in Nat \ {0}
  BY MoreIs
<1>2. \A i \in Nat : w * i \in Nat /\ P(i) \in Nat \ {0}
  <2> HIDE DEF w
  <2>1. \A i \in Nat : w * i \in Nat
    BY <1>1
  <2>2. QED
    BY <2>1, PowersDefined
<1>3. ASSUME NEW i \in Nat PROVE P(i + 1) = P(i) * (2 * More)
  <2> HIDE DEF w
  <2>1. w * i \in Nat /\ w * (i + 1) = w * i + w
    BY <1>1
  <2>2. Pow2[w * i + w] = Pow2[w * i] * Pow2[w]
    BY <1>1, <2>1, PowersMultiply
  <2>3. QED
    BY <1>1, <2>1, <2>2
<1>4. s = [i \in 1..n |-> (v \div P(i - 1)) % (2 * More)]
  BY DEF Digits
<1> HIDE DEF w, P
<1>5. ASSUME NEW i \in 1..n
      PROVE  /\ i - 1 \in Nat /\ v \div P(i - 1) \in Nat
             /\ (v \div P(i - 1)) % (2 * More) \in Byte
  <2>1. i - 1 \in Nat
    OBVIOUS
  <2>2. v \div P(i - 1) \in Nat
    <3>1. P(i - 1) \in Nat \ {0}
      BY <1>2, <2>1
    <3>2. v \div P(i - 1) \in 0..v
      BY <3>1, QuotientSmall
    <3>3. QED
      BY <3>2
  <2>3. \A q \in Nat : q % (2 * More) \in 0..(2 * More - 1)
    <3> DEFINE b == 2 * More
    <3> HIDE DEF b
    <3>1. b \in Nat \ {0} => \A q \in Nat : q % b \in 0..(b - 1)
      OBVIOUS
    <3>2. QED
      BY <1>1, <3>1 DEF b
  <2>4. QED
    BY <2>1, <2>2, <2>3 DEF Byte
<1>6. s \in Seq(Byte) /\ Len(s) = n
  BY <1>4, <1>5
<1>7. \A i \in 1..n : s[i] = (v \div P(i - 1)) % (2 * More)
  BY <1>4
<1> HIDE DEF s
<1>8. g \in [0..n -> Nat] /\ \A i \in 0..n : g[i] = v % P(i)
  <2>1. ASSUME NEW i \in 0..n PROVE v % P(i) \in Nat
    BY <1>2
  <2>2. QED
    BY <2>1
<1> HIDE DEF g
<1>9. g[0] = 0
  <2>1. w * 0 = 0
    BY <1>1
  <2>2. P(0) = 1
    BY <2>1, PowersDefined DEF P
  <2>3. v % 1 = 0
    OBVIOUS
  <2>4. 0 \in 0..n
    OBVIOUS
  <2>5. QED
    BY <1>8, <2>2, <2>3, <2>4
<1>10. ASSUME NEW i \in 1..n PROVE g[i] = g[i - 1] + s[i] * P(i - 1)
  <2> DEFINE p == P(i - 1)
             b == 2 * More
             q == v \div p
             r == v % p
             k == q \div b
             d == q % b
  <2>1. i - 1 \in Nat /\ i - 1 \in 0..n /\ i \in 0..n /\ (i - 1) + 1 = i
    OBVIOUS
  <2>2. p \in Nat \ {0} /\ b \in Nat \ {0}
    BY <1>1, <1>2, <2>1
  <2>3. P(i) = p * b
    BY <1>3, <2>1
  <2>4. s[i] = d /\ g[i - 1] = r /\ g[i] = v % P(i)
    BY <1>7, <1>8, <2>1
  <2> HIDE DEF p, b
  <2>5. q \in Nat
    BY <2>2, QuotientSmall
  <2>6. v = p * q + r /\ r \in 0..(p - 1)
    BY <2>2
  <2> HIDE DEF q, r
  <2>7. q = b * k + d /\ d \in 0..(b - 1) /\ k \in Int
    BY <2>2, <2>5
  <2> HIDE DEF k, d
  <2>8. v = (p * b) * k + (r + d * p)
    BY <2>2, <2>7, <2>6
  <2>9. r + d * p \in 0..((p * b) - 1) /\ p * b \in Nat \ {0}
    <3>1. d * p <= (b - 1) * p
      BY <2>2, <2>7
    <3>2. (b - 1) * p = p * b - p
      BY <2>2
    <3>3. d * p \in Nat /\ p * b \in Nat /\ p * b > 0
      BY <2>2, <2>7
    <3>4. r \in Nat /\ r < p
      BY <2>2, <2>6
    <3>5. QED
      BY <2>2, <3>1, <3>2, <3>3, <3>4
  <2>10. v % (p * b) = r + d * p
    BY <2>7, <2>8, <2>9, ModIs
  <2>11. QED
    BY <2>3, <2>4, <2>10 DEF p
<1>11. MakesUp(s, w, n, g)
  BY <1>9, <1>10 DEF MakesUp, P
<1>12. Number(s, w) = g[n]
  BY <1>6, BytesAreNumbers, <1>1, <1>8, <1>11, NumberIs
<1>13. g[n] = v
  <2>1. v < P(n) /\ P(n) \in Nat /\ n \in 0..n
    BY <1>2 DEF P, w
  <2>2. v % P(n) = v
    BY <2>1
  <2>3. QED
    BY <1>8, <2>1, <2>2
<1>14. QED
  BY <1>6, <1>12, <1>13 DEF s, w

\* Trees with one of their parts replaced.
LEMMA Changed ==
  ASSUME NEW tree \in Trees, NEW x
  PROVE  /\ [tree EXCEPT !.raised = x] = [keys |-> tree.keys, entries |-> tree.entries, raised |-> x]
         /\ [tree EXCEPT !.keys = x] = [keys |-> x, entries |-> tree.entries, raised |-> tree.raised]
<1>1. [tree EXCEPT !.raised = x] = [keys |-> tree.keys, entries |-> tree.entries, raised |-> x]
  BY DEF Trees
<1>2. [tree EXCEPT !.keys = x] = [keys |-> x, entries |-> tree.entries, raised |-> tree.raised]
  BY DEF Trees
<1>3. QED
  BY <1>1, <1>2

\* The trees without entries.
LEMMA SimpleTrees ==
  /\ Nothing \in Trees /\ Raise \in Trees /\ \A field \in Nat : Stub(field) \in Trees
  /\ Nothing.keys = {} /\ Nothing.entries = <<>> /\ Nothing.raised = FALSE
  /\ Raise.raised = TRUE /\ Raise.entries = <<>>
  /\ \A field \in Nat : /\ Stub(field).keys = {field} /\ Stub(field).entries = <<>>
                        /\ Stub(field).raised = FALSE
<1>1. Nothing = [keys |-> {}, entries |-> <<>>, raised |-> FALSE]
  BY DEF Nothing
<1>2. \A k, r : k \in SUBSET Nat /\ r \in BOOLEAN =>
         [keys |-> k, entries |-> <<>>, raised |-> r] \in Trees
  BY DEF Trees
<1>3. Nothing \in Trees /\ Nothing.keys = {} /\ Nothing.entries = <<>> /\ Nothing.raised = FALSE
  BY <1>1, <1>2
<1>4. Raise = [keys |-> {}, entries |-> <<>>, raised |-> TRUE]
  BY <1>3, Changed DEF Raise
<1>5. ASSUME NEW field PROVE Stub(field) = [keys |-> {field}, entries |-> <<>>, raised |-> FALSE]
  BY <1>3, Changed DEF Stub
<1>6. Nothing \in Trees /\ Raise \in Trees
  BY <1>1, <1>4, <1>2
<1>7. \A field \in Nat : Stub(field) \in Trees
  BY <1>5, <1>2
<1>8. Raise.raised = TRUE /\ Raise.entries = <<>>
  BY <1>4
<1>9. ASSUME NEW field
      PROVE  Stub(field).keys = {field} /\ Stub(field).entries = <<>> /\ Stub(field).raised = FALSE
  BY <1>5
<1>10. QED
  BY <1>6, <1>7, <1>3, <1>8, <1>9

\* Then puts an entry before what follows.
LEMMA ThenIs ==
  ASSUME NEW field \in Nat, NEW value \in TreeValue, NEW tree \in Trees,
         NEW type \in {"varint", "fixed64", "fixed32", "string", "nested", "bytes"}
  PROVE  Follows(field, type, value, tree, Then(field, type, value, tree))
<1> DEFINE e == [field |-> field, type |-> type, value |-> value]
           t == Then(field, type, value, tree)
<1>1. /\ tree.keys \in SUBSET Nat /\ tree.entries \in Seq(TreeEntry) /\ tree.raised \in BOOLEAN
      /\ tree = [keys |-> tree.keys, entries |-> tree.entries, raised |-> tree.raised]
  BY DEF Trees
<1>2. t = [keys |-> tree.keys \union {field}, entries |-> <<e>> \o tree.entries,
           raised |-> tree.raised]
  BY DEF Then
<1>3. e \in TreeEntry
  BY DEF TreeEntry
<1> HIDE DEF e, t
<1>4. <<e>> \o tree.entries \in Seq(TreeEntry)
  BY <1>1, <1>3
<1>5. tree.keys \union {field} \in SUBSET Nat
  BY <1>1
<1>6. /\ t \in Trees
      /\ t.keys = tree.keys \union {field} /\ t.raised = tree.raised
      /\ t.entries = <<e>> \o tree.entries
  BY <1>1, <1>2, <1>4, <1>5 DEF Trees
<1>7. QED
  BY <1>6 DEF Follows, e, t

\* A node whose tag is whole, or none.
LEMMA NodeIs ==
  ASSUME NEW data, NEW f, NEW tag, tag = Decode(data)
  PROVE  Node(data, f) = IF ~ tag.ok \/ tag.value \div 8 = 0 THEN Nothing
                         ELSE Whole(tag.value \div 8, tag.value % 8, tag, Decode(tag.rest), f)
BY DEF Node, Whole, Kind

\* The branches of a node are these cases.
LEMMA WholeIs ==
  ASSUME NEW field, NEW wire \in Nat, NEW tag, NEW number, NEW f
  PROVE  Cases(field, wire, tag, number, f, Whole(field, wire, tag, number, f))
<1> DEFINE w == Whole(field, wire, tag, number, f)
           raw == SubSeq(number.rest, 1, number.value)
           a == Then(field, "varint", number.value, f[number.rest])
           b == Then(field, Kind(raw, f[raw]), raw, f[After(number.rest, number.value)])
           c == Then(field, IF wire = 1 THEN "fixed64" ELSE "fixed32",
                     Little(tag.rest, Fixed(wire)), f[After(tag.rest, Fixed(wire))])
           fits == number.value <= Len(number.rest)
           there == Fixed(wire) <= Len(tag.rest)
           ok == number.ok
<1>1. w = CASE wire = 0 /\ ok -> a
            [] wire = 2 /\ ok /\ fits -> b
            [] wire \in {0, 2} /\ ~ ok -> Raise
            [] wire \in {1, 5} /\ there -> c
            [] OTHER -> Stub(field)
  BY DEF Whole
<1> HIDE DEF w, a, b, c, fits, there, ok
<1>2. wire = 0 /\ ok => w = a
  BY <1>1
<1>3. wire = 2 /\ ok /\ fits => w = b
  BY <1>1
<1>4. wire = 2 /\ ok /\ ~ fits => w = Stub(field)
  BY <1>1
<1>5. (wire = 0 \/ wire = 2) /\ ~ ok => w = Raise
  BY <1>1
<1>6. (wire = 1 \/ wire = 5) /\ there => w = c
  BY <1>1
<1>7. (wire = 1 \/ wire = 5) /\ ~ there => w = Stub(field)
  BY <1>1
<1>8. wire # 0 /\ wire # 1 /\ wire # 2 /\ wire # 5 => w = Stub(field)
  BY <1>1
<1>9. QED
  BY <1>2, <1>3, <1>4, <1>5, <1>6, <1>7, <1>8, Zenon
     DEF Cases, w, a, b, c, raw, fits, there, ok

\* A fixed value is a number.
LEMMA LittleIs ==
  ASSUME NEW data \in Seq(Byte), NEW n \in 0..Len(data)
  PROVE  Little(data, n) \in Nat
<1>1. SubSeq(data, 1, n) \in Seq(Byte)
  BY FrontIs
<1>2. SubSeq(data, 1, n) \in Seq(Nat) /\ Group + 1 \in Nat
  BY <1>1, BytesAreNumbers, MoreIs
<1>3. QED
  BY <1>2, NumberCons DEF Little

\* What a tag and a number leave is shorter than the payload.
LEMMA RestsAre ==
  ASSUME NEW data \in Seq(Byte), NEW tag, tag = Decode(data), tag.ok,
         NEW number, number = Decode(tag.rest)
  PROVE  /\ tag.value \div 8 \in Nat /\ tag.value % 8 \in Nat
         /\ tag.rest \in Seq(Byte) /\ number.value \in Nat
         /\ number.ok => Shorter(number.rest, data)
         /\ number.ok /\ number.value <= Len(number.rest) =>
              /\ Shorter(SubSeq(number.rest, 1, number.value), data)
              /\ Shorter(After(number.rest, number.value), data)
         /\ \A n \in Nat : n <= Len(tag.rest) =>
              Shorter(After(tag.rest, n), data) /\ Little(tag.rest, n) \in Nat
<1>1. tag.value \in Nat /\ tag.rest \in Seq(Byte) /\ Len(tag.rest) < Len(data)
  BY DecodeType
<1>2. /\ number.value \in Nat /\ number.rest \in Seq(Byte)
      /\ number.ok => Len(number.rest) < Len(tag.rest)
  BY <1>1, DecodeType
<1>3. Len(data) \in Nat /\ Len(tag.rest) \in Nat /\ Len(number.rest) \in Nat
  BY <1>1, <1>2
<1>4. number.ok => Len(number.rest) < Len(data)
  BY <1>1, <1>2, <1>3
<1>5. tag.value \div 8 \in Nat /\ tag.value % 8 \in Nat
  BY <1>1
<1> DEFINE k == number.value
           r == number.rest
           t == tag.rest
<1>6. ASSUME number.ok, k <= Len(r) PROVE Shorter(SubSeq(r, 1, k), data) /\ Shorter(After(r, k), data)
  <2>1. k \in 0..Len(r) /\ r \in Seq(Byte) /\ Len(r) < Len(data)
    BY <1>2, <1>3, <1>4, <1>6
  <2> HIDE DEF k, r
  <2>2. SubSeq(r, 1, k) \in Seq(Byte) /\ Len(SubSeq(r, 1, k)) = k
    BY <2>1, FrontIs
  <2>3. After(r, k) \in Seq(Byte) /\ Len(After(r, k)) = Len(r) - k
    BY <2>1, AfterIs
  <2>4. k < Len(data) /\ Len(r) - k < Len(data)
    BY <2>1, <1>3
  <2>5. QED
    BY <2>2, <2>3, <2>4 DEF Shorter
<1>7. ASSUME NEW n \in Nat, n <= Len(t) PROVE Shorter(After(t, n), data) /\ Little(t, n) \in Nat
  <2>1. n \in 0..Len(t) /\ t \in Seq(Byte) /\ Len(t) < Len(data) /\ Len(t) \in Nat
    BY <1>1, <1>3, <1>7
  <2> HIDE DEF t
  <2>2. After(t, n) \in Seq(Byte) /\ Len(After(t, n)) = Len(t) - n /\ Little(t, n) \in Nat
    BY <2>1, AfterIs, LittleIs
  <2>3. Len(t) - n < Len(data)
    BY <1>3, <2>1
  <2>4. QED
    BY <2>2, <2>3 DEF Shorter
<1>8. number.ok => Shorter(number.rest, data)
  BY <1>2, <1>4 DEF Shorter
<1>9. QED
  BY <1>1, <1>2, <1>5, <1>6, <1>7, <1>8

\* The cases of a step.
LEMMA Wires ==
  ASSUME NEW wire \in Nat
  PROVE  wire = 0 \/ wire = 2 \/ wire = 1 \/ wire = 5 \/ (wire # 0 /\ wire # 1 /\ wire # 2 /\ wire # 5)
OBVIOUS

\* A step depends on what is made of shorter payloads only.
LEMMA NodeLocal ==
  ASSUME NEW data \in Seq(Byte), NEW f, NEW g,
         \A s : Shorter(s, data) => f[s] = g[s]
  PROVE  Node(data, f) = Node(data, g)
<1> DEFINE tag == Decode(data)
           number == Decode(tag.rest)
           field == tag.value \div 8
           wire == tag.value % 8
           raw == SubSeq(number.rest, 1, number.value)
           F == Whole(field, wire, tag, number, f)
           G == Whole(field, wire, tag, number, g)
<1>1. SUFFICES ASSUME tag.ok PROVE F = G
  <2>1. /\ Node(data, f) = IF ~ tag.ok \/ field = 0 THEN Nothing ELSE F
        /\ Node(data, g) = IF ~ tag.ok \/ field = 0 THEN Nothing ELSE G
    BY NodeIs
  <2> HIDE DEF F, G, tag, field
  <2>2. QED
    BY <2>1
<1>2. /\ wire \in Nat
      /\ number.ok => Shorter(number.rest, data)
      /\ number.ok /\ number.value <= Len(number.rest) =>
           Shorter(raw, data) /\ Shorter(After(number.rest, number.value), data)
      /\ \A n \in Nat : n <= Len(tag.rest) => Shorter(After(tag.rest, n), data)
  <2> HIDE DEF tag
  <2>1. tag = Decode(data)
    BY DEF tag
  <2>2. QED
    BY <1>1, <2>1, RestsAre
<1>3. Cases(field, wire, tag, number, f, F) /\ Cases(field, wire, tag, number, g, G)
  <2> HIDE DEF field, wire, tag, number
  <2>1. QED
    BY <1>2, WholeIs
<1> HIDE DEF tag, number, field, wire, raw, F, G
<1>4. CASE wire = 0 /\ number.ok
  BY <1>2, <1>4, <1>3 DEF Cases
<1>5. CASE wire = 2 /\ number.ok /\ number.value <= Len(number.rest)
  BY <1>2, <1>5, <1>3 DEF Cases, raw
<1>6. CASE wire = 2 /\ number.ok /\ ~ (number.value <= Len(number.rest))
  BY <1>2, <1>6, <1>3 DEF Cases
<1>7. CASE (wire = 0 \/ wire = 2) /\ ~ number.ok
  BY <1>2, <1>7, <1>3 DEF Cases
<1>8. CASE (wire = 1 \/ wire = 5) /\ Fixed(wire) <= Len(tag.rest)
  <2> DEFINE n == Fixed(wire)
             type == IF wire = 1 THEN "fixed64" ELSE "fixed32"
  <2>1. n \in Nat
    BY <1>8, FixedAssumption
  <2>2. /\ F = Then(field, type, Little(tag.rest, n), f[After(tag.rest, n)])
        /\ G = Then(field, type, Little(tag.rest, n), g[After(tag.rest, n)])
    BY <1>2, <1>8, <1>3 DEF Cases
  <2>3. n <= Len(tag.rest)
    BY <1>8
  <2> HIDE DEF n, type
  <2>4. f[After(tag.rest, n)] = g[After(tag.rest, n)]
    BY <1>2, <2>1, <2>3
  <2>5. QED
    BY <2>2, <2>4
<1>9. CASE (wire = 1 \/ wire = 5) /\ ~ (Fixed(wire) <= Len(tag.rest))
  BY <1>2, <1>9, <1>3 DEF Cases
<1>10. CASE wire # 0 /\ wire # 1 /\ wire # 2 /\ wire # 5
  BY <1>2, <1>10, <1>3 DEF Cases
<1>11. QED
  BY <1>2, <1>4, <1>5, <1>6, <1>7, <1>8, <1>9, <1>10, Wires

\* A step makes a tree of trees.
LEMMA NodeType ==
  ASSUME NEW data \in Seq(Byte), NEW f \in [Seq(Byte) -> Trees]
  PROVE  Node(data, f) \in Trees
<1> DEFINE tag == Decode(data)
           number == Decode(tag.rest)
           field == tag.value \div 8
           wire == tag.value % 8
           raw == SubSeq(number.rest, 1, number.value)
           F == Whole(field, wire, tag, number, f)
<1>1. SUFFICES ASSUME tag.ok PROVE F \in Trees
  <2>1. Node(data, f) = IF ~ tag.ok \/ field = 0 THEN Nothing ELSE F
    BY NodeIs
  <2>2. Nothing \in Trees
    BY SimpleTrees
  <2> HIDE DEF F, tag, field
  <2>3. QED
    BY <2>1, <2>2
<1>2. /\ field \in Nat /\ wire \in Nat /\ number.value \in Nat
      /\ number.ok => Shorter(number.rest, data)
      /\ number.ok /\ number.value <= Len(number.rest) =>
           Shorter(raw, data) /\ Shorter(After(number.rest, number.value), data)
      /\ \A n \in Nat : n <= Len(tag.rest) =>
           Shorter(After(tag.rest, n), data) /\ Little(tag.rest, n) \in Nat
  <2> HIDE DEF tag
  <2>1. tag = Decode(data)
    BY DEF tag
  <2>2. QED
    BY <1>1, <2>1, RestsAre
<1>3. Cases(field, wire, tag, number, f, F)
  <2> HIDE DEF field, wire, tag, number
  <2>1. QED
    BY <1>2, WholeIs
<1> HIDE DEF tag, number, field, wire, raw, F
<1>4. \A s : Shorter(s, data) => f[s] \in Trees
  BY DEF Shorter
<1>5. Raise \in Trees /\ Stub(field) \in Trees
  BY <1>2, SimpleTrees
<1>6. CASE wire = 0 /\ number.ok
  <2>1. F = Then(field, "varint", number.value, f[number.rest])
    BY <1>2, <1>6, <1>3 DEF Cases
  <2>2. f[number.rest] \in Trees /\ number.value \in TreeValue
    BY <1>2, <1>4, <1>6 DEF TreeValue
  <2>3. QED
    BY <1>2, <2>1, <2>2, ThenIs DEF Follows
<1>7. CASE wire = 2 /\ number.ok /\ number.value <= Len(number.rest)
  <2> DEFINE kind == Kind(raw, f[raw])
             tree == f[After(number.rest, number.value)]
  <2>1. F = Then(field, kind, raw, tree)
    BY <1>2, <1>7, <1>3 DEF Cases, raw
  <2>2. tree \in Trees /\ raw \in TreeValue
    BY <1>2, <1>4, <1>7 DEF Shorter, TreeValue
  <2>3. kind \in {"varint", "fixed64", "fixed32", "string", "nested", "bytes"}
    BY DEF Kind
  <2> HIDE DEF kind, tree
  <2>4. QED
    BY <1>2, <2>1, <2>2, <2>3, ThenIs DEF Follows
<1>8. CASE wire = 2 /\ number.ok /\ ~ (number.value <= Len(number.rest))
  BY <1>2, <1>5, <1>8, <1>3 DEF Cases
<1>9. CASE (wire = 0 \/ wire = 2) /\ ~ number.ok
  BY <1>2, <1>5, <1>9, <1>3 DEF Cases
<1>10. CASE (wire = 1 \/ wire = 5) /\ Fixed(wire) <= Len(tag.rest)
  <2> DEFINE n == Fixed(wire)
             type == IF wire = 1 THEN "fixed64" ELSE "fixed32"
             value == Little(tag.rest, n)
             tree == f[After(tag.rest, n)]
  <2>1. n \in Nat
    BY <1>10, FixedAssumption
  <2>2. F = Then(field, type, value, tree)
    BY <1>2, <1>10, <1>3 DEF Cases
  <2>3. n <= Len(tag.rest)
    BY <1>10
  <2>4. type \in {"varint", "fixed64", "fixed32", "string", "nested", "bytes"}
    OBVIOUS
  <2> HIDE DEF n, type
  <2>5. tree \in Trees /\ value \in TreeValue
    BY <1>2, <1>4, <2>1, <2>3 DEF TreeValue
  <2> HIDE DEF tree, value
  <2>6. QED
    BY <1>2, <2>2, <2>4, <2>5, ThenIs DEF Follows
<1>11. CASE (wire = 1 \/ wire = 5) /\ ~ (Fixed(wire) <= Len(tag.rest))
  BY <1>2, <1>5, <1>11, <1>3 DEF Cases
<1>12. CASE wire # 0 /\ wire # 1 /\ wire # 2 /\ wire # 5
  BY <1>2, <1>5, <1>12, <1>3 DEF Cases
<1>13. QED
  BY <1>2, <1>6, <1>7, <1>8, <1>9, <1>10, <1>11, <1>12, Wires

\* Every payload is dissected.
LEMMA TreeIs ==
  \A data \in Seq(Byte) : Tree[data] = Node(data, Tree) /\ Tree[data] \in Trees
<1> DEFINE S == Seq(Byte)
           depth == [s \in S |-> Len(s)]
           body == [p \in S \X [S -> Trees] |-> Node(p[1], p[2])]
<1>1. \A s \in S, f \in [S -> Trees] : body[<<s, f>>] = Node(s, f) /\ Node(s, f) \in Trees
  BY NodeType
<1>2. body \in [S \X [S -> Trees] -> Trees]
  BY <1>1
<1>3. depth \in [S -> Nat] /\ \A s \in S : depth[s] = Len(s)
  OBVIOUS
<1>4. Contracts(S, depth, Trees, body)
  <2>1. ASSUME NEW s \in S, NEW f \in [S -> Trees], NEW g \in [S -> Trees],
               \A r \in S : depth[r] < depth[s] => f[r] = g[r]
        PROVE  body[<<s, f>>] = body[<<s, g>>]
    <3> HIDE DEF depth, body
    <3>1. \A r : Shorter(r, s) => f[r] = g[r]
      BY <1>3, <2>1 DEF Shorter
    <3>2. Node(s, f) = Node(s, g)
      BY <3>1, NodeLocal
    <3>3. QED
      BY <1>1, <3>2
  <2> HIDE DEF body, depth, S
  <2>2. QED
    BY <2>1 DEF Contracts
<1>5. PICK f \in [S -> Trees] : Recurs(S, body, f)
  <2>1. Trees # {}
    BY SimpleTrees
  <2> HIDE DEF S, depth, body
  <2>2. QED
    BY <1>2, <1>3, <1>4, <2>1, Recursion
<1>6. f = [s \in S |-> Node(s, f)]
  <2>1. \A s \in S : f[s] = Node(s, f)
    <3> HIDE DEF body, S
    <3>1. QED
      BY <1>1, <1>5 DEF Recurs
  <2> HIDE DEF S
  <2>2. QED
    BY <2>1
<1>7. Tree = [s \in S |-> Node(s, Tree)]
  <2>1. Tree = CHOOSE t : t = [s \in S |-> Node(s, t)]
    BY DEF Tree
  <2> HIDE DEF S
  <2>2. QED
    BY <1>6, <2>1
<1> DEFINE Settled == {n \in Nat : \A s \in S : Len(s) = n => Tree[s] = f[s]}
<1>8. ASSUME NEW n \in Nat, \A m \in Nat : m < n => m \in Settled PROVE n \in Settled
  <2>1. ASSUME NEW s \in S, Len(s) = n PROVE Tree[s] = f[s]
    <3>1. ASSUME NEW r, Shorter(r, s) PROVE Tree[r] = f[r]
      BY <2>1, <3>1, <1>8 DEF Shorter
    <3>2. Node(s, Tree) = Node(s, f)
      BY <3>1, NodeLocal
    <3> HIDE DEF S
    <3>3. Tree[s] = Node(s, Tree) /\ f[s] = Node(s, f)
      BY <1>6, <1>7
    <3>4. QED
      BY <3>2, <3>3
  <2>2. QED
    BY <2>1
<1>9. \A n \in Nat : n \in Settled
  <2> HIDE DEF Settled
  <2>1. QED
    BY <1>8, StrongInduction
<1>10. ASSUME NEW s \in S PROVE Tree[s] = Node(s, Tree) /\ Tree[s] \in Trees
  <2>1. Len(s) \in Nat /\ s \in S
    OBVIOUS
  <2>2. Tree[s] = f[s]
    BY <1>9, <2>1
  <2> HIDE DEF S
  <2>3. QED
    BY <1>7, <2>2
<1>11. QED
  BY <1>10

\* Every record is one of these.
LEMMA RecordIs ==
  ASSUME NEW r \in Record
  PROVE  /\ r.field \in Nat \ {0} /\ WireOf(r.type) \in 0..7
         /\ 8 * r.field + WireOf(r.type) < Limit
         /\ BytesOf(r) = Encoded[8 * r.field + WireOf(r.type)] \o Body(r)
         /\ Numbered(r) \/ Measured(r) \/ \E wire, n \in Nat : Fixedly(r, wire, n)
<1> DEFINE w == WireOf(r.type)
<1>1. /\ r.field \in Nat \ {0} /\ 8 * r.field + 7 < Limit
      /\ \/ r.type = "varint" /\ r.value \in 0..(Limit - 1)
         \/ r.type = "length" /\ r.payload \in Seq(Byte) /\ Len(r.payload) < Limit
         \/ /\ r.type \in {"fixed64", "fixed32"}
            /\ r.value \in 0..(Pow2[(Group + 1) * Fixed(w)] - 1)
  BY RecordAssumption
<1>2. BytesOf(r) = Encoded[8 * r.field + w] \o Body(r)
  BY DEF BytesOf, Body
<1>3. /\ WireOf("varint") = 0 /\ WireOf("length") = 2
      /\ WireOf("fixed64") = 1 /\ WireOf("fixed32") = 5
  BY DEF WireOf
<1>4. Limit \in Nat
  BY Within
<1>5. ASSUME r.type = "varint", r.value \in 0..(Limit - 1) PROVE Numbered(r) /\ w \in 0..7
  BY <1>5, <1>4, <1>3 DEF Body, Numbered
<1>6. ASSUME r.type = "length", r.payload \in Seq(Byte), Len(r.payload) < Limit
      PROVE  Measured(r) /\ w \in 0..7
  <2>1. Body(r) = Encoded[Len(r.payload)] \o r.payload
    BY <1>6 DEF Body
  <2>2. w = 2
    BY <1>3, <1>6
  <2>3. QED
    BY <1>6, <2>1, <2>2 DEF Measured
<1>7. ASSUME r.type \in {"fixed64", "fixed32"},
             r.value \in 0..(Pow2[(Group + 1) * Fixed(w)] - 1)
      PROVE  (\E wire, n \in Nat : Fixedly(r, wire, n)) /\ w \in 0..7
  <2>1. Body(r) = Digits(r.value, Fixed(w))
    BY <1>7 DEF Body
  <2>2. w = (IF r.type = "fixed64" THEN 1 ELSE 5) /\ (w = 1 \/ w = 5)
        /\ r.type = (IF w = 1 THEN "fixed64" ELSE "fixed32")
    BY <1>3, <1>7
  <2>3. Fixed(w) \in Nat
    BY <2>2, FixedAssumption
  <2>4. Pow2[(Group + 1) * Fixed(w)] \in Nat
    BY MoreIs, <2>3, PowersDefined
  <2>5. r.value \in Nat /\ r.value < Pow2[(Group + 1) * Fixed(w)]
    BY <1>7, <2>4
  <2> HIDE DEF w
  <2>6. Fixedly(r, w, Fixed(w))
    BY <2>1, <2>2, <2>3, <2>5 DEF Fixedly, w
  <2>7. w \in Nat /\ w \in 0..7
    BY <2>2
  <2>8. QED
    BY <2>3, <2>6, <2>7
<1>8. w \in 0..7 /\ (Numbered(r) \/ Measured(r) \/ \E wire, n \in Nat : Fixedly(r, wire, n))
  <2> HIDE DEF w
  <2>1. QED
    BY <1>1, <1>5, <1>6, <1>7
<1>9. 8 * r.field + w < Limit
  <2> HIDE DEF w
  <2>1. QED
    BY <1>1, <1>4, <1>8
<1>10. QED
  BY <1>1, <1>2, <1>8, <1>9

\* A payload that starts with a tag.
Read8(field, wire, rest) == [ok |-> TRUE, value |-> 8 * field + wire, rest |-> rest]

\* The tag of such a payload is decoded, and its type decides the case.
LEMMA Tagged ==
  ASSUME NEW field \in Nat \ {0}, NEW wire \in 0..7, 8 * field + wire < Limit,
         NEW rest \in Seq(Byte), NEW data, data = Encoded[8 * field + wire] \o rest,
         NEW number, number = Decode(rest)
  PROVE  /\ data \in Seq(Byte)
         /\ Decode(data) = Read8(field, wire, rest)
         /\ Cases(field, wire, Read8(field, wire, rest), number, Tree, Tree[data])
<1> DEFINE v == 8 * field + wire
           tag == Read8(field, wire, rest)
<1>1. v \in Nat /\ v < Limit /\ wire \in Nat
  OBVIOUS
<1>2. v % 8 = wire /\ v \div 8 = field
  <2>1. 8 \in Nat \ {0} /\ v \in Int /\ field \in Int /\ wire \in 0..(8 - 1) /\ v = 8 * field + wire
    OBVIOUS
  <2> HIDE DEF v
  <2>2. QED
    BY <2>1, ModIs
<1>3. Encoded[v] \in Seq(Byte)
  BY <1>1, EncodedDefined
<1>4. data \in Seq(Byte)
  BY <1>3
<1>5. Decode(data) = tag
  BY <1>1, DecodeEncoded DEF Read8
<1>6. tag.ok = TRUE /\ tag.value = v /\ tag.rest = rest
  BY DEF Read8
<1> HIDE DEF v, tag
<1>7. Tree[data] = Node(data, Tree)
  BY <1>4, TreeIs
<1>8. Node(data, Tree) = IF ~ tag.ok \/ tag.value \div 8 = 0 THEN Nothing
                         ELSE Whole(tag.value \div 8, tag.value % 8, tag, Decode(tag.rest), Tree)
  BY <1>5, NodeIs
<1>9. Tree[data] = Whole(field, wire, tag, number, Tree)
  BY <1>2, <1>6, <1>7, <1>8
<1>10. Cases(field, wire, tag, number, Tree, Tree[data])
  BY <1>1, <1>9, WholeIs
<1>11. QED
  BY <1>4, <1>5, <1>10 DEF tag

\* Sequences joined, in which order ever.
LEMMA JoinedTwice ==
  ASSUME NEW S, NEW a \in Seq(S), NEW b \in Seq(S), NEW c \in Seq(S)
  PROVE  (a \o b) \o c = a \o (b \o c)
<1> DEFINE ab == a \o b
           bc == b \o c
           x == ab \o c
           y == a \o bc
           n == Len(a)
           m == Len(b)
           k == Len(c)
<1>1. n \in Nat /\ m \in Nat /\ k \in Nat
  OBVIOUS
<1>2. /\ ab \in Seq(S) /\ Len(ab) = n + m
      /\ \A i \in 1..n : ab[i] = a[i]
      /\ \A i \in 1..m : ab[n + i] = b[i]
  BY JoinedIs DEF Joined
<1>3. /\ bc \in Seq(S) /\ Len(bc) = m + k
      /\ \A i \in 1..m : bc[i] = b[i]
      /\ \A i \in 1..k : bc[m + i] = c[i]
  BY JoinedIs DEF Joined
<1> HIDE DEF ab, bc
<1>4. /\ x \in Seq(S) /\ Len(x) = (n + m) + k
      /\ \A i \in 1..(n + m) : x[i] = ab[i]
      /\ \A i \in 1..k : x[(n + m) + i] = c[i]
  <2>1. Joined(S, ab, c, x)
    BY <1>2, JoinedIs
  <2> HIDE DEF x
  <2>2. QED
    BY <1>2, <2>1 DEF Joined
<1>5. /\ y \in Seq(S) /\ Len(y) = n + (m + k)
      /\ \A i \in 1..n : y[i] = a[i]
      /\ \A i \in 1..(m + k) : y[n + i] = bc[i]
  <2>1. Joined(S, a, bc, y)
    BY <1>3, JoinedIs
  <2> HIDE DEF y
  <2>2. QED
    BY <1>3, <2>1 DEF Joined
<1> HIDE DEF x, y, n, m, k
<1>6. ASSUME NEW i \in 1..(n + m + k) PROVE x[i] = y[i]
  <2>1. CASE i <= n
    BY <1>1, <2>1, <1>2, <1>4, <1>5
  <2>2. CASE i > n /\ i <= n + m
    <3> DEFINE j == i - n
    <3>1. j \in 1..m /\ j \in 1..(m + k) /\ n + j = i /\ i \in 1..(n + m)
      BY <1>1, <2>2
    <3> HIDE DEF j
    <3>2. x[i] = b[j]
      BY <1>2, <1>4, <3>1
    <3>3. y[i] = b[j]
      BY <1>3, <1>5, <3>1
    <3>4. QED
      BY <3>2, <3>3
  <2>3. CASE i > n + m
    <3> DEFINE j == i - (n + m)
    <3>1. j \in 1..k /\ m + j \in 1..(m + k) /\ n + (m + j) = i /\ (n + m) + j = i
      BY <1>1, <2>3
    <3> HIDE DEF j
    <3>2. x[i] = c[j]
      BY <1>4, <3>1
    <3>3. y[i] = c[j]
      BY <1>3, <1>5, <3>1
    <3>4. QED
      BY <3>2, <3>3
  <2>4. QED
    BY <1>1, <2>1, <2>2, <2>3
<1>7. n + m + k \in Nat /\ (n + m) + k = n + m + k /\ n + (m + k) = n + m + k
  BY <1>1
<1>8. x = y
  BY <1>4, <1>5, <1>6, <1>7
<1>9. QED
  BY <1>8 DEF x, y, ab, bc

\* The front of two sequences joined.
LEMMA FrontJoined ==
  ASSUME NEW S, NEW s \in Seq(S), NEW t \in Seq(S), NEW m \in 0..Len(s \o t)
  PROVE  /\ m < Len(s) => SubSeq(s \o t, 1, m) = SubSeq(s, 1, m)
         /\ m >= Len(s) => /\ m - Len(s) \in 0..Len(t)
                           /\ SubSeq(s \o t, 1, m) = s \o SubSeq(t, 1, m - Len(s))
<1> DEFINE d == s \o t
           n == Len(s)
           k == Len(t)
           f == SubSeq(d, 1, m)
<1>1. /\ d \in Seq(S) /\ Len(d) = n + k
      /\ \A i \in 1..n : d[i] = s[i]
      /\ \A i \in 1..k : d[n + i] = t[i]
  BY JoinedIs DEF Joined
<1>2. n \in Nat /\ k \in Nat /\ m \in 0..(n + k) /\ m \in 0..Len(d) /\ m \in Nat
  BY <1>1
<1> HIDE DEF d
<1>3. f \in Seq(S) /\ Len(f) = m /\ \A i \in 1..m : f[i] = d[i]
  BY <1>1, <1>2, FrontIs
<1> HIDE DEF f
<1>4. ASSUME m < n PROVE f = SubSeq(s, 1, m)
  <2> DEFINE u == SubSeq(s, 1, m)
  <2>1. m \in 0..n
    BY <1>2, <1>4
  <2>2. u \in Seq(S) /\ Len(u) = m /\ \A i \in 1..m : u[i] = s[i]
    BY <2>1, FrontIs
  <2> HIDE DEF u
  <2>3. \A i \in 1..m : i \in 1..n
    BY <1>2, <1>4
  <2>4. \A i \in 1..m : f[i] = u[i]
    BY <1>1, <1>3, <2>2, <2>3
  <2>5. f = u
    BY <1>3, <2>2, <2>4
  <2>6. QED
    BY <2>5 DEF u
<1>5. ASSUME m >= n PROVE m - n \in 0..k /\ f = s \o SubSeq(t, 1, m - n)
  <2> DEFINE j == m - n
             u == SubSeq(t, 1, j)
             v == s \o u
  <2>1. j \in 0..k /\ n + j = m /\ j \in Nat
    BY <1>2, <1>5
  <2> HIDE DEF j
  <2>2. u \in Seq(S) /\ Len(u) = j /\ \A i \in 1..j : u[i] = t[i]
    BY <2>1, FrontIs
  <2> HIDE DEF u
  <2>3. /\ v \in Seq(S) /\ Len(v) = n + Len(u)
        /\ \A i \in 1..n : v[i] = s[i]
        /\ \A i \in 1..Len(u) : v[n + i] = u[i]
    <3>1. Joined(S, s, u, v)
      BY <2>2, JoinedIs
    <3> HIDE DEF v
    <3>2. QED
      BY <3>1 DEF Joined
  <2> HIDE DEF v
  <2>4. ASSUME NEW i \in 1..m PROVE f[i] = v[i]
    <3>1. CASE i <= n
      BY <1>2, <3>1, <1>1, <1>3, <2>3
    <3>2. CASE i > n
      <4> DEFINE h == i - n
      <4>1. h \in 1..j /\ h \in 1..k /\ n + h = i
        BY <1>2, <2>1, <3>2
      <4> HIDE DEF h
      <4>2. QED
        BY <1>1, <1>3, <2>2, <2>3, <4>1
    <3>3. QED
      BY <1>2, <3>1, <3>2
  <2>5. Len(v) = m
    BY <2>1, <2>2, <2>3
  <2>6. f = v
    BY <1>3, <2>3, <2>4, <2>5
  <2>7. QED
    BY <2>1, <2>6 DEF v, u, j
<1>6. QED
  BY <1>4, <1>5 DEF f, d

\* The bytes of a record.
LEMMA BytesAre ==
  ASSUME NEW r \in Record
  PROVE  Body(r) \in Seq(Byte) /\ BytesOf(r) \in Seq(Byte)
<1> DEFINE body == Body(r)
<1>1. ASSUME Numbered(r) PROVE body \in Seq(Byte)
  BY <1>1, EncodedDefined DEF Numbered
<1>2. ASSUME Measured(r) PROVE body \in Seq(Byte)
  <2>1. r.payload \in Seq(Byte) /\ body = Encoded[Len(r.payload)] \o r.payload
    BY <1>2 DEF Measured
  <2>2. Encoded[Len(r.payload)] \in Seq(Byte)
    BY <2>1, EncodedDefined
  <2> HIDE DEF body
  <2>3. QED
    BY <2>1, <2>2
<1>3. ASSUME NEW w \in Nat, NEW k, Fixedly(r, w, k) PROVE body \in Seq(Byte)
  BY <1>3, NumberDigits DEF Fixedly
<1>4. body \in Seq(Byte)
  BY <1>1, <1>2, <1>3, RecordIs
<1>5. BytesOf(r) \in Seq(Byte)
  <2> DEFINE wire == WireOf(r.type)
             tag == 8 * r.field + wire
             code == Encoded[tag]
  <2>1. tag \in Nat /\ BytesOf(r) = code \o body
    <3>1. r.field \in Nat /\ wire \in 0..7 /\ BytesOf(r) = code \o body
      BY RecordIs
    <3> HIDE DEF wire, code, body
    <3>2. QED
      BY <3>1
  <2> HIDE DEF tag, body
  <2>2. code \in Seq(Byte)
    BY <2>1, EncodedDefined
  <2> HIDE DEF code
  <2>3. QED
    BY <1>4, <2>1, <2>2 DEF body
<1>6. QED
  BY <1>4, <1>5

\* The front of two joined sequences is the first.
LEMMA FrontOf ==
  ASSUME NEW S, NEW s \in Seq(S), NEW t \in Seq(S)
  PROVE  SubSeq(s \o t, 1, Len(s)) = s
<1> DEFINE d == s \o t
           n == Len(s)
           f == SubSeq(d, 1, n)
<1>1. d \in Seq(S) /\ Len(d) = n + Len(t) /\ \A i \in 1..n : d[i] = s[i]
  BY JoinedIs DEF Joined
<1>2. n \in Nat /\ Len(t) \in Nat
  OBVIOUS
<1> HIDE DEF d
<1>3. n \in 0..Len(d)
  BY <1>1, <1>2
<1>4. f \in Seq(S) /\ Len(f) = n /\ \A i \in 1..n : f[i] = d[i]
  BY <1>1, <1>3, FrontIs
<1> HIDE DEF f
<1>5. \A i \in 1..n : f[i] = s[i]
  BY <1>1, <1>4
<1>6. f = s
  BY <1>4, <1>5
<1>7. QED
  BY <1>6 DEF f, d, n

\* A payload that starts with a whole record starts with its entry.
LEMMA TreeRecord ==
  ASSUME NEW r \in Record, NEW rest \in Seq(Byte)
  PROVE  Leads(r, Tree[BytesOf(r) \o rest], Tree[rest])
<1> DEFINE field == r.field
           wire == WireOf(r.type)
           code == Encoded[8 * field + wire]
           body == Body(r)
           after == body \o rest
           number == Decode(after)
           tag == Read8(field, wire, after)
           data == BytesOf(r) \o rest
<1>1. /\ field \in Nat \ {0} /\ wire \in 0..7 /\ 8 * field + wire < Limit
      /\ BytesOf(r) = code \o body
      /\ Numbered(r) \/ Measured(r) \/ \E w, n \in Nat : Fixedly(r, w, n)
  BY RecordIs
<1>2. code \in Seq(Byte)
  <2> HIDE DEF field, wire
  <2>1. 8 * field + wire \in Nat
    BY <1>1
  <2>2. QED
    BY <2>1, EncodedDefined
<1>3. tag.rest = after
  BY DEF Read8
<1> HIDE DEF field, wire, code, body
<1>4. ASSUME body \in Seq(Byte)
      PROVE  after \in Seq(Byte) /\ Cases(field, wire, tag, number, Tree, Tree[data])
  <2>1. after \in Seq(Byte)
    BY <1>4
  <2>2. data = code \o after
    BY <1>1, <1>2, <1>4, JoinedTwice
  <2> HIDE DEF after, data
  <2>3. QED
    BY <1>1, <2>1, <2>2, Tagged DEF code
<1> HIDE DEF after, number, tag, data
<1>5. CASE Numbered(r)
  <2>1. /\ r.type = "varint" /\ wire = 0 /\ r.value \in Nat /\ r.value < Limit
        /\ body = Encoded[r.value]
    BY <1>5 DEF Numbered, wire, body
  <2>2. body \in Seq(Byte)
    BY <2>1, EncodedDefined
  <2>3. Cases(field, wire, tag, number, Tree, Tree[data])
    BY <1>4, <2>2
  <2>4. number = [ok |-> TRUE, value |-> r.value, rest |-> rest]
    BY <2>1, DecodeEncoded DEF number, after
  <2>5. number.ok = TRUE /\ number.value = r.value /\ number.rest = rest
    BY <2>4
  <2>6. Tree[data] = Then(field, "varint", r.value, Tree[rest])
    BY <2>1, <2>3, <2>5 DEF Cases
  <2>7. Holds(r, "varint", r.value)
    BY <2>1 DEF Holds, SameEntry
  <2>8. "varint" \in Types /\ r.value \in TreeValue
    BY <2>1 DEF Types, TreeValue
  <2>9. QED
    BY <2>6, <2>7, <2>8 DEF Leads, data, field
<1>6. CASE Measured(r)
  <2> DEFINE p == r.payload
             n == Len(p)
             raw == SubSeq(number.rest, 1, number.value)
             kind == Kind(raw, Tree[raw])
  <2>1. /\ r.type = "length" /\ wire = 2 /\ p \in Seq(Byte) /\ n < Limit /\ n \in Nat
        /\ body = Encoded[n] \o p
    BY <1>6 DEF Measured, wire, body
  <2>2. Encoded[n] \in Seq(Byte) /\ body \in Seq(Byte)
    <3> HIDE DEF p
    <3>1. Encoded[n] \in Seq(Byte)
      BY <2>1, EncodedDefined
    <3>2. QED
      BY <2>1, <3>1
  <2>3. Cases(field, wire, tag, number, Tree, Tree[data])
    BY <1>4, <2>2
  <2> HIDE DEF p
  <2>4. number = [ok |-> TRUE, value |-> n, rest |-> p \o rest]
    <3>1. after = Encoded[n] \o (p \o rest)
      <4> DEFINE e == Encoded[n]
      <4>1. e \in Seq(Byte) /\ p \in Seq(Byte) /\ body = e \o p
        BY <2>1, <2>2
      <4> HIDE DEF e, n
      <4>2. (e \o p) \o rest = e \o (p \o rest)
        BY <4>1, JoinedTwice
      <4>3. QED
        BY <4>1, <4>2 DEF after, e
    <3>2. p \o rest \in Seq(Byte)
      BY <2>1
    <3>3. Decode(Encoded[n] \o (p \o rest)) =
            IF n < Limit THEN [ok |-> TRUE, value |-> n, rest |-> p \o rest] ELSE Fail
      BY <2>1, <3>2, DecodeEncoded
    <3>4. QED
      BY <2>1, <3>1, <3>3 DEF number
  <2>5. number.ok = TRUE /\ number.value = n /\ number.rest = p \o rest
    BY <2>4
  <2>6. After(p \o rest, n) = rest /\ n <= Len(p \o rest)
    BY <2>1, AfterJoined
  <2>7. Tree[data] = Then(field, kind, raw, Tree[rest])
    BY <2>1, <2>3, <2>5, <2>6 DEF Cases
  <2>8. raw = p
    BY <2>1, <2>5, FrontOf
  <2> DEFINE nested == Tree[raw]
  <2>9. kind \in {"string", "nested", "bytes"} /\ (kind = "string" <=> IsText(p))
    <3>1. kind = IF IsText(raw) THEN "string"
                 ELSE IF ~ nested.raised /\ nested.keys # {} THEN "nested" ELSE "bytes"
      BY DEF Kind
    <3> HIDE DEF kind, nested, raw
    <3>2. QED
      BY <2>8, <3>1
  <2> HIDE DEF kind, raw
  <2>10. Holds(r, kind, raw)
    BY <2>1, <2>8, <2>9 DEF Holds, SameEntry, p
  <2>11. kind \in Types /\ raw \in TreeValue
    BY <2>1, <2>8, <2>9 DEF Types, TreeValue
  <2>12. QED
    BY <2>7, <2>10, <2>11 DEF Leads, data, field
<1>7. ASSUME NEW w \in Nat, NEW n, Fixedly(r, w, n) PROVE Leads(r, Tree[data], Tree[rest])
  <2> DEFINE type == IF w = 1 THEN "fixed64" ELSE "fixed32"
  <2>1. /\ r.type = type /\ (w = 1 \/ w = 5) /\ wire = w
        /\ n = Fixed(w) /\ n \in Nat /\ r.value \in Nat /\ r.value < Pow2[(Group + 1) * n]
        /\ body = Digits(r.value, n)
    BY <1>7 DEF Fixedly, wire, body
  <2>2. body \in Seq(Byte) /\ Len(body) = n /\ Number(body, Group + 1) = r.value
    BY <2>1, NumberDigits
  <2>3. Cases(field, wire, tag, number, Tree, Tree[data])
    BY <1>4, <2>2
  <2>4. After(after, n) = rest /\ n <= Len(after)
    BY <2>2, AfterJoined DEF after
  <2>5. Little(after, n) = r.value
    BY <2>2, FrontOf DEF after, Little
  <2>6. Tree[data] = Then(field, type, r.value, Tree[rest])
    <3>1. /\ w = wire /\ (wire = 1 \/ wire = 5) /\ Fixed(wire) <= Len(tag.rest)
          /\ Fixed(wire) = n /\ tag.rest = after
      BY <1>3, <2>1, <2>4 DEF tag, after
    <3> HIDE DEF type
    <3>2. Tree[data] = Then(field, IF wire = 1 THEN "fixed64" ELSE "fixed32",
                            Little(tag.rest, Fixed(wire)), Tree[After(tag.rest, Fixed(wire))])
      BY <2>3, <3>1 DEF Cases
    <3>3. QED
      BY <2>4, <2>5, <3>1, <3>2 DEF type
  <2>7. Holds(r, type, r.value)
    BY <2>1 DEF Holds, SameEntry
  <2>8. type \in Types /\ r.value \in TreeValue
    BY <2>1 DEF Types, TreeValue
  <2> HIDE DEF type
  <2>9. QED
    BY <2>6, <2>7, <2>8 DEF Leads, field
<1>8. QED
  BY <1>1, <1>5, <1>6, <1>7 DEF data

\* A record that was cut leaves no entry, but may leave its field.
LEMMA TreeCut ==
  ASSUME NEW r \in Record, NEW n \in Nat, n < Len(BytesOf(r)),
         NEW kept, kept = SubSeq(BytesOf(r), 1, n)
  PROVE  kept \in Seq(Byte) /\ LeavesBehind(r, kept)
<1> DEFINE field == r.field
           wire == WireOf(r.type)
           code == Encoded[8 * field + wire]
           body == Body(r)
           m == Len(code)
           j == n - m
           b == SubSeq(body, 1, j)
           number == Decode(b)
           tag == Read8(field, wire, b)
           tree == Tree[kept]
<1>1. /\ field \in Nat \ {0} /\ wire \in 0..7 /\ 8 * field + wire < Limit
      /\ BytesOf(r) = code \o body
      /\ Numbered(r) \/ Measured(r) \/ \E w, k \in Nat : Fixedly(r, w, k)
  BY RecordIs
<1>2. code \in Seq(Byte) /\ 8 * field + wire \in Nat
  <2> HIDE DEF field, wire
  <2>1. 8 * field + wire \in Nat
    BY <1>1
  <2>2. QED
    BY <2>1, EncodedDefined
<1>3. tag.ok = TRUE /\ tag.rest = b
  BY DEF Read8
<1>4. body \in Seq(Byte)
  BY BytesAre
<1> HIDE DEF field, wire, body, code
<1>5. CASE n < m
  <2>1. kept = SubSeq(code, 1, n)
    BY <1>1, <1>2, <1>4, <1>5, FrontJoined
  <2>2. Decode(kept) = Fail /\ kept \in Seq(Byte)
    BY <1>2, <1>5, <2>1, DecodePrefix DEF code
  <2>3. Decode(kept).ok = FALSE
    BY <2>2 DEF Fail
  <2>4. tree = Nothing
    <3>1. tree = Node(kept, Tree)
      BY <2>2, TreeIs
    <3>2. Node(kept, Tree) = Nothing
      <4> DEFINE d == Decode(kept)
      <4>1. Node(kept, Tree) = IF ~ d.ok \/ d.value \div 8 = 0 THEN Nothing
                               ELSE Whole(d.value \div 8, d.value % 8, d, Decode(d.rest), Tree)
        BY NodeIs
      <4> HIDE DEF d
      <4>2. d.ok = FALSE
        BY <2>3 DEF d
      <4>3. QED
        BY <4>1, <4>2
    <3>3. QED
      BY <3>1, <3>2
  <2>5. tree.raised = FALSE /\ tree.entries = <<>> /\ tree.keys = {}
    BY <2>4, SimpleTrees
  <2> HIDE DEF tree
  <2>6. QED
    BY <2>2, <2>3, <2>5 DEF LeavesBehind, tree
<1>6. CASE n >= m
  <2>1. /\ kept = code \o b /\ j \in Nat /\ j < Len(body) /\ j \in 0..Len(body)
        /\ b \in Seq(Byte) /\ Len(b) = j
    <3>1. Len(code \o body) = m + Len(body) /\ m \in Nat /\ Len(body) \in Nat
      BY <1>2, <1>4
    <3>2. n \in 0..Len(code \o body) /\ j \in Nat /\ j < Len(body) /\ j \in 0..Len(body)
      BY <1>1, <1>6, <3>1
    <3> HIDE DEF j
    <3>3. b \in Seq(Byte) /\ Len(b) = j
      BY <1>4, <3>2, FrontIs
    <3>4. kept = code \o b
      <4>1. SubSeq(code \o body, 1, n) = code \o SubSeq(body, 1, n - Len(code))
        BY <1>2, <1>4, <1>6, <3>2, FrontJoined
      <4>2. QED
        BY <1>1, <4>1 DEF j
    <3>5. QED
      BY <3>2, <3>3, <3>4
  <2> HIDE DEF b, j
  <2>2. kept \in Seq(Byte) /\ Decode(kept) = tag /\ Cases(field, wire, tag, number, Tree, tree)
    BY <1>1, <2>1, Tagged DEF code
  <2> HIDE DEF number, tag, tree
  <2>3. SUFFICES \/ r.type \in {"varint", "length"} /\ ~ number.ok /\ tree = Raise
                 \/ r.type \in {"varint", "length"} /\ number.ok /\ tree = Stub(field)
                 \/ r.type \notin {"varint", "length"} /\ tree = Stub(field)
    <3>1. /\ Raise.raised = TRUE
          /\ Stub(field).raised = FALSE /\ Stub(field).entries = <<>>
          /\ Stub(field).keys = {field}
      BY <1>1, SimpleTrees
    <3>2. Decode(kept).ok = TRUE /\ Decode(kept).rest = b
      BY <1>3, <2>2 DEF tag
    <3>3. CASE r.type \in {"varint", "length"} /\ ~ number.ok /\ tree = Raise
      BY <2>2, <3>1, <3>2, <3>3 DEF LeavesBehind, tree, number
    <3>4. CASE r.type \in {"varint", "length"} /\ number.ok /\ tree = Stub(field)
      BY <2>2, <3>1, <3>2, <3>4 DEF LeavesBehind, tree, number, field
    <3>5. CASE r.type \notin {"varint", "length"} /\ tree = Stub(field)
      BY <2>2, <3>1, <3>2, <3>5 DEF LeavesBehind, tree, number, field
    <3>6. QED
      BY <2>3, <3>3, <3>4, <3>5
  <2>4. CASE Numbered(r)
    <3>1. /\ r.type = "varint" /\ wire = 0 /\ r.value \in Nat /\ body = Encoded[r.value]
      BY <2>4 DEF Numbered, wire, body
    <3>2. number = Fail
      BY <2>1, <3>1, DecodePrefix DEF number, b
    <3>3. number.ok = FALSE
      BY <3>2 DEF Fail
    <3>4. tree = Raise
      BY <2>2, <3>1, <3>3 DEF Cases
    <3>5. QED
      BY <3>1, <3>3, <3>4
  <2>5. CASE Measured(r)
    <3> DEFINE p == r.payload
               size == Len(p)
               e == Encoded[size]
    <3>1. /\ r.type = "length" /\ wire = 2 /\ p \in Seq(Byte) /\ size \in Nat /\ size < Limit
          /\ body = e \o p
      BY <2>5 DEF Measured, wire, body
    <3>2. e \in Seq(Byte)
      BY <3>1, EncodedDefined
    <3> HIDE DEF p, e
    <3>3. CASE j < Len(e)
      <4>1. b = SubSeq(e, 1, j)
        BY <2>1, <3>1, <3>2, <3>3, FrontJoined DEF b
      <4>2. number = Fail
        BY <2>1, <3>1, <3>3, <4>1, DecodePrefix DEF number, e
      <4>3. number.ok = FALSE
        BY <4>2 DEF Fail
      <4>4. tree = Raise
        BY <2>2, <3>1, <4>3 DEF Cases
      <4>5. QED
        BY <3>1, <4>3, <4>4
    <3>4. CASE j >= Len(e)
      <4> DEFINE i == j - Len(e)
                 q == SubSeq(p, 1, i)
      <4>1. i \in 0..size /\ b = e \o q
        BY <2>1, <3>1, <3>2, <3>4, FrontJoined DEF b
      <4>2. i < size
        BY <3>1, <3>2, <2>1
      <4> HIDE DEF i
      <4>3. q \in Seq(Byte) /\ Len(q) = i
        BY <3>1, <4>1, FrontIs
      <4> HIDE DEF q
      <4>4. number = [ok |-> TRUE, value |-> size, rest |-> q]
        BY <3>1, <4>3, DecodeEncoded, <4>1 DEF number, e
      <4>5. number.ok = TRUE /\ number.value = size /\ number.rest = q
        BY <4>4
      <4>6. ~ (number.value <= Len(number.rest))
        BY <3>1, <4>1, <4>2, <4>3, <4>5
      <4>7. tree = Stub(field)
        BY <2>2, <3>1, <4>5, <4>6 DEF Cases
      <4>8. QED
        BY <3>1, <4>5, <4>7
    <3>5. Len(e) \in Nat
      BY <3>2
    <3>6. QED
      BY <2>1, <3>3, <3>4, <3>5
  <2>6. ASSUME NEW w \in Nat, NEW k, Fixedly(r, w, k)
        PROVE  r.type \notin {"varint", "length"} /\ tree = Stub(field)
    <3>1. /\ r.type = (IF w = 1 THEN "fixed64" ELSE "fixed32") /\ (w = 1 \/ w = 5) /\ wire = w
          /\ k = Fixed(w) /\ k \in Nat /\ r.value \in Nat /\ r.value < Pow2[(Group + 1) * k]
          /\ body = Digits(r.value, k)
      BY <2>6 DEF Fixedly, wire, body
    <3>2. Len(body) = k
      BY <3>1, NumberDigits
    <3>3. ~ (Fixed(wire) <= Len(tag.rest))
      BY <1>3, <2>1, <3>1, <3>2 DEF tag
    <3>4. tree = Stub(field)
      BY <2>2, <3>1, <3>3 DEF Cases
    <3>5. QED
      BY <3>1, <3>4
  <2>7. QED
    BY <1>1, <2>4, <2>5, <2>6
<1>7. m \in Nat
  BY <1>2
<1>8. QED
  BY <1>5, <1>6, <1>7

\* A payload is its records, one after another, from the last.
LEMMA MessageDefined ==
  ASSUME NEW records \in Seq(Record), NEW kept \in Seq(Byte)
  PROVE  \E f \in [0..Len(records) -> Seq(Byte)] :
           Trails(records, kept, f) /\ Message(records, kept) = f[Len(records)]
<1> DEFINE N == Len(records)
           A == Seq(Byte)
           at(k) == BytesOf(records[N - k + 1])
           step == [p \in (1..N) \X A |-> at(p[1]) \o p[2]]
           last[k \in 0..N] == IF k = 0 THEN kept ELSE at(k) \o last[k - 1]
<1>1. N \in Nat
  OBVIOUS
<1>2. ASSUME NEW k \in 1..N PROVE at(k) \in A
  BY <1>1, BytesAre
<1> HIDE DEF at
<1>3. \A k \in 1..N, t \in A : at(k) \o t \in A
  BY <1>2
<1>4. step \in Steps(N, A)
  <2> HIDE DEF A, N
  <2>1. QED
    BY <1>3 DEF Steps
<1>5. PICK f \in [0..N -> A] : f[0] = kept /\ \A i \in 1..N : f[i] = step[<<i, f[i - 1]>>]
  <2> HIDE DEF step, last
  <2>1. CanIterate(kept, step, N, A)
    BY <1>1, <1>4, Iteration
  <2>2. QED
    BY <2>1 DEF CanIterate, Iterated
<1>6. \A i \in 1..N : f[i] = at(i) \o f[i - 1] /\ i - 1 \in 0..N
  <2>1. \A i \in 1..N : i - 1 \in 0..N
    BY <1>1
  <2> HIDE DEF A, N, last
  <2>2. \A i \in 1..N : <<i, f[i - 1]>> \in (1..N) \X A
    BY <2>1
  <2>3. \A i \in 1..N : step[<<i, f[i - 1]>>] = at(i) \o f[i - 1]
    BY <2>2
  <2>4. QED
    BY <1>5, <2>1, <2>3
<1>7. f = [k \in 0..N |-> IF k = 0 THEN kept ELSE at(k) \o f[k - 1]]
  <2>1. \A i \in 0..N : i = 0 \/ i \in 1..N
    BY <1>1
  <2> HIDE DEF step, last, A, N
  <2>2. QED
    BY <1>5, <1>6, <2>1
<1>8. last = [k \in 0..N |-> IF k = 0 THEN kept ELSE at(k) \o last[k - 1]]
  <2> HIDE DEF step, A, N
  <2>1. QED
    BY <1>7
<1>9. Message(records, kept) = last[N]
  BY DEF Message, at
<1>10. /\ last = [k \in 0..N |-> last[k]] /\ last[0] = kept
       /\ \A i \in 1..N : last[i] = at(i) \o last[i - 1]
  <2>1. 0 \in 0..N /\ \A i \in 1..N : i \in 0..N /\ i # 0
    BY <1>1
  <2> HIDE DEF last, step, A, N
  <2>2. QED
    BY <1>8, <2>1
<1>11. last \in [0..N -> A]
  <2> DEFINE M == {i \in 0..N : last[i] \in A}
  <2>1. 0 \in 0..N /\ kept \in A /\ \A i \in 1..N : i \in 0..N
    BY <1>1
  <2> HIDE DEF last, step, A, N
  <2>2. 0 \in M
    BY <1>10, <2>1
  <2>3. ASSUME NEW i \in 1..N, i - 1 \in M PROVE i \in M
    BY <2>3, <1>10, <1>3, <2>1
  <2> HIDE DEF M
  <2>4. \A i \in 0..N : i \in M
    BY <1>1, <2>2, <2>3, InductionUpto
  <2>5. \A i \in 0..N : last[i] \in A
    BY <2>4 DEF M
  <2>6. QED
    BY <1>10, <2>5
<1> HIDE DEF last, step
<1>12. Trails(records, kept, last)
  BY <1>10 DEF Trails, at
<1>13. QED
  BY <1>9, <1>11, <1>12

\* One more record in front.
LEMMA PiledOneMore ==
  ASSUME NEW records \in Seq(Record), NEW k \in 1..Len(records), NEW base \in Trees,
         NEW tree, Piled(records, k - 1, tree, base),
         NEW more, Leads(records[Len(records) - k + 1], more, tree)
  PROVE  Piled(records, k, more, base)
<1> DEFINE N == Len(records)
           n == N - k
           r == records[N - k + 1]
           m == Len(base.entries)
           j == k - 1
<1>1. N \in Nat /\ k \in Nat /\ j \in Nat /\ n \in Nat /\ n + 1 \in 1..N /\ N - k + 1 = n + 1
      /\ N - j = n + 1 /\ j + 1 = k
  OBVIOUS
<1>2. r \in Record /\ r = records[n + 1]
  BY <1>1
<1>3. base.entries \in Seq(TreeEntry) /\ m \in Nat
  BY DEF Trees
<1>4. /\ tree \in Trees /\ tree.raised = base.raised
      /\ Len(tree.entries) = j + m
      /\ \A i \in 1..j : SameEntry(tree.entries[i], records[(n + 1) + i])
      /\ \A i \in 1..m : tree.entries[j + i] = base.entries[i]
      /\ tree.keys = base.keys \union {records[i].field : i \in ((n + 1) + 1)..N}
  BY <1>1 DEF Piled
<1>5. PICK type \in Types, value \in TreeValue :
        more = Then(r.field, type, value, tree) /\ Holds(r, type, value)
  BY DEF Leads
<1> DEFINE e == [field |-> r.field, type |-> type, value |-> value]
<1>6. /\ more \in Trees /\ more.keys = tree.keys \union {r.field} /\ more.raised = tree.raised
      /\ more.entries = <<e>> \o tree.entries
  <2>1. r.field \in Nat
    BY <1>2, RecordIs
  <2> DEFINE field == r.field
             x == Then(field, type, value, tree)
  <2>2. type \in {"varint", "fixed64", "fixed32", "string", "nested", "bytes"}
    BY DEF Types
  <2>3. field \in Nat /\ more = x
    BY <1>5, <2>1
  <2> HIDE DEF field
  <2>4. Follows(field, type, value, tree, x)
    BY <1>4, <2>2, <2>3, ThenIs
  <2> HIDE DEF x
  <2>5. QED
    BY <2>3, <2>4 DEF Follows, field
<1>7. SameEntry(e, r)
  BY <1>5 DEF Holds
<1>8. tree.entries \in Seq(TreeEntry)
  BY <1>4 DEF Trees
<1> HIDE DEF e, m, n, N, r, j
<1> DEFINE s == tree.entries
           t == more.entries
<1>9. Len(t) = k + m /\ t[1] = e /\ \A i \in 2..(k + m) : t[i] = s[i - 1]
  <2>1. Len(s) = j + m /\ s \in Seq(TreeEntry)
    BY <1>4, <1>8
  <2>2. t = <<e>> \o s
    BY <1>6
  <2>3. e \in TreeEntry
    BY <1>2, RecordIs DEF e, TreeEntry, Types
  <2> HIDE DEF s, t
  <2>4. Len(t) = 1 + Len(s) /\ t[1] = e /\ \A i \in 2..(1 + Len(s)) : t[i] = s[i - 1]
    BY <2>1, <2>2, <2>3
  <2>5. 1 + Len(s) = k + m
    BY <1>1, <1>3, <2>1
  <2>6. QED
    BY <2>4, <2>5
<1> HIDE DEF s, t
<1>10. ASSUME NEW i \in 1..k PROVE SameEntry(t[i], records[n + i])
  <2>1. CASE i = 1
    BY <1>2, <1>7, <1>9, <2>1
  <2>2. CASE i # 1
    <3> DEFINE h == i - 1
    <3>1. h \in 1..j /\ (n + 1) + h = n + i /\ i \in 2..(k + m)
      BY <1>1, <1>3, <2>2
    <3>2. t[i] = s[h]
      BY <1>9, <3>1
    <3> HIDE DEF h
    <3>3. SameEntry(s[h], records[(n + 1) + h])
      BY <1>4, <3>1 DEF s
    <3>4. QED
      BY <3>1, <3>2, <3>3
  <2>3. QED
    BY <2>1, <2>2
<1>11. ASSUME NEW i \in 1..m PROVE t[k + i] = base.entries[i]
  <2>1. k + i \in 2..(k + m) /\ (k + i) - 1 = j + i
    BY <1>1, <1>3
  <2>2. t[k + i] = s[j + i]
    BY <1>9, <2>1
  <2>3. QED
    BY <1>4, <2>2 DEF s
<1>12. more.keys = base.keys \union {records[i].field : i \in (n + 1)..N}
  BY <1>1, <1>2, <1>4, <1>6
<1>13. QED
  BY <1>4, <1>6, <1>9, <1>10, <1>11, <1>12 DEF Piled, n, N, m, t

\* All of them: by induction over how many of the last ones.
LEMMA MessageTree ==
  ASSUME NEW records \in Seq(Record), NEW kept \in Seq(Byte)
  PROVE  Piled(records, Len(records), Tree[Message(records, kept)], Tree[kept])
<1> DEFINE N == Len(records)
           base == Tree[kept]
<1>1. N \in Nat
  OBVIOUS
<1>2. PICK f \in [0..N -> Seq(Byte)] : Trails(records, kept, f) /\ Message(records, kept) = f[N]
  BY MessageDefined
<1>3. base \in Trees
  BY TreeIs
<1> DEFINE M == {k \in 0..N : Piled(records, k, Tree[f[k]], base)}
<1>4. 0 \in M
  <2>1. 0 \in 0..N /\ f[0] = kept
    BY <1>1, <1>2 DEF Trails
  <2>2. base.entries \in Seq(TreeEntry)
    BY <1>3 DEF Trees
  <2>3. \A i \in 1..Len(base.entries) : 0 + i = i
    BY <2>2
  <2>4. Len(base.entries) = 0 + Len(base.entries)
    BY <2>2
  <2>5. N - 0 = N /\ (N + 1)..N = {} /\ 1..0 = {}
    BY <1>1
  <2>6. {records[i].field : i \in (N + 1)..N} = {}
    BY <2>5
  <2> HIDE DEF base
  <2>7. Piled(records, 0, base, base)
    <3>1. N - 0 = N
      BY <2>5
    <3> HIDE DEF N
    <3>2. QED
      BY <1>3, <2>3, <2>4, <2>5, <2>6, <3>1 DEF Piled, N
  <2>8. QED
    BY <2>1, <2>7 DEF base
<1>5. ASSUME NEW k \in 1..N, k - 1 \in M PROVE k \in M
  <2>1. k - 1 \in 0..N /\ k \in 0..N /\ N - k + 1 \in 1..N
    BY <1>1
  <2>2. Piled(records, k - 1, Tree[f[k - 1]], base)
    BY <1>5
  <2> DEFINE r == records[N - k + 1]
             before == f[k - 1]
  <2>3. r \in Record /\ before \in Seq(Byte) /\ f[k] = BytesOf(r) \o before
    <3>1. r \in Record
      BY <2>1
    <3>2. before \in Seq(Byte)
      BY <2>1
    <3>3. f[k] = BytesOf(r) \o before
      BY <1>2 DEF Trails
    <3>4. QED
      BY <3>1, <3>2, <3>3
  <2> HIDE DEF before
  <2>4. Leads(r, Tree[f[k]], Tree[before])
    <3> HIDE DEF r
    <3>1. QED
      BY <2>3, TreeRecord
  <2> HIDE DEF base
  <2>5. Piled(records, k, Tree[f[k]], base)
    BY <1>3, <2>2, <2>4, PiledOneMore DEF before
  <2>6. QED
    BY <2>1, <2>5
<1> HIDE DEF M
<1>6. \A k \in 0..N : k \in M
  <2> HIDE DEF N
  <2>1. QED
    BY <1>1, <1>4, <1>5, InductionUpto
<1>7. Piled(records, N, Tree[f[N]], base)
  BY <1>1, <1>6 DEF M
<1>8. QED
  BY <1>2, <1>7

\* The tree of no payload.
LEMMA TreeEmpty == Tree[<<>>] = Nothing
<1> DEFINE s == <<>>
           d == Decode(s)
<1>1. s \in Seq(Byte) /\ 1..Len(s) = {}
  OBVIOUS
<1> HIDE DEF s
<1>2. d = Fail
  BY <1>1, DecodeFails
<1>3. d.ok = FALSE
  BY <1>2 DEF Fail
<1>4. Node(s, Tree) = IF ~ d.ok \/ d.value \div 8 = 0 THEN Nothing
                      ELSE Whole(d.value \div 8, d.value % 8, d, Decode(d.rest), Tree)
  BY NodeIs
<1> HIDE DEF d
<1>5. Tree[s] = Nothing
  BY <1>1, <1>3, <1>4, TreeIs
<1>6. QED
  BY <1>5 DEF s

\* The tree of a record and nothing after it.
LEMMA TreeLast ==
  ASSUME NEW r \in Record, NEW base, base = Tree[BytesOf(r)]
  PROVE  /\ base \in Trees /\ base.raised = FALSE /\ base.keys = {r.field}
         /\ Len(base.entries) = 1 /\ SameEntry(base.entries[1], r)
<1>1. BytesOf(r) \in Seq(Byte)
  BY BytesAre
<1>2. BytesOf(r) \o <<>> = BytesOf(r)
  <2> DEFINE s == BytesOf(r)
  <2>1. s \in Seq(Byte)
    BY <1>1
  <2> HIDE DEF s
  <2>2. s \o <<>> = s
    BY <2>1
  <2>3. QED
    BY <2>2 DEF s
<1>3. Leads(r, base, Nothing)
  <2> DEFINE none == <<>>
  <2>1. none \in Seq(Byte) /\ Tree[none] = Nothing /\ BytesOf(r) \o none = BytesOf(r)
    BY <1>2, TreeEmpty
  <2> HIDE DEF none
  <2>2. Leads(r, Tree[BytesOf(r) \o none], Tree[none])
    BY <2>1, TreeRecord
  <2>3. QED
    BY <2>1, <2>2
<1>4. PICK type \in Types, value \in TreeValue :
        base = Then(r.field, type, value, Nothing) /\ Holds(r, type, value)
  BY <1>3 DEF Leads
<1> DEFINE field == r.field
           e == [field |-> field, type |-> type, value |-> value]
<1>5. type \in {"varint", "fixed64", "fixed32", "string", "nested", "bytes"} /\ field \in Nat
  BY RecordIs DEF Types
<1>6. e \in TreeEntry
  BY <1>5 DEF TreeEntry
<1>7. SameEntry(e, r)
  BY <1>4 DEF Holds
<1>8. base = Then(field, type, value, Nothing)
  BY <1>4
<1> HIDE DEF field
<1>9. Follows(field, type, value, Nothing, base)
  BY <1>5, <1>8, SimpleTrees, ThenIs
<1>10. /\ base \in Trees /\ base.keys = Nothing.keys \union {field} /\ base.raised = Nothing.raised
       /\ base.entries = <<e>> \o Nothing.entries
  BY <1>9 DEF Follows
<1> HIDE DEF e
<1>11. base.entries = <<e>> \o <<>> /\ base.keys = {field} /\ base.raised = FALSE
  BY <1>10, SimpleTrees
<1>12. base.entries = <<e>>
  BY <1>6, <1>11
<1>13. Len(base.entries) = 1 /\ base.entries[1] = e
  BY <1>12
<1>14. QED
  BY <1>7, <1>10, <1>11, <1>13 DEF field

\* The tree of a payload, whose last record may have been cut.
LEMMA MessageIs ==
  ASSUME NEW records \in Seq(Record), NEW last \in Record, NEW cut \in Nat,
         cut < Len(BytesOf(last)),
         NEW tree, tree = Tree[Message(records, KeptOf(last, cut))]
  PROVE  Dissected(records, last, cut, tree)
<1> DEFINE bytes == BytesOf(last)
           kept == KeptOf(last, cut)
           tag == Decode(kept)
           all == AllOf(records, last, cut)
           N == Len(records)
           base == Tree[kept]
           fields == {records[i].field : i \in 1..N}
<1>1. bytes \in Seq(Byte) /\ Len(bytes) \in Nat /\ cut < Len(bytes)
  <2>1. bytes \in Seq(Byte)
    BY BytesAre
  <2> HIDE DEF bytes
  <2>2. Len(bytes) \in Nat
    BY <2>1
  <2>3. QED
    BY <2>1, <2>2 DEF bytes
<1>2. N \in Nat /\ \A i \in 1..N : records[i] \in Record
  OBVIOUS
<1>3. kept \in Seq(Byte)
  <2>1. Len(bytes) - cut \in 0..Len(bytes)
    <3> HIDE DEF bytes
    <3>1. QED
      BY <1>1
  <2>2. kept = SubSeq(bytes, 1, Len(bytes) - cut)
    BY DEF KeptOf
  <2> HIDE DEF bytes, kept
  <2>3. QED
    BY <1>1, <2>1, <2>2, FrontIs
<1>4. Piled(records, N, tree, base)
  <2> HIDE DEF kept
  <2>1. Piled(records, Len(records), Tree[Message(records, kept)], Tree[kept])
    BY <1>3, MessageTree
  <2>2. QED
    BY <2>1 DEF kept
<1>5. /\ tree \in Trees /\ tree.raised = base.raised
      /\ Len(tree.entries) = N + Len(base.entries)
      /\ \A i \in 1..N : SameEntry(tree.entries[i], records[i])
      /\ \A i \in 1..Len(base.entries) : tree.entries[N + i] = base.entries[i]
      /\ tree.keys = base.keys \union fields
  <2>1. N - N = 0 /\ \A i \in 1..N : 0 + i = i
    BY <1>2
  <2>2. 0 + 1 = 1
    OBVIOUS
  <2> HIDE DEF base
  <2>3. /\ tree \in Trees /\ tree.raised = base.raised
        /\ Len(tree.entries) = N + Len(base.entries)
        /\ \A i \in 1..N : SameEntry(tree.entries[i], records[(N - N) + i])
        /\ \A i \in 1..Len(base.entries) : tree.entries[N + i] = base.entries[i]
        /\ tree.keys = base.keys \union {records[i].field : i \in ((N - N) + 1)..N}
    BY <1>4 DEF Piled
  <2> HIDE DEF N
  <2>4. QED
    BY <2>1, <2>2, <2>3 DEF N
<1>6. fields = {r.field : r \in ToSet(records)}
  BY <1>2 DEF ToSet
<1> HIDE DEF fields, base
<1>7. CASE cut = 0
  <2>1. kept = bytes
    <3>1. Len(bytes) - cut = Len(bytes)
      <4> HIDE DEF bytes
      <4>1. QED
        BY <1>1, <1>7
    <3>2. kept = SubSeq(bytes, 1, Len(bytes))
      BY <3>1 DEF KeptOf
    <3> HIDE DEF bytes, kept
    <3>3. QED
      BY <1>1, <3>2
  <2>2. /\ base \in Trees /\ base.raised = FALSE /\ base.keys = {last.field}
        /\ Len(base.entries) = 1 /\ SameEntry(base.entries[1], last)
    BY <2>1, TreeLast DEF base
  <2>3. all = Append(records, last)
    BY <1>7 DEF AllOf
  <2> HIDE DEF all, kept, bytes, tag
  <2>4. Len(all) = N + 1 /\ DOMAIN all = 1..(N + 1) /\ all[N + 1] = last
        /\ \A i \in 1..N : all[i] = records[i]
    BY <2>3
  <2> HIDE DEF N
  <2>5. \A i \in DOMAIN all : SameEntry(tree.entries[i], all[i])
    <3>1. tree.entries[N + 1] = base.entries[1]
      BY <1>5, <2>2
    <3>2. ASSUME NEW i \in 1..(N + 1) PROVE SameEntry(tree.entries[i], all[i])
      BY <1>2, <1>5, <2>2, <2>4, <3>1
    <3>3. QED
      BY <2>4, <3>2
  <2>6. ToSet(all) = ToSet(records) \union {last}
    <3>1. 1..(N + 1) = 1..N \union {N + 1}
      BY <1>2
    <3>2. ToSet(records) = {records[i] : i \in 1..N}
      BY DEF ToSet, N
    <3>3. ToSet(all) = {all[i] : i \in 1..(N + 1)}
      BY <2>4 DEF ToSet
    <3>4. {all[i] : i \in 1..N} = {records[i] : i \in 1..N}
      BY <2>4
    <3>5. QED
      BY <2>4, <3>1, <3>2, <3>3, <3>4
  <2>7. tree.keys = {r.field : r \in ToSet(all)}
    BY <1>5, <1>6, <2>2, <2>6
  <2>8. Len(tree.entries) = Len(all) /\ tree.raised = FALSE
    BY <1>5, <2>2, <2>4
  <2>9. ~ (cut > 0)
    BY <1>7
  <2>10. tree.keys = {r.field : r \in ToSet(all)} \union
                     (IF cut > 0 /\ tag.ok THEN {last.field} ELSE {})
    BY <2>7, <2>9
  <2>11. QED
    BY <1>5, <2>5, <2>8, <2>9, <2>10 DEF Dissected, kept, tag, all
<1>8. CASE cut # 0
  <2> DEFINE n == Len(bytes) - cut
  <2>1. n \in Nat /\ n < Len(bytes) /\ cut > 0
    <3> HIDE DEF bytes
    <3>1. QED
      BY <1>1, <1>8
  <2>2. kept = SubSeq(BytesOf(last), 1, n)
    BY DEF KeptOf
  <2> HIDE DEF n, kept
  <2>3. LeavesBehind(last, kept)
    BY <2>1, <2>2, TreeCut DEF bytes
  <2>4. /\ base.raised <=> /\ tag.ok /\ last.type \in {"varint", "length"}
                           /\ ~ Decode(tag.rest).ok
        /\ ~ base.raised => /\ base.entries = <<>>
                            /\ base.keys = IF tag.ok THEN {last.field} ELSE {}
    BY <2>3 DEF LeavesBehind, base
  <2>5. all = records
    BY <1>8 DEF AllOf
  <2> HIDE DEF all, bytes, tag
  <2>6. tree.raised <=> /\ cut > 0 /\ tag.ok
                        /\ last.type \in {"varint", "length"} /\ ~ Decode(tag.rest).ok
    BY <1>5, <2>1, <2>4
  <2>7. ASSUME ~ tree.raised
        PROVE  /\ Len(tree.entries) = Len(all)
               /\ \A i \in DOMAIN all : SameEntry(tree.entries[i], all[i])
               /\ tree.keys = {r.field : r \in ToSet(all)} \union
                              (IF cut > 0 /\ tag.ok THEN {last.field} ELSE {})
    <3>1. base.entries = <<>> /\ base.keys = IF tag.ok THEN {last.field} ELSE {}
      BY <1>5, <2>4, <2>7
    <3>2. Len(base.entries) = 0
      BY <3>1
    <3>3. Len(tree.entries) = Len(all)
      BY <1>2, <1>5, <2>5, <3>2
    <3>4. \A i \in DOMAIN all : SameEntry(tree.entries[i], all[i])
      BY <1>5, <2>5
    <3>5. tree.keys = {r.field : r \in ToSet(all)} \union
                      (IF cut > 0 /\ tag.ok THEN {last.field} ELSE {})
      BY <1>5, <1>6, <2>5, <2>1, <3>1
    <3>6. QED
      BY <3>3, <3>4, <3>5
  <2>8. QED
    BY <1>5, <2>6, <2>7 DEF Dissected, kept, tag, all
<1>9. QED
  BY <1>7, <1>8

\* FieldVerdict judges so.
LEMMA JudgedByIs ==
  ASSUME NEW data, NEW claim
  PROVE  JudgedBy(Tree[data], claim, FieldVerdict(data, claim))
<1> DEFINE tree == Tree[data]
           entries == {e \in ToSet(tree.entries) : e.field = claim.field}
           good == /\ ~ tree.raised
                   /\ claim.field \in tree.keys
                   /\ claim.type # "any" => \E e \in entries : e.type = claim.type
                   /\ \A want \in claim.wants : \E e \in entries : Matches(e, want)
           verdict == FieldVerdict(data, claim)
<1>1. verdict = CASE tree.raised -> "inconclusive" [] good -> "verified" [] OTHER -> "refuted"
  BY DEF FieldVerdict
<1>2. good => ~ tree.raised
  OBVIOUS
<1> DEFINE raised == tree.raised
<1>3. verdict = CASE raised -> "inconclusive" [] good -> "verified" [] OTHER -> "refuted"
  BY <1>1
<1>4. good => ~ raised
  BY <1>2
<1> HIDE DEF good, raised, verdict
<1>5. verdict = "verified" <=> good
  BY <1>3, <1>4
<1>6. QED
  BY <1>5 DEF JudgedBy, good, verdict

\* An entry matches a value if its record has it.
LEMMA MatchesHas ==
  ASSUME NEW e, NEW r \in Record, SameEntry(e, r), NEW want
  PROVE  Matches(e, want) <=> HasValue(r, want)
<1>1. r.type = "varint" \/ r.type = "length" \/ r.type = "fixed64" \/ r.type = "fixed32"
  BY RecordAssumption
<1> DEFINE text == want.text
           named == text.number
           quoted == want.quoted
<1>2. CASE r.type = "varint"
  <2> DEFINE said == Decimal(r.value)
  <2>1. e.type = "varint" /\ e.value = r.value
    BY <1>2 DEF SameEntry
  <2>2. said.style = "decimal" /\ said.number = r.value
    BY DEF Decimal
  <2>3. Matches(e, want) <=> IF Numeric(said) /\ Numeric(text) THEN said.number = named
                             ELSE said = text
    BY <2>1 DEF Matches, Said
  <2>4. HasValue(r, want) <=> Numeric(said) /\ Numeric(text) /\ said.number = named
    BY <1>2 DEF HasValue, SameNumber
  <2> HIDE DEF said, text, named, quoted
  <2>5. QED
    BY <2>2, <2>3, <2>4 DEF Numeric
<1>3. CASE r.type = "length"
  <2> DEFINE said == Spelled(r.payload)
  <2>1. e.value = r.payload /\ e.type \in {"string", "nested", "bytes"}
        /\ (e.type = "string" <=> IsText(r.payload))
    BY <1>3 DEF SameEntry
  <2>2. HasValue(r, want) <=>
          /\ IsText(r.payload)
          /\ said = text \/ (~ quoted /\ Numeric(said) /\ Numeric(text) /\ said.number = named)
    BY <1>3 DEF HasValue, SameNumber
  <2>3. CASE e.type = "string"
    <3>1. Matches(e, want) <=> IF ~ quoted /\ Numeric(said) /\ Numeric(text)
                               THEN said.number = named ELSE said = text
      BY <2>1, <2>3 DEF Matches, Said
    <3>2. said = text => said.number = named
      OBVIOUS
    <3> HIDE DEF said, text, named, quoted
    <3>3. QED
      BY <2>1, <2>2, <2>3, <3>1, <3>2
  <2>4. CASE e.type # "string"
    BY <2>1, <2>2, <2>4 DEF Matches
  <2>5. QED
    BY <2>3, <2>4
<1>4. CASE r.type = "fixed64" \/ r.type = "fixed32"
  <2> DEFINE said == Hex(r.value)
  <2>1. e.type = r.type /\ e.value = r.value
    BY <1>4 DEF SameEntry
  <2>2. said.style = "hex" /\ said.number = r.value
    BY DEF Hex
  <2>3. Matches(e, want) <=> IF ~ quoted /\ Numeric(said) /\ Numeric(text)
                             THEN said.number = named ELSE said = text
    BY <1>4, <2>1 DEF Matches, Said
  <2>4. HasValue(r, want) <=> IF quoted THEN text = said
                            ELSE Numeric(said) /\ Numeric(text) /\ said.number = named
    BY <1>4 DEF HasValue, SameNumber
  <2>5. said = text => Numeric(said) /\ Numeric(text) /\ said.number = named
    BY <2>2 DEF Numeric
  <2> HIDE DEF said, text, named, quoted
  <2>6. QED
    BY <2>2, <2>3, <2>4, <2>5 DEF Numeric
<1>5. QED
  BY <1>1, <1>2, <1>3, <1>4

\* What a verdict on a field comes from.
LEMMA VerdictsJustified ==
  ASSUME NEW all \in Seq(Record), NEW left, NEW tree, NEW claim, NEW verdict,
         JudgedBy(tree, claim, verdict), Mirrored(all, left, tree)
  PROVE  Warranted(all, left, tree, claim, verdict)
<1> DEFINE named == {r \in ToSet(all) : r.field = claim.field}
           entries == {e \in ToSet(tree.entries) : e.field = claim.field}
<1>1. verdict = "verified" <=>
        /\ ~ tree.raised
        /\ claim.field \in tree.keys
        /\ claim.type # "any" => \E e \in entries : e.type = claim.type
        /\ \A want \in claim.wants : \E e \in entries : Matches(e, want)
  BY DEF JudgedBy
<1>2. CASE ~ tree.raised
  <2>1. /\ tree.entries \in Seq(TreeEntry) /\ Len(tree.entries) = Len(all)
        /\ \A i \in DOMAIN all : SameEntry(tree.entries[i], all[i])
        /\ tree.keys = {r.field : r \in ToSet(all)} \union left
    BY <1>2 DEF Mirrored
  <2>2. DOMAIN tree.entries = DOMAIN all
    BY <2>1
  <2>3. /\ ToSet(all) = {all[i] : i \in DOMAIN all}
        /\ ToSet(tree.entries) = {tree.entries[i] : i \in DOMAIN all}
    BY <2>2 DEF ToSet
  <2>4. ASSUME NEW e \in entries PROVE \E r \in named : SameEntry(e, r)
    <3>1. PICK i \in DOMAIN all : e = tree.entries[i]
      BY <2>3
    <3>2. SameEntry(e, all[i]) /\ all[i] \in ToSet(all) /\ e.field = claim.field
      BY <2>1, <2>3, <3>1
    <3>3. all[i].field = claim.field
      BY <3>2 DEF SameEntry
    <3>4. QED
      BY <3>2, <3>3
  <2>5. ASSUME NEW r \in named PROVE \E e \in entries : SameEntry(e, r)
    <3>1. PICK i \in DOMAIN all : r = all[i]
      BY <2>3
    <3>2. SameEntry(tree.entries[i], r) /\ tree.entries[i] \in ToSet(tree.entries)
          /\ r.field = claim.field
      BY <2>1, <2>3, <3>1
    <3>3. tree.entries[i].field = claim.field
      BY <3>2 DEF SameEntry
    <3>4. QED
      BY <3>2, <3>3
  <2>6. ASSUME NEW r \in named PROVE r \in Record
    <3>1. PICK i \in DOMAIN all : r = all[i]
      BY <2>3
    <3>2. QED
      BY <3>1
  <2>7. ASSUME NEW r \in Record PROVE r.type \in {"varint", "length", "fixed64", "fixed32"}
    BY RecordAssumption
  <2>8. named = {} => claim.field \notin {r.field : r \in ToSet(all)}
    OBVIOUS
  <2>9. (\E r \in named : TRUE) => claim.field \in {r.field : r \in ToSet(all)}
    OBVIOUS
  <2> HIDE DEF named, entries
  <2>10. ASSUME verdict = "verified"
         PROVE  /\ claim.type # "any" => \E r \in named : r.type \in {claim.type, "length"}
                /\ \A want \in claim.wants : \E r \in named : HasValue(r, want)
                /\ named = {} => claim.field \in left
    <3>1. ASSUME claim.type # "any" PROVE \E r \in named : r.type \in {claim.type, "length"}
      <4>1. PICK e \in entries : e.type = claim.type
        BY <1>1, <2>10, <3>1
      <4>2. PICK r \in named : SameEntry(e, r)
        BY <2>4
      <4>3. r.type \in {claim.type, "length"}
        BY <4>1, <4>2 DEF SameEntry
      <4>4. QED
        BY <4>3
    <3>2. ASSUME NEW want \in claim.wants PROVE \E r \in named : HasValue(r, want)
      <4>1. PICK e \in entries : Matches(e, want)
        BY <1>1, <2>10, <3>2
      <4>2. PICK r \in named : SameEntry(e, r)
        BY <2>4
      <4>3. r \in Record
        BY <2>6
      <4>4. QED
        BY <4>1, <4>2, <4>3, MatchesHas
    <3>3. named = {} => claim.field \in left
      BY <1>1, <2>1, <2>8, <2>10
    <3>4. QED
      BY <3>1, <3>2, <3>3
  <2>11. ASSUME NEW r \in named, claim.type \in {"any", r.type}, claim.type # "length",
                \A want \in claim.wants : \E q \in named : HasValue(q, want)
         PROVE  verdict = "verified"
    <3>1. PICK e \in entries : SameEntry(e, r)
      BY <2>5
    <3>2. claim.type # "any" => e.type = claim.type
      BY <2>11, <3>1 DEF SameEntry
    <3>3. ASSUME NEW want \in claim.wants PROVE \E d \in entries : Matches(d, want)
      <4>1. PICK q \in named : HasValue(q, want)
        BY <2>11
      <4>2. PICK d \in entries : SameEntry(d, q)
        BY <2>5
      <4>3. q \in Record
        BY <2>6
      <4>4. QED
        BY <4>1, <4>2, <4>3, MatchesHas
    <3>4. claim.field \in tree.keys
      BY <2>1, <2>9
    <3>5. QED
      BY <1>1, <1>2, <3>2, <3>3, <3>4
  <2>12. QED
    BY <1>2, <2>10, <2>11 DEF named, Warranted
<1>3. CASE tree.raised
  BY <1>1, <1>3 DEF Warranted
<1>4. QED
  BY <1>2, <1>3

\* Claims about the fields of a payload, cut or not.
LEMMA FieldsHold ==
  ASSUME NEW records \in Seq(Record), NEW last \in Record, NEW cut \in Nat,
         cut < Len(BytesOf(last)), NEW claim
  PROVE  FieldsJustified(records, last, cut, claim)
<1> DEFINE kept == KeptOf(last, cut)
           data == Message(records, kept)
           tree == Tree[data]
           tag == Decode(kept)
           all == AllOf(records, last, cut)
           named == {r \in ToSet(all) : r.field = claim.field}
           verdict == FieldVerdict(data, claim)
           left == IF cut > 0 /\ tag.ok THEN {last.field} ELSE {}
<1>1. Dissected(records, last, cut, tree)
  BY MessageIs
<1>2. JudgedBy(tree, claim, verdict)
  BY JudgedByIs
<1>3. all \in Seq(Record)
  BY DEF AllOf
<1>4. /\ tree \in Trees
      /\ tree.raised <=> /\ cut > 0 /\ tag.ok
                         /\ last.type \in {"varint", "length"} /\ ~ Decode(tag.rest).ok
      /\ ~ tree.raised =>
           /\ Len(tree.entries) = Len(all)
           /\ \A i \in DOMAIN all : SameEntry(tree.entries[i], all[i])
           /\ tree.keys = {r.field : r \in ToSet(all)} \union left
  BY <1>1 DEF Dissected
<1>5. tree.entries \in Seq(TreeEntry)
  BY <1>4 DEF Trees
<1>6. claim.field \in left => cut > 0 /\ last.field = claim.field
  OBVIOUS
<1>7. FieldsJustified(records, last, cut, claim) <=>
        /\ tree.raised <=> /\ cut > 0 /\ tag.ok
                           /\ last.type \in {"varint", "length"} /\ ~ Decode(tag.rest).ok
        /\ ~ tree.raised =>
             /\ Len(tree.entries) = Len(all)
             /\ \A i \in DOMAIN all : SameEntry(tree.entries[i], all[i])
             /\ tree.keys = {r.field : r \in ToSet(all)} \union left
        /\ verdict = "verified" =>
             /\ ~ tree.raised
             /\ claim.type # "any" => \E r \in named : r.type \in {claim.type, "length"}
             /\ \A want \in claim.wants : \E r \in named : HasValue(r, want)
             /\ named = {} => cut > 0 /\ last.field = claim.field
        /\ /\ \E r \in named : claim.type \in {"any", r.type} /\ claim.type # "length"
           /\ \A want \in claim.wants : \E r \in named : HasValue(r, want)
           /\ ~ tree.raised
           => verdict = "verified"
  BY DEF FieldsJustified, KeptOf, AllOf
<1> HIDE DEF kept, data, tree, tag, all, verdict, left
<1>8. Mirrored(all, left, tree)
  BY <1>4, <1>5 DEF Mirrored
<1>9. Warranted(all, left, tree, claim, verdict)
  BY <1>2, <1>3, <1>8, VerdictsJustified
<1>10. /\ verdict = "verified" =>
            /\ ~ tree.raised
            /\ claim.type # "any" => \E r \in named : r.type \in {claim.type, "length"}
            /\ \A want \in claim.wants : \E r \in named : HasValue(r, want)
            /\ named = {} => claim.field \in left
       /\ /\ \E r \in named : claim.type \in {"any", r.type} /\ claim.type # "length"
          /\ \A want \in claim.wants : \E r \in named : HasValue(r, want)
          /\ ~ tree.raised
          => verdict = "verified"
  BY <1>9 DEF Warranted
<1> HIDE DEF named
<1>11. QED
  BY <1>4, <1>6, <1>7, <1>10

\* Decoding undoes encoding, and no prefix or overlong number passes for
\* another; a claim about a field is settled by the records of the payload
\* and, at worst, the tag of one that was cut, whatever they are.
THEOREM ProtocolTheorem == Spec => []ProtocolExact
<1>1. Asked => ProtocolExact
  <2> SUFFICES ASSUME Asked PROVE ProtocolExact
    OBVIOUS
  <2>1. ASSUME op = "varint" PROVE VarintExact(arg[1], arg[2], arg[3])
    BY <2>1, VarintsAssumption, VarintsHold DEF Asked
  <2>2. ASSUME op = "field" PROVE FieldsJustified(arg[1], arg[2], arg[3], arg[4])
    BY <2>2, PayloadsAssumption, FieldsHold DEF Asked
  <2>3. QED
    BY <2>1, <2>2 DEF ProtocolExact
<1>2. QED
  BY <1>1, AskedInvariant, PTL
====
