--------------------------- MODULE SequenceLemmas ---------------------------
(***************************************************************************)
(* Induction over the naturals, and what it gives for the sequences of the  *)
(* models.  The library states induction with an operator for its parameter; *)
(* here the property is the set of the numbers that have it, so that a       *)
(* lemma's hypotheses are first-order facts.                                 *)
(***************************************************************************)
EXTENDS Integers, SequencesExt, Selections, FiniteSetTheorems, SequenceTheorems, WellFoundedInduction, TLAPS

\* Every non-empty set of naturals has a least element: of the initial segments
\* 0 .. n, which are finite sets, one contains no other.
LEMMA LeastNatural ==
    ASSUME NEW S \in SUBSET Nat, S # {}
    PROVE  \E m \in S : \A n \in S : m <= n
<1> DEFINE Initial == {0 .. n : n \in S}
<1>1. Initial \subseteq FiniteSubsetsOf(Nat)
    <2>1. \A n \in S : IsFiniteSet(0 .. n) /\ 0 .. n \in SUBSET Nat
        BY FS_Interval
    <2>2. QED  BY <2>1 DEF FiniteSubsetsOf
<1>2. Initial # {}
    OBVIOUS
<1>3. IsWellFoundedOn(StrictSubsetOrdering(Nat), FiniteSubsetsOf(Nat))
    BY FS_StrictSubsetOrderingWellFounded
<1>4. PICK x \in Initial : \A y \in Initial : ~ (<<y, x>> \in StrictSubsetOrdering(Nat))
    <2> HIDE DEF Initial
    <2>1. QED  BY <1>1, <1>2, <1>3, WFMin
<1>5. PICK m \in S : x = 0 .. m
    OBVIOUS
<1>6. ASSUME NEW n \in S, ~ (m <= n) PROVE FALSE
    <2>1. 0 .. n \subseteq 0 .. m /\ 0 .. n # 0 .. m /\ 0 .. n \in Initial
        BY <1>6
    <2>2. <<0 .. n, 0 .. m>> \in StrictSubsetOrdering(Nat)
        BY <2>1 DEF StrictSubsetOrdering
    <2>3. QED  BY <2>1, <2>2, <1>4, <1>5
<1>7. QED  BY <1>6

\* A set with 0 and the successor of each of its naturals holds every natural.
LEMMA InductionOnSet ==
    ASSUME NEW S, 0 \in S, \A n \in Nat : n \in S => n + 1 \in S
    PROVE  \A n \in Nat : n \in S
<1> SUFFICES ASSUME Nat \ S # {} PROVE FALSE
    OBVIOUS
<1>1. PICK m \in Nat \ S : \A n \in Nat \ S : m <= n
    BY LeastNatural
<1>2. m # 0 /\ m - 1 \in Nat /\ m - 1 \in S
    BY <1>1
<1>3. QED  BY <1>2

\* g can be folded over 1 .. N from b, in T; f is the fold.
Foldable(T, b, N, g) == b \in T /\ N \in Nat /\ g \in [T \X (1 .. N) -> T]
Fold(T, b, N, g, f) ==
    f \in [0 .. N -> T] /\ f[0] = b /\ \A i \in 1 .. N : f[i] = g[<<f[i - 1], i>>]

\* The recursive function that folds g over 1 .. N from b exists.
LEMMA FoldExists ==
    ASSUME NEW T, NEW b, NEW N, NEW g, Foldable(T, b, N, g)
    PROVE  \E f : Fold(T, b, N, g, f)
<1> USE DEF Foldable, Fold
<1> DEFINE Upto(n, f) == /\ f \in [0 .. n -> T] /\ f[0] = b
                         /\ \A i \in 1 .. n : f[i] = g[<<f[i - 1], i>>]
           Ok == {n \in Nat : n <= N => \E f : Upto(n, f)}
<1>1. 0 \in Ok
    <2>1. Upto(0, [k \in {0} |-> b])
        OBVIOUS
    <2>2. QED  BY <2>1
<1>2. \A n \in Nat : n \in Ok => n + 1 \in Ok
    <2> HIDE DEF Upto
    <2> SUFFICES ASSUME NEW n \in Nat, n \in Ok, n + 1 <= N
                 PROVE  \E f : Upto(n + 1, f)
        OBVIOUS
    <2>1. PICK f : Upto(n, f)
        OBVIOUS
    <2> DEFINE h == [k \in 0 .. n + 1 |-> IF k = n + 1 THEN g[<<f[n], n + 1>>] ELSE f[k]]
    <2>2. g[<<f[n], n + 1>>] \in T
        BY <2>1 DEF Upto
    <2>3. h \in [0 .. n + 1 -> T] /\ h[n + 1] = g[<<f[n], n + 1>>]
          /\ \A i \in 0 .. n : h[i] = f[i]
        BY <2>1, <2>2 DEF Upto
    <2> HIDE DEF h
    <2>4. Upto(n + 1, h)
        <3>1. ASSUME NEW i \in 1 .. n + 1 PROVE h[i] = g[<<h[i - 1], i>>]
            <4>1. h[i - 1] = f[i - 1]
                BY <2>3
            <4>2. CASE i = n + 1
                BY <2>3, <4>1, <4>2
            <4>3. CASE i # n + 1
                BY <2>1, <2>3, <4>1, <4>3 DEF Upto
            <4>4. QED  BY <4>2, <4>3
        <3>2. QED  BY <2>1, <2>3, <3>1 DEF Upto
    <2>5. QED  BY <2>4
<1>3. N \in Ok
    <2> HIDE DEF Ok
    <2>1. QED  BY <1>1, <1>2, InductionOnSet
<1>4. QED  BY <1>3

\* Two functions that agree at m and, wherever they agree, also at the next
\* number agree from m on.
Agree(f, g, m, N) ==
    /\ m \in Nat /\ N \in Nat /\ f[m] = g[m]
    /\ \A i \in m .. N - 1 : f[i] = g[i] => f[i + 1] = g[i + 1]

\* Induction over the numbers gives the rest.
LEMMA FoldUnique ==
    ASSUME NEW f, NEW g, NEW m, NEW N, Agree(f, g, m, N)
    PROVE  \A n \in m .. N : f[n] = g[n]
<1> USE DEF Agree
<1> DEFINE Same == {n \in Nat : m + n <= N => f[m + n] = g[m + n]}
<1>1. 0 \in Same
    OBVIOUS
<1>2. \A n \in Nat : n \in Same => n + 1 \in Same
    <2>1. ASSUME NEW n \in Nat, n \in Same, m + (n + 1) <= N
          PROVE  f[m + (n + 1)] = g[m + (n + 1)]
        <3>1. m + n \in m .. N - 1 /\ m + (n + 1) = (m + n) + 1 /\ f[m + n] = g[m + n]
            BY <2>1
        <3>2. QED  BY <3>1
    <2>2. QED  BY <2>1
<1>3. \A n \in Nat : n \in Same
    <2> HIDE DEF Same
    <2>1. QED  BY <1>1, <1>2, InductionOnSet
<1>4. ASSUME NEW n \in m .. N PROVE f[n] = g[n]
    <2>1. n - m \in Nat /\ m + (n - m) = n /\ n <= N
        OBVIOUS
    <2>2. QED  BY <2>1, <1>3
<1>5. QED  BY <1>4

\* FlattenSeq( seqs ) is the last of the partial concatenations of seqs: the
\* recursive function it is defined by exists and is what it says.
LEMMA FlattenSeqRecursion ==
    ASSUME NEW S, NEW seqs \in Seq(Seq(S))
    PROVE  \E f \in [0 .. Len(seqs) -> Seq(S)] :
              /\ f[0] = <<>>
              /\ \A i \in 1 .. Len(seqs) : f[i] = f[i - 1] \o seqs[i]
              /\ FlattenSeq(seqs) = f[Len(seqs)]
<1>0. PICK N \in Nat : N = Len(seqs)
    OBVIOUS
<1> DEFINE T == Seq(S)
           Glue(x, i) == x \o seqs[i]
<1>1. /\ <<>> \in T /\ (N = 0 => seqs = <<>>)
      /\ \A i \in 1 .. N : seqs[i] \in T /\ Glue(<<>>, i) = seqs[i]
      /\ \A i \in 1 .. N : \A x \in T : Glue(x, i) \in T
    BY <1>0
<1> HIDE DEF T, Glue
<1>2. PICK f : f \in [0 .. N -> T] /\ f[0] = <<>> /\ \A i \in 1 .. N : f[i] = Glue(f[i - 1], i)
    <2> DEFINE g == [p \in T \X (1 .. N) |-> Glue(p[1], p[2])]
    <2>1. g \in [T \X (1 .. N) -> T] /\ \A x \in T, i \in 1 .. N : g[<<x, i>>] = Glue(x, i)
        BY <1>1
    <2> HIDE DEF g
    <2>2. PICK f : f \in [0 .. N -> T] /\ f[0] = <<>> /\ \A i \in 1 .. N : f[i] = g[<<f[i - 1], i>>]
        <3>1. Foldable(T, <<>>, N, g)
            BY <1>1, <2>1 DEF Foldable
        <3>2. PICK f : Fold(T, <<>>, N, g, f)
            BY <3>1, FoldExists
        <3>3. QED  BY <3>2 DEF Fold
    <2>3. \A i \in 1 .. N : f[i - 1] \in T
        <3>1. \A i \in 1 .. N : i - 1 \in 0 .. N
            OBVIOUS
        <3>2. QED  BY <2>2, <3>1
    <2>4. QED  BY <2>1, <2>2, <2>3
<1>3. FlattenSeq(seqs) = f[N]
    <2>1. CASE N = 0
        <3>1. seqs = <<>>
            BY <1>1, <2>1
        <3>2. QED  BY <1>0, <1>2, <2>1, <3>1 DEF FlattenSeq
    <2>2. CASE N # 0
        <3> DEFINE Body(h) == [i \in 1 .. N |-> IF i = 1 THEN seqs[i] ELSE Glue(h[i - 1], i)]
                   prefix == [i \in 1 .. N |-> f[i]]
        <3>1. FlattenSeq(seqs) = (CHOOSE h : h = Body(h))[N]
            BY <1>0, <2>2 DEF FlattenSeq, Glue
        <3>2. prefix = Body(prefix)
            BY <1>1, <1>2
        <3>3. PICK h : h = Body(h) /\ FlattenSeq(seqs) = h[N]
            <4> HIDE DEF Body, prefix
            <4>1. QED  BY <3>1, <3>2
        <3>4. \A i \in 1 .. N : h[i] = IF i = 1 THEN seqs[i] ELSE Glue(h[i - 1], i)
            BY <3>3
        <3> HIDE DEF Body, prefix
        <3>5. h[1] = f[1]
            <4>1. f[1] = seqs[1] /\ 1 \in 1 .. N
                BY <1>1, <1>2, <2>2
            <4>2. QED  BY <3>4, <4>1
        <3>6. ASSUME NEW i \in 1 .. N - 1, h[i] = f[i] PROVE h[i + 1] = f[i + 1]
            <4>1. i + 1 \in 1 .. N /\ i + 1 # 1 /\ (i + 1) - 1 = i
                BY <1>1
            <4>2. QED  BY <1>2, <3>4, <3>6, <4>1
        <3>7. Agree(h, f, 1, N)
            BY <1>1, <3>5, <3>6 DEF Agree
        <3>8. \A n \in 1 .. N : h[n] = f[n]
            BY <3>7, FoldUnique
        <3>9. QED  BY <1>1, <2>2, <3>3, <3>8
    <2>3. QED  BY <2>1, <2>2
<1>4. QED  BY <1>0, <1>2, <1>3 DEF Glue, T

-----------------------------------------------------------------------------
(* Selections from a sequence.                                               *)

\* u is what Those( s, K ) has selected up to each place.
Selection(s, K, u) ==
    /\ u[0] = <<>>
    /\ \A k \in 1 .. Len(s) : u[k] = IF k \in K THEN Append(u[k - 1], s[k]) ELSE u[k - 1]

\* Those follows its recursion, which its definition as a CHOOSE hides.
LEMMA ThoseRecursion ==
    ASSUME NEW S, NEW s, s \in Seq(S), NEW K
    PROVE  \E u : /\ u \in [0 .. Len(s) -> Seq(S)] /\ Selection(s, K, u)
                  /\ Those(s, K) = u[Len(s)]
<1> DEFINE T == Seq(S)
           Step(x, k) == IF k \in K THEN Append(x, s[k]) ELSE x
<1>1. PICK N \in Nat : N = Len(s)
    OBVIOUS
<1>2. <<>> \in T /\ \A k \in 1 .. N : \A x \in T : Step(x, k) \in T
    BY <1>1
<1> HIDE DEF T, Step
<1>3. PICK u : u \in [0 .. N -> T] /\ u[0] = <<>> /\ \A k \in 1 .. N : u[k] = Step(u[k - 1], k)
    <2> DEFINE g == [p \in T \X (1 .. N) |-> Step(p[1], p[2])]
    <2>1. g \in [T \X (1 .. N) -> T] /\ \A x \in T, k \in 1 .. N : g[<<x, k>>] = Step(x, k)
        BY <1>2
    <2> HIDE DEF g
    <2>2. Foldable(T, <<>>, N, g)
        BY <1>2, <2>1 DEF Foldable
    <2>3. PICK u : Fold(T, <<>>, N, g, u)
        BY <2>2, FoldExists
    <2>4. \A k \in 1 .. N : u[k - 1] \in T
        <3>1. \A k \in 1 .. N : k - 1 \in 0 .. N
            OBVIOUS
        <3>2. QED  BY <2>3, <3>1 DEF Fold
    <2>5. QED  BY <2>1, <2>3, <2>4 DEF Fold
<1> DEFINE Body(h) == [k \in 0 .. N |-> IF k = 0 THEN <<>> ELSE Step(h[k - 1], k)]
<1>4. Those(s, K) = (CHOOSE h : h = Body(h))[N]
    <2>1. Those(s, K) =
            (CHOOSE h : h = [k \in 0 .. Len(s) |->
                IF k = 0 THEN <<>>
                ELSE IF k \in K THEN Append(h[k - 1], s[k]) ELSE h[k - 1]])[Len(s)]
        BY DEF Those
    <2>2. QED  BY <1>1, <2>1 DEF Step
<1>5. u = Body(u)
    BY <1>3
<1>6. PICK h : h = Body(h) /\ Those(s, K) = h[N]
    <2> HIDE DEF Body
    <2>1. QED  BY <1>4, <1>5
<1>7. h[0] = <<>> /\ \A k \in 1 .. N : h[k] = Step(h[k - 1], k)
    BY <1>6
<1> HIDE DEF Body
<1>8. ASSUME NEW k \in 0 .. N - 1, h[k] = u[k] PROVE h[k + 1] = u[k + 1]
    <2>1. k + 1 \in 1 .. N /\ (k + 1) - 1 = k
        OBVIOUS
    <2>2. QED  BY <1>3, <1>7, <1>8, <2>1
<1>9. Agree(h, u, 0, N)
    BY <1>3, <1>7, <1>8 DEF Agree
<1>10. h[N] = u[N]
    BY <1>9, FoldUnique
<1>11. QED  BY <1>1, <1>3, <1>6, <1>10 DEF Selection, Step, T

\* Selecting from a sequence that has grown by one.
LEMMA ThoseAppend ==
    ASSUME NEW S, NEW s, s \in Seq(S), NEW e \in S, NEW K, NEW M,
           \A k \in 1 .. Len(s) : k \in K <=> k \in M
    PROVE  /\ Those(s, K) \in Seq(S)
           /\ Those(Append(s, e), M) =
                 IF Len(s) + 1 \in M THEN Append(Those(s, K), e) ELSE Those(s, K)
<1>1. PICK t : t = Append(s, e)
    OBVIOUS
<1>2. PICK N \in Nat : N = Len(s)
    OBVIOUS
<1>3. /\ t \in Seq(S) /\ Len(t) = N + 1 /\ t[N + 1] = e
      /\ \A k \in 1 .. N : t[k] = s[k]
    BY <1>1, <1>2
<1>4. PICK u : u \in [0 .. N -> Seq(S)] /\ Selection(s, K, u) /\ Those(s, K) = u[N]
    BY <1>2, ThoseRecursion
<1>5. PICK v : Selection(t, M, v) /\ Those(t, M) = v[N + 1]
    <2>1. PICK v : Selection(t, M, v) /\ Those(t, M) = v[Len(t)]
        BY <1>3, ThoseRecursion
    <2>2. QED  BY <1>3, <2>1
<1>6. ASSUME NEW k \in 0 .. N - 1, u[k] = v[k] PROVE u[k + 1] = v[k + 1]
    <2>1. k + 1 \in 1 .. N /\ k + 1 \in 1 .. N + 1 /\ (k + 1) - 1 = k
        OBVIOUS
    <2>2. s[k + 1] = t[k + 1] /\ (k + 1 \in K <=> k + 1 \in M)
        BY <1>2, <1>3, <2>1
    <2>3. QED  BY <1>2, <1>3, <1>4, <1>5, <1>6, <2>1, <2>2 DEF Selection
<1>7. Agree(u, v, 0, N)
    BY <1>4, <1>5, <1>6 DEF Agree, Selection
<1>8. u[N] = v[N]
    BY <1>7, FoldUnique
<1>9. v[N + 1] = IF N + 1 \in M THEN Append(v[N], e) ELSE v[N]
    BY <1>3, <1>5 DEF Selection
<1>10. QED  BY <1>1, <1>2, <1>4, <1>5, <1>8, <1>9

\* Nothing is selected from the empty sequence.
LEMMA ThoseOfNone == ASSUME NEW K PROVE Those(<<>>, K) = <<>>
<1>1. <<>> \in Seq({})
    OBVIOUS
<1>2. PICK u : Selection(<<>>, K, u) /\ Those(<<>>, K) = u[Len(<<>>)]
    BY <1>1, ThoseRecursion
<1>3. QED  BY <1>2 DEF Selection

-----------------------------------------------------------------------------
(* Sequences made element by element.                                        *)

\* A function on 1 .. m is a sequence of m elements.
LEMMA FunctionIsSequence ==
    ASSUME NEW T, NEW m \in Nat, NEW b, b \in [1 .. m -> T]
    PROVE  b \in Seq(T) /\ Len(b) = m
OBVIOUS

\* The numbers from 1 on, one by one.
LEMMA CountingAppend ==
    ASSUME NEW n \in Nat
    PROVE  /\ [k \in 1 .. n |-> k] \in Seq(Nat) /\ Len([k \in 1 .. n |-> k]) = n
           /\ [k \in 1 .. n + 1 |-> k] = Append([k \in 1 .. n |-> k], n + 1)
<1>1. PICK s : s = [k \in 1 .. n |-> k]
    OBVIOUS
<1>2. s \in Seq(Nat) /\ Len(s) = n
    <2>1. s \in [1 .. n -> Nat]
        BY <1>1
    <2>2. QED  BY <2>1, FunctionIsSequence
<1>3. PICK t : t = Append(s, n + 1)
    OBVIOUS
<1>4. t \in Seq(Nat) /\ Len(t) = n + 1 /\ \A k \in 1 .. n + 1 : t[k] = k
    <2>1. /\ t \in Seq(Nat) /\ Len(t) = n + 1 /\ t[n + 1] = n + 1
          /\ \A k \in 1 .. n : t[k] = s[k]
        BY <1>2, <1>3
    <2>2. \A k \in 1 .. n : t[k] = k
        BY <1>1, <2>1
    <2>3. QED  BY <2>1, <2>2
<1>5. t = [k \in 1 .. n + 1 |-> k]
    BY <1>4
<1>6. QED  BY <1>1, <1>2, <1>3, <1>5

\* Looking up each element of a sequence that has grown by one.
LEMMA LookedUpAppend ==
    ASSUME NEW S, NEW s, s \in Seq(S), NEW e \in S, NEW R, NEW par, par \in [S -> R]
    PROVE  /\ [j \in 1 .. Len(s) |-> par[s[j]]] \in Seq(R)
           /\ [j \in 1 .. Len(Append(s, e)) |-> par[Append(s, e)[j]]] =
                 Append([j \in 1 .. Len(s) |-> par[s[j]]], par[e])
<1>1. PICK n \in Nat : n = Len(s)
    OBVIOUS
<1>2. PICK t : t = Append(s, e) /\ Len(t) = n + 1 /\ t[n + 1] = e /\ \A k \in 1 .. n : t[k] = s[k]
    <2>1. PICK t : t = Append(s, e)
        OBVIOUS
    <2>2. Len(t) = n + 1 /\ t[n + 1] = e /\ \A k \in 1 .. n : t[k] = s[k]
        BY <1>1, <2>1
    <2>3. QED  BY <2>1, <2>2
<1>3. PICK a : a = [j \in 1 .. n |-> par[s[j]]]
    OBVIOUS
<1>4. a \in Seq(R) /\ Len(a) = n
    <2>1. a \in [1 .. n -> R]
        BY <1>1, <1>3
    <2>2. QED  BY <2>1, FunctionIsSequence
<1>5. PICK r \in R : r = par[e]
    OBVIOUS
<1>6. PICK b : b = Append(a, r)
    OBVIOUS
<1>7. /\ DOMAIN b = 1 .. n + 1 /\ b[n + 1] = par[t[n + 1]]
      /\ \A k \in 1 .. n : b[k] = par[t[k]]
    <2>1. b \in Seq(R) /\ Len(b) = n + 1 /\ b[n + 1] = r /\ \A k \in 1 .. n : b[k] = a[k]
        BY <1>4, <1>6
    <2>2. \A k \in 1 .. n : b[k] = par[t[k]]
        BY <1>2, <1>3, <2>1
    <2>3. DOMAIN b = 1 .. n + 1
        BY <2>1
    <2>4. QED  BY <1>2, <1>5, <2>1, <2>2, <2>3
<1>8. \A k \in 1 .. n + 1 : b[k] = par[t[k]]
    BY <1>7
<1>9. b = [k \in 1 .. n + 1 |-> par[t[k]]]
    <2>1. b = [k \in DOMAIN b |-> b[k]]
        <3>1. b \in Seq(R)
            BY <1>4, <1>6
        <3>2. QED  BY <3>1
    <2>2. QED  BY <1>7, <1>8, <2>1
<1>10. QED  BY <1>1, <1>2, <1>3, <1>4, <1>5, <1>6, <1>9
=============================================================================
