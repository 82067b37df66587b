---------------------------- MODULE SequenceLemmas ----------------------------
(***************************************************************************)
(* Facts about the operators on sequences that NicTags, DhcpReply and      *)
(* BootScripts are built from, for sequences of every length.              *)
(*                                                                         *)
(* Induction goes by the well-founded order of Nat: of the numbers that    *)
(* falsify a statement one would be the least.  A statement is therefore   *)
(* given as the set of the numbers for which it holds.                     *)
(***************************************************************************)
EXTENDS Integers, Sequences, SequencesExt, FiniteSetTheorems, WellFoundedInduction, TLAPS

-------------------------------------------------------------------------------
(* Numbers.                                                                *)

(* A set of natural numbers that is not empty has a least element.         *)
LEMMA Least ==
    ASSUME NEW T, T \subseteq Nat, T # {}
    PROVE  \E n \in T : \A m \in T : n <= m
  <1> DEFINE R == OpToRel(<, Nat)
  <1>1. \A x, y \in Nat : y < x => <<y, x>> \in R
    BY DEF OpToRel
  <1>2. IsWellFoundedOn(R, Nat)
    BY NatLessThanWellFounded
  <1> HIDE DEF R
  <1>3. \E x \in T : \A y \in T : ~ (<<y, x>> \in R)
    BY WFMin, <1>2
  <1>4. PICK x \in T : \A y \in T : ~ (<<y, x>> \in R)
    BY <1>3
  <1>5. \A y \in T : ~ (y < x)
    BY <1>1, <1>4
  <1> QED BY <1>5

(* Induction over the natural numbers.                                     *)
LEMMA NatInd ==
    ASSUME NEW T, T \subseteq Nat, 0 \in T, \A n \in T : n + 1 \in T
    PROVE  T = Nat
  <1> SUFFICES ASSUME Nat \ T # {} PROVE FALSE
    OBVIOUS
  <1>1. PICK n \in Nat \ T : \A m \in Nat \ T : n <= m
    BY Least
  <1>2. n # 0 /\ n - 1 \in Nat
    OBVIOUS
  <1>3. n - 1 \in T
    BY <1>1, <1>2
  <1> QED BY <1>1, <1>2, <1>3

(* Induction up to a bound.                                                *)
LEMMA UpTo ==
    ASSUME NEW n \in Nat, NEW T, 0 \in T, \A i \in 1..n : i - 1 \in T => i \in T
    PROVE  0..n \subseteq T
  <1> DEFINE U == {i \in Nat : i <= n => i \in T}
  <1>1. \A i \in U : i + 1 \in U
    OBVIOUS
  <1>2. 0 \in U /\ U \subseteq Nat
    OBVIOUS
  <1> HIDE DEF U
  <1>3. U = Nat
    BY <1>1, <1>2, NatInd
  <1> QED BY <1>3 DEF U

(* What Min chooses from a set of indices.                                 *)
LEMMA MinOfIndices ==
    ASSUME NEW n \in Nat, NEW I, I \subseteq 1..n, I # {}
    PROVE  Min(I) \in I /\ \A i \in I : Min(I) <= i
  <1>1. I \subseteq Nat
    OBVIOUS
  <1>2. \E i \in I : \A j \in I : i <= j
    BY <1>1, Least
  <1> QED BY <1>2 DEF Min

(* A number that is in a set of indices and not above any other is its Min.*)
LEMMA MinIs ==
    ASSUME NEW n \in Nat, NEW I, I \subseteq 1..n, NEW i \in I, \A j \in I : i <= j
    PROVE  Min(I) = i
  <1>1. I # {} /\ i \in 1..n
    OBVIOUS
  <1>2. Min(I) \in I /\ \A j \in I : Min(I) <= j
    BY <1>1, MinOfIndices
  <1>3. Min(I) \in 1..n /\ i <= Min(I) /\ Min(I) <= i
    BY <1>2
  <1> QED BY <1>1, <1>3

(* What Max chooses from a set of indices.                                 *)
LEMMA MaxOfIndices ==
    ASSUME NEW n \in Nat, NEW I, I \subseteq 1..n, I # {}
    PROVE  Max(I) \in I /\ \A i \in I : i <= Max(I)
  <1> DEFINE J == {n - i : i \in I}
  <1>1. J \subseteq Nat /\ J # {}
    <2>1. \A i \in I : n - i \in Nat
      OBVIOUS
    <2> QED BY <2>1
  <1>2. PICK j \in J : \A k \in J : j <= k
    BY <1>1, Least
  <1>3. PICK i \in I : j = n - i
    BY <1>2
  <1>4. \A k \in I : i >= k
    <2> SUFFICES ASSUME NEW k \in I PROVE i >= k
      OBVIOUS
    <2>1. j <= n - k
      BY <1>2
    <2> QED BY <1>3, <2>1
  <1> QED BY <1>4 DEF Max

(* The greatest of the first indices is the last of them.                  *)
LEMMA MaxOfInterval ==
    ASSUME NEW i \in Nat \ {0}
    PROVE  Max(1..i) = i /\ (1..i) \ {Max(1..i)} = 1..(i - 1)
  <1>1. 1..i \subseteq 1..i /\ i \in 1..i /\ i \in Nat
    OBVIOUS
  <1>2. Max(1..i) \in 1..i /\ \A j \in 1..i : j <= Max(1..i)
    BY <1>1, MaxOfIndices
  <1>3. Max(1..i) = i
    BY <1>1, <1>2
  <1>4. (1..i) \ {i} = 1..(i - 1)
    OBVIOUS
  <1> QED BY <1>3, <1>4

-------------------------------------------------------------------------------
(* Sequences and sets.                                                     *)

(* One sequence after another.                                             *)
LEMMA Appended ==
    ASSUME NEW S, NEW p \in Seq(S), NEW q \in Seq(S), NEW m \in Nat, NEW n \in Nat,
           Len(p) = m, Len(q) = n
    PROVE  /\ p \o q \in Seq(S) /\ Len(p \o q) = m + n
           /\ \A i \in 1..m : (p \o q)[i] = p[i]
           /\ \A i \in 1..n : (p \o q)[m + i] = q[i]
  OBVIOUS

(* The members of two sequences, one after the other.                      *)
LEMMA AppendedMembers ==
    ASSUME NEW S, NEW p \in Seq(S), NEW q \in Seq(S)
    PROVE  p \o q \in Seq(S) /\ ToSet(p \o q) = ToSet(p) \cup ToSet(q)
  <1> DEFINE m == Len(p)
             n == Len(q)
             both == p \o q
  <1>1. m \in Nat /\ n \in Nat /\ DOMAIN p = 1..m /\ DOMAIN q = 1..n
    OBVIOUS
  <1>2. /\ both \in Seq(S) /\ DOMAIN both = 1..(m + n)
        /\ \A i \in 1..m : both[i] = p[i]
        /\ \A i \in 1..n : both[m + i] = q[i]
    OBVIOUS
  <1>3. \A i \in 1..(m + n) : i \in 1..m \/ (i - m \in 1..n /\ i = m + (i - m))
    BY <1>1
  <1>4. /\ \A i \in 1..m : i \in 1..(m + n)
        /\ \A i \in 1..n : m + i \in 1..(m + n)
    BY <1>1
  <1> HIDE DEF m, n, both
  <1>5. ASSUME NEW x \in ToSet(both) PROVE x \in ToSet(p) \cup ToSet(q)
    <2>1. PICK i \in 1..(m + n) : x = both[i]
      BY <1>2 DEF ToSet
    <2>2. CASE i \in 1..m
      BY <1>1, <1>2, <2>1, <2>2 DEF ToSet
    <2>3. CASE i - m \in 1..n /\ i = m + (i - m)
      <3>1. both[i] = q[i - m]
        BY <1>2, <2>3
      <3> QED BY <1>1, <2>1, <2>3, <3>1 DEF ToSet
    <2> QED BY <1>3, <2>2, <2>3
  <1>6. ASSUME NEW x \in ToSet(p) \cup ToSet(q) PROVE x \in ToSet(both)
    <2>1. CASE x \in ToSet(p)
      BY <1>1, <1>2, <1>4, <2>1 DEF ToSet
    <2>2. CASE x \in ToSet(q)
      BY <1>1, <1>2, <1>4, <2>2 DEF ToSet
    <2> QED BY <2>1, <2>2
  <1>7. ToSet(both) = ToSet(p) \cup ToSet(q)
    BY <1>5, <1>6
  <1> QED BY <1>2, <1>7 DEF both

\* p is a sequence.
List(p) == p \in Seq(ToSet(p))

(* One list after another is a list of the members of both.                *)
LEMMA ListAppended ==
    ASSUME NEW p, NEW q, List(p), List(q)
    PROVE  /\ List(p \o q) /\ ToSet(p \o q) = ToSet(p) \cup ToSet(q)
           /\ Len(p) \in Nat /\ Len(q) \in Nat /\ Len(p \o q) = Len(p) + Len(q)
           /\ DOMAIN p = 1..Len(p) /\ DOMAIN q = 1..Len(q) /\ DOMAIN (p \o q) = 1..Len(p \o q)
           /\ \A i \in 1..Len(q) : (p \o q)[Len(p) + i] = q[i]
  <1> DEFINE S == ToSet(p) \cup ToSet(q)
  <1>1. p \in Seq(S) /\ q \in Seq(S)
    BY DEF List
  <1>2. p \o q \in Seq(S) /\ ToSet(p \o q) = S
    BY <1>1, AppendedMembers
  <1>3. List(p \o q)
    BY <1>2 DEF List
  <1> QED BY <1>1, <1>2, <1>3

(* The list without members.                                               *)
LEMMA EmptyList ==
    ASSUME NEW p, p = <<>>
    PROVE  List(p) /\ ToSet(p) = {} /\ Len(p) = 0 /\ DOMAIN p = {}
  BY DEF List, ToSet

(* Short lists.                                                            *)
LEMMA ShortLists ==
    ASSUME NEW x, NEW y
    PROVE  /\ List(<<x>>) /\ ToSet(<<x>>) = {x} /\ Len(<<x>>) = 1
           /\ List(<<x, y>>) /\ ToSet(<<x, y>>) = {x, y} /\ Len(<<x, y>>) = 2
  <1>1. ToSet(<<x>>) = {x}
    BY DEF ToSet
  <1>2. ToSet(<<x, y>>) = {x, y}
    BY DEF ToSet
  <1> QED BY <1>1, <1>2 DEF List

(* Any function of the indices of a list is a list.                        *)
LEMMA ListMapped ==
    ASSUME NEW n \in Nat, NEW p, p = [i \in 1..n |-> p[i]]
    PROVE  List(p) /\ Len(p) = n
  BY DEF List, ToSet

(* An order of the elements of a finite set names each of them once.       *)
LEMMA OrderLists ==
    ASSUME NEW S, IsFiniteSet(S), NEW p \in SetToSeqs(S)
    PROVE  /\ ToSet(p) = S /\ Len(p) \in Nat /\ DOMAIN p = 1..Len(p)
           /\ \A i, j \in DOMAIN p : p[i] = p[j] => i = j
  <1> DEFINE n == Cardinality(S)
             D == 1..n
  <1>1. n \in Nat
    BY FS_CardinalityType
  <1>2. Cardinality(D) = n /\ IsFiniteSet(D)
    BY <1>1, FS_Interval
  <1>3. p \in [D -> S] /\ \A i, j \in D : i # j => p[i] # p[j]
    BY DEF SetToSeqs
  <1>4. Len(p) = n /\ DOMAIN p = D
    BY <1>1, <1>3
  <1> HIDE DEF D, n
  <1>5. p \in Injection(D, S)
    BY <1>3 DEF Injection, IsInjective
  <1>6. p \in Surjection(D, S)
    <2>1. Cardinality(D) = Cardinality(S)
      BY <1>2 DEF n
    <2> QED BY <1>5, <2>1, FS_Injection
  <1>7. \A x \in S : \E i \in D : p[i] = x
    BY <1>6 DEF Surjection
  <1>8. ToSet(p) = S
    BY <1>3, <1>4, <1>7 DEF ToSet
  <1> QED BY <1>1, <1>3, <1>4, <1>8 DEF D

(* Of the members of a sequence, some that number one are one.             *)
LEMMA OneMember ==
    ASSUME NEW n \in Nat, NEW seq, seq = [i \in 1..n |-> seq[i]],
           NEW X, X \subseteq ToSet(seq), Cardinality(X) = 1
    PROVE  \E x : X = {x}
  <1>1. IsFiniteSet(1..n)
    BY FS_Interval
  <1>2. seq \in Surjection(1..n, ToSet(seq))
    BY DEF Surjection, ToSet
  <1>3. IsFiniteSet(ToSet(seq))
    BY <1>1, <1>2, FS_Surjection
  <1>4. IsFiniteSet(X)
    BY <1>3, FS_Subset
  <1> QED BY <1>4, FS_Singleton

-------------------------------------------------------------------------------
(* Folds.                                                                  *)

\* g gives each set of indices the result of taking the steps they number.
Folds(g, n, S, base, step) ==
    /\ g \in [SUBSET (1..n) -> S]
    /\ g[{}] = base
    /\ \A x \in SUBSET (1..n) : x # {} => g[x] = step[Max(x)][g[x \ {Max(x)}]]

(* The function by which FoldLeft is defined exists.                       *)
LEMMA FoldRuns ==
    ASSUME NEW n \in Nat, NEW S, NEW base \in S, NEW step \in [1..n -> [S -> S]]
    PROVE  \E g : Folds(g, n, S, base, step)
  <1> DEFINE Runs(k, g) == Folds(g, k, S, base, step)
             T == {k \in 0..n : \E g : Runs(k, g)}
  <1> USE DEF Folds
  <1>1. 0 \in T
    <2> DEFINE g == [x \in SUBSET (1..0) |-> base]
    <2>1. 1..0 = {}
      OBVIOUS
    <2>2. Runs(0, g)
      BY <2>1
    <2> HIDE DEF g, Runs
    <2> QED BY <2>2
  <1>2. ASSUME NEW k \in 1..n, k - 1 \in T PROVE k \in T
    <2>1. PICK g : Runs(k - 1, g)
      BY <1>2
    <2> DEFINE h == [x \in SUBSET (1..k) |->
                        IF k \in x THEN step[k][g[x \ {k}]] ELSE g[x]]
    <2>2. ASSUME NEW x \in SUBSET (1..k)
          PROVE  /\ k \in x => x \ {k} \in SUBSET (1..(k - 1))
                 /\ k \notin x => x \in SUBSET (1..(k - 1))
                 /\ k \in x => Max(x) = k
      <3>1. k \in x => Max(x) = k
        <4> SUFFICES ASSUME k \in x PROVE Max(x) = k
          OBVIOUS
        <4>1. x \subseteq 1..k /\ x # {} /\ k \in Nat
          OBVIOUS
        <4>2. Max(x) \in x /\ k <= Max(x)
          BY <4>1, MaxOfIndices
        <4>3. Max(x) \in 1..k
          BY <4>1, <4>2
        <4> QED BY <4>2, <4>3
      <3> QED BY <3>1
    <2>3. h \in [SUBSET (1..k) -> S]
      BY <2>1, <2>2
    <2>4. h[{}] = base
      BY <2>1
    <2>5. ASSUME NEW x \in SUBSET (1..k), x # {}
          PROVE  h[x] = step[Max(x)][h[x \ {Max(x)}]]
      <3>1. CASE k \in x
        <4>1. Max(x) = k /\ x \ {k} \in SUBSET (1..(k - 1)) /\ k \notin x \ {k}
          BY <2>2, <3>1
        <4>2. h[x \ {k}] = g[x \ {k}]
          BY <4>1
        <4> QED BY <3>1, <4>1, <4>2
      <3>2. CASE k \notin x
        <4>1. x \in SUBSET (1..(k - 1)) /\ x \ {Max(x)} \in SUBSET (1..k)
              /\ k \notin x \ {Max(x)}
          BY <2>2, <3>2
        <4>2. h[x] = g[x] /\ h[x \ {Max(x)}] = g[x \ {Max(x)}]
          BY <3>2, <4>1
        <4> QED BY <2>1, <2>5, <4>1, <4>2
      <3> QED BY <3>1, <3>2
    <2>6. Runs(k, h)
      BY <2>3, <2>4, <2>5
    <2> HIDE DEF h, Runs
    <2> QED BY <2>6
  <1> HIDE DEF T, Runs
  <1>3. 0..n \subseteq T
    BY <1>1, <1>2, UpTo
  <1>4. n \in T
    BY <1>3
  <1>5. \E g : Runs(n, g)
    BY <1>4 DEF T
  <1> QED BY <1>5 DEF Runs
-------------------------------------------------------------------------------
(* Recursive functions.                                                    *)

\* prev names a smaller argument.
StepsDown(prev, n) == prev \in [1..n -> 0..n] /\ \A i \in 1..n : prev[i] < i

\* f is base at 0, and steps on from what it is at the argument prev.
Recurs(f, n, S, base, step, prev) ==
    /\ f \in [0..n -> S]
    /\ f[0] = base
    /\ \A i \in 1..n : f[i] = step[i][f[prev[i]]]

(* A function that steps on from smaller arguments exists.                 *)
LEMMA Recursion ==
    ASSUME NEW n \in Nat, NEW S, NEW base \in S, NEW step \in [1..n -> [S -> S]],
           NEW prev, StepsDown(prev, n)
    PROVE  \E f : Recurs(f, n, S, base, step, prev)
  <1> DEFINE Runs(k, f) == Recurs(f, k, S, base, step, prev)
             T == {k \in 0..n : \E f : Runs(k, f)}
  <1> USE DEF Recurs, StepsDown
  <1>1. 0 \in T
    <2> DEFINE f == [i \in 0..0 |-> base]
    <2>1. Runs(0, f)
      OBVIOUS
    <2> HIDE DEF f, Runs
    <2> QED BY <2>1
  <1>2. ASSUME NEW k \in 1..n, k - 1 \in T PROVE k \in T
    <2>1. PICK f : Runs(k - 1, f)
      BY <1>2
    <2> DEFINE g == [i \in 0..k |-> IF i = k THEN step[k][f[prev[k]]] ELSE f[i]]
    <2>2. prev[k] \in 0..(k - 1)
      OBVIOUS
    <2>3. g \in [0..k -> S]
      BY <2>1, <2>2
    <2>4. g[0] = base
      BY <2>1
    <2>5. ASSUME NEW i \in 1..k PROVE g[i] = step[i][g[prev[i]]]
      <3>1. i \in 1..n /\ prev[i] \in 0..(i - 1) /\ prev[i] \in 0..k /\ prev[i] # k
        OBVIOUS
      <3>2. g[prev[i]] = f[prev[i]]
        BY <3>1
      <3> QED BY <2>1, <3>1, <3>2
    <2>6. Runs(k, g)
      BY <2>3, <2>4, <2>5
    <2> HIDE DEF g, Runs
    <2> QED BY <2>6
  <1> HIDE DEF T, Runs
  <1>3. 0..n \subseteq T
    BY <1>1, <1>2, UpTo
  <1>4. \E f : Runs(n, f)
    BY <1>3 DEF T
  <1> QED BY <1>4 DEF Runs

\* next names a greater argument.
StepsUp(next, n) == next \in [1..n -> 2..(n + 1)] /\ \A i \in 1..n : i < next[i]

\* f is base behind n, and before steps on from what it is at the argument next.
RecursDown(f, n, S, base, step, next) ==
    /\ f \in [1..(n + 1) -> S]
    /\ f[n + 1] = base
    /\ \A i \in 1..n : f[i] = step[i][f[next[i]]]

(* A function that steps on from greater arguments exists.                 *)
LEMMA RecursionDown ==
    ASSUME NEW n \in Nat, NEW S, NEW base \in S, NEW step \in [1..n -> [S -> S]],
           NEW next, StepsUp(next, n)
    PROVE  \E f : RecursDown(f, n, S, base, step, next)
  <1> DEFINE back == [j \in 1..n |-> step[n + 1 - j]]
             prev == [j \in 1..n |-> n + 1 - next[n + 1 - j]]
  <1>1. \A i \in 1..n : /\ n + 1 - i \in 1..n /\ n + 1 - (n + 1 - i) = i
                        /\ next[i] \in (i + 1)..(n + 1)
    BY DEF StepsUp
  <1>2. back \in [1..n -> [S -> S]]
    BY <1>1
  <1>3. StepsDown(prev, n)
    <2>1. ASSUME NEW j \in 1..n
          PROVE  n + 1 - next[n + 1 - j] \in 0..n /\ n + 1 - next[n + 1 - j] < j
      <3>1. next[n + 1 - j] \in (n + 1 - j + 1)..(n + 1)
        BY <1>1
      <3> QED BY <3>1
    <2> QED BY <2>1 DEF StepsDown
  <1>4. PICK g : Recurs(g, n, S, base, back, prev)
    <2> HIDE DEF back, prev
    <2> QED BY <1>2, <1>3, Recursion
  <1> DEFINE f == [i \in 1..(n + 1) |-> g[n + 1 - i]]
  <1>5. f \in [1..(n + 1) -> S] /\ f[n + 1] = base
    <2>1. \A i \in 1..(n + 1) : n + 1 - i \in 0..n
      OBVIOUS
    <2> QED BY <1>4, <2>1 DEF Recurs
  <1>6. ASSUME NEW i \in 1..n PROVE f[i] = step[i][f[next[i]]]
    <2>1. n + 1 - i \in 1..n /\ n + 1 - (n + 1 - i) = i
      BY <1>1
    <2>2. back[n + 1 - i] = step[i] /\ prev[n + 1 - i] = n + 1 - next[i]
      BY <2>1
    <2>3. g[n + 1 - i] = back[n + 1 - i][g[prev[n + 1 - i]]]
      BY <1>4, <2>1 DEF Recurs
    <2>4. next[i] \in 1..(n + 1) /\ i \in 1..(n + 1)
      BY <1>1
    <2>5. f[i] = g[n + 1 - i] /\ f[next[i]] = g[n + 1 - next[i]]
      BY <2>4
    <2> QED BY <2>2, <2>3, <2>5
  <1> HIDE DEF f
  <1>7. RecursDown(f, n, S, base, step, next)
    BY <1>5, <1>6 DEF RecursDown
  <1> QED BY <1>7
===============================================================================
