--------------------------- MODULE AlgorithmProofs ---------------------------
(***************************************************************************)
(* What the folds and recursive functions of Grants and Capabilities       *)
(* compute, for paths, lists of requirements and graphs of dependencies of *)
(* any size.                                                               *)
(*                                                                         *)
(* Induction is by a least counterexample: over the naturals, or over the  *)
(* finite subsets of a set.  Induction hypotheses are sets and recursions  *)
(* are functions, where the library's theorems have operators.             *)
(***************************************************************************)
EXTENDS Capabilities, Grants, WellFoundedInduction, FiniteSetTheorems,
        SequenceTheorems, TLAPS

-----------------------------------------------------------------------------
(* Induction and recursion *)

\* A set of numbers that has 0 and with each number the next has them all.
LEMMA NatSetInduction ==
  ASSUME NEW P, 0 \in P, \A n \in Nat : n \in P => n + 1 \in P
  PROVE  Nat \subseteq P
<1> SUFFICES ASSUME Nat \ P # {} PROVE FALSE
  OBVIOUS
<1> DEFINE R == OpToRel(<, Nat)
<1>1. \A m, n \in Nat : m < n => <<m, n>> \in R
  BY DEF OpToRel
<1>2. IsWellFoundedOn(R, Nat)
  BY NatLessThanWellFounded
<1> HIDE DEF R
<1>3. PICK n \in Nat \ P : \A m \in Nat \ P : ~(<<m, n>> \in R)
  BY <1>2, WFMin
<1>4. /\ n # 0 /\ n \in Nat /\ n - 1 \in Nat
      /\ n - 1 < n /\ (n - 1) + 1 = n
  BY <1>3
<1>5. n - 1 \in P
  BY <1>1, <1>3, <1>4
<1> QED
  BY <1>3, <1>4, <1>5

\* The same up to a bound.
LEMMA RangeInduction ==
  ASSUME NEW k \in Nat, NEW P, 0 \in P, \A n \in 0 .. k - 1 : n \in P => n + 1 \in P
  PROVE  0 .. k \subseteq P
<1> DEFINE Q == {n \in Nat : n <= k => n \in P}
<1>1. 0 \in Q
  OBVIOUS
<1>2. ASSUME NEW n \in Nat, n \in Q PROVE n + 1 \in Q
  <2>1. CASE n + 1 <= k
    <3>1. n \in 0 .. k - 1 /\ n \in P
      BY <1>2, <2>1
    <3> QED
      BY <3>1
  <2>2. CASE ~(n + 1 <= k)
    BY <2>2
  <2> QED
    BY <2>1, <2>2
<1> HIDE DEF Q
<1>3. Nat \subseteq Q
  BY <1>1, <1>2, NatSetInduction
<1> QED
  BY <1>3 DEF Q

\* A non-empty set of subsets of a finite set has a largest member, and a
\* smallest one.
LEMMA LargestSubset ==
  ASSUME NEW S, IsFiniteSet(S), NEW T, T \subseteq SUBSET S, T # {}
  PROVE  \E t \in T : \A u \in T : t \subseteq u => u = t
<1> DEFINE R == StrictSubsetOrdering(S)
           Rest == {S \ t : t \in T}
<1>1. IsWellFoundedOn(R, SUBSET S)
  BY FS_StrictSubsetOrderingWellFounded, FS_FiniteSubsetsOfFinite
<1>2. \A u, v \in SUBSET S : u \subseteq v /\ u # v => <<u, v>> \in R
  BY DEF StrictSubsetOrdering
<1>3. Rest \subseteq SUBSET S /\ Rest # {}
  <2>1. PICK t \in T : TRUE
    OBVIOUS
  <2>2. S \ t \in Rest
    BY <2>1
  <2>3. \A r \in Rest : r \subseteq S
    OBVIOUS
  <2> QED
    BY <2>2, <2>3
<1> HIDE DEF R
<1>4. PICK r \in Rest : \A x \in Rest : ~(<<x, r>> \in R)
  <2> HIDE DEF Rest
  <2> QED
    BY <1>1, <1>3, WFMin
<1>5. PICK t \in T : r = S \ t
  BY <1>4
<1>6. ASSUME NEW u \in T, t \subseteq u PROVE u = t
  <2>1. S \ u \in Rest /\ S \ u \in SUBSET S /\ r \in SUBSET S
    BY <1>3, <1>4
  <2>2. S \ u \subseteq r
    BY <1>5, <1>6
  <2>3. S \ u = r
    BY <1>2, <1>4, <2>1, <2>2
  <2>4. u \subseteq S /\ t \subseteq S
    OBVIOUS
  <2> QED
    BY <1>5, <2>3, <2>4
<1> QED
  BY <1>6

\* A non-empty finite set of numbers has a largest one.
LEMMA LargestNumber ==
  ASSUME NEW S, \A n \in S : n \in Nat, IsFiniteSet(S), S # {}
  PROVE  \E n \in S : \A m \in S : m <= n
<1> DEFINE Below(n) == {m \in S : m <= n}
           Bounded == {Below(n) : n \in S}
<1>1. PICK t \in Bounded : \A u \in Bounded : t \subseteq u => u = t
  <2>1. PICK n \in S : TRUE
    OBVIOUS
  <2>2. Below(n) \in Bounded
    BY <2>1
  <2>3. \A u \in Bounded : u \subseteq S
    OBVIOUS
  <2>4. Bounded \subseteq SUBSET S /\ Bounded # {}
    BY <2>2, <2>3
  <2> HIDE DEF Bounded
  <2> QED
    BY <2>4, LargestSubset
<1>2. PICK n \in S : t = Below(n)
  BY <1>1
<1>3. ASSUME NEW m \in S, ~(m <= n) PROVE FALSE
  <2>1. Below(m) \in Bounded
    OBVIOUS
  <2>2. m \in Nat /\ n \in Nat /\ n < m
    BY <1>3
  <2>3. Below(n) \subseteq Below(m)
    <3>1. \A x \in S : x <= n => x <= m
      BY <2>2
    <3> QED
      BY <3>1
  <2>4. m \in Below(m) /\ m \notin Below(n)
    BY <1>3, <2>2
  <2> QED
    BY <1>1, <1>2, <2>1, <2>3, <2>4
<1> QED
  BY <1>3

LEMMA MaxOf ==
  ASSUME NEW S, \A n \in S : n \in Nat, IsFiniteSet(S), S # {}
  PROVE  Max(S) \in S /\ \A n \in S : n <= Max(S)
<1>1. \E n \in S : \A m \in S : n >= m
  BY LargestNumber
<1>2. Max(S) \in S /\ \A m \in S : Max(S) >= m
  BY <1>1 DEF Max
<1> QED
  BY <1>2

LEMMA MaxOfRange ==
  ASSUME NEW k \in Nat
  PROVE  /\ \A s \in SUBSET (1 .. k) : s # {} => Max(s) \in s /\ \A n \in s : n <= Max(s)
         /\ k # 0 => Max(1 .. k) = k /\ (1 .. k) \ {k} = 1 .. k - 1
<1>1. ASSUME NEW s \in SUBSET (1 .. k), s # {}
      PROVE  Max(s) \in s /\ \A n \in s : n <= Max(s)
  <2>1. IsFiniteSet(s)
    <3>1. IsFiniteSet(1 .. k)
      BY FS_Interval
    <3>2. s \subseteq 1 .. k
      OBVIOUS
    <3> QED
      BY <3>1, <3>2, FS_Subset
  <2>2. \A n \in s : n \in Nat
    OBVIOUS
  <2> QED
    BY <1>1, <2>1, <2>2, MaxOf
<1>2. ASSUME k # 0
      PROVE  Max(1 .. k) = k /\ (1 .. k) \ {k} = 1 .. k - 1
  <2>1. k \in 1 .. k
    BY <1>2
  <2>2. Max(1 .. k) \in 1 .. k /\ k <= Max(1 .. k)
    BY <1>1, <2>1
  <2> QED
    BY <2>2
<1> QED
  BY <1>1, <1>2

\* What MapThenFoldSet iterates for a sequence: the largest index is taken first.
Iterates(f, n, V, base, step) ==
  /\ f \in [SUBSET (1 .. n) -> V]
  /\ f[{}] = base
  /\ \A s \in SUBSET (1 .. n) : s # {} => f[s] = step[Max(s)][f[s \ {Max(s)}]]

LEMMA IterationExists ==
  ASSUME NEW n \in Nat, NEW V, NEW base \in V, NEW step \in [1 .. n -> [V -> V]]
  PROVE  \E f : Iterates(f, n, V, base, step)
<1> DEFINE P == {k \in 0 .. n : \E f : Iterates(f, k, V, base, step)}
<1>1. 0 \in P
  <2> DEFINE f == [s \in SUBSET (1 .. 0) |-> base]
  <2>1. SUBSET (1 .. 0) = {{}}
    OBVIOUS
  <2>2. Iterates(f, 0, V, base, step)
    BY <2>1 DEF Iterates
  <2> QED
    BY <2>2
<1>2. ASSUME NEW k \in 0 .. n - 1, k \in P PROVE k + 1 \in P
  <2>1. PICK g : Iterates(g, k, V, base, step)
    BY <1>2
  <2>2. \A s \in SUBSET (1 .. k) : g[s] \in V
    BY <2>1 DEF Iterates
  <2>3. \A v \in V : step[k + 1][v] \in V
    <3>1. k + 1 \in 1 .. n
      OBVIOUS
    <3> QED
      BY <3>1
  <2> DEFINE f == [s \in SUBSET (1 .. k + 1) |->
                     IF k + 1 \in s THEN step[k + 1][g[s \ {k + 1}]] ELSE g[s]]
  <2>4. \A s \in SUBSET (1 .. k + 1) : s \ {k + 1} \in SUBSET (1 .. k)
    OBVIOUS
  <2>5. \A s \in SUBSET (1 .. k + 1) : k + 1 \notin s => s \in SUBSET (1 .. k)
    OBVIOUS
  <2>6. f \in [SUBSET (1 .. k + 1) -> V]
    BY <2>2, <2>3, <2>4, <2>5
  <2>7. f[{}] = base
    BY <2>1 DEF Iterates
  <2>8. ASSUME NEW s \in SUBSET (1 .. k + 1), s # {}
        PROVE  f[s] = step[Max(s)][f[s \ {Max(s)}]]
    <3>1. k + 1 \in Nat
      OBVIOUS
    <3>2. Max(s) \in s /\ \A m \in s : m <= Max(s)
      BY <2>8, <3>1, MaxOfRange
    <3>3. s \ {Max(s)} \in SUBSET (1 .. k + 1)
      OBVIOUS
    <3>4. CASE k + 1 \in s
      <4>1. Max(s) = k + 1
        <5>1. Max(s) \in 1 .. k + 1 /\ k + 1 <= Max(s)
          BY <3>2, <3>4
        <5> QED
          BY <5>1
      <4>2. f[s \ {k + 1}] = g[s \ {k + 1}]
        BY <2>4
      <4>3. f[s] = step[k + 1][g[s \ {k + 1}]]
        BY <3>4
      <4> QED
        BY <4>1, <4>2, <4>3
    <3>5. CASE k + 1 \notin s
      <4>1. s \in SUBSET (1 .. k)
        BY <2>5, <3>5
      <4>2. g[s] = step[Max(s)][g[s \ {Max(s)}]]
        BY <2>1, <2>8, <4>1 DEF Iterates
      <4>3. f[s] = g[s] /\ f[s \ {Max(s)}] = g[s \ {Max(s)}]
        BY <3>3, <3>5
      <4> QED
        BY <4>2, <4>3
    <3> QED
      BY <3>4, <3>5
  <2> HIDE DEF f
  <2>9. Iterates(f, k + 1, V, base, step)
    BY <2>6, <2>7, <2>8 DEF Iterates
  <2> QED
    BY <2>9
<1> HIDE DEF P
<1>3. 0 .. n \subseteq P
  BY <1>1, <1>2, RangeInduction
<1> QED
  BY <1>3 DEF P

\* Such an iteration runs through the sequence from its first element.
LEMMA IterationInOrder ==
  ASSUME NEW n \in Nat, NEW V, NEW base, NEW step, NEW f, Iterates(f, n, V, base, step)
  PROVE  /\ f[1 .. 0] = base
         /\ \A k \in 1 .. n : f[1 .. k] = step[k][f[1 .. k - 1]]
         /\ \A k \in 0 .. n : f[1 .. k] \in V
<1>1. 1 .. 0 = {}
  OBVIOUS
<1>2. ASSUME NEW k \in 1 .. n
      PROVE  f[1 .. k] = step[k][f[1 .. k - 1]]
  <2>1. 1 .. k \in SUBSET (1 .. n) /\ 1 .. k # {}
    OBVIOUS
  <2>2. Max(1 .. k) = k /\ (1 .. k) \ {k} = 1 .. k - 1
    BY MaxOfRange
  <2> QED
    BY <2>1, <2>2 DEF Iterates
<1>3. \A k \in 0 .. n : 1 .. k \in SUBSET (1 .. n)
  OBVIOUS
<1> QED
  BY <1>1, <1>2, <1>3 DEF Iterates

-----------------------------------------------------------------------------
(* Paths *)

\* The segments that lead nowhere.
Idle == {"", "."}

LEMMA EnterType ==
  ASSUME NEW S, NEW at \in Seq(S), NEW segment \in S
  PROVE  Enter(at, segment) \in Seq(S)
<1>1. at # <<>> => Front(at) \in Seq(S)
  <2>1. \A i \in 1 .. Len(at) - 1 : at[i] \in S
    OBVIOUS
  <2> QED
    BY <2>1 DEF Front
<1>2. Append(at, segment) \in Seq(S)
  BY AppendProperties
<1>3. CASE segment \in {"", "."}
  BY <1>3 DEF Enter
<1>4. CASE segment = ".."
  BY <1>1, <1>4 DEF Enter
<1>5. CASE segment \notin {"", ".", ".."}
  BY <1>2, <1>5 DEF Enter
<1> QED
  BY <1>3, <1>4, <1>5

\* Place enters the segments of a path one by one.
LEMMA PlaceSteps ==
  ASSUME NEW S, NEW path \in Seq(S)
  PROVE  \E f \in [0 .. Len(path) -> Seq(S)] :
           /\ f[0] = <<>>
           /\ \A k \in 1 .. Len(path) : f[k] = Enter(f[k - 1], path[k])
           /\ Place(path) = f[Len(path)]
<1> DEFINE n == Len(path)
           V == Seq(S)
           step == [k \in 1 .. n |-> [v \in V |-> Enter(v, path[k])]]
           iter == CHOOSE iter : iter = [s \in SUBSET DOMAIN path |->
                     IF s = {} THEN <<>>
                     ELSE LET x == Max(s) IN Enter(iter[s \ {x}], path[x])]
<1>1. n \in Nat /\ DOMAIN path = 1 .. n /\ <<>> \in V
  OBVIOUS
<1>2. Place(path) = iter[DOMAIN path]
  BY Zenon DEF Place, FoldLeft, MapThenFoldSet
<1>3. \E g : g = [s \in SUBSET DOMAIN path |->
                  IF s = {} THEN <<>>
                  ELSE LET x == Max(s) IN Enter(g[s \ {x}], path[x])]
  <2>1. step \in [1 .. n -> [V -> V]]
    <3>1. \A k \in 1 .. n : path[k] \in S
      OBVIOUS
    <3>2. \A k \in 1 .. n, v \in V : Enter(v, path[k]) \in V
      BY <3>1, EnterType
    <3> HIDE DEF n, V
    <3> QED
      BY <3>2
  <2>2. PICK g : Iterates(g, n, V, <<>>, step)
    <3> HIDE DEF n, V, step
    <3> QED
      BY <1>1, <2>1, IterationExists
  <2>3. ASSUME NEW s \in SUBSET (1 .. n), s # {}
        PROVE  g[s] = Enter(g[s \ {Max(s)}], path[Max(s)])
    <3>1. Max(s) \in 1 .. n /\ s \ {Max(s)} \in SUBSET (1 .. n)
      BY <1>1, <2>3, MaxOfRange
    <3>2. g[s \ {Max(s)}] \in V
      BY <2>2, <3>1 DEF Iterates
    <3>3. g[s] = step[Max(s)][g[s \ {Max(s)}]]
      BY <2>2, <2>3 DEF Iterates
    <3> QED
      BY <3>1, <3>2, <3>3
  <2>4. g \in [SUBSET (1 .. n) -> V] /\ g[{}] = <<>>
    BY <2>2 DEF Iterates
  <2>5. g = [s \in SUBSET DOMAIN path |->
               IF s = {} THEN <<>>
               ELSE LET x == Max(s) IN Enter(g[s \ {x}], path[x])]
    <3> HIDE DEF n, V, step
    <3> QED
      BY <1>1, <2>3, <2>4
  <2> QED
    BY <2>5
<1>4. iter = [s \in SUBSET DOMAIN path |->
                IF s = {} THEN <<>>
                ELSE LET x == Max(s) IN Enter(iter[s \ {x}], path[x])]
  BY <1>3, Zenon
<1> HIDE DEF iter
<1> DEFINE f == [k \in 0 .. n |-> iter[1 .. k]]
<1>5. f[0] = <<>>
  <2>1. 0 \in 0 .. n /\ 1 .. 0 = {}
    BY <1>1
  <2>2. iter[{}] = <<>>
    BY <1>4
  <2> QED
    BY <2>1, <2>2
<1>6. ASSUME NEW k \in 1 .. n
      PROVE  f[k] = Enter(f[k - 1], path[k])
  <2>1. 1 .. k \in SUBSET DOMAIN path /\ 1 .. k # {} /\ k - 1 \in 0 .. n
    BY <1>1
  <2>2. Max(1 .. k) = k /\ (1 .. k) \ {k} = 1 .. k - 1
    BY MaxOfRange
  <2>3. iter[1 .. k] = Enter(iter[1 .. k - 1], path[k])
    BY <1>4, <2>1, <2>2
  <2> QED
    BY <2>1, <2>3
<1>7. ASSUME NEW k \in 0 .. n
      PROVE  f[k] \in V
  <2> DEFINE P == {j \in 0 .. n : f[j] \in V}
  <2>1. \A j \in 1 .. n : path[j] \in S
    OBVIOUS
  <2> HIDE DEF f, n
  <2>2. 0 \in P
    <3>1. 0 \in 0 .. n
      BY <1>1
    <3>2. f[0] \in V
      BY <1>1, <1>5, Zenon
    <3> QED
      BY <3>1, <3>2
  <2>3. ASSUME NEW j \in 0 .. n - 1, j \in P PROVE j + 1 \in P
    <3>1. j + 1 \in 1 .. n /\ (j + 1) - 1 = j
      BY <1>1
    <3>2. f[j + 1] = Enter(f[j], path[j + 1])
      BY <1>6, <3>1
    <3>3. f[j] \in Seq(S) /\ path[j + 1] \in S
      BY <2>1, <2>3, <3>1
    <3>4. f[j + 1] \in Seq(S)
      BY <3>2, <3>3, EnterType
    <3> QED
      BY <3>1, <3>4, <1>1
  <2> HIDE DEF P
  <2>4. 0 .. n \subseteq P
    BY <1>1, <2>2, <2>3, RangeInduction
  <2> QED
    BY <2>4 DEF P
<1>8. f \in [0 .. n -> V] /\ Place(path) = f[n]
  <2>1. f[n] = iter[1 .. n]
    BY <1>1
  <2>2. f \in [0 .. n -> V]
    <3>1. f = [k \in 0 .. n |-> f[k]]
      OBVIOUS
    <3> HIDE DEF f
    <3> QED
      BY <1>7, <3>1
  <2> QED
    BY <1>1, <1>2, <2>1, <2>2
<1> HIDE DEF f
<1> QED
  BY <1>5, <1>6, <1>8

LEMMA PlaceType ==
  ASSUME NEW S, NEW path \in Seq(S)
  PROVE  Place(path) \in Seq(S)
<1>1. PICK f \in [0 .. Len(path) -> Seq(S)] : Place(path) = f[Len(path)]
  BY PlaceSteps
<1>2. Len(path) \in 0 .. Len(path)
  OBVIOUS
<1> QED
  BY <1>1, <1>2

LEMMA PrefixElements ==
  ASSUME NEW S, NEW s \in Seq(S), NEW t \in Seq(S)
  PROVE  IsPrefix(s, t) <=> Len(s) <= Len(t) /\ \A i \in 1 .. Len(s) : s[i] = t[i]
<1> DEFINE n == Len(s)
<1>1. n \in Nat /\ Len(t) \in Nat
  OBVIOUS
<1>2. SubSeq(s, 1, n) = s
  <2>1. \A i \in 1 .. n : s[i] \in S
    OBVIOUS
  <2>2. /\ SubSeq(s, 1, n) \in Seq(S) /\ Len(SubSeq(s, 1, n)) = n
        /\ \A i \in 1 .. n : SubSeq(s, 1, n)[i] = s[i]
    BY <2>1, SubSeqProperties
  <2> QED
    BY <2>2, SeqEqual
<1>3. ASSUME n <= Len(t)
      PROVE  SubSeq(s, 1, n) = SubSeq(t, 1, n) <=> \A i \in 1 .. n : s[i] = t[i]
  <2>1. \A i \in 1 .. n : t[i] \in S
    BY <1>3
  <2>2. /\ SubSeq(t, 1, n) \in Seq(S) /\ Len(SubSeq(t, 1, n)) = n
        /\ \A i \in 1 .. n : SubSeq(t, 1, n)[i] = t[i]
    BY <2>1, SubSeqProperties
  <2>3. (\A i \in 1 .. n : s[i] = t[i]) => s = SubSeq(t, 1, n)
    BY <2>2, SeqEqual
  <2> HIDE DEF n
  <2> QED
    BY <1>2, <2>2, <2>3
<1> QED
  BY <1>1, <1>3 DEF IsPrefix

LEMMA PrefixTransitive ==
  ASSUME NEW S, NEW s \in Seq(S), NEW t \in Seq(S), NEW u \in Seq(S),
         IsPrefix(s, t), IsPrefix(t, u)
  PROVE  IsPrefix(s, u)
<1>1. /\ Len(s) <= Len(t) /\ \A i \in 1 .. Len(s) : s[i] = t[i]
      /\ Len(t) <= Len(u) /\ \A i \in 1 .. Len(t) : t[i] = u[i]
  BY PrefixElements
<1>2. Len(s) <= Len(u) /\ \A i \in 1 .. Len(s) : s[i] = u[i]
  BY <1>1
<1> QED
  BY <1>2, PrefixElements

\* A segment that is not ".." leads nowhere but deeper.
LEMMA EnterDeeper ==
  ASSUME NEW S, NEW at \in Seq(S), NEW segment \in S, segment # ".."
  PROVE  IsPrefix(at, Enter(at, segment))
<1>1. IsPrefix(at, at)
  BY PrefixElements
<1>2. IsPrefix(at, Append(at, segment))
  <2>1. /\ Append(at, segment) \in Seq(S)
        /\ Len(at) <= Len(Append(at, segment))
        /\ \A i \in 1 .. Len(at) : Append(at, segment)[i] = at[i]
    BY AppendProperties
  <2> QED
    BY <2>1, PrefixElements
<1> QED
  BY <1>1, <1>2 DEF Enter

\* A path that does not climb after its first part leads beneath where that
\* part leads.
LEMMA PlaceDeeper ==
  ASSUME NEW S, NEW root \in Seq(S), NEW path \in Seq(S), IsPrefix(root, path),
         \A i \in Len(root) + 1 .. Len(path) : path[i] # ".."
  PROVE  IsPrefix(Place(root), Place(path))
<1> DEFINE m == Len(root)
           n == Len(path)
<1>1. m \in Nat /\ n \in Nat /\ m <= n /\ \A i \in 1 .. m : root[i] = path[i]
  BY PrefixElements
<1>2. /\ \A i \in 1 .. n : path[i] \in S
      /\ \A i \in m + 1 .. n : path[i] # ".."
  OBVIOUS
<1>3. PICK f \in [0 .. n -> Seq(S)] :
        /\ f[0] = <<>>
        /\ \A k \in 1 .. n : f[k] = Enter(f[k - 1], path[k])
        /\ Place(path) = f[n]
  BY PlaceSteps
<1>4. PICK g \in [0 .. m -> Seq(S)] :
        /\ g[0] = <<>>
        /\ \A k \in 1 .. m : g[k] = Enter(g[k - 1], root[k])
        /\ Place(root) = g[m]
  BY PlaceSteps
<1> HIDE DEF m, n
<1>5. f[m] = g[m]
  <2> DEFINE P == {k \in 0 .. m : f[k] = g[k]}
  <2>1. 0 \in P
    BY <1>1, <1>3, <1>4
  <2>2. ASSUME NEW k \in 0 .. m - 1, k \in P PROVE k + 1 \in P
    <3>1. /\ k + 1 \in 1 .. m /\ k + 1 \in 0 .. m
          /\ k + 1 \in 1 .. n /\ (k + 1) - 1 = k
      BY <1>1
    <3>2. f[k + 1] = Enter(f[k], path[k + 1]) /\ g[k + 1] = Enter(g[k], root[k + 1])
      BY <1>3, <1>4, <3>1
    <3> QED
      BY <1>1, <2>2, <3>1, <3>2
  <2> HIDE DEF P
  <2>3. 0 .. m \subseteq P
    BY <1>1, <2>1, <2>2, RangeInduction
  <2>4. m \in 0 .. m
    BY <1>1
  <2> QED
    BY <2>3, <2>4 DEF P
<1>6. IsPrefix(f[m], f[n])
  <2> DEFINE P == {k \in 0 .. n : m <= k => IsPrefix(f[m], f[k])}
  <2>1. \A k \in 0 .. n : f[k] \in Seq(S)
    BY <1>3
  <2>2. m \in 0 .. n /\ n \in 0 .. n /\ m <= n
    BY <1>1
  <2>3. IsPrefix(f[m], f[m])
    BY <2>1, <2>2, PrefixElements
  <2>4. 0 \in P
    BY <1>1, <2>3
  <2>5. ASSUME NEW k \in 0 .. n - 1, k \in P PROVE k + 1 \in P
    <3>1. /\ k \in 0 .. n /\ k + 1 \in 1 .. n /\ k + 1 \in 0 .. n
          /\ (k + 1) - 1 = k
      BY <1>1
    <3>2. CASE m <= k
      <4>1. k + 1 \in m + 1 .. n
        BY <1>1, <3>2
      <4>2. f[k + 1] = Enter(f[k], path[k + 1])
        BY <1>3, <3>1
      <4>3. IsPrefix(f[k], f[k + 1])
        BY <1>2, <2>1, <3>1, <4>1, <4>2, EnterDeeper
      <4>4. IsPrefix(f[m], f[k])
        BY <2>5, <3>2
      <4>5. IsPrefix(f[m], f[k + 1])
        BY <2>1, <2>2, <3>1, <4>3, <4>4, PrefixTransitive
      <4> QED
        BY <3>1, <4>5
    <3>3. CASE m = k + 1
      BY <2>3, <3>1, <3>3
    <3>4. CASE k + 1 < m
      BY <1>1, <3>1, <3>4
    <3> QED
      BY <1>1, <3>1, <3>2, <3>3, <3>4
  <2> HIDE DEF P
  <2>6. 0 .. n \subseteq P
    BY <1>1, <2>4, <2>5, RangeInduction
  <2> QED
    BY <2>2, <2>6 DEF P
<1> QED
  BY <1>3, <1>4, <1>5, <1>6

\* A path without ".." that names something leads somewhere.
LEMMA PlaceSomewhere ==
  ASSUME NEW S, NEW path \in Seq(S), ".." \notin ToSet(path),
         NEW name \in ToSet(path), name \notin Idle
  PROVE  Place(path) # <<>>
<1> DEFINE n == Len(path)
<1>1. n \in Nat /\ \A j \in 1 .. n : path[j] \in S
  OBVIOUS
<1>2. DOMAIN path = 1 .. n
  OBVIOUS
<1> HIDE DEF n
<1>3. PICK i \in 1 .. n : path[i] = name
  BY <1>2 DEF ToSet
<1>4. \A j \in 1 .. n : path[j] # ".."
  BY <1>2 DEF ToSet
<1> DEFINE root == SubSeq(path, 1, i)
<1>5. /\ i \in Nat /\ 1 <= i /\ i <= n /\ i - 1 \in 0 .. i /\ i \in 1 .. i
      /\ \A j \in 1 .. i : j \in 1 .. n
      /\ \A j \in i + 1 .. n : j \in 1 .. n
  BY <1>1, <1>3
<1>6. /\ root \in Seq(S) /\ Len(root) = i
      /\ \A j \in 1 .. i : root[j] = path[j]
  <2>1. \A j \in 1 .. i : path[j] \in S
    BY <1>1, <1>5
  <2> QED
    BY <1>5, <2>1, SubSeqProperties
<1> HIDE DEF root
<1>7. IsPrefix(root, path)
  BY <1>5, <1>6, PrefixElements DEF n
<1>8. \A j \in Len(root) + 1 .. Len(path) : path[j] # ".."
  BY <1>4, <1>5, <1>6 DEF n
<1>9. IsPrefix(Place(root), Place(path))
  BY <1>6, <1>7, <1>8, PlaceDeeper
<1>10. PICK f \in [0 .. i -> Seq(S)] :
        /\ \A k \in 1 .. i : f[k] = Enter(f[k - 1], root[k])
        /\ Place(root) = f[i]
  BY <1>6, PlaceSteps
<1>11. Place(root) = Append(f[i - 1], path[i])
  <2>1. Place(root) = Enter(f[i - 1], path[i])
    BY <1>5, <1>6, <1>10
  <2>2. path[i] \notin Idle /\ path[i] # ".."
    BY <1>3, <1>4
  <2> QED
    BY <2>1, <2>2, Zenon DEF Enter, Idle
<1>12. f[i - 1] \in Seq(S) /\ path[i] \in S
  BY <1>3, <1>1, <1>5, <1>10
<1>13. Place(root) \in Seq(S) /\ Len(Place(root)) = Len(f[i - 1]) + 1
  BY <1>11, <1>12, AppendProperties
<1>14. Place(path) \in Seq(S)
  BY PlaceType
<1>15. Len(Place(root)) <= Len(Place(path))
  BY <1>9, <1>13, <1>14, PrefixElements
<1> QED
  BY <1>12, <1>13, <1>14, <1>15

\* The parts of a flattened sequence are appended one by one.
LEMMA FlattenSingletons ==
  ASSUME NEW S, NEW seq \in Seq(S),
         NEW parts, parts = [i \in 1 .. Len(seq) |-> <<seq[i]>>]
  PROVE  FlattenSeq(parts) = seq
<1> DEFINE n == Len(seq)
           Glue(f, i) == IF i = 1 THEN parts[i] ELSE f[i - 1] \o parts[i]
           flatten == CHOOSE flatten : flatten = [i \in 1 .. Len(parts) |-> Glue(flatten, i)]
<1>1. n \in Nat /\ \A i \in 1 .. n : seq[i] \in S
  OBVIOUS
<1>2. /\ Len(parts) = n /\ n = 0 => parts = <<>> /\ seq = <<>>
      /\ \A i \in 1 .. n : parts[i] = <<seq[i]>>
  OBVIOUS
<1>3. CASE n = 0
  BY <1>2, <1>3 DEF FlattenSeq
<1>4. CASE n # 0
  <2>1. Len(parts) # 0 /\ Len(parts) = n
    BY <1>2, <1>4
  <2>2. FlattenSeq(parts) = flatten[n]
    <3>1. FlattenSeq(parts) = flatten[Len(parts)]
      BY <2>1, Zenon DEF FlattenSeq
    <3> QED
      BY <2>1, <3>1, Zenon
  <2> DEFINE g == [i \in 1 .. n |-> SubSeq(seq, 1, i)]
  <2> HIDE DEF n
  <2>3. ASSUME NEW i \in 1 .. n
        PROVE  /\ g[i] \in Seq(S) /\ Len(g[i]) = i
               /\ \A j \in 1 .. i : g[i][j] = seq[j]
    <3>1. /\ i \in Int /\ 1 <= i /\ (i - 1) + 1 = i
          /\ \A j \in 1 .. i : seq[j] \in S
      BY <1>1
    <3>2. g[i] = SubSeq(seq, 1, i)
      OBVIOUS
    <3> HIDE DEF g
    <3> QED
      BY <3>1, <3>2, SubSeqProperties
  <2>4. DOMAIN g = 1 .. n /\ g = [i \in 1 .. n |-> g[i]]
    OBVIOUS
  <2> HIDE DEF g
  <2>5. ASSUME NEW i \in 1 .. n
        PROVE  g[i] = Glue(g, i)
    <3>1. parts[i] = <<seq[i]>> /\ seq[i] \in S
      BY <1>1, <1>2
    <3> DEFINE one == <<seq[i]>>
    <3>2. one \in Seq(S) /\ Len(one) = 1 /\ one[1] = seq[i]
      BY <3>1
    <3> HIDE DEF one
    <3>3. CASE i = 1
      <4>1. /\ g[i] \in Seq(S) /\ Len(g[i]) = 1
            /\ \A j \in 1 .. 1 : g[i][j] = one[j]
        BY <2>3, <3>2, <3>3
      <4>2. g[i] = one
        BY <3>2, <4>1, SeqEqual
      <4> QED
        BY <3>1, <3>3, <4>2 DEF one, Glue
    <3>4. CASE i # 1
      <4>1. i - 1 \in 1 .. n /\ i \in Nat /\ (i - 1) + 1 = i
        BY <1>1, <3>4
      <4>2. g[i - 1] \in Seq(S) /\ Len(g[i - 1]) = i - 1
        BY <2>3, <4>1
      <4>3. \A j \in 1 .. i - 1 : g[i - 1][j] = seq[j]
        BY <2>3, <4>1
      <4> DEFINE h == g[i - 1] \o one
      <4>4. /\ h \in Seq(S) /\ Len(h) = (i - 1) + 1
            /\ \A j \in 1 .. (i - 1) + 1 :
                 h[j] = IF j <= i - 1 THEN g[i - 1][j] ELSE one[j - (i - 1)]
        <5> DEFINE a == g[i - 1]
        <5> HIDE DEF a
        <5>1. /\ a \o one \in Seq(S)
              /\ Len(a \o one) = Len(a) + Len(one)
              /\ \A j \in 1 .. Len(a) + Len(one) :
                   (a \o one)[j] = IF j <= Len(a) THEN a[j] ELSE one[j - Len(a)]
          BY <3>2, <4>2, ConcatProperties DEF a
        <5> QED
          BY <3>2, <4>2, <5>1 DEF a
      <4> HIDE DEF h
      <4>5. \A j \in 1 .. i : h[j] = seq[j]
        BY <3>2, <4>1, <4>3, <4>4
      <4>6. h \in Seq(S) /\ Len(h) = i
        BY <4>1, <4>4
      <4>7. g[i] \in Seq(S) /\ Len(g[i]) = i /\ \A j \in 1 .. i : g[i][j] = h[j]
        BY <2>3, <4>5
      <4>8. g[i] = h
        BY <4>6, <4>7, SeqEqual
      <4> QED
        BY <3>1, <3>4, <4>8 DEF h, one, Glue
    <3> QED
      BY <3>3, <3>4
  <2>6. \E fn : fn = [i \in 1 .. Len(parts) |-> Glue(fn, i)]
    <3>1. g = [i \in 1 .. Len(parts) |-> Glue(g, i)]
      <4> HIDE DEF Glue
      <4> QED
        BY <2>1, <2>4, <2>5
    <3> HIDE DEF Glue
    <3> QED
      BY <3>1, Zenon
  <2>7. flatten = [i \in 1 .. Len(parts) |-> Glue(flatten, i)]
    <3> HIDE DEF Glue
    <3> QED
      BY <2>6, Zenon
  <2> HIDE DEF flatten
  <2> DEFINE P == {k \in 0 .. n : k # 0 => flatten[k] = g[k]}
  <2>8. 0 \in P
    BY <1>1
  <2>9. ASSUME NEW k \in 0 .. n - 1, k \in P PROVE k + 1 \in P
    <3>1. k + 1 \in 1 .. n /\ k + 1 \in 0 .. n /\ (k + 1) - 1 = k
      BY <1>1
    <3>2. flatten[k + 1] = Glue(flatten, k + 1)
      <4> HIDE DEF Glue
      <4> QED
        BY <2>1, <2>7, <3>1
    <3>3. g[k + 1] = Glue(g, k + 1)
      BY <2>5, <3>1
    <3>4. Glue(flatten, k + 1) = Glue(g, k + 1)
      <4>1. k # 0 => flatten[k] = g[k]
        BY <2>9
      <4>2. k + 1 = 1 <=> k = 0
        BY <1>1
      <4> QED
        BY <3>1, <4>1, <4>2 DEF Glue
    <3>5. flatten[k + 1] = g[k + 1]
      BY <3>2, <3>3, <3>4, Zenon
    <3> QED
      BY <3>1, <3>5
  <2> HIDE DEF P
  <2>10. 0 .. n \subseteq P
    BY <1>1, <2>8, <2>9, RangeInduction
  <2>11. n \in 0 .. n /\ n \in 1 .. n
    BY <1>1, <1>4
  <2>12. flatten[n] = g[n]
    BY <1>4, <2>10, <2>11 DEF P
  <2>13. g[n] = seq
    <3>1. g[n] \in Seq(S) /\ Len(g[n]) = Len(seq) /\ \A j \in 1 .. n : g[n][j] = seq[j]
      BY <2>3, <2>11 DEF n
    <3> QED
      BY <3>1, SeqEqual DEF n
  <2> QED
    BY <2>2, <2>12, <2>13, Zenon
<1> QED
  BY <1>3, <1>4

\* A path without escapes leads a server where it leads the file system.
LEMMA LocationOfPlain ==
  ASSUME NEW S, NEW path \in Seq(S), \A i \in DOMAIN path : path[i] \notin Escaped
  PROVE  Location(path) = Place(path)
<1> DEFINE parts == [i \in DOMAIN path |-> Decoded(path[i])]
<1>1. \A i \in DOMAIN path : Decoded(path[i]) = <<path[i]>>
  BY Zenon DEF Decoded, Escaped, EncodedSeparator
<1>2. DOMAIN path = 1 .. Len(path)
  OBVIOUS
<1>3. parts = [i \in 1 .. Len(path) |-> <<path[i]>>]
  BY <1>1, <1>2
<1> HIDE DEF parts
<1>4. FlattenSeq(parts) = path
  BY <1>3, FlattenSingletons
<1> QED
  BY <1>4, Zenon DEF Location, parts

\* A plain path lies, for every reader, beneath each of its prefixes.
LEMMA BeneathPrefix ==
  ASSUME NEW S, NEW root \in Seq(S), NEW path \in Seq(S), IsPrefix(root, path),
         \A i \in DOMAIN path : path[i] \notin Escaped /\ path[i] # ".."
  PROVE  /\ Beneath(root, path)
         /\ \A i \in DOMAIN root : root[i] \notin Escaped
<1>1. /\ DOMAIN root = 1 .. Len(root) /\ Len(root) \in Nat
      /\ DOMAIN path = 1 .. Len(path) /\ Len(path) \in Nat
  OBVIOUS
<1>2. Len(root) <= Len(path) /\ \A i \in 1 .. Len(root) : root[i] = path[i]
  BY PrefixElements
<1>3. \A i \in DOMAIN root : i \in DOMAIN path
  BY <1>1, <1>2
<1>4. \A i \in DOMAIN root : root[i] \notin Escaped
  BY <1>1, <1>2, <1>3, Zenon
<1>5. \A i \in Len(root) + 1 .. Len(path) : i \in DOMAIN path
  BY <1>1
<1>6. \A i \in Len(root) + 1 .. Len(path) : path[i] # ".."
  BY <1>5, Zenon
<1>7. IsPrefix(Place(root), Place(path))
  BY <1>6, PlaceDeeper
<1>8. Location(root) = Place(root) /\ Location(path) = Place(path)
  BY <1>4, LocationOfPlain, Zenon
<1> QED
  BY <1>4, <1>7, <1>8, Zenon DEF Beneath

-----------------------------------------------------------------------------
(* Grants *)

\* secrets::get serves what the describe grants.
LEMMA SecretServed ==
  ASSUME NEW state, \A d \in state.permissions.secrets : d \in Seq(STRING),
         NEW uri \in Seq(STRING), GetSecret(state, uri) = "served"
  PROVE  SecretGranted(state.permissions, uri)
<1>1. uri_is_plain(uri)
  BY DEF GetSecret
<1>2. PICK declared \in state.permissions.secrets :
        declaration_is_specific(declared) /\ IsPrefix(declared, uri)
  BY DEF GetSecret
<1>3. declared \in Seq(STRING)
  BY Zenon
<1>4. \A i \in DOMAIN uri : uri[i] \notin Escaped /\ uri[i] # ".." /\ uri[i] # "."
  BY <1>1, Zenon DEF uri_is_plain, Dots
<1>5. Beneath(declared, uri)
  BY <1>2, <1>3, <1>4, BeneathPrefix
<1>6. \A i \in DOMAIN declared : i \in DOMAIN uri /\ declared[i] = uri[i]
  <2>1. Len(declared) <= Len(uri) /\ \A i \in 1 .. Len(declared) : declared[i] = uri[i]
    BY <1>2, <1>3, PrefixElements
  <2>2. /\ DOMAIN declared = 1 .. Len(declared) /\ Len(declared) \in Nat
        /\ DOMAIN uri = 1 .. Len(uri) /\ Len(uri) \in Nat
    BY <1>3
  <2> QED
    BY <2>1, <2>2
<1> DEFINE rest == AfterScheme(declared)
<1>7. /\ rest \in Seq(STRING)
      /\ \A i \in DOMAIN rest : \E j \in DOMAIN declared : rest[i] = declared[j]
  <2>1. CASE declared # <<>> /\ Head(declared) = Scheme
    <3>1. rest = Tail(declared)
      BY <2>1, Zenon DEF AfterScheme
    <3>2. /\ rest \in Seq(STRING) /\ Len(rest) = Len(declared) - 1
          /\ \A i \in 1 .. Len(rest) : rest[i] = declared[i + 1]
      BY <1>3, <2>1, <3>1, HeadTailProperties
    <3> HIDE DEF rest
    <3>3. DOMAIN rest = 1 .. Len(rest) /\ DOMAIN declared = 1 .. Len(declared)
      BY <1>3, <3>2
    <3>4. Len(declared) \in Nat
      BY <1>3
    <3>5. \A i \in DOMAIN rest : i + 1 \in DOMAIN declared /\ rest[i] = declared[i + 1]
      BY <3>2, <3>3, <3>4
    <3> QED
      BY <3>2, <3>5
  <2>2. CASE ~(declared # <<>> /\ Head(declared) = Scheme)
    BY <1>3, <2>2, Zenon DEF AfterScheme
  <2> QED
    BY <2>1, <2>2
<1> HIDE DEF rest
<1>8. \A i \in DOMAIN rest : rest[i] \notin Escaped /\ rest[i] # ".." /\ rest[i] # "."
  BY <1>4, <1>6, <1>7, Zenon
<1>9. PICK i \in DOMAIN rest : rest[i] # ""
  BY <1>2, Zenon DEF declaration_is_specific, rest
<1>10. /\ rest[i] \in ToSet(rest) /\ rest[i] \notin Idle
       /\ ".." \notin ToSet(rest)
  BY <1>8, <1>9, Zenon DEF ToSet, Idle
<1>11. Place(rest) # <<>>
  BY <1>7, <1>10, PlaceSomewhere, Zenon
<1>12. Location(rest) # <<>>
  BY <1>7, <1>8, <1>11, LocationOfPlain, Zenon
<1> QED
  BY <1>5, <1>12, Zenon DEF SecretGranted, rest

\* The paths list_views lets through lie in the pack.
LEMMA NoClimbing ==
  ASSUME NEW S, NEW path \in Seq(S), PackRelative(path)
  PROVE  \A i \in 1 .. Len(path) : path[i] # ".."
<1>1. DOMAIN path = 1 .. Len(path)
  OBVIOUS
<1>2. ".." # "" /\ ".." # "."
  BY Zenon
<1>3. ASSUME NEW i \in DOMAIN path, path[i] = ".." PROVE FALSE
  <2>1. path[i] # "" /\ (path[i] = "." => i = 1)
    BY <1>2, <1>3, Zenon
  <2>2. path[i] \in Components(path)
    BY <2>1, Zenon DEF Components
  <2> QED
    BY <1>3, <2>2, Zenon DEF PackRelative, Dots
<1> QED
  BY <1>1, <1>3, Zenon

LEMMA ViewServed ==
  ASSUME NEW view, view.id \in Seq(STRING), view.entry \in Seq(STRING),
         ViewResolves(view)
  PROVE  ViewInPack(view)
<1> DEFINE S == STRING \cup {"assets", "views"}
           top == <<"assets", "views">>
           dir == AssetDir(view)
           page == EntryPath(view)
<1>1. top \in Seq(S)
  <2>1. \A T : \A a, b \in T : <<a, b>> \in Seq(T)
    OBVIOUS
  <2>2. "assets" \in S /\ "views" \in S
    BY Zenon
  <2> QED
    BY <2>1, <2>2, Zenon
<1>2. dir = top \o view.id /\ page = dir \o view.entry
  BY DEF AssetDir, EntryPath
<1>3. PackRelative(dir) /\ PackRelative(view.entry)
  BY DEF ViewResolves
<1>4. view.id \in Seq(S) /\ view.entry \in Seq(S)
  <2>1. \A T : \A q \in Seq(STRING) : q \in Seq(STRING \cup T)
    OBVIOUS
  <2> QED
    BY <2>1
<1> HIDE DEF S, top, dir, page
<1>5. ASSUME NEW a \in Seq(S), NEW b \in Seq(S),
             \A i \in 1 .. Len(b) : b[i] # ".."
      PROVE  IsPrefix(Place(a), Place(a \o b))
  <2> DEFINE c == a \o b
  <2>1. /\ c \in Seq(S) /\ Len(c) = Len(a) + Len(b)
        /\ \A i \in 1 .. Len(a) + Len(b) :
             c[i] = IF i <= Len(a) THEN a[i] ELSE b[i - Len(a)]
    BY <1>5, ConcatProperties
  <2> HIDE DEF c
  <2>2. Len(a) \in Nat /\ Len(b) \in Nat
    BY <1>5
  <2>3. Len(a) <= Len(c) /\ \A i \in 1 .. Len(a) : a[i] = c[i]
    BY <2>1, <2>2
  <2>4. IsPrefix(a, c)
    BY <1>5, <2>1, <2>3, PrefixElements
  <2>5. \A i \in Len(a) + 1 .. Len(c) : c[i] # ".."
    <3> SUFFICES ASSUME NEW i \in Len(a) + 1 .. Len(c) PROVE c[i] # ".."
      OBVIOUS
    <3>1. /\ i - Len(a) \in 1 .. Len(b) /\ ~(i <= Len(a))
          /\ i \in 1 .. Len(a) + Len(b)
      BY <2>1, <2>2
    <3>2. c[i] = b[i - Len(a)]
      BY <2>1, <3>1
    <3> QED
      BY <1>5, <3>1, <3>2, Zenon
  <2> QED
    BY <1>5, <2>1, <2>4, <2>5, PlaceDeeper DEF c
<1>6. dir \in Seq(S)
  BY <1>4, <1>1, <1>2, ConcatProperties
<1>7. IsPrefix(Place(dir), Place(page))
  BY <1>4, <1>2, <1>3, <1>5, <1>6, NoClimbing
<1>8. \A i \in 1 .. Len(view.id) : view.id[i] # ".."
  <2>1. /\ Len(dir) = Len(top) + Len(view.id)
        /\ \A i \in 1 .. Len(top) + Len(view.id) :
             dir[i] = IF i <= Len(top) THEN top[i] ELSE view.id[i - Len(top)]
    BY <1>4, <1>1, <1>2, ConcatProperties
  <2>2. Len(top) = 2 /\ Len(view.id) \in Nat
    BY <1>4 DEF top
  <2>3. \A i \in 1 .. Len(view.id) : i + 2 \in 1 .. Len(dir) /\ dir[i + 2] = view.id[i]
    BY <2>1, <2>2
  <2>4. \A i \in 1 .. Len(dir) : dir[i] # ".."
    BY <1>3, <1>6, NoClimbing
  <2> QED
    BY <2>3, <2>4, Zenon
<1>9. IsPrefix(Place(top), Place(dir))
  BY <1>4, <1>1, <1>2, <1>5, <1>8
<1> QED
  BY <1>7, <1>9, Zenon DEF ViewInPack, top, dir, page

LEMMA StrictSuffix ==
  ASSUME NEW S, NEW a \in Seq(S), NEW b \in Seq(S), IsStrictSuffix(a, b)
  PROVE  \E n \in 1 .. Len(b) - Len(a) : SubSeq(b, n + 1, Len(b)) = a
<1> DEFINE m == Len(a)
           n == Len(b)
           ra == Reverse(a)
           rb == Reverse(b)
<1>1. /\ m \in Nat /\ n \in Nat
      /\ \A i \in 1 .. m : a[i] \in S
      /\ \A i \in 1 .. n : b[i] \in S
  OBVIOUS
<1>2. IsPrefix(ra, rb) /\ a # b
  BY DEF IsStrictSuffix, IsSuffix
<1>3. /\ ra = [i \in 1 .. m |-> a[(m - i) + 1]]
      /\ rb = [i \in 1 .. n |-> b[(n - i) + 1]]
  BY DEF Reverse
<1> HIDE DEF m, n, ra, rb
<1>4. /\ ra \in Seq(S) /\ Len(ra) = m
      /\ \A i \in 1 .. m : ra[i] = a[(m - i) + 1]
  BY <1>1, <1>3
<1>5. /\ rb \in Seq(S) /\ Len(rb) = n
      /\ \A i \in 1 .. n : rb[i] = b[(n - i) + 1]
  BY <1>1, <1>3
<1>6. m <= n /\ \A i \in 1 .. m : ra[i] = rb[i]
  <2>1. IsPrefix(ra, rb)
    BY <1>2
  <2>2. Len(ra) <= Len(rb) /\ \A i \in 1 .. Len(ra) : ra[i] = rb[i]
    <3>1. ra \in Seq(S) /\ rb \in Seq(S)
      BY <1>4, <1>5
    <3> QED
      BY <2>1, <3>1, PrefixElements
  <2> QED
    BY <1>4, <1>5, <2>2
<1>7. ASSUME NEW j \in 1 .. m PROVE a[j] = b[j + (n - m)]
  <2> DEFINE i == (m - j) + 1
  <2>1. /\ i \in 1 .. m /\ i \in 1 .. n
        /\ (m - i) + 1 = j /\ (n - i) + 1 = j + (n - m)
    BY <1>1, <1>6
  <2> HIDE DEF i
  <2> QED
    BY <1>4, <1>5, <1>6, <2>1
<1>8. m < n
  <2> SUFFICES ASSUME m = n PROVE FALSE
    BY <1>1, <1>6
  <2>1. \A j \in 1 .. m : a[j] = b[j]
    BY <1>1, <1>7
  <2>2. a = b
    BY <2>1, SeqEqual DEF m, n
  <2> QED
    BY <1>2, <2>2
<1> DEFINE d == n - m
           rest == SubSeq(b, d + 1, n)
<1>9. d \in 1 .. n - m /\ d + 1 \in Int /\ n \in Int /\ n - (d + 1) + 1 = m
  BY <1>1, <1>8
<1>10. rest \in Seq(S) /\ Len(rest) = m /\ \A j \in 1 .. m : rest[j] = b[j + (n - m)]
  <2>1. \A j \in d + 1 .. n : b[j] \in S
    BY <1>1, <1>8
  <2> HIDE DEF d, rest
  <2>2. /\ SubSeq(b, d + 1, n) \in Seq(S)
        /\ Len(SubSeq(b, d + 1, n)) = IF d + 1 <= n THEN n - (d + 1) + 1 ELSE 0
        /\ \A j \in 1 .. n - (d + 1) + 1 : SubSeq(b, d + 1, n)[j] = b[(d + 1) + j - 1]
    BY <1>9, <2>1, SubSeqProperties
  <2>3. \A j \in 1 .. m : (d + 1) + j - 1 = j + (n - m)
    BY <1>1, <1>9 DEF d
  <2>4. Len(SubSeq(b, d + 1, n)) = m
    BY <1>1, <1>9, <2>2
  <2> QED
    BY <1>9, <2>2, <2>3, <2>4 DEF rest
<1> HIDE DEF d, rest
<1>11. rest = a
  <2>1. Len(rest) = Len(a) /\ \A j \in 1 .. Len(rest) : rest[j] = a[j]
    BY <1>7, <1>10 DEF m
  <2> QED
    BY <1>10, <2>1, SeqEqual
<1> QED
  BY <1>9, <1>11 DEF m, n, rest

\* is_allowed lets through what a pattern covers.
LEMMA AllowedCovered ==
  ASSUME NEW matcher, \A p \in matcher.patterns : p \in Pattern \cup {Unparseable},
         NEW url, IsUrl(url), IsAllowed(matcher, url)
  PROVE  \E p \in Parsed(matcher.patterns) :
           /\ Covers(p, url) /\ p \in Pattern
           /\ p.scheme = url.scheme /\ HostMatches(p, url.host)
<1>1. PICK p \in Parsed(matcher.patterns) : Matches(p, url)
  BY Zenon DEF IsAllowed
<1>2. p \in Pattern
  BY <1>1, Zenon DEF Parsed
<1>3. /\ p.host \in Seq(STRING) /\ p.path \in Seq(STRING)
  BY <1>2, SMT DEF Pattern
<1>4. /\ url.host \in Seq(STRING) /\ url.path \in Seq(STRING)
  <2>1. url \in [scheme : STRING, host : Seq(STRING), port : Nat, path : Seq(STRING)]
    BY Zenon DEF IsUrl
  <2> QED
    BY <2>1, SMT
<1>5. /\ p.scheme = url.scheme /\ p.port = url.port
      /\ HostMatches(p, url.host) /\ IsPrefix(p.path, url.path)
  BY <1>1, Zenon DEF Matches
<1>6. \A i \in DOMAIN url.path : url.path[i] \notin Escaped /\ url.path[i] # ".."
  <2>1. \A i \in DOMAIN url.path : url.path[i] \notin EncodedSeparator
    BY Zenon DEF IsAllowed
  <2>2. \A i \in DOMAIN url.path : url.path[i] \notin Dots \cup {"%2e%2e"}
    BY Zenon DEF IsUrl
  <2> QED
    BY <2>1, <2>2, Zenon DEF Escaped, Dots
<1>7. Beneath(p.path, url.path)
  BY <1>3, <1>4, <1>5, <1>6, BeneathPrefix
<1>8. CASE p.wild
  <2>1. IsStrictSuffix(p.host, url.host)
    BY <1>5, <1>8, Zenon DEF HostMatches
  <2>2. \E n \in 1 .. Len(url.host) - Len(p.host) :
          SubSeq(url.host, n + 1, Len(url.host)) = p.host
    BY <1>3, <1>4, <2>1, StrictSuffix
  <2> QED
    BY <1>1, <1>2, <1>5, <1>7, <1>8, <2>2, Zenon DEF Covers
<1>9. CASE ~p.wild
  <2>1. url.host = p.host
    BY <1>5, <1>9, Zenon DEF HostMatches
  <2> QED
    BY <1>1, <1>2, <1>5, <1>7, <1>9, <2>1, Zenon DEF Covers
<1> QED
  BY <1>8, <1>9

\* Fetch serves what the describe and the operator's list grant.
LEMMA FetchServed ==
  ASSUME NEW permissions, NEW operators,
         \A p \in permissions.network : p \in Pattern \cup {Unparseable},
         \A p \in operators.patterns : p \in Pattern \cup {Unparseable},
         NEW url, IsUrl(url),
         IsAllowed(EffectiveMatcher(permissions.network, operators), url)
  PROVE  UrlGranted(permissions, operators, url)
<1> DEFINE declared == permissions.network
           By(patterns) == \E p \in Parsed(patterns) : Covers(p, url)
<1>1. CASE declared = {}
  <2>1. EffectiveMatcher(declared, operators) = operators
    BY <1>1, Zenon DEF EffectiveMatcher
  <2>2. IsAllowed(operators, url)
    BY <2>1, Zenon
  <2>3. By(operators.patterns)
    BY <2>2, AllowedCovered, Zenon
  <2>4. /\ url.scheme \in {"http", "https"}
        /\ url.scheme = "http" => operators.allow_http
    BY <2>2, SMT DEF IsAllowed
  <2> QED
    BY <1>1, <2>3, <2>4, Zenon DEF UrlGranted
<1>2. CASE declared # {}
  <2> DEFINE kept == {p \in declared : operators.patterns # {} => p \in operators.patterns}
             patterns == {p \in kept : Classify(p) # "Public"}
             allow_http == \E p \in kept : Classify(p) = "Loopback"
             matcher == [patterns |-> patterns, allow_http |-> allow_http]
  <2>1. EffectiveMatcher(declared, operators) = matcher
    BY <1>2, Zenon DEF EffectiveMatcher
  <2>2. IsAllowed(matcher, url)
    BY <2>1, Zenon
  <2>3. matcher.patterns = patterns
    BY Zenon
  <2>4. \A p \in patterns : p \in Pattern \cup {Unparseable}
    BY Zenon
  <2> HIDE DEF matcher
  <2>5. PICK p \in Parsed(patterns) :
          /\ Covers(p, url) /\ p \in Pattern
          /\ p.scheme = url.scheme /\ HostMatches(p, url.host)
    BY <2>2, <2>3, <2>4, AllowedCovered, Zenon
  <2>6. /\ p \in Parsed(declared)
        /\ operators.patterns # {} => p \in Parsed(operators.patterns)
        /\ Classify(p) # "Public" /\ p # Unparseable
    BY <2>5, Zenon DEF Parsed
  <2>7. By(declared) /\ (operators.patterns # {} => By(operators.patterns))
    BY <2>5, <2>6, Zenon
  <2>8. url.scheme \in {"http", "https"}
    BY <2>2, Zenon DEF IsAllowed
  <2>9. ASSUME url.scheme = "http" PROVE url.host \in Loopback
    <3>1. ~p.wild /\ p.host \in Loopback
      BY <2>5, <2>6, <2>9, Zenon DEF Classify
    <3>2. url.host = p.host
      BY <2>5, <3>1, Zenon DEF HostMatches
    <3> QED
      BY <3>1, <3>2, Zenon
  <2> QED
    BY <1>2, <2>7, <2>8, <2>9, Zenon DEF UrlGranted
<1> QED
  BY <1>1, <1>2

-----------------------------------------------------------------------------
(* Plans *)

Met(offers, req) ==
  \E o \in offers : o.cap = req.cap /\ req.wants # Malformed /\ o.version \in req.wants

\* A requirement that an offer meets has a best offer.
LEMMA BestOfMet ==
  ASSUME NEW offers, IsFiniteSet(offers), \A o \in offers : o.version \in Nat,
         NEW req
  PROVE  Best(offers, req) # {} <=> Met(offers, req)
<1>1. Matching(offers, req) # {} <=> Met(offers, req)
  BY Zenon DEF Matching, Admitted, Met
<1>2. Best(offers, req) \subseteq Matching(offers, req)
  BY Zenon DEF Best
<1>3. ASSUME Matching(offers, req) # {} PROVE Best(offers, req) # {}
  <2> DEFINE M == Matching(offers, req)
             UpTo(o) == {x \in M : x.version <= o.version}
             T == {UpTo(o) : o \in M}
  <2>1. \A o \in M : o \in offers /\ o.version \in Nat
    BY Zenon DEF Matching
  <2>2. M \in SUBSET offers
    BY <2>1
  <2> HIDE DEF M
  <2>3. IsFiniteSet(M)
    BY <2>2, FS_Subset
  <2>4. T \subseteq SUBSET M /\ T # {}
    BY <1>3, Zenon DEF M
  <2>5. PICK t \in T : \A u \in T : t \subseteq u => u = t
    <3> HIDE DEF T
    <3> QED
      BY <2>3, <2>4, LargestSubset
  <2>6. PICK o \in M : t = UpTo(o)
    BY <2>5
  <2>7. ASSUME NEW x \in M PROVE x.version <= o.version
    <3> SUFFICES ASSUME ~(x.version <= o.version) PROVE FALSE
      OBVIOUS
    <3>1. x.version \in Nat /\ o.version \in Nat /\ o.version < x.version
      BY <2>1
    <3>2. UpTo(o) \subseteq UpTo(x)
      <4>1. \A y \in M : y.version <= o.version => y.version <= x.version
        BY <2>1, <3>1
      <4> QED
        BY <4>1
    <3>3. UpTo(x) = UpTo(o)
      <4>1. UpTo(x) \in T
        OBVIOUS
      <4> HIDE DEF T, UpTo
      <4> QED
        BY <2>5, <2>6, <3>2, <4>1
    <3>4. x \in UpTo(x)
      BY <3>1
    <3> QED
      BY <3>3, <3>4
  <2>8. o \in Best(offers, req)
    BY <2>7 DEF Best, M
  <2> QED
    BY <2>8
<1> QED
  BY <1>1, <1>2, <1>3

PlanOf(offers) == [resolved : SUBSET offers, unresolved : Seq(Requirement)]

LEMMA BindType ==
  ASSUME NEW offers, NEW plan \in PlanOf(offers), NEW req \in Requirement
  PROVE  Bind(plan, offers, req) \subseteq PlanOf(offers)
<1>1. plan.resolved \subseteq offers /\ plan.unresolved \in Seq(Requirement)
  BY DEF PlanOf
<1>2. Append(plan.unresolved, req) \in Seq(Requirement)
  BY <1>1, AppendProperties
<1>3. [plan EXCEPT !.unresolved = Append(@, req)] \in PlanOf(offers)
  BY <1>2 DEF PlanOf
<1>4. ASSUME NEW best \in Best(offers, req)
      PROVE  [plan EXCEPT !.resolved = {o \in @ : o.cap # req.cap} \cup {best}] \in PlanOf(offers)
  <2>1. best \in offers
    BY Zenon DEF Best, Matching
  <2>2. {o \in plan.resolved : o.cap # req.cap} \cup {best} \in SUBSET offers
    BY <1>1, <2>1
  <2> QED
    BY <2>2 DEF PlanOf
<1> QED
  BY <1>3, <1>4 DEF Bind

\* Plans binds the requirements one by one.
LEMMA PlansSteps ==
  ASSUME NEW offers, NEW required \in Seq(Requirement)
  PROVE  \E f \in [0 .. Len(required) -> SUBSET PlanOf(offers)] :
           /\ f[0] = {EmptyPlan}
           /\ \A k \in 1 .. Len(required) :
                f[k] = UNION {Bind(plan, offers, required[k]) : plan \in f[k - 1]}
           /\ Plans(offers, required) = f[Len(required)]
<1> DEFINE n == Len(required)
           V == SUBSET PlanOf(offers)
           After(plans, req) == UNION {Bind(plan, offers, req) : plan \in plans}
           step == [k \in 1 .. n |-> [v \in V |-> After(v, required[k])]]
           iter == CHOOSE iter : iter = [s \in SUBSET DOMAIN required |->
                     IF s = {} THEN {EmptyPlan}
                     ELSE LET x == Max(s) IN After(iter[s \ {x}], required[x])]
<1>1. /\ n \in Nat /\ DOMAIN required = 1 .. n
      /\ \A k \in 1 .. n : required[k] \in Requirement
  OBVIOUS
<1>2. {EmptyPlan} \in V
  <2>1. EmptyPlan \in PlanOf(offers)
    BY EmptySeq DEF EmptyPlan, PlanOf
  <2> QED
    BY <2>1
<1>3. \A v \in V, req \in Requirement : After(v, req) \in V
  BY BindType
<1>4. Plans(offers, required) = iter[DOMAIN required]
  BY Zenon DEF Plans, FoldLeft, MapThenFoldSet
<1> HIDE DEF After
<1>5. \E g : g = [s \in SUBSET DOMAIN required |->
                  IF s = {} THEN {EmptyPlan}
                  ELSE LET x == Max(s) IN After(g[s \ {x}], required[x])]
  <2>1. step \in [1 .. n -> [V -> V]]
    <3> HIDE DEF n, V
    <3> QED
      BY <1>1, <1>3
  <2>2. PICK g : Iterates(g, n, V, {EmptyPlan}, step)
    <3> HIDE DEF n, V, step
    <3> QED
      BY <1>1, <1>2, <2>1, IterationExists
  <2>3. ASSUME NEW s \in SUBSET (1 .. n), s # {}
        PROVE  g[s] = After(g[s \ {Max(s)}], required[Max(s)])
    <3>1. Max(s) \in 1 .. n /\ s \ {Max(s)} \in SUBSET (1 .. n)
      BY <1>1, <2>3, MaxOfRange
    <3>2. g[s \ {Max(s)}] \in V
      BY <2>2, <3>1 DEF Iterates
    <3>3. g[s] = step[Max(s)][g[s \ {Max(s)}]]
      BY <2>2, <2>3 DEF Iterates
    <3> QED
      BY <3>1, <3>2, <3>3
  <2>4. g \in [SUBSET (1 .. n) -> V] /\ g[{}] = {EmptyPlan}
    BY <2>2 DEF Iterates
  <2>5. g = [s \in SUBSET DOMAIN required |->
               IF s = {} THEN {EmptyPlan}
               ELSE LET x == Max(s) IN After(g[s \ {x}], required[x])]
    <3> HIDE DEF n, V, step
    <3> QED
      BY <1>1, <2>3, <2>4
  <2> QED
    BY <2>5
<1>6. iter = [s \in SUBSET DOMAIN required |->
                IF s = {} THEN {EmptyPlan}
                ELSE LET x == Max(s) IN After(iter[s \ {x}], required[x])]
  BY <1>5, Zenon
<1> HIDE DEF iter
<1> DEFINE f == [k \in 0 .. n |-> iter[1 .. k]]
<1>7. f[0] = {EmptyPlan}
  <2>1. 0 \in 0 .. n /\ 1 .. 0 = {}
    BY <1>1
  <2>2. iter[{}] = {EmptyPlan}
    BY <1>6
  <2> QED
    BY <2>1, <2>2
<1>8. ASSUME NEW k \in 1 .. n
      PROVE  f[k] = After(f[k - 1], required[k])
  <2>1. 1 .. k \in SUBSET DOMAIN required /\ 1 .. k # {} /\ k - 1 \in 0 .. n
    BY <1>1
  <2>2. Max(1 .. k) = k /\ (1 .. k) \ {k} = 1 .. k - 1
    BY MaxOfRange
  <2>3. iter[1 .. k] = After(iter[1 .. k - 1], required[k])
    BY <1>6, <2>1, <2>2
  <2> QED
    BY <2>1, <2>3
<1>9. ASSUME NEW k \in 0 .. n
      PROVE  f[k] \in V
  <2> DEFINE P == {j \in 0 .. n : f[j] \in V}
  <2> HIDE DEF f, n, V
  <2>1. 0 \in P
    <3>1. 0 \in 0 .. n
      BY <1>1
    <3>2. f[0] \in V
      BY <1>2, <1>7, Zenon
    <3> QED
      BY <3>1, <3>2
  <2>2. ASSUME NEW j \in 0 .. n - 1, j \in P PROVE j + 1 \in P
    <3>1. j + 1 \in 1 .. n /\ j + 1 \in 0 .. n /\ (j + 1) - 1 = j
      BY <1>1
    <3>2. f[j + 1] = After(f[j], required[j + 1])
      BY <1>8, <3>1
    <3>3. f[j] \in V /\ required[j + 1] \in Requirement
      BY <1>1, <2>2, <3>1
    <3> QED
      BY <1>3, <3>1, <3>2, <3>3
  <2> HIDE DEF P
  <2>3. 0 .. n \subseteq P
    BY <1>1, <2>1, <2>2, RangeInduction
  <2> QED
    BY <2>3 DEF P
<1>10. f \in [0 .. n -> V] /\ Plans(offers, required) = f[n]
  <2>1. f[n] = iter[1 .. n]
    BY <1>1
  <2>2. f \in [0 .. n -> V]
    <3>1. f = [k \in 0 .. n |-> f[k]]
      OBVIOUS
    <3> HIDE DEF f
    <3> QED
      BY <1>9, <3>1
  <2> QED
    BY <1>1, <1>4, <2>1, <2>2
<1> HIDE DEF f
<1> QED
  BY <1>7, <1>8, <1>10 DEF After

\* The requirements up to the k-th that nothing meets, and those of them up to
\* the i-th.
Unmet(offers, required, k) == {i \in 1 .. k : ~Met(offers, required[i])}
UnmetTo(offers, required, k, i) == {j \in Unmet(offers, required, k) : j <= i}

\* The plan answers the first k requirements.
AnswersUpTo(plan, offers, required, k) ==
  /\ plan \in PlanOf(offers)
  /\ \A cap \in Caps :
       LET bound == {o \in plan.resolved : o.cap = cap}
       IN \/ /\ bound = {}
             /\ \A i \in 1 .. k : required[i].cap = cap => ~Met(offers, required[i])
          \/ \E i \in 1 .. k : \E o \in Best(offers, required[i]) :
               /\ required[i].cap = cap /\ bound = {o}
               /\ \A j \in 1 .. k :
                    required[j].cap = cap /\ Met(offers, required[j]) => j <= i
  /\ Len(plan.unresolved) = Cardinality(Unmet(offers, required, k))
  /\ \A i \in Unmet(offers, required, k) :
       plan.unresolved[Cardinality(UnmetTo(offers, required, k, i))] = required[i]

LEMMA UnmetFinite ==
  ASSUME NEW offers, NEW required, NEW k \in Nat
  PROVE  /\ IsFiniteSet(Unmet(offers, required, k))
         /\ Cardinality(Unmet(offers, required, k)) \in Nat
         /\ \A i \in Unmet(offers, required, k) :
              Cardinality(UnmetTo(offers, required, k, i))
                \in 1 .. Cardinality(Unmet(offers, required, k))
<1> DEFINE U == Unmet(offers, required, k)
<1>1. IsFiniteSet(1 .. k) /\ U \in SUBSET (1 .. k)
  BY FS_Interval DEF Unmet
<1> HIDE DEF U
<1>2. IsFiniteSet(U)
  BY <1>1, FS_Subset
<1>3. Cardinality(U) \in Nat
  BY <1>2, FS_CardinalityType
<1>4. ASSUME NEW i \in U
      PROVE  Cardinality(UnmetTo(offers, required, k, i)) \in 1 .. Cardinality(U)
  <2> DEFINE T == UnmetTo(offers, required, k, i)
  <2>1. T \in SUBSET U /\ i \in T
    BY <1>1 DEF UnmetTo, U
  <2> HIDE DEF T
  <2>2. IsFiniteSet(T) /\ Cardinality(T) <= Cardinality(U)
    BY <1>2, <2>1, FS_Subset
  <2>3. Cardinality(T) \in Nat
    BY <2>2, FS_CardinalityType
  <2>4. Cardinality(T) # 0
    BY <2>1, <2>2, FS_EmptySet
  <2> QED
    BY <1>3, <2>2, <2>3, <2>4 DEF T
<1> QED
  BY <1>2, <1>3, <1>4 DEF U

\* Binding one more requirement keeps a plan an answer.
LEMMA BindAnswers ==
  ASSUME NEW offers, IsFiniteSet(offers), \A o \in offers : o.version \in Nat,
         NEW required \in Seq(Requirement), NEW k \in 0 .. Len(required) - 1,
         NEW plan, AnswersUpTo(plan, offers, required, k),
         NEW next \in Bind(plan, offers, required[k + 1])
  PROVE  AnswersUpTo(next, offers, required, k + 1)
<1> DEFINE req == required[k + 1]
<1>1. /\ k \in Nat /\ k + 1 \in Nat /\ k + 1 \notin 1 .. k
      /\ 1 .. k + 1 = (1 .. k) \cup {k + 1}
      /\ \A j \in 1 .. k : j <= k /\ j <= k + 1 /\ ~(k + 1 <= j)
      /\ k + 1 <= k + 1
  <2>1. Len(required) \in Nat
    OBVIOUS
  <2> QED
    BY <2>1
<1>2. req \in Requirement
  <2>1. k + 1 \in 1 .. Len(required) /\ \A i \in 1 .. Len(required) : required[i] \in Requirement
    OBVIOUS
  <2> QED
    BY <2>1
<1>3. plan \in PlanOf(offers)
  BY Zenon DEF AnswersUpTo
<1>4. next \in PlanOf(offers)
  BY <1>2, <1>3, BindType
<1>5. /\ plan.resolved \subseteq offers /\ plan.unresolved \in Seq(Requirement)
      /\ DOMAIN plan = {"resolved", "unresolved"}
  BY <1>3 DEF PlanOf
<1> HIDE DEF req
<1>6. Best(offers, req) # {} <=> Met(offers, req)
  BY BestOfMet
<1> DEFINE U == Unmet(offers, required, k)
           W == Unmet(offers, required, k + 1)
<1>7. /\ Met(offers, req) => W = U
      /\ ~Met(offers, req) => W = U \cup {k + 1}
      /\ k + 1 \notin U
      /\ \A i \in U : i \in 1 .. k
  BY <1>1, Zenon DEF Unmet, req
<1>8. /\ IsFiniteSet(U) /\ Cardinality(U) \in Nat
      /\ \A i \in U : Cardinality(UnmetTo(offers, required, k, i)) \in 1 .. Cardinality(U)
  BY <1>1, UnmetFinite
<1>9. \A i \in U : UnmetTo(offers, required, k + 1, i) = UnmetTo(offers, required, k, i)
  <2> SUFFICES ASSUME NEW i \in U
               PROVE  {j \in W : j <= i} = {j \in U : j <= i}
    BY Zenon DEF UnmetTo
  <2>1. ~(k + 1 <= i)
    BY <1>1, <1>7
  <2> QED
    BY <1>7, <2>1, Zenon
<1>10. /\ Len(plan.unresolved) = Cardinality(U)
       /\ \A i \in U : plan.unresolved[Cardinality(UnmetTo(offers, required, k, i))] = required[i]
  BY Zenon DEF AnswersUpTo
<1> HIDE DEF U, W
<1>11. CASE ~Met(offers, req)
  <2>1. next = [plan EXCEPT !.unresolved = Append(@, req)]
    BY <1>6, <1>11 DEF Bind, req
  <2>2. next.resolved = plan.resolved /\ next.unresolved = Append(plan.unresolved, req)
    BY <1>5, <2>1
  <2>3. /\ Len(next.unresolved) = Cardinality(U) + 1
        /\ \A i \in 1 .. Cardinality(U) : next.unresolved[i] = plan.unresolved[i]
        /\ next.unresolved[Cardinality(U) + 1] = req
    BY <1>2, <1>5, <1>10, <2>2, AppendProperties
  <2>4. Cardinality(W) = Cardinality(U) + 1
    BY <1>7, <1>8, <1>11, FS_AddElement
  <2>5. UnmetTo(offers, required, k + 1, k + 1) = W
    <3>1. \A i \in W : i <= k + 1
      BY <1>1, <1>7, <1>11
    <3> QED
      BY <3>1 DEF UnmetTo, W
  <2>6. \A i \in W : next.unresolved[Cardinality(UnmetTo(offers, required, k + 1, i))] = required[i]
    <3>1. \A i \in U : next.unresolved[Cardinality(UnmetTo(offers, required, k + 1, i))] = required[i]
      BY <1>8, <1>9, <1>10, <2>3, Zenon
    <3>2. next.unresolved[Cardinality(UnmetTo(offers, required, k + 1, k + 1))] = required[k + 1]
      BY <2>3, <2>4, <2>5, Zenon DEF req
    <3> QED
      BY <1>7, <1>11, <3>1, <3>2, Zenon
  <2>7. ASSUME NEW cap \in Caps
        PROVE  LET bound == {o \in next.resolved : o.cap = cap}
               IN \/ /\ bound = {}
                     /\ \A i \in 1 .. k + 1 : required[i].cap = cap => ~Met(offers, required[i])
                  \/ \E i \in 1 .. k + 1 : \E o \in Best(offers, required[i]) :
                       /\ required[i].cap = cap /\ bound = {o}
                       /\ \A j \in 1 .. k + 1 :
                            required[j].cap = cap /\ Met(offers, required[j]) => j <= i
    <3> DEFINE bound == {o \in plan.resolved : o.cap = cap}
    <3>1. \/ /\ bound = {}
             /\ \A i \in 1 .. k : required[i].cap = cap => ~Met(offers, required[i])
          \/ \E i \in 1 .. k : \E o \in Best(offers, required[i]) :
               /\ required[i].cap = cap /\ bound = {o}
               /\ \A j \in 1 .. k :
                    required[j].cap = cap /\ Met(offers, required[j]) => j <= i
      BY Zenon DEF AnswersUpTo
    <3>2. {o \in next.resolved : o.cap = cap} = bound
      BY <2>2, Zenon
    <3>3. ~Met(offers, required[k + 1])
      BY <1>11 DEF req
    <3>4. \A i \in 1 .. k + 1 : i \in 1 .. k \/ i = k + 1
      BY <1>1, Zenon
    <3>5. \A i \in 1 .. k : i \in 1 .. k + 1
      BY <1>1, Zenon
    <3> HIDE DEF bound
    <3> QED
      BY <3>1, <3>2, <3>3, <3>4, <3>5, Zenon
  <2> QED
    BY <1>4, <2>3, <2>4, <2>6, <2>7, Zenon DEF AnswersUpTo, W
<1>12. CASE Met(offers, req)
  <2>1. PICK best \in Best(offers, req) :
          next = [plan EXCEPT !.resolved = {o \in @ : o.cap # req.cap} \cup {best}]
    BY <1>6, <1>12 DEF Bind, req
  <2>2. /\ next.resolved = {o \in plan.resolved : o.cap # req.cap} \cup {best}
        /\ next.unresolved = plan.unresolved
    BY <1>5, <2>1
  <2>3. best.cap = req.cap
    BY Zenon DEF Best, Matching
  <2>4. W = U
    BY <1>7, <1>12
  <2>5. \A i \in W : next.unresolved[Cardinality(UnmetTo(offers, required, k + 1, i))] = required[i]
    BY <1>9, <1>10, <2>2, <2>4, Zenon
  <2>6. ASSUME NEW cap \in Caps
        PROVE  LET bound == {o \in next.resolved : o.cap = cap}
               IN \/ /\ bound = {}
                     /\ \A i \in 1 .. k + 1 : required[i].cap = cap => ~Met(offers, required[i])
                  \/ \E i \in 1 .. k + 1 : \E o \in Best(offers, required[i]) :
                       /\ required[i].cap = cap /\ bound = {o}
                       /\ \A j \in 1 .. k + 1 :
                            required[j].cap = cap /\ Met(offers, required[j]) => j <= i
    <3>1. \A i \in 1 .. k + 1 : i \in 1 .. k \/ i = k + 1
      BY <1>1, Zenon
    <3>2. \A i \in 1 .. k : i \in 1 .. k + 1
      BY <1>1, Zenon
    <3>3. CASE cap = req.cap
      <4>1. {o \in next.resolved : o.cap = cap} = {best}
        BY <2>2, <2>3, <3>3
      <4>2. \A j \in 1 .. k + 1 : j <= k + 1
        BY <1>1
      <4>3. k + 1 \in 1 .. k + 1 /\ best \in Best(offers, required[k + 1]) /\ required[k + 1].cap = cap
        BY <1>1, <3>3 DEF req
      <4> QED
        BY <4>1, <4>2, <4>3, Zenon
    <3>4. CASE cap # req.cap
      <4> DEFINE bound == {o \in plan.resolved : o.cap = cap}
      <4>1. \/ /\ bound = {}
               /\ \A i \in 1 .. k : required[i].cap = cap => ~Met(offers, required[i])
            \/ \E i \in 1 .. k : \E o \in Best(offers, required[i]) :
                 /\ required[i].cap = cap /\ bound = {o}
                 /\ \A j \in 1 .. k :
                      required[j].cap = cap /\ Met(offers, required[j]) => j <= i
        BY Zenon DEF AnswersUpTo
      <4>2. {o \in next.resolved : o.cap = cap} = bound
        BY <2>2, <2>3, <3>4
      <4>3. required[k + 1].cap # cap
        BY <3>4 DEF req
      <4> HIDE DEF bound
      <4> QED
        BY <3>1, <3>2, <4>1, <4>2, <4>3, Zenon
    <3> QED
      BY <3>3, <3>4
  <2>7. Len(next.unresolved) = Cardinality(W)
    BY <1>10, <2>2, <2>4
  <2> QED
    BY <1>4, <2>5, <2>6, <2>7, Zenon DEF AnswersUpTo, W
<1> QED
  BY <1>11, <1>12

\* resolve answers every requirement.
LEMMA PlansAnswer ==
  ASSUME NEW offers, IsFiniteSet(offers), \A o \in offers : o.version \in Nat,
         NEW required \in Seq(Requirement), NEW plan \in Plans(offers, required)
  PROVE  Answers(plan, offers, required)
<1> DEFINE n == Len(required)
<1>1. n \in Nat /\ DOMAIN required = 1 .. n
  OBVIOUS
<1>2. PICK f \in [0 .. n -> SUBSET PlanOf(offers)] :
        /\ f[0] = {EmptyPlan}
        /\ \A k \in 1 .. n :
             f[k] = UNION {Bind(p, offers, required[k]) : p \in f[k - 1]}
        /\ Plans(offers, required) = f[n]
  BY PlansSteps
<1> DEFINE P == {k \in 0 .. n : \A p \in f[k] : AnswersUpTo(p, offers, required, k)}
<1>3. 0 \in P
  <2>1. 0 \in 0 .. n /\ 1 .. 0 = {}
    BY <1>1
  <2>2. Unmet(offers, required, 0) = {}
    BY <2>1, Zenon DEF Unmet
  <2>3. /\ EmptyPlan.resolved = {} /\ EmptyPlan.unresolved = <<>>
        /\ EmptyPlan \in PlanOf(offers)
    BY EmptySeq DEF EmptyPlan, PlanOf
  <2>4. Len(EmptyPlan.unresolved) = Cardinality(Unmet(offers, required, 0))
    BY <2>2, <2>3, FS_EmptySet, EmptySeq
  <2>5. AnswersUpTo(EmptyPlan, offers, required, 0)
    BY <2>1, <2>2, <2>3, <2>4, Zenon DEF AnswersUpTo
  <2> QED
    BY <1>2, <2>1, <2>5
<1>4. ASSUME NEW k \in 0 .. n - 1, k \in P PROVE k + 1 \in P
  <2>1. k + 1 \in 1 .. n /\ k + 1 \in 0 .. n /\ (k + 1) - 1 = k
    BY <1>1
  <2>2. f[k + 1] = UNION {Bind(p, offers, required[k + 1]) : p \in f[k]}
    BY <1>2, <2>1
  <2>3. ASSUME NEW q \in f[k + 1] PROVE AnswersUpTo(q, offers, required, k + 1)
    <3>1. PICK p \in f[k] : q \in Bind(p, offers, required[k + 1])
      BY <2>2, Zenon
    <3>2. AnswersUpTo(p, offers, required, k)
      BY <1>4, Zenon
    <3> QED
      BY <3>1, <3>2, BindAnswers
  <2> QED
    BY <2>1, <2>3
<1> HIDE DEF P
<1>5. 0 .. n \subseteq P
  BY <1>1, <1>3, <1>4, RangeInduction
<1>6. AnswersUpTo(plan, offers, required, n)
  <2>1. n \in 0 .. n
    BY <1>1
  <2> QED
    BY <1>2, <1>5, <2>1 DEF P
<1> DEFINE IsMet(i) == \E o \in offers : o.cap = required[i].cap
                                        /\ required[i].wants # Malformed
                                        /\ o.version \in required[i].wants
           LastMet(cap) == {i \in DOMAIN required :
                             /\ required[i].cap = cap /\ IsMet(i)
                             /\ \A j \in DOMAIN required :
                                  required[j].cap = cap /\ IsMet(j) => j <= i}
           NotMet == {i \in DOMAIN required : ~IsMet(i)}
<1>7. \A i : IsMet(i) <=> Met(offers, required[i])
  BY Zenon DEF Met
<1> HIDE DEF IsMet
<1>8. NotMet = Unmet(offers, required, n)
  BY <1>1, <1>7, Zenon DEF Unmet
<1>9. plan.resolved \subseteq offers
  BY <1>6, SMT DEF AnswersUpTo, PlanOf
<1>10. ASSUME NEW cap \in Caps
       PROVE  LET bound == {o \in plan.resolved : o.cap = cap}
              IN IF LastMet(cap) = {} THEN bound = {}
                 ELSE \E o \in bound : \E i \in LastMet(cap) :
                        /\ bound = {o}
                        /\ o.version \in required[i].wants
                        /\ \A other \in offers :
                             (other.cap = cap /\ other.version \in required[i].wants)
                             => other.version <= o.version
  <2> DEFINE bound == {o \in plan.resolved : o.cap = cap}
  <2>1. CASE /\ bound = {}
             /\ \A i \in 1 .. n : required[i].cap = cap => ~Met(offers, required[i])
    <3>1. LastMet(cap) = {}
      BY <1>1, <1>7, <2>1, Zenon
    <3> QED
      BY <2>1, <3>1, Zenon
  <2>2. ASSUME NEW i \in 1 .. n, NEW o \in Best(offers, required[i]),
               required[i].cap = cap, bound = {o},
               \A j \in 1 .. n : required[j].cap = cap /\ Met(offers, required[j]) => j <= i
        PROVE  /\ LastMet(cap) # {}
               /\ \E p \in bound : \E j \in LastMet(cap) :
                    /\ bound = {p}
                    /\ p.version \in required[j].wants
                    /\ \A other \in offers :
                         (other.cap = cap /\ other.version \in required[j].wants)
                         => other.version <= p.version
    <3>1. /\ o \in Matching(offers, required[i])
          /\ \A other \in Matching(offers, required[i]) : other.version <= o.version
      BY Zenon DEF Best
    <3>2. /\ o \in offers /\ o.cap = required[i].cap
          /\ required[i].wants # Malformed /\ o.version \in required[i].wants
      BY <3>1, Zenon DEF Matching, Admitted
    <3>3. Met(offers, required[i])
      BY <3>2, Zenon DEF Met
    <3>4. i \in LastMet(cap)
      BY <1>1, <1>7, <2>2, <3>3, Zenon
    <3>5. \A other \in offers :
            (other.cap = cap /\ other.version \in required[i].wants)
            => other.version <= o.version
      BY <2>2, <3>1, <3>2, Zenon DEF Matching, Admitted
    <3>6. o \in bound
      BY <2>2, Zenon
    <3> HIDE DEF bound, LastMet
    <3> QED
      BY <2>2, <3>2, <3>4, <3>5, <3>6, Zenon
  <2>3. \/ /\ bound = {}
           /\ \A i \in 1 .. n : required[i].cap = cap => ~Met(offers, required[i])
        \/ \E i \in 1 .. n : \E o \in Best(offers, required[i]) :
             /\ required[i].cap = cap /\ bound = {o}
             /\ \A j \in 1 .. n :
                  required[j].cap = cap /\ Met(offers, required[j]) => j <= i
    BY <1>6, Zenon DEF AnswersUpTo
  <2> HIDE DEF bound, LastMet
  <2> QED
    BY <2>1, <2>2, <2>3, Zenon DEF bound
<1>11. Len(plan.unresolved) = Cardinality(NotMet)
  BY <1>6, <1>8, Zenon DEF AnswersUpTo
<1>12. \A i \in NotMet :
         plan.unresolved[Cardinality({j \in NotMet : j <= i})] = required[i]
  BY <1>6, <1>8, Zenon DEF AnswersUpTo, UnmetTo
<1> QED
  BY <1>9, <1>10, <1>11, <1>12, Zenon DEF Answers, IsMet

-----------------------------------------------------------------------------
(* Cycles *)

\* From id the dependencies can be followed for ever, or to a visited id.
Trapped(offers, listed, visited, id) ==
  \E trap \in SUBSET DOMAIN listed :
    /\ id \in trap \cup visited
    /\ \A consumer \in trap : \E provider \in trap \cup visited :
         Depends(offers, listed, consumer, provider)

\* One call of dfs_has_cycle, given what the calls it makes return.
Visit(dfs, offers, listed, visited, id) ==
  \/ id \in visited
  \/ /\ id \in DOMAIN listed
     /\ \E req \in listed[id] : \E o \in Matching(offers, req) :
          dfs[visited \cup {id}][o.ext]

LEMMA DependsOnMatch ==
  ASSUME NEW offers, NEW listed, NEW id, NEW provider
  PROVE  Depends(offers, listed, id, provider) <=>
           /\ id \in DOMAIN listed
           /\ \E req \in listed[id] : \E o \in Matching(offers, req) : o.ext = provider
BY Zenon DEF Depends, Matching, Admitted

LEMMA TrappedVisit ==
  ASSUME NEW offers, NEW listed, NEW visited, NEW id
  PROVE  Trapped(offers, listed, visited, id) <=>
           \/ id \in visited
           \/ /\ id \in DOMAIN listed
              /\ \E req \in listed[id] : \E o \in Matching(offers, req) :
                   Trapped(offers, listed, visited \cup {id}, o.ext)
<1>1. ASSUME id \in visited PROVE Trapped(offers, listed, visited, id)
  <2>1. {} \in SUBSET DOMAIN listed /\ id \in {} \cup visited
    BY <1>1
  <2> QED
    BY <2>1, Zenon DEF Trapped
<1>2. ASSUME id \in DOMAIN listed,
             NEW req \in listed[id], NEW o \in Matching(offers, req),
             Trapped(offers, listed, visited \cup {id}, o.ext)
      PROVE  Trapped(offers, listed, visited, id)
  <2>1. PICK trap \in SUBSET DOMAIN listed :
          /\ o.ext \in trap \cup (visited \cup {id})
          /\ \A consumer \in trap : \E provider \in trap \cup (visited \cup {id}) :
               Depends(offers, listed, consumer, provider)
    BY <1>2, Zenon DEF Trapped
  <2> DEFINE all == trap \cup {id}
  <2>2. /\ trap \cup (visited \cup {id}) = all \cup visited
        /\ all \in SUBSET DOMAIN listed /\ id \in all \cup visited
    BY <1>2
  <2>3. Depends(offers, listed, id, o.ext)
    BY <1>2, DependsOnMatch, Zenon
  <2>4. ASSUME NEW consumer \in all
        PROVE  \E provider \in all \cup visited : Depends(offers, listed, consumer, provider)
    <3>1. CASE consumer = id
      BY <2>1, <2>2, <2>3, <3>1, Zenon
    <3>2. CASE consumer \in trap
      BY <2>1, <2>2, <3>2, Zenon
    <3> QED
      BY <3>1, <3>2
  <2> HIDE DEF all
  <2> QED
    BY <2>2, <2>4, Zenon DEF Trapped
<1>3. ASSUME Trapped(offers, listed, visited, id), id \notin visited
      PROVE  /\ id \in DOMAIN listed
             /\ \E req \in listed[id] : \E o \in Matching(offers, req) :
                  Trapped(offers, listed, visited \cup {id}, o.ext)
  <2>1. PICK trap \in SUBSET DOMAIN listed :
          /\ id \in trap \cup visited
          /\ \A consumer \in trap : \E provider \in trap \cup visited :
               Depends(offers, listed, consumer, provider)
    BY <1>3, Zenon DEF Trapped
  <2>2. id \in trap
    BY <1>3, <2>1
  <2>3. PICK provider \in trap \cup visited : Depends(offers, listed, id, provider)
    BY <2>1, <2>2, Zenon
  <2>4. Trapped(offers, listed, visited \cup {id}, provider)
    <3>1. \A p \in trap \cup visited : p \in trap \cup (visited \cup {id})
      BY Zenon
    <3> QED
      BY <2>1, <2>3, <3>1, Zenon DEF Trapped
  <2> QED
    BY <2>3, <2>4, DependsOnMatch, Zenon
<1> QED
  BY <1>1, <1>2, <1>3, Zenon

\* The search computes who is trapped, whatever has been visited.
LEMMA HasCycleTrapped ==
  ASSUME NEW offers, \A o \in offers : o.ext \in Ids, NEW listed
  PROVE  HasCycle(offers, listed) = [id \in Ids |-> Trapped(offers, listed, {}, id)]
<1> DEFINE Turn(h, visited) == [id \in Ids |-> Visit(h, offers, listed, visited, id)]
           g == [visited \in SUBSET Ids |-> [id \in Ids |-> Trapped(offers, listed, visited, id)]]
           dfs == CHOOSE dfs : dfs = [visited \in SUBSET Ids |->
                    [id \in Ids |->
                      \/ id \in visited
                      \/ /\ id \in DOMAIN listed
                         /\ \E req \in listed[id] : \E o \in Matching(offers, req) :
                              dfs[visited \cup {id}][o.ext]]]
<1>1. HasCycle(offers, listed) = dfs[{}]
  BY Zenon DEF HasCycle
<1>2. dfs = CHOOSE h : h = [visited \in SUBSET Ids |-> Turn(h, visited)]
  BY Zenon DEF Visit
<1> HIDE DEF dfs
<1>3. \A req : \A o \in Matching(offers, req) : o.ext \in Ids
  BY Zenon DEF Matching
<1>4. \A visited \in SUBSET Ids, id \in Ids : g[visited][id] = Trapped(offers, listed, visited, id)
  BY Zenon
<1>5. \A visited \in SUBSET Ids, id \in Ids : visited \cup {id} \in SUBSET Ids
  OBVIOUS
<1>6. ASSUME NEW visited \in SUBSET Ids
      PROVE  g[visited] = Turn(g, visited)
  <2>1. ASSUME NEW id \in Ids
        PROVE  Trapped(offers, listed, visited, id) <=> Visit(g, offers, listed, visited, id)
    <3>1. \A req : \A o \in Matching(offers, req) :
            g[visited \cup {id}][o.ext] = Trapped(offers, listed, visited \cup {id}, o.ext)
      BY <1>3, <1>4, <1>5, Zenon
    <3> HIDE DEF g
    <3>2. \A req : \A o \in Matching(offers, req) :
            g[visited \cup {id}][o.ext] <=> Trapped(offers, listed, visited \cup {id}, o.ext)
      BY <3>1, Zenon
    <3> QED
      BY <3>2, TrappedVisit, Zenon DEF Visit
  <2>2. ASSUME NEW id \in Ids
        PROVE  Trapped(offers, listed, visited, id) = Visit(g, offers, listed, visited, id)
    <3>1. Trapped(offers, listed, visited, id) \in BOOLEAN
      BY Zenon DEF Trapped
    <3>2. Visit(g, offers, listed, visited, id) \in BOOLEAN
      BY Zenon DEF Visit
    <3>3. \A a, b \in BOOLEAN : (a <=> b) => a = b
      OBVIOUS
    <3> QED
      BY <2>1, <3>1, <3>2, <3>3, Zenon
  <2>3. g[visited] = [id \in Ids |-> Trapped(offers, listed, visited, id)]
    BY Zenon
  <2> HIDE DEF g
  <2> QED
    BY <2>2, <2>3, Zenon
<1>7. g = [visited \in SUBSET Ids |-> Turn(g, visited)]
  <2>1. g = [visited \in SUBSET Ids |-> g[visited]]
    BY Zenon
  <2> HIDE DEF g, Turn
  <2> QED
    BY <1>6, <2>1, Zenon
<1>8. dfs = [visited \in SUBSET Ids |-> Turn(dfs, visited)]
  <2> HIDE DEF g, Turn
  <2> QED
    BY <1>2, <1>7, Zenon
<1> HIDE DEF g
<1> DEFINE Wrong == {visited \in SUBSET Ids : dfs[visited] # g[visited]}
<1>9. Wrong = {}
  <2> SUFFICES ASSUME Wrong # {} PROVE FALSE
    OBVIOUS
  <2>1. PICK v \in Wrong : \A u \in Wrong : v \subseteq u => u = v
    <3>1. Wrong \subseteq SUBSET Ids /\ IsFiniteSet(Ids)
      BY CapabilitiesAssumption
    <3> HIDE DEF Wrong
    <3> QED
      BY <3>1, LargestSubset
  <2>2. v \in SUBSET Ids /\ dfs[v] # g[v]
    OBVIOUS
  <2>3. \A id \in Ids : id \notin v => dfs[v \cup {id}] = g[v \cup {id}]
    <3> SUFFICES ASSUME NEW id \in Ids, id \notin v, dfs[v \cup {id}] # g[v \cup {id}]
                 PROVE  FALSE
      OBVIOUS
    <3>1. v \cup {id} \in Wrong
      BY <1>5, <2>2, Zenon
    <3>2. v \subseteq v \cup {id} /\ v \cup {id} # v
      OBVIOUS
    <3> QED
      BY <2>1, <3>1, <3>2
  <2>4. \A id \in Ids : Visit(dfs, offers, listed, v, id) = Visit(g, offers, listed, v, id)
    <3> SUFFICES ASSUME NEW id \in Ids
                 PROVE  Visit(dfs, offers, listed, v, id) = Visit(g, offers, listed, v, id)
      OBVIOUS
    <3>1. CASE id \in v
      BY <3>1, Zenon DEF Visit
    <3>2. CASE id \notin v
      <4>1. dfs[v \cup {id}] = g[v \cup {id}]
        BY <2>3, <3>2
      <4> QED
        BY <4>1, Zenon DEF Visit
    <3> QED
      BY <3>1, <3>2
  <2>5. Turn(dfs, v) = Turn(g, v)
    BY <2>4, Zenon
  <2>6. dfs[v] = Turn(dfs, v)
    <3> HIDE DEF Turn
    <3> QED
      BY <1>8, <2>2, Zenon
  <2>7. g[v] = Turn(g, v)
    BY <1>6, <2>2, Zenon
  <2> HIDE DEF Turn
  <2> QED
    BY <2>2, <2>5, <2>6, <2>7, Zenon
<1>10. dfs[{}] = g[{}]
  BY <1>9
<1>11. g[{}] = [id \in Ids |-> Trapped(offers, listed, {}, id)]
  BY Zenon DEF g
<1> QED
  BY <1>1, <1>10, <1>11, Zenon

\* detect_cycle reports who depends on a cycle.
LEMMA DetectCycleEndless ==
  ASSUME NEW offers, \A o \in offers : o.ext \in Ids,
         NEW listed, DOMAIN listed \subseteq Ids
  PROVE  DetectCycle(offers, listed) = Endless(offers, listed)
<1>1. \A id \in DOMAIN listed :
        HasCycle(offers, listed)[id] = Trapped(offers, listed, {}, id)
  BY HasCycleTrapped, Zenon
<1>2. \A trap : trap \cup {} = trap
  OBVIOUS
<1>3. \A id \in DOMAIN listed :
        Trapped(offers, listed, {}, id) <=>
          \E trap \in SUBSET DOMAIN listed :
            /\ id \in trap
            /\ \A consumer \in trap : \E provider \in trap :
                 Depends(offers, listed, consumer, provider)
  BY <1>2, Zenon DEF Trapped
<1>4. \A id \in DOMAIN listed : HasCycle(offers, listed)[id] <=> Trapped(offers, listed, {}, id)
  BY <1>1, Zenon
<1> QED
  BY <1>3, <1>4, Zenon DEF DetectCycle, Endless
=============================================================================
