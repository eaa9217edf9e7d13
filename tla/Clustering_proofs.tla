------------------------- MODULE Clustering_proofs -------------------------
(***************************************************************************)
(* What the decisions of Clustering guarantee, whatever the facets, their  *)
(* places and the thresholds are.  A recursive function of the model is    *)
(* shown to have a solution (MeasureRecursion, FoldSolution: its step      *)
(* looks only at data of a smaller measure), and then, by MeasureInduction,*)
(* what holds of every value.                                              *)
(***************************************************************************)
EXTENDS Clustering, FiniteSetTheorems, SequenceTheorems, TLAPS

-----------------------------------------------------------------------------
(* Induction and recursion over a measure, and folds.                      *)

\* A set of naturals with a member has a least one.
LEMMA LeastNatural ==
    ASSUME NEW T \in SUBSET Nat, T # {}
    PROVE  \E x \in T : \A y \in T : x <= y
<1> DEFINE U == {0 .. k : k \in T}
           R == StrictSubsetOrdering(Nat)
<1>1. IsWellFoundedOn(R, FiniteSubsetsOf(Nat))
  BY FS_StrictSubsetOrderingWellFounded
<1>2. U \subseteq FiniteSubsetsOf(Nat)
  <2>1. \A k \in Nat : IsFiniteSet(0 .. k)
    BY FS_Interval
  <2>2. \A k \in Nat : 0 .. k \in FiniteSubsetsOf(Nat)
    BY <2>1 DEF FiniteSubsetsOf
  <2> QED BY <2>2
<1>3. U # {}
  OBVIOUS
<1>4. PICK X \in U : \A Y \in U : ~(<<Y, X>> \in R)
  <2> HIDE DEF U, R
  <2> QED BY <1>1, <1>2, <1>3, WFMin, Zenon
<1>5. PICK x \in T : X = 0 .. x
  OBVIOUS
<1>6. ASSUME NEW y \in T, y < x PROVE FALSE
  <2>1. /\ 0 .. y \in SUBSET Nat /\ 0 .. x \in SUBSET Nat
        /\ 0 .. y \subseteq 0 .. x /\ x \in 0 .. x /\ x \notin 0 .. y
    BY <1>6
  <2>2. <<0 .. y, X>> \in R
    BY <2>1, <1>5 DEF StrictSubsetOrdering
  <2> QED BY <2>2, <1>4
<1> QED BY <1>6

\* Induction over a measure, for a set of the data.
LEMMA MeasureInduction ==
    ASSUME NEW D, NEW m \in [D -> Nat], NEW S,
           \A d \in D : (\A e \in D : m[e] < m[d] => e \in S) => d \in S
    PROVE  D \subseteq S
<1> SUFFICES ASSUME D \ S # {} PROVE FALSE
  OBVIOUS
<1> DEFINE T == {m[d] : d \in D \ S}
<1>1. PICK k \in T : \A l \in T : k <= l
  <2>1. T \in SUBSET Nat /\ T # {}
    OBVIOUS
  <2> QED BY <2>1, LeastNatural
<1>2. PICK d \in D \ S : k = m[d]
  OBVIOUS
<1>3. ASSUME NEW e \in D, m[e] < m[d] PROVE e \in S
  <2>1. CASE e \in S BY <2>1
  <2>2. CASE e \notin S
    <3>1. m[e] \in T BY <2>2
    <3>2. k <= m[e] BY <3>1, <1>1
    <3> QED BY <3>2, <1>2, <1>3
  <2> QED BY <2>1, <2>2
<1> QED BY <1>2, <1>3

\* Induction over the naturals, for a set of them.
LEMMA NaturalInduction ==
    ASSUME NEW S, 0 \in S, \A n \in Nat : n \in S => n + 1 \in S
    PROVE  Nat \subseteq S
<1> SUFFICES ASSUME Nat \ S # {} PROVE FALSE
  OBVIOUS
<1>1. PICK k \in Nat \ S : \A l \in Nat \ S : k <= l
  BY LeastNatural
<1>2. k # 0 /\ k - 1 \in Nat
  OBVIOUS
<1>3. k - 1 \in S
  BY <1>1, <1>2
<1>4. (k - 1) + 1 \in S
  BY <1>2, <1>3
<1> QED BY <1>4, <1>2

\* The value step gives at a datum depends on the values at data of a smaller
\* measure only.
Founded(D, V, m, step) ==
    /\ V # {}
    /\ m \in [D -> Nat]
    /\ step \in [D \X [D -> V] -> V]
    /\ \A d \in D : \A g, h \in [D -> V] :
          (\A e \in D : m[e] < m[d] => g[e] = h[e]) => step[<<d, g>>] = step[<<d, h>>]

Recursive(f, D, V, step) == f \in [D -> V] /\ \A d \in D : f[d] = step[<<d, f>>]

\* A recursive definition whose step looks only at data of a smaller measure
\* has a solution.
LEMMA MeasureRecursion ==
    ASSUME NEW D, NEW V, NEW m, NEW step, Founded(D, V, m, step)
    PROVE  \E f : Recursive(f, D, V, step)
<1> PICK v \in V : TRUE
  BY DEF Founded
<1>0. /\ m \in [D -> Nat] /\ step \in [D \X [D -> V] -> V]
      /\ \A d \in D : \A g, h \in [D -> V] :
            (\A e \in D : m[e] < m[d] => g[e] = h[e]) => step[<<d, g>>] = step[<<d, h>>]
  BY DEF Founded
<1> USE <1>0
<1> DEFINE Sol(n) == {g \in [D -> V] : \A d \in D : m[d] < n => g[d] = step[<<d, g>>]}
<1>1. \A n \in Nat : Sol(n) # {}
  <2> DEFINE S == {n \in Nat : Sol(n) # {}}
  <2>1. 0 \in S
    <3> DEFINE g == [d \in D |-> v]
    <3>1. g \in Sol(0) OBVIOUS
    <3> QED BY <3>1
  <2>2. ASSUME NEW n \in Nat, n \in S PROVE n + 1 \in S
    <3>1. PICK g \in Sol(n) : TRUE BY <2>2
    <3> DEFINE h == [d \in D |-> step[<<d, g>>]]
    <3>2. h \in [D -> V] BY <3>1
    <3>3. ASSUME NEW d \in D, m[d] < n + 1 PROVE h[d] = step[<<d, h>>]
      <4>1. \A e \in D : m[e] < m[d] => g[e] = h[e]
        BY <3>1, <3>3
      <4>2. step[<<d, g>>] = step[<<d, h>>]
        <5> HIDE DEF h
        <5> QED BY <4>1, <3>1, <3>2
      <4> QED BY <4>2
    <3>4. h \in Sol(n + 1)
      <4> HIDE DEF h
      <4> QED BY <3>2, <3>3
    <3>5. n + 1 \in Nat /\ Sol(n + 1) # {}
      <4> HIDE DEF Sol
      <4> QED BY <3>4
    <3> HIDE DEF Sol
    <3> QED BY <3>5
  <2>3. Nat \subseteq S
    <3> HIDE DEF S
    <3> QED BY <2>1, <2>2, NaturalInduction
  <2> QED BY <2>3
<1>2. ASSUME NEW n \in Nat, NEW k \in Nat, NEW g \in Sol(n), NEW h \in Sol(k), NEW d \in D,
             m[d] < n, m[d] < k
      PROVE  g[d] = h[d]
  <2> DEFINE S == {e \in D : m[e] < n /\ m[e] < k => g[e] = h[e]}
  <2>1. ASSUME NEW e \in D, \A c \in D : m[c] < m[e] => c \in S PROVE e \in S
    <3>1. SUFFICES ASSUME m[e] < n, m[e] < k PROVE g[e] = h[e]
      OBVIOUS
    <3>2. \A c \in D : m[c] < m[e] => g[c] = h[c]
      BY <3>1, <2>1
    <3>3. step[<<e, g>>] = step[<<e, h>>]
      BY <3>2
    <3> QED BY <3>3, <3>1
  <2>2. D \subseteq S
    <3> HIDE DEF S, Sol
    <3> QED BY <2>1, MeasureInduction
  <2> QED BY <1>2, <2>2
<1> DEFINE G(n) == CHOOSE g : g \in Sol(n)
           f == [d \in D |-> G(m[d] + 1)[d]]
<1>3. \A n \in Nat : G(n) \in Sol(n)
  BY <1>1
<1>4. f \in [D -> V]
  <2>1. ASSUME NEW d \in D PROVE G(m[d] + 1)[d] \in V
    <3>1. m[d] + 1 \in Nat OBVIOUS
    <3>2. G(m[d] + 1) \in Sol(m[d] + 1) BY <3>1, <1>3, Zenon
    <3> HIDE DEF G
    <3> QED BY <3>2
  <2> HIDE DEF G
  <2> QED BY <2>1
<1>5. ASSUME NEW d \in D PROVE f[d] = step[<<d, f>>]
  <2> DEFINE g == G(m[d] + 1)
  <2>1. \A e \in D : G(m[e] + 1) \in Sol(m[e] + 1)
    <3>1. \A e \in D : m[e] + 1 \in Nat OBVIOUS
    <3> QED BY <3>1, <1>3, Zenon
  <2>2. f[d] = g[d] OBVIOUS
  <2>3. g \in [D -> V] /\ g[d] = step[<<d, g>>]
    <3>1. m[d] < m[d] + 1 OBVIOUS
    <3> HIDE DEF G
    <3> QED BY <2>1, <3>1
  <2>4. ASSUME NEW e \in D, m[e] < m[d] PROVE g[e] = f[e]
    <3>2. m[e] < m[d] + 1 /\ m[e] < m[e] + 1 /\ m[d] + 1 \in Nat /\ m[e] + 1 \in Nat BY <2>4
    <3>3. f[e] = G(m[e] + 1)[e] OBVIOUS
    <3> HIDE DEF Sol, G, f
    <3>4. g[e] = G(m[e] + 1)[e] BY <3>2, <2>1, <1>2
    <3> QED BY <3>3, <3>4
  <2>5. step[<<d, g>>] = step[<<d, f>>]
    <3> HIDE DEF g, f, Sol, G
    <3> QED BY <2>4, <1>4, <2>3
  <2> QED BY <2>2, <2>3, <2>5
<1> HIDE DEF f
<1> QED BY <1>4, <1>5 DEF Recursive

\* What an interval from 1 loses with its last member.
LEMMA IntervalParts ==
    ASSUME NEW n \in Nat
    PROVE  /\ IsFiniteSet(1..n)
           /\ 1..0 = {}
           /\ \A k \in 1..n : /\ Max(1..k) = k
                              /\ (1..k) \ {k} = 1..(k - 1)
                              /\ 1..k # {}
                              /\ 1..k \in SUBSET (1..n)
<1>1. IsFiniteSet(1..n)
  BY FS_Interval
<1>2. ASSUME NEW k \in 1..n PROVE Max(1..k) = k
  <2>1. k \in 1..k /\ \A y \in 1..k : k >= y
    OBVIOUS
  <2>2. \A x \in 1..k : (\A y \in 1..k : x >= y) => x = k
    OBVIOUS
  <2> QED BY <2>1, <2>2 DEF Max
<1>3. 1..0 = {} /\ \A k \in 1..n : (1..k) \ {k} = 1..(k - 1) /\ 1..k # {} /\ 1..k \in SUBSET (1..n)
  OBVIOUS
<1> QED BY <1>1, <1>2, <1>3

\* choice says in which order the members of W are folded.
Folding(W, V, base, step, choice) ==
    /\ IsFiniteSet(W) /\ base \in V
    /\ step \in [V \X W -> V]
    /\ choice \in [(SUBSET W) \ {{}} -> W]
    /\ \A s \in SUBSET W : s # {} => choice[s] \in s

Folded(f, W, V, base, step, choice) ==
    /\ f \in [SUBSET W -> V]
    /\ f[{}] = base
    /\ \A s \in SUBSET W :
          s # {} => f[s] = step[<<f[s \ {choice[s]}], choice[s]>>]

\* The recursion by which a fold is defined has a solution.
LEMMA FoldSolution ==
    ASSUME NEW W, NEW V, NEW base, NEW step, NEW choice,
           Folding(W, V, base, step, choice)
    PROVE  \E f : Folded(f, W, V, base, step, choice)
<1>0. /\ IsFiniteSet(W) /\ base \in V
      /\ step \in [V \X W -> V]
      /\ choice \in [(SUBSET W) \ {{}} -> W]
      /\ \A s \in SUBSET W : s # {} => choice[s] \in s
  BY DEF Folding
<1> USE <1>0
<1> DEFINE D == SUBSET W
           m == [s \in D |-> Cardinality(s)]
           st == [p \in D \X [D -> V] |->
                    IF p[1] = {} THEN base
                    ELSE step[<<p[2][p[1] \ {choice[p[1]]}], choice[p[1]]>>]]
<1>1. \A s \in D : IsFiniteSet(s) /\ Cardinality(s) \in Nat
  <2> TAKE s \in D
  <2>1. IsFiniteSet(s) BY FS_Subset
  <2> QED BY <2>1, FS_CardinalityType
<1>2. m \in [D -> Nat]
  BY <1>1
<1>3. \A s \in D : s # {} => /\ choice[s] \in s /\ choice[s] \in W
                             /\ s \ {choice[s]} \in D
                             /\ m[s \ {choice[s]}] < m[s]
  <2> TAKE s \in D
  <2> HAVE s # {}
  <2>1. choice[s] \in s /\ choice[s] \in W /\ s \ {choice[s]} \in D
    OBVIOUS
  <2>2. Cardinality(s \ {choice[s]}) = Cardinality(s) - 1
    BY <2>1, <1>1, FS_RemoveElement
  <2> QED BY <2>1, <2>2, <1>1
<1>4. st \in [D \X [D -> V] -> V]
  <2>1. ASSUME NEW s \in D, NEW g \in [D -> V], s # {}
        PROVE  step[<<g[s \ {choice[s]}], choice[s]>>] \in V
    <3>1. g[s \ {choice[s]}] \in V BY <2>1, <1>3
    <3>2. choice[s] \in W BY <2>1, <1>3
    <3> QED BY <3>1, <3>2
  <2> QED BY <2>1
<1>5. \A s \in D : \A g, h \in [D -> V] :
         (\A e \in D : m[e] < m[s] => g[e] = h[e]) => st[<<s, g>>] = st[<<s, h>>]
  <2> TAKE s \in D
  <2> TAKE g, h \in [D -> V]
  <2> HAVE \A e \in D : m[e] < m[s] => g[e] = h[e]
  <2>1. CASE s = {} BY <2>1
  <2>2. CASE s # {}
    <3>1. g[s \ {choice[s]}] = h[s \ {choice[s]}]
      BY <2>2, <1>3
    <3> QED BY <3>1, <2>2
  <2> QED BY <2>1, <2>2
<1>6. Founded(D, V, m, st)
  <2> HIDE DEF D, m, st
  <2> QED BY <1>2, <1>4, <1>5 DEF Founded
<1>7. PICK f : Recursive(f, D, V, st)
  <2> HIDE DEF D, m, st
  <2> QED BY <1>6, MeasureRecursion
<1>8. f \in [D -> V] /\ \A s \in D : f[s] = st[<<s, f>>]
  BY <1>7 DEF Recursive
<1>9. f[{}] = base /\ \A s \in D : s # {} => f[s] = step[<<f[s \ {choice[s]}], choice[s]>>]
  BY <1>8
<1> QED BY <1>8, <1>9 DEF Folded

\* Max chooses the greatest member of a set of numbers up to n.
LEMMA MaxChoice ==
    ASSUME NEW n \in Nat, NEW s \in SUBSET (1..n), s # {}
    PROVE  Max(s) \in s /\ \A y \in s : Max(s) >= y
<1> DEFINE T == {n - y : y \in s}
<1>1. T \in SUBSET Nat /\ T # {}
  <2>1. \A y \in s : n - y \in Nat
    OBVIOUS
  <2> QED BY <2>1
<1>2. PICK t \in T : \A u \in T : t <= u
  <2> HIDE DEF T
  <2> QED BY <1>1, LeastNatural
<1>3. PICK x \in s : t = n - x
  OBVIOUS
<1>4. \A y \in s : x >= y
  <2> TAKE y \in s
  <2>1. n - y \in T OBVIOUS
  <2>2. t <= n - y BY <2>1, <1>2
  <2> QED BY <2>2, <1>3
<1> QED BY <1>4 DEF Max

\* What holds of the start of a chain, and of each link if of the one before it,
\* holds of all of it.
LEMMA ChainTyped ==
    ASSUME NEW n \in Nat, NEW V, NEW h, h = [k \in 0..n |-> h[k]], h[0] \in V,
           \A k \in 1..n : h[k - 1] \in V => h[k] \in V
    PROVE  h \in [0..n -> V]
<1> DEFINE S == {k \in Nat : k \in 0..n => h[k] \in V}
<1>1. 0 \in S
  OBVIOUS
<1>2. ASSUME NEW k \in Nat, k \in S PROVE k + 1 \in S
  <2>1. CASE k + 1 \in 0..n
    <3>1. k \in 0..n /\ k + 1 \in 1..n /\ (k + 1) - 1 = k BY <2>1
    <3>2. h[k] \in V BY <3>1, <1>2
    <3>3. h[k + 1] \in V BY <3>1, <3>2
    <3> QED BY <3>3
  <2>2. CASE k + 1 \notin 0..n BY <2>2
  <2> QED BY <2>1, <2>2
<1>3. Nat \subseteq S
  <2> HIDE DEF S
  <2> QED BY <1>1, <1>2, NaturalInduction
<1>4. \A k \in 0..n : h[k] \in V
  BY <1>3
<1> QED BY <1>4

\* What Within does, one member of the sequence after the other.
WithinChain(h, A, G, P) ==
    /\ h \in [0..Len(G) -> Seq(A)]
    /\ h[0] = <<>>
    /\ \A k \in 1..Len(G) :
          h[k] = IF G[k] \in P THEN Append(h[k - 1], G[k]) ELSE h[k - 1]
    /\ Within(G, P) = h[Len(G)]

\* Within is the end of such a chain.
LEMMA WithinSteps ==
    ASSUME NEW A, NEW G \in Seq(A), NEW P
    PROVE  \E h : WithinChain(h, A, G, P)
<1> DEFINE n == Len(G)
           step == [p \in Seq(A) \X (1..n) |->
                      IF G[p[2]] \in P THEN Append(p[1], G[p[2]]) ELSE p[1]]
           choice == [s \in (SUBSET (1..n)) \ {{}} |-> Max(s)]
           Solves(f) == f = [s \in SUBSET DOMAIN G |->
                               IF s = {} THEN <<>>
                               ELSE IF G[Max(s)] \in P
                                    THEN Append(f[s \ {Max(s)}], G[Max(s)])
                                    ELSE f[s \ {Max(s)}]]
           iter == CHOOSE f : Solves(f)
<1>1. n \in Nat /\ DOMAIN G = 1..n /\ <<>> \in Seq(A) /\ \A k \in 1..n : G[k] \in A
  BY ElementOfSeq
<1>2. step \in [Seq(A) \X (1..n) -> Seq(A)]
  BY <1>1, AppendProperties
<1>3. /\ choice \in [(SUBSET (1..n)) \ {{}} -> 1..n]
      /\ \A s \in SUBSET (1..n) : s # {} => choice[s] \in s
  BY <1>1, MaxChoice
<1>4. \E f : Solves(f)
  <2>0. Folding(1..n, Seq(A), <<>>, step, choice)
    <3> HIDE DEF step, choice, n
    <3> QED BY <1>1, <1>2, <1>3, IntervalParts DEF Folding
  <2>1. PICK f : Folded(f, 1..n, Seq(A), <<>>, step, choice)
    <3> HIDE DEF step, choice, n
    <3> QED BY <2>0, FoldSolution
  <2>4. /\ f \in [SUBSET (1..n) -> Seq(A)] /\ f[{}] = <<>>
         /\ \A s \in SUBSET (1..n) : s # {} => f[s] = step[<<f[s \ {choice[s]}], choice[s]>>]
    BY <2>1 DEF Folded
  <2>2. ASSUME NEW s \in SUBSET (1..n)
        PROVE  f[s] = IF s = {} THEN <<>>
                      ELSE IF G[Max(s)] \in P
                           THEN Append(f[s \ {Max(s)}], G[Max(s)])
                           ELSE f[s \ {Max(s)}]
    <3>1. CASE s = {} BY <3>1, <2>4
    <3>2. CASE s # {}
      <4>1. Max(s) \in 1..n /\ choice[s] = Max(s) BY <1>3, <3>2
      <4>2. f[s \ {Max(s)}] \in Seq(A) BY <2>4
      <4>3. f[s] = step[<<f[s \ {Max(s)}], Max(s)>>] BY <2>4, <3>2, <4>1
      <4> QED BY <4>1, <4>2, <4>3, <3>2
    <3> QED BY <3>1, <3>2
  <2>3. Solves(f)
    <3> HIDE DEF step, choice
    <3> QED BY <2>4, <2>2, <1>1
  <2> QED BY <2>3
<1>5. Solves(iter)
  <2> HIDE DEF Solves
  <2> QED BY <1>4
<1>6. Within(G, P) = iter[DOMAIN G]
  BY DEF Within, FoldLeft, MapThenFoldSet
<1> DEFINE h == [k \in 0..n |-> iter[1..k]]
<1>7. h[0] = <<>>
  <2>1. iter[{}] = <<>> 
    <3> HIDE DEF iter
    <3> QED BY <1>5
  <2> HIDE DEF iter
  <2> QED BY <2>1, <1>1, IntervalParts
<1>8. ASSUME NEW k \in 1..n
      PROVE  h[k] = IF G[k] \in P THEN Append(h[k - 1], G[k]) ELSE h[k - 1]
  <2>1. /\ Max(1..k) = k /\ (1..k) \ {k} = 1..(k - 1) /\ 1..k # {}
        /\ 1..k \in SUBSET DOMAIN G
    BY <1>1, IntervalParts
  <2>2. iter[1..k] = IF G[k] \in P THEN Append(iter[1..(k - 1)], G[k]) ELSE iter[1..(k - 1)]
    <3> HIDE DEF iter
    <3> QED BY <1>5, <2>1
  <2>3. h[k] = iter[1..k] /\ h[k - 1] = iter[1..(k - 1)]
    BY <1>1
  <2> HIDE DEF h, iter
  <2> QED BY <2>2, <2>3
<1>9. Within(G, P) = h[Len(G)]
  <2> HIDE DEF iter
  <2> QED BY <1>6, <1>1
<1>10. h \in [0..n -> Seq(A)]
  <2>1. h = [k \in 0..n |-> h[k]]
    OBVIOUS
  <2>2. ASSUME NEW k \in 1..n, h[k - 1] \in Seq(A) PROVE h[k] \in Seq(A)
    <3> HIDE DEF h
    <3>1. Append(h[k - 1], G[k]) \in Seq(A)
      BY <2>2, <1>1, AppendProperties
    <3> QED BY <2>2, <1>8, <3>1
  <2> HIDE DEF h
  <2> QED BY <2>1, <2>2, <1>1, <1>7, ChainTyped
<1> HIDE DEF h
<1> QED BY <1>7, <1>8, <1>9, <1>10 DEF WithinChain

-----------------------------------------------------------------------------
(* Sequences and what they hold.                                           *)

\* What a sequence holds after one more member.
LEMMA AppendMembers ==
    ASSUME NEW A, NEW q \in Seq(A), NEW e \in A
    PROVE  /\ Append(q, e) \in Seq(A)
           /\ ToSet(Append(q, e)) = ToSet(q) \cup {e}
           /\ IsInjective(q) /\ e \notin ToSet(q) => IsInjective(Append(q, e))
<1> DEFINE r == Append(q, e)
           n == Len(q)
<1>1. /\ n \in Nat /\ DOMAIN q = 1..n
      /\ r \in Seq(A) /\ DOMAIN r = 1..(n + 1)
      /\ \A i \in 1..n : r[i] = q[i]
      /\ r[n + 1] = e
  BY AppendProperties, LenProperties
<1>2. 1..(n + 1) = (1..n) \cup {n + 1}
  BY <1>1
<1> HIDE DEF r, n
<1>3. ToSet(r) = ToSet(q) \cup {e}
  <2>1. \A i \in DOMAIN r : r[i] \in ToSet(q) \cup {e}
    BY <1>1, <1>2 DEF ToSet
  <2>2. \A i \in DOMAIN q : i \in DOMAIN r /\ q[i] = r[i]
    BY <1>1, <1>2
  <2>3. n + 1 \in DOMAIN r
    BY <1>1, <1>2
  <2> QED BY <2>1, <2>2, <2>3, <1>1 DEF ToSet
<1>4. ASSUME IsInjective(q), e \notin ToSet(q) PROVE IsInjective(r)
  <2> SUFFICES ASSUME NEW i \in DOMAIN r, NEW j \in DOMAIN r, r[i] = r[j] PROVE i = j
    BY DEF IsInjective
  <2>1. \A k \in 1..n : q[k] # e
    BY <1>4, <1>1 DEF ToSet
  <2>2. CASE i \in 1..n /\ j \in 1..n
    BY <2>2, <1>1, <1>4 DEF IsInjective
  <2>3. CASE i = n + 1 /\ j \in 1..n
    BY <2>3, <2>1, <1>1
  <2>4. CASE i \in 1..n /\ j = n + 1
    BY <2>4, <2>1, <1>1
  <2>5. CASE i = n + 1 /\ j = n + 1
    BY <2>5
  <2> QED BY <2>2, <2>3, <2>4, <2>5, <1>1, <1>2
<1> QED BY <1>1, <1>3, <1>4 DEF r

\* What two sequences hold together.
LEMMA ConcatMembers ==
    ASSUME NEW A, NEW q \in Seq(A), NEW r \in Seq(A)
    PROVE  /\ q \o r \in Seq(A)
           /\ Len(q \o r) = Len(q) + Len(r)
           /\ ToSet(q \o r) = ToSet(q) \cup ToSet(r)
           /\ IsInjective(q) /\ IsInjective(r) /\ ToSet(q) \cap ToSet(r) = {}
                 => IsInjective(q \o r)
<1> DEFINE c == q \o r
           n == Len(q)
           k == Len(r)
<1>1. /\ n \in Nat /\ DOMAIN q = 1..n /\ k \in Nat /\ DOMAIN r = 1..k
      /\ c \in Seq(A) /\ DOMAIN c = 1..(n + k) /\ Len(c) = n + k
      /\ \A i \in 1..(n + k) : c[i] = IF i <= n THEN q[i] ELSE r[i - n]
  BY ConcatProperties, LenProperties
<1> HIDE DEF c, n, k
<1>2. ToSet(c) = ToSet(q) \cup ToSet(r)
  <2>1. \A i \in DOMAIN c : c[i] \in ToSet(q) \cup ToSet(r)
    <3> TAKE i \in DOMAIN c
    <3>1. CASE i <= n
      BY <3>1, <1>1 DEF ToSet
    <3>2. CASE i > n
      <4>1. i - n \in 1..k /\ c[i] = r[i - n] BY <3>2, <1>1
      <4> QED BY <4>1, <1>1 DEF ToSet
    <3> QED BY <3>1, <3>2, <1>1
  <2>2. \A i \in DOMAIN q : i \in DOMAIN c /\ q[i] = c[i]
    BY <1>1
  <2>3. \A i \in DOMAIN r : i + n \in DOMAIN c /\ r[i] = c[i + n]
    <3> TAKE i \in DOMAIN r
    <3>1. i + n \in 1..(n + k) /\ ~(i + n <= n) /\ (i + n) - n = i BY <1>1
    <3> QED BY <3>1, <1>1
  <2> QED BY <2>1, <2>2, <2>3 DEF ToSet
<1>3. ASSUME IsInjective(q), IsInjective(r), ToSet(q) \cap ToSet(r) = {} PROVE IsInjective(c)
  <2> SUFFICES ASSUME NEW i \in DOMAIN c, NEW j \in DOMAIN c, c[i] = c[j] PROVE i = j
    BY DEF IsInjective
  <2>1. \A a \in 1..n, b \in 1..k : q[a] # r[b]
    BY <1>3, <1>1 DEF ToSet
  <2>2. CASE i <= n /\ j <= n
    BY <2>2, <1>1, <1>3 DEF IsInjective
  <2>3. CASE i <= n /\ j > n
    <3>1. i \in 1..n /\ j - n \in 1..k /\ c[i] = q[i] /\ c[j] = r[j - n] BY <2>3, <1>1
    <3> QED BY <3>1, <2>1
  <2>4. CASE i > n /\ j <= n
    <3>1. j \in 1..n /\ i - n \in 1..k /\ c[j] = q[j] /\ c[i] = r[i - n] BY <2>4, <1>1
    <3> QED BY <3>1, <2>1
  <2>5. CASE i > n /\ j > n
    <3>1. i - n \in 1..k /\ j - n \in 1..k /\ c[i] = r[i - n] /\ c[j] = r[j - n] BY <2>5, <1>1
    <3>2. i - n = j - n BY <3>1, <1>1, <1>3 DEF IsInjective
    <3> QED BY <3>2, <1>1
  <2> QED BY <2>2, <2>3, <2>4, <2>5, <1>1
<1> QED BY <1>1, <1>2, <1>3 DEF c, n, k

\* What a stretch of a sequence holds.
LEMMA SubSeqMembers ==
    ASSUME NEW A, NEW q \in Seq(A), NEW a \in Nat, NEW b \in Nat, a >= 1, b <= Len(q)
    PROVE  /\ SubSeq(q, a, b) \in Seq(A)
           /\ Len(SubSeq(q, a, b)) = IF a <= b THEN b - a + 1 ELSE 0
           /\ ToSet(SubSeq(q, a, b)) = {q[i] : i \in a..b}
           /\ IsInjective(q) => IsInjective(SubSeq(q, a, b))
<1> DEFINE r == SubSeq(q, a, b)
           n == Len(q)
<1>1. n \in Nat /\ DOMAIN q = 1..n /\ \A i \in 1..n : q[i] \in A
  BY LenProperties, ElementOfSeq
<1>2. \A i \in a..b : i \in 1..n /\ q[i] \in A
  BY <1>1
<1>3. /\ r \in Seq(A) /\ Len(r) = (IF a <= b THEN b - a + 1 ELSE 0)
      /\ \A i \in 1..(b - a + 1) : r[i] = q[a + i - 1]
  BY <1>2, SubSeqProperties
<1>4. DOMAIN r = 1..(b - a + 1)
  <2>1. DOMAIN r = 1..Len(r) BY <1>3, LenProperties
  <2> QED BY <2>1, <1>3
<1> HIDE DEF r
<1>5. ToSet(r) = {q[i] : i \in a..b}
  <2>1. \A i \in 1..(b - a + 1) : a + i - 1 \in a..b OBVIOUS
  <2>2. \A i \in a..b : i - a + 1 \in 1..(b - a + 1) /\ r[i - a + 1] = q[i]
    <3> TAKE i \in a..b
    <3>1. i - a + 1 \in 1..(b - a + 1) /\ a + (i - a + 1) - 1 = i OBVIOUS
    <3> QED BY <3>1, <1>3
  <2>3. ToSet(r) \subseteq {q[i] : i \in a..b}
    BY <2>1, <1>3, <1>4 DEF ToSet
  <2>4. {q[i] : i \in a..b} \subseteq ToSet(r)
    BY <2>2, <1>4 DEF ToSet
  <2> QED BY <2>3, <2>4
<1>6. ASSUME IsInjective(q) PROVE IsInjective(r)
  <2> SUFFICES ASSUME NEW i \in DOMAIN r, NEW j \in DOMAIN r, r[i] = r[j] PROVE i = j
    BY DEF IsInjective
  <2>1. i \in 1..(b - a + 1) /\ j \in 1..(b - a + 1)
    BY <1>4
  <2>2. q[a + i - 1] = q[a + j - 1]
    <3>1. r[i] = q[a + i - 1] /\ r[j] = q[a + j - 1] BY <2>1, <1>3
    <3> QED BY <3>1
  <2>3. a + i - 1 \in a..b /\ a + j - 1 \in a..b
    BY <2>1
  <2>4. a + i - 1 \in DOMAIN q /\ a + j - 1 \in DOMAIN q
    BY <2>3, <1>1, <1>2
  <2>5. a + i - 1 = a + j - 1
    BY <2>2, <2>4, <1>6 DEF IsInjective
  <2> QED BY <2>1, <2>5
<1> QED BY <1>3, <1>5, <1>6 DEF r

\* What a sequence holds after one member is removed.
LEMMA RemoveAtMembers ==
    ASSUME NEW A, NEW q \in Seq(A), NEW i \in DOMAIN q
    PROVE  /\ RemoveAt(q, i) \in Seq(A)
           /\ Len(RemoveAt(q, i)) = Len(q) - 1
           /\ ToSet(RemoveAt(q, i)) \subseteq ToSet(q)
           /\ IsInjective(q) => /\ IsInjective(RemoveAt(q, i))
                                /\ ToSet(RemoveAt(q, i)) = ToSet(q) \ {q[i]}
<1> DEFINE n == Len(q)
           l == SubSeq(q, 1, i - 1)
           r == SubSeq(q, i + 1, n)
<1>1. n \in Nat /\ DOMAIN q = 1..n /\ i \in 1..n
  BY LenProperties
<1>2. /\ l \in Seq(A) /\ Len(l) = i - 1 /\ ToSet(l) = {q[j] : j \in 1..(i - 1)}
      /\ IsInjective(q) => IsInjective(l)
  <2>1. 1 \in Nat /\ i - 1 \in Nat /\ 1 >= 1 /\ i - 1 <= Len(q) BY <1>1
  <2>2. (IF 1 <= i - 1 THEN (i - 1) - 1 + 1 ELSE 0) = i - 1 BY <1>1
  <2> QED BY <2>1, <2>2, SubSeqMembers
<1>3. /\ r \in Seq(A) /\ Len(r) = n - i /\ ToSet(r) = {q[j] : j \in (i + 1)..n}
      /\ IsInjective(q) => IsInjective(r)
  <2>1. i + 1 \in Nat /\ i + 1 >= 1 /\ n <= Len(q) BY <1>1
  <2>2. (IF i + 1 <= n THEN n - (i + 1) + 1 ELSE 0) = n - i BY <1>1
  <2> HIDE DEF r
  <2>3. /\ SubSeq(q, i + 1, n) \in Seq(A)
        /\ Len(SubSeq(q, i + 1, n)) = IF i + 1 <= n THEN n - (i + 1) + 1 ELSE 0
        /\ ToSet(SubSeq(q, i + 1, n)) = {q[j] : j \in (i + 1)..n}
        /\ IsInjective(q) => IsInjective(SubSeq(q, i + 1, n))
    <3> HIDE DEF n
    <3> QED BY <2>1, <1>1, SubSeqMembers
  <2> QED BY <2>2, <2>3 DEF r
<1>4. RemoveAt(q, i) = l \o r
  BY DEF RemoveAt
<1> HIDE DEF l, r, n
<1>5. /\ l \o r \in Seq(A) /\ Len(l \o r) = Len(l) + Len(r)
      /\ ToSet(l \o r) = ToSet(l) \cup ToSet(r)
      /\ IsInjective(l) /\ IsInjective(r) /\ ToSet(l) \cap ToSet(r) = {} => IsInjective(l \o r)
  <2>1. l \in Seq(A) /\ r \in Seq(A) BY <1>2, <1>3
  <2> QED BY <2>1, ConcatMembers
<1>6. Len(l \o r) = n - 1
  BY <1>1, <1>2, <1>3, <1>5
<1>7. ToSet(l \o r) \subseteq ToSet(q)
  <2>1. \A j \in 1..(i - 1) : j \in 1..n BY <1>1
  <2>2. \A j \in (i + 1)..n : j \in 1..n BY <1>1
  <2> QED BY <2>1, <2>2, <1>1, <1>2, <1>3, <1>5 DEF ToSet
<1>8. ASSUME IsInjective(q)
      PROVE  IsInjective(l \o r) /\ ToSet(l \o r) = ToSet(q) \ {q[i]}
  <2>1. \A j, k \in 1..n : q[j] = q[k] => j = k
    BY <1>8, <1>1 DEF IsInjective
  <2>2. ToSet(l) \cap ToSet(r) = {}
    <3>1. \A j \in 1..(i - 1), k \in (i + 1)..n : j \in 1..n /\ k \in 1..n /\ j # k
      BY <1>1
    <3>2. \A j \in 1..(i - 1), k \in (i + 1)..n : q[j] # q[k]
      BY <3>1, <2>1
    <3> QED BY <3>2, <1>2, <1>3
  <2>3. \A j \in 1..n : j # i <=> (j \in 1..(i - 1) \/ j \in (i + 1)..n)
    BY <1>1
  <2>4. ToSet(q) \ {q[i]} = {q[j] : j \in (1..n) \ {i}}
    BY <2>1, <1>1 DEF ToSet
  <2>5. (1..n) \ {i} = (1..(i - 1)) \cup ((i + 1)..n)
    BY <1>1
  <2>6. ToSet(l \o r) = ToSet(q) \ {q[i]}
    BY <2>4, <2>5, <1>2, <1>3, <1>5
  <2> QED BY <2>2, <2>6, <1>8, <1>2, <1>3, <1>5
<1> QED BY <1>4, <1>5, <1>6, <1>7, <1>8 DEF n

\* What a filter keeps.
LEMMA WithinMembers ==
    ASSUME NEW A, NEW G \in Seq(A), NEW P
    PROVE  /\ Within(G, P) \in Seq(A)
           /\ ToSet(Within(G, P)) = ToSet(G) \cap P
           /\ IsInjective(G) => IsInjective(Within(G, P))
<1> DEFINE n == Len(G)
<1>1. n \in Nat /\ DOMAIN G = 1..n /\ \A k \in 1..n : G[k] \in A
  BY LenProperties, ElementOfSeq
<1>2a. PICK h : WithinChain(h, A, G, P)
  BY WithinSteps
<1>2. /\ h \in [0..n -> Seq(A)]
      /\ h[0] = <<>>
      /\ \A k \in 1..n :
            h[k] = IF G[k] \in P THEN Append(h[k - 1], G[k]) ELSE h[k - 1]
      /\ Within(G, P) = h[n]
  BY <1>2a DEF WithinChain
<1> HIDE DEF n
<1> DEFINE Holds(k) == /\ ToSet(h[k]) = {G[i] : i \in 1..k} \cap P
                       /\ IsInjective(G) => IsInjective(h[k])
           S == {k \in Nat : k \in 0..n => Holds(k)}
<1>3. 0 \in S
  <2>1. ToSet(<<>>) = {} /\ IsInjective(<<>>) /\ 1..0 = {}
    BY DEF ToSet, IsInjective
  <2> QED BY <2>1, <1>2
<1>4. ASSUME NEW k \in Nat, k \in S PROVE k + 1 \in S
  <2>1. ASSUME k + 1 \in 0..n PROVE Holds(k + 1)
    <3>1. k \in 0..n /\ k + 1 \in 1..n /\ (k + 1) - 1 = k /\ 1..(k + 1) = (1..k) \cup {k + 1}
      BY <2>1, <1>1
    <3>2. Holds(k)
      BY <3>1, <1>4
    <3>3. h[k] \in Seq(A) /\ G[k + 1] \in A
      BY <3>1, <1>1, <1>2
    <3>4. h[k + 1] = IF G[k + 1] \in P THEN Append(h[k], G[k + 1]) ELSE h[k]
      BY <3>1, <1>2
    <3>5. {G[i] : i \in 1..(k + 1)} = {G[i] : i \in 1..k} \cup {G[k + 1]}
      BY <3>1
    <3>6. CASE G[k + 1] \in P
      <4>1. /\ ToSet(Append(h[k], G[k + 1])) = ToSet(h[k]) \cup {G[k + 1]}
            /\ IsInjective(h[k]) /\ G[k + 1] \notin ToSet(h[k])
                  => IsInjective(Append(h[k], G[k + 1]))
        BY <3>3, AppendMembers
      <4>2. IsInjective(G) => G[k + 1] \notin ToSet(h[k])
        <5>1. \A i \in 1..k : i \in DOMAIN G /\ k + 1 \in DOMAIN G /\ i # k + 1
          BY <3>1, <1>1
        <5> QED BY <5>1, <3>2 DEF IsInjective
      <4>3. ToSet(h[k + 1]) = {G[i] : i \in 1..(k + 1)} \cap P
        BY <4>1, <3>2, <3>4, <3>5, <3>6
      <4>4. IsInjective(G) => IsInjective(h[k + 1])
        BY <4>1, <4>2, <3>2, <3>4, <3>6
      <4> QED BY <4>3, <4>4
    <3>7. CASE G[k + 1] \notin P
      BY <3>7, <3>2, <3>4, <3>5
    <3> QED BY <3>6, <3>7
  <2> HIDE DEF Holds
  <2> QED BY <2>1
<1>5. Nat \subseteq S
  <2> HIDE DEF S
  <2> QED BY <1>3, <1>4, NaturalInduction
<1>6. Holds(n)
  <2>1. n \in 0..n BY <1>1
  <2> HIDE DEF Holds
  <2> QED BY <1>5, <1>1, <2>1
<1>7. ToSet(G) = {G[i] : i \in 1..n}
  BY <1>1 DEF ToSet
<1>8. h[n] \in Seq(A)
  BY <1>1, <1>2
<1> QED BY <1>2, <1>6, <1>7, <1>8

-----------------------------------------------------------------------------
(* Orders and sums.                                                        *)

\* A finite set with a strict total order has a first member.
LEMMA FirstOfOrder ==
    ASSUME NEW S, IsFiniteSet(S), S # {}, NEW R,
           \A a \in S : <<a, a>> \notin R,
           \A a, b, c \in S : <<a, b>> \in R /\ <<b, c>> \in R => <<a, c>> \in R,
           \A a, b \in S : a # b => <<a, b>> \in R \/ <<b, a>> \in R
    PROVE  \E a \in S : \A b \in S \ {a} : <<a, b>> \in R
<1> DEFINE below(a) == {c \in S : <<c, a>> \in R}
           T == {Cardinality(below(a)) : a \in S}
<1>1. \A a \in S : IsFiniteSet(below(a)) /\ Cardinality(below(a)) \in Nat
  <2> TAKE a \in S
  <2>1. below(a) \in SUBSET S OBVIOUS
  <2>2. IsFiniteSet(below(a))
    <3> HIDE DEF below
    <3> QED BY <2>1, FS_Subset
  <2> QED BY <2>2, FS_CardinalityType
<1>2. PICK t \in T : \A u \in T : t <= u
  <2>1. T \in SUBSET Nat /\ T # {}
    <3> HIDE DEF below
    <3> QED BY <1>1
  <2> HIDE DEF T
  <2> QED BY <2>1, LeastNatural
<1>3. PICK a \in S : t = Cardinality(below(a))
  OBVIOUS
<1>4. ASSUME NEW b \in S \ {a}, <<a, b>> \notin R PROVE FALSE
  <2>1. <<b, a>> \in R
    BY <1>4
  <2>2. below(b) \in SUBSET below(a) /\ below(b) # below(a)
    BY <2>1
  <2>3. Cardinality(below(b)) < Cardinality(below(a))
    <3>1. b \in S OBVIOUS
    <3>2. /\ Cardinality(below(b)) <= Cardinality(below(a))
          /\ Cardinality(below(a)) = Cardinality(below(b)) => below(a) = below(b)
      <4> HIDE DEF below
      <4> QED BY <1>1, <2>2, FS_Subset
    <3> HIDE DEF below
    <3> QED BY <3>1, <3>2, <2>2, <1>1
  <2>4. Cardinality(below(b)) \in T
    OBVIOUS
  <2> HIDE DEF below, T
  <2>5. t <= Cardinality(below(b))
    BY <2>4, <1>2
  <2> QED BY <2>3, <2>5, <1>3, <1>1
<1> QED BY <1>4

\* Ahead by a first key, or at a tie by a second that no two share.
Ahead(d, e, a, b) == d[a] < d[b] \/ (d[a] = d[b] /\ e[a] < e[b])

\* A finite set ordered by two keys has a first member.
LEMMA FirstByKeys ==
    ASSUME NEW S, IsFiniteSet(S), S # {}, NEW d, d \in [S -> Int], NEW e, e \in [S -> Int],
           IsInjective(e)
    PROVE  \E a \in S : \A b \in S \ {a} : Ahead(d, e, a, b)
<1> DEFINE R == {p \in S \X S : Ahead(d, e, p[1], p[2])}
<1>1. \A a, b \in S : <<a, b>> \in R <=> Ahead(d, e, a, b)
  OBVIOUS
<1>2. \A a \in S : <<a, a>> \notin R
  BY <1>1 DEF Ahead
<1>3. \A a, b, c \in S : <<a, b>> \in R /\ <<b, c>> \in R => <<a, c>> \in R
  <2> HIDE DEF R
  <2> QED BY <1>1 DEF Ahead
<1>4. \A a, b \in S : a # b => <<a, b>> \in R \/ <<b, a>> \in R
  <2> HIDE DEF R
  <2> SUFFICES ASSUME NEW a \in S, NEW b \in S, a # b
               PROVE  Ahead(d, e, a, b) \/ Ahead(d, e, b, a)
    BY <1>1
  <2>1. e[a] # e[b] BY DEF IsInjective
  <2> QED BY <2>1 DEF Ahead
<1>5. \E a \in S : \A b \in S \ {a} : <<a, b>> \in R
  <2> HIDE DEF R
  <2> QED BY <1>2, <1>3, <1>4, FirstOfOrder
<1> HIDE DEF R
<1> QED BY <1>5, <1>1

\* A finite set of integers has a greatest member.
LEMMA GreatestInteger ==
    ASSUME NEW S \in SUBSET Int, IsFiniteSet(S), S # {}
    PROVE  Max(S) \in S /\ \A y \in S : Max(S) >= y
<1> DEFINE d == [a \in S |-> -a]
<1>1. PICK a \in S : \A b \in S \ {a} : Ahead(d, d, a, b)
  <2>1. d \in [S -> Int] /\ IsInjective(d)
    BY DEF IsInjective
  <2> HIDE DEF d
  <2> QED BY <2>1, FirstByKeys
<1>2. \A b \in S : a >= b
  <2> TAKE b \in S
  <2>1. CASE b = a BY <2>1
  <2>2. CASE b # a
    <3>1. d[a] < d[b] BY <2>2, <1>1 DEF Ahead
    <3> QED BY <3>1
  <2> QED BY <2>1, <2>2
<1> QED BY <1>2 DEF Max

\* The sum a centroid divides.
Total(x, S) == MapThenSumSet(LAMBDA f : x[f], S)

\* The sum over a set, member after member.
SumChain(g, x, S) ==
    /\ g \in [SUBSET S -> Int]
    /\ g[{}] = 0
    /\ \A s \in SUBSET S :
          s # {} => \E a \in s : g[s] = x[a] + g[s \ {a}]
    /\ Total(x, S) = g[S]

\* The sum of a set is the end of such a chain.
LEMMA SumSteps ==
    ASSUME NEW S, IsFiniteSet(S), NEW x, \A f \in S : x[f] \in Int
    PROVE  \E g : SumChain(g, x, S)
<1> DEFINE choice == [s \in (SUBSET S) \ {{}} |-> CHOOSE a \in s : TRUE]
           step == [p \in Int \X S |-> x[p[2]] + p[1]]
           Solves(f) == f = [s \in SUBSET S |->
                               IF s = {} THEN 0
                               ELSE x[CHOOSE a \in s : TRUE] + f[s \ {CHOOSE a \in s : TRUE}]]
           iter == CHOOSE f : Solves(f)
<1>1. choice \in [(SUBSET S) \ {{}} -> S] /\ \A s \in SUBSET S : s # {} => choice[s] \in s
  OBVIOUS
<1>2. step \in [Int \X S -> Int]
  OBVIOUS
<1>3. Folding(S, Int, 0, step, choice)
  <2> HIDE DEF step, choice
  <2> QED BY <1>1, <1>2 DEF Folding
<1>4. PICK f : Folded(f, S, Int, 0, step, choice)
  <2> HIDE DEF step, choice
  <2> QED BY <1>3, FoldSolution
<1>5. /\ f \in [SUBSET S -> Int] /\ f[{}] = 0
      /\ \A s \in SUBSET S : s # {} => f[s] = step[<<f[s \ {choice[s]}], choice[s]>>]
  BY <1>4 DEF Folded
<1>6. Solves(f)
  <2>1. ASSUME NEW s \in SUBSET S, s # {}
        PROVE  f[s] = x[CHOOSE a \in s : TRUE] + f[s \ {CHOOSE a \in s : TRUE}]
    <3> DEFINE w == CHOOSE a \in s : TRUE
    <3>1. w \in S /\ choice[s] = w BY <2>1
    <3>2. f[s] = step[<<f[s \ {w}], w>>] BY <2>1, <1>5, <3>1
    <3>3. f[s \ {w}] \in Int BY <1>5
    <3>4. f[s] = x[w] + f[s \ {w}]
      <4> HIDE DEF w
      <4> QED BY <3>1, <3>2, <3>3
    <3> HIDE DEF step, choice
    <3> QED BY <3>4
  <2> QED BY <2>1, <1>5
<1>7. Solves(iter)
  <2> HIDE DEF Solves
  <2> QED BY <1>6
<1>8. Total(x, S) = iter[S]
  BY DEF Total, MapThenSumSet, MapThenFoldSet
<1> HIDE DEF iter
<1>9. iter[{}] = 0 /\ \A s \in SUBSET S : s # {} => \E a \in s : iter[s] = x[a] + iter[s \ {a}]
  <2>1. iter[{}] = 0 BY <1>7
  <2>2. ASSUME NEW s \in SUBSET S, s # {} PROVE \E a \in s : iter[s] = x[a] + iter[s \ {a}]
    <3>1. (CHOOSE a \in s : TRUE) \in s BY <2>2
    <3> QED BY <3>1, <1>7, <2>2
  <2> QED BY <2>1, <2>2
<1>10. iter \in [SUBSET S -> Int]
  <2> DEFINE m == [s \in SUBSET S |-> Cardinality(s)]
             Good == {s \in SUBSET S : iter[s] \in Int}
  <2>1. \A s \in SUBSET S : IsFiniteSet(s) /\ Cardinality(s) \in Nat
    BY FS_Subset, FS_CardinalityType
  <2>2. m \in [SUBSET S -> Nat] BY <2>1
  <2>3. ASSUME NEW s \in SUBSET S, \A r \in SUBSET S : m[r] < m[s] => r \in Good
        PROVE  s \in Good
    <3>1. CASE s = {} BY <3>1, <1>9
    <3>2. CASE s # {}
      <4>1. PICK a \in s : iter[s] = x[a] + iter[s \ {a}] BY <3>2, <1>9
      <4>2. Cardinality(s \ {a}) = Cardinality(s) - 1 BY <2>1, FS_RemoveElement
      <4>3. m[s \ {a}] < m[s] BY <4>2, <2>1
      <4>4. iter[s \ {a}] \in Int BY <4>3, <2>3
      <4> QED BY <4>1, <4>4
    <3> QED BY <3>1, <3>2
  <2>4. SUBSET S \subseteq Good
    <3> HIDE DEF m, Good
    <3> QED BY <2>2, <2>3, MeasureInduction
  <2>5. iter = [s \in SUBSET S |-> iter[s]]
    BY <1>7
  <2> HIDE DEF m
  <2> QED BY <2>4, <2>5
<1> QED BY <1>8, <1>9, <1>10 DEF SumChain

\* The sum of numbers between two bounds.
LEMMA SumBounds ==
    ASSUME NEW S, IsFiniteSet(S), NEW x, NEW lo \in Int, NEW hi \in Int,
           \A f \in S : x[f] \in lo..hi
    PROVE  /\ Total(x, S) \in Int
           /\ Cardinality(S) * lo <= Total(x, S)
           /\ Total(x, S) <= Cardinality(S) * hi
<1>1. PICK g : SumChain(g, x, S)
  <2>1. \A f \in S : x[f] \in Int OBVIOUS
  <2> QED BY <2>1, SumSteps
<1>2. /\ g \in [SUBSET S -> Int] /\ g[{}] = 0
      /\ \A s \in SUBSET S : s # {} => \E a \in s : g[s] = x[a] + g[s \ {a}]
      /\ Total(x, S) = g[S]
  BY <1>1 DEF SumChain
<1> DEFINE m == [s \in SUBSET S |-> Cardinality(s)]
           Good == {s \in SUBSET S : Cardinality(s) * lo <= g[s] /\ g[s] <= Cardinality(s) * hi}
<1>3. \A s \in SUBSET S : IsFiniteSet(s) /\ Cardinality(s) \in Nat
  BY FS_Subset, FS_CardinalityType
<1>4. m \in [SUBSET S -> Nat] BY <1>3
<1>5. ASSUME NEW s \in SUBSET S, \A r \in SUBSET S : m[r] < m[s] => r \in Good
      PROVE  s \in Good
  <2>1. CASE s = {}
    <3>1. Cardinality(s) = 0 BY <2>1, FS_EmptySet
    <3> QED BY <3>1, <2>1, <1>2
  <2>2. CASE s # {}
    <3>1. PICK a \in s : g[s] = x[a] + g[s \ {a}] BY <2>2, <1>2
    <3>2. Cardinality(s \ {a}) = Cardinality(s) - 1 BY <1>3, FS_RemoveElement
    <3>3. m[s \ {a}] < m[s] BY <3>2, <1>3
    <3>4. s \ {a} \in Good BY <3>3, <1>5
    <3> DEFINE n == Cardinality(s)
    <3>5. n \in Nat /\ x[a] \in lo..hi /\ g[s] \in Int /\ g[s \ {a}] \in Int
      BY <1>2, <1>3
    <3>6. (n - 1) * lo <= g[s \ {a}] /\ g[s \ {a}] <= (n - 1) * hi
      BY <3>2, <3>4
    <3>7. (n - 1) * lo = n * lo - lo /\ (n - 1) * hi = n * hi - hi
      BY <3>5
    <3>8. n * lo \in Int /\ n * hi \in Int
      BY <3>5
    <3>9. n * lo <= g[s] /\ g[s] <= n * hi
      <4> HIDE DEF n
      <4> QED BY <3>1, <3>5, <3>6, <3>7, <3>8
    <3> QED BY <3>9
  <2> QED BY <2>1, <2>2
<1>6. SUBSET S \subseteq Good
  <2> HIDE DEF m, Good
  <2> QED BY <1>4, <1>5, MeasureInduction
<1>7. S \in Good
  BY <1>6
<1> HIDE DEF m
<1> QED BY <1>2, <1>7

\* An average lies between the bounds of what it averages.
LEMMA DivBounds ==
    ASSUME NEW n \in Nat \ {0}, NEW s \in Int, NEW lo \in Int, NEW hi \in Int,
           n * lo <= s, s <= n * hi
    PROVE  s \div n \in lo..hi
OBVIOUS

-----------------------------------------------------------------------------
(* Counts, centroids and distances.                                        *)

\* How the length of a sequence counts its members.
LEMMA SeqCount ==
    ASSUME NEW A, NEW G \in Seq(A)
    PROVE  /\ IsFiniteSet(ToSet(G))
           /\ Cardinality(ToSet(G)) <= Len(G)
           /\ IsInjective(G) => Cardinality(ToSet(G)) = Len(G)
           /\ ToSet(G) \subseteq A
           /\ G = <<>> <=> ToSet(G) = {}
           /\ G = <<>> <=> Len(G) = 0
<1> DEFINE n == Len(G)
<1>1. n \in Nat /\ DOMAIN G = 1..n /\ (\A k \in 1..n : G[k] \in A) /\ G = [i \in 1..n |-> G[i]]
  BY LenProperties, ElementOfSeq
<1>2. IsFiniteSet(1..n) /\ Cardinality(1..n) = n
  <2>1. n \in Int /\ (IF 1 <= n THEN n - 1 + 1 ELSE 0) = n BY <1>1
  <2>2. IsFiniteSet(1..n) /\ Cardinality(1..n) = IF 1 <= n THEN n - 1 + 1 ELSE 0
    <3> HIDE DEF n
    <3> QED BY <2>1, FS_Interval
  <2> QED BY <2>1, <2>2
<1>3. G \in Surjection(1..n, ToSet(G))
  BY <1>1 DEF Surjection, ToSet
<1> HIDE DEF n
<1>4. /\ IsFiniteSet(ToSet(G))
      /\ Cardinality(ToSet(G)) <= Cardinality(1..n)
      /\ Cardinality(ToSet(G)) = Cardinality(1..n) <=> G \in Injection(1..n, ToSet(G))
  BY <1>2, <1>3, FS_Surjection
<1>5. IsInjective(G) => G \in Injection(1..n, ToSet(G))
  BY <1>3 DEF Injection, Surjection
<1>6. ToSet(G) \subseteq A
  BY <1>1 DEF ToSet
<1>7. G = <<>> <=> n = 0
  BY EmptySeq DEF n
<1>8. n = 0 <=> ToSet(G) = {}
  <2>1. n = 0 => ToSet(G) = {} BY <1>1 DEF ToSet
  <2>2. n # 0 => G[1] \in ToSet(G) BY <1>1 DEF ToSet
  <2> QED BY <2>1, <2>2
<1> QED BY <1>2, <1>4, <1>5, <1>6, <1>7, <1>8 DEF n

\* Distinct owners are no more than the facets, and grow with them.
LEMMA OwnersCount ==
    ASSUME NEW S, IsFiniteSet(S), NEW T \in SUBSET S
    PROVE  /\ Cardinality({Owner[f] : f \in S}) \in Nat
           /\ Cardinality(S) \in Nat
           /\ Cardinality({Owner[f] : f \in S}) <= Cardinality(S)
           /\ Cardinality({Owner[f] : f \in T}) <= Cardinality({Owner[f] : f \in S})
<1> DEFINE g == [f \in S |-> Owner[f]]
           O(U) == {Owner[f] : f \in U}
<1>1. g \in Surjection(S, O(S))
  BY DEF Surjection
<1>2. IsFiniteSet(O(S)) /\ Cardinality(O(S)) <= Cardinality(S)
  <2> HIDE DEF O, g
  <2> QED BY <1>1, FS_Surjection
<1>3. O(T) \in SUBSET O(S)
  OBVIOUS
<1>4. Cardinality(O(T)) <= Cardinality(O(S))
  <2> HIDE DEF O
  <2> QED BY <1>2, <1>3, FS_Subset
<1>5. Cardinality(O(S)) \in Nat /\ Cardinality(S) \in Nat
  <2> HIDE DEF O
  <2> QED BY <1>2, FS_CardinalityType
<1> QED BY <1>2, <1>4, <1>5

\* DistinctIDs counts at most the members of a group.
LEMMA DistinctIDsCount ==
    ASSUME NEW G \in Seq(Facets)
    PROVE  /\ DistinctIDs(G) \in Nat
           /\ DistinctIDs(G) <= Cardinality(ToSet(G))
           /\ DistinctIDs(G) <= Len(G)
           /\ Len(G) \in Nat
<1>1. IsFiniteSet(ToSet(G)) /\ Cardinality(ToSet(G)) <= Len(G)
  BY SeqCount
<1>2. ToSet(G) \in SUBSET ToSet(G)
  OBVIOUS
<1>3. /\ DistinctIDs(G) \in Nat /\ Cardinality(ToSet(G)) \in Nat
      /\ DistinctIDs(G) <= Cardinality(ToSet(G))
  BY <1>1, <1>2, OwnersCount DEF DistinctIDs
<1>4. Len(G) \in Nat
  BY LenProperties
<1> QED BY <1>1, <1>3, <1>4

\* Disjoint parts of at least k members each need k times as many members.
LEMMA PartsCount ==
    ASSUME NEW F, IsFiniteSet(F), NEW I, IsFiniteSet(I), NEW k \in Nat, NEW part,
           \A i \in I : part[i] \in SUBSET F /\ Cardinality(part[i]) >= k,
           \A i, j \in I : i # j => part[i] \cap part[j] = {}
    PROVE  Cardinality(I) * k <= Cardinality(F)
<1> DEFINE all(J) == UNION {part[i] : i \in J}
           m == [J \in SUBSET I |-> Cardinality(J)]
           Good == {J \in SUBSET I : Cardinality(J) * k <= Cardinality(all(J))}
<1>1. \A J \in SUBSET I : IsFiniteSet(J) /\ Cardinality(J) \in Nat
  BY FS_Subset, FS_CardinalityType
<1>2. \A J \in SUBSET I : all(J) \in SUBSET F
  OBVIOUS
<1>3. \A U \in SUBSET F : IsFiniteSet(U) /\ Cardinality(U) \in Nat
  BY FS_Subset, FS_CardinalityType
<1>4. m \in [SUBSET I -> Nat]
  BY <1>1
<1>5. ASSUME NEW J \in SUBSET I, \A K \in SUBSET I : m[K] < m[J] => K \in Good
      PROVE  J \in Good
  <2>1. CASE J = {}
    <3>1. Cardinality(J) = 0 BY <2>1, FS_EmptySet
    <3>2. Cardinality(all(J)) \in Nat
      <4> HIDE DEF all
      <4> QED BY <1>2, <1>3
    <3> HIDE DEF all
    <3> QED BY <3>1, <3>2
  <2>2. CASE J # {}
    <3>1. PICK i \in J : TRUE BY <2>2
    <3> DEFINE K == J \ {i}
    <3>2. Cardinality(K) = Cardinality(J) - 1 BY <1>1, FS_RemoveElement
    <3>3. K \in SUBSET I /\ m[K] < m[J] BY <3>2, <1>1
    <3>4. K \in Good
      <4> HIDE DEF K, m, Good
      <4> QED BY <3>3, <1>5
    <3>5. all(J) = all(K) \cup part[i] /\ all(K) \cap part[i] = {}
      <4>1. all(J) = all(K) \cup part[i]
        BY <3>1
      <4>2. \A j \in K : part[j] \cap part[i] = {}
        BY <3>1
      <4> QED BY <4>1, <4>2
    <3>6. /\ IsFiniteSet(all(K)) /\ IsFiniteSet(part[i])
          /\ Cardinality(all(K)) \in Nat /\ Cardinality(part[i]) \in Nat
      <4> HIDE DEF all, K
      <4> QED BY <1>2, <1>3, <3>3, <3>1
    <3>7. Cardinality(all(J)) = Cardinality(all(K)) + Cardinality(part[i])
      <4>1. Cardinality(all(K) \cap part[i]) = 0 BY <3>5, FS_EmptySet
      <4> HIDE DEF all, K
      <4>2. Cardinality(all(K) \cup part[i])
               = Cardinality(all(K)) + Cardinality(part[i]) - Cardinality(all(K) \cap part[i])
        BY <3>6, FS_Union
      <4> QED BY <4>1, <4>2, <3>5, <3>6
    <3>8. Cardinality(K) * k <= Cardinality(all(K)) /\ Cardinality(part[i]) >= k
      BY <3>4
    <3>9. (Cardinality(J) - 1) * k = Cardinality(J) * k - k /\ Cardinality(J) * k \in Int
      BY <1>1
    <3>10. Cardinality(J) * k <= Cardinality(all(J))
      <4> HIDE DEF all, K
      <4> QED BY <3>2, <3>6, <3>7, <3>8, <3>9
    <3> QED BY <3>10
  <2> QED BY <2>1, <2>2
<1>6. SUBSET I \subseteq Good
  <2> HIDE DEF m, Good
  <2> QED BY <1>4, <1>5, MeasureInduction
<1>7. Cardinality(I) * k <= Cardinality(all(I)) /\ all(I) \in SUBSET F
  <2>1. I \in Good BY <1>6
  <2> QED BY <2>1
<1>8. Cardinality(all(I)) <= Cardinality(F) /\ Cardinality(all(I)) \in Nat /\ Cardinality(F) \in Nat
  <2> HIDE DEF all
  <2> QED BY <1>7, <1>3, FS_Subset
<1>9. Cardinality(I) * k \in Int
  BY <1>1
<1> HIDE DEF all
<1> QED BY <1>7, <1>8, <1>9

-----------------------------------------------------------------------------
(* Geometry.                                                                *)

Places == [Facets -> Int]

\* A centroid is an integer.
LEMMA CentroidIsInteger ==
    ASSUME NEW x \in Places, NEW G \in Seq(Facets), G # <<>>
    PROVE  Centroid(x, G) \in Int
<1>1. IsFiniteSet(ToSet(G)) /\ ToSet(G) \subseteq Facets /\ Len(G) # 0 /\ Len(G) \in Nat
  BY SeqCount, LenProperties
<1>2. \A f \in ToSet(G) : x[f] \in Int
  BY <1>1 DEF Places
<1>3. PICK g : SumChain(g, x, ToSet(G))
  BY <1>1, <1>2, SumSteps
<1>4. Total(x, ToSet(G)) \in Int
  <2>1. Total(x, ToSet(G)) = g[ToSet(G)] /\ g[ToSet(G)] \in Int
    BY <1>3 DEF SumChain
  <2> QED BY <2>1
<1> DEFINE s == Total(x, ToSet(G))
           n == Len(G)
<1>5. s \in Int /\ n \in Nat \ {0}
  BY <1>1, <1>4
<1>6. Centroid(x, G) = s \div n
  BY DEF Centroid, Total
<1> HIDE DEF s, n
<1> QED BY <1>5, <1>6

\* The centroid of facets between two places is between them.
LEMMA CentroidBetween ==
    ASSUME NEW x, NEW G \in Seq(Facets), G # <<>>, IsInjective(G),
           NEW lo \in Int, NEW hi \in Int, \A f \in ToSet(G) : x[f] \in lo..hi
    PROVE  Centroid(x, G) \in lo..hi
<1>1. IsFiniteSet(ToSet(G)) /\ Cardinality(ToSet(G)) = Len(G) /\ Len(G) # 0 /\ Len(G) \in Nat
  BY SeqCount, LenProperties
<1> DEFINE s == Total(x, ToSet(G))
           n == Len(G)
<1>2. s \in Int /\ Cardinality(ToSet(G)) * lo <= s /\ s <= Cardinality(ToSet(G)) * hi
  BY <1>1, SumBounds
<1>3. n \in Nat \ {0} /\ n * lo <= s /\ s <= n * hi
  <2> HIDE DEF s
  <2> QED BY <1>1, <1>2
<1>4. Centroid(x, G) = s \div n
  BY DEF Centroid, Total
<1> HIDE DEF s, n
<1> QED BY <1>2, <1>3, <1>4, DivBounds

\* A distance is a natural number.
LEMMA DistIsInteger ==
    ASSUME NEW a \in Int, NEW b \in Int
    PROVE  Dist(a, b) \in Nat
BY DEF Dist

\* The radius is the greatest distance of a member from the centroid.
LEMMA RadiusCovers ==
    ASSUME NEW x \in Places, NEW G \in Seq(Facets), G # <<>>
    PROVE  /\ Radius(x, G) \in Nat
           /\ \A f \in ToSet(G) : Dist(x[f], Centroid(x, G)) <= Radius(x, G)
           /\ \E f \in ToSet(G) : Dist(x[f], Centroid(x, G)) = Radius(x, G)
<1> DEFINE c == Centroid(x, G)
           D == {Dist(x[f], c) : f \in ToSet(G)}
           d == [f \in ToSet(G) |-> Dist(x[f], c)]
<1>1. c \in Int
  BY CentroidIsInteger
<1>2. IsFiniteSet(ToSet(G)) /\ ToSet(G) \subseteq Facets /\ ToSet(G) # {}
  BY SeqCount
<1> HIDE DEF c
<1>3. \A f \in ToSet(G) : Dist(x[f], c) \in Nat
  BY <1>1, <1>2, DistIsInteger DEF Places
<1>4. D \in SUBSET Int /\ D # {}
  BY <1>2, <1>3
<1>5. IsFiniteSet(D)
  <2>1. d \in Surjection(ToSet(G), D)
    BY DEF Surjection
  <2> HIDE DEF d, D
  <2> QED BY <2>1, <1>2, FS_Surjection
<1>6. Max(D) \in D /\ \A y \in D : Max(D) >= y
  <2> HIDE DEF D
  <2> QED BY <1>4, <1>5, GreatestInteger
<1>7. Radius(x, G) = Max(D)
  BY DEF Radius, c
<1>8. \A f \in ToSet(G) : Dist(x[f], c) \in D
  OBVIOUS
<1>9. \A y \in D : y \in Nat
  BY <1>3
<1>10. \A y \in D : \E f \in ToSet(G) : Dist(x[f], c) = y
  OBVIOUS
<1>11. /\ Radius(x, G) \in Nat
       /\ \A f \in ToSet(G) : Dist(x[f], c) <= Radius(x, G)
       /\ \E f \in ToSet(G) : Dist(x[f], c) = Radius(x, G)
  <2> HIDE DEF D
  <2> QED BY <1>6, <1>7, <1>8, <1>9, <1>10
<1> QED BY <1>11 DEF c

-----------------------------------------------------------------------------
(* Grow: what a seed extends to.                                           *)

\* Facets are numbered and finitely many.
LEMMA SubsetsFinite ==
    ASSUME NEW P \in SUBSET Facets
    PROVE  IsFiniteSet(P) /\ Cardinality(P) \in Nat /\ P \subseteq Nat \ {0}
BY FacetsAssumption, FS_Subset, FS_CardinalityType

\* Extend admits others, each once.
LEMMA ExtendMembers ==
    ASSUME NEW x \in Places, NEW seed \in Facets, NEW others \in SUBSET Facets
    PROVE  LET G == Extend(x, seed, others)
           IN  /\ G \in Seq(Facets) /\ IsInjective(G)
               /\ ToSet(G) \subseteq {seed} \cup others
<1> DEFINE D == Seq(Facets) \ {<<>>}
           near(G) == {f \in others \ ToSet(G) : Dist(x[f], Centroid(x, G)) <= AssignThreshold}
           next(G) == Foremost(near(G), LAMBDA f, g :
                          \/ Dist(x[f], Centroid(x, G)) < Dist(x[g], Centroid(x, G))
                          \/ /\ Dist(x[f], Centroid(x, G)) = Dist(x[g], Centroid(x, G))
                             /\ f > g)
           Solves(h) == h = [G \in D |-> IF near(G) = {} THEN G ELSE h[Append(G, next(G))]]
           grown == CHOOSE h : Solves(h)
           m == [G \in D |-> Cardinality(others \ ToSet(G))]
           step == [p \in D \X [D -> D] |->
                      IF near(p[1]) = {} THEN p[1] ELSE p[2][Append(p[1], next(p[1]))]]
<1>1. ASSUME NEW G \in D, near(G) # {} PROVE next(G) \in near(G)
  <2> DEFINE c == Centroid(x, G)
             d == [f \in near(G) |-> Dist(x[f], c)]
             e == [f \in near(G) |-> -f]
             S == near(G)
  <2>1. c \in Int
    BY CentroidIsInteger
  <2>2. S \in SUBSET Facets /\ S # {}
    BY <1>1
  <2>3. IsFiniteSet(S) /\ S \subseteq Nat
    <3> HIDE DEF S
    <3> QED BY <2>2, SubsetsFinite
  <2>4. d \in [S -> Int] /\ e \in [S -> Int] /\ IsInjective(e)
    <3>1. \A f \in S : Dist(x[f], c) \in Int
      <4> HIDE DEF c, S
      <4> QED BY <2>1, <2>2, DistIsInteger DEF Places
    <3>2. \A f \in S : -f \in Int
      <4> HIDE DEF S
      <4> QED BY <2>3
    <3>3. \A f, g \in S : -f = -g => f = g
      <4> HIDE DEF S
      <4> QED BY <2>3
    <3> HIDE DEF near, c
    <3> QED BY <3>1, <3>2, <3>3 DEF IsInjective
  <2>5. \E a \in S : \A b \in S \ {a} : Ahead(d, e, a, b)
    <3> HIDE DEF S, d, e
    <3> QED BY <2>2, <2>3, <2>4, FirstByKeys
  <2>6. \A a, b \in S : Ahead(d, e, a, b) => \/ Dist(x[a], c) < Dist(x[b], c)
                                             \/ Dist(x[a], c) = Dist(x[b], c) /\ a > b
    <3> SUFFICES ASSUME NEW a \in S, NEW b \in S, Ahead(d, e, a, b)
                 PROVE  \/ Dist(x[a], c) < Dist(x[b], c)
                        \/ Dist(x[a], c) = Dist(x[b], c) /\ a > b
      OBVIOUS
    <3>1. d[a] = Dist(x[a], c) /\ d[b] = Dist(x[b], c) /\ e[a] = -a /\ e[b] = -b
      OBVIOUS
    <3>2. a \in Nat /\ b \in Nat
      <4> HIDE DEF S
      <4> QED BY <2>3
    <3> HIDE DEF d, e, S, c
    <3> QED BY <3>1, <3>2 DEF Ahead
  <2>7. \E a \in S : \A b \in S \ {a} : \/ Dist(x[a], c) < Dist(x[b], c)
                                        \/ Dist(x[a], c) = Dist(x[b], c) /\ a > b
    <3> HIDE DEF d, e, S, c
    <3> QED BY <2>5, <2>6
  <2> HIDE DEF near
  <2> QED BY <2>7 DEF Foremost
<1>2. ASSUME NEW G \in D, near(G) # {}
      PROVE  /\ Append(G, next(G)) \in D
             /\ next(G) \in others \ ToSet(G)
             /\ ToSet(Append(G, next(G))) = ToSet(G) \cup {next(G)}
             /\ IsInjective(G) => IsInjective(Append(G, next(G)))
             /\ m[Append(G, next(G))] < m[G]
  <2> DEFINE a == next(G)
  <2>1. a \in others \ ToSet(G) /\ a \in Facets
    <3>1. a \in near(G)
      <4> HIDE DEF near, next
      <4> QED BY <1>1, <1>2
    <3> HIDE DEF a
    <3> QED BY <3>1
  <2> HIDE DEF a
  <2>2. /\ Append(G, a) \in Seq(Facets) /\ Append(G, a) # <<>>
        /\ ToSet(Append(G, a)) = ToSet(G) \cup {a}
        /\ IsInjective(G) /\ a \notin ToSet(G) => IsInjective(Append(G, a))
    BY <2>1, AppendMembers, AppendProperties
  <2>3. others \ ToSet(Append(G, a)) = (others \ ToSet(G)) \ {a}
    BY <2>2
  <2>4. /\ IsFiniteSet(others \ ToSet(G))
        /\ Cardinality(others \ ToSet(G)) \in Nat
    BY SubsetsFinite
  <2>5. Cardinality((others \ ToSet(G)) \ {a}) = Cardinality(others \ ToSet(G)) - 1
    BY <2>1, <2>4, FS_RemoveElement
  <2>6. m[Append(G, a)] < m[G]
    <3>1. Append(G, a) \in D
      BY <2>2
    <3>2. /\ m[Append(G, a)] = Cardinality(others \ ToSet(Append(G, a)))
          /\ m[G] = Cardinality(others \ ToSet(G))
      <4> HIDE DEF D
      <4> QED BY <3>1
    <3>3. m[Append(G, a)] = Cardinality((others \ ToSet(G)) \ {a})
      BY <3>2, <2>3, Zenon
    <3>4. m[Append(G, a)] = m[G] - 1 /\ m[G] \in Nat
      BY <3>2, <3>3, <2>4, <2>5, Zenon
    <3> HIDE DEF m, D
    <3> QED BY <3>4
  <2> QED BY <2>1, <2>2, <2>6 DEF a
<1>3. m \in [D -> Nat]
  <2>1. \A G \in D : Cardinality(others \ ToSet(G)) \in Nat
    BY SubsetsFinite
  <2> QED BY <2>1
<1>4. <<seed>> \in D /\ ToSet(<<seed>>) = {seed} /\ IsInjective(<<seed>>)
  BY DEF ToSet, IsInjective
<1>5. Founded(D, D, m, step)
  <2>1. \A G \in D, h \in [D -> D] : step[<<G, h>>] \in D
    <3> TAKE G \in D, h \in [D -> D]
    <3>1. CASE near(G) = {}
      <4> HIDE DEF near, next, D
      <4> QED BY <3>1
    <3>2. CASE near(G) # {}
      <4>1. Append(G, next(G)) \in D BY <3>2, <1>2
      <4> HIDE DEF near, next, D
      <4> QED BY <3>2, <4>1
    <3> QED BY <3>1, <3>2
  <2>2. ASSUME NEW G \in D, NEW g \in [D -> D], NEW h \in [D -> D],
               \A e \in D : m[e] < m[G] => g[e] = h[e]
        PROVE  step[<<G, g>>] = step[<<G, h>>]
    <3>1. CASE near(G) = {}
      <4> HIDE DEF near, next, D
      <4> QED BY <3>1
    <3>2. CASE near(G) # {}
      <4>1. Append(G, next(G)) \in D /\ m[Append(G, next(G))] < m[G] BY <3>2, <1>2
      <4>2. g[Append(G, next(G))] = h[Append(G, next(G))]
        <5> HIDE DEF near, next, D, m
        <5> QED BY <4>1, <2>2
      <4> HIDE DEF near, next, D
      <4> QED BY <3>2, <4>2
    <3> QED BY <3>1, <3>2
  <2>3. step \in [D \X [D -> D] -> D]
    <3>1. step = [p \in D \X [D -> D] |-> step[p]]
      OBVIOUS
    <3>2. \A p \in D \X [D -> D] : step[p] \in D
      <4> HIDE DEF step, D
      <4> QED BY <2>1
    <3> HIDE DEF step, D
    <3> QED BY <3>1, <3>2
  <2> HIDE DEF step, D, m
  <2> QED BY <2>2, <2>3, <1>3, <1>4 DEF Founded
<1>6. \E h : Solves(h)
  <2>1. PICK h : Recursive(h, D, D, step)
    <3> HIDE DEF step, D, m
    <3> QED BY <1>5, MeasureRecursion
  <2>2. h \in [D -> D] /\ \A G \in D : h[G] = step[<<G, h>>]
    BY <2>1 DEF Recursive
  <2>3. \A G \in D : h[G] = IF near(G) = {} THEN G ELSE h[Append(G, next(G))]
    <3> HIDE DEF near, next, D
    <3> QED BY <2>2
  <2>4. Solves(h)
    <3> HIDE DEF near, next, D
    <3> QED BY <2>2, <2>3
  <2> QED BY <2>4
<1>7. Solves(grown)
  <2> HIDE DEF Solves
  <2> QED BY <1>6
<1>8. Extend(x, seed, others) = grown[<<seed>>]
  BY DEF Extend
<1> DEFINE Ok(G) == IsInjective(G) /\ ToSet(G) \subseteq {seed} \cup others
           Good == {G \in D : Ok(G) => grown[G] \in Seq(Facets) /\ Ok(grown[G])}
<1> HIDE DEF grown
<1>9. ASSUME NEW G \in D, \A H \in D : m[H] < m[G] => H \in Good PROVE G \in Good
  <2> HIDE DEF m
  <2>1. SUFFICES ASSUME Ok(G) PROVE grown[G] \in Seq(Facets) /\ Ok(grown[G])
    OBVIOUS
  <2>2. grown[G] = IF near(G) = {} THEN G ELSE grown[Append(G, next(G))]
    <3> HIDE DEF near, next, D
    <3> QED BY <1>7
  <2>3. CASE near(G) = {}
    <3> HIDE DEF near, next
    <3> QED BY <2>1, <2>2, <2>3
  <2>4. CASE near(G) # {}
    <3> DEFINE H == Append(G, next(G))
    <3>1. /\ H \in D /\ next(G) \in others
          /\ ToSet(H) = ToSet(G) \cup {next(G)}
          /\ IsInjective(G) => IsInjective(H)
          /\ m[H] < m[G]
      BY <2>4, <1>2
    <3>2. H \in Good
      <4> HIDE DEF H, Good
      <4> QED BY <3>1, <1>9
    <3>3. Ok(H)
      <4> HIDE DEF H, next
      <4> QED BY <3>1, <2>1
    <3>4. grown[G] = grown[H]
      <4> HIDE DEF near, next
      <4> QED BY <2>2, <2>4
    <3> HIDE DEF H, Ok
    <3> QED BY <3>2, <3>3, <3>4
  <2> QED BY <2>3, <2>4
<1>10. D \subseteq Good
  <2> HIDE DEF D, m, Good
  <2> QED BY <1>3, <1>9, MeasureInduction
<1>11. Ok(<<seed>>)
  BY <1>4
<1> HIDE DEF D
<1> QED BY <1>4, <1>8, <1>10, <1>11

-----------------------------------------------------------------------------
(* Grow: compaction.                                                       *)

\* Every member of G lies within the assignment radius of the centroid of G.
Compact(x, G) == \A f \in ToSet(G) : Dist(x[f], Centroid(x, G)) <= AssignThreshold

\* CompactToRadius drops members until those that are left are compact.
LEMMA CompactMembers ==
    ASSUME NEW x \in Places, NEW G \in Seq(Facets)
    PROVE  LET H == CompactToRadius(x, G)
           IN  /\ H \in Seq(Facets) /\ ToSet(H) \subseteq ToSet(G)
               /\ IsInjective(G) => IsInjective(H)
               /\ Len(H) <= 1 \/ Compact(x, H)
<1> DEFINE D == Seq(Facets)
           outside(H) == {i \in DOMAIN H : Dist(x[H[i]], Centroid(x, H)) > AssignThreshold}
           worst(H) == Foremost(outside(H), LAMBDA i, j :
                          \/ Dist(x[H[i]], Centroid(x, H)) > Dist(x[H[j]], Centroid(x, H))
                          \/ /\ Dist(x[H[i]], Centroid(x, H)) = Dist(x[H[j]], Centroid(x, H))
                             /\ i < j)
           done(H) == Len(H) <= 1 \/ outside(H) = {}
           Solves(h) == h = [H \in D |-> IF Len(H) <= 1 \/ outside(H) = {} THEN H
                                         ELSE h[RemoveAt(H, worst(H))]]
           kept == CHOOSE h : Solves(h)
           m == [H \in D |-> Len(H)]
           step == [p \in D \X [D -> D] |->
                      IF done(p[1]) THEN p[1] ELSE p[2][RemoveAt(p[1], worst(p[1]))]]
<1>1. ASSUME NEW H \in D, ~done(H) PROVE worst(H) \in outside(H)
  <2> DEFINE c == Centroid(x, H)
             S == outside(H)
             d == [i \in S |-> -Dist(x[H[i]], c)]
             e == [i \in S |-> i]
  <2>1. c \in Int
    <3>1. H # <<>> BY <1>1, EmptySeq
    <3> QED BY <3>1, CentroidIsInteger
  <2>2. S \in SUBSET (1..Len(H)) /\ S # {} /\ Len(H) \in Nat
    BY <1>1, LenProperties
  <2>3. IsFiniteSet(S)
    <3>1. IsFiniteSet(1..Len(H)) BY <2>2, IntervalParts
    <3> HIDE DEF S
    <3> QED BY <2>2, <3>1, FS_Subset
  <2>4. \A i \in S : Dist(x[H[i]], c) \in Int /\ i \in Int
    <3>1. \A i \in S : x[H[i]] \in Int
      <4> HIDE DEF S
      <4> QED BY <2>2, ElementOfSeq DEF Places
    <3>2. \A i \in S : i \in Int
      <4> HIDE DEF S
      <4> QED BY <2>2
    <3>3. \A i \in S : Dist(x[H[i]], c) \in Nat
      <4> TAKE i \in S
      <4>1. x[H[i]] \in Int BY <3>1
      <4> HIDE DEF c, S
      <4> QED BY <4>1, <2>1, DistIsInteger
    <3> HIDE DEF c, S
    <3> QED BY <3>2, <3>3
  <2>5. d \in [S -> Int] /\ e \in [S -> Int] /\ IsInjective(e)
    <3> HIDE DEF c, S
    <3> QED BY <2>4 DEF IsInjective
  <2>6. \E a \in S : \A b \in S \ {a} : Ahead(d, e, a, b)
    <3> HIDE DEF S, d, e
    <3> QED BY <2>2, <2>3, <2>5, FirstByKeys
  <2>7. \A a, b \in S : Ahead(d, e, a, b) => \/ Dist(x[H[a]], c) > Dist(x[H[b]], c)
                                             \/ Dist(x[H[a]], c) = Dist(x[H[b]], c) /\ a < b
    <3> SUFFICES ASSUME NEW a \in S, NEW b \in S, Ahead(d, e, a, b)
                 PROVE  \/ Dist(x[H[a]], c) > Dist(x[H[b]], c)
                        \/ Dist(x[H[a]], c) = Dist(x[H[b]], c) /\ a < b
      OBVIOUS
    <3>1. d[a] = -Dist(x[H[a]], c) /\ d[b] = -Dist(x[H[b]], c) /\ e[a] = a /\ e[b] = b
      OBVIOUS
    <3>2. Dist(x[H[a]], c) \in Int /\ Dist(x[H[b]], c) \in Int
      BY <2>4
    <3> HIDE DEF d, e, S, c
    <3> QED BY <3>1, <3>2 DEF Ahead
  <2>8. \E a \in S : \A b \in S \ {a} : \/ Dist(x[H[a]], c) > Dist(x[H[b]], c)
                                        \/ Dist(x[H[a]], c) = Dist(x[H[b]], c) /\ a < b
    <3> HIDE DEF d, e, S, c
    <3> QED BY <2>6, <2>7
  <2> HIDE DEF outside
  <2> QED BY <2>8 DEF Foremost
<1>2. ASSUME NEW H \in D, ~done(H)
      PROVE  /\ RemoveAt(H, worst(H)) \in D
             /\ ToSet(RemoveAt(H, worst(H))) \subseteq ToSet(H)
             /\ IsInjective(H) => IsInjective(RemoveAt(H, worst(H)))
             /\ m[RemoveAt(H, worst(H))] < m[H]
  <2> DEFINE a == worst(H)
  <2>1. a \in DOMAIN H
    <3>1. a \in outside(H)
      <4> HIDE DEF outside, worst, done
      <4> QED BY <1>1, <1>2
    <3> HIDE DEF a
    <3> QED BY <3>1
  <2> HIDE DEF a
  <2>2. /\ RemoveAt(H, a) \in Seq(Facets) /\ Len(RemoveAt(H, a)) = Len(H) - 1
        /\ ToSet(RemoveAt(H, a)) \subseteq ToSet(H)
        /\ IsInjective(H) => IsInjective(RemoveAt(H, a))
    BY <2>1, RemoveAtMembers
  <2>3. m[RemoveAt(H, a)] = Len(H) - 1 /\ m[H] = Len(H) /\ Len(H) \in Nat
    BY <2>2, LenProperties
  <2>4. m[RemoveAt(H, a)] < m[H]
    <3> HIDE DEF m
    <3> QED BY <2>3
  <2> HIDE DEF m, worst
  <2> QED BY <2>2, <2>4 DEF a
<1>3. m \in [D -> Nat]
  BY LenProperties
<1>4. <<>> \in D
  OBVIOUS
<1>5. Founded(D, D, m, step)
  <2>1. \A H \in D, h \in [D -> D] : step[<<H, h>>] \in D
    <3> TAKE H \in D, h \in [D -> D]
    <3>1. CASE done(H)
      <4> HIDE DEF done, worst, D
      <4> QED BY <3>1
    <3>2. CASE ~done(H)
      <4>1. RemoveAt(H, worst(H)) \in D BY <3>2, <1>2
      <4> HIDE DEF done, worst, D
      <4> QED BY <3>2, <4>1
    <3> QED BY <3>1, <3>2
  <2>2. ASSUME NEW H \in D, NEW g \in [D -> D], NEW h \in [D -> D],
               \A e \in D : m[e] < m[H] => g[e] = h[e]
        PROVE  step[<<H, g>>] = step[<<H, h>>]
    <3>1. CASE done(H)
      <4> HIDE DEF done, worst, D
      <4> QED BY <3>1
    <3>2. CASE ~done(H)
      <4>1. RemoveAt(H, worst(H)) \in D /\ m[RemoveAt(H, worst(H))] < m[H] BY <3>2, <1>2
      <4>2. g[RemoveAt(H, worst(H))] = h[RemoveAt(H, worst(H))]
        <5> HIDE DEF worst, D, m
        <5> QED BY <4>1, <2>2
      <4> HIDE DEF done, worst, D
      <4> QED BY <3>2, <4>2
    <3> QED BY <3>1, <3>2
  <2>3. step \in [D \X [D -> D] -> D]
    <3>1. step = [p \in D \X [D -> D] |-> step[p]]
      OBVIOUS
    <3>2. \A p \in D \X [D -> D] : step[p] \in D
      <4> HIDE DEF step, D
      <4> QED BY <2>1
    <3> HIDE DEF step, D
    <3> QED BY <3>1, <3>2
  <2> HIDE DEF step, D, m
  <2> QED BY <2>2, <2>3, <1>3, <1>4 DEF Founded
<1>6. \E h : Solves(h)
  <2>1. PICK h : Recursive(h, D, D, step)
    <3> HIDE DEF step, D, m
    <3> QED BY <1>5, MeasureRecursion
  <2>2. h \in [D -> D] /\ \A H \in D : h[H] = step[<<H, h>>]
    BY <2>1 DEF Recursive
  <2>3. \A H \in D : h[H] = IF done(H) THEN H ELSE h[RemoveAt(H, worst(H))]
    <3> HIDE DEF done, worst, D
    <3> QED BY <2>2
  <2>4. Solves(h)
    <3> HIDE DEF outside, worst, D
    <3> QED BY <2>2, <2>3
  <2> QED BY <2>4
<1>7. Solves(kept)
  <2> HIDE DEF Solves
  <2> QED BY <1>6
<1>8. CompactToRadius(x, G) = kept[G]
  BY DEF CompactToRadius
<1> DEFINE Ok(H, K) == /\ ToSet(K) \subseteq ToSet(H)
                       /\ IsInjective(H) => IsInjective(K)
           Good == {H \in D : /\ kept[H] \in D /\ Ok(H, kept[H])
                              /\ Len(kept[H]) <= 1 \/ Compact(x, kept[H])}
<1> HIDE DEF kept
<1>9. ASSUME NEW H \in D, \A K \in D : m[K] < m[H] => K \in Good PROVE H \in Good
  <2> HIDE DEF m
  <2>2. kept[H] = IF done(H) THEN H ELSE kept[RemoveAt(H, worst(H))]
    <3> HIDE DEF outside, worst, D
    <3> QED BY <1>7
  <2>3. CASE done(H)
    <3>1. kept[H] = H
      <4> HIDE DEF done
      <4> QED BY <2>2, <2>3
    <3>2. Len(H) <= 1 \/ Compact(x, H)
      <4>1. ASSUME outside(H) = {} PROVE Compact(x, H)
        <5>1. Len(H) \in Nat /\ DOMAIN H = 1..Len(H) BY LenProperties
        <5>2. CASE H = <<>>
          BY <5>2 DEF Compact, ToSet
        <5>3. CASE H # <<>>
          <6>1. Centroid(x, H) \in Int BY <5>3, CentroidIsInteger
          <6>2. \A i \in DOMAIN H : Dist(x[H[i]], Centroid(x, H)) \in Int
            <7> TAKE i \in DOMAIN H
            <7>1. x[H[i]] \in Int BY <5>1, ElementOfSeq DEF Places
            <7>2. Dist(x[H[i]], Centroid(x, H)) \in Nat BY <7>1, <6>1, DistIsInteger
            <7> QED BY <7>2
          <6>3. AssignThreshold \in Int BY ThresholdsAssumption
          <6> QED BY <6>2, <6>3, <4>1 DEF Compact, ToSet
        <5> QED BY <5>2, <5>3
      <4> QED BY <2>3, <4>1
    <3> HIDE DEF D, done
    <3> QED BY <3>1, <3>2
  <2>4. CASE ~done(H)
    <3> DEFINE K == RemoveAt(H, worst(H))
    <3>1. /\ K \in D /\ ToSet(K) \subseteq ToSet(H)
          /\ IsInjective(H) => IsInjective(K)
          /\ m[K] < m[H]
      BY <2>4, <1>2
    <3>2. K \in Good
      <4> HIDE DEF K, Good
      <4> QED BY <3>1, <1>9
    <3>4. kept[H] = kept[K]
      <4> HIDE DEF done, worst
      <4> QED BY <2>2, <2>4
    <3> HIDE DEF K, D
    <3> QED BY <3>1, <3>2, <3>4
  <2> QED BY <2>3, <2>4
<1>10. D \subseteq Good
  <2> HIDE DEF D, m, Good
  <2> QED BY <1>3, <1>9, MeasureInduction
<1>11. G \in Good
  <2> HIDE DEF Good
  <2> QED BY <1>10
<1> QED BY <1>8, <1>11

-----------------------------------------------------------------------------
(* Grow: the groups.                                                       *)

\* A group grown from a seed is of the free facets, and compact.
LEMMA GroupAtMembers ==
    ASSUME NEW x \in Places, NEW free \in SUBSET Facets, NEW seed \in free
    PROVE  LET K == GroupAt(x, seed, free)
           IN  /\ K \in Seq(Facets) /\ IsInjective(K) /\ ToSet(K) \subseteq free
               /\ Len(K) <= 1 \/ Compact(x, K)
<1> DEFINE G == Extend(x, seed, free \ {seed})
<1>1. G \in Seq(Facets) /\ IsInjective(G) /\ ToSet(G) \subseteq {seed} \cup (free \ {seed})
  <2>1. seed \in Facets /\ free \ {seed} \in SUBSET Facets OBVIOUS
  <2> QED BY <2>1, ExtendMembers
<1> HIDE DEF G
<1>2. /\ CompactToRadius(x, G) \in Seq(Facets) /\ ToSet(CompactToRadius(x, G)) \subseteq ToSet(G)
      /\ IsInjective(G) => IsInjective(CompactToRadius(x, G))
      /\ Len(CompactToRadius(x, G)) <= 1 \/ Compact(x, CompactToRadius(x, G))
  BY <1>1, CompactMembers
<1>3. GroupAt(x, seed, free) = CompactToRadius(x, G)
  BY DEF GroupAt, G
<1> QED BY <1>1, <1>2, <1>3

\* A group that Grow may return: of P, of many signals, and compact.
Stands(x, K, P) ==
    /\ K \in Seq(Facets) /\ IsInjective(K) /\ ToSet(K) \subseteq P
    /\ DistinctIDs(K) >= MinStorySize
    /\ Compact(x, K)

Disjoint(Q) == \A i, j \in DOMAIN Q : i # j => ToSet(Q[i]) \cap ToSet(Q[j]) = {}

AllStand(x, Q, P) ==
    /\ Q \in Seq(Seq(Facets))
    /\ \A i \in DOMAIN Q : Stands(x, Q[i], P)
    /\ Disjoint(Q)

\* One more group ahead of groups among the rest.
LEMMA OneMoreStands ==
    ASSUME NEW x, NEW P, NEW K, Stands(x, K, P), NEW Q, AllStand(x, Q, P \ ToSet(K))
    PROVE  AllStand(x, <<K>> \o Q, P)
<1> DEFINE R == <<K>> \o Q
           n == Len(Q)
<1>1. K \in Seq(Facets) /\ <<K>> \in Seq(Seq(Facets)) /\ Len(<<K>>) = 1 /\ <<K>>[1] = K
  BY DEF Stands
<1>2. Q \in Seq(Seq(Facets)) /\ n \in Nat /\ DOMAIN Q = 1..n
  BY LenProperties DEF AllStand
<1>3. /\ R \in Seq(Seq(Facets)) /\ Len(R) = 1 + n
      /\ \A i \in 1..(1 + n) : R[i] = IF i <= 1 THEN <<K>>[i] ELSE Q[i - 1]
  <2>1. /\ <<K>> \o Q \in Seq(Seq(Facets)) /\ Len(<<K>> \o Q) = Len(<<K>>) + Len(Q)
        /\ \A i \in 1..(Len(<<K>>) + Len(Q)) :
              (<<K>> \o Q)[i] = IF i <= Len(<<K>>) THEN <<K>>[i] ELSE Q[i - Len(<<K>>)]
    BY <1>1, <1>2, ConcatProperties
  <2> QED BY <2>1, <1>1
<1>4. DOMAIN R = 1..(1 + n)
  BY <1>3, LenProperties
<1> HIDE DEF R, n
<1>5. R[1] = K /\ \A i \in DOMAIN R : i # 1 => i - 1 \in DOMAIN Q /\ R[i] = Q[i - 1]
  BY <1>1, <1>2, <1>3, <1>4
<1>6. ASSUME NEW i \in DOMAIN R PROVE Stands(x, R[i], P)
  <2>1. CASE i = 1 BY <2>1, <1>5
  <2>2. CASE i # 1
    <3>1. Stands(x, R[i], P \ ToSet(K)) BY <2>2, <1>5 DEF AllStand
    <3> QED BY <3>1 DEF Stands
  <2> QED BY <2>1, <2>2
<1>7. \A i \in DOMAIN R : i # 1 => ToSet(R[i]) \cap ToSet(R[1]) = {}
  <2> TAKE i \in DOMAIN R
  <2> HAVE i # 1
  <2>1. ToSet(R[i]) \subseteq P \ ToSet(K) BY <1>5 DEF AllStand, Stands
  <2> QED BY <2>1, <1>5
<1>8. Disjoint(R)
  <2> SUFFICES ASSUME NEW i \in DOMAIN R, NEW j \in DOMAIN R, i # j
               PROVE  ToSet(R[i]) \cap ToSet(R[j]) = {}
    BY DEF Disjoint
  <2>1. CASE i = 1 BY <2>1, <1>7
  <2>2. CASE j = 1 BY <2>2, <1>7
  <2>3. CASE i # 1 /\ j # 1
    <3>1. i - 1 \in DOMAIN Q /\ j - 1 \in DOMAIN Q /\ i - 1 # j - 1
      BY <2>3, <1>4, <1>5
    <3>2. R[i] = Q[i - 1] /\ R[j] = Q[j - 1]
      BY <2>3, <1>5
    <3> QED BY <3>1, <3>2 DEF AllStand, Disjoint
  <2> QED BY <2>1, <2>2, <2>3
<1> QED BY <1>3, <1>6, <1>8 DEF AllStand, R

\* The groups that Groups finds stand.
LEMMA GroupsStand ==
    ASSUME NEW x \in Places, NEW P \in SUBSET Facets
    PROVE  AllStand(x, Groups(x, P), P)
<1> DEFINE D == SUBSET P
           V == Seq(Seq(Facets))
           deg(free) == [f \in free |-> Degree(x, P, f)]
           seed(free) == Foremost(free, LAMBDA f, g :
                            \/ deg(free)[f] > deg(free)[g]
                            \/ deg(free)[f] = deg(free)[g] /\ f < g)
           group(free) == GroupAt(x, seed(free), free)
           stop(free) == free = {} \/ deg(free)[seed(free)] < MinStorySize - 1
           small(free) == DistinctIDs(group(free)) < MinStorySize
           body(h, free) ==
               IF free = {} THEN <<>>
               ELSE IF deg(free)[seed(free)] < MinStorySize - 1 THEN <<>>
               ELSE IF DistinctIDs(group(free)) < MinStorySize THEN h[free \ {seed(free)}]
               ELSE <<group(free)>> \o h[free \ ToSet(group(free))]
           Solves(h) == h = [free \in D |-> body(h, free)]
           grow == CHOOSE h : Solves(h)
           m == [free \in D |-> Cardinality(free)]
           step == [p \in D \X [D -> V] |-> body(p[2], p[1])]
<1>1. ASSUME NEW free \in D, free # {} PROVE seed(free) \in free
  <2> DEFINE d == [f \in free |-> -deg(free)[f]]
             e == [f \in free |-> f]
  <2>1. IsFiniteSet(free) /\ free \subseteq Nat
    BY SubsetsFinite
  <2>2. \A f \in free : deg(free)[f] \in Nat
    <3> TAKE f \in free
    <3> DEFINE N == {g \in P \ {f} : Dist(x[f], x[g]) <= AssignThreshold}
    <3>1. N \in SUBSET Facets OBVIOUS
    <3>2. Cardinality(N) \in Nat
      <4> HIDE DEF N
      <4> QED BY <3>1, SubsetsFinite
    <3> QED BY <3>2 DEF Degree
  <2> HIDE DEF deg
  <2>3. d \in [free -> Int] /\ e \in [free -> Int] /\ IsInjective(e)
    BY <2>1, <2>2 DEF IsInjective
  <2>4. \E a \in free : \A b \in free \ {a} : Ahead(d, e, a, b)
    <3> HIDE DEF d, e
    <3> QED BY <1>1, <2>1, <2>3, FirstByKeys
  <2>5. \A a, b \in free : Ahead(d, e, a, b) => \/ deg(free)[a] > deg(free)[b]
                                                \/ deg(free)[a] = deg(free)[b] /\ a < b
    <3> SUFFICES ASSUME NEW a \in free, NEW b \in free, Ahead(d, e, a, b)
                 PROVE  \/ deg(free)[a] > deg(free)[b]
                        \/ deg(free)[a] = deg(free)[b] /\ a < b
      OBVIOUS
    <3>1. d[a] = -deg(free)[a] /\ d[b] = -deg(free)[b] /\ e[a] = a /\ e[b] = b
      OBVIOUS
    <3> HIDE DEF d, e
    <3> QED BY <3>1, <2>2 DEF Ahead
  <2>6. \E a \in free : \A b \in free \ {a} : \/ deg(free)[a] > deg(free)[b]
                                              \/ deg(free)[a] = deg(free)[b] /\ a < b
    <3> HIDE DEF d, e
    <3> QED BY <2>4, <2>5
  <2> QED BY <2>6 DEF Foremost
<1> HIDE DEF deg, seed
<1>2. ASSUME NEW free \in D, ~stop(free)
      PROVE  /\ seed(free) \in free
             /\ group(free) \in Seq(Facets) /\ IsInjective(group(free))
             /\ ToSet(group(free)) \subseteq free
             /\ Len(group(free)) <= 1 \/ Compact(x, group(free))
  <2>1. seed(free) \in free /\ free \in SUBSET Facets BY <1>1, <1>2
  <2> QED BY <2>1, GroupAtMembers
<1>3. ASSUME NEW free \in D, NEW less \in SUBSET free, less # {}
      PROVE  free \ less \in D /\ m[free \ less] < m[free]
  <2>1. IsFiniteSet(free) /\ Cardinality(free) \in Nat
    BY SubsetsFinite
  <2>2. free \ less \in SUBSET free /\ free \ less # free /\ free \ less \in D
    BY <1>3
  <2>3. /\ IsFiniteSet(free \ less)
        /\ Cardinality(free \ less) <= Cardinality(free)
        /\ Cardinality(free) = Cardinality(free \ less) => free = free \ less
    BY <2>1, <2>2, FS_Subset
  <2>4. Cardinality(free \ less) \in Nat
    BY <2>3, FS_CardinalityType
  <2>5. Cardinality(free \ less) < Cardinality(free)
    BY <2>1, <2>2, <2>3, <2>4
  <2> QED BY <2>2, <2>5
<1>4. m \in [D -> Nat]
  <2>1. \A free \in D : Cardinality(free) \in Nat BY SubsetsFinite
  <2> QED BY <2>1
<1> HIDE DEF group
<1>5. ASSUME NEW free \in D, ~stop(free), ~small(free)
      PROVE  Stands(x, group(free), free) /\ ToSet(group(free)) # {}
  <2> DEFINE K == group(free)
  <2>1. /\ K \in Seq(Facets) /\ IsInjective(K) /\ ToSet(K) \subseteq free
        /\ Len(K) <= 1 \/ Compact(x, K)
    BY <1>5, <1>2
  <2>2. /\ DistinctIDs(K) \in Nat /\ DistinctIDs(K) <= Len(K) /\ Len(K) \in Nat
    BY <2>1, DistinctIDsCount
  <2>3. DistinctIDs(K) >= MinStorySize /\ MinStorySize \in Nat /\ MinStorySize >= 2
    BY <1>5, <2>2, ThresholdsAssumption
  <2> HIDE DEF K
  <2>4. Len(K) >= 2
    BY <2>2, <2>3
  <2>5. Compact(x, K) /\ K # <<>>
    BY <2>1, <2>2, <2>4, EmptySeq
  <2>6. ToSet(K) # {}
    BY <2>1, <2>5, SeqCount
  <2> QED BY <2>1, <2>3, <2>5, <2>6 DEF Stands, K
<1>6. ASSUME NEW free \in D, ~stop(free)
      PROVE  /\ small(free) => /\ free \ {seed(free)} \in D
                               /\ m[free \ {seed(free)}] < m[free]
             /\ ~small(free) => /\ free \ ToSet(group(free)) \in D
                                /\ m[free \ ToSet(group(free))] < m[free]
  <2>1. {seed(free)} \in SUBSET free /\ {seed(free)} # {}
    BY <1>6, <1>2
  <2>2. ToSet(group(free)) \in SUBSET free
    BY <1>6, <1>2
  <2>3. ~small(free) => ToSet(group(free)) # {}
    BY <1>6, <1>5
  <2> HIDE DEF D, m, small, stop
  <2> QED BY <2>1, <2>2, <2>3, <1>3
<1>7. ASSUME NEW free \in D, ~stop(free), NEW Q \in V
      PROVE  <<group(free)>> \o Q \in V
  <2>1. <<group(free)>> \in Seq(Seq(Facets)) BY <1>7, <1>2
  <2> QED BY <2>1, ConcatProperties
<1>8. \A h : \A free : body(h, free) =
               IF stop(free) THEN <<>>
               ELSE IF small(free) THEN h[free \ {seed(free)}]
               ELSE <<group(free)>> \o h[free \ ToSet(group(free))]
  OBVIOUS
<1> HIDE DEF body
<1>9. Founded(D, V, m, step)
  <2> HIDE DEF stop, small, m
  <2>1. ASSUME NEW free \in D, NEW h \in [D -> V] PROVE step[<<free, h>>] \in V
    <3>1. CASE stop(free)
      <4>1. step[<<free, h>>] = <<>>
        <5> HIDE DEF D, V
        <5> QED BY <3>1, <1>8
      <4>2. <<>> \in V OBVIOUS
      <4> HIDE DEF step, V
      <4> QED BY <4>1, <4>2
    <3>2. CASE ~stop(free) /\ small(free)
      <4>1. free \ {seed(free)} \in D BY <3>2, <1>6
      <4> HIDE DEF D, V
      <4> QED BY <3>2, <4>1, <1>8
    <3>3. CASE ~stop(free) /\ ~small(free)
      <4>1. free \ ToSet(group(free)) \in D BY <3>3, <1>6
      <4>2. h[free \ ToSet(group(free))] \in V
        <5> HIDE DEF D, V
        <5> QED BY <4>1
      <4>3. <<group(free)>> \o h[free \ ToSet(group(free))] \in V
        BY <3>3, <4>2, <1>7
      <4> HIDE DEF D, V
      <4> QED BY <3>3, <4>3, <1>8
    <3> QED BY <3>1, <3>2, <3>3
  <2>2. ASSUME NEW free \in D, NEW g \in [D -> V], NEW h \in [D -> V],
               \A e \in D : m[e] < m[free] => g[e] = h[e]
        PROVE  step[<<free, g>>] = step[<<free, h>>]
    <3>1. CASE stop(free)
      <4> HIDE DEF D, V
      <4> QED BY <3>1, <1>8
    <3>2. CASE ~stop(free) /\ small(free)
      <4>1. free \ {seed(free)} \in D /\ m[free \ {seed(free)}] < m[free] BY <3>2, <1>6
      <4>2. g[free \ {seed(free)}] = h[free \ {seed(free)}]
        <5> HIDE DEF D, V
        <5> QED BY <4>1, <2>2
      <4> HIDE DEF D, V
      <4> QED BY <3>2, <4>2, <1>8
    <3>3. CASE ~stop(free) /\ ~small(free)
      <4>1. /\ free \ ToSet(group(free)) \in D
            /\ m[free \ ToSet(group(free))] < m[free]
        BY <3>3, <1>6
      <4>2. g[free \ ToSet(group(free))] = h[free \ ToSet(group(free))]
        <5> HIDE DEF D, V
        <5> QED BY <4>1, <2>2
      <4> HIDE DEF D, V
      <4> QED BY <3>3, <4>2, <1>8
    <3> QED BY <3>1, <3>2, <3>3
  <2>3. step \in [D \X [D -> V] -> V]
    <3>1. step = [p \in D \X [D -> V] |-> step[p]]
      OBVIOUS
    <3>2. \A p \in D \X [D -> V] : step[p] \in V
      <4> HIDE DEF step, D, V
      <4> QED BY <2>1
    <3> HIDE DEF step, D, V
    <3> QED BY <3>1, <3>2
  <2>4. <<>> \in V OBVIOUS
  <2> HIDE DEF step, D, V
  <2> QED BY <2>2, <2>3, <2>4, <1>4 DEF Founded
<1>10. \E h : Solves(h)
  <2>1. PICK h : Recursive(h, D, V, step)
    <3> HIDE DEF step, D, V, m
    <3> QED BY <1>9, MeasureRecursion
  <2>2. h \in [D -> V] /\ \A free \in D : h[free] = step[<<free, h>>]
    BY <2>1 DEF Recursive
  <2>3. \A free \in D : h[free] = body(h, free)
    <3> HIDE DEF D, V
    <3> QED BY <2>2
  <2>4. Solves(h)
    <3> HIDE DEF D, V
    <3> QED BY <2>2, <2>3
  <2> QED BY <2>4
<1>11. Solves(grow)
  <2> HIDE DEF Solves
  <2> QED BY <1>10
<1>12. Groups(x, P) = grow[P]
  BY DEF Groups, body, seed, deg, group
<1> HIDE DEF grow
<1> DEFINE Good == {free \in D : AllStand(x, grow[free], free)}
<1>13. ASSUME NEW free \in D, \A e \in D : m[e] < m[free] => e \in Good PROVE free \in Good
  <2>1. grow[free] =
               IF stop(free) THEN <<>>
               ELSE IF small(free) THEN grow[free \ {seed(free)}]
               ELSE <<group(free)>> \o grow[free \ ToSet(group(free))]
    <3>1. grow[free] = body(grow, free)
      <4> HIDE DEF D
      <4> QED BY <1>11
    <3> QED BY <3>1, <1>8
  <2> HIDE DEF m, stop, small
  <2>2. CASE stop(free)
    <3>1. grow[free] = <<>> BY <2>1, <2>2
    <3>2. AllStand(x, <<>>, free) BY DEF AllStand, Disjoint
    <3> QED BY <3>1, <3>2
  <2>3. CASE ~stop(free) /\ small(free)
    <3>1. free \ {seed(free)} \in Good
      <4> HIDE DEF D, Good
      <4> QED BY <2>3, <1>6, <1>13
    <3>2. AllStand(x, grow[free], free \ {seed(free)}) BY <3>1, <2>1, <2>3
    <3>3. AllStand(x, grow[free], free) BY <3>2 DEF AllStand, Stands
    <3> QED BY <3>3
  <2>4. CASE ~stop(free) /\ ~small(free)
    <3>1. free \ ToSet(group(free)) \in Good
      <4> HIDE DEF D, Good
      <4> QED BY <2>4, <1>6, <1>13
    <3>2. AllStand(x, grow[free \ ToSet(group(free))], free \ ToSet(group(free))) BY <3>1
    <3>3. Stands(x, group(free), free) BY <2>4, <1>5
    <3>4. AllStand(x, grow[free], free) BY <3>2, <3>3, <2>1, <2>4, OneMoreStands
    <3> QED BY <3>4
  <2> QED BY <2>2, <2>3, <2>4
<1>14. D \subseteq Good
  <2> HIDE DEF D, m, Good
  <2> QED BY <1>4, <1>13, MeasureInduction
<1> QED BY <1>12, <1>14

\* The groups Grow returns are of the facets it is given, of many signals each
\* and compact, and no facet is in two of them (growFrom, compactToRadius).
THEOREM GrowStands ==
    ASSUME NEW x \in Places, NEW P \in SUBSET Facets
    PROVE  AllStand(x, Grow(x, P), P)
<1>1. AllStand(x, <<>>, P)
  BY DEF AllStand, Disjoint
<1> QED BY <1>1, GroupsStand DEF Grow

-----------------------------------------------------------------------------
(* Split.                                                                  *)

\* A cut of G: what lies in a set, and what does not.
CutsOf(G) == {<<Within(G, P), Within(G, ToSet(G) \ P)>> : P \in SUBSET ToSet(G)}

\* The two sides of a group are a cut of it.
LEMMA SidesCut ==
    ASSUME NEW x, NEW G, NEW a, NEW b
    PROVE  Sides(x, G, a, b) \in CutsOf(G)
<1> DEFINE P == {f \in ToSet(G) : Dist(x[f], x[a]) <= Dist(x[f], x[b])}
<1>1. P \in SUBSET ToSet(G)
  OBVIOUS
<1>2. Sides(x, G, a, b) = <<Within(G, P), Within(G, ToSet(G) \ P)>>
  BY DEF Sides
<1> HIDE DEF P
<1> QED BY <1>1, <1>2 DEF CutsOf

\* Whatever the rounds do, they end with a cut.
LEMMA PartsCut ==
    ASSUME NEW x, NEW G, NEW a, NEW b
    PROVE  Parts(x, G, a, b) \in CutsOf(G)
<1> DEFINE D == 1..10
           V == CutsOf(G)
           after(sides) == IF <<>> \in ToSet(sides) THEN sides
                           ELSE Sides(x, G, MedoidOf(x, sides[1]), MedoidOf(x, sides[2]))
           body(h, n) == IF n = 1 THEN Sides(x, G, a, b) ELSE after(h[n - 1])
           Solves(h) == h = [n \in D |-> body(h, n)]
           round == CHOOSE h : Solves(h)
           m == [n \in D |-> n]
           step == [p \in D \X [D -> V] |-> body(p[2], p[1])]
<1>1. \A sides \in V : after(sides) \in V
  <2> HIDE DEF V
  <2> QED BY SidesCut DEF V
<1>2. Sides(x, G, a, b) \in V
  BY SidesCut
<1> HIDE DEF V, after
<1>3. ASSUME NEW n \in D, NEW h, n # 1 => h[n - 1] \in V
      PROVE  body(h, n) \in V
  BY <1>1, <1>2, <1>3
<1>4. m \in [D -> Nat] /\ \A n \in D : n # 1 => n - 1 \in D /\ m[n - 1] < m[n]
  OBVIOUS
<1>5. Founded(D, V, m, step)
  <2>1. ASSUME NEW n \in D, NEW h \in [D -> V] PROVE step[<<n, h>>] \in V
    <3>1. n # 1 => h[n - 1] \in V BY <1>4
    <3>2. body(h, n) \in V BY <3>1, <1>3
    <3> HIDE DEF body, D
    <3> QED BY <3>2
  <2>2. ASSUME NEW n \in D, NEW g \in [D -> V], NEW h \in [D -> V],
               \A e \in D : m[e] < m[n] => g[e] = h[e]
        PROVE  step[<<n, g>>] = step[<<n, h>>]
    <3>1. n # 1 => g[n - 1] = h[n - 1]
      <4> HIDE DEF m, D
      <4> QED BY <1>4, <2>2
    <3>2. body(g, n) = body(h, n) BY <3>1
    <3> HIDE DEF body, D
    <3> QED BY <3>2
  <2>3. step \in [D \X [D -> V] -> V]
    <3>1. step = [p \in D \X [D -> V] |-> step[p]]
      OBVIOUS
    <3>2. \A p \in D \X [D -> V] : step[p] \in V
      <4> HIDE DEF step, D
      <4> QED BY <2>1
    <3> HIDE DEF step, D
    <3> QED BY <3>1, <3>2
  <2> HIDE DEF step, D, m
  <2> QED BY <2>2, <2>3, <1>2, <1>4 DEF Founded
<1>6. \E h : Solves(h)
  <2>1. PICK h : Recursive(h, D, V, step)
    <3> HIDE DEF step, D, m
    <3> QED BY <1>5, MeasureRecursion
  <2>2. h \in [D -> V] /\ \A n \in D : h[n] = step[<<n, h>>]
    BY <2>1 DEF Recursive
  <2>3. \A n \in D : h[n] = body(h, n)
    <3> HIDE DEF D, body
    <3> QED BY <2>2
  <2>4. Solves(h)
    <3> HIDE DEF D, body
    <3> QED BY <2>2, <2>3
  <2> QED BY <2>4
<1>7. Solves(round)
  <2> HIDE DEF Solves
  <2> QED BY <1>6
<1>8. Parts(x, G, a, b) = round[10]
  BY DEF Parts, after
<1> HIDE DEF round
<1> DEFINE Good == {n \in D : round[n] \in V}
<1>9. ASSUME NEW n \in D, \A e \in D : m[e] < m[n] => e \in Good PROVE n \in Good
  <2>1. round[n] = body(round, n)
    <3> HIDE DEF D, body
    <3> QED BY <1>7
  <2>2. n # 1 => n - 1 \in Good
    <3> HIDE DEF D, m, Good
    <3> QED BY <1>4, <1>9
  <2>3. n # 1 => round[n - 1] \in V
    BY <2>2
  <2>4. body(round, n) \in V
    BY <2>3, <1>3
  <2> QED BY <2>1, <2>4
<1>10. D \subseteq Good
  <2> HIDE DEF D, m, Good
  <2> QED BY <1>4, <1>9, MeasureInduction
<1>11. 10 \in Good
  BY <1>10
<1> QED BY <1>8, <1>11 DEF V

\* A cut shares the members of a group out.
LEMMA CutMembers ==
    ASSUME NEW G \in Seq(Facets), NEW cut \in CutsOf(G)
    PROVE  /\ cut = <<cut[1], cut[2]>>
           /\ cut[1] \in Seq(Facets) /\ cut[2] \in Seq(Facets)
           /\ IsInjective(G) => IsInjective(cut[1]) /\ IsInjective(cut[2])
           /\ ToSet(cut[1]) \cup ToSet(cut[2]) = ToSet(G)
           /\ ToSet(cut[1]) \cap ToSet(cut[2]) = {}
<1>1. PICK P \in SUBSET ToSet(G) : cut = <<Within(G, P), Within(G, ToSet(G) \ P)>>
  BY DEF CutsOf
<1> DEFINE l == Within(G, P)
           r == Within(G, ToSet(G) \ P)
<1>2. l \in Seq(Facets) /\ ToSet(l) = ToSet(G) \cap P /\ (IsInjective(G) => IsInjective(l))
  BY WithinMembers
<1>3. /\ r \in Seq(Facets) /\ ToSet(r) = ToSet(G) \cap (ToSet(G) \ P)
      /\ IsInjective(G) => IsInjective(r)
  BY WithinMembers
<1>4. cut = <<l, r>> /\ cut[1] = l /\ cut[2] = r
  BY <1>1
<1> HIDE DEF l, r
<1> QED BY <1>2, <1>3, <1>4

\* What Split divides it divides into two parts, each of many signals, and the
\* story keeps the one with more facets (the checks at the end of Split).
THEOREM DivisionParts ==
    ASSUME NEW x, NEW G \in Seq(Facets), Division(x, G) # Whole
    PROVE  LET p == Division(x, G)
           IN  /\ p[1] \in Seq(Facets) /\ p[2] \in Seq(Facets)
               /\ IsInjective(G) => IsInjective(p[1]) /\ IsInjective(p[2])
               /\ ToSet(p[1]) \cup ToSet(p[2]) = ToSet(G)
               /\ ToSet(p[1]) \cap ToSet(p[2]) = {}
               /\ DistinctIDs(p[1]) >= MinStorySize /\ DistinctIDs(p[2]) >= MinStorySize
               /\ Len(p[1]) >= Len(p[2])
<1> DEFINE s == TwoMedoids(x, G)
           parts == Parts(x, G, G[s[1]], G[s[2]])
           swap == \/ Len(parts[2]) > Len(parts[1])
                   \/ Len(parts[2]) = Len(parts[1]) /\ Earliest(parts[2]) < Earliest(parts[1])
<1>1. parts \in CutsOf(G)
  BY PartsCut
<1>2. Division(x, G) = IF ~MayDivide(x, G) THEN Whole
                       ELSE IF ~Apart(x, parts[1], parts[2]) THEN Whole
                       ELSE IF swap THEN <<parts[2], parts[1]>> ELSE <<parts[1], parts[2]>>
  BY DEF Division
<1> HIDE DEF parts
<1>3. Apart(x, parts[1], parts[2])
  BY <1>2
<1>4. DistinctIDs(parts[1]) >= MinStorySize /\ DistinctIDs(parts[2]) >= MinStorySize
  BY <1>3 DEF Apart
<1>5. /\ parts[1] \in Seq(Facets) /\ parts[2] \in Seq(Facets)
      /\ IsInjective(G) => IsInjective(parts[1]) /\ IsInjective(parts[2])
      /\ ToSet(parts[1]) \cup ToSet(parts[2]) = ToSet(G)
      /\ ToSet(parts[1]) \cap ToSet(parts[2]) = {}
  BY <1>1, CutMembers
<1>6. swap => Len(parts[2]) >= Len(parts[1])
  BY <1>5
<1>7. ~swap => Len(parts[1]) >= Len(parts[2])
  BY <1>5
<1> HIDE DEF swap
<1>8. CASE swap
  <2>1. Division(x, G) = <<parts[2], parts[1]>> BY <1>2, <1>8
  <2> QED BY <2>1, <1>4, <1>5, <1>6, <1>8
<1>9. CASE ~swap
  <2>1. Division(x, G) = <<parts[1], parts[2]>> BY <1>2, <1>9
  <2> QED BY <2>1, <1>4, <1>5, <1>7, <1>9
<1> QED BY <1>8, <1>9

\* Two steps of at most r each are no further than four r.
LEMMA SquareOfSum ==
    ASSUME NEW u \in Int, NEW v \in Int, NEW r \in Int, u * u <= r, v * v <= r
    PROVE  (u + v) * (u + v) <= 4 * r
<1>1. (u - v) * (u - v) >= 0
  OBVIOUS
<1>2. (u - v) * (u - v) = u * u - 2 * (u * v) + v * v /\ u * v \in Int
  OBVIOUS
<1>3. (u + v) * (u + v) = u * u + 2 * (u * v) + v * v
  OBVIOUS
<1> QED BY <1>1, <1>2, <1>3

\* Two numbers of an interval are no further apart than its ends.
LEMMA SquareOfDifference ==
    ASSUME NEW lo \in Int, NEW hi \in Int, NEW a \in lo..hi, NEW b \in lo..hi
    PROVE  (a - b) * (a - b) <= (hi - lo) * (hi - lo)
<1>1. /\ hi - lo \in Nat /\ a - b \in Int
      /\ a - b <= hi - lo /\ -(hi - lo) <= a - b
  OBVIOUS
<1>2. \A w \in Nat, z \in Int : z <= w /\ -w <= z => z * z <= w * w
  <2> TAKE w \in Nat, z \in Int
  <2> HAVE z <= w /\ -w <= z
  <2>1. (w - z) * (w + z) >= 0
    <3>1. \A p, q \in Nat : p * q >= 0 OBVIOUS
    <3>2. w - z \in Nat /\ w + z \in Nat OBVIOUS
    <3> QED BY <3>1, <3>2
  <2>2. (w - z) * (w + z) = w * w - z * z
    OBVIOUS
  <2> QED BY <2>1, <2>2
<1> QED BY <1>1, <1>2

\* No cut of a group that fails a gate is apart.
THEOREM GatesSound ==
    ASSUME NEW x \in Places, NEW G \in Seq(Facets), IsInjective(G), ~MayDivide(x, G),
           NEW left \in Seq(Facets), NEW right \in Seq(Facets),
           IsInjective(left), IsInjective(right),
           ToSet(left) \subseteq ToSet(G), ToSet(right) \subseteq ToSet(G),
           ToSet(left) \cap ToSet(right) = {}
    PROVE  ~Apart(x, left, right)
<1> SUFFICES ASSUME Apart(x, left, right) PROVE FALSE
  OBVIOUS
<1>1. MinStorySize \in Nat /\ MinStorySize >= 2 /\ SplitThreshold \in Nat
  BY ThresholdsAssumption
<1>2. /\ DistinctIDs(left) >= MinStorySize /\ DistinctIDs(right) >= MinStorySize
      /\ Dist(Centroid(x, left), Centroid(x, right)) > SplitThreshold
  BY DEF Apart
<1>3. /\ DistinctIDs(left) \in Nat /\ DistinctIDs(left) <= Len(left) /\ Len(left) \in Nat
      /\ DistinctIDs(right) \in Nat /\ DistinctIDs(right) <= Len(right) /\ Len(right) \in Nat
      /\ Len(G) \in Nat
  BY DistinctIDsCount
<1>4. Len(left) >= MinStorySize /\ Len(right) >= MinStorySize
  BY <1>1, <1>2, <1>3
<1>5. left # <<>> /\ right # <<>>
  BY <1>1, <1>4, EmptySeq
<1>6. Len(left) + Len(right) <= Len(G)
  <2>1. /\ IsFiniteSet(ToSet(left)) /\ Cardinality(ToSet(left)) = Len(left)
        /\ IsFiniteSet(ToSet(right)) /\ Cardinality(ToSet(right)) = Len(right)
        /\ IsFiniteSet(ToSet(G)) /\ Cardinality(ToSet(G)) = Len(G)
    BY SeqCount
  <2>2. Cardinality(ToSet(left) \cap ToSet(right)) = 0
    BY FS_EmptySet
  <2>3. Cardinality(ToSet(left) \cup ToSet(right)) = Len(left) + Len(right) - 0
    BY <2>1, <2>2, FS_Union
  <2>4. ToSet(left) \cup ToSet(right) \in SUBSET ToSet(G)
    OBVIOUS
  <2>5. Cardinality(ToSet(left) \cup ToSet(right)) <= Len(G)
    BY <2>1, <2>4, FS_Subset
  <2> QED BY <2>3, <2>5, <1>3
<1>7. Len(G) >= 2 * MinStorySize
  BY <1>1, <1>3, <1>4, <1>6
<1> DEFINE S == ToSet(G)
           c == Centroid(x, G)
           r == Radius(x, G)
<1>8. /\ IsFiniteSet(S) /\ S # {} /\ S \subseteq Facets /\ S \subseteq Nat
      /\ G # <<>>
  <2>1. IsFiniteSet(S) /\ S \subseteq Facets BY SeqCount
  <2>2. ToSet(left) # {} BY <1>5, SeqCount
  <2>3. S # {} BY <2>2
  <2>4. G # <<>> BY <2>3, SeqCount
  <2> QED BY <2>1, <2>3, <2>4, FacetsAssumption
<1>9. c \in Int /\ r \in Nat /\ \A f \in S : Dist(x[f], c) <= r
  BY <1>8, CentroidIsInteger, RadiusCovers
<1>10. 4 * r <= SplitThreshold
  <2>1. ~(MaxAngularSeparation(Radius(x, G)) > SplitThreshold)
    BY <1>7 DEF MayDivide
  <2> QED BY <2>1, <1>9, <1>1 DEF MaxAngularSeparation
<1> HIDE DEF S, c, r
<1>11. \A f \in S : x[f] \in Int
  BY <1>8 DEF Places
<1>12. PICK p \in S : \A q \in S : x[p] <= x[q]
  <2> DEFINE d == [f \in S |-> x[f]]
             e == [f \in S |-> f]
  <2>1. d \in [S -> Int] /\ e \in [S -> Int] /\ IsInjective(e)
    BY <1>8, <1>11 DEF IsInjective
  <2>2. PICK p \in S : \A q \in S \ {p} : Ahead(d, e, p, q)
    <3> HIDE DEF d, e
    <3> QED BY <2>1, <1>8, FirstByKeys
  <2>3. \A q \in S : x[p] <= x[q]
    BY <2>2, <1>11 DEF Ahead
  <2> QED BY <2>3
<1>13. PICK t \in S : \A q \in S : x[q] <= x[t]
  <2> DEFINE d == [f \in S |-> -x[f]]
             e == [f \in S |-> f]
  <2>1. d \in [S -> Int] /\ e \in [S -> Int] /\ IsInjective(e)
    BY <1>8, <1>11 DEF IsInjective
  <2>2. PICK t \in S : \A q \in S \ {t} : Ahead(d, e, t, q)
    <3> HIDE DEF d, e
    <3> QED BY <2>1, <1>8, FirstByKeys
  <2>3. \A q \in S : x[q] <= x[t]
    BY <2>2, <1>11 DEF Ahead
  <2> QED BY <2>3
<1> DEFINE lo == x[p]
           hi == x[t]
<1>14. lo \in Int /\ hi \in Int /\ \A f \in S : x[f] \in lo..hi
  BY <1>11, <1>12, <1>13
<1>15. Centroid(x, left) \in lo..hi /\ Centroid(x, right) \in lo..hi
  <2>1. (\A f \in ToSet(left) : x[f] \in lo..hi) /\ (\A f \in ToSet(right) : x[f] \in lo..hi)
    BY <1>14 DEF S
  <2> HIDE DEF lo, hi
  <2> QED BY <2>1, <1>5, <1>14, CentroidBetween
<1>16. (hi - c) * (hi - c) <= r /\ (c - lo) * (c - lo) <= r
  <2>1. Dist(hi, c) <= r /\ Dist(lo, c) <= r
    BY <1>9, <1>12, <1>13
  <2>2. (lo - c) * (lo - c) = (c - lo) * (c - lo)
    BY <1>9, <1>14
  <2> HIDE DEF lo, hi
  <2> QED BY <2>1, <2>2 DEF Dist
<1> HIDE DEF lo, hi
<1>17. (hi - lo) * (hi - lo) <= 4 * r
  <2>1. hi - c \in Int /\ c - lo \in Int /\ r \in Int
    BY <1>9, <1>14
  <2>2. ((hi - c) + (c - lo)) * ((hi - c) + (c - lo)) <= 4 * r
    BY <2>1, <1>16, SquareOfSum
  <2>3. (hi - c) + (c - lo) = hi - lo
    BY <1>9, <1>14
  <2> QED BY <2>2, <2>3
<1> DEFINE a == Centroid(x, left)
           b == Centroid(x, right)
<1>18. (a - b) * (a - b) <= (hi - lo) * (hi - lo)
  <2>1. a \in lo..hi /\ b \in lo..hi BY <1>15
  <2> HIDE DEF a, b
  <2> QED BY <2>1, <1>14, SquareOfDifference
<1>19. (a - b) * (a - b) > SplitThreshold
  BY <1>2 DEF Dist
<1>20. a \in Int /\ b \in Int
  BY <1>14, <1>15
<1> HIDE DEF a, b
<1>21. (a - b) * (a - b) \in Int /\ (hi - lo) * (hi - lo) \in Int
  BY <1>14, <1>20
<1> QED BY <1>1, <1>9, <1>10, <1>17, <1>18, <1>19, <1>21

-----------------------------------------------------------------------------
(* PlanMerges: lists of stories.                                           *)

\* A sequence is one of any set that holds its members.
LEMMA SeqWithin ==
    ASSUME NEW A, NEW q \in Seq(A), NEW B, ToSet(q) \subseteq B
    PROVE  q \in Seq(B)
<1>1. Len(q) \in Nat /\ q = [i \in 1..Len(q) |-> q[i]] /\ DOMAIN q = 1..Len(q)
  BY LenProperties
<1>2. \A i \in 1..Len(q) : q[i] \in B
  BY <1>1 DEF ToSet
<1> QED BY <1>1, <1>2, IsASeq

\* InOrder lists a set.
LEMMA InOrderMembers ==
    ASSUME NEW S \in SUBSET (Nat \ {0}), IsFiniteSet(S)
    PROVE  InOrder(S) \in Seq(S) /\ ToSet(InOrder(S)) = S /\ IsInjective(InOrder(S))
<1> DEFINE n == Max(S \cup {0})
           q == [i \in 1..n |-> i]
<1>1. n \in Nat /\ \A s \in S : s <= n
  <2>1. IsFiniteSet(S \cup {0}) BY FS_AddElement
  <2>2. S \cup {0} \in SUBSET Int /\ S \cup {0} # {} OBVIOUS
  <2>3. n \in S \cup {0} /\ \A y \in S \cup {0} : n >= y BY <2>1, <2>2, GreatestInteger
  <2> HIDE DEF n
  <2> QED BY <2>3
<1> HIDE DEF n
<1>2. q \in Seq(Nat) /\ DOMAIN q = 1..n
  BY <1>1, IsASeq
<1>3. ToSet(q) = 1..n /\ IsInjective(q)
  BY <1>1, <1>2 DEF ToSet, IsInjective
<1>4. InOrder(S) = Within(q, S)
  BY DEF InOrder, n
<1> HIDE DEF q
<1>5. /\ Within(q, S) \in Seq(Nat) /\ ToSet(Within(q, S)) = ToSet(q) \cap S
      /\ IsInjective(q) => IsInjective(Within(q, S))
  BY <1>2, WithinMembers
<1>6. ToSet(Within(q, S)) = S
  <2>1. \A s \in S : s \in 1..n BY <1>1
  <2> QED BY <2>1, <1>3, <1>5
<1> QED BY <1>3, <1>4, <1>5, <1>6, SeqWithin

\* A set that holds the base, and with each value the next, holds the fold.
LEMMA FoldStays ==
    ASSUME NEW n \in Nat, NEW V, NEW iter, iter[{}] \in V,
           \A k \in 1..n : iter[1..(k - 1)] \in V => iter[1..k] \in V
    PROVE  iter[1..n] \in V
<1> DEFINE h == [k \in 0..n |-> iter[1..k]]
<1>1. h[0] \in V
  <2>1. 1..0 = {} BY IntervalParts
  <2> QED BY <2>1
<1>2. \A k \in 1..n : h[k - 1] \in V => h[k] \in V
  <2> TAKE k \in 1..n
  <2>1. k \in 0..n /\ k - 1 \in 0..n OBVIOUS
  <2> QED BY <2>1
<1>3. h = [k \in 0..n |-> h[k]]
  OBVIOUS
<1>4. h \in [0..n -> V]
  <2> HIDE DEF h
  <2> QED BY <1>1, <1>2, <1>3, ChainTyped
<1>5. h[n] \in V /\ h[n] = iter[1..n]
  <2>1. n \in 0..n OBVIOUS
  <2>2. h[n] \in V
    <3> HIDE DEF h
    <3> QED BY <2>1, <1>4
  <2> QED BY <2>1, <2>2
<1> QED BY <1>5

-----------------------------------------------------------------------------
(* Merges.                                                                  *)

\* What the decisions take: stories with numbers, each with a group.
Grouped(members) ==
    /\ DOMAIN members \in SUBSET (Nat \ {0}) /\ IsFiniteSet(DOMAIN members)
    /\ \A s \in DOMAIN members : members[s] \in Seq(Facets) /\ members[s] # <<>>

\* The union of groups is a group, and not empty.
LEMMA UnionMembers ==
    ASSUME NEW members, Grouped(members), NEW ids \in Seq(DOMAIN members), ids # <<>>
    PROVE  Union(members, ids) \in Seq(Facets) /\ Union(members, ids) # <<>>
<1> DEFINE n == Len(ids)
           A == Seq(Facets)
           step == [p \in A \X (1..n) |-> p[1] \o members[ids[p[2]]]]
           choice == [s \in (SUBSET (1..n)) \ {{}} |-> Max(s)]
           Solves(f) == f = [s \in SUBSET DOMAIN ids |->
                               IF s = {} THEN <<>>
                               ELSE f[s \ {Max(s)}] \o members[ids[Max(s)]]]
           iter == CHOOSE f : Solves(f)
<1>1. n \in Nat /\ DOMAIN ids = 1..n /\ <<>> \in A /\ \A k \in 1..n : members[ids[k]] \in A
  <2>1. \A k \in 1..n : ids[k] \in DOMAIN members BY ElementOfSeq
  <2> QED BY <2>1, LenProperties DEF Grouped
<1>2. step \in [A \X (1..n) -> A]
  <2>1. \A p \in A \X (1..n) : p[1] \o members[ids[p[2]]] \in A
    BY <1>1, ConcatProperties
  <2> HIDE DEF A, n
  <2> QED BY <2>1
<1>3. /\ choice \in [(SUBSET (1..n)) \ {{}} -> 1..n]
      /\ \A s \in SUBSET (1..n) : s # {} => choice[s] \in s
  BY <1>1, MaxChoice
<1>4. Folding(1..n, A, <<>>, step, choice)
  <2> HIDE DEF step, choice, n, A
  <2> QED BY <1>1, <1>2, <1>3, IntervalParts DEF Folding
<1>5. PICK f : Folded(f, 1..n, A, <<>>, step, choice)
  <2> HIDE DEF step, choice, n, A
  <2> QED BY <1>4, FoldSolution
<1>6. /\ f \in [SUBSET (1..n) -> A] /\ f[{}] = <<>>
      /\ \A s \in SUBSET (1..n) : s # {} => f[s] = step[<<f[s \ {choice[s]}], choice[s]>>]
  BY <1>5 DEF Folded
<1>7. Solves(f)
  <2>1. ASSUME NEW s \in SUBSET (1..n), s # {}
        PROVE  f[s] = f[s \ {Max(s)}] \o members[ids[Max(s)]]
    <3>1. Max(s) \in 1..n /\ choice[s] = Max(s) BY <1>3, <2>1
    <3>2. f[s \ {Max(s)}] \in A BY <1>6
    <3>3. f[s] = step[<<f[s \ {Max(s)}], Max(s)>>] BY <1>6, <2>1, <3>1
    <3> HIDE DEF choice, A, n
    <3> QED BY <3>1, <3>2, <3>3
  <2> HIDE DEF step, choice, A
  <2> QED BY <2>1, <1>1, <1>6
<1>8. Solves(iter)
  <2> HIDE DEF Solves
  <2> QED BY <1>7
<1>9. Union(members, ids) = iter[1..n]
  <2>1. Union(members, ids) = iter[DOMAIN ids]
    BY DEF Union, FoldLeft, MapThenFoldSet
  <2> HIDE DEF iter
  <2> QED BY <2>1, <1>1
<1> HIDE DEF iter
<1>10. ASSUME NEW k \in 1..n
       PROVE  iter[1..k] = iter[1..(k - 1)] \o members[ids[k]]
  <2>1. /\ Max(1..k) = k /\ (1..k) \ {k} = 1..(k - 1) /\ 1..k # {}
        /\ 1..k \in SUBSET DOMAIN ids
    BY <1>1, IntervalParts
  <2> QED BY <1>8, <2>1
<1>11. iter[{}] = <<>>
  BY <1>8
<1>12. iter[1..n] \in A
  <2>1. \A k \in 1..n : iter[1..(k - 1)] \in A => iter[1..k] \in A
    <3> TAKE k \in 1..n
    <3> HAVE iter[1..(k - 1)] \in A
    <3>1. iter[1..(k - 1)] \o members[ids[k]] \in A
      BY <1>1, ConcatProperties
    <3> QED BY <3>1, <1>10
  <2> HIDE DEF A, n
  <2> QED BY <2>1, <1>1, <1>11, FoldStays
<1>13. \A k \in 1..n : iter[1..(k - 1)] \in A
  <2> TAKE k \in 1..n
  <2>1. k - 1 \in Nat /\ \A i \in 1..(k - 1) : i \in 1..n BY <1>1
  <2>2. \A i \in 1..(k - 1) : iter[1..(i - 1)] \in A => iter[1..i] \in A
    <3> TAKE i \in 1..(k - 1)
    <3> HAVE iter[1..(i - 1)] \in A
    <3>1. i \in 1..n BY <2>1
    <3>2. iter[1..(i - 1)] \o members[ids[i]] \in A
      BY <3>1, <1>1, ConcatProperties
    <3> QED BY <3>1, <3>2, <1>10
  <2> HIDE DEF A, n
  <2> QED BY <2>1, <2>2, <1>1, <1>11, FoldStays
<1>14. n \in 1..n
  <2>1. n # 0 BY EmptySeq
  <2> QED BY <2>1, <1>1
<1>15. iter[1..n] # <<>>
  <2>1. ids[n] \in DOMAIN members BY <1>14, ElementOfSeq
  <2>2. members[ids[n]] \in Seq(Facets) /\ members[ids[n]] # <<>> BY <2>1 DEF Grouped
  <2>3. iter[1..(n - 1)] \in Seq(Facets) BY <1>13, <1>14
  <2>4. iter[1..(n - 1)] \o members[ids[n]] # <<>> BY <2>2, <2>3, ConcatEqualIffEmpty
  <2> QED BY <2>4, <1>10, <1>14
<1> QED BY <1>9, <1>12, <1>15

\* A clique is of the stories it is taken from, and holds its seed.
LEMMA CliqueMembers ==
    ASSUME NEW near, NEW V \in SUBSET (Nat \ {0}), IsFiniteSet(V), NEW seed \in V
    PROVE  Clique(near, seed, V) \in Seq(V) /\ seed \in ToSet(Clique(near, seed, V))
<1> DEFINE q == InOrder(V \ {seed})
           n == Len(q)
           A == {ids \in Seq(V) : seed \in ToSet(ids)}
           fits(ids, s) == \A t \in ToSet(ids) : {s, t} \in near
           add(ids, s) == IF fits(ids, s) THEN Append(ids, s) ELSE ids
           step == [p \in A \X (1..n) |-> add(p[1], q[p[2]])]
           choice == [s \in (SUBSET (1..n)) \ {{}} |-> Max(s)]
           Solves(f) == f = [s \in SUBSET DOMAIN q |->
                               IF s = {} THEN <<seed>> ELSE add(f[s \ {Max(s)}], q[Max(s)])]
           iter == CHOOSE f : Solves(f)
<1>0. q \in Seq(V)
  <2>1. V \ {seed} \in SUBSET (Nat \ {0}) /\ IsFiniteSet(V \ {seed}) BY FS_RemoveElement
  <2>2. q \in Seq(V \ {seed}) BY <2>1, InOrderMembers
  <2> HIDE DEF q
  <2> QED BY <2>2, SeqMonotonic
<1> HIDE DEF q
<1>1. n \in Nat /\ DOMAIN q = 1..n /\ <<seed>> \in A /\ \A k \in 1..n : q[k] \in V
  <2>1. <<seed>> \in Seq(V) /\ seed \in ToSet(<<seed>>) BY DEF ToSet
  <2> QED BY <2>1, <1>0, ElementOfSeq, LenProperties
<1>2. \A ids \in A, s \in V : add(ids, s) \in A
  <2> TAKE ids \in A, s \in V
  <2>1. Append(ids, s) \in Seq(V) /\ ToSet(Append(ids, s)) = ToSet(ids) \cup {s}
    BY AppendMembers
  <2> HIDE DEF fits
  <2> QED BY <2>1
<1> HIDE DEF A, add
<1>3. step \in [A \X (1..n) -> A]
  <2>1. \A p \in A \X (1..n) : add(p[1], q[p[2]]) \in A
    BY <1>1, <1>2
  <2> HIDE DEF n
  <2> QED BY <2>1
<1>4. /\ choice \in [(SUBSET (1..n)) \ {{}} -> 1..n]
      /\ \A s \in SUBSET (1..n) : s # {} => choice[s] \in s
  BY <1>1, MaxChoice
<1>5. Folding(1..n, A, <<seed>>, step, choice)
  <2> HIDE DEF step, choice, n
  <2> QED BY <1>1, <1>3, <1>4, IntervalParts DEF Folding
<1>6. PICK f : Folded(f, 1..n, A, <<seed>>, step, choice)
  <2> HIDE DEF step, choice, n
  <2> QED BY <1>5, FoldSolution
<1>7. /\ f \in [SUBSET (1..n) -> A] /\ f[{}] = <<seed>>
      /\ \A s \in SUBSET (1..n) : s # {} => f[s] = step[<<f[s \ {choice[s]}], choice[s]>>]
  BY <1>6 DEF Folded
<1>8. Solves(f)
  <2>1. ASSUME NEW s \in SUBSET (1..n), s # {}
        PROVE  f[s] = add(f[s \ {Max(s)}], q[Max(s)])
    <3>1. Max(s) \in 1..n /\ choice[s] = Max(s) BY <1>4, <2>1
    <3>2. f[s \ {Max(s)}] \in A BY <1>7
    <3>3. f[s] = step[<<f[s \ {Max(s)}], Max(s)>>] BY <1>7, <2>1, <3>1
    <3> HIDE DEF choice, n
    <3> QED BY <3>1, <3>2, <3>3
  <2> HIDE DEF step, choice
  <2> QED BY <2>1, <1>1, <1>7
<1>9. Solves(iter)
  <2> HIDE DEF Solves
  <2> QED BY <1>8
<1>10. Clique(near, seed, V) = iter[1..n]
  <2>1. Clique(near, seed, V) = iter[DOMAIN q]
    BY DEF Clique, FoldLeft, MapThenFoldSet, add, q
  <2> HIDE DEF iter
  <2> QED BY <2>1, <1>1
<1> HIDE DEF iter
<1>11. iter[{}] = <<seed>>
  BY <1>9
<1>12. \A k \in 1..n : iter[1..(k - 1)] \in A => iter[1..k] \in A
  <2> TAKE k \in 1..n
  <2> HAVE iter[1..(k - 1)] \in A
  <2>1. /\ Max(1..k) = k /\ (1..k) \ {k} = 1..(k - 1) /\ 1..k # {}
        /\ 1..k \in SUBSET DOMAIN q
    BY <1>1, IntervalParts
  <2>2. iter[1..k] = add(iter[1..(k - 1)], q[k])
    BY <1>9, <2>1
  <2> QED BY <2>2, <1>1, <1>2
<1>13. iter[1..n] \in A
  <2> HIDE DEF n
  <2> QED BY <1>1, <1>11, <1>12, FoldStays
<1> QED BY <1>10, <1>13 DEF A

-----------------------------------------------------------------------------
(* PlanMerges: cliques.                                                    *)

\* Sequences of members of V that share none.
DisjointLists(Q, V) ==
    /\ Q \in Seq(Seq(V))
    /\ Disjoint(Q)

\* One more list ahead of lists of the rest.
LEMMA OneMoreList ==
    ASSUME NEW V, NEW ids \in Seq(V), NEW Q, DisjointLists(Q, V \ ToSet(ids))
    PROVE  DisjointLists(<<ids>> \o Q, V)
<1> DEFINE R == <<ids>> \o Q
           n == Len(Q)
<1>1. <<ids>> \in Seq(Seq(V)) /\ Len(<<ids>>) = 1 /\ <<ids>>[1] = ids
  OBVIOUS
<1>2. /\ Q \in Seq(Seq(V)) /\ n \in Nat /\ DOMAIN Q = 1..n
      /\ \A i \in 1..n : Q[i] \in Seq(V \ ToSet(ids))
  <2>1. Q \in Seq(Seq(V \ ToSet(ids))) BY DEF DisjointLists
  <2>2. Seq(V \ ToSet(ids)) \subseteq Seq(V) BY SeqMonotonic
  <2>3. Q \in Seq(Seq(V)) BY <2>1, <2>2, SeqMonotonic
  <2> QED BY <2>1, <2>3, ElementOfSeq, LenProperties
<1>3. /\ R \in Seq(Seq(V)) /\ Len(R) = 1 + n
      /\ \A i \in 1..(1 + n) : R[i] = IF i <= 1 THEN <<ids>>[i] ELSE Q[i - 1]
  <2>1. /\ <<ids>> \o Q \in Seq(Seq(V)) /\ Len(<<ids>> \o Q) = Len(<<ids>>) + Len(Q)
        /\ \A i \in 1..(Len(<<ids>>) + Len(Q)) :
              (<<ids>> \o Q)[i] = IF i <= Len(<<ids>>) THEN <<ids>>[i] ELSE Q[i - Len(<<ids>>)]
    BY <1>1, <1>2, ConcatProperties
  <2> QED BY <2>1, <1>1
<1>4. DOMAIN R = 1..(1 + n)
  BY <1>3, LenProperties
<1> HIDE DEF R, n
<1>5. R[1] = ids /\ \A i \in DOMAIN R : i # 1 => i - 1 \in DOMAIN Q /\ R[i] = Q[i - 1]
  BY <1>1, <1>2, <1>3, <1>4
<1>6. \A i \in DOMAIN R : i # 1 => ToSet(R[i]) \cap ToSet(R[1]) = {}
  <2> TAKE i \in DOMAIN R
  <2> HAVE i # 1
  <2>1. R[i] \in Seq(V \ ToSet(ids)) BY <1>2, <1>5
  <2>2. ToSet(R[i]) \subseteq V \ ToSet(ids) BY <2>1, SeqCount
  <2> QED BY <2>2, <1>5
<1>7. Disjoint(R)
  <2> SUFFICES ASSUME NEW i \in DOMAIN R, NEW j \in DOMAIN R, i # j
               PROVE  ToSet(R[i]) \cap ToSet(R[j]) = {}
    BY DEF Disjoint
  <2>1. CASE i = 1 BY <2>1, <1>6
  <2>2. CASE j = 1 BY <2>2, <1>6
  <2>3. CASE i # 1 /\ j # 1
    <3>1. i - 1 \in DOMAIN Q /\ j - 1 \in DOMAIN Q /\ i - 1 # j - 1
      BY <2>3, <1>4, <1>5
    <3>2. R[i] = Q[i - 1] /\ R[j] = Q[j - 1]
      BY <2>3, <1>5
    <3> QED BY <3>1, <3>2 DEF DisjointLists, Disjoint
  <2> QED BY <2>1, <2>2, <2>3
<1> QED BY <1>3, <1>7 DEF DisjointLists, R

\* No story is in two cliques.
LEMMA CliquesDisjoint ==
    ASSUME NEW near, NEW U \in SUBSET (Nat \ {0}), IsFiniteSet(U)
    PROVE  DisjointLists(Cliques(near, U), U)
<1> DEFINE D == SUBSET U
           V == Seq(Seq(U))
           deg(W) == [s \in W |-> Cardinality({t \in W : {s, t} \in near})]
           seed(W) == Foremost(W, LAMBDA s, t : \/ deg(W)[s] > deg(W)[t]
                                                \/ deg(W)[s] = deg(W)[t] /\ s < t)
           ids(W) == Clique(near, seed(W), W)
           stop(W) == W = {} \/ deg(W)[seed(W)] < 1
           body(h, W) == IF W = {} THEN <<>>
                         ELSE IF deg(W)[seed(W)] < 1 THEN <<>>
                         ELSE <<ids(W)>> \o h[W \ ToSet(ids(W))]
           Solves(h) == h = [W \in D |-> body(h, W)]
           cliques == CHOOSE h : Solves(h)
           m == [W \in D |-> Cardinality(W)]
           step == [p \in D \X [D -> V] |-> body(p[2], p[1])]
<1>0. \A W \in D : IsFiniteSet(W) /\ Cardinality(W) \in Nat /\ W \in SUBSET (Nat \ {0})
  BY FS_Subset, FS_CardinalityType
<1>1. ASSUME NEW W \in D, W # {} PROVE seed(W) \in W
  <2> DEFINE d == [f \in W |-> -deg(W)[f]]
             e == [f \in W |-> f]
  <2>1. IsFiniteSet(W) /\ W \subseteq Nat
    BY <1>0
  <2>2. \A f \in W : deg(W)[f] \in Nat
    <3> TAKE f \in W
    <3> DEFINE N == {t \in W : {f, t} \in near}
    <3>1. N \in SUBSET U OBVIOUS
    <3>2. Cardinality(N) \in Nat
      <4> HIDE DEF N
      <4> QED BY <3>1, <1>0
    <3> QED BY <3>2
  <2> HIDE DEF deg
  <2>3. d \in [W -> Int] /\ e \in [W -> Int] /\ IsInjective(e)
    BY <2>1, <2>2 DEF IsInjective
  <2>4. \E a \in W : \A b \in W \ {a} : Ahead(d, e, a, b)
    <3> HIDE DEF d, e
    <3> QED BY <1>1, <2>1, <2>3, FirstByKeys
  <2>5. \A a, b \in W : Ahead(d, e, a, b) => \/ deg(W)[a] > deg(W)[b]
                                             \/ deg(W)[a] = deg(W)[b] /\ a < b
    <3> SUFFICES ASSUME NEW a \in W, NEW b \in W, Ahead(d, e, a, b)
                 PROVE  \/ deg(W)[a] > deg(W)[b]
                        \/ deg(W)[a] = deg(W)[b] /\ a < b
      OBVIOUS
    <3>1. d[a] = -deg(W)[a] /\ d[b] = -deg(W)[b] /\ e[a] = a /\ e[b] = b
      OBVIOUS
    <3> HIDE DEF d, e
    <3> QED BY <3>1, <2>2 DEF Ahead
  <2>6. \E a \in W : \A b \in W \ {a} : \/ deg(W)[a] > deg(W)[b]
                                        \/ deg(W)[a] = deg(W)[b] /\ a < b
    <3> HIDE DEF d, e
    <3> QED BY <2>4, <2>5
  <2> QED BY <2>6 DEF Foremost
<1> HIDE DEF deg, seed
<1>2. ASSUME NEW W \in D, ~stop(W)
      PROVE  /\ ids(W) \in Seq(W) /\ ids(W) \in Seq(U)
             /\ W \ ToSet(ids(W)) \in D
             /\ m[W \ ToSet(ids(W))] < m[W]
  <2>1. seed(W) \in W /\ W \in SUBSET (Nat \ {0}) /\ IsFiniteSet(W) BY <1>0, <1>1, <1>2
  <2>2. ids(W) \in Seq(W) /\ seed(W) \in ToSet(ids(W)) BY <2>1, CliqueMembers
  <2>3. ids(W) \in Seq(U) BY <2>2, SeqMonotonic
  <2> DEFINE R == W \ ToSet(ids(W))
  <2>4. R \in SUBSET W /\ R # W /\ R \in D
    BY <2>1, <2>2
  <2>5. Cardinality(R) <= Cardinality(W) /\ (Cardinality(W) = Cardinality(R) => W = R)
    <3> HIDE DEF R
    <3> QED BY <2>1, <2>4, FS_Subset
  <2>6. Cardinality(R) < Cardinality(W)
    <3> HIDE DEF R
    <3> QED BY <2>4, <2>5, <1>0
  <2>7. m[R] < m[W]
    <3> HIDE DEF R
    <3> QED BY <2>4, <2>6
  <2> QED BY <2>2, <2>3, <2>4, <2>7
<1>3. m \in [D -> Nat]
  BY <1>0
<1> HIDE DEF ids
<1>4. ASSUME NEW W \in D, ~stop(W), NEW Q \in V
      PROVE  <<ids(W)>> \o Q \in V
  <2>1. ids(W) \in Seq(U) BY <1>4, <1>2
  <2>2. <<ids(W)>> \in Seq(Seq(U)) BY <2>1
  <2> QED BY <2>2, ConcatProperties
<1>5. \A h : \A W : body(h, W) = IF stop(W) THEN <<>> ELSE <<ids(W)>> \o h[W \ ToSet(ids(W))]
  OBVIOUS
<1> HIDE DEF body
<1>6. Founded(D, V, m, step)
  <2> HIDE DEF stop, m
  <2>1. ASSUME NEW W \in D, NEW h \in [D -> V] PROVE step[<<W, h>>] \in V
    <3>1. CASE stop(W)
      <4>1. step[<<W, h>>] = <<>>
        <5> HIDE DEF D, V
        <5> QED BY <3>1, <1>5
      <4>2. <<>> \in V OBVIOUS
      <4> HIDE DEF step, V
      <4> QED BY <4>1, <4>2
    <3>2. CASE ~stop(W)
      <4>1. W \ ToSet(ids(W)) \in D BY <3>2, <1>2
      <4>2. h[W \ ToSet(ids(W))] \in V
        <5> HIDE DEF D, V
        <5> QED BY <4>1
      <4>3. <<ids(W)>> \o h[W \ ToSet(ids(W))] \in V
        BY <3>2, <4>2, <1>4
      <4> HIDE DEF D, V
      <4> QED BY <3>2, <4>3, <1>5
    <3> QED BY <3>1, <3>2
  <2>2. ASSUME NEW W \in D, NEW g \in [D -> V], NEW h \in [D -> V],
               \A e \in D : m[e] < m[W] => g[e] = h[e]
        PROVE  step[<<W, g>>] = step[<<W, h>>]
    <3>1. CASE stop(W)
      <4> HIDE DEF D, V
      <4> QED BY <3>1, <1>5
    <3>2. CASE ~stop(W)
      <4>1. W \ ToSet(ids(W)) \in D /\ m[W \ ToSet(ids(W))] < m[W] BY <3>2, <1>2
      <4>2. g[W \ ToSet(ids(W))] = h[W \ ToSet(ids(W))]
        <5> HIDE DEF D, V
        <5> QED BY <4>1, <2>2
      <4> HIDE DEF D, V
      <4> QED BY <3>2, <4>2, <1>5
    <3> QED BY <3>1, <3>2
  <2>3. step \in [D \X [D -> V] -> V]
    <3>1. step = [p \in D \X [D -> V] |-> step[p]]
      OBVIOUS
    <3>2. \A p \in D \X [D -> V] : step[p] \in V
      <4> HIDE DEF step, D, V
      <4> QED BY <2>1
    <3> HIDE DEF step, D, V
    <3> QED BY <3>1, <3>2
  <2>4. <<>> \in V OBVIOUS
  <2> HIDE DEF step, D, V
  <2> QED BY <2>2, <2>3, <2>4, <1>3 DEF Founded
<1>7. \E h : Solves(h)
  <2>1. PICK h : Recursive(h, D, V, step)
    <3> HIDE DEF step, D, V, m
    <3> QED BY <1>6, MeasureRecursion
  <2>2. h \in [D -> V] /\ \A W \in D : h[W] = step[<<W, h>>]
    BY <2>1 DEF Recursive
  <2>3. \A W \in D : h[W] = body(h, W)
    <3> HIDE DEF D, V
    <3> QED BY <2>2
  <2>4. Solves(h)
    <3> HIDE DEF D, V
    <3> QED BY <2>2, <2>3
  <2> QED BY <2>4
<1>8. Solves(cliques)
  <2> HIDE DEF Solves
  <2> QED BY <1>7
<1>9. Cliques(near, U) = cliques[U]
  BY DEF Cliques, body, seed, deg, ids
<1> HIDE DEF cliques
<1> DEFINE Good == {W \in D : DisjointLists(cliques[W], W)}
<1>10. ASSUME NEW W \in D, \A e \in D : m[e] < m[W] => e \in Good PROVE W \in Good
  <2>1. cliques[W] = IF stop(W) THEN <<>> ELSE <<ids(W)>> \o cliques[W \ ToSet(ids(W))]
    <3>1. cliques[W] = body(cliques, W)
      <4> HIDE DEF D
      <4> QED BY <1>8
    <3> QED BY <3>1, <1>5
  <2> HIDE DEF m, stop
  <2>2. CASE stop(W)
    <3>1. cliques[W] = <<>> BY <2>1, <2>2
    <3>2. DisjointLists(<<>>, W) BY DEF DisjointLists, Disjoint
    <3> QED BY <3>1, <3>2
  <2>3. CASE ~stop(W)
    <3>1. W \ ToSet(ids(W)) \in Good
      <4> HIDE DEF D, Good
      <4> QED BY <2>3, <1>2, <1>10
    <3>2. DisjointLists(cliques[W \ ToSet(ids(W))], W \ ToSet(ids(W))) BY <3>1
    <3>3. ids(W) \in Seq(W) BY <2>3, <1>2
    <3>4. DisjointLists(cliques[W], W) BY <3>2, <3>3, <2>1, <2>3, OneMoreList
    <3> QED BY <3>4
  <2> QED BY <2>2, <2>3
<1>11. D \subseteq Good
  <2> HIDE DEF D, m, Good
  <2> QED BY <1>3, <1>10, MeasureInduction
<1> QED BY <1>9, <1>11

-----------------------------------------------------------------------------
(* PlanMerges: the plan.                                                   *)

\* What is left of a clique that is to be merged was in it, and Split would leave
\* the union of it whole: no merge makes a story that a split takes apart
\* (compactMergeGroup).
THEOREM MergedStayWhole ==
    ASSUME NEW x \in Places, NEW members, Grouped(members), NEW group \in Seq(DOMAIN members)
    PROVE  LET g == CompactMergeGroup(x, members, group)
           IN  /\ g \in Seq(DOMAIN members) /\ ToSet(g) \subseteq ToSet(group)
               /\ g = <<>> \/ (Len(g) >= 2 /\ Division(x, Union(members, g)) = Whole)
<1> DEFINE D == Seq(DOMAIN members)
           union(ids) == Union(members, ids)
           dist(ids, i) == Dist(Centroid(x, members[ids[i]]), Centroid(x, union(ids)))
           worst(ids) == Foremost(DOMAIN ids, LAMBDA i, j :
                            \/ dist(ids, i) > dist(ids, j)
                            \/ dist(ids, i) = dist(ids, j) /\ i < j)
           body(h, ids) == IF Len(ids) < 2 THEN <<>>
                           ELSE IF Division(x, union(ids)) = Whole THEN ids
                           ELSE h[RemoveAt(ids, worst(ids))]
           Solves(h) == h = [ids \in D |-> body(h, ids)]
           kept == CHOOSE h : Solves(h)
           m == [ids \in D |-> Len(ids)]
           step == [p \in D \X [D -> D] |-> body(p[2], p[1])]
<1>1. ASSUME NEW ids \in D, Len(ids) >= 2 PROVE worst(ids) \in DOMAIN ids
  <2> DEFINE S == DOMAIN ids
             k == [i \in S |-> dist(ids, i)]
             d == [i \in S |-> -k[i]]
             e == [i \in S |-> i]
  <2>1. Len(ids) \in Nat /\ S = 1..Len(ids) /\ ids # <<>>
    BY <1>1, LenProperties, EmptySeq
  <2>2. IsFiniteSet(S) /\ S # {} /\ S \subseteq Int
    <3>1. IsFiniteSet(1..Len(ids)) BY <2>1, IntervalParts
    <3> QED BY <3>1, <2>1, <1>1
  <2>3. Centroid(x, union(ids)) \in Int
    BY <2>1, UnionMembers, CentroidIsInteger
  <2>4. \A i \in S : k[i] \in Int
    <3> TAKE i \in S
    <3>1. ids[i] \in DOMAIN members BY <2>1, ElementOfSeq
    <3>2. members[ids[i]] \in Seq(Facets) /\ members[ids[i]] # <<>> BY <3>1 DEF Grouped
    <3>3. Centroid(x, members[ids[i]]) \in Int BY <3>2, CentroidIsInteger
    <3> HIDE DEF union
    <3>4. dist(ids, i) \in Nat BY <3>3, <2>3, DistIsInteger
    <3> HIDE DEF dist
    <3> QED BY <3>4
  <2>5. d \in [S -> Int] /\ e \in [S -> Int] /\ IsInjective(e)
    <3> HIDE DEF k, S
    <3> QED BY <2>2, <2>4 DEF IsInjective
  <2>6. \E a \in S : \A b \in S \ {a} : Ahead(d, e, a, b)
    <3> HIDE DEF S, d, e
    <3> QED BY <2>2, <2>5, FirstByKeys
  <2>7. \A a, b \in S : Ahead(d, e, a, b) => \/ k[a] > k[b]
                                             \/ k[a] = k[b] /\ a < b
    <3> SUFFICES ASSUME NEW a \in S, NEW b \in S, Ahead(d, e, a, b)
                 PROVE  \/ k[a] > k[b]
                        \/ k[a] = k[b] /\ a < b
      OBVIOUS
    <3>1. d[a] = -k[a] /\ d[b] = -k[b] /\ e[a] = a /\ e[b] = b
      <4> HIDE DEF k
      <4> QED OBVIOUS
    <3>2. k[a] \in Int /\ k[b] \in Int BY <2>4
    <3> HIDE DEF d, e, k, S
    <3> QED BY <3>1, <3>2 DEF Ahead
  <2>8. \A a, b \in S : Ahead(d, e, a, b) => \/ dist(ids, a) > dist(ids, b)
                                             \/ dist(ids, a) = dist(ids, b) /\ a < b
    <3>1. \A a \in S : k[a] = dist(ids, a)
      <4> HIDE DEF dist
      <4> QED OBVIOUS
    <3> HIDE DEF k, dist, d, e
    <3> QED BY <2>7, <3>1
  <2>9. \E a \in S : \A b \in S \ {a} : \/ dist(ids, a) > dist(ids, b)
                                        \/ dist(ids, a) = dist(ids, b) /\ a < b
    <3> HIDE DEF d, e, dist
    <3> QED BY <2>6, <2>8
  <2> HIDE DEF dist
  <2> QED BY <2>9 DEF Foremost
<1> HIDE DEF worst
<1>2. ASSUME NEW ids \in D, Len(ids) >= 2
      PROVE  /\ RemoveAt(ids, worst(ids)) \in D
             /\ ToSet(RemoveAt(ids, worst(ids))) \subseteq ToSet(ids)
             /\ m[RemoveAt(ids, worst(ids))] < m[ids]
  <2> DEFINE a == worst(ids)
  <2>1. a \in DOMAIN ids
    BY <1>1, <1>2
  <2> HIDE DEF a
  <2>2. /\ RemoveAt(ids, a) \in D /\ Len(RemoveAt(ids, a)) = Len(ids) - 1
        /\ ToSet(RemoveAt(ids, a)) \subseteq ToSet(ids)
    BY <2>1, RemoveAtMembers
  <2>3. m[RemoveAt(ids, a)] = Len(ids) - 1 /\ m[ids] = Len(ids) /\ Len(ids) \in Nat
    BY <2>2, LenProperties
  <2>4. m[RemoveAt(ids, a)] < m[ids]
    <3> HIDE DEF m
    <3> QED BY <2>3
  <2> HIDE DEF m, D
  <2> QED BY <2>2, <2>4 DEF a
<1>3. m \in [D -> Nat]
  BY LenProperties
<1>4. <<>> \in D /\ ToSet(<<>>) = {} /\ \A ids \in D : Len(ids) \in Nat
  BY LenProperties DEF ToSet
<1> DEFINE stop(ids) == Division(x, union(ids)) = Whole
<1>5. \A h : \A ids : body(h, ids) = IF Len(ids) < 2 THEN <<>>
                                     ELSE IF stop(ids) THEN ids
                                     ELSE h[RemoveAt(ids, worst(ids))]
  OBVIOUS
<1> HIDE DEF body, stop
<1>6. ASSUME NEW ids \in D PROVE ~(Len(ids) < 2) => Len(ids) >= 2
  BY <1>4
<1>7. Founded(D, D, m, step)
  <2> HIDE DEF m
  <2>1. ASSUME NEW ids \in D, NEW h \in [D -> D] PROVE step[<<ids, h>>] \in D
    <3>0. step[<<ids, h>>] = body(h, ids)
      <4> HIDE DEF D
      <4> QED OBVIOUS
    <3>1. CASE Len(ids) < 2
      <4> HIDE DEF step
      <4> QED BY <3>0, <3>1, <1>4, <1>5
    <3>2. CASE ~(Len(ids) < 2) /\ stop(ids)
      <4> HIDE DEF step
      <4> QED BY <3>0, <3>2, <1>5
    <3>3. CASE ~(Len(ids) < 2) /\ ~stop(ids)
      <4>1. RemoveAt(ids, worst(ids)) \in D BY <3>3, <1>2, <1>6
      <4>2. h[RemoveAt(ids, worst(ids))] \in D
        <5> HIDE DEF D
        <5> QED BY <4>1
      <4> HIDE DEF D, step
      <4> QED BY <3>0, <3>3, <4>2, <1>5
    <3> QED BY <3>1, <3>2, <3>3
  <2>2. ASSUME NEW ids \in D, NEW g \in [D -> D], NEW h \in [D -> D],
               \A e \in D : m[e] < m[ids] => g[e] = h[e]
        PROVE  step[<<ids, g>>] = step[<<ids, h>>]
    <3>0. step[<<ids, h>>] = body(h, ids) /\ step[<<ids, g>>] = body(g, ids)
      <4> HIDE DEF D
      <4> QED OBVIOUS
    <3>1. CASE Len(ids) < 2 \/ stop(ids)
      <4> HIDE DEF D, step
      <4> QED BY <3>0, <3>1, <1>5
    <3>2. CASE ~(Len(ids) < 2) /\ ~stop(ids)
      <4>1. RemoveAt(ids, worst(ids)) \in D /\ m[RemoveAt(ids, worst(ids))] < m[ids]
        BY <3>2, <1>2, <1>6
      <4>2. g[RemoveAt(ids, worst(ids))] = h[RemoveAt(ids, worst(ids))]
        <5> HIDE DEF D
        <5> QED BY <4>1, <2>2
      <4> HIDE DEF D, step
      <4> QED BY <3>0, <3>2, <4>2, <1>5
    <3> QED BY <3>1, <3>2
  <2>3. step \in [D \X [D -> D] -> D]
    <3>1. step = [p \in D \X [D -> D] |-> step[p]]
      OBVIOUS
    <3>2. \A p \in D \X [D -> D] : step[p] \in D
      <4> HIDE DEF step, D
      <4> QED BY <2>1
    <3> HIDE DEF step, D
    <3> QED BY <3>1, <3>2
  <2> HIDE DEF step, D
  <2> QED BY <2>2, <2>3, <1>3, <1>4 DEF Founded
<1>8. \E h : Solves(h)
  <2>1. PICK h : Recursive(h, D, D, step)
    <3> HIDE DEF step, D, m
    <3> QED BY <1>7, MeasureRecursion
  <2>2. h \in [D -> D] /\ \A ids \in D : h[ids] = step[<<ids, h>>]
    BY <2>1 DEF Recursive
  <2>3. \A ids \in D : h[ids] = body(h, ids)
    <3> HIDE DEF D
    <3> QED BY <2>2
  <2>4. Solves(h)
    <3> HIDE DEF D
    <3> QED BY <2>2, <2>3
  <2> QED BY <2>4
<1>9. Solves(kept)
  <2> HIDE DEF Solves
  <2> QED BY <1>8
<1>10. CompactMergeGroup(x, members, group) = kept[group]
  BY DEF CompactMergeGroup, body, worst
<1> HIDE DEF kept
<1> DEFINE Good == {ids \in D :
                      /\ kept[ids] \in D /\ ToSet(kept[ids]) \subseteq ToSet(ids)
                      /\ kept[ids] = <<>> \/ (Len(kept[ids]) >= 2 /\ stop(kept[ids]))}
<1>11. ASSUME NEW ids \in D, \A e \in D : m[e] < m[ids] => e \in Good PROVE ids \in Good
  <2>1. kept[ids] = IF Len(ids) < 2 THEN <<>>
                    ELSE IF stop(ids) THEN ids ELSE kept[RemoveAt(ids, worst(ids))]
    <3>1. kept[ids] = body(kept, ids)
      <4> HIDE DEF D
      <4> QED BY <1>9
    <3> QED BY <3>1, <1>5
  <2> HIDE DEF m
  <2>2. CASE Len(ids) < 2
    <3> HIDE DEF D
    <3> QED BY <2>1, <2>2, <1>4
  <2>3. CASE ~(Len(ids) < 2) /\ stop(ids)
    <3> HIDE DEF D
    <3> QED BY <2>1, <2>3, <1>6
  <2>4. CASE ~(Len(ids) < 2) /\ ~stop(ids)
    <3> DEFINE r == RemoveAt(ids, worst(ids))
    <3>1. r \in D /\ ToSet(r) \subseteq ToSet(ids) /\ m[r] < m[ids]
      BY <2>4, <1>2, <1>6
    <3>2. r \in Good
      <4> HIDE DEF D, Good, r
      <4> QED BY <3>1, <1>11
    <3>3. kept[ids] = kept[r]
      BY <2>1, <2>4
    <3> HIDE DEF D, r
    <3> QED BY <3>1, <3>2, <3>3
  <2> QED BY <2>2, <2>3, <2>4
<1>12. D \subseteq Good
  <2> HIDE DEF D, m, Good
  <2> QED BY <1>3, <1>11, MeasureInduction
<1> QED BY <1>10, <1>12 DEF stop

\* The survivor is one of the stories, and none of them is older.
LEMMA SurvivorOldest ==
    ASSUME NEW ids, IsFiniteSet(ToSet(ids)), ToSet(ids) # {}, ToSet(ids) \subseteq Nat,
           NEW created, \A s \in ToSet(ids) : created[s] \in Int
    PROVE  /\ Survivor(created, ids) \in ToSet(ids)
           /\ \A s \in ToSet(ids) : created[Survivor(created, ids)] <= created[s]
<1> DEFINE S == ToSet(ids)
           d == [s \in S |-> created[s]]
           e == [s \in S |-> s]
<1>1. d \in [S -> Int] /\ e \in [S -> Int] /\ IsInjective(e)
  BY DEF IsInjective
<1>2. \E a \in S : \A b \in S \ {a} : Ahead(d, e, a, b)
  <2> HIDE DEF S, d, e
  <2> QED BY <1>1, FirstByKeys DEF S
<1>3. \A a, b \in S : Ahead(d, e, a, b) => \/ created[a] < created[b]
                                           \/ created[a] = created[b] /\ a < b
  BY DEF Ahead
<1>4. \E a \in S : \A b \in S \ {a} : \/ created[a] < created[b]
                                      \/ created[a] = created[b] /\ a < b
  <2> HIDE DEF d, e
  <2> QED BY <1>2, <1>3
<1> DEFINE v == Survivor(created, ids)
<1>5. v \in S /\ \A b \in S \ {v} : \/ created[v] < created[b]
                                    \/ created[v] = created[b] /\ v < b
  BY <1>4 DEF Survivor, Foremost
<1> HIDE DEF v
<1>6. \A b \in S : created[v] <= created[b]
  <2> TAKE b \in S
  <2>1. created[v] \in Int /\ created[b] \in Int BY <1>5
  <2> QED BY <2>1, <1>5
<1> QED BY <1>5, <1>6 DEF v

\* Every story becomes itself or an older one that stays: PlanMerges and the plan
\* made of it.
THEOREM MergePlanOldest ==
    ASSUME NEW x \in Places, NEW members, Grouped(members),
           NEW created, \A s \in DOMAIN members : created[s] \in Int
    PROVE  LET plan == MergePlan(x, members, created)
           IN  /\ plan \in [DOMAIN members -> DOMAIN members]
               /\ \A s \in DOMAIN members :
                     plan[plan[s]] = plan[s] /\ created[plan[s]] <= created[s]
<1> DEFINE ids == DOMAIN members
           near == {p \in SUBSET ids :
                     /\ Cardinality(p) = 2
                     /\ \A s, t \in p : Dist(Centroid(x, members[s]), Centroid(x, members[t]))
                                            <= MergeThreshold}
           found == Cliques(near, ids)
           groups == {CompactMergeGroup(x, members, found[i]) : i \in DOMAIN found}
           of(s) == CHOOSE g \in groups : s \in ToSet(g)
           plan == MergePlan(x, members, created)
<1>1. plan = [s \in ids |-> IF \E g \in groups : s \in ToSet(g)
                            THEN Survivor(created, of(s)) ELSE s]
  BY DEF MergePlan
<1>2. DisjointLists(found, ids)
  <2>1. ids \in SUBSET (Nat \ {0}) /\ IsFiniteSet(ids) BY DEF Grouped
  <2> HIDE DEF near, ids
  <2> QED BY <2>1, CliquesDisjoint
<1> HIDE DEF plan, found
<1>3. \A i \in DOMAIN found :
         /\ CompactMergeGroup(x, members, found[i]) \in Seq(ids)
         /\ ToSet(CompactMergeGroup(x, members, found[i])) \subseteq ToSet(found[i])
  <2> TAKE i \in DOMAIN found
  <2>1. found[i] \in Seq(ids)
    <3>1. found \in Seq(Seq(ids)) BY <1>2 DEF DisjointLists
    <3> HIDE DEF ids
    <3> QED BY <3>1, ElementOfSeq, LenProperties
  <2> QED BY <2>1, MergedStayWhole
<1>4. \A g \in groups : g \in Seq(ids)
  BY <1>3
<1>5. \A g, h \in groups : \A s \in ToSet(g) \cap ToSet(h) : g = h
  <2> SUFFICES ASSUME NEW g \in groups, NEW h \in groups, NEW s \in ToSet(g) \cap ToSet(h)
               PROVE  g = h
    OBVIOUS
  <2>1. PICK i \in DOMAIN found : g = CompactMergeGroup(x, members, found[i])
    OBVIOUS
  <2>2. PICK j \in DOMAIN found : h = CompactMergeGroup(x, members, found[j])
    OBVIOUS
  <2>3. s \in ToSet(found[i]) \cap ToSet(found[j])
    BY <1>3, <2>1, <2>2
  <2>4. i = j
    BY <2>3, <1>2 DEF DisjointLists, Disjoint
  <2> QED BY <2>1, <2>2, <2>4
<1> HIDE DEF groups
<1>6. ASSUME NEW s \in ids, NEW g \in groups, s \in ToSet(g)
      PROVE  /\ plan[s] = Survivor(created, g)
             /\ Survivor(created, g) \in ToSet(g)
             /\ Survivor(created, g) \in ids
             /\ \A t \in ToSet(g) : created[Survivor(created, g)] <= created[t]
  <2>1. of(s) \in groups /\ s \in ToSet(of(s))
    BY <1>6
  <2> HIDE DEF of
  <2>2. of(s) = g
    BY <2>1, <1>5, <1>6
  <2>3. plan[s] = Survivor(created, g)
    BY <1>1, <1>6, <2>2
  <2>4. g \in Seq(ids) /\ IsFiniteSet(ToSet(g)) /\ ToSet(g) \subseteq ids
    <3>1. g \in Seq(ids) BY <1>4
    <3> HIDE DEF ids
    <3> QED BY <3>1, SeqCount
  <2>5. ids \subseteq Nat /\ \A t \in ToSet(g) : created[t] \in Int
    BY <2>4 DEF Grouped
  <2>6. /\ Survivor(created, g) \in ToSet(g)
        /\ \A t \in ToSet(g) : created[Survivor(created, g)] <= created[t]
    <3>1. ToSet(g) # {} /\ ToSet(g) \subseteq Nat BY <1>6, <2>4, <2>5
    <3> QED BY <3>1, <2>4, <2>5, SurvivorOldest
  <2> QED BY <2>3, <2>4, <2>6
<1>7. ASSUME NEW s \in ids, ~\E g \in groups : s \in ToSet(g)
      PROVE  plan[s] = s
  BY <1>1, <1>7
<1>8. ASSUME NEW s \in ids
      PROVE  plan[s] \in ids /\ plan[plan[s]] = plan[s] /\ created[plan[s]] <= created[s]
  <2>1. CASE \E g \in groups : s \in ToSet(g)
    <3>1. PICK g \in groups : s \in ToSet(g) BY <2>1
    <3> DEFINE v == Survivor(created, g)
    <3>2. plan[s] = v /\ v \in ToSet(g) /\ v \in ids /\ created[v] <= created[s]
      BY <3>1, <1>6
    <3>3. plan[v] = v
      <4> HIDE DEF ids
      <4> QED BY <3>1, <3>2, <1>6
    <3> HIDE DEF v, ids
    <3> QED BY <3>2, <3>3
  <2>2. CASE ~\E g \in groups : s \in ToSet(g)
    <3>1. plan[s] = s BY <2>2, <1>7
    <3>2. created[s] <= created[s] OBVIOUS
    <3> QED BY <3>1, <3>2
  <2> QED BY <2>1, <2>2
<1>9. plan \in [ids -> ids]
  <2>1. plan = [s \in ids |-> plan[s]] BY <1>1
  <2> HIDE DEF ids
  <2> QED BY <2>1, <1>8
<1> QED BY <1>8, <1>9 DEF plan
=============================================================================
