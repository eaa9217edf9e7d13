------------------------- MODULE Maintenance_proofs -------------------------
(***************************************************************************)
(* What series of passes keep, for all facets, signals, places, thresholds,*)
(* story IDs and orders of them.  StoriesOfMany is inductive: a pass takes *)
(* the members of the stories to new ones step by step, and each step keeps*)
(* Continues, from the members StoriesOfMany gives to those the merges end *)
(* with.                                                                   *)
(***************************************************************************)
EXTENDS Maintenance, Clustering_proofs

-----------------------------------------------------------------------------
(* Stories of many signals, and the IDs that are left.                     *)

\* Stories of many signals each, of which no two share a facet.
Storied(members) ==
    /\ DOMAIN members \subseteq Stories
    /\ \A s \in DOMAIN members :
          /\ members[s] \in Seq(Facets) /\ IsInjective(members[s])
          /\ DistinctIDs(members[s]) >= MinStorySize
    /\ \A s, t \in DOMAIN members : s # t => ToSet(members[s]) \cap ToSet(members[t]) = {}

\* ids are the IDs that are left.
Spare(members, ids) ==
    /\ ids \in Seq(Stories) /\ IsInjective(ids)
    /\ ToSet(ids) = Stories \ DOMAIN members

\* G could be one story more.
Loose(G, members) ==
    /\ G \in Seq(Facets) /\ IsInjective(G)
    /\ DistinctIDs(G) >= MinStorySize
    /\ \A s \in DOMAIN members : ToSet(G) \cap ToSet(members[s]) = {}

\* Stories of many signals are what the decisions take.
LEMMA StoriedGrouped ==
    ASSUME NEW members, Storied(members)
    PROVE  Grouped(members)
<1>1. DOMAIN members \in SUBSET (Nat \ {0}) /\ IsFiniteSet(DOMAIN members)
  BY StoriesAssumption, FS_Subset DEF Storied
<1>2. \A s \in DOMAIN members : members[s] \in Seq(Facets) /\ members[s] # <<>>
  <2> TAKE s \in DOMAIN members
  <2>1. members[s] \in Seq(Facets) /\ DistinctIDs(members[s]) >= MinStorySize
    BY DEF Storied
  <2>2. DistinctIDs(members[s]) <= Len(members[s]) /\ Len(members[s]) \in Nat
        /\ DistinctIDs(members[s]) \in Nat
    BY <2>1, DistinctIDsCount
  <2>3. Len(members[s]) # 0 BY <2>1, <2>2, ThresholdsAssumption
  <2> QED BY <2>1, <2>3, SeqCount
<1> QED BY <1>1, <1>2 DEF Grouped

\* A group of many signals has as many facets.
LEMMA ManyFacets ==
    ASSUME NEW G \in Seq(Facets), DistinctIDs(G) >= MinStorySize
    PROVE  ToSet(G) \in SUBSET Facets /\ Cardinality(ToSet(G)) >= MinStorySize
<1>1. DistinctIDs(G) \in Nat /\ DistinctIDs(G) <= Cardinality(ToSet(G))
  BY DistinctIDsCount
<1>2. ToSet(G) \subseteq Facets /\ IsFiniteSet(ToSet(G)) BY SeqCount
<1>3. Cardinality(ToSet(G)) \in Nat BY <1>2, FS_CardinalityType
<1> QED BY <1>1, <1>2, <1>3, ThresholdsAssumption

\* As long as there is a group to be a story, there is an ID for it.
LEMMA RoomForOne ==
    ASSUME NEW members, Storied(members), NEW ids, Spare(members, ids),
           NEW G, Loose(G, members)
    PROVE  ids # <<>>
<1> SUFFICES ASSUME ids = <<>> PROVE FALSE
  OBVIOUS
<1> DEFINE I == Stories \cup {Outlier}
           part == [i \in I |-> IF i = Outlier THEN ToSet(G) ELSE ToSet(members[i])]
<1>1. DOMAIN members = Stories
  <2>1. ToSet(ids) = {} BY SeqCount DEF Spare
  <2> QED BY <2>1 DEF Spare, Storied
<1>2. Outlier \notin Stories /\ IsFiniteSet(Stories)
  BY StoriesAssumption
<1>3. IsFiniteSet(I) /\ Cardinality(I) = Cardinality(Stories) + 1
  BY <1>2, FS_AddElement
<1>4. \A i \in I : part[i] \in SUBSET Facets /\ Cardinality(part[i]) >= MinStorySize
  <2> TAKE i \in I
  <2>1. CASE i = Outlier BY <2>1, ManyFacets DEF Loose
  <2>2. CASE i # Outlier
    <3>1. i \in DOMAIN members BY <2>2, <1>1
    <3>2. members[i] \in Seq(Facets) /\ DistinctIDs(members[i]) >= MinStorySize
      BY <3>1 DEF Storied
    <3> QED BY <3>2, <2>2, ManyFacets
  <2> QED BY <2>1, <2>2
<1>5. \A i, j \in I : i # j => part[i] \cap part[j] = {}
  <2> TAKE i, j \in I
  <2> HAVE i # j
  <2>1. CASE i = Outlier
    <3>1. j \in DOMAIN members /\ j # Outlier BY <2>1, <1>1, <1>2
    <3> QED BY <2>1, <3>1 DEF Loose
  <2>2. CASE j = Outlier
    <3>1. i \in DOMAIN members /\ i # Outlier BY <2>2, <1>1, <1>2
    <3>2. ToSet(G) \cap ToSet(members[i]) = {} BY <3>1 DEF Loose
    <3> QED BY <2>2, <3>1, <3>2
  <2>3. CASE i # Outlier /\ j # Outlier
    <3>1. i \in DOMAIN members /\ j \in DOMAIN members BY <2>3, <1>1
    <3> QED BY <2>3, <3>1 DEF Storied
  <2> QED BY <2>1, <2>2, <2>3
<1>6. Cardinality(I) * MinStorySize <= Cardinality(Facets)
  <2> HIDE DEF I, part
  <2> QED BY <1>3, <1>4, <1>5, PartsCount, FacetsAssumption, ThresholdsAssumption
<1>7. \A c, k \in Nat : (c + 1) * k = c * k + k
  OBVIOUS
<1>8. /\ Cardinality(Stories) \in Nat /\ Cardinality(Facets) \in Nat
      /\ MinStorySize \in Nat /\ MinStorySize >= 2
  BY <1>2, FS_CardinalityType, FacetsAssumption, ThresholdsAssumption
<1>9. Cardinality(Stories) * MinStorySize + MinStorySize <= Cardinality(Facets)
  <2>1. (Cardinality(Stories) + 1) * MinStorySize
          = Cardinality(Stories) * MinStorySize + MinStorySize BY <1>7, <1>8
  <2> QED BY <2>1, <1>3, <1>6
<1>10. Cardinality(Stories) * MinStorySize \in Nat
  BY <1>8
<1> QED BY <1>8, <1>9, <1>10, EnoughStories

\* A story with the first of the IDs that are left.
LEMMA OneMoreStory ==
    ASSUME NEW members, Storied(members), NEW ids, Spare(members, ids), ids # <<>>,
           NEW G, Loose(G, members), NEW more,
           more = [t \in DOMAIN members \cup {Head(ids)} |->
                      IF t = Head(ids) THEN G ELSE members[t]]
    PROVE  Storied(more) /\ Spare(more, Tail(ids))
<1> DEFINE h == Head(ids)
<1>1. ids \in Seq(Stories) /\ IsInjective(ids) /\ ToSet(ids) = Stories \ DOMAIN members
  BY DEF Spare
<1>2. Len(ids) \in Nat /\ Len(ids) >= 1 /\ DOMAIN ids = 1..Len(ids) /\ h = ids[1]
  <2>1. Len(ids) \in Nat /\ Len(ids) # 0 BY <1>1, EmptySeq
  <2> QED BY <2>1, <1>1
<1>3. h \in Stories /\ h \notin DOMAIN members
  BY <1>1, <1>2 DEF ToSet
<1>4. DOMAIN more = DOMAIN members \cup {h} /\ more[h] = G
      /\ \A t \in DOMAIN members : more[t] = members[t]
  BY <1>3
<1>5. Tail(ids) = SubSeq(ids, 2, Len(ids))
  BY <1>1, TailIsSubSeq
<1>6. /\ Tail(ids) \in Seq(Stories) /\ IsInjective(Tail(ids))
      /\ ToSet(Tail(ids)) = {ids[i] : i \in 2..Len(ids)}
  <2>1. 2 \in Nat /\ 2 >= 1 /\ Len(ids) \in Nat /\ Len(ids) <= Len(ids) BY <1>2
  <2> DEFINE r == SubSeq(ids, 2, Len(ids))
  <2>2. r \in Seq(Stories)
    BY <2>1, <1>1, SubSeqMembers
  <2>4. ToSet(r) = {ids[i] : i \in 2..Len(ids)}
    BY <2>1, <1>1, SubSeqMembers
  <2>5. IsInjective(r)
    BY <2>1, <1>1, SubSeqMembers
  <2> HIDE DEF r
  <2>3. Tail(ids) = r BY <1>5 DEF r
  <2> QED BY <2>2, <2>3, <2>4, <2>5
<1>7. {ids[i] : i \in 2..Len(ids)} = Stories \ (DOMAIN members \cup {h})
  <2>1. \A i \in 2..Len(ids) : ids[i] \in ToSet(ids) /\ ids[i] # h
    BY <1>1, <1>2 DEF IsInjective, ToSet
  <2>2. ASSUME NEW t \in ToSet(ids), t # h
        PROVE  t \in {ids[i] : i \in 2..Len(ids)}
    <3>1. PICK i \in 1..Len(ids) : t = ids[i] BY <1>2 DEF ToSet
    <3>2. i # 1 BY <3>1, <2>2, <1>2
    <3> QED BY <3>1, <3>2, <1>2
  <2> QED BY <2>1, <2>2, <1>1
<1> HIDE DEF h
<1>8. Spare(more, Tail(ids))
  BY <1>4, <1>6, <1>7 DEF Spare
<1>9. Storied(more)
  <2>1. DOMAIN more \subseteq Stories BY <1>3, <1>4 DEF Storied
  <2>2. \A s \in DOMAIN more : /\ more[s] \in Seq(Facets) /\ IsInjective(more[s])
                               /\ DistinctIDs(more[s]) >= MinStorySize
    <3> TAKE s \in DOMAIN more
    <3>1. CASE s = h BY <3>1, <1>4 DEF Loose
    <3>2. CASE s # h
      <4>1. s \in DOMAIN members /\ more[s] = members[s] BY <3>2, <1>4
      <4> QED BY <4>1 DEF Storied
    <3> QED BY <3>1, <3>2
  <2>3. \A s, t \in DOMAIN more : s # t => ToSet(more[s]) \cap ToSet(more[t]) = {}
    <3> TAKE s, t \in DOMAIN more
    <3> HAVE s # t
    <3>1. CASE s = h
      <4>1. t \in DOMAIN members /\ more[t] = members[t] /\ more[s] = G BY <3>1, <1>4
      <4> QED BY <4>1 DEF Loose
    <3>2. CASE t = h
      <4>1. s \in DOMAIN members /\ more[s] = members[s] /\ more[t] = G BY <3>2, <1>4
      <4>2. ToSet(G) \cap ToSet(members[s]) = {} BY <4>1 DEF Loose
      <4> QED BY <4>1, <4>2
    <3>3. CASE s # h /\ t # h
      <4>1. s \in DOMAIN members /\ t \in DOMAIN members BY <3>3, <1>4
      <4>2. more[s] = members[s] /\ more[t] = members[t] BY <4>1, <1>4
      <4> QED BY <4>1, <4>2 DEF Storied
    <3> QED BY <3>1, <3>2, <3>3
  <2> QED BY <2>1, <2>2, <2>3 DEF Storied
<1> QED BY <1>8, <1>9

-----------------------------------------------------------------------------
(* Promotion.                                                              *)

\* Each of Q could be a story more, and all of them.
AllLoose(Q, members) ==
    /\ Q \in Seq(Seq(Facets))
    /\ \A k \in DOMAIN Q : Loose(Q[k], members)
    /\ Disjoint(Q)

\* m has a story more for each group of Q.
WithStories(m, members, ids, Q) ==
    /\ Storied(m) /\ Spare(m, SubSeq(ids, Len(Q) + 1, Len(ids)))
    /\ DOMAIN m = DOMAIN members \cup {ids[k] : k \in DOMAIN Q}
    /\ \A s \in DOMAIN members : m[s] = members[s]
    /\ \A k \in DOMAIN Q : m[ids[k]] = Q[k]

\* Promotion makes a story of each group, and leaves the others as they are.
LEMMA PromotedStories ==
    ASSUME NEW members, Storied(members), NEW ids, Spare(members, ids),
           NEW Q, AllLoose(Q, members), Len(Q) <= Len(ids)
    PROVE  WithStories(Promoted(members, Q, ids), members, ids, Q)
<1> DEFINE m == Promoted(members, Q, ids)
           new == {ids[k] : k \in DOMAIN Q}
<1>1. ids \in Seq(Stories) /\ IsInjective(ids) /\ ToSet(ids) = Stories \ DOMAIN members
  BY DEF Spare
<1>2. /\ Len(ids) \in Nat /\ DOMAIN ids = 1..Len(ids)
      /\ Len(Q) \in Nat /\ DOMAIN Q = 1..Len(Q)
      /\ DOMAIN Q \subseteq DOMAIN ids
  <2>1. Q \in Seq(Seq(Facets)) BY DEF AllLoose
  <2> QED BY <2>1, <1>1
<1>3. \A k \in DOMAIN Q : ids[k] \in Stories /\ ids[k] \notin DOMAIN members
  BY <1>1, <1>2 DEF ToSet
<1>4. DOMAIN m = DOMAIN members \cup new
  BY DEF Promoted
<1>5. \A s \in DOMAIN members : m[s] = members[s]
  BY DEF Promoted
<1>6. \A k \in DOMAIN Q : m[ids[k]] = Q[k]
  <2> TAKE k \in DOMAIN Q
  <2>1. ids[k] \in DOMAIN members \cup new /\ ids[k] \notin DOMAIN members BY <1>3
  <2> DEFINE c == CHOOSE j \in DOMAIN Q : ids[j] = ids[k]
  <2>2. c \in DOMAIN Q /\ ids[c] = ids[k] OBVIOUS
  <2>3. m[ids[k]] = Q[c] BY <2>1 DEF Promoted
  <2> HIDE DEF c
  <2>4. c = k BY <2>2, <1>1, <1>2 DEF IsInjective
  <2> QED BY <2>3, <2>4
<1> HIDE DEF m
<1>7. \A k \in DOMAIN Q : Loose(Q[k], members)
  BY DEF AllLoose
<1>8. Storied(m)
  <2>1. DOMAIN m \subseteq Stories BY <1>3, <1>4 DEF Storied
  <2>2. \A s \in DOMAIN m : /\ m[s] \in Seq(Facets) /\ IsInjective(m[s])
                            /\ DistinctIDs(m[s]) >= MinStorySize
    <3> TAKE s \in DOMAIN m
    <3>1. CASE s \in DOMAIN members BY <3>1, <1>5 DEF Storied
    <3>2. CASE s \in new
      <4>1. PICK k \in DOMAIN Q : s = ids[k] BY <3>2
      <4>2. m[s] = Q[k] BY <4>1, <1>6
      <4> QED BY <4>2, <1>7 DEF Loose
    <3> QED BY <3>1, <3>2, <1>4
  <2>3. \A s \in DOMAIN members, k \in DOMAIN Q : ToSet(Q[k]) \cap ToSet(members[s]) = {}
    BY <1>7 DEF Loose
  <2>4. \A s, t \in DOMAIN m : s # t => ToSet(m[s]) \cap ToSet(m[t]) = {}
    <3> TAKE s, t \in DOMAIN m
    <3> HAVE s # t
    <3>1. CASE s \in DOMAIN members /\ t \in DOMAIN members
      BY <3>1, <1>5 DEF Storied
    <3>2. CASE s \in DOMAIN members /\ t \in new
      <4>1. PICK k \in DOMAIN Q : t = ids[k] BY <3>2
      <4>2. m[t] = Q[k] /\ m[s] = members[s] BY <4>1, <1>6, <1>5, <3>2
      <4>3. ToSet(Q[k]) \cap ToSet(members[s]) = {} BY <2>3, <3>2
      <4> QED BY <4>2, <4>3
    <3>3. CASE t \in DOMAIN members /\ s \in new
      <4>1. PICK k \in DOMAIN Q : s = ids[k] BY <3>3
      <4>2. m[s] = Q[k] /\ m[t] = members[t] BY <4>1, <1>6, <1>5, <3>3
      <4>3. ToSet(Q[k]) \cap ToSet(members[t]) = {} BY <2>3, <3>3
      <4> QED BY <4>2, <4>3
    <3>4. CASE s \in new /\ t \in new
      <4>1. PICK k \in DOMAIN Q : s = ids[k] BY <3>4
      <4>2. PICK j \in DOMAIN Q : t = ids[j] BY <3>4
      <4>3. m[s] = Q[k] /\ m[t] = Q[j] BY <4>1, <4>2, <1>6
      <4>4. k # j BY <4>1, <4>2
      <4> QED BY <4>3, <4>4 DEF AllLoose, Disjoint
    <3> QED BY <3>1, <3>2, <3>3, <3>4, <1>4
  <2> QED BY <2>1, <2>2, <2>4 DEF Storied
<1>9. Spare(m, SubSeq(ids, Len(Q) + 1, Len(ids)))
  <2> DEFINE a == Len(Q) + 1
             r == SubSeq(ids, a, Len(ids))
  <2>1. a \in Nat /\ a >= 1 /\ Len(ids) <= Len(ids) BY <1>2
  <2> HIDE DEF a
  <2>2. r \in Seq(Stories) BY <2>1, <1>1, <1>2, SubSeqMembers
  <2>3. ToSet(r) = {ids[i] : i \in a..Len(ids)} BY <2>1, <1>1, <1>2, SubSeqMembers
  <2>4. IsInjective(r) BY <2>1, <1>1, <1>2, SubSeqMembers
  <2>5. \A i \in a..Len(ids) : i \in DOMAIN ids /\ i \notin DOMAIN Q
    BY <1>2 DEF a
  <2>6. \A i \in DOMAIN ids : i \in DOMAIN Q \/ i \in a..Len(ids)
    BY <1>2 DEF a
  <2>7. ASSUME NEW i \in a..Len(ids)
        PROVE  ids[i] \in Stories \ (DOMAIN members \cup new)
    <3>1. ids[i] \in ToSet(ids) BY <2>5 DEF ToSet
    <3>2. ids[i] \notin new BY <2>5, <1>1, <1>2 DEF IsInjective
    <3> QED BY <3>1, <3>2, <1>1
  <2>8. ASSUME NEW t \in Stories, t \notin DOMAIN members, t \notin new
        PROVE  t \in {ids[i] : i \in a..Len(ids)}
    <3>1. PICK i \in DOMAIN ids : t = ids[i] BY <2>8, <1>1 DEF ToSet
    <3> QED BY <3>1, <2>8, <2>6
  <2>9. ToSet(r) = Stories \ DOMAIN m BY <2>3, <2>7, <2>8, <1>4
  <2>10. Spare(m, r) BY <2>2, <2>4, <2>9 DEF Spare
  <2> QED BY <2>10 DEF a
<1>10. DOMAIN m = DOMAIN members \cup {ids[k] : k \in DOMAIN Q}
  BY <1>4
<1>11. WithStories(m, members, ids, Q)
  BY <1>5, <1>6, <1>8, <1>9, <1>10 DEF WithStories
<1> QED BY <1>11 DEF m

\* There are IDs for all groups.
LEMMA RoomForAll ==
    ASSUME NEW members, Storied(members), NEW ids, Spare(members, ids),
           NEW Q, AllLoose(Q, members)
    PROVE  Len(Q) <= Len(ids)
<1>1. ids \in Seq(Stories) /\ Q \in Seq(Seq(Facets))
  BY DEF Spare, AllLoose
<1>2. /\ Len(ids) \in Nat /\ Len(Q) \in Nat
      /\ DOMAIN ids = 1..Len(ids) /\ DOMAIN Q = 1..Len(Q)
  BY <1>1
<1> SUFFICES ASSUME Len(Q) > Len(ids) PROVE FALSE
  BY <1>2
<1> DEFINE n == Len(ids)
           R == SubSeq(Q, 1, n)
           m == Promoted(members, R, ids)
<1>3. R \in Seq(Seq(Facets)) /\ Len(R) = n /\ DOMAIN R = 1..n
      /\ \A k \in 1..n : R[k] = Q[k] /\ k \in DOMAIN Q
  BY <1>1, <1>2, SubSeqProperties
<1>4. AllLoose(R, members)
  <2>1. \A k \in DOMAIN R : Loose(R[k], members) BY <1>3 DEF AllLoose
  <2>2. Disjoint(R)
    <3> SUFFICES ASSUME NEW i \in 1..n, NEW j \in 1..n, i # j
                 PROVE  ToSet(R[i]) \cap ToSet(R[j]) = {}
      BY <1>3 DEF Disjoint
    <3>1. R[i] = Q[i] /\ R[j] = Q[j] /\ i \in DOMAIN Q /\ j \in DOMAIN Q BY <1>3
    <3> HIDE DEF R
    <3> QED BY <3>1 DEF AllLoose, Disjoint
  <2> QED BY <2>1, <2>2, <1>3 DEF AllLoose
<1> HIDE DEF R
<1>5. /\ Storied(m) /\ Spare(m, SubSeq(ids, Len(R) + 1, Len(ids)))
      /\ DOMAIN m = DOMAIN members \cup {ids[k] : k \in DOMAIN R}
      /\ \A s \in DOMAIN members : m[s] = members[s]
      /\ \A k \in DOMAIN R : m[ids[k]] = R[k]
  <2>1. Len(R) <= Len(ids) BY <1>2, <1>3
  <2>2. WithStories(m, members, ids, R)
    <3> HIDE DEF R
    <3> QED BY <2>1, <1>4, PromotedStories
  <2> HIDE DEF m
  <2> QED BY <2>2 DEF WithStories
<1> HIDE DEF m
<1>6. n + 1 \in DOMAIN Q /\ \A k \in 1..n : k # n + 1
  BY <1>2
<1>7. Loose(Q[n + 1], m)
  <2>1. Loose(Q[n + 1], members) BY <1>6 DEF AllLoose
  <2>2. \A s \in DOMAIN m : ToSet(Q[n + 1]) \cap ToSet(m[s]) = {}
    <3> TAKE s \in DOMAIN m
    <3>1. CASE s \in DOMAIN members BY <3>1, <2>1, <1>5 DEF Loose
    <3>2. CASE s \in {ids[k] : k \in DOMAIN R}
      <4>1. PICK k \in DOMAIN R : s = ids[k] BY <3>2
      <4>2. m[s] = R[k] /\ R[k] = Q[k] /\ k \in DOMAIN Q /\ k # n + 1
        BY <4>1, <1>3, <1>5, <1>6
      <4> QED BY <4>2, <1>6 DEF AllLoose, Disjoint
    <3> QED BY <3>1, <3>2, <1>5
  <2> QED BY <2>1, <2>2 DEF Loose
<1>8. SubSeq(ids, Len(R) + 1, Len(ids)) # <<>>
  BY <1>5, <1>7, RoomForOne
<1>9. Len(SubSeq(ids, Len(R) + 1, Len(ids))) = 0
  <2> DEFINE a == Len(R) + 1
  <2>1. a \in Nat /\ a >= 1 /\ n \in Nat /\ n <= Len(ids) /\ a > n BY <1>2, <1>3
  <2> HIDE DEF a
  <2>2. Len(SubSeq(ids, a, n)) = 0 BY <2>1, <1>1, SubSeqMembers
  <2> QED BY <2>2 DEF a
<1> QED BY <1>5, <1>8, <1>9, EmptySeq DEF Spare

-----------------------------------------------------------------------------
(* Admission, and one division.                                            *)

\* What a step of a pass keeps: the stories the pass began with are still there,
\* with facets of their own or that were loose, and no facet of a story is lost.
Continues(members) ==
    /\ Storied(members)
    /\ \A s \in DOMAIN created :
          /\ s \in DOMAIN members
          /\ ToSet(members[s]) \subseteq HomeOf(home, s) \cup HomeOf(home, Outlier)
    /\ \A f \in Facets :
          home[f] \in Stories => \E s \in DOMAIN members : f \in ToSet(members[s])

\* A set of facets is listed as a group.
LEMMA InOrderFacets ==
    ASSUME NEW S \in SUBSET Facets
    PROVE  InOrder(S) \in Seq(Facets) /\ ToSet(InOrder(S)) = S /\ IsInjective(InOrder(S))
<1>1. S \in SUBSET (Nat \ {0}) /\ IsFiniteSet(S)
  BY SubsetsFinite
<1>2. InOrder(S) \in Seq(S) /\ ToSet(InOrder(S)) = S /\ IsInjective(InOrder(S))
  BY <1>1, InOrderMembers
<1> QED BY <1>2, SeqWithin

\* The members of a story are the facets that have their home there.
LEMMA MembersListed ==
    ASSUME NEW s
    PROVE  /\ Members(s) \in Seq(Facets) /\ IsInjective(Members(s))
           /\ ToSet(Members(s)) = HomeOf(home, s)
<1>1. HomeOf(home, s) \in SUBSET Facets
  BY DEF HomeOf
<1> HIDE DEF HomeOf
<1> QED BY <1>1, InOrderFacets DEF Members

\* A group with more facets has no fewer signals.
LEMMA MoreSignals ==
    ASSUME NEW G \in Seq(Facets), NEW H \in Seq(Facets), ToSet(G) \subseteq ToSet(H)
    PROVE  DistinctIDs(G) <= DistinctIDs(H)
<1>1. IsFiniteSet(ToSet(H)) BY SeqCount
<1> QED BY <1>1, OwnersCount DEF DistinctIDs

\* Admission adds loose facets to stories, each to one.
LEMMA AdmittedStories ==
    ASSUME NEW members, Continues(members), NEW outliers \in SUBSET HomeOf(home, Outlier),
           \A s \in DOMAIN members : outliers \cap ToSet(members[s]) = {}
    PROVE  /\ Continues(Admitted(members, outliers))
           /\ DOMAIN Admitted(members, outliers) = DOMAIN members
<1> DEFINE joins(s) == {f \in outliers : NearestStory(place[f], Centroids(members)) = s}
           m == Admitted(members, outliers)
<1>1. /\ DOMAIN m = DOMAIN members
      /\ \A s \in DOMAIN members : m[s] = members[s] \o InOrder(joins(s))
  BY DEF Admitted
<1>2. outliers \subseteq Facets
  BY DEF HomeOf
<1>3. \A s, t : /\ joins(s) \in SUBSET Facets /\ joins(s) \subseteq outliers
                /\ s # t => joins(s) \cap joins(t) = {}
  BY <1>2
<1> HIDE DEF joins, m
<1>4. ASSUME NEW s \in DOMAIN members
      PROVE  /\ m[s] \in Seq(Facets) /\ IsInjective(m[s])
             /\ ToSet(m[s]) = ToSet(members[s]) \cup joins(s)
             /\ DistinctIDs(m[s]) >= MinStorySize
  <2>1. /\ members[s] \in Seq(Facets) /\ IsInjective(members[s])
        /\ DistinctIDs(members[s]) >= MinStorySize
    BY DEF Continues, Storied
  <2>2. /\ InOrder(joins(s)) \in Seq(Facets) /\ IsInjective(InOrder(joins(s)))
        /\ ToSet(InOrder(joins(s))) = joins(s)
    BY <1>3, InOrderFacets
  <2>3. ToSet(members[s]) \cap ToSet(InOrder(joins(s))) = {}
    BY <2>2, <1>3
  <2>4. m[s] \in Seq(Facets) /\ ToSet(m[s]) = ToSet(members[s]) \cup joins(s)
        /\ IsInjective(m[s])
    <3> DEFINE q == members[s]
               r == InOrder(joins(s))
    <3>1. q \in Seq(Facets) /\ r \in Seq(Facets) BY <2>1, <2>2
    <3>2. IsInjective(q) /\ IsInjective(r) /\ ToSet(q) \cap ToSet(r) = {} BY <2>1, <2>2, <2>3
    <3>3. m[s] = q \o r /\ ToSet(r) = joins(s) BY <1>1, <2>2
    <3> HIDE DEF q, r
    <3>4. q \o r \in Seq(Facets) BY <3>1, ConcatMembers
    <3>5. ToSet(q \o r) = ToSet(q) \cup ToSet(r) BY <3>1, ConcatMembers
    <3>6. IsInjective(q \o r) BY <3>1, <3>2, ConcatMembers
    <3> QED BY <3>3, <3>4, <3>5, <3>6 DEF q
  <2>5. DistinctIDs(members[s]) <= DistinctIDs(m[s]) BY <2>1, <2>4, MoreSignals
  <2>6. DistinctIDs(members[s]) \in Nat /\ DistinctIDs(m[s]) \in Nat
    BY <2>1, <2>4, DistinctIDsCount
  <2> QED BY <2>1, <2>4, <2>5, <2>6, ThresholdsAssumption
<1>5. Storied(m)
  <2>1. DOMAIN m \subseteq Stories BY <1>1 DEF Continues, Storied
  <2>2. \A s, t \in DOMAIN m : s # t => ToSet(m[s]) \cap ToSet(m[t]) = {}
    <3> TAKE s, t \in DOMAIN m
    <3> HAVE s # t
    <3>1. s \in DOMAIN members /\ t \in DOMAIN members BY <1>1
    <3>2. ToSet(members[s]) \cap ToSet(members[t]) = {} BY <3>1 DEF Continues, Storied
    <3>3. joins(s) \cap joins(t) = {} BY <1>3
    <3>4. ToSet(members[s]) \cap joins(t) = {} /\ ToSet(members[t]) \cap joins(s) = {}
      BY <3>1, <1>3
    <3> QED BY <3>1, <3>2, <3>3, <3>4, <1>4
  <2> QED BY <2>1, <2>2, <1>1, <1>4 DEF Storied
<1>6. \A s \in DOMAIN created :
         s \in DOMAIN m /\ ToSet(m[s]) \subseteq HomeOf(home, s) \cup HomeOf(home, Outlier)
  <2> TAKE s \in DOMAIN created
  <2>1. /\ s \in DOMAIN members
        /\ ToSet(members[s]) \subseteq HomeOf(home, s) \cup HomeOf(home, Outlier)
    BY DEF Continues
  <2> QED BY <2>1, <1>1, <1>3, <1>4
<1>7. \A f \in Facets : home[f] \in Stories => \E s \in DOMAIN m : f \in ToSet(m[s])
  <2> TAKE f \in Facets
  <2> HAVE home[f] \in Stories
  <2>1. PICK s \in DOMAIN members : f \in ToSet(members[s]) BY DEF Continues
  <2> QED BY <2>1, <1>1, <1>4
<1>8. Continues(m) BY <1>5, <1>6, <1>7 DEF Continues
<1> QED BY <1>1, <1>8 DEF m

\* A state of the divisions: the stories, and the IDs that are left.
Dividing(state, S) ==
    /\ state = <<state[1], state[2]>>
    /\ state[1] = [s \in DOMAIN state[1] |-> state[1][s]]
    /\ Continues(state[1]) /\ Spare(state[1], state[2])
    /\ S \subseteq DOMAIN state[1]

\* A division leaves such a state.
LEMMA DividedStories ==
    ASSUME NEW state, NEW S, Dividing(state, S), NEW s \in S
    PROVE  Dividing(Divided(state, s), S)
<1> DEFINE members == state[1]
           ids == state[2]
           parts == Division(place, members[s])
           h == Head(ids)
           more == [t \in DOMAIN members \cup {h} |->
                       CASE t = s -> parts[1] [] t = h -> parts[2] [] OTHER -> members[t]]
           kept == [t \in DOMAIN members |-> IF t = s THEN parts[1] ELSE members[t]]
<1>1. CASE parts = Whole
  <2>1. Divided(state, s) = state BY <1>1 DEF Divided
  <2> QED BY <2>1
<1>2. CASE parts # Whole
  <2>1. Divided(state, s) = <<more, Tail(ids)>> BY <1>2 DEF Divided
  <2>2. /\ Continues(members) /\ Storied(members) /\ Spare(members, ids)
        /\ S \subseteq DOMAIN members /\ s \in DOMAIN members
    BY DEF Dividing, Continues
  <2>3. DOMAIN kept = DOMAIN members /\ kept[s] = parts[1]
        /\ \A t \in DOMAIN members : t # s => kept[t] = members[t]
    BY <2>2
  <2> HIDE DEF kept, more, ids, members, h
  <2>4. members[s] \in Seq(Facets) /\ IsInjective(members[s])
    BY <2>2 DEF Storied
  <2>5. /\ parts[1] \in Seq(Facets) /\ parts[2] \in Seq(Facets)
        /\ IsInjective(parts[1]) /\ IsInjective(parts[2])
        /\ ToSet(parts[1]) \cup ToSet(parts[2]) = ToSet(members[s])
        /\ ToSet(parts[1]) \cap ToSet(parts[2]) = {}
        /\ DistinctIDs(parts[1]) >= MinStorySize /\ DistinctIDs(parts[2]) >= MinStorySize
    BY <2>4, <1>2, DivisionParts
  <2> HIDE DEF parts
  <2>6. \A t \in DOMAIN members : t # s => ToSet(members[s]) \cap ToSet(members[t]) = {}
    BY <2>2 DEF Storied
  <2>7. Storied(kept)
    <3>1. \A t \in DOMAIN kept : /\ kept[t] \in Seq(Facets) /\ IsInjective(kept[t])
                                 /\ DistinctIDs(kept[t]) >= MinStorySize
      <4> TAKE t \in DOMAIN kept
      <4>1. CASE t = s BY <4>1, <2>3, <2>5
      <4>2. CASE t # s BY <4>2, <2>2, <2>3 DEF Storied
      <4> QED BY <4>1, <4>2
    <3>2. \A t \in DOMAIN members : ToSet(kept[t]) \subseteq ToSet(members[t])
      <4> TAKE t \in DOMAIN members
      <4>1. CASE t = s BY <4>1, <2>3, <2>5
      <4>2. CASE t # s BY <4>2, <2>3
      <4> QED BY <4>1, <4>2
    <3>3. \A t, u \in DOMAIN kept : t # u => ToSet(kept[t]) \cap ToSet(kept[u]) = {}
      <4> TAKE t, u \in DOMAIN kept
      <4> HAVE t # u
      <4>1. ToSet(members[t]) \cap ToSet(members[u]) = {} BY <2>2, <2>3 DEF Storied
      <4> QED BY <4>1, <3>2, <2>3
    <3> QED BY <3>1, <3>3, <2>2, <2>3 DEF Storied
  <2>8. Spare(kept, ids) BY <2>2, <2>3 DEF Spare
  <2>9. Loose(parts[2], kept)
    <3>1. \A t \in DOMAIN kept : ToSet(parts[2]) \cap ToSet(kept[t]) = {}
      <4> TAKE t \in DOMAIN kept
      <4>1. CASE t = s BY <4>1, <2>3, <2>5
      <4>2. CASE t # s
        <5>1. ToSet(members[s]) \cap ToSet(members[t]) = {} /\ kept[t] = members[t]
          BY <4>2, <2>3, <2>6
        <5> QED BY <5>1, <2>5
      <4> QED BY <4>1, <4>2
    <3> QED BY <3>1, <2>5 DEF Loose
  <2>10. ids # <<>> BY <2>7, <2>8, <2>9, RoomForOne
  <2>11. h \in Stories /\ h \notin DOMAIN members
    <3>1. ids \in Seq(Stories) /\ ToSet(ids) = Stories \ DOMAIN members BY <2>2 DEF Spare
    <3>2. 1 \in DOMAIN ids /\ h = ids[1] BY <3>1, <2>10, EmptySeq DEF h
    <3> QED BY <3>1, <3>2 DEF ToSet
  <2>12. more = [t \in DOMAIN kept \cup {h} |-> IF t = h THEN parts[2] ELSE kept[t]]
    BY <2>2, <2>3, <2>11 DEF more
  <2>13. /\ DOMAIN more = DOMAIN members \cup {h} /\ more[h] = parts[2] /\ more[s] = parts[1]
         /\ \A t \in DOMAIN members : t # s => more[t] = members[t]
    BY <2>2, <2>3, <2>11, <2>12
  <2>14. Storied(more) /\ Spare(more, Tail(ids))
    BY <2>7, <2>8, <2>9, <2>10, <2>12, OneMoreStory DEF h
  <2>15. Continues(more)
    <3>1. \A t \in DOMAIN created :
             /\ t \in DOMAIN more
             /\ ToSet(more[t]) \subseteq HomeOf(home, t) \cup HomeOf(home, Outlier)
      <4> TAKE t \in DOMAIN created
      <4>1. /\ t \in DOMAIN members
            /\ ToSet(members[t]) \subseteq HomeOf(home, t) \cup HomeOf(home, Outlier)
        BY <2>2 DEF Continues
      <4>2. CASE t = s BY <4>1, <4>2, <2>5, <2>13
      <4>3. CASE t # s BY <4>1, <4>3, <2>13
      <4> QED BY <4>2, <4>3
    <3>2. \A f \in Facets : home[f] \in Stories => \E t \in DOMAIN more : f \in ToSet(more[t])
      <4> TAKE f \in Facets
      <4> HAVE home[f] \in Stories
      <4>1. PICK t \in DOMAIN members : f \in ToSet(members[t]) BY <2>2 DEF Continues
      <4>2. CASE t = s
        <5>1. f \in ToSet(parts[1]) \/ f \in ToSet(parts[2]) BY <4>1, <4>2, <2>5
        <5>2. CASE f \in ToSet(parts[1]) BY <5>2, <2>2, <2>13
        <5>3. CASE f \in ToSet(parts[2]) BY <5>3, <2>13
        <5> QED BY <5>1, <5>2, <5>3
      <4>3. CASE t # s BY <4>1, <4>3, <2>13
      <4> QED BY <4>2, <4>3
    <3> QED BY <3>1, <3>2, <2>14 DEF Continues
  <2>16. S \subseteq DOMAIN more BY <2>2, <2>13
  <2>17. more = [t \in DOMAIN more |-> more[t]] BY DEF more
  <2>18. Dividing(<<more, Tail(ids)>>, S) BY <2>14, <2>15, <2>16, <2>17 DEF Dividing
  <2> QED BY <2>1, <2>18 DEF more, members, ids, parts, h
<1> QED BY <1>1, <1>2

-----------------------------------------------------------------------------
(* All divisions.                                                          *)

\* The divisions of all stories of before the step continue them.
LEMMA AllDividedStories ==
    ASSUME NEW members, NEW ids, Dividing(<<members, ids>>, DOMAIN members)
    PROVE  Continues(AllDivided(members, ids))
<1> DEFINE S == DOMAIN members
           list == InOrder(S)
           n == Len(list)
           base == <<members, ids>>
           B == {<<m, q>> : m \in UNION {[D -> Seq(Facets)] : D \in SUBSET Stories},
                            q \in Seq(Stories)}
           A == {st \in B : Dividing(st, S)}
           step == [p \in A \X (1..n) |-> Divided(p[1], list[p[2]])]
           choice == [s \in (SUBSET (1..n)) \ {{}} |-> Max(s)]
           Solves(f) == f = [s \in SUBSET DOMAIN list |->
                               IF s = {} THEN base
                               ELSE Divided(f[s \ {Max(s)}], list[Max(s)])]
           iter == CHOOSE f : Solves(f)
<1>1. \A st : Dividing(st, S) => st \in A
  <2> SUFFICES ASSUME NEW st, Dividing(st, S) PROVE st \in B
    OBVIOUS
  <2>1. st = <<st[1], st[2]>> /\ st[1] = [s \in DOMAIN st[1] |-> st[1][s]]
    BY DEF Dividing
  <2>2. DOMAIN st[1] \in SUBSET Stories /\ \A s \in DOMAIN st[1] : st[1][s] \in Seq(Facets)
    BY DEF Dividing, Continues, Storied
  <2>3. st[2] \in Seq(Stories) BY DEF Dividing, Spare
  <2>4. st[1] \in [DOMAIN st[1] -> Seq(Facets)] BY <2>1, <2>2
  <2> QED BY <2>1, <2>2, <2>3, <2>4
<1>2. /\ n \in Nat /\ DOMAIN list = 1..n
      /\ \A k \in 1..n : list[k] \in S
  <2>1. S \in SUBSET (Nat \ {0}) /\ IsFiniteSet(S)
    BY StoriesAssumption, FS_Subset DEF Dividing, Continues, Storied
  <2>2. list \in Seq(S)
    <3> HIDE DEF S
    <3> QED BY <2>1, InOrderMembers
  <2> HIDE DEF list, S
  <2> QED BY <2>2, ElementOfSeq
<1>3. base \in A
  BY <1>1
<1>4. step \in [A \X (1..n) -> A]
  <2> HIDE DEF A, n, list, S
  <2>1. \A p \in A \X (1..n) : Divided(p[1], list[p[2]]) \in A
    <3> TAKE p \in A \X (1..n)
    <3>1. Dividing(p[1], S) /\ list[p[2]] \in S BY <1>2 DEF A
    <3>2. Dividing(Divided(p[1], list[p[2]]), S) BY <3>1, DividedStories
    <3> QED BY <3>2, <1>1
  <2> QED BY <2>1
<1> HIDE DEF A, S, list, base, n
<1>5. /\ choice \in [(SUBSET (1..n)) \ {{}} -> 1..n]
      /\ \A s \in SUBSET (1..n) : s # {} => choice[s] \in s
  BY <1>2, MaxChoice
<1>6. Folding(1..n, A, base, step, choice)
  <2> HIDE DEF step, choice
  <2> QED BY <1>2, <1>3, <1>4, <1>5, IntervalParts DEF Folding
<1>7. PICK f : Folded(f, 1..n, A, base, step, choice)
  <2> HIDE DEF step, choice
  <2> QED BY <1>6, FoldSolution
<1>8. /\ f \in [SUBSET (1..n) -> A] /\ f[{}] = base
      /\ \A s \in SUBSET (1..n) : s # {} => f[s] = step[<<f[s \ {choice[s]}], choice[s]>>]
  BY <1>7 DEF Folded
<1>9. Solves(f)
  <2>1. ASSUME NEW s \in SUBSET (1..n), s # {}
        PROVE  f[s] = Divided(f[s \ {Max(s)}], list[Max(s)])
    <3>1. Max(s) \in 1..n /\ choice[s] = Max(s) BY <1>5, <2>1
    <3>2. f[s \ {Max(s)}] \in A BY <1>8
    <3>3. f[s] = step[<<f[s \ {Max(s)}], Max(s)>>] BY <1>8, <2>1, <3>1
    <3> HIDE DEF choice
    <3> QED BY <3>1, <3>2, <3>3
  <2> HIDE DEF step, choice
  <2> QED BY <2>1, <1>2, <1>8
<1>10. Solves(iter)
  <2> HIDE DEF Solves
  <2> QED BY <1>9
<1>11. AllDivided(members, ids) = iter[1..n][1]
  <2>1. AllDivided(members, ids) = iter[DOMAIN list][1]
    BY DEF AllDivided, FoldLeft, MapThenFoldSet, list, S, base
  <2> HIDE DEF iter
  <2> QED BY <2>1, <1>2
<1> HIDE DEF iter
<1>12. iter[{}] = base
  BY <1>10
<1>13. \A k \in 1..n : iter[1..(k - 1)] \in A => iter[1..k] \in A
  <2> TAKE k \in 1..n
  <2> HAVE iter[1..(k - 1)] \in A
  <2>1. /\ Max(1..k) = k /\ (1..k) \ {k} = 1..(k - 1) /\ 1..k # {}
        /\ 1..k \in SUBSET DOMAIN list
    BY <1>2, IntervalParts
  <2>2. iter[1..k] = Divided(iter[1..(k - 1)], list[k]) BY <2>1, <1>10
  <2>3. Dividing(iter[1..(k - 1)], S) BY DEF A
  <2>4. list[k] \in S BY <1>2
  <2>5. Dividing(iter[1..k], S) BY <2>2, <2>3, <2>4, DividedStories
  <2> QED BY <2>5, <1>1
<1>14. iter[1..n] \in A
  <2>1. iter[{}] \in A BY <1>12, <1>3
  <2> QED BY <2>1, <1>13, <1>2, FoldStays
<1>15. Dividing(iter[1..n], S)
  BY <1>14 DEF A
<1> QED BY <1>11, <1>15 DEF Dividing

-----------------------------------------------------------------------------
(* Ranks and IDs.                                                          *)

\* There are finitely many values of a function on a finite set.
LEMMA FiniteValues ==
    ASSUME NEW S, IsFiniteSet(S), NEW d
    PROVE  IsFiniteSet({d[t] : t \in S})
<1> DEFINE V == {d[t] : t \in S}
           g == [t \in S |-> d[t]]
<1>1. g \in Surjection(S, V)
  BY DEF Surjection
<1> QED BY <1>1, FS_Surjection

\* The rank of a story counts the times before its own: whoever is ranked no
\* later than a story there was is one that there was, and no younger.
LEMMA RanksFollowAge ==
    ASSUME created \in [DOMAIN created -> Nat], IsFiniteSet(DOMAIN created),
           NEW S, DOMAIN created \subseteq S
    PROVE  /\ \A s \in S : Ranked(S)[s] \in Nat
           /\ \A s \in DOMAIN created, t \in S :
                 Ranked(S)[t] <= Ranked(S)[s] =>
                    t \in DOMAIN created /\ created[t] <= created[s]
<1> DEFINE D == DOMAIN created
           r == Ranked(S)
           times == {created[t] : t \in D}
           earlier(s) == {created[t] : t \in {t \in D : created[t] < created[s]}}
<1>1. S \cap D = D
  OBVIOUS
<1>2. r = [s \in S |-> IF s \in D THEN Cardinality(earlier(s)) ELSE Cardinality(times)]
  BY <1>1 DEF Ranked
<1> HIDE DEF r
<1>3. IsFiniteSet(times) /\ Cardinality(times) \in Nat
  BY FiniteValues, FS_CardinalityType
<1>4. \A s \in D : created[s] \in Nat
  OBVIOUS
<1>5. ASSUME NEW s \in D
      PROVE  /\ earlier(s) \in SUBSET times /\ created[s] \in times
             /\ created[s] \notin earlier(s)
             /\ IsFiniteSet(earlier(s)) /\ Cardinality(earlier(s)) \in Nat
             /\ Cardinality(earlier(s)) < Cardinality(times)
  <2>1. earlier(s) \in SUBSET times /\ created[s] \in times /\ created[s] \notin earlier(s)
    BY <1>4
  <2> HIDE DEF times, earlier
  <2>2. IsFiniteSet(earlier(s)) /\ Cardinality(earlier(s)) <= Cardinality(times)
        /\ (Cardinality(times) = Cardinality(earlier(s)) => times = earlier(s))
    BY <2>1, <1>3, FS_Subset
  <2>3. Cardinality(earlier(s)) \in Nat BY <2>2, FS_CardinalityType
  <2> QED BY <2>1, <2>2, <2>3, <1>3
<1>6. ASSUME NEW s \in D, NEW t \in D, created[s] < created[t]
      PROVE  Cardinality(earlier(s)) < Cardinality(earlier(t))
  <2>1. earlier(s) \in SUBSET earlier(t) /\ created[s] \in earlier(t)
    BY <1>4, <1>6
  <2>2. created[s] \notin earlier(s) /\ IsFiniteSet(earlier(t))
        /\ Cardinality(earlier(s)) \in Nat /\ Cardinality(earlier(t)) \in Nat
    BY <1>5
  <2> HIDE DEF earlier
  <2>3. Cardinality(earlier(s)) <= Cardinality(earlier(t))
        /\ (Cardinality(earlier(t)) = Cardinality(earlier(s)) => earlier(t) = earlier(s))
    BY <2>1, <2>2, FS_Subset
  <2> QED BY <2>1, <2>2, <2>3
<1> HIDE DEF times, earlier, D
<1>7. \A s \in S : r[s] \in Nat
  BY <1>2, <1>3, <1>5
<1>8. ASSUME NEW s \in D, NEW t \in S, r[t] <= r[s]
      PROVE  t \in D /\ created[t] <= created[s]
  <2>1. r[s] = Cardinality(earlier(s)) BY <1>2 DEF D
  <2>2. t \in D
    <3> SUFFICES ASSUME t \notin D PROVE FALSE
      OBVIOUS
    <3>1. r[t] = Cardinality(times) BY <1>2
    <3> QED BY <3>1, <2>1, <1>3, <1>5, <1>8
  <2>3. r[t] = Cardinality(earlier(t)) BY <1>2, <2>2
  <2>4. created[s] \in Nat /\ created[t] \in Nat BY <1>4, <2>2
  <2>5. Cardinality(earlier(s)) \in Nat /\ Cardinality(earlier(t)) \in Nat BY <1>5, <2>2
  <2>6. ~(created[s] < created[t]) BY <2>1, <2>2, <2>3, <2>5, <1>6, <1>8
  <2> QED BY <2>2, <2>4, <2>6
<1> QED BY <1>7, <1>8 DEF r, D

\* The IDs a pass takes new stories from are all that no story has.
LEMMA NewIDsSpare ==
    ASSUME NEW order \in IdOrders, NEW members
    PROVE  Spare(members, NewIDs(order, DOMAIN members))
<1> DEFINE n == Cardinality(Stories)
           ids == NewIDs(order, DOMAIN members)
<1>1. n \in Nat /\ IsFiniteSet(Stories)
  BY StoriesAssumption, FS_CardinalityType
<1>2. order \in [1..n -> Stories] /\ \A i, j \in 1..n : i # j => order[i] # order[j]
  BY StoriesAssumption DEF SetToSeqs
<1> HIDE DEF n
<1>3. order \in Seq(Stories) /\ Len(order) = n /\ IsInjective(order)
  BY <1>1, <1>2 DEF IsInjective
<1>4. ToSet(order) = Stories
  <2>1. ToSet(order) \subseteq Stories /\ Cardinality(ToSet(order)) = n
    BY <1>3, SeqCount
  <2> QED BY <2>1, <1>1, FS_Subset DEF n
<1>5. /\ ids \in Seq(Stories) /\ IsInjective(ids)
      /\ ToSet(ids) = ToSet(order) \cap (Stories \ DOMAIN members)
  BY <1>3, WithinMembers DEF NewIDs
<1> QED BY <1>4, <1>5 DEF Spare

-----------------------------------------------------------------------------
(* A pass up to the merges.                                                *)

\* Places are integers.
LEMMA PlacesAreIntegers ==
    ASSUME StoriesOfMany
    PROVE  place \in Places
BY PlacesAssumption DEF StoriesOfMany, Places

\* The stories a pass begins with.
LEMMA KnownStories ==
    ASSUME StoriesOfMany
    PROVE  Continues([s \in DOMAIN created |-> Members(s)])
<1> DEFINE known == [s \in DOMAIN created |-> Members(s)]
<1>1. DOMAIN known = DOMAIN created /\ \A s \in DOMAIN created : known[s] = Members(s)
  OBVIOUS
<1>2. DOMAIN created \subseteq Stories
  BY DEF StoriesOfMany
<1>3. \A s \in DOMAIN created :
         /\ known[s] \in Seq(Facets) /\ IsInjective(known[s])
         /\ ToSet(known[s]) = HomeOf(home, s)
  BY <1>1, MembersListed
<1> HIDE DEF known
<1>4. \A s \in DOMAIN created : DistinctIDs(known[s]) >= MinStorySize
  BY <1>3 DEF StoriesOfMany, DistinctIDs
<1>5. \A s, t \in DOMAIN created : s # t => ToSet(known[s]) \cap ToSet(known[t]) = {}
  BY <1>3 DEF HomeOf
<1>6. \A f \in Facets :
         home[f] \in Stories => \E s \in DOMAIN known : f \in ToSet(known[s])
  <2> TAKE f \in Facets
  <2> HAVE home[f] \in Stories
  <2>1. home[f] \in DOMAIN created BY StoriesAssumption DEF StoriesOfMany
  <2>2. f \in HomeOf(home, home[f]) BY DEF HomeOf
  <2> QED BY <2>1, <2>2, <1>1, <1>3
<1>7. Storied(known) BY <1>1, <1>2, <1>3, <1>4, <1>5 DEF Storied
<1>8. Continues(known) BY <1>1, <1>3, <1>6, <1>7 DEF Continues
<1> QED BY <1>8 DEF known

\* A pass ends with stories that continue those it began with.
LEMMA PassContinues ==
    ASSUME StoriesOfMany, NEW order \in IdOrders, Maintain(order)
    PROVE  \E d : Continues(d) /\ Merge(d)
<1> DEFINE known == [s \in DOMAIN created |-> Members(s)]
           outliers == HomeOf(home, Outlier)
           ids == NewIDs(order, DOMAIN created)
           groups == Grow(place, outliers)
           promoted == Promoted(known, groups, ids)
           left == outliers \ UNION {ToSet(groups[k]) : k \in DOMAIN groups}
           admitted == Admitted(promoted, left)
           rest == SubSeq(ids, Len(groups) + 1, Len(ids))
           divided == AllDivided(admitted, rest)
<1>1. Merge(divided)
  BY DEF Maintain
<1>2. Continues(known) /\ Storied(known) /\ DOMAIN known = DOMAIN created
  BY KnownStories DEF Continues
<1>3. Spare(known, ids)
  <2>1. Spare(known, NewIDs(order, DOMAIN known))
    <3> HIDE DEF known
    <3> QED BY NewIDsSpare
  <2> QED BY <2>1
<1>4. AllStand(place, groups, outliers) /\ outliers \in SUBSET Facets
  <2>1. outliers \in SUBSET Facets BY DEF HomeOf
  <2> HIDE DEF outliers
  <2> QED BY <2>1, PlacesAreIntegers, GrowStands
<1>5. \A s \in DOMAIN known : ToSet(known[s]) \cap outliers = {}
  <2> TAKE s \in DOMAIN known
  <2>1. ToSet(known[s]) = HomeOf(home, s) BY MembersListed
  <2>2. s # Outlier BY StoriesAssumption DEF StoriesOfMany
  <2> QED BY <2>1, <2>2 DEF HomeOf
<1> HIDE DEF known, outliers, ids, groups
<1>6. AllLoose(groups, known)
  <2>1. \A k \in DOMAIN groups : Loose(groups[k], known)
    <3> TAKE k \in DOMAIN groups
    <3>1. Stands(place, groups[k], outliers) BY <1>4 DEF AllStand
    <3> QED BY <3>1, <1>5 DEF Stands, Loose
  <2> QED BY <2>1, <1>4 DEF AllStand, AllLoose
<1>7. WithStories(promoted, known, ids, groups)
  <2>1. Len(groups) <= Len(ids) BY <1>2, <1>3, <1>6, RoomForAll
  <2> QED BY <2>1, <1>2, <1>3, <1>6, PromotedStories
<1> HIDE DEF promoted, rest, left
<1>8. /\ Storied(promoted) /\ Spare(promoted, rest)
      /\ DOMAIN promoted = DOMAIN known \cup {ids[k] : k \in DOMAIN groups}
      /\ \A s \in DOMAIN known : promoted[s] = known[s]
      /\ \A k \in DOMAIN groups : promoted[ids[k]] = groups[k]
  BY <1>7 DEF WithStories, rest
<1>9. Continues(promoted)
  <2>1. \A s \in DOMAIN created :
           /\ s \in DOMAIN promoted
           /\ ToSet(promoted[s]) \subseteq HomeOf(home, s) \cup HomeOf(home, Outlier)
    BY <1>2, <1>8 DEF Continues
  <2>2. \A f \in Facets :
           home[f] \in Stories => \E s \in DOMAIN promoted : f \in ToSet(promoted[s])
    <3> TAKE f \in Facets
    <3> HAVE home[f] \in Stories
    <3>1. PICK s \in DOMAIN known : f \in ToSet(known[s]) BY <1>2 DEF Continues
    <3> QED BY <3>1, <1>8
  <2> QED BY <2>1, <2>2, <1>8 DEF Continues
<1>10. left \in SUBSET outliers /\ \A k \in DOMAIN groups : left \cap ToSet(groups[k]) = {}
  BY DEF left
<1>11. \A s \in DOMAIN promoted : left \cap ToSet(promoted[s]) = {}
  <2> TAKE s \in DOMAIN promoted
  <2>1. CASE s \in DOMAIN known BY <2>1, <1>5, <1>8, <1>10
  <2>2. CASE s \in {ids[k] : k \in DOMAIN groups}
    <3>1. PICK k \in DOMAIN groups : s = ids[k] BY <2>2
    <3> QED BY <3>1, <1>8, <1>10
  <2> QED BY <2>1, <2>2, <1>8
<1>12. Continues(admitted) /\ DOMAIN admitted = DOMAIN promoted
  <2>1. left \in SUBSET HomeOf(home, Outlier) BY <1>10 DEF outliers
  <2> QED BY <2>1, <1>9, <1>11, AdmittedStories
<1>13. admitted = [s \in DOMAIN admitted |-> admitted[s]]
  BY DEF Admitted
<1> HIDE DEF admitted
<1>14. Spare(admitted, rest)
  BY <1>8, <1>12 DEF Spare
<1>15. Dividing(<<admitted, rest>>, DOMAIN admitted)
  BY <1>12, <1>13, <1>14 DEF Dividing
<1>16. Continues(divided)
  BY <1>15, AllDividedStories
<1> HIDE DEF divided
<1> QED BY <1>1, <1>16

-----------------------------------------------------------------------------
(* The merges, and what a pass writes.                                     *)

\* Where the merges leave every story of d.
PlanOf(d) == MergePlan(place, d, Ranked(DOMAIN d))

\* The stories that merges leave.
Live(d) == {PlanOf(d)[s] : s \in DOMAIN d}

\* A story a pass began with becomes one it began with, and no younger one.
LEMMA PlanKeepsOldest ==
    ASSUME StoriesOfMany, NEW d, Continues(d)
    PROVE  /\ PlanOf(d) \in [DOMAIN d -> DOMAIN d]
           /\ \A s \in DOMAIN d : PlanOf(d)[PlanOf(d)[s]] = PlanOf(d)[s]
           /\ \A s \in DOMAIN created :
                 /\ s \in DOMAIN d /\ PlanOf(d)[s] \in DOMAIN created
                 /\ created[PlanOf(d)[s]] <= created[s]
<1> DEFINE r == Ranked(DOMAIN d)
           plan == PlanOf(d)
<1>1. DOMAIN created \subseteq DOMAIN d /\ DOMAIN created \subseteq Stories
  BY DEF Continues, StoriesOfMany
<1>2. created \in [DOMAIN created -> Nat] /\ IsFiniteSet(DOMAIN created)
  BY <1>1, StoriesAssumption, FS_Subset DEF StoriesOfMany
<1>3. /\ \A s \in DOMAIN d : r[s] \in Nat
      /\ \A s \in DOMAIN created, t \in DOMAIN d :
            r[t] <= r[s] => t \in DOMAIN created /\ created[t] <= created[s]
  BY <1>1, <1>2, RanksFollowAge
<1>4. Grouped(d) BY StoriedGrouped DEF Continues
<1>5. place \in Places BY PlacesAreIntegers
<1> HIDE DEF r
<1>6. plan = MergePlan(place, d, r) BY DEF PlanOf, r
<1>7. \A s \in DOMAIN d : r[s] \in Int BY <1>3
<1>8. /\ plan \in [DOMAIN d -> DOMAIN d]
      /\ \A s \in DOMAIN d : plan[plan[s]] = plan[s] /\ r[plan[s]] <= r[s]
  BY <1>4, <1>5, <1>6, <1>7, MergePlanOldest
<1> HIDE DEF plan
<1>9. \A s \in DOMAIN created : /\ s \in DOMAIN d /\ plan[s] \in DOMAIN created
                                /\ created[plan[s]] <= created[s]
  BY <1>1, <1>3, <1>8
<1> QED BY <1>8, <1>9 DEF plan

\* What the end of a pass writes, in these terms.
LEMMA MergeWrites ==
    ASSUME NEW d, Merge(d), StoriesOfMany, Continues(d)
    PROVE  /\ home' = Rehomed(d, PlanOf(d))
           /\ DOMAIN created' = Live(d)
           /\ created' = [s \in Live(d) |-> created'[s]]
           /\ \A s \in Live(d) : created'[s] \in Nat
           /\ index' = [s \in Live(d) |-> Centroid(place, InOrder(HomeOf(home', s)))]
           /\ place' = place
<1> DEFINE r == Ranked(DOMAIN d)
           plan == PlanOf(d)
           live == {plan[s] : s \in DOMAIN plan}
           ranks == {r[t] : t \in live}
           earlier(s) == {q \in ranks : q < r[s]}
<1>1. /\ home' = Rehomed(d, plan)
      /\ created' = [s \in live |-> Cardinality(earlier(s))]
      /\ index' = [s \in live |-> Centroid(place, InOrder(HomeOf(home', s)))]
      /\ place' = place
  BY DEF Merge, PlanOf
<1>2. DOMAIN plan = DOMAIN d /\ live \subseteq DOMAIN d /\ live = Live(d)
  <2>1. plan \in [DOMAIN d -> DOMAIN d] BY PlanKeepsOldest
  <2>2. DOMAIN plan = DOMAIN d BY <2>1
  <2>3. \A s \in DOMAIN d : plan[s] \in DOMAIN d BY <2>1
  <2> QED BY <2>2, <2>3 DEF Live
<1>3. IsFiniteSet(live)
  <2>1. IsFiniteSet(DOMAIN d) BY StoriedGrouped DEF Continues, Grouped
  <2> HIDE DEF live
  <2> QED BY <2>1, <1>2, FS_Subset
<1> HIDE DEF live, r, plan
<1>4. IsFiniteSet(ranks) BY <1>3, FiniteValues
<1>5. \A s \in live : Cardinality(earlier(s)) \in Nat
  <2> TAKE s \in live
  <2>1. earlier(s) \in SUBSET ranks OBVIOUS
  <2> HIDE DEF earlier, ranks
  <2> QED BY <2>1, <1>4, FS_Subset, FS_CardinalityType
<1> HIDE DEF earlier, ranks
<1>6. \A s \in live : created'[s] \in Nat BY <1>1, <1>5
<1>7. DOMAIN created' = live /\ created' = [s \in live |-> created'[s]] BY <1>1
<1> QED BY <1>1, <1>2, <1>6, <1>7 DEF plan

\* The facets of a story go where the plan says.
LEMMA RehomedMembers ==
    ASSUME NEW d, Storied(d), NEW plan, NEW s \in DOMAIN d,
           NEW f, f \in ToSet(d[s])
    PROVE  f \in Facets /\ Rehomed(d, plan)[f] = plan[s]
<1>1. f \in Facets
  <2>1. d[s] \in Seq(Facets) BY DEF Storied
  <2> QED BY <2>1, SeqCount
<1>2. \A t \in DOMAIN d : f \in ToSet(d[t]) => t = s
  BY DEF Storied
<1> DEFINE c == CHOOSE t \in DOMAIN d : f \in ToSet(d[t])
<1>3. c = s BY <1>2
<1> QED BY <1>1, <1>3 DEF Rehomed

\* A pass leaves stories of many signals.
LEMMA PassKeepsStories ==
    ASSUME StoriesOfMany, NEW d, Continues(d), Merge(d)
    PROVE  StoriesOfMany'
<1> DEFINE plan == PlanOf(d)
           live == Live(d)
<1>1. /\ home' = Rehomed(d, plan)
      /\ DOMAIN created' = live
      /\ created' = [s \in live |-> created'[s]]
      /\ \A s \in live : created'[s] \in Nat
      /\ index' = [s \in live |-> Centroid(place, InOrder(HomeOf(home', s)))]
      /\ place' = place
  BY MergeWrites
<1>2. /\ plan \in [DOMAIN d -> DOMAIN d]
      /\ \A s \in DOMAIN d : plan[plan[s]] = plan[s]
  BY PlanKeepsOldest
<1>3. Storied(d) /\ DOMAIN d \subseteq Stories
  BY DEF Continues, Storied
<1>4. \A s \in DOMAIN d : \A f \in ToSet(d[s]) : f \in Facets /\ home'[f] = plan[s]
  BY <1>1, <1>3, RehomedMembers
<1>5. \A f \in Facets :
         \/ \E s \in DOMAIN d : f \in ToSet(d[s])
         \/ home'[f] \in {Outlier, Absent}
  <2> TAKE f \in Facets
  <2> SUFFICES ASSUME ~ \E s \in DOMAIN d : f \in ToSet(d[s])
               PROVE  home'[f] \in {Outlier, Absent}
    OBVIOUS
  <2>1. home'[f] = home[f] BY <1>1 DEF Rehomed
  <2>2. home[f] \notin Stories BY DEF Continues
  <2> QED BY <2>1, <2>2 DEF StoriesOfMany
<1>6. /\ live \subseteq DOMAIN d /\ \A s \in DOMAIN d : plan[s] \in live
      /\ \A s \in live : plan[s] = s
  BY <1>2 DEF Live
<1> HIDE DEF plan, live
<1>7. DOMAIN home' = Facets BY <1>1 DEF Rehomed
<1>8. home' \in [Facets -> Stories \cup {Outlier, Absent}]
  <2>1. \A f \in Facets : home'[f] \in Stories \cup {Outlier, Absent}
    BY <1>3, <1>4, <1>5, <1>6
  <2>2. home' = [f \in Facets |-> home'[f]] BY <1>1 DEF Rehomed
  <2> QED BY <2>1, <2>2
<1>9. \A s \in live : /\ d[s] \in Seq(Facets) /\ DistinctIDs(d[s]) >= MinStorySize
                      /\ ToSet(d[s]) \subseteq HomeOf(home', s)
  BY <1>3, <1>4, <1>6 DEF Storied, HomeOf
<1>10. \A s : HomeOf(home', s) \in SUBSET Facets
  BY DEF HomeOf
<1>11. \A s \in live : \E f \in Facets : f \in HomeOf(home', s)
  <2> TAKE s \in live
  <2>1. d[s] \in Seq(Facets) /\ d[s] # <<>>
    BY <1>3, <1>6, StoriedGrouped DEF Grouped
  <2>2. ToSet(d[s]) # {} BY <2>1, SeqCount
  <2> QED BY <2>2, <1>9, <1>10
<1>12. DOMAIN created' = {home'[f] : f \in Facets} \ {Outlier, Absent}
  <2>1. \A s \in live : s \in {home'[f] : f \in Facets} /\ s \notin {Outlier, Absent}
    BY <1>3, <1>6, <1>11, StoriesAssumption DEF HomeOf
  <2>2. \A f \in Facets : home'[f] \notin {Outlier, Absent} => home'[f] \in live
    BY <1>4, <1>5, <1>6
  <2> QED BY <2>1, <2>2, <1>1
<1>13. \A s \in live : Cardinality({Owner[f] : f \in HomeOf(home', s)}) >= MinStorySize
  <2> TAKE s \in live
  <2>1. /\ IsFiniteSet(HomeOf(home', s)) BY <1>10, SubsetsFinite
  <2> DEFINE all == Cardinality({Owner[f] : f \in HomeOf(home', s)})
             part == Cardinality({Owner[f] : f \in ToSet(d[s])})
  <2>2. part <= all /\ all \in Nat BY <2>1, <1>9, OwnersCount
  <2>3. part \in Nat /\ part >= MinStorySize BY <1>9, DistinctIDsCount DEF DistinctIDs
  <2> HIDE DEF all, part
  <2>4. all >= MinStorySize BY <2>2, <2>3, ThresholdsAssumption
  <2> QED BY <2>4 DEF all
<1>14. index' \in [live -> Int]
  <2>1. \A s \in live : Centroid(place, InOrder(HomeOf(home', s))) \in Int
    <3> TAKE s \in live
    <3> DEFINE G == InOrder(HomeOf(home', s))
    <3>1. G \in Seq(Facets) /\ ToSet(G) = HomeOf(home', s) BY <1>10, InOrderFacets
    <3>2. ToSet(G) # {} BY <3>1, <1>11
    <3> HIDE DEF G
    <3>3. G # <<>> BY <3>1, <3>2, SeqCount
    <3>4. Centroid(place, G) \in Int BY <3>1, <3>3, PlacesAreIntegers, CentroidIsInteger
    <3> QED BY <3>4 DEF G
  <2> QED BY <2>1, <1>1
<1>15. place' \in [Facets -> Spots] BY <1>1 DEF StoriesOfMany
<1>16. created' \in [live -> Nat] BY <1>1
<1> QED BY <1>1, <1>8, <1>12, <1>13, <1>14, <1>15, <1>16 DEF StoriesOfMany, HomeOf

-----------------------------------------------------------------------------
(* The theorems.                                                           *)

\* The nearest story is one of the index, if there is one.
LEMMA NearestIsKnown ==
    ASSUME NEW p \in Int, NEW centroids, IsFiniteSet(DOMAIN centroids),
           DOMAIN centroids \subseteq Nat, \A s \in DOMAIN centroids : centroids[s] \in Int
    PROVE  NearestStory(p, centroids) \in DOMAIN centroids \cup {Outlier}
<1> DEFINE W == {s \in DOMAIN centroids : Dist(p, centroids[s]) <= reach}
           d == [s \in W |-> Dist(p, centroids[s])]
           e == [s \in W |-> s]
           v == NearestStory(p, centroids)
<1>1. CASE W = {}
  BY <1>1 DEF NearestStory
<1>2. CASE W # {}
  <2>1. IsFiniteSet(W) BY FS_Subset
  <2>2. d \in [W -> Int] /\ e \in [W -> Int] /\ IsInjective(e)
    <3>1. \A s \in W : Dist(p, centroids[s]) \in Int BY DistIsInteger
    <3> QED BY <3>1 DEF IsInjective
  <2>3. \E a \in W : \A b \in W \ {a} : Ahead(d, e, a, b)
    <3> HIDE DEF W, d, e
    <3> QED BY <2>1, <2>2, <1>2, FirstByKeys
  <2>4. \A a, b \in W : Ahead(d, e, a, b) =>
           \/ Dist(p, centroids[a]) < Dist(p, centroids[b])
           \/ Dist(p, centroids[a]) = Dist(p, centroids[b]) /\ a < b
    BY DEF Ahead
  <2>5. \E a \in W : \A b \in W \ {a} :
           \/ Dist(p, centroids[a]) < Dist(p, centroids[b])
           \/ Dist(p, centroids[a]) = Dist(p, centroids[b]) /\ a < b
    <3> HIDE DEF W, d, e
    <3> QED BY <2>3, <2>4
  <2>6. v \in W BY <2>5, <1>2 DEF NearestStory, Foremost
  <2> HIDE DEF v
  <2>7. v \in DOMAIN centroids BY <2>6
  <2> QED BY <2>7 DEF v
<1> QED BY <1>1, <1>2

\* So is the home Ingest gives a facet: stories grow, and none comes or goes.
LEMMA IngestKeepsStories ==
    ASSUME StoriesOfMany, Ingest
    PROVE  StoriesOfMany'
<1> DEFINE absent == HomeOf(home, Absent)
           new == {f \in absent : \A g \in absent : Owner[f] <= Owner[g]}
<1>0. new \in SUBSET Facets /\ \A f \in new : home[f] = Absent
  BY DEF HomeOf
<1>1. PICK p \in [new -> Spots] :
         /\ place' = [f \in Facets |-> IF f \in new THEN p[f] ELSE place[f]]
         /\ home' = [f \in Facets |->
                IF f \in new THEN NearestStory(p[f], index) ELSE home[f]]
         /\ created' = created /\ index' = index
  BY DEF Ingest
<1> HIDE DEF new
<1> DEFINE D == DOMAIN created
<1>2. /\ D \subseteq Stories /\ DOMAIN index = D /\ IsFiniteSet(D) /\ D \subseteq Nat
      /\ \A s \in D : index[s] \in Int /\ s # Absent /\ s # Outlier
  <2>1. D \subseteq Stories BY DEF StoriesOfMany
  <2>2. DOMAIN index = D /\ \A s \in D : index[s] \in Int BY DEF StoriesOfMany
  <2> QED BY <2>1, <2>2, StoriesAssumption, FS_Subset
<1>3. \A f \in new : NearestStory(p[f], index) \in D \cup {Outlier}
  <2> TAKE f \in new
  <2>1. p[f] \in Int BY PlacesAssumption
  <2> HIDE DEF D
  <2>2. NearestStory(p[f], index) \in DOMAIN index \cup {Outlier}
    BY <2>1, <1>2, NearestIsKnown
  <2> QED BY <2>2, <1>2
<1>4. /\ \A f \in Facets : home[f] \in Stories \cup {Outlier, Absent}
      /\ \A f \in Facets : home[f] \notin {Outlier, Absent} => home[f] \in D
      /\ \A s \in D : \E f \in Facets : home[f] = s
  BY DEF StoriesOfMany
<1>5. \A f \in Facets : home'[f] = IF f \in new THEN NearestStory(p[f], index) ELSE home[f]
  BY <1>1
<1> HIDE DEF D
<1>6. home' \in [Facets -> Stories \cup {Outlier, Absent}]
  <2>1. \A f \in Facets : home'[f] \in Stories \cup {Outlier, Absent}
    BY <1>2, <1>3, <1>4, <1>5
  <2>2. home' = [f \in Facets |-> home'[f]] BY <1>1
  <2> QED BY <2>1, <2>2
<1>7. D = {home'[f] : f \in Facets} \ {Outlier, Absent}
  <2>1. ASSUME NEW s \in D
        PROVE  s \in {home'[f] : f \in Facets} /\ s \notin {Outlier, Absent}
    <3>1. PICK f \in Facets : home[f] = s BY <1>4
    <3>2. f \notin new BY <3>1, <1>0, <1>1, <1>2
    <3> QED BY <3>1, <3>2, <1>2, <1>5
  <2>2. \A f \in Facets : home'[f] \notin {Outlier, Absent} => home'[f] \in D
    BY <1>3, <1>4, <1>5
  <2> QED BY <2>1, <2>2
<1>8. \A s \in D : Cardinality({Owner[f] : f \in HomeOf(home', s)}) >= MinStorySize
  <2> TAKE s \in D
  <2>1. HomeOf(home, s) \in SUBSET HomeOf(home', s)
    BY <1>0, <1>1, <1>2, <1>5 DEF HomeOf
  <2>2. IsFiniteSet(HomeOf(home', s)) /\ IsFiniteSet(HomeOf(home, s))
    BY SubsetsFinite DEF HomeOf
  <2> DEFINE all == Cardinality({Owner[f] : f \in HomeOf(home', s)})
             was == Cardinality({Owner[f] : f \in HomeOf(home, s)})
  <2>3. was <= all /\ all \in Nat BY <2>1, <2>2, OwnersCount
  <2>4. was \in Nat BY <2>2, OwnersCount
  <2>5. was >= MinStorySize BY DEF StoriesOfMany, D
  <2> HIDE DEF all, was
  <2>6. all >= MinStorySize BY <2>3, <2>4, <2>5, ThresholdsAssumption
  <2> QED BY <2>6 DEF all
<1>9. place' \in [Facets -> Spots]
  BY <1>0, <1>1 DEF StoriesOfMany
<1> QED BY <1>1, <1>2, <1>6, <1>7, <1>8, <1>9 DEF StoriesOfMany, D, HomeOf

\* No step loses it.
LEMMA StepKeepsStories ==
    StoriesOfMany /\ [Next]_vars => StoriesOfMany'
<1> SUFFICES ASSUME StoriesOfMany, [Next]_vars PROVE StoriesOfMany'
  OBVIOUS
<1>1. CASE Ingest BY <1>1, IngestKeepsStories
<1>2. ASSUME NEW order \in IdOrders, Maintain(order) PROVE StoriesOfMany'
  BY <1>2, PassContinues, PassKeepsStories
<1>3. CASE UNCHANGED vars
  BY <1>3 DEF vars, StoriesOfMany, HomeOf
<1> QED BY <1>1, <1>2, <1>3 DEF Next

\* Every story holds the facets of MinStorySize signals, whatever the facets,
\* their places, the thresholds and the stories are (Params.MinSize, through
\* promotion, admission, splits and merges): for all instances.
THEOREM StoriesStayOfMany == Spec => []StoriesOfMany
<1>1. Init => StoriesOfMany
  <2> SUFFICES ASSUME Init PROVE StoriesOfMany
    OBVIOUS
  <2>1. (CHOOSE p \in Spots : TRUE) \in Spots BY PlacesAssumption
  <2>2. place \in [Facets -> Spots] BY <2>1 DEF Init
  <2>3. home \in [Facets -> Stories \cup {Outlier, Absent}] BY DEF Init
  <2>4. {home[f] : f \in Facets} \ {Outlier, Absent} = {} BY DEF Init
  <2>5. DOMAIN created = {} /\ created \in [{} -> Nat] /\ index \in [{} -> Int]
    BY DEF Init, NoStories
  <2> QED BY <2>2, <2>3, <2>4, <2>5 DEF StoriesOfMany
<1> QED BY <1>1, StepKeepsStories, PTL DEF Spec

\* The groups Grow finds among the outliers are disjoint and within the
\* assignment radius (growFrom, compactToRadius): for all instances.
THEOREM GroupsStayCompact == Spec => []GroupsCompact
<1>1. StoriesOfMany => GroupsCompact
  <2> SUFFICES ASSUME StoriesOfMany PROVE GroupsCompact
    OBVIOUS
  <2> DEFINE P == HomeOf(home, Outlier)
             groups == Grow(place, P)
  <2>1. place \in Places BY PlacesAreIntegers
  <2>2. P \in SUBSET Facets BY DEF HomeOf
  <2>3. AllStand(place, groups, P)
    <3> HIDE DEF P
    <3> QED BY <2>1, <2>2, GrowStands
  <2> HIDE DEF groups
  <2>4. \A i \in DOMAIN groups : Radius(place, groups[i]) <= AssignThreshold
    <3> TAKE i \in DOMAIN groups
    <3>1. /\ groups[i] \in Seq(Facets) /\ DistinctIDs(groups[i]) >= MinStorySize
          /\ Compact(place, groups[i])
      BY <2>3 DEF AllStand, Stands
    <3>2. groups[i] # <<>>
      <4>1. DistinctIDs(groups[i]) \in Nat /\ DistinctIDs(groups[i]) <= Len(groups[i])
            /\ Len(groups[i]) \in Nat
        BY <3>1, DistinctIDsCount
      <4>2. Len(groups[i]) # 0 BY <3>1, <4>1, ThresholdsAssumption
      <4> QED BY <4>2, <3>1, SeqCount
    <3>3. PICK f \in ToSet(groups[i]) :
             Dist(place[f], Centroid(place, groups[i])) = Radius(place, groups[i])
      BY <2>1, <3>1, <3>2, RadiusCovers
    <3> QED BY <3>1, <3>3 DEF Compact
  <2>5. Disjoint(groups) BY <2>3 DEF AllStand
  <2> QED BY <2>4, <2>5 DEF GroupsCompact, Disjoint, groups
<1> QED BY <1>1, StoriesStayOfMany, PTL

\* No gate of Split turns away a story that any cut would divide: for all
\* instances.
THEOREM GatesNeverMiss == Spec => []GatesMissNothing
<1>1. StoriesOfMany => GatesMissNothing
  <2> SUFFICES ASSUME StoriesOfMany, NEW s \in DOMAIN created,
                      ~MayDivide(place, Members(s)), NEW cut \in SUBSET HomeOf(home, s)
               PROVE  ~Apart(place, Within(Members(s), cut),
                                    Within(Members(s), HomeOf(home, s) \ cut))
    BY DEF GatesMissNothing
  <2> DEFINE G == Members(s)
             left == Within(G, cut)
             right == Within(G, HomeOf(home, s) \ cut)
  <2>1. G \in Seq(Facets) /\ IsInjective(G) /\ ToSet(G) = HomeOf(home, s)
    BY MembersListed
  <2>2. ~MayDivide(place, G) OBVIOUS
  <2> HIDE DEF G
  <2>3. left \in Seq(Facets) /\ IsInjective(left) /\ ToSet(left) = ToSet(G) \cap cut
    BY <2>1, WithinMembers
  <2>4. /\ right \in Seq(Facets) /\ IsInjective(right)
        /\ ToSet(right) = ToSet(G) \cap (HomeOf(home, s) \ cut)
    BY <2>1, WithinMembers
  <2> HIDE DEF left, right
  <2>5. /\ ToSet(left) \subseteq ToSet(G) /\ ToSet(right) \subseteq ToSet(G)
        /\ ToSet(left) \cap ToSet(right) = {}
    BY <2>3, <2>4
  <2>6. ~Apart(place, left, right)
    BY <2>1, <2>2, <2>3, <2>4, <2>5, PlacesAreIntegers, GatesSound
  <2> QED BY <2>6 DEF left, right, G
<1> QED BY <1>1, StoriesStayOfMany, PTL

\* One pass.
LEMMA PassRetiresIntoOlder ==
    ASSUME StoriesOfMany, NEW d, Continues(d), Merge(d),
           NEW s \in DOMAIN created \ DOMAIN created'
    PROVE  \E t \in DOMAIN created \cap DOMAIN created' :
              /\ created[t] <= created[s]
              /\ \E f \in Facets : home[f] \in {s, Outlier} /\ home'[f] = t
<1> DEFINE t == PlanOf(d)[s]
<1>1. s \in DOMAIN d /\ t \in DOMAIN created /\ created[t] <= created[s]
  BY PlanKeepsOldest
<1>2. t \in DOMAIN created'
  <2>1. t \in Live(d) BY <1>1 DEF Live
  <2>2. DOMAIN created' = Live(d) BY MergeWrites
  <2> QED BY <2>1, <2>2
<1>3. Storied(d) /\ Grouped(d)
  BY StoriedGrouped DEF Continues
<1>4. PICK f : f \in ToSet(d[s])
  <2>1. d[s] \in Seq(Facets) /\ d[s] # <<>> BY <1>1, <1>3 DEF Grouped
  <2> QED BY <2>1, SeqCount
<1>5. f \in Facets /\ home'[f] = t
  BY <1>1, <1>3, <1>4, RehomedMembers, MergeWrites
<1>6. home[f] \in {s, Outlier}
  BY <1>4 DEF Continues, HomeOf
<1> HIDE DEF t
<1> QED BY <1>1, <1>2, <1>5, <1>6

\* A story ID goes only when an older story absorbs the facets (Survivor, and
\* createdAt of what a pass promotes): for all instances.
THEOREM RetiresIntoOlder == Spec => RetiredIntoOlder
<1> DEFINE Older == \A s \in DOMAIN created \ DOMAIN created' :
                       \E t \in DOMAIN created \cap DOMAIN created' :
                          /\ created[t] <= created[s]
                          /\ \E f \in Facets : home[f] \in {s, Outlier} /\ home'[f] = t
<1>1. StoriesOfMany /\ [Next]_vars => [Older]_vars
  <2> SUFFICES ASSUME StoriesOfMany, Next PROVE Older
    OBVIOUS
  <2>1. CASE Ingest BY <2>1 DEF Ingest
  <2>2. ASSUME NEW order \in IdOrders, Maintain(order) PROVE Older
    <3>1. PICK d : Continues(d) /\ Merge(d) BY <2>2, PassContinues
    <3> QED BY <3>1, PassRetiresIntoOlder
  <2> QED BY <2>1, <2>2 DEF Next
<1>2. Spec => [][Older]_vars
  <2> HIDE DEF Older
  <2> QED BY <1>1, StoriesStayOfMany, PTL DEF Spec
<1> QED BY <1>2 DEF RetiredIntoOlder
=============================================================================
