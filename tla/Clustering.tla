----------------------------- MODULE Clustering -----------------------------
(***************************************************************************)
(* The decisions of package cluster: which loose facets form a group, when *)
(* one group is two, and when two groups are one.                          *)
(*                                                                         *)
(* Facets are numbered in the order of `less`, (signal ID, facet).  A      *)
(* group is a sequence of them, in the order the caller holds them.  x     *)
(* gives every facet its place on a line; the cosine distance of two       *)
(* directions of one plane is, at the small angles stories live at, the    *)
(* square of the angle between them, and that square is the distance here. *)
(* Places are multiples of Unit, a common multiple of the sizes a group    *)
(* has, so that a centroid is an integer.  The section Faults is no part   *)
(* of the model.                                                           *)
(***************************************************************************)
EXTENDS Integers, Sequences, FiniteSets, FiniteSetsExt, SequencesExt, Functions

CONSTANTS
    Facets,          \* the facets, numbered in the order of less
    Owner,           \* Point.ID: the signal of each facet
    At,              \* Point.At: the timestamp of each facet
    AssignThreshold, \* Params.Assign
    MergeThreshold,  \* Params.Merge
    SplitThreshold,  \* Params.Split
    MinStorySize,    \* Params.MinSize
    Unit             \* the spacing of the places

ASSUME FacetsAssumption == IsFiniteSet(Facets) /\ Facets \subseteq Nat \ {0}

\* What Config.validate enforces of the thresholds.
ASSUME ThresholdsAssumption ==
    /\ MinStorySize \in Nat /\ MinStorySize >= 2
    /\ {MergeThreshold, AssignThreshold, SplitThreshold} \subseteq Nat \ {0}
    /\ MergeThreshold < AssignThreshold
    /\ MergeThreshold < SplitThreshold

\* Centroids are exact.
ASSUME UnitAssumption == \A n \in 1..Cardinality(Facets) : Unit % n = 0

-----------------------------------------------------------------------------
(* Geometry.                                                               *)

\* The member of S that Before puts ahead of all others.
Foremost(S, Before(_, _)) ==
    CHOOSE a \in S : \A b \in S \ {a} : Before(a, b)

\* What G has of the set P, in the order of G.
Within(G, P) == FoldLeft(LAMBDA q, e : IF e \in P THEN Append(q, e) ELSE q, <<>>, G)

\* The numbers of S from the least: what the code iterates over sorted by ID.
InOrder(S) == Within([n \in 1..Max(S \cup {0}) |-> n], S)

Dist(a, b) == (a - b) * (a - b)

Centroid(x, G) == MapThenSumSet(LAMBDA f : x[f], ToSet(G)) \div Len(G)

Radius(x, G) == Max({Dist(x[f], Centroid(x, G)) : f \in ToSet(G)})

(* Faults *)
EuclideanSeparation(r) == 2 * r
(* End of Faults *)

\* Two directions at angle a of a centre are at most 2a apart.
MaxAngularSeparation(r) == 4 * r

(* Faults *)
CountFacets(G) == Len(G)
(* End of Faults *)

\* Sizes count signals: many facets of one signal are one.
DistinctIDs(G) == Cardinality({Owner[f] : f \in ToSet(G)})

-----------------------------------------------------------------------------
(* Grow: groups among loose facets.                                        *)

Degree(x, P, f) ==
    Cardinality({g \in P \ {f} : Dist(x[f], x[g]) <= AssignThreshold})

\* From a seed, admit whichever of the others is nearest the running centroid,
\* the last of equals, for as long as one is within the radius.
Extend(x, seed, others) ==
    LET grown[G \in Seq(Facets) \ {<<>>}] ==
            LET d(f) == Dist(x[f], Centroid(x, G))
                near == {f \in others \ ToSet(G) : d(f) <= AssignThreshold}
                next == Foremost(near, LAMBDA f, g :
                                           d(f) < d(g) \/ (d(f) = d(g) /\ f > g))
            IN  IF near = {} THEN G ELSE grown[Append(G, next)]
    IN  grown[<<seed>>]

(* Faults *)
NotCompacted(x, G) == G
(* End of Faults *)

\* Drop the member furthest outside the radius, recentre, repeat.
CompactToRadius(x, G) ==
    LET kept[H \in Seq(Facets)] ==
            LET d(i) == Dist(x[H[i]], Centroid(x, H))
                outside == {i \in DOMAIN H : d(i) > AssignThreshold}
                worst == Foremost(outside, LAMBDA i, j :
                                               d(i) > d(j) \/ (d(i) = d(j) /\ i < j))
            IN  IF Len(H) <= 1 \/ outside = {} THEN H ELSE kept[RemoveAt(H, worst)]
    IN  kept[G]

\* The group that grows from a seed among the free facets.
GroupAt(x, seed, free) == CompactToRadius(x, Extend(x, seed, free \ {seed}))

\* The groups among P.  Degrees count all of P.  A seed whose group does not
\* stand is retired alone.
Groups(x, P) ==
    LET grow[free \in SUBSET P] ==
            LET deg == [f \in free |-> Degree(x, P, f)]
                seed == Foremost(free, LAMBDA f, g :
                                           deg[f] > deg[g] \/ (deg[f] = deg[g] /\ f < g))
                group == GroupAt(x, seed, free)
            IN  IF free = {} THEN <<>>
                ELSE IF deg[seed] < MinStorySize - 1 THEN <<>>
                ELSE IF DistinctIDs(group) < MinStorySize THEN grow[free \ {seed}]
                ELSE <<group>> \o grow[free \ ToSet(group)]
    IN  grow[P]

Grow(x, P) == IF Cardinality(P) < MinStorySize THEN <<>> ELSE Groups(x, P)

-----------------------------------------------------------------------------
(* Split: the two groups a group holds, or none.                           *)

\* The two positions of G furthest apart.
TwoMedoids(x, G) ==
    LET d(p) == Dist(x[G[p[1]]], x[G[p[2]]])
    IN  Foremost({p \in (1..Len(G)) \X (1..Len(G)) : p[1] < p[2]},
            LAMBDA p, q : \/ d(p) > d(q)
                          \/ d(p) = d(q) /\ G[p[1]] < G[q[1]]
                          \/ d(p) = d(q) /\ p[1] = q[1] /\ p[2] < q[2])

MedoidOf(x, part) ==
    LET total(f) == MapThenSumSet(LAMBDA g : Dist(x[f], x[g]), ToSet(part))
    IN  Foremost(ToSet(part), LAMBDA f, g :
            total(f) < total(g) \/ (total(f) = total(g) /\ f < g))

\* G cut between the facets a and b.
Sides(x, G, a, b) ==
    LET nearA == {f \in ToSet(G) : Dist(x[f], x[a]) <= Dist(x[f], x[b])}
    IN  <<Within(G, nearA), Within(G, ToSet(G) \ nearA)>>

\* Ten rounds from a and b, each between the medoids of the sides of the one
\* before.  (A round that moves neither medoid repeats the one before.)
Parts(x, G, a, b) ==
    LET round[n \in 1..10] ==
            IF n = 1 THEN Sides(x, G, a, b)
            ELSE LET sides == round[n - 1]
                 IN  IF <<>> \in ToSet(sides) THEN sides
                     ELSE Sides(x, G, MedoidOf(x, sides[1]), MedoidOf(x, sides[2]))
    IN  round[10]

Earliest(part) == Min({At[f] : f \in ToSet(part)})

\* The gates a group passes before a division is looked for.
MayDivide(x, G) ==
    /\ Len(G) >= 2 * MinStorySize
    /\ MaxAngularSeparation(Radius(x, G)) > SplitThreshold

(* Faults *)
ApartAtAll(x, left, right) ==
    /\ DistinctIDs(left) >= MinStorySize
    /\ DistinctIDs(right) >= MinStorySize
(* End of Faults *)

Apart(x, left, right) ==
    /\ DistinctIDs(left) >= MinStorySize
    /\ DistinctIDs(right) >= MinStorySize
    /\ Dist(Centroid(x, left), Centroid(x, right)) > SplitThreshold

Whole == <<>>

\* Split: <<keep, spawn>>, or Whole.
Division(x, G) ==
    LET s == TwoMedoids(x, G)
        parts == Parts(x, G, G[s[1]], G[s[2]])
        left == parts[1]
        right == parts[2]
    IN  IF ~MayDivide(x, G) THEN Whole
        ELSE IF ~Apart(x, left, right) THEN Whole
        ELSE IF \/ Len(right) > Len(left)
                \/ Len(right) = Len(left) /\ Earliest(right) < Earliest(left)
             THEN <<right, left>>
             ELSE <<left, right>>

-----------------------------------------------------------------------------
(* PlanMerges: which stories are one.  members gives each story its group, *)
(* created its time of creation.                                           *)

Union(members, ids) == FoldLeft(LAMBDA union, s : union \o members[s], <<>>, ids)

\* The clique of seed: the stories of V, by ID, that are near all before them.
Clique(near, seed, V) ==
    FoldLeft(LAMBDA ids, s : IF \A t \in ToSet(ids) : {s, t} \in near
                             THEN Append(ids, s) ELSE ids,
             <<seed>>, InOrder(V \ {seed}))

\* The cliques of at least two among V, that of the highest degree first.
Cliques(near, V) ==
    LET cliques[W \in SUBSET V] ==
            LET deg == [s \in W |-> Cardinality({t \in W : {s, t} \in near})]
                seed == Foremost(W, LAMBDA s, t :
                                        deg[s] > deg[t] \/ (deg[s] = deg[t] /\ s < t))
                ids == Clique(near, seed, W)
            IN  IF W = {} THEN <<>>
                ELSE IF deg[seed] < 1 THEN <<>>
                ELSE <<ids>> \o cliques[W \ ToSet(ids)]
    IN  cliques[V]

\* Drop the story furthest from the centre of the union, until Split would
\* leave the union whole.
CompactMergeGroup(x, members, group) ==
    LET kept[ids \in Seq(DOMAIN members)] ==
            LET union == Union(members, ids)
                d(i) == Dist(Centroid(x, members[ids[i]]), Centroid(x, union))
                worst == Foremost(DOMAIN ids, LAMBDA i, j :
                                                  d(i) > d(j) \/ (d(i) = d(j) /\ i < j))
            IN  IF Len(ids) < 2 THEN <<>>
                ELSE IF Division(x, union) = Whole THEN ids
                ELSE kept[RemoveAt(ids, worst)]
    IN  kept[group]

(* Faults *)
Youngest(created, ids) ==
    Foremost(ToSet(ids), LAMBDA s, t :
        created[s] > created[t] \/ (created[s] = created[t] /\ s < t))
(* End of Faults *)

\* The oldest story, of equals the one with the lower ID.
Survivor(created, ids) ==
    Foremost(ToSet(ids), LAMBDA s, t :
        created[s] < created[t] \/ (created[s] = created[t] /\ s < t))

\* What becomes of each story: itself, or the story that absorbs it.
MergePlan(x, members, created) ==
    LET ids == DOMAIN members
        near == {p \in SUBSET ids :
                     /\ Cardinality(p) = 2
                     /\ \A s, t \in p : Dist(Centroid(x, members[s]), Centroid(x, members[t]))
                                            <= MergeThreshold}
        found == Cliques(near, ids)
        groups == {CompactMergeGroup(x, members, found[i]) : i \in DOMAIN found}
    IN  [s \in ids |->
            IF \E g \in groups : s \in ToSet(g)
            THEN Survivor(created, CHOOSE g \in groups : s \in ToSet(g))
            ELSE s]
=============================================================================
