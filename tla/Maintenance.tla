---------------------------- MODULE Maintenance ----------------------------
(***************************************************************************)
(* What a series of maintenance passes makes of a corpus: signals are      *)
(* drafted into the stories of the index or held as outliers, and each     *)
(* pass promotes, admits, splits and merges by the decisions of Clustering.*)
(* FacetPlacement leaves those decisions free and looks at the store; here *)
(* the store is just the home of each facet and the decisions are exact.   *)
(*                                                                         *)
(* All signals are recent: nothing ages, and the recent centroid is the    *)
(* centroid.  Stories are below ColdStartMinSignals, so that one admission *)
(* radius, reach, serves them all; each pass ends with another one, as     *)
(* sigmaGlobal, a moving average, moves also when nothing has arrived.     *)
(* The geometry is fixed: a pass over unchanged data measures the mean it  *)
(* had.  Signals arrive in the order of their IDs.  A story ID is a hash,  *)
(* so the order of new IDs is one of IdOrders.                             *)
(***************************************************************************)
EXTENDS Clustering

CONSTANTS
    Spots,      \* the places a facet may have
    Stories,    \* story IDs, numbers
    IdOrders,   \* the orders in which pass derives new story IDs
    Reaches,    \* what clampAssign(AssignmentK * sigmaGlobal) may be
    Outlier,    \* the home of a facet no story holds
    Absent      \* the home of a facet not yet delivered

ASSUME StoriesAssumption ==
    /\ IsFiniteSet(Stories) /\ Stories \subseteq Nat \ {0}
    /\ IdOrders \subseteq SetToSeqs(Stories)
    /\ {Outlier, Absent} \cap Stories = {} /\ Outlier # Absent

\* IDs do not run out: a story holds the facets of MinStorySize signals.
ASSUME EnoughStories == Cardinality(Stories) * MinStorySize >= Cardinality(Facets)

ASSUME PlacesAssumption ==
    /\ Spots \subseteq Int /\ Spots # {} /\ \A p \in Spots : p % Unit = 0
    /\ Reaches \subseteq 1..AssignThreshold

VARIABLES
    place,      \* the place of each facet
    home,       \* where each facet is: a story, Outlier or Absent
    created,    \* the rank of each story's time of creation
    index,      \* the centroid of each story in the story index
    reach,      \* the radius within which a story takes a facet in
    before      \* history: home before the last pass, if nothing arrived since

vars == <<place, home, created, index, reach, before>>

NoStories == [s \in {} |-> 0]

Init ==
    /\ place \in [Facets -> {CHOOSE p \in Spots : TRUE}]
    /\ home = [f \in Facets |-> Absent]
    /\ created = NoStories
    /\ index = NoStories
    /\ reach \in Reaches
    /\ before = home

HomeOf(h, s) == {f \in Facets : h[f] = s}

\* Keys of one story are scanned in the order of (signal, facet).
Members(s) == InOrder(HomeOf(home, s))

\* The story of least distance within the radius, of equals the lower ID.
NearestStory(p, centroids) ==
    LET d(s) == Dist(p, centroids[s])
        within == {s \in DOMAIN centroids : d(s) <= reach}
    IN  IF within = {} THEN Outlier
        ELSE Foremost(within, LAMBDA s, t : d(s) < d(t) \/ (d(s) = d(t) /\ s < t))

\* Ingest of the next signal: each facet joins the nearest story of the index
\* or is held.
Ingest ==
    LET absent == HomeOf(home, Absent)
        new == {f \in absent : \A g \in absent : Owner[f] <= Owner[g]}
    IN  /\ absent # {}
        /\ \E p \in [new -> Spots] :
              /\ place' = [f \in Facets |-> IF f \in new THEN p[f] ELSE place[f]]
              /\ home' = [f \in Facets |->
                     IF f \in new THEN NearestStory(p[f], index) ELSE home[f]]
        /\ before' = home'
        /\ UNCHANGED <<created, index, reach>>

-----------------------------------------------------------------------------
(* A pass.  Each step takes the members of the stories to new ones.        *)

Centroids(members) == [s \in DOMAIN members |-> Centroid(place, members[s])]

\* The first n IDs of the order that no story has.
NewIDs(order, taken) == Within(order, Stories \ taken)

\* Step 2: groups among the outliers become stories.
Promoted(members, groups, ids) ==
    [s \in DOMAIN members \cup {ids[k] : k \in DOMAIN groups} |->
        IF s \in DOMAIN members THEN members[s]
        ELSE groups[CHOOSE k \in DOMAIN groups : ids[k] = s]]

\* Step 3: what is left over joins the nearest story, as it was before.
Admitted(members, outliers) ==
    LET joins(s) == {f \in outliers : NearestStory(place[f], Centroids(members)) = s}
    IN  [s \in DOMAIN members |-> members[s] \o InOrder(joins(s))]

\* Step 4: a story that holds two groups loses one of them to a new story.
\* state is what each story has, and the IDs that are left.
Divided(state, s) ==
    LET members == state[1]
        ids == state[2]
        parts == Division(place, members[s])
    IN  IF parts = Whole THEN state
        ELSE <<[t \in DOMAIN members \cup {Head(ids)} |->
                   CASE t = s -> parts[1]
                     [] t = Head(ids) -> parts[2]
                     [] OTHER -> members[t]],
               Tail(ids)>>

\* Every story of before the step, by ID.
AllDivided(members, ids) ==
    FoldLeft(Divided, <<members, ids>>, InOrder(DOMAIN members))[1]

\* The ranks of the times of creation, when the stories of S not in created
\* are new.
Ranked(S) ==
    LET old == S \cap DOMAIN created
        rank(s) == Cardinality({created[t] : t \in {t \in old : created[t] < created[s]}})
    IN  [s \in S |-> IF s \in old THEN rank(s) ELSE Cardinality({created[t] : t \in old})]

\* The home of each facet when plan says what becomes of each story.
Rehomed(members, plan) ==
    [f \in Facets |->
        IF \E s \in DOMAIN members : f \in ToSet(members[s])
        THEN plan[CHOOSE s \in DOMAIN members : f \in ToSet(members[s])]
        ELSE home[f]]

\* Step 5, the merges, and what the pass writes.  (Here and below each \E names
\* the one result of a step.)
Merge(divided) ==
    \E rank \in {Ranked(DOMAIN divided)} :
    \E plan \in {MergePlan(place, divided, rank)} :
    \E live \in {{plan[s] : s \in DOMAIN plan}} :
        /\ home' = Rehomed(divided, plan)
        /\ created' = [s \in live |->
               Cardinality({r \in {rank[t] : t \in live} : r < rank[s]})]
        /\ index' = [s \in live |-> Centroid(place, InOrder(HomeOf(home', s)))]
        /\ reach' \in Reaches
        /\ before' = home
        /\ UNCHANGED place

\* The transaction of a pass.
Maintain(order) ==
    LET known == [s \in DOMAIN created |-> Members(s)]
        outliers == HomeOf(home, Outlier)
        ids == NewIDs(order, DOMAIN created)
    IN  \E groups \in {Grow(place, outliers)} :
        \E promoted \in {Promoted(known, groups, ids)} :
        \E admitted \in {Admitted(promoted,
                outliers \ UNION {ToSet(groups[k]) : k \in DOMAIN groups})} :
        \E divided \in {AllDivided(admitted, SubSeq(ids, Len(groups) + 1, Len(ids)))} :
            Merge(divided)

Next == Ingest \/ \E order \in IdOrders : Maintain(order)

\* No fairness: nobody has to deliver anything, and what is said of the passes
\* below holds however seldom they run.
Spec == Init /\ [][Next]_vars

-----------------------------------------------------------------------------
(* Properties.                                                             *)

\* Every story, however promotion, admission, splits and merges made it, holds
\* the facets of MinStorySize distinct signals: a signal cannot give itself a
\* story by carrying many facets (Params.MinSize), and no split cuts one down
\* below that.  The records and the index name the stories that have members.
StoriesOfMany ==
    /\ place \in [Facets -> Spots]
    /\ home \in [Facets -> Stories \cup {Outlier, Absent}]
    /\ DOMAIN created = {home[f] : f \in Facets} \ {Outlier, Absent}
    /\ created \in [DOMAIN created -> Nat] /\ index \in [DOMAIN created -> Int]
    /\ \A s \in DOMAIN created :
          Cardinality({Owner[f] : f \in HomeOf(home, s)}) >= MinStorySize

\* Whatever outliers there are, the groups Grow finds share no facet, and each
\* lies within the assignment radius of its own centroid, so that no two of
\* its members are further apart than MaxAngularSeparation of that radius: the
\* path the running centroid took leaves no ladder of neighbours behind.
GroupsCompact ==
    LET groups == Grow(place, HomeOf(home, Outlier))
    IN  \A i \in DOMAIN groups :
           /\ Radius(place, groups[i]) <= AssignThreshold
           /\ \A j \in DOMAIN groups \ {i} : ToSet(groups[i]) \cap ToSet(groups[j]) = {}

\* The cheap gates in front of the search for a division turn away no story
\* that any cut would divide: no cut into two parts of MinStorySize signals has
\* its centroids more than SplitThreshold apart.
GatesMissNothing ==
    \A s \in DOMAIN created :
       ~MayDivide(place, Members(s)) =>
          \A cut \in SUBSET HomeOf(home, s) :
             ~Apart(place, Within(Members(s), cut),
                           Within(Members(s), HomeOf(home, s) \ cut))

Placed(h, f) == h[f] \notin {Outlier, Absent}

\* A pass does not undo the pass before it: with nothing delivered in between,
\* two facets a pass has brought together stay together in the next, and two
\* that it has separated stay apart.  Merge and split agree on what one story
\* is, and the band between their thresholds keeps them from alternating.
NothingUndone ==
    [][\A f, g \in {f \in Facets : Placed(before, f)} :
          (/\ before' = home
           /\ (before[f] = before[g]) # (home[f] = home[g]))
              => ((home'[f] = home'[g]) = (home[f] = home[g]))]_vars

\* A story ID goes only when an older story of the same collection absorbs
\* facets of it: readers who hold the ID of the oldest of several stories that
\* turn out to be one keep it, whatever was promoted, admitted or split in the
\* same pass.  (The facets absorbed may be outliers the story took in in the same
\* pass: when the pass also splits it, the old members may go to the spawn, and
\* the admitted ones, kept, into the older story.)
RetiredIntoOlder ==
    [][\A s \in DOMAIN created \ DOMAIN created' :
          \E t \in DOMAIN created \cap DOMAIN created' :
             /\ created[t] <= created[s]
             /\ \E f \in Facets : home[f] \in {s, Outlier} /\ home'[f] = t]_vars

\* The README says that a re-run over unchanged data changes nothing.  (If the
\* last step was a pass that changed something, before differs from home.)
RerunChangesNothing ==
    [][(before # home /\ before' = home) => home' = home]_vars
=============================================================================
