---------------------------- MODULE StableHomes ----------------------------
(***************************************************************************)
(* What the tracker promises about membership ("Membership stability" in   *)
(* DESIGN.md): every facet has one home, and a facet that has a story      *)
(* leaves it only together with a whole group, in a split or in a merge.   *)
(***************************************************************************)
CONSTANTS
    Signals, Facets, Stories,
    Enough(_),      \* whether a set of signals is large enough to be a story
    Outlier, Nowhere

VARIABLE home       \* the story of each facet, Outlier, or Nowhere

Homes == Stories \cup {Outlier, Nowhere}

At(p) == {k \in Signals \X Facets : home[k[1]][k[2]] = p}
SignalsOf(group) == {k[1] : k \in group}
Moved(group, S) ==
    [s \in Signals |-> [f \in Facets |->
        IF <<s, f>> \in group THEN S ELSE home[s][f]]]

Init == home = [s \in Signals |-> [f \in Facets |-> Nowhere]]

\* A signal nothing is known of is placed, all of its facets at once.
Arrive(s) ==
    /\ \A f \in Facets : home[s][f] = Nowhere
    /\ \E h \in [Facets -> Homes] : home' = [home EXCEPT ![s] = h]

\* Outliers join a story; if nobody is in it yet, enough signals must.
Join(S) ==
    \E group \in SUBSET At(Outlier) :
        /\ At(S) = {} => Enough(SignalsOf(group))
        /\ home' = Moved(group, S)

\* A group leaves for another story: both sides are large enough to be one.
Split(S, child) ==
    \E group \in SUBSET At(S) :
        /\ Enough(SignalsOf(group))
        /\ Enough(SignalsOf(At(S) \ group))
        /\ home' = Moved(group, child)

\* All of a story moves to another that has members.
Merge(S, survivor) ==
    /\ At(survivor) # {}
    /\ home' = Moved(At(S), survivor)

\* Outliers expire, all those of a signal together.
Expire(signals) ==
    home' = Moved({k \in At(Outlier) : k[1] \in signals}, Nowhere)

Next ==
    \/ \E s \in Signals : Arrive(s)
    \/ \E S \in Stories : Join(S)
    \/ \E S, T \in Stories : Split(S, T) \/ Merge(S, T)
    \/ \E signals \in SUBSET Signals : Expire(signals)

Spec == Init /\ [][Next]_home
=============================================================================
