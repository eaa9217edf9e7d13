----------------------- MODULE FacetPlacement_proofs -----------------------
(***************************************************************************)
(* Type correctness of FacetPlacement, that its location index never names *)
(* a place that does not hold the facet, and that a merge leaves nothing   *)
(* behind, for every number of signals, stories, facets and callers and    *)
(* every pattern of deliveries.                                            *)
(***************************************************************************)
EXTENDS FacetPlacement, FiniteSetTheorems, TLAPS

USE DEF Facets, Places, TxPhases

\* The initial state is well typed.
LEMMA InitTypeOK == Init => TypeOK
  BY ConstantsAssumption DEF Init, TypeOK

\* Moving well-typed facets to a place keeps markers and index well typed.
LEMMA MoveTyped ==
  ASSUME TypeOK, NEW ms \in SUBSET (Places \X Signals \X Facets), NEW to \in Places
  PROVE  /\ HeldAfterMove(ms, to) \subseteq Places \X Signals \X Facets
         /\ LocAfterMove(ms, to) \in [Signals -> [Facets -> Places \cup {Nowhere}]]
  <1>1. HeldAfterMove(ms, to) \subseteq Places \X Signals \X Facets
    BY DEF TypeOK, HeldAfterMove
  <1>2. LocAfterMove(ms, to) \in [Signals -> [Facets -> Places \cup {Nowhere}]]
    BY DEF TypeOK, LocAfterMove
  <1>. QED  BY <1>1, <1>2

\* The same of the batch's view.
LEMMA ViewTyped ==
  ASSUME TypeOK, NEW ms \in SUBSET (Places \X Signals \X Facets), NEW to \in Places
  PROVE  ViewAfterMove(ms, to) \subseteq Places \X Signals \X Facets
  BY DEF TypeOK, ViewAfterMove

\* Placing the facets of a call keeps markers well typed.
LEMMA PlacedTyped ==
  ASSUME NEW h \in SUBSET (Places \X Signals \X Facets), NEW s \in Signals,
         NEW n \in Facets, NEW m \in [1 .. n -> Places]
  PROVE  Placed(h, s, n, m) \subseteq Places \X Signals \X Facets
  <1>0. MaxFacets \in Nat
    BY ConstantsAssumption
  <1>1. \A f \in 1 .. n : f \in Facets /\ m[f] \in Places
    BY <1>0
  <1>2. \A f \in 1 .. n : <<m[f], s, f>> \in Places \X Signals \X Facets
    BY <1>1
  <1>3. \A k \in Placed(h, s, n, m) : k \in h \/ \E f \in 1 .. n : k = <<m[f], s, f>>
    BY DEF Placed
  <1>. QED  BY <1>2, <1>3

\* Matching the rest of its facets again changes nothing of a call but matches.
LEMMA RestKeepsCalls ==
  ASSUME TypeOK, NEW c \in Callers, IngestMatchRest(c)
  PROVE  /\ DOMAIN call' = Callers
         /\ call[c] # NoCall /\ \A d \in Callers \ {c} : call'[d] = call[d]
         /\ call'[c].sig = call[c].sig /\ call'[c].n = call[c].n
         /\ call'[c].match \in [1 .. call[c].n -> Places]
  <1> DEFINE n == call[c].n
  <1>1. PICK k \in 1 .. n - 1 : \E m \in [k + 1 .. n -> index \cup {Outlier}] :
          call' = [call EXCEPT ![c].match =
                     [f \in 1 .. n |-> IF f <= k THEN @[f] ELSE m[f]]]
    BY DEF IngestMatchRest
  <1>2. PICK m \in [k + 1 .. n -> index \cup {Outlier}] :
          call' = [call EXCEPT ![c].match =
                     [f \in 1 .. n |-> IF f <= k THEN @[f] ELSE m[f]]]
    BY <1>1
  <1>3. c \in DOMAIN call /\ call[c] # NoCall
    BY DEF IngestMatchRest, TypeOK
  <1>4. /\ n \in Facets /\ call[c].match \in [1 .. n -> Places]
        /\ index \cup {Outlier} \subseteq Places
    BY <1>3 DEF TypeOK
  <1>5. \A f \in 1 .. n : (IF f <= k THEN call[c].match[f] ELSE m[f]) \in Places
    BY <1>4, ConstantsAssumption
  <1>. QED  BY <1>2, <1>3, <1>5 DEF TypeOK

\* Every step keeps the types.
LEMMA NextTypeOK == TypeOK /\ [Next]_vars => TypeOK'
<1> SUFFICES ASSUME TypeOK, [Next]_vars PROVE TypeOK'
  OBVIOUS
<1> USE ConstantsAssumption
<1>1. ASSUME NEW c \in Callers, IngestMatch(c) PROVE TypeOK'
  <2>1. PICK s \in Signals \ sent : \E n \in Shapes[s] :
          \E m \in [1 .. n -> index \cup {Outlier}] :
            /\ call' = [call EXCEPT ![c] = [sig |-> s, n |-> n, match |-> m]]
            /\ sent' = IF Redeliver THEN sent ELSE sent \cup {s}
    BY <1>1 DEF IngestMatch
  <2>2. PICK n \in Shapes[s] : \E m \in [1 .. n -> index \cup {Outlier}] :
            /\ call' = [call EXCEPT ![c] = [sig |-> s, n |-> n, match |-> m]]
            /\ sent' = IF Redeliver THEN sent ELSE sent \cup {s}
    BY <2>1
  <2>3. PICK m \in [1 .. n -> index \cup {Outlier}] :
            /\ call' = [call EXCEPT ![c] = [sig |-> s, n |-> n, match |-> m]]
            /\ sent' = IF Redeliver THEN sent ELSE sent \cup {s}
    BY <2>2
  <2>4. n \in Facets
    OBVIOUS
  <2>5. m \in [1 .. n -> Places]
    BY DEF TypeOK
  <2>6. sent' \subseteq Signals
    BY <2>3 DEF TypeOK
  <2>7. \A d \in Callers : call'[d] # NoCall =>
          /\ call'[d].sig \in Signals /\ call'[d].n \in Facets
          /\ call'[d].match \in [1 .. call'[d].n -> Places]
    BY <2>3, <2>4, <2>5 DEF TypeOK
  <2>. QED  BY <1>1, <2>6, <2>7 DEF TypeOK, IngestMatch, store, batch
<1>2. ASSUME NEW c \in Callers, IngestCommit(c) PROVE TypeOK'
  <2> DEFINE s == call[c].sig
             n == call[c].n
             m == call[c].match
  <2>1. s \in Signals /\ n \in Facets /\ m \in [1 .. n -> Places]
    BY <1>2 DEF TypeOK, IngestCommit
  <2>2. record' \in [Signals -> 0 .. MaxFacets]
    BY <1>2, <2>1 DEF TypeOK, IngestCommit
  <2>3. held' \subseteq Places \X Signals \X Facets
    <3>1. \/ held' = held \ Dropped(s, n)
          \/ held' = Placed(held \ Dropped(s, n), s, n, m)
      BY <1>2 DEF IngestCommit
    <3>2. Placed(held \ Dropped(s, n), s, n, m) \subseteq Places \X Signals \X Facets
      BY <2>1, PlacedTyped DEF TypeOK
    <3>. QED  BY <3>1, <3>2 DEF TypeOK
  <2>4. Reconciled(s, n) \in [Facets -> Places \cup {Nowhere}]
    BY <2>1 DEF TypeOK, Reconciled
  <2>5. [f \in Facets |-> IF f <= n THEN m[f] ELSE Nowhere]
          \in [Facets -> Places \cup {Nowhere}]
    BY <2>1
  <2>6. loc' \in [Signals -> [Facets -> Places \cup {Nowhere}]]
    <3>1. \/ loc' = [loc EXCEPT ![s] = Reconciled(s, n)]
          \/ loc' = [loc EXCEPT ![s] =
                      [f \in Facets |-> IF f <= n THEN m[f] ELSE Nowhere]]
      BY <1>2 DEF IngestCommit
    <3>2. loc \in [Signals -> [Facets -> Places \cup {Nowhere}]]
      BY DEF TypeOK
    <3>. QED  BY <3>1, <3>2, <2>1, <2>4, <2>5
  <2>7. hot' \subseteq Stories
    <3>1. hot' = hot \/ hot' = hot \cup Touched(n, m)
      BY <1>2 DEF IngestCommit
    <3>2. \A f \in 1 .. n : m[f] \in Stories \cup {Outlier}
      BY <2>1
    <3>3. Touched(n, m) \subseteq Stories
      BY <3>2 DEF Touched
    <3>. QED  BY <3>1, <3>3 DEF TypeOK
  <2>8. \A d \in Callers : call'[d] # NoCall => call'[d] = call[d]
    BY <1>2 DEF IngestCommit
  <2>. QED  BY <1>2, <2>2, <2>3, <2>6, <2>7, <2>8 DEF TypeOK, IngestCommit, batch
<1>3. ASSUME NEW c \in Callers, IngestBuffered(c) PROVE TypeOK'
  BY <1>3 DEF TypeOK, IngestBuffered, store, batch
<1>4. CASE CollectStories
  BY <1>4 DEF TypeOK, CollectStories, store
<1>5. ASSUME NEW p \in Places, CollectPlace(p) PROVE TypeOK'
  BY <1>5 DEF TypeOK, CollectPlace, MarkersAt, store
<1>6. CASE CollectRecords
  <2>1. view' \subseteq view /\ evict' \subseteq Signals
    BY <1>6 DEF TypeOK, CollectRecords, Collected, SignalsIn
  <2>. QED  BY <1>6, <2>1 DEF TypeOK, CollectRecords, store
<1>7. CASE BatchFails
  BY <1>7 DEF TypeOK, BatchFails, store
<1>8. CASE EvictOutliers
  <2>1. LocEvicted \in [Signals -> [Facets -> Places \cup {Nowhere}]]
    BY DEF TypeOK, LocEvicted
  <2>2. loc' \in [Signals -> [Facets -> Places \cup {Nowhere}]]
    BY <1>8, <2>1 DEF EvictOutliers
  <2>3. record' \in [Signals -> 0 .. MaxFacets] /\ held' \subseteq held
    BY <1>8 DEF TypeOK, EvictOutliers
  <2>. QED  BY <1>8, <2>2, <2>3 DEF TypeOK, EvictOutliers
<1>9. ASSUME NEW S \in Stories, PromoteGroup(S) PROVE TypeOK'
  <2>1. PICK group \in SUBSET MembersOf(Outlier) : MoveFacets(group, S)
    BY <1>9 DEF PromoteGroup
  <2>2. group \in SUBSET (Places \X Signals \X Facets) /\ S \in Places
    BY DEF TypeOK, MembersOf
  <2>. QED  BY <1>9, <2>1, <2>2, MoveTyped, ViewTyped DEF TypeOK, PromoteGroup, MoveFacets
<1>10. ASSUME NEW S \in Stories, AdmitFacet(S) PROVE TypeOK'
  <2>1. PICK m \in MembersOf(Outlier) : MoveFacets({m}, S)
    BY <1>10 DEF AdmitFacet
  <2>2. {m} \in SUBSET (Places \X Signals \X Facets) /\ S \in Places
    BY DEF TypeOK, MembersOf
  <2>. QED  BY <1>10, <2>1, <2>2, MoveTyped, ViewTyped DEF TypeOK, AdmitFacet, MoveFacets
<1>11. ASSUME NEW S \in Stories, NEW child \in Stories, SplitStory(S, child) PROVE TypeOK'
  <2>1. PICK spawn \in SUBSET MembersOf(S) : MoveFacets(spawn, child)
    BY <1>11 DEF SplitStory
  <2>2. spawn \in SUBSET (Places \X Signals \X Facets) /\ child \in Places
    BY DEF TypeOK, MembersOf
  <2>. QED  BY <1>11, <2>1, <2>2, MoveTyped, ViewTyped DEF TypeOK, SplitStory, MoveFacets
<1>12. ASSUME NEW S \in Stories, NEW survivor \in Stories, MergeStories(S, survivor)
       PROVE  TypeOK'
  <2>1. /\ Migrants(S) \in SUBSET (Places \X Signals \X Facets)
        /\ MembersOf(S) \in SUBSET (Places \X Signals \X Facets)
        /\ survivor \in Places
    BY DEF TypeOK, Migrants, MarkersAt, MembersOf
  <2>2. rec' \in [Stories -> {"absent", "open", "archived"}]
    BY <1>12 DEF TypeOK, MergeStories
  <2>. QED  BY <1>12, <2>1, <2>2, MoveTyped, ViewTyped DEF TypeOK, MergeStories, Survivors
<1>13. CASE CommitApply
  BY <1>13 DEF TypeOK, CommitApply, Live
<1>14. CASE RebuildIndex
  BY <1>14 DEF TypeOK, RebuildIndex, StoredIndex, store
<1>15. CASE RebuildFails
  BY <1>15 DEF TypeOK, RebuildFails, store
<1>16. CASE Restart
  BY <1>16 DEF TypeOK, Restart, StoredIndex, store
<1>17. CASE UNCHANGED vars
  BY <1>17 DEF TypeOK, vars, store, batch
<1>18. ASSUME NEW c \in Callers, IngestMatchRest(c) PROVE TypeOK'
  BY <1>18, RestKeepsCalls DEF TypeOK, IngestMatchRest, store, batch
<1>19. ASSUME NEW S \in Stories, Suppress(S) PROVE TypeOK'
  BY <1>19 DEF TypeOK, Suppress, batch
<1>. QED  BY <1>1, <1>2, <1>3, <1>4, <1>5, <1>6, <1>7, <1>8, <1>9, <1>10, <1>11,
             <1>12, <1>13, <1>14, <1>15, <1>16, <1>17, <1>18, <1>19 DEF Next

\* Type correctness holds in every behaviour.
THEOREM TypeCorrect == Spec => []TypeOK
  BY InitTypeOK, NextTypeOK, PTL DEF Spec

-----------------------------------------------------------------------------
\* LocBacked survives any move: what moved is indexed where it went, and what
\* did not move keeps its marker.
LEMMA MoveBacked ==
  ASSUME TypeOK, LocBacked,
         NEW ms \in SUBSET (Places \X Signals \X Facets), NEW to \in Places,
         held' = HeldAfterMove(ms, to), loc' = LocAfterMove(ms, to)
  PROVE  LocBacked'
  <1> SUFFICES ASSUME NEW s \in Signals, NEW f \in Facets, loc'[s][f] # Nowhere
               PROVE  <<loc'[s][f], s, f>> \in held'
    BY DEF LocBacked
  <1>1. CASE <<s, f>> \in FacetsOf(ms)
    <2>1. PICK m \in ms : m[2] = s /\ m[3] = f
      BY <1>1 DEF FacetsOf
    <2>2. <<to, s, f>> \in held'
      BY <2>1 DEF HeldAfterMove
    <2>3. loc'[s][f] = to
      BY <1>1 DEF LocAfterMove
    <2>. QED  BY <2>2, <2>3
  <1>2. CASE <<s, f>> \notin FacetsOf(ms)
    <2>1. loc'[s][f] = loc[s][f]
      BY <1>2 DEF LocAfterMove
    <2>2. <<loc[s][f], s, f>> \in held
      BY <2>1 DEF LocBacked
    <2>3. <<loc[s][f], s, f>> \notin ms
      BY <1>2 DEF FacetsOf
    <2>. QED  BY <1>2, <2>1, <2>2, <2>3 DEF HeldAfterMove
  <1>. QED  BY <1>1, <1>2

\* Every step keeps LocBacked.
LEMMA NextLocBacked == TypeOK /\ LocBacked /\ [Next]_vars => LocBacked'
<1> SUFFICES ASSUME TypeOK, LocBacked, [Next]_vars PROVE LocBacked'
  OBVIOUS
<1> USE ConstantsAssumption
<1>1. ASSUME NEW c \in Callers, IngestCommit(c) PROVE LocBacked'
  <2> DEFINE s == call[c].sig
             n == call[c].n
             m == call[c].match
             kept == Reconciled(s, n)
  <2>1. s \in Signals /\ n \in Facets /\ m \in [1 .. n -> Places]
    BY <1>1 DEF TypeOK, IngestCommit
  <2>2. \A r \in Signals, f \in Facets, p \in Places :
          r # s /\ <<p, r, f>> \in held => <<p, r, f>> \in held'
    <3>1. \/ held' = held \ Dropped(s, n)
          \/ held' = Placed(held \ Dropped(s, n), s, n, m)
      BY <1>1 DEF IngestCommit
    <3>. QED  BY <3>1 DEF Dropped, Placed
  <2>3. \A r \in Signals \ {s} : loc'[r] = loc[r]
    BY <1>1 DEF TypeOK, IngestCommit
  <2>4. ASSUME NEW f \in Facets, loc'[s][f] # Nowhere
        PROVE  <<loc'[s][f], s, f>> \in held'
    <3>1. CASE AlreadyPlaced(kept)
      <4>1. held' = held \ Dropped(s, n) /\ loc'[s] = kept
        BY <1>1, <2>1, <3>1 DEF TypeOK, IngestCommit
      <4>2. loc'[s][f] = loc[s][f] /\ ~(record[s] > n /\ f > n)
        BY <2>4, <4>1 DEF Reconciled
      <4>3. <<loc[s][f], s, f>> \in held
        BY <2>1, <2>4, <4>2 DEF LocBacked
      <4>4. <<loc[s][f], s, f>> \notin Dropped(s, n)
        BY <2>1, <4>2 DEF TypeOK, Dropped
      <4>. QED  BY <4>1, <4>2, <4>3, <4>4
    <3>2. CASE ~AlreadyPlaced(kept)
      <4>1. /\ held' = Placed(held \ Dropped(s, n), s, n, m)
            /\ loc'[s] = [g \in Facets |-> IF g <= n THEN m[g] ELSE Nowhere]
        BY <1>1, <2>1, <3>2 DEF TypeOK, IngestCommit
      <4>2. f \in 1 .. n /\ loc'[s][f] = m[f]
        BY <2>1, <2>4, <4>1
      <4>3. <<m[f], s, f>> \in Placed(held \ Dropped(s, n), s, n, m)
        BY <4>2 DEF Placed
      <4>. QED  BY <4>1, <4>2, <4>3
    <3>. QED  BY <3>1, <3>2
  <2>5. ASSUME NEW r \in Signals \ {s}, NEW f \in Facets, loc'[r][f] # Nowhere
        PROVE  <<loc'[r][f], r, f>> \in held'
    <3>1. loc'[r][f] = loc[r][f] /\ loc[r][f] \in Places
      BY <2>3, <2>5 DEF TypeOK
    <3>2. <<loc[r][f], r, f>> \in held
      BY <2>5, <3>1 DEF LocBacked
    <3>. QED  BY <2>2, <3>1, <3>2
  <2>. QED  BY <2>4, <2>5 DEF LocBacked
<1>2. CASE EvictOutliers
  <2> SUFFICES ASSUME NEW s \in Signals, NEW f \in Facets, loc'[s][f] # Nowhere
               PROVE  <<loc'[s][f], s, f>> \in held'
    BY DEF LocBacked
  <2>1. loc'[s][f] = loc[s][f] /\ ~(<<Outlier, s, f>> \in held /\ s \in evict)
    BY <1>2 DEF EvictOutliers, LocEvicted
  <2>2. <<loc[s][f], s, f>> \in held
    BY <2>1 DEF LocBacked
  <2>3. ~Evicted(<<loc[s][f], s, f>>)
    BY <2>1, <2>2 DEF Evicted
  <2>. QED  BY <1>2, <2>1, <2>2, <2>3 DEF EvictOutliers
<1>3. ASSUME NEW S \in Stories, PromoteGroup(S) PROVE LocBacked'
  <2>1. PICK group \in SUBSET MembersOf(Outlier) : MoveFacets(group, S)
    BY <1>3 DEF PromoteGroup
  <2>. QED  BY <2>1, MoveBacked DEF TypeOK, MembersOf, MoveFacets
<1>4. ASSUME NEW S \in Stories, AdmitFacet(S) PROVE LocBacked'
  <2>1. PICK m \in MembersOf(Outlier) : MoveFacets({m}, S)
    BY <1>4 DEF AdmitFacet
  <2>. QED  BY <2>1, MoveBacked DEF TypeOK, MembersOf, MoveFacets
<1>5. ASSUME NEW S \in Stories, NEW child \in Stories, SplitStory(S, child)
      PROVE  LocBacked'
  <2>1. PICK spawn \in SUBSET MembersOf(S) : MoveFacets(spawn, child)
    BY <1>5 DEF SplitStory
  <2>. QED  BY <2>1, MoveBacked DEF TypeOK, MembersOf, MoveFacets
<1>6. ASSUME NEW S \in Stories, NEW survivor \in Stories, MergeStories(S, survivor)
      PROVE  LocBacked'
  <2>1. Migrants(S) \in SUBSET (Places \X Signals \X Facets) /\ survivor \in Places
    BY DEF TypeOK, Migrants, MarkersAt
  <2>. QED  BY <1>6, <2>1, MoveBacked DEF MergeStories
<1>7. CASE UNCHANGED <<held, loc>>
  BY <1>7 DEF LocBacked
<1>. QED
  BY <1>1, <1>2, <1>3, <1>4, <1>5, <1>6, <1>7
     DEF Next, vars, store, IngestMatch, IngestMatchRest, IngestBuffered, Suppress,
         CollectStories, CollectPlace, CollectRecords, BatchFails, CommitApply, RebuildIndex, RebuildFails, Restart

\* The location index never names a place that does not hold the facet,
\* re-deliveries, evictions, crashes and moves included.
THEOREM LocationBacked == Spec => []LocBacked
<1>1. Init => LocBacked
  BY DEF Init, LocBacked
<1>. QED  BY <1>1, TypeCorrect, NextLocBacked, PTL DEF Spec

-----------------------------------------------------------------------------
\* A record has an indexed facet, which LocBacked turns into a marker.
RecordIndexed == \A s \in Signals : record[s] # 0 => \E f \in Facets : loc[s][f] \in Places

\* A move indexes more facets, never fewer.
LEMMA MoveKeepsIndexed ==
  ASSUME TypeOK, RecordIndexed, record' = record, NEW ms, NEW to \in Places,
         loc' = LocAfterMove(ms, to)
  PROVE  RecordIndexed'
  <1> SUFFICES ASSUME NEW s \in Signals, record[s] # 0
               PROVE  \E f \in Facets : loc'[s][f] \in Places
    BY DEF RecordIndexed
  <1>1. PICK f \in Facets : loc[s][f] \in Places
    BY DEF RecordIndexed
  <1>2. loc'[s][f] \in Places
    BY <1>1 DEF LocAfterMove
  <1>. QED  BY <1>2

\* Every step keeps a record indexed.
LEMMA NextIndexed == TypeOK /\ RecordIndexed /\ [Next]_vars => RecordIndexed'
<1> SUFFICES ASSUME TypeOK, RecordIndexed, [Next]_vars PROVE RecordIndexed'
  OBVIOUS
<1> USE ConstantsAssumption
<1>1. ASSUME NEW c \in Callers, IngestCommit(c) PROVE RecordIndexed'
  <2> DEFINE s == call[c].sig
             n == call[c].n
             m == call[c].match
             kept == Reconciled(s, n)
  <2>1. s \in Signals /\ n \in Facets /\ m \in [1 .. n -> Places]
    BY <1>1 DEF TypeOK, IngestCommit
  <2>2. \E f \in Facets : loc'[s][f] \in Places
    <3>1. CASE AlreadyPlaced(kept)
      <4>1. loc'[s] = kept
        BY <1>1, <2>1, <3>1 DEF TypeOK, IngestCommit
      <4>. QED  BY <3>1, <4>1 DEF AlreadyPlaced
    <3>2. CASE ~AlreadyPlaced(kept)
      <4>1. loc'[s] = [g \in Facets |-> IF g <= n THEN m[g] ELSE Nowhere]
        BY <1>1, <2>1, <3>2 DEF TypeOK, IngestCommit
      <4>2. 1 \in Facets /\ 1 \in 1 .. n
        BY <2>1
      <4>. QED  BY <2>1, <4>1, <4>2
    <3>. QED  BY <3>1, <3>2
  <2>3. \A r \in Signals \ {s} : loc'[r] = loc[r] /\ record'[r] = record[r]
    BY <1>1 DEF TypeOK, IngestCommit
  <2>. QED  BY <2>2, <2>3 DEF RecordIndexed
<1>2. CASE EvictOutliers
  <2> DEFINE gone == Collectable(LocEvicted)
  <2> SUFFICES ASSUME NEW s \in Signals, record'[s] # 0
               PROVE  \E f \in Facets : loc'[s][f] \in Places
    BY DEF RecordIndexed
  <2>1. s \notin gone /\ record[s] # 0 /\ loc'[s] = LocEvicted[s]
    BY <1>2 DEF EvictOutliers
  <2>2. CASE s \in evict
    <3>1. PICK f \in Facets : LocEvicted[s][f] \in Stories
      BY <2>1, <2>2 DEF Collectable
    <3>. QED  BY <2>1, <3>1
  <2>3. CASE s \notin evict
    <3>1. PICK f \in Facets : loc[s][f] \in Places
      BY <2>1 DEF RecordIndexed
    <3>2. LocEvicted[s][f] = loc[s][f]
      BY <2>3 DEF LocEvicted
    <3>. QED  BY <2>1, <3>1, <3>2
  <2>. QED  BY <2>2, <2>3
<1>3. ASSUME NEW S \in Stories, PromoteGroup(S) PROVE RecordIndexed'
  BY <1>3, MoveKeepsIndexed DEF PromoteGroup, MoveFacets
<1>4. ASSUME NEW S \in Stories, AdmitFacet(S) PROVE RecordIndexed'
  BY <1>4, MoveKeepsIndexed DEF AdmitFacet, MoveFacets
<1>5. ASSUME NEW S \in Stories, NEW child \in Stories, SplitStory(S, child)
      PROVE  RecordIndexed'
  BY <1>5, MoveKeepsIndexed DEF SplitStory, MoveFacets
<1>6. ASSUME NEW S \in Stories, NEW survivor \in Stories, MergeStories(S, survivor)
      PROVE  RecordIndexed'
  BY <1>6, MoveKeepsIndexed DEF MergeStories
<1>7. CASE UNCHANGED <<record, loc>>
  BY <1>7 DEF RecordIndexed
<1>. QED
  BY <1>1, <1>2, <1>3, <1>4, <1>5, <1>6, <1>7
     DEF Next, vars, store, IngestMatch, IngestMatchRest, IngestBuffered, Suppress,
         CollectStories, CollectPlace, CollectRecords, BatchFails, CommitApply, RebuildIndex, RebuildFails, Restart

\* No record is ever left that no marker refers to, however signals are
\* re-delivered with more or fewer facets, evicted, moved or merged.
THEOREM RecordsReferred == Spec => []RecordHasMarker
<1>1. Init => RecordIndexed
  BY DEF Init, RecordIndexed
<1>2. TypeOK /\ LocBacked /\ RecordIndexed => RecordHasMarker
  <2> SUFFICES ASSUME TypeOK, LocBacked, RecordIndexed, NEW s \in Signals, record[s] # 0
               PROVE  s \in SignalsIn(held)
    BY DEF RecordHasMarker
  <2>1. PICK f \in Facets : loc[s][f] \in Places
    BY DEF RecordIndexed
  <2>2. <<loc[s][f], s, f>> \in held
    BY <2>1, ConstantsAssumption DEF LocBacked
  <2>. QED  BY <2>2 DEF SignalsIn
<1>. QED  BY <1>1, <1>2, TypeCorrect, LocationBacked, NextIndexed, PTL DEF Spec

-----------------------------------------------------------------------------
\* A story a merge retires takes no member with it, whatever Ingest placed in it
\* since the batch collected it.
THEOREM MergeComplete == Spec => MergeMigratesAll
<1>1. ASSUME TypeOK, [Next]_vars, NEW S \in Stories, rec[S] # "absent", rec'[S] = "absent"
      PROVE  ~\E m \in held' : m[1] = S
  <2>1. ASSUME NEW retired \in Stories, NEW survivor \in Stories,
               MergeStories(retired, survivor)
        PROVE  ~\E m \in held' : m[1] = S
    <3>1. retired = S /\ survivor # S
      BY <1>1, <2>1 DEF MergeStories, TypeOK
    <3>2. held' = HeldAfterMove(Migrants(S), survivor)
      BY <2>1, <3>1 DEF MergeStories
    <3>3. SUFFICES ASSUME NEW m \in held', m[1] = S PROVE FALSE
      OBVIOUS
    <3>4. m \in held /\ m \notin Migrants(S)
      BY <3>1, <3>2, <3>3 DEF HeldAfterMove
    <3>. QED  BY <3>3, <3>4 DEF Migrants, MarkersAt
  <2>2. CASE CommitApply
    BY <1>1, <2>2 DEF CommitApply, TypeOK
  <2>3. CASE UNCHANGED rec
    BY <1>1, <2>3
  <2>4. ASSUME NEW other \in Stories, Suppress(other) PROVE FALSE
    BY <1>1, <2>4 DEF Suppress, TypeOK
  <2>. QED
    BY <1>1, <2>1, <2>2, <2>3, <2>4
       DEF Next, vars, store, IngestMatch, IngestMatchRest, IngestCommit, IngestBuffered,
           CollectStories, CollectPlace, CollectRecords, BatchFails, EvictOutliers, PromoteGroup,
           AdmitFacet, SplitStory, RebuildIndex, RebuildFails, Restart
<1>2. TypeOK /\ [Next]_vars =>
        [\A S \in Stories : rec[S] # "absent" /\ rec'[S] = "absent"
           => ~\E m \in held' : m[1] = S]_vars
  BY <1>1
<1>. QED  BY <1>2, TypeCorrect, PTL DEF Spec, MergeMigratesAll

-----------------------------------------------------------------------------
\* An unchanging signal has one facet count.
LEMMA OneShape ==
  ASSUME NEW s \in Unchanging
  PROVE  \E k \in Facets : Shapes[s] = {k}
  <1>1. s \in Signals /\ Shapes[s] \in SUBSET Facets /\ Cardinality(Shapes[s]) = 1
    BY ConstantsAssumption DEF Unchanging
  <1>2. IsFiniteSet(Facets)
    BY FS_Interval, ConstantsAssumption
  <1>3. IsFiniteSet(Shapes[s])
    BY <1>1, <1>2, FS_Subset
  <1>4. \E k : Shapes[s] = {k}
    BY <1>1, <1>3, FS_Singleton
  <1>. QED  BY <1>1, <1>4

\* No step but a commit of its own call gives a signal another facet count.
LEMMA NextKeepsFacets == TypeOK /\ KeepsFacets /\ [Next]_vars => KeepsFacets'
<1> SUFFICES ASSUME TypeOK, KeepsFacets, [Next]_vars PROVE KeepsFacets'
  OBVIOUS
<1> USE ConstantsAssumption
<1>1. ASSUME NEW c \in Callers, IngestMatch(c) PROVE KeepsFacets'
  <2>1. PICK s \in Signals \ sent : \E n \in Shapes[s] :
          \E m \in [1 .. n -> index \cup {Outlier}] :
            call' = [call EXCEPT ![c] = [sig |-> s, n |-> n, match |-> m]]
    BY <1>1 DEF IngestMatch
  <2>2. PICK n \in Shapes[s] : \E m \in [1 .. n -> index \cup {Outlier}] :
            call' = [call EXCEPT ![c] = [sig |-> s, n |-> n, match |-> m]]
    BY <2>1
  <2>3. \A d \in Callers : InFlight(d)' => call'[d].n \in Shapes[call'[d].sig]
    BY <2>2 DEF TypeOK, KeepsFacets, InFlight
  <2>. QED  BY <1>1, <2>3 DEF KeepsFacets, IngestMatch, store
<1>2. ASSUME NEW c \in Callers, IngestCommit(c) PROVE KeepsFacets'
  <2>1. \A d \in Callers : InFlight(d)' => InFlight(d) /\ call'[d] = call[d]
    BY <1>2 DEF IngestCommit, InFlight, TypeOK
  <2>2. ASSUME NEW s \in Unchanging PROVE record'[s] \in Shapes[s] \cup {0}
    BY <1>2, <2>2 DEF IngestCommit, KeepsFacets, InFlight, TypeOK, Unchanging
  <2>. QED  BY <2>1, <2>2 DEF KeepsFacets
<1>3. ASSUME NEW c \in Callers, IngestBuffered(c) PROVE KeepsFacets'
  BY <1>3 DEF IngestBuffered, KeepsFacets, InFlight, TypeOK, store
<1>4. CASE EvictOutliers
  BY <1>4 DEF EvictOutliers, KeepsFacets, InFlight, TypeOK, Unchanging
<1>5. CASE Restart
  BY <1>5 DEF Restart, KeepsFacets, InFlight, store
<1>6. CASE UNCHANGED <<record, call>>
  BY <1>6 DEF KeepsFacets, InFlight
<1>7. ASSUME NEW c \in Callers, IngestMatchRest(c) PROVE KeepsFacets'
  <2>1. \A d \in Callers : InFlight(d)' => InFlight(d)
          /\ call'[d].sig = call[d].sig /\ call'[d].n = call[d].n
    BY <1>7, RestKeepsCalls DEF InFlight
  <2>. QED  BY <1>7, <2>1 DEF KeepsFacets, IngestMatchRest, store
<1>. QED
  BY <1>1, <1>2, <1>3, <1>4, <1>5, <1>6, <1>7
     DEF Next, vars, store, Suppress, CollectStories, CollectPlace, CollectRecords,
         BatchFails, PromoteGroup, AdmitFacet, SplitStory, MergeStories, MoveFacets, CommitApply,
         RebuildIndex, RebuildFails

\* A move into a story leaves what it moves without an outlier marker and
\* indexed under that story.
LEMMA MovePlaced ==
  ASSUME TypeOK, PlacedIsIndexed,
         NEW ms \in SUBSET (Places \X Signals \X Facets), NEW to \in Stories,
         held' = HeldAfterMove(ms, to), loc' = LocAfterMove(ms, to)
  PROVE  PlacedIsIndexed'
  <1> SUFFICES ASSUME NEW m \in held', m[1] \in Stories, m[2] \in Unchanging
               PROVE  loc'[m[2]][m[3]] \in Stories /\ <<Outlier, m[2], m[3]>> \notin held'
    BY DEF PlacedIsIndexed, Unchanging
  <1>0. Outlier \notin Stories
    BY ConstantsAssumption
  <1>1. m \in Places \X Signals \X Facets
    BY MoveTyped DEF TypeOK
  <1>2. CASE <<m[2], m[3]>> \in FacetsOf(ms)
    <2>1. loc'[m[2]][m[3]] = to
      BY <1>1, <1>2 DEF LocAfterMove
    <2>2. <<Outlier, m[2], m[3]>> \notin held'
      BY <1>0, <1>2 DEF HeldAfterMove
    <2>. QED  BY <2>1, <2>2
  <1>3. CASE <<m[2], m[3]>> \notin FacetsOf(ms)
    <2>1. m \in held
      BY <1>1, <1>3 DEF HeldAfterMove, FacetsOf
    <2>2. loc[m[2]][m[3]] \in Stories /\ <<Outlier, m[2], m[3]>> \notin held
      BY <2>1 DEF PlacedIsIndexed
    <2>3. loc'[m[2]][m[3]] = loc[m[2]][m[3]]
      BY <1>1, <1>3 DEF LocAfterMove
    <2>4. <<Outlier, m[2], m[3]>> \notin held'
      BY <1>0, <2>2 DEF HeldAfterMove
    <2>. QED  BY <2>2, <2>3, <2>4
  <1>. QED  BY <1>2, <1>3

\* A delivery of an unchanging signal reconciles nothing.
LEMMA NothingDropped ==
  ASSUME TypeOK, KeepsFacets, NEW c \in Callers, InFlight(c), call[c].sig \in Unchanging
  PROVE  /\ Dropped(call[c].sig, call[c].n) = {}
         /\ Reconciled(call[c].sig, call[c].n) = loc[call[c].sig]
  <1> DEFINE s == call[c].sig
             n == call[c].n
  <1>1. n \in Facets /\ s \in Signals /\ loc[s] \in [Facets -> Places \cup {Nowhere}]
    BY DEF TypeOK, InFlight
  <1>2. PICK k \in Facets : Shapes[s] = {k}
    BY OneShape
  <1>3. n = k /\ record[s] \in {0, k}
    BY <1>2 DEF KeepsFacets
  <1>4. n \in Nat /\ ~(record[s] > n) /\ (n + 1) .. record[s] = {}
    BY <1>1, <1>3, ConstantsAssumption
  <1>5. Dropped(s, n) = {}
    BY <1>4 DEF Dropped
  <1>6. Reconciled(s, n) = [f \in Facets |-> loc[s][f]]
    BY <1>4 DEF Reconciled
  <1>. QED  BY <1>1, <1>5, <1>6

\* Every step keeps what stories hold of unchanging signals indexed.
LEMMA NextPlaced ==
  TypeOK /\ KeepsFacets /\ PlacedIsIndexed /\ [Next]_vars => PlacedIsIndexed'
<1> SUFFICES ASSUME TypeOK, KeepsFacets, PlacedIsIndexed, [Next]_vars
             PROVE  PlacedIsIndexed'
  OBVIOUS
<1> USE ConstantsAssumption
<1>1. ASSUME NEW c \in Callers, IngestCommit(c) PROVE PlacedIsIndexed'
  <2> DEFINE s == call[c].sig
             n == call[c].n
             m == call[c].match
  <2>1. InFlight(c) /\ s \in Signals /\ n \in Facets /\ m \in [1 .. n -> Places]
    BY <1>1 DEF TypeOK, IngestCommit, InFlight
  <2>2. \/ held' = held \ Dropped(s, n)
        \/ held' = Placed(held \ Dropped(s, n), s, n, m)
    BY <1>1 DEF IngestCommit
  <2>3. \A h \in held' : h[2] # s => h \in held
    BY <2>2 DEF Placed
  <2>4. \A r \in Signals \ {s} : loc'[r] = loc[r]
    BY <1>1 DEF TypeOK, IngestCommit
  <2> SUFFICES ASSUME NEW h \in held', h[1] \in Stories, h[2] \in Unchanging
               PROVE  loc'[h[2]][h[3]] \in Stories /\ <<Outlier, h[2], h[3]>> \notin held'
    BY DEF PlacedIsIndexed, Unchanging
  <2>5. CASE h[2] # s
    <3>1. h \in held /\ h[2] \in Signals
      BY <2>3, <2>5 DEF Unchanging
    <3>2. loc[h[2]][h[3]] \in Stories /\ <<Outlier, h[2], h[3]>> \notin held
      BY <3>1 DEF PlacedIsIndexed
    <3>. QED  BY <2>3, <2>4, <2>5, <3>1, <3>2
  <2>6. CASE h[2] = s
    <3>1. Dropped(s, n) = {} /\ Reconciled(s, n) = loc[s]
      BY <2>1, <2>6, NothingDropped
    <3>2. CASE AlreadyPlaced(loc[s])
      <4>1. held' = held /\ loc'[s] = loc[s]
        BY <1>1, <2>1, <3>1, <3>2 DEF IngestCommit, TypeOK
      <4>. QED  BY <2>6, <4>1 DEF PlacedIsIndexed
    <3>3. CASE ~AlreadyPlaced(loc[s])
      <4>1. /\ held' = Placed(held, s, n, m)
            /\ loc'[s] = [f \in Facets |-> IF f <= n THEN m[f] ELSE Nowhere]
        BY <1>1, <2>1, <3>1, <3>3 DEF IngestCommit, TypeOK
      <4>2. h \notin held
        <5>1. h \in held => h[3] \in Facets
          BY DEF TypeOK
        <5>. QED  BY <2>6, <3>3, <5>1 DEF PlacedIsIndexed, AlreadyPlaced
      <4>3. PICK f \in 1 .. n : h = <<m[f], s, f>> /\ <<m[f], s, f>> \notin held
        BY <4>1, <4>2 DEF Placed
      <4>4. f \in Facets /\ m[f] \in Stories /\ m[f] # Outlier
        BY <2>1, <4>3
      <4>5. loc'[s][f] = m[f]
        BY <2>1, <4>1, <4>3, <4>4
      <4>6. <<Outlier, s, f>> \notin held'
        BY <4>1, <4>3, <4>4 DEF Placed
      <4>. QED  BY <4>3, <4>4, <4>5, <4>6
    <3>. QED  BY <3>1, <3>2, <3>3
  <2>. QED  BY <2>5, <2>6
<1>2. CASE EvictOutliers
  <2> SUFFICES ASSUME NEW h \in held', h[1] \in Stories, h[2] \in Unchanging
               PROVE  loc'[h[2]][h[3]] \in Stories /\ <<Outlier, h[2], h[3]>> \notin held'
    BY DEF PlacedIsIndexed, Unchanging
  <2>1. held' \subseteq held /\ h \in held /\ h[2] \in Signals /\ h[3] \in Facets
    BY <1>2 DEF EvictOutliers, TypeOK
  <2>2. loc[h[2]][h[3]] \in Stories /\ <<Outlier, h[2], h[3]>> \notin held
    BY <2>1 DEF PlacedIsIndexed
  <2>3. LocEvicted[h[2]][h[3]] \in Stories
    BY <2>1, <2>2 DEF LocEvicted
  <2>4. h[2] \notin Collectable(LocEvicted)
    BY <2>1, <2>3 DEF Collectable
  <2>. QED  BY <1>2, <2>1, <2>2, <2>3, <2>4 DEF EvictOutliers
<1>3. ASSUME NEW S \in Stories, PromoteGroup(S) PROVE PlacedIsIndexed'
  <2>1. PICK group \in SUBSET MembersOf(Outlier) : MoveFacets(group, S)
    BY <1>3 DEF PromoteGroup
  <2>. QED  BY <2>1, MovePlaced DEF TypeOK, MembersOf, MoveFacets
<1>4. ASSUME NEW S \in Stories, AdmitFacet(S) PROVE PlacedIsIndexed'
  <2>1. PICK m \in MembersOf(Outlier) : MoveFacets({m}, S)
    BY <1>4 DEF AdmitFacet
  <2>. QED  BY <2>1, MovePlaced DEF TypeOK, MembersOf, MoveFacets
<1>5. ASSUME NEW S \in Stories, NEW child \in Stories, SplitStory(S, child)
      PROVE  PlacedIsIndexed'
  <2>1. PICK spawn \in SUBSET MembersOf(S) : MoveFacets(spawn, child)
    BY <1>5 DEF SplitStory
  <2>. QED  BY <2>1, MovePlaced DEF TypeOK, MembersOf, MoveFacets
<1>6. ASSUME NEW S \in Stories, NEW survivor \in Stories, MergeStories(S, survivor)
      PROVE  PlacedIsIndexed'
  <2>1. Migrants(S) \in SUBSET (Places \X Signals \X Facets)
    BY DEF TypeOK, Migrants, MarkersAt
  <2>. QED  BY <1>6, <2>1, MovePlaced DEF MergeStories
<1>7. CASE UNCHANGED <<held, loc>>
  BY <1>7 DEF PlacedIsIndexed
<1>. QED
  BY <1>1, <1>2, <1>3, <1>4, <1>5, <1>6, <1>7
     DEF Next, vars, store, IngestMatch, IngestMatchRest, IngestBuffered, Suppress,
         CollectStories, CollectPlace, CollectRecords, BatchFails, CommitApply, RebuildIndex, RebuildFails, Restart

\* What is known of signals that are delivered with the same facets every time,
\* however often and however late, and whatever the others are delivered with.
THEOREM UnchangingKnown == Spec => []UnchangingInv
<1>1. Init => UnchangingInv
  BY DEF Init, UnchangingInv, KeepsFacets, PlacedIsIndexed, InFlight, Unchanging
<1>2. UnchangingInv <=> KeepsFacets /\ PlacedIsIndexed
  BY DEF UnchangingInv
<1>. QED  BY <1>1, <1>2, TypeCorrect, NextKeepsFacets, NextPlaced, PTL DEF Spec

\* A late duplicate overwrites no placement: a step outside the batch leaves the
\* facets of an unchanging signal that some story holds where they are.
THEOREM DraftsNeverRevise == Spec => DraftNeverRevises
<1> DEFINE Revises == batch' = batch => \A s \in Unchanging :
        (\E m \in held : m[2] = s /\ m[1] \in Stories) => Placement(s)' = Placement(s)
<1>1. ASSUME TypeOK, UnchangingInv, [Next]_vars, batch' = batch,
             NEW s \in Unchanging, NEW p \in held, p[2] = s, p[1] \in Stories
      PROVE  Placement(s)' = Placement(s)
  <2> USE ConstantsAssumption
  <2>1. ASSUME NEW c \in Callers, IngestCommit(c) PROVE Placement(s)' = Placement(s)
    <3>1. InFlight(c)
      BY <2>1 DEF IngestCommit, InFlight
    <3>2. CASE call[c].sig # s
      <4> DEFINE r == call[c].sig
                 n == call[c].n
      <4>1. \/ held' = held \ Dropped(r, n)
            \/ held' = Placed(held \ Dropped(r, n), r, n, call[c].match)
        BY <2>1 DEF IngestCommit
      <4>2. \A m : m[2] = s => m \notin Dropped(r, n)
        BY <3>2 DEF Dropped
      <4>3. ASSUME NEW m \in held, m[2] = s PROVE m \in held'
        <5>1. m \notin Dropped(r, n) /\ \A f : m # <<Outlier, r, f>>
          BY <3>2, <4>2, <4>3
        <5>. QED  BY <4>1, <5>1 DEF Placed
      <4>4. \A m \in held' : m[2] = s => m \in held
        BY <3>2, <4>1 DEF Placed
      <4>. QED  BY <4>3, <4>4 DEF Placement
    <3>3. CASE call[c].sig = s
      <4>1. /\ Dropped(s, call[c].n) = {}
            /\ Reconciled(s, call[c].n) = loc[s]
        BY <1>1, <3>1, <3>3, NothingDropped DEF UnchangingInv
      <4>2. AlreadyPlaced(loc[s])
        <5>1. loc[s][p[3]] \in Stories /\ p[3] \in Facets
          BY <1>1 DEF UnchangingInv, PlacedIsIndexed, TypeOK
        <5>. QED  BY <5>1 DEF AlreadyPlaced
      <4>3. held' = held
        BY <2>1, <3>3, <4>1, <4>2 DEF IngestCommit
      <4>. QED  BY <4>3 DEF Placement
    <3>. QED  BY <3>2, <3>3
  <2>2. ~EvictOutliers
    BY <1>1 DEF EvictOutliers, batch
  <2>3. ~\E S \in Stories : PromoteGroup(S)
    BY <1>1 DEF PromoteGroup, Fresh, batch
  <2>4. ASSUME NEW S \in Stories, AdmitFacet(S) PROVE FALSE
    <3>1. PICK m \in MembersOf(Outlier) : MoveFacets({m}, S)
      BY <2>4 DEF AdmitFacet
    <3>2. m \in view /\ m[1] = Outlier
      BY <3>1 DEF MembersOf
    <3>3. m \notin view'
      BY <3>1, <3>2 DEF MoveFacets, ViewAfterMove
    <3>. QED  BY <1>1, <3>2, <3>3 DEF batch
  <2>5. ~\E S, child \in Stories : SplitStory(S, child)
    BY <1>1 DEF SplitStory, Fresh, batch
  <2>6. ASSUME NEW S \in Stories, NEW survivor \in Stories, MergeStories(S, survivor)
        PROVE  FALSE
    <3>1. PICK m \in view : m[1] = S
      BY <2>6 DEF MergeStories, Live, MembersOf
    <3>2. view' = (view \ MembersOf(S)) \cup {<<survivor, k[2], k[3]>> : k \in MembersOf(S)}
      BY <2>6 DEF MergeStories, ViewAfterMove
    <3>3. survivor # S
      BY <2>6 DEF MergeStories
    <3>4. m \notin view'
      BY <3>1, <3>2, <3>3 DEF MembersOf
    <3>. QED  BY <1>1, <3>1, <3>4 DEF batch
  <2>7. CASE UNCHANGED held
    BY <2>7 DEF Placement
  <2>. QED
    BY <1>1, <2>1, <2>2, <2>3, <2>4, <2>5, <2>6, <2>7
       DEF Next, vars, store, IngestMatch, IngestMatchRest, IngestBuffered, Suppress,
           CollectStories, CollectPlace, CollectRecords, BatchFails, CommitApply, RebuildIndex, RebuildFails, Restart
<1>2. TypeOK /\ UnchangingInv /\ [Next]_vars => [Revises]_vars
  BY <1>1
<1>. QED  BY <1>2, TypeCorrect, UnchangingKnown, PTL DEF Spec, DraftNeverRevises

\* The payload of an unchanging signal outlives every placement of it: eviction
\* deletes the record only when the last facet goes.
THEOREM RecordsOutlive == Spec => RecordOutlives
<1> DEFINE Outlives == \A s \in Unchanging :
        record[s] # 0 /\ record'[s] = 0 => s \notin SignalsIn(held')
<1>1. ASSUME TypeOK, UnchangingInv, [Next]_vars,
             NEW s \in Unchanging, record[s] # 0, record'[s] = 0
      PROVE  s \notin SignalsIn(held')
  <2> USE ConstantsAssumption
  <2>0. s \in Signals
    BY DEF Unchanging
  <2>1. ASSUME NEW c \in Callers, IngestCommit(c) PROVE FALSE
    <3>1. call[c].n # 0 /\ call[c].sig \in Signals
      BY <1>1, <2>1 DEF IngestCommit, TypeOK
    <3>. QED  BY <1>1, <2>0, <2>1, <3>1 DEF IngestCommit, TypeOK
  <2>2. CASE EvictOutliers
    <3>1. s \in Collectable(LocEvicted)
      BY <1>1, <2>0, <2>2 DEF EvictOutliers, TypeOK
    <3>2. s \in evict /\ \A f \in Facets : LocEvicted[s][f] \notin Stories
      BY <3>1 DEF Collectable
    <3>3. SUFFICES ASSUME NEW m \in held', m[2] = s PROVE FALSE
      BY DEF SignalsIn
    <3>4. m \in held /\ m[1] \in Places /\ m[3] \in Facets /\ ~Evicted(m)
      BY <1>1, <2>2, <3>3 DEF EvictOutliers, TypeOK
    <3>5. m[1] \in Stories
      BY <3>2, <3>3, <3>4 DEF Evicted
    <3>6. loc[s][m[3]] \in Stories /\ <<Outlier, s, m[3]>> \notin held
      BY <1>1, <3>3, <3>4, <3>5 DEF UnchangingInv, PlacedIsIndexed
    <3>7. LocEvicted[s][m[3]] = loc[s][m[3]]
      BY <2>0, <3>4, <3>6 DEF LocEvicted
    <3>. QED  BY <3>2, <3>4, <3>6, <3>7
  <2>3. ~UNCHANGED record
    BY <1>1
  <2>. QED
    BY <1>1, <2>1, <2>2, <2>3
       DEF Next, vars, store, IngestMatch, IngestMatchRest, IngestBuffered, Suppress,
           CollectStories, CollectPlace, CollectRecords, BatchFails, PromoteGroup, AdmitFacet, SplitStory, MergeStories,
           CommitApply, RebuildIndex, RebuildFails, Restart
<1>2. TypeOK /\ UnchangingInv /\ [Next]_vars => [Outlives]_vars
  BY <1>1
<1>. QED  BY <1>2, TypeCorrect, UnchangingKnown, PTL DEF Spec, RecordOutlives
=============================================================================
