----------------------- MODULE DeliveredOnce_proofs ------------------------
(***************************************************************************)
(* When every signal is delivered once, the facet markers, the location    *)
(* index, the records and the batch's view agree at every step, for every  *)
(* number of signals, stories, facets and callers.                         *)
(* Hence the component implements StableHomes: at the end.                 *)
(***************************************************************************)
EXTENDS FacetPlacement_proofs

USE DEF Facets, Places, TxPhases

\* A facet that is indexed where it is held is held nowhere else.
LEMMA OneMarker ==
  ASSUME MarkersIndexed, NEW m \in held, NEW k \in held, m[2] = k[2], m[3] = k[3]
  PROVE  m[1] = k[1]
  BY DEF MarkersIndexed

\* Moving markers that are held, all of a set ms, to a place: what is indexed,
\* which signals are held at all, and the rest of the markers.
LEMMA MoveIndexed ==
  ASSUME TypeOK, MarkersIndexed, NEW ms \in SUBSET held, NEW to \in Places,
         held' = HeldAfterMove(ms, to), loc' = LocAfterMove(ms, to)
  PROVE  /\ MarkersIndexed'
         /\ SignalsIn(held') = SignalsIn(held)
         /\ held \ ms \subseteq held'
         /\ \A m \in ms : <<to, m[2], m[3]>> \in held'
  <1>1. \A m \in held : m = <<m[1], m[2], m[3]>> /\ m[1] \in Places
                        /\ m[2] \in Signals /\ m[3] \in Facets
    BY DEF TypeOK
  <1>2. held \ ms \subseteq held'
    <2> SUFFICES ASSUME NEW m \in held \ ms PROVE m \in held'
      OBVIOUS
    <2>1. <<m[2], m[3]>> \notin FacetsOf(ms)
      <3> SUFFICES ASSUME NEW k \in ms, <<m[2], m[3]>> = <<k[2], k[3]>> PROVE FALSE
        BY DEF FacetsOf
      <3>1. m[1] = k[1]
        BY OneMarker
      <3>. QED  BY <1>1, <3>1
    <2>. QED  BY <2>1 DEF HeldAfterMove
  <1>3. \A m \in ms : <<to, m[2], m[3]>> \in held'
    BY DEF HeldAfterMove
  <1>4. \A m \in held' : m \in held \ ms \/ \E k \in ms : m = <<to, k[2], k[3]>>
    BY DEF HeldAfterMove
  <1>5. MarkersIndexed'
    <2> SUFFICES ASSUME NEW m \in held' PROVE loc'[m[2]][m[3]] = m[1]
      BY DEF MarkersIndexed
    <2>1. CASE \E k \in ms : m = <<to, k[2], k[3]>>
      <3>1. PICK k \in ms : m = <<to, k[2], k[3]>>
        BY <2>1
      <3>2. <<m[2], m[3]>> \in FacetsOf(ms) /\ m[2] \in Signals /\ m[3] \in Facets
        BY <1>1, <3>1 DEF FacetsOf
      <3>. QED  BY <3>1, <3>2 DEF LocAfterMove
    <2>2. CASE m \in held \ ms
      <3>1. <<m[2], m[3]>> \notin FacetsOf(ms)
        <4> SUFFICES ASSUME NEW k \in ms, <<m[2], m[3]>> = <<k[2], k[3]>> PROVE FALSE
          BY DEF FacetsOf
        <4>1. m[1] = k[1]
          BY <2>2, OneMarker
        <4>. QED  BY <1>1, <2>2, <4>1
      <3>2. loc'[m[2]][m[3]] = loc[m[2]][m[3]]
        BY <1>1, <2>2, <3>1 DEF LocAfterMove
      <3>. QED  BY <2>2, <3>2 DEF MarkersIndexed
    <2>. QED  BY <1>4, <2>1, <2>2
  <1>6. SignalsIn(held') = SignalsIn(held)
    <2>1. ASSUME NEW m \in held PROVE m[2] \in SignalsIn(held')
      <3>1. CASE m \in ms
        <4>1. \E k \in held' : k[2] = m[2]
          BY <1>3, <3>1
        <4>. QED  BY <4>1 DEF SignalsIn
      <3>2. CASE m \notin ms
        BY <1>2, <3>2 DEF SignalsIn
      <3>. QED  BY <3>1, <3>2
    <2>2. ASSUME NEW m \in held' PROVE m[2] \in SignalsIn(held)
      BY <1>4 DEF SignalsIn
    <2>3. SignalsIn(held) \subseteq SignalsIn(held')
      BY <2>1 DEF SignalsIn
    <2>4. SignalsIn(held') \subseteq SignalsIn(held)
      BY <2>2 DEF SignalsIn
    <2>. QED  BY <2>3, <2>4
  <1>. QED  BY <1>2, <1>3, <1>5, <1>6

\* A move of collected facets keeps markers, records and view in agreement.
LEMMA MoveCollected ==
  ASSUME TypeOK, MarkersIndexed, RecordsHeld, view \subseteq held,
         NEW ms \in SUBSET view, NEW to \in Places, MoveFacets(ms, to), record' = record
  PROVE  /\ MarkersIndexed' /\ RecordsHeld' /\ view' \subseteq held'
         /\ held \ ms \subseteq held'
         /\ \A m \in ms : <<to, m[2], m[3]>> \in held'
  <1>1. /\ MarkersIndexed' /\ SignalsIn(held') = SignalsIn(held)
        /\ held \ ms \subseteq held'
        /\ \A m \in ms : <<to, m[2], m[3]>> \in held'
    BY MoveIndexed DEF MoveFacets
  <1>2. RecordsHeld'
    BY <1>1 DEF RecordsHeld
  <1>3. view' \subseteq held'
    BY <1>1 DEF MoveFacets, ViewAfterMove
  <1>. QED  BY <1>1, <1>2, <1>3

\* What a call in flight is about is unknown to the store: no record, no marker
\* and no placement.
LEMMA FlyingUnknown ==
  ASSUME TypeOK, LocBacked, RecordsHeld, UnknownUntilCommitted,
         NEW c \in Callers, call[c] # NoCall
  PROVE  /\ call[c].sig \in Signals /\ call[c].n \in Facets
         /\ call[c].match \in [1 .. call[c].n -> Places]
         /\ record[call[c].sig] = 0
         /\ \A m \in held : m[2] # call[c].sig
         /\ \A f \in Facets : loc[call[c].sig][f] = Nowhere
  <1>1. /\ call[c].sig \in Signals /\ call[c].n \in Facets
        /\ call[c].match \in [1 .. call[c].n -> Places]
    BY DEF TypeOK
  <1>2. record[call[c].sig] = 0
    BY DEF UnknownUntilCommitted, InFlight
  <1>3. \A m \in held : m[2] # call[c].sig
    BY <1>1, <1>2 DEF RecordsHeld, SignalsIn
  <1>4. \A f \in Facets : loc[call[c].sig][f] = Nowhere
    <2> SUFFICES ASSUME NEW f \in Facets, loc[call[c].sig][f] # Nowhere PROVE FALSE
      OBVIOUS
    <2>1. <<loc[call[c].sig][f], call[c].sig, f>> \in held
      BY <1>1 DEF LocBacked
    <2>. QED  BY <1>3, <2>1
  <1>. QED  BY <1>1, <1>2, <1>3, <1>4

\* So its commit adds exactly the markers of its matches.
LEMMA CommitAdds ==
  ASSUME TypeOK, LocBacked, RecordsHeld, UnknownUntilCommitted,
         NEW c \in Callers, IngestCommit(c)
  PROVE  LET s == call[c].sig
             n == call[c].n
             m == call[c].match
         IN  /\ held' = held \cup {<<m[f], s, f>> : f \in 1 .. n}
             /\ loc' = [loc EXCEPT ![s] =
                         [f \in Facets |-> IF f <= n THEN m[f] ELSE Nowhere]]
             /\ record' = [record EXCEPT ![s] = n]
  <1> DEFINE s == call[c].sig
             n == call[c].n
             m == call[c].match
  <1>1. call[c] # NoCall
    BY DEF IngestCommit
  <1>2. /\ s \in Signals /\ n \in Facets /\ m \in [1 .. n -> Places]
        /\ record[s] = 0 /\ \A k \in held : k[2] # s
        /\ \A f \in Facets : loc[s][f] = Nowhere
    BY <1>1, FlyingUnknown
  <1>3. ~AlreadyPlaced(Reconciled(s, n))
    BY <1>2, ConstantsAssumption DEF AlreadyPlaced, Reconciled
  <1>4. held \ Dropped(s, n) = held
    BY <1>2 DEF Dropped
  <1>5. Placed(held, s, n, m) = held \cup {<<m[f], s, f>> : f \in 1 .. n}
    <2>1. {f \in 1 .. n : <<m[f], s, f>> \notin held} = 1 .. n
      BY <1>2
    <2>2. \A f \in 1 .. n : <<Outlier, s, f>> \notin held
      BY <1>2
    <2>3. Placed(held, s, n, m) =
            (held \cup {<<m[f], s, f>> : f \in 1 .. n})
              \ {<<Outlier, s, f>> : f \in {g \in 1 .. n : m[g] # Outlier}}
      BY <2>1 DEF Placed
    <2>. QED  BY <2>2, <2>3
  <1>6. held' = Placed(held, s, n, m)
    BY <1>3, <1>4 DEF IngestCommit
  <1>7. loc' = [loc EXCEPT ![s] =
                 [f \in Facets |-> IF f <= n THEN m[f] ELSE Nowhere]]
    BY <1>3 DEF IngestCommit
  <1>8. record' = [record EXCEPT ![s] = n]
    BY <1>2 DEF IngestCommit, TypeOK
  <1>. QED  BY <1>5, <1>6, <1>7, <1>8

-----------------------------------------------------------------------------
\* The invariant that makes it work is inductive.
LEMMA InitDeliveredOnce == Init => DeliveredOnceInv
  BY DEF Init, DeliveredOnceInv, MarkersIndexed, RecordsHeld, UnknownUntilCommitted,
         InFlight, ViewHeld, MembersOf, Inhabited, SignalsIn

\* Steps that leave the markers, the index and the records alone.
LEMMA StoreKept ==
  ASSUME MarkersIndexed, RecordsHeld, UNCHANGED <<record, held, loc>>
  PROVE  MarkersIndexed' /\ RecordsHeld'
  BY DEF MarkersIndexed, RecordsHeld

LEMMA CommitKeepsOnce ==
  ASSUME TypeOK, LocBacked, DeliveredOnceInv, NEW c \in Callers, IngestCommit(c)
  PROVE  DeliveredOnceInv'
  <1> DEFINE s == call[c].sig
             n == call[c].n
             m == call[c].match
             new == {<<m[f], s, f>> : f \in 1 .. n}
  <1>1. call[c] # NoCall
    BY DEF IngestCommit
  <1>2. /\ s \in Signals /\ n \in Facets /\ m \in [1 .. n -> Places]
        /\ record[s] = 0 /\ \A k \in held : k[2] # s
    BY <1>1, FlyingUnknown DEF DeliveredOnceInv
  <1>3. /\ held' = held \cup new
        /\ loc' = [loc EXCEPT ![s] = [f \in Facets |-> IF f <= n THEN m[f] ELSE Nowhere]]
        /\ record' = [record EXCEPT ![s] = n]
    BY CommitAdds DEF DeliveredOnceInv
  <1>4. \A f \in 1 .. n : f \in Facets
    BY <1>2, ConstantsAssumption
  <1>5. MarkersIndexed'
    <2> SUFFICES ASSUME NEW k \in held' PROVE loc'[k[2]][k[3]] = k[1]
      BY DEF MarkersIndexed
    <2>1. CASE k \in held
      <3>1. k[2] \in Signals /\ k[2] # s
        BY <1>2, <2>1 DEF TypeOK
      <3>2. loc'[k[2]] = loc[k[2]]
        BY <1>3, <3>1 DEF TypeOK
      <3>. QED  BY <2>1, <3>2 DEF DeliveredOnceInv, MarkersIndexed
    <2>2. CASE k \in new
      <3>1. PICK f \in 1 .. n : k = <<m[f], s, f>>
        BY <2>2
      <3>2. loc'[s] = [g \in Facets |-> IF g <= n THEN m[g] ELSE Nowhere]
        BY <1>2, <1>3 DEF TypeOK
      <3>3. loc'[s][f] = m[f]
        BY <1>2, <1>4, <3>2
      <3>. QED  BY <3>1, <3>3
    <2>. QED  BY <1>3, <2>1, <2>2
  <1>6. RecordsHeld'
    <2> SUFFICES ASSUME NEW r \in Signals PROVE record'[r] # 0 <=> r \in SignalsIn(held')
      BY DEF RecordsHeld
    <2>1. CASE r = s
      <3>1. record'[r] # 0
        BY <1>2, <1>3, <2>1 DEF TypeOK
      <3>2. <<m[1], s, 1>> \in held'
        BY <1>2, <1>3
      <3>3. \E k \in held' : k[2] = s
        BY <3>2
      <3>. QED  BY <2>1, <3>1, <3>3 DEF SignalsIn
    <2>2. CASE r # s
      <3>1. record'[r] = record[r]
        BY <1>3, <2>2 DEF TypeOK
      <3>2. \A k \in new : k[2] = s
        OBVIOUS
      <3>3. r \in SignalsIn(held') <=> r \in SignalsIn(held)
        BY <1>3, <2>2, <3>2 DEF SignalsIn
      <3>. QED  BY <3>1, <3>3 DEF DeliveredOnceInv, RecordsHeld
    <2>. QED  BY <2>1, <2>2
  <1>7. UnknownUntilCommitted'
    <2>1. call' = [call EXCEPT ![c] = NoCall] /\ sent' = sent
      BY DEF IngestCommit
    <2>2. \A d \in Callers : call'[d] # NoCall => call'[d] = call[d] /\ d # c
      BY <2>1 DEF TypeOK
    <2>3. s \in sent
      BY <1>1 DEF DeliveredOnceInv, UnknownUntilCommitted, InFlight
    <2>4. \A r \in Signals : r # s => record'[r] = record[r]
      BY <1>3 DEF TypeOK
    <2>5. \A d \in Callers : call'[d] # NoCall => call[d].sig # s /\ call[d].sig \in Signals
      BY <1>1, <2>2 DEF DeliveredOnceInv, UnknownUntilCommitted, InFlight, TypeOK
    <2>. QED  BY <2>1, <2>2, <2>3, <2>4, <2>5
              DEF DeliveredOnceInv, UnknownUntilCommitted, InFlight
  <1>8. ViewHeld'
    BY <1>3 DEF IngestCommit, batch, DeliveredOnceInv, ViewHeld, MembersOf
  <1>9. Inhabited'
    BY <1>3 DEF IngestCommit, DeliveredOnceInv, Inhabited, MarkersAt
  <1>. QED  BY <1>5, <1>6, <1>7, <1>8, <1>9 DEF DeliveredOnceInv

LEMMA EvictKeepsOnce ==
  ASSUME TypeOK, LocBacked, DeliveredOnceInv, EvictOutliers
  PROVE  DeliveredOnceInv'
  <1>0. Outlier \notin Stories /\ Nowhere \notin Stories
    BY ConstantsAssumption
  <1>1. /\ held' = {m \in held : ~Evicted(m)}
        /\ record' = [s \in Signals |-> IF s \in Collectable(LocEvicted) THEN 0 ELSE record[s]]
        /\ loc' = [s \in Signals |-> IF s \in Collectable(LocEvicted)
                       THEN [f \in Facets |-> Nowhere] ELSE LocEvicted[s]]
    BY DEF EvictOutliers
  <1>2. \A m \in held : m = <<m[1], m[2], m[3]>> /\ m[1] \in Places
                        /\ m[2] \in Signals /\ m[3] \in Facets
    BY DEF TypeOK
  <1>3. ASSUME NEW k \in held, ~Evicted(k)
        PROVE  LocEvicted[k[2]][k[3]] = k[1] /\ k[2] \notin Collectable(LocEvicted)
    <2>1. loc[k[2]][k[3]] = k[1]
      BY DEF DeliveredOnceInv, MarkersIndexed
    <2>2. CASE k[2] \notin evict
      BY <1>2, <2>1, <2>2 DEF LocEvicted, Collectable
    <2>3. CASE k[2] \in evict
      <3>1. k[1] \in Stories
        BY <1>2, <1>3, <2>3 DEF Evicted
      <3>2. <<Outlier, k[2], k[3]>> \notin held
        <4> SUFFICES ASSUME <<Outlier, k[2], k[3]>> \in held PROVE FALSE
          OBVIOUS
        <4>1. k[1] = Outlier
          BY OneMarker DEF DeliveredOnceInv
        <4>. QED  BY <1>0, <3>1, <4>1
      <3>3. LocEvicted[k[2]][k[3]] = k[1]
        BY <1>2, <2>1, <3>2 DEF LocEvicted
      <3>. QED  BY <1>2, <3>1, <3>3 DEF Collectable
    <2>. QED  BY <2>2, <2>3
  <1>4. MarkersIndexed'
    <2> SUFFICES ASSUME NEW k \in held' PROVE loc'[k[2]][k[3]] = k[1]
      BY DEF MarkersIndexed
    <2>1. k \in held /\ ~Evicted(k) /\ k[2] \in Signals
      BY <1>1, <1>2
    <2>2. LocEvicted[k[2]][k[3]] = k[1] /\ k[2] \notin Collectable(LocEvicted)
      BY <1>3, <2>1
    <2>. QED  BY <1>1, <2>1, <2>2
  <1>5. RecordsHeld'
    <2> SUFFICES ASSUME NEW r \in Signals PROVE record'[r] # 0 <=> r \in SignalsIn(held')
      BY DEF RecordsHeld
    <2>1. CASE r \in Collectable(LocEvicted)
      <3>1. \A k \in held' : k[2] # r
        BY <1>1, <1>3, <2>1
      <3>2. record'[r] = 0
        BY <1>1, <2>1
      <3>. QED  BY <3>1, <3>2 DEF SignalsIn
    <2>2. CASE r \notin Collectable(LocEvicted)
      <3>1. record'[r] = record[r]
        BY <1>1, <2>2
      <3>2. record[r] # 0 <=> \E k \in held : k[2] = r
        BY DEF DeliveredOnceInv, RecordsHeld, SignalsIn
      <3>3. ASSUME record[r] # 0 PROVE \E k \in held' : k[2] = r
        <4>1. CASE r \notin evict
          BY <1>1, <3>2, <3>3, <4>1 DEF Evicted
        <4>2. CASE r \in evict
          <5>1. PICK f \in Facets : LocEvicted[r][f] \in Stories
            BY <2>2, <4>2 DEF Collectable
          <5>2. loc[r][f] \in Stories
            BY <1>0, <5>1 DEF LocEvicted
          <5>3. <<loc[r][f], r, f>> \in held
            BY <1>0, <5>2 DEF LocBacked
          <5>4. ~Evicted(<<loc[r][f], r, f>>)
            BY <1>0, <5>2 DEF Evicted
          <5>5. <<loc[r][f], r, f>> \in held'
            BY <1>1, <5>3, <5>4
          <5>. QED  BY <5>5
        <4>. QED  BY <4>1, <4>2
      <3>4. (\E k \in held' : k[2] = r) => (\E k \in held : k[2] = r)
        BY <1>1
      <3>. QED  BY <3>1, <3>2, <3>3, <3>4 DEF SignalsIn
    <2>. QED  BY <2>1, <2>2
  <1>6. UnknownUntilCommitted'
    <2>1. UNCHANGED <<call, sent>>
      BY DEF EvictOutliers
    <2>2. \A r \in Signals : record[r] = 0 => record'[r] = 0
      BY <1>1
    <2>3. \A c \in Callers : call[c] # NoCall => call[c].sig \in Signals
      BY DEF TypeOK
    <2>. QED  BY <2>1, <2>2, <2>3 DEF DeliveredOnceInv, UnknownUntilCommitted, InFlight
  <1>7. ViewHeld'
    <2>1. view' = view /\ phase = "collected" /\ phase' = "promote"
      BY DEF EvictOutliers
    <2>2. \A m \in view : m \in held /\ ~Evicted(m)
      BY <2>1 DEF DeliveredOnceInv, ViewHeld, MembersOf, Evicted
    <2>. QED  BY <1>1, <2>1, <2>2 DEF ViewHeld
  <1>8. Inhabited'
    <2> SUFFICES ASSUME NEW S \in Stories, rec'[S] # "absent"
                 PROVE  \E m \in held' : m[1] = S
      BY DEF Inhabited, MarkersAt
    <2>1. rec[S] # "absent"
      BY DEF EvictOutliers
    <2>2. PICK m \in held : m[1] = S
      BY <2>1 DEF DeliveredOnceInv, Inhabited, MarkersAt
    <2>3. ~Evicted(m)
      BY <1>0, <2>2 DEF Evicted
    <2>. QED  BY <1>1, <2>2, <2>3
  <1>. QED  BY <1>4, <1>5, <1>6, <1>7, <1>8 DEF DeliveredOnceInv

\* A promotion, an admission or a split of collected facets, if every
\* story the facets leave keeps a member.
LEMMA MoveKeepsOnce ==
  ASSUME TypeOK, DeliveredOnceInv, NEW ms \in SUBSET view, NEW to \in Stories,
         MoveFacets(ms, to), UNCHANGED <<record, rec, call, sent>>,
         phase' # "collected",
         \A m \in ms : m[1] = Outlier \/ \E k \in view \ ms : k[1] = m[1]
  PROVE  DeliveredOnceInv'
  <1>1. /\ MarkersIndexed' /\ RecordsHeld' /\ view' \subseteq held'
        /\ held \ ms \subseteq held'
    BY MoveCollected DEF DeliveredOnceInv, ViewHeld
  <1>2. UnknownUntilCommitted'
    BY DEF DeliveredOnceInv, UnknownUntilCommitted, InFlight
  <1>3. Inhabited'
    <2> SUFFICES ASSUME NEW S \in Stories, rec[S] # "absent"
                 PROVE  \E m \in held' : m[1] = S
      BY DEF Inhabited, MarkersAt
    <2>1. PICK m \in held : m[1] = S
      BY DEF DeliveredOnceInv, Inhabited, MarkersAt
    <2>2. CASE m \in ms
      <3>1. PICK k \in view \ ms : k[1] = S
        BY <2>1, <2>2, ConstantsAssumption
      <3>. QED  BY <1>1, <3>1 DEF DeliveredOnceInv, ViewHeld
    <2>. QED  BY <1>1, <2>1, <2>2
  <1>. QED  BY <1>1, <1>2, <1>3 DEF DeliveredOnceInv, ViewHeld

LEMMA MergeKeepsOnce ==
  ASSUME TypeOK, DeliveredOnceInv, NEW retired \in Stories, NEW survivor \in Stories,
         MergeStories(retired, survivor)
  PROVE  DeliveredOnceInv'
  <1>1. /\ Migrants(retired) \in SUBSET held /\ survivor \in Places
        /\ MembersOf(retired) \subseteq Migrants(retired)
    BY DEF Migrants, MarkersAt, MembersOf, DeliveredOnceInv, ViewHeld
  <1>2. /\ MarkersIndexed' /\ SignalsIn(held') = SignalsIn(held)
        /\ held \ Migrants(retired) \subseteq held'
        /\ \A m \in Migrants(retired) : <<survivor, m[2], m[3]>> \in held'
    BY <1>1, MoveIndexed DEF MergeStories, DeliveredOnceInv
  <1>3. RecordsHeld'
    BY <1>2 DEF RecordsHeld, DeliveredOnceInv, MergeStories
  <1>4. UnknownUntilCommitted'
    BY DEF DeliveredOnceInv, UnknownUntilCommitted, InFlight, MergeStories
  <1>5. ViewHeld'
    <2>1. \A m \in view \ MembersOf(retired) : m \in held \ Migrants(retired)
      BY DEF Migrants, MarkersAt, MembersOf, DeliveredOnceInv, ViewHeld
    <2>2. view' = ViewAfterMove(MembersOf(retired), survivor) /\ phase' = "merge"
      BY DEF MergeStories
    <2>3. view' \subseteq held'
      BY <1>1, <1>2, <2>1, <2>2 DEF ViewAfterMove
    <2>. QED  BY <2>2, <2>3 DEF ViewHeld
  <1>6. Inhabited'
    <2> SUFFICES ASSUME NEW S \in Stories, rec'[S] # "absent"
                 PROVE  \E m \in held' : m[1] = S
      BY DEF Inhabited, MarkersAt
    <2>1. rec[S] # "absent" /\ S # retired
      BY DEF MergeStories, TypeOK
    <2>2. PICK m \in held : m[1] = S
      BY <2>1 DEF DeliveredOnceInv, Inhabited, MarkersAt
    <2>3. m \notin Migrants(retired)
      BY <2>1, <2>2 DEF Migrants, MarkersAt
    <2>. QED  BY <1>2, <2>2, <2>3
  <1>. QED  BY <1>2, <1>3, <1>4, <1>5, <1>6 DEF DeliveredOnceInv

LEMMA SplitKeepsOnce ==
  ASSUME TypeOK, DeliveredOnceInv, NEW S \in Stories, NEW child \in Stories,
         SplitStory(S, child)
  PROVE  DeliveredOnceInv'
  <1>1. PICK spawn \in SUBSET MembersOf(S) :
          Divisible(MembersOf(S) \ spawn, spawn) /\ MoveFacets(spawn, child)
    BY DEF SplitStory
  <1>2. MembersOf(S) \ spawn # {}
    <2> SUFFICES ASSUME MembersOf(S) \ spawn = {} PROVE FALSE
      OBVIOUS
    <2>1. SignalsIn(MembersOf(S) \ spawn) = {}
      BY DEF SignalsIn
    <2>2. Cardinality(SignalsIn(MembersOf(S) \ spawn)) = 0
      BY <2>1, FS_EmptySet
    <2>3. 0 >= MinStorySize
      BY <1>1, <2>2 DEF Divisible, Enough
    <2>. QED  BY <2>3, ConstantsAssumption
  <1>3. /\ spawn \in SUBSET view
        /\ \A m \in spawn : \E k \in view \ spawn : k[1] = m[1]
    BY <1>2 DEF MembersOf
  <1>. QED  BY <1>1, <1>3, MoveKeepsOnce DEF SplitStory

\* Every step keeps the invariant, if no signal is delivered twice.
LEMMA NextDeliveredOnce ==
  ASSUME Redeliver = FALSE, TypeOK, LocBacked, DeliveredOnceInv, [Next]_vars
  PROVE  DeliveredOnceInv'
<1>1. ASSUME NEW c \in Callers, IngestMatch(c) PROVE DeliveredOnceInv'
  <2>1. PICK s \in Signals \ sent :
          \E n \in Shapes[s] : \E m \in [1 .. n -> index \cup {Outlier}] :
            /\ call' = [call EXCEPT ![c] = [sig |-> s, n |-> n, match |-> m]]
            /\ sent' = IF Redeliver THEN sent ELSE sent \cup {s}
    BY <1>1 DEF IngestMatch
  <2>2. call'[c].sig = s /\ sent' = sent \cup {s}
    BY <2>1 DEF TypeOK
  <2>3. \A d \in Callers \ {c} : call'[d] = call[d]
    BY <2>1 DEF TypeOK
  <2>4. record' = record
    BY <1>1 DEF IngestMatch, store
  <2>5. record[s] = 0 /\ \A d \in Callers : call[d] # NoCall => call[d].sig # s
    BY <2>1 DEF DeliveredOnceInv, UnknownUntilCommitted, InFlight
  <2>6. UnknownUntilCommitted'
    BY <2>2, <2>3, <2>4, <2>5 DEF DeliveredOnceInv, UnknownUntilCommitted, InFlight
  <2>. QED  BY <1>1, <2>6, StoreKept
            DEF IngestMatch, store, batch, DeliveredOnceInv, ViewHeld, MembersOf,
                Inhabited, MarkersAt
<1>2. ASSUME NEW c \in Callers, IngestCommit(c) PROVE DeliveredOnceInv'
  BY <1>2, CommitKeepsOnce
<1>3. ASSUME NEW c \in Callers, IngestBuffered(c) PROVE DeliveredOnceInv'
  <2>1. /\ call[c] # NoCall /\ call' = [call EXCEPT ![c] = NoCall]
        /\ sent' = sent \ {call[c].sig} /\ record' = record
    BY <1>3 DEF IngestBuffered, store
  <2>2. \A d \in Callers : call'[d] # NoCall => call'[d] = call[d] /\ d # c
    BY <2>1 DEF TypeOK
  <2>3. UnknownUntilCommitted'
    BY <2>1, <2>2 DEF DeliveredOnceInv, UnknownUntilCommitted, InFlight
  <2>. QED  BY <1>3, <2>3, StoreKept
            DEF IngestBuffered, store, batch, DeliveredOnceInv, ViewHeld, MembersOf,
                Inhabited, MarkersAt
<1>4. ASSUME UNCHANGED <<record, held, loc, rec, call, sent>>,
             view' \subseteq held,
             phase' = "collected" => \A m \in view' : m[1] = Outlier => m[2] \notin evict'
      PROVE  DeliveredOnceInv'
  BY <1>4, StoreKept
     DEF DeliveredOnceInv, UnknownUntilCommitted, InFlight, ViewHeld, MembersOf,
         Inhabited, MarkersAt
<1>5. CASE CollectStories
  BY <1>4, <1>5 DEF CollectStories, store
<1>6. ASSUME NEW p \in Places, CollectPlace(p) PROVE DeliveredOnceInv'
  BY <1>4, <1>6 DEF CollectPlace, store, MarkersAt, DeliveredOnceInv, ViewHeld
<1>7. CASE CollectRecords
  <2>1. /\ view' \subseteq view
        /\ \A m \in view' : m[1] = Outlier => m[2] \notin evict'
    BY <1>7 DEF CollectRecords, Collected
  <2>. QED  BY <1>4, <1>7, <2>1 DEF CollectRecords, store, DeliveredOnceInv, ViewHeld
<1>8. CASE BatchFails
  BY <1>4, <1>8 DEF BatchFails, store
<1>9. CASE EvictOutliers
  BY <1>9, EvictKeepsOnce
<1>10. ASSUME NEW S \in Stories, PromoteGroup(S) PROVE DeliveredOnceInv'
  <2>1. PICK group \in SUBSET MembersOf(Outlier) : MoveFacets(group, S)
    BY <1>10 DEF PromoteGroup
  <2>2. group \in SUBSET view /\ \A m \in group : m[1] = Outlier
    BY DEF MembersOf
  <2>. QED  BY <1>10, <2>1, <2>2, MoveKeepsOnce DEF PromoteGroup
<1>11. ASSUME NEW S \in Stories, AdmitFacet(S) PROVE DeliveredOnceInv'
  <2>1. PICK m \in MembersOf(Outlier) : MoveFacets({m}, S)
    BY <1>11 DEF AdmitFacet
  <2>2. {m} \in SUBSET view /\ m[1] = Outlier
    BY DEF MembersOf
  <2>. QED  BY <1>11, <2>1, <2>2, MoveKeepsOnce DEF AdmitFacet
<1>12. ASSUME NEW S \in Stories, NEW other \in Stories,
              SplitStory(S, other) \/ MergeStories(S, other)
       PROVE  DeliveredOnceInv'
  BY <1>12, SplitKeepsOnce, MergeKeepsOnce
<1>13. CASE CommitApply
  <2>1. Inhabited'
    BY <1>13 DEF CommitApply, Live, MembersOf, Inhabited, MarkersAt,
                 DeliveredOnceInv, ViewHeld
  <2>2. MarkersIndexed' /\ RecordsHeld'
    BY <1>13, StoreKept DEF CommitApply, DeliveredOnceInv
  <2>3. UnknownUntilCommitted' /\ ViewHeld'
    BY <1>13 DEF CommitApply, DeliveredOnceInv, UnknownUntilCommitted, InFlight, ViewHeld
  <2>. QED  BY <2>1, <2>2, <2>3 DEF DeliveredOnceInv
<1>14. CASE RebuildIndex
  BY <1>4, <1>14 DEF RebuildIndex, store, DeliveredOnceInv, ViewHeld
<1>15. CASE RebuildFails
  BY <1>4, <1>15 DEF RebuildFails, store, DeliveredOnceInv, ViewHeld
<1>16. CASE Restart
  <2>1. UnknownUntilCommitted' /\ ViewHeld'
    BY <1>16 DEF Restart, store, DeliveredOnceInv, UnknownUntilCommitted, InFlight, ViewHeld
  <2>. QED  BY <1>16, <2>1, StoreKept
            DEF Restart, store, DeliveredOnceInv, Inhabited, MarkersAt
<1>17. CASE UNCHANGED vars
  BY <1>4, <1>17 DEF vars, store, batch, DeliveredOnceInv, ViewHeld, MembersOf
<1>18. ASSUME NEW c \in Callers, IngestMatchRest(c) PROVE DeliveredOnceInv'
  <2>1. \A d \in Callers : call'[d] # NoCall =>
          call[d] # NoCall /\ call'[d].sig = call[d].sig
    BY <1>18, RestKeepsCalls
  <2>2. UnknownUntilCommitted'
    BY <1>18, <2>1
       DEF IngestMatchRest, store, DeliveredOnceInv, UnknownUntilCommitted, InFlight
  <2>. QED  BY <1>18, <2>2, StoreKept
            DEF IngestMatchRest, store, batch, DeliveredOnceInv, ViewHeld, MembersOf,
                Inhabited, MarkersAt
<1>19. ASSUME NEW S \in Stories, Suppress(S) PROVE DeliveredOnceInv'
  <2>1. /\ rec[S] # "absent" /\ rec' = [rec EXCEPT ![S] = "open"]
        /\ UNCHANGED <<record, held, loc, batch, call, sent>>
    BY <1>19 DEF Suppress
  <2>2. Inhabited'
    BY <2>1 DEF DeliveredOnceInv, Inhabited, MarkersAt, TypeOK
  <2>3. MarkersIndexed' /\ RecordsHeld'
    BY <2>1, StoreKept DEF DeliveredOnceInv
  <2>4. UnknownUntilCommitted' /\ ViewHeld'
    BY <2>1 DEF batch, DeliveredOnceInv, UnknownUntilCommitted, InFlight, ViewHeld, MembersOf
  <2>. QED  BY <2>2, <2>3, <2>4 DEF DeliveredOnceInv
<1>. QED
  BY <1>1, <1>2, <1>3, <1>5, <1>6, <1>7, <1>8, <1>9, <1>10, <1>11, <1>12, <1>13,
     <1>14, <1>15, <1>16, <1>17, <1>18, <1>19 DEF Next

\* Of signals delivered once: the inductive invariant holds in every behaviour.
THEOREM DeliveredOnce ==
  ASSUME Redeliver = FALSE
  PROVE  Spec => []DeliveredOnceInv
<1>1. TypeOK /\ LocBacked /\ DeliveredOnceInv /\ [Next]_vars => DeliveredOnceInv'
  BY NextDeliveredOnce
<1>. QED  BY <1>1, InitDeliveredOnce, TypeCorrect, LocationBacked, PTL DEF Spec

\* So every facet has one home, the one its signal's index names; a record
\* exists exactly as long as a facet of it is held; what the batch collected is
\* true when it acts on it; and no story is left without members.
THEOREM DeliveredOnceSafe ==
  ASSUME Redeliver = FALSE
  PROVE  Spec => [](MarkersIndexed /\ OneHome /\ RecordsHeld /\ ViewCurrent /\ NoEmptyStory)
<1>1. TypeOK /\ DeliveredOnceInv
        => MarkersIndexed /\ OneHome /\ RecordsHeld /\ ViewCurrent /\ NoEmptyStory
  <2> SUFFICES ASSUME TypeOK, DeliveredOnceInv
               PROVE  MarkersIndexed /\ OneHome /\ RecordsHeld /\ ViewCurrent /\ NoEmptyStory
    OBVIOUS
  <2>1. OneHome
    <3> SUFFICES ASSUME NEW m \in held, NEW k \in held, m[2] = k[2], m[3] = k[3]
                 PROVE  m = k
      BY DEF OneHome
    <3>1. m[1] = k[1]
      BY OneMarker DEF DeliveredOnceInv
    <3>. QED  BY <3>1 DEF TypeOK
  <2>. QED  BY <2>1 DEF DeliveredOnceInv, ViewHeld, ViewCurrent, Inhabited, NoEmptyStory
<1>. QED  BY <1>1, TypeCorrect, DeliveredOnce, PTL

\* Singled out: every marker is the one the signal's index names.
COROLLARY MarkersAreIndexed ==
  ASSUME Redeliver = FALSE
  PROVE  Spec => []MarkersIndexed
  BY DeliveredOnceSafe, PTL

\* Singled out: no pass moves a facet from a place it has left since the
\* collection.
COROLLARY ViewIsCurrent ==
  ASSUME Redeliver = FALSE
  PROVE  Spec => []ViewCurrent
  BY DeliveredOnceSafe, PTL

\* Singled out: every story that is open has members.
COROLLARY StoriesInhabited ==
  ASSUME Redeliver = FALSE
  PROVE  Spec => []NoEmptyStory
  BY DeliveredOnceSafe, PTL

-----------------------------------------------------------------------------
(* The refinement: FacetPlacement implements StableHomes when every signal  *)
(* is delivered once; no step relocates a facet on its own.                *)

HomeIndexed == Home = loc

\* The home read from the markers is the place the index names.
LEMMA HomeIsLoc ==
  ASSUME TypeOK, LocBacked, MarkersIndexed
  PROVE  Home = loc
  <1>1. ASSUME NEW s \in Signals, NEW f \in Facets
        PROVE  Home[s][f] = loc[s][f]
    <2>1. CASE \E p \in Places : <<p, s, f>> \in held
      <3>1. \A p \in Places : <<p, s, f>> \in held => p = loc[s][f]
        BY DEF MarkersIndexed
      <3>2. Home[s][f] = CHOOSE p \in Places : <<p, s, f>> \in held
        BY <2>1 DEF Home
      <3>3. /\ (CHOOSE p \in Places : <<p, s, f>> \in held) \in Places
            /\ <<CHOOSE p \in Places : <<p, s, f>> \in held, s, f>> \in held
        BY <2>1
      <3>. QED  BY <3>1, <3>2, <3>3
    <2>2. CASE ~\E p \in Places : <<p, s, f>> \in held
      <3>1. loc[s][f] = Nowhere
        BY <2>2 DEF LocBacked, TypeOK
      <3>. QED  BY <2>2, <3>1 DEF Home
    <2>. QED  BY <2>1, <2>2
  <1>2. Home = [s \in Signals |-> [f \in Facets |-> Home[s][f]]]
    BY DEF Home
  <1>3. loc = [s \in Signals |-> [f \in Facets |-> loc[s][f]]]
    BY DEF TypeOK
  <1>. QED  BY <1>1, <1>2, <1>3

\* Collected facets are at home where the batch believes them.
LEMMA CollectedAtHome ==
  ASSUME TypeOK, MarkersIndexed, view \subseteq held, Home = loc,
         NEW S \in Places, NEW ms \in SUBSET MembersOf(S)
  PROVE  FacetsOf(ms) \subseteq Homes!At(S)
  <1>1. ASSUME NEW m \in ms PROVE <<m[2], m[3]>> \in Homes!At(S)
    <2>1. m \in held /\ m[1] = S /\ m[2] \in Signals /\ m[3] \in Facets
      BY DEF MembersOf, TypeOK
    <2>2. loc[m[2]][m[3]] = S
      BY <2>1 DEF MarkersIndexed
    <2>. QED  BY <2>1, <2>2 DEF Homes!At
  <1>. QED  BY <1>1 DEF FacetsOf

\* A set of facets has the signals of its markers.
LEMMA SameSignals ==
  ASSUME NEW ms
  PROVE  Homes!SignalsOf(FacetsOf(ms)) = SignalsIn(ms)
  <1>1. ASSUME NEW m \in ms PROVE m[2] \in Homes!SignalsOf(FacetsOf(ms))
    <2>1. <<m[2], m[3]>> \in FacetsOf(ms) /\ <<m[2], m[3]>>[1] = m[2]
      BY DEF FacetsOf
    <2>. QED  BY <2>1 DEF Homes!SignalsOf
  <1>2. ASSUME NEW k \in FacetsOf(ms) PROVE k[1] \in SignalsIn(ms)
    BY DEF FacetsOf, SignalsIn
  <1>3. SignalsIn(ms) \subseteq Homes!SignalsOf(FacetsOf(ms))
    BY <1>1 DEF SignalsIn
  <1>4. Homes!SignalsOf(FacetsOf(ms)) \subseteq SignalsIn(ms)
    BY <1>2 DEF Homes!SignalsOf
  <1>. QED  BY <1>3, <1>4

\* More signals are enough, too.
LEMMA EnoughGrows ==
  ASSUME NEW some \in SUBSET Signals, NEW more \in SUBSET Signals,
         some \subseteq more, Enough(some)
  PROVE  Enough(more)
  <1>1. IsFiniteSet(more)
    BY FS_Subset, ConstantsAssumption
  <1>2. Cardinality(some) <= Cardinality(more) /\ IsFiniteSet(some)
    BY <1>1, FS_Subset
  <1>3. Cardinality(some) \in Nat /\ Cardinality(more) \in Nat
    BY <1>1, <1>2, FS_CardinalityType
  <1>. QED  BY <1>2, <1>3, ConstantsAssumption DEF Enough

\* Every step of the implementation is one of the abstract specification, or
\* changes no home.
LEMMA NextStable ==
  ASSUME TypeOK, LocBacked, DeliveredOnceInv, [Next]_vars,
         Home = loc, Home' = loc'
  PROVE  [Homes!Next]_Home
<1>1. ASSUME UNCHANGED loc PROVE [Homes!Next]_Home
  BY <1>1
<1>2. ASSUME NEW c \in Callers, IngestCommit(c) PROVE [Homes!Next]_Home
  <2> DEFINE s == call[c].sig
             n == call[c].n
             m == call[c].match
             h == [f \in Facets |-> IF f <= n THEN m[f] ELSE Nowhere]
  <2>1. /\ s \in Signals /\ n \in Facets /\ m \in [1 .. n -> Places]
        /\ \A f \in Facets : loc[s][f] = Nowhere
    BY <1>2, FlyingUnknown DEF IngestCommit, DeliveredOnceInv
  <2>2. loc' = [loc EXCEPT ![s] = h]
    BY <1>2, CommitAdds DEF DeliveredOnceInv
  <2>3. h \in [Facets -> Homes!Homes]
    BY <2>1 DEF Homes!Homes
  <2>4. Homes!Arrive(s)
    BY <2>1, <2>2, <2>3 DEF Homes!Arrive
  <2>. QED  BY <2>1, <2>4 DEF Homes!Next
<1>3. CASE EvictOutliers
  <2>1. ASSUME NEW s \in Signals, NEW f \in Facets
        PROVE  loc'[s][f] = IF s \in evict /\ loc[s][f] = Outlier
                            THEN Nowhere ELSE loc[s][f]
    <3>1. loc'[s][f] = IF s \in Collectable(LocEvicted) THEN Nowhere ELSE LocEvicted[s][f]
      BY <1>3 DEF EvictOutliers
    <3>2. <<Outlier, s, f>> \in held <=> loc[s][f] = Outlier
      BY ConstantsAssumption DEF LocBacked, DeliveredOnceInv, MarkersIndexed
    <3>3. LocEvicted[s][f] = IF s \in evict /\ loc[s][f] = Outlier
                             THEN Nowhere ELSE loc[s][f]
      BY <3>2 DEF LocEvicted
    <3>4. CASE s \in Collectable(LocEvicted)
      <4>1. s \in evict /\ LocEvicted[s][f] \notin Stories
        BY <3>4 DEF Collectable
      <4>2. loc[s][f] \in Stories \cup {Outlier, Nowhere}
        <5>1. loc \in [Signals -> [Facets -> Places \cup {Nowhere}]]
          BY DEF TypeOK
        <5>. QED  BY <5>1
      <4>. QED  BY <3>1, <3>3, <3>4, <4>1, <4>2
    <3>5. CASE s \notin Collectable(LocEvicted)
      BY <3>1, <3>3, <3>5
    <3>. QED  BY <3>4, <3>5
  <2> DEFINE out == {k \in Homes!At(Outlier) : k[1] \in evict}
  <2>2. ASSUME NEW s \in Signals, NEW f \in Facets
        PROVE  <<s, f>> \in out <=> s \in evict /\ loc[s][f] = Outlier
    BY DEF Homes!At
  <2>3. loc' \in [Signals -> [Facets -> Places \cup {Nowhere}]]
    BY NextTypeOK DEF TypeOK
  <2>4. loc' = [s \in Signals |-> [f \in Facets |-> IF <<s, f>> \in out THEN Nowhere
                                                    ELSE loc[s][f]]]
    BY <2>1, <2>2, <2>3
  <2>5. Homes!Expire(evict)
    BY <2>4 DEF Homes!Expire, Homes!Moved
  <2>. QED  BY <2>5 DEF Homes!Next, TypeOK
<1>4. ASSUME NEW S \in Stories, PromoteGroup(S) PROVE [Homes!Next]_Home
  <2>1. PICK group \in SUBSET MembersOf(Outlier) :
          Enough(SignalsIn(group)) /\ MoveFacets(group, S)
    BY <1>4 DEF PromoteGroup
  <2>2. FacetsOf(group) \in SUBSET Homes!At(Outlier)
    BY CollectedAtHome DEF DeliveredOnceInv, ViewHeld
  <2>3. Enough(Homes!SignalsOf(FacetsOf(group)))
    BY <2>1, SameSignals
  <2>4. loc' = Homes!Moved(FacetsOf(group), S)
    BY <2>1 DEF MoveFacets, LocAfterMove, Homes!Moved
  <2>5. Homes!Join(S)
    BY <2>2, <2>3, <2>4 DEF Homes!Join
  <2>. QED  BY <2>5 DEF Homes!Next
<1>5. ASSUME NEW S \in Stories, AdmitFacet(S) PROVE [Homes!Next]_Home
  <2>1. PICK m \in MembersOf(Outlier) : MoveFacets({m}, S)
    BY <1>5 DEF AdmitFacet
  <2>2. FacetsOf({m}) \in SUBSET Homes!At(Outlier)
    BY CollectedAtHome DEF DeliveredOnceInv, ViewHeld
  <2>3. Homes!At(S) # {}
    <3>1. PICK k \in MembersOf(S) : TRUE
      BY <1>5 DEF AdmitFacet, Live
    <3>2. FacetsOf({k}) \subseteq Homes!At(S)
      BY CollectedAtHome DEF DeliveredOnceInv, ViewHeld
    <3>. QED  BY <3>2 DEF FacetsOf
  <2>4. loc' = Homes!Moved(FacetsOf({m}), S)
    BY <2>1 DEF MoveFacets, LocAfterMove, Homes!Moved
  <2>5. Homes!Join(S)
    BY <2>2, <2>3, <2>4 DEF Homes!Join
  <2>. QED  BY <2>5 DEF Homes!Next
<1>6. ASSUME NEW S \in Stories, NEW child \in Stories, SplitStory(S, child)
      PROVE  [Homes!Next]_Home
  <2>1. PICK spawn \in SUBSET MembersOf(S) :
          Divisible(MembersOf(S) \ spawn, spawn) /\ MoveFacets(spawn, child)
    BY <1>6 DEF SplitStory
  <2> DEFINE keep == MembersOf(S) \ spawn
             rest == Homes!At(S) \ FacetsOf(spawn)
  <2>2. FacetsOf(spawn) \in SUBSET Homes!At(S) /\ FacetsOf(keep) \in SUBSET Homes!At(S)
    BY CollectedAtHome DEF DeliveredOnceInv, ViewHeld
  <2>3. Enough(Homes!SignalsOf(FacetsOf(spawn)))
    BY <2>1, SameSignals DEF Divisible
  <2>4. FacetsOf(keep) \subseteq rest
    <3> SUFFICES ASSUME NEW k \in keep, NEW m \in spawn, <<k[2], k[3]>> = <<m[2], m[3]>>
                 PROVE  FALSE
      BY <2>2 DEF FacetsOf
    <3>1. k \in held /\ m \in held /\ k[1] = S /\ m[1] = S
      BY DEF MembersOf, DeliveredOnceInv, ViewHeld
    <3>2. k = m
      BY <3>1 DEF TypeOK
    <3>. QED  BY <3>2
  <2>5. SignalsIn(keep) \subseteq Homes!SignalsOf(rest)
    <3>1. Homes!SignalsOf(FacetsOf(keep)) \subseteq Homes!SignalsOf(rest)
      BY <2>4 DEF Homes!SignalsOf
    <3>. QED  BY <3>1, SameSignals
  <2>6. Homes!SignalsOf(rest) \subseteq Signals
    BY DEF Homes!At, Homes!SignalsOf
  <2>7. Enough(Homes!SignalsOf(rest))
    BY <2>1, <2>5, <2>6, EnoughGrows DEF Divisible
  <2>8. loc' = Homes!Moved(FacetsOf(spawn), child)
    BY <2>1 DEF MoveFacets, LocAfterMove, Homes!Moved
  <2>9. Homes!Split(S, child)
    BY <2>2, <2>3, <2>7, <2>8 DEF Homes!Split
  <2>. QED  BY <2>9 DEF Homes!Next
<1>7. ASSUME NEW S \in Stories, NEW survivor \in Stories, MergeStories(S, survivor)
      PROVE  [Homes!Next]_Home
  <2>1. FacetsOf(Migrants(S)) = Homes!At(S)
    <3>1. ASSUME NEW m \in Migrants(S) PROVE <<m[2], m[3]>> \in Homes!At(S)
      <4>1. m \in held /\ m[1] = S /\ m[2] \in Signals /\ m[3] \in Facets
        BY DEF Migrants, MarkersAt, TypeOK
      <4>2. loc[m[2]][m[3]] = S
        BY <4>1 DEF DeliveredOnceInv, MarkersIndexed
      <4>. QED  BY <4>1, <4>2 DEF Homes!At
    <3>2. ASSUME NEW k \in Homes!At(S) PROVE k \in FacetsOf(Migrants(S))
      <4>1. PICK s \in Signals, f \in Facets : k = <<s, f>> /\ loc[s][f] = S
        BY DEF Homes!At
      <4>2. <<S, s, f>> \in Migrants(S)
        BY <4>1, ConstantsAssumption DEF LocBacked, Migrants, MarkersAt
      <4>. QED  BY <4>1, <4>2 DEF FacetsOf
    <3>. QED  BY <3>1, <3>2 DEF FacetsOf
  <2>2. Homes!At(survivor) # {}
    <3>1. PICK k \in MembersOf(survivor) : TRUE
      BY <1>7 DEF MergeStories, Live
    <3>2. FacetsOf({k}) \subseteq Homes!At(survivor)
      BY CollectedAtHome DEF DeliveredOnceInv, ViewHeld
    <3>. QED  BY <3>2 DEF FacetsOf
  <2>3. loc' = Homes!Moved(Homes!At(S), survivor)
    BY <1>7, <2>1 DEF MergeStories, LocAfterMove, Homes!Moved
  <2>4. Homes!Merge(S, survivor)
    BY <2>2, <2>3 DEF Homes!Merge
  <2>. QED  BY <2>4 DEF Homes!Next
<1>. QED
  BY <1>1, <1>2, <1>3, <1>4, <1>5, <1>6, <1>7
     DEF Next, vars, store, IngestMatch, IngestMatchRest, IngestBuffered, Suppress,
         CollectStories, CollectPlace, CollectRecords, BatchFails, CommitApply, RebuildIndex, RebuildFails, Restart

\* The abstract specification of membership stability is implemented.
THEOREM MembershipIsStable ==
  ASSUME Redeliver = FALSE
  PROVE  Spec => MembershipStable
<1>1. Init => Homes!Init
  BY DEF Init, Homes!Init, Home
<1>2. TypeOK /\ LocBacked /\ DeliveredOnceInv => HomeIndexed
  BY HomeIsLoc DEF DeliveredOnceInv, HomeIndexed
<1>3. TypeOK /\ LocBacked /\ DeliveredOnceInv /\ HomeIndexed /\ HomeIndexed' /\ [Next]_vars
        => [Homes!Next]_Home
  BY NextStable DEF HomeIndexed
<1>. QED
  BY <1>1, <1>2, <1>3, TypeCorrect, LocationBacked, DeliveredOnce, PTL
     DEF Spec, MembershipStable, Homes!Spec
=============================================================================
