------------------------- MODULE Calibration_proofs -------------------------
(***************************************************************************)
(* Safety of the published mean, time and dimension, for any signals,      *)
(* stories and dimensions, any OutlierTTL and any bound of the clock.      *)
(***************************************************************************)
EXTENDS Calibration, TLAPS

-----------------------------------------------------------------------------
(* Type correctness, with what the batch is going to evict.                *)

EvictHeld == evict \subseteq Held

LEMMA TypeStep == TypeOK /\ EvictHeld /\ [Next]_vars => TypeOK' /\ EvictHeld'
<1> SUFFICES ASSUME TypeOK, EvictHeld, [Next]_vars
             PROVE  TypeOK' /\ EvictHeld'
  OBVIOUS
<1> USE ConstantsAssumption
    DEF TypeOK, EvictHeld, Held, Never, Unset, NoMean, Open
<1>1. CASE Tick  BY <1>1 DEF Tick, store, memory, batch, history
<1>2. ASSUME NEW s \in Signals, Ingest(s) PROVE TypeOK' /\ EvictHeld'
  BY <1>2 DEF Ingest, Matches, batch, history
<1>3. ASSUME NEW s \in Signals, IngestFails(s) PROVE TypeOK' /\ EvictHeld'
  BY <1>3 DEF IngestFails, store, batch, history
<1>4. CASE Collect
  BY <1>4 DEF Collect, Collected, Collectable, Members, Expired, store, memory, history
<1>5. CASE Publish  BY <1>5 DEF Publish, store, history
<1>6. CASE Commit
  <2> PICK joiners \in SUBSET (view \cap Held) :
        \E joins \in [joiners -> Stories \ archived] :
          \E old \in SUBSET {S \in Stories : Recentred(joins, S)} :
            Regroup(joins, old)
    BY <1>6 DEF Commit
  <2> PICK joins \in [joiners -> Stories \ archived] :
        \E old \in SUBSET {S \in Stories : Recentred(joins, S)} :
          Regroup(joins, old)
    OBVIOUS
  <2> PICK old \in SUBSET {S \in Stories : Recentred(joins, S)} :
        Regroup(joins, old)
    OBVIOUS
  <2>1. home' \in [Signals -> Stories \cup {Outlier, Absent}]
    BY DEF Regroup
  <2>2. record' \in [Stories -> SUBSET Signals] /\ archived' \subseteq Stories
    BY DEF Regroup
  <2> QED  BY <1>6, <2>1, <2>2 DEF Commit, SavedDim, memory
<1>7. CASE CommitFails  BY <1>7 DEF CommitFails, store, memory
<1>8. CASE ApplyFails  BY <1>8 DEF ApplyFails, store, memory, history
<1>9. ASSUME NEW d \in Dims \cup {Unset}
      PROVE  Recovered(d) \subseteq Dims \cup {Unset}
  BY <1>9 DEF Recovered, Members
<1>10. CASE Rebuild
  BY <1>9, <1>10 DEF Rebuild, Built, store
<1>11. CASE RebuildFails
  BY <1>11 DEF RebuildFails, store, memory, history
<1>12. CASE Restart
  BY <1>9, <1>12 DEF Restart, Built, LoadedMean, store
<1>13. CASE UNCHANGED vars
  BY <1>13 DEF vars, store, memory, batch, history
<1> QED
  BY <1>1, <1>2, <1>3, <1>4, <1>5, <1>6, <1>7, <1>8, <1>10, <1>11, <1>12, <1>13
  DEF Next

LEMMA TypeInit == Init => TypeOK /\ EvictHeld
<1> SUFFICES ASSUME Init PROVE TypeOK /\ EvictHeld  OBVIOUS
<1>1. saved \in [dim : Dims \cup {Unset}, mean : SUBSET Signals,
                 last : {Never} \cup 0 .. clock]
  BY DEF Init, NoMean
<1>2. /\ home \in [Signals -> Stories \cup {Outlier, Absent}]
      /\ at \in [Signals -> 0 .. clock]
      /\ record \in [Stories -> SUBSET Signals]
      /\ index \in [Stories -> SUBSET Signals]
  BY DEF Init, NoMean
<1>3. clock \in 0 .. MaxTime /\ now \in 0 .. clock /\ last \in {Never} \cup 0 .. clock
  BY ConstantsAssumption DEF Init
<1>4. behind \in BOOLEAN /\ unsaved \in BOOLEAN  BY DEF Init
<1> QED  BY <1>1, <1>2, <1>3, <1>4 DEF Init, TypeOK, EvictHeld, NoMean

\* Every variable stays in its type; what is going to be evicted is not worked on.
THEOREM CalibrationTypeCorrect == Spec => [](TypeOK /\ EvictHeld)
BY TypeInit, TypeStep, PTL DEF Spec

-----------------------------------------------------------------------------
(* What a commit does to homes and records.                                *)

LEMMA CommitEffect ==
    ASSUME TypeOK, EvictHeld, Commit
    PROVE  /\ \A s \in Signals : \/ home'[s] = home[s]
                                 \/ s \in view \cap Held /\ home'[s] \in Stories
                                 \/ s \in evict /\ home'[s] = Absent
           /\ \A S \in Stories : S \in Open' /\ record'[S] # mean =>
                S \in Open /\ Members(S) \cap view = {}
           /\ \A S \in Stories : S \in Open' =>
                S \in Open \/ \E s \in Signals : home'[s] = S
<1> PICK joiners \in SUBSET (view \cap Held) :
      \E joins \in [joiners -> Stories \ archived] :
        \E old \in SUBSET {S \in Stories : Recentred(joins, S)} :
          Regroup(joins, old)
  BY DEF Commit
<1> PICK joins \in [joiners -> Stories \ archived] :
      \E old \in SUBSET {S \in Stories : Recentred(joins, S)} :
        Regroup(joins, old)
  OBVIOUS
<1> PICK old \in SUBSET {S \in Stories : Recentred(joins, S)} :
      Regroup(joins, old)
  OBVIOUS
<1> USE DEF TypeOK
<1>1. \A s \in Signals : home'[s] =
        IF s \in joiners THEN joins[s] ELSE IF s \in evict THEN Absent ELSE home[s]
  BY DEF Regroup
<1>2. \A S \in Stories :
        record'[S] = IF Recentred(joins, S) THEN mean ELSE record[S]
  BY DEF Regroup
<1>3. archived' = archived \cup old  BY DEF Regroup
<1>4. \A S \in Stories : S \in Open' /\ ~Recentred(joins, S) => S \in Open
  BY <1>2, <1>3 DEF Open
<1>5. ASSUME NEW S \in Stories, S \in Open', record'[S] # mean
      PROVE  S \in Open /\ Members(S) \cap view = {}
  BY <1>2, <1>4, <1>5 DEF Recentred
<1>6. ASSUME NEW S \in Stories, S \in Open'
      PROVE  S \in Open \/ \E s \in Signals : home'[s] = S
  <2>1. CASE Recentred(joins, S)  BY <1>1, <2>1 DEF Recentred
  <2>2. CASE ~Recentred(joins, S)  BY <1>4, <1>6, <2>2
  <2> QED  BY <2>1, <2>2
<1> QED  BY <1>1, <1>5, <1>6

-----------------------------------------------------------------------------
(* The dimension.                                                          *)

\* What a settled tracker works with is what a restart reads back.
DimSaved == corpus = "settled" => dim # Unset /\ saved.dim = dim

LEMMA DimensionStep ==
    TypeOK /\ EvictHeld /\ DimSaved /\ OneDimension /\ [Next]_vars
      => DimSaved' /\ OneDimension'
<1> SUFFICES ASSUME TypeOK, EvictHeld, DimSaved, OneDimension, [Next]_vars
             PROVE  DimSaved' /\ OneDimension'
  OBVIOUS
<1> USE ConstantsAssumption DEF TypeOK, DimSaved, OneDimension, Stored
<1>0. ASSUME UNCHANGED <<dim, home, saved, corpus>>
      PROVE  DimSaved' /\ OneDimension'
  BY <1>0
<1>1. CASE Tick  BY <1>0, <1>1 DEF Tick, store, memory, history
<1>2. ASSUME NEW s \in Signals, Admitted(s), dim' = Dim[s], saved' = saved,
             corpus' = corpus,
             \A k \in Signals \ {s} : home'[k] = home[k]
      PROVE  DimSaved' /\ OneDimension'
  <2>1. dim = Unset \/ dim = Dim[s]  BY <1>2 DEF Admitted
  <2>2. \A k \in Signals : Dim[k] # Unset  OBVIOUS
  <2>3. DimSaved'  BY <1>2, <2>1
  <2>4. OneDimension'  BY <1>2, <2>1, <2>2
  <2> QED  BY <2>3, <2>4
<1>3. ASSUME NEW s \in Signals, Ingest(s) PROVE DimSaved' /\ OneDimension'
  <2>1. \A k \in Signals \ {s} : home'[k] = home[k]  BY <1>3 DEF Ingest
  <2> QED  BY <1>2, <1>3, <2>1 DEF Ingest, history
<1>4. ASSUME NEW s \in Signals, IngestFails(s) PROVE DimSaved' /\ OneDimension'
  BY <1>2, <1>4 DEF IngestFails, store, history
<1>5. CASE Collect  BY <1>0, <1>5 DEF Collect, store, memory, history
<1>6. CASE Publish  BY <1>0, <1>6 DEF Publish, store, history
<1>7. CASE Commit
  <2>1. dim' = dim /\ saved'.dim = dim  BY <1>7 DEF Commit, SavedDim, memory
  <2>2. corpus' = IF corpus = "new" /\ dim # Unset THEN "settled" ELSE corpus
    BY <1>7 DEF Commit
  <2>3. \A s \in Signals : home'[s] # Absent => home[s] # Absent
    BY <1>7, CommitEffect DEF Held
  <2>4. DimSaved'  BY <2>1, <2>2
  <2>5. OneDimension'  BY <2>1, <2>2, <2>3
  <2> QED  BY <2>4, <2>5
<1>8. CASE CommitFails  BY <1>0, <1>8 DEF CommitFails, store, memory
<1>9. CASE ApplyFails  BY <1>0, <1>9 DEF ApplyFails, store, memory, history
<1>10. CASE Rebuild
  <2>1. dim # Unset => dim' = dim  BY <1>10 DEF Rebuild, Recovered
  <2>2. ASSUME dim = Unset, corpus # "mixed" PROVE dim' = dim
    <3>1. Stored = {}  BY <2>2
    <3>2. \A S \in Stories : Members(S) = {}  BY <3>1 DEF Members
    <3> QED  BY <1>10, <2>2, <3>2 DEF Rebuild, Recovered
  <2> QED  BY <1>10, <2>1, <2>2 DEF Rebuild, store
<1>11. CASE RebuildFails
  BY <1>0, <1>11 DEF RebuildFails, store, memory, history
<1>12. CASE Restart
  <2>1. corpus' = IF corpus = "new" /\ Stored # {} THEN "mixed" ELSE corpus
    BY <1>12 DEF Restart
  <2>2. home' = home /\ saved' = saved  BY <1>12 DEF Restart, store
  <2>3. saved.dim # Unset => dim' = saved.dim  BY <1>12 DEF Restart, Recovered
  <2> QED  BY <2>1, <2>2, <2>3
<1>13. CASE UNCHANGED vars
  BY <1>0, <1>13 DEF vars, store, memory, history
<1> QED
  BY <1>1, <1>3, <1>4, <1>5, <1>6, <1>7, <1>8, <1>9, <1>10, <1>11, <1>12, <1>13
  DEF Next

\* Once a batch has saved the dimension before the first restart with signals,
\* every stored facet is of the tracker's dimension, restarts or not.
THEOREM DimensionKept == Spec => []OneDimension
<1>1. Init => DimSaved /\ OneDimension
  BY DEF Init, DimSaved, OneDimension, Stored
<1> QED  BY <1>1, DimensionStep, CalibrationTypeCorrect, PTL DEF Spec

-----------------------------------------------------------------------------
(* The geometry.                                                           *)

InBatch == phase \in {"collected", "published"}

\* Every open story has members, and a batch that has collected works on one.
Peopled ==
    /\ \A S \in Open : Members(S) # {}
    /\ corpus # "mixed" /\ InBatch => \A S \in Open : Members(S) \cap view # {}

\* Before it publishes, and after it has committed, memory is what is saved.
MeanSaved ==
    corpus # "mixed" =>
      /\ ~behind /\ phase \in {"idle", "collected"} =>
           /\ mean = saved.mean
           /\ \A S \in Stories : index[S] # NoMean => index[S] = mean
      /\ phase = "committed" => behind /\ mean = saved.mean

Geometry == Peopled /\ StoreInOneGeometry /\ MeanSaved

LEMMA GeometryStep ==
    TypeOK /\ EvictHeld /\ OneDimension /\ Geometry /\ [Next]_vars => Geometry'
<1> SUFFICES ASSUME TypeOK, EvictHeld, OneDimension, Geometry, [Next]_vars
             PROVE  Geometry'
  OBVIOUS
<1>0. UNCHANGED <<home, record, archived, saved, mean, index, behind, corpus, phase, view>>
        => Geometry'
  BY DEF Geometry, Peopled, StoreInOneGeometry, MeanSaved, InBatch, Open, Members
<1>1. CASE Tick
  BY <1>0, <1>1 DEF Tick, store, memory, batch, history
<1>3. ASSUME NEW s \in Signals, IngestFails(s) PROVE Geometry'
  BY <1>0, <1>3 DEF IngestFails, store, batch, history
<1> USE DEF TypeOK, Geometry, Peopled, StoreInOneGeometry, MeanSaved, InBatch
\* Members only come.
<1>2. ASSUME NEW s \in Signals, Ingest(s) PROVE Geometry'
  <2>1. Open' = Open  BY <1>2 DEF Ingest, Open
  <2>2. \A S \in Stories : Members(S) \subseteq Members(S)'
    BY <1>2, ConstantsAssumption DEF Ingest, Members
  <2>3. Peopled'  BY <1>2, <2>1, <2>2 DEF Ingest, batch, history, Open
  <2> QED  BY <1>2, <2>1, <2>3 DEF Ingest, batch, history
<1>4. CASE Collect
  <2>1. ASSUME corpus # "mixed", NEW S \in Open PROVE Members(S) \cap view' # {}
    <3>1. PICK s \in Signals : home[s] = S  BY <2>1 DEF Members
    <3>2. S \in Stories /\ s \notin Held /\ home[s] # Absent
      BY <2>1, <3>1, ConstantsAssumption DEF Held, Open
    <3>3. s \in Collected
      BY <2>1, <3>1, <3>2 DEF Collected, Collectable, Members
    <3>4. Dim[s] = dim  BY <2>1, <3>2 DEF OneDimension, Stored
    <3>5. s \in view'  BY <1>4, <3>3, <3>4 DEF Collect
    <3> QED  BY <3>1, <3>5 DEF Members
  <2> QED  BY <1>4, <2>1 DEF Collect, store, memory, history, Open, Members
<1>5. CASE Publish
  BY <1>5 DEF Publish, store, history, Open, Members
<1>6. CASE Commit
  <2>1. /\ saved'.mean = mean /\ mean' = mean /\ phase' = "committed"
        /\ phase = "published" /\ behind'
        /\ corpus' = "mixed" <=> corpus = "mixed"
    BY <1>6 DEF Commit, memory
  <2>2. ASSUME NEW S \in Stories PROVE Members(S) \subseteq Members(S)'
    <3>1. \A s \in Signals : home[s] = S => s \notin Held
      BY ConstantsAssumption DEF Held
    <3>2. \A s \in Signals : home[s] = S => home'[s] = S
      BY <1>6, <3>1, CommitEffect DEF EvictHeld
    <3> QED  BY <3>2 DEF Members
  <2>3. \A S \in Open' : Members(S)' # {}
    BY <1>6, <2>2, CommitEffect DEF Members, Open
  <2>4. corpus # "mixed" => \A S \in Open' : record'[S] = mean
    BY <1>6, <2>1, CommitEffect DEF Open
  <2> QED  BY <2>1, <2>3, <2>4
<1>7. CASE CommitFails
  BY <1>7 DEF CommitFails, store, memory, Open, Members
<1>8. CASE ApplyFails
  BY <1>8 DEF ApplyFails, store, memory, history, Open, Members
<1>9. CASE Rebuild
  <2>1. \A S \in Stories : index'[S] = IF S \in Open THEN record[S] ELSE NoMean
    BY <1>9 DEF Rebuild, Built
  <2> QED  BY <1>9, <2>1 DEF Rebuild, store, Open, Members
<1>10. CASE RebuildFails
  <2>1. Open' = Open /\ \A S \in Stories : Members(S)' = Members(S)
    BY <1>10 DEF RebuildFails, store, Open, Members
  <2>2. Peopled'  BY <1>10, <2>1 DEF RebuildFails, store, history, Open
  <2> QED  BY <1>10, <2>1, <2>2 DEF RebuildFails, store, memory, history
<1>11. CASE Restart
  <2>1. \A S \in Stories : index'[S] = IF S \in Open THEN record[S] ELSE NoMean
    BY <1>11 DEF Restart, Built
  <2>2. corpus' # "mixed" => corpus # "mixed"  BY <1>11 DEF Restart
  <2> QED  BY <1>11, <2>1, <2>2 DEF Restart, LoadedMean, store, Open, Members
<1>12. CASE UNCHANGED vars
  BY <1>0, <1>12 DEF vars, store, memory, batch, history
<1> QED
  BY <1>1, <1>2, <1>3, <1>4, <1>5, <1>6, <1>7, <1>8, <1>9, <1>10, <1>11, <1>12
  DEF Next

LEMMA GeometryHolds == Spec => []Geometry
<1>1. Init => Geometry
  BY DEF Init, Geometry, Peopled, StoreInOneGeometry, MeanSaved, InBatch, Open
<1> QED
  BY <1>1, GeometryStep, DimensionKept, CalibrationTypeCorrect, PTL DEF Spec

\* Whatever fails, records and saved mean are of one geometry.
THEOREM StoreAgrees == Spec => []StoreInOneGeometry
<1>1. Geometry => StoreInOneGeometry  BY DEF Geometry
<1> QED  BY <1>1, GeometryHolds, PTL

\* Between runs a lookup compares in one geometry, if the last run did not fail
\* after it had published.
THEOREM LookupsInOneGeometry == Spec => []LookupsAgree
<1>1. Geometry => LookupsAgree
  BY DEF Geometry, MeanSaved, LookupsAgree
<1> QED  BY <1>1, GeometryHolds, PTL

-----------------------------------------------------------------------------
(* Eviction.                                                               *)

\* The time eviction is measured against is the one saved.
CutoffSaved ==
    ~unsaved =>
      /\ phase \in {"idle", "collected", "committed"} => last = saved.last
      /\ InBatch => \A s \in evict : at[s] < saved.last - OutlierTTL

LEMMA CutoffStep ==
    TypeOK /\ EvictHeld /\ CutoffSaved /\ [Next]_vars => CutoffSaved'
<1> SUFFICES ASSUME TypeOK, EvictHeld, CutoffSaved, [Next]_vars
             PROVE  CutoffSaved'
  OBVIOUS
<1> USE DEF TypeOK, EvictHeld, CutoffSaved, InBatch
<1>1. CASE Tick
  BY <1>1 DEF Tick, store, memory, batch, history
<1>2. ASSUME NEW s \in Signals, Ingest(s) PROVE CutoffSaved'
  <2>1. \A k \in evict : at'[k] = at[k]
    BY <1>2, ConstantsAssumption DEF Ingest, Held
  <2> QED  BY <1>2, <2>1 DEF Ingest, batch, history
<1>3. ASSUME NEW s \in Signals, IngestFails(s) PROVE CutoffSaved'
  BY <1>3 DEF IngestFails, store, batch, history
<1>4. CASE Collect  BY <1>4 DEF Collect, Expired, store, memory, history
<1>5. CASE Publish  BY <1>5 DEF Publish, store, history
<1>6. CASE Commit  BY <1>6 DEF Commit, memory
<1>7. CASE CommitFails  BY <1>7 DEF CommitFails
<1>8. CASE ApplyFails  BY <1>8 DEF ApplyFails, store, memory, history
<1>9. CASE Rebuild  BY <1>9 DEF Rebuild, store
<1>10. CASE RebuildFails
  BY <1>10 DEF RebuildFails, store, memory, history
<1>11. CASE Restart  BY <1>11 DEF Restart, store
<1>12. CASE UNCHANGED vars
  BY <1>12 DEF vars, store, memory, batch, history
<1> QED
  BY <1>1, <1>2, <1>3, <1>4, <1>5, <1>6, <1>7, <1>8, <1>9, <1>10, <1>11, <1>12
  DEF Next

\* The step that takes a signal out is a commit's, and of the signals listed.
LEMMA OnlyListedGo ==
    TypeOK /\ EvictHeld /\ CutoffSaved /\ [Next]_vars =>
      [~unsaved => \A s \in Signals :
         home[s] # Absent /\ home'[s] = Absent => at[s] < saved.last - OutlierTTL]_vars
<1> SUFFICES ASSUME TypeOK, EvictHeld, CutoffSaved, [Next]_vars, ~unsaved,
                    NEW s \in Signals, home[s] # Absent, home'[s] = Absent
             PROVE  at[s] < saved.last - OutlierTTL
  OBVIOUS
<1>1. CASE Commit
  <2>1. s \in evict  BY <1>1, CommitEffect, ConstantsAssumption
  <2> QED  BY <1>1, <2>1 DEF Commit, CutoffSaved, InBatch
<1>2. CASE ~Commit
  <2>1. home' = home \/ \E k \in Signals : Ingest(k)
    BY <1>2 DEF Next, vars, store, Tick, IngestFails, Collect, Publish, CommitFails,
       ApplyFails, Rebuild, RebuildFails, Restart
  <2>2. ASSUME NEW k \in Signals, Ingest(k) PROVE home'[s] # Absent
    BY <2>2, ConstantsAssumption DEF Ingest, Matches, TypeOK
  <2> QED  BY <2>1, <2>2
<1> QED  BY <1>1, <1>2

\* A pause of the batch evicts nothing, as long as no commit fails.
THEOREM PausesEvictNothing == Spec => NoMassEviction
<1>1. Init => CutoffSaved  BY DEF Init, CutoffSaved, InBatch
<1> QED
  BY <1>1, CutoffStep, OnlyListedGo, CalibrationTypeCorrect, PTL
  DEF Spec, NoMassEviction

=============================================================================
