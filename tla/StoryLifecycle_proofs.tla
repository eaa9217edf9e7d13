------------------------ MODULE StoryLifecycle_proofs ------------------------
(***************************************************************************)
(* Safety of StoryLifecycle for any stories, callers and clients.  The     *)
(* theorems about suppression and history assume that Suppress and         *)
(* Unsuppress run beside no batch; Ingest calls and other clients may      *)
(* overlap them.                                                           *)
(***************************************************************************)
EXTENDS StoryLifecycle, TLAPS

NeverBesideBatch == \A o \in Overlaps : "batch" \notin o

---------------------------------------------------------------------------
(* Type correctness.                                                       *)

LEMMA StoredIndexType ==
    ASSUME TypeOK
    PROVE  StoredIndex \in [Stories -> (States \ {"archived"}) \cup {Absent}]
<1>1. ASSUME NEW S \in Stories, Exists(S), Overlay(S) # "archived"
      PROVE  Overlay(S) \in States \ {"archived"}
  BY <1>1, ConstantsAssumption DEF TypeOK, Exists, Overlay, Record
<1> QED
  BY <1>1 DEF StoredIndex

LEMMA PatchedType ==
    ASSUME TypeOK, NEW S \in Stories, NEW st \in {"active", "suppressed"}
    PROVE  Patched(index, S, st)
              \in [Stories -> (States \ {"archived"}) \cup {Absent}]
  BY DEF TypeOK, Patched, States

LEMMA MergedType ==
    ASSUME NEW s \in Record \cup {Absent}, NEW r \in Record \cup {Absent}
    PROVE  Merged(s, r) \in Record \cup {Absent}
  BY DEF Merged, Record, States

LEMMA SweptType ==
    ASSUME NEW prev, NEW age
    PROVE  Swept(prev, age) \in States
  BY DEF Swept, States

LEMMA TypeInit == Init => TypeOK
  BY DEF Init, TypeOK, NoStories

LEMMA TypeClient ==
    ASSUME TypeOK, NEW k \in Clients, Client(k) \/ PatchState(k)
    PROVE  TypeOK'
<1>1. ASSUME NEW S \in Stories, Suppress(k, S) PROVE TypeOK'
  BY <1>1 DEF TypeOK, Suppress, batchVars, Record, States
<1>2. ASSUME NEW S \in Stories, Unsuppress(k, S) PROVE TypeOK'
  <2>1. Unsuppressed(meta[S]) \in Record
    BY <1>2 DEF TypeOK, Unsuppress, Exists, Unsuppressed, Record, States
  <2> QED
    BY <1>2, <2>1 DEF TypeOK, Unsuppress, batchVars, storeVars, States
<1>3. CASE PatchState(k)
  <2>1. client[k].story \in Stories /\ client[k].state \in {"active", "suppressed"}
    BY <1>3 DEF TypeOK, PatchState
  <2>2. index' \in [Stories -> (States \ {"archived"}) \cup {Absent}]
    BY <1>3, <2>1, PatchedType DEF PatchState
  <2> QED
    BY <1>3, <2>2 DEF TypeOK, PatchState, storeVars, batchVars
<1> QED
  BY <1>1, <1>2, <1>3 DEF Client

LEMMA TypeIngest ==
    ASSUME TypeOK, NEW c \in Callers, Ingest(c)
    PROVE  TypeOK'
<1>1. ASSUME NEW S \in Stories, IngestMatch(c, S) PROVE TypeOK'
  BY <1>1 DEF TypeOK, IngestMatch, storeVars, batchVars
<1>2. CASE IngestCommit(c)
  <2>1. call[c] \in [at : {"matched", "patching"}, story : Stories,
                     state : States \ {"archived"}]
    BY <1>2 DEF TypeOK, IngestCommit
  <2>2. hot' \in [Stories -> States \cup {Absent}]
    BY <1>2, <2>1 DEF TypeOK, IngestCommit, States
  <2>3. [call[c] EXCEPT !.at = "patching"]
           \in [at : {"matched", "patching"}, story : Stories,
                state : States \ {"archived"}]
    BY <2>1
  <2> QED
    BY <1>2, <2>2, <2>3 DEF TypeOK, IngestCommit, batchVars
<1>3. CASE IngestLeaves(c)
  BY <1>3 DEF TypeOK, IngestLeaves, storeVars, batchVars
<1>4. CASE IngestPatch(c)
  <2>1. call[c].story \in Stories
    BY <1>4 DEF TypeOK, IngestPatch
  <2>2. index' \in [Stories -> (States \ {"archived"}) \cup {Absent}]
    BY <1>4, <2>1, PatchedType DEF IngestPatch
  <2> QED
    BY <1>4, <2>2 DEF TypeOK, IngestPatch, storeVars, batchVars
<1> QED
  BY <1>1, <1>2, <1>3, <1>4 DEF Ingest

LEMMA TypeCommit ==
    ASSUME TypeOK, NEW age \in [members -> Ages], CommitApply(age)
    PROVE  TypeOK'
<1> DEFINE retired == {m[2] : m \in merged}
           state   == [S \in members |-> Swept(stories[S], age[S])]
<1>1. state \in [members -> States]
  BY SweptType
<1>2. \A S \in members : (stories[S] # Absent /\ stories[S].was) \in BOOLEAN
  BY DEF TypeOK, Record
<1>3. meta' \in [Stories -> Record \cup {Absent}]
  <2>1. meta' = [S \in Stories |->
                  IF S \in members
                    THEN [state |-> state[S],
                          was   |-> stories[S] # Absent /\ stories[S].was]
                    ELSE IF S \in retired THEN Absent ELSE meta[S]]
    BY DEF CommitApply
  <2>2. ASSUME NEW S \in members
        PROVE  [state |-> state[S],
                was   |-> stories[S] # Absent /\ stories[S].was] \in Record
    <3>1. state[S] \in States
      BY <1>1
    <3>2. (stories[S] # Absent /\ stories[S].was) \in BOOLEAN
      BY <1>2
    <3> HIDE DEF state
    <3> QED
      BY <3>1, <3>2 DEF Record
  <2> HIDE DEF state, retired
  <2> QED
    BY <2>1, <2>2 DEF TypeOK
<1>4. hot' \in [Stories -> States \cup {Absent}]
  <2>1. hot' = [S \in Stories |->
                  IF S \in members THEN state[S]
                    ELSE IF S \in retired THEN Absent ELSE hot[S]]
    BY DEF CommitApply
  <2> HIDE DEF state, retired
  <2> QED
    BY <2>1, <1>1 DEF TypeOK
<1>5. asked' \subseteq Stories
  BY DEF CommitApply, TypeOK
<1> QED
  BY <1>3, <1>4, <1>5 DEF CommitApply, TypeOK, Forget, NoStories

LEMMA TypeBatch ==
    ASSUME TypeOK, Batch
    PROVE  TypeOK'
<1>1. CASE Collect
  BY <1>1 DEF TypeOK, Collect, storeVars, Exists
<1>2. CASE BeginApply
  BY <1>2 DEF TypeOK, BeginApply, storeVars
<1>3. ASSUME NEW S \in Stories, FoundStory(S) PROVE TypeOK'
  BY <1>3 DEF TypeOK, FoundStory, storeVars
<1>4. ASSUME NEW S \in Stories, NEW R \in Stories, MergeStories(S, R) PROVE TypeOK'
  <2>1. Merged(stories[S], stories[R]) \in Record \cup {Absent}
    BY MergedType DEF TypeOK
  <2>2. stories' \in [Stories -> Record \cup {Absent}]
    BY <1>4, <2>1 DEF TypeOK, MergeStories
  <2> QED
    BY <1>4, <2>2 DEF TypeOK, MergeStories, storeVars
<1>5. ASSUME NEW age \in [members -> Ages], CommitApply(age) PROVE TypeOK'
  BY <1>5, TypeCommit
<1>6. CASE BatchFails
  BY <1>6 DEF TypeOK, BatchFails, Forget, NoStories, storeVars
<1>7. CASE BuildIndex
  BY <1>7, StoredIndexType DEF TypeOK, BuildIndex, storeVars
<1>8. CASE SwapIndex
  BY <1>8 DEF TypeOK, SwapIndex, storeVars, NoStories
<1> QED
  BY <1>1, <1>2, <1>3, <1>4, <1>5, <1>6, <1>7, <1>8 DEF Batch

LEMMA TypeRestart ==
    ASSUME TypeOK, Restart
    PROVE  TypeOK'
  BY StoredIndexType DEF TypeOK, Restart, Forget, NoStories, storeVars

LEMMA TypeNext == TypeOK /\ [Next]_vars => TypeOK'
<1> SUFFICES ASSUME TypeOK, [Next]_vars PROVE TypeOK'
  OBVIOUS
<1>1. ASSUME NEW k \in Clients, Client(k) \/ PatchState(k) PROVE TypeOK'
  BY <1>1, TypeClient
<1>2. ASSUME NEW c \in Callers, Ingest(c) PROVE TypeOK'
  BY <1>2, TypeIngest
<1>3. CASE Batch
  BY <1>3, TypeBatch
<1>4. CASE Restart
  BY <1>4, TypeRestart
<1>5. CASE UNCHANGED vars
  BY <1>5 DEF TypeOK, vars
<1> QED
  BY <1>1, <1>2, <1>3, <1>4, <1>5 DEF Next

(* The records, the index and the locals of the batch and of the calls     *)
(* stay of their types, whatever overlaps.                                 *)
THEOREM LifecycleTypeCorrect == Spec => []TypeOK
<1> QED
  BY TypeInit, TypeNext, PTL DEF Spec

---------------------------------------------------------------------------
(* The inductive invariant of suppression and history.                     *)

InBatch == phase \in {"collected", "apply"}
Survivors == {m[1] : m \in merged}
Retired   == {m[2] : m \in merged}

Apart == "batch" \notin overlap

(* A story whose suppression stands is collected as suppressed, unless a   *)
(* merge of this batch has ended it.                                       *)
CollectedStands ==
    InBatch => \A S \in asked : \/ S \in Survivors \cup Retired
                                \/ /\ stories[S] # Absent
                                   /\ stories[S].state = "suppressed"

(* What the batch is going to write forgets nothing of the record.         *)
Remembered ==
    InBatch => \A S \in members :
        Exists(S) => stories[S] # Absent /\ (meta[S].was => stories[S].was)

(* A survivor has members, and the history of those it absorbed.           *)
Inherited ==
    \A m \in merged :
        /\ phase = "apply"
        /\ m[1] \in members /\ m[2] \notin members
        /\ Exists(m[2]) /\ meta[m[2]].was =>
               stories[m[1]] # Absent /\ stories[m[1]].was

LInv == /\ TypeOK /\ Apart /\ SuppressionStands
        /\ CollectedStands /\ Remembered /\ Inherited

LEMMA LInvInit == NeverBesideBatch /\ Init => LInv
<1> SUFFICES ASSUME NeverBesideBatch, Init PROVE LInv
  OBVIOUS
<1> QED
  BY TypeInit DEF Init, LInv, Apart, NeverBesideBatch, SuppressionStands,
     CollectedStands, InBatch, Remembered, Inherited

LEMMA RecordPresent == \A r \in Record : r # Absent
  BY ConstantsAssumption

\* A merge keeps a mark of the survivor, and takes over one of the other.
LEMMA MergedKeeps ==
    ASSUME NEW s \in Record \cup {Absent}, NEW r \in Record \cup {Absent}
    PROVE  /\ s # Absent => Merged(s, r) # Absent
           /\ s # Absent /\ s.was => Merged(s, r).was
           /\ s # Absent /\ r # Absent /\ r.was => Merged(s, r).was
<1> DEFINE marked == [state |-> "active", was |-> TRUE]
<1>1. marked \in Record /\ marked.was
  BY DEF Record, States
<1>2. marked # Absent
  BY <1>1, RecordPresent
<1>3. Merged(s, r) \in {s, marked}
  BY DEF Merged
<1>4. s # Absent /\ (s.was \/ (r # Absent /\ r.was)) => Merged(s, r) = marked
  BY DEF Merged
<1> HIDE DEF marked
<1> QED
  BY <1>1, <1>2, <1>3, <1>4

\* Steps that touch neither the records nor the batch's locals.
LEMMA LInvKept ==
    ASSUME LInv, TypeOK', UNCHANGED <<meta, phase, stories, members, merged,
                                      asked, overlap>>
    PROVE  LInv'
  BY DEF LInv, Apart, SuppressionStands, Suppressed, Exists, CollectedStands,
     InBatch, Survivors, Retired, Remembered, Inherited

LEMMA LInvClient ==
    ASSUME LInv, TypeOK', NEW k \in Clients, Client(k) \/ PatchState(k)
    PROVE  LInv'
<1>1. ASSUME NEW S \in Stories, Suppress(k, S) PROVE LInv'
  <2>1. phase = "idle" /\ UNCHANGED <<batchVars, overlap>>
    BY <1>1 DEF Suppress, MaySuppress, LInv, Apart
  <2>2. SuppressionStands'
    <3>1. meta'[S] = [state |-> "suppressed", was |-> TRUE]
          /\ \A Q \in Stories \ {S} : meta'[Q] = meta[Q]
      BY <1>1 DEF Suppress, LInv, TypeOK
    <3>2. meta'[S] # Absent
      <4>1. meta'[S] \in Record
        BY <3>1 DEF Record, States
      <4> QED
        BY <4>1, RecordPresent
    <3>3. asked' = asked \cup {S} /\ asked \subseteq Stories
      BY <1>1 DEF Suppress, LInv, TypeOK
    <3> QED
      BY <3>1, <3>2, <3>3 DEF LInv, SuppressionStands, Suppressed, Exists
  <2>3. merged' = {}
    BY <2>1 DEF LInv, Inherited, batchVars
  <2> QED
    BY <2>1, <2>2, <2>3 DEF LInv, Apart, CollectedStands, InBatch, Remembered,
       Inherited, batchVars
<1>2. ASSUME NEW S \in Stories, Unsuppress(k, S) PROVE LInv'
  <2>1. phase = "idle" /\ UNCHANGED <<batchVars, overlap>>
    BY <1>2 DEF Unsuppress, MaySuppress, LInv, Apart
  <2>2. SuppressionStands'
    <3>1. asked' = asked \ {S} /\ asked \subseteq Stories
      BY <1>2 DEF Unsuppress, LInv, TypeOK
    <3>2. \A Q \in Stories \ {S} : meta'[Q] = meta[Q]
      BY <1>2 DEF Unsuppress, storeVars, LInv, TypeOK
    <3> QED
      BY <3>1, <3>2 DEF LInv, SuppressionStands, Suppressed, Exists
  <2>3. merged' = {}
    BY <2>1 DEF LInv, Inherited, batchVars
  <2> QED
    BY <2>1, <2>2, <2>3 DEF LInv, Apart, CollectedStands, InBatch, Remembered,
       Inherited, batchVars
<1>3. CASE PatchState(k)
  BY <1>3, LInvKept DEF PatchState, storeVars, batchVars
<1> QED
  BY <1>1, <1>2, <1>3 DEF Client

LEMMA LInvIngest ==
    ASSUME LInv, TypeOK', NEW c \in Callers, Ingest(c)
    PROVE  LInv'
  BY LInvKept DEF Ingest, IngestMatch, IngestCommit, IngestLeaves, IngestPatch,
     storeVars, batchVars

LEMMA LInvCollect ==
    ASSUME LInv, TypeOK', Collect
    PROVE  LInv'
<1>1. /\ stories' = [S \in Stories |->
                       IF Exists(S) /\ meta[S].state # "archived"
                         THEN meta[S] ELSE Absent]
      /\ members' \in SUBSET {S \in Stories : stories'[S] # Absent}
      /\ merged' = {} /\ UNCHANGED <<meta, asked, overlap>>
  BY DEF Collect, storeVars
<1>2. SuppressionStands' /\ Apart'
  BY <1>1 DEF LInv, SuppressionStands, Suppressed, Exists, Apart
<1>3. CollectedStands'
  <2> SUFFICES ASSUME NEW S \in asked
               PROVE  stories'[S] # Absent /\ stories'[S].state = "suppressed"
    BY <1>1 DEF CollectedStands
  <2>1. S \in Stories /\ Exists(S) /\ meta[S].state = "suppressed"
    BY DEF LInv, TypeOK, SuppressionStands, Suppressed
  <2> QED
    BY <1>1, <2>1 DEF Exists
<1>4. Remembered'
  BY <1>1 DEF Remembered, Exists
<1> QED
  BY <1>1, <1>2, <1>3, <1>4 DEF LInv, Inherited

LEMMA LInvMerge ==
    ASSUME LInv, TypeOK', NEW S \in Stories, NEW R \in Stories, MergeStories(S, R)
    PROVE  LInv'
<1> DEFINE new == Merged(stories[S], stories[R])
<1>1. /\ phase = "apply" /\ S \in members /\ R \in members /\ S # R
      /\ stories[S] = Absent => stories[R] = Absent
      /\ \A m \in merged : m[1] # R
      /\ members' = members \ {R} /\ merged' = merged \cup {<<S, R>>}
      /\ UNCHANGED <<meta, phase, asked, overlap>>
  BY DEF MergeStories, TxOpen, storeVars
<1>2. /\ stories'[S] = new
      /\ \A Q \in Stories \ {S, R} : stories'[Q] = stories[Q]
  BY <1>1 DEF MergeStories, LInv, TypeOK
<1>3. /\ stories[S] # Absent => new # Absent
      /\ stories[S] # Absent /\ stories[S].was => new.was
      /\ stories[S] # Absent /\ stories[R] # Absent /\ stories[R].was => new.was
  BY MergedKeeps DEF LInv, TypeOK
<1> HIDE DEF new
<1>4. Survivors' = Survivors \cup {S} /\ Retired' = Retired \cup {R}
  <2>1. \A m \in merged' : m \in merged \/ m = <<S, R>>
    BY <1>1
  <2>2. merged \subseteq merged' /\ <<S, R>> \in merged'
    BY <1>1
  <2>3. <<S, R>>[1] = S /\ <<S, R>>[2] = R
    OBVIOUS
  <2> QED
    BY <2>1, <2>2, <2>3, Zenon DEF Survivors, Retired
<1>5. SuppressionStands' /\ Apart'
  BY <1>1 DEF LInv, SuppressionStands, Suppressed, Exists, Apart
<1>6. CollectedStands'
  BY <1>1, <1>2, <1>4 DEF LInv, TypeOK, CollectedStands, InBatch
<1>7. members \subseteq Stories /\ merged \subseteq Stories \X Stories
  BY DEF LInv, TypeOK
<1>8. Remembered /\ Inherited /\ InBatch
  BY <1>1 DEF LInv, InBatch
<1>9. Remembered'
  BY <1>1, <1>2, <1>3, <1>7, <1>8 DEF Remembered, Exists
<1>10. Inherited'
  <2> SUFFICES ASSUME NEW m \in merged'
               PROVE  /\ m[1] \in members' /\ m[2] \notin members'
                      /\ Exists(m[2]) /\ meta[m[2]].was =>
                             stories'[m[1]] # Absent /\ stories'[m[1]].was
    BY <1>1 DEF Inherited, Exists
  <2>1. CASE m \in merged
    <3>1. /\ m[1] \in members /\ m[2] \notin members /\ m[1] # R
          /\ m[1] \in Stories
          /\ Exists(m[2]) /\ meta[m[2]].was =>
                 stories[m[1]] # Absent /\ stories[m[1]].was
      BY <2>1, <1>1, <1>7, <1>8 DEF Inherited
    <3>2. CASE m[1] = S
      BY <3>1, <3>2, <1>1, <1>2, <1>3
    <3>3. CASE m[1] # S
      BY <3>1, <3>3, <1>1, <1>2
    <3> QED
      BY <3>2, <3>3
  <2>2. CASE m = <<S, R>>
    <3>1. m[1] = S /\ m[2] = R
      BY <2>2
    <3>2. Exists(R) => stories[R] # Absent /\ (meta[R].was => stories[R].was)
      BY <1>1, <1>8 DEF Remembered
    <3> QED
      BY <3>1, <3>2, <1>1, <1>2, <1>3
  <2> QED
    BY <2>1, <2>2, <1>1
<1> QED
  BY <1>5, <1>6, <1>9, <1>10 DEF LInv

\* What the commit makes of the records.
LEMMA Committed ==
    ASSUME LInv, NEW age \in [members -> Ages], CommitApply(age)
    PROVE  /\ phase = "apply" /\ phase' = "committed" /\ merged' = {}
           /\ \A S \in members :
                 /\ meta'[S] # Absent
                 /\ meta'[S].state = Swept(stories[S], age[S])
                 /\ meta'[S].was <=> stories[S] # Absent /\ stories[S].was
           /\ \A S \in Stories \ members :
                 meta'[S] = IF S \in Retired THEN Absent ELSE meta[S]
           /\ asked' = asked \ (Survivors \cup Retired \cup
                 {S \in members : Swept(stories[S], age[S]) = "archived"})
<1> DEFINE swept == [S \in members |-> Swept(stories[S], age[S])]
           new(S) == [state |-> swept[S],
                      was |-> stories[S] # Absent /\ stories[S].was]
<1>1. members \subseteq Stories
  BY DEF LInv, TypeOK
<1>2. meta' = [S \in Stories |->
                 IF S \in members THEN new(S)
                   ELSE IF S \in Retired THEN Absent ELSE meta[S]]
  BY DEF CommitApply, Retired
<1>3. ASSUME NEW S \in members
      PROVE  /\ meta'[S] # Absent
             /\ meta'[S].state = Swept(stories[S], age[S])
             /\ meta'[S].was <=> stories[S] # Absent /\ stories[S].was
  <2>1. meta'[S] = new(S)
    BY <1>1, <1>2
  <2>2. swept[S] = Swept(stories[S], age[S]) /\ swept[S] \in States
    BY SweptType
  <2>3. new(S) \in Record
    BY <2>2 DEF LInv, TypeOK, Record
  <2> QED
    <3>1. new(S) # Absent
      BY <2>3, RecordPresent
    <3>2. /\ new(S).state = Swept(stories[S], age[S])
          /\ new(S).was = (stories[S] # Absent /\ stories[S].was)
      BY <2>2
    <3> HIDE DEF new
    <3> QED
      BY <2>1, <3>1, <3>2
<1>4. \A S \in Stories \ members :
         meta'[S] = IF S \in Retired THEN Absent ELSE meta[S]
  BY <1>2
<1>5. asked' = asked \ (Survivors \cup Retired \cup
                 {S \in members : Swept(stories[S], age[S]) = "archived"})
  BY DEF CommitApply, Survivors, Retired
<1> QED
  BY <1>3, <1>4, <1>5 DEF CommitApply, TxOpen, Forget

LEMMA SuppressedSwept ==
    ASSUME NEW prev, prev # Absent, prev.state = "suppressed", NEW age \in Ages,
           Swept(prev, age) # "archived"
    PROVE  Swept(prev, age) = "suppressed"
<1>1. age # "expired"
  BY DEF Swept, Ages
<1> QED
  BY <1>1 DEF Swept, Ages

LEMMA LInvCommit ==
    ASSUME LInv, TypeOK', NEW age \in [members -> Ages], CommitApply(age)
    PROVE  LInv'
<1>1. SuppressionStands'
  <2> SUFFICES ASSUME NEW S \in asked' PROVE Suppressed(S)'
    BY DEF SuppressionStands
  <2>1. /\ S \in asked /\ S \notin Survivors \cup Retired
        /\ S \in members => Swept(stories[S], age[S]) # "archived"
    BY Committed
  <2>2. S \in Stories
    BY <2>1 DEF LInv, TypeOK
  <2>3. phase = "apply"
    BY Committed
  <2>4. stories[S] # Absent /\ stories[S].state = "suppressed"
    BY <2>1, <2>3 DEF LInv, CollectedStands, InBatch
  <2>5. CASE S \in members
    <3>1. age[S] \in Ages
      BY <2>5
    <3>2. Swept(stories[S], age[S]) = "suppressed"
      BY <2>1, <2>4, <2>5, <3>1, SuppressedSwept
    <3> QED
      BY <2>5, <3>2, Committed DEF Suppressed, Exists
  <2>6. CASE S \notin members
    <3>1. meta'[S] = meta[S]
      BY <2>1, <2>2, <2>6, Committed
    <3> QED
      BY <2>1, <3>1 DEF LInv, SuppressionStands, Suppressed, Exists
  <2> QED
    BY <2>5, <2>6
<1>2. Apart'
  BY DEF LInv, Apart, CommitApply
<1> QED
  BY <1>1, <1>2, Committed
     DEF LInv, CollectedStands, InBatch, Remembered, Inherited

LEMMA LInvBatch ==
    ASSUME LInv, TypeOK', Batch
    PROVE  LInv'
<1>1. CASE Collect
  BY <1>1, LInvCollect
<1>2. CASE BeginApply
  BY <1>2 DEF BeginApply, storeVars, LInv, Apart, SuppressionStands, Suppressed,
     Exists, CollectedStands, InBatch, Survivors, Retired, Remembered, Inherited
<1>3. ASSUME NEW S \in Stories, FoundStory(S) PROVE LInv'
  BY <1>3 DEF FoundStory, Fresh, TxOpen, storeVars, LInv, Apart,
     SuppressionStands, Suppressed, Exists, CollectedStands, InBatch, Survivors,
     Retired, Remembered, Inherited
<1>4. ASSUME NEW S \in Stories, NEW R \in Stories, MergeStories(S, R) PROVE LInv'
  BY <1>4, LInvMerge
<1>5. ASSUME NEW age \in [members -> Ages], CommitApply(age) PROVE LInv'
  BY <1>5, LInvCommit
<1>6. CASE BatchFails
  BY <1>6 DEF BatchFails, Forget, storeVars, LInv, Apart, SuppressionStands,
     Suppressed, Exists, CollectedStands, InBatch, Remembered, Inherited
<1>7. ASSUME BuildIndex \/ SwapIndex PROVE LInv'
  BY <1>7 DEF BuildIndex, SwapIndex, storeVars, LInv, Apart, SuppressionStands,
     Suppressed, Exists, CollectedStands, InBatch, Remembered, Inherited
<1> QED
  BY <1>1, <1>2, <1>3, <1>4, <1>5, <1>6, <1>7 DEF Batch

LEMMA LInvNext == LInv /\ [Next]_vars => LInv'
<1> SUFFICES ASSUME LInv, [Next]_vars PROVE LInv'
  OBVIOUS
<1>0. TypeOK'
  BY TypeNext DEF LInv
<1>1. ASSUME NEW k \in Clients, Client(k) \/ PatchState(k) PROVE LInv'
  BY <1>0, <1>1, LInvClient
<1>2. ASSUME NEW c \in Callers, Ingest(c) PROVE LInv'
  BY <1>0, <1>2, LInvIngest
<1>3. CASE Batch
  BY <1>0, <1>3, LInvBatch
<1>4. CASE Restart
  BY <1>0, <1>4 DEF Restart, Forget, storeVars, LInv, Apart, SuppressionStands,
     Suppressed, Exists, CollectedStands, InBatch, Remembered, Inherited
<1>5. CASE UNCHANGED vars
  BY <1>0, <1>5, LInvKept DEF vars
<1> QED
  BY <1>1, <1>2, <1>3, <1>4, <1>5 DEF Next

(* A suppression ends only by Unsuppress, a merge or the archive window    *)
(* (maintain.go:545-549), if Suppress and Unsuppress run beside no batch:  *)
(* whatever merges, sweeps, failures, restarts and Ingest calls follow.    *)
THEOREM SuppressionHolds ==
    ASSUME NeverBesideBatch PROVE Spec => []SuppressionStands
<1>1. Init => LInv
  BY LInvInit
<1>2. LInv => SuppressionStands
  BY DEF LInv
<1> QED
  BY <1>1, <1>2, LInvNext, PTL DEF Spec

---------------------------------------------------------------------------
(* What a step may do to the history.                                      *)

LEMMA FlagStep ==
    ASSUME LInv, [Next]_vars, NEW S \in Stories, Exists(S), meta[S].was, Exists(S)'
    PROVE  meta'[S].was
<1> USE DEF LInv
<1>1. ASSUME meta'[S] = meta[S] PROVE meta'[S].was
  BY <1>1
<1>2. ASSUME NEW k \in Clients, NEW Q \in Stories, Suppress(k, Q)
      PROVE  meta'[S].was
  BY <1>1, <1>2 DEF Suppress, TypeOK
<1>3. ASSUME NEW k \in Clients, NEW Q \in Stories, Unsuppress(k, Q)
      PROVE  meta'[S].was
  <2>1. meta[S] \in Record
    BY DEF TypeOK, Exists
  <2>2. Unsuppressed(meta[S]).was = meta[S].was
    BY <2>1 DEF Unsuppressed, Record
  <2>3. meta'[S] \in {meta[S], Unsuppressed(meta[S])}
    BY <1>3 DEF Unsuppress, TypeOK, storeVars
  <2> QED
    BY <2>2, <2>3
<1>4. ASSUME NEW age \in [members -> Ages], CommitApply(age)
      PROVE  meta'[S].was
  <2>1. phase = "apply"
    BY <1>4, Committed
  <2>2. CASE S \in members
    <3>1. stories[S] # Absent /\ stories[S].was
      BY <2>1, <2>2 DEF Remembered, InBatch
    <3> QED
      BY <1>4, <2>2, <3>1, Committed
  <2>3. CASE S \notin members
    <3>1. meta'[S] = meta[S]
      BY <1>4, <2>3, Committed DEF Exists
    <3> QED
      BY <3>1
  <2> QED
    BY <2>2, <2>3
<1>5. \/ \E k \in Clients, Q \in Stories : Suppress(k, Q) \/ Unsuppress(k, Q)
      \/ \E age \in [members -> Ages] : CommitApply(age)
      \/ meta' = meta
  BY DEF Next, Client, PatchState, Ingest, IngestMatch, IngestCommit,
     IngestLeaves, IngestPatch, Batch, Collect, BeginApply, FoundStory,
     MergeStories, BatchFails, BuildIndex, SwapIndex, Restart, vars, storeVars
<1> QED
  BY <1>1, <1>2, <1>3, <1>4, <1>5

(* WasSuppressed is never cleared while the story exists (types.go:120-122).*)
THEOREM FlagIsKept ==
    ASSUME NeverBesideBatch PROVE Spec => FlagKept
<1>1. Init => LInv
  BY LInvInit
<1>2. LInv /\ [Next]_vars =>
         [\A S \in Stories :
             Exists(S) /\ meta[S].was /\ Exists(S)' => meta'[S].was]_vars
  BY FlagStep
<1> QED
  BY <1>1, <1>2, LInvNext, PTL DEF Spec, FlagKept

(* However many stories a survivor absorbs in a batch, it has the history  *)
(* of each of them afterwards.                                             *)
THEOREM MergesRemember ==
    ASSUME NeverBesideBatch PROVE Spec => MergeKeepsHistory
<1>1. Init => LInv
  BY LInvInit
<1>2. ASSUME LInv, [Next]_vars, NEW m \in merged, phase' = "committed",
             Exists(m[2]), meta[m[2]].was
      PROVE  Exists(m[1])' /\ meta'[m[1]].was
  <2>1. phase = "apply"
    BY <1>2 DEF LInv, Inherited
  <2>2. PICK age \in [members -> Ages] : CommitApply(age)
    BY <1>2, <2>1 DEF Next, Client, Suppress, Unsuppress, MaySuppress, TxOpen,
       PatchState, Ingest, IngestMatch, IngestCommit, IngestLeaves, IngestPatch,
       Batch, Collect, BeginApply, FoundStory, MergeStories, BatchFails,
       BuildIndex, SwapIndex, Restart, vars, storeVars, batchVars
  <2>3. m[1] \in members /\ stories[m[1]] # Absent /\ stories[m[1]].was
    BY <1>2 DEF LInv, Inherited
  <2> QED
    BY <1>2, <2>2, <2>3, Committed DEF Exists
<1>3. LInv /\ [Next]_vars =>
         [\A m \in merged :
             phase' = "committed" /\ Exists(m[2]) /\ meta[m[2]].was
                 => Exists(m[1])' /\ meta'[m[1]].was]_vars
  BY <1>2
<1> QED
  BY <1>1, <1>3, LInvNext, PTL DEF Spec, MergeKeepsHistory

---------------------------------------------------------------------------
(* The inductive invariant where nothing overlaps a client.                *)

OnlyAsked == \A S \in Stories : Suppressed(S) => S \in asked

(* What is collected as suppressed stands, and no merge has touched it.    *)
CollectedAsked ==
    InBatch => \A S \in Stories :
        stories[S] # Absent /\ stories[S].state = "suppressed"
            => S \in asked \ Survivors

HotSuppressed == \A S \in asked : hot[S] = "suppressed"

(* No Ingest call and no client carries another state of such a story.     *)
CallsInform ==
    \A c \in Callers : call[c] # Idle /\ call[c].story \in asked
        => call[c].at = "matched" /\ call[c].state = "suppressed"

ClientsInform ==
    \A k \in Clients : client[k] # Idle /\ client[k].story \in asked
        => client[k].state = "suppressed"

IndexSuppressed ==
    \A S \in asked : \/ index[S] \in {"suppressed", Absent}
                     \/ \E k \in Clients : client[k] # Idle /\ client[k].story = S

BuiltSuppressed ==
    phase = "built" => \A S \in asked : built[S] \in {"suppressed", Absent}

Views == HotSuppressed /\ CallsInform /\ ClientsInform /\ IndexSuppressed /\ BuiltSuppressed
Exact == OnlyAsked /\ CollectedAsked /\ Views

LEMMA ExactInit == Init => Exact
  BY DEF Init, Exact, OnlyAsked, CollectedAsked, InBatch, Views, HotSuppressed,
     CallsInform, ClientsInform, IndexSuppressed, BuiltSuppressed, Suppressed,
     Exists, NoStories

LEMMA IndexedSuppressed ==
    ASSUME TypeOK, SuppressionStands, HotSuppressed, NEW S \in asked
    PROVE  StoredIndex[S] \in {"suppressed", Absent}
<1>1. S \in Stories /\ hot[S] = "suppressed"
  BY DEF TypeOK, HotSuppressed
<1>2. hot[S] # Absent
  BY <1>1, ConstantsAssumption DEF States
<1> QED
  BY <1>1, <1>2 DEF StoredIndex, Overlay

LEMMA ExactSuppress ==
    ASSUME LInv, Exact, overlap = {}, NEW k \in Clients, NEW S \in Stories,
           Suppress(k, S)
    PROVE  Exact'
<1>1. /\ phase = "idle" /\ UNCHANGED <<phase, built, index, call>>
      /\ \A c \in Callers : call[c] = Idle
      /\ \A j \in Clients : client[j] = Idle
  BY DEF Suppress, MaySuppress, Busy, batchVars, LInv, TypeOK
<1>2. /\ asked' = asked \cup {S}
      /\ meta' = [meta EXCEPT ![S] = [state |-> "suppressed", was |-> TRUE]]
      /\ hot' = [hot EXCEPT ![S] = "suppressed"]
      /\ client' = [client EXCEPT ![k] = [story |-> S, state |-> "suppressed"]]
  BY DEF Suppress
<1>3. OnlyAsked'
  BY <1>2 DEF Exact, OnlyAsked, Suppressed, Exists, LInv, TypeOK
<1>4. HotSuppressed'
  BY <1>2 DEF Exact, Views, HotSuppressed, LInv, TypeOK
<1>5. ClientsInform'
  BY <1>1, <1>2 DEF ClientsInform, LInv, TypeOK
<1>6. IndexSuppressed'
  <2>1. client'[k] = [story |-> S, state |-> "suppressed"]
    BY <1>2 DEF LInv, TypeOK
  <2>2. client'[k] # Idle /\ client'[k].story = S
    BY <2>1, ConstantsAssumption DEF States
  <2>3. \A Q \in asked : index[Q] \in {"suppressed", Absent}
    BY <1>1 DEF Exact, Views, IndexSuppressed
  <2> QED
    BY <1>1, <1>2, <2>2, <2>3 DEF IndexSuppressed
<1> QED
  BY <1>1, <1>3, <1>4, <1>5, <1>6
  DEF Exact, Views, CollectedAsked, InBatch, CallsInform, BuiltSuppressed

LEMMA ExactUnsuppress ==
    ASSUME LInv, Exact, overlap = {}, NEW k \in Clients, NEW S \in Stories,
           Unsuppress(k, S)
    PROVE  Exact'
<1>1. /\ phase = "idle" /\ UNCHANGED <<phase, built, index, call>>
      /\ \A c \in Callers : call[c] = Idle
      /\ \A j \in Clients : client[j] = Idle
      /\ asked' = asked \ {S}
  BY DEF Unsuppress, MaySuppress, Busy, batchVars, LInv, TypeOK
<1>2. \A Q \in Stories \ {S} : meta'[Q] = meta[Q] /\ hot'[Q] = hot[Q]
  BY DEF Unsuppress, storeVars, LInv, TypeOK
<1>3. asked \subseteq Stories
  BY DEF LInv, TypeOK
<1>4. OnlyAsked'
  <2>1. ~Suppressed(S)'
    <3>1. CASE Overlay(S) = "suppressed"
      <4>1. meta[S] \in Record /\ meta'[S] = Unsuppressed(meta[S])
        BY <3>1 DEF Unsuppress, LInv, TypeOK, Exists
      <4> QED
        BY <4>1 DEF Unsuppressed, Suppressed, Record
    <3>2. CASE Overlay(S) # "suppressed"
      <4>1. ~Suppressed(S)
        BY <3>2 DEF Exact, OnlyAsked, Views, HotSuppressed, Overlay, Suppressed
      <4> QED
        BY <3>2, <4>1 DEF Unsuppress, storeVars, Suppressed, Exists
    <3> QED
      BY <3>1, <3>2
  <2> QED
    BY <1>1, <1>2, <2>1 DEF Exact, OnlyAsked, Suppressed, Exists
<1>5. HotSuppressed'
  BY <1>1, <1>2, <1>3 DEF Exact, Views, HotSuppressed
<1>6. ClientsInform'
  BY <1>1 DEF Unsuppress, ClientsInform, LInv, TypeOK
<1>7. IndexSuppressed'
  BY <1>1 DEF Exact, Views, IndexSuppressed
<1> QED
  BY <1>1, <1>4, <1>5, <1>6, <1>7
  DEF Exact, Views, CollectedAsked, InBatch, CallsInform, BuiltSuppressed

\* Steps that leave alone what the batch decides and what was asked for.
LEMMA ExactKept ==
    ASSUME Exact, UNCHANGED <<meta, phase, stories, merged, asked>>
    PROVE  OnlyAsked' /\ CollectedAsked'
  BY DEF Exact, OnlyAsked, CollectedAsked, InBatch, Survivors, Suppressed, Exists

LEMMA ExactPatch ==
    ASSUME LInv, Exact, NEW k \in Clients, PatchState(k)
    PROVE  Exact'
<1>1. /\ UNCHANGED <<meta, phase, stories, merged, asked, hot, built, call>>
      /\ client[k] # Idle /\ client' = [client EXCEPT ![k] = Idle]
      /\ index' = Patched(index, client[k].story, client[k].state)
      /\ client[k].story \in Stories
  BY DEF PatchState, storeVars, batchVars, LInv, TypeOK
<1>2. IndexSuppressed'
  <2> SUFFICES ASSUME NEW S \in asked
               PROVE  \/ index'[S] \in {"suppressed", Absent}
                      \/ \E j \in Clients : client'[j] # Idle /\ client'[j].story = S
    BY <1>1 DEF IndexSuppressed
  <2>1. S \in Stories
    BY DEF LInv, TypeOK
  <2>2. CASE client[k].story = S
    <3>1. client[k].state = "suppressed"
      BY <1>1, <2>2 DEF Exact, Views, ClientsInform
    <3> QED
      BY <1>1, <2>1, <2>2, <3>1 DEF Patched, LInv, TypeOK
  <2>3. CASE client[k].story # S
    <3>1. index'[S] = index[S]
      BY <1>1, <2>1, <2>3 DEF Patched, LInv, TypeOK
    <3>2. \A j \in Clients \ {k} : client'[j] = client[j]
      BY <1>1 DEF LInv, TypeOK
    <3> QED
      BY <2>3, <3>1, <3>2 DEF Exact, Views, IndexSuppressed
  <2> QED
    BY <2>2, <2>3
<1>3. ClientsInform'
  BY <1>1 DEF Exact, Views, ClientsInform, LInv, TypeOK
<1> QED
  BY <1>1, <1>2, <1>3, ExactKept
  DEF Exact, Views, HotSuppressed, CallsInform, BuiltSuppressed

LEMMA ExactIngest ==
    ASSUME LInv, Exact, overlap = {}, NEW c \in Callers, Ingest(c)
    PROVE  Exact'
<1>0. asked \subseteq Stories
  BY DEF LInv, TypeOK
<1>1. ASSUME NEW S \in Stories, IngestMatch(c, S) PROVE Exact'
  <2>1. /\ UNCHANGED <<meta, phase, stories, merged, asked, hot, built, index, client>>
        /\ index[S] # Absent /\ Busy(client) = {}
        /\ call' = [call EXCEPT ![c] = [at |-> "matched", story |-> S,
                                        state |-> index[S]]]
    BY <1>1 DEF IngestMatch, storeVars, batchVars
  <2>2. S \in asked => index[S] = "suppressed"
    BY <2>1 DEF Exact, Views, IndexSuppressed, Busy, LInv, TypeOK
  <2>3. CallsInform'
    BY <2>1, <2>2 DEF Exact, Views, CallsInform, LInv, TypeOK
  <2> QED
    BY <2>1, <2>3, ExactKept DEF Exact, Views, HotSuppressed, ClientsInform,
       IndexSuppressed, BuiltSuppressed
<1>2. CASE IngestCommit(c)
  <2>1. /\ UNCHANGED <<meta, phase, stories, merged, asked, built, index, client>>
        /\ call[c] # Idle /\ call[c].at = "matched" /\ call[c].story \in Stories
        /\ hot' = [hot EXCEPT ![call[c].story] =
                      IF call[c].state = "dormant" THEN "active" ELSE call[c].state]
        /\ call' = [call EXCEPT ![c] =
                      IF call[c].state = "dormant" THEN [@ EXCEPT !.at = "patching"]
                      ELSE Idle]
    BY <1>2 DEF IngestCommit, storeVars, batchVars, LInv, TypeOK
  <2>2. call[c].story \in asked => call[c].state = "suppressed"
    BY <2>1 DEF Exact, Views, CallsInform
  <2>3. HotSuppressed'
    BY <1>0, <2>1, <2>2 DEF Exact, Views, HotSuppressed, LInv, TypeOK
  <2>4. CallsInform'
    <3>1. CASE call[c].state = "dormant"
      <4>1. call'[c].story = call[c].story /\ call[c].story \notin asked
        <5>1. call[c] \in [at : {"matched", "patching"}, story : Stories,
                           state : States \ {"archived"}]
          BY <2>1 DEF LInv, TypeOK
        <5>2. call'[c] = [call[c] EXCEPT !.at = "patching"]
          BY <2>1, <3>1 DEF LInv, TypeOK
        <5> QED
          BY <2>2, <3>1, <5>1, <5>2
      <4>2. \A d \in Callers \ {c} : call'[d] = call[d]
        BY <2>1 DEF LInv, TypeOK
      <4> QED
        BY <2>1, <4>1, <4>2 DEF Exact, Views, CallsInform
    <3>2. CASE call[c].state # "dormant"
      BY <2>1, <3>2 DEF Exact, Views, CallsInform, LInv, TypeOK
    <3> QED
      BY <3>1, <3>2
  <2> QED
    BY <2>1, <2>3, <2>4, ExactKept
    DEF Exact, Views, ClientsInform, IndexSuppressed, BuiltSuppressed
<1>3. CASE IngestLeaves(c)
  <2>1. /\ UNCHANGED <<meta, phase, stories, merged, asked, hot, built, index, client>>
        /\ call' = [call EXCEPT ![c] = Idle]
    BY <1>3 DEF IngestLeaves, storeVars, batchVars
  <2>2. CallsInform'
    BY <2>1 DEF Exact, Views, CallsInform, LInv, TypeOK
  <2> QED
    BY <2>1, <2>2, ExactKept DEF Exact, Views, HotSuppressed, ClientsInform,
       IndexSuppressed, BuiltSuppressed
<1>4. CASE IngestPatch(c)
  <2>1. /\ UNCHANGED <<meta, phase, stories, merged, asked, hot, built, client>>
        /\ call[c] # Idle /\ call[c].at = "patching"
        /\ call' = [call EXCEPT ![c] = Idle]
        /\ index' = Patched(index, call[c].story, "active")
    BY <1>4 DEF IngestPatch, storeVars, batchVars
  <2>2. call[c].story \notin asked
    BY <2>1 DEF Exact, Views, CallsInform
  <2>3. \A S \in asked : index'[S] = index[S]
    BY <1>0, <2>1, <2>2 DEF Patched, LInv, TypeOK
  <2>4. CallsInform'
    BY <2>1 DEF Exact, Views, CallsInform, LInv, TypeOK
  <2>5. IndexSuppressed'
    BY <2>1, <2>3 DEF Exact, Views, IndexSuppressed
  <2> QED
    BY <2>1, <2>4, <2>5, ExactKept
    DEF Exact, Views, HotSuppressed, ClientsInform, BuiltSuppressed
<1> QED
  BY <1>1, <1>2, <1>3, <1>4 DEF Ingest

LEMMA ExactMerge ==
    ASSUME LInv, Exact, NEW S \in Stories, NEW R \in Stories, MergeStories(S, R)
    PROVE  CollectedAsked'
<1>1. /\ phase = "apply" /\ UNCHANGED <<phase, asked>>
      /\ merged' = merged \cup {<<S, R>>} /\ S # R
      /\ stories' = [stories EXCEPT ![S] = Merged(@, stories[R]), ![R] = Absent]
  BY DEF MergeStories, TxOpen
<1>2. Survivors' = Survivors \cup {S}
  <2>1. /\ \A m \in merged' : m \in merged \/ m = <<S, R>>
        /\ merged \subseteq merged' /\ <<S, R>> \in merged'
    BY <1>1
  <2>2. <<S, R>>[1] = S
    OBVIOUS
  <2> QED
    BY <2>1, <2>2, Zenon DEF Survivors
<1>3. /\ stories'[S] = Merged(stories[S], stories[R]) /\ stories'[R] = Absent
      /\ \A Q \in Stories \ {S, R} : stories'[Q] = stories[Q]
  BY <1>1 DEF LInv, TypeOK
<1>4. stories'[S] = Absent \/ stories'[S].state # "suppressed"
  BY <1>3 DEF Merged
<1> QED
  BY <1>1, <1>2, <1>3, <1>4 DEF Exact, CollectedAsked, InBatch

\* Where the hot record and the index are left alone, or the index swapped.
LEMMA ViewsKept ==
    ASSUME Views, asked' \subseteq asked, UNCHANGED <<hot, call, client, index>>,
           BuiltSuppressed'
    PROVE  Views'
  BY DEF Views, HotSuppressed, CallsInform, ClientsInform, IndexSuppressed

LEMMA OnlySuppressedSwept ==
    ASSUME NEW prev, NEW age \in Ages, Swept(prev, age) = "suppressed"
    PROVE  prev # Absent /\ prev.state = "suppressed"
  BY DEF Swept, Ages

LEMMA ExactCommit ==
    ASSUME LInv, Exact, NEW age \in [members -> Ages], CommitApply(age)
    PROVE  Exact'
<1>1. /\ phase = "apply" /\ phase' = "committed"
      /\ UNCHANGED <<index, call, client, built>>
  BY Committed DEF CommitApply
<1>2. asked' = asked \ (Survivors \cup Retired \cup
                 {S \in members : Swept(stories[S], age[S]) = "archived"})
  BY Committed
<1>3. members \subseteq Stories /\ asked \subseteq Stories
      /\ Survivors \subseteq members /\ Retired \cap members = {}
  BY DEF LInv, TypeOK, Inherited, Survivors, Retired
<1>4. OnlyAsked'
  <2> SUFFICES ASSUME NEW S \in Stories, Suppressed(S)' PROVE S \in asked'
    BY DEF OnlyAsked
  <2>1. CASE S \in members
    <3>1. Swept(stories[S], age[S]) = "suppressed" /\ age[S] \in Ages
      BY <2>1, Committed DEF Suppressed
    <3>2. S \in asked \ Survivors
      BY <1>1, <3>1, OnlySuppressedSwept DEF Exact, CollectedAsked, InBatch
    <3> QED
      BY <1>2, <1>3, <2>1, <3>1, <3>2
  <2>2. CASE S \notin members
    <3>1. S \notin Retired /\ meta'[S] = meta[S]
      BY <2>2, Committed DEF Suppressed, Exists
    <3> QED
      BY <1>2, <1>3, <2>2, <3>1 DEF Exact, OnlyAsked, Suppressed, Exists
  <2> QED
    BY <2>1, <2>2
<1>5. HotSuppressed'
  <2> SUFFICES ASSUME NEW S \in asked' PROVE hot'[S] = "suppressed"
    BY DEF HotSuppressed
  <2>1. /\ S \in asked /\ S \in Stories /\ S \notin Survivors \cup Retired
        /\ S \in members => Swept(stories[S], age[S]) # "archived"
    BY <1>2, <1>3
  <2>2. /\ S \in members => hot'[S] = Swept(stories[S], age[S])
        /\ S \notin members => hot'[S] = hot[S]
    BY <2>1 DEF CommitApply, Retired
  <2>3. CASE S \in members
    <3>1. stories[S] # Absent /\ stories[S].state = "suppressed" /\ age[S] \in Ages
      BY <1>1, <2>1, <2>3 DEF LInv, CollectedStands, InBatch
    <3> QED
      BY <2>1, <2>2, <2>3, <3>1, SuppressedSwept
  <2> QED
    BY <2>1, <2>2, <2>3 DEF Exact, Views, HotSuppressed
<1>6. asked' \subseteq asked
  BY <1>2
<1> QED
  BY <1>1, <1>4, <1>5, <1>6
  DEF Exact, CollectedAsked, InBatch, Views, CallsInform, ClientsInform,
      IndexSuppressed, BuiltSuppressed

LEMMA ExactBatch ==
    ASSUME LInv, Exact, Batch
    PROVE  Exact'
<1>1. CASE Collect
  <2>1. /\ phase' = "collected" /\ merged' = {}
        /\ UNCHANGED <<meta, hot, index, call, client, built, asked>>
        /\ stories' = [S \in Stories |->
                         IF Exists(S) /\ meta[S].state # "archived"
                           THEN meta[S] ELSE Absent]
    BY <1>1 DEF Collect, storeVars
  <2>2. OnlyAsked'
    BY <2>1 DEF Exact, OnlyAsked, Suppressed, Exists
  <2>3. CollectedAsked'
    BY <2>1 DEF Exact, OnlyAsked, Suppressed, Exists, CollectedAsked, Survivors
  <2> QED
    BY <2>1, <2>2, <2>3, ViewsKept DEF Exact, BuiltSuppressed
<1>2. ASSUME BeginApply \/ \E S \in Stories : FoundStory(S) PROVE Exact'
  <2>1. /\ UNCHANGED <<meta, hot, index, call, client, built, asked, stories, merged>>
        /\ InBatch /\ phase' = "apply"
    BY <1>2 DEF BeginApply, FoundStory, TxOpen, storeVars, InBatch
  <2>2. OnlyAsked' /\ CollectedAsked'
    BY <2>1 DEF Exact, OnlyAsked, CollectedAsked, InBatch, Survivors, Suppressed, Exists
  <2> QED
    BY <2>1, <2>2, ViewsKept DEF Exact, BuiltSuppressed
<1>3. ASSUME NEW S \in Stories, NEW R \in Stories, MergeStories(S, R) PROVE Exact'
  <2>1. /\ UNCHANGED <<meta, hot, index, call, client, built, asked>>
        /\ phase' = "apply"
    BY <1>3 DEF MergeStories, TxOpen, storeVars
  <2>2. OnlyAsked'
    BY <2>1 DEF Exact, OnlyAsked, Suppressed, Exists
  <2> QED
    BY <1>3, <2>1, <2>2, ExactMerge, ViewsKept DEF Exact, BuiltSuppressed
<1>4. ASSUME NEW age \in [members -> Ages], CommitApply(age) PROVE Exact'
  BY <1>4, ExactCommit
<1>5. CASE BatchFails
  <2>1. /\ UNCHANGED <<meta, hot, index, call, client, asked>> /\ phase' = "idle"
    BY <1>5 DEF BatchFails, storeVars
  <2>2. OnlyAsked' /\ CollectedAsked' /\ BuiltSuppressed'
    BY <2>1 DEF Exact, OnlyAsked, Suppressed, Exists, CollectedAsked, InBatch,
       BuiltSuppressed
  <2> QED
    BY <2>1, <2>2, ViewsKept DEF Exact
<1>6. CASE BuildIndex
  <2>1. /\ UNCHANGED <<meta, hot, index, call, client, asked>> /\ phase' = "built"
        /\ built' = StoredIndex
    BY <1>6 DEF BuildIndex, storeVars
  <2>2. OnlyAsked' /\ CollectedAsked'
    BY <2>1 DEF Exact, OnlyAsked, Suppressed, Exists, CollectedAsked, InBatch
  <2>3. BuiltSuppressed'
    BY <2>1, IndexedSuppressed DEF LInv, Exact, Views, BuiltSuppressed
  <2> QED
    BY <2>1, <2>2, <2>3, ViewsKept DEF Exact
<1>7. CASE SwapIndex
  <2>1. /\ UNCHANGED <<meta, hot, call, client, asked>>
        /\ phase = "built" /\ phase' = "idle" /\ index' = built
    BY <1>7 DEF SwapIndex, storeVars
  <2>2. OnlyAsked' /\ CollectedAsked'
    BY <2>1 DEF Exact, OnlyAsked, Suppressed, Exists, CollectedAsked, InBatch
  <2> QED
    BY <2>1, <2>2 DEF Exact, Views, HotSuppressed, CallsInform, ClientsInform,
       IndexSuppressed, BuiltSuppressed
<1> QED
  BY <1>1, <1>2, <1>3, <1>4, <1>5, <1>6, <1>7 DEF Batch

LEMMA ExactRestart ==
    ASSUME LInv, Exact, Restart
    PROVE  Exact'
<1>1. /\ UNCHANGED <<meta, hot, asked>> /\ phase' = "idle" /\ index' = StoredIndex
      /\ \A c \in Callers : call'[c] = Idle
      /\ \A k \in Clients : client'[k] = Idle
  BY DEF Restart, storeVars
<1>2. OnlyAsked' /\ CollectedAsked'
  BY <1>1 DEF Exact, OnlyAsked, Suppressed, Exists, CollectedAsked, InBatch
<1>3. IndexSuppressed'
  BY <1>1, IndexedSuppressed DEF LInv, Exact, Views, IndexSuppressed
<1> QED
  BY <1>1, <1>2, <1>3 DEF Exact, Views, HotSuppressed, CallsInform,
     ClientsInform, BuiltSuppressed

LEMMA ExactNext ==
    LInv /\ (overlap = {} => Exact) /\ [Next]_vars => (overlap = {} => Exact)'
<1> SUFFICES ASSUME LInv, overlap = {} => Exact, [Next]_vars, overlap' = {}
             PROVE  Exact'
  OBVIOUS
<1>0. overlap = {}
  BY DEF Next, Client, Suppress, Unsuppress, PatchState, Ingest, IngestMatch,
     IngestCommit, IngestLeaves, IngestPatch, Batch, Collect, BeginApply,
     FoundStory, MergeStories, CommitApply, BatchFails, BuildIndex, SwapIndex,
     Restart, vars
<1>1. ASSUME NEW k \in Clients, Client(k) \/ PatchState(k) PROVE Exact'
  BY <1>0, <1>1, ExactSuppress, ExactUnsuppress, ExactPatch DEF Client
<1>2. ASSUME NEW c \in Callers, Ingest(c) PROVE Exact'
  BY <1>0, <1>2, ExactIngest
<1>3. CASE Batch
  BY <1>0, <1>3, ExactBatch
<1>4. CASE Restart
  BY <1>0, <1>4, ExactRestart
<1>5. CASE UNCHANGED vars
  BY <1>0, <1>5, ExactKept, ViewsKept DEF vars, Exact, Views, BuiltSuppressed
<1> QED
  BY <1>1, <1>2, <1>3, <1>4, <1>5 DEF Next

(* Where nothing overlaps Suppress and Unsuppress, a record says           *)
(* suppressed only where a suppression stands: an Unsuppress or a merge is *)
(* not undone by a batch, a stale call or a restart (suppress.go:68-95,    *)
(* maintain.go:395-416).                                                   *)
THEOREM SuppressionEnds ==
    ASSUME NeverBesideBatch PROVE Spec => []SuppressionExact
<1>1. Init => LInv /\ (overlap = {} => Exact)
  BY LInvInit, ExactInit
<1>2. (overlap = {} => Exact) => SuppressionExact
  BY DEF Exact, OnlyAsked, SuppressionExact
<1> QED
  BY <1>1, <1>2, LInvNext, ExactNext, PTL DEF Spec

(* Then record, hot record and index agree about every suppressed story:   *)
(* readers and Ingest see the suppression as soon as Suppress returns      *)
(* (index.go:249-254).                                                     *)
THEOREM SuppressionSeen ==
    ASSUME NeverBesideBatch PROVE Spec => []ViewsAgree
<1>1. Init => LInv /\ (overlap = {} => Exact)
  BY LInvInit, ExactInit
<1>2. LInv /\ (overlap = {} => Exact) => ViewsAgree
  BY DEF LInv, TypeOK, Exact, Views, HotSuppressed, IndexSuppressed, Busy, ViewsAgree
<1> QED
  BY <1>1, <1>2, LInvNext, ExactNext, PTL DEF Spec
=============================================================================
