---------------------------- MODULE Calibration ----------------------------
(***************************************************************************)
(* What a batch measures once for everybody: the corpus mean all distances *)
(* are taken around, the time of the last batch and the dimension of the   *)
(* embeddings.  They live in the tracker, in the store (c:state), and, as  *)
(* the geometry the centroids were computed in, in every story record and  *)
(* in the story index.                                                     *)
(*                                                                         *)
(* The batch publishes mean and time in memory inside its transaction,     *)
(* commits, lets the buffer drain, and then swaps the index.  A commit or  *)
(* a rebuild may fail, and the process may restart anywhere.               *)
(*                                                                         *)
(* A mean is the set of signals it was measured over, and the geometry of  *)
(* a centroid the mean it was computed around.  Which story a signal joins *)
(* is free; a batch here only founds, extends and archives stories.  Time  *)
(* is a bounded counter.  The section Faults is no part of the model.      *)
(***************************************************************************)
EXTENDS Integers, FiniteSets

CONSTANTS
    Signals,    \* signal IDs
    Stories,    \* story IDs
    Dims,       \* dimensions of embeddings
    Dim,        \* the dimension of each signal's facets
    OutlierTTL, \* Config.OutlierTTL
    MaxTime,    \* bound of the clock
    Outlier,    \* the place of a facet no story holds
    Absent      \* a signal the store does not know

Never == -1     \* the zero time of a tracker without a batch
Unset == 0      \* dim before the first signal
NoMean == {}    \* no mean measured, no centroid computed

ASSUME ConstantsAssumption ==
    /\ OutlierTTL \in Nat /\ MaxTime \in Nat
    /\ Unset \notin Dims /\ Dim \in [Signals -> Dims]
    /\ Outlier \notin Stories /\ Absent \notin Stories \cup {Outlier}

VARIABLES
    clock,      \* the time now
    dim,        \* Tracker.dim
    mean,       \* Tracker.mean
    last,       \* Tracker.lastBatch
    saved,      \* c:state: dim, mean and last, or nothing
    home,       \* where each signal's facet is: a story, Outlier or Absent
    at,         \* the time each signal carries
    record,     \* s:S:m: the geometry of its centroids, NoMean without a record
    archived,   \* the stories whose record is Archived
    index,      \* Tracker.storyIndex: the geometry of the centroids in it
    phase,      \* idle, collected, published (in the transaction), committed
    now,        \* time.Now() of the batch
    view,       \* the signals the batch has collected
    evict,      \* the signals it is going to evict
    behind,     \* history: memory is ahead of the store, or the index behind it
    unsaved,    \* history: the last commit failed and nothing has healed it
    corpus      \* history: new, settled by a batch, or mixed by an early restart

store    == <<saved, home, at, record, archived>>
memory   == <<dim, mean, last, index>>
batch    == <<phase, now, view, evict>>
history  == <<behind, unsaved, corpus>>
vars == <<clock, store, memory, batch, history>>

Held == {s \in Signals : home[s] = Outlier}
Stored == {s \in Signals : home[s] # Absent}
Open == {S \in Stories \ archived : record[S] # NoMean}
Members(S) == {s \in Signals : home[s] = S}
Collectable == Held \cup UNION {Members(S) : S \in Open}

-----------------------------------------------------------------------------
(* Faults.                                                                 *)

\* Expired measured against the wall clock.
ExpiredNow(s) == at[s] < clock - OutlierTTL
\* Collected handing the expired outliers on.
CollectedAll == Collectable
\* Recentred leaving the stories the batch has added nothing to.
RecentredIfExtended(joins, S) == \E s \in DOMAIN joins : joins[s] = S
\* LoadedMean forgetting the mean.
LoadedNoMean == NoMean
\* SavedDim forgetting the dimension.
SavedNoDim == Unset

-----------------------------------------------------------------------------
Init ==
    /\ clock = 0
    /\ dim = Unset /\ mean = NoMean /\ last = Never
    /\ saved = [dim |-> Unset, mean |-> NoMean, last |-> Never]
    /\ home = [s \in Signals |-> Absent] /\ at = [s \in Signals |-> 0]
    /\ record = [S \in Stories |-> NoMean] /\ archived = {}
    /\ index = [S \in Stories |-> NoMean]
    /\ phase = "idle" /\ now = 0 /\ view = {} /\ evict = {}
    /\ behind = FALSE /\ unsaved = FALSE /\ corpus = "new"

Tick ==
    /\ clock < MaxTime
    /\ clock' = clock + 1
    /\ UNCHANGED <<store, memory, batch, history>>

-----------------------------------------------------------------------------
(* Ingest: the dimension is fixed by the first call, also by one that fails *)
(* afterwards; a signal is stored with a time of the producer's choosing.  *)

Admitted(s) == dim \in {Unset, Dim[s]}

\* A facet only ever matches a centroid of its own length.
Matches(s) ==
    {S \in Stories : index[S] # NoMean /\ \A k \in Members(S) : Dim[k] = Dim[s]}

Ingest(s) ==
    /\ home[s] = Absent /\ Admitted(s) /\ phase # "published"
    /\ dim' = Dim[s]
    /\ \E p \in Matches(s) \cup {Outlier} : home' = [home EXCEPT ![s] = p]
    /\ \E t \in 0 .. clock : at' = [at EXCEPT ![s] = t]
    /\ UNCHANGED <<clock, saved, record, archived, mean, last, index, batch, history>>

IngestFails(s) ==
    /\ Admitted(s)
    /\ dim' = Dim[s]
    /\ UNCHANGED <<clock, store, mean, last, index, batch, history>>

-----------------------------------------------------------------------------
(* The batch.                                                              *)

Expired(s) == at[s] < last - OutlierTTL
Collected == {s \in Collectable : ~(s \in Held /\ Expired(s))}

\* Facets of another dimension are dropped, unless no dimension is set. Without
\* one, a facet longer than the first one collected is an index out of range in
\* the sum the mean is made of: the process dies, see Restart.
Collect ==
    /\ phase = "idle"
    /\ phase' = "collected" /\ now' = clock
    /\ view' = {s \in Collected : dim \in {Unset, Dim[s]}}
    /\ evict' = {s \in Held : Expired(s)}
    /\ UNCHANGED <<clock, store, memory, history>>

\* Mean and time, in memory and inside the transaction. With nothing collected
\* there is no new mean.
Publish ==
    /\ phase = "collected"
    /\ mean' = IF view = {} THEN mean ELSE view
    /\ last' = now
    /\ phase' = "published"
    /\ UNCHANGED <<clock, store, dim, index, now, view, evict, history>>

\* recentreStory runs for every story with collected members.
Recentred(joins, S) ==
    \/ S \in Open /\ Members(S) \cap view # {}
    \/ \E s \in DOMAIN joins : joins[s] = S

SavedDim == dim

\* The outliers in the domain of joins go to the stories it names, the expired
\* ones go; stories are recentred around the new mean, and old ones archived.
Regroup(joins, old) ==
    /\ home' = [s \in Signals |-> IF s \in DOMAIN joins THEN joins[s]
                                  ELSE IF s \in evict THEN Absent ELSE home[s]]
    /\ \A s, k \in Signals :
         s \in DOMAIN joins /\ home'[k] = joins[s] => Dim[s] = Dim[k]
    /\ record' = [S \in Stories |->
                     IF Recentred(joins, S) THEN mean ELSE record[S]]
    /\ archived' = archived \cup old

Commit ==
    /\ phase = "published"
    /\ \E joiners \in SUBSET (view \cap Held) :
         \E joins \in [joiners -> Stories \ archived] :
           \E old \in SUBSET {S \in Stories : Recentred(joins, S)} :
             Regroup(joins, old)
    /\ saved' = [dim |-> SavedDim, mean |-> mean, last |-> last]
    /\ phase' = "committed" /\ view' = {} /\ evict' = {}
    /\ unsaved' = FALSE
    /\ behind' = TRUE
    /\ corpus' = IF corpus = "new" /\ dim # Unset THEN "settled" ELSE corpus
    /\ UNCHANGED <<clock, at, memory, now>>

\* The transaction is rolled back; what was published in memory stays.
CommitFails ==
    /\ phase = "published"
    /\ phase' = "idle" /\ view' = {} /\ evict' = {}
    /\ behind' = TRUE /\ unsaved' = TRUE
    /\ UNCHANGED <<clock, store, memory, now, corpus>>

\* The batch fails before the transaction publishes anything.
ApplyFails ==
    /\ phase = "collected"
    /\ phase' = "idle" /\ view' = {} /\ evict' = {}
    /\ UNCHANGED <<clock, store, memory, now, history>>

\* buildActiveStoryIndex: without a dimension, any record gives one.
Built == [S \in Stories |-> IF S \in Open THEN record[S] ELSE NoMean]
Recovered(d) ==
    LET dims == {Dim[s] : s \in UNION {Members(S) : S \in {T \in Stories : record[T] # NoMean}}}
    IN  IF d = Unset /\ dims # {} THEN dims ELSE {d}

Rebuild ==
    /\ phase = "committed"
    /\ index' = Built
    /\ dim' \in Recovered(dim)
    /\ phase' = "idle"
    /\ behind' = FALSE
    /\ UNCHANGED <<clock, store, mean, last, now, view, evict, unsaved, corpus>>

RebuildFails ==
    /\ phase = "committed"
    /\ phase' = "idle"
    /\ UNCHANGED <<clock, store, memory, now, view, evict, history>>

\* A crash at any moment, or the panic of a batch over facets of unequal length;
\* loadCalibState and the index of the new tracker. A tracker whose dimension
\* no batch has saved has none, though signals may be stored.
LoadedMean == saved.mean
Restart ==
    /\ dim' \in Recovered(saved.dim)
    /\ mean' = LoadedMean /\ last' = saved.last
    /\ index' = Built
    /\ phase' = "idle" /\ view' = {} /\ evict' = {}
    /\ behind' = FALSE /\ unsaved' = FALSE
    /\ corpus' = IF corpus = "new" /\ Stored # {} THEN "mixed" ELSE corpus
    /\ UNCHANGED <<clock, store, now>>

Next ==
    \/ Tick
    \/ \E s \in Signals : Ingest(s) \/ IngestFails(s)
    \/ Collect \/ Publish \/ Commit \/ CommitFails \/ ApplyFails
    \/ Rebuild \/ RebuildFails \/ Restart

Spec == Init /\ [][Next]_vars

-----------------------------------------------------------------------------
(* Properties.                                                             *)

TypeOK ==
    /\ clock \in 0 .. MaxTime /\ now \in 0 .. clock
    /\ dim \in Dims \cup {Unset} /\ mean \subseteq Signals
    /\ last \in {Never} \cup 0 .. clock
    /\ saved \in [dim : Dims \cup {Unset}, mean : SUBSET Signals,
                  last : {Never} \cup 0 .. clock]
    /\ home \in [Signals -> Stories \cup {Outlier, Absent}]
    /\ at \in [Signals -> 0 .. clock]
    /\ record \in [Stories -> SUBSET Signals] /\ archived \subseteq Stories
    /\ index \in [Stories -> SUBSET Signals]
    /\ phase \in {"idle", "collected", "published", "committed"}
    /\ view \subseteq Signals /\ evict \subseteq Signals \ view
    /\ behind \in BOOLEAN /\ unsaved \in BOOLEAN
    /\ corpus \in {"new", "settled", "mixed"}

\* The store never disagrees with itself, whatever fails and whenever the
\* process dies: the centroids of every open story were computed around the
\* mean stored beside them, so that a restart reads one geometry. (Not in a
\* corpus of two dimensions, where a story's members may all be dropped.)
StoreInOneGeometry ==
    corpus # "mixed" => \A S \in Open : record[S] = saved.mean

\* Between runs, what Ingest centres a signal against is what the centroids it
\* compares with were computed around (the comment at the publication). Not so
\* after a run whose commit or rebuild failed (behind): the mean published in
\* memory is then a step ahead of the index until a run succeeds.
LookupsAgree ==
    phase = "idle" /\ ~behind /\ corpus # "mixed" =>
        /\ mean = saved.mean
        /\ \A S \in Stories : index[S] # NoMean => index[S] = mean

\* A pause of the batch costs no outlier its chance: a batch evicts only what
\* was already expired when the batch before it committed. A batch whose commit
\* fails moves the reference all the same, and the next one evicts what no
\* committed batch has ever looked at: unsaved is that case.
NoMassEviction ==
    [][~unsaved => \A s \in Signals :
        home[s] # Absent /\ home'[s] = Absent => at[s] < saved.last - OutlierTTL]_vars

\* Every stored facet agrees with the corpus in dimension, across restarts too,
\* once a batch has saved the dimension before the first of them.
OneDimension ==
    corpus # "mixed" => \A s \in Stored : Dim[s] = dim

=============================================================================
