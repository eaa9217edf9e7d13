--------------------------- MODULE FacetPlacement ---------------------------
(***************************************************************************)
(* Where the facets of every signal live: the g:, s:S:f:, o:, l:, s:S:m    *)
(* and s:S:h key spaces, written by concurrent Ingest calls and by the     *)
(* maintenance batch.                                                      *)
(*                                                                         *)
(* An Ingest call matches its facets against the in-memory story index and *)
(* only later runs its write transaction.  The batch collects a view of    *)
(* the store by separate reads, outside any transaction, decides on that   *)
(* view, applies its decisions in one transaction, and only then rebuilds  *)
(* the index.  Both therefore write on the strength of an earlier read.    *)
(*                                                                         *)
(* Geometry is left out: which story is nearest, which outliers form a     *)
(* group, where a story splits and which stories merge are arbitrary       *)
(* choices, under the size rules of the code.  The batch transaction is    *)
(* taken one operation at a time; no other transaction runs while it is    *)
(* open (Store.Update serialises), and a crash inside it is a crash before *)
(* it.                                                                     *)
(*                                                                         *)
(* The section Faults is no part of the model: each of its definitions is  *)
(* one of the model's with a plausible mistake in it.                      *)
(***************************************************************************)
EXTENDS Naturals, FiniteSets

CONSTANTS
    Signals,        \* signal IDs
    Stories,        \* story IDs
    MaxFacets,      \* Config.MaxFacetsPerSignal
    MinStorySize,   \* Config.MinStorySize
    Callers,        \* goroutines that may be inside Ingest
    Shapes,         \* the facet counts a producer may deliver a signal with
    Redeliver,      \* may a producer deliver a signal more than once?
    Outlier,        \* the place of a facet no story holds
    Nowhere,        \* a location-index entry with neither story nor outlier
    NoCall          \* a caller that is outside Ingest

Facets == 1 .. MaxFacets
Places == Stories \cup {Outlier}

ASSUME ConstantsAssumption ==
    /\ MaxFacets \in Nat \ {0}
    /\ MinStorySize \in Nat \ {0}
    /\ IsFiniteSet(Signals)
    /\ Shapes \in [Signals -> SUBSET Facets]
    /\ Redeliver \in BOOLEAN
    /\ Outlier \notin Stories /\ Nowhere \notin Places

VARIABLES
    record,     \* g:    facet count of the canonical record, 0 when absent
    held,       \* s:S:f: and o:  the facet markers, as <<place, signal, facet>>
    loc,        \* l:    the place each facet is indexed at, Nowhere past its end
    rec,        \* s:S:m the batch-owned story record
    hot,        \* s:S:h the stories whose hot state is not Archived
    index,      \* Tracker.storyIndex, the stories a draft may match
    phase,      \* how far the batch goroutine is
    todo,       \* the places the collection has still to scan
    view,       \* the collected facets, with the place each one is believed at
    evict,      \* the signals whose outlier facets the collection found aged
    born,       \* the stories this batch created and has written no record for
    fixed,      \* the stories the current pass has settled: split, or survivors
    call,       \* per caller: the signal, its facet count and its matches
    sent        \* signals already delivered, when each is delivered only once

store == <<record, held, loc, rec, hot>>
batch == <<phase, todo, view, evict, born, fixed>>
vars  == <<store, index, batch, call, sent>>

TxPhases == {"promote", "admit", "split", "merge"}
\* A batch transaction is open: no other Store.Update can run.
TxOpen == phase \in TxPhases

-----------------------------------------------------------------------------
(* Helpers on markers.                                                     *)

MarkersAt(p) == {m \in held : m[1] = p}
SignalsIn(ms) == {m[2] : m \in ms}
FacetsOf(ms) == {<<m[2], m[3]>> : m \in ms}
MembersOf(S) == {m \in view : m[1] = S}
Live == {S \in Stories : MembersOf(S) # {}}

\* The index a full rebuild reads out of the store: a story is in it when it
\* has a record and the hot state laid over that record is not Archived.
StoredIndex == {S \in hot : rec[S] # "absent"}

\* A group must hold MinStorySize distinct signals, however many facets.
Enough(signals) == Cardinality(signals) >= MinStorySize

\* An ID no record in the store and no story of this batch holds.
Fresh(S) == S \in Stories /\ rec[S] = "absent" /\ S \notin born

-----------------------------------------------------------------------------
(* Faults.                                                                 *)

\* Touched counting the outlier bucket as a story.
TouchedAnywhere(n, m) == {m[f] : f \in 1 .. n}
\* AlreadyPlaced asking for every facet.
AllPlaced(kept) == \A f \in Facets : kept[f] \in Stories
\* Reconciled leaving the location index at its old length.
ReconciledMarkersOnly(s, n) == loc[s]
\* Collected handing the aged outliers on to promotion and admission.
CollectedWithAged(found, aged) == found
\* LocEvicted leaving the entries of evicted facets.
LocNotEvicted == loc
\* Collectable without looking for placed facets.
CollectableWhenEvicted(l) == evict
\* Collectable never finding a record to delete.
CollectableNever(l) == {}
\* LocAfterMove without setFacetLoc.
LocUnmoved(ms, to) == loc
\* Divisible without the size rule.
DivisibleAtAll(keep, spawn) == spawn # {}
\* Divisible counting facets instead of distinct signals.
DivisibleByFacets(keep, spawn) ==
    /\ Cardinality(spawn) >= MinStorySize
    /\ Cardinality(keep) >= Cardinality(spawn)
\* Migrants taking the collected members for the whole story.
CollectedMigrants(S) == MembersOf(S)

-----------------------------------------------------------------------------
Init ==
    /\ record = [s \in Signals |-> 0]
    /\ held = {}
    /\ loc = [s \in Signals |-> [f \in Facets |-> Nowhere]]
    /\ rec = [S \in Stories |-> "absent"]
    /\ hot = {}
    /\ index = {}
    /\ phase = "idle" /\ todo = {} /\ view = {} /\ evict = {}
    /\ born = {} /\ fixed = {}
    /\ call = [c \in Callers |-> NoCall]
    /\ sent = {}

-----------------------------------------------------------------------------
(* Ingest.                                                                 *)

\* Everything up to the applyInProgress test: each facet is matched on its own
\* against the index.
IngestMatch(c) ==
    /\ call[c] = NoCall
    /\ \E s \in Signals \ sent : \E n \in Shapes[s] :
         \E m \in [1 .. n -> index \cup {Outlier}] :
            /\ call' = [call EXCEPT ![c] = [sig |-> s, n |-> n, match |-> m]]
            /\ sent' = IF Redeliver THEN sent ELSE sent \cup {s}
    /\ UNCHANGED <<store, index, batch>>

\* findNearestStories loads the index for each facet: when it is replaced between
\* two of them, the rest are matched against what it has become.
IngestMatchRest(c) ==
    /\ call[c] # NoCall
    /\ \E k \in 1 .. call[c].n - 1 : \E m \in [k + 1 .. call[c].n -> index \cup {Outlier}] :
         call' = [call EXCEPT ![c].match =
                    [f \in 1 .. call[c].n |-> IF f <= k THEN @[f] ELSE m[f]]]
    /\ UNCHANGED <<store, index, batch, sent>>

\* reconcileFacetCount: the facets a shorter delivery drops lose their outlier
\* marker and the marker of the story the index names, and no other.
Dropped(s, n) ==
    {m \in held : /\ m[2] = s
                  /\ m[3] \in (n + 1) .. record[s]
                  /\ m[1] \in {Outlier, loc[s][m[3]]}}

Reconciled(s, n) ==
    [f \in Facets |-> IF record[s] > n /\ f > n THEN Nowhere ELSE loc[s][f]]

\* placeFacet and holdFacetOutlier for every facet of the call. placeFacet is
\* skipped for a facet the story already holds, and its outlier marker stays.
Placed(h, s, n, m) ==
    LET new == {f \in 1 .. n : <<m[f], s, f>> \notin h}
    IN  (h \cup {<<m[f], s, f>> : f \in new})
          \ {<<Outlier, s, f>> : f \in {g \in new : m[g] # Outlier}}

\* The stories the call writes hot metadata for; none of them is Archived.
Touched(n, m) == {m[f] : f \in 1 .. n} \ {Outlier}

\* Whether an index entry set names any story: one placed facet is enough.
AlreadyPlaced(kept) == \E f \in Facets : kept[f] \in Stories

\* The write transaction. A signal the index places anywhere is left as it is.
IngestCommit(c) ==
    /\ call[c] # NoCall /\ ~TxOpen
    /\ LET s == call[c].sig
           n == call[c].n
           m == call[c].match
           kept == Reconciled(s, n)
       IN  /\ record' = [record EXCEPT
                ![s] = IF @ = 0 \/ @ > n THEN n ELSE @]
           /\ IF AlreadyPlaced(kept)
              THEN /\ held' = held \ Dropped(s, n)
                   /\ loc' = [loc EXCEPT ![s] = kept]
                   /\ hot' = hot
              ELSE /\ held' = Placed(held \ Dropped(s, n), s, n, m)
                   /\ loc' = [loc EXCEPT ![s] =
                        [f \in Facets |-> IF f <= n THEN m[f] ELSE Nowhere]]
                   /\ hot' = hot \cup Touched(n, m)
    /\ call' = [call EXCEPT ![c] = NoCall]
    /\ UNCHANGED <<rec, index, batch, sent>>

\* The call saw applyInProgress set: the signal is buffered, its matches are
\* forgotten, and the drain after the commit delivers it again.
IngestBuffered(c) ==
    /\ call[c] # NoCall /\ TxOpen
    /\ call' = [call EXCEPT ![c] = NoCall]
    /\ sent' = sent \ {call[c].sig}
    /\ UNCHANGED <<store, index, batch>>

\* The transactions of Suppress and Unsuppress.  Both read the story through its
\* hot record and write both records, so that one an Ingest call has made look
\* alive after it was archived is open again.
Suppress(S) ==
    /\ rec[S] # "absent" /\ S \in hot /\ ~TxOpen
    /\ rec' = [rec EXCEPT ![S] = "open"]
    /\ UNCHANGED <<record, held, loc, hot, index, batch, call, sent>>

-----------------------------------------------------------------------------
(* The batch: collection.                                                  *)

\* collectStories: one scan, Archived records skipped by their own state.
CollectStories ==
    /\ phase = "idle"
    /\ phase' = "collect"
    /\ todo' = {S \in Stories : rec[S] = "open"} \cup {Outlier}
    /\ view' = {} /\ evict' = {} /\ born' = {} /\ fixed' = {}
    /\ UNCHANGED <<store, index, call, sent>>

\* collectMarkers: one scan per story, the outlier bucket last.
CollectPlace(p) ==
    /\ phase = "collect" /\ p \in todo
    /\ p = Outlier => todo = {Outlier}
    /\ view' = view \cup MarkersAt(p)
    /\ todo' = todo \ {p}
    /\ UNCHANGED <<store, index, phase, evict, born, fixed, call, sent>>

\* The facets a batch works on: an aged signal's outliers are not among them.
Collected(found, aged) == {m \in found : ~(m[1] = Outlier /\ m[2] \in aged)}

\* The record reads: a marker without its facet in the record is skipped, and
\* the outlier facets of a signal past the TTL are listed for eviction.
CollectRecords ==
    /\ phase = "collect" /\ todo = {}
    /\ LET found == {m \in view : m[3] <= record[m[2]]}
       IN  \E aged \in SUBSET SignalsIn({m \in found : m[1] = Outlier}) :
             /\ view' = Collected(found, aged)
             /\ evict' = aged
    /\ phase' = "collected"
    /\ UNCHANGED <<store, index, todo, born, fixed, call, sent>>

\* A collection or an apply that fails: the transaction rolls back and the
\* index is not rebuilt.
BatchFails ==
    /\ phase \in {"collect", "collected"}
    /\ phase' = "idle" /\ todo' = {} /\ view' = {} /\ evict' = {}
    /\ UNCHANGED <<store, index, born, fixed, call, sent>>

-----------------------------------------------------------------------------
(* The batch: the apply transaction.                                       *)

\* evictOutlierFacets for every listed signal, then gcCanonicalSignal.
Evicted(m) == m[1] = Outlier /\ m[2] \in evict
LocEvicted ==
    [s \in Signals |-> [f \in Facets |->
        IF <<Outlier, s, f>> \in held /\ s \in evict THEN Nowhere ELSE loc[s][f]]]
Collectable(l) ==
    {s \in evict : \A f \in Facets : l[s][f] \notin Stories}

EvictOutliers ==
    /\ phase = "collected"
    /\ held' = {m \in held : ~Evicted(m)}
    /\ LET gone == Collectable(LocEvicted)
       IN  /\ record' = [s \in Signals |-> IF s \in gone THEN 0 ELSE record[s]]
           /\ loc' = [s \in Signals |->
                IF s \in gone THEN [f \in Facets |-> Nowhere] ELSE LocEvicted[s]]
    /\ phase' = "promote"
    /\ UNCHANGED <<rec, hot, index, todo, view, evict, born, fixed, call, sent>>

\* moveFacetToStory for a set of facets, each from the place m[1] names.
HeldAfterMove(ms, to) ==
    (held \ {m \in held : m \in ms \/ (m[1] = Outlier /\ <<m[2], m[3]>> \in FacetsOf(ms))})
        \cup {<<to, m[2], m[3]>> : m \in ms}
LocAfterMove(ms, to) ==
    [s \in Signals |-> [f \in Facets |->
        IF <<s, f>> \in FacetsOf(ms) THEN to ELSE loc[s][f]]]
ViewAfterMove(ms, to) == (view \ ms) \cup {<<to, m[2], m[3]>> : m \in ms}

MoveFacets(ms, to) ==
    /\ held' = HeldAfterMove(ms, to)
    /\ loc' = LocAfterMove(ms, to)
    /\ view' = ViewAfterMove(ms, to)

\* A group of at least MinStorySize distinct signals founds a story.
PromoteGroup(S) ==
    /\ phase = "promote" /\ Fresh(S)
    /\ \E group \in SUBSET MembersOf(Outlier) :
         /\ Enough(SignalsIn(group))
         /\ MoveFacets(group, S)
    /\ born' = born \cup {S}
    /\ UNCHANGED <<record, rec, hot, index, phase, todo, evict, fixed, call, sent>>

\* A leftover outlier joins a story that already has collected members.
AdmitFacet(S) ==
    /\ phase \in {"promote", "admit"} /\ S \in Live
    /\ \E m \in MembersOf(Outlier) : MoveFacets({m}, S)
    /\ phase' = "admit"
    /\ UNCHANGED <<record, rec, hot, index, todo, evict, born, fixed, call, sent>>

\* Both parts hold MinStorySize distinct signals, and the larger one is kept.
Divisible(keep, spawn) ==
    /\ Enough(SignalsIn(spawn)) /\ Enough(SignalsIn(keep))
    /\ Cardinality(keep) >= Cardinality(spawn)

\* At most one split per story; the smaller part moves to the child.
SplitStory(S, child) ==
    /\ phase \in {"promote", "admit", "split"}
    /\ S \in Live \ fixed /\ Fresh(child)
    /\ \E spawn \in SUBSET MembersOf(S) :
         /\ Divisible(MembersOf(S) \ spawn, spawn)
         /\ MoveFacets(spawn, child)
    /\ phase' = "split"
    /\ born' = born \cup {child}
    /\ fixed' = fixed \cup {S, child}
    /\ UNCHANGED <<record, rec, hot, index, todo, evict, call, sent>>

\* One entry of the merge plan. A survivor absorbs every other story of its
\* group and is never retired itself; being the oldest of the group, it was not
\* born in this batch unless the retired one was. migrateFacets walks the
\* markers the store holds, the ones placed since the collection included.
Survivors == IF phase = "merge" THEN fixed ELSE {}
Migrants(S) == MarkersAt(S)

MergeStories(retired, survivor) ==
    /\ phase \in TxPhases
    /\ retired # survivor /\ {retired, survivor} \subseteq Live
    /\ retired \notin Survivors
    /\ survivor \in born => retired \in born
    /\ held' = HeldAfterMove(Migrants(retired), survivor)
    /\ loc' = LocAfterMove(Migrants(retired), survivor)
    /\ view' = ViewAfterMove(MembersOf(retired), survivor)
    /\ rec' = [rec EXCEPT ![retired] = "absent"]
    /\ hot' = hot \ {retired}
    /\ born' = born \ {retired}
    /\ phase' = "merge" /\ fixed' = Survivors \cup {survivor}
    /\ UNCHANGED <<record, index, todo, evict, call, sent>>

\* recentreStory for every story with collected members, and the commit. A
\* story whose latest signal is past ArchiveWindow is written as Archived.
CommitApply ==
    /\ TxOpen
    /\ \E old \in SUBSET Live :
         /\ rec' = [S \in Stories |->
              IF S \in old THEN "archived" ELSE IF S \in Live THEN "open" ELSE rec[S]]
         /\ hot' = (hot \cup Live) \ old
    /\ phase' = "applied" /\ born' = {} /\ fixed' = {} /\ view' = {} /\ evict' = {}
    /\ UNCHANGED <<record, held, loc, index, todo, call, sent>>

-----------------------------------------------------------------------------
(* The batch: the index rebuild, and a restart.                            *)

RebuildIndex ==
    /\ phase = "applied"
    /\ index' = StoredIndex
    /\ phase' = "idle"
    /\ UNCHANGED <<store, todo, view, evict, born, fixed, call, sent>>

\* The scan failed: the error is reported and the old index stays.
RebuildFails ==
    /\ phase = "applied"
    /\ phase' = "idle"
    /\ UNCHANGED <<store, index, todo, view, evict, born, fixed, call, sent>>

\* The process dies outside a transaction and NewTracker reads the store back.
Restart ==
    /\ ~TxOpen
    /\ index' = StoredIndex
    /\ phase' = "idle" /\ todo' = {} /\ view' = {} /\ evict' = {}
    /\ call' = [c \in Callers |-> NoCall]
    /\ UNCHANGED <<store, born, fixed, sent>>

Next ==
    \/ \E c \in Callers : IngestMatch(c) \/ IngestMatchRest(c)
                           \/ IngestCommit(c) \/ IngestBuffered(c)
    \/ CollectStories \/ CollectRecords \/ BatchFails
    \/ \E p \in Places : CollectPlace(p)
    \/ EvictOutliers
    \/ \E S \in Stories : Suppress(S) \/ PromoteGroup(S) \/ AdmitFacet(S)
    \/ \E S, other \in Stories : SplitStory(S, other) \/ MergeStories(S, other)
    \/ CommitApply \/ RebuildIndex \/ RebuildFails \/ Restart

Spec == Init /\ [][Next]_vars

-----------------------------------------------------------------------------
(* Properties.                                                             *)

TypeOK ==
    /\ record \in [Signals -> 0 .. MaxFacets]
    /\ held \subseteq Places \X Signals \X Facets
    /\ loc \in [Signals -> [Facets -> Places \cup {Nowhere}]]
    /\ rec \in [Stories -> {"absent", "open", "archived"}]
    /\ hot \subseteq Stories /\ index \subseteq Stories
    /\ phase \in {"idle", "collect", "collected", "applied"} \cup TxPhases
    /\ todo \subseteq Places /\ view \subseteq Places \X Signals \X Facets
    /\ evict \subseteq Signals
    /\ born \subseteq Stories /\ fixed \subseteq Stories
    /\ DOMAIN call = Callers
    /\ \A c \in Callers : call[c] # NoCall =>
         /\ call[c].sig \in Signals /\ call[c].n \in Facets
         /\ call[c].match \in [1 .. call[c].n -> Places]
    /\ sent \subseteq Signals

\* The location index never names a place that does not hold the facet
\* ("updated by every placement change, in the same transaction as the markers
\* it mirrors").
LocBacked ==
    \A s \in Signals, f \in Facets :
        loc[s][f] # Nowhere => <<loc[s][f], s, f>> \in held

\* Conversely, every marker is the one the location index names: a facet has
\* one home, and Ingest finds it without a scan.
MarkersIndexed == \A m \in held : loc[m[2]][m[3]] = m[1]

\* A facet lives in exactly one of three states: under a story, in the outlier
\* bucket, or nowhere (the placement comment of record.go).
OneHome == \A m, k \in held : m[2] = k[2] /\ m[3] = k[3] => m = k

\* The lifetime rule of gcCanonicalSignal: a signal's record exists exactly as
\* long as some facet of it is held somewhere.
RecordsHeld == \A s \in Signals : record[s] # 0 <=> s \in SignalsIn(held)

\* Half of it: no record is left that no marker refers to, a store leak.
RecordHasMarker == \A s \in Signals : record[s] # 0 => s \in SignalsIn(held)

\* A signal that is delivered with the same facets every time.
Unchanging == {s \in Signals : Cardinality(Shapes[s]) = 1}

\* The record of a signal that keeps its facets is deleted only once no facet
\* of it remains anywhere, however the others are delivered.
RecordOutlives ==
    [][\A s \in Unchanging :
        record[s] # 0 /\ record'[s] = 0 => s \notin SignalsIn(held')]_vars

\* Every record can be reached by a reader: through the outlier bucket or
\* through a story that Stories lists, which has to have a record.
RecordsReachable ==
    ~TxOpen => \A s \in Signals : record[s] # 0 =>
        \E m \in held : m[2] = s /\ (m[1] = Outlier \/ rec[m[1]] # "absent")

\* What the batch collected is still true when it acts on it, however many
\* Ingest transactions ran in between: no decision moves a facet from a place
\* it has left.
ViewCurrent == phase \in TxPhases \cup {"collected"} => view \subseteq held

\* A story the batch would list as its own has members: splits, merges and
\* evictions leave no empty story behind.
NoEmptyStory ==
    ~TxOpen => \A S \in Stories : rec[S] = "open" => MarkersAt(S) # {}

\* A story that a merge retires takes no member with it, also not one placed
\* in it after the collection.
MergeMigratesAll ==
    [][\A S \in Stories :
        rec[S] # "absent" /\ rec'[S] = "absent" => ~\E m \in held' : m[1] = S]_vars

\* A delivery of an unchanged signal some story already holds leaves all of its
\* facets where they are: placements of the batch are authoritative and a late
\* duplicate does not overwrite one.
Placement(s) == {m \in held : m[2] = s}
DraftNeverRevises ==
    [][batch' = batch =>
        \A s \in Unchanging :
            (\E m \in held : m[2] = s /\ m[1] \in Stories)
                => Placement(s)' = Placement(s)]_vars

\* Why the above hold of signals delivered once, as an inductive invariant: a
\* signal inside Ingest, or not yet there, is unknown to the store, and one call
\* only is about it; the batch's view is part of the store; a story with a record
\* has members also in the middle of a batch, and archived, as it may be opened
\* again.
InFlight(c) == call[c] # NoCall
UnknownUntilCommitted ==
    /\ \A s \in Signals \ sent : record[s] = 0
    /\ \A c \in Callers : InFlight(c) =>
         call[c].sig \in sent /\ record[call[c].sig] = 0
    /\ \A c, d \in Callers :
         InFlight(c) /\ InFlight(d) /\ call[c].sig = call[d].sig => c = d
ViewHeld ==
    /\ view \subseteq held
    /\ phase = "collected" => \A m \in MembersOf(Outlier) : m[2] \notin evict
Inhabited == \A S \in Stories : rec[S] # "absent" => MarkersAt(S) # {}
DeliveredOnceInv ==
    MarkersIndexed /\ RecordsHeld /\ UnknownUntilCommitted /\ ViewHeld /\ Inhabited

\* Why the properties of unchanging signals hold, as an inductive invariant: such
\* a signal has one facet count in its record and in every call about it, so
\* that no delivery reconciles it; and a facet of it that a story holds is indexed
\* under a story (not always that one) and is no outlier beside it, so that
\* neither a delivery nor an eviction takes it for unplaced.
KeepsFacets ==
    /\ \A s \in Unchanging : record[s] \in Shapes[s] \cup {0}
    /\ \A c \in Callers : InFlight(c) => call[c].n \in Shapes[call[c].sig]
PlacedIsIndexed ==
    \A m \in held : m[1] \in Stories /\ m[2] \in Unchanging =>
        loc[m[2]][m[3]] \in Stories /\ <<Outlier, m[2], m[3]>> \notin held
UnchangingInv == KeepsFacets /\ PlacedIsIndexed

\* The home of every facet, read from the markers, changes only as the abstract
\* specification of membership stability allows.
Home == [s \in Signals |-> [f \in Facets |->
            IF \E p \in Places : <<p, s, f>> \in held
            THEN CHOOSE p \in Places : <<p, s, f>> \in held
            ELSE Nowhere]]
Homes == INSTANCE StableHomes WITH home <- Home
MembershipStable == Homes!Spec

=============================================================================
