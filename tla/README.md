# Verification of streaming-story

TLA+ models of the tracker in this repository, the TLC configurations that
check them and TLAPS proofs about them. Paths such as `ingest.go:168` are
relative to the root of the repository.

## 1. The system

A `Tracker` clusters a stream of signals into stories. A signal carries one or
more *facets* (embeddings); each facet is placed on its own. Callers run
`Ingest` concurrently; a cron goroutine runs a maintenance batch. All durable
state is in a key-value store the caller supplies.

| Component | State | Operations | Talks to |
|---|---|---|---|
| Facet placement (`ingest.go`, `batch.go`, `maintain.go`, `record.go`, `index.go`) | store keys `g:` (canonical record), `s:S:f:` (membership markers), `o:` (outlier markers), `l:` (location index), `s:S:m` (story record), `s:S:h` (hot state); `Tracker.storyIndex` in memory | `Ingest`; batch: collect, evict, promote, admit, split, merge, recentre; index rebuild; open | store transactions; index read without them |
| Apply window (`batch.go`, `ingest.go`, `tracker.go`) | `applyInProgress`, `ingestBuffer`, `closeMu`, `closed` | begin/end window, enqueue, drain, `Close` | `Ingest` callers, cron |
| Story lifecycle (`suppress.go`, `maintain.go`, `record.go`, `index.go`, `query.go`) | state, suppression, `LastSignalAt` in `s:S:m` and `s:S:h`, `t:` time index | `Suppress`, `Unsuppress`, hot writes, `recentreStory`, merge | store, index patches |
| Event fan-out (`tracker.go`) | `subs`, a bounded channel per subscriber, `subMu`, `closed` | `Subscribe`, `emit`, `Close` | every writer |
| Clustering (`internal/cluster`, `maintain.go`) | none (pure) | `Grow`, `Split`, `PlanMerges` with `Cliques`; promotion, admission | batch |
| Calibration (`threshold.go`, `record.go`, `maintain.go`) | `mean`, `sigmaGlobal`, `lastBatch`, `dim` in memory and in `c:state`; the geometry in every story record and in the index | publish and save at the end of a batch, load, rebuild | `Ingest` |
| Queries (`query.go`) | none | `Story`, `Stories`, `SignalsOf`, ... | store |
| Keys, CBOR, geometry, distance kernels | none | encodings, arithmetic | everything |

What is hard in it:

- **Decisions on an earlier read.** `Ingest` matches against the in-memory
  index and opens its transaction later; the batch collects by separate reads
  and applies later; the index is swapped after the commit. Three actors write
  on the strength of something that may have changed.
- **One fact in several keys.** A facet's place is in a marker and in the
  location index; a story's state is in two records, the time index and memory.
- **Re-delivery** of a signal at any moment, unchanged, shorter or longer.
- **Failure**: a batch that fails in the middle, a rebuild that fails after the
  commit, a restart anywhere outside a transaction.
- **Decisions fed back.** What a pass decides changes the centroids and
  thresholds the next one decides by.
- **The window** in which `Ingest` is redirected to a bounded channel, the
  drain after it, and `Close`.

`PROJECT.json` lists every hazard at its line with the properties about it.
Each component has a module of its own: what they share, the transactions of the
store and the phases of a batch, is in each of them, at the detail its
properties need.

What makes each component correct:

- *placement*: a facet has one home; index and markers agree; a record exists as
  long as a facet of it does; what a batch decided on is true when it acts;
  placed facets move only in whole groups.
- *apply window*: an accepted signal is stored by the time the batch and the
  drain are over, unless the process dies; `Close` returns.
- *lifecycle*: a suppression is undone only by `Unsuppress`, a merge or
  archiving; what is undone stays undone; record, hot record and index agree
  about it; that a story was suppressed is never forgotten.
- *fan-out*: a subscriber that misses an event finds an overflow marker; nothing
  is sent on a closed channel; nobody waits for a slow subscriber.
- *clustering*: groups are compact and of enough signals; cheap gates turn away
  nothing the full test would accept; passes do not undo each other.
- *calibration*: what is compared was measured in one geometry, and in one
  dimension; a pause of the batch evicts nothing.

## 2. Modules

| Module | What it is |
|---|---|
| `FacetPlacement` | the placement component: everything that moves a facet, interleaved |
| `StableHomes` | the abstract specification of membership stability it implements |
| `MCFacetPlacement` | small instances for TLC: delivery shapes, symmetry |
| `FacetPlacement_proofs` | theorems for every pattern of deliveries |
| `DeliveredOnce_proofs` | the inductive invariant for signals delivered once, and from it the refinement of `StableHomes` |
| `ApplyWindow` | `Ingest` admission, the window, the buffer, the drain, `Close` |
| `MCApplyWindow` | small instances of it |
| `ApplyWindow_proofs` | its safety theorems |
| `StoryLifecycle` | a story's state in the record, the hot record and the index; suppression |
| `MCStoryLifecycle` | small instances of it, and the overlaps they allow |
| `StoryLifecycle_proofs` | its theorems on suppression and history |
| `EventFanout` | `Subscribe`, `emit`, `Close` on the subscribers' channels |
| `MCEventFanout` | an instance of it, emissions overlapping or not |
| `EventFanout_proofs` | its safety theorems |
| `Calibration` | mean, time of the last batch and dimension in memory, store and index |
| `MCCalibration` | an instance of it, with embeddings of two dimensions |
| `Calibration_proofs` | its theorems |
| `Clustering` | the decisions of `internal/cluster` as functions |
| `Maintenance` | drafts and passes that act by those functions |
| `MCMaintenance` | an instance of both: signals, places and thresholds |
| `Clustering_proofs` | what `Grow`, `Split` and `PlanMerges` guarantee of any facets |
| `Maintenance_proofs` | what series of passes keep |

### FacetPlacement

State, against the code:

| Variable | Code |
|---|---|
| `record[s]` | facet count of the record at `g:s`, 0 if absent |
| `held` | the markers `s:S:f:s:f` and `o:s:f`, as `<<place, signal, facet>>` |
| `loc[s][f]` | entry `f` of `l:s`; `Nowhere` for a zero entry, past the end, or no index |
| `rec[S]` | `s:S:m`: absent, or whether its state is Archived |
| `hot` | the stories whose `s:S:h` exists and is not Archived |
| `index` | the stories in `Tracker.storyIndex` |
| `phase, todo, view, evict, born, fixed` | locals of `runBatchCore`, `collectBatch`, `applyMaintenance` |
| `call[c]` | locals of an `Ingest` call between its match and its transaction |
| `sent` | the environment's memory when it delivers each signal once |

Actions. `IngestMatch` is `Ingest` up to the `applyInProgress` test;
`IngestMatchRest` is an index that is swapped between the matches of two facets
(`findNearestStories` loads it for each);
`IngestCommit` its transaction with `reconcileFacetCount`, the no-op test, the
placement of every facet and the hot writes; `IngestBuffered` is the branch into
the buffer, whose signal the drain delivers again. `Suppress` stands for the
transactions of `Suppress` and `Unsuppress`. `CollectStories`,
`CollectPlace` and `CollectRecords` are the scans of `collectBatch`, each atomic
and others free to run in between. `EvictOutliers`, `PromoteGroup`,
`AdmitFacet`, `SplitStory`, `MergeStories` and `CommitApply` are
`applyMaintenance` in its order; while that transaction is open no other runs.
`RebuildIndex` or `RebuildFails` follow the commit. `BatchFails` is any error
before the commit. `Restart` is a crash, and what `NewTracker` reads back.

Abstractions. Geometry, thresholds and time are free choices: which story a
facet matches, which outliers form a group, which facets split off, which
stories merge, which signals are past the TTL and which stories are archived.
The size rules stay: `MinStorySize` distinct signals to found a story, on both
sides of a split, and the larger part kept; the survivor of a merge is not
younger than the retired story and is never retired in the same plan. A free
choice includes choices the arithmetic would not make (a signal past the TTL in
one batch and not in the next), so a property that holds holds of the code; the
counterexamples of section 4 were read against the code step by step. The
record reads of one collection are one step: each signal's record is read once,
and reads of different signals commute. Suppressed, Dormant and Active are one
state here, `open`, as placement does not tell them apart. What is left of
`Suppress` and `Unsuppress` is that they open a story again that a batch has
archived and an `Ingest` call then made look alive; the rest of what they do is in
`StoryLifecycle`. All facets have one
dimension: what the batch skips when it finds another (`batch.go:210-213`) it
leaves where it is, and what a dimension goes through is in `Calibration`.

### ApplyWindow

State, against the code: `at[c]`, `sig[c]` are where an `Ingest` call is and the
signal it carries (a call that is not `idle` holds `closeMu` for reading);
`dim`, `applyInProgress`, `ingestBuffer` are the fields of `Tracker`; `phase` is
where `runBatch` is, `hand` the signal the drain has received; `closing` is
where `Close` is: `stopping` while it waits for cron, `locking` while it waits
for `closeMu` (a waiting writer keeps new readers out), `closed`. `accepted` are
the signals whose call returned without an error, `stored` those a transaction
has stored, `reported` those `OnBatchError` got: they record what happened, and
only the first guards an action (a signal is offered again only after an error).

`Enter` is `Ingest` up to the match: `closeMu`, `closed`, the dimension, the
zero embedding, in the code's order. `ReadFlag` and what follows it are separate
steps, as in the code. `Store`, `StoreFails`, `Send`, `Cancel` end the call.
`EndWindow` leaves from the window, and from before it, as the deferred call of
`runBatch` does after a failed collection or a panic. (Cron does not recover the
panic, so the process ends after the deferred drain; the behaviours of the model
go on, which adds behaviours and takes none away.) `runBatch` drains twice, after
the apply and at its end: `phase` is `drain` from the first to the last. The
drained `Ingest` goes through `closeMu` and the flag too (`DrainIngest`).
Not in the model: `runBatch` panicking inside the drain, which would lose the
signal in hand; a restart, which starts the model again with an empty buffer.

### StoryLifecycle

State, against the code:

| Variable | Code |
|---|---|
| `meta[S]`, `hot[S]` | `State` and `WasSuppressed` of `s:S:m`, `State` of `s:S:h` |
| `index[S]` | the state of `S` in `Tracker.storyIndex` |
| `call[c]` | an `Ingest` call: the story it matched, in the state it saw; then its patch |
| `client[k]` | a `Suppress` or `Unsuppress` that has committed and has to patch |
| `phase, stories, members, merged` | where `runBatch` is; locals of `applyMaintenance` |
| `built` | the index `buildActiveStoryIndex` returned, before it is swapped in |
| `asked` | not in the code: the stories whose suppression has been asked for, and ended by no `Unsuppress`, merge or archive window |
| `overlap` | not in the code: what the clients of this behaviour may overlap |

`Suppress` and `Unsuppress` are the transactions, `PatchState` the patch of the
index after them. `IngestMatch` reads the index, `IngestCommit` makes the hot
write, `IngestPatch` patches a reactivation, `IngestLeaves` is every other way
out. `Collect`, `FoundStory` (a promotion or the child of a split),
`MergeStories` and `CommitApply` (the sweep of `recentreStory`) are the batch in
its order; `BuildIndex` and `SwapIndex` are apart, as a patch in between is lost.
`BatchFails` is an error before the commit or in the rebuild.

Abstractions. An `Ingest` call touches one story; one that touches several
does to each of them the same in one transaction. A story's age (`fresh`,
`silent`, `expired`) is what the sweeper finds comparing its newest signal with
`SilenceWindow` and `ArchiveWindow`, a free choice in each batch. Which stories
form and merge is free, under what `PlanMerges` guarantees: a survivor is not
retired and not younger. Events, the reason text, timestamps and statistics are
left out, and so is the time index, which no code reads.

`overlap` says what may run between the start and the end of a `Suppress` or
`Unsuppress`: `Ingest` calls, other clients, a batch. The code excludes none of
these, and what it keeps depends on which of them happen, so the properties say
under which they hold. What `ViewsAgree` says of readers it says of `Story`;
`Stories` lists the state of the record alone (`query.go:47-59`).

### EventFanout

State, against the code: `queue[r]` is a subscriber's channel, `subs` and
`closed` are the fields of `Tracker`; `sub[r]` is where a `Subscribe` call is and
what became of its channel; `writer` is who holds or awaits `subMu` for writing
(a waiting writer keeps new readers out); `at[e]`, `todo[e]` are where an
emitter is and the subscribers its loop has still to serve. `missed` and
`overlap` record what happened and which behaviours are meant.

`EnterEmit` takes the read lock, `Send`, `Overflows`, `Pop` and `Mark` are the
cases of the three selects, each a step of its own, as other emitters and the
subscriber may act between them; `LeaveEmit` gives the lock back. `Subscribe`
and `Close` each take the lock in one step and act in the next. `Receive` is the
subscriber; `queue` goes on being readable after `Close`. Events are not told
apart. The rest of `Close` is in `ApplyWindow`.

### Calibration

State, against the code: `dim`, `mean`, `last` are fields of `Tracker`, `saved`
is `c:state`, `record[S]` and `index[S]` the geometry of a story's centroids in
`s:S:m` and in memory. A mean is the set of signals it was measured over, and
a geometry is a mean; equal sets have equal means, which is all the properties
ask. `home` and `at` are the signals' places and timestamps, `view`, `evict` and
`now` locals of the batch. `behind`, `unsaved` and `corpus` record failures and
an early restart.

`Collect` computes eviction and mean from one scan; `Publish` is the assignment
in memory inside the transaction, before the actions that end it: `Commit` (with
the regrouping and recentring before it in the transaction, whose result is the
same) or `CommitFails`, which does not take the assignment back.
`Rebuild` or `RebuildFails` swaps the index or leaves it. `IngestFails` is every
refusal after the dimension is fixed. `Restart` is also the outcome of a batch
that panics over facets of two lengths, possible only while no dimension is set.
Clustering is free but for the dimension: a facet never joins a story of another
length. Splits and merges change no geometry and are left out, as are sigma and
the thresholds computed from it.

### Clustering and Maintenance

`Clustering` is `internal/cluster` with its tie-breaks, iteration orders and
early exits: `Extend`, `CompactToRadius`, `GroupAt` and `Groups` are the loops of
`Grow`; `TwoMedoids`, `Sides`, `Parts`, `MayDivide`, `Apart` and `Division` are `Split`; `Clique`,
`Cliques`, `CompactMergeGroup`, `Survivor` and `MergePlan` are `PlanMerges`. The
branch of `Cliques` that retires a seed is not there: with the size of two that
`PlanMerges` passes, a seed with a neighbour always has a group. Loops are
recursive functions or folds, which the prover takes, and no recursive operators.

A facet is a number in the order of `less` and lies on a line. Embeddings are
unit vectors; at the small angles stories live at, the cosine distance of two of
them in a plane is proportional to the square of their angle, so the distance
here is the square of the difference, which like cosine distance is no metric.
`MaxAngularSeparation` is `4r`, of which the code's `4r - 2r*r` is the curved
form. Places are multiples of the sizes a group can have, so centroids are exact.

`Maintenance` runs the whole pass of `applyMaintenance` in one step, with all
decisions exact: `Promoted`, `Admitted`, `AllDivided`, then `Merge` with the
`MergePlan` and the index rebuilt from what it leaves. `Ingest` drafts against the index.
`created` are ranks, as only their order is used. A story's ID is a hash of its
founders: the orders new IDs may have are a constant. It is the counterpart of
`FacetPlacement`: that leaves decisions free and interleaves everything, this
computes them and interleaves nothing. The size rules and the survivor rule
that `FacetPlacement` and `StoryLifecycle` assume of the decisions are what
`StoriesOfMany` and `RetiredIntoOlder` say. Its IDs are assumed not to run out
(`EnoughStories`: as many as groups of `MinStorySize` signals fit into the
facets; the code's are hashes of 128 bits), and the radius within
which a story takes a facet in is at most the assignment threshold, as
`clampAssign` makes it. It is a variable, `reach`: stories are below
`ColdStartMinSignals`, so that it is the same for all of them, and as
`sigmaGlobal` is a moving average, each pass ends with any of `Reaches`, also over
unchanged data. Nothing ages and the mean does not move.

## 3. What is checked

| Run | Question | Properties |
|---|---|---|
| `placement_once` | signals delivered once; two callers, batches, failures, restarts | `TypeOK`, `MarkersIndexed`, `RecordsHeld`, `ViewCurrent`, `NoEmptyStory`, `MergeMigratesAll`, `MembershipStable` |
| `placement_redelivered` | signals delivered again at any moment, one unchanged, one with fewer or more facets | `LocBacked`, `RecordHasMarker`, `DraftNeverRevises`, `RecordOutlives` |
| `apply_window` | three callers, a buffer of three, batches that commit, fail or panic, a store that fails, `Close` at any moment | `TypeOK`, `NothingAfterClose`, `AcceptedInOnePlace`, `SameDimension`, `LateCallsHaveRoom`, `CallsReturn`, `CloseReturns`, `AcceptedSettles` |
| `lifecycle` | clients, an `Ingest` caller and batches; clients overlap nothing, or `Ingest` calls and each other | `TypeOK`, `SuppressionStands`, `SuppressionExact`, `ViewsAgree`, `FlagKept`, `MergeKeepsHistory` |
| `events` | two emitters, two subscribers that may read or not, `Subscribe` and `Close` at any moment | `TypeOK`, `NeverSendClosed`, `NoneLeftOpen`, `LossMarked`, `CallsReturn` |
| `calibration` | batches that commit, fail before or at the commit, fail to rebuild; restarts; signals of two dimensions | `TypeOK`, `StoreInOneGeometry`, `LookupsAgree`, `OneDimension`, `NoMassEviction` |
| `maintenance` | signals anywhere, drafts and passes in any order | `StoriesOfMany`, `GroupsCompact`, `GatesMissNothing`, `NothingUndone`, `RetiredIntoOlder` |

Bounds of the placement runs. Two facets per signal and `MinStorySize` 2 are the least for a partly
placed signal and for a group. Three signals and three stories let a story be
promoted, admitted to, split, and merged with a third while a call is in flight
(a split needs two signals on each side, and a signal may be on both).
Re-deliveries multiply the states, so `placement_redelivered` has two signals,
of which one changes shape, and one caller. There is no bound on the number of batches, deliveries or restarts: the
state spaces are finite and explored completely. Callers, signals and stories
are symmetric; where signals differ in shape only the stories are. All runs
check for deadlock. The placement runs assume no fairness: their properties are
safety.

Bounds of `apply_window`. As many callers as the buffer holds is the limit case
of `LateCallsHaveRoom`; six signals (two of another dimension, one of them with
norm zero) fill the buffer, leave a caller blocked on it and one on the direct
path. Signals are accepted once, so there are finitely many acceptances;
batches, failures and refusals are unbounded.

Fairness of `apply_window`. Weak fairness of every step of the batch goroutine
and of `Close`, of a call reading the flag, and of a store call ending one way or
the other: the Go scheduler runs a goroutine that can run, and the store answers.
Weak fairness of `Tick`: cron fires again until it is stopped. Strong fairness of
`Send`: a channel serves blocked senders in order. None of a call being made, a
context ending, `Close` being called or a store call succeeding.

Bounds of `lifecycle`. Two stories, for a merge and for a story that is only
swept; two clients, for two calls about one story that patch in the other order;
one `Ingest` caller, as one in flight is enough to be stale. Stories, clients and
callers are symmetric. Batches, calls, failures and restarts are unbounded. A
third story, with which a survivor absorbs two in one batch, exists only where no
client overlaps anything and no call is in flight (the constraint
`ThirdForMerges`): merges are not affected by what else happens to a story.
`MergesRemember` (section 5) proves their property for any number of stories.

Bounds of `events`. A channel of depth two can hold an event and a marker; two
emitters and two subscribers are enough for every race of two. Emissions and
reads are unbounded. Fairness: weak for every step of an emitter and for the
writer that holds its turn, as the scheduler runs what can run; strong for a
`Subscribe` taking its turn at `subMu`, which other writers may take first, as a
mutex starves nobody. None of a subscriber reading, and none of anybody emitting, subscribing or
closing: that calls return whoever reads is the point.

Bounds of `calibration`. Three signals, one of another dimension, two stories,
a clock of three ticks and a TTL of one, so that a signal can expire before, at and after a
batch that was paused. Batches, failures and restarts are unbounded. No
fairness: its properties are safety.

Bounds of `maintenance`. Five facets of four signals, one with two, on six
places; the thresholds are 8 : 9 : 11, near the defaults of 0.40, 0.50 and
0.55; `MinStorySize` 2; one order of new IDs, which come before those of older stories
or after them; two radii of admission, two places and
three, of which every pass may end with either. In it promotions, compactions
that drop a member, groups with too few signals, admissions, splits, splits
that are declined past the gate, merges, and passes that change what the last
one left all happen. The passes are unbounded. No fairness: nobody has to
deliver anything, and what is said of passes holds however seldom they run.

What the runs show: for signals delivered once, the component keeps every
promise above, whatever the interleaving. With re-deliveries of an unchanged
signal two of them are lost (`OneHome` and with it `MarkersIndexed`,
`ViewCurrent`), but no payload is, and no placement is overwritten. For a signal
that changes shape `RecordOutlives` claims nothing: section 4, `two_homes`.

The window loses no accepted signal in silence while the tracker is open, even
one sent after the drain has passed: the next batch takes it (`AcceptedSettles`).
Every call returns, and so does `Close`, as long as no more goroutines call
`Ingest` at a time than the buffer holds (`IngestBufferCap`, by default 10,000).
Beyond that the result is lost: after the last drain, with cron stopped, one
late call more than the buffer has room for blocks with a context that does not
end, holds `closeMu`, and `Close` waits for it for ever.

A suppression stands whatever batches, failures, restarts, `Ingest` calls and
other clients do, as long as no batch runs beside the `Suppress` itself. Where
nothing overlaps it, it also ends when it should, and every view agrees. With an
`Ingest` call in flight, or two clients on one story, hot record and index may
say something else than the record: an `Ingest` call that saw the story active
writes Active into the hot record after the `Suppress`; readers then see an
active story, and an `Unsuppress` finds nothing to undo, so that the next batch
suppresses the story for good. `SuppressionExact` and `ViewsAgree` claim nothing
of those behaviours.

Where emissions do not overlap, a subscriber that has lost an event finds a
marker, though every further overflow throws out the oldest entry, be it a
marker. Where they do, one emitter may fill the slot another has freed for
its marker, and the loss is silent: the comment at `emit` says so, the README's
"visibly rather than silently" (`README.md:282`) does not. `LossMarked` claims
nothing of those behaviours.

The geometry in the store is one at every moment, and so is the one in memory
between runs, except after a run whose commit or rebuild has failed: the mean
published in memory is then around while the index holds centroids of the mean
before, until a run succeeds, though the comment at `maintain.go:455-460` says
never. A failed commit also moves the eviction reference (`maintain.go:474`); a
corpus whose dimension no batch has saved when the process restarts may end up
with two. `LookupsAgree`, `NoMassEviction` and `OneDimension` name these
exceptions and hold without any other.

Passes do not undo each other: over unchanged data what a pass has joined stays
joined and what it has cut stays cut. They do change things (`rerun`).

## 4. Where code and documents disagree

| Run | Shows |
|---|---|
| `stale_index` | An `Ingest` call matches story A; a batch merges A into B, commits; the call commits its marker under A. A has no record: `Stories` does not list it, no later batch collects it, and a further delivery is a no-op because the index says the signal is placed. A buffered signal needs no race: the drain runs before the index is swapped (`batch.go:77-92`), so it is matched against the stories of before the batch. `query_test.go:150-153` asserts the opposite of every record, `DESIGN.md:281-284` expects the next pass to correct a draft. |
| `two_homes` | A signal is held as an outlier. A batch collects it; before the apply the signal is delivered again and now matches story A; the batch promotes the facet it believes an outlier into B. The facet is under A and under B (`record.go:305`). It is not harmless: a shorter re-delivery that removes the home the index names, and an eviction of the rest, then delete the record under the marker that stays, as `gcCanonicalSignal` (`record.go:436-443`) trusts the index for story markers. |
| `late_enqueue` | A call reads the flag in the window; the batch ends and its drain finds the buffer empty; the call sends and returns without an error. `Close` has stopped cron: nothing drains any more, and the accepted signal is lost without the process dying, the only way `README.md:281` allows for. |
| `lost_suppression` | A batch has collected an active story; `Suppress` commits and returns; the apply writes back what was collected. Suppression, flag and reason are gone; `maintain.go:545-546` names the ways a suppression ends, and this is none of them. |
| `rerun` | A pass promotes a group of outliers and admits another one into the new story; admission measures its anchors before it admits (`maintain.go:318`), so the story's centroid moves after it, and the next pass over the same signals admits one this pass refused. `README.md:14-15` says "a re-run over unchanged data changes nothing"; `DESIGN.md:435-441` is more careful and admits one extra pass until the statistics settle. The run has one radius, so that what it shows is the effect of admission alone. |

## 5. What is proved

For all values of the constants under `ConstantsAssumption` (at least one
facet and one signal per story, finitely many signals, the special places
distinct from stories); `config.go:254-259` enforces the numbers.

- `TypeCorrect`: `Spec => []TypeOK`.
- `LocationBacked`: `Spec => []LocBacked`. Inductive with `TypeOK`: a move
  repoints exactly the entries of the facets it moves (`MoveBacked`).
- `RecordsReferred`: `Spec => []RecordHasMarker`. Inductive with `LocBacked`: a
  record has an index entry (`RecordIndexed`), as the last one goes only with
  the record, and an index entry has a marker.
- `MergeComplete`: `Spec => MergeMigratesAll`.
- `DeliveredOnce`, with `Redeliver = FALSE`: `Spec => []DeliveredOnceInv`.
  `MarkersIndexed` and `RecordsHeld` are not inductive alone. A commit adds
  markers blindly, so it must be known that nothing of its signal is in the
  store (`UnknownUntilCommitted`, where two calls about one signal are excluded);
  a move takes a facet from the place the view names, so the view must be part
  of the store, without the evicted outliers (`ViewHeld`); and that a story with
  a record has members must hold in the middle of a transaction too
  (`Inhabited`, of archived stories too, which `Suppress` may open again). `DeliveredOnceSafe` draws the conclusions;
  `MarkersAreIndexed`, `ViewIsCurrent` and `StoriesInhabited` state the
  invariants of the run one by one.
- `MembershipIsStable`, with `Redeliver = FALSE`: `Spec => MembershipStable`.
  Under the invariants the home read from the markers is the location index
  (`HomeIsLoc`), and every step of the batch is a `Join`, `Split`, `Merge` or
  `Expire` of the abstract specification on it.

For `ApplyWindow`, for finitely many callers, any signals and any capacity, from
an inductive invariant in parts (`ApplyWindow_proofs`: `TypeOK`, `Carrying`,
`Calls`, `Goroutines`, `AcceptedInOnePlace`, `LateBounded`):

- `WindowTypeCorrect`: `Spec => []TypeOK`, with `Carrying` (a call has a signal
  exactly while it runs).
- `NothingRunsAfterClose`: `Spec => []NothingAfterClose`, from the order in which
  `Close` gets past the batch and the calls (`Goroutines`).
- `LateCallsNeverBlock`: `Spec => []LateCallsHaveRoom`. The invariant counts:
  outside the window and its drain, signals in the buffer and calls still to
  send are together never more than the callers (`LateBounded`), because the
  flag is clear and a send turns one of the second into one of the first.
- `AcceptedAccounted`: `Spec => []AcceptedInOnePlace`; needs that a call carries a
  signal nobody else has and nobody has accepted (`Calls`).
- `DimensionAgreed`: `Spec => []SameDimension`.

For `StoryLifecycle`, for any stories, callers and clients, from
`ConstantsAssumption` (`Absent` is no record and no state, `Idle` no call) and, but for the
first, `NeverBesideBatch` (no behaviour lets a client overlap a batch):

- `LifecycleTypeCorrect`: `Spec => []TypeOK`.
- `SuppressionHolds`: `Spec => []SuppressionStands`. The sweep writes from what
  was collected, so it must be known that what is collected of a story whose
  suppression stands is a suppression, unless a merge of this batch has ended it
  (`CollectedStands`).
- `FlagIsKept`: `Spec => FlagKept`; what the batch is going to write has the flag
  if the record has it (`Remembered`).
- `MergesRemember`: `Spec => MergeKeepsHistory`; a survivor stays among the
  stories with members, and has the flag of each story it absorbed so far
  (`Inherited`).
- `SuppressionEnds`: `Spec => []SuppressionExact`, and `SuppressionSeen`:
  `Spec => []ViewsAgree`. One invariant for both (`Exact`): nothing that carries
  a state on its way somewhere (the batch's map, a matched call, a client about
  to patch, the index just built) carries one that contradicts a standing
  suppression, and what was collected as suppressed stands.

For `EventFanout`, for finitely or infinitely many emitters and subscribers and
channels of any depth:

- `FanoutTypeCorrect`: `Spec => []TypeOK`; no channel exceeds its depth.
- `SendsOnOpenChannels`: `Spec => []NeverSendClosed`, and `ClosedForAll`:
  `Spec => []NoneLeftOpen`. The invariant says that what is subscribed is open
  and that a loop's rest is a part of what was subscribed: while an emitter is
  inside, `Close` is not.
- `LossesAreMarked`: `Spec => []LossMarked`. It must be known how much room the
  emitter has that is about to mark: without overlap nobody fills the slot it
  has freed.

For `Calibration`, for any signals, stories, dimensions and any bound on the
clock:

- `CalibrationTypeCorrect`: `Spec => []TypeOK`.
- `DimensionKept`: `Spec => []OneDimension`; until a batch has saved a dimension
  a corpus is `new`, and a restart of one with signals makes it `mixed`.
- `StoreAgrees`: `Spec => []StoreInOneGeometry`, with a batch's view containing
  the members of every open story: all of them are recentred around what it
  measures.
- `LookupsInOneGeometry`: `Spec => []LookupsAgree`.
- `PausesEvictNothing`: `Spec => NoMassEviction`; unless a commit has failed, the
  reference in memory is the saved one outside a transaction.

For `FacetPlacement` with re-deliveries, from the inductive invariant
`UnchangingInv`:

- `DraftsNeverRevise`: `Spec => DraftNeverRevises`, and `RecordsOutlive`:
  `Spec => RecordOutlives`, for signals that are always delivered with the same
  facets (`Unchanging`). `TypeOK` and `LocBacked` are not enough: that an `Ingest`
  of a known signal does not move a facet, and that the last index entry is not
  removed under a marker, needs that record and calls have its one facet count, so
  that nothing is reconciled (`KeepsFacets`), and that a facet of it some story
  holds is indexed under a story, though with the two homes of `two_homes` perhaps
  another one, and is no outlier beside it (`PlacedIsIndexed`). `UnchangingKnown` proves `Spec => []UnchangingInv`.

For `Clustering`, for any finite set of facets, any places (multiples of `Unit`),
owners, timestamps and thresholds with `MergeThreshold` below the other two, as
`Config.validate` has them:

- `GrowStands`: the groups of `Grow` are disjoint, of the facets given, of
  `MinStorySize` signals each and within the radius.
- `DivisionParts`: what `Split` divides it divides into two parts that are all of
  the group and share nothing, of `MinStorySize` signals each, the kept one not
  the smaller.
- `GatesSound`: no cut of a group that fails a gate has its centroids further
  apart than `SplitThreshold`. The centroid of a part lies between its members,
  so two are no further apart than twice the greatest distance from the centre
  (`CentroidBetween`, `SquareOfSum`).
- `MergedStayWhole`: what is left of a clique is none, or at least two of its
  stories, whose union `Split` would leave whole.
- `MergePlanOldest`: every story becomes itself or one that is not younger, and
  what others become stays itself.

They need to know what a loop computes that runs over data of any size. Each
loop is a recursive function with a measure that falls (the free facets, the
members left, the rounds), over a domain (sequences of facets) that may be
infinite. `LeastNatural` is the least element of a set of naturals;
`MeasureInduction` follows from it, with the property as a set of arguments
instead of an operator parameter; `MeasureRecursion`, that such a definition has
a solution and so the `CHOOSE` behind it satisfies its own equation;
`FoldSolution` the same for `FoldLeft`. The rest are lemmas about what the
sequence operators leave in a group.

For `Maintenance`, for any facets, places, stories and orders of IDs:

- `StoriesStayOfMany`: `Spec => []StoriesOfMany`. It is inductive. Each step of a
  pass takes the members of the stories to new ones and keeps `Storied`, stories
  of many signals each that share no facet, and `Continues`: each story of before
  is still there, what it holds it held or were outliers, and no facet a story
  held is without one. A pass never runs out of IDs: stories that share no facet take `MinStorySize` facets
  each (`RoomForOne`, `RoomForAll`).
- `GroupsStayCompact`: `Spec => []GroupsCompact` and `GatesNeverMiss`:
  `Spec => []GatesMissNothing`, from the theorems of `Clustering`.
- `RetiresIntoOlder`: `Spec => RetiredIntoOlder`: new stories rank last
  (`RanksFollowAge`), and `MergePlanOldest`. With the first it justifies what
  `FacetPlacement` and `StoryLifecycle` assume of decisions they leave free.

Only model-checked: `NothingUndone`, which compares two passes and is not
claimed for all instances: which two parts `Split` finds depends on more than the
thresholds (the order of the members, ten rounds at most), so that it is a
question of the places, which TLC puts at every choice of the instance. On a line fewer groups are
ambiguous than in the space of the code, so that what it says of the code is
evidence and no more. And the
liveness of `ApplyWindow` (`CallsReturn`, `CloseReturns`, `AcceptedSettles`) and of
`EventFanout` (`CallsReturn`), which is out of the prover's reach.

## 6. Not modelled

- Floating-point geometry (projection, the deviation, sigma, the threshold
  formulas) and its assembly kernels: arithmetic a model checker cannot explore.
- Key and CBOR encodings: keys are tuples here, records are records.
- The store backends, which belong to the caller: what is assumed of them is
  that a transaction is atomic and alone, and a single read atomic.
- The iterators of `query.go`, which only read and collect before they yield,
  and the time index, which no code reads.
- The order of events: each is emitted after its transaction, without a lock
  (`suppress.go:56`), and no document promises an order.
- Callbacks: `OnBatchError` runs on the batch goroutine, and one that calls
  `Close` would wait for itself (`config.go:157` says it must not block).

What would come next: `Maintenance` with a mean that moves and signals that age;
an abstract specification of a story's life that the record refines.
