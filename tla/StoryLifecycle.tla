--------------------------- MODULE StoryLifecycle ---------------------------
(***************************************************************************)
(* The life of a story: its state in the batch-owned record (s:S:m), in    *)
(* the hot record (s:S:h) that Ingest writes and readers overlay, and in   *)
(* the in-memory index that Ingest matches against, under Suppress,        *)
(* Unsuppress, Ingest and the batch (suppress.go, ingest.go, maintain.go,  *)
(* record.go, index.go).                                                   *)
(*                                                                         *)
(* Which stories form and merge, and how old their newest signal is when   *)
(* a batch looks, are free choices.  The section Faults is no part of the  *)
(* model: each of its definitions is one of the model's with a plausible   *)
(* mistake in it.                                                          *)
(***************************************************************************)
EXTENDS FiniteSets

CONSTANTS
    Stories,
    Callers,        \* goroutines that call Ingest
    Clients,        \* goroutines that call Suppress and Unsuppress
    Absent,         \* no record
    Idle,           \* no call
    Overlaps        \* the overlaps of which one behaviour allows one

VARIABLES
    meta,           \* meta[S]: State and WasSuppressed of s:S:m
    hot,            \* hot[S]: State of s:S:h
    index,          \* index[S]: the state in Tracker.storyIndex
    call,           \* call[c]: an Ingest call, between its steps
    client,         \* client[k]: a Suppress or Unsuppress that has to patch
    phase,          \* where runBatch is
    stories,        \* the map applyMaintenance decides on
    members,        \* the stories with members in this batch
    merged,         \* the merges of this batch, as <<survivor, retired>>
    built,          \* the index built after the commit
    asked,          \* stories whose suppression was asked for and not ended
    overlap         \* what Suppress and Unsuppress may run alongside of

vars == <<meta, hot, index, call, client, phase, stories, members, merged,
          built, asked, overlap>>
storeVars == <<meta, hot>>
batchVars == <<phase, stories, members, merged, built>>

States == {"active", "dormant", "suppressed", "archived"}
Record == [state : States, was : BOOLEAN]
Ages   == {"fresh", "silent", "expired"}

ASSUME ConstantsAssumption ==
    /\ Overlaps \subseteq SUBSET {"ingest", "client", "batch"}
    /\ Absent \notin States \cup Record
    /\ Idle \notin [story : Stories, state : States]

NoStories == [S \in Stories |-> Absent]

Busy(calls)   == {p \in DOMAIN calls : calls[p] # Idle}
Exists(S)     == meta[S] # Absent
Suppressed(S) == Exists(S) /\ meta[S].state = "suppressed"

---------------------------------------------------------------------------
(* Faults.                                                                 *)

\* The sweeper judging a story by its newest signal alone.
SweptByAge(prev, age) == CASE age = "expired" -> "archived"
                           [] age = "silent"  -> "dormant"
                           [] OTHER           -> "active"

\* A merge that leaves the survivor's record as it is.
MergeUntouched(s, r) == s

\* A merge that looks at the survivor's history only.
MergeOwnHistory(s, r) ==
    IF s # Absent /\ (s.state = "suppressed" \/ s.was)
      THEN [state |-> "active", was |-> TRUE] ELSE s

\* Unsuppress clearing the flag too.
ClearedHistory(rec) == [state |-> "active", was |-> FALSE]

\* Suppress and Unsuppress leaving the index to the next batch.
PatchedNever(i, S, st) == i

\* An index of every story.
StoredIndexAll == [S \in Stories |-> IF Exists(S) THEN meta[S].state ELSE Absent]

---------------------------------------------------------------------------
(* Reading.                                                                *)

\* readStoryRecord: the hot state, if there is one, overlays the record's.
Overlay(S) == IF hot[S] = Absent THEN meta[S].state ELSE hot[S]

\* buildActiveStoryIndex.
StoredIndex ==
    [S \in Stories |-> IF Exists(S) /\ Overlay(S) # "archived"
                         THEN Overlay(S) ELSE Absent]

\* patchStoryIndexState, and what patchStoryIndex does to the state.
Patched(i, S, st) ==
    IF i[S] = Absent THEN i ELSE [i EXCEPT ![S] = st]

---------------------------------------------------------------------------
(* Suppress and Unsuppress.                                                *)

\* The store grants no second write transaction.
TxOpen == phase = "apply"

\* Only what overlap names runs between the start and the end of the call.
MaySuppress ==
    /\ "ingest" \notin overlap => Busy(call) = {}
    /\ "client" \notin overlap => Busy(client) = {}
    /\ "batch" \notin overlap => phase = "idle"
    /\ ~TxOpen

Suppress(k, S) ==
    /\ client[k] = Idle /\ MaySuppress
    /\ Exists(S) /\ Overlay(S) # "archived"
    /\ meta' = [meta EXCEPT ![S] = [state |-> "suppressed", was |-> TRUE]]
    /\ hot' = [hot EXCEPT ![S] = "suppressed"]
    /\ client' = [client EXCEPT ![k] = [story |-> S, state |-> "suppressed"]]
    /\ asked' = asked \cup {S}
    /\ UNCHANGED <<batchVars, index, call, overlap>>

\* What Unsuppress makes of the record: the history stays.
Unsuppressed(rec) == [rec EXCEPT !.state = "active"]

Unsuppress(k, S) ==
    /\ client[k] = Idle /\ MaySuppress
    /\ Exists(S)
    /\ IF Overlay(S) = "suppressed"
         THEN /\ meta' = [meta EXCEPT ![S] = Unsuppressed(@)]
              /\ hot' = [hot EXCEPT ![S] = "active"]
              /\ client' = [client EXCEPT ![k] = [story |-> S, state |-> "active"]]
         ELSE UNCHANGED <<storeVars, client>>
    /\ asked' = asked \ {S}
    /\ UNCHANGED <<batchVars, index, call, overlap>>

\* After the transaction, and outside of it, the index is patched.
PatchState(k) ==
    /\ client[k] # Idle
    /\ index' = Patched(index, client[k].story, client[k].state)
    /\ client' = [client EXCEPT ![k] = Idle]
    /\ UNCHANGED <<storeVars, batchVars, call, asked, overlap>>

---------------------------------------------------------------------------
(* Ingest.                                                                 *)

IngestMatch(c, S) ==
    /\ call[c] = Idle /\ index[S] \notin {Absent, "archived"}
    /\ "ingest" \notin overlap => Busy(client) = {}
    /\ call' = [call EXCEPT ![c] = [at |-> "matched", story |-> S,
                                    state |-> index[S]]]
    /\ UNCHANGED <<storeVars, batchVars, index, client, asked, overlap>>

\* The hot write: the state seen when matching, or a reactivation.
IngestCommit(c) ==
    /\ call[c] # Idle /\ call[c].at = "matched" /\ ~TxOpen
    /\ LET reactivated == call[c].state = "dormant" IN
       /\ hot' = [hot EXCEPT ![call[c].story] =
                     IF reactivated THEN "active" ELSE call[c].state]
       /\ call' = [call EXCEPT ![c] =
                     IF reactivated THEN [@ EXCEPT !.at = "patching"] ELSE Idle]
    /\ UNCHANGED <<batchVars, meta, index, client, asked, overlap>>

\* A duplicate, an error, or a signal sent to the buffer writes nothing.
IngestLeaves(c) ==
    /\ call[c] # Idle /\ call[c].at = "matched"
    /\ call' = [call EXCEPT ![c] = Idle]
    /\ UNCHANGED <<storeVars, batchVars, index, client, asked, overlap>>

IngestPatch(c) ==
    /\ call[c] # Idle /\ call[c].at = "patching"
    /\ index' = Patched(index, call[c].story, "active")
    /\ call' = [call EXCEPT ![c] = Idle]
    /\ UNCHANGED <<storeVars, batchVars, client, asked, overlap>>

---------------------------------------------------------------------------
(* The batch.                                                              *)

\* The locals of applyMaintenance are gone when it returns.
Forget == stories' = NoStories /\ members' = {} /\ merged' = {}

\* collectStories reads the records, without the hot ones.  A story whose
\* last facet was dropped has a record and no members.
Collect ==
    /\ phase = "idle" /\ phase' = "collected"
    /\ stories' = [S \in Stories |->
                     IF Exists(S) /\ meta[S].state # "archived"
                       THEN meta[S] ELSE Absent]
    /\ members' \in SUBSET {S \in Stories : stories'[S] # Absent}
    /\ merged' = {}
    /\ UNCHANGED <<storeVars, index, call, client, built, asked, overlap>>

BeginApply ==
    /\ phase = "collected" /\ phase' = "apply"
    /\ UNCHANGED <<storeVars, index, call, client, stories, members, merged,
                   built, asked, overlap>>

\* An ID nothing in the system knows of.
Fresh(S) ==
    /\ ~Exists(S) /\ hot[S] = Absent /\ index[S] = Absent /\ S \notin members
    /\ S \notin {call[c].story : c \in Busy(call)}
    /\ S \notin {client[k].story : k \in Busy(client)}

\* A promotion or a split founds a story.
FoundStory(S) ==
    /\ TxOpen /\ merged = {} /\ Fresh(S)
    /\ members' = members \cup {S}
    /\ UNCHANGED <<storeVars, index, call, client, phase, stories, merged,
                   built, asked, overlap>>

\* A merge ends a suppression on either side and keeps its history.
Merged(s, r) ==
    LET Marked(rec) == rec # Absent /\ (rec.state = "suppressed" \/ rec.was)
    IN IF s # Absent /\ (Marked(s) \/ Marked(r))
         THEN [state |-> "active", was |-> TRUE] ELSE s

\* The survivor is not younger than the retired story, and is not retired.
MergeStories(S, R) ==
    /\ TxOpen /\ S \in members /\ R \in members /\ S # R
    /\ stories[S] = Absent => stories[R] = Absent
    /\ \A m \in merged : m[1] # R
    /\ stories' = [stories EXCEPT ![S] = Merged(@, stories[R]), ![R] = Absent]
    /\ members' = members \ {R}
    /\ merged' = merged \cup {<<S, R>>}
    /\ UNCHANGED <<storeVars, index, call, client, phase, built, asked, overlap>>

\* recentreStory's lifecycle switch.
Swept(prev, age) ==
    CASE age = "expired" -> "archived"
      [] age # "expired" /\ prev # Absent /\ prev.state = "suppressed"
            -> "suppressed"
      [] age = "silent" /\ (prev = Absent \/ prev.state # "suppressed")
            -> "dormant"
      [] OTHER -> "active"

\* recentreStory writes both records of every story with members, from what
\* was collected; the merges' deletions commit with them.
CommitApply(age) ==
    LET retired == {m[2] : m \in merged}
        state   == [S \in members |-> Swept(stories[S], age[S])]
    IN
    /\ TxOpen /\ phase' = "committed"
    /\ meta' = [S \in Stories |->
                  IF S \in members
                    THEN [state |-> state[S],
                          was   |-> stories[S] # Absent /\ stories[S].was]
                    ELSE IF S \in retired THEN Absent ELSE meta[S]]
    /\ hot' = [S \in Stories |->
                  IF S \in members THEN state[S]
                    ELSE IF S \in retired THEN Absent ELSE hot[S]]
    /\ asked' = asked \ ({m[1] : m \in merged} \cup retired
                           \cup {S \in members : state[S] = "archived"})
    /\ Forget
    /\ UNCHANGED <<index, call, client, built, overlap>>

BatchFails ==
    /\ phase \in {"collected", "apply", "committed"} /\ phase' = "idle"
    /\ Forget /\ built' = NoStories
    /\ UNCHANGED <<storeVars, index, call, client, asked, overlap>>

\* The index is built from the store, and then swapped in.
BuildIndex ==
    /\ phase = "committed" /\ phase' = "built"
    /\ built' = StoredIndex
    /\ UNCHANGED <<storeVars, index, call, client, stories, members, merged,
                   asked, overlap>>

SwapIndex ==
    /\ phase = "built" /\ phase' = "idle"
    /\ index' = built /\ built' = NoStories
    /\ UNCHANGED <<storeVars, call, client, stories, members, merged, asked,
                   overlap>>

\* A crash, and NewTracker on the store it left.
Restart ==
    /\ index' = StoredIndex
    /\ call' = [c \in Callers |-> Idle] /\ client' = [k \in Clients |-> Idle]
    /\ phase' = "idle" /\ Forget /\ built' = NoStories
    /\ UNCHANGED <<storeVars, asked, overlap>>

---------------------------------------------------------------------------
Init ==
    /\ meta = NoStories /\ hot = NoStories /\ index = NoStories
    /\ call = [c \in Callers |-> Idle] /\ client = [k \in Clients |-> Idle]
    /\ phase = "idle"
    /\ stories = NoStories /\ members = {} /\ merged = {} /\ built = NoStories
    /\ asked = {}
    /\ overlap \in Overlaps

Client(k) == \E S \in Stories : Suppress(k, S) \/ Unsuppress(k, S)

Ingest(c) == \/ \E S \in Stories : IngestMatch(c, S)
             \/ IngestCommit(c) \/ IngestLeaves(c) \/ IngestPatch(c)

Batch == \/ Collect \/ BeginApply
         \/ \E S \in Stories : FoundStory(S)
         \/ \E S, R \in Stories : MergeStories(S, R)
         \/ \E age \in [members -> Ages] : CommitApply(age)
         \/ BatchFails \/ BuildIndex \/ SwapIndex

Next == \/ \E k \in Clients : Client(k) \/ PatchState(k)
        \/ \E c \in Callers : Ingest(c)
        \/ Batch \/ Restart

Spec == Init /\ [][Next]_vars

---------------------------------------------------------------------------
(* Type correctness.                                                       *)
TypeOK ==
    /\ meta \in [Stories -> Record \cup {Absent}]
    /\ hot \in [Stories -> States \cup {Absent}]
    /\ index \in [Stories -> (States \ {"archived"}) \cup {Absent}]
    /\ call \in [Callers -> [at : {"matched", "patching"}, story : Stories,
                             state : States \ {"archived"}] \cup {Idle}]
    /\ client \in [Clients -> [story : Stories, state : {"active", "suppressed"}]
                                \cup {Idle}]
    /\ phase \in {"idle", "collected", "apply", "committed", "built"}
    /\ stories \in [Stories -> Record \cup {Absent}]
    /\ members \subseteq Stories /\ merged \subseteq Stories \X Stories
    /\ built \in [Stories -> (States \ {"archived"}) \cup {Absent}]
    /\ asked \subseteq Stories
    /\ overlap \in Overlaps

(* maintain.go:545-549: "only the archive window and an explicit           *)
(* Unsuppress/merge clear" a suppression.  While none of these has come,   *)
(* the record of a story that was suppressed says so.                      *)
SuppressionStands == \A S \in asked : Suppressed(S)

(* If nothing overlaps Suppress and Unsuppress, a record says suppressed   *)
(* only where a suppression stands: Unsuppress and a merge take effect for *)
(* good.                                                                   *)
SuppressionExact ==
    overlap = {} => \A S \in Stories : Suppressed(S) => S \in asked

(* Then the hot record and, once patched, the index agree with the record  *)
(* of a suppressed story, whatever batches and Ingest calls do afterwards. *)
ViewsAgree ==
    overlap = {} =>
        \A S \in asked :
            /\ hot[S] = "suppressed"
            /\ Busy(client) = {} => index[S] \in {"suppressed", Absent}

(* types.go:120-122: WasSuppressed "is never cleared", for as long as the  *)
(* story exists.                                                           *)
FlagKept ==
    [][\A S \in Stories :
          Exists(S) /\ meta[S].was /\ Exists(S)' => meta'[S].was]_vars

(* A merge hands the history of the retired story on to the survivor,      *)
(* whichever other stories the survivor absorbs in the same batch.         *)
MergeKeepsHistory ==
    [][\A m \in merged :
          phase' = "committed" /\ Exists(m[2]) /\ meta[m[2]].was
              => Exists(m[1])' /\ meta'[m[1]].was]_vars
=============================================================================
