-------------------------- MODULE MCStoryLifecycle --------------------------
(* Small instances of StoryLifecycle for TLC.                              *)
EXTENDS StoryLifecycle, Naturals, TLC

\* Suppress and Unsuppress overlap nothing, or anything but a batch.
BesideIngest == {{}, {"ingest", "client"}}
BesideBatch  == {{"batch"}}

\* The IDs that something in the system knows of.
Known == {S \in Stories : Exists(S) \/ hot[S] # Absent \/ index[S] # Absent
                             \/ built[S] # Absent \/ S \in members}

\* A third story is there for a batch in which one absorbs two; where clients
\* overlap something or a call is in flight, two are enough.
ThirdForMerges == Cardinality(Known) > 2 => overlap = {} /\ Busy(call) = {}

Symmetry == Permutations(Stories) \cup Permutations(Callers)
                \cup Permutations(Clients)
=============================================================================
