---------------------------- MODULE ApplyWindow ----------------------------
(***************************************************************************)
(* The apply window: while a batch holds the write transaction, Ingest is  *)
(* redirected into a bounded in-memory buffer, which the batch goroutine   *)
(* empties afterwards, and Close shuts both of them out before it closes   *)
(* the store (ingest.go, batch.go, tracker.go).                            *)
(*                                                                         *)
(* Where a signal's facets are placed is the business of FacetPlacement:   *)
(* here a signal is accepted, waits, and is stored, or is not.  A signal   *)
(* is offered by one call at a time, and not again once it was accepted.   *)
(* The section Faults is no part of the model: each of its definitions is  *)
(* one of the model's with a plausible mistake in it.                      *)
(***************************************************************************)
EXTENDS Naturals, FiniteSets, Sequences

CONSTANTS
    Callers,            \* goroutines that call Ingest
    Signals,
    NoSignal,
    Dim,                \* Dim[s]: the length of the embeddings of s
    Zero,               \* the signals whose embeddings have norm zero
    IngestBufferCap

ASSUME ConstantsAssumption ==
    /\ IsFiniteSet(Callers)
    /\ NoSignal \notin Signals
    /\ Dim \in [Signals -> Nat \ {0}]
    /\ Zero \subseteq Signals
    /\ IngestBufferCap \in Nat \ {0}

VARIABLES
    at,                 \* at[c]: where the Ingest call of c is
    sig,                \* sig[c]: the signal it carries
    dim,                \* Tracker.dim, 0 while unset
    applyInProgress,
    ingestBuffer,
    phase,              \* where runBatch is
    hand,               \* the signal drainBuffer has received and not ingested
    closing,            \* where Close is
    accepted,           \* signals whose Ingest call returned without an error
    stored,             \* signals in the store
    reported            \* signals handed to OnBatchError by the drain

vars == <<at, sig, dim, applyInProgress, ingestBuffer, phase, hand, closing,
          accepted, stored, reported>>
callVars  == <<at, sig>>
batchVars == <<applyInProgress, phase, hand>>
fateVars  == <<accepted, stored, reported>>

Closed == closing = "closed"

---------------------------------------------------------------------------
(* Faults.                                                                 *)

\* An unbounded buffer.
RoomAlways == TRUE

\* The dimension left to be set when the call succeeds.
ClaimLater(d) == dim \in {0, d} /\ UNCHANGED dim

\* A drain that starts with the flag still set.
EndWindowFlagLeft ==
    /\ phase \in {"collect", "window"} /\ phase' = "drain"
    /\ UNCHANGED <<callVars, fateVars, dim, applyInProgress, ingestBuffer,
                   hand, closing>>

\* No drain.
EndWindowNoDrain ==
    /\ phase \in {"collect", "window"}
    /\ phase' = "idle" /\ applyInProgress' = FALSE
    /\ UNCHANGED <<callVars, fateVars, dim, ingestBuffer, hand, closing>>

\* The drain's error dropped.
DrainSwallows ==
    /\ phase = "drain" /\ hand # NoSignal /\ hand' = NoSignal
    /\ UNCHANGED <<callVars, fateVars, dim, applyInProgress, ingestBuffer,
                   phase, closing>>

\* A drain that does not go on until the buffer is empty.
DrainOnce ==
    /\ phase = "drain" /\ hand = NoSignal /\ phase' = "idle"
    /\ UNCHANGED <<callVars, fateVars, dim, applyInProgress, ingestBuffer,
                   hand, closing>>

\* Close going on while a batch runs.
BatchNotAwaited ==
    /\ closing = "stopping" /\ closing' = "locking"
    /\ UNCHANGED <<callVars, batchVars, fateVars, dim, ingestBuffer>>

---------------------------------------------------------------------------
\* RLock succeeds unless a writer holds closeMu or waits for it.
ReadLockFree == closing # "locking"

Senders  == {c \in Callers : at[c] = "sending"}
Buffered == {ingestBuffer[i] : i \in 1..Len(ingestBuffer)}
Room     == Len(ingestBuffer) < IngestBufferCap

---------------------------------------------------------------------------
(* Ingest.                                                                 *)

\* dim.CompareAndSwap(0, d), or else agreement with what is there.
Claim(d) == dim \in {0, d} /\ dim' = d

\* The call ends, with or without an error.
Return(c) == /\ at'  = [at  EXCEPT ![c] = "idle"]
             /\ sig' = [sig EXCEPT ![c] = NoSignal]

\* A call is let in past closeMu and fixes or matches the dimension.
Enter(c, s) ==
    /\ at[c] = "idle"
    /\ ReadLockFree /\ ~Closed
    /\ s \notin accepted /\ \A b \in Callers : sig[b] # s
    /\ Claim(Dim[s])
    /\ IF s \in Zero
         THEN UNCHANGED callVars        \* ErrZeroEmbedding
         ELSE /\ at'  = [at  EXCEPT ![c] = "entered"]
              /\ sig' = [sig EXCEPT ![c] = s]
    /\ UNCHANGED <<batchVars, fateVars, ingestBuffer, closing>>

\* A call that Close has overtaken, or of another dimension, gets an error.
Refuse(c, s) ==
    /\ at[c] = "idle" /\ ReadLockFree
    /\ Closed \/ dim \notin {0, Dim[s]}
    /\ UNCHANGED vars

ReadFlag(c) ==
    /\ at[c] = "entered"
    /\ at' = [at EXCEPT ![c] = IF applyInProgress THEN "sending" ELSE "direct"]
    /\ UNCHANGED <<batchVars, fateVars, sig, dim, ingestBuffer, closing>>

\* The store transaction; waiting for the store to grant it is part of it.
Store(c) ==
    /\ at[c] = "direct"
    /\ stored' = stored \cup {sig[c]}
    /\ accepted' = accepted \cup {sig[c]}
    /\ Return(c)
    /\ UNCHANGED <<batchVars, reported, dim, ingestBuffer, closing>>

StoreFails(c) ==
    /\ at[c] = "direct"
    /\ Return(c)
    /\ UNCHANGED <<batchVars, fateVars, dim, ingestBuffer, closing>>

Send(c) ==
    /\ at[c] = "sending" /\ Room
    /\ ingestBuffer' = Append(ingestBuffer, sig[c])
    /\ accepted' = accepted \cup {sig[c]}
    /\ Return(c)
    /\ UNCHANGED <<batchVars, stored, reported, dim, closing>>

\* The caller's context ends first.
Cancel(c) ==
    /\ at[c] = "sending"
    /\ Return(c)
    /\ UNCHANGED <<batchVars, fateVars, dim, ingestBuffer, closing>>

---------------------------------------------------------------------------
(* The batch goroutine.                                                    *)

\* Cron starts a run: never two at once, and none after cron.Stop.
Tick ==
    /\ phase = "idle" /\ closing = "open"
    /\ phase' = "collect"
    /\ UNCHANGED <<callVars, fateVars, dim, applyInProgress, ingestBuffer,
                   hand, closing>>

BeginWindow ==
    /\ phase = "collect"
    /\ phase' = "window" /\ applyInProgress' = TRUE
    /\ UNCHANGED <<callVars, fateVars, dim, ingestBuffer, hand, closing>>

\* The flag is cleared before the drain starts.  runBatchCore does it when the
\* apply has committed or failed, and the deferred call in runBatch does it
\* again: the only one after a failed collection or a panic.
EndWindow ==
    /\ phase \in {"collect", "window"}
    /\ phase' = "drain" /\ applyInProgress' = FALSE
    /\ UNCHANGED <<callVars, fateVars, dim, ingestBuffer, hand, closing>>

DrainReceive ==
    /\ phase = "drain" /\ hand = NoSignal /\ ingestBuffer # <<>>
    /\ hand' = Head(ingestBuffer) /\ ingestBuffer' = Tail(ingestBuffer)
    /\ UNCHANGED <<callVars, fateVars, dim, applyInProgress, phase, closing>>

\* The drain calls Ingest, which goes through closeMu and the flag like any
\* other call, with a context that never ends.
DrainIngest ==
    /\ phase = "drain" /\ hand # NoSignal
    /\ ReadLockFree /\ ~Closed
    /\ applyInProgress => Room
    /\ IF applyInProgress
         THEN ingestBuffer' = Append(ingestBuffer, hand) /\ UNCHANGED stored
         ELSE stored' = stored \cup {hand} /\ UNCHANGED ingestBuffer
    /\ hand' = NoSignal
    /\ UNCHANGED <<callVars, accepted, reported, dim, applyInProgress, phase,
                   closing>>

\* Ingest fails, in the store or because the tracker is closed.
DrainFails ==
    /\ phase = "drain" /\ hand # NoSignal /\ ReadLockFree
    /\ reported' = reported \cup {hand} /\ hand' = NoSignal
    /\ UNCHANGED <<callVars, accepted, stored, dim, applyInProgress,
                   ingestBuffer, phase, closing>>

DrainDone ==
    /\ phase = "drain" /\ hand = NoSignal /\ ingestBuffer = <<>>
    /\ phase' = "idle"
    /\ UNCHANGED <<callVars, fateVars, dim, applyInProgress, ingestBuffer,
                   hand, closing>>

---------------------------------------------------------------------------
(* Close.                                                                  *)

\* cron.Stop: no run starts any more.
StopCron ==
    /\ closing = "open"
    /\ closing' = "stopping"
    /\ UNCHANGED <<callVars, batchVars, fateVars, dim, ingestBuffer>>

\* The run in progress, if any, has ended; Close asks for closeMu.
AwaitBatch ==
    /\ closing = "stopping" /\ phase = "idle"
    /\ closing' = "locking"
    /\ UNCHANGED <<callVars, batchVars, fateVars, dim, ingestBuffer>>

\* The last reader has left closeMu; the store is closed.
AwaitCalls ==
    /\ closing = "locking" /\ \A c \in Callers : at[c] = "idle"
    /\ closing' = "closed"
    /\ UNCHANGED <<callVars, batchVars, fateVars, dim, ingestBuffer>>

---------------------------------------------------------------------------
Init ==
    /\ at = [c \in Callers |-> "idle"]
    /\ sig = [c \in Callers |-> NoSignal]
    /\ dim = 0
    /\ applyInProgress = FALSE /\ ingestBuffer = <<>>
    /\ phase = "idle" /\ hand = NoSignal
    /\ closing = "open"
    /\ accepted = {} /\ stored = {} /\ reported = {}

Call(c) == \/ \E s \in Signals : Enter(c, s) \/ Refuse(c, s)
           \/ ReadFlag(c) \/ Store(c) \/ StoreFails(c) \/ Send(c) \/ Cancel(c)

Batch == \/ Tick \/ BeginWindow \/ EndWindow
         \/ DrainReceive \/ DrainIngest \/ DrainFails \/ DrainDone

Close == StopCron \/ AwaitBatch \/ AwaitCalls

Next == (\E c \in Callers : Call(c)) \/ Batch \/ Close

Spec == Init /\ [][Next]_vars

(* The scheduler runs every goroutine that can run, the store answers, and *)
(* cron keeps ticking until it is stopped.  Blocked senders are served in  *)
(* order by the channel: strong fairness.  No context has to end, nobody   *)
(* has to call Close, no store call has to succeed.                        *)
Fairness ==
    /\ \A c \in Callers : /\ WF_vars(ReadFlag(c))
                          /\ WF_vars(Store(c) \/ StoreFails(c))
                          /\ SF_vars(Send(c))
    /\ WF_vars(Tick) /\ WF_vars(BeginWindow \/ EndWindow)
    /\ WF_vars(DrainReceive) /\ WF_vars(DrainIngest \/ DrainFails)
    /\ WF_vars(DrainDone) /\ WF_vars(AwaitBatch) /\ WF_vars(AwaitCalls)

FairSpec == Spec /\ Fairness

---------------------------------------------------------------------------
(* Type correctness.                                                       *)
TypeOK ==
    /\ at \in [Callers -> {"idle", "entered", "direct", "sending"}]
    /\ sig \in [Callers -> Signals \cup {NoSignal}]
    /\ dim \in Nat
    /\ applyInProgress \in BOOLEAN
    /\ ingestBuffer \in Seq(Signals) /\ Len(ingestBuffer) <= IngestBufferCap
    /\ phase \in {"idle", "collect", "window", "drain"}
    /\ hand \in Signals \cup {NoSignal}
    /\ closing \in {"open", "stopping", "locking", "closed"}
    /\ accepted \subseteq Signals /\ stored \subseteq Signals
    /\ reported \subseteq Signals

(* Once the store is closed nobody is left who would use it: no call is    *)
(* past closeMu, no batch runs, nothing is being drained, and the flag is  *)
(* not left set.                                                           *)
NothingAfterClose ==
    Closed => /\ \A c \in Callers : at[c] = "idle"
              /\ phase = "idle" /\ hand = NoSignal /\ ~applyInProgress

(* Where a signal is between its acceptance and its end.                   *)
Waiting == Buffered \cup ({hand} \ {NoSignal})

(* An accepted signal is somewhere, and in one place only: waiting once in *)
(* the buffer or in the hands of the drain, stored, or reported.  It is    *)
(* neither dropped in silence nor ingested twice.                          *)
AcceptedInOnePlace ==
    /\ accepted = Waiting \cup stored \cup reported
    /\ Waiting \cap (stored \cup reported) = {} /\ stored \cap reported = {}
    /\ hand \notin Buffered
    /\ \A i, j \in 1..Len(ingestBuffer) :
          ingestBuffer[i] = ingestBuffer[j] => i = j

(* The signals a tracker has accepted are all of one dimension, however    *)
(* many first calls race to fix it.                                        *)
SameDimension == \A s, t \in accepted : Dim[s] = Dim[t]

(* A call that read the flag before it was cleared may use the buffer      *)
(* after the drain has left it.  Those late signals, and the calls that    *)
(* have still to send one, are never more than the callers.                *)
LateBounded ==
    phase \in {"idle", "collect"} =>
        Len(ingestBuffer) + Cardinality(Senders) <= Cardinality(Callers)

(* So with no more callers than the buffer holds nobody blocks on a full   *)
(* buffer that no batch is about to empty: what Close waits for.           *)
LateCallsHaveRoom ==
    Cardinality(Callers) <= IngestBufferCap /\ phase \in {"idle", "collect"}
        => (Senders # {} => Room)

(* Every call that was let in returns, back-pressure or not.               *)
CallsReturn == \A c \in Callers : at[c] # "idle" ~> at[c] = "idle"

(* Close returns: it never waits for a call that waits for a batch.        *)
CloseReturns == closing = "stopping" ~> Closed

(* An accepted signal reaches the store, or OnBatchError, while the        *)
(* tracker stays open, even when its window's drain has missed it.         *)
AcceptedSettles ==
    \A s \in Signals :
        s \in accepted ~> s \in stored \cup reported \/ closing # "open"

(* README.md:281: buffered signals are lost if the process dies before the *)
(* drain, "the library's one at-most-once window".  So an orderly Close    *)
(* leaves no accepted signal behind in the buffer.                         *)
NothingLostAtClose == Closed => ingestBuffer = <<>>
=============================================================================
