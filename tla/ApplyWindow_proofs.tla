------------------------ MODULE ApplyWindow_proofs -------------------------
(***************************************************************************)
(* Theorems about ApplyWindow, for any number of callers and signals and   *)
(* any capacity of the buffer.  The inductive invariant is TypeOK with     *)
(* four parts: the shape of the calls (Calls), of the batch and of Close   *)
(* (Goroutines), where accepted signals are (AcceptedInOnePlace), and the  *)
(* count of late signals (LateBounded).                                    *)
(***************************************************************************)
EXTENDS ApplyWindow, FiniteSetTheorems, TLAPS

(* A call carries a signal exactly while it runs.                          *)
Carrying == \A c \in Callers : at[c] = "idle" <=> sig[c] = NoSignal

(* It is a signal no other call carries and none has been accepted for;    *)
(* whatever runs or was accepted is of the tracker's dimension.            *)
Calls ==
    /\ \A c \in Callers : sig[c] \notin accepted
    /\ \A b, c \in Callers : sig[b] = sig[c] /\ sig[b] # NoSignal => b = c
    /\ \A c \in Callers : sig[c] # NoSignal => Dim[sig[c]] = dim
    /\ \A s \in accepted : Dim[s] = dim

(* The flag is set exactly in the window, only a drain has a signal in     *)
(* hand, and Close gets past the batch and past the calls in this order.   *)
Goroutines ==
    /\ applyInProgress <=> phase = "window"
    /\ hand # NoSignal => phase = "drain"
    /\ closing \in {"locking", "closed"} => phase = "idle"
    /\ Closed => \A c \in Callers : at[c] = "idle"

Elements(q) == {q[i] : i \in 1..Len(q)}

OnceEach(q) == \A i, j \in 1..Len(q) : q[i] = q[j] => i = j

---------------------------------------------------------------------------
(* What the channel does to the signals in it.                             *)

LEMMA SendElements ==
    ASSUME NEW q \in Seq(Signals), NEW s \in Signals
    PROVE  /\ Append(q, s) \in Seq(Signals)
           /\ Len(Append(q, s)) = Len(q) + 1
           /\ Elements(Append(q, s)) = Elements(q) \cup {s}
           /\ OnceEach(q) /\ s \notin Elements(q) => OnceEach(Append(q, s))
<1> DEFINE r == Append(q, s)
<1>1. /\ r \in Seq(Signals) /\ Len(r) = Len(q) + 1 /\ Len(q) \in Nat
      /\ \A i \in 1..Len(q) : r[i] = q[i]
      /\ r[Len(q) + 1] = s
  OBVIOUS
<1> HIDE DEF r
<1>2. 1..Len(r) = 1..Len(q) \cup {Len(q) + 1}
  BY <1>1
<1>3. Elements(r) = Elements(q) \cup {s}
  BY <1>1, <1>2 DEF Elements
<1>4. OnceEach(q) /\ s \notin Elements(q) => OnceEach(r)
  BY <1>1, <1>2 DEF Elements, OnceEach
<1> QED
  BY <1>1, <1>3, <1>4 DEF r

LEMMA ReceiveElements ==
    ASSUME NEW q \in Seq(Signals), q # <<>>
    PROVE  /\ Head(q) \in Signals
           /\ Tail(q) \in Seq(Signals)
           /\ Len(Tail(q)) = Len(q) - 1
           /\ Elements(q) = Elements(Tail(q)) \cup {Head(q)}
           /\ OnceEach(q) => OnceEach(Tail(q)) /\ Head(q) \notin Elements(Tail(q))
<1> DEFINE r == Tail(q)
<1>1. /\ r \in Seq(Signals) /\ Len(q) \in Nat \ {0} /\ Len(r) = Len(q) - 1
      /\ \A i \in 1..Len(r) : r[i] = q[i + 1]
      /\ Head(q) = q[1] /\ q[1] \in Signals
  OBVIOUS
<1> HIDE DEF r
<1>2. \A i \in 1..Len(q) : i = 1 \/ (i - 1 \in 1..Len(r) /\ q[i] = r[i - 1])
  BY <1>1
<1>3. \A i \in 1..Len(r) : i + 1 \in 1..Len(q)
  BY <1>1
<1>4. 1 \in 1..Len(q)
  BY <1>1
<1>5. Elements(q) = Elements(r) \cup {q[1]}
  BY <1>1, <1>2, <1>3, <1>4 DEF Elements
<1>6. ASSUME OnceEach(q)
      PROVE  OnceEach(r) /\ q[1] \notin Elements(r)
  <2>1. OnceEach(r)
    BY <1>1, <1>3, <1>6 DEF OnceEach
  <2>2. \A i \in 1..Len(r) : r[i] # q[1]
    BY <1>1, <1>3, <1>4, <1>6 DEF OnceEach
  <2> QED
    BY <2>1, <2>2 DEF Elements
<1> QED
  BY <1>1, <1>5, <1>6 DEF r

---------------------------------------------------------------------------
(* Type correctness.                                                       *)

LEMMA InitTyped == Init => TypeOK /\ Carrying
<1> SUFFICES ASSUME Init PROVE TypeOK /\ Carrying
  OBVIOUS
<1> USE DEF Init
<1>1. ingestBuffer \in Seq(Signals) /\ Len(ingestBuffer) <= IngestBufferCap
  BY ConstantsAssumption
<1>2. /\ at \in [Callers -> {"idle", "entered", "direct", "sending"}]
      /\ sig \in [Callers -> Signals \cup {NoSignal}]
  OBVIOUS
<1>3. Carrying
  BY DEF Carrying
<1> QED
  BY <1>1, <1>2, <1>3 DEF TypeOK

LEMMA NextTyped == TypeOK /\ Carrying /\ [Next]_vars => (TypeOK /\ Carrying)'
<1> SUFFICES ASSUME TypeOK, Carrying, [Next]_vars PROVE (TypeOK /\ Carrying)'
  OBVIOUS
<1> USE ConstantsAssumption DEF TypeOK, Carrying, callVars, batchVars, fateVars,
        Room
<1>1. ASSUME NEW c \in Callers, Call(c) PROVE (TypeOK /\ Carrying)'
  <2>1. ASSUME NEW s \in Signals, Enter(c, s) PROVE (TypeOK /\ Carrying)'
    BY <2>1 DEF Enter, Claim
  <2>2. ASSUME NEW s \in Signals, Refuse(c, s) PROVE (TypeOK /\ Carrying)'
    BY <2>2 DEF Refuse, vars
  <2>3. CASE ReadFlag(c)
    BY <2>3 DEF ReadFlag
  <2>4. CASE Store(c)
    BY <2>4 DEF Store, Return
  <2>5. CASE StoreFails(c)
    BY <2>5 DEF StoreFails, Return
  <2>6. CASE Send(c)
    <3>1. sig[c] \in Signals
      BY <2>6 DEF Send
    <3>2. ingestBuffer' \in Seq(Signals) /\ Len(ingestBuffer') <= IngestBufferCap
      BY <2>6, <3>1, SendElements DEF Send
    <3> QED
      BY <2>6, <3>1, <3>2 DEF Send, Return
  <2>7. CASE Cancel(c)
    BY <2>7 DEF Cancel, Return
  <2> QED
    BY <1>1, <2>1, <2>2, <2>3, <2>4, <2>5, <2>6, <2>7 DEF Call
<1>2. ASSUME Batch PROVE (TypeOK /\ Carrying)'
  <2>1. CASE Tick
    BY <2>1 DEF Tick
  <2>2. CASE BeginWindow
    BY <2>2 DEF BeginWindow
  <2>3. CASE EndWindow
    BY <2>3 DEF EndWindow
  <2>4. CASE DrainReceive
    BY <2>4, ReceiveElements DEF DrainReceive
  <2>5. CASE DrainIngest
    <3>1. hand \in Signals
      BY <2>5 DEF DrainIngest
    <3>2. CASE applyInProgress
      <4>1. ingestBuffer' \in Seq(Signals) /\ Len(ingestBuffer') <= IngestBufferCap
        BY <2>5, <3>1, <3>2, SendElements DEF DrainIngest
      <4> QED
        BY <2>5, <3>1, <3>2, <4>1 DEF DrainIngest
    <3>3. CASE ~applyInProgress
      BY <2>5, <3>1, <3>3 DEF DrainIngest
    <3> QED
      BY <3>2, <3>3
  <2>6. CASE DrainFails
    BY <2>6 DEF DrainFails
  <2>7. CASE DrainDone
    BY <2>7 DEF DrainDone
  <2> QED
    BY <1>2, <2>1, <2>2, <2>3, <2>4, <2>5, <2>6, <2>7 DEF Batch
<1>3. ASSUME Close PROVE (TypeOK /\ Carrying)'
  BY <1>3 DEF Close, StopCron, AwaitBatch, AwaitCalls
<1>4. CASE UNCHANGED vars
  BY <1>4 DEF vars
<1> QED
  BY <1>1, <1>2, <1>3, <1>4 DEF Next

(* Every reachable state is well typed: in particular the buffer never     *)
(* exceeds its capacity.                                                   *)
THEOREM WindowTypeCorrect == Spec => []TypeOK
<1>1. Spec => [](TypeOK /\ Carrying)
  BY InitTyped, NextTyped, PTL DEF Spec
<1> QED
  BY <1>1, PTL

---------------------------------------------------------------------------
(* Shutdown.                                                               *)

LEMMA NextGoroutines ==
    TypeOK /\ Carrying /\ Goroutines /\ [Next]_vars => Goroutines'
<1> SUFFICES ASSUME TypeOK, Carrying, Goroutines, [Next]_vars
             PROVE  Goroutines'
  OBVIOUS
<1> USE DEF Goroutines, Closed, ReadLockFree
<1>1. ASSUME NEW c \in Callers, Call(c) PROVE Goroutines'
  <2>1. ASSUME NEW s \in Signals, Enter(c, s) PROVE Goroutines'
    BY <2>1 DEF Enter, batchVars
  <2>2. ASSUME NEW s \in Signals, Refuse(c, s) PROVE Goroutines'
    BY <2>2 DEF Refuse, vars, TypeOK
  <2>3. ASSUME UNCHANGED <<batchVars, closing>>, at[c] # "idle"
        PROVE  Goroutines'
    BY <2>3 DEF batchVars
  <2> QED
    BY <1>1, <2>1, <2>2, <2>3
    DEF Call, ReadFlag, Store, StoreFails, Send, Cancel, batchVars
<1>2. ASSUME Batch PROVE Goroutines'
  BY <1>2 DEF Batch, Tick, BeginWindow, EndWindow, DrainReceive, DrainIngest,
              DrainFails, DrainDone, callVars, TypeOK
<1>3. ASSUME Close PROVE Goroutines'
  BY <1>3 DEF Close, StopCron, AwaitBatch, AwaitCalls, callVars, batchVars
<1>4. CASE UNCHANGED vars
  BY <1>4 DEF vars
<1> QED
  BY <1>1, <1>2, <1>3, <1>4 DEF Next

(* After Close nothing is left running: no call, no batch, no drain.       *)
THEOREM NothingRunsAfterClose == Spec => []NothingAfterClose
<1>1. Init => Goroutines
  BY DEF Init, Goroutines, Closed
<1>2. Goroutines => NothingAfterClose
  BY DEF Goroutines, NothingAfterClose, Closed
<1>3. Spec => [](TypeOK /\ Carrying)
  BY InitTyped, NextTyped, PTL DEF Spec
<1> QED
  BY <1>1, <1>2, <1>3, NextGoroutines, PTL DEF Spec

---------------------------------------------------------------------------
(* Late signals.                                                           *)

LEMMA SendersFinite ==
    IsFiniteSet(Senders) /\ Cardinality(Senders) \in Nat
    /\ Cardinality(Senders) <= Cardinality(Callers)
<1>1. Senders \subseteq Callers
  BY DEF Senders
<1> QED
  BY <1>1, ConstantsAssumption, FS_Subset, FS_CardinalityType

LEMMA NextLateBounded ==
    TypeOK /\ Goroutines /\ LateBounded /\ [Next]_vars => LateBounded'
<1> SUFFICES ASSUME TypeOK, Goroutines, LateBounded, [Next]_vars,
                    phase' \in {"idle", "collect"}
             PROVE  Len(ingestBuffer') + Cardinality(Senders') <= Cardinality(Callers)
  BY DEF LateBounded
<1>1. ingestBuffer \in Seq(Signals) /\ Len(ingestBuffer) \in Nat
  <2>1. ingestBuffer \in Seq(Signals)
    BY DEF TypeOK
  <2> QED
    BY <2>1
<1>2. IsFiniteSet(Callers) /\ Cardinality(Callers) \in Nat
  BY ConstantsAssumption, FS_CardinalityType
<1>3. ASSUME Senders' \subseteq Senders, UNCHANGED <<ingestBuffer, phase>>
      PROVE  Len(ingestBuffer') + Cardinality(Senders') <= Cardinality(Callers)
  <2>1. Cardinality(Senders') \in Nat /\ Cardinality(Senders') <= Cardinality(Senders)
    BY <1>3, SendersFinite, FS_Subset, FS_CardinalityType
  <2> QED
    BY <1>1, <1>2, <1>3, <2>1, SendersFinite DEF LateBounded
<1>4. ASSUME NEW c \in Callers, Call(c)
      PROVE  Len(ingestBuffer') + Cardinality(Senders') <= Cardinality(Callers)
  <2>1. UNCHANGED phase
    BY <1>4 DEF Call, Enter, Refuse, ReadFlag, Store, StoreFails, Send, Cancel,
                batchVars, vars
  <2>2. CASE Send(c)
    <3>1. c \in Senders /\ Senders' = Senders \ {c}
      BY <2>2 DEF Send, Return, Senders, TypeOK
    <3>2. Cardinality(Senders') = Cardinality(Senders) - 1
      BY <3>1, SendersFinite, FS_RemoveElement
    <3>3. ingestBuffer' = Append(ingestBuffer, sig[c])
      BY <2>2 DEF Send
    <3>4. Len(ingestBuffer') = Len(ingestBuffer) + 1
      BY <1>1, <3>3
    <3> QED
      BY <1>1, <1>2, <2>1, <3>2, <3>4, SendersFinite DEF LateBounded
  <2>3. CASE ~Send(c)
    <3>1. UNCHANGED ingestBuffer
      BY <1>4, <2>3 DEF Call, Enter, Refuse, ReadFlag, Store, StoreFails, Cancel,
                        vars
    <3>2. ~applyInProgress
      BY <2>1 DEF Goroutines
    <3>3. Senders' \subseteq Senders
      BY <1>4, <2>3, <3>2 DEF Call, Enter, Refuse, ReadFlag, Store, StoreFails,
                              Cancel, Return, Senders, TypeOK, vars, callVars
    <3> QED
      BY <1>3, <2>1, <3>1, <3>3
  <2> QED
    BY <2>2, <2>3
<1>5. ASSUME Batch
      PROVE  Len(ingestBuffer') + Cardinality(Senders') <= Cardinality(Callers)
  <2>1. Senders' = Senders
    BY <1>5 DEF Batch, Tick, BeginWindow, EndWindow, DrainReceive, DrainIngest,
                DrainFails, DrainDone, callVars, Senders
  <2>2. CASE Tick
    BY <1>1, <1>2, <2>1, <2>2, SendersFinite DEF Tick, LateBounded
  <2>3. CASE DrainDone
    BY <1>2, <2>1, <2>3, SendersFinite DEF DrainDone
  <2> QED
    BY <1>5, <2>2, <2>3
    DEF Batch, BeginWindow, EndWindow, DrainReceive, DrainIngest, DrainFails
<1>6. ASSUME Close
      PROVE  Len(ingestBuffer') + Cardinality(Senders') <= Cardinality(Callers)
  <2>1. Senders' = Senders /\ UNCHANGED <<ingestBuffer, phase>>
    BY <1>6 DEF Close, StopCron, AwaitBatch, AwaitCalls, callVars, batchVars, Senders
  <2> QED
    BY <1>3, <2>1
<1>7. ASSUME UNCHANGED vars
      PROVE  Len(ingestBuffer') + Cardinality(Senders') <= Cardinality(Callers)
  BY <1>3, <1>7 DEF vars, Senders
<1> QED
  BY <1>4, <1>5, <1>6, <1>7 DEF Next

(* With no more callers than the buffer holds, a call that reaches the     *)
(* buffer after its drain finds room in it: it does not hold up Close.     *)
THEOREM LateCallsNeverBlock == Spec => []LateCallsHaveRoom
<1>1. Init => Goroutines /\ LateBounded
  <2> SUFFICES ASSUME Init PROVE Goroutines /\ LateBounded
    OBVIOUS
  <2>1. Goroutines
    BY DEF Init, Goroutines, Closed
  <2>2. Len(ingestBuffer) = 0 /\ Cardinality(Callers) \in Nat
    BY ConstantsAssumption, FS_CardinalityType DEF Init
  <2> QED
    BY <2>1, <2>2, SendersFinite DEF LateBounded
<1>2. TypeOK /\ LateBounded => LateCallsHaveRoom
  <2> SUFFICES ASSUME TypeOK, LateBounded, phase \in {"idle", "collect"},
                      Cardinality(Callers) <= IngestBufferCap, Senders # {}
               PROVE  Room
    BY DEF LateCallsHaveRoom
  <2>1. Cardinality(Senders) # 0
    BY SendersFinite, FS_EmptySet
  <2>2. ingestBuffer \in Seq(Signals)
    BY DEF TypeOK
  <2>3. Len(ingestBuffer) \in Nat /\ Cardinality(Callers) \in Nat
    BY <2>2, ConstantsAssumption, FS_CardinalityType
  <2> QED
    BY <2>1, <2>3, SendersFinite, ConstantsAssumption DEF LateBounded, Room
<1>3. Spec => [](TypeOK /\ Carrying)
  BY InitTyped, NextTyped, PTL DEF Spec
<1> QED
  BY <1>1, <1>2, <1>3, NextGoroutines, NextLateBounded, PTL DEF Spec

---------------------------------------------------------------------------
(* Accepted signals.                                                       *)

\* AcceptedInOnePlace, with the state as parameters.
InPlace(q, h, a, st, rep) ==
    /\ a = Elements(q) \cup ({h} \ {NoSignal}) \cup st \cup rep
    /\ (Elements(q) \cup ({h} \ {NoSignal})) \cap (st \cup rep) = {}
    /\ st \cap rep = {}
    /\ h \notin Elements(q)
    /\ OnceEach(q)

LEMMA NextCalls == TypeOK /\ Carrying /\ Calls /\ [Next]_vars => Calls'
<1> SUFFICES ASSUME TypeOK, Carrying, Calls, [Next]_vars PROVE Calls'
  OBVIOUS
<1> USE ConstantsAssumption
<1>1. ASSUME NEW c \in Callers, Call(c) PROVE Calls'
  <2>1. ASSUME NEW s \in Signals, Enter(c, s) PROVE Calls'
    <3>1. dim \in {0, Dim[s]} /\ dim' = Dim[s] /\ Dim[s] # 0
      BY <2>1 DEF Enter, Claim
    <3>2. \A b \in Callers : sig[b] # NoSignal => sig[b] \in Signals
      BY DEF TypeOK
    <3>3. \A b \in Callers : sig[b] # NoSignal => Dim[sig[b]] = dim'
      BY <3>1, <3>2 DEF Calls
    <3>4. \A a \in accepted : Dim[a] = dim'
      BY <3>1 DEF Calls, TypeOK
    <3>5. CASE s \in Zero
      BY <2>1, <3>3, <3>4, <3>5 DEF Enter, Calls, callVars, fateVars
    <3>6. CASE s \notin Zero
      BY <2>1, <3>1, <3>3, <3>4, <3>6 DEF Enter, Calls, TypeOK, fateVars
    <3> QED
      BY <3>5, <3>6
  <2>2. ASSUME NEW s \in Signals, Refuse(c, s) PROVE Calls'
    BY <2>2 DEF Refuse, vars, Calls
  <2>3. CASE ReadFlag(c)
    BY <2>3 DEF ReadFlag, Calls, fateVars
  <2>4. ASSUME at[c] # "idle", Return(c), UNCHANGED dim,
               accepted' = accepted \/ accepted' = accepted \cup {sig[c]}
        PROVE  Calls'
    <3>1. sig[c] # NoSignal
      BY <2>4 DEF Carrying
    <3>2. /\ sig'[c] = NoSignal
          /\ \A b \in Callers : b # c => sig'[b] = sig[b]
      BY <2>4 DEF Return, TypeOK
    <3>3. NoSignal \notin accepted'
      BY <2>4, <3>1 DEF TypeOK
    <3> QED
      BY <2>4, <3>1, <3>2, <3>3 DEF Calls
  <2> QED
    BY <1>1, <2>1, <2>2, <2>3, <2>4
    DEF Call, Store, StoreFails, Send, Cancel, fateVars
<1>2. ASSUME UNCHANGED <<callVars, accepted, dim>> PROVE Calls'
  BY <1>2 DEF Calls, callVars
<1> QED
  BY <1>1, <1>2 DEF Next, Batch, Tick, BeginWindow, EndWindow, DrainReceive,
     DrainIngest, DrainFails, DrainDone, Close, StopCron, AwaitBatch, AwaitCalls,
     fateVars, callVars, vars

LEMMA NextInOnePlace ==
    /\ TypeOK /\ Carrying /\ Calls /\ Goroutines /\ AcceptedInOnePlace
    /\ [Next]_vars
    => AcceptedInOnePlace'
<1> DEFINE Now   == InPlace(ingestBuffer, hand, accepted, stored, reported)
           After == InPlace(ingestBuffer', hand', accepted', stored', reported')
<1> SUFFICES ASSUME TypeOK, Carrying, Calls, Goroutines, [Next]_vars, Now
             PROVE  After
  BY DEF AcceptedInOnePlace, Waiting, Buffered, InPlace, Elements, OnceEach
<1> USE ConstantsAssumption
<1>1. /\ ingestBuffer \in Seq(Signals)
      /\ NoSignal \notin Elements(ingestBuffer)
      /\ hand \in Signals \cup {NoSignal}
  BY DEF TypeOK, Elements
<1>2. ASSUME UNCHANGED <<ingestBuffer, hand, accepted, stored, reported>>
      PROVE  After
  BY <1>2
<1>3. ASSUME NEW c \in Callers, Call(c) PROVE After
  <2>1. CASE Store(c)
    <3>1. sig[c] # NoSignal /\ sig[c] \notin accepted
      BY <2>1 DEF Store, Carrying, Calls
    <3>2. /\ stored' = stored \cup {sig[c]} /\ accepted' = accepted \cup {sig[c]}
          /\ UNCHANGED <<ingestBuffer, hand, reported>>
      BY <2>1 DEF Store, batchVars
    <3> QED
      BY <3>1, <3>2 DEF InPlace
  <2>2. CASE Send(c)
    <3>1. sig[c] \in Signals /\ sig[c] # NoSignal /\ sig[c] \notin accepted
      BY <2>2 DEF Send, Carrying, Calls, TypeOK
    <3>2. UNCHANGED <<hand, stored, reported>> /\ accepted' = accepted \cup {sig[c]}
      BY <2>2 DEF Send, batchVars
    <3>3. sig[c] \notin Elements(ingestBuffer) /\ OnceEach(ingestBuffer)
      BY <3>1 DEF InPlace
    <3>4. /\ Elements(ingestBuffer') = Elements(ingestBuffer) \cup {sig[c]}
          /\ OnceEach(ingestBuffer')
      BY <1>1, <2>2, <3>1, <3>3, SendElements DEF Send
    <3> QED
      BY <3>1, <3>2, <3>4 DEF InPlace
  <2> QED
    BY <1>2, <1>3, <2>1, <2>2
    DEF Call, Enter, Refuse, ReadFlag, StoreFails, Cancel, fateVars, batchVars, vars
<1>4. ASSUME Batch PROVE After
  <2>1. CASE DrainReceive
    <3>1. /\ hand = NoSignal /\ hand' = Head(ingestBuffer)
          /\ ingestBuffer' = Tail(ingestBuffer)
          /\ UNCHANGED <<accepted, stored, reported>>
      BY <2>1 DEF DrainReceive, fateVars
    <3>2. /\ hand' \in Signals
          /\ Elements(ingestBuffer) = Elements(ingestBuffer') \cup {hand'}
          /\ OnceEach(ingestBuffer') /\ hand' \notin Elements(ingestBuffer')
      BY <1>1, <2>1, <3>1, ReceiveElements DEF DrainReceive, InPlace
    <3> QED
      BY <3>1, <3>2 DEF InPlace
  <2>2. CASE DrainIngest
    <3>1. ~applyInProgress
      BY <2>2 DEF DrainIngest, Goroutines
    <3>2. /\ stored' = stored \cup {hand} /\ hand # NoSignal /\ hand' = NoSignal
          /\ UNCHANGED <<ingestBuffer, accepted, reported>>
      BY <2>2, <3>1 DEF DrainIngest
    <3> QED
      BY <1>1, <3>2 DEF InPlace
  <2>3. CASE DrainFails
    <3>1. /\ reported' = reported \cup {hand} /\ hand # NoSignal /\ hand' = NoSignal
          /\ UNCHANGED <<ingestBuffer, accepted, stored>>
      BY <2>3 DEF DrainFails
    <3> QED
      BY <1>1, <3>1 DEF InPlace
  <2> QED
    BY <1>2, <1>4, <2>1, <2>2, <2>3
    DEF Batch, Tick, BeginWindow, EndWindow, DrainDone, fateVars
<1>5. ASSUME Close PROVE After
  BY <1>2, <1>5 DEF Close, StopCron, AwaitBatch, AwaitCalls, fateVars, batchVars
<1>6. CASE UNCHANGED vars
  BY <1>2, <1>6 DEF vars
<1> QED
  BY <1>3, <1>4, <1>5, <1>6 DEF Next

LEMMA InitCalls == Init => Calls /\ Goroutines /\ AcceptedInOnePlace
BY ConstantsAssumption
DEF Init, Calls, Goroutines, Closed, AcceptedInOnePlace, Waiting, Buffered

(* No accepted signal is dropped in silence or ingested twice: it waits in *)
(* the buffer or with the drain, or is stored, or was reported.            *)
THEOREM AcceptedAccounted == Spec => []AcceptedInOnePlace
<1>1. Spec => [](TypeOK /\ Carrying)
  BY InitTyped, NextTyped, PTL DEF Spec
<1> QED
  BY <1>1, InitCalls, NextCalls, NextGoroutines, NextInOnePlace, PTL DEF Spec

(* All accepted signals agree on their dimension.                          *)
THEOREM DimensionAgreed == Spec => []SameDimension
<1>1. Spec => [](TypeOK /\ Carrying)
  BY InitTyped, NextTyped, PTL DEF Spec
<1>2. Calls => SameDimension
  BY DEF Calls, SameDimension
<1> QED
  BY <1>1, <1>2, InitCalls, NextCalls, PTL DEF Spec
=============================================================================
