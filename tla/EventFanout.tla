---------------------------- MODULE EventFanout ----------------------------
(***************************************************************************)
(* Subscribe, emit and the part of Close about subscribers.                *)
(*                                                                         *)
(* Every subscriber has a bounded channel.  Emitters (Ingest calls, the    *)
(* batch, Suppress and Unsuppress) run side by side under the read lock of *)
(* subMu and never block on a channel: on a full one they take the oldest  *)
(* event out and put an overflow marker in, each by a select of its own.   *)
(* Subscribe and Close take the write lock.                                *)
(*                                                                         *)
(* An event is one of two values, as nothing here tells events apart.  The *)
(* section Faults is no part of the model.                                 *)
(***************************************************************************)
EXTENDS Naturals, Sequences, FiniteSets

CONSTANTS
    Emitters,           \* goroutines that may be inside emit
    Subscribers,        \* goroutines that may call Subscribe, once each
    EventBufferSize,    \* Config.EventBufferSize, the depth of a channel
    Event,              \* any event but an overflow marker
    Overflow,           \* EventBufferOverflow
    Closer,             \* the goroutine inside Close
    Nobody,             \* no writer holds or awaits subMu
    Overlaps            \* may emissions run side by side? (a set of answers)

ASSUME ConstantsAssumption ==
    /\ EventBufferSize \in Nat \ {0}
    /\ Event # Overflow
    /\ Closer \notin Subscribers /\ Nobody \notin Subscribers \cup {Closer}
    /\ Overlaps \subseteq BOOLEAN

VARIABLES
    queue,      \* what each subscriber's channel holds, oldest first
    sub,        \* per subscriber: none, asking, open, or closed
    subs,       \* Tracker.subs, in the order of subscription
    closed,     \* Tracker.closed
    writer,     \* who holds or awaits subMu for writing; readers stay out
    at,         \* per emitter: idle, waiting, send, pop, mark
    todo,       \* per emitter: the subscribers it has still to serve
    missed,     \* history: has lost an event and read no marker since
    overlap     \* history: may emissions of this behaviour run side by side?

vars == <<queue, sub, subs, closed, writer, at, todo, missed, overlap>>

Inside(e) == at[e] \in {"send", "pop", "mark"}
Serving(e) == Head(todo[e])
MarkerQueued(r) == \E i \in 1 .. Len(queue[r]) : queue[r][i] = Overflow

-----------------------------------------------------------------------------
(* Faults.                                                                 *)

\* HasRoom off by one.
HasRoomForOneMore(r) == Len(queue[r]) <= EventBufferSize
\* GivesUp waiting for room, as a send without a default case does.
NeverGivesUp(r) == FALSE
\* Popped leaving the oldest event where it is.
NotPopped(r) == queue
\* ReadersGone without waiting for them.
ReadersIgnored == TRUE
\* Subscribed without the test of closed.
SubscribedAnyway == "open"

-----------------------------------------------------------------------------
HasRoom(r) == Len(queue[r]) < EventBufferSize

Init ==
    /\ queue = [r \in Subscribers |-> <<>>]
    /\ sub = [r \in Subscribers |-> "none"]
    /\ subs = <<>> /\ closed = FALSE /\ writer = Nobody
    /\ at = [e \in Emitters |-> "idle"]
    /\ todo = [e \in Emitters |-> <<>>]
    /\ missed = [r \in Subscribers |-> FALSE]
    /\ overlap \in Overlaps

-----------------------------------------------------------------------------
(* Subscribe and Close: a writer that waits keeps new readers out.         *)

ReadersGone == \A e \in Emitters : ~Inside(e)

\* The channel a subscriber is handed after Close is closed already.
Subscribed == IF closed THEN "closed" ELSE "open"

CallSubscribe(r) ==
    /\ sub[r] = "none"
    /\ sub' = [sub EXCEPT ![r] = "asking"]
    /\ UNCHANGED <<queue, subs, closed, writer, at, todo, missed, overlap>>

LockToSubscribe(r) ==
    /\ sub[r] = "asking" /\ writer = Nobody
    /\ writer' = r
    /\ UNCHANGED <<queue, sub, subs, closed, at, todo, missed, overlap>>

Subscribe(r) ==
    /\ writer = r /\ ReadersGone
    /\ sub' = [sub EXCEPT ![r] = Subscribed]
    /\ subs' = IF Subscribed = "open" THEN Append(subs, r) ELSE subs
    /\ writer' = Nobody
    /\ UNCHANGED <<queue, closed, at, todo, missed, overlap>>

LockToClose ==
    /\ ~closed /\ writer = Nobody
    /\ writer' = Closer
    /\ UNCHANGED <<queue, sub, subs, closed, at, todo, missed, overlap>>

Close ==
    /\ writer = Closer /\ ReadersGone
    /\ closed' = TRUE /\ subs' = <<>>
    /\ sub' = [r \in Subscribers |-> IF sub[r] = "open" THEN "closed" ELSE sub[r]]
    /\ writer' = Nobody
    /\ UNCHANGED <<queue, at, todo, missed, overlap>>

-----------------------------------------------------------------------------
(* emit.                                                                   *)

Emit(e) ==
    /\ at[e] = "idle"
    /\ overlap \/ \A d \in Emitters : at[d] = "idle"
    /\ at' = [at EXCEPT ![e] = "waiting"]
    /\ UNCHANGED <<queue, sub, subs, closed, writer, todo, missed, overlap>>

\* The read lock, and the return without a loop once the tracker is closed.
EnterEmit(e) ==
    /\ at[e] = "waiting" /\ writer = Nobody
    /\ IF closed
       THEN /\ at' = [at EXCEPT ![e] = "idle"]
            /\ todo' = todo
       ELSE /\ at' = [at EXCEPT ![e] = "send"]
            /\ todo' = [todo EXCEPT ![e] = subs]
    /\ UNCHANGED <<queue, sub, subs, closed, writer, missed, overlap>>

Served(e) ==
    /\ at' = [at EXCEPT ![e] = "send"]
    /\ todo' = [todo EXCEPT ![e] = Tail(@)]

Send(e) ==
    /\ at[e] = "send" /\ todo[e] # <<>> /\ HasRoom(Serving(e))
    /\ queue' = [queue EXCEPT ![Serving(e)] = Append(@, Event)]
    /\ Served(e)
    /\ UNCHANGED <<sub, subs, closed, writer, missed, overlap>>

\* The default case: the event itself is lost to this subscriber.
GivesUp(r) == ~HasRoom(r)
Overflows(e) ==
    /\ at[e] = "send" /\ todo[e] # <<>> /\ GivesUp(Serving(e))
    /\ at' = [at EXCEPT ![e] = "pop"]
    /\ missed' = [missed EXCEPT ![Serving(e)] = TRUE]
    /\ UNCHANGED <<queue, sub, subs, closed, writer, todo, overlap>>

\* The oldest event goes too, be it an earlier marker; by now the subscriber may
\* have emptied the channel.
Popped(r) == [queue EXCEPT ![r] = IF @ = <<>> THEN @ ELSE Tail(@)]
Pop(e) ==
    /\ at[e] = "pop"
    /\ queue' = Popped(Serving(e))
    /\ at' = [at EXCEPT ![e] = "mark"]
    /\ missed' = [missed EXCEPT ![Serving(e)] = TRUE]
    /\ UNCHANGED <<sub, subs, closed, writer, todo, overlap>>

\* The marker, unless other emitters have filled the channel again. Read with
\* the marker, the loss is known.
Mark(e) ==
    /\ at[e] = "mark"
    /\ queue' = IF HasRoom(Serving(e))
                THEN [queue EXCEPT ![Serving(e)] = Append(@, Overflow)]
                ELSE queue
    /\ missed' = [missed EXCEPT ![Serving(e)] = TRUE]
    /\ Served(e)
    /\ UNCHANGED <<sub, subs, closed, writer, overlap>>

LeaveEmit(e) ==
    /\ at[e] = "send" /\ todo[e] = <<>>
    /\ at' = [at EXCEPT ![e] = "idle"]
    /\ UNCHANGED <<queue, sub, subs, closed, writer, todo, missed, overlap>>

-----------------------------------------------------------------------------
(* A subscriber reads, from a closed channel too while it holds something. *)

Receive(r) ==
    /\ queue[r] # <<>>
    /\ queue' = [queue EXCEPT ![r] = Tail(@)]
    /\ missed' = [missed EXCEPT ![r] = @ /\ Head(queue[r]) # Overflow]
    /\ UNCHANGED <<sub, subs, closed, writer, at, todo, overlap>>

Step(e) == EnterEmit(e) \/ Send(e) \/ Overflows(e) \/ Pop(e) \/ Mark(e) \/ LeaveEmit(e)

Next ==
    \/ \E e \in Emitters : Emit(e) \/ Step(e)
    \/ \E r \in Subscribers :
         CallSubscribe(r) \/ LockToSubscribe(r) \/ Subscribe(r) \/ Receive(r)
    \/ LockToClose \/ Close

Spec == Init /\ [][Next]_vars

\* The scheduler runs what can run, and a mutex is not kept from a goroutine
\* that waits for it. Nothing is assumed of the subscribers' reading, nor that
\* anybody emits, subscribes or closes.
FairSpec ==
    /\ Spec
    /\ \A e \in Emitters : WF_vars(Step(e))
    /\ \A r \in Subscribers : SF_vars(LockToSubscribe(r)) /\ WF_vars(Subscribe(r))
    /\ WF_vars(Close)

-----------------------------------------------------------------------------
(* Properties.                                                             *)

TypeOK ==
    /\ queue \in [Subscribers -> Seq({Event, Overflow})]
    /\ \A r \in Subscribers : Len(queue[r]) <= EventBufferSize
    /\ sub \in [Subscribers -> {"none", "asking", "open", "closed"}]
    /\ subs \in Seq(Subscribers) /\ closed \in BOOLEAN
    /\ writer \in Subscribers \cup {Closer, Nobody}
    /\ at \in [Emitters -> {"idle", "waiting", "send", "pop", "mark"}]
    /\ todo \in [Emitters -> Seq(Subscribers)]
    /\ \A e \in Emitters : at[e] \in {"pop", "mark"} => todo[e] # <<>>
    /\ missed \in [Subscribers -> BOOLEAN]
    /\ overlap \in BOOLEAN

\* No emitter is about to send on a closed channel, which would panic, however
\* its loop and Close are interleaved.
NeverSendClosed ==
    \A e \in Emitters : Inside(e) =>
        \A i \in 1 .. Len(todo[e]) : sub[todo[e][i]] = "open"

\* After Close every channel ever handed out is closed ("the channel is closed
\* when the Tracker is closed", "after Close returns an already-closed channel"):
\* a Subscribe that races Close leaves no subscriber waiting for ever.
NoneLeftOpen == closed => \A r \in Subscribers : sub[r] # "open"

\* A subscriber that has lost an event finds a marker in its channel, or the
\* emitter is about to put it there ("a slow consumer degrades visibly rather
\* than silently"), as long as emissions do not overlap. Of two that do, the
\* second may fill the slot the first has made for its marker.
AboutToMark(r) ==
    \E e \in Emitters : at[e] \in {"pop", "mark"} /\ Serving(e) = r
LossMarked ==
    ~overlap => \A r \in Subscribers :
        missed[r] => MarkerQueued(r) \/ AboutToMark(r)

\* emit comes back whether or not any subscriber ever reads. So do Subscribe and
\* Close, which wait for the emitters.
EmitReturns == \A e \in Emitters : at[e] = "waiting" ~> at[e] = "idle"
WritersReturn ==
    /\ \A r \in Subscribers : sub[r] = "asking" ~> sub[r] \in {"open", "closed"}
    /\ writer = Closer ~> closed
CallsReturn == EmitReturns /\ WritersReturn

=============================================================================
