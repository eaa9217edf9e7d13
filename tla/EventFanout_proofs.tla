------------------------- MODULE EventFanout_proofs -------------------------
(***************************************************************************)
(* Safety of the event fan-out, for any emitters, subscribers and depth of *)
(* a channel.                                                              *)
(***************************************************************************)
EXTENDS EventFanout, TLAPS

-----------------------------------------------------------------------------
(* Sequences: a marker survives what is appended behind it and the loss of *)
(* a head that is none.                                                    *)

Has(q, x) == \E i \in 1 .. Len(q) : q[i] = x

\* A queue keeps what it has when something is appended, and has what was.
LEMMA AppendKeeps ==
    ASSUME NEW T, NEW q \in Seq(T), NEW x, NEW y \in T, Has(q, x) \/ x = y
    PROVE  Has(Append(q, y), x)
<1>1. CASE Has(q, x)
  <2>1. PICK i \in 1 .. Len(q) : q[i] = x  BY <1>1 DEF Has
  <2>2. i \in 1 .. Len(Append(q, y)) /\ Append(q, y)[i] = x  BY <2>1
  <2> QED  BY <2>2 DEF Has
<1>2. CASE x = y
  <2>1. Len(q) + 1 \in 1 .. Len(Append(q, y)) /\ Append(q, y)[Len(q) + 1] = x
    BY <1>2
  <2> QED  BY <2>1 DEF Has
<1> QED  BY <1>1, <1>2

\* Dropping the head loses nothing else.
LEMMA TailKeeps ==
    ASSUME NEW T, NEW q \in Seq(T), NEW x, q # <<>>, Has(q, x), Head(q) # x
    PROVE  Has(Tail(q), x)
<1>1. PICK i \in 1 .. Len(q) : q[i] = x  BY DEF Has
<1>2. i # 1  BY <1>1
<1>3. i - 1 \in 1 .. Len(Tail(q)) /\ Tail(q)[i - 1] = x  BY <1>1, <1>2
<1> QED  BY <1>3 DEF Has

-----------------------------------------------------------------------------
(* Type correctness.                                                       *)

\* Every channel stays within its depth, and every variable in its type.
THEOREM FanoutTypeCorrect == Spec => []TypeOK
<1>1. Init => TypeOK
  <2> SUFFICES ASSUME Init PROVE TypeOK  OBVIOUS
  <2>1. overlap \in BOOLEAN  BY ConstantsAssumption DEF Init
  <2>2. /\ queue \in [Subscribers -> Seq({Event, Overflow})]
        /\ \A r \in Subscribers : Len(queue[r]) <= EventBufferSize
    BY ConstantsAssumption DEF Init
  <2>3. todo \in [Emitters -> Seq(Subscribers)] /\ subs \in Seq(Subscribers)
    BY DEF Init
  <2>4. \A e \in Emitters : at[e] = "idle"  BY DEF Init
  <2> QED  BY <2>1, <2>2, <2>3, <2>4 DEF Init, TypeOK
<1>2. TypeOK /\ [Next]_vars => TypeOK'
  <2> SUFFICES ASSUME TypeOK, [Next]_vars PROVE TypeOK'  OBVIOUS
  <2> USE ConstantsAssumption DEF TypeOK
  <2>1. ASSUME NEW e \in Emitters, Emit(e) PROVE TypeOK'  BY <2>1 DEF Emit
  <2>2. ASSUME NEW e \in Emitters, EnterEmit(e) PROVE TypeOK'
    BY <2>2 DEF EnterEmit
  <2>3. ASSUME NEW e \in Emitters, Send(e) PROVE TypeOK'
    BY <2>3 DEF Send, Served, Serving, HasRoom
  <2>4. ASSUME NEW e \in Emitters, Overflows(e) PROVE TypeOK'
    BY <2>4 DEF Overflows, Serving
  <2>5. ASSUME NEW e \in Emitters, Pop(e) PROVE TypeOK'
    BY <2>5 DEF Pop, Popped, Serving
  <2>6. ASSUME NEW e \in Emitters, Mark(e) PROVE TypeOK'
    BY <2>6 DEF Mark, Served, Serving, HasRoom
  <2>7. ASSUME NEW e \in Emitters, LeaveEmit(e) PROVE TypeOK'
    BY <2>7 DEF LeaveEmit
  <2>8. ASSUME NEW r \in Subscribers, CallSubscribe(r) PROVE TypeOK'
    BY <2>8 DEF CallSubscribe
  <2>9. ASSUME NEW r \in Subscribers, LockToSubscribe(r) PROVE TypeOK'
    BY <2>9 DEF LockToSubscribe
  <2>10. ASSUME NEW r \in Subscribers, Subscribe(r) PROVE TypeOK'
    BY <2>10 DEF Subscribe, Subscribed
  <2>11. ASSUME NEW r \in Subscribers, Receive(r) PROVE TypeOK'
    BY <2>11 DEF Receive
  <2>12. CASE LockToClose  BY <2>12 DEF LockToClose
  <2>13. CASE Close  BY <2>13 DEF Close
  <2>14. CASE UNCHANGED vars  BY <2>14 DEF vars
  <2> QED
    BY <2>1, <2>2, <2>3, <2>4, <2>5, <2>6, <2>7, <2>8, <2>9, <2>10, <2>11,
       <2>12, <2>13, <2>14 DEF Next, Step
<1> QED  BY <1>1, <1>2, PTL DEF Spec

-----------------------------------------------------------------------------
(* Channels and locks.                                                     *)

\* The channels in Tracker.subs are open, and none is left open once closed is
\* set; an emitter in its loop keeps the tracker from closing.
Channels ==
    /\ \A i \in 1 .. Len(subs) : sub[subs[i]] = "open"
    /\ writer \in Subscribers => sub[writer] = "asking"
    /\ \A e \in Emitters : Inside(e) => ~closed
    /\ NeverSendClosed
    /\ NoneLeftOpen

LEMMA ChannelsStep == TypeOK /\ Channels /\ [Next]_vars => Channels'
<1> SUFFICES ASSUME TypeOK, Channels, [Next]_vars PROVE Channels'  OBVIOUS
<1> USE ConstantsAssumption DEF TypeOK, Channels, NeverSendClosed, NoneLeftOpen, Inside
<1>1. ASSUME NEW e \in Emitters, Emit(e) PROVE Channels'  BY <1>1 DEF Emit
<1>2. ASSUME NEW e \in Emitters, EnterEmit(e) PROVE Channels'
  <2>1. CASE closed  BY <1>2, <2>1 DEF EnterEmit
  <2>2. CASE ~closed
    <3>1. \A d \in Emitters : d # e => at'[d] = at[d] /\ todo'[d] = todo[d]
      BY <1>2, <2>2 DEF EnterEmit
    <3>2. todo'[e] = subs /\ ~closed' /\ sub' = sub /\ subs' = subs
      BY <1>2, <2>2 DEF EnterEmit
    <3>3. NeverSendClosed'  BY <3>1, <3>2
    <3> QED  BY <1>2, <2>2, <3>3 DEF EnterEmit
  <2> QED  BY <2>1, <2>2
<1>3. ASSUME NEW e \in Emitters, Served(e), todo[e] # <<>>, Inside(e),
             UNCHANGED <<sub, subs, closed, writer>>
      PROVE  Channels'
  <2>1. \A i \in 1 .. Len(todo'[e]) :
          i + 1 \in 1 .. Len(todo[e]) /\ todo'[e][i] = todo[e][i + 1]
    BY <1>3 DEF Served
  <2> QED  BY <1>3, <2>1 DEF Served
<1>4. ASSUME NEW e \in Emitters, Send(e) PROVE Channels'
  BY <1>3, <1>4 DEF Send
<1>5. ASSUME NEW e \in Emitters, Overflows(e) PROVE Channels'
  BY <1>5 DEF Overflows
<1>6. ASSUME NEW e \in Emitters, Pop(e) PROVE Channels'  BY <1>6 DEF Pop
<1>7. ASSUME NEW e \in Emitters, Mark(e) PROVE Channels'
  BY <1>3, <1>7 DEF Mark
<1>8. ASSUME NEW e \in Emitters, LeaveEmit(e) PROVE Channels'
  BY <1>8 DEF LeaveEmit
<1>9. ASSUME NEW r \in Subscribers, CallSubscribe(r) PROVE Channels'
  BY <1>9 DEF CallSubscribe
<1>10. ASSUME NEW r \in Subscribers, LockToSubscribe(r) PROVE Channels'
  BY <1>10 DEF LockToSubscribe
<1>11. ASSUME NEW r \in Subscribers, Subscribe(r) PROVE Channels'
  <2>1. \A i \in 1 .. Len(subs') : sub'[subs'[i]] = "open"
    BY <1>11 DEF Subscribe, Subscribed
  <2>2. \A e \in Emitters : ~Inside(e)' BY <1>11 DEF Subscribe, ReadersGone
  <2> QED  BY <1>11, <2>1, <2>2 DEF Subscribe, Subscribed
<1>12. ASSUME NEW r \in Subscribers, Receive(r) PROVE Channels'
  BY <1>12 DEF Receive
<1>13. CASE LockToClose  BY <1>13 DEF LockToClose
<1>14. CASE Close  BY <1>14 DEF Close, ReadersGone
<1>15. CASE UNCHANGED vars  BY <1>15 DEF vars
<1> QED
  BY <1>1, <1>2, <1>4, <1>5, <1>6, <1>7, <1>8, <1>9, <1>10, <1>11, <1>12,
     <1>13, <1>14, <1>15 DEF Next, Step

LEMMA ChannelsHold == Spec => [](TypeOK /\ Channels)
<1>1. Init => Channels
  <2> SUFFICES ASSUME Init PROVE Channels  OBVIOUS
  <2>1. Len(subs) = 0 /\ writer \notin Subscribers /\ ~closed
    BY ConstantsAssumption DEF Init
  <2>2. \A e \in Emitters : ~Inside(e)  BY DEF Init, Inside
  <2> QED  BY <2>1, <2>2 DEF Channels, NeverSendClosed, NoneLeftOpen
<1> QED  BY <1>1, ChannelsStep, FanoutTypeCorrect, PTL DEF Spec

\* No emitter is about to send on a closed channel.
THEOREM SendsOnOpenChannels == Spec => []NeverSendClosed
<1>1. Channels => NeverSendClosed  BY DEF Channels
<1> QED  BY <1>1, ChannelsHold, PTL

\* Close, and a Subscribe that races it, leave no channel open.
THEOREM ClosedForAll == Spec => []NoneLeftOpen
<1>1. Channels => NoneLeftOpen  BY DEF Channels
<1> QED  BY <1>1, ChannelsHold, PTL

-----------------------------------------------------------------------------
(* The overflow marker, when emissions do not overlap.                     *)

\* A single emitter finds the room it has made.
Marking ==
    ~overlap =>
      /\ \A e, d \in Emitters : at[e] # "idle" /\ at[d] # "idle" => e = d
      /\ \A e \in Emitters : at[e] = "mark" => HasRoom(Serving(e))

\* The marker queued or due, as the lemmas on sequences say it.
LEMMA QueuedIsHas == \A r \in Subscribers : MarkerQueued(r) <=> Has(queue[r], Overflow)
BY DEF MarkerQueued, Has

LEMMA QueuedIsHasPrimed ==
    \A r \in Subscribers : MarkerQueued(r)' <=> Has(queue'[r], Overflow)
BY DEF MarkerQueued, Has

LEMMA MarkingStep == TypeOK /\ Marking /\ [Next]_vars => Marking'
<1> SUFFICES ASSUME TypeOK, Marking, [Next]_vars PROVE Marking'  OBVIOUS
<1> USE ConstantsAssumption DEF TypeOK, Marking, HasRoom, Serving
<1>1. ASSUME NEW e \in Emitters, Emit(e) PROVE Marking'  BY <1>1 DEF Emit
<1>0. ASSUME NEW e \in Emitters, at[e] # "idle", at'[e] # "mark",
             \A d \in Emitters : d # e => at'[d] = at[d], overlap' = overlap
      PROVE  Marking'
  BY <1>0
<1>2. ASSUME NEW e \in Emitters, EnterEmit(e) PROVE Marking'
  <2>1. at[e] # "idle" /\ at'[e] # "mark" /\ overlap' = overlap
    BY <1>2 DEF EnterEmit
  <2>2. \A d \in Emitters : d # e => at'[d] = at[d]  BY <1>2 DEF EnterEmit
  <2> QED  BY <1>0, <2>1, <2>2
<1>3. ASSUME NEW e \in Emitters, Send(e) PROVE Marking'
  BY <1>3 DEF Send, Served
<1>4. ASSUME NEW e \in Emitters, Overflows(e) PROVE Marking'
  BY <1>4 DEF Overflows
<1>5. ASSUME NEW e \in Emitters, Pop(e) PROVE Marking'
  <2>1. Len(queue'[Serving(e)]) < EventBufferSize  BY <1>5 DEF Pop, Popped
  <2> QED  BY <1>5, <2>1 DEF Pop
<1>6. ASSUME NEW e \in Emitters, Mark(e) PROVE Marking'
  <2>1. at[e] # "idle" /\ at'[e] # "mark" /\ overlap' = overlap
    BY <1>6 DEF Mark, Served
  <2>2. \A d \in Emitters : d # e => at'[d] = at[d]  BY <1>6 DEF Mark, Served
  <2> QED  BY <1>0, <2>1, <2>2
<1>7. ASSUME NEW e \in Emitters, LeaveEmit(e) PROVE Marking'
  BY <1>7 DEF LeaveEmit
<1>8. ASSUME NEW r \in Subscribers, CallSubscribe(r) PROVE Marking'
  BY <1>8 DEF CallSubscribe
<1>9. ASSUME NEW r \in Subscribers, LockToSubscribe(r) PROVE Marking'
  BY <1>9 DEF LockToSubscribe
<1>10. ASSUME NEW r \in Subscribers, Subscribe(r) PROVE Marking'
  BY <1>10 DEF Subscribe
<1>11. ASSUME NEW r \in Subscribers, Receive(r) PROVE Marking'
  <2>1. \A p \in Subscribers : Len(queue'[p]) <= Len(queue[p])
    BY <1>11 DEF Receive
  <2> QED  BY <1>11, <2>1 DEF Receive
<1>12. CASE LockToClose  BY <1>12 DEF LockToClose
<1>13. CASE Close  BY <1>13 DEF Close
<1>14. CASE UNCHANGED vars  BY <1>14 DEF vars
<1> QED
  BY <1>1, <1>2, <1>3, <1>4, <1>5, <1>6, <1>7, <1>8, <1>9, <1>10, <1>11,
     <1>12, <1>13, <1>14 DEF Next, Step

\* A subscriber that has lost something finds a marker, now and after a step.
Marked(r) == MarkerQueued(r) \/ AboutToMark(r)

LEMMA LossMarkedStep ==
    TypeOK /\ Marking /\ LossMarked /\ [Next]_vars => LossMarked'
<1> SUFFICES ASSUME TypeOK, Marking, LossMarked, [Next]_vars, ~overlap',
                    NEW p \in Subscribers, missed'[p]
             PROVE  Marked(p)'
  BY DEF LossMarked, Marked
<1>0. ~overlap /\ (missed[p] => Marked(p))
  BY DEF LossMarked, Marked, Next, Step, vars, Emit, EnterEmit, Send, Overflows,
         Pop, Mark, LeaveEmit, CallSubscribe, LockToSubscribe, Subscribe, Receive,
         LockToClose, Close
\* What leaves the channel, the losses and the markers due as they are.
<1>1. ASSUME queue'[p] = queue[p], missed'[p] = missed[p],
             \A e \in Emitters : at[e] \in {"pop", "mark"} =>
                at'[e] = at[e] /\ todo'[e] = todo[e]
      PROVE  Marked(p)'
  BY <1>0, <1>1 DEF Marked, MarkerQueued, AboutToMark, Serving
<1>2. ASSUME NEW e \in Emitters, Emit(e) PROVE Marked(p)'
  BY <1>1, <1>2 DEF Emit, TypeOK
<1>3. ASSUME NEW e \in Emitters, EnterEmit(e) PROVE Marked(p)'
  BY <1>1, <1>3 DEF EnterEmit, TypeOK
<1>4. ASSUME NEW e \in Emitters, Send(e) PROVE Marked(p)'
  <2>1. missed[p] /\ Serving(e) \in Subscribers
    BY <1>4 DEF Send, TypeOK, Serving
  <2>2. CASE AboutToMark(p)
    BY <1>4, <2>2 DEF Send, Served, AboutToMark, Marked, TypeOK, Serving
  <2>3. CASE MarkerQueued(p)
    <3>1. Has(queue[p], Overflow)  BY <2>3, QueuedIsHas
    <3>2. queue'[p] = queue[p] \/ queue'[p] = Append(queue[p], Event)
      BY <1>4 DEF Send, TypeOK
    <3>3. Has(Append(queue[p], Event), Overflow)
      BY <3>1, AppendKeeps DEF TypeOK
    <3> QED  BY <3>1, <3>2, <3>3, QueuedIsHasPrimed DEF Marked
  <2> QED  BY <1>0, <2>1, <2>2, <2>3 DEF Marked
<1>5. ASSUME NEW e \in Emitters, Overflows(e) PROVE Marked(p)'
  <2>1. CASE p = Serving(e)
    BY <1>5, <2>1 DEF Overflows, AboutToMark, Marked, TypeOK, Serving
  <2>2. CASE p # Serving(e)
    BY <1>1, <1>5, <2>2 DEF Overflows, TypeOK, Serving
  <2> QED  BY <2>1, <2>2
<1>6. ASSUME NEW e \in Emitters, Pop(e) PROVE Marked(p)'
  <2>1. CASE p = Serving(e)
    BY <1>6, <2>1 DEF Pop, AboutToMark, Marked, TypeOK, Serving
  <2>2. CASE p # Serving(e)
    <3>1. queue'[p] = queue[p] /\ missed'[p] = missed[p]
      BY <1>6, <2>2 DEF Pop, Popped, TypeOK, Serving
    <3>2. AboutToMark(p) => AboutToMark(p)'
      BY <1>6 DEF Pop, AboutToMark, TypeOK, Serving
    <3> QED  BY <1>0, <3>1, <3>2 DEF Marked, MarkerQueued
  <2> QED  BY <2>1, <2>2
<1>7. ASSUME NEW e \in Emitters, Mark(e) PROVE Marked(p)'
  <2>1. CASE p = Serving(e)
    <3>1. queue'[p] = Append(queue[p], Overflow)
      BY <1>0, <1>7, <2>1 DEF Mark, Marking, TypeOK
    <3>2. Has(queue'[p], Overflow)  BY <3>1, AppendKeeps DEF TypeOK
    <3> QED  BY <3>2, QueuedIsHasPrimed DEF Marked
  <2>2. CASE p # Serving(e)
    <3>1. queue'[p] = queue[p] /\ missed'[p] = missed[p]
      BY <1>7, <2>2 DEF Mark, TypeOK, Serving
    <3>2. AboutToMark(p) => AboutToMark(p)'
      BY <1>7, <2>2 DEF Mark, Served, AboutToMark, TypeOK, Serving
    <3> QED  BY <1>0, <3>1, <3>2 DEF Marked, MarkerQueued
  <2> QED  BY <2>1, <2>2
<1>8. ASSUME NEW e \in Emitters, LeaveEmit(e) PROVE Marked(p)'
  BY <1>1, <1>8 DEF LeaveEmit, TypeOK
<1>9. ASSUME NEW r \in Subscribers, Receive(r) PROVE Marked(p)'
  <2>1. CASE p # r  BY <1>1, <1>9, <2>1 DEF Receive, TypeOK
  <2>2. CASE p = r
    <3>1. /\ missed[p] /\ Head(queue[p]) # Overflow /\ queue[p] # <<>>
          /\ queue'[p] = Tail(queue[p]) /\ at' = at /\ todo' = todo
      BY <1>9, <2>2 DEF Receive, TypeOK
    <3>2. CASE MarkerQueued(p)
      <4>1. Has(Tail(queue[p]), Overflow)
        BY <3>1, <3>2, QueuedIsHas, TailKeeps DEF TypeOK
      <4> QED  BY <3>1, <4>1, QueuedIsHasPrimed DEF Marked
    <3>3. CASE AboutToMark(p)
      BY <3>1, <3>3 DEF AboutToMark, Marked, Serving
    <3> QED  BY <1>0, <3>1, <3>2, <3>3 DEF Marked
  <2> QED  BY <2>1, <2>2
<1>10. ASSUME UNCHANGED <<queue, at, todo, missed>> PROVE Marked(p)'
  BY <1>1, <1>10
<1>11. ASSUME NEW r \in Subscribers,
              CallSubscribe(r) \/ LockToSubscribe(r) \/ Subscribe(r)
       PROVE  Marked(p)'
  BY <1>10, <1>11 DEF CallSubscribe, LockToSubscribe, Subscribe
<1>12. CASE LockToClose \/ Close \/ UNCHANGED vars
  BY <1>10, <1>12 DEF LockToClose, Close, vars
<1> QED
  BY <1>2, <1>3, <1>4, <1>5, <1>6, <1>7, <1>8, <1>9, <1>11, <1>12
  DEF Next, Step

\* Where emissions do not overlap, no loss stays unknown to its subscriber.
THEOREM LossesAreMarked == Spec => []LossMarked
<1>1. Init => Marking /\ LossMarked  BY DEF Init, Marking, LossMarked
<1> QED  BY <1>1, MarkingStep, LossMarkedStep, FanoutTypeCorrect, PTL DEF Spec

=============================================================================
