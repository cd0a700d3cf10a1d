----------------------------- MODULE GpioProofs -----------------------------
(***************************************************************************)
(* Proofs about the GPIOs.  Inputs (GpioInput): type correctness, that a   *)
(* long press is only reported while the button is down, and the           *)
(* refinement of Button.  Outputs (GpioOutput): blink timers keep to their *)
(* GPIOs, for any number of GPIOs, descriptors and calls.                  *)
(***************************************************************************)
EXTENDS GpioInput, GpioOutput, TLAPS

-----------------------------------------------------------------------------
(* Inputs.                                                                 *)

(* Taking the first n elements of a sequence, or leaving them out, gives a *)
(* sequence; ReadEdges splits the kernel's queue that way.                 *)
LEMMA SplitSequence ==
    ASSUME NEW S, NEW s \in Seq(S), NEW n \in 0..Len(s)
    PROVE  /\ SubSeq(s, 1, n) \in Seq(S)
           /\ SubSeq(s, n + 1, Len(s)) \in Seq(S)
           /\ Len(SubSeq(s, 1, n)) = n
           /\ Len(SubSeq(s, n + 1, Len(s))) = Len(s) - n
           /\ \A i \in 1..n : SubSeq(s, 1, n)[i] = s[i]
           /\ \A i \in 1..(Len(s) - n) : SubSeq(s, n + 1, Len(s))[i] = s[n + i]
  OBVIOUS

(* Every variable keeps its type: every step of the line, the clock and    *)
(* the daemon's handlers.                                                  *)
THEOREM TypeCorrect == Spec => []TypeOK
<1>1. Init => TypeOK
  <2> SUFFICES ASSUME Init PROVE TypeOK
    OBVIOUS
  <2>1. /\ queue \in Seq(Edges) /\ batch \in Seq(Edges)
        /\ Len(queue) <= KernelQueueMax /\ Len(batch) <= GPIO_EVENT_BUF_SIZE
    BY SizesAssumption DEF Init
  <2>2. lastEdge \in Edges
    BY DEF Init, Edges, EdgeTo
  <2>3. changes \in 0..EdgesMax
    BY SizesAssumption DEF Init
  <2> QED
    BY <2>1, <2>2, <2>3 DEF Init, TypeOK, DaemonStates
<1>2. TypeOK /\ [Next]_vars => TypeOK'
  <2> SUFFICES ASSUME TypeOK, [Next]_vars PROVE TypeOK'
    OBVIOUS
  <2> USE SizesAssumption DEF TypeOK
  <2>1. CASE Change
    BY <2>1 DEF Change, Requested, KernelQueueFull, Edges, Values, EdgeTo, env
  <2>2. CASE TimerExpire
    BY <2>2 DEF TimerExpire, env
  <2>3. CASE Poll
    BY <2>3 DEF Poll, DaemonStates, env
  <2>4. CASE ReadEdges
    <3> DEFINE n == BatchLength
    <3>1. n \in 0..Len(queue) /\ n <= GPIO_EVENT_BUF_SIZE
      BY DEF BatchLength
    <3>2. batch' = SubSeq(queue, 1, n) /\ queue' = SubSeq(queue, n + 1, Len(queue))
      BY <2>4 DEF ReadEdges
    <3> HIDE DEF n
    <3>3. /\ batch' \in Seq(Edges) /\ Len(batch') <= GPIO_EVENT_BUF_SIZE
          /\ queue' \in Seq(Edges) /\ Len(queue') <= KernelQueueMax
      BY <3>1, <3>2, SplitSequence
    <3> QED
      BY <2>4, <3>3 DEF ReadEdges, DaemonStates
  <2>5. CASE HandleEdge
    <3>1. /\ Head(batch) \in Edges /\ Tail(batch) \in Seq(Edges)
          /\ Len(Tail(batch)) <= GPIO_EVENT_BUF_SIZE
      BY <2>5 DEF HandleEdge
    <3> QED
      BY <2>5, <3>1 DEF HandleEdge, DelayAbort, ReleaseIgnored, DaemonStates, env
  <2>6. CASE Capture
    BY <2>6 DEF Capture, Readings, DaemonStates, env
  <2>7. CASE EndOfBatch
    BY <2>7 DEF EndOfBatch, DaemonStates, env
  <2>8. CASE LongPress
    BY <2>8 DEF LongPress, DelayAbort, IgnoreRelease, DaemonStates, env
  <2>9. CASE UNCHANGED vars
    BY <2>9 DEF vars, env
  <2>10. CASE ReadEdgesFails
    BY <2>10 DEF ReadEdgesFails, DaemonStates, env
  <2> QED
    BY <2>1, <2>2, <2>3, <2>4, <2>5, <2>6, <2>7, <2>8, <2>9, <2>10 DEF Next, Daemon
<1> QED
  BY <1>1, <1>2, PTL DEF Spec

(* PressInv is inductive if both edges are requested.                      *)
(* The step that matters is Poll: gpio_action_execute_delayed is only      *)
(* reached when the GPIO itself had nothing to report.                     *)
LEMMA PressInvCorrect ==
    ASSUME Requests = {"both"}
    PROVE  Spec => []PressInv
<1>1. Init => PressInv
  BY DEF Init, PressInv, TimerBelongsToPress, LineFollowsEdges, LatestEdge, PressValueOk
<1>2. TypeOK /\ PressInv /\ [Next]_vars => PressInv'
  <2> SUFFICES ASSUME TypeOK, PressInv, [Next]_vars PROVE PressInv'
    OBVIOUS
  <2> USE SizesAssumption
      DEF TypeOK, PressInv, TimerBelongsToPress, LineFollowsEdges, LatestEdge, PressValueOk
  <2>1. CASE Change
    <3>1. PICK v \in Values \ {line} :
            /\ line' = v
            /\ queue' = Append(IF Len(queue) = KernelQueueMax THEN Tail(queue) ELSE queue,
                               EdgeTo(v))
      BY <2>1 DEF Change, Configs, Requested, KernelQueueFull
    <3>2. queue' # <<>> /\ queue'[Len(queue')] = EdgeTo(v)
      BY <3>1
    <3> QED
      BY <2>1, <3>1, <3>2 DEF Change
  <2>2. CASE TimerExpire
    BY <2>2 DEF TimerExpire, env
  <2>3. CASE Poll
    BY <2>3 DEF Poll, env
  <2>4. CASE ReadEdges
    <3> DEFINE n == BatchLength
    <3>1. n \in 0..Len(queue) /\ n <= GPIO_EVENT_BUF_SIZE
      BY DEF BatchLength
    <3>2. batch' = SubSeq(queue, 1, n) /\ queue' = SubSeq(queue, n + 1, Len(queue))
      BY <2>4 DEF ReadEdges
    <3>3. batch = <<>>
      BY <2>4 DEF ReadEdges
    <3>4. n = Len(queue) \/ n < Len(queue)
      BY <3>1
    <3>5. queue # <<>> => n > 0
      BY DEF BatchLength
    <3> HIDE DEF n
    <3>6. /\ batch' \in Seq(Edges) /\ queue' \in Seq(Edges)
          /\ Len(batch') = n /\ Len(queue') = Len(queue) - n
          /\ \A i \in 1..n : batch'[i] = queue[i]
          /\ \A i \in 1..(Len(queue) - n) : queue'[i] = queue[n + i]
      BY <3>1, <3>2, SplitSequence
    <3>7. LatestEdge' = LatestEdge
      <4>1. CASE queue = <<>>
        <5>1. batch' = <<>> /\ queue' = <<>>
          BY <4>1, <3>1, <3>6
        <5> QED
          BY <4>1, <5>1, <3>3, <2>4 DEF ReadEdges
      <4>2. CASE queue # <<>> /\ n = Len(queue)
        <5>1. queue' = <<>> /\ batch' # <<>> /\ batch'[Len(batch')] = queue[Len(queue)]
          BY <4>2, <3>1, <3>5, <3>6
        <5> QED
          BY <4>2, <5>1
      <4>3. CASE queue # <<>> /\ n < Len(queue)
        <5>1. queue' # <<>>
          BY <4>3, <3>1, <3>6
        <5>2. queue'[Len(queue')] = queue[n + (Len(queue) - n)]
          BY <4>3, <3>1, <3>6
        <5>3. n + (Len(queue) - n) = Len(queue)
          BY <3>1
        <5> QED
          BY <4>3, <5>1, <5>2, <5>3
      <4> QED
        BY <4>1, <4>2, <4>3, <3>4
    <3>8. batch' = <<>> /\ queue' = <<>> => queue = <<>>
      BY <3>1, <3>5, <3>6
    <3> QED
      BY <2>4, <3>3, <3>7, <3>8 DEF ReadEdges
  <2>5. CASE HandleEdge
    <3>1. LatestEdge' = LatestEdge
      <4>1. batch # <<>> /\ lastEdge' = Head(batch) /\ batch' = Tail(batch) /\ queue' = queue
        BY <2>5 DEF HandleEdge, env
      <4>2. Head(batch) = batch[1]
        BY <4>1
      <4>3. ASSUME Len(batch) > 1
            PROVE  batch' # <<>> /\ batch'[Len(batch')] = batch[Len(batch)]
        <5>1. Len(batch') = Len(batch) - 1 /\ batch' \in Seq(Edges)
          BY <4>1
        <5>2. \A i \in 1..(Len(batch) - 1) : batch'[i] = batch[i + 1]
          BY <4>1
        <5>3. batch'[Len(batch) - 1] = batch[(Len(batch) - 1) + 1]
          BY <4>3, <5>2
        <5> QED
          BY <4>3, <5>1, <5>3
      <4>4. Len(batch) = 1 => batch' = <<>>
        BY <4>1
      <4>5. Len(batch) \in Nat /\ Len(batch) # 0
        BY <4>1
      <4>6. CASE queue # <<>>
        BY <4>1, <4>6
      <4>7. CASE queue = <<>> /\ Len(batch) = 1
        BY <4>1, <4>2, <4>4, <4>7
      <4>8. CASE queue = <<>> /\ Len(batch) > 1
        BY <4>1, <4>3, <4>8
      <4>9. Len(batch) = 1 \/ Len(batch) > 1
        <5>1. \A n \in Nat : n # 0 => n = 1 \/ n > 1
          OBVIOUS
        <5> QED
          BY <4>5, <5>1
      <4> HIDE DEF LatestEdge
      <4> QED
        BY <4>6, <4>7, <4>8, <4>9
    <3>2. pc = "batch" /\ timer' = "off" /\ ~ignoreEvent' /\ pc' \in {"batch", "capture"}
      BY <2>5 DEF HandleEdge, DelayAbort, ReleaseIgnored
    <3>3. pc' = "capture" => config.press = lastEdge'
      BY <2>5 DEF HandleEdge
    <3> QED
      BY <2>5, <3>1, <3>2, <3>3 DEF HandleEdge, env
  <2>6. CASE Capture
    BY <2>6 DEF Capture, Readings, env
  <2>7. CASE EndOfBatch
    BY <2>7 DEF EndOfBatch, env
  <2>8. CASE LongPress
    BY <2>8 DEF LongPress, DelayAbort, env
  <2>9. CASE UNCHANGED vars
    BY <2>9 DEF vars, env
  <2>10. CASE ReadEdgesFails
    BY <2>10 DEF ReadEdgesFails, DaemonStates, env
  <2> QED
    BY <2>1, <2>2, <2>3, <2>4, <2>5, <2>6, <2>7, <2>8, <2>9, <2>10 DEF Next, Daemon
<1> QED
  BY <1>1, <1>2, TypeCorrect, PTL DEF Spec

(* With both edges requested, gpio_action_execute_delayed raises           *)
(* long_press only while the button is down (or if the line could not be   *)
(* read), for every queue and buffer size and every number of edges.       *)
THEOREM LongPressCorrect ==
    ASSUME Requests = {"both"}
    PROVE  Spec => LongPressWhilePressed
<1>1. TypeOK /\ PressInv /\ [Next]_vars
        => [event # "long_press" /\ event' = "long_press"
              => Pressed \/ pressValue = "error"]_vars
  <2> SUFFICES ASSUME TypeOK, PressInv, [Next]_vars,
                      event # "long_press", event' = "long_press", pressValue # "error"
               PROVE  Pressed
    OBVIOUS
  <2>1. LongPress
    <3>1. batch # <<>> => Head(batch) \in Edges
      BY DEF TypeOK
    <3> QED
      BY <3>1 DEF Next, Daemon, Change, TimerExpire, Poll, ReadEdges, ReadEdgesFails, HandleEdge,
                  Capture, EndOfBatch, vars, env, Edges
  <2>2. EdgeTo(pressValue) = config.press
    BY <2>1 DEF LongPress, PressInv, PressValueOk
  <2>3. line = pressValue
    BY <2>1 DEF LongPress, Readings
  <2> QED
    BY <2>2, <2>3 DEF Pressed
<1> QED
  BY <1>1, TypeCorrect, PressInvCorrect, PTL DEF Spec, LongPressWhilePressed

-----------------------------------------------------------------------------
(* The refinement of Button.                                               *)

(* No two neighbours are the same edge.                                    *)
Alternates(q) == \A i \in 1..(Len(q) - 1) : q[i] # q[i + 1]

(* As long as the kernel has dropped nothing, the edge handled last, those *)
(* read and those in the kernel alternate.                                 *)
EdgesAlternate ==
    ~dropped =>
        /\ Alternates(batch)
        /\ Alternates(queue)
        /\ batch # <<>> => batch[1] # lastEdge
        /\ queue # <<>> /\ batch # <<>> => queue[1] # batch[Len(batch)]
        /\ queue # <<>> /\ batch = <<>> => queue[1] # lastEdge

(* EdgesAlternate is inductive: a change of the line queues the edge that  *)
(* is opposite to the latest one, which led to the value before it.        *)
LEMMA AlternateStep ==
    ASSUME Requests = {"both"}, TypeOK, PressInv, EdgesAlternate, [Next]_vars
    PROVE  EdgesAlternate'
<1>0. /\ Len(queue) \in Nat /\ Len(batch) \in Nat
      /\ queue \in Seq(Edges) /\ batch \in Seq(Edges)
  BY DEF TypeOK
<1>1. CASE Change
  <2>1. PICK v \in Values \ {line} :
          /\ line' = v
          /\ queue' = Append(IF KernelQueueFull THEN Tail(queue) ELSE queue, EdgeTo(v))
          /\ dropped' = (dropped \/ KernelQueueFull)
          /\ UNCHANGED <<batch, lastEdge>>
    BY <1>1 DEF Change, Configs, Requested, TypeOK
  <2>2. EdgeTo(v) # LatestEdge
    BY <2>1 DEF PressInv, LineFollowsEdges, EdgeTo, Values, TypeOK
  <2>3. CASE dropped'
    BY <2>3 DEF EdgesAlternate
  <2>4. CASE ~dropped'
    <3>1. ~dropped /\ queue' = Append(queue, EdgeTo(v))
      BY <2>1, <2>4 DEF TypeOK
    <3>2. /\ Len(queue') = Len(queue) + 1 /\ queue' # <<>>
          /\ \A i \in 1..Len(queue) : queue'[i] = queue[i]
          /\ queue'[Len(queue) + 1] = EdgeTo(v)
      BY <1>0, <3>1
    <3>3. Alternates(batch') /\ (batch' # <<>> => batch'[1] # lastEdge')
      BY <2>1, <3>1 DEF EdgesAlternate, Alternates
    <3>4. CASE queue = <<>>
      <4>1. Len(queue') = 1 /\ queue'[1] = EdgeTo(v)
        BY <3>2, <3>4
      <4>2. Alternates(queue')
        BY <4>1 DEF Alternates
      <4>3. (batch # <<>> => EdgeTo(v) # batch[Len(batch)])
            /\ (batch = <<>> => EdgeTo(v) # lastEdge)
        BY <2>2, <3>4 DEF LatestEdge
      <4> QED
        BY <2>1, <3>3, <4>1, <4>2, <4>3 DEF EdgesAlternate
    <3>5. CASE queue # <<>>
      <4>1. Len(queue) >= 1 /\ EdgeTo(v) # queue[Len(queue)]
        BY <1>0, <2>2, <3>5 DEF LatestEdge
      <4>2. ASSUME NEW i \in 1..(Len(queue') - 1) PROVE queue'[i] # queue'[i + 1]
        <5>1. CASE i = Len(queue)
          BY <1>0, <3>2, <4>1, <5>1
        <5>2. CASE i # Len(queue)
          <6>1. i \in 1..(Len(queue) - 1) /\ i \in 1..Len(queue) /\ i + 1 \in 1..Len(queue)
            BY <1>0, <3>2, <5>2
          <6>2. queue[i] # queue[i + 1]
            BY <3>1, <6>1 DEF EdgesAlternate, Alternates
          <6> QED
            BY <3>2, <6>1, <6>2
        <5> QED
          BY <5>1, <5>2
      <4>3. queue'[1] = queue[1]
        BY <1>0, <3>2, <4>1
      <4>4. Alternates(queue')
        BY <4>2 DEF Alternates
      <4>5. (batch # <<>> => queue[1] # batch[Len(batch)]) /\ (batch = <<>> => queue[1] # lastEdge)
        BY <3>1, <3>5 DEF EdgesAlternate
      <4> QED
        BY <2>1, <3>3, <4>3, <4>4, <4>5 DEF EdgesAlternate
    <3> QED
      BY <3>4, <3>5
  <2> QED
    BY <2>3, <2>4
<1>2. CASE ReadEdges
  <2> DEFINE n == BatchLength
  <2>1. n \in 0..Len(queue)
    BY <1>0, SizesAssumption DEF BatchLength
  <2>2. /\ batch' = SubSeq(queue, 1, n) /\ queue' = SubSeq(queue, n + 1, Len(queue))
        /\ UNCHANGED <<dropped, lastEdge>> /\ batch = <<>>
    BY <1>2 DEF ReadEdges, PressInv
  <2>3. queue # <<>> => n > 0
    BY <1>0, SizesAssumption DEF BatchLength
  <2> HIDE DEF n
  <2>4. /\ batch' \in Seq(Edges) /\ queue' \in Seq(Edges)
        /\ Len(batch') = n /\ Len(queue') = Len(queue) - n
        /\ \A i \in 1..n : batch'[i] = queue[i]
        /\ \A i \in 1..(Len(queue) - n) : queue'[i] = queue[n + i]
    BY <1>0, <2>1, <2>2, SplitSequence
  <2>5. CASE dropped
    BY <2>2, <2>5 DEF EdgesAlternate
  <2>6. CASE ~dropped
    <3>0. /\ \A i \in 1..(Len(queue) - 1) : queue[i] # queue[i + 1]
          /\ queue # <<>> => queue[1] # lastEdge
      BY <2>2, <2>6 DEF EdgesAlternate, Alternates
    <3>1. Alternates(batch')
      <4>1. ASSUME NEW i \in 1..(n - 1) PROVE batch'[i] # batch'[i + 1]
        <5>1. i \in 1..n /\ i + 1 \in 1..n /\ i \in 1..(Len(queue) - 1)
          BY <1>0, <2>1
        <5> QED
          BY <2>4, <3>0, <5>1
      <4> QED
        BY <2>4, <4>1 DEF Alternates
    <3>2. Alternates(queue')
      <4>1. ASSUME NEW i \in 1..(Len(queue) - n - 1) PROVE queue'[i] # queue'[i + 1]
        <5>1. /\ i \in 1..(Len(queue) - n) /\ i + 1 \in 1..(Len(queue) - n)
              /\ n + i \in 1..(Len(queue) - 1) /\ n + (i + 1) = (n + i) + 1
          BY <1>0, <2>1
        <5>2. queue'[i] = queue[n + i] /\ queue'[i + 1] = queue[n + (i + 1)]
          BY <2>4, <5>1
        <5>3. queue[n + i] # queue[(n + i) + 1]
          BY <3>0, <5>1
        <5> QED
          BY <5>1, <5>2, <5>3
      <4> QED
        BY <2>4, <4>1 DEF Alternates
    <3>3. CASE queue = <<>>
      <4>1. batch' = <<>> /\ queue' = <<>>
        BY <1>0, <2>1, <2>4, <3>3
      <4> QED
        BY <3>1, <3>2, <4>1 DEF EdgesAlternate
    <3>4. CASE queue # <<>>
      <4>1. n \in 1..Len(queue) /\ batch' # <<>> /\ batch'[1] = queue[1]
        BY <1>0, <2>1, <2>3, <2>4, <3>4
      <4>2. queue' # <<>> => queue'[1] # batch'[Len(batch')]
        <5> SUFFICES ASSUME queue' # <<>> PROVE queue'[1] # batch'[Len(batch')]
          OBVIOUS
        <5>1. n \in 1..(Len(queue) - 1) /\ 1 \in 1..(Len(queue) - n)
          BY <1>0, <2>1, <2>4, <4>1
        <5>2. queue'[1] = queue[n + 1] /\ batch'[Len(batch')] = queue[n]
          BY <2>4, <4>1, <5>1
        <5> QED
          BY <3>0, <5>1, <5>2
      <4> QED
        BY <2>2, <3>0, <3>1, <3>2, <3>4, <4>1, <4>2 DEF EdgesAlternate
    <3> QED
      BY <3>3, <3>4
  <2> QED
    BY <2>5, <2>6
<1>3. CASE HandleEdge
  <2>1. /\ batch # <<>> /\ lastEdge' = batch[1] /\ batch' = Tail(batch)
        /\ UNCHANGED <<queue, dropped>>
    BY <1>0, <1>3 DEF HandleEdge, env
  <2>2. /\ Len(batch) >= 1 /\ batch' \in Seq(Edges) /\ Len(batch') = Len(batch) - 1
        /\ \A i \in 1..(Len(batch) - 1) : batch'[i] = batch[i + 1]
    BY <1>0, <2>1
  <2>3. CASE dropped
    BY <2>1, <2>3 DEF EdgesAlternate
  <2>4. CASE ~dropped
    <3>0. /\ \A i \in 1..(Len(batch) - 1) : batch[i] # batch[i + 1]
          /\ queue # <<>> => queue[1] # batch[Len(batch)]
          /\ Alternates(queue)
      BY <2>1, <2>4 DEF EdgesAlternate, Alternates
    <3>1. Alternates(queue')
      BY <2>1, <3>0 DEF Alternates
    <3>2. Alternates(batch')
      <4>1. ASSUME NEW i \in 1..(Len(batch) - 1 - 1) PROVE batch'[i] # batch'[i + 1]
        <5>1. /\ i \in 1..(Len(batch) - 1) /\ i + 1 \in 1..(Len(batch) - 1)
          BY <1>0
        <5> QED
          BY <2>2, <3>0, <5>1
      <4> QED
        BY <2>2, <4>1 DEF Alternates
    <3>3. CASE batch' = <<>>
      <4>1. Len(batch) = 1
        BY <1>0, <2>2, <3>3
      <4> QED
        BY <2>1, <3>0, <3>1, <3>2, <3>3, <4>1 DEF EdgesAlternate
    <3>4. CASE batch' # <<>>
      <4>1. 1 \in 1..(Len(batch) - 1) /\ Len(batch) - 1 \in 1..(Len(batch) - 1)
        BY <1>0, <2>2, <3>4
      <4>2. batch'[1] = batch[2] /\ batch[1] # batch[2]
        BY <2>2, <3>0, <4>1
      <4>3. batch'[Len(batch')] = batch[Len(batch)]
        <5>1. batch'[Len(batch) - 1] = batch[(Len(batch) - 1) + 1]
          BY <2>2, <4>1
        <5> QED
          BY <1>0, <2>2, <5>1
      <4> QED
        BY <2>1, <3>0, <3>1, <3>2, <3>4, <4>2, <4>3 DEF EdgesAlternate
    <3> QED
      BY <3>3, <3>4
  <2> QED
    BY <2>3, <2>4
<1>4. CASE \/ TimerExpire \/ Poll \/ ReadEdgesFails \/ Capture \/ EndOfBatch \/ LongPress
           \/ UNCHANGED vars
  <2>1. UNCHANGED <<batch, queue, dropped, lastEdge>>
    BY <1>4 DEF TimerExpire, Poll, ReadEdgesFails, Capture, EndOfBatch, LongPress, vars, env
  <2> QED
    BY <2>1 DEF EdgesAlternate, Alternates
<1> QED
  BY <1>1, <1>2, <1>3, <1>4 DEF Next, Daemon

(* Every step of the daemon, the line and the clock is one of the button,  *)
(* or changes nothing there.                                               *)
LEMMA ButtonStep ==
    ASSUME Requests = {"both"}, TypeOK, PressInv, EdgesAlternate, [Next]_vars
    PROVE  [B!Next]_(B!vars)
<1>1. config' = config
  BY DEF Next, Daemon, Change, TimerExpire, Poll, ReadEdges, ReadEdgesFails, HandleEdge, Capture,
         EndOfBatch, LongPress, vars, env
<1>2. ASSUME UNCHANGED <<lastEdge, ignoreEvent, dropped>> PROVE UNCHANGED B!vars
  BY <1>1, <1>2 DEF B!vars, Phase
<1>3. CASE Change
  <2>1. UNCHANGED <<lastEdge, ignoreEvent>> /\ (dropped' = TRUE \/ dropped' = dropped)
    BY <1>3 DEF Change, TypeOK, Values
  <2>2. Phase' = Phase
    BY <1>1, <2>1 DEF Phase
  <2> QED
    BY <1>2, <2>1, <2>2 DEF B!Next, B!Lose
<1>4. CASE HandleEdge
  <2>1. /\ batch # <<>> /\ lastEdge' = batch[1] /\ dropped' = dropped /\ ignoreEvent' = FALSE
    BY <1>4 DEF HandleEdge, ReleaseIgnored, env, TypeOK
  <2>2. Phase' = IF batch[1] # config.press THEN "up" ELSE "down"
    BY <1>1, <2>1 DEF Phase
  <2>3. CASE batch[1] # config.press
    BY <2>1, <2>2, <2>3
    DEF Phase, B!vars, B!Next, B!Release, B!LongPressRelease
  <2>4. CASE batch[1] = config.press
    <3>1. CASE Phase = "long"
      <4>1. lastEdge = config.press
        BY <3>1 DEF Phase
      <4>2. dropped
        BY <2>1, <2>4, <4>1 DEF EdgesAlternate
      <4> QED
        BY <2>1, <2>2, <2>4, <3>1, <4>2 DEF B!Next, B!PressAgain
    <3>2. CASE Phase # "long"
      BY <2>1, <2>2, <2>4, <3>2 DEF Phase, B!vars, B!Next, B!Press
    <3> QED
      BY <3>1, <3>2
  <2> QED
    BY <2>3, <2>4
<1>5. CASE LongPress
  <2>1. lastEdge = config.press /\ UNCHANGED <<lastEdge, dropped>>
    BY <1>5 DEF LongPress, PressInv, TimerBelongsToPress, env
  <2>2. CASE ignoreEvent' = ignoreEvent
    BY <1>2, <2>1, <2>2
  <2>3. CASE ignoreEvent' = TRUE
    BY <1>1, <2>1, <2>3 DEF Phase, B!Next, B!LongPress
  <2>4. ignoreEvent' = ignoreEvent \/ ignoreEvent' = TRUE
    BY <1>5 DEF LongPress, IgnoreRelease, Configs, TypeOK
  <2> QED
    BY <2>2, <2>3, <2>4
<1>6. CASE \/ TimerExpire \/ Poll \/ ReadEdges \/ ReadEdgesFails \/ Capture \/ EndOfBatch
           \/ UNCHANGED vars
  BY <1>2, <1>6 DEF TimerExpire, Poll, ReadEdges, ReadEdgesFails, Capture, EndOfBatch, vars, env
<1> QED
  BY <1>3, <1>4, <1>5, <1>6 DEF Next, Daemon

(* With both edges requested the events of a GPIO come in the order of a   *)
(* button's life, whatever the sizes of the kernel's queue and of the      *)
(* buffer gpio_handle_event reads into, and whatever fails; only after the *)
(* kernel dropped an edge may a press be taken for a release.              *)
THEOREM ButtonCorrect ==
    ASSUME Requests = {"both"}
    PROVE  Spec => ImplementsButton
<1>1. Init => B!Init /\ EdgesAlternate
  <2> SUFFICES ASSUME Init PROVE B!Init /\ EdgesAlternate
    OBVIOUS
  <2>1. B!Init
    BY DEF Init, B!Init, Phase
  <2>2. EdgesAlternate
    BY DEF Init, EdgesAlternate, Alternates
  <2> QED
    BY <2>1, <2>2
<1>2. TypeOK /\ PressInv /\ EdgesAlternate /\ [Next]_vars => EdgesAlternate' /\ [B!Next]_(B!vars)
  BY AlternateStep, ButtonStep
<1> QED
  BY <1>1, <1>2, TypeCorrect, PressInvCorrect, PTL DEF Spec, ImplementsButton, B!Spec

-----------------------------------------------------------------------------
(* Outputs.                                                                *)

(* Every variable keeps its type: every call, timer expiry and report of   *)
(* poll.                                                                   *)
THEOREM OutTypeCorrect == OutSpec => []OutTypeOK
<1> USE OutputAssumption, NoFdAssumption DEF OutTypeOK, LineValues
<1>1. OutInit => OutTypeOK
  BY DEF OutInit
<1>2. OutTypeOK /\ [OutNext]_outVars => OutTypeOK'
  <2> SUFFICES ASSUME OutTypeOK, [OutNext]_outVars PROVE OutTypeOK'
    OBVIOUS
  <2>1. ASSUME NEW g \in Gpios, NEW v \in LineValues, SetValue(g, v) PROVE OutTypeOK'
    BY <2>1 DEF SetValue, SetLine, CloseFd
  <2>2. ASSUME NEW g \in Gpios, NEW timeout \in Timeouts, NEW periodic \in BOOLEAN,
               Blink(g, timeout, periodic)
        PROVE  OutTypeOK'
    <3>1. NewTimer(g, timeout, periodic) \in Timers
      BY DEF NewTimer, Timers
    <3>2. value' \in [Gpios -> LineValues]
      BY <2>2 DEF Blink, Flip
    <3>3. fd' \in [Fds -> Timers \cup {Closed, Foreign}]
      BY <2>2, <3>1 DEF Blink, TimerNew, Free
    <3>4. /\ timerFd' \in [Gpios -> Fds \cup {NoFd}]
          /\ update' \in BOOLEAN
          /\ blinking' \in [Gpios -> {"no", "once", "repeat"}]
      <4>1. CASE Free = {}
        BY <2>2, <4>1 DEF Blink
      <4>2. CASE Free # {}
        <5>1. PICK f \in Free :
                /\ timerFd' = [timerFd EXCEPT ![g] = f]
                /\ update' = TRUE
                /\ blinking' = [blinking EXCEPT ![g] = IF periodic THEN "repeat" ELSE "once"]
          BY <2>2, <4>2 DEF Blink, TimerNew
        <5> QED
          BY <5>1 DEF Free
      <4> QED
        BY <4>1, <4>2
    <3> QED
      BY <2>2, <3>2, <3>3, <3>4 DEF Blink
  <2>3. ASSUME NEW g \in Gpios, BlinkFails(g) PROVE OutTypeOK'
    BY <2>3 DEF BlinkFails
  <2>4. CASE PollTimers
    BY <2>4 DEF PollTimers
  <2>5. ASSUME NEW f \in Fds, DelegateNothing(f) PROVE OutTypeOK'
    BY <2>5 DEF DelegateNothing
  <2>6. ASSUME NEW f \in Fds, DelegateOrphan(f) PROVE OutTypeOK'
    <3>1. fd[f] \in Timers
      BY <2>6 DEF DelegateOrphan, ReadValue, IsTimer, Closed, Foreign
    <3>2. fd' \in [Fds -> Timers \cup {Closed, Foreign}]
      BY <2>6, <3>1 DEF DelegateOrphan, Timers
    <3> QED
      BY <2>6, <3>2 DEF DelegateOrphan
  <2>7. ASSUME NEW f \in Fds, NEW g \in Gpios, DelegateTimer(f, g) PROVE OutTypeOK'
    <3>1. fd[f] \in Timers
      BY <2>7 DEF DelegateTimer, ReadValue, IsTimer, Closed, Foreign
    <3>2. fd' \in [Fds -> Timers \cup {Closed, Foreign}]
      BY <2>7, <3>1 DEF DelegateTimer, Timers
    <3>3. value' \in [Gpios -> LineValues]
      BY <2>7 DEF DelegateTimer, SetLine, Flip
    <3>4. /\ timerFd' \in [Gpios -> Fds \cup {NoFd}]
          /\ update' \in BOOLEAN
          /\ blinking' \in [Gpios -> {"no", "once", "repeat"}]
      BY <2>7 DEF DelegateTimer
    <3> QED
      BY <2>7, <3>2, <3>3, <3>4 DEF DelegateTimer
  <2>8. ASSUME NEW f \in Fds, BlinkExpire(f) PROVE OutTypeOK'
    <3>1. fd[f] \in Timers
      BY <2>8 DEF BlinkExpire, IsTimer, Closed, Foreign
    <3>2. fd' \in [Fds -> Timers \cup {Closed, Foreign}]
      BY <2>8, <3>1 DEF BlinkExpire, Timers
    <3> QED
      BY <2>8, <3>2 DEF BlinkExpire
  <2>9. ASSUME NEW f \in Fds, ForeignOpen(f) \/ ForeignClose(f) PROVE OutTypeOK'
    BY <2>9 DEF ForeignOpen, ForeignClose
  <2>10. CASE UNCHANGED outVars
    BY <2>10 DEF outVars
  <2>11. ASSUME NEW g \in Gpios, Set(g) \/ Toggle(g) PROVE OutTypeOK'
    BY <2>1, <2>11 DEF Set, Toggle, Flip
  <2> HIDE DEF OutTypeOK
  <2> QED
    BY <2>2, <2>3, <2>4, <2>5, <2>6, <2>7, <2>8, <2>9, <2>10, <2>11 DEF OutNext, Loop, Delegate
<1> QED
  BY <1>1, <1>2, PTL DEF OutSpec

(* The timer_fd of every GPIO is an open timer created for it, of the kind *)
(* asked for last, although close_fd, timer_new and other threads reuse    *)
(* descriptor numbers.  OwnTimer is inductive: because a timer has one     *)
(* owner, closing the timer of one GPIO never touches that of another.     *)
THEOREM OwnTimerCorrect == OutSpec => []OwnTimer
<1> USE OutputAssumption, NoFdAssumption DEF OwnTimer, IsTimer
<1>1. OutInit => OwnTimer
  BY DEF OutInit
<1>2. OutTypeOK /\ OwnTimer /\ [OutNext]_outVars => OwnTimer'
  <2> SUFFICES ASSUME OutTypeOK, OwnTimer, [OutNext]_outVars PROVE OwnTimer'
    OBVIOUS
  <2> USE DEF OutTypeOK
  <2>1. ASSUME NEW g \in Gpios, NEW v, SetValue(g, v) PROVE OwnTimer'
    BY <2>1 DEF SetValue, CloseFd
  <2>2. ASSUME NEW g \in Gpios, NEW timeout \in Timeouts, NEW periodic \in BOOLEAN,
               Blink(g, timeout, periodic)
        PROVE  OwnTimer'
    BY <2>2 DEF Blink, TimerNew, Free, NewTimer, Closed
  <2>3. ASSUME NEW g \in Gpios, BlinkFails(g) PROVE OwnTimer'
    BY <2>3 DEF BlinkFails
  <2>4. CASE PollTimers
    BY <2>4 DEF PollTimers
  <2>5. ASSUME NEW f \in Fds, DelegateNothing(f) PROVE OwnTimer'
    BY <2>5 DEF DelegateNothing
  <2>6. ASSUME NEW f \in Fds, DelegateOrphan(f) PROVE OwnTimer'
    BY <2>6 DEF DelegateOrphan
  <2>7. ASSUME NEW f \in Fds, NEW g \in Gpios, DelegateTimer(f, g) PROVE OwnTimer'
    <3>1. timerFd[g] = f
      BY <2>7 DEF DelegateTimer, IsNode
    <3>2. CASE fd[f].periodic
      <4>1. fd' = [fd EXCEPT ![f].state = "armed"] /\ UNCHANGED <<timerFd, blinking>>
        BY <2>7, <3>2 DEF DelegateTimer, TimerRepeat
      <4>2. fd[f] \in Timers
        BY <3>1 DEF Closed, Foreign
      <4>3. fd'[f].kind = "timer" /\ fd'[f].owner = fd[f].owner
              /\ fd'[f].periodic = fd[f].periodic
        BY <4>1, <4>2 DEF Timers
      <4>4. \A x \in Fds : x # f => fd'[x] = fd[x]
        BY <4>1
      <4> QED
        BY <4>1, <4>3, <4>4
    <3>3. CASE ~fd[f].periodic
      <4>1. /\ fd' = [fd EXCEPT ![f] = Closed]
            /\ timerFd' = [timerFd EXCEPT ![g] = NoFd]
            /\ blinking' = [blinking EXCEPT ![g] = "no"]
        BY <2>7, <3>1, <3>3 DEF DelegateTimer, TimerRepeat
      <4>2. \A h \in Gpios : h # g => timerFd[h] # f
        BY <3>1
      <4> QED
        BY <4>1, <4>2
    <3> QED
      BY <3>2, <3>3
  <2>8. ASSUME NEW f \in Fds, BlinkExpire(f) PROVE OwnTimer'
    BY <2>8 DEF BlinkExpire, Timers
  <2>9. ASSUME NEW f \in Fds, ForeignOpen(f) \/ ForeignClose(f) PROVE OwnTimer'
    BY <2>9 DEF ForeignOpen, ForeignClose, Closed, Foreign
  <2>10. CASE UNCHANGED outVars
    BY <2>10 DEF outVars
  <2> HIDE DEF OutTypeOK, OwnTimer
  <2> QED
    BY <2>1, <2>2, <2>3, <2>4, <2>5, <2>6, <2>7, <2>8, <2>9, <2>10
    DEF OutNext, Loop, Delegate, Set, Toggle
<1> QED
  BY <1>1, <1>2, OutTypeCorrect, PTL DEF OutSpec

(* gpio_out_timer_handle_event toggles only a GPIO that is blinking and    *)
(* whose own timer has expired: a set or toggle between poll and the       *)
(* handler cancels the toggle, whoever has the descriptor number by then.  *)
THEOREM TogglesCorrect == OutSpec => OnlyBlinkingToggles
<1>1. OutTypeOK /\ OwnTimer /\ [OutNext]_outVars
        => [chosen # NoFd /\ chosen' = NoFd =>
              \A g \in Gpios : value'[g] # value[g] =>
                  /\ blinking[g] # "no"
                  /\ timerFd[g] = chosen
                  /\ fd[chosen].state = "expired"]_outVars
  <2> SUFFICES ASSUME OutTypeOK, OwnTimer, [OutNext]_outVars, chosen # NoFd, chosen' = NoFd,
                      NEW h \in Gpios, value'[h] # value[h]
               PROVE  blinking[h] # "no" /\ timerFd[h] = chosen /\ fd[chosen].state = "expired"
    OBVIOUS
  <2>1. PICK f \in Fds, g \in Gpios : DelegateTimer(f, g)
    BY DEF OutNext, Loop, Delegate, Set, Toggle, SetValue, Blink, TimerNew, BlinkFails, PollTimers, DelegateNothing,
           DelegateOrphan, BlinkExpire, ForeignOpen, ForeignClose, outVars
  <2>2. g = h
    BY <2>1 DEF DelegateTimer, SetLine, OutTypeOK
  <2> QED
    BY <2>1, <2>2 DEF DelegateTimer, ReadValue, IsNode, OwnTimer, OutTypeOK
<1> QED
  BY <1>1, OutTypeCorrect, OwnTimerCorrect, PTL DEF OutSpec, OnlyBlinkingToggles
=============================================================================
