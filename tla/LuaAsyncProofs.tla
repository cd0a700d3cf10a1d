--------------------------- MODULE LuaAsyncProofs ---------------------------
(***************************************************************************)
(* Proofs about LuaAsync, for every set of threads, every number of calls  *)
(* and with or without spurious wake-ups: types, the books of the eventfd, *)
(* the order of the calls under way, the signals the sleeping threads are  *)
(* owed, and the refinement of RemoteCall.                                 *)
(***************************************************************************)
EXTENDS LuaAsync, FiniteSetTheorems, SequenceTheorems, TLAPS

(* Taking an entry out of a queue leaves a queue of messages.              *)
LEMMA RemoveAtType ==
    ASSUME NEW S, NEW q \in Seq(S), NEW i \in DOMAIN q
    PROVE  RemoveAt(q, i) \in Seq(S)
<1>1. i \in 1..Len(q)
  OBVIOUS
<1>2. SubSeq(q, 1, i - 1) \in Seq(S)
  BY <1>1
<1>3. SubSeq(q, i + 1, Len(q)) \in Seq(S)
  BY <1>1
<1>4. QED
  BY <1>2, <1>3 DEF RemoveAt

(* The type invariant, by induction over the steps of the threads.         *)
THEOREM TypeCorrect == Spec => []TypeOK
<1>1. Init => TypeOK
  BY MaxCallsAssumption DEF Init, TypeOK, ThreadStates, MainStates
<1>2. TypeOK /\ [Next]_vars => TypeOK'
  <2> SUFFICES ASSUME TypeOK, [Next]_vars PROVE TypeOK'
    OBVIOUS
  <2> USE MaxCallsAssumption DEF TypeOK, ThreadStates, Sending, MainStates
  <2>1. ASSUME NEW t \in Threads, ScriptStart(t) PROVE TypeOK'
    BY <2>1 DEF ScriptStart
  <2>2. ASSUME NEW t \in Threads, ScriptEnd(t) PROVE TypeOK'
    BY <2>2 DEF ScriptEnd
  <2>3. ASSUME NEW t \in Threads, SendRequest(t) PROVE TypeOK'
    <3>1. calls[t] + 1 \in 1..MaxCalls
      BY <2>3 DEF SendRequest
    <3>2. [id |-> t, call |-> calls[t] + 1] \in Messages
      BY <3>1 DEF Messages
    <3>3. mainQueue' \in Seq(Messages)
      BY <2>3, <3>2 DEF SendRequest
    <3>4. calls' \in [Threads -> 0..MaxCalls]
      BY <2>3, <3>1 DEF SendRequest
    <3>5. QED
      BY <2>3, <3>3, <3>4 DEF SendRequest
  <2>4. ASSUME NEW t \in Threads, NotifyMain(t) PROVE TypeOK'
    BY <2>4 DEF NotifyMain
  <2>5. ASSUME NEW t \in Threads, TakeResponse(t) PROVE TypeOK'
    <3>1. PICK i \in DOMAIN scriptQueue :
              /\ answer' = [answer EXCEPT ![t] = scriptQueue[i].call]
              /\ scriptQueue' = RemoveAt(scriptQueue, i)
      BY <2>5 DEF TakeResponse
    <3>2. scriptQueue' \in Seq(Messages)
      BY <3>1, RemoveAtType
    <3>3. scriptQueue[i].call \in 0..MaxCalls
      <4>1. scriptQueue[i] \in Messages
        BY ElementOfSeq
      <4>2. QED
        BY <4>1 DEF Messages
    <3>4. QED
      BY <2>5, <3>1, <3>2, <3>3 DEF TakeResponse
  <2>6. ASSUME NEW t \in Threads, ShiftResponse(t) PROVE TypeOK'
    BY <2>5, <2>6 DEF ShiftResponse, Sleep
  <2>7. ASSUME NEW t \in Threads, WokenShift(t) PROVE TypeOK'
    <3>1. CASE ReturnNull(t)
      BY <3>1 DEF ReturnNull
    <3>2. QED
      BY <2>5, <2>7, <3>1 DEF WokenShift
  <2>8. ASSUME NEW t \in Threads, SpuriousWakeup(t) PROVE TypeOK'
    BY <2>8 DEF SpuriousWakeup
  <2>9. CASE ReadEventFd
    BY <2>9 DEF ReadEventFd
  <2>10. CASE ShiftRequest
    BY <2>10, HeadTailProperties DEF ShiftRequest
  <2>11. CASE PushResponse
    BY <2>11 DEF PushResponse
  <2>12. CASE SignalScript
    BY <2>12 DEF SignalScript, Waiting
  <2>13. CASE UNCHANGED vars
    BY <2>13 DEF vars
  <2>14. QED
    BY <2>1, <2>2, <2>3, <2>4, <2>6, <2>7, <2>8, <2>9, <2>10, <2>11, <2>12,
       <2>13 DEF Next, Script, Main
<1>3. QED
  BY <1>1, <1>2, PTL DEF Spec

-----------------------------------------------------------------------------
(* The number of threads with a pending eventfd write is a number.         *)
LEMMA NotifyingFinite ==
    IsFiniteSet(Notifying) /\ Cardinality(Notifying) \in Nat
<1>1. IsFiniteSet(Notifying)
  BY ThreadsAssumption, FS_Subset DEF Notifying
<1>2. QED
  BY <1>1, FS_CardinalityType

(* A step that leaves main_queue, the eventfd and the set of notifying     *)
(* threads alone, and neither enters nor leaves "shift", keeps the books.  *)
LEMMA BooksUntouched ==
    ASSUME EventFdCounts, mainQueue' = mainQueue, eventFd' = eventFd,
           Notifying' = Notifying, mainPc' = "shift" <=> mainPc = "shift"
    PROVE  EventFdCounts'
BY DEF EventFdCounts

(* The eventfd of main_queue always accounts for its entries.              *)
THEOREM EventFdCorrect == Spec => []EventFdCounts
<1>1. Init => EventFdCounts
  <2> SUFFICES ASSUME Init PROVE EventFdCounts
    OBVIOUS
  <2>1. Notifying = {}
    BY DEF Init, Notifying
  <2>2. QED
    BY <2>1, FS_EmptySet DEF Init, EventFdCounts
<1>2. TypeOK /\ TypeOK' /\ EventFdCounts /\ [Next]_vars => EventFdCounts'
  <2> SUFFICES ASSUME TypeOK, TypeOK', EventFdCounts, [Next]_vars PROVE EventFdCounts'
    OBVIOUS
  <2> USE NotifyingFinite
  <2>1. ASSUME NEW t \in Threads, SendRequest(t) PROVE EventFdCounts'
    <3>1. t \notin Notifying /\ Notifying' = Notifying \cup {t}
      BY <2>1 DEF SendRequest, Notifying, TypeOK
    <3>2. Cardinality(Notifying') = Cardinality(Notifying) + 1
      BY <3>1, FS_AddElement
    <3>3. Len(mainQueue') = Len(mainQueue) + 1
      BY <2>1 DEF SendRequest, TypeOK
    <3>4. mainPc' = mainPc /\ eventFd' = eventFd
      BY <2>1 DEF SendRequest
    <3>5. QED
      BY <3>2, <3>3, <3>4 DEF EventFdCounts, TypeOK
  <2>2. ASSUME NEW t \in Threads, NotifyMain(t) PROVE EventFdCounts'
    <3>1. t \in Notifying /\ Notifying' = Notifying \ {t}
      BY <2>2 DEF NotifyMain, Notifying, TypeOK
    <3>2. Cardinality(Notifying') = Cardinality(Notifying) - 1
      BY <3>1, FS_RemoveElement
    <3>3. mainPc' = mainPc /\ eventFd' = eventFd + 1 /\ mainQueue' = mainQueue
      BY <2>2 DEF NotifyMain
    <3>4. Cardinality(Notifying) \in Nat /\ eventFd \in Nat
      BY NotifyingFinite DEF TypeOK
    <3> DEFINE s == IF mainPc = "shift" THEN 1 ELSE 0
    <3>5. s \in Nat /\ Len(mainQueue) = eventFd + Cardinality(Notifying) + s
      BY DEF EventFdCounts
    <3>6. EventFdCounts' <=> Len(mainQueue) = (eventFd + 1) + Cardinality(Notifying') + s
      BY <3>3 DEF EventFdCounts
    <3> HIDE DEF s
    <3>7. QED
      BY <3>2, <3>4, <3>5, <3>6
  <2>3. CASE ReadEventFd
    <3>1. Notifying' = Notifying
      BY <2>3 DEF ReadEventFd, Notifying
    <3>2. QED
      BY <2>3, <3>1 DEF ReadEventFd, EventFdCounts, TypeOK
  <2>4. CASE ShiftRequest
    <3>1. Notifying' = Notifying
      BY <2>4 DEF ShiftRequest, Notifying
    <3>2. mainQueue # <<>>
      <4>1. Len(mainQueue) > 0
        BY <2>4 DEF ShiftRequest, EventFdCounts, TypeOK
      <4>2. QED
        BY <4>1
    <3>3. Len(mainQueue') = Len(mainQueue) - 1
      BY <2>4, <3>2, HeadTailProperties DEF ShiftRequest, TypeOK
    <3>4. mainPc = "shift" /\ mainPc' # "shift" /\ eventFd' = eventFd
      BY <2>4 DEF ShiftRequest
    <3>5. QED
      BY <3>1, <3>3, <3>4 DEF EventFdCounts, TypeOK
  <2>5. ASSUME NEW t \in Threads,
               ScriptStart(t) \/ ScriptEnd(t) \/ ShiftResponse(t)
                 \/ WokenShift(t) \/ SpuriousWakeup(t)
        PROVE  EventFdCounts'
    <3>1. /\ mainQueue' = mainQueue /\ eventFd' = eventFd /\ mainPc' = mainPc
          /\ \E s \in ThreadStates \ {"notify"} : pc' = [pc EXCEPT ![t] = s]
          /\ pc[t] # "notify"
      BY <2>5 DEF ScriptStart, ScriptEnd, ShiftResponse, WokenShift,
                  SpuriousWakeup, TakeResponse, Sleep, ReturnNull, ThreadStates, Sending
    <3>2. Notifying' = Notifying
      BY <3>1 DEF Notifying, TypeOK
    <3>3. QED
      BY <3>1, <3>2, BooksUntouched
  <2>6. CASE PushResponse
    <3>1. Notifying' = Notifying
      BY <2>6 DEF PushResponse, Notifying
    <3>2. QED
      BY <2>6, <3>1, BooksUntouched DEF PushResponse
  <2>7. CASE SignalScript
    <3>1. Notifying' = Notifying
      BY <2>7 DEF SignalScript, Waiting, Notifying, TypeOK
    <3>2. QED
      BY <2>7, <3>1, BooksUntouched DEF SignalScript
  <2>8. CASE UNCHANGED vars
    <3>1. Notifying' = Notifying
      BY <2>8 DEF vars, Notifying
    <3>2. QED
      BY <2>8, <3>1, BooksUntouched DEF vars
  <2>9. QED
    BY <2>1, <2>2, <2>3, <2>4, <2>5, <2>6, <2>7, <2>8 DEF Next, Script, Main
<1>3. QED
  BY <1>1, <1>2, TypeCorrect, PTL DEF Spec

(* When the eventfd has been read there is an entry to shift.              *)
LEMMA BooksGiveEntry ==
    ASSUME TypeOK, EventFdCounts, mainPc = "shift"
    PROVE  mainQueue # <<>>
<1>1. Len(mainQueue) > 0
  BY NotifyingFinite DEF EventFdCounts, TypeOK
<1>2. QED
  BY <1>1

(* lua_async_handle_msg never dereferences NULL.                           *)
THEOREM NeverNullCorrect == Spec => []NeverNull
<1>1. Init => NeverNull
  BY DEF Init, NeverNull
<1>2. /\ TypeOK /\ TypeOK' /\ EventFdCounts /\ EventFdCounts' /\ NeverNull
      /\ [Next]_vars
      => NeverNull'
  <2> SUFFICES ASSUME TypeOK, TypeOK', EventFdCounts, EventFdCounts', NeverNull,
                      [Next]_vars
               PROVE  NeverNull'
    OBVIOUS
  <2>1. mainPc' = "shift" => mainQueue' # <<>>
    <3> SUFFICES ASSUME mainPc' = "shift" PROVE Len(mainQueue') > 0
      OBVIOUS
    <3>1. Cardinality(Notifying') \in Nat
      <4>1. IsFiniteSet(Notifying')
        BY ThreadsAssumption, FS_Subset DEF Notifying
      <4>2. QED
        BY <4>1, FS_CardinalityType
    <3>2. QED
      BY <3>1 DEF EventFdCounts, TypeOK
  <2>2. mainPc' # "null"
    BY BooksGiveEntry DEF NeverNull, Next, Script, Main, vars, ScriptStart,
       ScriptEnd, SendRequest, NotifyMain, ShiftResponse, WokenShift,
       TakeResponse, Sleep, ReturnNull, SpuriousWakeup, ReadEventFd, ShiftRequest, PushResponse,
       SignalScript
  <2>3. QED
    BY <2>1, <2>2 DEF NeverNull
<1>3. QED
  BY <1>1, <1>2, TypeCorrect, EventFdCorrect, PTL DEF Spec

-----------------------------------------------------------------------------
(* Queues.                                                                 *)

(* The queue without its entry i.                                          *)
LEMMA RemoveAtProperties ==
    ASSUME NEW S, NEW q \in Seq(S), NEW i \in 1..Len(q)
    PROVE  /\ RemoveAt(q, i) \in Seq(S)
           /\ Len(RemoveAt(q, i)) = Len(q) - 1
           /\ \A k \in 1..(Len(q) - 1) :
                 RemoveAt(q, i)[k] = IF k < i THEN q[k] ELSE q[k + 1]
<1> DEFINE r == RemoveAt(q, i)
           n == Len(q)
           a == SubSeq(q, 1, i - 1)
           b == SubSeq(q, i + 1, n)
<1>1. n \in Nat /\ i \in 1..n
  OBVIOUS
<1>2. a \in Seq(S) /\ Len(a) = i - 1 /\ \A k \in 1..(i - 1) : a[k] = q[k]
  BY <1>1
<1>3. b \in Seq(S) /\ Len(b) = n - i /\ \A k \in 1..(n - i) : b[k] = q[k + i]
  BY <1>1
<1>4. r = a \o b
  BY DEF RemoveAt
<1> HIDE DEF a, b, r, n
<1>5. a \in Seq(S) /\ b \in Seq(S)
  BY <1>2, <1>3
<1>6. /\ r \in Seq(S) /\ Len(r) = Len(a) + Len(b)
      /\ \A k \in 1..(Len(a) + Len(b)) : r[k] = IF k <= Len(a) THEN a[k] ELSE b[k - Len(a)]
  BY <1>4, <1>5, ConcatProperties
<1>7. Len(r) = n - 1
  BY <1>1, <1>2, <1>3, <1>6
<1>8. ASSUME NEW k \in 1..(n - 1) PROVE r[k] = IF k < i THEN q[k] ELSE q[k + 1]
  <2>1. CASE k < i
    BY <1>1, <1>2, <1>3, <1>6, <2>1
  <2>2. CASE ~(k < i)
    <3>1. k - Len(a) \in 1..(n - i) /\ (k - Len(a)) + i = k + 1
      BY <1>1, <1>2, <2>2
    <3>2. r[k] = b[k - Len(a)]
      BY <1>1, <1>2, <1>3, <1>6, <2>2
    <3> QED
      BY <1>3, <2>2, <3>1, <3>2
  <2> QED
    BY <2>1, <2>2
<1> QED
  BY <1>6, <1>7, <1>8 DEF r, n

(* Taking an entry from the front part of two queues in a row.             *)
LEMMA RemoveAtConcat ==
    ASSUME NEW S, NEW a \in Seq(S), NEW b \in Seq(S), NEW i \in 1..Len(a)
    PROVE  RemoveAt(a, i) \o b = RemoveAt(a \o b, i)
<1> DEFINE ab == a \o b
           ra == RemoveAt(a, i)
           l == ra \o b
           r == RemoveAt(ab, i)
<1>0. Len(a) \in Nat /\ Len(b) \in Nat
  OBVIOUS
<1>1. /\ ab \in Seq(S) /\ Len(ab) = Len(a) + Len(b)
      /\ \A k \in 1..(Len(a) + Len(b)) : ab[k] = IF k <= Len(a) THEN a[k] ELSE b[k - Len(a)]
  BY ConcatProperties
<1>2. /\ ra \in Seq(S) /\ Len(ra) = Len(a) - 1
      /\ \A k \in 1..(Len(a) - 1) : ra[k] = IF k < i THEN a[k] ELSE a[k + 1]
  BY RemoveAtProperties
<1> HIDE DEF ab, ra
<1>3. /\ l \in Seq(S) /\ Len(l) = Len(ra) + Len(b)
      /\ \A k \in 1..(Len(ra) + Len(b)) : l[k] = IF k <= Len(ra) THEN ra[k] ELSE b[k - Len(ra)]
  BY <1>2, ConcatProperties
<1>4. i \in 1..Len(ab)
  BY <1>0, <1>1
<1>5. /\ r \in Seq(S) /\ Len(r) = Len(ab) - 1
      /\ \A k \in 1..(Len(ab) - 1) : r[k] = IF k < i THEN ab[k] ELSE ab[k + 1]
  BY <1>1, <1>4, RemoveAtProperties
<1> HIDE DEF l, r
<1>6. Len(l) = Len(r) /\ Len(r) = Len(a) + Len(b) - 1
  BY <1>0, <1>1, <1>2, <1>3, <1>5
<1>7. ASSUME NEW k \in 1..Len(l) PROVE l[k] = r[k]
  <2>1. CASE k < i
    <3>1. l[k] = ra[k] /\ ra[k] = a[k]
      BY <1>0, <1>2, <1>3, <1>6, <2>1
    <3>2. r[k] = ab[k] /\ ab[k] = a[k]
      BY <1>0, <1>1, <1>5, <1>6, <2>1
    <3> QED
      BY <3>1, <3>2
  <2>2. CASE ~(k < i) /\ k <= Len(a) - 1
    <3>1. l[k] = ra[k] /\ ra[k] = a[k + 1]
      BY <1>0, <1>2, <1>3, <1>6, <2>2
    <3>2. r[k] = ab[k + 1] /\ ab[k + 1] = a[k + 1]
      BY <1>0, <1>1, <1>5, <1>6, <2>2
    <3> QED
      BY <3>1, <3>2
  <2>3. CASE k > Len(a) - 1
    <3>1. l[k] = b[k - (Len(a) - 1)]
      BY <1>0, <1>2, <1>3, <1>6, <2>3
    <3>2. r[k] = ab[k + 1] /\ ab[k + 1] = b[(k + 1) - Len(a)]
      BY <1>0, <1>1, <1>5, <1>6, <2>3
    <3>3. k - (Len(a) - 1) = (k + 1) - Len(a)
      BY <1>0, <1>6
    <3> QED
      BY <3>1, <3>2, <3>3
  <2> QED
    BY <1>0, <1>6, <2>1, <2>2, <2>3
<1> QED
  BY <1>3, <1>5, <1>6, <1>7, SeqEqual DEF ab, ra, l, r

(* An entry names a thread and a call.                                     *)
LEMMA EntryType ==
    ASSUME NEW q \in Seq(Messages), NEW k \in 1..Len(q)
    PROVE  q[k].id \in Threads /\ q[k].call \in Nat
<1>1. q[k] \in Messages
  BY ElementOfSeq
<1> QED
  BY <1>1, MaxCallsAssumption DEF Messages

(* A call of thread t joins the others at the end.                         *)
LEMMA LatestAppend ==
    ASSUME NEW q \in Seq(Messages), NEW last \in [Threads -> 0..MaxCalls],
           LatestCalls(q, last), NEW t \in Threads
    PROVE  LatestCalls(Append(q, [id |-> t, call |-> last[t] + 1]),
                       [last EXCEPT ![t] = @ + 1])
<1> DEFINE m == [id |-> t, call |-> last[t] + 1]
           r == Append(q, m)
           n == [last EXCEPT ![t] = @ + 1]
<1>1. /\ Len(q) \in Nat /\ DOMAIN q = 1..Len(q) /\ DOMAIN r = 1..(Len(q) + 1)
      /\ \A k \in 1..Len(q) : r[k] = q[k]
      /\ r[Len(q) + 1] = m
  OBVIOUS
<1>2. \A k \in 1..Len(q) : q[k].id \in Threads /\ q[k].call \in Nat
  BY EntryType
<1>3. /\ \A x \in Threads : last[x] \in Nat /\ n[x] \in Nat
      /\ \A x \in Threads \ {t} : n[x] = last[x]
      /\ n[t] = last[t] + 1
  BY MaxCallsAssumption
<1>4. m.id = t /\ m.call = last[t] + 1
  OBVIOUS
<1> HIDE DEF m, r, n
<1>5. ASSUME NEW i \in DOMAIN r, NEW j \in DOMAIN r, i < j, r[i].id = r[j].id
      PROVE  r[i].call < r[j].call
  <2>1. i \in 1..Len(q) /\ r[i] = q[i]
    BY <1>1, <1>5
  <2>2. CASE j \in 1..Len(q)
    BY <1>1, <1>5, <2>1, <2>2 DEF LatestCalls
  <2>3. CASE j = Len(q) + 1
    <3>1. q[i].id = t /\ q[i].call <= last[t]
      BY <1>1, <1>4, <1>5, <2>1, <2>3 DEF LatestCalls
    <3> QED
      BY <1>1, <1>2, <1>3, <1>4, <2>1, <2>3, <3>1
  <2> QED
    BY <1>1, <2>2, <2>3
<1>6. ASSUME NEW i \in DOMAIN r
      PROVE  /\ r[i].call <= n[r[i].id]
             /\ \A k \in r[i].call..n[r[i].id] :
                   \E j \in DOMAIN r : r[j].id = r[i].id /\ r[j].call = k
  <2>1. CASE i \in 1..Len(q)
    <3>1. /\ r[i] = q[i] /\ q[i].id \in Threads /\ q[i].call \in Nat
          /\ q[i].call <= last[q[i].id] /\ last[q[i].id] \in Nat
      BY <1>1, <1>2, <1>3, <2>1 DEF LatestCalls
    <3>2. q[i].call <= n[q[i].id]
      BY <1>3, <3>1
    <3>3. ASSUME NEW k \in q[i].call..n[q[i].id]
          PROVE  \E j \in DOMAIN r : r[j].id = q[i].id /\ r[j].call = k
      <4>1. CASE k \in q[i].call..last[q[i].id]
        <5>1. PICK j \in DOMAIN q : q[j].id = q[i].id /\ q[j].call = k
          BY <1>1, <2>1, <4>1 DEF LatestCalls
        <5>2. j \in DOMAIN r /\ r[j] = q[j]
          BY <1>1
        <5> QED
          BY <5>1, <5>2
      <4>2. CASE k \notin q[i].call..last[q[i].id]
        <5>1. q[i].id = t /\ k = last[t] + 1
          BY <1>3, <3>1, <4>2
        <5>2. Len(q) + 1 \in DOMAIN r
          BY <1>1
        <5> QED
          BY <1>1, <1>4, <5>1, <5>2
      <4> QED
        BY <4>1, <4>2
    <3> QED
      BY <3>1, <3>2, <3>3
  <2>2. CASE i = Len(q) + 1
    <3>1. r[i].id = t /\ r[i].call = n[t]
      BY <1>1, <1>3, <1>4, <2>2
    <3> QED
      BY <1>3, <3>1
  <2> QED
    BY <1>1, <2>1, <2>2
<1> QED
  BY <1>5, <1>6 DEF LatestCalls, m, r, n

(* The oldest entry of a thread is taken away.                             *)
LEMMA LatestRemove ==
    ASSUME NEW q \in Seq(Messages), NEW last \in [Threads -> 0..MaxCalls],
           LatestCalls(q, last), NEW i \in 1..Len(q), IsFirst(q, q[i].id, i)
    PROVE  LatestCalls(RemoveAt(q, i), last)
<1> DEFINE r == RemoveAt(q, i)
           n == Len(q)
           Old(k) == IF k < i THEN k ELSE k + 1
           New(k) == IF k < i THEN k ELSE k - 1
<1>1. /\ n \in Nat /\ DOMAIN q = 1..n /\ DOMAIN r = 1..(n - 1)
      /\ \A k \in DOMAIN r : r[k] = q[Old(k)]
  <2>0. n \in Nat /\ DOMAIN q = 1..n
    OBVIOUS
  <2>1. /\ r \in Seq(Messages) /\ Len(r) = n - 1
        /\ \A k \in 1..(n - 1) : r[k] = IF k < i THEN q[k] ELSE q[k + 1]
    BY RemoveAtProperties
  <2> HIDE DEF r
  <2>2. DOMAIN r = 1..(n - 1)
    BY <2>1
  <2> QED
    BY <2>0, <2>1, <2>2
<1>2. \A k \in DOMAIN r : Old(k) \in DOMAIN q /\ Old(k) # i
  BY <1>1
<1>3. \A j, k \in DOMAIN r : j < k => Old(j) < Old(k)
  BY <1>1
<1>4. \A k \in DOMAIN q \ {i} : New(k) \in DOMAIN r /\ Old(New(k)) = k
  BY <1>1
<1>5. \A k \in DOMAIN q : q[k].id \in Threads /\ q[k].call \in Nat
  BY EntryType
<1>6. \A x \in Threads : last[x] \in Nat
  BY MaxCallsAssumption
<1> HIDE DEF r, n, Old, New
<1>7. ASSUME NEW j \in DOMAIN r, NEW k \in DOMAIN r, j < k, r[j].id = r[k].id
      PROVE  r[j].call < r[k].call
  BY <1>1, <1>2, <1>3, <1>7 DEF LatestCalls
<1>8. ASSUME NEW j \in DOMAIN r
      PROVE  /\ r[j].call <= last[r[j].id]
             /\ \A k \in r[j].call..last[r[j].id] :
                   \E x \in DOMAIN r : r[x].id = r[j].id /\ r[x].call = k
  <2>1. r[j] = q[Old(j)] /\ Old(j) \in DOMAIN q /\ Old(j) # i
    BY <1>1, <1>2
  <2>2. r[j].call <= last[r[j].id]
    BY <2>1 DEF LatestCalls
  <2>3. ASSUME NEW k \in r[j].call..last[r[j].id]
        PROVE  \E x \in DOMAIN r : r[x].id = r[j].id /\ r[x].call = k
    <3>1. PICK y \in DOMAIN q : q[y].id = r[j].id /\ q[y].call = k
      BY <2>1 DEF LatestCalls
    <3>2. y # i
      <4> SUFFICES ASSUME y = i PROVE FALSE
        OBVIOUS
      <4>1. q[Old(j)].id = q[i].id
        BY <2>1, <3>1
      <4>2. i < Old(j)
        BY <1>1, <2>1, <4>1 DEF IsFirst
      <4>3. q[i].call < q[Old(j)].call
        BY <1>1, <2>1, <4>1, <4>2 DEF LatestCalls
      <4> QED
        BY <1>5, <1>6, <2>1, <3>1, <4>3
    <3>3. New(y) \in DOMAIN r /\ r[New(y)] = q[y]
      BY <1>1, <1>4, <3>2
    <3> QED
      BY <3>1, <3>3
  <2> QED
    BY <2>2, <2>3
<1> QED
  BY <1>7, <1>8 DEF LatestCalls, r

-----------------------------------------------------------------------------
(* Order.                                                                  *)

(* What the main thread executes, as a queue.                              *)
Executing == IF mainPc = "exec" THEN <<msg>> ELSE <<>>

(* The three parts of UnderWay are queues of messages: script_queue, the   *)
(* request in execution and main_queue.                                    *)
LEMMA UnderWayIs ==
    ASSUME TypeOK
    PROVE  /\ UnderWay = scriptQueue \o (Executing \o mainQueue)
           /\ Executing \in Seq(Messages) /\ Executing \o mainQueue \in Seq(Messages)
           /\ UnderWay \in Seq(Messages)
<1>1. Executing \in Seq(Messages)
  BY DEF Executing, TypeOK
<1>2. UnderWay = (scriptQueue \o Executing) \o mainQueue
  BY DEF UnderWay, Executing
<1>3. UnderWay = scriptQueue \o (Executing \o mainQueue)
  BY <1>1, <1>2, ConcatAssociative DEF TypeOK
<1>4. scriptQueue \in Seq(Messages) /\ mainQueue \in Seq(Messages)
  BY DEF TypeOK
<1>5. Executing \o mainQueue \in Seq(Messages)
  BY <1>1, <1>4, ConcatProperties
<1> QED
  BY <1>1, <1>3, <1>4, <1>5, ConcatProperties

(* lua_async_send_msg adds its request at the end of what is under way.    *)
LEMMA UnderWaySend ==
    ASSUME TypeOK, TypeOK', NEW t \in Threads, SendRequest(t)
    PROVE  UnderWay' = Append(UnderWay, [id |-> t, call |-> calls[t] + 1])
<1> DEFINE m == [id |-> t, call |-> calls[t] + 1]
           se == scriptQueue \o Executing
<1>1. UnderWay = se \o mainQueue /\ UnderWay' = se \o Append(mainQueue, m)
  BY DEF SendRequest, UnderWay, Executing
<1>2. m \in Messages
  BY MaxCallsAssumption DEF Messages, SendRequest, TypeOK
<1>3. se \in Seq(Messages) /\ mainQueue \in Seq(Messages) /\ <<m>> \in Seq(Messages)
  BY <1>2, UnderWayIs DEF TypeOK
<1> HIDE DEF m, se
<1>4. Append(mainQueue, m) = mainQueue \o <<m>>
  BY <1>2, <1>3, AppendIsConcat
<1>5. se \o (mainQueue \o <<m>>) = (se \o mainQueue) \o <<m>>
  BY <1>3, ConcatAssociative
<1>6. Append(se \o mainQueue, m) = (se \o mainQueue) \o <<m>>
  <2>1. se \o mainQueue \in Seq(Messages)
    BY <1>3, ConcatProperties
  <2> QED
    BY <1>2, <2>1, AppendIsConcat
<1> QED
  BY <1>1, <1>4, <1>5, <1>6 DEF m

(* lua_async_handle_msg takes the head of main_queue: nothing leaves.      *)
LEMMA UnderWayShift ==
    ASSUME TypeOK, ShiftRequest
    PROVE  UnderWay' = UnderWay
<1>0. mainPc = "shift" /\ scriptQueue' = scriptQueue /\ scriptQueue \in Seq(Messages)
      /\ mainQueue \in Seq(Messages) /\ <<>> \in Seq(Messages)
  BY DEF ShiftRequest, TypeOK
<1>1. CASE mainQueue = <<>>
  <2>1. mainPc' = "null" /\ mainQueue' = mainQueue
    BY <1>1 DEF ShiftRequest
  <2> QED
    BY <1>0, <2>1 DEF UnderWay
<1>2. CASE mainQueue # <<>>
  <2>1. mainPc' = "exec" /\ msg' = Head(mainQueue) /\ mainQueue' = Tail(mainQueue)
    BY <1>2 DEF ShiftRequest
  <2>2. /\ mainQueue = <<Head(mainQueue)>> \o Tail(mainQueue)
        /\ <<Head(mainQueue)>> \in Seq(Messages) /\ Tail(mainQueue) \in Seq(Messages)
    BY <1>0, <1>2
  <2>3. UnderWay' = (scriptQueue \o <<Head(mainQueue)>>) \o Tail(mainQueue)
    BY <1>0, <2>1 DEF UnderWay
  <2>4. UnderWay = (scriptQueue \o <<>>) \o mainQueue
    BY <1>0 DEF UnderWay
  <2>5. scriptQueue \o <<>> = scriptQueue
    BY <1>0, ConcatEmptySeq
  <2>6. UnderWay' = scriptQueue \o (<<Head(mainQueue)>> \o Tail(mainQueue))
    BY <1>0, <2>2, <2>3, ConcatAssociative
  <2> QED
    BY <2>2, <2>4, <2>5, <2>6
<1> QED
  BY <1>1, <1>2

(* The response takes the place of its request, behind the older ones.     *)
LEMMA UnderWayPush ==
    ASSUME TypeOK, PushResponse
    PROVE  UnderWay' = UnderWay
<1>1. /\ mainPc = "exec" /\ mainPc' = "signal" /\ mainQueue' = mainQueue
      /\ scriptQueue' = Append(scriptQueue, msg) /\ msg \in Messages
      /\ scriptQueue \in Seq(Messages) /\ <<msg>> \in Seq(Messages)
  BY DEF PushResponse, TypeOK
<1>2. UnderWay = (scriptQueue \o <<msg>>) \o mainQueue
  BY <1>1 DEF UnderWay
<1>3. UnderWay' = (Append(scriptQueue, msg) \o <<>>) \o mainQueue
  BY <1>1 DEF UnderWay
<1>4. Append(scriptQueue, msg) = scriptQueue \o <<msg>> /\ scriptQueue \o <<msg>> \in Seq(Messages)
  BY <1>1, AppendIsConcat, ConcatProperties
<1> QED
  BY <1>2, <1>3, <1>4, ConcatEmptySeq

(* Queues in a row need no parentheses.                                    *)
LEMMA ThreeQueues ==
    \A a, b, c \in Seq(Messages) : (a \o b) \o c = a \o (b \o c)
  BY ConcatAssociative

(* A response is taken: it is the oldest call of the thread under way.     *)
LEMMA UnderWayTake ==
    ASSUME TypeOK, NEW t \in Threads, TakeResponse(t)
    PROVE  \E i \in 1..Len(scriptQueue) :
              /\ i \in 1..Len(UnderWay) /\ UnderWay[i] = scriptQueue[i]
              /\ scriptQueue[i].id = t /\ scriptQueue' = RemoveAt(scriptQueue, i)
              /\ answer' = [answer EXCEPT ![t] = scriptQueue[i].call]
              /\ IsFirst(UnderWay, t, i)
              /\ UnderWay' = RemoveAt(UnderWay, i)
<1> DEFINE rest == Executing \o mainQueue
<1>0. scriptQueue \in Seq(Messages)
  BY DEF TypeOK
<1>1. PICK i \in DOMAIN scriptQueue :
           /\ IsFirst(scriptQueue, t, i)
           /\ answer' = [answer EXCEPT ![t] = scriptQueue[i].call]
           /\ scriptQueue' = RemoveAt(scriptQueue, i)
           /\ UNCHANGED <<mainQueue, mainPc, msg>>
  BY Zenon DEF TakeResponse
<1> i \in 1..Len(scriptQueue)
  BY <1>0, LenProperties
<1>2. UnderWay = scriptQueue \o rest /\ rest \in Seq(Messages)
  BY UnderWayIs
<1>3. RemoveAt(scriptQueue, i) \in Seq(Messages) /\ mainQueue \in Seq(Messages)
      /\ Executing \in Seq(Messages)
  BY <1>0, <1>1, RemoveAtProperties, UnderWayIs DEF TypeOK
<1>4. UnderWay' = (RemoveAt(scriptQueue, i) \o Executing) \o mainQueue
  BY <1>1 DEF UnderWay, Executing
<1>5. UnderWay' = RemoveAt(scriptQueue, i) \o rest
  <2> DEFINE r == RemoveAt(scriptQueue, i)
  <2>1. /\ r \in Seq(Messages) /\ Executing \in Seq(Messages) /\ mainQueue \in Seq(Messages)
        /\ UnderWay' = (r \o Executing) \o mainQueue
    BY <1>3, <1>4
  <2> HIDE DEF r
  <2>2. (r \o Executing) \o mainQueue = r \o (Executing \o mainQueue)
    BY <2>1, ThreeQueues, Zenon
  <2> QED
    BY <2>1, <2>2 DEF r
<1> HIDE DEF rest
<1>6. UnderWay' = RemoveAt(UnderWay, i)
  BY <1>0, <1>2, <1>5, RemoveAtConcat
<1>7. /\ i \in 1..Len(UnderWay)
      /\ \A k \in 1..i : UnderWay[k] = scriptQueue[k]
  <2>1. /\ Len(UnderWay) = Len(scriptQueue) + Len(rest) /\ Len(rest) \in Nat
        /\ Len(scriptQueue) \in Nat
        /\ \A k \in 1..(Len(scriptQueue) + Len(rest)) :
              UnderWay[k] = IF k <= Len(scriptQueue) THEN scriptQueue[k]
                            ELSE rest[k - Len(scriptQueue)]
    BY <1>0, <1>2, ConcatProperties, LenProperties
  <2> QED
    BY <2>1
<1>8. IsFirst(UnderWay, t, i) /\ UnderWay[i] = scriptQueue[i] /\ scriptQueue[i].id = t
  BY <1>1, <1>7 DEF IsFirst
<1> QED
  BY <1>1, <1>6, <1>7, <1>8

(* Every step keeps the calls under way in order.                          *)
LEMMA OrderStep == TypeOK /\ TypeOK' /\ InOrderOnce /\ [Next]_vars => InOrderOnce'
<1> SUFFICES ASSUME TypeOK, TypeOK', InOrderOnce, [Next]_vars PROVE InOrderOnce'
  OBVIOUS
<1>0. UnderWay \in Seq(Messages) /\ calls \in [Threads -> 0..MaxCalls]
  BY UnderWayIs DEF TypeOK
<1>1. ASSUME NEW t \in Threads, SendRequest(t) PROVE InOrderOnce'
  <2>1. calls' = [calls EXCEPT ![t] = @ + 1]
    BY <1>1 DEF SendRequest
  <2> QED
    BY <1>0, <1>1, <2>1, UnderWaySend, LatestAppend DEF InOrderOnce
<1>2. ASSUME NEW t \in Threads, TakeResponse(t) PROVE InOrderOnce'
  <2>1. PICK i \in 1..Len(UnderWay) :
             UnderWay[i].id = t /\ IsFirst(UnderWay, t, i) /\ UnderWay' = RemoveAt(UnderWay, i)
    BY <1>2, UnderWayTake
  <2>2. calls' = calls
    BY <1>2 DEF TakeResponse
  <2>3. LatestCalls(RemoveAt(UnderWay, i), calls)
    BY <1>0, <2>1, LatestRemove DEF InOrderOnce
  <2> QED
    BY <2>1, <2>2, <2>3 DEF InOrderOnce
<1>3. CASE UnderWay' = UnderWay /\ calls' = calls
  BY <1>3 DEF InOrderOnce
<1>4. CASE ShiftRequest
  BY <1>3, <1>4, UnderWayShift DEF ShiftRequest
<1>5. CASE PushResponse
  BY <1>3, <1>5, UnderWayPush DEF PushResponse
<1>6. ASSUME NEW t \in Threads,
             ScriptStart(t) \/ ScriptEnd(t) \/ NotifyMain(t) \/ Sleep(t) \/ ReturnNull(t)
               \/ SpuriousWakeup(t)
      PROVE  InOrderOnce'
  BY <1>3, <1>6 DEF ScriptStart, ScriptEnd, NotifyMain, Sleep, ReturnNull, SpuriousWakeup, UnderWay
<1>7. CASE ReadEventFd \/ SignalScript \/ UNCHANGED vars
  BY <1>3, <1>7 DEF ReadEventFd, SignalScript, vars, UnderWay
<1> QED
  BY <1>1, <1>2, <1>4, <1>5, <1>6, <1>7
  DEF Next, Script, Main, ShiftResponse, WokenShift

(* No request or response is lost, duplicated or overtaken on its way      *)
(* through the two queues, for any number of threads that send, are        *)
(* answered and end in any order.                                          *)
THEOREM OrderCorrect == Spec => []InOrderOnce
<1>1. Init => InOrderOnce
  <2> SUFFICES ASSUME Init PROVE InOrderOnce
    OBVIOUS
  <2>1. UnderWay = <<>> \o <<>> \o <<>>
    BY DEF Init, UnderWay
  <2>2. UnderWay = <<>> /\ DOMAIN UnderWay = {}
    BY <2>1
  <2> QED
    BY <2>2 DEF InOrderOnce, LatestCalls
<1> QED
  BY <1>1, OrderStep, TypeCorrect, PTL DEF Spec

-----------------------------------------------------------------------------
(* Signals.                                                                *)

(* Threads on their way to script_queue that find no response there yet.   *)
Unanswered == {t \in Threads : pc[t] \in {"notify", "take"} /\ ~HasId(scriptQueue, t)}

(* Their request is still with the main thread.                            *)
RequestPending ==
    \A t \in Unanswered : HasId(mainQueue, t) \/ (mainPc = "exec" /\ msg.id = t)

(* The main thread has a response in hand it has not signalled yet.        *)
ToSignal == IF mainPc \in {"exec", "signal"} THEN 1 ELSE 0

(* Sleepers and those who may yet go to sleep are owed a signal each.      *)
SignalsOwed == Cardinality(Waiting \cup Unanswered) <= Len(mainQueue) + ToSignal

(* The inductive invariant: without RequestPending, the signal the main    *)
(* thread gives when nobody waits could be one somebody is still owed.     *)
SignalInv == RequestPending /\ SignalsOwed

(* Sets of threads are finite.                                             *)
LEMMA OwedFinite ==
    ASSUME NEW S, S \subseteq Threads
    PROVE  IsFiniteSet(S) /\ Cardinality(S) \in Nat
<1>1. IsFiniteSet(S)
  BY ThreadsAssumption, FS_Subset
<1> QED
  BY <1>1, FS_CardinalityType

(* A queue names at most as many threads as it has entries.                *)
LEMMA IdsBounded ==
    ASSUME NEW q \in Seq(Messages), NEW S, S \subseteq Threads, \A t \in S : HasId(q, t)
    PROVE  Cardinality(S) <= Len(q)
<1>1. Len(q) \in Nat /\ DOMAIN q = 1..Len(q)
  OBVIOUS
<1> DEFINE f == [t \in S |-> CHOOSE i \in 1..Len(q) : q[i].id = t]
<1>2. \A t \in S : f[t] \in 1..Len(q) /\ q[f[t]].id = t
  BY <1>1 DEF HasId
<1>3. f \in Injection(S, 1..Len(q))
  <2>1. f \in [S -> 1..Len(q)]
    BY <1>2
  <2>2. \A a, b \in S : f[a] = f[b] => a = b
    BY <1>2
  <2> HIDE DEF f
  <2> QED
    BY <2>1, <2>2 DEF Injection, IsInjective
<1>4. IsFiniteSet(1..Len(q)) /\ Cardinality(1..Len(q)) = Len(q)
  BY <1>1, FS_Interval
<1> HIDE DEF f
<1> QED
  BY <1>3, <1>4, FS_Injection

(* Who has an entry after one of thread t is taken.                        *)
LEMMA TakeKeepsIds ==
    ASSUME NEW q \in Seq(Messages), NEW i \in 1..Len(q), NEW t, q[i].id # t
    PROVE  HasId(RemoveAt(q, i), t) <=> HasId(q, t)
<1> DEFINE r == RemoveAt(q, i)
<1>0. Len(q) \in Nat /\ DOMAIN q = 1..Len(q)
  OBVIOUS
<1>1. /\ r \in Seq(Messages) /\ Len(r) = Len(q) - 1
      /\ \A k \in 1..(Len(q) - 1) : r[k] = IF k < i THEN q[k] ELSE q[k + 1]
  BY RemoveAtProperties
<1> HIDE DEF r
<1>2. DOMAIN r = 1..(Len(q) - 1)
  BY <1>1
<1>3. ASSUME NEW k \in DOMAIN r, r[k].id = t PROVE HasId(q, t)
  <2> DEFINE K == IF k < i THEN k ELSE k + 1
  <2>1. K \in DOMAIN q /\ q[K].id = t
    BY <1>0, <1>1, <1>2, <1>3
  <2> QED
    BY <2>1 DEF HasId
<1>4. ASSUME NEW k \in DOMAIN q, q[k].id = t PROVE HasId(r, t)
  <2> DEFINE K == IF k < i THEN k ELSE k - 1
  <2>1. K \in 1..(Len(q) - 1) /\ r[K] = q[k]
    BY <1>0, <1>1, <1>4
  <2> QED
    BY <1>2, <1>4, <2>1 DEF HasId
<1> QED
  BY <1>3, <1>4 DEF HasId, r

(* Whose entries a queue has after a push ...                              *)
LEMMA AppendIds ==
    ASSUME NEW S, NEW q \in Seq(S), NEW m \in S, NEW t
    PROVE  HasId(Append(q, m), t) <=> HasId(q, t) \/ m.id = t
<1> DEFINE r == Append(q, m)
<1>1. /\ Len(q) \in Nat /\ DOMAIN q = 1..Len(q) /\ DOMAIN r = 1..(Len(q) + 1)
      /\ \A k \in 1..Len(q) : r[k] = q[k]
      /\ r[Len(q) + 1] = m
  OBVIOUS
<1> HIDE DEF r
<1> QED
  BY <1>1 DEF HasId, r

(* ... and after its head is shifted.                                      *)
LEMMA TailIds ==
    ASSUME NEW S, NEW q \in Seq(S), q # <<>>, NEW t, HasId(q, t)
    PROVE  HasId(Tail(q), t) \/ Head(q).id = t
<1> DEFINE r == Tail(q)
<1>1. /\ Len(q) \in Nat /\ DOMAIN q = 1..Len(q) /\ DOMAIN r = 1..(Len(q) - 1)
      /\ \A k \in 1..(Len(q) - 1) : r[k] = q[k + 1]
      /\ Head(q) = q[1]
  OBVIOUS
<1> HIDE DEF r
<1>2. PICK k \in DOMAIN q : q[k].id = t
  BY DEF HasId
<1>3. CASE k > 1
  <2>1. k - 1 \in DOMAIN r /\ r[k - 1] = q[k]
    BY <1>1, <1>3
  <2> QED
    BY <1>2, <2>1 DEF HasId, r
<1> QED
  BY <1>1, <1>2, <1>3

(* SignalInv is inductive.  In Sleep a thread moves from Unanswered to     *)
(* Waiting; in SignalScript one sleeper leaves, or there is none, and then *)
(* IdsBounded gives every thread in Unanswered an entry of its own.        *)
LEMMA SignalStep == TypeOK /\ TypeOK' /\ SignalInv /\ [Next]_vars => SignalInv'
<1> SUFFICES ASSUME TypeOK, TypeOK', SignalInv, [Next]_vars PROVE SignalInv'
  OBVIOUS
<1> DEFINE O == Waiting \cup Unanswered
<1>0. /\ O \subseteq Threads /\ O' \subseteq Threads
      /\ IsFiniteSet(O) /\ Cardinality(O) \in Nat /\ IsFiniteSet(O') /\ Cardinality(O') \in Nat
      /\ Len(mainQueue) \in Nat /\ Len(mainQueue') \in Nat
      /\ Cardinality(O) <= Len(mainQueue) + ToSignal
  <2>1. O \subseteq Threads /\ O' \subseteq Threads
    BY DEF Waiting, Unanswered
  <2>2. Len(mainQueue) \in Nat /\ Len(mainQueue') \in Nat
    BY DEF TypeOK
  <2> QED
    BY <2>1, <2>2, OwedFinite DEF SignalInv, SignalsOwed
<1> HIDE DEF O
<1>1. ASSUME O' \subseteq O, Len(mainQueue) + ToSignal <= Len(mainQueue') + ToSignal'
      PROVE  SignalsOwed'
  <2>1. Cardinality(O') <= Cardinality(O)
    BY <1>0, <1>1, FS_Subset
  <2> QED
    BY <1>0, <1>1, <2>1 DEF SignalsOwed, ToSignal, O
<1>2. ASSUME NEW t \in Threads, SendRequest(t) PROVE SignalInv'
  <2>1. /\ pc[t] = "run" /\ pc' = [pc EXCEPT ![t] = "notify"]
        /\ mainQueue' = Append(mainQueue, [id |-> t, call |-> calls[t] + 1])
        /\ UNCHANGED <<scriptQueue, mainPc, msg>>
    BY <1>2 DEF SendRequest
  <2>2. O' \subseteq O \cup {t} /\ Unanswered' \subseteq Unanswered \cup {t}
    BY <2>1 DEF O, Waiting, Unanswered, TypeOK, HasId
  <2>3. \A x : HasId(mainQueue', x) <=> HasId(mainQueue, x) \/ x = t
    <3>1. [id |-> t, call |-> calls[t] + 1] \in Messages
      BY <1>2, MaxCallsAssumption DEF Messages, SendRequest, TypeOK
    <3>2. \A x : HasId(mainQueue', x) <=>
                   HasId(mainQueue, x) \/ [id |-> t, call |-> calls[t] + 1].id = x
      BY <2>1, <3>1, AppendIds DEF TypeOK
    <3> QED
      BY <3>2
  <2>4. RequestPending'
    BY <2>1, <2>2, <2>3 DEF SignalInv, RequestPending, HasId
  <2>5. Cardinality(O') <= Cardinality(O) + 1
    <3>0. /\ IsFiniteSet(O \cup {t})
          /\ Cardinality(O \cup {t}) = IF t \in O THEN Cardinality(O) ELSE Cardinality(O) + 1
      BY <1>0, FS_AddElement
    <3>1. IsFiniteSet(O \cup {t}) /\ Cardinality(O \cup {t}) <= Cardinality(O) + 1
      BY <1>0, <3>0
    <3>2. Cardinality(O \cup {t}) \in Nat /\ Cardinality(O') <= Cardinality(O \cup {t})
      BY <2>2, <3>1, FS_Subset, FS_CardinalityType
    <3> QED
      BY <1>0, <3>1, <3>2
  <2>6. Len(mainQueue') = Len(mainQueue) + 1 /\ ToSignal' = ToSignal /\ ToSignal \in {0, 1}
    BY <2>1 DEF ToSignal, TypeOK
  <2>7. SignalsOwed'
    BY <1>0, <2>5, <2>6 DEF SignalsOwed, O
  <2> QED
    BY <2>4, <2>7 DEF SignalInv
<1>3. ASSUME NEW t \in Threads, TakeResponse(t), pc[t] \in {"take", "woken"} PROVE SignalInv'
  <2>1. PICK i \in 1..Len(scriptQueue) :
             scriptQueue[i].id = t /\ scriptQueue' = RemoveAt(scriptQueue, i)
    BY <1>3, UnderWayTake
  <2>2. pc' = [pc EXCEPT ![t] = "run"] /\ UNCHANGED <<mainQueue, mainPc, msg>>
    BY <1>3 DEF TakeResponse
  <2>3. \A x \in Threads \ {t} : HasId(scriptQueue', x) <=> HasId(scriptQueue, x)
    BY <2>1, TakeKeepsIds DEF TypeOK
  <2>4. Unanswered' \subseteq Unanswered /\ Waiting' \subseteq Waiting
    BY <2>2, <2>3 DEF Unanswered, Waiting, TypeOK, HasId
  <2>5. RequestPending'
    BY <2>2, <2>4 DEF SignalInv, RequestPending, HasId
  <2> QED
    BY <1>0, <1>1, <2>2, <2>4, <2>5 DEF SignalInv, ToSignal, O
<1>4. ASSUME NEW t \in Threads, pc[t] = "take", Sleep(t) PROVE SignalInv'
  <2>1. /\ ~HasId(scriptQueue, t) /\ pc' = [pc EXCEPT ![t] = "wait"]
        /\ UNCHANGED <<mainQueue, scriptQueue, mainPc, msg>>
    BY <1>4 DEF Sleep
  <2>2. O' \subseteq O /\ Unanswered' \subseteq Unanswered
    BY <1>4, <2>1 DEF O, Waiting, Unanswered, TypeOK, HasId
  <2>3. RequestPending'
    BY <2>1, <2>2 DEF SignalInv, RequestPending, HasId
  <2> QED
    BY <1>0, <1>1, <2>1, <2>2, <2>3 DEF SignalInv, ToSignal
<1>5. ASSUME NEW t \in Threads,
             \/ ScriptStart(t) \/ ScriptEnd(t) \/ NotifyMain(t) \/ SpuriousWakeup(t)
             \/ pc[t] = "woken" /\ ReturnNull(t)
      PROVE  SignalInv'
  <2>1. /\ UNCHANGED <<mainQueue, scriptQueue, mainPc, msg>>
        /\ \/ \E s \in {"none", "run", "woken"} : pc' = [pc EXCEPT ![t] = s]
           \/ pc[t] = "notify" /\ pc' = [pc EXCEPT ![t] = "take"]
    BY <1>5 DEF ScriptStart, ScriptEnd, NotifyMain, SpuriousWakeup, ReturnNull
  <2>2. O' \subseteq O /\ Unanswered' \subseteq Unanswered
    BY <2>1 DEF O, Waiting, Unanswered, TypeOK, HasId
  <2>3. RequestPending'
    BY <2>1, <2>2 DEF SignalInv, RequestPending, HasId
  <2> QED
    BY <1>0, <1>1, <2>1, <2>2, <2>3 DEF SignalInv, ToSignal
<1>6. CASE ReadEventFd \/ UNCHANGED vars
  <2>1. /\ UNCHANGED <<mainQueue, scriptQueue, pc, msg>> /\ ToSignal' = ToSignal
        /\ mainPc = "exec" <=> mainPc' = "exec"
    BY <1>6 DEF ReadEventFd, vars, ToSignal
  <2>2. O' \subseteq O /\ Unanswered' \subseteq Unanswered
    BY <2>1 DEF O, Waiting, Unanswered, HasId
  <2>3. RequestPending'
    BY <2>1, <2>2 DEF SignalInv, RequestPending, HasId
  <2> QED
    BY <1>0, <1>1, <2>1, <2>2, <2>3 DEF SignalInv, ToSignal
<1>7. CASE ShiftRequest
  <2>1. mainPc = "shift" /\ UNCHANGED <<scriptQueue, pc>> /\ mainQueue \in Seq(Messages)
    BY <1>7 DEF ShiftRequest, TypeOK
  <2>2. O' \subseteq O /\ Unanswered' \subseteq Unanswered
    BY <2>1 DEF O, Waiting, Unanswered, HasId
  <2>3. CASE mainQueue = <<>>
    <3>1. mainPc' = "null" /\ mainQueue' = mainQueue
      BY <1>7, <2>3 DEF ShiftRequest
    <3>2. RequestPending'
      BY <2>1, <2>2, <3>1 DEF SignalInv, RequestPending, HasId
    <3> QED
      BY <1>0, <1>1, <2>1, <2>2, <3>1, <3>2 DEF SignalInv, ToSignal
  <2>4. CASE mainQueue # <<>>
    <3>1. mainPc' = "exec" /\ msg' = Head(mainQueue) /\ mainQueue' = Tail(mainQueue)
      BY <1>7, <2>4 DEF ShiftRequest
    <3>2. Len(mainQueue') = Len(mainQueue) - 1
      BY <2>1, <2>4, <3>1
    <3>3. ASSUME NEW x, HasId(mainQueue, x) PROVE HasId(mainQueue', x) \/ msg'.id = x
      BY <2>1, <2>4, <3>1, <3>3, TailIds
    <3>4. RequestPending'
      BY <2>1, <2>2, <3>1, <3>3 DEF SignalInv, RequestPending, HasId
    <3> QED
      BY <1>0, <1>1, <2>1, <2>2, <3>1, <3>2, <3>4 DEF SignalInv, ToSignal
  <2> QED
    BY <2>3, <2>4
<1>8. CASE PushResponse
  <2>1. /\ mainPc = "exec" /\ mainPc' = "signal" /\ UNCHANGED <<mainQueue, pc, msg>>
        /\ scriptQueue' = Append(scriptQueue, msg) /\ msg \in Messages
    BY <1>8 DEF PushResponse, TypeOK
  <2>2. \A x : HasId(scriptQueue', x) <=> HasId(scriptQueue, x) \/ msg.id = x
    BY <2>1, AppendIds DEF TypeOK
  <2>3. O' \subseteq O /\ Unanswered' \subseteq Unanswered /\ msg.id \notin Unanswered'
    BY <2>1, <2>2 DEF O, Waiting, Unanswered, HasId
  <2>4. RequestPending'
    BY <2>1, <2>3 DEF SignalInv, RequestPending, HasId
  <2> QED
    BY <1>0, <1>1, <2>1, <2>3, <2>4 DEF SignalInv, ToSignal
<1>9. CASE SignalScript
  <2>1. mainPc = "signal" /\ mainPc' = "loop" /\ UNCHANGED <<mainQueue, scriptQueue>>
        /\ ToSignal = 1 /\ ToSignal' = 0
    BY <1>9 DEF SignalScript, ToSignal
  <2>2. CASE Waiting = {} /\ UNCHANGED pc
    <3>1. O' = Unanswered /\ Unanswered' = Unanswered
      BY <2>1, <2>2 DEF O, Waiting, Unanswered, HasId
    <3>2. \A t \in Unanswered : HasId(mainQueue, t)
      BY <2>1 DEF SignalInv, RequestPending
    <3>3. Cardinality(Unanswered) <= Len(mainQueue)
      BY <3>2, IdsBounded DEF TypeOK, Unanswered
    <3>4. RequestPending'
      BY <2>1, <3>1, <3>2 DEF RequestPending, HasId
    <3>5. Cardinality(O') <= Len(mainQueue') + ToSignal'
      BY <1>0, <2>1, <3>1, <3>3
    <3> QED
      BY <3>4, <3>5 DEF SignalInv, SignalsOwed, O
  <2>3. CASE \E t \in Waiting : pc' = [pc EXCEPT ![t] = "woken"]
    <3>1. PICK t \in Waiting : pc' = [pc EXCEPT ![t] = "woken"]
      BY <2>3
    <3>2. t \in O /\ O' \subseteq O \ {t} /\ Unanswered' \subseteq Unanswered
      BY <2>1, <3>1 DEF O, Waiting, Unanswered, TypeOK, HasId
    <3>3. Cardinality(O') <= Cardinality(O) - 1
      <4>1. IsFiniteSet(O \ {t}) /\ Cardinality(O \ {t}) = Cardinality(O) - 1
        BY <1>0, <3>2, FS_RemoveElement
      <4> QED
        BY <3>2, <4>1, FS_Subset
    <3>4. RequestPending'
      BY <2>1, <3>2 DEF SignalInv, RequestPending, HasId
    <3> QED
      BY <1>0, <2>1, <3>3, <3>4 DEF SignalInv, SignalsOwed, O
  <2> QED
    BY <1>9, <2>2, <2>3 DEF SignalScript
<1> QED
  BY <1>2, <1>3, <1>4, <1>5, <1>6, <1>7, <1>8, <1>9
  DEF Next, Script, Main, ShiftResponse, WokenShift

(* Every thread asleep in pthread_cond_wait on script_queue is owed a      *)
(* signal of its own: those still to come are never fewer than the         *)
(* sleepers, whoever each of them wakes.                                   *)
THEOREM SleepersCorrect == Spec => []SleepersAreOwedSignals
<1>1. Init => SignalInv
  <2> SUFFICES ASSUME Init PROVE SignalInv
    OBVIOUS
  <2>1. Waiting = {} /\ Unanswered = {} /\ Len(mainQueue) = 0 /\ ToSignal = 0
    BY DEF Init, Waiting, Unanswered, ToSignal
  <2> QED
    BY <2>1, FS_EmptySet DEF SignalInv, RequestPending, SignalsOwed
<1>2. TypeOK /\ SignalInv => SleepersAreOwedSignals
  <2> SUFFICES ASSUME TypeOK, SignalInv PROVE SleepersAreOwedSignals
    OBVIOUS
  <2>1. Waiting \cup Unanswered \subseteq Threads /\ Waiting \subseteq Threads
    BY DEF Waiting, Unanswered
  <2>2. Cardinality(Waiting) <= Cardinality(Waiting \cup Unanswered)
    BY <2>1, OwedFinite, FS_Subset
  <2>3. /\ Cardinality(Waiting) \in Nat /\ Cardinality(Waiting \cup Unanswered) \in Nat
        /\ Len(mainQueue) \in Nat
    BY <2>1, OwedFinite DEF TypeOK
  <2> QED
    BY <2>2, <2>3 DEF SignalInv, SignalsOwed, ToSignal, SleepersAreOwedSignals
<1> QED
  BY <1>1, <1>2, SignalStep, TypeCorrect, PTL DEF Spec

-----------------------------------------------------------------------------
(* The refinement of RemoteCall.                                           *)

(* The entries of thread t.                                                *)
Entries(q, t) == {i \in DOMAIN q : q[i].id = t}

(* Their number is a number, zero if the queue has no entry of t.          *)
LEMMA CountType ==
    ASSUME NEW S, NEW q \in Seq(S), NEW t
    PROVE  /\ IsFiniteSet(Entries(q, t)) /\ CountOf(q, t) \in Nat
           /\ CountOf(q, t) = Cardinality(Entries(q, t))
           /\ CountOf(q, t) = 0 <=> ~HasId(q, t)
<1>1. DOMAIN q = 1..Len(q) /\ Len(q) \in Nat
  OBVIOUS
<1>2. IsFiniteSet(1..Len(q))
  BY <1>1, FS_Interval
<1>3. IsFiniteSet(Entries(q, t))
  BY <1>1, <1>2, FS_Subset DEF Entries
<1>4. CountOf(q, t) = Cardinality(Entries(q, t))
  BY DEF CountOf, Entries
<1>5. Cardinality(Entries(q, t)) = 0 <=> Entries(q, t) = {}
  BY <1>3, FS_EmptySet
<1>6. Entries(q, t) = {} <=> ~HasId(q, t)
  BY DEF Entries, HasId
<1> QED
  BY <1>3, <1>4, <1>5, <1>6, FS_CardinalityType

(* Sets in one-to-one correspondence are of the same size.                 *)
LEMMA SameSize ==
    ASSUME NEW S, NEW T, IsFiniteSet(S), NEW f \in [S -> T],
           \A a, b \in S : f[a] = f[b] => a = b, \A y \in T : \E x \in S : f[x] = y
    PROVE  IsFiniteSet(T) /\ Cardinality(T) = Cardinality(S)
<1>1. f \in Injection(S, T)
  BY DEF Injection, IsInjective
<1>2. f \in Surjection(S, T)
  BY DEF Surjection
<1>3. ExistsBijection(S, T)
  BY <1>1, <1>2 DEF ExistsBijection, Bijection
<1> QED
  BY <1>3, FS_Bijection

(* Counting in two queues in a row.                                        *)
LEMMA CountConcat ==
    ASSUME NEW S, NEW a \in Seq(S), NEW b \in Seq(S), NEW t
    PROVE  CountOf(a \o b, t) = CountOf(a, t) + CountOf(b, t)
<1> DEFINE ab == a \o b
           A == Entries(a, t)
           B == Entries(b, t)
           C == {Len(a) + i : i \in B}
           f == [i \in B |-> Len(a) + i]
<1>1. /\ ab \in Seq(S) /\ Len(ab) = Len(a) + Len(b) /\ Len(a) \in Nat /\ Len(b) \in Nat
      /\ DOMAIN a = 1..Len(a) /\ DOMAIN b = 1..Len(b) /\ DOMAIN ab = 1..(Len(a) + Len(b))
      /\ \A k \in 1..Len(a) : ab[k] = a[k]
      /\ \A k \in 1..Len(b) : ab[Len(a) + k] = b[k]
  OBVIOUS
<1> HIDE DEF ab
<1>2. IsFiniteSet(A) /\ IsFiniteSet(B)
  BY CountType
<1>3. IsFiniteSet(C) /\ Cardinality(C) = Cardinality(B)
  <2>1. f \in [B -> C]
    OBVIOUS
  <2>2. \A i, j \in B : f[i] = f[j] => i = j
    BY <1>1 DEF Entries
  <2>3. \A y \in C : \E x \in B : f[x] = y
    OBVIOUS
  <2> HIDE DEF f, C, B
  <2> QED
    BY <1>2, <2>1, <2>2, <2>3, SameSize
<1>4. Entries(ab, t) = A \cup C
  <2>1. ASSUME NEW k \in 1..(Len(a) + Len(b)), ab[k].id = t PROVE k \in A \cup C
    <3>1. CASE k <= Len(a)
      BY <1>1, <2>1, <3>1 DEF Entries
    <3>2. CASE k > Len(a)
      <4>1. k - Len(a) \in 1..Len(b) /\ k = Len(a) + (k - Len(a))
        BY <1>1, <3>2
      <4>2. k - Len(a) \in B
        BY <1>1, <2>1, <4>1 DEF Entries
      <4> QED
        BY <4>1, <4>2
    <3> QED
      BY <1>1, <3>1, <3>2
  <2>2. A \cup C \subseteq Entries(ab, t)
    <3>1. A \subseteq Entries(ab, t)
      BY <1>1 DEF Entries
    <3>2. ASSUME NEW i \in B PROVE Len(a) + i \in Entries(ab, t)
      <4>1. i \in 1..Len(b) /\ b[i].id = t
        BY <1>1 DEF Entries
      <4>2. Len(a) + i \in 1..(Len(a) + Len(b)) /\ ab[Len(a) + i] = b[i]
        BY <1>1, <4>1
      <4> QED
        BY <1>1, <4>1, <4>2 DEF Entries
    <3> QED
      BY <3>1, <3>2
  <2> QED
    BY <1>1, <2>1, <2>2 DEF Entries
<1>5. A \cap C = {}
  BY <1>1 DEF Entries
<1>6. Cardinality(A \cup C) = Cardinality(A) + Cardinality(C)
  <2> HIDE DEF A, C
  <2>1. Cardinality(A \cup C) = Cardinality(A) + Cardinality(C) - Cardinality(A \cap C)
    BY <1>2, <1>3, FS_Union
  <2>2. Cardinality(A) \in Nat /\ Cardinality(C) \in Nat
    BY <1>2, <1>3, FS_CardinalityType
  <2>3. Cardinality(A \cap C) = 0
    BY <1>5, FS_EmptySet
  <2> QED
    BY <2>1, <2>2, <2>3
<1> QED
  BY <1>1, <1>3, <1>4, <1>6, CountType DEF ab

(* One entry is one or none for a thread.                                  *)
LEMMA CountOne ==
    ASSUME NEW m, NEW t
    PROVE  CountOf(<<m>>, t) = IF m.id = t THEN 1 ELSE 0
<1>1. DOMAIN <<m>> = {1} /\ <<m>>[1] = m
  OBVIOUS
<1>2. {i \in DOMAIN <<m>> : <<m>>[i].id = t} = IF m.id = t THEN {1} ELSE {}
  BY <1>1
<1> QED
  BY <1>2, FS_Singleton, FS_EmptySet DEF CountOf

(* Nothing is counted in an empty queue.                                   *)
LEMMA CountNone ==
    ASSUME NEW t
    PROVE  CountOf(<<>>, t) = 0
<1>1. {i \in DOMAIN <<>> : <<>>[i].id = t} = {}
  OBVIOUS
<1> QED
  BY <1>1, FS_EmptySet DEF CountOf

(* Taking entry i away.                                                    *)
LEMMA CountRemove ==
    ASSUME NEW S, NEW q \in Seq(S), NEW i \in 1..Len(q), NEW t
    PROVE  CountOf(RemoveAt(q, i), t) = CountOf(q, t) - (IF q[i].id = t THEN 1 ELSE 0)
<1> DEFINE r == RemoveAt(q, i)
           f == [k \in Entries(r, t) |-> IF k < i THEN k ELSE k + 1]
           E == Entries(q, t) \ {i}
<1>0. Len(q) \in Nat /\ DOMAIN q = 1..Len(q)
  OBVIOUS
<1>1. /\ r \in Seq(S) /\ Len(r) = Len(q) - 1
      /\ \A k \in 1..(Len(q) - 1) : r[k] = IF k < i THEN q[k] ELSE q[k + 1]
  BY RemoveAtProperties
<1> HIDE DEF r
<1>2. DOMAIN r = 1..(Len(q) - 1)
  BY <1>1
<1>3. f \in [Entries(r, t) -> E]
  BY <1>0, <1>1, <1>2 DEF Entries
<1>4. \A a, b \in Entries(r, t) : f[a] = f[b] => a = b
  BY <1>0, <1>2 DEF Entries
<1>5. ASSUME NEW y \in E PROVE \E x \in Entries(r, t) : f[x] = y
  <2> DEFINE x == IF y < i THEN y ELSE y - 1
  <2>1. y \in 1..Len(q) /\ y # i /\ q[y].id = t
    BY <1>0 DEF Entries
  <2>2. x \in 1..(Len(q) - 1) /\ (IF x < i THEN x ELSE x + 1) = y
    BY <1>0, <2>1
  <2>3. r[x] = q[y]
    BY <1>1, <2>2
  <2>4. x \in Entries(r, t)
    BY <1>2, <2>1, <2>2, <2>3 DEF Entries
  <2> QED
    BY <2>2, <2>4
<1>6. Cardinality(E) = Cardinality(Entries(r, t))
  <2>1. IsFiniteSet(Entries(r, t))
    BY <1>1, CountType
  <2> HIDE DEF f, E
  <2> QED
    BY <1>3, <1>4, <1>5, <2>1, SameSize
<1>7. Cardinality(E) = IF i \in Entries(q, t) THEN CountOf(q, t) - 1 ELSE CountOf(q, t)
  <2>1. IsFiniteSet(Entries(q, t)) /\ CountOf(q, t) = Cardinality(Entries(q, t))
    BY CountType
  <2> QED
    BY <2>1, FS_RemoveElement
<1>8. i \in Entries(q, t) <=> q[i].id = t
  BY <1>0 DEF Entries
<1>9. CountOf(q, t) \in Nat /\ CountOf(r, t) = Cardinality(Entries(r, t))
  BY <1>1, CountType
<1>10. CountOf(r, t) = IF q[i].id = t THEN CountOf(q, t) - 1 ELSE CountOf(q, t)
  BY <1>6, <1>7, <1>8, <1>9
<1> QED
  BY <1>9, <1>10 DEF r

(* The oldest call of a thread under way is known from their number.       *)
LEMMA FirstCall ==
    ASSUME NEW q \in Seq(Messages), NEW last \in [Threads -> 0..MaxCalls],
           LatestCalls(q, last), NEW t \in Threads, NEW i \in 1..Len(q), IsFirst(q, t, i)
    PROVE  q[i].call = last[t] - CountOf(q, t) + 1
<1> DEFINE E == Entries(q, t)
           f == [k \in E |-> q[k].call]
           R == q[i].call..last[t]
<1>0. Len(q) \in Nat /\ DOMAIN q = 1..Len(q)
  OBVIOUS
<1>1. /\ q[i].id = t /\ q[i].call \in Nat /\ last[t] \in Nat /\ q[i].call <= last[t]
      /\ \A j \in 1..(i - 1) : q[j].id # t
  <2>1. q[i].id = t /\ \A j \in 1..(i - 1) : q[j].id # t
    BY DEF IsFirst
  <2>2. q[i].call \in Nat /\ last[t] \in Nat
    BY EntryType, MaxCallsAssumption
  <2> QED
    BY <1>0, <2>1, <2>2 DEF LatestCalls
<1>2. ASSUME NEW k \in E PROVE k \in 1..Len(q) /\ q[k].id = t /\ q[k].call \in R
  <2>1. k \in 1..Len(q) /\ q[k].id = t /\ q[k].call \in Nat
    BY <1>0, EntryType DEF Entries
  <2>2. q[k].call <= last[t]
    BY <1>0, <2>1 DEF LatestCalls
  <2>3. k = i \/ i < k
    BY <1>0, <1>1, <2>1
  <2>4. q[i].call <= q[k].call
    BY <1>0, <1>1, <2>1, <2>3 DEF LatestCalls
  <2> QED
    BY <1>1, <2>1, <2>2, <2>4
<1>3. f \in [E -> R]
  BY <1>2
<1>4. ASSUME NEW a \in E, NEW b \in E, f[a] = f[b] PROVE a = b
  <2>1. a \in 1..Len(q) /\ b \in 1..Len(q) /\ q[a].id = q[b].id /\ q[a].call = q[b].call
        /\ q[a].call \in Nat
    BY <1>1, <1>2, <1>4
  <2>2. ~(a < b) /\ ~(b < a)
    BY <1>0, <2>1 DEF LatestCalls
  <2> QED
    BY <1>0, <2>1, <2>2
<1>5. ASSUME NEW y \in R PROVE \E x \in E : f[x] = y
  <2>1. PICK j \in DOMAIN q : q[j].id = t /\ q[j].call = y
    BY <1>0, <1>1 DEF LatestCalls
  <2> QED
    BY <2>1 DEF Entries
<1>6. Cardinality(R) = Cardinality(E)
  <2>1. IsFiniteSet(E)
    BY CountType
  <2> HIDE DEF E, f, R
  <2> QED
    BY <1>3, <1>4, <1>5, <2>1, SameSize
<1>7. Cardinality(R) = last[t] - q[i].call + 1
  <2>1. q[i].call \in Int /\ last[t] \in Int /\ ~(q[i].call > last[t])
    BY <1>1
  <2>2. Cardinality(R) = IF q[i].call > last[t] THEN 0 ELSE last[t] - q[i].call + 1
    BY <2>1, FS_Interval
  <2> QED
    BY <2>1, <2>2
<1>8. CountOf(q, t) = Cardinality(E) /\ CountOf(q, t) \in Nat
  BY CountType
<1>9. CountOf(q, t) = last[t] - q[i].call + 1
  BY <1>6, <1>7, <1>8
<1> QED
  BY <1>1, <1>9

(* The counters of RemoteCall, from the queues.                            *)
LEMMA Counters ==
    ASSUME TypeOK, NEW t \in Threads
    PROVE  /\ CountOf(scriptQueue, t) \in Nat /\ CountOf(mainQueue, t) \in Nat
           /\ calls[t] \in Nat /\ Executed(t) \in Int
           /\ CountOf(UnderWay, t) = calls[t] - Executed(t) + CountOf(scriptQueue, t)
<1>1. /\ scriptQueue \in Seq(Messages) /\ mainQueue \in Seq(Messages) /\ calls[t] \in Nat
      /\ mainPc = "exec" => msg \in Messages
  BY MaxCallsAssumption DEF TypeOK
<1>2. CountOf(scriptQueue, t) \in Nat /\ CountOf(mainQueue, t) \in Nat
  BY <1>1, CountType
<1>3. CountOf(Executing, t) = IF mainPc = "exec" /\ msg.id = t THEN 1 ELSE 0
  <2>1. CASE mainPc = "exec"
    BY <2>1, CountOne DEF Executing
  <2>2. CASE mainPc # "exec"
    BY <2>2, CountNone DEF Executing
  <2> QED
    BY <2>1, <2>2
<1>4. Executed(t) = calls[t] - CountOf(mainQueue, t) - CountOf(Executing, t)
  BY <1>3 DEF Executed
<1>5. CountOf(Executing, t) \in Nat
  BY <1>3
<1>6. CountOf(Executing \o mainQueue, t) = CountOf(Executing, t) + CountOf(mainQueue, t)
  BY <1>1, UnderWayIs, CountConcat
<1>7. CountOf(UnderWay, t) = CountOf(scriptQueue, t) + CountOf(Executing \o mainQueue, t)
  <2> DEFINE b == Executing \o mainQueue
  <2>1. UnderWay = scriptQueue \o b /\ b \in Seq(Messages)
    BY UnderWayIs
  <2> HIDE DEF b
  <2>2. CountOf(scriptQueue \o b, t) = CountOf(scriptQueue, t) + CountOf(b, t)
    BY <1>1, <2>1, CountConcat
  <2>3. CountOf(UnderWay, t) = CountOf(scriptQueue \o b, t)
    BY <2>1
  <2> QED
    BY <2>2, <2>3 DEF b
<1> QED
  BY <1>1, <1>2, <1>4, <1>5, <1>6, <1>7

(* Steps that change none of the counters.                                 *)
LEMMA CountersKept ==
    ASSUME TypeOK, TypeOK',
           \A t \in Threads : Executed(t)' = Executed(t),
           \A t \in Threads : CountOf(scriptQueue, t)' = CountOf(scriptQueue, t),
           \A t \in Threads : pc'[t] \in Sending <=> pc[t] \in Sending,
           UNCHANGED <<calls, answer>>
    PROVE  UNCHANGED RC!vars
  BY DEF RC!vars

(* ShiftRequest: the request is on its way either way.                     *)
LEMMA ShiftCounts ==
    ASSUME TypeOK, ShiftRequest, NEW t \in Threads
    PROVE  Executed(t)' = Executed(t)
<1>0. /\ mainPc = "shift" /\ calls' = calls /\ mainQueue \in Seq(Messages) /\ calls[t] \in Nat
      /\ CountOf(mainQueue, t) \in Nat
  BY Counters DEF ShiftRequest, TypeOK
<1>1. CASE mainQueue = <<>>
  <2>1. mainPc' = "null" /\ mainQueue' = mainQueue
    BY <1>1 DEF ShiftRequest
  <2> QED
    BY <1>0, <2>1 DEF Executed, CountOf
<1>2. CASE mainQueue # <<>>
  <2>1. mainPc' = "exec" /\ msg' = Head(mainQueue) /\ mainQueue' = Tail(mainQueue)
    BY <1>2 DEF ShiftRequest
  <2> DEFINE h == <<Head(mainQueue)>>
             r == Tail(mainQueue)
  <2>2. mainQueue = h \o r /\ h \in Seq(Messages) /\ r \in Seq(Messages)
    BY <1>0, <1>2
  <2>3. CountOf(h \o r, t) = CountOf(h, t) + CountOf(r, t)
    BY <2>2, CountConcat
  <2>4. CountOf(h, t) = IF Head(mainQueue).id = t THEN 1 ELSE 0
    BY CountOne
  <2>5. CountOf(r, t) \in Nat
    BY <2>2, CountType
  <2>6. CountOf(mainQueue, t) = CountOf(r, t) + (IF Head(mainQueue).id = t THEN 1 ELSE 0)
    <3>1. CountOf(mainQueue, t) = CountOf(h \o r, t)
      BY <2>2
    <3> HIDE DEF h, r
    <3> QED
      BY <2>3, <2>4, <2>5, <3>1
  <2>7. Executed(t)' = calls[t] - CountOf(r, t) - (IF Head(mainQueue).id = t THEN 1 ELSE 0)
    BY <1>0, <2>1 DEF Executed, CountOf
  <2>8. Executed(t) = calls[t] - CountOf(mainQueue, t)
    BY <1>0 DEF Executed
  <2> HIDE DEF r
  <2> QED
    BY <1>0, <2>5, <2>6, <2>7, <2>8
<1> QED
  BY <1>1, <1>2

(* PushResponse executes the request of msg.id, as RemoteCall does.        *)
LEMMA PushRefines ==
    ASSUME TypeOK, PushResponse
    PROVE  RC!Execute(msg.id)
<1> DEFINE c == msg.id
<1>1. /\ mainPc = "exec" /\ mainPc' = "signal" /\ msg \in Messages
      /\ scriptQueue' = Append(scriptQueue, msg) /\ scriptQueue \in Seq(Messages)
      /\ UNCHANGED <<mainQueue, pc, calls, answer, msg>>
  BY DEF PushResponse, TypeOK
<1>2. c \in Threads
  BY <1>1 DEF Messages
<1>3. ASSUME NEW t \in Threads
      PROVE  /\ Executed(t)' = Executed(t) + (IF t = c THEN 1 ELSE 0)
             /\ CountOf(scriptQueue, t)' = CountOf(scriptQueue, t) + (IF t = c THEN 1 ELSE 0)
             /\ t = c => Executed(t) < calls[t]
  <2>1. /\ CountOf(scriptQueue, t) \in Nat /\ CountOf(mainQueue, t) \in Nat /\ calls[t] \in Nat
    BY Counters
  <2>2. Executed(t) = calls[t] - CountOf(mainQueue, t) - (IF t = c THEN 1 ELSE 0)
    BY <1>1 DEF Executed
  <2>3. Executed(t)' = calls[t] - CountOf(mainQueue, t) - 0
    BY <1>1 DEF Executed, CountOf
  <2>4. CountOf(Append(scriptQueue, msg), t) = CountOf(scriptQueue, t) + CountOf(<<msg>>, t)
    <3> DEFINE b == <<msg>>
    <3>1. Append(scriptQueue, msg) = scriptQueue \o b /\ b \in Seq(Messages)
      BY <1>1, AppendIsConcat
    <3> HIDE DEF b
    <3>2. CountOf(scriptQueue \o b, t) = CountOf(scriptQueue, t) + CountOf(b, t)
      BY <1>1, <3>1, CountConcat
    <3>3. CountOf(Append(scriptQueue, msg), t) = CountOf(scriptQueue \o b, t)
      BY <3>1
    <3> QED
      BY <3>2, <3>3 DEF b
  <2>5. CountOf(<<msg>>, t) = IF t = c THEN 1 ELSE 0
    BY CountOne
  <2>6. CountOf(scriptQueue, t)' = CountOf(Append(scriptQueue, msg), t)
    BY <1>1 DEF CountOf
  <2> HIDE DEF c
  <2>7. Executed(t)' = Executed(t) + (IF t = c THEN 1 ELSE 0)
    BY <2>1, <2>2, <2>3
  <2>8. t = c => Executed(t) < calls[t]
    BY <2>1, <2>2
  <2> QED
    BY <2>4, <2>5, <2>6, <2>7, <2>8
<1>4. \A t \in Threads : Executed(t) \in Int /\ CountOf(scriptQueue, t) \in Nat
  BY Counters
<1> HIDE DEF c
<1>5. [t \in Threads |-> Executed(t)]' = [[t \in Threads |-> Executed(t)] EXCEPT ![c] = @ + 1]
  <2>1. ASSUME NEW t \in Threads
        PROVE  Executed(t)' = IF t = c THEN Executed(t) + 1 ELSE Executed(t)
    BY <1>3, <1>4
  <2> QED
    BY <2>1
<1>6. [t \in Threads |-> Executed(t) - CountOf(scriptQueue, t)]'
        = [t \in Threads |-> Executed(t) - CountOf(scriptQueue, t)]
  <2>1. ASSUME NEW t \in Threads
        PROVE  Executed(t)' - CountOf(scriptQueue, t)' = Executed(t) - CountOf(scriptQueue, t)
    BY <1>3, <1>4
  <2> QED
    BY <2>1
<1>7. Executed(c) < calls[c]
  BY <1>2, <1>3
<1> QED
  BY <1>1, <1>2, <1>5, <1>6, <1>7 DEF RC!Execute, c

(* A thread that leaves lua_async_send_msg is the only one that does.      *)
LEMMA SendingEnds ==
    ASSUME TypeOK, NEW t \in Threads, pc' = [pc EXCEPT ![t] = "run"]
    PROVE  [x \in Threads |-> pc[x] \in Sending]'
             = [[x \in Threads |-> pc[x] \in Sending] EXCEPT ![t] = FALSE]
<1>1. (pc'[t] \in Sending) = FALSE
  BY DEF TypeOK, Sending
<1>2. ASSUME NEW x \in Threads, x # t PROVE (pc'[x] \in Sending) = (pc[x] \in Sending)
  <2>1. pc'[x] = pc[x]
    BY <1>2 DEF TypeOK
  <2> QED
    BY <2>1, Zenon
<1> QED
  BY <1>1, <1>2, Zenon

(* A response that is taken is the oldest one not yet taken.               *)
LEMMA TakeRefines ==
    ASSUME TypeOK, InOrderOnce, NEW t \in Threads, TakeResponse(t), pc[t] \in Sending
    PROVE  RC!ReturnResult(t)
<1>1. PICK i \in 1..Len(scriptQueue) :
           /\ i \in 1..Len(UnderWay) /\ UnderWay[i] = scriptQueue[i]
           /\ scriptQueue[i].id = t /\ scriptQueue' = RemoveAt(scriptQueue, i)
           /\ answer' = [answer EXCEPT ![t] = scriptQueue[i].call]
           /\ IsFirst(UnderWay, t, i)
  BY UnderWayTake
<1>2. pc' = [pc EXCEPT ![t] = "run"] /\ UNCHANGED <<mainQueue, calls, mainPc, msg>>
  BY DEF TakeResponse
<1>3. scriptQueue \in Seq(Messages)
  BY DEF TypeOK
<1>4. ASSUME NEW x \in Threads
      PROVE  /\ Executed(x)' = Executed(x) /\ Executed(x) \in Int
             /\ CountOf(scriptQueue, x)' = CountOf(scriptQueue, x) - (IF x = t THEN 1 ELSE 0)
             /\ CountOf(scriptQueue, x) \in Nat
  <2>1. Executed(x)' = Executed(x)
    BY <1>2 DEF Executed, CountOf
  <2>2. CountOf(scriptQueue, x)' = CountOf(RemoveAt(scriptQueue, i), x)
    BY <1>1 DEF CountOf
  <2>3. CountOf(RemoveAt(scriptQueue, i), x)
          = CountOf(scriptQueue, x) - (IF scriptQueue[i].id = x THEN 1 ELSE 0)
    BY <1>3, CountRemove
  <2>4. Executed(x) \in Int /\ CountOf(scriptQueue, x) \in Nat
    BY Counters
  <2>5. CountOf(scriptQueue, x)' = CountOf(scriptQueue, x) - (IF x = t THEN 1 ELSE 0)
    BY <1>1, <2>2, <2>3
  <2> QED
    BY <2>1, <2>4, <2>5
<1>5. CountOf(scriptQueue, t) > 0
  <2>1. HasId(scriptQueue, t)
    BY <1>1, <1>3 DEF HasId
  <2> QED
    BY <1>3, <2>1, CountType
<1>6. scriptQueue[i].call = (Executed(t) - CountOf(scriptQueue, t)) + 1
  <2>1. UnderWay \in Seq(Messages) /\ calls \in [Threads -> 0..MaxCalls]
    BY UnderWayIs DEF TypeOK
  <2>2. UnderWay[i].call = calls[t] - CountOf(UnderWay, t) + 1
    BY <1>1, <2>1, FirstCall DEF InOrderOnce
  <2>3. /\ CountOf(UnderWay, t) = calls[t] - Executed(t) + CountOf(scriptQueue, t)
        /\ calls[t] \in Nat
    BY Counters
  <2> QED
    BY <1>1, <1>4, <2>2, <2>3
<1>7. [x \in Threads |-> Executed(x)]' = [x \in Threads |-> Executed(x)]
  BY <1>4
<1>8. [x \in Threads |-> Executed(x) - CountOf(scriptQueue, x)]'
        = [[x \in Threads |-> Executed(x) - CountOf(scriptQueue, x)] EXCEPT ![t] = @ + 1]
  <2>1. ASSUME NEW x \in Threads
        PROVE  Executed(x)' - CountOf(scriptQueue, x)'
                 = IF x = t THEN (Executed(x) - CountOf(scriptQueue, x)) + 1
                   ELSE Executed(x) - CountOf(scriptQueue, x)
    BY <1>4
  <2> QED
    BY <2>1
<1>9. [x \in Threads |-> pc[x] \in Sending]'
        = [[x \in Threads |-> pc[x] \in Sending] EXCEPT ![t] = FALSE]
  BY <1>2, SendingEnds
<1>10. Executed(t) - CountOf(scriptQueue, t) < Executed(t)
  BY <1>4, <1>5
<1> QED
  BY <1>1, <1>2, <1>6, <1>7, <1>8, <1>9, <1>10 DEF RC!ReturnResult

(* The steps of the queues are steps of RemoteCall, or change nothing      *)
(* there.                                                                  *)
LEMMA StepRefines ==
    TypeOK /\ TypeOK' /\ InOrderOnce /\ [Next]_vars => [RC!Next]_(RC!vars)
<1> SUFFICES ASSUME TypeOK, TypeOK', InOrderOnce, [Next]_vars PROVE RC!Next \/ UNCHANGED RC!vars
  OBVIOUS
<1>1. ASSUME NEW t \in Threads, SendRequest(t) PROVE RC!Next
  <2>1. /\ pc[t] = "run" /\ pc' = [pc EXCEPT ![t] = "notify"]
        /\ calls' = [calls EXCEPT ![t] = @ + 1]
        /\ mainQueue' = Append(mainQueue, [id |-> t, call |-> calls[t] + 1])
        /\ UNCHANGED <<scriptQueue, answer, mainPc, msg>>
    BY <1>1 DEF SendRequest
  <2> DEFINE m == [id |-> t, call |-> calls[t] + 1]
  <2>2. m \in Messages
    BY <1>1, MaxCallsAssumption DEF Messages, SendRequest, TypeOK
  <2>3. ASSUME NEW x \in Threads PROVE Executed(x)' = Executed(x)
    <3>0. mainQueue \in Seq(Messages)
      BY DEF TypeOK
    <3>1. CountOf(Append(mainQueue, m), x) = CountOf(mainQueue, x) + CountOf(<<m>>, x)
      <4> HIDE DEF m
      <4> DEFINE b == <<m>>
      <4>1. Append(mainQueue, m) = mainQueue \o b /\ b \in Seq(Messages)
        BY <2>2, <3>0, AppendIsConcat
      <4> HIDE DEF b
      <4>2. CountOf(mainQueue \o b, x) = CountOf(mainQueue, x) + CountOf(b, x)
        BY <3>0, <4>1, CountConcat
      <4>3. CountOf(Append(mainQueue, m), x) = CountOf(mainQueue \o b, x)
        BY <4>1
      <4> QED
        BY <4>2, <4>3 DEF b
    <3>2. CountOf(<<m>>, x) = IF t = x THEN 1 ELSE 0
      <4>1. CountOf(<<m>>, x) = IF m.id = x THEN 1 ELSE 0
        BY CountOne
      <4> QED
        BY <4>1
    <3>3. CountOf(mainQueue, x)' = CountOf(Append(mainQueue, m), x)
      BY <2>1 DEF CountOf
    <3>4. calls'[x] = IF t = x THEN calls[x] + 1 ELSE calls[x]
      BY <2>1 DEF TypeOK
    <3>5. calls[x] \in Nat /\ CountOf(mainQueue, x) \in Nat
      BY Counters
    <3>6. (IF mainPc' = "exec" /\ msg'.id = x THEN 1 ELSE 0)
            = (IF mainPc = "exec" /\ msg.id = x THEN 1 ELSE 0)
      BY <2>1
    <3> DEFINE e == IF mainPc = "exec" /\ msg.id = x THEN 1 ELSE 0
    <3>7. Executed(x) = calls[x] - CountOf(mainQueue, x) - e
          /\ Executed(x)' = calls'[x] - CountOf(mainQueue, x)' - e
          /\ e \in Nat
      BY <2>1, <3>6 DEF Executed
    <3> HIDE DEF e, m
    <3> QED
      BY <3>1, <3>2, <3>3, <3>4, <3>5, <3>7
  <2>4. [x \in Threads |-> Executed(x)]' = [x \in Threads |-> Executed(x)]
    BY <2>3
  <2>5. [x \in Threads |-> Executed(x) - CountOf(scriptQueue, x)]'
          = [x \in Threads |-> Executed(x) - CountOf(scriptQueue, x)]
    <3>1. \A x \in Threads : CountOf(scriptQueue, x)' = CountOf(scriptQueue, x)
      BY <2>1 DEF CountOf
    <3> QED
      BY <2>3, <3>1
  <2>6. /\ [x \in Threads |-> pc[x] \in Sending]'
             = [[x \in Threads |-> pc[x] \in Sending] EXCEPT ![t] = TRUE]
        /\ pc[t] \notin Sending
    BY <2>1 DEF TypeOK, Sending
  <2>7. RC!Call(t)
    BY <2>1, <2>4, <2>5, <2>6 DEF RC!Call
  <2> QED
    BY <2>7 DEF RC!Next
<1>2. ASSUME NEW t \in Threads, TakeResponse(t), pc[t] \in {"take", "woken"} PROVE RC!Next
  <2>1. pc[t] \in Sending
    BY <1>2 DEF Sending
  <2> QED
    BY <1>2, <2>1, TakeRefines DEF RC!Next, RC!Return
<1>3. ASSUME NEW t \in Threads, ReturnNull(t), pc[t] = "woken" PROVE RC!Next
  <2>1. /\ ~HasId(scriptQueue, t) /\ answer' = [answer EXCEPT ![t] = 0]
        /\ pc' = [pc EXCEPT ![t] = "run"]
        /\ UNCHANGED <<mainQueue, scriptQueue, calls, mainPc, msg>>
    BY <1>3 DEF ReturnNull
  <2>2. \A x \in Threads : /\ Executed(x)' = Executed(x)
                           /\ CountOf(scriptQueue, x)' = CountOf(scriptQueue, x)
    BY <2>1 DEF Executed, CountOf
  <2>3. Executed(t) - CountOf(scriptQueue, t) = Executed(t)
    <3>1. CountOf(scriptQueue, t) = 0
      BY <2>1, CountType DEF TypeOK
    <3>2. Executed(t) \in Int
      BY Counters
    <3> QED
      BY <3>1, <3>2
  <2>4. /\ [x \in Threads |-> pc[x] \in Sending]'
             = [[x \in Threads |-> pc[x] \in Sending] EXCEPT ![t] = FALSE]
        /\ pc[t] \in Sending
    <3>1. pc[t] \in Sending
      BY <1>3 DEF Sending
    <3> QED
      BY <2>1, <3>1, SendingEnds
  <2>5. [x \in Threads |-> Executed(x)]' = [x \in Threads |-> Executed(x)]
    BY <2>2
  <2>6. [x \in Threads |-> Executed(x) - CountOf(scriptQueue, x)]'
          = [x \in Threads |-> Executed(x) - CountOf(scriptQueue, x)]
    BY <2>2
  <2>7. RC!ReturnNothing(t)
    BY <2>1, <2>3, <2>4, <2>5, <2>6 DEF RC!ReturnNothing
  <2> QED
    BY <2>7 DEF RC!Next, RC!Return
<1>4. CASE PushResponse
  <2>1. msg.id \in Threads
    BY <1>4 DEF PushResponse, TypeOK, Messages
  <2> QED
    BY <1>4, <2>1, PushRefines DEF RC!Next
<1>5. CASE ShiftRequest
  <2>1. UNCHANGED <<scriptQueue, pc, calls, answer>>
    BY <1>5 DEF ShiftRequest
  <2>2. \A t \in Threads : CountOf(scriptQueue, t)' = CountOf(scriptQueue, t)
    BY <2>1 DEF CountOf
  <2> QED
    BY <1>5, <2>1, <2>2, ShiftCounts, CountersKept
<1>6. ASSUME UNCHANGED <<mainQueue, scriptQueue, calls, answer>>,
             mainPc' = "exec" <=> mainPc = "exec", mainPc = "exec" => msg' = msg,
             \A t \in Threads : pc'[t] \in Sending <=> pc[t] \in Sending
      PROVE  UNCHANGED RC!vars
  <2>1. \A t \in Threads : /\ Executed(t)' = Executed(t)
                           /\ CountOf(scriptQueue, t)' = CountOf(scriptQueue, t)
    BY <1>6 DEF Executed, CountOf
  <2> QED
    BY <1>6, <2>1, CountersKept
<1>7. ASSUME NEW t \in Threads,
             ScriptStart(t) \/ ScriptEnd(t) \/ NotifyMain(t)
               \/ (pc[t] = "take" /\ Sleep(t)) \/ SpuriousWakeup(t)
      PROVE  UNCHANGED RC!vars
  <2>1. /\ UNCHANGED <<mainQueue, scriptQueue, calls, answer, mainPc, msg>>
        /\ \E s \in ThreadStates : /\ pc' = [pc EXCEPT ![t] = s]
                                   /\ s \in Sending <=> pc[t] \in Sending
    BY <1>7 DEF ScriptStart, ScriptEnd, NotifyMain, Sleep, SpuriousWakeup, ThreadStates, Sending
  <2>2. \A x \in Threads : pc'[x] \in Sending <=> pc[x] \in Sending
    BY <2>1 DEF TypeOK
  <2> QED
    BY <1>6, <2>1, <2>2
<1>8. CASE SignalScript
  <2>1. \A x \in Threads : pc'[x] \in Sending <=> pc[x] \in Sending
    BY <1>8 DEF SignalScript, Waiting, TypeOK, Sending
  <2> QED
    BY <1>6, <1>8, <2>1 DEF SignalScript
<1>9. CASE ReadEventFd \/ UNCHANGED vars
  BY <1>6, <1>9 DEF ReadEventFd, vars
<1> QED
  BY <1>1, <1>2, <1>3, <1>4, <1>5, <1>7, <1>8, <1>9
  DEF Next, Script, Main, ShiftResponse, WokenShift

(* The queues, the eventfd and the condition variable implement the        *)
(* counters of RemoteCall, fairness apart: requests are executed once and  *)
(* in order, and a response that is taken is the oldest not yet taken.     *)
THEOREM RefinesRemoteCall == Spec => RC!Safe
<1>1. Init => RC!Init
  <2> SUFFICES ASSUME Init PROVE RC!Init
    OBVIOUS
  <2>1. \A t \in Threads : CountOf(scriptQueue, t) = 0 /\ CountOf(mainQueue, t) = 0
    BY CountNone DEF Init
  <2>2. \A t \in Threads : Executed(t) = 0
    BY <2>1 DEF Executed, Init
  <2>3. /\ calls = [t \in Threads |-> 0] /\ answer = [t \in Threads |-> 0]
        /\ [t \in Threads |-> Executed(t)] = [t \in Threads |-> 0]
    BY <2>2 DEF Init
  <2>4. [t \in Threads |-> Executed(t) - CountOf(scriptQueue, t)] = [t \in Threads |-> 0]
    BY <2>1, <2>2
  <2>5. [t \in Threads |-> pc[t] \in Sending] = [t \in Threads |-> FALSE]
    <3>1. \A t \in Threads : (pc[t] \in Sending) = FALSE
      BY DEF Init, Sending
    <3> QED
      BY <3>1, Zenon
  <2> QED
    BY <2>3, <2>4, <2>5 DEF RC!Init
<1> QED
  BY <1>1, StepRefines, TypeCorrect, OrderCorrect, PTL DEF Spec, RC!Safe
=============================================================================
