------------------------------ MODULE LuaAsync ------------------------------
(***************************************************************************)
(* Asynchronous Lua scripts (actions/lua_async.c, lua/async/queue_msg.c,   *)
(* event_loop/msg_queue.c, event_loop/eventfd_wrap.c).                     *)
(*                                                                         *)
(* Every asynchronous script runs in a detached thread of its own.  A      *)
(* script that calls into myGPIOd pushes a request on main_queue, writes   *)
(* the eventfd of that queue, and waits on script_queue for the response   *)
(* with its thread id.  The main thread polls the eventfd, executes the    *)
(* requested function on the Lua VM of the waiting thread and pushes the   *)
(* response on script_queue.                                               *)
(*                                                                         *)
(* A critical section of a queue mutex is one step.  What the code does    *)
(* after unlocking (pthread_cond_signal, the eventfd write) is a step of   *)
(* its own, so the threads interleave there.  The mutex calls themselves   *)
(* do not fail.                                                            *)
(***************************************************************************)
EXTENDS Naturals, Sequences, FiniteSets, SequencesExt

CONSTANTS Threads,   \* the kernel thread ids (gettid) of script threads
          MaxCalls,  \* bound: calls into the main thread per thread id
          Spurious   \* may pthread_cond_wait return without a signal?

ASSUME ThreadsAssumption == IsFiniteSet(Threads)
ASSUME MaxCallsAssumption == MaxCalls \in Nat
ASSUME SpuriousAssumption == Spurious \in BOOLEAN

VARIABLES
    mainQueue,    \* main_queue: requests, oldest first
    scriptQueue,  \* script_queue: responses, oldest first
    eventFd,      \* the EFD_SEMAPHORE counter of main_queue
    pc,           \* where each script thread is
    calls,        \* number of calls each thread id has made (names its calls)
    answer,       \* the call whose response the last send_msg returned, 0: NULL
    mainPc,       \* where the main thread is in lua_async_handle_msg
    msg           \* the message the main thread works on

vars == <<mainQueue, scriptQueue, eventFd, pc, calls, answer, mainPc, msg>>

(* A queue entry: the id of the node and the call its data belongs to.     *)
Messages == [id : Threads, call : 1..MaxCalls]

(* "none": no such thread; "run": the script executes on its own VM; the   *)
(* others are inside lua_async_send_msg: "notify" the request is pushed    *)
(* but the eventfd not yet written, "take" about to shift script_queue,    *)
(* "wait" in pthread_cond_wait, "woken" about to lock the mutex again.     *)
Sending == {"notify", "take", "wait", "woken"}
ThreadStates == {"none", "run"} \cup Sending

(* "loop": in the event loop; "shift": eventfd read, message not yet       *)
(* taken; "exec": the Lua function runs; "signal": response pushed,        *)
(* condition not yet signalled; "null": a NULL message was dereferenced.   *)
MainStates == {"loop", "shift", "exec", "signal", "null"}

-----------------------------------------------------------------------------
Init ==
    /\ mainQueue = <<>>
    /\ scriptQueue = <<>>
    /\ eventFd = 0
    /\ pc = [t \in Threads |-> "none"]
    /\ calls = [t \in Threads |-> 0]
    /\ answer = [t \in Threads |-> 0]
    /\ mainPc = "loop"
    /\ msg = <<>>

-----------------------------------------------------------------------------
(* The queue operations.                                                   *)

(* check_for_queue_id *)
HasId(queue, id) == \E i \in DOMAIN queue : queue[i].id = id

(* A scan that does not compare the ids.                                   *)
IsHead(queue, id, i) == i = 1

(* the entry mygpiod_queue_shift finds for an id: the oldest one *)
IsFirst(queue, id, i) ==
    /\ queue[i].id = id
    /\ \A j \in 1..(i - 1) : queue[j].id # id

-----------------------------------------------------------------------------
(* Script threads.                                                         *)

(* action_lua_async: the main thread creates a detached thread.            *)
ScriptStart(t) ==
    /\ mainPc = "loop"
    /\ pc[t] = "none"
    /\ pc' = [pc EXCEPT ![t] = "run"]
    /\ UNCHANGED <<mainQueue, scriptQueue, eventFd, calls, answer, mainPc, msg>>

(* script_run: the script returns, its VM is closed, the thread ends and   *)
(* the kernel may give its id to a later thread.                           *)
ScriptEnd(t) ==
    /\ pc[t] = "run"
    /\ pc' = [pc EXCEPT ![t] = "none"]
    /\ UNCHANGED <<mainQueue, scriptQueue, eventFd, calls, answer, mainPc, msg>>

(* lua_async_send_msg, first half of the push on main_queue.               *)
SendRequest(t) ==
    /\ pc[t] = "run"
    /\ calls[t] < MaxCalls
    /\ calls' = [calls EXCEPT ![t] = @ + 1]
    /\ mainQueue' = Append(mainQueue, [id |-> t, call |-> calls[t] + 1])
    /\ pc' = [pc EXCEPT ![t] = "notify"]
    /\ UNCHANGED <<scriptQueue, eventFd, answer, mainPc, msg>>

(* Second half of that push: nobody waits on the condition of main_queue,  *)
(* so the signal has no effect; the eventfd is written.                    *)
NotifyMain(t) ==
    /\ pc[t] = "notify"
    /\ eventFd' = eventFd + 1
    /\ pc' = [pc EXCEPT ![t] = "take"]
    /\ UNCHANGED <<mainQueue, scriptQueue, calls, answer, mainPc, msg>>

(* mygpiod_queue_shift finds the entry of the thread and returns it; the   *)
(* script goes on.                                                         *)
TakeResponse(t) ==
    \E i \in DOMAIN scriptQueue :
        /\ IsFirst(scriptQueue, t, i)
        /\ answer' = [answer EXCEPT ![t] = scriptQueue[i].call]
        /\ scriptQueue' = RemoveAt(scriptQueue, i)
        /\ pc' = [pc EXCEPT ![t] = "run"]
        /\ UNCHANGED <<mainQueue, eventFd, calls, mainPc, msg>>

(* It finds none: lua_async_send_msg reports an error and returns 0.       *)
ReturnNull(t) ==
    /\ ~HasId(scriptQueue, t)
    /\ answer' = [answer EXCEPT ![t] = 0]
    /\ pc' = [pc EXCEPT ![t] = "run"]
    /\ UNCHANGED <<mainQueue, scriptQueue, eventFd, calls, mainPc, msg>>

(* A wait without check_for_queue_id before it.                            *)
SleepUnchecked(t) ==
    /\ pc' = [pc EXCEPT ![t] = "wait"]
    /\ UNCHANGED <<mainQueue, scriptQueue, eventFd, calls, answer, mainPc, msg>>

(* pthread_cond_wait: unlock and sleep.                                    *)
Sleep(t) ==
    /\ ~HasId(scriptQueue, t)
    /\ pc' = [pc EXCEPT ![t] = "wait"]
    /\ UNCHANGED <<mainQueue, scriptQueue, eventFd, calls, answer, mainPc, msg>>

(* mygpiod_queue_shift(script_queue, 0, id) up to its return or wait.      *)
ShiftResponse(t) == pc[t] = "take" /\ (TakeResponse(t) \/ Sleep(t))

(* ... and after pthread_cond_wait returned: the queue is scanned once,    *)
(* the wait is not repeated.                                               *)
WokenShift(t) == pc[t] = "woken" /\ (TakeResponse(t) \/ ReturnNull(t))

(* pthread_cond_wait may return without a signal.                          *)
SpuriousWakeup(t) ==
    /\ Spurious
    /\ pc[t] = "wait"
    /\ pc' = [pc EXCEPT ![t] = "woken"]
    /\ UNCHANGED <<mainQueue, scriptQueue, eventFd, calls, answer, mainPc, msg>>

-----------------------------------------------------------------------------
(* The main thread: lua_async_handle_msg.                                  *)

(* An eventfd without EFD_SEMAPHORE: a read takes everything.              *)
ReadEventFdAll ==
    /\ mainPc = "loop"
    /\ eventFd > 0
    /\ eventFd' = 0
    /\ mainPc' = "shift"
    /\ UNCHANGED <<mainQueue, scriptQueue, pc, calls, answer, msg>>

(* The result of event_eventfd_read is not looked at.                      *)
ReadEventFdIgnored ==
    /\ mainPc = "loop"
    /\ eventFd' = IF eventFd > 0 THEN eventFd - 1 ELSE 0
    /\ mainPc' = "shift"
    /\ UNCHANGED <<mainQueue, scriptQueue, pc, calls, answer, msg>>

(* poll reported the eventfd; event_eventfd_read takes one from it.        *)
ReadEventFd ==
    /\ mainPc = "loop"
    /\ eventFd > 0
    /\ eventFd' = eventFd - 1
    /\ mainPc' = "shift"
    /\ UNCHANGED <<mainQueue, scriptQueue, pc, calls, answer, msg>>

(* A queue that is shifted from its tail.                                  *)
ShiftRequestLast ==
    /\ mainPc = "shift"
    /\ mainQueue # <<>>
    /\ msg' = Last(mainQueue)
    /\ mainQueue' = Front(mainQueue)
    /\ mainPc' = "exec"
    /\ UNCHANGED <<scriptQueue, eventFd, pc, calls, answer>>

(* mygpiod_queue_shift(main_queue, -1, 0), its result used unchecked.      *)
ShiftRequest ==
    /\ mainPc = "shift"
    /\ \/ /\ mainQueue # <<>>
          /\ msg' = Head(mainQueue)
          /\ mainQueue' = Tail(mainQueue)
          /\ mainPc' = "exec"
       \/ /\ mainQueue = <<>>
          /\ mainPc' = "null"
          /\ UNCHANGED <<mainQueue, msg>>
    /\ UNCHANGED <<scriptQueue, eventFd, pc, calls, answer>>

(* The Lua function returned; the response is pushed on script_queue.      *)
PushResponse ==
    /\ mainPc = "exec"
    /\ scriptQueue' = Append(scriptQueue, msg)
    /\ mainPc' = "signal"
    /\ UNCHANGED <<mainQueue, eventFd, pc, calls, answer, msg>>

Waiting == {t \in Threads : pc[t] = "wait"}

(* A push that does not signal the condition.                              *)
SignalNobody ==
    /\ mainPc = "signal"
    /\ mainPc' = "loop"
    /\ msg' = <<>>
    /\ UNCHANGED <<mainQueue, scriptQueue, eventFd, pc, calls, answer>>

(* pthread_cond_signal wakes one of the waiting threads, whichever.        *)
(* script_queue has no eventfd.  The message is freed.                     *)
SignalScript ==
    /\ mainPc = "signal"
    /\ \/ \E t \in Waiting : pc' = [pc EXCEPT ![t] = "woken"]
       \/ Waiting = {} /\ UNCHANGED pc
    /\ mainPc' = "loop"
    /\ msg' = <<>>
    /\ UNCHANGED <<mainQueue, scriptQueue, eventFd, calls, answer>>

-----------------------------------------------------------------------------
Script(t) ==
    \/ ScriptEnd(t)
    \/ SendRequest(t)
    \/ NotifyMain(t)
    \/ ShiftResponse(t)
    \/ WokenShift(t)

Main ==
    \/ ReadEventFd
    \/ ShiftRequest
    \/ PushResponse
    \/ SignalScript

Next ==
    \/ \E t \in Threads : ScriptStart(t) \/ Script(t) \/ SpuriousWakeup(t)
    \/ Main

Spec == Init /\ [][Next]_vars

(* The main thread serves the eventfd again and again, and a thread inside *)
(* lua_async_send_msg that can run does run.  A script need not end, call  *)
(* or be started.                                                          *)
Fairness ==
    /\ WF_vars(Main)
    /\ \A t \in Threads :
          WF_vars(NotifyMain(t) \/ ShiftResponse(t) \/ WokenShift(t))

FairSpec == Spec /\ Fairness

-----------------------------------------------------------------------------
(* Properties.                                                             *)

(* Every variable has its type.  The strengthening TLAPS needs is that a   *)
(* message is at hand exactly while the main thread handles one.           *)
TypeOK ==
    /\ mainQueue \in Seq(Messages)
    /\ scriptQueue \in Seq(Messages)
    /\ eventFd \in Nat
    /\ pc \in [Threads -> ThreadStates]
    /\ calls \in [Threads -> 0..MaxCalls]
    /\ answer \in [Threads -> 0..MaxCalls]
    /\ mainPc \in MainStates
    /\ msg \in Messages \cup {<<>>}
    /\ mainPc \in {"exec", "signal"} => msg \in Messages

Notifying == {t \in Threads : pc[t] = "notify"}

(* The eventfd counter accounts for main_queue: what is queued is what the *)
(* counter announces, plus the requests whose eventfd write is still to    *)
(* come, plus the one the main thread has read the eventfd for.            *)
EventFdCounts ==
    Len(mainQueue) = eventFd + Cardinality(Notifying)
                        + (IF mainPc = "shift" THEN 1 ELSE 0)

(* lua_async_handle_msg dereferences the message without a check: it never *)
(* gets NULL, although the eventfd it read may have been written for       *)
(* another message than the one it shifts.                                 *)
NeverNull == mainPc # "null" /\ (mainPc = "shift" => mainQueue # <<>>)

(* The requests and responses under way, oldest first.                     *)
UnderWay == scriptQueue \o (IF mainPc = "exec" THEN <<msg>> ELSE <<>>) \o mainQueue

(* Of every thread that occurs in it q holds the latest calls, each once   *)
(* and in order; last[t] is the last call of t.                            *)
LatestCalls(q, last) ==
    /\ \A i, j \in DOMAIN q : i < j /\ q[i].id = q[j].id => q[i].call < q[j].call
    /\ \A i \in DOMAIN q :
          /\ q[i].call <= last[q[i].id]
          /\ \A k \in q[i].call..last[q[i].id] :
                \E j \in DOMAIN q : q[j].id = q[i].id /\ q[j].call = k

(* No request or response is lost, duplicated or overtaken on its way      *)
(* through the two queues: what is under way for a thread are its latest   *)
(* calls, consecutively.                                                   *)
InOrderOnce == LatestCalls(UnderWay, calls)

(* Every thread asleep on script_queue is owed a signal of its own: the    *)
(* sleepers are at most as many as the responses the main thread has still *)
(* to signal.  (That the right one wakes is another matter, VmExclusive.)  *)
SleepersAreOwedSignals ==
    Cardinality(Waiting) <= Len(mainQueue)
                               + (IF mainPc \in {"exec", "signal"} THEN 1 ELSE 0)

(* lua_async_send_msg always returns ("Number of values on the Lua stack,  *)
(* or 0 on error", queue_msg.c:49): although each signal wakes only one    *)
(* waiting thread and not necessarily the right one, no thread is left     *)
(* behind in pthread_cond_wait.                                            *)
CallReturns == \A t \in Threads : pc[t] \in Sending ~> pc[t] = "run"

(* While the main thread runs a function on a thread's Lua VM, that thread *)
(* is inside lua_async_send_msg, where it "waits for the response"         *)
(* (queue_msg.c:45), and neither uses nor closes the VM.                   *)
VmExclusive == mainPc = "exec" => pc[msg.id] \in Sending

(* The queues as RemoteCall counts them.                                   *)
CountOf(queue, t) == Cardinality({i \in DOMAIN queue : queue[i].id = t})
Executed(t) ==
    calls[t] - CountOf(mainQueue, t) - (IF mainPc = "exec" /\ msg.id = t THEN 1 ELSE 0)

RC == INSTANCE RemoteCall WITH
        Clients <- Threads,
        sent <- calls,
        executed <- [t \in Threads |-> Executed(t)],
        taken <- [t \in Threads |-> Executed(t) - CountOf(scriptQueue, t)],
        busy <- [t \in Threads |-> pc[t] \in Sending]

(* The two queues, the eventfd and the condition variable implement the    *)
(* counters of RemoteCall.                                                 *)
ImplementsRemoteCall == RC!Spec
=============================================================================
