----------------------------- MODULE RemoteCall -----------------------------
(***************************************************************************)
(* What a script gets from lua_async_send_msg, as counters per caller and  *)
(* without queues, eventfd or condition variable: the functions a caller   *)
(* requests are executed once each and in order, a return takes the oldest *)
(* result not yet taken, or none if there is none, and every call returns. *)
(***************************************************************************)
EXTENDS Naturals

CONSTANT Clients

VARIABLES sent,      \* calls made
          executed,  \* calls executed by the main thread
          taken,     \* results taken
          busy,      \* is the caller inside a call?
          answer     \* the call whose result was last returned, 0 for none

vars == <<sent, executed, taken, busy, answer>>

Init ==
    /\ sent = [c \in Clients |-> 0]
    /\ executed = [c \in Clients |-> 0]
    /\ taken = [c \in Clients |-> 0]
    /\ busy = [c \in Clients |-> FALSE]
    /\ answer = [c \in Clients |-> 0]

Call(c) ==
    /\ ~busy[c]
    /\ sent' = [sent EXCEPT ![c] = @ + 1]
    /\ busy' = [busy EXCEPT ![c] = TRUE]
    /\ UNCHANGED <<executed, taken, answer>>

Execute(c) ==
    /\ executed[c] < sent[c]
    /\ executed' = [executed EXCEPT ![c] = @ + 1]
    /\ UNCHANGED <<sent, taken, busy, answer>>

ReturnResult(c) ==
    /\ busy[c]
    /\ taken[c] < executed[c]
    /\ taken' = [taken EXCEPT ![c] = @ + 1]
    /\ answer' = [answer EXCEPT ![c] = taken[c] + 1]
    /\ busy' = [busy EXCEPT ![c] = FALSE]
    /\ UNCHANGED <<sent, executed>>

ReturnNothing(c) ==
    /\ busy[c]
    /\ taken[c] = executed[c]
    /\ answer' = [answer EXCEPT ![c] = 0]
    /\ busy' = [busy EXCEPT ![c] = FALSE]
    /\ UNCHANGED <<sent, executed, taken>>

Return(c) == ReturnResult(c) \/ ReturnNothing(c)

Next == \E c \in Clients : Call(c) \/ Execute(c) \/ Return(c)

(* What may happen, without what must.                                     *)
Safe == Init /\ [][Next]_vars

Spec ==
    /\ Safe
    /\ \A c \in Clients : WF_vars(Execute(c)) /\ WF_vars(Return(c))
=============================================================================
