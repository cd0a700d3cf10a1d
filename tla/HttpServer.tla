----------------------------- MODULE HttpServer -----------------------------
(***************************************************************************)
(* The HTTP server inside the event loop (server_http/*.c, the HTTP parts  *)
(* of lib/events.c, main.c and config/config.c): requests, the long poll   *)
(* endpoint and the shutdown.                                              *)
(*                                                                         *)
(* libmicrohttpd is external: it calls request_handler once when the       *)
(* headers of a request are there and once to answer it, leaves a          *)
(* suspended connection alone until it is resumed and then calls the       *)
(* handler again, and calls http_connection_done once for every request    *)
(* whose handler it has called.  A resumed connection is served by the     *)
(* next MHD_run, and MHD_get_timeout is 0 until then.                      *)
(*                                                                         *)
(* One iteration of the loop is Poll, the calls of the handlers inside     *)
(* MHD_run, and the delegation of another descriptor that poll reported.   *)
(* A request is its kind; what the REST API reads and the responses' text  *)
(* are left out.  Events are numbered in the order in which they happen.   *)
(***************************************************************************)
EXTENDS Naturals, Sequences

CONSTANTS Conns,        \* HTTP connections
          EventsMax,    \* bound: events raised
          RequestsMax   \* bound: requests of all clients

ASSUME BoundsAssumption == EventsMax \in Nat /\ RequestsMax \in Nat

VARIABLES
    conn,       \* what MHD does with each connection
    req,        \* the kind of its request
    gone,       \* has its client closed the connection?
    alive,      \* is there a t_request_data for its request?
    buffer,     \* resume_buffer: the event it reports, 0 for NULL
    suspended,  \* http_suspended: the connections whose t_request_data it holds
    pc,         \* where the daemon is
    work,       \* connections MHD_run still has to serve
    report,     \* what else poll has reported
    eventCount, \* events raised so far
    since,      \* events raised before each connection was suspended
    requests    \* requests so far

http == <<conn, alive, buffer, suspended, eventCount, since>>
loop == <<pc, work, report>>
client == <<req, gone, requests>>
vars == <<http, loop, client>>

(* "read": GET and OPTIONS of the REST API; "patch": set, toggle and       *)
(* blink; "hook"; "poll"; "webui"; "other": a method not allowed.          *)
Requests == {"read", "patch", "hook", "poll", "webui", "other"}

(* "idle": no request; "headers": headers received, handler not yet        *)
(* called; "request": called once; "suspended"; "resuming": resumed, not   *)
(* yet served; "sending": a response is queued.                            *)
ConnStates == {"idle", "headers", "request", "suspended", "resuming", "sending"}

(* "loop": before poll; "mhd": in MHD_run; "delegate": in                  *)
(* event_read_delegate; "stopped"; "panic": MHD was stopped while it had   *)
(* suspended connections.                                                  *)
DaemonStates == {"loop", "mhd", "delegate", "stopped", "panic"}

Init ==
    /\ conn = [c \in Conns |-> "idle"]
    /\ req = [c \in Conns |-> "read"]
    /\ gone = [c \in Conns |-> FALSE]
    /\ alive = [c \in Conns |-> FALSE]
    /\ buffer = [c \in Conns |-> 0]
    /\ suspended = <<>>
    /\ pc = "loop"
    /\ work = {}
    /\ report = "none"
    /\ eventCount = 0
    /\ since = [c \in Conns |-> 0]
    /\ requests = 0

-----------------------------------------------------------------------------
InList(c) == \E i \in DOMAIN suspended : suspended[i] = c
Resuming == {c \in Conns : conn[c] = "resuming"}

(* MHD_get_timeout as if resumed connections could wait.                   *)
NoTimeout == FALSE

(* MHD_get_timeout: 0 if a resumed connection is waiting.                  *)
MhdTimeout == Resuming # {}

(* Connections on which something may have happened.                       *)
Active == {c \in Conns : conn[c] \in {"headers", "request", "sending"}}

(* main: poll; MHD's epoll descriptor, another one, a timeout.             *)
Poll ==
    /\ pc = "loop"
    /\ \E ready \in SUBSET Active, other \in {"none", "gpio", "signal"} :
        /\ ready # {} \/ other # "none" \/ MhdTimeout
        /\ work' = Resuming \cup ready
        /\ report' = other
    /\ pc' = "mhd"
    /\ UNCHANGED <<http, client>>

-----------------------------------------------------------------------------
(* Events.                                                                 *)

(* The list is not cleared.                                                *)
ResumeKeepList(cs, e) ==
    /\ buffer' = [c \in Conns |-> IF InList(c) THEN e ELSE buffer[c]]
    /\ conn' = [c \in Conns |-> IF InList(c) THEN "resuming" ELSE cs[c]]
    /\ UNCHANGED suspended

(* The long polling part of event_enqueue_gpio and event_enqueue_input,    *)
(* http_connection_resume_gpio, http_connection_resume_input.              *)
Resume(cs, e) ==
    /\ buffer' = [c \in Conns |-> IF InList(c) THEN e ELSE buffer[c]]
    /\ conn' = [c \in Conns |-> IF InList(c) THEN "resuming" ELSE cs[c]]
    /\ suspended' = <<>>

(* An event is raised; cs is what has become of the connections.           *)
RaiseEvent(cs) ==
    /\ eventCount < EventsMax
    /\ eventCount' = eventCount + 1
    /\ Resume(cs, eventCount + 1)

NoEvent(cs) ==
    /\ conn' = cs
    /\ UNCHANGED <<buffer, suspended, eventCount>>

-----------------------------------------------------------------------------
(* request_handler.  The guard that all calls share.                       *)
Serving(c, state) ==
    /\ pc = "mhd"
    /\ c \in work
    /\ conn[c] = state

(* A response is queued.                                                   *)
Sent(c) == [conn EXCEPT ![c] = "sending"]
Respond(c) ==
    /\ work' = work \ {c}
    /\ UNCHANGED <<alive, since, pc, report, client>>

NewRequestData(c) ==
    /\ alive' = [alive EXCEPT ![c] = TRUE]
    /\ buffer' = [buffer EXCEPT ![c] = 0]

(* The first call, with headers only; data that is posted is ignored and   *)
(* may arrive in a later MHD_run.                                          *)
FirstCall(c) ==
    /\ Serving(c, "headers")
    /\ conn' = [conn EXCEPT ![c] = "request"]
    /\ NewRequestData(c)
    /\ work' \in {work, work \ {c}}
    /\ UNCHANGED <<suspended, eventCount, since, pc, report, client>>

(* A method that is not allowed.                                           *)
NotAllowed(c) ==
    /\ Serving(c, "request")
    /\ req[c] = "other"
    /\ NoEvent(Sent(c))
    /\ Respond(c)

(* rest_api_handler for what only reads.                                   *)
ReadApi(c) ==
    /\ Serving(c, "request")
    /\ req[c] = "read"
    /\ NoEvent(Sent(c))
    /\ Respond(c)

(* rest_api_handler for set, toggle and blink: the GPIO is set and an      *)
(* event raised, or not.                                                   *)
PatchApi(c) ==
    /\ Serving(c, "request")
    /\ req[c] = "patch"
    /\ RaiseEvent(Sent(c)) \/ NoEvent(Sent(c))
    /\ Respond(c)

(* hook_handler: the action of the hook, which may be a script, sets       *)
(* GPIOs; then the response.                                               *)
HookAction(c) ==
    /\ Serving(c, "request")
    /\ req[c] = "hook"
    /\ RaiseEvent(conn)
    /\ UNCHANGED <<alive, since, loop, client>>

CallHook(c) ==
    /\ Serving(c, "request")
    /\ req[c] = "hook"
    /\ NoEvent(Sent(c))
    /\ Respond(c)

(* webui_handler: an embedded file or 404.                                 *)
Webui(c) ==
    /\ Serving(c, "request")
    /\ req[c] = "webui"
    /\ NoEvent(Sent(c))
    /\ Respond(c)

(* The connection is suspended twice in the list.                          *)
PushTwice(c) == suspended' = suspended \o <<c, c>>

Push(c) == suspended' = Append(suspended, c)

(* Long polling: suspend the connection until an event occurs.             *)
LongPoll(c) ==
    /\ Serving(c, "request")
    /\ req[c] = "poll"
    /\ conn' = [conn EXCEPT ![c] = "suspended"]
    /\ Push(c)
    /\ since' = [since EXCEPT ![c] = eventCount]
    /\ work' = work \ {c}
    /\ UNCHANGED <<alive, buffer, eventCount, pc, report, client>>

(* A resumed connection is answered with its buffer; without one, it would *)
(* be suspended again.                                                     *)
Resumed(c) ==
    /\ Serving(c, "resuming")
    /\ buffer[c] # 0
    /\ NoEvent(Sent(c))
    /\ Respond(c)

(* http_connection_done that keeps the request data.                       *)
DoneKeep(c) ==
    /\ buffer' = [buffer EXCEPT ![c] = 0]
    /\ UNCHANGED alive

(* http_connection_done *)
Done(c) ==
    /\ buffer' = [buffer EXCEPT ![c] = 0]
    /\ alive' = [alive EXCEPT ![c] = FALSE]

(* MHD has sent the response or noticed that the client is gone; the next  *)
(* request on the connection gets request data of its own.                 *)
Complete(c) ==
    /\ \/ Serving(c, "sending")
       \/ gone[c] /\ \E state \in {"headers", "request", "resuming"} : Serving(c, state)
    /\ conn' = [conn EXCEPT ![c] = "idle"]
    /\ Done(c)
    /\ since' = [since EXCEPT ![c] = 0]
    /\ work' = work \ {c}
    /\ UNCHANGED <<suspended, eventCount, pc, report, client>>

Handler(c) ==
    \/ FirstCall(c) \/ NotAllowed(c) \/ ReadApi(c) \/ PatchApi(c) \/ HookAction(c)
    \/ CallHook(c) \/ Webui(c) \/ LongPoll(c) \/ Resumed(c) \/ Complete(c)

(* MHD_run returns.                                                        *)
EndRun ==
    /\ pc = "mhd"
    /\ work = {}
    /\ pc' = IF report = "none" THEN "loop" ELSE "delegate"
    /\ UNCHANGED <<work, report, http, client>>

(* event_read_delegate: the handler of a descriptor raises events, one for *)
(* each edge it reads, or none.                                            *)
DelegateEvent ==
    /\ pc = "delegate"
    /\ report = "gpio"
    /\ RaiseEvent(conn)
    /\ UNCHANGED <<alive, since, loop, client>>

DelegateEnd ==
    /\ pc = "delegate"
    /\ report = "gpio"
    /\ pc' = "loop"
    /\ report' = "none"
    /\ UNCHANGED <<http, work, client>>

(* The connections are left suspended.                                     *)
LeaveSuspended(c) == conn[c]

(* config_clear resumes what is in http_suspended.                         *)
ResumeAtStop(c) == IF InList(c) THEN "resuming" ELSE conn[c]

(* The signal: config_clear, MHD_stop_daemon, which closes all connections *)
(* and does not bear suspended ones.                                       *)
Stop ==
    /\ pc = "delegate"
    /\ report = "signal"
    /\ \/ /\ \E c \in Conns : ResumeAtStop(c) = "suspended"
          /\ pc' = "panic"
          /\ UNCHANGED <<conn, alive, buffer>>
       \/ /\ \A c \in Conns : ResumeAtStop(c) # "suspended"
          /\ pc' = "stopped"
          /\ conn' = [c \in Conns |-> "idle"]
          /\ alive' = [c \in Conns |-> FALSE]
          /\ buffer' = [c \in Conns |-> 0]
    /\ suspended' = <<>>
    /\ report' = "none"
    /\ UNCHANGED <<eventCount, since, work, client>>

-----------------------------------------------------------------------------
(* The clients.                                                            *)

SendRequest(c, kind) ==
    /\ pc \notin {"stopped", "panic"}
    /\ conn[c] = "idle"
    /\ requests < RequestsMax
    /\ conn' = [conn EXCEPT ![c] = "headers"]
    /\ req' = [req EXCEPT ![c] = kind]
    /\ gone' = [gone EXCEPT ![c] = FALSE]
    /\ requests' = requests + 1
    /\ UNCHANGED <<alive, buffer, suspended, eventCount, since, loop>>

Close(c) ==
    /\ conn[c] # "idle"
    /\ ~gone[c]
    /\ gone' = [gone EXCEPT ![c] = TRUE]
    /\ UNCHANGED <<http, loop, req, requests>>

-----------------------------------------------------------------------------
Busy == (\E c \in Conns : Handler(c)) \/ EndRun \/ DelegateEvent \/ DelegateEnd \/ Stop

Next ==
    \/ Poll
    \/ Busy
    \/ \E c \in Conns : Close(c) \/ \E kind \in Requests : SendRequest(c, kind)

Spec == Init /\ [][Next]_vars

(* The loop runs, but other descriptors than MHD's need not become ready.  *)
FairSpec == Spec /\ WF_vars((Poll /\ report' = "none") \/ Busy)

-----------------------------------------------------------------------------
(* Properties.                                                             *)

TypeOK ==
    /\ conn \in [Conns -> ConnStates]
    /\ req \in [Conns -> Requests]
    /\ gone \in [Conns -> BOOLEAN]
    /\ alive \in [Conns -> BOOLEAN]
    /\ buffer \in [Conns -> 0..EventsMax]
    /\ suspended \in Seq(Conns)
    /\ pc \in DaemonStates
    /\ work \in SUBSET Conns
    /\ report \in {"none", "gpio", "signal"}
    /\ eventCount \in 0..EventsMax
    /\ since \in [Conns -> 0..EventsMax]
    /\ requests \in 0..RequestsMax

(* http_suspended holds exactly the connections that MHD has suspended,    *)
(* each once: none is resumed twice and none is forgotten, whether the     *)
(* event comes from a GPIO or from another request inside MHD_run, and     *)
(* whether the client is still there or not.                               *)
SuspendedListOk ==
    /\ \A i, j \in DOMAIN suspended : suspended[i] = suspended[j] => i = j
    /\ pc # "panic" => \A c \in Conns : InList(c) <=> conn[c] = "suspended"

(* A t_request_data exists exactly from the first call of the handler to   *)
(* http_connection_done: the pointers in http_suspended and the resume     *)
(* buffers of responses being sent are valid, and none is leaked.          *)
RequestDataOk ==
    \A c \in Conns : alive[c] <=> conn[c] \notin {"idle", "headers"}

(* "It responds as soon an event occurs" (mygpiod-http-api.rst): a long    *)
(* poll reports the first event after it was suspended, even if others     *)
(* follow before the response is built.                                    *)
FirstEvent ==
    \A c \in Conns :
        conn[c] = "resuming" \/ (conn[c] = "sending" /\ req[c] = "poll")
            => buffer[c] = since[c] + 1

(* MHD_stop_daemon never finds a suspended connection.                     *)
NoPanic == pc # "panic"

(* A long poll that an event has resumed is answered although no           *)
(* descriptor becomes ready for it.                                        *)
ResumedIsServed ==
    \A c \in Conns : conn[c] = "resuming" ~> conn[c] # "resuming"
=============================================================================
