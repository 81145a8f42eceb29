------------------------------- MODULE Client -------------------------------
(***************************************************************************)
(* dap::Client: the debug adapter client.  Two threads of the program and  *)
(* the debug adapter take steps:                                           *)
(*   - the main thread runs the API calls of the application and the       *)
(*     handlers of the wx event queue (OnDataRead, OnConnectionError);     *)
(*   - the reader thread reads the transport and posts its results to that *)
(*     queue with CallAfter;                                               *)
(*   - the server (external) answers requests, sends events and goes away. *)
(*                                                                         *)
(* A transport is named by the number of the session it was created for,   *)
(* 0 is nullptr.  Messages are whole: that chunks of bytes become whole    *)
(* messages in the order they were sent is what module JsonRPC shows.      *)
(***************************************************************************)
EXTENDS Integers, Sequences, SequencesExt

CONSTANTS
    Args,         \* ids of threads, frames, variables, files and callbacks
    Commands,     \* the commands this application uses
    ServerEvents, \* the events this server sends
    OrderedCommands, \* the commands whose requests the server answers in their order
    RefusedCommands, \* the commands the server may refuse (success = false)
    MaxSeq,       \* bound: requests of one session
    MaxSessions,  \* bound: calls of SetTransport
    MaxEvents,    \* bound: events and reverse requests of one server
    MaxChunk,     \* bound: messages in the bytes of one read
    MaxDepth      \* bound: nested API calls of the application's handlers

QueueEventCommands == {"stackTrace", "scopes", "variables", "setBreakpoints"}
CallbackCommands == {"source", "evaluate"}
QueueCommands == QueueEventCommands \union CallbackCommands
PlainCommands == {"setFunctionBreakpoints", "configurationDone", "launch", "threads"}
StepCommands == {"stepIn", "stepOut", "next", "continue"}
IgnoredCommands == {"pause", "attach"}
AllCommands == QueueCommands \union PlainCommands \union StepCommands
                 \union IgnoredCommands \union {"breakpointLocations"}

\* The commands whose responses are given to the application with the request
\* that caused them.
TrackedCommands == QueueEventCommands \union PlainCommands \union {"breakpointLocations"}

\* The events OnMessage forwards without any other effect.
ForwardedEvents == {"process", "exited", "terminated", "initialized", "output",
                    "breakpoint", "module"}

NotFound == -1          \* wxNOT_FOUND
Null == 0               \* no transport, no file
Supported == 1          \* body of an initialize response: the feature is on
NoRequest == [cmd |-> "none", arg |-> 0]

ASSUME ArgsAssumption == Args \subseteq Nat \ {0}
ASSUME CommandsAssumption == Commands \subseteq AllCommands
ASSUME ServerEventsAssumption ==
    ServerEvents \subseteq ForwardedEvents \union {"stopped", "continued", "runInTerminal"}
ASSUME PolicyAssumption ==
    OrderedCommands \subseteq AllCommands /\ RefusedCommands \subseteq AllCommands
ASSUME BoundsAssumption ==
    /\ MaxSeq \in Nat /\ MaxSessions \in Nat /\ MaxEvents \in Nat
    /\ MaxChunk \in Nat /\ MaxDepth \in Nat

VARIABLES
    \* the main thread's state of the session
    transport,      \* m_transport
    rpc,            \* m_rpc: messages of the chunk ProcessBuffer is working on
    seq,            \* m_requestSeuqnce
    handshake,      \* m_handshake_state
    features,       \* m_features, the bit supportsBreakpointLocationsRequest
    activeThread,   \* m_active_thread_id
    canInteract,    \* m_can_interact
    filepath,       \* m_requestIdToFilepath
    queue,          \* m_get_frames_queue, ..., m_evaluate_queue, by command
    inFlight,       \* m_in_flight_requests
    calls,          \* calls of the main thread that have not returned
    \* the reader thread and what the threads share
    reader,         \* m_readerThread: "none" or where the thread stands
    shutdown,       \* m_shutdown
    terminated,     \* m_terminated
    pending,        \* the wx event queue of the client
    \* the server and the connection to it (external)
    server,         \* "fresh", "ready" (has answered initialize) or "closed"
    toServer,       \* requests on their way
    toClient,       \* messages not yet read
    debuggee,       \* is the debugged program "running" or "stopped"?
    eventsSent,     \* events this server has sent
    \* history
    sessions,       \* the number of transports set so far
    handshakeBy,    \* the session whose initialize response was accepted
    event           \* what the application was told last

sessionVars == <<seq, handshake, features, activeThread, canInteract, filepath,
                 queue, inFlight, handshakeBy>>
readerVars == <<reader, shutdown, terminated>>
serverVars == <<server, debuggee, eventsSent>>
vars == <<transport, rpc, sessionVars, calls, readerVars, pending, serverVars,
          toServer, toClient, sessions, event>>

----------------------------------------------------------------------------
(* Messages, events and call frames.                                       *)

\* sess names the transport a message came through; no code reads it.
Message(type, cmd, s, arg, ok) ==
    [type |-> type, cmd |-> cmd, seq |-> s, arg |-> arg, ok |-> ok, sess |-> transport]

\* An event given to the application: ref is the refId, originSource, filepath
\* or callback it is given, origin the originating request, about the subject
\* of the server's answer.
Told(kind, cmd, ref, origin, about, sess) ==
    [kind |-> kind, cmd |-> cmd, ref |-> ref, origin |-> origin,
     about |-> about, sess |-> sess]

NoEvent == Told("none", "none", Null, NoRequest, Null, Null)

\* A call waiting on the main thread's stack: OnConnectionError while its
\* event is handled ("lost") or StopReaderThread in join ("join"), and what the
\* caller does after Reset has returned.
Call(op, then, s, arg) == [op |-> op, then |-> then, seq |-> s, arg |-> arg]

Top == calls[Len(calls)]
Pop == SubSeq(calls, 1, Len(calls) - 1)

\* The main thread runs code of the application: no handler is active, or the
\* handler of the event that was fired last.
InApplication ==
    IF calls = <<>> THEN rpc = <<>> \/ event # NoEvent ELSE Top.op = "lost"

\* The main thread is back in the event loop.
InEventLoop == calls = <<>> /\ rpc = <<>>

----------------------------------------------------------------------------
Init ==
    /\ transport = Null /\ rpc = <<>> /\ seq = 0
    /\ handshake = "notPerformed" /\ features = FALSE
    /\ activeThread = NotFound /\ canInteract = FALSE
    /\ filepath = [s \in 1..MaxSeq |-> Null]
    /\ queue = [c \in QueueCommands |-> <<>>]
    /\ inFlight = [s \in 1..MaxSeq |-> NoRequest]
    /\ calls = <<>>
    /\ reader = "none" /\ shutdown = FALSE /\ terminated = FALSE
    /\ pending = <<>>
    /\ server = "closed" /\ toServer = <<>> /\ toClient = <<>>
    /\ debuggee = "running" /\ eventsSent = 0
    /\ sessions = 0 /\ handshakeBy = Null /\ event = NoEvent

----------------------------------------------------------------------------
(* Reset, SetTransport and OnConnectionError.                              *)

\* Bug: the transport is deleted before the reader thread is stopped.
ResetDeletesFirst(then, s, arg, frames) ==
    /\ transport' = Null
    /\ calls' = Append(frames, Call("join", then, s, arg))
    /\ shutdown' = IF reader = "none" THEN shutdown ELSE TRUE

\* Bug: StopReaderThread joins without setting m_shutdown.
ResetSetsNoFlag(then, s, arg, frames) ==
    /\ calls' = Append(frames, Call("join", then, s, arg))
    /\ UNCHANGED <<transport, shutdown>>

\* Reset up to StopReaderThread's join.
BeginReset(then, s, arg, frames) ==
    /\ calls' = Append(frames, Call("join", then, s, arg))
    /\ shutdown' = IF reader = "none" THEN shutdown ELSE TRUE
    /\ UNCHANGED transport

\* Bug: the file is kept under the number of the request before.
FilepathAfterOffByOne(then, s, arg, old) ==
    IF then = "locations" /\ s > 1 THEN [old EXCEPT ![s - 1] = arg] ELSE old

\* What Initialize and BreakpointLocations do after SendRequest returned.
HandshakeAfter(then, old) == IF then = "initialize" THEN "inProgress" ELSE old
FilepathAfter(then, s, arg, old) ==
    IF then = "locations" /\ old[s] = Null THEN [old EXCEPT ![s] = arg] ELSE old

\* Bug: the queues of the old session are kept.
ClearedQueuesKept == queue

\* Bug: m_shutdown stays set and the next reader thread stops at once.
ClearedShutdownKept == shutdown

\* The values Reset gives to m_in_flight_requests, to the queues of refIds,
\* files and callbacks, and to m_shutdown.
ClearedInFlight == [s \in 1..MaxSeq |-> NoRequest]
ClearedQueues == [c \in QueueCommands |-> <<>>]
ClearedShutdown == FALSE

\* Reset after the join: everything about the session is cleared.
ClearSession(then, s, arg) ==
    /\ shutdown' = ClearedShutdown /\ terminated' = FALSE
    /\ rpc' = <<>> /\ seq' = 0
    /\ handshake' = HandshakeAfter(then, "notPerformed") /\ handshakeBy' = Null
    /\ activeThread' = NotFound /\ canInteract' = FALSE /\ features' = FALSE
    /\ filepath' = FilepathAfter(then, s, arg, [i \in 1..MaxSeq |-> Null])
    /\ queue' = ClearedQueues /\ inFlight' = ClearedInFlight

\* The application calls Reset.
Reset ==
    /\ InApplication /\ Len(calls) < MaxDepth
    /\ BeginReset("return", Null, Null, calls)
    /\ UNCHANGED <<rpc, sessionVars, reader, terminated, pending, serverVars,
                   toServer, toClient, sessions, event>>

\* The application posts a call of Reset, CallAfter(&Client::Reset), when it is
\* told that a launch failed.
PostReset ==
    /\ InApplication /\ calls = <<>> /\ transport # Null
    /\ event.kind = "response" /\ event.cmd = "launch"
    /\ \A k \in DOMAIN pending : pending[k].kind # "reset"
    /\ pending' = Append(pending, [kind |-> "reset", sess |-> transport, msgs |-> <<>>])
    /\ UNCHANGED <<transport, rpc, sessionVars, calls, readerVars, serverVars,
                   toServer, toClient, sessions, event>>

\* The event loop runs it.
OnPostedReset ==
    /\ InEventLoop /\ pending # <<>> /\ Head(pending).kind = "reset"
    /\ pending' = Tail(pending)
    /\ BeginReset("return", Null, Null, calls)
    /\ UNCHANGED <<rpc, sessionVars, reader, terminated, serverVars, toServer,
                   toClient, sessions, event>>

\* The application calls SetTransport with a new, connected transport.
SetTransport ==
    /\ InApplication /\ Len(calls) < MaxDepth
    /\ sessions < MaxSessions
    /\ BeginReset("connect", Null, Null, calls)
    /\ sessions' = sessions + 1
    /\ UNCHANGED <<rpc, sessionVars, reader, terminated, pending, serverVars,
                   toServer, toClient, event>>

\* Bug: the thread is detached, and one that is about to post lives on.
DetachReturns ==
    /\ calls # <<>> /\ Top.op = "join"
    /\ calls' = Pop
    /\ ClearSession(Top.then, Top.seq, Top.arg)
    /\ toServer' = <<>> /\ toClient' = <<>>
    /\ debuggee' = "running" /\ eventsSent' = 0
    /\ IF Top.then = "connect"
       THEN /\ transport' = sessions /\ server' = "fresh"
            /\ reader' = IF reader = "failed" THEN "failed" ELSE "check"
       ELSE transport' = Null /\ reader' = "none" /\ server' = "closed"
    /\ UNCHANGED <<pending, sessions, event>>

\* The join returns once the reader thread has ended.  Reset finishes and so
\* does its caller; SetTransport installs the transport and starts a reader.
JoinReturns ==
    /\ calls # <<>> /\ Top.op = "join"
    /\ reader \in {"none", "exited"}
    /\ calls' = Pop
    /\ ClearSession(Top.then, Top.seq, Top.arg)
    /\ toServer' = <<>> /\ toClient' = <<>>
    /\ debuggee' = "running" /\ eventsSent' = 0
    /\ IF Top.then = "connect"
       THEN transport' = sessions /\ reader' = "check" /\ server' = "fresh"
       ELSE transport' = Null /\ reader' = "none" /\ server' = "closed"
    /\ UNCHANGED <<pending, sessions, event>>

\* The event loop runs an OnConnectionError posted by a reader thread: the
\* application is told first.
OnConnectionError ==
    /\ InEventLoop /\ pending # <<>> /\ Head(pending).kind = "error"
    /\ pending' = Tail(pending)
    /\ event' = Told("lost", "none", Null, NoRequest, transport, Head(pending).sess)
    /\ calls' = Append(calls, Call("lost", "return", Null, Null))
    /\ UNCHANGED <<transport, rpc, sessionVars, readerVars, serverVars, toServer,
                   toClient, sessions>>

\* The handler of wxEVT_DAP_LOST_CONNECTION has returned, Reset is called.
LostReturns ==
    /\ calls # <<>> /\ Top.op = "lost"
    /\ BeginReset(Top.then, Top.seq, Top.arg, Pop)
    /\ UNCHANGED <<rpc, sessionVars, reader, terminated, pending, serverVars,
                   toServer, toClient, sessions, event>>

----------------------------------------------------------------------------
(* The API: requests.                                                      *)

\* The protocol: no request but initialize before its response has come.  (A call
\* without a connection sends nothing.)
Allowed == transport = Null \/ handshake = "completed"

\* SendRequest does not ask about it.  The application keeps to the protocol, but
\* may call pause as soon as initialize is sent, as dbgcli does (OnPauseUI).
Callable(cmd) == Allowed \/ (cmd = "pause" /\ handshake = "inProgress")

MayRequest(cmd) ==
    /\ InApplication /\ Len(calls) < MaxDepth /\ seq < MaxSeq
    /\ Callable(cmd)
    /\ cmd \in Commands

\* Bug: the number is taken in MakeRequest and again in SendRequest.
GetNextSequenceTwice == seq + 2

GetNextSequence == seq + 1

Resolve(thread) == IF thread = NotFound THEN activeThread ELSE thread

\* MakeRequest and SendRequest.  The request is queued (q) before it is sent;
\* without a transport Send throws and OnConnectionError runs; a transport
\* whose peer is gone loses the request silently.
SendRequest(cmd, arg, q, then) ==
    LET s == GetNextSequence IN
    /\ seq' = s
    /\ queue' = q
    /\ IF transport = Null
       THEN /\ event' = Told("lost", "none", Null, NoRequest, Null, Null)
            /\ calls' = Append(calls, Call("lost", then, s, arg))
            /\ UNCHANGED <<inFlight, toServer, handshake, filepath>>
       ELSE /\ inFlight' = IF inFlight[s] = NoRequest
                           THEN [inFlight EXCEPT ![s] = [cmd |-> cmd, arg |-> arg]]
                           ELSE inFlight
            /\ toServer' = IF server = "closed" THEN toServer
                           ELSE Append(toServer, [cmd |-> cmd, seq |-> s, arg |-> arg])
            /\ handshake' = HandshakeAfter(then, handshake)
            /\ filepath' = FilepathAfter(then, s, arg, filepath)
            /\ UNCHANGED <<event, calls>>
    /\ UNCHANGED <<transport, rpc, features, canInteract, handshakeBy, readerVars,
                   pending, serverVars, toClient, sessions>>

\* push_back
Enqueue(cmd, arg) == [queue EXCEPT ![cmd] = Append(@, arg)]

Initialize ==
    /\ InApplication /\ Len(calls) < MaxDepth /\ seq < MaxSeq
    /\ transport = Null \/ handshake = "notPerformed"
    /\ SendRequest("initialize", Null, queue, "initialize")
    /\ UNCHANGED activeThread

QueuedRequest(cmd, arg) ==
    /\ MayRequest(cmd)
    /\ SendRequest(cmd, arg, Enqueue(cmd, arg), "return")
    /\ UNCHANGED activeThread

SimpleRequest(cmd, arg) ==
    /\ MayRequest(cmd)
    /\ SendRequest(cmd, arg, queue, "return")
    /\ UNCHANGED activeThread

GetFrames(thread) == QueuedRequest("stackTrace", Resolve(thread))
GetScopes(frameId) == QueuedRequest("scopes", frameId)
GetChildrenVariables(ref) == QueuedRequest("variables", ref)
SetBreakpointsFile(file) == QueuedRequest("setBreakpoints", file)
EvaluateExpression(callback) == QueuedRequest("evaluate", callback)

\* LoadSource of a source that has a sourceReference; of another it does
\* nothing but return false.
LoadSource(callback) == QueuedRequest("source", callback)

ConfigurationDone == SimpleRequest("configurationDone", Null)
GetThreads == SimpleRequest("threads", Null)
SetFunctionBreakpoints(arg) == SimpleRequest("setFunctionBreakpoints", arg)
Attach == SimpleRequest("attach", Null)
StepIn(thread) == SimpleRequest("stepIn", Resolve(thread))
StepOut(thread) == SimpleRequest("stepOut", Resolve(thread))
NextStep(thread) == SimpleRequest("next", Resolve(thread))
Continue(thread) == SimpleRequest("continue", Resolve(thread))
Pause(thread) == SimpleRequest("pause", Resolve(thread))

Launch(program) ==
    /\ MayRequest("launch")
    /\ activeThread' = NotFound
    /\ SendRequest("launch", program, queue, "return")

BreakpointLocations(file) ==
    /\ MayRequest("breakpointLocations")
    /\ features
    /\ SendRequest("breakpointLocations", file, queue, "locations")
    /\ UNCHANGED activeThread

\* MakeRequest<RunInTerminalResponse> and SendResponse: the answer to a reverse
\* request takes a number too; the server does not react.
SendResponse ==
    /\ InApplication /\ Len(calls) < MaxDepth /\ seq < MaxSeq
    /\ event.cmd = "runInTerminal"
    /\ seq' = GetNextSequence
    /\ IF transport = Null
       THEN /\ event' = Told("lost", "none", Null, NoRequest, Null, Null)
            /\ calls' = Append(calls, Call("lost", "return", Null, Null))
       ELSE UNCHANGED <<event, calls>>
    /\ UNCHANGED <<transport, rpc, handshake, features, activeThread, canInteract, filepath,
                   queue, inFlight, handshakeBy, readerVars, pending, serverVars,
                   toServer, toClient, sessions>>

Request ==
    \/ Initialize
    \/ ConfigurationDone \/ GetThreads \/ Attach
    \/ \E thread \in Args \union {NotFound} :
          \/ GetFrames(thread) \/ Pause(thread)
          \/ StepIn(thread) \/ StepOut(thread) \/ NextStep(thread) \/ Continue(thread)
    \/ \E arg \in Args :
          \/ GetScopes(arg) \/ GetChildrenVariables(arg) \/ SetBreakpointsFile(arg)
          \/ EvaluateExpression(arg) \/ LoadSource(arg)
          \/ SetFunctionBreakpoints(arg) \/ Launch(arg) \/ BreakpointLocations(arg)
    \/ SendResponse

----------------------------------------------------------------------------
(* OnMessage: one message handled on the main thread.                      *)

\* Bug: the oldest request in flight is taken.
OriginOldest(m) ==
    LET known == {s \in 1..MaxSeq : inFlight[s] # NoRequest}
    IN  IF known = {} THEN NoRequest
        ELSE inFlight[CHOOSE s \in known : \A t \in known : s <= t]

\* Bug: all requests are forgotten.
ForgetAll(m) == [s \in 1..MaxSeq |-> NoRequest]

\* Bug: the entry is not erased.
ForgetNothing(m) == inFlight

\* GetOriginatingRequest: found by request_seq, and removed.
Origin(m) == IF m.seq \in DOMAIN inFlight THEN inFlight[m.seq] ELSE NoRequest
Forget(m) == [s \in 1..MaxSeq |-> IF s = m.seq THEN NoRequest ELSE inFlight[s]]

\* Bug: the entry of the newest request is used.
FrontOfNewest(q) == IF q = <<>> THEN Null ELSE q[Len(q)]

\* Bug: the front of a queue is used and not removed.
RestOfKept(q) == q

FrontOf(q) == IF q = <<>> THEN Null ELSE Head(q)
RestOf(q) == IF q = <<>> THEN q ELSE Tail(q)

\* Before the handshake is completed every message but an initialize response
\* is dropped.
OnHandshakeMessage(m) ==
    /\ handshake # "completed"
    /\ IF m.type = "response" /\ m.cmd = "initialize"
       THEN /\ handshake' = "completed"
            /\ handshakeBy' = m.sess
            /\ features' = (features \/ m.arg = Supported)
            /\ event' = Told("response", m.cmd, Null, NoRequest, m.arg, m.sess)
       ELSE /\ event' = NoEvent
            /\ UNCHANGED <<handshake, handshakeBy, features>>
    /\ UNCHANGED <<activeThread, canInteract, filepath, queue, inFlight>>

\* Bug: a continued event leaves CanInteract on.
OnEventStoppedOnly(m) ==
    /\ handshake = "completed" /\ m.type = "event"
    /\ canInteract' = (canInteract \/ m.cmd = "stopped")
    /\ activeThread' = IF m.cmd = "stopped" THEN m.arg ELSE activeThread
    /\ event' = Told("event", m.cmd, Null, NoRequest, m.arg, m.sess)
    /\ UNCHANGED <<handshake, features, handshakeBy, filepath, queue, inFlight>>

OnEvent(m) ==
    /\ handshake = "completed" /\ m.type = "event"
    /\ canInteract' = (m.cmd = "stopped" \/ (canInteract /\ m.cmd # "continued"))
    /\ activeThread' = IF m.cmd = "stopped" THEN m.arg ELSE activeThread
    /\ event' = Told("event", m.cmd, Null, NoRequest, m.arg, m.sess)
    /\ UNCHANGED <<handshake, features, handshakeBy, filepath, queue, inFlight>>

\* stackTrace, scopes, variables, setBreakpoints: the front of the queue is
\* attached to the response, whichever request it answers.
OnQueuedResponse(m) ==
    /\ handshake = "completed" /\ m.type = "response" /\ m.cmd \in QueueEventCommands
    /\ event' = Told("response", m.cmd, FrontOf(queue[m.cmd]), Origin(m), m.arg, m.sess)
    /\ queue' = [queue EXCEPT ![m.cmd] = RestOf(@)]
    /\ inFlight' = Forget(m)
    /\ UNCHANGED <<handshake, features, handshakeBy, activeThread, canInteract, filepath>>

\* source and evaluate: the front of the queue is called; the request stays in
\* m_in_flight_requests.
OnCallbackResponse(m) ==
    /\ handshake = "completed" /\ m.type = "response" /\ m.cmd \in CallbackCommands
    /\ event' = IF queue[m.cmd] = <<>> THEN NoEvent
                ELSE Told("callback", m.cmd, Head(queue[m.cmd]), NoRequest, m.arg, m.sess)
    /\ queue' = [queue EXCEPT ![m.cmd] = RestOf(@)]
    /\ UNCHANGED <<handshake, features, handshakeBy, activeThread, canInteract,
                   filepath, inFlight>>

\* breakpointLocations: the file is found by request_seq, and removed.
FileOf(m) == IF m.seq \in DOMAIN filepath THEN filepath[m.seq] ELSE Null

OnLocationsResponse(m) ==
    /\ handshake = "completed" /\ m.type = "response" /\ m.cmd = "breakpointLocations"
    /\ event' = Told("response", m.cmd, FileOf(m), Origin(m), m.arg, m.sess)
    /\ filepath' = [filepath EXCEPT ![m.seq] = Null]
    /\ inFlight' = Forget(m)
    /\ UNCHANGED <<handshake, features, handshakeBy, activeThread, canInteract, queue>>

OnPlainResponse(m) ==
    /\ handshake = "completed" /\ m.type = "response" /\ m.cmd \in PlainCommands
    /\ event' = Told("response", m.cmd, Null, Origin(m), m.arg, m.sess)
    /\ inFlight' = Forget(m)
    /\ UNCHANGED <<handshake, features, handshakeBy, activeThread, canInteract,
                   filepath, queue>>

\* stepIn, stepOut, next, continue: no event, success is not looked at.
OnStepResponse(m) ==
    /\ handshake = "completed" /\ m.type = "response" /\ m.cmd \in StepCommands
    /\ canInteract' = FALSE
    /\ event' = NoEvent
    /\ UNCHANGED <<handshake, features, handshakeBy, activeThread, filepath, queue,
                   inFlight>>

\* pause, attach and a second initialize response have no branch.
OnIgnoredResponse(m) ==
    /\ handshake = "completed" /\ m.type = "response"
    /\ m.cmd \in IgnoredCommands \union {"initialize"}
    /\ event' = NoEvent
    /\ UNCHANGED <<handshake, features, handshakeBy, activeThread, canInteract,
                   filepath, queue, inFlight>>

OnReverseRequest(m) ==
    /\ handshake = "completed" /\ m.type = "request"
    /\ event' = Told("request", m.cmd, Null, NoRequest, m.arg, m.sess)
    /\ UNCHANGED <<handshake, features, handshakeBy, activeThread, canInteract,
                   filepath, queue, inFlight>>

OnMessage(m) ==
    /\ \/ OnHandshakeMessage(m)
       \/ OnEvent(m)
       \/ OnQueuedResponse(m)
       \/ OnCallbackResponse(m)
       \/ OnLocationsResponse(m)
       \/ OnPlainResponse(m)
       \/ OnStepResponse(m)
       \/ OnIgnoredResponse(m)
       \/ OnReverseRequest(m)
    /\ UNCHANGED <<transport, seq, calls, readerVars, serverVars, toServer, toClient,
                   sessions>>

\* The event loop runs an OnDataRead posted by a reader thread: the chunk is
\* appended to m_rpc and ProcessBuffer handles its first message ...
OnDataRead ==
    /\ InEventLoop /\ pending # <<>> /\ Head(pending).kind = "data"
    /\ pending' = Tail(pending)
    /\ rpc' = Tail(Head(pending).msgs)
    /\ OnMessage(Head(Head(pending).msgs))

\* ... and the next ones, unless a handler has called Reset.
ProcessBuffer ==
    /\ calls = <<>> /\ rpc # <<>>
    /\ rpc' = Tail(rpc)
    /\ OnMessage(Head(rpc))
    /\ UNCHANGED pending

----------------------------------------------------------------------------
(* The reader thread.                                                      *)

\* while (!m_shutdown.load())
ReaderCheck ==
    /\ reader = "check"
    /\ reader' = IF shutdown THEN "exited" ELSE "read"
    /\ UNCHANGED <<transport, rpc, sessionVars, calls, shutdown, terminated, pending,
                   serverVars, toServer, toClient, sessions, event>>

\* Read returns true with an empty buffer.
ReaderTimeout ==
    /\ reader = "read" /\ toClient = <<>> /\ server # "closed"
    /\ reader' = "check"
    /\ UNCHANGED <<transport, rpc, sessionVars, calls, shutdown, terminated, pending,
                   serverVars, toServer, toClient, sessions, event>>

\* Read returns bytes: CallAfter(OnDataRead).
ReaderData ==
    /\ reader = "read"
    /\ \E n \in 1..MaxChunk :
        /\ n <= Len(toClient)
        /\ pending' = Append(pending, [kind |-> "data", sess |-> transport,
                                       msgs |-> SubSeq(toClient, 1, n)])
        /\ toClient' = SubSeq(toClient, n + 1, Len(toClient))
    /\ reader' = "check"
    /\ UNCHANGED <<transport, rpc, sessionVars, calls, shutdown, terminated, serverVars,
                   toServer, sessions, event>>

\* Bug: a timeout is taken for a failure.
ReaderFailsOnTimeout ==
    /\ reader = "read" /\ toClient = <<>>
    /\ terminated' = TRUE
    /\ reader' = "failed"
    /\ UNCHANGED <<transport, rpc, sessionVars, calls, shutdown, pending, serverVars,
                   toServer, toClient, sessions, event>>

\* Read fails: m_terminated is set ...
ReaderFails ==
    /\ reader = "read" /\ toClient = <<>> /\ server = "closed"
    /\ terminated' = TRUE
    /\ reader' = "failed"
    /\ UNCHANGED <<transport, rpc, sessionVars, calls, shutdown, pending, serverVars,
                   toServer, toClient, sessions, event>>

\* ... and then CallAfter(OnConnectionError) is posted.
ReaderPostsError ==
    /\ reader = "failed"
    /\ pending' = Append(pending, [kind |-> "error", sess |-> transport, msgs |-> <<>>])
    /\ reader' = "exited"
    /\ UNCHANGED <<transport, rpc, sessionVars, calls, shutdown, terminated, serverVars,
                   toServer, toClient, sessions, event>>

ReaderStep ==
    ReaderCheck \/ ReaderTimeout \/ ReaderData \/ ReaderFails \/ ReaderPostsError

----------------------------------------------------------------------------
(* The server (external).                                                  *)

\* The server answers request i of those that have reached it: it is about the
\* argument of that request.  A step that is accepted sets the debuggee going.
ServerAnswers(i, ok) ==
    /\ server # "closed"
    /\ i \in DOMAIN toServer
    /\ toServer[i].cmd \in OrderedCommands =>
          \A j \in 1..i - 1 : toServer[j].cmd # toServer[i].cmd
    /\ server = "fresh" => toServer[i].cmd = "initialize"
    /\ ok \/ toServer[i].cmd \in RefusedCommands
    /\ LET r == toServer[i] IN
       /\ \E arg \in IF r.cmd = "initialize" THEN {Null, Supported} ELSE {r.arg} :
             toClient' = Append(toClient, Message("response", r.cmd, r.seq, arg, ok))
       /\ server' = IF r.cmd = "initialize" THEN "ready" ELSE server
       /\ debuggee' = IF r.cmd \in StepCommands /\ ok THEN "running" ELSE debuggee
    /\ toServer' = SubSeq(toServer, 1, i - 1) \o SubSeq(toServer, i + 1, Len(toServer))
    /\ UNCHANGED <<transport, rpc, sessionVars, calls, readerVars, pending, eventsSent,
                   sessions, event>>

\* The server sends an event or a reverse request.
ServerSends(e, thread) ==
    /\ server = "ready" /\ eventsSent < MaxEvents
    /\ e \in ServerEvents
    /\ e = "stopped" => debuggee = "running"
    /\ e = "continued" => debuggee = "stopped"
    /\ debuggee' = IF e = "stopped" THEN "stopped"
                   ELSE IF e = "continued" THEN "running" ELSE debuggee
    /\ toClient' = Append(toClient,
                     Message(IF e = "runInTerminal" THEN "request" ELSE "event",
                             e, 0, thread, TRUE))
    /\ eventsSent' = eventsSent + 1
    /\ UNCHANGED <<transport, rpc, sessionVars, calls, readerVars, pending, server,
                   toServer, sessions, event>>

\* The server goes away: what it has written can still be read.
ServerCloses ==
    /\ server # "closed"
    /\ server' = "closed"
    /\ toServer' = <<>>
    /\ UNCHANGED <<transport, rpc, sessionVars, calls, readerVars, pending, toClient,
                   debuggee, eventsSent, sessions, event>>

ServerStep ==
    \/ \E i \in 1..Len(toServer), ok \in BOOLEAN : ServerAnswers(i, ok)
    \/ \E e \in ServerEvents, thread \in Args : ServerSends(e, thread)
    \/ ServerCloses

----------------------------------------------------------------------------
ApplicationStep == Reset \/ PostReset \/ SetTransport \/ Request

MainStep ==
    \/ OnDataRead \/ ProcessBuffer \/ OnConnectionError \/ OnPostedReset
    \/ LostReturns \/ JoinReturns

Next == ApplicationStep \/ MainStep \/ ReaderStep \/ ServerStep

\* The reader thread and the event loop keep running; the application and the
\* server promise nothing.
Spec == Init /\ [][Next]_vars /\ WF_vars(MainStep) /\ WF_vars(ReaderStep)

----------------------------------------------------------------------------
(* Types.                                                                  *)

RequestNames == AllCommands \union {"initialize"}
Names == RequestNames \union ForwardedEvents
           \union {"stopped", "continued", "runInTerminal", "none"}

Requests == [cmd : RequestNames \union {"none"}, arg : Int]
SentRequests == [cmd : RequestNames, seq : 1..MaxSeq, arg : Int]
Messages == {m \in [type : {"response", "event", "request"}, cmd : Names, seq : 0..MaxSeq,
                    arg : Int, ok : BOOLEAN, sess : 0..MaxSessions] :
               /\ m.type = "response" <=> m.cmd \in RequestNames    \* responses name requests
               /\ m.type = "response" => m.seq > 0}
Posted == {p \in [kind : {"data", "error", "reset"}, sess : 0..MaxSessions, msgs : Seq(Messages)] :
             p.kind = "data" => p.msgs # <<>>}    \* the reader posts no empty chunk
Calls == [op : {"join", "lost"}, then : {"return", "connect", "initialize", "locations"},
          seq : 0..MaxSeq, arg : Int]
Events == [kind : {"none", "lost", "event", "response", "request", "callback"},
           cmd : Names, ref : Int, origin : Requests, about : Int, sess : 0..MaxSessions]

SessionTypes ==
    /\ seq \in 0..MaxSeq
    /\ handshake \in {"notPerformed", "inProgress", "completed"}
    /\ handshakeBy \in 0..MaxSessions
    /\ activeThread \in Int
    /\ filepath \in [1..MaxSeq -> Int]
    /\ queue \in [QueueCommands -> Seq(Int)]
    /\ inFlight \in [1..MaxSeq -> Requests]

ThreadTypes ==
    /\ transport \in 0..MaxSessions
    /\ sessions \in 0..MaxSessions
    /\ rpc \in Seq(Messages)
    /\ calls \in Seq(Calls)
    /\ reader \in {"none", "check", "read", "failed", "exited"}
    /\ pending \in Seq(Posted)
    /\ event \in Events

FlagTypes ==
    /\ features \in BOOLEAN /\ canInteract \in BOOLEAN
    /\ shutdown \in BOOLEAN /\ terminated \in BOOLEAN

ServerTypes ==
    /\ server \in {"fresh", "ready", "closed"}
    /\ toServer \in Seq(SentRequests)
    /\ toClient \in Seq(Messages)
    /\ debuggee \in {"running", "stopped"}
    /\ eventsSent \in 0..MaxEvents

\* The type invariant.
TypeOK == SessionTypes /\ ThreadTypes /\ FlagTypes /\ ServerTypes

----------------------------------------------------------------------------
(* Safety.                                                                 *)

\* A running reader thread has a transport to read from: Reset stops the
\* thread before it deletes the transport, on every path and however the
\* handlers of the application nest Reset and SetTransport.
ReaderHasTransport == reader # "none" => transport # Null

\* The handshake of this session was completed by its own server.
Fresh == transport # Null /\ handshake = "completed" /\ handshakeBy = transport

\* Once a session's own server has completed the handshake, nothing posted by
\* the reader thread of an earlier session is left: neither bytes that would
\* be taken for this session's nor a connection error that would end it.  An
\* error that is posted is the loss of this connection.
NothingStaleOnceFresh ==
    Fresh => /\ \A i \in DOMAIN pending :
                   /\ pending[i].sess = transport
                   /\ pending[i].kind = "error" => terminated /\ server = "closed"
             /\ \A i \in DOMAIN rpc : rpc[i].sess = transport

\* SetTransport in Reset's join is the last call on the stack, and the session
\* it opens is later than the transport in use and than everything posted.
ConnectIsLast ==
    \A i \in DOMAIN calls :
        calls[i].then = "connect" =>
            /\ i = Len(calls) /\ calls[i].op = "join"
            /\ transport < sessions
            /\ \A k \in DOMAIN pending : pending[k].sess < sessions

\* Nothing is posted or processed for a session that is still to come.
PostedNotLater ==
    /\ transport <= sessions
    /\ \A k \in DOMAIN pending :
          /\ pending[k].sess <= sessions
          /\ transport # Null => pending[k].sess <= transport
    /\ transport # Null => \A n \in DOMAIN rpc : rpc[n].sess <= transport

\* The event queue holds the sessions in their order, and the chunk that is
\* being processed comes before it.
PostedInOrder ==
    /\ \A j, k \in DOMAIN pending : j <= k => pending[j].sess <= pending[k].sess
    /\ \A n \in DOMAIN rpc, k \in DOMAIN pending : rpc[n].sess <= pending[k].sess

\* A chunk holds messages of one session, the connection those of its own.
ChunksOfOneSession ==
    /\ \A k \in DOMAIN pending : \A n \in DOMAIN pending[k].msgs :
          pending[k].msgs[n].sess = pending[k].sess
    /\ \A m, n \in DOMAIN rpc : rpc[m].sess = rpc[n].sess
    /\ \A n \in DOMAIN toClient : toClient[n].sess = transport

\* An error of the connection in use is posted only after it is lost.
ErrorIsLoss ==
    /\ reader = "failed" => terminated /\ server = "closed"
    /\ transport # Null =>
          \A k \in DOMAIN pending :
              (pending[k].kind = "error" /\ pending[k].sess = transport)
                  => terminated /\ server = "closed"

\* What is posted and what is processed belongs to a session that is Fresh.
FreshOwnsAll ==
    Fresh => /\ \A k \in DOMAIN pending : pending[k].sess = transport
             /\ \A n \in DOMAIN rpc : rpc[n].sess = transport

\* The sessions follow each other: the inductive invariant behind
\* ReaderHasTransport and NothingStaleOnceFresh.
SessionsInOrder ==
    /\ ReaderHasTransport
    /\ ConnectIsLast
    /\ PostedNotLater
    /\ PostedInOrder
    /\ ChunksOfOneSession
    /\ ErrorIsLoss
    /\ FreshOwnsAll

\* The last event told the application of a message of this session.
ToldOfThisSession == Fresh /\ event.sess = transport

\* Whatever the order of the answers, a response is given to the application
\* with the request that it answers (GetOriginatingRequest).
OriginMatches ==
    (ToldOfThisSession /\ event.kind = "response" /\ event.cmd \in TrackedCommands)
        => event.origin = [cmd |-> event.cmd, arg |-> event.about]

\* Whatever the order of the answers, the response to breakpointLocations
\* names the file that was asked for (m_requestIdToFilepath).
FilepathMatches ==
    (ToldOfThisSession /\ event.kind = "response" /\ event.cmd = "breakpointLocations")
        => event.ref = event.about

\* A refId, an originSource or a callback taken from the front of a queue
\* belongs to the request that is answered.
RefIdMatches ==
    ( /\ ToldOfThisSession
      /\ \/ event.kind = "response" /\ event.cmd \in QueueEventCommands
         \/ event.kind = "callback" )
        => event.ref = event.about

\* The arguments of the messages of a sequence that are for command c.
ArgsOf(c, s) == FlattenSeq([i \in DOMAIN s |-> IF s[i].cmd = c THEN <<s[i].arg>> ELSE <<>>])

\* The answers to c that have not been handled and the requests c that have not
\* been answered, oldest first.
Outstanding(c) ==
    ArgsOf(c, rpc \o FlattenSeq([i \in DOMAIN pending |-> pending[i].msgs]) \o toClient)
        \o ArgsOf(c, toServer)

\* The queues mirror what is outstanding: no entry is lost, left over or out of
\* place while the server lives, and the entries it leaves unanswered are the
\* last ones.
QueuesMirrorOutstanding ==
    Fresh => \A c \in QueueCommands :
                IF server = "closed" THEN IsPrefix(Outstanding(c), queue[c])
                ELSE queue[c] = Outstanding(c)

\* When all has been handled, CanInteract tells whether the debuggee is stopped.
InteractIffStopped ==
    (Fresh /\ InEventLoop /\ pending = <<>> /\ toClient = <<>>)
        => (canInteract <=> debuggee = "stopped")

\* Every request of the session that is not answered, and every answer that is
\* not handled, finds its request recorded in m_in_flight_requests under its
\* number: numbers are not reused and nothing is forgotten too early.
InFlightCoversOutstanding ==
    LET recorded(m) == inFlight[m.seq] = [cmd |-> m.cmd, arg |-> m.arg]
        covered(msgs) == \A i \in DOMAIN msgs : msgs[i].type = "response"
                            /\ msgs[i].cmd # "initialize" => recorded(msgs[i])
    IN  Fresh => /\ \A i \in DOMAIN toServer : recorded(toServer[i])
                 /\ covered(rpc) /\ covered(toClient)
                 /\ \A i \in DOMAIN pending : covered(pending[i].msgs)

\* m_in_flight_requests does not grow with the requests the application is told
\* the answer of: while the server lives, what is recorded of them is outstanding.
\* (Steps, pause, attach, source and evaluate stay recorded until Reset.)
TrackedAreForgotten ==
    LET has(msgs, s) == \E i \in DOMAIN msgs : msgs[i].seq = s
    IN  (Fresh /\ server # "closed") =>
            \A s \in 1..MaxSeq :
                inFlight[s].cmd \in TrackedCommands =>
                    \/ has(toServer, s) \/ has(toClient, s) \/ has(rpc, s)
                    \/ \E i \in DOMAIN pending : has(pending[i].msgs, s)

\* wxEVT_DAP_LOST_CONNECTION ends only the session whose connection is lost
\* (Client.hpp:164, "lost connection to the DAP server").
LostIsCurrent ==
    (event.kind = "lost" /\ event.about # Null) => event.sess = event.about

----------------------------------------------------------------------------
(* Liveness.                                                               *)

\* When its server goes away a session ends: the reader thread notices, the
\* event loop runs OnConnectionError and Reset completes.
LostSessionEnds ==
    \A t \in 1..MaxSessions :
        (transport = t /\ server = "closed") ~> (transport # t)

\* The main thread does not wait for the reader thread for ever.
JoinTerminates == (calls # <<>> /\ Top.op = "join") ~> ~(calls # <<>> /\ Top.op = "join")
=============================================================================
