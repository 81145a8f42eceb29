----------------------------- MODULE MainFrame -----------------------------
(***************************************************************************)
(* dbgcli's MainFrame: the program that uses dap::Client.  The handlers of *)
(* the buttons and of the client's events are the only callers of the API, *)
(* so this module is Client with its free application replaced by them.    *)
(*                                                                         *)
(* A handler is the sequence of API calls it makes; it runs to its end     *)
(* before the main thread handles anything else, unless a call has to wait *)
(* for the reader thread.                                                  *)
(***************************************************************************)
EXTENDS Client

CONSTANT MaxScopes      \* the most scopes of a frame

ASSUME ScopesAssumption == MaxScopes \in Nat

VARIABLES
    todo,       \* the calls the running handler has still to make
    ui,         \* the state of the buttons at the last update of the UI
    attaching,  \* m_attaching
    frameId,    \* m_frame_id, a frame of the server or NoFrame
    stops,      \* how often this server's debuggee has stopped (external)
    frameOf     \* the top frame in the answer to stackTrace number seq (external)

frameVars == <<todo, ui, attaching, frameId>>
allVars == <<vars, frameVars, stops, frameOf>>

\* A frame is known by its session and by the stop it belongs to.
NoFrame == <<Null, 0>>
TopFrame == IF debuggee = "stopped" THEN <<transport, stops>> ELSE NoFrame

IsConnected == reader # "none" /\ ~terminated

FrameInit ==
    /\ Init
    /\ todo = <<>> /\ ui = [connected |-> FALSE, interact |-> FALSE]
    /\ attaching = FALSE /\ frameId = NoFrame
    /\ stops = 0 /\ frameOf = [s \in 1..MaxSeq |-> NoFrame]

----------------------------------------------------------------------------
(* The API, as the handlers use it.                                        *)

ASSUME ArgsExist == Args # {}

Argument == CHOOSE a \in Args : TRUE

\* Pause and the steps are given no thread; the other calls differ in the command
\* they send and in whether they remember what they asked about.
Perform(call) ==
    \/ call = "reset" /\ Reset
    \/ call = "postReset" /\ PostReset
    \/ call = "setTransport" /\ SetTransport
    \/ call = "initialize" /\ Initialize
    \/ call = "respond" /\ SendResponse
    \/ call = "launch" /\ Launch(Argument)
    \/ call = "setFunctionBreakpoints" /\ SetFunctionBreakpoints(Argument)
    \/ call \in {"attach", "configurationDone"} /\ SimpleRequest(call, Null)
    \/ call \in StepCommands \union {"pause"} /\ SimpleRequest(call, Resolve(NotFound))
    \/ call = "stackTrace" /\ GetFrames(NotFound)
    \/ call \in QueueCommands \ {"stackTrace"} /\ QueuedRequest(call, Argument)

\* The next call of the handler, or its assignment of wxNOT_FOUND to m_frame_id.
RunHandler ==
    /\ todo # <<>> /\ calls = <<>>
    /\ IF Head(todo) = "forgetFrame" THEN frameId' = NoFrame /\ UNCHANGED vars
       ELSE Perform(Head(todo)) /\ UNCHANGED frameId
    /\ todo' = Tail(todo)
    /\ UNCHANGED <<ui, attaching, stops, frameOf>>

----------------------------------------------------------------------------
(* The buttons.                                                            *)

\* The *UI handlers run when the event loop is idle.
UpdateUI ==
    /\ InEventLoop /\ todo = <<>>
    /\ ui' = [connected |-> IsConnected, interact |-> IsConnected /\ canInteract]
    /\ UNCHANGED <<vars, todo, attaching, frameId, stops, frameOf>>

\* Bug: m_frame_id is kept.
InitializeClientKeepsFrame == <<"reset", "setTransport", "initialize">>

InitializeClient == <<"reset", "setTransport", "forgetFrame", "initialize">>

\* OnConnect and OnAttach, enabled by OnConnectUI and OnAttachUI.
OnConnect(attach) ==
    /\ InEventLoop /\ todo = <<>> /\ sessions < MaxSessions
    /\ ~ui.connected
    /\ attaching' = attach
    /\ todo' = InitializeClient
    /\ UNCHANGED <<vars, ui, frameId, stops, frameOf>>

\* Bug: the buttons look at IsConnected only.
ButtonsWhenConnected ==
    (IF ui.connected
     THEN {"next", "stepIn", "stepOut", "continue", "setBreakpoints", "setFunctionBreakpoints",
           "evaluate"} ELSE {})

\* OnNextUI, OnStepInUI, OnStepOutUI, OnContinueUI, OnSetBreakpointUI, OnEvalUI
\* and OnPauseUI.
Buttons ==
    (IF ui.interact
     THEN {"next", "stepIn", "stepOut", "continue", "setBreakpoints", "setFunctionBreakpoints",
           "evaluate"} ELSE {})
      \union (IF ui.connected /\ ~ui.interact THEN {"pause"} ELSE {})

\* OnNext, OnStepIn, OnStepOut, OnPause, OnContinue, OnSetBreakpoint and OnEval.
\* The last two ask the user first, and events are handled before the answer:
\* like a click on a button whose state is out of date.
OnButton(call) ==
    /\ InEventLoop /\ todo = <<>>
    /\ call \in Buttons \intersect Commands
    /\ todo' = <<call>>
    /\ UNCHANGED <<vars, ui, attaching, frameId, stops, frameOf>>

----------------------------------------------------------------------------
(* The events of the client.                                               *)

\* The message the client is about to handle.
Handled == IF rpc # <<>> THEN Head(rpc) ELSE Head(Head(pending).msgs)

\* OnInitializeResponse
AfterInitialize == IF attaching THEN <<"attach">> ELSE <<"launch">>

\* OnStackTrace, with LoadFile of a source the server has, or of a local one.
AfterStackTrace(frame) ==
    IF frame = NoFrame THEN {<<>>} ELSE {<<"scopes">>, <<"source", "scopes">>}

\* The messages the program has a handler for that calls the client.
Answered == {"initialize", "initialized", "launch", "stopped", "stackTrace", "scopes",
             "terminated", "runInTerminal"}

\* OnScopes, for a frame with n scopes.
AfterScopes(n) == [k \in 1..n |-> "variables"]

\* The handler of message m starts.
Handle(m) ==
    \/ m.cmd = "initialize" /\ todo' = AfterInitialize
    \/ m.cmd = "initialized" /\ todo' = <<"setFunctionBreakpoints", "configurationDone">>
    \/ m.cmd = "launch" /\ todo' = IF m.ok THEN <<>> ELSE <<"postReset">>
    \/ m.cmd = "stopped" /\ todo' = <<"stackTrace">>
    \/ m.cmd = "stackTrace" /\ todo' \in AfterStackTrace(frameOf[m.seq])
    \/ m.cmd = "scopes" /\ todo' \in {AfterScopes(n) : n \in 0..MaxScopes}
    \/ m.cmd = "terminated" /\ todo' = <<"reset", "forgetFrame">>
    \/ m.cmd = "runInTerminal" /\ todo' = <<"respond">>
    \/ m.cmd \notin Answered /\ todo' = <<>>

\* Bug: every stack trace is taken for the first.
FrameAfterFirst(m) == IF m.cmd = "stackTrace" /\ frameId = NoFrame THEN frameOf[m.seq] ELSE frameId

\* OnStackTrace's assignment to m_frame_id.
FrameAfter(m) ==
    IF m.cmd = "stackTrace" /\ frameOf[m.seq] # NoFrame THEN frameOf[m.seq] ELSE frameId

OnDapEvent ==
    /\ todo = <<>>
    /\ OnDataRead \/ ProcessBuffer
    /\ IF event' = NoEvent THEN UNCHANGED <<todo, frameId>>
       ELSE Handle(Handled) /\ frameId' = FrameAfter(Handled)
    /\ UNCHANGED <<ui, attaching, stops, frameOf>>

\* OnConnectionError tells the user, who closes the message box; posted calls and
\* calls that waited return.
OtherMainStep ==
    /\ \/ todo = <<>> /\ (OnConnectionError \/ OnPostedReset)
       \/ LostReturns \/ JoinReturns
    /\ UNCHANGED <<frameVars, stops, frameOf>>

----------------------------------------------------------------------------
(* The server, and the debuggee's stops.                                   *)

Answer ==
    \E i \in 1..Len(toServer), ok \in BOOLEAN :
        /\ ServerAnswers(i, ok)
        /\ frameOf' = IF toServer[i].cmd = "stackTrace"
                      THEN [frameOf EXCEPT ![toServer[i].seq] = IF ok THEN TopFrame ELSE NoFrame]
                      ELSE frameOf
        /\ UNCHANGED <<frameVars, stops>>

SendEvent ==
    \E e \in ServerEvents, thread \in Args :
        /\ ServerSends(e, thread)
        /\ stops' = IF e = "stopped" THEN stops + 1 ELSE stops
        /\ UNCHANGED <<frameVars, frameOf>>

ReaderOrClose == (ReaderStep \/ ServerCloses) /\ UNCHANGED <<frameVars, stops, frameOf>>

FrameNext ==
    \/ RunHandler \/ UpdateUI
    \/ \E attach \in BOOLEAN : OnConnect(attach)
    \/ \E call \in Commands : OnButton(call)
    \/ OnDapEvent \/ OtherMainStep
    \/ Answer \/ SendEvent \/ ReaderOrClose

FrameSpec == FrameInit /\ [][FrameNext]_allVars

----------------------------------------------------------------------------
(* Properties.                                                             *)

\* Whenever the user presses a button that was enabled when the UI was last updated,
\* and whatever handlers are running: initialize is the first request of a session,
\* and all others but pause come after the answer to it (InitializeClient, OnNextUI,
\* ..., OnEvalUI).
InitializeComesFirst ==
    (todo # <<>> /\ calls = <<>> /\ Head(todo) \in AllCommands) =>
        /\ transport # Null => handshake # "notPerformed"
        /\ Head(todo) # "pause" => Allowed

\* dap.hpp:557: "Until the debug adapter has responded to with an 'initialize'
\* response, the client must not send any additional requests": the program makes
\* no call of any kind before that (OnPauseUI).
NothingBeforeAnswer ==
    (todo # <<>> /\ calls = <<>> /\ Head(todo) \in AllCommands) => Allowed

\* The frame that OnEval uses is a frame of the session in use: no frame outlives
\* its session, once InitializeClient has returned, unless the handshake of the
\* session was completed by a message of an earlier one (InitializeClient,
\* OnTerminated, OnStackTrace).
FrameOfThisSession ==
    ( /\ transport # Null /\ (handshake = "completed" => Fresh)
      /\ frameId # NoFrame /\ "forgetFrame" \notin Range(todo) )
        => frameId[1] = transport

\* When all is answered and handled, and no handler is about to ask for the stack,
\* the frame is the one the debuggee has stopped in, however stops, steps and stack
\* traces have overtaken each other (OnStopped, OnStackTrace).
FrameIsCurrent ==
    ( /\ Fresh /\ InEventLoop /\ "stackTrace" \notin Range(todo)
      /\ pending = <<>> /\ toClient = <<>> /\ toServer = <<>>
      /\ server = "ready" /\ debuggee = "stopped" )
        => frameId = <<transport, stops>>
=============================================================================
