---------------------------- MODULE FrameProofs ----------------------------
(***************************************************************************)
(* The program keeps to the order of calls that Client assumes, and the    *)
(* frame it shows is one of the session and, when all is handled, of the   *)
(* last stop.                                                              *)
(***************************************************************************)
EXTENDS MainFrame, OrderProofs

----------------------------------------------------------------------------
(* The handlers, by the calls they have still to make.                     *)

\* OnConnect, step by step.
Connecting == InitializeClient
Setting == <<"setTransport", "forgetFrame", "initialize">>
Installed == <<"forgetFrame", "initialize">>
Starting == <<"initialize">>

\* OnTerminated.
Ending == <<"reset", "forgetFrame">>
Ended == <<"forgetFrame">>

\* The others.
Single(call) == <<call>>
Configuring == <<"setFunctionBreakpoints", "configurationDone">>
Loading == <<"source", "scopes">>

ConnectRests == {Connecting, Setting, Installed, Starting}
ScopesRests == Seq({"variables"}) \ {<<>>}
AskingRests == {Configuring, Loading} \union {Single(c) : c \in AllCommands} \union ScopesRests
OtherRests == {<<>>, Single("postReset"), Single("respond")}

\* The handlers that have still to forget the frame.
Forgetting == {Connecting, Setting, Installed, Ending, Ended}

----------------------------------------------------------------------------
(* The invariant of the calls.                                             *)

FrameTypes ==
    /\ todo \in ConnectRests \union AskingRests \union OtherRests \union {Ending, Ended}
    /\ ui \in [connected : BOOLEAN, interact : BOOLEAN]
    /\ stops \in Nat /\ frameId \in Nat \X Nat /\ frameOf \in [1..MaxSeq -> Nat \X Nat]

\* A handler that waits for the reader thread makes no other call.
OneCall == calls = <<>> \/ \E c \in Calls : calls = <<c>> /\ (c.then = "connect" => todo = Installed)

\* Between Reset and SetTransport there is no transport ...
NoneBetween ==
    /\ (todo \in {Setting, Ended} /\ calls = <<>>) => transport = Null
    /\ (todo = Installed /\ calls # <<>>) => transport = Null

\* ... a new one is not used before initialize is sent ...
UnusedAtFirst ==
    /\ (todo \in {Installed, Starting} /\ transport # Null) =>
          handshake = "notPerformed" /\ server # "ready" /\ toServer = <<>>
    /\ (transport # Null /\ handshake = "notPerformed") => todo \in {Installed, Starting}

\* ... and then only by pause before the answer to it.
AnswerAwaited ==
    (todo \in AskingRests /\ todo # Single("pause")) => transport = Null \/ handshake = "completed"

\* The buttons are enabled after the answer, and disabled when a session starts.
ButtonsFollow ==
    /\ canInteract => handshake = "completed"
    /\ ui.interact => ui.connected /\ (transport = Null \/ handshake = "completed")
    /\ todo \in ConnectRests => ~ui.connected

CallsKept == FrameTypes /\ OneCall /\ NoneBetween /\ UnusedAtFirst /\ AnswerAwaited /\ ButtonsFollow

----------------------------------------------------------------------------
(* The invariant of the frames.                                            *)

\* Message m is the answer to a stackTrace of this session.
IsTrace(m) == Own(m) /\ m.cmd = "stackTrace"

\* The frame it gives.
Given(m) == frameOf[m.seq]

\* The server gives frames of its own session.
TracesOwn ==
    transport # Null =>
        \A j \in DOMAIN Incoming :
            IsTrace(Incoming[j]) => Given(Incoming[j]) = NoFrame \/ Given(Incoming[j])[1] = transport

\* A frame is kept only by the session that gave it.
FrameKept ==
    (Clean /\ todo \notin Forgetting) =>
        frameId = NoFrame \/ (handshake = "completed" /\ frameId[1] = transport)

FramesKept == TracesOwn /\ FrameKept

\* The frame of the last stop.
Current == <<transport, stops>>

\* A frame of a stop that is still to come is not known.
NoneLater == frameId[2] <= stops /\ \A s \in 1..MaxSeq : frameOf[s][2] <= stops

\* Once the frame of the stop is given it is not replaced by an older one.
CurrentStays ==
    (Clean /\ debuggee = "stopped") =>
        \A j \in DOMAIN Incoming : IsTrace(Incoming[j]) =>
            /\ frameId = Current => Given(Incoming[j]) = Current
            /\ \A i \in DOMAIN Incoming :
                  (i < j /\ IsTrace(Incoming[i]) /\ Given(Incoming[i]) = Current)
                      => Given(Incoming[j]) = Current

\* Message m tells of a stop of this session.
IsStop(m) == m.sess = transport /\ m.type = "event" /\ m.cmd = "stopped"

\* While the debuggee is stopped its frame is known or on its way.
OnItsWay ==
    (Clean /\ server = "ready" /\ debuggee = "stopped") =>
        \/ \E j \in DOMAIN Incoming : IsStop(Incoming[j])
        \/ todo = Single("stackTrace")
        \/ \E i \in DOMAIN toServer : toServer[i].cmd = "stackTrace"
        \/ \E j \in DOMAIN Incoming : IsTrace(Incoming[j]) /\ Given(Incoming[j]) = Current
        \/ frameId = Current

CurrentKept == NoneLater /\ CurrentStays /\ OnItsWay

\* The server refuses no stackTrace.
TracesAnswered == "stackTrace" \notin RefusedCommands
----------------------------------------------------------------------------
(* The program is an application of Client.                                *)

LEMMA ArgumentType == Argument \in Args
  BY ArgsExist DEF Argument

\* Each call of a handler is a call of the API.
LEMMA PerformIsCall ==
    ASSUME NEW call, Perform(call)
    PROVE  ApplicationStep
  <1>1. CASE \/ call = "reset" /\ Reset
             \/ call = "postReset" /\ PostReset
             \/ call = "setTransport" /\ SetTransport
      BY <1>1 DEF ApplicationStep
  <1>2. CASE \/ call = "initialize" /\ Initialize
             \/ call = "respond" /\ SendResponse
      BY <1>2 DEF ApplicationStep, Request
  <1>3. CASE \/ call = "launch" /\ Launch(Argument)
             \/ call = "setFunctionBreakpoints" /\ SetFunctionBreakpoints(Argument)
      BY <1>3, ArgumentType DEF ApplicationStep, Request
  <1>4. CASE call \in {"attach", "configurationDone"} /\ SimpleRequest(call, Null)
      BY <1>4 DEF ApplicationStep, Request, Attach, ConfigurationDone
  <1>5. CASE call \in StepCommands \union {"pause"} /\ SimpleRequest(call, Resolve(NotFound))
      <2>1. \/ Pause(NotFound) \/ StepIn(NotFound) \/ StepOut(NotFound)
            \/ NextStep(NotFound) \/ Continue(NotFound)
          BY <1>5 DEF StepCommands, Pause, StepIn, StepOut, NextStep, Continue
      <2> QED
          BY <2>1 DEF ApplicationStep, Request
  <1>6. CASE call = "stackTrace" /\ GetFrames(NotFound)
      BY <1>6 DEF ApplicationStep, Request
  <1>7. CASE call \in QueueCommands \ {"stackTrace"} /\ QueuedRequest(call, Argument)
      <2>1. \/ GetScopes(Argument) \/ GetChildrenVariables(Argument) \/ SetBreakpointsFile(Argument)
            \/ EvaluateExpression(Argument) \/ LoadSource(Argument)
          BY <1>7 DEF QueueCommands, QueueEventCommands, CallbackCommands, GetScopes,
             GetChildrenVariables, SetBreakpointsFile, EvaluateExpression, LoadSource
      <2> QED
          BY <2>1, ArgumentType DEF ApplicationStep, Request
  <1> QED
      BY <1>1, <1>2, <1>3, <1>4, <1>5, <1>6, <1>7 DEF Perform

\* The steps of the program are steps of Client.
LEMMA FrameStep == [FrameNext]_allVars => [Next]_vars
  <1>1. ASSUME RunHandler PROVE [Next]_vars
      BY <1>1, PerformIsCall DEF RunHandler, Next
  <1>2. ASSUME NEW a \in BOOLEAN, OnConnect(a) PROVE [Next]_vars
      BY <1>2 DEF OnConnect
  <1>3. ASSUME NEW c \in Commands, OnButton(c) PROVE [Next]_vars
      BY <1>3 DEF OnButton
  <1>4. ASSUME UpdateUI PROVE [Next]_vars
      BY <1>4 DEF UpdateUI
  <1>5. ASSUME OnDapEvent PROVE [Next]_vars
      BY <1>5 DEF OnDapEvent, Next, MainStep
  <1>6. ASSUME OtherMainStep PROVE [Next]_vars
      BY <1>6 DEF OtherMainStep, Next, MainStep
  <1>7. ASSUME Answer PROVE [Next]_vars
      BY <1>7 DEF Answer, Next, ServerStep
  <1>8. ASSUME SendEvent PROVE [Next]_vars
      BY <1>8 DEF SendEvent, Next, ServerStep
  <1>9. ASSUME ReaderOrClose PROVE [Next]_vars
      BY <1>9 DEF ReaderOrClose, Next, ServerStep
  <1>10. ASSUME UNCHANGED allVars PROVE [Next]_vars
      BY <1>10 DEF allVars
  <1> QED
      BY <1>1, <1>2, <1>3, <1>4, <1>5, <1>6, <1>7, <1>8, <1>9, <1>10 DEF FrameNext

\* MainFrame's handlers are callers of the API like any other: what holds of every
\* application of Client holds of this one.
THEOREM ProgramUsesClient == FrameSpec => Init /\ [][Next]_vars
  <1>1. FrameInit => Init
      BY DEF FrameInit
  <1> QED
      BY <1>1, FrameStep, PTL DEF FrameSpec

\* What is known of Client.
ClientKept == TypeOK /\ SessionsInOrder /\ RequestsKept /\ InteractKept

LEMMA InitClient == FrameInit => ClientKept
  BY InitTypeOK, InitSessions, InitKept, InitInteract DEF FrameInit, ClientKept

LEMMA NextClient == ClientKept /\ [FrameNext]_allVars => ClientKept'
  <1> SUFFICES ASSUME ClientKept, [FrameNext]_allVars PROVE ClientKept'
      OBVIOUS
  <1>1. [Next]_vars
      BY FrameStep
  <1> QED
      BY <1>1, NextTypeOK, NextSessions, NextKept, NextInteract DEF ClientKept, RequestsKept
----------------------------------------------------------------------------
(* The handlers: what is next and what is left after it.                   *)

LEMMA CommandNames ==
    \A c \in AllCommands :
        c \notin {"reset", "setTransport", "forgetFrame", "initialize", "postReset", "respond"}
  BY DEF AllCommands, QueueCommands, QueueEventCommands, CallbackCommands, PlainCommands,
     StepCommands, IgnoredCommands

LEMMA ConnectSteps ==
    /\ Connecting # <<>> /\ Head(Connecting) = "reset" /\ Tail(Connecting) = Setting
    /\ Setting # <<>> /\ Head(Setting) = "setTransport" /\ Tail(Setting) = Installed
    /\ Installed # <<>> /\ Head(Installed) = "forgetFrame" /\ Tail(Installed) = Starting
    /\ Starting # <<>> /\ Head(Starting) = "initialize" /\ Tail(Starting) = <<>>
  BY DEF Connecting, InitializeClient, Setting, Installed, Starting

LEMMA EndSteps ==
    /\ Ending # <<>> /\ Head(Ending) = "reset" /\ Tail(Ending) = Ended
    /\ Ended # <<>> /\ Head(Ended) = "forgetFrame" /\ Tail(Ended) = <<>>
  BY DEF Ending, Ended

LEMMA SingleSteps ==
    ASSUME NEW c
    PROVE  Single(c) # <<>> /\ Head(Single(c)) = c /\ Tail(Single(c)) = <<>>
  BY DEF Single

LEMMA AskingSteps ==
    ASSUME NEW t \in AskingRests
    PROVE  /\ t # <<>> /\ Head(t) \in AllCommands
           /\ Tail(t) \in AskingRests \union {<<>>} /\ Tail(t) \notin {Single("pause"), Single("stackTrace")}
           /\ t = Single("stackTrace") => Head(t) = "stackTrace"
           /\ Tail(t) # <<>> => Head(t) # "pause"
  <1> USE DEF AllCommands, QueueCommands, QueueEventCommands, CallbackCommands, PlainCommands,
      StepCommands, IgnoredCommands
  <1>1. CASE t = Configuring
      <2>1. /\ t # <<>> /\ Head(t) = "setFunctionBreakpoints" /\ Tail(t) = Single("configurationDone")
            /\ t # Single("stackTrace") /\ Tail(t) \notin {Single("pause"), Single("stackTrace")}
          BY <1>1 DEF Configuring, Single
      <2> QED
          BY <2>1 DEF AskingRests
  <1>2. CASE t = Loading
      <2>1. /\ t # <<>> /\ Head(t) = "source" /\ Tail(t) = Single("scopes")
            /\ t # Single("stackTrace") /\ Tail(t) \notin {Single("pause"), Single("stackTrace")}
          BY <1>2 DEF Loading, Single
      <2> QED
          BY <2>1 DEF AskingRests
  <1>4. CASE t \in ScopesRests
      <2>1. t \in Seq({"variables"}) /\ t # <<>>
          BY <1>4 DEF ScopesRests
      <2>2. Head(t) = "variables" /\ Tail(t) \in Seq({"variables"})
          BY <2>1, HeadTailProperties
      <2>3. ASSUME NEW c, Single(c) \in Seq({"variables"}) PROVE c = "variables"
          <3>1. Len(Single(c)) = 1 /\ Single(c)[1] = c
              BY DEF Single
          <3>2. Single(c)[1] \in {"variables"}
              BY <2>3, <3>1, ElementOfSeq
          <3> QED
              BY <3>1, <3>2
      <2>4. "pause" # "variables" /\ "stackTrace" # "variables"
          OBVIOUS
      <2>5. t # Single("stackTrace") /\ Tail(t) \notin {Single("pause"), Single("stackTrace")}
          BY <2>1, <2>2, <2>3, <2>4
      <2>6. Tail(t) \in AskingRests \union {<<>>}
          BY <2>2 DEF AskingRests, ScopesRests
      <2>7. "variables" \in AllCommands
          OBVIOUS
      <2> QED
          BY <2>1, <2>2, <2>4, <2>5, <2>6, <2>7
  <1>3. ASSUME NEW c \in AllCommands, t = Single(c)
        PROVE  /\ t # <<>> /\ Head(t) = c /\ Tail(t) = <<>>
               /\ Tail(t) \notin {Single("pause"), Single("stackTrace")}
               /\ t = Single("stackTrace") => Head(t) = "stackTrace"
      BY <1>3 DEF Single
  <1> QED
      BY <1>1, <1>2, <1>3, <1>4 DEF AskingRests

\* The handlers differ.
LEMMA RestsDiffer ==
    /\ Connecting \notin {Setting, Installed, Starting, Ending, Ended}
    /\ Setting \notin {Installed, Starting, Ending, Ended}
    /\ Installed \notin {Starting, Ending, Ended}
    /\ Starting \notin {Ending, Ended} /\ Ending # Ended
    /\ \A t \in AskingRests \union OtherRests : t \notin ConnectRests \union {Ending, Ended}
    /\ \A t \in OtherRests : t \notin AskingRests
  <1>1. /\ Connecting \notin {Setting, Installed, Starting, Ending, Ended}
        /\ Setting \notin {Installed, Starting, Ending, Ended}
        /\ Installed \notin {Starting, Ending, Ended}
        /\ Starting \notin {Ending, Ended} /\ Ending # Ended
      BY DEF Connecting, InitializeClient, Setting, Installed, Starting, Ending, Ended
  <1>2. \A t \in ConnectRests \union {Ending, Ended} :
           t # <<>> /\ Head(t) \in {"reset", "setTransport", "forgetFrame", "initialize"}
      BY ConnectSteps, EndSteps DEF ConnectRests
  <1>3. \A t \in AskingRests : t # <<>> /\ Head(t) \in AllCommands
      BY AskingSteps
  <1>4. \A t \in OtherRests : t = <<>> \/ Head(t) \in {"postReset", "respond"}
      BY SingleSteps DEF OtherRests
  <1> QED
      BY <1>1, <1>2, <1>3, <1>4, CommandNames
----------------------------------------------------------------------------
(* The calls keep their invariant.                                         *)

\* The API sends request call, or loses the connection.
Asks(call) ==
    \E arg, q : /\ arg \in Int /\ seq < MaxSeq /\ Callable(call)
                /\ SendRequest(call, arg, q, "return")

LEMMA PerformCase ==
    ASSUME TypeOK, NEW call, Perform(call)
    PROVE  /\ call = "reset" => Reset
           /\ call = "setTransport" => SetTransport
           /\ call = "initialize" => Initialize
           /\ call = "postReset" => PostReset
           /\ call = "respond" => SendResponse
           /\ call \in AllCommands => Asks(call)
  <1> USE CommandNames DEF QueueCommands, QueueEventCommands, CallbackCommands, StepCommands
  <1>1. /\ call = "reset" => Reset
        /\ call = "setTransport" => SetTransport
        /\ call = "initialize" => Initialize
        /\ call = "postReset" => PostReset
        /\ call = "respond" => SendResponse
      BY DEF Perform
  <1>2. ASSUME call \in AllCommands PROVE Asks(call)
      <2>1. Argument \in Int /\ Resolve(NotFound) \in Int /\ Null \in Int
          BY ArgumentType, ArgsAssumption DEF Resolve, TypeOK, SessionTypes, Null
      <2>2. CASE call = "launch" /\ Launch(Argument)
          BY <2>1, <2>2 DEF Launch, MayRequest, Asks
      <2>3. CASE call = "setFunctionBreakpoints" /\ SetFunctionBreakpoints(Argument)
          BY <2>1, <2>3 DEF SetFunctionBreakpoints, SimpleRequest, MayRequest, Asks
      <2>4. CASE \/ call \in {"attach", "configurationDone"} /\ SimpleRequest(call, Null)
                 \/ call \in StepCommands \union {"pause"} /\ SimpleRequest(call, Resolve(NotFound))
          BY <2>1, <2>4 DEF SimpleRequest, MayRequest, Asks
      <2>5. CASE \/ call = "stackTrace" /\ GetFrames(NotFound)
                 \/ call \in QueueCommands \ {"stackTrace"} /\ QueuedRequest(call, Argument)
          BY <2>1, <2>5 DEF GetFrames, QueuedRequest, MayRequest, Asks
      <2> QED
          BY <1>2, <2>2, <2>3, <2>4, <2>5 DEF Perform
  <1> QED
      BY <1>1, <1>2

\* What a call does to what the invariant is about.
LEMMA AskingEffect ==
    ASSUME TypeOK, NEW call, Asks(call), calls = <<>>
    PROVE  /\ UNCHANGED <<transport, handshake, handshakeBy, canInteract, server, debuggee>>
           /\ Callable(call)
           /\ transport = Null => \E c \in Calls : c.then = "return" /\ calls' = <<c>>
           /\ transport # Null =>
                 /\ calls' = <<>>
                 /\ server = "ready" => \E n \in Nat, a \in Int :
                       toServer' = Append(toServer, [cmd |-> call, seq |-> n, arg |-> a])
           /\ UNCHANGED <<rpc, pending, toClient>>
  <1>1. PICK arg, q : arg \in Int /\ seq < MaxSeq /\ Callable(call) /\ SendRequest(call, arg, q, "return")
      BY DEF Asks
  <1>2. seq + 1 \in 0..MaxSeq
      BY <1>1, NumbersType
  <1>3. Call("lost", "return", seq + 1, arg) \in Calls /\ Call("lost", "return", seq + 1, arg).then = "return"
      BY <1>1, <1>2, CallType DEF Call
  <1>4. /\ UNCHANGED <<transport, handshake, handshakeBy, canInteract, server, debuggee>>
        /\ UNCHANGED <<rpc, pending, toClient>>
      BY <1>1 DEF SendRequest, HandshakeAfter, serverVars
  <1>5. ASSUME transport = Null PROVE \E c \in Calls : c.then = "return" /\ calls' = <<c>>
      <2>1. calls' = Append(<<>>, Call("lost", "return", seq + 1, arg))
          BY <1>1, <1>5 DEF SendRequest, GetNextSequence
      <2> QED
          BY <1>3, <2>1
  <1>6. ASSUME transport # Null
        PROVE  /\ calls' = <<>>
               /\ toServer' = IF server = "closed" THEN toServer
                              ELSE Append(toServer, [cmd |-> call, seq |-> seq + 1, arg |-> arg])
      BY <1>1, <1>6 DEF SendRequest, GetNextSequence
  <1> QED
      BY <1>1, <1>2, <1>4, <1>5, <1>6

\* What is left of a handler.
LEMMA TodoCases ==
    ASSUME CallsKept
    PROVE  \/ todo \in {Connecting, Setting, Installed, Starting}
           \/ todo \in {Ending, Ended}
           \/ todo \in AskingRests
           \/ todo \in {<<>>, Single("postReset"), Single("respond")}
  BY DEF CallsKept, FrameTypes, ConnectRests, OtherRests

LEMMA NoFrameType == NoFrame \in Nat \X Nat
  BY DEF NoFrame, Null

\* Reset and SetTransport up to the join.
LEMMA BeginCalls ==
    ASSUME TypeOK, calls = <<>>, NEW then \in {"return", "connect"}, BeginReset(then, Null, Null, calls)
    PROVE  transport' = transport /\ \E c \in Calls : c.then = then /\ calls' = <<c>>
  <1>1. Call("join", then, Null, Null) \in Calls /\ Call("join", then, Null, Null).then = then
      BY CallType, BoundsAssumption DEF Call, Null
  <1>2. calls' = <<Call("join", then, Null, Null)>> /\ transport' = transport
      BY DEF BeginReset
  <1> QED
      BY <1>1, <1>2

\* The handlers of OnConnect, up to initialize.
LEMMA ConnectCalls ==
    ASSUME TypeOK, CallsKept, RunHandler, todo \in ConnectRests
    PROVE  CallsKept'
  <1> DEFINE call == Head(todo)
  <1>1. /\ calls = <<>> /\ todo' = Tail(todo) /\ UNCHANGED <<ui, stops, frameOf>>
        /\ call = "forgetFrame" => frameId' = NoFrame /\ UNCHANGED vars
        /\ call # "forgetFrame" => Perform(call) /\ UNCHANGED frameId
      BY DEF RunHandler
  <1>2. FrameTypes' /\ (todo' \in ConnectRests => ~ui'.connected)
      BY <1>1, ConnectSteps, NoFrameType DEF CallsKept, FrameTypes, ConnectRests, OtherRests, ButtonsFollow
  <1>3. CASE todo = Connecting
      <2>1. Reset /\ todo' = Setting
          BY <1>1, <1>3, PerformCase, ConnectSteps
      <2>2. PICK c \in Calls : c.then = "return" /\ calls' = <<c>>
          BY <1>1, <2>1, BeginCalls DEF Reset
      <2>3. UNCHANGED <<transport, handshake, server, toServer, canInteract>>
          BY <2>1 DEF Reset, BeginReset, sessionVars, serverVars
      <2> QED
          BY <1>1, <1>2, <1>3, <2>1, <2>2, <2>3, RestsDiffer
          DEF CallsKept, OneCall, NoneBetween, UnusedAtFirst, AnswerAwaited, ButtonsFollow, ConnectRests
  <1>4. CASE todo = Setting
      <2>1. SetTransport /\ todo' = Installed
          BY <1>1, <1>4, PerformCase, ConnectSteps
      <2>2. PICK c \in Calls : c.then = "connect" /\ calls' = <<c>>
          BY <1>1, <2>1, BeginCalls DEF SetTransport
      <2>3. UNCHANGED <<transport, handshake, server, toServer, canInteract>>
          BY <2>1 DEF SetTransport, BeginReset, sessionVars, serverVars
      <2>4. transport = Null
          BY <1>1, <1>4 DEF CallsKept, NoneBetween
      <2> QED
          BY <1>1, <1>2, <1>4, <2>1, <2>2, <2>3, <2>4, RestsDiffer
          DEF CallsKept, OneCall, NoneBetween, UnusedAtFirst, AnswerAwaited, ButtonsFollow, ConnectRests
  <1>5. CASE todo = Installed
      <2>1. UNCHANGED vars /\ todo' = Starting
          BY <1>1, <1>5, ConnectSteps
      <2>2. UNCHANGED <<transport, handshake, server, toServer, canInteract, calls>>
          BY <2>1 DEF vars, sessionVars, serverVars
      <2> QED
          BY <1>1, <1>2, <1>5, <2>1, <2>2, RestsDiffer
          DEF CallsKept, OneCall, NoneBetween, UnusedAtFirst, AnswerAwaited, ButtonsFollow, ConnectRests
  <1>6. CASE todo = Starting
      <2>1. Initialize /\ todo' = <<>>
          BY <1>1, <1>6, PerformCase, ConnectSteps
      <2>2. <<>> \notin ConnectRests \union AskingRests \union {Setting, Ended, Installed, Starting}
          BY RestsDiffer DEF OtherRests, ConnectRests
      <2>3. UNCHANGED <<transport, canInteract>>
          BY <2>1 DEF Initialize, SendRequest
      <2>4. OneCall' /\ (transport # Null => handshake' = "inProgress" /\ handshake # "completed")
            /\ (transport = Null => handshake' = handshake)
          <3>1. SendRequest("initialize", Null, queue, "initialize") /\ seq < MaxSeq
                /\ (transport = Null \/ handshake = "notPerformed")
              BY <2>1 DEF Initialize
          <3>2. CASE transport = Null
              <4>1. calls' = <<Call("lost", "initialize", seq + 1, Null)>> /\ handshake' = handshake
                  BY <1>1, <3>1, <3>2 DEF SendRequest, GetNextSequence
              <4>2. seq + 1 \in 0..MaxSeq /\ Null \in Int
                  BY <3>1, NumbersType DEF Null
              <4>3. /\ Call("lost", "initialize", seq + 1, Null) \in Calls
                    /\ Call("lost", "initialize", seq + 1, Null).then = "initialize"
                  BY <4>2, CallType DEF Call
              <4> QED
                  BY <3>2, <4>1, <4>3 DEF OneCall
          <3>3. CASE transport # Null
              BY <1>1, <3>1, <3>3 DEF SendRequest, HandshakeAfter, OneCall
          <3> QED
              BY <3>2, <3>3
      <2> QED
          BY <1>1, <1>2, <2>1, <2>2, <2>3, <2>4
          DEF CallsKept, NoneBetween, UnusedAtFirst, AnswerAwaited, ButtonsFollow
  <1> QED
      BY <1>3, <1>4, <1>5, <1>6 DEF ConnectRests

\* The handlers of events and of the other buttons.
LEMMA AskingCalls ==
    ASSUME TypeOK, CallsKept, RunHandler, todo \in AskingRests
    PROVE  CallsKept'
  <1> DEFINE call == Head(todo)
  <1>1. /\ calls = <<>> /\ todo' = Tail(todo) /\ UNCHANGED <<ui, stops, frameOf>>
        /\ call # "forgetFrame" => Perform(call) /\ UNCHANGED frameId
      BY DEF RunHandler
  <1>2. /\ call \in AllCommands /\ todo' \in AskingRests \union {<<>>}
        /\ call # "forgetFrame"
      BY <1>1, AskingSteps, CommandNames
  <1>3. Asks(call)
      BY <1>1, <1>2, PerformCase
  <1>4. todo' \notin ConnectRests \union {Ending, Ended} /\ todo \notin ConnectRests
      BY <1>2, RestsDiffer DEF OtherRests
  <1>5. UNCHANGED <<transport, handshake, canInteract>> /\ OneCall'
      BY <1>1, <1>3, AskingEffect DEF OneCall
  <1>6. FrameTypes'
      BY <1>1, <1>2 DEF CallsKept, FrameTypes, OtherRests
  <1>7. todo' # <<>> => todo # Single("pause")
      BY <1>1, SingleSteps
  <1>8. UnusedAtFirst'
      BY <1>4, <1>5 DEF CallsKept, UnusedAtFirst, ConnectRests
  <1>9. AnswerAwaited'
      BY <1>2, <1>5, <1>7, RestsDiffer DEF CallsKept, AnswerAwaited, OtherRests
  <1> QED
      BY <1>1, <1>4, <1>5, <1>6, <1>8, <1>9 DEF CallsKept, NoneBetween, ButtonsFollow, ConnectRests

\* OnTerminated, a failed launch and the answer to runInTerminal.
LEMMA EndCalls ==
    ASSUME TypeOK, CallsKept, RunHandler, todo \in {Ending, Ended, Single("postReset"), Single("respond")}
    PROVE  CallsKept'
  <1> DEFINE call == Head(todo)
  <1>1. /\ calls = <<>> /\ todo' = Tail(todo) /\ UNCHANGED <<ui, stops, frameOf>>
        /\ call = "forgetFrame" => frameId' = NoFrame /\ UNCHANGED vars
        /\ call # "forgetFrame" => Perform(call) /\ UNCHANGED frameId
      BY DEF RunHandler
  <1>2. todo' \in {Ended, <<>>} /\ (todo' = Ended => todo = Ending)
      BY <1>1, EndSteps, SingleSteps
  <1>3. FrameTypes'
      <2>1. frameId' \in {frameId, NoFrame}
          BY <1>1
      <2> QED
          BY <1>1, <1>2, <2>1, NoFrameType DEF CallsKept, FrameTypes, OtherRests
  <1>4. /\ UNCHANGED <<transport, handshake, canInteract>>
        /\ calls' = <<>> \/ \E c \in Calls : c.then = "return" /\ calls' = <<c>>
        /\ todo = Ending => calls' # <<>>
      <2>1. CASE todo = Ending
          <3>1. Reset
              BY <1>1, <2>1, PerformCase, EndSteps
          <3>2. PICK c \in Calls : c.then = "return" /\ calls' = <<c>>
              BY <1>1, <3>1, BeginCalls DEF Reset
          <3>3. UNCHANGED <<transport, handshake, canInteract>>
              BY <3>1 DEF Reset, BeginReset, sessionVars
          <3> QED
              BY <3>2, <3>3
      <2>2. CASE todo = Ended
          <3>1. UNCHANGED vars
              BY <1>1, <2>2, EndSteps
          <3> QED
              BY <1>1, <2>2, <3>1, RestsDiffer DEF vars, sessionVars
      <2>3. CASE todo = Single("postReset")
          <3>1. PostReset
              BY <1>1, <2>3, PerformCase, SingleSteps
          <3> QED
              BY <1>1, <2>3, <3>1, RestsDiffer DEF PostReset, sessionVars, OtherRests
      <2>4. CASE todo = Single("respond")
          <3>1. SendResponse
              BY <1>1, <2>4, PerformCase, SingleSteps
          <3>2. /\ Call("lost", "return", Null, Null) \in Calls
                /\ Call("lost", "return", Null, Null).then = "return"
              BY CallType, BoundsAssumption DEF Call, Null
          <3>3. calls' = calls \/ calls' = <<Call("lost", "return", Null, Null)>>
              BY <1>1, <3>1 DEF SendResponse
          <3>4. UNCHANGED <<transport, handshake, canInteract>>
              BY <3>1 DEF SendResponse
          <3> QED
              BY <1>1, <2>4, <3>2, <3>3, <3>4, RestsDiffer DEF OtherRests
      <2> QED
          BY <2>1, <2>2, <2>3, <2>4
  <1>5. /\ todo \notin ConnectRests /\ todo' \notin ConnectRests \union AskingRests
        /\ todo' # Setting
      BY <1>2, RestsDiffer DEF OtherRests, ConnectRests
  <1>6. NoneBetween'
      BY <1>2, <1>4, <1>5 DEF NoneBetween, ConnectRests
  <1>7. UnusedAtFirst'
      BY <1>4, <1>5 DEF CallsKept, UnusedAtFirst, ConnectRests
  <1> QED
      BY <1>1, <1>3, <1>4, <1>5, <1>6, <1>7 DEF CallsKept, OneCall, AnswerAwaited, ButtonsFollow
LEMMA RunCalls ==
    ASSUME TypeOK, CallsKept, RunHandler
    PROVE  CallsKept'
  <1>1. todo # <<>>
      BY DEF RunHandler
  <1> QED
      BY <1>1, TodoCases, ConnectCalls, AskingCalls, EndCalls DEF ConnectRests

\* Steps that leave the handlers and what they see.
LEMMA CallsSame ==
    ASSUME CallsKept, UNCHANGED <<todo, ui, frameId, transport, handshake, canInteract, calls>>,
           \/ UNCHANGED <<server, toServer>> \/ (server' # "ready" /\ toServer' = <<>>)
           \/ (todo \in {Installed, Starting} => transport = Null),
           stops' \in Nat, frameOf' \in [1..MaxSeq -> Nat \X Nat]
    PROVE  CallsKept'
  <1>1. FrameTypes' /\ OneCall' /\ NoneBetween'
      BY DEF CallsKept, FrameTypes, OneCall, NoneBetween
  <1>2. UnusedAtFirst'
      BY DEF CallsKept, UnusedAtFirst
  <1> QED
      BY <1>1, <1>2 DEF CallsKept, AnswerAwaited, ButtonsFollow

\* The buttons.
LEMMA ButtonCalls ==
    ASSUME TypeOK, CallsKept, UpdateUI \/ (\E a \in BOOLEAN : OnConnect(a)) \/ (\E c \in Commands : OnButton(c))
    PROVE  CallsKept'
  <1>1. /\ calls = <<>> /\ todo = <<>> /\ UNCHANGED vars /\ UNCHANGED <<frameId, stops, frameOf>>
        /\ UNCHANGED <<transport, handshake, canInteract, calls, server, toServer>>
      BY DEF UpdateUI, OnConnect, OnButton, InEventLoop, vars, sessionVars, serverVars
  <1>2. todo \in OtherRests /\ todo \notin ConnectRests \union AskingRests \union {Ending, Ended}
      BY <1>1, RestsDiffer DEF OtherRests
  <1>3. ~(transport # Null /\ handshake = "notPerformed")
      BY <1>2 DEF CallsKept, UnusedAtFirst, ConnectRests
  <1>4. CASE UpdateUI
      <2>1. todo' = todo /\ ui' = [connected |-> IsConnected, interact |-> IsConnected /\ canInteract]
          BY <1>4 DEF UpdateUI
      <2>2. IsConnected \in BOOLEAN /\ canInteract \in BOOLEAN
          BY DEF IsConnected, TypeOK, FlagTypes
      <2>3. ui' \in [connected : BOOLEAN, interact : BOOLEAN]
          BY <2>1, <2>2
      <2>4. ui'.interact => ui'.connected /\ canInteract
          BY <2>1, <2>2
      <2>5. FrameTypes' /\ OneCall' /\ NoneBetween' /\ UnusedAtFirst' /\ AnswerAwaited'
          BY <1>1, <2>1, <2>3 DEF CallsKept, FrameTypes, OneCall, NoneBetween, UnusedAtFirst, AnswerAwaited
      <2> QED
          BY <1>1, <1>2, <2>1, <2>4, <2>5 DEF CallsKept, ButtonsFollow
  <1>5. CASE \E a \in BOOLEAN : OnConnect(a)
      <2>1. todo' = Connecting /\ ui' = ui /\ ~ui.connected
          BY <1>5 DEF OnConnect, Connecting
      <2> QED
          BY <1>1, <1>3, <2>1, RestsDiffer
          DEF CallsKept, FrameTypes, OneCall, NoneBetween, UnusedAtFirst, AnswerAwaited, ButtonsFollow,
              ConnectRests
  <1>6. ASSUME NEW c \in Commands, OnButton(c) PROVE CallsKept'
      <2>1. todo' = Single(c) /\ ui' = ui /\ c \in Buttons
          BY <1>6 DEF OnButton, Single
      <2>2. todo' \in AskingRests
          BY <2>1, CommandsAssumption DEF AskingRests
      <2>3. todo' \notin ConnectRests \union {Ending, Ended}
          BY <2>2, RestsDiffer
      <2>4. c = "pause" \/ ui.interact
          BY <2>1 DEF Buttons
      <2>5. c # "pause" => transport = Null \/ handshake = "completed"
          BY <2>4 DEF CallsKept, ButtonsFollow
      <2>6. AnswerAwaited'
          BY <1>1, <2>1, <2>5 DEF AnswerAwaited
      <2>7. UnusedAtFirst' /\ NoneBetween'
          BY <1>1, <1>3, <2>3 DEF UnusedAtFirst, NoneBetween, ConnectRests
      <2> QED
          BY <1>1, <2>1, <2>2, <2>3, <2>6, <2>7 DEF CallsKept, FrameTypes, OneCall, ButtonsFollow
  <1> QED
      BY <1>4, <1>5, <1>6
\* The message of a handler is the first of those that are to be handled.
LEMMA HandledFirst ==
    ASSUME TypeOK, OnDataRead \/ ProcessBuffer
    PROVE  Handled = Head(Incoming) /\ calls = <<>>
  BY IncomingRead, IncomingProcessed DEF Handled, OnDataRead, ProcessBuffer, InEventLoop

\* The application is told only after the answer to initialize, and then of every
\* stop and of every answer to stackTrace.
LEMMA ToldWhenOpen ==
    ASSUME NEW m \in Messages, OnMessage(m)
    PROVE  /\ event' # NoEvent => handshake' = "completed"
           /\ (handshake = "completed" /\ (m.type = "event" \/ m.cmd = "stackTrace")) => event' # NoEvent
           /\ (handshake # "completed" /\ event' # NoEvent) => m.cmd = "initialize"
  <1>1. CASE OnHandshakeMessage(m)
      BY <1>1 DEF OnHandshakeMessage
  <1>2. CASE OnEvent(m)
      BY <1>2 DEF OnEvent, Told, NoEvent
  <1>3. CASE OnReverseRequest(m)
      BY <1>3 DEF OnReverseRequest, Told, NoEvent
  <1>4. CASE OnQueuedResponse(m)
      BY <1>4 DEF OnQueuedResponse, Told, NoEvent
  <1>5. CASE OnCallbackResponse(m) \/ OnStepResponse(m) \/ OnIgnoredResponse(m) \/ OnPlainResponse(m)
      BY <1>5 DEF OnCallbackResponse, OnStepResponse, OnIgnoredResponse, OnPlainResponse,
         CallbackCommands, StepCommands, IgnoredCommands, PlainCommands
  <1>6. CASE OnLocationsResponse(m)
      BY <1>6 DEF OnLocationsResponse
  <1> QED
      BY <1>1, <1>2, <1>3, <1>4, <1>5, <1>6 DEF OnMessage

\* The handlers an event starts.
LEMMA HandleRests ==
    ASSUME NEW m, Handle(m)
    PROVE  /\ todo' \in AskingRests \union OtherRests \union {Ending}
           /\ m.cmd = "stopped" => todo' = Single("stackTrace")
           /\ todo' = Ending => m.cmd = "terminated"
  <1> DEFINE requests == {"attach", "launch", "stackTrace", "scopes", "variables"}
  <1>1. \A c \in requests : Single(c) \in AskingRests
      BY DEF AskingRests, AllCommands, QueueCommands, QueueEventCommands, CallbackCommands,
         PlainCommands, StepCommands, IgnoredCommands
  <1>0. \A n \in 0..MaxScopes : AfterScopes(n) \in ScopesRests \union {<<>>}
      <2> TAKE n \in 0..MaxScopes
      <2>1. n \in Nat
          BY ScopesAssumption
      <2>2. AfterScopes(n) \in Seq({"variables"})
          BY <2>1, IsASeq DEF AfterScopes
      <2> QED
          BY <2>2 DEF ScopesRests
  <1>2. \/ todo' \in {Single(c) : c \in requests} \union {Configuring, Loading} \union ScopesRests
        \/ todo' \in OtherRests
        \/ todo' = Ending /\ m.cmd = "terminated"
      <2>1. CASE m.cmd = "scopes" /\ todo' \in {AfterScopes(n) : n \in 0..MaxScopes}
          BY <1>0, <2>1 DEF OtherRests
      <2>2. CASE ~(m.cmd = "scopes" /\ todo' \in {AfterScopes(n) : n \in 0..MaxScopes})
          BY <2>2 DEF Handle, AfterInitialize, AfterStackTrace, Single, Configuring, Loading,
             OtherRests, Ending
      <2> QED
          BY <2>1, <2>2
  <1>3. m.cmd = "stopped" => todo' = Single("stackTrace")
      BY DEF Handle, Single, Answered
  <1>4. todo' \in AskingRests \union OtherRests \union {Ending}
      BY <1>1, <1>2 DEF AskingRests
  <1> QED
      BY <1>1, <1>2, <1>3, <1>4, RestsDiffer DEF AskingRests

\* The events.
LEMMA DapCalls ==
    ASSUME TypeOK, EmptyPosts, CallsKept, OnDapEvent
    PROVE  CallsKept'
  <1> DEFINE m == Head(Incoming)
  <1>1. /\ todo = <<>> /\ (OnDataRead \/ ProcessBuffer) /\ UNCHANGED <<ui, stops, frameOf>>
        /\ event' = NoEvent => UNCHANGED <<todo, frameId>>
        /\ event' # NoEvent => Handle(Handled) /\ frameId' = FrameAfter(Handled)
      BY DEF OnDapEvent
  <1>2. Handled = m /\ calls = <<>> /\ m \in Messages /\ OnMessage(m)
      BY <1>1, HandledFirst, MessageIsFirst
  <1>3. /\ UNCHANGED <<transport, calls>>
        /\ handshake' = handshake \/ handshake' = "completed"
        /\ event' # NoEvent => handshake' = "completed"
        /\ handshake = "completed" => handshake' = "completed"
      BY <1>2, OnMessageHandshake, ToldWhenOpen
  <1>4. todo \in OtherRests /\ todo \notin ConnectRests \union AskingRests \union {Ending, Ended}
      BY <1>1, RestsDiffer DEF OtherRests
  <1>5. /\ todo' \in AskingRests \union OtherRests \union {Ending}
        /\ todo' \in AskingRests \union {Ending} => handshake' = "completed"
      <2>1. CASE event' = NoEvent
          BY <1>1, <1>4, <2>1
      <2>2. CASE event' # NoEvent
          BY <1>1, <1>2, <1>3, <2>2, HandleRests
      <2> QED
          BY <2>1, <2>2
  <1>6. todo' \notin ConnectRests /\ todo' # Ended
      BY <1>5, RestsDiffer DEF ConnectRests
  <1>7. frameId' \in Nat \X Nat
      <2>1. m.cmd = "stackTrace" => m.seq \in 1..MaxSeq
          BY <1>2, BoundsAssumption DEF Messages, RequestNames, AllCommands, QueueCommands, QueueEventCommands
      <2> QED
          BY <1>1, <1>2, <2>1 DEF FrameAfter, CallsKept, FrameTypes
  <1>8. FrameTypes'
      BY <1>1, <1>5, <1>7 DEF CallsKept, FrameTypes
  <1>9. OneCall' /\ NoneBetween' /\ AnswerAwaited'
      BY <1>2, <1>3, <1>5, <1>6, RestsDiffer DEF OneCall, NoneBetween, AnswerAwaited, ConnectRests
  <1>10. UnusedAtFirst'
      BY <1>3, <1>4, <1>6 DEF CallsKept, UnusedAtFirst, ConnectRests
  <1>11. canInteract' => handshake' = "completed"
      BY <1>2, <1>3, MessageInteract DEF CallsKept, ButtonsFollow
  <1> QED
      BY <1>1, <1>3, <1>6, <1>8, <1>9, <1>10, <1>11 DEF CallsKept, ButtonsFollow
\* The calls that wait.
LEMMA WaitingCall ==
    ASSUME CallsKept, calls # <<>>
    PROVE  /\ Top \in Calls /\ Pop = <<>>
           /\ Top.then = "connect" => todo = Installed
  <1>1. PICK c \in Calls : calls = <<c>> /\ (c.then = "connect" => todo = Installed)
      BY DEF CallsKept, OneCall
  <1>2. Top = c /\ Pop = <<>>
      BY <1>1 DEF Top, Pop
  <1> QED
      BY <1>1, <1>2

LEMMA OtherCalls ==
    ASSUME TypeOK, CallsKept, OtherMainStep
    PROVE  CallsKept'
  <1>1. UNCHANGED <<todo, ui, frameId, stops, frameOf>>
      BY DEF OtherMainStep, frameVars
  <1>2. ASSUME UNCHANGED <<transport, handshake, canInteract, server, toServer>>,
               NEW c \in Calls, calls' = <<c>>, c.then = "connect" => todo = Installed,
               todo = Installed => transport = Null
        PROVE  CallsKept'
      <2>1. FrameTypes' /\ OneCall' /\ NoneBetween'
          BY <1>1, <1>2 DEF CallsKept, FrameTypes, OneCall, NoneBetween
      <2> QED
          BY <1>1, <1>2, <2>1 DEF CallsKept, UnusedAtFirst, AnswerAwaited, ButtonsFollow
  <1>3. CASE todo = <<>> /\ (OnConnectionError \/ OnPostedReset)
      <2>1. /\ calls = <<>>
            /\ calls' \in {<<Call("lost", "return", Null, Null)>>, <<Call("join", "return", Null, Null)>>}
          <3>1. calls = <<>>
              BY <1>3 DEF OnConnectionError, OnPostedReset, InEventLoop
          <3>2. CASE OnConnectionError
              BY <3>1, <3>2 DEF OnConnectionError
          <3>3. CASE OnPostedReset
              BY <3>1, <3>3 DEF OnPostedReset, BeginReset
          <3> QED
              BY <1>3, <3>1, <3>2, <3>3
      <2>2. \A op \in {"lost", "join"} : /\ Call(op, "return", Null, Null) \in Calls
                                        /\ Call(op, "return", Null, Null).then = "return"
          BY CallType, BoundsAssumption DEF Call, Null
      <2>3. UNCHANGED <<transport, handshake, canInteract, server, toServer>>
          BY <1>3 DEF OnConnectionError, OnPostedReset, BeginReset, sessionVars, serverVars
      <2>4. todo # Installed
          BY <1>3, ConnectSteps
      <2> QED
          BY <1>2, <2>1, <2>2, <2>3, <2>4
  <1>4. CASE LostReturns
      <2>1. calls # <<>> /\ calls' = Append(Pop, Call("join", Top.then, Top.seq, Top.arg))
          BY <1>4 DEF LostReturns, BeginReset
      <2>2. Top \in Calls /\ Pop = <<>> /\ (Top.then = "connect" => todo = Installed)
          BY <2>1, WaitingCall
      <2>3. /\ Call("join", Top.then, Top.seq, Top.arg) \in Calls
            /\ Call("join", Top.then, Top.seq, Top.arg).then = Top.then
          BY <2>2 DEF Calls, Call
      <2>4. calls' = <<Call("join", Top.then, Top.seq, Top.arg)>>
          BY <2>1, <2>2
      <2>5. UNCHANGED <<transport, handshake, canInteract, server, toServer>>
          BY <1>4 DEF LostReturns, BeginReset, sessionVars, serverVars
      <2>6. todo = Installed => transport = Null
          BY <2>1 DEF CallsKept, NoneBetween
      <2> QED
          BY <1>2, <2>2, <2>3, <2>4, <2>5, <2>6
  <1>5. CASE JoinReturns
      <2>1. calls # <<>> /\ calls' = Pop /\ canInteract' = FALSE /\ toServer' = <<>>
          BY <1>5 DEF JoinReturns, ClearSession
      <2>2. calls' = <<>> /\ (Top.then = "connect" => todo = Installed)
          BY <2>1, WaitingCall
      <2>3. CASE Top.then = "connect"
          <3>1. handshake' = "notPerformed" /\ server' = "fresh"
              BY <1>5, <2>3 DEF JoinReturns, ClearSession, HandshakeAfter
          <3>2. todo \in ConnectRests /\ todo \notin AskingRests \union {Setting, Ended}
              BY <2>2, <2>3, RestsDiffer DEF ConnectRests
          <3>3. UnusedAtFirst' /\ NoneBetween' /\ AnswerAwaited'
              BY <1>1, <2>1, <2>2, <2>3, <3>1, <3>2 DEF UnusedAtFirst, NoneBetween, AnswerAwaited
          <3>4. ~ui.connected /\ ~ui.interact
              BY <3>2 DEF CallsKept, ButtonsFollow
          <3> QED
              BY <1>1, <2>1, <2>2, <3>3, <3>4 DEF CallsKept, FrameTypes, OneCall, ButtonsFollow
      <2>4. CASE Top.then # "connect"
          <3>1. transport' = Null
              BY <1>5, <2>4 DEF JoinReturns
          <3>2. ButtonsFollow'
              BY <1>1, <2>1, <3>1 DEF CallsKept, ButtonsFollow
          <3> QED
              BY <1>1, <2>2, <3>1, <3>2
              DEF CallsKept, FrameTypes, OneCall, NoneBetween, UnusedAtFirst, AnswerAwaited
      <2> QED
          BY <2>3, <2>4
  <1> QED
      BY <1>3, <1>4, <1>5 DEF OtherMainStep

\* The server and the reader thread.
LEMMA TopFrameType ==
    ASSUME TypeOK, stops \in Nat
    PROVE  TopFrame \in Nat \X Nat
  BY NoFrameType, BoundsAssumption DEF TopFrame, TypeOK, ThreadTypes

LEMMA OutsideCalls ==
    ASSUME TypeOK, CallsKept, Answer \/ SendEvent \/ ReaderOrClose
    PROVE  CallsKept'
  <1>1. UNCHANGED <<todo, ui, frameId>>
      BY DEF Answer, SendEvent, ReaderOrClose, frameVars
  <1>2. CASE Answer
      <2>1. PICK i \in 1..Len(toServer), ok \in BOOLEAN :
               /\ ServerAnswers(i, ok) /\ stops' = stops
               /\ \/ frameOf' = frameOf
                  \/ frameOf' = [frameOf EXCEPT ![toServer[i].seq] = TopFrame]
                  \/ frameOf' = [frameOf EXCEPT ![toServer[i].seq] = NoFrame]
          BY <1>2 DEF Answer
      <2>2. UNCHANGED <<transport, handshake, canInteract, calls>>
          BY <2>1 DEF ServerAnswers, sessionVars
      <2>3. todo \in {Installed, Starting} => transport = Null
          <3>1. toServer # <<>>
              BY <2>1 DEF ServerAnswers
          <3> QED
              BY <3>1 DEF CallsKept, UnusedAtFirst
      <2>4. stops' \in Nat /\ frameOf' \in [1..MaxSeq -> Nat \X Nat]
          <3>1. stops \in Nat /\ frameOf \in [1..MaxSeq -> Nat \X Nat]
              BY DEF CallsKept, FrameTypes
          <3> QED
              BY <2>1, <3>1, NoFrameType, TopFrameType
      <2> QED
          BY <1>1, <2>2, <2>3, <2>4, CallsSame
  <1>3. CASE SendEvent
      <2>1. PICK e \in ServerEvents, thread \in Args :
               /\ ServerSends(e, thread) /\ frameOf' = frameOf
               /\ stops' = IF e = "stopped" THEN stops + 1 ELSE stops
          BY <1>3 DEF SendEvent
      <2>2. UNCHANGED <<transport, handshake, canInteract, calls, server, toServer>>
          BY <2>1 DEF ServerSends, sessionVars
      <2>3. stops' \in Nat /\ frameOf' \in [1..MaxSeq -> Nat \X Nat]
          BY <2>1 DEF CallsKept, FrameTypes
      <2> QED
          BY <1>1, <2>2, <2>3, CallsSame
  <1>4. CASE ReaderOrClose
      <2>1. (ReaderStep \/ ServerCloses) /\ UNCHANGED <<stops, frameOf>>
          BY <1>4 DEF ReaderOrClose
      <2>2. UNCHANGED <<transport, handshake, canInteract, calls>>
          BY <2>1 DEF ReaderStep, ReaderCheck, ReaderTimeout, ReaderData, ReaderFails,
             ReaderPostsError, ServerCloses, sessionVars
      <2>3. UNCHANGED <<server, toServer>> \/ (server' # "ready" /\ toServer' = <<>>)
          BY <2>1 DEF ReaderStep, ReaderCheck, ReaderTimeout, ReaderData, ReaderFails,
             ReaderPostsError, ServerCloses, serverVars
      <2>4. stops' \in Nat /\ frameOf' \in [1..MaxSeq -> Nat \X Nat]
          BY <2>1 DEF CallsKept, FrameTypes
      <2> QED
          BY <1>1, <2>2, <2>3, <2>4, CallsSame
  <1> QED
      BY <1>2, <1>3, <1>4

LEMMA InitCalls == FrameInit => CallsKept
  <1> SUFFICES ASSUME FrameInit PROVE CallsKept
      OBVIOUS
  <1>1. /\ todo = <<>> /\ ui = [connected |-> FALSE, interact |-> FALSE] /\ frameId = NoFrame
        /\ stops = 0 /\ frameOf = [s \in 1..MaxSeq |-> NoFrame]
        /\ calls = <<>> /\ transport = Null /\ canInteract = FALSE
      BY DEF FrameInit, Init
  <1>2. todo \in OtherRests /\ todo \notin ConnectRests \union AskingRests
      BY <1>1, RestsDiffer DEF OtherRests
  <1>3. FrameTypes
      BY <1>1, <1>2, NoFrameType DEF FrameTypes
  <1> QED
      BY <1>1, <1>2, <1>3 DEF CallsKept, OneCall, NoneBetween, UnusedAtFirst, AnswerAwaited, ButtonsFollow

LEMMA NextCalls == TypeOK /\ EmptyPosts /\ CallsKept /\ [FrameNext]_allVars => CallsKept'
  <1> SUFFICES ASSUME TypeOK, EmptyPosts, CallsKept, [FrameNext]_allVars PROVE CallsKept'
      OBVIOUS
  <1>1. CASE UNCHANGED allVars
      <2>1. /\ UNCHANGED <<todo, ui, frameId, transport, handshake, canInteract, calls, server, toServer>>
            /\ UNCHANGED <<stops, frameOf>>
          BY <1>1 DEF allVars, frameVars, vars, sessionVars, serverVars
      <2>2. stops' \in Nat /\ frameOf' \in [1..MaxSeq -> Nat \X Nat]
          BY <2>1 DEF CallsKept, FrameTypes
      <2> QED
          BY <2>1, <2>2, CallsSame
  <1> QED
      BY <1>1, RunCalls, ButtonCalls, DapCalls, OtherCalls, OutsideCalls DEF FrameNext

\* The program sends initialize first and all else but pause after its answer, for
\* every number of sessions, requests, scopes and events and however late the buttons
\* are updated (InitializeClient, OnNextUI, ..., OnEvalUI).
THEOREM CallsInOrder == FrameSpec => []InitializeComesFirst
  <1>1. FrameInit => ClientKept /\ CallsKept
      BY InitClient, InitCalls
  <1>2. ClientKept /\ CallsKept /\ [FrameNext]_allVars => (ClientKept /\ CallsKept)'
      BY NextClient, NextCalls DEF ClientKept, RequestsKept
  <1>3. ClientKept /\ CallsKept => InitializeComesFirst
      <2> SUFFICES ASSUME TypeOK, CallsKept, todo # <<>>, Head(todo) \in AllCommands
                   PROVE  /\ transport # Null => handshake # "notPerformed"
                          /\ Head(todo) # "pause" => Allowed
          BY DEF InitializeComesFirst, ClientKept
      <2>1. todo \in AskingRests /\ todo \notin ConnectRests
          BY TodoCases, ConnectSteps, EndSteps, SingleSteps, CommandNames, RestsDiffer
      <2>2. ~(transport # Null /\ handshake = "notPerformed")
          BY <2>1 DEF CallsKept, UnusedAtFirst, ConnectRests
      <2>3. Head(todo) # "pause" => Allowed
          BY <2>1, SingleSteps DEF CallsKept, AnswerAwaited, Allowed
      <2> QED
          BY <2>2, <2>3
  <1> QED
      BY <1>1, <1>2, <1>3, PTL DEF FrameSpec
----------------------------------------------------------------------------
(* Steps that handle no message and give none to the client.               *)

Calm ==
    /\ Incoming' = Incoming
    /\ UNCHANGED <<transport, handshakeBy, stops, frameOf, debuggee>>
    /\ (handshake' = "completed") = (handshake = "completed")
    /\ server' = "ready" => server = "ready"
    /\ frameId' = frameId \/ frameId' = NoFrame
    /\ todo' \notin Forgetting => frameId' = NoFrame \/ todo \notin Forgetting
    /\ (transport # Null /\ server' = "ready") =>
          /\ frameId' = frameId
          /\ \A i \in DOMAIN toServer : i \in DOMAIN toServer' /\ toServer'[i] = toServer[i]
          /\ todo = Single("stackTrace") =>
                todo' = todo \/ \E i \in DOMAIN toServer' : toServer'[i].cmd = "stackTrace"

\* No other handler forgets the frame.
LEMMA Forgets ==
    ASSUME CallsKept
    PROVE  /\ todo \in Forgetting <=> todo \in {Connecting, Setting, Installed, Ending, Ended}
           /\ todo \in AskingRests \union OtherRests => todo \notin Forgetting
           /\ todo = Starting => todo \notin Forgetting
  BY RestsDiffer DEF Forgetting, ConnectRests

\* The steps around the handlers.
LEMMA QuietCalm ==
    ASSUME TypeOK, EmptyPosts, Quiet, UNCHANGED <<frameId, stops, frameOf>>,
           todo' = todo \/ (todo = <<>> /\ todo' # <<>>)
    PROVE  Calm
  <1>1. /\ Incoming' = Incoming
        /\ UNCHANGED <<transport, handshake, handshakeBy, debuggee>>
        /\ UNCHANGED <<toServer, server>> \/ (toServer' = <<>> /\ server' = "closed")
      BY QuietStep
  <1>2. todo' \notin Forgetting => todo \notin Forgetting
      BY ConnectSteps, EndSteps DEF Forgetting
  <1>3. todo = Single("stackTrace") => todo' = todo
      BY SingleSteps
  <1> QED
      BY <1>1, <1>2, <1>3 DEF Calm

\* The steps of a handler.
LEMMA RunCalm ==
    ASSUME TypeOK, EmptyPosts, CallsKept, RunHandler
    PROVE  Calm
  <1> DEFINE call == Head(todo)
  <1>1. /\ todo # <<>> /\ calls = <<>> /\ todo' = Tail(todo) /\ UNCHANGED <<stops, frameOf>>
        /\ call = "forgetFrame" => frameId' = NoFrame /\ UNCHANGED vars
        /\ call # "forgetFrame" => Perform(call) /\ UNCHANGED frameId
      BY DEF RunHandler
  <1>2. CASE todo \in {Installed, Ended}
      <2>1. call = "forgetFrame"
          BY <1>2, ConnectSteps, EndSteps
      <2>2. ~(transport # Null /\ server = "ready")
          BY <1>1, <1>2 DEF CallsKept, NoneBetween, UnusedAtFirst
      <2>3. UNCHANGED <<transport, handshake, handshakeBy, debuggee, server, rpc, pending, toClient>>
          BY <1>1, <2>1 DEF vars, sessionVars, serverVars
      <2> QED
          BY <1>1, <2>1, <2>2, <2>3, IncomingKept DEF Calm
  <1>3. CASE todo \in {Connecting, Setting, Ending, Single("postReset"), Single("respond")}
      <2>1. Quiet /\ UNCHANGED frameId
          BY <1>1, <1>3, PerformCase, ConnectSteps, EndSteps, SingleSteps DEF Quiet
      <2>2. todo' \notin Forgetting => todo \notin Forgetting
          <3>1. CASE todo \in {Connecting, Setting, Ending}
              BY <1>1, <3>1, ConnectSteps, EndSteps DEF Forgetting
          <3>2. CASE todo \in {Single("postReset"), Single("respond")}
              BY <3>2, Forgets DEF OtherRests
          <3> QED
              BY <1>3, <3>1, <3>2
      <2>3. todo # Single("stackTrace")
          BY <1>3, ConnectSteps, EndSteps, SingleSteps
      <2>4. /\ Incoming' = Incoming
            /\ UNCHANGED <<transport, handshake, handshakeBy, debuggee>>
            /\ UNCHANGED <<toServer, server>> \/ (toServer' = <<>> /\ server' = "closed")
          BY <2>1, QuietStep
      <2> QED
          BY <1>1, <2>1, <2>2, <2>3, <2>4 DEF Calm
  <1>4. CASE todo = Starting
      <2>1. Initialize /\ UNCHANGED frameId
          BY <1>1, <1>4, PerformCase, ConnectSteps
      <2>2. UNCHANGED <<transport, handshakeBy, debuggee, server, rpc, pending, toClient>>
          BY <2>1 DEF Initialize, SendRequest, serverVars
      <2>3. (handshake' = "completed") = (handshake = "completed")
          BY <2>1 DEF Initialize, SendRequest, HandshakeAfter
      <2>4. ~(transport # Null /\ server = "ready")
          BY <1>4 DEF CallsKept, UnusedAtFirst
      <2> QED
          BY <1>1, <1>4, <2>1, <2>2, <2>3, <2>4, Forgets, IncomingKept DEF Calm
  <1>5. CASE todo \in AskingRests
      <2>1. call \in AllCommands /\ call # "forgetFrame" /\ (todo = Single("stackTrace") => call = "stackTrace")
          BY <1>5, AskingSteps, CommandNames
      <2>2. Asks(call) /\ UNCHANGED frameId
          BY <1>1, <2>1, PerformCase
      <2>3. /\ UNCHANGED <<transport, handshake, handshakeBy, server, debuggee, rpc, pending, toClient>>
            /\ (transport # Null /\ server = "ready") => \E n \in Nat, a \in Int :
                       toServer' = Append(toServer, [cmd |-> call, seq |-> n, arg |-> a])
          BY <1>1, <2>2, AskingEffect
      <2>4. ASSUME transport # Null, server = "ready"
            PROVE  /\ \A i \in DOMAIN toServer : i \in DOMAIN toServer' /\ toServer'[i] = toServer[i]
                   /\ \E i \in DOMAIN toServer' : toServer'[i].cmd = call
          <3>1. PICK n \in Nat, a \in Int :
                       toServer' = Append(toServer, [cmd |-> call, seq |-> n, arg |-> a])
              BY <2>3, <2>4
          <3>2. toServer \in Seq(SentRequests)
              BY NumbersType
          <3>3. Longer(toServer', toServer, [cmd |-> call, seq |-> n, arg |-> a])
              BY <3>1, <3>2, AppendLonger
          <3> QED
              BY <3>3 DEF Longer
      <2>5. Incoming' = Incoming
          BY <2>3, IncomingKept
      <2>6. todo \notin Forgetting
          BY <1>5, Forgets
      <2>7. (transport # Null /\ server' = "ready") =>
               /\ \A i \in DOMAIN toServer : i \in DOMAIN toServer' /\ toServer'[i] = toServer[i]
               /\ todo = Single("stackTrace") => \E i \in DOMAIN toServer' : toServer'[i].cmd = "stackTrace"
          BY <2>1, <2>3, <2>4
      <2> QED
          BY <1>1, <2>2, <2>3, <2>5, <2>6, <2>7 DEF Calm
  <1> QED
      BY <1>1, <1>2, <1>3, <1>4, <1>5, TodoCases

\* All of them.
CalmSteps ==
    \/ RunHandler \/ UpdateUI \/ ReaderOrClose
    \/ (\E a \in BOOLEAN : OnConnect(a)) \/ (\E c \in Commands : OnButton(c))
    \/ OtherMainStep /\ ~JoinReturns
    \/ UNCHANGED allVars

LEMMA AllCalm ==
    ASSUME TypeOK, EmptyPosts, CallsKept, CalmSteps
    PROVE  Calm
  <1>1. CASE RunHandler
      BY <1>1, RunCalm
  <1>2. CASE UpdateUI \/ UNCHANGED allVars
      <2>1. UNCHANGED vars /\ UNCHANGED <<todo, frameId, stops, frameOf>>
          BY <1>2 DEF UpdateUI, allVars, frameVars
      <2> QED
          BY <2>1, QuietCalm DEF Quiet
  <1>3. CASE \E a \in BOOLEAN : OnConnect(a)
      <2>1. UNCHANGED vars /\ UNCHANGED <<frameId, stops, frameOf>> /\ todo = <<>> /\ todo' = Connecting
          BY <1>3 DEF OnConnect, Connecting
      <2> QED
          BY <2>1, QuietCalm, ConnectSteps DEF Quiet
  <1>4. CASE \E c \in Commands : OnButton(c)
      <2>1. UNCHANGED vars /\ UNCHANGED <<frameId, stops, frameOf>> /\ todo = <<>> /\ todo' # <<>>
          BY <1>4, SingleSteps DEF OnButton, Single
      <2> QED
          BY <2>1, QuietCalm DEF Quiet
  <1>5. CASE ReaderOrClose \/ (OtherMainStep /\ ~JoinReturns)
      <2>1. ReaderStep \/ ServerCloses \/ OnConnectionError \/ OnPostedReset \/ LostReturns
          BY <1>5 DEF ReaderOrClose, OtherMainStep
      <2>2. UNCHANGED <<todo, frameId, stops, frameOf>>
          BY <1>5 DEF ReaderOrClose, OtherMainStep, frameVars
      <2>3. Quiet
          BY <2>1 DEF Quiet
      <2> QED
          BY <2>2, <2>3, QuietCalm
  <1> QED
      BY <1>1, <1>2, <1>3, <1>4, <1>5 DEF CalmSteps
----------------------------------------------------------------------------
(* The frame is one of the session.                                        *)

LEMMA CalmClean ==
    ASSUME Calm
    PROVE  Clean' = Clean
  BY DEF Calm, Clean

LEMMA CalmFrames ==
    ASSUME FramesKept, Calm
    PROVE  FramesKept'
  <1>1. TracesOwn'
      BY DEF FramesKept, TracesOwn, Calm, IsTrace, Own, Given
  <1>2. FrameKept'
      <2> SUFFICES ASSUME Clean, todo' \notin Forgetting, frameId' # NoFrame
                   PROVE  handshake' = "completed" /\ frameId'[1] = transport'
          BY CalmClean DEF FrameKept
      <2>1. todo \notin Forgetting /\ frameId' = frameId
          BY DEF Calm
      <2>2. handshake = "completed" /\ frameId[1] = transport
          BY <2>1 DEF FramesKept, FrameKept
      <2> QED
          BY <2>1, <2>2 DEF Calm
  <1> QED
      BY <1>1, <1>2 DEF FramesKept

\* A session ends or starts.
LEMMA JoinFrames ==
    ASSUME ClientKept, CallsKept, JoinReturns, UNCHANGED todo
    PROVE  FramesKept' /\ (Clean' => server' = "fresh" /\ debuggee' = "running" /\ todo = Installed)
  <1>1. CASE Top.then = "connect"
      <2>1. calls # <<>> /\ server' = "fresh" /\ debuggee' = "running"
          BY <1>1 DEF JoinReturns
      <2>2. todo' = Installed /\ todo' \in Forgetting
          BY <1>1, <2>1, WaitingCall DEF Forgetting
      <2>3. \A j \in DOMAIN Incoming' : Incoming'[j].sess # transport'
          BY <1>1, JoinIncoming DEF ClientKept
      <2>4. TracesOwn'
          BY <2>3 DEF TracesOwn, IsTrace, Own
      <2> QED
          BY <2>1, <2>2, <2>4 DEF FramesKept, FrameKept
  <1>2. CASE Top.then # "connect"
      <2>1. transport' = Null
          BY <1>2 DEF JoinReturns
      <2> QED
          BY <2>1 DEF FramesKept, FrameKept, TracesOwn, Clean
  <1> QED
      BY <1>1, <1>2

\* A message of the session is handled, or one of an earlier session.
LEMMA HandledOwn ==
    ASSUME ClientKept, OnDataRead \/ ProcessBuffer, Clean'
    PROVE  LET m == Head(Incoming)
           IN  /\ Clean /\ UNCHANGED <<transport, server, debuggee, toServer>>
               /\ m \in Messages /\ OnMessage(m)
               /\ handshake = "completed" => m.sess = transport /\ handshake' = "completed"
               /\ handshake # "completed" => m.sess # transport \/ IsInitialize(m, transport)
  <1> DEFINE m == Head(Incoming)
  <1>1. TypeOK /\ SessionsInOrder /\ EmptyPosts /\ InitializeFirst
      BY DEF ClientKept, RequestsKept, InteractKept
  <1>2. /\ m \in Messages /\ OnMessage(m) /\ Incoming # <<>> /\ Incoming \in Seq(Messages)
        /\ 1 \in DOMAIN Incoming /\ m = Incoming[1]
      BY <1>1, MessageIsFirst, NumbersType DEF HandlesFirst
  <1>3. UNCHANGED <<transport, server, debuggee, toServer>>
      BY <1>2, OnMessageRequests DEF OnMessage, serverVars
  <1>4. \/ handshake # "completed" /\ handshake' = "completed" /\ handshakeBy' = m.sess
        \/ UNCHANGED <<handshake, handshakeBy>>
      BY <1>2, OnMessageHandshake
  <1>5. Clean
      BY <1>3, <1>4 DEF Clean
  <1>6. ASSUME handshake = "completed" PROVE m.sess = transport /\ handshake' = "completed"
      BY <1>1, <1>2, <1>4, <1>5, <1>6, FreshIncoming DEF Clean, Fresh
  <1>7. ASSUME handshake # "completed" PROVE m.sess # transport \/ IsInitialize(m, transport)
      <2>1. OpenedFirst(Incoming, transport)
          BY <1>1, <1>5, <1>7 DEF InitializeFirst, Clean
      <2> QED
          BY <1>2, <2>1, OpenedTail
  <1> QED
      BY <1>2, <1>3, <1>5, <1>6, <1>7

LEMMA HandledFrames ==
    ASSUME ClientKept, CallsKept, FramesKept, OnDapEvent
    PROVE  FramesKept'
  <1> DEFINE m == Head(Incoming)
  <1>1. /\ todo = <<>> /\ (OnDataRead \/ ProcessBuffer) /\ UNCHANGED frameOf
        /\ event' = NoEvent => UNCHANGED <<todo, frameId>>
        /\ event' # NoEvent => frameId' = FrameAfter(Handled)
      BY DEF OnDapEvent
  <1>2. /\ Handled = m /\ Incoming # <<>> /\ Incoming' = Tail(Incoming) /\ Incoming \in Seq(Messages)
        /\ m \in Messages /\ OnMessage(m) /\ m = Incoming[1] /\ 1 \in DOMAIN Incoming
      BY <1>1, HandledFirst, MessageIsFirst, NumbersType DEF ClientKept, RequestsKept, HandlesFirst
  <1>3. transport' = transport
      BY <1>2, OnMessageRequests
  <1>4. \A j \in DOMAIN Incoming' : j + 1 \in DOMAIN Incoming /\ Incoming'[j] = Incoming[j + 1]
      BY <1>2, TailElements
  <1>5. TracesOwn'
      BY <1>1, <1>3, <1>4 DEF FramesKept, TracesOwn, IsTrace, Own, Given
  <1>6. FrameKept'
      <2> SUFFICES ASSUME Clean', frameId' # NoFrame
                   PROVE  handshake' = "completed" /\ frameId'[1] = transport
          BY <1>3 DEF FrameKept
      <2>1. /\ Clean
            /\ handshake = "completed" => m.sess = transport /\ handshake' = "completed"
          BY <1>1, HandledOwn
      <2>2. frameId = NoFrame \/ (handshake = "completed" /\ frameId[1] = transport)
          <3>1. todo \notin Forgetting
              BY <1>1, ConnectSteps, EndSteps DEF Forgetting
          <3> QED
              BY <2>1, <3>1 DEF FramesKept, FrameKept
      <2>3. CASE frameId' = frameId
          BY <2>1, <2>2, <2>3
      <2>4. CASE frameId' # frameId
          <3>1. event' # NoEvent /\ m.cmd = "stackTrace" /\ frameId' = frameOf[m.seq]
              BY <1>1, <1>2, <2>4 DEF FrameAfter
          <3>2. handshake = "completed"
              BY <1>2, <3>1, ToldWhenOpen
          <3>3. m.type = "response"
              BY <1>2, <3>1 DEF Messages, RequestNames, AllCommands, QueueCommands, QueueEventCommands
          <3>4. IsTrace(Incoming[1])
              BY <1>2, <2>1, <3>1, <3>2, <3>3 DEF IsTrace, Own
          <3>5. Given(Incoming[1])[1] = transport
              BY <1>2, <2>1, <3>1, <3>4 DEF FramesKept, TracesOwn, Given, Clean
          <3> QED
              BY <1>2, <2>1, <3>1, <3>2, <3>5 DEF Given
      <2> QED
          BY <2>3, <2>4
  <1> QED
      BY <1>5, <1>6 DEF FramesKept
\* Message m is added to those that are to be handled: an answer that takes request i
\* away, or an event.
Gives(m) ==
    /\ m \in Messages /\ m.sess = transport /\ Longer(Incoming', Incoming, m)
    /\ UNCHANGED <<transport, handshake, handshakeBy, frameId, todo>>

\* What is known of the answers does not change.
GivenStay ==
    transport # Null =>
        \A j \in DOMAIN Incoming : Own(Incoming[j]) => frameOf'[Incoming[j].seq] = frameOf[Incoming[j].seq]

AnswerGives(i, m) ==
    /\ Gives(m) /\ Answers(m, toServer[i]) /\ stops' = stops /\ GivenStay
    /\ m.cmd = "stackTrace" => frameOf'[m.seq] = IF m.ok THEN TopFrame ELSE NoFrame
    /\ \A s \in 1..MaxSeq : frameOf'[s] \in {frameOf[s], TopFrame, NoFrame}
    /\ Without(toServer', toServer, i)
    /\ m.ok \/ m.cmd \in RefusedCommands
    /\ server' = "ready" => server = "ready" \/ (server = "fresh" /\ m.cmd = "initialize")
    /\ debuggee' = IF m.cmd \in StepCommands /\ m.ok THEN "running" ELSE debuggee

LEMMA AnswerEffect ==
    ASSUME ClientKept, CallsKept, Answer
    PROVE  \E i \in DOMAIN toServer, m \in Messages : AnswerGives(i, m)
  <1>1. PICK i \in 1..Len(toServer), ok \in BOOLEAN :
           /\ ServerAnswers(i, ok) /\ UNCHANGED <<frameVars, stops>>
           /\ frameOf' = IF toServer[i].cmd = "stackTrace"
                         THEN [frameOf EXCEPT ![toServer[i].seq] = IF ok THEN TopFrame ELSE NoFrame]
                         ELSE frameOf
      BY DEF Answer
  <1> DEFINE r == toServer[i]
  <1>2. TypeOK /\ NumbersDiffer /\ NumbersTaken
      BY DEF ClientKept, RequestsKept
  <1>3. PICK m \in Messages : Answers(m, r) /\ m.ok = ok /\ Longer(Incoming', Incoming, m)
      BY <1>1, <1>2, AnswerGains
  <1>4. /\ r \in SentRequests /\ r.seq \in 1..MaxSeq /\ i \in DOMAIN toServer
        /\ Without(toServer', toServer, i)
      BY <1>1, <1>2, AnswerGains DEF SentRequests, ServerAnswers
  <1>5. Gives(m)
      BY <1>1, <1>3 DEF Gives, Answers, ServerAnswers, sessionVars, frameVars
  <1>6. m.cmd = r.cmd /\ m.seq = r.seq
      BY <1>3 DEF Answers
  <1>7. frameOf \in [1..MaxSeq -> Nat \X Nat]
      BY DEF CallsKept, FrameTypes
  <1>8. /\ m.cmd = "stackTrace" => frameOf'[m.seq] = IF m.ok THEN TopFrame ELSE NoFrame
        /\ \A s \in 1..MaxSeq : frameOf'[s] \in {frameOf[s], TopFrame, NoFrame}
      BY <1>1, <1>3, <1>4, <1>6, <1>7
  <1>9. GivenStay
      <2> SUFFICES ASSUME transport # Null, NEW j \in DOMAIN Incoming, Own(Incoming[j])
                   PROVE  frameOf'[Incoming[j].seq] = frameOf[Incoming[j].seq]
          BY DEF GivenStay
      <2>1. Incoming[j].seq # r.seq /\ Incoming[j].seq \in 1..MaxSeq
          BY <1>2, <1>4, NumbersType DEF NumbersDiffer, NumbersTaken
      <2> QED
          BY <1>1, <1>7, <2>1
  <1>10. /\ server' = "ready" => server = "ready" \/ (server = "fresh" /\ m.cmd = "initialize")
         /\ debuggee' = IF m.cmd \in StepCommands /\ m.ok THEN "running" ELSE debuggee
         /\ m.ok \/ m.cmd \in RefusedCommands
      BY <1>1, <1>2, <1>3, <1>6 DEF ServerAnswers, TypeOK, ServerTypes
  <1> QED
      BY <1>1, <1>3, <1>4, <1>5, <1>8, <1>9, <1>10 DEF AnswerGives

EventGives(m) ==
    /\ Gives(m) /\ m.type # "response" /\ UNCHANGED <<frameOf, server, toServer>>
    /\ \/ /\ IsStop(m) /\ stops' = stops + 1 /\ debuggee' = "stopped" /\ debuggee = "running"
       \/ /\ stops' = stops /\ (debuggee' = "stopped" => debuggee = "stopped")

LEMMA EventEffect ==
    ASSUME ClientKept, CallsKept, SendEvent
    PROVE  \E m \in Messages : EventGives(m)
  <1>1. PICK e \in ServerEvents, thread \in Args :
           /\ ServerSends(e, thread) /\ UNCHANGED <<frameVars, frameOf>>
           /\ stops' = IF e = "stopped" THEN stops + 1 ELSE stops
      BY DEF SendEvent
  <1>2. TypeOK
      BY DEF ClientKept
  <1>3. PICK m \in Messages : /\ m.type # "response" /\ m.cmd = e /\ m.sess = transport
                              /\ m.type = IF e = "runInTerminal" THEN "request" ELSE "event"
                              /\ Longer(Incoming', Incoming, m)
      BY <1>1, <1>2, EventGains
  <1>4. Gives(m) /\ UNCHANGED <<frameOf, server, toServer>>
      BY <1>1, <1>3 DEF Gives, ServerSends, sessionVars, frameVars
  <1>5. \/ IsStop(m) /\ stops' = stops + 1 /\ debuggee' = "stopped" /\ debuggee = "running"
        \/ stops' = stops /\ (debuggee' = "stopped" => debuggee = "stopped")
      BY <1>1, <1>3 DEF IsStop, ServerSends
  <1> QED
      BY <1>3, <1>4, <1>5 DEF EventGives

LEMMA GivenFrames ==
    ASSUME CallsKept, FramesKept, NEW m, Gives(m), GivenStay,
           IsTrace(m) => frameOf'[m.seq] = NoFrame \/ frameOf'[m.seq][1] = transport
    PROVE  FramesKept'
  <1>1. FrameKept'
      BY DEF FramesKept, FrameKept, Gives, Clean
  <1>2. TracesOwn'
      <2> SUFFICES ASSUME transport # Null, NEW j \in DOMAIN Incoming', IsTrace(Incoming'[j])
                   PROVE  frameOf'[Incoming'[j].seq] = NoFrame \/ frameOf'[Incoming'[j].seq][1] = transport
          BY DEF TracesOwn, Given, IsTrace, Own, Gives
      <2>1. CASE j \in DOMAIN Incoming /\ Incoming'[j] = Incoming[j]
          <3>1. IsTrace(Incoming[j])
              BY <2>1
          <3>2. frameOf'[Incoming[j].seq] = frameOf[Incoming[j].seq]
              BY <2>1, <3>1 DEF GivenStay, IsTrace
          <3>3. Given(Incoming[j]) = NoFrame \/ Given(Incoming[j])[1] = transport
              BY <2>1, <3>1 DEF FramesKept, TracesOwn
          <3> QED
              BY <2>1, <3>2, <3>3 DEF Given
      <2>2. CASE Incoming'[j] = m
          BY <2>2
      <2> QED
          BY <2>1, <2>2 DEF Gives, Longer
  <1> QED
      BY <1>1, <1>2 DEF FramesKept

LEMMA OutsideFrames ==
    ASSUME ClientKept, CallsKept, FramesKept, Answer \/ SendEvent
    PROVE  FramesKept'
  <1>1. CASE Answer
      <2>1. PICK i \in DOMAIN toServer, m \in Messages : AnswerGives(i, m)
          BY <1>1, AnswerEffect
      <2>2. m.cmd = "stackTrace" => frameOf'[m.seq] = NoFrame \/ frameOf'[m.seq][1] = transport
          BY <2>1 DEF AnswerGives, TopFrame
      <2> QED
          BY <2>1, <2>2, GivenFrames DEF AnswerGives, IsTrace
  <1>2. CASE SendEvent
      <2>1. PICK m \in Messages : EventGives(m)
          BY <1>2, EventEffect
      <2>2. GivenStay /\ ~IsTrace(m)
          BY <2>1 DEF EventGives, GivenStay, IsTrace, Own
      <2> QED
          BY <2>1, <2>2, GivenFrames DEF EventGives
  <1> QED
      BY <1>1, <1>2
LEMMA InitFrames == FrameInit => FramesKept /\ CurrentKept
  <1> SUFFICES ASSUME FrameInit PROVE FramesKept /\ CurrentKept
      OBVIOUS
  <1>1. transport = Null /\ frameId = NoFrame /\ stops = 0 /\ frameOf = [s \in 1..MaxSeq |-> NoFrame]
      BY DEF FrameInit, Init
  <1>2. NoFrame[2] = 0
      BY DEF NoFrame
  <1> QED
      BY <1>1, <1>2 DEF FramesKept, TracesOwn, FrameKept, CurrentKept, NoneLater, CurrentStays, OnItsWay, Clean

LEMMA NextFrames == ClientKept /\ CallsKept /\ FramesKept /\ [FrameNext]_allVars => FramesKept'
  <1> SUFFICES ASSUME ClientKept, CallsKept, FramesKept, [FrameNext]_allVars PROVE FramesKept'
      OBVIOUS
  <1>1. CASE CalmSteps
      BY <1>1, AllCalm, CalmFrames DEF ClientKept, RequestsKept
  <1>2. CASE OtherMainStep /\ JoinReturns
      BY <1>2, JoinFrames DEF OtherMainStep, frameVars
  <1> QED
      BY <1>1, <1>2, HandledFrames, OutsideFrames DEF FrameNext, CalmSteps

\* A handler that is to forget the frame has forgetFrame among its calls.
LEMMA ForgettingForgets ==
    ASSUME NEW t \in Forgetting
    PROVE  "forgetFrame" \in Range(t)
  <1>1. \E k \in DOMAIN t : t[k] = "forgetFrame"
      <2>1. CASE t \in {Connecting, Setting}
          BY <2>1 DEF Connecting, InitializeClient, Setting
      <2>2. CASE t \in {Installed, Ended, Ending}
          BY <2>2 DEF Installed, Ended, Ending
      <2> QED
          BY <2>1, <2>2 DEF Forgetting
  <1> QED
      BY <1>1 DEF Range

\* The frame OnEval uses is a frame of the session in use, unless a message of an
\* earlier session completed its handshake, for every number of sessions, requests
\* and events (InitializeClient, OnTerminated, OnStackTrace).
THEOREM FrameIsOwn == FrameSpec => []FrameOfThisSession
  <1>1. FrameInit => ClientKept /\ CallsKept /\ FramesKept
      BY InitClient, InitCalls, InitFrames
  <1>2. ClientKept /\ CallsKept /\ FramesKept /\ [FrameNext]_allVars
           => (ClientKept /\ CallsKept /\ FramesKept)'
      BY NextClient, NextCalls, NextFrames DEF ClientKept, RequestsKept
  <1>3. FramesKept => FrameOfThisSession
      <2> SUFFICES ASSUME FramesKept, transport # Null, handshake = "completed" => Fresh,
                          frameId # NoFrame, "forgetFrame" \notin Range(todo)
                   PROVE  frameId[1] = transport
          BY DEF FrameOfThisSession
      <2>1. Clean /\ todo \notin Forgetting
          BY ForgettingForgets DEF Clean, Fresh
      <2> QED
          BY <2>1 DEF FramesKept, FrameKept
  <1> QED
      BY <1>1, <1>2, <1>3, PTL DEF FrameSpec
----------------------------------------------------------------------------
(* The frame is the one of the last stop.                                  *)

LEMMA CurrentIsFrame ==
    ASSUME transport # Null
    PROVE  Current # NoFrame
  BY DEF Current, NoFrame

\* The numbers of the session's answers.
LEMMA TraceNumber ==
    ASSUME ClientKept, NEW j \in DOMAIN Incoming, IsTrace(Incoming[j]), transport # Null
    PROVE  Incoming[j].seq \in 1..MaxSeq
  BY NumbersType DEF ClientKept, RequestsKept, NumbersTaken, IsTrace

LEMMA CalmCurrent ==
    ASSUME CallsKept, CurrentKept, Calm
    PROVE  CurrentKept'
  <1>1. Clean' = Clean /\ Current' = Current
      BY CalmClean DEF Calm, Current
  <1>2. /\ Incoming' = Incoming
        /\ \A j \in DOMAIN Incoming : /\ IsTrace(Incoming[j])' = IsTrace(Incoming[j])
                                      /\ Given(Incoming[j])' = Given(Incoming[j])
                                      /\ IsStop(Incoming[j])' = IsStop(Incoming[j])
      BY DEF Calm, IsTrace, Own, Given, IsStop
  <1>3. NoneLater'
      <2>1. NoFrame[2] = 0 /\ stops \in Nat
          BY DEF NoFrame, CallsKept, FrameTypes
      <2> QED
          BY <2>1 DEF CurrentKept, NoneLater, Calm
  <1>4. CurrentStays'
      <2> SUFFICES ASSUME Clean, debuggee = "stopped", NEW j \in DOMAIN Incoming, IsTrace(Incoming[j])
                   PROVE  /\ frameId' = Current => Given(Incoming[j]) = Current
                          /\ \A i \in DOMAIN Incoming :
                                (i < j /\ IsTrace(Incoming[i]) /\ Given(Incoming[i]) = Current)
                                    => Given(Incoming[j]) = Current
          BY <1>1, <1>2 DEF CurrentStays, Calm
      <2>1. frameId' = Current => frameId' = frameId
          BY CurrentIsFrame DEF Clean, Calm
      <2> QED
          BY <2>1 DEF CurrentKept, CurrentStays
  <1>5. OnItsWay'
      <2> SUFFICES ASSUME Clean, server' = "ready", debuggee = "stopped"
                   PROVE  \/ \E j \in DOMAIN Incoming : IsStop(Incoming[j])
                          \/ todo' = Single("stackTrace")
                          \/ \E i \in DOMAIN toServer' : toServer'[i].cmd = "stackTrace"
                          \/ \E j \in DOMAIN Incoming : IsTrace(Incoming[j]) /\ Given(Incoming[j]) = Current
                          \/ frameId' = Current
          BY <1>1, <1>2 DEF OnItsWay, Calm
      <2>1. /\ server = "ready" /\ frameId' = frameId
            /\ \A i \in DOMAIN toServer : i \in DOMAIN toServer' /\ toServer'[i] = toServer[i]
            /\ todo = Single("stackTrace") =>
                  todo' = todo \/ \E i \in DOMAIN toServer' : toServer'[i].cmd = "stackTrace"
          BY DEF Calm, Clean
      <2>2. \/ \E j \in DOMAIN Incoming : IsStop(Incoming[j])
            \/ todo = Single("stackTrace")
            \/ \E i \in DOMAIN toServer : toServer[i].cmd = "stackTrace"
            \/ \E j \in DOMAIN Incoming : IsTrace(Incoming[j]) /\ Given(Incoming[j]) = Current
            \/ frameId = Current
          BY <2>1 DEF CurrentKept, OnItsWay
      <2> QED
          BY <2>1, <2>2
  <1> QED
      BY <1>3, <1>4, <1>5 DEF CurrentKept

LEMMA JoinCurrent ==
    ASSUME ClientKept, CallsKept, CurrentKept, OtherMainStep, JoinReturns
    PROVE  CurrentKept'
  <1>1. UNCHANGED <<todo, frameId, stops, frameOf>>
      BY DEF OtherMainStep, frameVars
  <1>2. Clean' => server' = "fresh" /\ debuggee' = "running"
      BY <1>1, JoinFrames
  <1> QED
      BY <1>1, <1>2 DEF CurrentKept, NoneLater, CurrentStays, OnItsWay

\* The handler of a stop asks for the frame, the handler of the answer keeps it.
LEMMA HandledCurrent ==
    ASSUME ClientKept, CallsKept, CurrentKept, OnDapEvent
    PROVE  CurrentKept'
  <1> DEFINE m == Head(Incoming)
  <1>1. /\ todo = <<>> /\ (OnDataRead \/ ProcessBuffer) /\ UNCHANGED <<frameOf, stops>>
        /\ event' = NoEvent => UNCHANGED <<todo, frameId>>
        /\ event' # NoEvent => Handle(Handled) /\ frameId' = FrameAfter(Handled)
      BY DEF OnDapEvent
  <1>2. /\ Handled = m /\ Incoming # <<>> /\ Incoming' = Tail(Incoming) /\ Incoming \in Seq(Messages)
        /\ m \in Messages /\ OnMessage(m) /\ m = Incoming[1] /\ 1 \in DOMAIN Incoming
      BY <1>1, HandledFirst, MessageIsFirst, NumbersType DEF ClientKept, RequestsKept, HandlesFirst
  <1>3. UNCHANGED transport /\ Current' = Current
      BY <1>1, <1>2, OnMessageRequests DEF Current
  <1>4. /\ \A j \in DOMAIN Incoming' : /\ j + 1 \in DOMAIN Incoming /\ Incoming'[j] = Incoming[j + 1]
                                       /\ j + 1 > 1
                                       /\ \A i \in DOMAIN Incoming' : i < j => i + 1 < j + 1
        /\ \A j \in DOMAIN Incoming : j # 1 => j - 1 \in DOMAIN Incoming' /\ Incoming'[j - 1] = Incoming[j]
      BY <1>2
  <1>5. m.cmd = "stackTrace" => m.type = "response" /\ m.seq \in 1..MaxSeq
      BY <1>2, BoundsAssumption DEF Messages, RequestNames, AllCommands, QueueCommands, QueueEventCommands
  <1>6. frameId' # frameId => /\ event' # NoEvent /\ m.cmd = "stackTrace"
                              /\ frameId' = frameOf[m.seq]
      BY <1>1, <1>2 DEF FrameAfter
  <1>7. NoneLater'
      BY <1>1, <1>5, <1>6 DEF CurrentKept, NoneLater
  <1>8. ASSUME Clean'
        PROVE  /\ Clean /\ UNCHANGED <<transport, server, debuggee, toServer>>
               /\ handshake = "completed" => m.sess = transport
               /\ handshake # "completed" => m.sess # transport \/ IsInitialize(m, transport)
               /\ frameId' # frameId => IsTrace(Incoming[1]) /\ frameId' = Given(Incoming[1])
      <2>1. /\ Clean /\ UNCHANGED <<transport, server, debuggee, toServer>>
            /\ handshake = "completed" => m.sess = transport
            /\ handshake # "completed" => m.sess # transport \/ IsInitialize(m, transport)
          BY <1>1, <1>8, HandledOwn
      <2>2. ASSUME frameId' # frameId PROVE IsTrace(Incoming[1]) /\ frameId' = Given(Incoming[1])
          <3>1. handshake = "completed"
              BY <1>2, <1>6, <2>2, ToldWhenOpen
          <3> QED
              BY <1>2, <1>5, <1>6, <2>1, <2>2, <3>1 DEF IsTrace, Own, Given
      <2> QED
          BY <2>1, <2>2
  <1>9. CurrentStays'
      <2> SUFFICES ASSUME Clean', debuggee' = "stopped", NEW j \in DOMAIN Incoming',
                          IsTrace(Incoming[j + 1])
                   PROVE  /\ frameId' = Current => Given(Incoming[j + 1]) = Current
                          /\ \A i \in DOMAIN Incoming' :
                                (i < j /\ IsTrace(Incoming[i + 1]) /\ Given(Incoming[i + 1]) = Current)
                                    => Given(Incoming[j + 1]) = Current
          BY <1>1, <1>3, <1>4 DEF CurrentStays, IsTrace, Own, Given
      <2>1. Clean /\ debuggee = "stopped" /\ j + 1 \in DOMAIN Incoming
          BY <1>4, <1>8
      <2>2. /\ frameId = Current => Given(Incoming[j + 1]) = Current
            /\ \A i \in DOMAIN Incoming :
                  (i < j + 1 /\ IsTrace(Incoming[i]) /\ Given(Incoming[i]) = Current)
                      => Given(Incoming[j + 1]) = Current
          BY <2>1 DEF CurrentKept, CurrentStays
      <2>3. frameId' = Current => Given(Incoming[j + 1]) = Current
          BY <1>2, <1>4, <1>8, <2>2
      <2> QED
          BY <1>4, <2>2, <2>3
  <1>10. OnItsWay'
      <2> SUFFICES ASSUME Clean', server' = "ready", debuggee' = "stopped"
                   PROVE  \/ \E j \in DOMAIN Incoming' : IsStop(Incoming'[j])
                          \/ todo' = Single("stackTrace")
                          \/ \E i \in DOMAIN toServer' : toServer'[i].cmd = "stackTrace"
                          \/ \E j \in DOMAIN Incoming' : IsTrace(Incoming'[j]) /\ Given(Incoming'[j]) = Current
                          \/ frameId' = Current
          BY <1>1, <1>3 DEF OnItsWay, IsTrace, Own, Given, IsStop
      <2>1. Clean /\ server = "ready" /\ debuggee = "stopped" /\ toServer' = toServer /\ transport # Null
          BY <1>8 DEF Clean
      <2>2. \/ \E j \in DOMAIN Incoming : IsStop(Incoming[j])
            \/ todo = Single("stackTrace")
            \/ \E i \in DOMAIN toServer : toServer[i].cmd = "stackTrace"
            \/ \E j \in DOMAIN Incoming : IsTrace(Incoming[j]) /\ Given(Incoming[j]) = Current
            \/ frameId = Current
          BY <2>1 DEF CurrentKept, OnItsWay
      <2>3. ASSUME IsStop(m) \/ IsTrace(m) PROVE event' # NoEvent
          <3>1. handshake = "completed"
              BY <1>8, <2>3 DEF IsStop, IsTrace, Own, IsInitialize
          <3> QED
              BY <1>2, <2>3, <3>1, ToldWhenOpen DEF IsStop, IsTrace
      <2>4. ASSUME NEW j \in DOMAIN Incoming, IsStop(Incoming[j])
            PROVE  todo' = Single("stackTrace") \/ \E k \in DOMAIN Incoming' : IsStop(Incoming'[k])
          <3>1. CASE j = 1
              BY <1>1, <1>2, <2>3, <2>4, <3>1, HandleRests DEF IsStop
          <3>2. CASE j # 1
              BY <1>4, <2>4, <3>2
          <3> QED
              BY <3>1, <3>2
      <2>5. todo # Single("stackTrace")
          BY <1>1, SingleSteps
      <2>6. ASSUME NEW j \in DOMAIN Incoming, IsTrace(Incoming[j]), Given(Incoming[j]) = Current
            PROVE  \/ frameId' = Current
                   \/ \E k \in DOMAIN Incoming' : IsTrace(Incoming'[k]) /\ Given(Incoming'[k]) = Current
          <3>1. CASE j = 1
              <4>1. frameOf[m.seq] = Current /\ m.cmd = "stackTrace" /\ event' # NoEvent
                  BY <1>2, <2>3, <2>6, <3>1 DEF Given, IsTrace
              <4>2. frameOf[m.seq] # NoFrame
                  BY <2>1, <4>1, CurrentIsFrame
              <4> QED
                  BY <1>1, <1>2, <4>1, <4>2 DEF FrameAfter
          <3>2. CASE j # 1
              BY <1>4, <2>6, <3>2
          <3> QED
              BY <3>1, <3>2
      <2>7. ASSUME frameId = Current PROVE frameId' = Current
          BY <1>2, <1>8, <2>1, <2>7 DEF CurrentKept, CurrentStays
      <2> QED
          BY <2>1, <2>2, <2>4, <2>5, <2>6, <2>7
  <1> QED
      BY <1>7, <1>9, <1>10 DEF CurrentKept

\* The server answers stackTrace with the frame of the last stop.
LEMMA AnswerCurrent ==
    ASSUME TracesAnswered, ClientKept, CallsKept, CurrentKept, Answer
    PROVE  CurrentKept'
  <1>1. PICK i \in DOMAIN toServer, m \in Messages : AnswerGives(i, m)
      BY AnswerEffect
  <1> DEFINE l == Len(Incoming) + 1
  <1>2. /\ UNCHANGED <<transport, handshake, handshakeBy, frameId, todo, stops>>
        /\ Clean' = Clean /\ Current' = Current
      BY <1>1 DEF AnswerGives, Gives, Clean, Current
  <1>3. /\ \A j \in DOMAIN Incoming' : \/ j \in DOMAIN Incoming /\ j # l /\ Incoming'[j] = Incoming[j]
                                       \/ j = l /\ Incoming'[j] = m
        /\ \A j \in DOMAIN Incoming : j \in DOMAIN Incoming' /\ Incoming'[j] = Incoming[j] /\ j < l
        /\ l \in DOMAIN Incoming' /\ Incoming'[l] = m
      <2>1. Incoming \in Seq(Messages)
          BY NumbersType DEF ClientKept
      <2>2. \A j \in DOMAIN Incoming : j < l
          BY <2>1
      <2> QED
          BY <1>1, <2>2 DEF AnswerGives, Gives, Longer
  <1>4. NoneLater'
      <2>1. NoFrame[2] = 0 /\ stops \in Nat /\ (TopFrame[2] = stops \/ TopFrame[2] = 0)
          BY DEF NoFrame, TopFrame, CallsKept, FrameTypes
      <2> QED
          BY <1>1, <1>2, <2>1 DEF AnswerGives, CurrentKept, NoneLater
  <1>5. ASSUME debuggee = "stopped", m.cmd = "stackTrace"
        PROVE  IsTrace(m) /\ frameOf'[m.seq] = Current
      <2>1. m.ok /\ frameOf'[m.seq] = TopFrame
          BY <1>1, <1>5 DEF AnswerGives, TracesAnswered
      <2> QED
          BY <1>1, <1>5, <2>1 DEF AnswerGives, Answers, IsTrace, Own, TopFrame, Current
  <1>6. debuggee' = "stopped" => debuggee = "stopped"
      BY <1>1 DEF AnswerGives
  <1>7. ASSUME Clean, NEW j \in DOMAIN Incoming, IsTrace(Incoming[j])
        PROVE  frameOf'[Incoming[j].seq] = Given(Incoming[j])
      BY <1>1, <1>7 DEF AnswerGives, GivenStay, Clean, IsTrace, Given
  <1>8. CurrentStays'
      <2> SUFFICES ASSUME Clean, debuggee = "stopped", NEW j \in DOMAIN Incoming', IsTrace(Incoming'[j])
                   PROVE  /\ frameId = Current => frameOf'[Incoming'[j].seq] = Current
                          /\ \A k \in DOMAIN Incoming' :
                                (k < j /\ IsTrace(Incoming'[k]) /\ frameOf'[Incoming'[k].seq] = Current)
                                    => frameOf'[Incoming'[j].seq] = Current
          BY <1>2, <1>6 DEF CurrentStays, IsTrace, Own, Given
      <2>1. CASE j = l
          BY <1>3, <1>5, <2>1 DEF IsTrace
      <2>2. CASE j # l
          <3>1. j \in DOMAIN Incoming /\ Incoming'[j] = Incoming[j] /\ IsTrace(Incoming[j])
              BY <1>3, <2>2
          <3>2. frameOf'[Incoming'[j].seq] = Given(Incoming[j])
              BY <1>7, <3>1
          <3>3. frameId = Current => Given(Incoming[j]) = Current
              BY <3>1 DEF CurrentKept, CurrentStays
          <3>4. ASSUME NEW k \in DOMAIN Incoming', k < j, IsTrace(Incoming'[k]),
                       frameOf'[Incoming'[k].seq] = Current
                PROVE  Given(Incoming[j]) = Current
              <4>1. k # l
                  BY <1>3, <3>1, <3>4, NumbersType DEF ClientKept
              <4>2. k \in DOMAIN Incoming /\ Incoming'[k] = Incoming[k]
                  BY <1>3, <4>1
              <4>3. Given(Incoming[k]) = Current
                  BY <1>7, <3>4, <4>2
              <4> QED
                  BY <3>1, <3>4, <4>2, <4>3 DEF CurrentKept, CurrentStays
          <3> QED
              BY <3>2, <3>3, <3>4
      <2> QED
          BY <2>1, <2>2
  <1>9. OnItsWay'
      <2> SUFFICES ASSUME Clean, server' = "ready", debuggee' = "stopped"
                   PROVE  \/ \E j \in DOMAIN Incoming' : IsStop(Incoming'[j])
                          \/ todo = Single("stackTrace")
                          \/ \E k \in DOMAIN toServer' : toServer'[k].cmd = "stackTrace"
                          \/ \E j \in DOMAIN Incoming' : IsTrace(Incoming'[j]) /\ frameOf'[Incoming'[j].seq] = Current
                          \/ frameId = Current
          BY <1>2 DEF OnItsWay, IsTrace, Own, Given, IsStop
      <2>1. debuggee = "stopped" /\ server = "ready"
          <3>1. server = "fresh" => debuggee = "running"
              BY DEF ClientKept, InteractKept, SilentAtFirst, Clean
          <3> QED
              BY <1>1, <1>6, <3>1 DEF AnswerGives
      <2>2. \/ \E j \in DOMAIN Incoming : IsStop(Incoming[j])
            \/ todo = Single("stackTrace")
            \/ \E k \in DOMAIN toServer : toServer[k].cmd = "stackTrace"
            \/ \E j \in DOMAIN Incoming : IsTrace(Incoming[j]) /\ Given(Incoming[j]) = Current
            \/ frameId = Current
          BY <2>1 DEF CurrentKept, OnItsWay
      <2>3. ASSUME NEW k \in DOMAIN toServer, toServer[k].cmd = "stackTrace"
            PROVE  \/ \E n \in DOMAIN toServer' : toServer'[n].cmd = "stackTrace"
                   \/ \E j \in DOMAIN Incoming' : IsTrace(Incoming'[j]) /\ frameOf'[Incoming'[j].seq] = Current
          <3>1. CASE k = i
              <4>1. m.cmd = "stackTrace"
                  BY <1>1, <2>3, <3>1 DEF AnswerGives, Answers
              <4> QED
                  BY <1>3, <1>5, <2>1, <4>1
          <3>2. CASE k # i
              BY <1>1, <2>3, <3>2 DEF AnswerGives, Without
          <3> QED
              BY <3>1, <3>2
      <2>4. ASSUME NEW j \in DOMAIN Incoming, IsTrace(Incoming[j]), Given(Incoming[j]) = Current
            PROVE  IsTrace(Incoming'[j]) /\ frameOf'[Incoming'[j].seq] = Current
          BY <1>3, <1>7, <2>4
      <2> QED
          BY <1>3, <2>2, <2>3, <2>4
  <1> QED
      BY <1>4, <1>8, <1>9 DEF CurrentKept
\* A new stop has no frame yet.
LEMMA EventCurrent ==
    ASSUME ClientKept, CallsKept, CurrentKept, SendEvent
    PROVE  CurrentKept'
  <1>1. PICK m \in Messages : EventGives(m)
      BY EventEffect
  <1> DEFINE l == Len(Incoming) + 1
  <1>2. UNCHANGED <<transport, handshake, handshakeBy, frameId, todo, frameOf, server, toServer>> /\ Clean' = Clean
      BY <1>1 DEF EventGives, Gives, Clean
  <1>3. /\ \A j \in DOMAIN Incoming' : \/ j \in DOMAIN Incoming /\ Incoming'[j] = Incoming[j]
                                       \/ Incoming'[j] = m
        /\ \A j \in DOMAIN Incoming : j \in DOMAIN Incoming' /\ Incoming'[j] = Incoming[j]
        /\ l \in DOMAIN Incoming' /\ Incoming'[l] = m
      BY <1>1 DEF EventGives, Gives, Longer
  <1>4. \A j \in DOMAIN Incoming' : IsTrace(Incoming'[j]) =>
           j \in DOMAIN Incoming /\ Incoming'[j] = Incoming[j] /\ IsTrace(Incoming[j])
      BY <1>1, <1>3 DEF EventGives, IsTrace, Own
  <1>5. stops \in Nat /\ (stops' = stops \/ stops' = stops + 1) /\ frameOf \in [1..MaxSeq -> Nat \X Nat]
        /\ frameId \in Nat \X Nat
      BY <1>1 DEF EventGives, CallsKept, FrameTypes
  <1>6. NoneLater'
      <2>1. frameId[2] \in Nat /\ \A s \in 1..MaxSeq : frameOf[s][2] \in Nat
          BY <1>5
      <2> QED
          BY <1>2, <1>5, <2>1 DEF CurrentKept, NoneLater
  <1>7. CASE IsStop(m) /\ stops' = stops + 1
      <2>1. Current' = <<transport, stops + 1>>
          BY <1>2, <1>7 DEF Current
      <2>2. frameId # Current'
          BY <1>5, <2>1 DEF CurrentKept, NoneLater
      <2>3. ASSUME Clean, NEW j \in DOMAIN Incoming, IsTrace(Incoming[j])
            PROVE  frameOf[Incoming[j].seq] # Current'
          <3>1. Incoming[j].seq \in 1..MaxSeq
              BY <2>3, TraceNumber DEF Clean
          <3>2. frameOf[Incoming[j].seq][2] <= stops
              BY <3>1 DEF CurrentKept, NoneLater
          <3> QED
              BY <1>5, <2>1, <3>2
      <2>4. CurrentStays'
          BY <1>2, <1>4, <2>2, <2>3 DEF CurrentStays, IsTrace, Own, Given
      <2>5. OnItsWay'
          BY <1>2, <1>3, <1>7 DEF OnItsWay, IsStop
      <2> QED
          BY <1>6, <2>4, <2>5 DEF CurrentKept
  <1>8. CASE stops' = stops /\ (debuggee' = "stopped" => debuggee = "stopped")
      <2>1. Current' = Current
          BY <1>2, <1>8 DEF Current
      <2>2. CurrentStays'
          <3> SUFFICES ASSUME Clean, debuggee = "stopped", NEW j \in DOMAIN Incoming', IsTrace(Incoming'[j])
                       PROVE  /\ frameId = Current => Given(Incoming'[j]) = Current
                              /\ \A i \in DOMAIN Incoming' :
                                    (i < j /\ IsTrace(Incoming'[i]) /\ Given(Incoming'[i]) = Current)
                                        => Given(Incoming'[j]) = Current
              BY <1>2, <1>8, <2>1 DEF CurrentStays, IsTrace, Own, Given
          <3> QED
              BY <1>4 DEF CurrentKept, CurrentStays
      <2>3. OnItsWay'
          <3> SUFFICES ASSUME Clean, server = "ready", debuggee = "stopped"
                       PROVE  \/ \E j \in DOMAIN Incoming' : IsStop(Incoming'[j])
                              \/ todo = Single("stackTrace")
                              \/ \E i \in DOMAIN toServer : toServer[i].cmd = "stackTrace"
                              \/ \E j \in DOMAIN Incoming' : IsTrace(Incoming'[j]) /\ Given(Incoming'[j]) = Current
                              \/ frameId = Current
              BY <1>2, <1>8, <2>1 DEF OnItsWay, IsTrace, Own, Given, IsStop
          <3> QED
              BY <1>3 DEF CurrentKept, OnItsWay
      <2> QED
          BY <1>6, <2>2, <2>3 DEF CurrentKept
  <1> QED
      BY <1>1, <1>7, <1>8 DEF EventGives

LEMMA NextCurrent ==
    ASSUME TracesAnswered
    PROVE  ClientKept /\ CallsKept /\ CurrentKept /\ [FrameNext]_allVars => CurrentKept'
  <1> SUFFICES ASSUME ClientKept, CallsKept, CurrentKept, [FrameNext]_allVars PROVE CurrentKept'
      OBVIOUS
  <1>1. CASE CalmSteps
      BY <1>1, AllCalm, CalmCurrent DEF ClientKept, RequestsKept
  <1> QED
      BY <1>1, JoinCurrent, HandledCurrent, AnswerCurrent, EventCurrent DEF FrameNext, CalmSteps

\* When all is answered and handled, the frame is the one the debuggee has stopped in,
\* if the server refuses no stackTrace, in whatever order it answers and however stops,
\* steps and stack traces overtake each other (OnStopped, OnStackTrace).
THEOREM FrameIsOfLastStop ==
    ASSUME TracesAnswered
    PROVE  FrameSpec => []FrameIsCurrent
  <1>1. FrameInit => ClientKept /\ CallsKept /\ CurrentKept
      BY InitClient, InitCalls, InitFrames
  <1>2. ClientKept /\ CallsKept /\ CurrentKept /\ [FrameNext]_allVars
           => (ClientKept /\ CallsKept /\ CurrentKept)'
      BY NextClient, NextCalls, NextCurrent DEF ClientKept, RequestsKept
  <1>3. CurrentKept => FrameIsCurrent
      <2> SUFFICES ASSUME CurrentKept, Fresh, InEventLoop, "stackTrace" \notin Range(todo),
                          pending = <<>>, toClient = <<>>, toServer = <<>>,
                          server = "ready", debuggee = "stopped"
                   PROVE  frameId = <<transport, stops>>
          BY DEF FrameIsCurrent
      <2>1. DOMAIN Incoming = {}
          <3>1. Posts(<<>>) = <<>>
              BY DEF Posts
          <3>2. Incoming = <<>> \o <<>> \o <<>>
              BY <3>1, FlattenEmpty DEF Incoming, InEventLoop
          <3> QED
              BY <3>2
      <2>2. todo # Single("stackTrace")
          BY DEF Single, Range
      <2>3. DOMAIN toServer = {}
          OBVIOUS
      <2> QED
          BY <2>1, <2>2, <2>3 DEF CurrentKept, OnItsWay, Clean, Fresh, Current
  <1> QED
      BY <1>1, <1>2, <1>3, PTL DEF FrameSpec
=============================================================================
