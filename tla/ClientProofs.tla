---------------------------- MODULE ClientProofs ----------------------------
(***************************************************************************)
(* Theorems about Client, for every value of its constants: its types, and *)
(* that sessions follow each other (SessionsInOrder), so that no reader    *)
(* thread works without a transport and nothing of an earlier session      *)
(* disturbs one whose handshake is its own.                                *)
(***************************************************************************)
EXTENDS Client, TLAPS, SequenceTheorems

----------------------------------------------------------------------------
(* The values records are built from.                                      *)

\* The absent originating request is a request value.
LEMMA NoRequestType == NoRequest \in Requests
  BY DEF NoRequest, Requests

\* The event that tells nothing is an event value.
LEMMA NoEventType == NoEvent \in Events
  BY NoRequestType, BoundsAssumption DEF NoEvent, Told, Events, Names, Null

\* A call of SendRequest or of a posted OnConnectionError tells the application.
LEMMA LostType ==
    ASSUME NEW about \in Int, NEW sess \in 0..MaxSessions
    PROVE  Told("lost", "none", Null, NoRequest, about, sess) \in Events
  BY NoRequestType DEF Told, Events, Names, Null

\* What SendDAPEvent and the callbacks give to the application.
LEMMA ToldType ==
    ASSUME NEW kind \in {"event", "response", "request", "callback"}, NEW cmd \in Names,
           NEW ref \in Int, NEW origin \in Requests, NEW about \in Int,
           NEW sess \in 0..MaxSessions
    PROVE  Told(kind, cmd, ref, origin, about, sess) \in Events
  BY DEF Told, Events

\* A frame of the main thread's stack.
LEMMA CallType ==
    ASSUME NEW op \in {"join", "lost"},
           NEW then \in {"return", "connect", "initialize", "locations"},
           NEW s \in 0..MaxSeq, NEW arg \in Int
    PROVE  Call(op, then, s, arg) \in Calls
  BY DEF Call, Calls

\* The top of the stack and what is below it.
LEMMA TopType ==
    ASSUME TypeOK, calls # <<>>
    PROVE  Top \in Calls /\ Pop \in Seq(Calls)
  <1>1. calls \in Seq(Calls) /\ Len(calls) \in Nat \ {0}
      BY DEF TypeOK, ThreadTypes
  <1>2. Top \in Calls
      BY <1>1 DEF Top
  <1>3. Pop \in Seq(Calls)
      <2>1. 1 \in 1..(Len(calls) + 1) /\ Len(calls) - 1 \in (1 - 1)..Len(calls)
          BY <1>1
      <2> QED
          BY <1>1, <2>1, SubSeqProperties DEF Pop
  <1> QED
      BY <1>2, <1>3

----------------------------------------------------------------------------
(* Type correctness.                                                       *)

\* The constructor establishes the types.
LEMMA InitTypeOK == Init => TypeOK
  <1> SUFFICES ASSUME Init PROVE TypeOK
      OBVIOUS
  <1>1. SessionTypes
      BY NoRequestType, BoundsAssumption DEF Init, SessionTypes, Null, NotFound
  <1>2. ThreadTypes
      BY NoEventType, BoundsAssumption DEF Init, ThreadTypes, Null
  <1>3. FlagTypes
      BY DEF Init, FlagTypes
  <1>4. ServerTypes
      BY BoundsAssumption DEF Init, ServerTypes
  <1> QED
      BY <1>1, <1>2, <1>3, <1>4 DEF TypeOK

\* BreakpointLocations records a file after SendRequest.
LEMMA FilepathAfterType ==
    ASSUME NEW then, NEW s, NEW arg \in Int, NEW old \in [1..MaxSeq -> Int]
    PROVE  FilepathAfter(then, s, arg, old) \in [1..MaxSeq -> Int]
  <1>1. [old EXCEPT ![s] = arg] \in [1..MaxSeq -> Int]
      OBVIOUS
  <1> QED
      BY <1>1 DEF FilepathAfter

\* Reset, up to the join.
LEMMA BeginResetType ==
    ASSUME TypeOK, NEW then \in {"return", "connect", "initialize", "locations"},
           NEW s \in 0..MaxSeq, NEW arg \in Int, NEW frames \in Seq(Calls),
           BeginReset(then, s, arg, frames)
    PROVE  calls' \in Seq(Calls) /\ shutdown' \in BOOLEAN /\ transport' \in 0..MaxSessions
  <1>1. calls' \in Seq(Calls)
      <2>1. Call("join", then, s, arg) \in Calls
          BY CallType
      <2> QED
          BY <2>1 DEF BeginReset
  <1>2. shutdown' \in BOOLEAN
      BY DEF BeginReset, TypeOK, FlagTypes
  <1>3. transport' \in 0..MaxSessions
      BY DEF BeginReset, TypeOK, ThreadTypes
  <1> QED
      BY <1>1, <1>2, <1>3

\* Reset, after the join.
LEMMA ClearSessionType ==
    ASSUME NEW then, NEW s, NEW arg \in Int, ClearSession(then, s, arg)
    PROVE  SessionTypes' /\ FlagTypes' /\ rpc' = <<>>
  <1>1. filepath' \in [1..MaxSeq -> Int]
      <2>1. [i \in 1..MaxSeq |-> Null] \in [1..MaxSeq -> Int]
          BY DEF Null
      <2> QED
          BY <2>1, FilepathAfterType DEF ClearSession
  <1>2. queue' \in [QueueCommands -> Seq(Int)]
      BY DEF ClearSession, ClearedQueues
  <1>3. inFlight' \in [1..MaxSeq -> Requests]
      BY NoRequestType DEF ClearSession, ClearedInFlight
  <1>4. handshake' \in {"notPerformed", "inProgress", "completed"}
      BY DEF ClearSession, HandshakeAfter
  <1>5. seq' = 0 /\ handshakeBy' = 0 /\ activeThread' = -1 /\ rpc' = <<>>
      BY DEF ClearSession, NotFound, Null
  <1>6. FlagTypes'
      BY DEF ClearSession, ClearedShutdown, FlagTypes
  <1>7. SessionTypes'
      BY <1>1, <1>2, <1>3, <1>4, <1>5, BoundsAssumption DEF SessionTypes
  <1> QED
      BY <1>5, <1>6, <1>7

\* Reset, SetTransport and the end of OnConnectionError's handler keep the types.
LEMMA ResetType ==
    ASSUME TypeOK, Reset \/ SetTransport \/ LostReturns
    PROVE  TypeOK'
  <1>1. calls' \in Seq(Calls) /\ shutdown' \in BOOLEAN /\ transport' \in 0..MaxSessions
      <2>1. CASE Reset
          BY <2>1, BeginResetType, BoundsAssumption DEF Reset, TypeOK, ThreadTypes, Null
      <2>2. CASE SetTransport
          BY <2>2, BeginResetType, BoundsAssumption DEF SetTransport, TypeOK, ThreadTypes, Null
      <2>3. CASE LostReturns
          <3>1. Top \in Calls /\ Pop \in Seq(Calls)
              BY <2>3, TopType DEF LostReturns
          <3> QED
              BY <2>3, <3>1, BeginResetType DEF LostReturns, Calls
      <2> QED
          BY <2>1, <2>2, <2>3
  <1>2. sessions' \in 0..MaxSessions
      BY BoundsAssumption DEF TypeOK, ThreadTypes, Reset, SetTransport, LostReturns
  <1>3. SessionTypes'
      BY DEF TypeOK, SessionTypes, Reset, SetTransport, LostReturns, sessionVars
  <1>4. ThreadTypes'
      BY <1>1, <1>2 DEF TypeOK, ThreadTypes, Reset, SetTransport, LostReturns
  <1>5. FlagTypes'
      BY <1>1 DEF TypeOK, FlagTypes, Reset, SetTransport, LostReturns, sessionVars
  <1>6. ServerTypes'
      BY DEF TypeOK, ServerTypes, Reset, SetTransport, LostReturns, serverVars
  <1> QED
      BY <1>3, <1>4, <1>5, <1>6 DEF TypeOK

\* A posted Reset keeps the types, when it is posted and when it is run.
LEMMA PostedResetType ==
    ASSUME TypeOK, PostReset \/ OnPostedReset
    PROVE  TypeOK'
  <1>1. pending' \in Seq(Posted)
      <2>1. CASE PostReset
          <3>1. [kind |-> "reset", sess |-> transport, msgs |-> <<>>] \in Posted
              BY DEF Posted, TypeOK, ThreadTypes
          <3> QED
              BY <2>1, <3>1 DEF PostReset, TypeOK, ThreadTypes
      <2>2. CASE OnPostedReset
          BY <2>2, HeadTailProperties DEF OnPostedReset, TypeOK, ThreadTypes
      <2> QED
          BY <2>1, <2>2
  <1>2. calls' \in Seq(Calls) /\ shutdown' \in BOOLEAN /\ transport' \in 0..MaxSessions
      <2>1. CASE PostReset
          <3>1. shutdown' \in BOOLEAN
              BY <2>1 DEF PostReset, TypeOK, FlagTypes, readerVars
          <3> QED
              BY <2>1, <3>1 DEF PostReset, TypeOK, ThreadTypes
      <2>2. CASE OnPostedReset
          BY <2>2, BeginResetType, BoundsAssumption DEF OnPostedReset, TypeOK, ThreadTypes, Null
      <2> QED
          BY <2>1, <2>2
  <1>3. SessionTypes' /\ ServerTypes'
      BY DEF TypeOK, SessionTypes, ServerTypes, PostReset, OnPostedReset, sessionVars, serverVars
  <1>4. ThreadTypes'
      BY <1>1, <1>2 DEF TypeOK, ThreadTypes, PostReset, OnPostedReset, readerVars
  <1>5. FlagTypes'
      BY <1>2 DEF TypeOK, FlagTypes, PostReset, OnPostedReset, sessionVars, readerVars
  <1> QED
      BY <1>3, <1>4, <1>5 DEF TypeOK

\* The end of Reset and SetTransport keeps the types.
LEMMA JoinReturnsType ==
    ASSUME TypeOK, JoinReturns
    PROVE  TypeOK'
  <1>1. Top \in Calls /\ Pop \in Seq(Calls)
      BY TopType DEF JoinReturns
  <1>2. SessionTypes' /\ FlagTypes' /\ rpc' = <<>>
      BY <1>1, ClearSessionType DEF JoinReturns, Calls
  <1>3. ThreadTypes'
      BY <1>1, <1>2, BoundsAssumption DEF JoinReturns, TypeOK, ThreadTypes, Null
  <1>4. ServerTypes'
      BY BoundsAssumption DEF JoinReturns, ServerTypes
  <1> QED
      BY <1>2, <1>3, <1>4 DEF TypeOK

\* A posted OnConnectionError keeps the types.
LEMMA OnConnectionErrorType ==
    ASSUME TypeOK, OnConnectionError
    PROVE  TypeOK'
  <1>1. Head(pending) \in Posted /\ pending' \in Seq(Posted)
      BY HeadTailProperties DEF OnConnectionError, TypeOK, ThreadTypes
  <1>2. event' \in Events
      BY <1>1, LostType DEF OnConnectionError, TypeOK, ThreadTypes, Posted
  <1>3. calls' \in Seq(Calls)
      BY CallType, BoundsAssumption DEF OnConnectionError, TypeOK, ThreadTypes, Null
  <1>4. ThreadTypes'
      BY <1>1, <1>2, <1>3 DEF OnConnectionError, TypeOK, ThreadTypes, readerVars
  <1>5. SessionTypes'
      BY DEF OnConnectionError, TypeOK, SessionTypes, sessionVars
  <1>6. FlagTypes'
      BY DEF OnConnectionError, TypeOK, FlagTypes, sessionVars, readerVars
  <1>7. ServerTypes'
      BY DEF OnConnectionError, TypeOK, ServerTypes, serverVars
  <1> QED
      BY <1>4, <1>5, <1>6, <1>7 DEF TypeOK

\* MakeRequest and SendRequest, whichever request it is.
LEMMA SendRequestType ==
    ASSUME TypeOK, seq < MaxSeq, NEW cmd \in RequestNames, NEW arg \in Int,
           NEW q \in [QueueCommands -> Seq(Int)],
           NEW then \in {"return", "initialize", "locations"},
           SendRequest(cmd, arg, q, then), activeThread' \in Int
    PROVE  TypeOK'
  <1> DEFINE s == GetNextSequence
  <1>1. s \in 1..MaxSeq /\ seq' = s
      BY BoundsAssumption DEF TypeOK, SessionTypes, GetNextSequence, SendRequest
  <1>2. calls' \in Seq(Calls) /\ event' \in Events
      <2>1. Call("lost", then, s, arg) \in Calls
          BY <1>1, CallType
      <2>2. Told("lost", "none", Null, NoRequest, Null, Null) \in Events
          BY LostType, BoundsAssumption DEF Null
      <2>3. Append(calls, Call("lost", then, s, arg)) \in Seq(Calls)
          BY <2>1 DEF TypeOK, ThreadTypes
      <2>4. CASE transport = Null
          <3>1. /\ calls' = Append(calls, Call("lost", then, s, arg))
                /\ event' = Told("lost", "none", Null, NoRequest, Null, Null)
              BY <2>4 DEF SendRequest
          <3> QED
              BY <3>1, <2>2, <2>3
      <2>5. CASE transport # Null
          BY <2>5 DEF SendRequest, TypeOK, ThreadTypes
      <2> QED
          BY <2>4, <2>5
  <1>3. inFlight' \in [1..MaxSeq -> Requests]
      <2>1. [cmd |-> cmd, arg |-> arg] \in Requests
          BY DEF Requests
      <2>2. [inFlight EXCEPT ![s] = [cmd |-> cmd, arg |-> arg]] \in [1..MaxSeq -> Requests]
          BY <2>1 DEF TypeOK, SessionTypes
      <2> QED
          BY <2>2 DEF SendRequest, TypeOK, SessionTypes
  <1>4. toServer' \in Seq(SentRequests)
      <2>1. [cmd |-> cmd, seq |-> s, arg |-> arg] \in SentRequests
          BY <1>1 DEF SentRequests
      <2>2. Append(toServer, [cmd |-> cmd, seq |-> s, arg |-> arg]) \in Seq(SentRequests)
          BY <2>1 DEF TypeOK, ServerTypes
      <2> QED
          BY <2>2 DEF SendRequest, TypeOK, ServerTypes
  <1>5. filepath' \in [1..MaxSeq -> Int]
      BY FilepathAfterType DEF SendRequest, TypeOK, SessionTypes
  <1>6. handshake' \in {"notPerformed", "inProgress", "completed"}
      BY DEF SendRequest, TypeOK, SessionTypes, HandshakeAfter
  <1>7. SessionTypes'
      BY <1>1, <1>3, <1>5, <1>6 DEF SendRequest, TypeOK, SessionTypes
  <1>8. ThreadTypes'
      BY <1>2 DEF SendRequest, TypeOK, ThreadTypes, readerVars
  <1>9. FlagTypes'
      BY DEF SendRequest, TypeOK, FlagTypes, readerVars
  <1>10. ServerTypes'
      BY <1>4 DEF SendRequest, TypeOK, ServerTypes, serverVars
  <1> QED
      BY <1>7, <1>8, <1>9, <1>10 DEF TypeOK

\* A request whose refId, file or callback is queued keeps the types.
LEMMA QueuedRequestType ==
    ASSUME TypeOK, NEW cmd \in QueueCommands, NEW arg \in Int, QueuedRequest(cmd, arg)
    PROVE  TypeOK'
  <1>1. cmd \in RequestNames
      BY DEF RequestNames, AllCommands
  <1>2. Enqueue(cmd, arg) \in [QueueCommands -> Seq(Int)]
      BY DEF Enqueue, TypeOK, SessionTypes
  <1>3. activeThread' \in Int
      BY DEF QueuedRequest, TypeOK, SessionTypes
  <1> QED
      BY <1>1, <1>2, <1>3, SendRequestType DEF QueuedRequest, MayRequest

\* A request that is only sent keeps the types.
LEMMA SimpleRequestType ==
    ASSUME TypeOK, NEW cmd \in RequestNames, NEW arg \in Int, SimpleRequest(cmd, arg)
    PROVE  TypeOK'
  <1>1. activeThread' \in Int /\ queue \in [QueueCommands -> Seq(Int)]
      BY DEF SimpleRequest, TypeOK, SessionTypes
  <1> QED
      BY <1>1, SendRequestType DEF SimpleRequest, MayRequest

\* Every call of the API keeps the types.
LEMMA RequestType ==
    ASSUME TypeOK, Request
    PROVE  TypeOK'
  <1>1. activeThread \in Int /\ queue \in [QueueCommands -> Seq(Int)]
      BY DEF TypeOK, SessionTypes
  <1>2. \A thread \in Args \union {NotFound} : Resolve(thread) \in Int
      BY <1>1, ArgsAssumption DEF Resolve, NotFound
  <1>3. Args \subseteq Int /\ Null \in Int
      BY ArgsAssumption DEF Null
  <1>4. CASE Initialize
      BY <1>1, <1>3, <1>4, SendRequestType DEF Initialize, RequestNames
  <1>5. CASE ConfigurationDone \/ GetThreads \/ Attach
      BY <1>3, <1>5, SimpleRequestType
      DEF ConfigurationDone, GetThreads, Attach, RequestNames, AllCommands, PlainCommands,
          IgnoredCommands
  <1>6. ASSUME NEW thread \in Args \union {NotFound}, GetFrames(thread)
        PROVE  TypeOK'
      BY <1>2, <1>6, QueuedRequestType DEF GetFrames, QueueCommands, QueueEventCommands
  <1>7. ASSUME NEW thread \in Args \union {NotFound},
               \/ Pause(thread) \/ StepIn(thread) \/ StepOut(thread) \/ NextStep(thread)
               \/ Continue(thread)
        PROVE  TypeOK'
      BY <1>2, <1>7, SimpleRequestType
      DEF Pause, StepIn, StepOut, NextStep, Continue, RequestNames, AllCommands, StepCommands,
          IgnoredCommands
  <1>8. ASSUME NEW arg \in Args,
               \/ GetScopes(arg) \/ GetChildrenVariables(arg) \/ SetBreakpointsFile(arg)
               \/ EvaluateExpression(arg) \/ LoadSource(arg)
        PROVE  TypeOK'
      BY <1>3, <1>8, QueuedRequestType
      DEF GetScopes, GetChildrenVariables, SetBreakpointsFile, EvaluateExpression, LoadSource,
          QueueCommands, QueueEventCommands, CallbackCommands
  <1>9. ASSUME NEW arg \in Args, SetFunctionBreakpoints(arg)
        PROVE  TypeOK'
      BY <1>3, <1>9, SimpleRequestType
      DEF SetFunctionBreakpoints, RequestNames, AllCommands, PlainCommands
  <1>10. ASSUME NEW arg \in Args, Launch(arg)
         PROVE  TypeOK'
      BY <1>1, <1>3, <1>10, SendRequestType
      DEF Launch, MayRequest, RequestNames, AllCommands, PlainCommands, NotFound
  <1>11. ASSUME NEW arg \in Args, BreakpointLocations(arg)
         PROVE  TypeOK'
      BY <1>1, <1>3, <1>11, SendRequestType
      DEF BreakpointLocations, MayRequest, RequestNames, AllCommands
  <1>12. CASE SendResponse
      <2>1. Told("lost", "none", Null, NoRequest, Null, Null) \in Events
          BY LostType, BoundsAssumption DEF Null
      <2>2. Call("lost", "return", Null, Null) \in Calls
          BY CallType, BoundsAssumption DEF Null
      <2>3. calls' \in Seq(Calls) /\ event' \in Events
          <3>1. Append(calls, Call("lost", "return", Null, Null)) \in Seq(Calls)
              BY <2>2 DEF TypeOK, ThreadTypes
          <3> QED
              BY <1>12, <2>1, <3>1 DEF SendResponse, TypeOK, ThreadTypes
      <2>4. ThreadTypes'
          BY <1>12, <2>3 DEF SendResponse, TypeOK, ThreadTypes, readerVars
      <2>5. SessionTypes' /\ ServerTypes'
          <3>1. seq' \in 0..MaxSeq
              BY <1>12, BoundsAssumption DEF SendResponse, GetNextSequence, TypeOK, SessionTypes
          <3> QED
              BY <1>12, <3>1 DEF SendResponse, TypeOK, SessionTypes, ServerTypes, serverVars
      <2>6. FlagTypes'
          BY <1>12 DEF SendResponse, TypeOK, FlagTypes, sessionVars, readerVars
      <2> QED
          BY <2>4, <2>5, <2>6 DEF TypeOK
  <1> QED
      BY <1>4, <1>5, <1>6, <1>7, <1>8, <1>9, <1>10, <1>11, <1>12 DEF Request

----------------------------------------------------------------------------
(* Type correctness: messages.                                             *)

\* Every branch of OnMessage keeps the types.
LEMMA OnMessageType ==
    ASSUME TypeOK, NEW m \in Messages, OnMessage(m),
           rpc' \in Seq(Messages), pending' \in Seq(Posted)
    PROVE  TypeOK'
  <1>1. m.cmd \in Names /\ m.arg \in Int /\ m.sess \in 0..MaxSessions
      BY DEF Messages
  <1>2. Origin(m) \in Requests /\ Forget(m) \in [1..MaxSeq -> Requests]
      BY NoRequestType DEF Origin, Forget, TypeOK, SessionTypes
  <1>3. FileOf(m) \in Int /\ [filepath EXCEPT ![m.seq] = Null] \in [1..MaxSeq -> Int]
      <2>1. filepath \in [1..MaxSeq -> Int] /\ Null \in Int
          BY DEF TypeOK, SessionTypes, Null
      <2>2. [filepath EXCEPT ![m.seq] = Null] \in [1..MaxSeq -> Int]
          BY <2>1
      <2>3. FileOf(m) \in Int
          BY <2>1 DEF FileOf
      <2> QED
          BY <2>2, <2>3
  <1>4. \A q \in Seq(Int) : FrontOf(q) \in Int /\ RestOf(q) \in Seq(Int)
      BY HeadTailProperties DEF FrontOf, RestOf, Null
  <1>5. ASSUME m.cmd \in QueueCommands
        PROVE  /\ FrontOf(queue[m.cmd]) \in Int
               /\ queue[m.cmd] # <<>> => Head(queue[m.cmd]) \in Int
               /\ [queue EXCEPT ![m.cmd] = RestOf(@)] \in [QueueCommands -> Seq(Int)]
      BY <1>4, <1>5 DEF TypeOK, SessionTypes
  <1>6. SessionTypes'
      <2>0. UNCHANGED seq
          BY DEF OnMessage
      <2>1. CASE OnHandshakeMessage(m)
          BY <1>1, <2>0, <2>1 DEF OnHandshakeMessage, TypeOK, SessionTypes
      <2>2. CASE OnEvent(m)
          BY <1>1, <2>0, <2>2 DEF OnEvent, TypeOK, SessionTypes
      <2>3. CASE OnQueuedResponse(m)
          <3>1. m.cmd \in QueueCommands
              BY <2>3 DEF OnQueuedResponse, QueueCommands
          <3>2. inFlight' = Forget(m) /\ queue' = [queue EXCEPT ![m.cmd] = RestOf(@)]
              BY <2>3 DEF OnQueuedResponse
          <3> QED
              BY <1>2, <1>5, <2>0, <2>3, <3>1, <3>2
              DEF OnQueuedResponse, TypeOK, SessionTypes
      <2>4. CASE OnCallbackResponse(m)
          <3>1. m.cmd \in QueueCommands
              BY <2>4 DEF OnCallbackResponse, QueueCommands
          <3>2. queue' = [queue EXCEPT ![m.cmd] = RestOf(@)]
              BY <2>4 DEF OnCallbackResponse
          <3> QED
              BY <1>5, <2>0, <2>4, <3>1, <3>2 DEF OnCallbackResponse, TypeOK, SessionTypes
      <2>5. CASE OnLocationsResponse(m)
          BY <1>2, <1>3, <2>0, <2>5 DEF OnLocationsResponse, TypeOK, SessionTypes
      <2>6. CASE OnPlainResponse(m)
          BY <1>2, <2>0, <2>6 DEF OnPlainResponse, TypeOK, SessionTypes
      <2>7. CASE OnStepResponse(m) \/ OnIgnoredResponse(m) \/ OnReverseRequest(m)
          BY <2>0, <2>7
          DEF OnStepResponse, OnIgnoredResponse, OnReverseRequest, TypeOK, SessionTypes
      <2> QED
          BY <2>1, <2>2, <2>3, <2>4, <2>5, <2>6, <2>7 DEF OnMessage
  <1>7. event' \in Events
      <2>1. CASE OnHandshakeMessage(m)
          BY <1>1, <2>1, ToldType, NoEventType, NoRequestType DEF OnHandshakeMessage, Null
      <2>2. CASE OnEvent(m)
          <3>1. event' = Told("event", m.cmd, Null, NoRequest, m.arg, m.sess)
              BY <2>2 DEF OnEvent
          <3> QED
              BY <1>1, <3>1, ToldType, NoRequestType DEF Null
      <2>3. CASE OnQueuedResponse(m)
          BY <1>1, <1>2, <1>5, <2>3, ToldType DEF OnQueuedResponse, QueueCommands
      <2>4. CASE OnCallbackResponse(m)
          <3>1. m.cmd \in QueueCommands
              BY <2>4 DEF OnCallbackResponse, QueueCommands
          <3>2. CASE queue[m.cmd] = <<>>
              BY <2>4, <3>2, NoEventType DEF OnCallbackResponse
          <3>3. CASE queue[m.cmd] # <<>>
              <4>1. Head(queue[m.cmd]) \in Int
                  BY <1>5, <3>1, <3>3
              <4>2. Told("callback", m.cmd, Head(queue[m.cmd]), NoRequest, m.arg, m.sess) \in Events
                  BY <1>1, <4>1, ToldType, NoRequestType
              <4> QED
                  BY <2>4, <3>3, <4>2 DEF OnCallbackResponse
          <3> QED
              BY <3>2, <3>3
      <2>5. CASE OnLocationsResponse(m)
          BY <1>1, <1>2, <1>3, <2>5, ToldType DEF OnLocationsResponse
      <2>6. CASE OnPlainResponse(m)
          BY <1>1, <1>2, <2>6, ToldType DEF OnPlainResponse, Null
      <2>7. CASE OnStepResponse(m) \/ OnIgnoredResponse(m)
          BY <2>7, NoEventType DEF OnStepResponse, OnIgnoredResponse
      <2>8. CASE OnReverseRequest(m)
          BY <1>1, <2>8, ToldType, NoRequestType DEF OnReverseRequest, Null
      <2> QED
          BY <2>1, <2>2, <2>3, <2>4, <2>5, <2>6, <2>7, <2>8 DEF OnMessage
  <1>8. ThreadTypes'
      BY <1>7 DEF OnMessage, TypeOK, ThreadTypes, readerVars
  <1>9. FlagTypes'
      <2>1. shutdown' \in BOOLEAN /\ terminated' \in BOOLEAN
          BY DEF OnMessage, TypeOK, FlagTypes, readerVars
      <2>2. features' \in BOOLEAN
          BY DEF OnMessage, OnHandshakeMessage, OnEvent, OnQueuedResponse, OnCallbackResponse,
                 OnLocationsResponse, OnPlainResponse, OnStepResponse, OnIgnoredResponse,
                 OnReverseRequest, TypeOK, FlagTypes
      <2>3. canInteract' \in BOOLEAN
          BY DEF OnMessage, OnHandshakeMessage, OnEvent, OnQueuedResponse, OnCallbackResponse,
                 OnLocationsResponse, OnPlainResponse, OnStepResponse, OnIgnoredResponse,
                 OnReverseRequest, TypeOK, FlagTypes
      <2> QED
          BY <2>1, <2>2, <2>3 DEF FlagTypes
  <1>10. ServerTypes'
      BY DEF OnMessage, TypeOK, ServerTypes, serverVars
  <1> QED
      BY <1>6, <1>8, <1>9, <1>10 DEF TypeOK

\* OnDataRead and the loop of ProcessBuffer keep the types.
LEMMA HandlerType ==
    ASSUME TypeOK, OnDataRead \/ ProcessBuffer
    PROVE  TypeOK'
  <1>1. CASE OnDataRead
      <2>1. Head(pending) \in Posted /\ pending' \in Seq(Posted)
          BY <1>1, HeadTailProperties DEF OnDataRead, TypeOK, ThreadTypes
      <2>2. Head(pending).msgs \in Seq(Messages) /\ Head(pending).msgs # <<>>
          BY <1>1, <2>1 DEF Posted, OnDataRead
      <2>3. Head(Head(pending).msgs) \in Messages /\ rpc' \in Seq(Messages)
          BY <1>1, <2>2, HeadTailProperties DEF OnDataRead
      <2> QED
          BY <1>1, <2>1, <2>3, OnMessageType DEF OnDataRead
  <1>2. CASE ProcessBuffer
      <2>1. Head(rpc) \in Messages /\ rpc' \in Seq(Messages)
          BY <1>2, HeadTailProperties DEF ProcessBuffer, TypeOK, ThreadTypes
      <2>2. pending' \in Seq(Posted)
          BY <1>2 DEF ProcessBuffer, TypeOK, ThreadTypes
      <2> QED
          BY <1>2, <2>1, <2>2, OnMessageType DEF ProcessBuffer
  <1> QED
      BY <1>1, <1>2

----------------------------------------------------------------------------
(* Type correctness: the reader thread and the server.                     *)

\* The reader thread keeps the types.
LEMMA ReaderStepType ==
    ASSUME TypeOK, ReaderStep
    PROVE  TypeOK'
  <1>1. pending' \in Seq(Posted) /\ toClient' \in Seq(Messages)
      <2>1. CASE ReaderData
          <3>1. PICK n \in 1..MaxChunk :
                  /\ n <= Len(toClient)
                  /\ pending' = Append(pending, [kind |-> "data", sess |-> transport,
                                                 msgs |-> SubSeq(toClient, 1, n)])
                  /\ toClient' = SubSeq(toClient, n + 1, Len(toClient))
              BY <2>1 DEF ReaderData
          <3>2. toClient \in Seq(Messages) /\ Len(toClient) \in Nat /\ n \in Nat
              BY BoundsAssumption DEF TypeOK, ServerTypes
          <3>3. SubSeq(toClient, 1, n) \in Seq(Messages) /\ Len(SubSeq(toClient, 1, n)) = n
              <4>1. 1 \in 1..(Len(toClient) + 1) /\ n \in (1 - 1)..Len(toClient)
                  BY <3>1, <3>2
              <4> QED
                  BY <3>2, <4>1, SubSeqProperties
          <3>4. SubSeq(toClient, 1, n) # <<>>
              <4>1. Len(SubSeq(toClient, 1, n)) # 0
                  BY <3>1, <3>2, <3>3
              <4>2. Len(<<>>) = 0
                  OBVIOUS
              <4> QED
                  BY <4>1, <4>2
          <3>5. toClient' \in Seq(Messages)
              <4>1. /\ n + 1 \in 1..(Len(toClient) + 1)
                    /\ Len(toClient) \in (n + 1 - 1)..Len(toClient)
                  BY <3>1, <3>2
              <4> QED
                  BY <3>1, <3>2, <4>1, SubSeqProperties
          <3>6. [kind |-> "data", sess |-> transport, msgs |-> SubSeq(toClient, 1, n)] \in Posted
              BY <3>3, <3>4 DEF Posted, TypeOK, ThreadTypes
          <3> QED
              BY <3>1, <3>5, <3>6 DEF TypeOK, ThreadTypes
      <2>2. CASE ReaderPostsError
          <3>1. [kind |-> "error", sess |-> transport, msgs |-> <<>>] \in Posted
              BY DEF Posted, TypeOK, ThreadTypes
          <3> QED
              BY <2>2, <3>1 DEF ReaderPostsError, TypeOK, ThreadTypes, ServerTypes
      <2>3. CASE ReaderCheck \/ ReaderTimeout \/ ReaderFails
          BY <2>3 DEF ReaderCheck, ReaderTimeout, ReaderFails, TypeOK, ThreadTypes, ServerTypes
      <2> QED
          BY <2>1, <2>2, <2>3 DEF ReaderStep
  <1>2. ThreadTypes'
      BY <1>1 DEF ReaderStep, ReaderCheck, ReaderTimeout, ReaderData, ReaderFails,
         ReaderPostsError, TypeOK, ThreadTypes
  <1>3. FlagTypes'
      BY DEF ReaderStep, ReaderCheck, ReaderTimeout, ReaderData, ReaderFails,
         ReaderPostsError, TypeOK, FlagTypes, sessionVars
  <1>4. SessionTypes'
      BY DEF ReaderStep, ReaderCheck, ReaderTimeout, ReaderData, ReaderFails,
         ReaderPostsError, TypeOK, SessionTypes, sessionVars
  <1>5. ServerTypes'
      BY <1>1 DEF ReaderStep, ReaderCheck, ReaderTimeout, ReaderData, ReaderFails,
         ReaderPostsError, TypeOK, ServerTypes, serverVars
  <1> QED
      BY <1>2, <1>3, <1>4, <1>5 DEF TypeOK

\* No event has the name of a request.
LEMMA EventNames ==
    ASSUME NEW e \in ServerEvents
    PROVE  e \in Names /\ e \notin RequestNames
  <1>1. e \in ForwardedEvents \/ e \in {"stopped", "continued", "runInTerminal"}
      BY ServerEventsAssumption
  <1> QED
      BY <1>1 DEF ForwardedEvents, Names, RequestNames, AllCommands, QueueCommands,
         QueueEventCommands, CallbackCommands, PlainCommands, StepCommands, IgnoredCommands

\* The server keeps the types.
LEMMA ServerStepType ==
    ASSUME TypeOK, ServerStep
    PROVE  TypeOK'
  <1>1. /\ ThreadTypes' /\ SessionTypes'
        /\ UNCHANGED <<transport, rpc, sessionVars, calls, readerVars, pending, sessions, event>>
      <2>1. UNCHANGED <<transport, rpc, sessionVars, calls, readerVars, pending, sessions, event>>
          BY DEF ServerStep, ServerAnswers, ServerSends, ServerCloses
      <2>2. ThreadTypes'
          BY <2>1 DEF TypeOK, ThreadTypes, sessionVars, readerVars
      <2>3. SessionTypes'
          BY <2>1 DEF TypeOK, SessionTypes, sessionVars, readerVars
      <2> QED
          BY <2>1, <2>2, <2>3
  <1>2. FlagTypes'
      BY <1>1 DEF TypeOK, FlagTypes, sessionVars, readerVars
  <1>3. ServerTypes'
      <2>1. ASSUME NEW i \in 1..Len(toServer), NEW ok \in BOOLEAN, ServerAnswers(i, ok)
            PROVE  ServerTypes'
          <3>1. toServer \in Seq(SentRequests) /\ Len(toServer) \in Nat
              BY DEF TypeOK, ServerTypes
          <3>2. toServer[i] \in SentRequests
              BY <3>1
          <3>3. toServer' \in Seq(SentRequests)
              <4>1. SubSeq(toServer, 1, i - 1) \in Seq(SentRequests)
                  <5>1. 1 \in 1..(Len(toServer) + 1) /\ i - 1 \in (1 - 1)..Len(toServer)
                      BY <3>1
                  <5> QED
                      BY <3>1, <5>1, SubSeqProperties
              <4>2. SubSeq(toServer, i + 1, Len(toServer)) \in Seq(SentRequests)
                  <5>1. /\ i + 1 \in 1..(Len(toServer) + 1)
                        /\ Len(toServer) \in (i + 1 - 1)..Len(toServer)
                      BY <3>1
                  <5> QED
                      BY <3>1, <5>1, SubSeqProperties
              <4> QED
                  BY <2>1, <4>1, <4>2, ConcatProperties DEF ServerAnswers
          <3>4. \A arg \in Int :
                  Message("response", toServer[i].cmd, toServer[i].seq, arg, ok) \in Messages
              BY <3>2, BoundsAssumption
              DEF Message, Messages, SentRequests, Names, TypeOK, ThreadTypes
          <3>5. toClient' \in Seq(Messages)
              <4>1. PICK arg \in IF toServer[i].cmd = "initialize" THEN {Null, Supported}
                                 ELSE {toServer[i].arg} :
                      toClient' = Append(toClient, Message("response", toServer[i].cmd,
                                                           toServer[i].seq, arg, ok))
                  BY <2>1 DEF ServerAnswers
              <4>2. arg \in Int
                  BY <3>2, <4>1 DEF SentRequests, Null, Supported
              <4> QED
                  BY <3>4, <4>1, <4>2 DEF TypeOK, ServerTypes
          <3>6. server' \in {"fresh", "ready", "closed"} /\ debuggee' \in {"running", "stopped"}
              BY <2>1 DEF ServerAnswers, TypeOK, ServerTypes
          <3> QED
              BY <2>1, <3>3, <3>5, <3>6 DEF ServerAnswers, TypeOK, ServerTypes
      <2>2. ASSUME NEW e \in ServerEvents, NEW thread \in Args, ServerSends(e, thread)
            PROVE  ServerTypes'
          <3> DEFINE m == Message(IF e = "runInTerminal" THEN "request" ELSE "event",
                                  e, 0, thread, TRUE)
          <3>1. e \in Names /\ e \notin RequestNames
              BY EventNames
          <3>2. m \in Messages
              BY <3>1, ArgsAssumption, BoundsAssumption
              DEF Message, Messages, TypeOK, ThreadTypes
          <3>3. toClient' = Append(toClient, m)
              BY <2>2 DEF ServerSends
          <3> HIDE DEF m
          <3>4. toClient' \in Seq(Messages)
              BY <3>2, <3>3 DEF TypeOK, ServerTypes
          <3>5. eventsSent' \in 0..MaxEvents
              BY <2>2, BoundsAssumption DEF ServerSends, TypeOK, ServerTypes
          <3>6. debuggee' \in {"running", "stopped"} /\ server' = server /\ toServer' = toServer
              BY <2>2 DEF ServerSends, TypeOK, ServerTypes
          <3> QED
              BY <3>4, <3>5, <3>6 DEF TypeOK, ServerTypes
      <2>3. CASE ServerCloses
          BY <2>3 DEF ServerCloses, TypeOK, ServerTypes
      <2> QED
          BY <2>1, <2>2, <2>3 DEF ServerStep
  <1> QED
      BY <1>1, <1>2, <1>3 DEF TypeOK

\* A step that changes nothing keeps the types.
LEMMA StutterType ==
    ASSUME TypeOK, UNCHANGED vars
    PROVE  TypeOK'
  <1>1. SessionTypes' /\ ThreadTypes' /\ ServerTypes'
      BY DEF TypeOK, SessionTypes, ThreadTypes, ServerTypes, vars, sessionVars, readerVars,
         serverVars
  <1>2. FlagTypes'
      BY DEF TypeOK, FlagTypes, vars, sessionVars, readerVars
  <1> QED
      BY <1>1, <1>2 DEF TypeOK

\* Every step keeps the types.
LEMMA NextTypeOK == TypeOK /\ [Next]_vars => TypeOK'
  <1> SUFFICES ASSUME TypeOK, [Next]_vars PROVE TypeOK'
      OBVIOUS
  <1>1. CASE ApplicationStep
      BY <1>1, ResetType, PostedResetType, RequestType DEF ApplicationStep
  <1>2. CASE MainStep
      BY <1>2, HandlerType, OnConnectionErrorType, PostedResetType, ResetType, JoinReturnsType
      DEF MainStep
  <1>3. CASE ReaderStep
      BY <1>3, ReaderStepType
  <1>4. CASE ServerStep
      BY <1>4, ServerStepType
  <1>5. CASE UNCHANGED vars
      BY <1>5, StutterType
  <1> QED
      BY <1>1, <1>2, <1>3, <1>4, <1>5 DEF Next

\* Every variable keeps its type: the bookkeeping of Client is well formed
\* whatever the application, the reader thread and the server do.
THEOREM TypeCorrect == Spec => []TypeOK
  <1> QED
      BY InitTypeOK, NextTypeOK, PTL DEF Spec

----------------------------------------------------------------------------
(* Elements of sequences.                                                  *)

\* Every element of the tail is the next element of the sequence.
LEMMA TailElements ==
    ASSUME NEW S, NEW s \in Seq(S), s # <<>>
    PROVE  /\ Head(s) = s[1] /\ 1 \in DOMAIN s
           /\ \A k \in DOMAIN Tail(s) : k \in Nat /\ k + 1 \in DOMAIN s /\ Tail(s)[k] = s[k + 1]
  OBVIOUS

\* Every element of a sequence with one more is that one or an old one.
LEMMA AppendElements ==
    ASSUME NEW S, NEW s \in Seq(S), NEW e
    PROVE  \A k \in DOMAIN Append(s, e) :
              \/ k \in DOMAIN s /\ k <= Len(s) /\ Append(s, e)[k] = s[k]
              \/ k = Len(s) + 1 /\ Append(s, e)[k] = e
  OBVIOUS

----------------------------------------------------------------------------
\* The constructor establishes the order of sessions.
LEMMA InitSessions == Init => SessionsInOrder
  BY DEF Init, SessionsInOrder, ReaderHasTransport, ConnectIsLast, PostedNotLater,
         PostedInOrder, ChunksOfOneSession, ErrorIsLoss, FreshOwnsAll, Fresh, Null

\* What no call of the API and no reset before its join touches.
Untouched == <<transport, rpc, reader, terminated, pending, server, toClient, handshakeBy>>

\* The calls on the stack are the only thing an API call changes.
LEMMA CallsChange ==
    ASSUME TypeOK, SessionsInOrder, UNCHANGED Untouched,
           handshake' \in {handshake, "inProgress"},
           sessions' \in Nat, sessions <= sessions', ConnectIsLast'
    PROVE  SessionsInOrder'
  <1> USE DEF Untouched, SessionsInOrder
  <1>1. ReaderHasTransport' /\ PostedInOrder' /\ ChunksOfOneSession' /\ ErrorIsLoss'
      BY DEF ReaderHasTransport, PostedInOrder, ChunksOfOneSession, ErrorIsLoss
  <1>2. PostedNotLater'
      BY DEF PostedNotLater, TypeOK, ThreadTypes, Posted
  <1>3. FreshOwnsAll'
      BY DEF FreshOwnsAll, Fresh
  <1> QED
      BY <1>1, <1>2, <1>3

\* A frame that is not SetTransport's is pushed on a handler's frame.
LEMMA LostPushed ==
    ASSUME TypeOK, ConnectIsLast, UNCHANGED <<transport, pending, sessions>>,
           calls = <<>> \/ Top.op = "lost",
           NEW c, c.then # "connect", calls' = Append(calls, c)
    PROVE  ConnectIsLast'
  <1>1. calls \in Seq(Calls)
      BY DEF TypeOK, ThreadTypes
  <1>2. \A i \in DOMAIN calls : calls[i].then # "connect"
      BY <1>1 DEF ConnectIsLast, Top
  <1>3. \A i \in DOMAIN calls' : calls'[i].then # "connect"
      BY <1>1, <1>2, AppendElements
  <1> QED
      BY <1>3 DEF ConnectIsLast

----------------------------------------------------------------------------
(* Reset, SetTransport, OnConnectionError.                                 *)

\* Reset up to its join.
LEMMA ResetSessions ==
    ASSUME TypeOK, SessionsInOrder, Reset
    PROVE  SessionsInOrder'
  <1>1. calls = <<>> \/ Top.op = "lost"
      BY DEF Reset, InApplication
  <1>2. calls' = Append(calls, Call("join", "return", Null, Null))
      BY DEF Reset, BeginReset
  <1>3. UNCHANGED <<transport, pending, sessions, handshake>> /\ UNCHANGED Untouched
      BY DEF Reset, BeginReset, Untouched, sessionVars, serverVars
  <1>4. Call("join", "return", Null, Null).then # "connect"
      BY DEF Call
  <1>5. ConnectIsLast'
      BY <1>1, <1>2, <1>3, <1>4, LostPushed DEF SessionsInOrder
  <1> QED
      BY <1>3, <1>5, CallsChange DEF TypeOK, ThreadTypes

\* SetTransport takes a number later than all that is posted.
LEMMA SetTransportSessions ==
    ASSUME TypeOK, SessionsInOrder, SetTransport
    PROVE  SessionsInOrder'
  <1>1. calls \in Seq(Calls) /\ sessions \in Nat /\ sessions' = sessions + 1
      BY DEF TypeOK, ThreadTypes, SetTransport
  <1>2. \A i \in DOMAIN calls : calls[i].then # "connect"
      BY <1>1 DEF SessionsInOrder, ConnectIsLast, SetTransport, InApplication, Top
  <1>3. calls' = Append(calls, Call("join", "connect", Null, Null))
      BY DEF SetTransport, BeginReset
  <1>4. UNCHANGED Untouched /\ handshake' = handshake
      BY DEF SetTransport, BeginReset, Untouched, sessionVars, serverVars
  <1>5. transport' < sessions' /\ \A k \in DOMAIN pending' : pending'[k].sess < sessions'
      <2>1. transport' = transport /\ pending' = pending
          BY <1>4 DEF Untouched
      <2>2. transport \in Nat /\ \A k \in DOMAIN pending : pending[k].sess \in Nat
          BY DEF TypeOK, ThreadTypes, Posted
      <2> QED
          BY <1>1, <2>1, <2>2 DEF SessionsInOrder, PostedNotLater
  <1>6. ConnectIsLast'
      <2> SUFFICES ASSUME NEW i \in DOMAIN calls', calls'[i].then = "connect"
                   PROVE  i = Len(calls') /\ calls'[i].op = "join"
          BY <1>5 DEF ConnectIsLast
      <2>1. i = Len(calls) + 1 /\ calls'[i] = Call("join", "connect", Null, Null)
          BY <1>1, <1>2, <1>3, AppendElements
      <2>2. Len(calls') = Len(calls) + 1
          BY <1>1, <1>3
      <2> QED
          BY <2>1, <2>2 DEF Call
  <1> QED
      BY <1>1, <1>4, <1>6, CallsChange

\* The handler of a lost connection has returned.
LEMMA LostReturnsSessions ==
    ASSUME TypeOK, SessionsInOrder, LostReturns
    PROVE  SessionsInOrder'
  <1>1. calls \in Seq(Calls) /\ calls # <<>> /\ Len(calls) \in Nat \ {0}
      BY DEF TypeOK, ThreadTypes, LostReturns
  <1>2. \A i \in DOMAIN calls : calls[i].then # "connect"
      BY <1>1 DEF SessionsInOrder, ConnectIsLast, LostReturns, Top
  <1>3. calls' = Append(Pop, Call("join", Top.then, Top.seq, Top.arg))
      BY DEF LostReturns, BeginReset
  <1>4. Pop \in Seq(Calls) /\ \A i \in DOMAIN Pop : Pop[i].then # "connect"
      <2>1. Pop \in Seq(Calls)
          BY <1>1, TopType
      <2>2. 1 \in 1..(Len(calls) + 1) /\ Len(calls) - 1 \in (1 - 1)..Len(calls)
          BY <1>1
      <2>3. \A i \in DOMAIN Pop : i \in DOMAIN calls /\ Pop[i] = calls[i]
          BY <1>1, <2>2, SubSeqProperties DEF Pop
      <2> QED
          BY <1>2, <2>1, <2>3
  <1>5. Call("join", Top.then, Top.seq, Top.arg).then # "connect"
      BY <1>1, <1>2 DEF Call, Top
  <1>6. \A i \in DOMAIN calls' : calls'[i].then # "connect"
      BY <1>3, <1>4, <1>5, AppendElements
  <1>7. ConnectIsLast'
      BY <1>6 DEF ConnectIsLast
  <1>8. UNCHANGED Untouched /\ handshake' = handshake /\ sessions' = sessions
      BY DEF LostReturns, BeginReset, Untouched, sessionVars, serverVars
  <1> QED
      BY <1>7, <1>8, CallsChange DEF TypeOK, ThreadTypes

\* A new session starts with nothing read, and later than all that is posted.
LEMMA JoinReturnsSessions ==
    ASSUME TypeOK, SessionsInOrder, JoinReturns
    PROVE  SessionsInOrder'
  <1>1. calls \in Seq(Calls) /\ calls # <<>> /\ Len(calls) \in Nat \ {0}
      BY DEF TypeOK, ThreadTypes, JoinReturns
  <1>2. /\ transport \in Nat /\ sessions \in Nat
        /\ \A k \in DOMAIN pending : pending[k].sess \in Nat
      BY DEF TypeOK, ThreadTypes, Posted
  <1>3. UNCHANGED <<pending, sessions>> /\ rpc' = <<>> /\ toClient' = <<>>
      BY DEF JoinReturns, ClearSession
  <1>4. handshake' # "completed"
      BY DEF JoinReturns, ClearSession, HandshakeAfter
  <1>5. \A i \in DOMAIN Pop : Pop[i].then # "connect"
      <2>1. 1 \in 1..(Len(calls) + 1) /\ Len(calls) - 1 \in (1 - 1)..Len(calls)
          BY <1>1
      <2>2. \A i \in DOMAIN Pop : i \in DOMAIN calls /\ i # Len(calls) /\ Pop[i] = calls[i]
          BY <1>1, <2>1, SubSeqProperties DEF Pop
      <2> QED
          BY <2>2 DEF SessionsInOrder, ConnectIsLast
  <1>6. ConnectIsLast'
      BY <1>5 DEF ConnectIsLast, JoinReturns
  <1>7. PostedInOrder' /\ ChunksOfOneSession'
      BY <1>3 DEF SessionsInOrder, PostedInOrder, ChunksOfOneSession
  <1>8. FreshOwnsAll'
      BY <1>4 DEF FreshOwnsAll, Fresh
  <1>9. ReaderHasTransport' /\ PostedNotLater' /\ ErrorIsLoss'
      <2>1. CASE Top.then = "connect"
          <3>1. transport' = sessions /\ reader' = "check"
              BY <2>1 DEF JoinReturns
          <3>2. transport < sessions /\ \A k \in DOMAIN pending : pending[k].sess < sessions
              BY <1>1, <2>1 DEF SessionsInOrder, ConnectIsLast, Top
          <3> QED
              BY <1>2, <1>3, <3>1, <3>2
              DEF ReaderHasTransport, PostedNotLater, ErrorIsLoss, Null
      <2>2. CASE Top.then # "connect"
          <3>1. transport' = Null /\ reader' = "none"
              BY <2>2 DEF JoinReturns
          <3> QED
              BY <1>2, <1>3, <3>1
              DEF SessionsInOrder, ReaderHasTransport, PostedNotLater, ErrorIsLoss, Null
      <2> QED
          BY <2>1, <2>2
  <1> QED
      BY <1>6, <1>7, <1>8, <1>9 DEF SessionsInOrder

\* A posted OnConnectionError or Reset is taken from the event queue.
LEMMA OnPostedSessions ==
    ASSUME TypeOK, SessionsInOrder, OnConnectionError \/ OnPostedReset
    PROVE  SessionsInOrder'
  <1>1. pending \in Seq(Posted) /\ pending # <<>> /\ calls = <<>> /\ calls \in Seq(Calls)
      BY DEF TypeOK, ThreadTypes, OnConnectionError, OnPostedReset, InEventLoop
  <1>2. \A k \in DOMAIN pending' : k \in Nat /\ k + 1 \in DOMAIN pending /\ pending'[k] = pending[k + 1]
      BY <1>1, TailElements DEF OnConnectionError, OnPostedReset
  <1>3. UNCHANGED <<transport, rpc, handshake, handshakeBy, reader, terminated, server,
                    toClient, sessions>>
      BY DEF OnConnectionError, OnPostedReset, BeginReset, sessionVars, readerVars, serverVars
  <1>4. ConnectIsLast'
      <2>1. \/ calls' = Append(calls, Call("lost", "return", Null, Null))
            \/ calls' = Append(calls, Call("join", "return", Null, Null))
          BY DEF OnConnectionError, OnPostedReset, BeginReset
      <2>2. \A i \in DOMAIN calls' : calls'[i].then # "connect"
          BY <1>1, <2>1, AppendElements DEF Call
      <2> QED
          BY <2>2 DEF ConnectIsLast
  <1>5. ReaderHasTransport' /\ PostedNotLater' /\ ErrorIsLoss' /\ FreshOwnsAll'
      BY <1>2, <1>3 DEF SessionsInOrder, ReaderHasTransport, PostedNotLater, ErrorIsLoss,
                        FreshOwnsAll, Fresh
  <1>6. PostedInOrder'
      BY <1>2, <1>3 DEF SessionsInOrder, PostedInOrder
  <1>7. ChunksOfOneSession'
      BY <1>2, <1>3 DEF SessionsInOrder, ChunksOfOneSession
  <1> QED
      BY <1>4, <1>5, <1>6, <1>7 DEF SessionsInOrder

----------------------------------------------------------------------------
(* The API.                                                                *)

\* A request is sent, or its failure is told to the application.
LEMMA SendRequestSessions ==
    ASSUME TypeOK, SessionsInOrder, InApplication, NEW cmd, NEW arg, NEW q,
           NEW then \in {"return", "initialize", "locations"},
           SendRequest(cmd, arg, q, then)
    PROVE  SessionsInOrder'
  <1>1. calls = <<>> \/ Top.op = "lost"
      BY DEF InApplication
  <1>2. UNCHANGED Untouched /\ UNCHANGED <<transport, pending, sessions>>
      BY DEF SendRequest, Untouched, readerVars, serverVars
  <1>3. handshake' \in {handshake, "inProgress"}
      BY DEF SendRequest, HandshakeAfter
  <1>4. ConnectIsLast'
      <2> DEFINE c == Call("lost", then, GetNextSequence, arg)
      <2>1. CASE transport = Null
          <3>1. calls' = Append(calls, c)
              BY <2>1 DEF SendRequest
          <3>2. c.then # "connect"
              BY DEF Call
          <3> HIDE DEF c
          <3> QED
              BY <1>1, <1>2, <3>1, <3>2, LostPushed DEF SessionsInOrder
      <2>2. CASE transport # Null
          <3>1. calls' = calls
              BY <2>2 DEF SendRequest
          <3> QED
              BY <1>2, <3>1 DEF SessionsInOrder, ConnectIsLast
      <2> QED
          BY <2>1, <2>2
  <1> QED
      BY <1>2, <1>3, <1>4, CallsChange DEF TypeOK, ThreadTypes

\* Every call of the API keeps the order of sessions.
LEMMA RequestSessions ==
    ASSUME TypeOK, SessionsInOrder, Request
    PROVE  SessionsInOrder'
  <1>1. ASSUME NEW cmd, NEW arg, QueuedRequest(cmd, arg) \/ SimpleRequest(cmd, arg)
        PROVE  SessionsInOrder'
      BY <1>1, SendRequestSessions DEF QueuedRequest, SimpleRequest, MayRequest
  <1>2. CASE Initialize
      BY <1>2, SendRequestSessions DEF Initialize
  <1>3. ASSUME NEW arg, Launch(arg) \/ BreakpointLocations(arg)
        PROVE  SessionsInOrder'
      BY <1>3, SendRequestSessions DEF Launch, BreakpointLocations, MayRequest
  <1>4. CASE SendResponse
      <2>1. calls = <<>> \/ Top.op = "lost"
          BY <1>4 DEF SendResponse, InApplication
      <2>2. /\ UNCHANGED Untouched
            /\ UNCHANGED <<transport, pending, sessions, handshake>>
          BY <1>4 DEF SendResponse, Untouched, readerVars, serverVars, sessionVars
      <2>3. calls' = calls \/ calls' = Append(calls, Call("lost", "return", Null, Null))
          BY <1>4 DEF SendResponse
      <2>4. Call("lost", "return", Null, Null).then # "connect"
          BY DEF Call
      <2>5. ConnectIsLast'
          <3>1. CASE calls' = calls
              BY <2>2, <3>1 DEF SessionsInOrder, ConnectIsLast
          <3>2. CASE calls' = Append(calls, Call("lost", "return", Null, Null))
              BY <2>1, <2>2, <2>4, <3>2, LostPushed DEF SessionsInOrder
          <3> QED
              BY <2>3, <3>1, <3>2
      <2> QED
          BY <2>2, <2>5, CallsChange DEF TypeOK, ThreadTypes
  <1>5. CASE ConfigurationDone \/ GetThreads \/ Attach
      BY <1>1, <1>5 DEF ConfigurationDone, GetThreads, Attach
  <1>6. ASSUME NEW thread,
               \/ GetFrames(thread) \/ Pause(thread) \/ StepIn(thread) \/ StepOut(thread)
               \/ NextStep(thread) \/ Continue(thread)
        PROVE  SessionsInOrder'
      BY <1>1, <1>6 DEF GetFrames, Pause, StepIn, StepOut, NextStep, Continue
  <1>7. ASSUME NEW arg,
               \/ GetScopes(arg) \/ GetChildrenVariables(arg) \/ SetBreakpointsFile(arg)
               \/ EvaluateExpression(arg) \/ LoadSource(arg) \/ SetFunctionBreakpoints(arg)
        PROVE  SessionsInOrder'
      BY <1>1, <1>7 DEF GetScopes, GetChildrenVariables, SetBreakpointsFile,
                        EvaluateExpression, LoadSource, SetFunctionBreakpoints
  <1> QED
      BY <1>2, <1>3, <1>4, <1>5, <1>6, <1>7 DEF Request

----------------------------------------------------------------------------
(* Messages.                                                               *)

\* A message changes the handshake only by completing it.
LEMMA OnMessageHandshake ==
    ASSUME NEW m, OnMessage(m)
    PROVE  /\ \/ handshake # "completed" /\ handshake' = "completed" /\ handshakeBy' = m.sess
              \/ UNCHANGED <<handshake, handshakeBy>>
           /\ UNCHANGED <<transport, calls, reader, terminated, server, toClient, sessions>>
  <1>1. UNCHANGED <<transport, calls, reader, terminated, server, toClient, sessions>>
      BY DEF OnMessage, readerVars, serverVars
  <1>2. CASE OnHandshakeMessage(m)
      BY <1>1, <1>2 DEF OnHandshakeMessage
  <1>3. CASE \/ OnEvent(m) \/ OnQueuedResponse(m) \/ OnCallbackResponse(m)
             \/ OnLocationsResponse(m) \/ OnPlainResponse(m) \/ OnStepResponse(m)
             \/ OnIgnoredResponse(m) \/ OnReverseRequest(m)
      BY <1>1, <1>3 DEF OnEvent, OnQueuedResponse, OnCallbackResponse, OnLocationsResponse,
             OnPlainResponse, OnStepResponse, OnIgnoredResponse, OnReverseRequest
  <1> QED
      BY <1>2, <1>3 DEF OnMessage

\* The message that is handled comes before all that is left: if its session is
\* the one in use, so is theirs.
LEMMA HandledSessions ==
    ASSUME TypeOK, SessionsInOrder, NEW m, OnMessage(m), m.sess \in Nat,
           PostedNotLater', PostedInOrder', ChunksOfOneSession', ConnectIsLast', ErrorIsLoss',
           Fresh => m.sess = transport,
           \A k \in DOMAIN pending' : pending'[k].sess \in Nat /\ m.sess <= pending'[k].sess,
           \A n \in DOMAIN rpc' : rpc'[n].sess = m.sess,
           Fresh => \A k \in DOMAIN pending' : pending'[k].sess = transport
    PROVE  SessionsInOrder'
  <1>1. /\ \/ handshake # "completed" /\ handshake' = "completed" /\ handshakeBy' = m.sess
           \/ UNCHANGED <<handshake, handshakeBy>>
        /\ UNCHANGED <<transport, calls, reader, terminated, server, toClient, sessions>>
      BY OnMessageHandshake
  <1>2. ReaderHasTransport'
      BY <1>1 DEF SessionsInOrder, ReaderHasTransport
  <1>3. transport \in Nat
      BY DEF TypeOK, ThreadTypes
  <1>4. FreshOwnsAll'
      <2> SUFFICES ASSUME Fresh'
                   PROVE  /\ \A k \in DOMAIN pending' : pending'[k].sess = transport
                          /\ \A n \in DOMAIN rpc' : rpc'[n].sess = transport
          BY <1>1 DEF FreshOwnsAll
      <2>1. CASE UNCHANGED <<handshake, handshakeBy>>
          <3>1. Fresh
              BY <1>1, <2>1 DEF Fresh
          <3> QED
              BY <3>1
      <2>2. CASE handshakeBy' = m.sess
          <3>1. m.sess = transport /\ transport # Null
              BY <1>1, <2>2 DEF Fresh
          <3>2. \A k \in DOMAIN pending' : pending'[k].sess <= transport
              BY <1>1, <3>1 DEF PostedNotLater
          <3> QED
              BY <1>3, <3>1, <3>2
      <2> QED
          BY <1>1, <2>1, <2>2
  <1> QED
      BY <1>2, <1>4 DEF SessionsInOrder

\* The first message of a posted chunk.
LEMMA OnDataReadSessions ==
    ASSUME TypeOK, SessionsInOrder, OnDataRead
    PROVE  SessionsInOrder'
  <1> DEFINE p == Head(pending)
             m == Head(p.msgs)
  <1>1. pending \in Seq(Posted) /\ pending # <<>>
      BY DEF TypeOK, ThreadTypes, OnDataRead
  <1>2. p = pending[1] /\ 1 \in DOMAIN pending
      BY <1>1, TailElements
  <1>3. p.sess \in Nat /\ p.msgs \in Seq(Messages) /\ p.msgs # <<>>
      BY <1>1, <1>2 DEF Posted, OnDataRead
  <1>4. \A k \in DOMAIN pending' : k \in Nat /\ k + 1 \in DOMAIN pending /\ pending'[k] = pending[k + 1]
      BY <1>1, TailElements DEF OnDataRead
  <1>5. m = p.msgs[1] /\ 1 \in DOMAIN p.msgs
      BY <1>3, TailElements
  <1>6. \A n \in DOMAIN rpc' : n + 1 \in DOMAIN p.msgs /\ rpc'[n] = p.msgs[n + 1]
      BY <1>3, TailElements DEF OnDataRead
  <1>7. m.sess = p.sess /\ \A n \in DOMAIN rpc' : rpc'[n].sess = p.sess
      BY <1>2, <1>5, <1>6 DEF SessionsInOrder, ChunksOfOneSession
  <1>8. OnMessage(m)
      BY DEF OnDataRead
  <1>9. UNCHANGED <<transport, calls, reader, terminated, server, toClient, sessions>>
      BY <1>8, OnMessageHandshake
  <1>10. \A k \in DOMAIN pending' : pending'[k].sess \in Nat /\ p.sess <= pending'[k].sess
      <2>1. \A k \in DOMAIN pending : pending[k].sess \in Nat /\ (1 <= k => pending[1].sess <= pending[k].sess)
          BY <1>1, <1>2 DEF Posted, SessionsInOrder, PostedInOrder
      <2> QED
          BY <1>2, <1>4, <2>1
  <1> HIDE DEF p, m
  <1>11. PostedNotLater'
      BY <1>2, <1>4, <1>7, <1>9 DEF SessionsInOrder, PostedNotLater
  <1>12. PostedInOrder'
      BY <1>4, <1>7, <1>10 DEF SessionsInOrder, PostedInOrder
  <1>13. ChunksOfOneSession'
      BY <1>4, <1>7, <1>9 DEF SessionsInOrder, ChunksOfOneSession
  <1>14. ConnectIsLast' /\ ErrorIsLoss'
      BY <1>4, <1>9 DEF SessionsInOrder, ConnectIsLast, ErrorIsLoss
  <1>15. Fresh => p.sess = transport /\ \A k \in DOMAIN pending' : pending'[k].sess = transport
      BY <1>2, <1>4 DEF SessionsInOrder, FreshOwnsAll
  <1> QED
      BY <1>3, <1>7, <1>8, <1>10, <1>11, <1>12, <1>13, <1>14, <1>15, HandledSessions

\* The next message of the chunk.
LEMMA ProcessBufferSessions ==
    ASSUME TypeOK, SessionsInOrder, ProcessBuffer
    PROVE  SessionsInOrder'
  <1> DEFINE m == Head(rpc)
  <1>1. rpc \in Seq(Messages) /\ rpc # <<>>
      BY DEF TypeOK, ThreadTypes, ProcessBuffer
  <1>2. m = rpc[1] /\ 1 \in DOMAIN rpc
      BY <1>1, TailElements
  <1>3. m.sess \in Nat
      <2>1. rpc[1] \in Messages
          BY <1>1, <1>2
      <2> QED
          BY <1>2, <2>1 DEF Messages
  <1>4. \A n \in DOMAIN rpc' : n + 1 \in DOMAIN rpc /\ rpc'[n] = rpc[n + 1]
      BY <1>1, TailElements DEF ProcessBuffer
  <1>5. pending' = pending /\ OnMessage(m)
      BY DEF ProcessBuffer
  <1>6. UNCHANGED <<transport, calls, reader, terminated, server, toClient, sessions>>
      BY <1>5, OnMessageHandshake
  <1>7. \A n \in DOMAIN rpc' : rpc'[n].sess = m.sess
      BY <1>2, <1>4 DEF SessionsInOrder, ChunksOfOneSession
  <1>8. \A k \in DOMAIN pending' : pending'[k].sess \in Nat /\ m.sess <= pending'[k].sess
      BY <1>2, <1>5 DEF SessionsInOrder, PostedInOrder, TypeOK, ThreadTypes, Posted
  <1> HIDE DEF m
  <1>9. PostedNotLater' /\ ConnectIsLast' /\ ErrorIsLoss'
      BY <1>4, <1>5, <1>6 DEF SessionsInOrder, PostedNotLater, ConnectIsLast, ErrorIsLoss
  <1>10. PostedInOrder'
      BY <1>5, <1>7, <1>8 DEF SessionsInOrder, PostedInOrder
  <1>11. ChunksOfOneSession'
      BY <1>5, <1>6, <1>7 DEF SessionsInOrder, ChunksOfOneSession
  <1>12. Fresh => m.sess = transport /\ \A k \in DOMAIN pending' : pending'[k].sess = transport
      BY <1>2, <1>5 DEF SessionsInOrder, FreshOwnsAll, m
  <1> QED
      BY <1>3, <1>5, <1>7, <1>8, <1>9, <1>10, <1>11, <1>12, HandledSessions

----------------------------------------------------------------------------
(* The reader thread and the server.                                       *)

\* What the reader thread and the application post is for the transport in use,
\* which is the latest.
LEMMA PostedForTransport ==
    ASSUME TypeOK, SessionsInOrder, transport # Null,
           UNCHANGED <<transport, rpc, calls, server, sessions, handshake, handshakeBy,
                       terminated>>,
           reader' = "failed" => reader = "failed",
           NEW p, pending' = Append(pending, p), p.sess = transport,
           p.kind = "error" => terminated /\ server = "closed",
           \A n \in DOMAIN p.msgs : p.msgs[n].sess = transport,
           \A n \in DOMAIN toClient' : toClient'[n].sess = transport
    PROVE  SessionsInOrder'
  <1>1. /\ pending \in Seq(Posted) /\ transport \in Nat /\ transport # Null
        /\ sessions \in Nat /\ Len(pending) \in Nat
      BY DEF TypeOK, ThreadTypes
  <1>2. \A k \in DOMAIN pending' :
           \/ k \in DOMAIN pending /\ k <= Len(pending) /\ pending'[k] = pending[k]
           \/ k = Len(pending) + 1 /\ pending'[k] = p
      BY <1>1, AppendElements
  <1>3. \A k \in DOMAIN pending : k \in Nat /\ pending[k].sess \in Nat /\ pending[k].sess <= transport
      BY <1>1 DEF Posted, SessionsInOrder, PostedNotLater
  <1>4. ReaderHasTransport'
      BY <1>1 DEF ReaderHasTransport
  <1>5. ConnectIsLast'
      BY <1>2 DEF SessionsInOrder, ConnectIsLast
  <1>6. PostedNotLater'
      BY <1>1, <1>2 DEF SessionsInOrder, PostedNotLater
  <1>7. PostedInOrder'
      <2>1. \A j, k \in DOMAIN pending' : j <= k => pending'[j].sess <= pending'[k].sess
          BY <1>1, <1>2, <1>3 DEF SessionsInOrder, PostedInOrder
      <2>2. \A n \in DOMAIN rpc, k \in DOMAIN pending' : rpc[n].sess <= pending'[k].sess
          BY <1>1, <1>2 DEF SessionsInOrder, PostedInOrder, PostedNotLater
      <2> QED
          BY <2>1, <2>2 DEF PostedInOrder
  <1>8. ChunksOfOneSession'
      BY <1>2 DEF SessionsInOrder, ChunksOfOneSession
  <1>9. ErrorIsLoss'
      BY <1>2 DEF SessionsInOrder, ErrorIsLoss
  <1>10. FreshOwnsAll'
      BY <1>2 DEF SessionsInOrder, FreshOwnsAll, Fresh
  <1> QED
      BY <1>4, <1>5, <1>6, <1>7, <1>8, <1>9, <1>10 DEF SessionsInOrder

\* The application posts a Reset.
LEMMA PostResetSessions ==
    ASSUME TypeOK, SessionsInOrder, PostReset
    PROVE  SessionsInOrder'
  <1> DEFINE p == [kind |-> "reset", sess |-> transport, msgs |-> <<>>]
  <1>1. /\ pending' = Append(pending, p) /\ p.sess = transport /\ p.kind # "error"
        /\ \A n \in DOMAIN p.msgs : p.msgs[n].sess = transport
      BY DEF PostReset
  <1>2. /\ transport # Null
        /\ UNCHANGED <<transport, rpc, calls, server, sessions, handshake, handshakeBy,
                       terminated, reader, toClient>>
      BY DEF PostReset, sessionVars, readerVars, serverVars
  <1>3. \A n \in DOMAIN toClient' : toClient'[n].sess = transport
      BY <1>2 DEF SessionsInOrder, ChunksOfOneSession
  <1> HIDE DEF p
  <1> QED
      BY <1>1, <1>2, <1>3, PostedForTransport

\* The reader thread keeps the order of sessions.
LEMMA ReaderStepSessions ==
    ASSUME TypeOK, SessionsInOrder, ReaderStep
    PROVE  SessionsInOrder'
  <1>1. UNCHANGED <<transport, rpc, calls, server, sessions, handshake, handshakeBy>>
      BY DEF ReaderStep, ReaderCheck, ReaderTimeout, ReaderData, ReaderFails,
             ReaderPostsError, sessionVars, serverVars
  <1>2. CASE ReaderCheck \/ ReaderTimeout \/ ReaderFails
      <2>1. /\ UNCHANGED <<pending, toClient>> /\ reader # "none"
            /\ terminated => terminated'
            /\ reader' = "failed" => terminated' /\ server = "closed"
          BY <1>2 DEF ReaderCheck, ReaderTimeout, ReaderFails
      <2>2. ErrorIsLoss'
          BY <1>1, <2>1 DEF SessionsInOrder, ErrorIsLoss
      <2> QED
          BY <1>1, <2>1, <2>2
          DEF SessionsInOrder, ReaderHasTransport, ConnectIsLast, PostedNotLater,
              PostedInOrder, ChunksOfOneSession, FreshOwnsAll, Fresh
  <1>3. CASE ReaderData
      <2>1. PICK n \in 1..MaxChunk :
              /\ n <= Len(toClient)
              /\ pending' = Append(pending, [kind |-> "data", sess |-> transport,
                                             msgs |-> SubSeq(toClient, 1, n)])
              /\ toClient' = SubSeq(toClient, n + 1, Len(toClient))
          BY <1>3 DEF ReaderData
      <2>2. toClient \in Seq(Messages) /\ Len(toClient) \in Nat /\ n \in Nat
          BY BoundsAssumption DEF TypeOK, ServerTypes
      <2>3. \A k \in DOMAIN SubSeq(toClient, 1, n) :
               SubSeq(toClient, 1, n)[k].sess = transport
          <3>1. 1 \in 1..(Len(toClient) + 1) /\ n \in (1 - 1)..Len(toClient)
              BY <2>1, <2>2
          <3>2. \A k \in DOMAIN SubSeq(toClient, 1, n) :
                   k \in DOMAIN toClient /\ SubSeq(toClient, 1, n)[k] = toClient[k]
              BY <2>1, <2>2, <3>1, SubSeqProperties
          <3> QED
              BY <3>2 DEF SessionsInOrder, ChunksOfOneSession
      <2>4. \A k \in DOMAIN toClient' : toClient'[k].sess = transport
          <3>1. /\ n + 1 \in 1..(Len(toClient) + 1)
                /\ Len(toClient) \in (n + 1 - 1)..Len(toClient)
              BY <2>1, <2>2
          <3>2. \A k \in DOMAIN toClient' :
                   n + k \in DOMAIN toClient /\ toClient'[k] = toClient[n + k]
              BY <2>1, <2>2, <3>1, SubSeqProperties
          <3> QED
              BY <3>2 DEF SessionsInOrder, ChunksOfOneSession
      <2> DEFINE p == [kind |-> "data", sess |-> transport, msgs |-> SubSeq(toClient, 1, n)]
      <2>5. /\ pending' = Append(pending, p) /\ p.sess = transport /\ p.kind # "error"
            /\ \A k \in DOMAIN p.msgs : p.msgs[k].sess = transport
          BY <2>1, <2>3
      <2>6. transport # Null /\ reader' # "failed" /\ terminated' = terminated
          BY <1>3 DEF ReaderData, SessionsInOrder, ReaderHasTransport
      <2> HIDE DEF p
      <2> QED
          BY <1>1, <2>4, <2>5, <2>6, PostedForTransport
  <1>4. CASE ReaderPostsError
      <2> DEFINE p == [kind |-> "error", sess |-> transport, msgs |-> <<>>]
      <2>1. /\ pending' = Append(pending, p) /\ p.sess = transport
            /\ \A k \in DOMAIN p.msgs : p.msgs[k].sess = transport
          BY <1>4 DEF ReaderPostsError
      <2>2. /\ transport # Null /\ reader' # "failed" /\ terminated' = terminated
            /\ toClient' = toClient
          BY <1>4 DEF ReaderPostsError, SessionsInOrder, ReaderHasTransport
      <2>3. terminated /\ server = "closed"
          BY <1>4 DEF ReaderPostsError, SessionsInOrder, ErrorIsLoss
      <2>4. \A k \in DOMAIN toClient' : toClient'[k].sess = transport
          BY <2>2 DEF SessionsInOrder, ChunksOfOneSession
      <2> HIDE DEF p
      <2> QED
          BY <1>1, <2>1, <2>2, <2>3, <2>4, PostedForTransport
  <1> QED
      BY <1>2, <1>3, <1>4 DEF ReaderStep

\* The server writes only to the connection in use.
LEMMA ServerStepSessions ==
    ASSUME TypeOK, SessionsInOrder, ServerStep
    PROVE  SessionsInOrder'
  <1>1. /\ UNCHANGED <<transport, rpc, calls, sessions, handshake, handshakeBy, reader,
                       terminated, pending>>
        /\ server = "closed" => server' = "closed"
      BY DEF ServerStep, ServerAnswers, ServerSends, ServerCloses, sessionVars, readerVars
  <1>2. toClient \in Seq(Messages)
      BY DEF TypeOK, ServerTypes
  <1>3. \/ toClient' = toClient
        \/ \E m : m.sess = transport /\ toClient' = Append(toClient, m)
      BY DEF ServerStep, ServerAnswers, ServerSends, ServerCloses, Message
  <1>4. \A n \in DOMAIN toClient' : toClient'[n].sess = transport
      BY <1>2, <1>3, AppendElements DEF SessionsInOrder, ChunksOfOneSession
  <1>5. ChunksOfOneSession'
      BY <1>1, <1>4 DEF SessionsInOrder, ChunksOfOneSession
  <1>6. ErrorIsLoss'
      BY <1>1 DEF SessionsInOrder, ErrorIsLoss
  <1> QED
      BY <1>1, <1>5, <1>6 DEF SessionsInOrder, ReaderHasTransport, ConnectIsLast,
         PostedNotLater, PostedInOrder, FreshOwnsAll, Fresh

----------------------------------------------------------------------------
\* Every step keeps the order of sessions.
LEMMA NextSessions == TypeOK /\ SessionsInOrder /\ [Next]_vars => SessionsInOrder'
  <1> SUFFICES ASSUME TypeOK, SessionsInOrder, [Next]_vars PROVE SessionsInOrder'
      OBVIOUS
  <1>1. CASE ApplicationStep
      BY <1>1, ResetSessions, PostResetSessions, SetTransportSessions, RequestSessions
      DEF ApplicationStep
  <1>2. CASE MainStep
      BY <1>2, OnDataReadSessions, ProcessBufferSessions, OnPostedSessions,
         LostReturnsSessions, JoinReturnsSessions DEF MainStep
  <1>3. CASE ReaderStep
      BY <1>3, ReaderStepSessions
  <1>4. CASE ServerStep
      BY <1>4, ServerStepSessions
  <1>5. CASE UNCHANGED vars
      BY <1>5 DEF vars, sessionVars, readerVars, serverVars, SessionsInOrder,
         ReaderHasTransport, ConnectIsLast, PostedNotLater, PostedInOrder,
         ChunksOfOneSession, ErrorIsLoss, FreshOwnsAll, Fresh
  <1> QED
      BY <1>1, <1>2, <1>3, <1>4, <1>5 DEF Next

\* The sessions of a client follow each other, for any number of sessions,
\* requests and messages, however Reset and SetTransport are nested in handlers
\* and whenever the reader thread posts.
THEOREM SessionsFollow == Spec => []SessionsInOrder
  <1>1. Init => TypeOK /\ SessionsInOrder
      BY InitTypeOK, InitSessions
  <1>2. TypeOK /\ SessionsInOrder /\ [Next]_vars => (TypeOK /\ SessionsInOrder)'
      BY NextTypeOK, NextSessions
  <1> QED
      BY <1>1, <1>2, PTL DEF Spec

\* A reader thread that runs has a transport to read from: Reset joins it before
\* it deletes the transport.
THEOREM ReaderNeverDangles == Spec => []ReaderHasTransport
  <1>1. SessionsInOrder => ReaderHasTransport
      BY DEF SessionsInOrder
  <1> QED
      BY <1>1, SessionsFollow, PTL

\* Once a session's own server has completed the handshake, nothing posted for an
\* earlier session is left to be handled, and a posted connection error is the
\* loss of this connection.
THEOREM OwnHandshakeIsClean == Spec => []NothingStaleOnceFresh
  <1>1. SessionsInOrder => NothingStaleOnceFresh
      BY DEF SessionsInOrder, FreshOwnsAll, ErrorIsLoss, NothingStaleOnceFresh, Fresh
  <1> QED
      BY <1>1, SessionsFollow, PTL
=============================================================================
