----------------------------- MODULE DapStructs -----------------------------
(***************************************************************************)
(* The structs of dap.hpp: their base classes and their members, with the  *)
(* types and the values they are constructed with.                         *)
(***************************************************************************)
EXTENDS Integers, Sequences, TLC

(* A member has a type, an initial value and, for an object and a vector   *)
(* of objects, the struct it is made of.                                   *)

Member(type, init, of) == [type |-> type, init |-> init, of |-> of]
Num(n) == Member("int", n, "")
Str(s) == Member("str", s, "")
Bool(b) == Member("bool", b, "")
Strs == Member("strs", <<>>, "")
Obj(of) == Member("obj", "", of)
Arr(of) == Member("arr", <<>>, of)
Env == Member("env", [format |-> "DICTIONARY", vars |-> {}], "")
None == [m \in {} |-> m]

Class(base, members) == [base |-> base, members |-> members]
Struct(members) == Class("Any", members)
RequestClass(command, members) == Class("Request", [command |-> Str(command)] @@ members)
ResponseClass(command, members) == Class("Response", [command |-> Str(command)] @@ members)
EventClass(event, members) == Class("Event", [event |-> Str(event)] @@ members)
AckClass(command) == Class("EmptyAckResponse", [command |-> Str(command)])
Arguments(of) == [arguments |-> Obj(of)]

BaseStructs == [
    ProtocolMessage |-> Struct([seq |-> Num(-1), type |-> Str("")]),
    Request |-> Class("ProtocolMessage", [type |-> Str("request"), command |-> Str("")]),
    CancelRequest |-> RequestClass("cancel", [requestId |-> Num(-1)]),
    Event |-> Class("ProtocolMessage", [type |-> Str("event"), event |-> Str("")]),
    Response |-> Class("ProtocolMessage",
        [type |-> Str("response"), request_seq |-> Num(-1), success |-> Bool(TRUE),
         command |-> Str(""), message |-> Str("")]),
    CancelResponse |-> ResponseClass("cancel", None)]

EventStructs == [
    InitializedEvent |-> EventClass("initialized", None),
    StoppedEvent |-> EventClass("stopped",
        [reason |-> Str(""), text |-> Str(""), description |-> Str(""),
         allThreadsStopped |-> Bool(FALSE), threadId |-> Num(-1)]),
    ContinuedEvent |-> EventClass("continued",
        [threadId |-> Num(-1), allThreadsContinued |-> Bool(TRUE)]),
    ExitedEvent |-> EventClass("exited", [exitCode |-> Num(0)]),
    TerminatedEvent |-> EventClass("terminated", None),
    ThreadEvent |-> EventClass("thread", [reason |-> Str(""), threadId |-> Num(0)]),
    OutputEvent |-> EventClass("output", [category |-> Str(""), output |-> Str("")]),
    Source |-> Struct([name |-> Str(""), path |-> Str(""), sourceReference |-> Num(0)])]

BreakpointStructs == [
    Breakpoint |-> Struct(
        [id |-> Num(-1), verified |-> Bool(FALSE), message |-> Str(""),
         source |-> Obj("Source"), line |-> Num(-1), column |-> Num(-1),
         endLine |-> Num(-1), endColumn |-> Num(-1)]),
    Module |-> Struct(
        [id |-> Member("id", "", ""), name |-> Str(""), path |-> Str(""),
         isOptimized |-> Bool(FALSE), isUserCode |-> Bool(FALSE), version |-> Str(""),
         symbolStatus |-> Str(""), symbolFilePath |-> Str(""),
         dateTimeStamp |-> Str(""), addressRange |-> Str("")]),
    ModuleEvent |-> EventClass("module", [reason |-> Str(""), module |-> Obj("Module")]),
    BreakpointEvent |-> EventClass("breakpoint",
        [reason |-> Str(""), breakpoint |-> Obj("Breakpoint")]),
    ProcessEvent |-> EventClass("process",
        [name |-> Str(""), systemProcessId |-> Num(-1), isLocalProcess |-> Bool(TRUE),
         startMethod |-> Str(""), pointerSize |-> Num(8)])]

StartStructs == [
    InitializeRequestArguments |-> Struct(
        [clientID |-> Str(""), clientName |-> Str(""), adapterID |-> Str(""),
         locale |-> Str("en-US"), linesStartAt1 |-> Bool(FALSE),
         columnsStartAt1 |-> Bool(FALSE), supportsInvalidatedEvent |-> Bool(FALSE),
         pathFormat |-> Str("path")]),
    InitializeRequest |-> RequestClass("initialize", Arguments("InitializeRequestArguments")),
    InitializeResponse |-> ResponseClass("initialize", None),
    ConfigurationDoneRequest |-> RequestClass("configurationDone", None),
    EmptyAckResponse |-> ResponseClass("", None),
    ConfigurationDoneResponse |-> AckClass("configurationDone"),
    LaunchRequestArguments |-> Struct(
        [noDebug |-> Bool(FALSE), program |-> Str(""), args |-> Strs, cwd |-> Str(""),
         env |-> Env, stopAtBeginningOfMainSubprogram |-> Bool(TRUE)]),
    LaunchRequest |-> RequestClass("launch", Arguments("LaunchRequestArguments")),
    LaunchResponse |-> AckClass("launch")]

SessionStructs == [
    AttachRequestArguments |-> Struct([pid |-> Num(-1), arguments |-> Strs]),
    AttachRequest |-> RequestClass("attach", Arguments("AttachRequestArguments")),
    AttachResponse |-> AckClass("attach"),
    DisconnectRequest |-> RequestClass("disconnect",
        [restart |-> Bool(FALSE), terminateDebuggee |-> Bool(TRUE)]),
    DisconnectResponse |-> AckClass("disconnect"),
    BreakpointLocationsArguments |-> Struct(
        [source |-> Obj("Source"), line |-> Num(-1), column |-> Num(-1),
         endLine |-> Num(-1), endColumn |-> Num(-1)]),
    StepArguments |-> Struct(
        [threadId |-> Num(-1), singleThread |-> Bool(TRUE), granularity |-> Str("line")]),
    BreakpointLocation |-> Struct(
        [line |-> Num(-1), column |-> Num(-1), endLine |-> Num(-1), endColumn |-> Num(-1)]),
    BreakpointLocationsResponse |-> ResponseClass("breakpointLocations",
        [filepath |-> Str(""), breakpoints |-> Arr("BreakpointLocation")]),
    BreakpointLocationsRequest |-> RequestClass("breakpointLocations",
        Arguments("BreakpointLocationsArguments")),
    SourceBreakpoint |-> Struct([line |-> Num(-1), condition |-> Str("")]),
    FunctionBreakpoint |-> Struct([name |-> Str(""), condition |-> Str("")])]

StepStructs == [
    SetBreakpointsArguments |-> Struct(
        [source |-> Obj("Source"), breakpoints |-> Arr("SourceBreakpoint")]),
    SetFunctionBreakpointsArguments |-> Struct([breakpoints |-> Arr("FunctionBreakpoint")]),
    SetBreakpointsRequest |-> RequestClass("setBreakpoints",
        Arguments("SetBreakpointsArguments")),
    SetBreakpointsResponse |-> ResponseClass("setBreakpoints",
        [breakpoints |-> Arr("Breakpoint"), originSource |-> Str("")]),
    SetFunctionBreakpointsResponse |-> Class("SetBreakpointsResponse",
        [command |-> Str("setFunctionBreakpoints")]),
    SetFunctionBreakpointsRequest |-> RequestClass("setFunctionBreakpoints",
        Arguments("SetFunctionBreakpointsArguments")),
    ContinueArguments |-> Struct([threadId |-> Num(-1), singleThread |-> Bool(FALSE)]),
    NextArguments |-> Struct(
        [threadId |-> Num(-1), granularity |-> Str("line"), singleThread |-> Bool(TRUE)]),
    ContinueRequest |-> RequestClass("continue", Arguments("ContinueArguments")),
    ContinueResponse |-> ResponseClass("continue", [allThreadsContinued |-> Bool(TRUE)]),
    NextRequest |-> RequestClass("next", Arguments("NextArguments")),
    NextResponse |-> AckClass("next"),
    StepRequest |-> RequestClass("step", Arguments("StepArguments")),
    StepInRequest |-> Class("StepRequest", [command |-> Str("stepIn")]),
    StepOutRequest |-> Class("StepRequest", [command |-> Str("stepOut")]),
    StepResponse |-> ResponseClass("step", None),
    StepInResponse |-> ResponseClass("stepIn", None),
    StepOutResponse |-> ResponseClass("stepOut", None)]

DataStructs == [
    StackFrame |-> Struct(
        [id |-> Num(-1), name |-> Str(""), source |-> Obj("Source"), line |-> Num(0)]),
    ThreadsRequest |-> RequestClass("threads", None),
    Thread |-> Struct([id |-> Num(-1), name |-> Str("")]),
    ThreadsResponse |-> ResponseClass("threads", [threads |-> Arr("Thread")]),
    VariablePresentationHint |-> Struct(
        [kind |-> Str(""), attributes |-> Strs, visibility |-> Str("")]),
    Variable |-> Struct(
        [name |-> Str(""), value |-> Str(""), type |-> Str(""),
         variablesReference |-> Num(0), presentationHint |-> Obj("VariablePresentationHint")]),
    ScopesArguments |-> Struct([frameId |-> Num(0)]),
    ScopesRequest |-> RequestClass("scopes", Arguments("ScopesArguments")),
    Scope |-> Struct(
        [name |-> Str(""), variablesReference |-> Num(0), expensive |-> Bool(FALSE)]),
    ScopesResponse |-> ResponseClass("scopes", [scopes |-> Arr("Scope"), refId |-> Num(-1)])]

QueryStructs == [
    StackTraceArguments |-> Struct(
        [threadId |-> Num(0), startFrame |-> Num(0), levels |-> Num(0)]),
    StackTraceRequest |-> RequestClass("stackTrace", Arguments("StackTraceArguments")),
    StackTraceResponse |-> ResponseClass("stackTrace",
        [stackFrames |-> Arr("StackFrame"), refId |-> Num(-1)]),
    ValueFormat |-> Struct([hex |-> Bool(FALSE)]),
    VariablesArguments |-> Struct(
        [variablesReference |-> Num(0), format |-> Obj("ValueFormat"), count |-> Num(0)]),
    VariablesRequest |-> RequestClass("variables", Arguments("VariablesArguments")),
    VariablesResponse |-> ResponseClass("variables",
        [variables |-> Arr("Variable"), refId |-> Num(-1), context |-> Str("VARIABLES")]),
    PauseArguments |-> Struct([threadId |-> Num(0)]),
    RunInTerminalRequestArguments |-> Struct(
        [kind |-> Str(""), title |-> Str(""), args |-> Strs]),
    RunInTerminalRequest |-> RequestClass("runInTerminal",
        Arguments("RunInTerminalRequestArguments")),
    RunInTerminalResponse |-> ResponseClass("runInTerminal", [processId |-> Num(-1)]),
    PauseRequest |-> RequestClass("pause", Arguments("PauseArguments")),
    PauseResponse |-> AckClass("pause")]

\* EvaluateResponse::type hides ProtocolMessage::type: both exist.  port has no
\* initial value in the code; every value is sent, and From assigns it.
TextStructs == [
    SourceArguments |-> Struct([source |-> Obj("Source"), sourceReference |-> Num(0)]),
    SourceRequest |-> RequestClass("source", Arguments("SourceArguments")),
    SourceResponse |-> ResponseClass("source", [content |-> Str(""), mimeType |-> Str("")]),
    EvaluateArguments |-> Struct(
        [expression |-> Str(""), frameId |-> Num(-1), context |-> Str("hover"),
         format |-> Obj("ValueFormat")]),
    EvaluateRequest |-> RequestClass("evaluate", Arguments("EvaluateArguments")),
    EvaluateResponse |-> ResponseClass("evaluate",
        [result |-> Str(""), resultType |-> Str(""), variablesReference |-> Num(0)]),
    DebugpyWaitingForServerEvent |-> EventClass("", [host |-> Str(""), port |-> Num(0)])]

Structs == BaseStructs @@ EventStructs @@ BreakpointStructs @@ StartStructs
             @@ SessionStructs @@ StepStructs @@ DataStructs @@ QueryStructs @@ TextStructs
=============================================================================
