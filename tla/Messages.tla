------------------------------ MODULE Messages ------------------------------
(***************************************************************************)
(* The conversions To and From of the protocol messages, and ObjGenerator, *)
(* which finds the class of a message that is received.                    *)
(*                                                                         *)
(* A conversion is a table of rows: where a member is written in the JSON  *)
(* object, when it is, and where and with which default it is read.  One   *)
(* operator To and one From work on every class.                           *)
(*                                                                         *)
(* A JSON object is a function from the paths of its leaves to tagged      *)
(* values; that cJSON parses what it has printed is taken for granted.     *)
(***************************************************************************)
EXTENDS DapStructs, SequencesExt

CONSTANTS
    MaxChanged, \* bound: members of a message that differ from their initial values
    Late        \* classes whose objects the receiver may construct itself

----------------------------------------------------------------------------
(* Rows.  default is <<>> where the getter is called without a default.    *)

Row(m, when, from, default) ==
    [member |-> m, at |-> <<m>>, when |-> when, from |-> from, default |-> default,
     number |-> FALSE]
Prop(m) == Row(m, "always", <<m>>, <<>>)           \* ADD_PROP, GET_PROP
Or(m, d) == Row(m, "always", <<m>>, <<d>>)         \* ADD_PROP, Get...(d)
Props(ms) == [i \in DOMAIN ms |-> Prop(ms[i])]
\* json.AddObject(parent) and json[parent]
In(parent, rows) ==
    [i \in DOMAIN rows |-> [rows[i] EXCEPT !.at = <<parent>> \o @,
                                           !.from = <<parent>> \o @]]
Body(rows) == In("body", rows)
OwnArguments == <<Prop("arguments")>>

BaseRows == [
    ProtocolMessage |-> Props(<<"seq", "type">>),
    Request |-> Props(<<"command">>),
    \* From reads the object "arguments" itself as an integer
    CancelRequest |-> <<[In("arguments", Props(<<"requestId">>))[1]
                            EXCEPT !.from = <<"arguments">>]>>,
    Event |-> Props(<<"event">>),
    Response |-> Props(<<"request_seq", "success", "message", "command">>)]

EventRows == [
    StoppedEvent |-> Body(Props(<<"reason", "text", "description", "allThreadsStopped",
                                  "threadId">>)),
    ContinuedEvent |-> Body(<<Prop("threadId"), Or("allThreadsContinued", FALSE)>>),
    ExitedEvent |-> Body(Props(<<"exitCode">>)),
    ThreadEvent |-> Body(Props(<<"reason", "threadId">>)),
    OutputEvent |-> Body(Props(<<"category", "output">>))]

BreakpointRows == [
    Source |-> <<Prop("name"), Row("path", "nonEmpty", <<"path">>, <<>>),
                 Row("sourceReference", "positive", <<"sourceReference">>, <<0>>)>>,
    StackFrame |-> Props(<<"name", "id", "line", "source">>),
    Breakpoint |-> Props(<<"id", "verified", "message", "line", "column", "endLine",
                           "endColumn", "source">>),
    BreakpointEvent |-> Body(Props(<<"reason", "breakpoint">>)),
    ProcessEvent |-> Body(<<Prop("name"), Prop("systemProcessId"),
                            Or("isLocalProcess", TRUE), Prop("startMethod"),
                            Prop("pointerSize")>>)]

StartRows == [
    InitializeRequestArguments |->
        Props(<<"clientID", "clientName", "adapterID", "locale", "linesStartAt1",
                "columnsStartAt1", "pathFormat", "supportsInvalidatedEvent">>),
    InitializeRequest |-> OwnArguments]

LaunchRows == [
    LaunchRequestArguments |->
        Props(<<"noDebug", "program", "args", "cwd", "stopAtBeginningOfMainSubprogram",
                "env">>),
    LaunchRequest |-> OwnArguments,
    \* redirectOutput and debugOptions are written too; they are constants
    AttachRequestArguments |-> Props(<<"arguments", "pid">>),
    AttachRequest |-> OwnArguments,
    DisconnectRequest |-> In("arguments", <<Prop("restart"), Or("terminateDebuggee", TRUE)>>),
    BreakpointLocationsRequest |-> OwnArguments]

\* BreakpointLocation and BreakpointLocationsArguments: From reads line from
\* "restart", and does not read endLine.
LocationRows == <<Row("line", "always", <<"restart">>, <<-1>>), Or("column", -1),
                  Row("endLine", "always", <<>>, <<-1>>), Or("endColumn", -1)>>

LocationsRows == [
    BreakpointLocationsArguments |-> <<Prop("source")>> \o LocationRows,
    StepArguments |-> <<Prop("threadId"), Or("singleThread", TRUE), Or("granularity", "line")>>,
    BreakpointLocation |-> LocationRows,
    Thread |-> <<Or("id", -1), Prop("name")>>,
    BreakpointLocationsResponse |-> Body(Props(<<"breakpoints">>))]

SetBreakpointsRows == [
    SourceBreakpoint |-> <<Or("line", -1), Or("condition", "")>>,
    FunctionBreakpoint |-> <<Or("name", ""), Or("condition", "")>>,
    SetBreakpointsArguments |-> Props(<<"source", "breakpoints">>),
    SetFunctionBreakpointsArguments |-> Props(<<"breakpoints">>),
    SetBreakpointsRequest |-> OwnArguments,
    SetFunctionBreakpointsRequest |-> OwnArguments]

StepRows == [
    ContinueArguments |-> Props(<<"threadId", "singleThread">>),
    NextArguments |-> Props(<<"threadId", "granularity", "singleThread">>),
    ContinueRequest |-> OwnArguments,
    StepRequest |-> OwnArguments,
    NextRequest |-> OwnArguments,
    \* a Boolean that is read with GetNumber
    ContinueResponse |-> Body(<<[Prop("allThreadsContinued") EXCEPT !.number = TRUE]>>)]

DataRows == [
    SetBreakpointsResponse |-> Body(Props(<<"breakpoints">>)),
    ThreadsResponse |-> Body(Props(<<"threads">>)),
    VariablePresentationHint |-> Props(<<"kind", "visibility", "attributes">>),
    Variable |-> Props(<<"name", "value", "type", "variablesReference", "presentationHint">>),
    ScopesArguments |-> Props(<<"frameId">>),
    ScopesRequest |-> OwnArguments,
    ScopesResponse |-> Body(Props(<<"scopes">>))]

QueryRows == [
    Scope |-> Props(<<"name", "variablesReference", "expensive">>),
    StackTraceArguments |-> Props(<<"threadId">>),
    ValueFormat |-> Props(<<"hex">>),
    VariablesArguments |-> <<Prop("variablesReference"), Or("count", 0), Prop("format")>>,
    StackTraceRequest |-> OwnArguments,
    StackTraceResponse |-> Body(Props(<<"stackFrames">>)),
    VariablesRequest |-> OwnArguments,
    VariablesResponse |-> Body(Props(<<"variables">>))]

TextRows == [
    PauseArguments |-> <<Or("threadId", 0)>>,
    PauseRequest |-> OwnArguments,
    RunInTerminalRequestArguments |-> <<Or("kind", ""), Or("title", ""), Prop("args")>>,
    RunInTerminalRequest |-> OwnArguments,
    RunInTerminalResponse |-> Body(Props(<<"processId">>)),
    SourceArguments |-> <<Prop("source"),
                          Row("sourceReference", "positive", <<"sourceReference">>, <<0>>)>>,
    SourceRequest |-> OwnArguments,
    SourceResponse |-> Body(Props(<<"content", "mimeType">>))]

EvaluateRows == [
    EvaluateArguments |-> <<Or("expression", ""),
                            Row("frameId", "positive", <<"frameId">>, <<-1>>),
                            Or("context", "hover"), Prop("format")>>,
    EvaluateRequest |-> OwnArguments,
    EvaluateResponse |->
        Body(<<Prop("result"), [Row("resultType", "always", <<"type">>, <<>>) EXCEPT !.at = <<"type">>],
               Prop("variablesReference")>>),
    Module |-> Props(<<"id", "name", "path", "version", "symbolStatus", "symbolFilePath",
                       "dateTimeStamp", "addressRange", "isOptimized", "isUserCode">>),
    ModuleEvent |-> Body(Props(<<"reason", "module">>)),
    DebugpyWaitingForServerEvent |-> Body(Props(<<"host", "port">>))]

Tables == BaseRows @@ EventRows @@ BreakpointRows @@ StartRows @@ LaunchRows @@ LocationsRows
            @@ SetBreakpointsRows @@ StepRows @@ DataRows @@ QueryRows @@ TextRows @@ EvaluateRows

\* The class, its base, the base of that, ... : the constructors that run.
RECURSIVE Chain(_)
Chain(c) == IF c = "Any" THEN <<>> ELSE Append(Chain(Structs[c].base), c)

\* All members of a class: a derived constructor runs after those of its bases.
AllMembers == [c \in DOMAIN Structs |->
                 FoldLeft(LAMBDA ms, b : Structs[b].members @@ ms, None, Chain(c))]
Members(c) == AllMembers[c]

\* To and From call those of the base class first.
RowsOf(c) == IF c \in DOMAIN Tables THEN Tables[c] ELSE <<>>
AllRows == [c \in DOMAIN Structs |->
              FoldLeft(LAMBDA rows, b : rows \o RowsOf(b), <<>>, Chain(c))]
Rows(c) == AllRows[c]

\* A constructed object.
RECURSIVE New(_)
New(c) == [m \in DOMAIN Members(c) |-> IF Members(c)[m].type = "obj"
                                       THEN New(Members(c)[m].of) ELSE Members(c)[m].init]

----------------------------------------------------------------------------
(* Json.                                                                   *)

Leaf(tag, val) == [tag |-> tag, val |-> val]
NoJson == Leaf("none", 0)                       \* Json(nullptr)

\* operator[]: a null Json where there is no such child.
Get(j, path) == IF path \in DOMAIN j THEN j[path] ELSE NoJson

GetString(j, d) == IF j.tag = "str" THEN j.val ELSE d
GetNumber(j, d) == IF j.tag = "num" THEN j.val ELSE d
GetInteger(j, d) == IF j.tag = "num" THEN j.val ELSE d

\* m_cjson, a pointer, is compared with cJsonDap_False, which is 0: a JSON false
\* gives the default too.
GetBool(j, d) == IF j.tag = "bool" /\ j.val THEN TRUE ELSE d

GetStringArray(j) == IF j.tag = "arr" THEN j.val ELSE <<>>

\* Environment::To and From.  A variable is a key and a value, texts in which
\* only the character "=" matters.
EnvTo(env) ==
    CASE env.format = "DICTIONARY" -> Leaf("obj", env.vars)
      [] env.format = "LIST" -> Leaf("arr", {v[1] \o <<"=">> \o v[2] : v \in env.vars})
      [] env.format = "NONE" -> NoJson

\* Bug: the text is cut at its last "=".
CutAtLast(text) ==
    LET i == SelectLastInSeq(text, LAMBDA ch : ch = "=")
    IN  <<SubSeq(text, 1, i - 1), SubSeq(text, i + 1, Len(text))>>

\* BeforeFirst('='), AfterFirst('=')
CutAtFirst(text) ==
    LET i == SelectInSeq(text, LAMBDA ch : ch = "=")
    IN  <<SubSeq(text, 1, i - 1), SubSeq(text, i + 1, Len(text))>>

EnvFrom(j) ==
    [format |-> "DICTIONARY",
     vars |-> IF j.tag = "arr"
              THEN {CutAtFirst(t) : t \in {u \in j.val : Contains(u, "=")}} ELSE {}]

----------------------------------------------------------------------------
(* To and From.                                                            *)

IsWritten(row, v) ==
    CASE row.when = "always" -> TRUE
      [] row.when = "nonEmpty" -> v # ""
      [] row.when = "positive" -> v > 0

RECURSIVE To(_, _)

\* What a row adds to the JSON object.
Written(member, row, v) ==
    IF ~IsWritten(row, v) THEN None
    ELSE CASE member.type \in {"str", "id"} -> row.at :> Leaf("str", v)
           [] member.type = "int" -> row.at :> Leaf("num", v)
           [] member.type = "bool" -> row.at :> Leaf("bool", v)
           [] member.type = "strs" -> row.at :> Leaf("arr", v)
           [] member.type = "env" -> IF EnvTo(v).tag = "none" THEN None ELSE row.at :> EnvTo(v)
           [] member.type = "arr" ->
                row.at :> Leaf("arr", [i \in DOMAIN v |-> To(member.of, v[i])])
           [] member.type = "obj" ->
                LET j == To(member.of, v)
                IN  [p \in {row.at \o q : q \in DOMAIN j} |->
                        j[SubSeq(p, Len(row.at) + 1, Len(p))]]

To(c, o) == FoldLeft(LAMBDA j, row : Written(Members(c)[row.member], row, o[row.member]) @@ j,
                     None, Rows(c))

RECURSIVE From(_, _)

\* What From makes of the JSON value a row reads.
Read(member, row, json) ==
    LET j == Get(json, row.from)
        Default(d) == IF row.default = <<>> THEN d ELSE row.default[1]
    IN  CASE member.type = "str" -> GetString(j, Default(""))
          [] member.type = "int" -> GetInteger(j, Default(-1))
          [] member.type = "bool" ->
                IF row.number THEN GetNumber(j, -1) # 0 ELSE GetBool(j, Default(FALSE))
          [] member.type = "id" ->
                IF GetNumber(j, -1) = -1 THEN GetString(j, "") ELSE ToString(GetNumber(j, -1))
          [] member.type = "strs" -> GetStringArray(j)
          [] member.type = "env" -> EnvFrom(j)
          [] member.type = "arr" ->
                LET arr == GetStringArray(j) IN [i \in DOMAIN arr |-> From(member.of, arr[i])]
          [] member.type = "obj" ->
                LET depth == Len(row.from)
                    own == {p \in DOMAIN json : IsStrictPrefix(row.from, p)}
                IN  From(member.of, [q \in {SubSeq(p, depth + 1, Len(p)) : p \in own} |->
                                        json[row.from \o q]])

\* A member that no row reads keeps the value it was constructed with.
From(c, json) ==
    LET rows == Rows(c)
    IN  [m \in DOMAIN Members(c) |->
            IF \E i \in DOMAIN rows : rows[i].member = m
            THEN Read(Members(c)[m],
                      rows[CHOOSE i \in DOMAIN rows : rows[i].member = m], json)
            ELSE New(c)[m]]

----------------------------------------------------------------------------
(* ObjGenerator: the receiver's table of classes, by type and name.        *)

VARIABLES
    registry,    \* m_requests, m_responses, m_events: <<type, name>> to class
    initialized, \* has the receiver called dap::Initialize?
    constructed, \* the classes it has constructed objects of since
    sent,        \* the message the sender has written
    wire,        \* its JSON
    got          \* what FromJSON has made of it

messageVars == <<registry, initialized, constructed, sent, wire, got>>

Message(c, o) == [class |-> c, members |-> o]
NoMessage == Message("nullptr", None)

\* The key under which a class registers its function New.
KeyOf(c) ==
    <<Members(c).type.init,
      IF Members(c).type.init = "event" THEN Members(c).event.init ELSE Members(c).command.init>>

\* The constructors with a call of RegisterRequest, RegisterResponse or
\* RegisterEvent: all but the abstract ones.
Registering(c) == SelectSeq(Chain(c), LAMBDA b :
                     b \notin {"ProtocolMessage", "Request", "Response", "Event"})

\* Objects of the classes cs are constructed: the constructors of a class and of
\* its bases register themselves; insert keeps an entry that is there.  No two
\* classes have the same key.
Construct(reg, cs) ==
    LET new == UNION {ToSet(Registering(c)) : c \in cs}
    IN  reg @@ [k \in {KeyOf(b) : b \in new} |-> CHOOSE b \in new : KeyOf(b) = k]

\* The classes of messages.  dap::Initialize constructs objects of most; StepRequest
\* and EmptyAckResponse register with their derived classes, two classes not at all.
MessageClasses == {c \in DOMAIN Structs : Registering(c) # <<>> /\ Chain(c)[1] = "ProtocolMessage"}
RegisteredClasses ==
    MessageClasses \ {"VariablesRequest", "StepResponse", "StepRequest", "EmptyAckResponse"}

NameOnWire(json) ==
    IF GetString(Get(json, <<"type">>), "") = "event"
    THEN GetString(Get(json, <<"event">>), "") ELSE GetString(Get(json, <<"command">>), "")

\* FromJSON: New constructs the object, and From fills it.
FromJSON(json) ==
    LET key == <<GetString(Get(json, <<"type">>), ""), NameOnWire(json)>>
    IN  IF key \in DOMAIN registry
        THEN Message(registry[key], From(registry[key], json)) ELSE NoMessage

----------------------------------------------------------------------------
(* The messages a program may write: objects that differ from a newly      *)
(* constructed one in a few members.                                       *)

EnvValues ==
    {[format |-> f, vars |-> v] :
        f \in {"DICTIONARY", "LIST", "NONE"},
        v \in SUBSET {<<<<"k">>, <<"v">>>>, <<<<"l">>, <<"v", "=", "v">>>>}}

\* The objects that differ from a new one in at most n members.
RECURSIVE Variants(_, _)
Values(member) ==
    CASE member.type = "int" -> {-1, 0, 1}
      [] member.type \in {"str", "id"} -> {"", "x"}
      [] member.type = "bool" -> BOOLEAN
      [] member.type = "strs" -> {<<>>, <<"x">>, <<"", "x">>}
      [] member.type = "env" -> EnvValues
      [] member.type = "obj" -> Variants(member.of, 1)
      [] member.type = "arr" ->
            {<<>>} \union {<<e>> : e \in Variants(member.of, 1)}
                   \union {<<New(member.of), e>> : e \in Variants(member.of, 1)}
Variants(c, n) ==
    IF n = 0 THEN {New(c)}
    ELSE UNION {{[o EXCEPT ![m] = v] : o \in Variants(c, n - 1), v \in Values(Members(c)[m])} :
                  m \in {k \in DOMAIN Members(c) : c \in MessageClasses =>
                                    k \notin {"type", "command", "event"}}}

\* The objects of every class that programs construct.
SentClasses == MessageClasses \ {"StepRequest", "EmptyAckResponse"}
Objects == [c \in SentClasses |-> Variants(c, MaxChanged)]

----------------------------------------------------------------------------
MessagesInit ==
    /\ registry = None /\ initialized = FALSE /\ constructed = {}
    /\ sent = NoMessage /\ wire = None /\ got = NoMessage

\* Bug: one class is forgotten.
InitializeForgets ==
    /\ ~initialized
    /\ initialized' = TRUE
    /\ registry' = Construct(registry, RegisteredClasses \ {"RunInTerminalResponse"})
    /\ UNCHANGED <<constructed, sent, wire, got>>

\* dap::Initialize in the receiver: an object of every class is constructed.
Initialize ==
    /\ ~initialized
    /\ initialized' = TRUE
    /\ registry' = Construct(registry, RegisteredClasses)
    /\ UNCHANGED <<constructed, sent, wire, got>>

\* The receiver constructs an object of class c for a message of its own.
ConstructOwn(c) ==
    /\ c \in Late
    /\ constructed' = constructed \union {c}
    /\ registry' = Construct(registry, {c})
    /\ UNCHANGED <<initialized, sent, wire, got>>

\* The sender writes a message: To.
Send(c, o) ==
    /\ sent' = Message(c, o)
    /\ wire' = To(c, o)
    /\ UNCHANGED <<registry, initialized, constructed, got>>

\* The receiver gets it: FromJSON.
Receive ==
    /\ wire # None
    /\ got' = FromJSON(wire)
    /\ registry' = IF got'.class = "nullptr" THEN registry
                   ELSE Construct(registry, {got'.class})
    /\ wire' = None
    /\ UNCHANGED <<initialized, constructed, sent>>

\* Both objects are destroyed.
Destroy ==
    /\ sent.class # "nullptr" /\ wire = None
    /\ sent' = NoMessage /\ got' = NoMessage
    /\ UNCHANGED <<registry, initialized, constructed, wire>>

MessagesNext ==
    \/ Initialize
    \/ \E c \in Late : ConstructOwn(c)
    \/ \E c \in SentClasses : sent.class = "nullptr" /\ \E o \in Objects[c] : Send(c, o)
    \/ Receive
    \/ Destroy

MessagesSpec == MessagesInit /\ [][MessagesNext]_messageVars

----------------------------------------------------------------------------
(* Properties.                                                             *)

\* A message has been received.
Received == sent.class # "nullptr" /\ wire = None

\* FromJSON finds the class of every message that was sent, as long as the
\* receiver has called dap::Initialize.  Two classes are left out there: a
\* VariablesRequest and a StepResponse are found only by a receiver that has
\* itself constructed one (Initialize, ObjGenerator::New).
ClassIsFound ==
    [][wire # None /\ wire' = None =>
          got'.class =
              IF \/ initialized /\ sent.class \notin {"VariablesRequest", "StepResponse"}
                 \/ sent.class \in constructed
              THEN sent.class ELSE "nullptr"]_messageVars

\* Members that are no part of the protocol: the client sets them for the application.
IsOwn(c, m) ==
    m \in {"refId", "filepath", "originSource"} \/ <<c, m>> = <<"VariablesResponse", "context">>

\* Where MembersSurvive asks nothing of a value v of member m: a negative
\* reference is none, two members are switched off (#if 0), and the others are
\* what ArriveAsSent is about, with the members that are misread like these.
IsExempt(c, m, v) ==
    \/ IsOwn(c, m)
    \/ m = "sourceReference" /\ v < 0
    \/ c = "StackTraceArguments" /\ m \in {"startFrame", "levels"}
    \/ /\ <<c, m>> \in {<<"DisconnectRequest", "terminateDebuggee">>,
                        <<"StepArguments", "singleThread">>,
                        <<"ProcessEvent", "isLocalProcess">>,
                        <<"ContinueResponse", "allThreadsContinued">>}
       /\ ~v
    \/ c = "EvaluateArguments" /\ m = "frameId" /\ v = 0
    \/ /\ c \in {"BreakpointLocation", "BreakpointLocationsArguments"}
       /\ m \in {"line", "endLine"}
    \/ c = "CancelRequest" /\ m = "requestId"

\* The objects agree in all members that are not exempt.
RECURSIVE Agree(_, _, _)
Agree(c, a, b) ==
    \A m \in DOMAIN Members(c) :
        LET member == Members(c)[m]
        IN  CASE member.type = "obj" -> Agree(member.of, a[m], b[m])
              [] member.type = "arr" ->
                    /\ Len(a[m]) = Len(b[m])
                    /\ \A i \in DOMAIN a[m] : Agree(member.of, a[m][i], b[m][i])
              [] member.type = "env" -> a[m].format = "LIST" => b[m].vars = a[m].vars
              [] OTHER -> a[m] = b[m] \/ IsExempt(c, m, a[m])

\* Every member of a message that is received has the value it was sent with, but
\* for those that IsExempt names and for the environment of a launch request in a
\* format other than LIST, the one a server has chosen "to support" (dap.cpp:634;
\* the To and From of all classes).
MembersSurvive == (Received /\ got.class # "nullptr") => Agree(sent.class, sent.members, got.members)

\* What of a message arrives, of members that the documentation of the protocol
\* gives a meaning (DisconnectRequest::From, Json::GetBool; EvaluateArguments::To;
\* BreakpointLocationsArguments::From):
\*  - dap.hpp:670: whether the debuggee is terminated "can be controlled with the
\*    'terminateDebuggee' argument" of a disconnect request;
\*  - dap.hpp:1247: an expression is evaluated "in the scope of this stack frame";
\*  - dap.hpp:738: breakpointLocations is about the locations "in a given range".
ArriveAsSent ==
    LET was == sent.members
        is == got.members
    IN  (Received /\ got.class = sent.class) =>
          /\ sent.class = "DisconnectRequest" => is.terminateDebuggee = was.terminateDebuggee
          /\ (sent.class = "EvaluateRequest" /\ was.arguments.frameId >= 0) =>
                is.arguments.frameId = was.arguments.frameId
          /\ sent.class = "BreakpointLocationsRequest" =>
                \A m \in {"line", "column", "endLine", "endColumn"} :
                    is.arguments[m] = was.arguments[m]
=============================================================================
