# Verification of wxdap

wxdap is a wxWidgets library for clients of the Debug Adapter Protocol (DAP), with a
small demo application. This directory holds TLA+ models of it, the TLC runs that check
them on small instances and TLAPS proofs for every instance. `PROJECT.json` lists
components, runs, mutants, the source lines of every definition, hazards, findings and
theorems.

## The system

| Component | State | Operations | Interacts with |
|---|---|---|---|
| `Client` (`dap/Client.cpp`) | transport, sequence number, handshake, features, active thread, `m_can_interact`, one queue per kind of request, requests in flight, files by request, reader thread and its flags | the API (`Initialize`, `Launch`, `GetFrames`, ...), `Reset`, `SetTransport`, `OnDataRead`, `OnConnectionError`, `OnMessage` | the reader thread posts to the wx event queue with `CallAfter`; events are fired synchronously at the application, whose handlers call the API again |
| `JsonRPC` (`dap/JsonRPC.cpp`) | the buffer | `AppendBuffer`, `ProcessBuffer`, `Send` | called by `Client` and `ServerProtocol` |
| `StdoutTransport`, `Process`, `UnixProcess`, `Queue` | child process, pipes, queues, two threads | `Execute`, `Read`, `Send`, deletion | `Read` on the client's reader thread, `Send` and deletion on the main thread |
| `SocketTransport`, `Socket`, `SocketServer` | a descriptor; attempts left in `Connect` | `Connect`, `Read`, `Send`, `Start`, `WaitForNewConnection` | the kernel's buffers; `Send` on one thread, `Read` on another |
| `ServerProtocol` | the buffer of its `JsonRPC`, the callback | `Initialize`, `Check`, `ProcessGdbMessage`, `RegisterNetworkCallback` | `JsonRPC`, `Socket`, the program of a debug adapter |
| Messages (`dap/dap.cpp`, `dap/dap.hpp`) | members of 88 classes; `ObjGenerator`'s three tables | `To`, `From`, `FromJSON`, `Initialize`, every constructor | every message passes them |
| `Json` | a cJSON tree and its reference count | getters, adders | messages |
| `StringUtils` | local variables of `BuildArgv` | `BuildArgv`, `WrapWithQuotes` | `StdoutTransport::Execute` |
| `MainFrame` (`dbgcli`) | `m_attaching`, `m_frame_id`, the state of the buttons | one handler per button and per event of the client | the only caller of `Client` |
| `ConnectionString`, `DAPEvent`, `Log`, cJSON, `msw.cpp`, generated UI | | | not modelled, see below |

What is hard about it: three to five threads share flags and pointers; the queue of
posted calls outlives the session it was posted for; handlers of events run inside the
functions that fire them and may tear down the session under them; responses are matched
with requests partly by number and partly by position; bytes arrive in arbitrary chunks;
the peer may vanish at any moment. What makes each component correct:

- `JsonRPC`: chunking is invisible; malformed input never corrupts what is delivered.
- `Client`: a response reaches the application with what belongs to it; a session is not
  disturbed by an earlier one; the reader thread never uses a deleted transport; a lost
  connection ends the session; no join blocks; `CanInteract` follows the debuggee.
- `ServerProtocol`: its program gets the requests in order and once; a `Send` ends.
- Messages: what is sent is what is received, in the class it was sent in.
- `MainFrame`: it calls the client in an order the client is made for, and works with a
  frame of this session and this stop.
- Process: its arguments are those it was given; output arrives in order and none is lost;
  it is deleted once; deletion ends; exit is seen.

## Modules

- `MessageStream` is the abstract specification of a connection that hands over messages.
  Two modules are shown to implement it, each with a refinement mapping (`INSTANCE
  MessageStream WITH ...`): `JsonRPC`, where a message that cannot be taken for one is
  "bad" and one with a wrong length "odd" (the messages behind either may be lost), and
  `ServerProtocol`, where a request that may be dropped is "maybe". Property
  `ImplementsStream` is the safety half (in order, none twice, only what may be left out is
  left out), which is also proved; `DeliversAll` is the liveness half.
- `JsonRPC` models the framing layer; `MCJsonRPC` gives
  the streams. Text is abstracted to units (header, separator, one per payload byte), so a
  read may end anywhere a byte-level read could matter. A header section counts as having
  `Content-Length` only if nothing stands before it, which is what remains of an earlier
  bad section after `m_buffer.erase(headerSize)`. A message says any `long` as its length, or
  none, has a payload of any length and, at its front, a JSON object of any length or none
  (cJSON ignores what is behind it); `headerSize + msglen` is the sum of two `long`s
  (`AddLong`), with `LongMax` a constant.
- `Client` models `dap::Client`, its reader thread and an external server, on whole
  messages (what `JsonRPC` provides). One action per API call and per handler branch.
  `calls` is the stack of calls that have not returned: `OnConnectionError` while its event
  is handled ("lost") and `StopReaderThread` in `join` ("join"), with what the caller still
  does after `Reset`. `ProcessBuffer` is interrupted by handlers: `rpc` holds the rest of
  the chunk, and `Reset` clears it. `sess`, `handshakeBy`, `sessions` and `event` are
  history; no code reads them. `MCClient` holds instances.
- `StdoutTransport` models the transport over a child process: the child, the two threads
  of `Process`, the reader thread of the client and the main thread. `delete m_process` is
  split into `Terminate`, the joins and the clearing of the pointer, since another thread
  may act in between; the queue and the pipe go with the object (`Freed`). `autoReap` says whether the kernel reaps children (the application
  ignores SIGCHLD); otherwise an exited child is a zombie, for which `kill(pid, 0)` succeeds.
- `ServerProtocol` composes the two ends of a TCP connection: `SocketTransport` and the two
  threads of `Client` at one end, `SocketServer` and `ServerProtocol` at the other, `Socket` at
  both. Of the bytes in a buffer only their number is kept, since `JsonRPC` shows that
  chunking is invisible. A `Send` moves any number of units the kernel has room for, and
  tries again while it has none (`RetryWrite`). A plan lists the requests of a client, and for
  each whether the client may send it before it has the answer to initialize. The server's
  thread is its program counter `pc`; an exception out of `Read` or `Send` ends it.
- `DapStructs` lists the members of every class of `dap.hpp` with their initial values, and
  `Messages` the conversions: a table with one row per member (where `To` writes it and when,
  where `From` reads it and with which default) and one pair of operators for all classes.
  A JSON value is a function from the paths of its leaves to tagged values, and the getters
  are those of `Json`, including a `GetBool` that gives the default for a JSON false. The state is that of
  `ObjGenerator`: constructing an object registers its class, so what `FromJSON` knows depends
  on what has been constructed. `IsExempt` lists the members `MembersSurvive` asks nothing of.
- `CommandLine` models `Execute`, which joins the arguments to one string, and `BuildArgv`,
  which cuts it again, one action per character, with its local variables as they are (its
  state inside a quoted part is named by the quote). `MCAdapter` checks it together with
  `StdoutTransport` and `Messages`: the three share no state, so a behaviour is about one of
  them (`part`).
- `MainFrame` extends `Client`: the application that may do anything is replaced by the
  handlers of `dbgcli`. A handler is the sequence of calls it makes (`todo`), and it runs to
  its end before the event loop goes on, unless a call waits for the reader thread. Buttons
  are enabled by the state of the last idle moment (`ui`). `OnScopes` asks for the variables of
  every scope of the response, of which there are up to `MaxScopes`. `stops` and `frameOf` belong to the
  external server.

- `ClientProofs` (types and sessions), `RequestProofs` (what is found by number) and
  `OrderProofs` (what depends on the order of messages) hold the theorems about `Client`, and
  `FrameProofs` those about `MainFrame`, each extending the one before; `JsonRPCProofs`,
  `ServerProofs` and `StdoutProofs` (with the command line) those about the other components.
  `FlattenTheorems` holds lemmas about `FlattenSeq`.

Definitions whose comment begins with "Bug:" are plausible mistakes; `PROJECT.json` pairs
each with the property that catches it.

## Runs

| Run | Shows | Bounds |
|---|---|---|
| `framing` | every chunking of every stream of up to three messages (well-formed, unparsable, without `Content-Length` or with one that is 0, negative, too small, too large or overflowing): delivery is complete, ordered and loses nothing; refinement of `MessageStream`, safety and liveness | payloads of 1-2 units, reads of 1-5 units: boundaries fall inside every part, and a read spans messages; `LongMax` 15, longer than any buffer |
| `requests` | responses accepted or refused: the front of each queue belongs to the response; what is found by request number is right in any order; what is tracked is forgotten; `CanInteract` tells whether the debuggee is stopped once all is handled | initialize and two requests, two arguments: enough for two to be exchanged. By constraint `OneConcern` the two are any of the commands that neither run nor stop the debuggee, or steps and pauses of one thread with two events, or the client answers a reverse request |
| `sessions` | `Reset` and `SetTransport` at any moment, nested in handlers to depth two, against the reader thread; liveness | two sessions; the proofs cover any number |
| `program` | the demo program: initialize first, all but pause after its answer; session and currency of `m_frame_id` | six requests, two scopes, two sessions, two events; constraint `Small` cuts the second session at its initialize, one request under way to the server and two messages under way to the client: a stop, its stack trace and a next stop overtake each other within them |
| `server` | order and completeness of the requests; every `Send` ends | initialize and up to three requests of two units; the kernel holds two messages in one direction and half of one in the other, so that the handshake finds requests behind initialize and both ends block in `Send` at once; 0 or 2 attempts to connect |
| `adapter` | of a debug adapter as a child process: output (in order, without a gap, all of it until the object is freed), exit and deletion (once) in every interleaving; arguments of the process; round trip of every class but for `IsExempt`, lookup of the class | three pieces of output: one in each buffer; commands of up to two arguments of up to three characters (a letter, a space, a double quote, a backslash); objects that differ from a new one in two members, with one changed member in each nested object and up to two elements in an array |
| the others | one disagreement each between the code and its comments, see Findings | small instances that show them |

`CHECK_DEADLOCK FALSE` in the runs of `Client` and `MainFrame`: the application and the server
may stop for good, and their requests and events are bounded.

The server is constrained as DAP constrains it: it answers `initialize` first, sends events
only after that, sends "stopped" only when the debuggee runs. The application sends other
requests only after the handshake (`Allowed`, `dap.hpp:555`), or without a connection; only `Pause`
may come once initialize is sent (`Callable`), as the demo program lets it against `dap.hpp:557` (run
`pause`). `OrderedCommands`
are the commands whose requests the server answers in the order it got them, which DAP does
not promise: `requests` needs it for the commands with a queue, since `OnMessage` attaches
refIds and callbacks by position (`Client.cpp:318`); without it `RefIdMatches` fails.
`RefusedCommands` are those it may refuse: `requests` leaves the steps out, since every
response to a step switches `m_can_interact` off, a refusal too (`Client.cpp:344`): after a
refused step the client believes that the debuggee runs, and the comment above that line, by
which these responses tell that a command was accepted, is wrong.

A session is `Fresh` when its handshake was completed by its own server. It need not be: an
initialize response posted for an earlier session is accepted by the next one, since neither
`Reset` nor `SetTransport` removes what has been posted (and for the same reason a connection
error of an earlier session ends a new one, run `stale_lost`). The properties about responses
are stated for sessions that are `Fresh`; that such a session is clean is a theorem.

Fairness: in `Client`, the event loop and the reader thread keep running (weak fairness of
each): handlers return, and `Read` returns within its timeout of 5 ms. The application and the
server promise nothing. In `StdoutTransport`, all threads keep running, a started `Send` and a
started `Reset` go on; the child promises nothing. In `JsonRPC`, bytes keep arriving and
`ProcessBuffer` loops. In `ServerProtocol`, the threads of the client and of a server that was
started keep running, the client sends its plan, and the server's program registers its
callback and goes on calling `Check` and `ProcessGdbMessage` (strong fairness of the latter:
the two alternate). Starting the server and closing the connection are not fair.

`MembersSurvive` asks nothing of the members and values in `IsExempt`: what the client fills in
itself (`refId`, `filepath`, `originSource`, `context`, marked as extensions in `dap.hpp`); negative
source references; `startFrame` and `levels`, which are switched off; and what is known to be lost:
frame 0, `line` and `endLine` of a breakpoint location and `terminateDebuggee` when it is false (all
three in `ArriveAsSent`, run `roundTrip`), with three more Booleans that are misread
(`singleThread` of `StepArguments`, `isLocalProcess`, and `allThreadsContinued` of
`ContinueResponse`, which is read with `GetNumber`), and `requestId` of a `CancelRequest`. An
environment has to survive in the format LIST only, the one `Environment::From` says it supports.
Nothing requires the loss: the property would hold of corrected conversions too.

## Proofs

Every theorem holds for every value of the constants, from the named assumptions of the
module it is about (ids are positive numbers, of which the program needs one, commands and events are known ones, bounds and
sizes are naturals, a plan begins with initialize). What is bounded in the runs (sessions,
requests, messages, output, buffers) is arbitrary here.

`Client`:

- `TypeCorrect`: `TypeOK` is an invariant (one lemma per group of actions).
- `SessionsFollow`: `SessionsInOrder` is an invariant. It is the strengthening that makes
  the next two inductive: a transport being connected is later than everything posted
  (`ConnectIsLast`), nothing is posted for a later session than the one in use
  (`PostedNotLater`), the event queue is sorted by session and a chunk belongs to one
  session (`PostedInOrder`, `ChunksOfOneSession`), an error of the connection in use is
  posted only after its loss (`ErrorIsLoss`). If the message that completes the handshake
  is this session's, all that is behind it lies between it and the session in use, so it is
  this session's too (`FreshOwnsAll`, lemma `HandledSessions`).
- `ReaderNeverDangles` and `OwnHandshakeIsClean`: `ReaderHasTransport` and
  `NothingStaleOnceFresh` are invariants.
- `RequestsTracked`: `RequestsKept` is an invariant. It speaks of `Incoming`, the messages in
  `rpc`, in the event queue and on the connection as one sequence, since reading and posting
  move messages within it and change nothing else (lemma `QuietStep`). Numbers on their way
  are not above `seq` and nothing is recorded above it (`NumbersTaken`); no two requests or
  answers under way have the same number (`NumbersDiffer`); each is recorded under its number
  (`AllRecorded`); what is recorded of a tracked request is under way while the server lives
  (`NoneLeft`). It must cover sessions whose handshake is not completed yet (`Clean`), and of
  their messages the own ones only. `OutstandingInFlight`, `AnswersForgotten`, `OriginIsOwn` and
  `FileIsOwn` follow: `InFlightCoversOutstanding`, `TrackedAreForgotten`, `OriginMatches` and
  `FilepathMatches` hold whatever the order of the answers.
- `QueuesTracked`: `QueuesKept` is an invariant if `QueueCommands \subseteq OrderedCommands`, the
  condition of run `requests`. Each queue is the arguments of the answers to be handled, then
  of the requests to be answered, then, once the server is gone, of requests that were lost
  (`Mirrors`); before the handshake all of them are empty (`NoneEarly`). So the front of a queue
  belongs to the next answer: `RefIdIsOwn` and `QueuesAreOutstanding`.
- `InteractIsStopped`: `InteractIffStopped` is an invariant if no step may be refused, the
  condition of run `requests`. The invariant (`InteractKept`): of the messages that stop or run
  the debuggee the last one to be handled tells what it does now, and when there is none
  `canInteract` does (`FollowsDebuggee`, under that condition). Messages that come before the
  handshake are dropped, so it also says that the response to initialize comes first
  (`InitializeFirst`), whatever is refused.

`MainFrame` (`FrameProofs`):

- `ProgramUsesClient`: a step of the program is a step of `Client` or leaves it alone, so that
  `TypeOK`, `SessionsInOrder`, `RequestsKept` and `InteractKept` hold in the program (`ClientKept`).
- `CallsInOrder`: `InitializeComesFirst` is an invariant. `CallsKept` lists the rests of handlers that can
  be left to run and says that a call that waits for the reader thread is the only one
  (`OneCall`); that there is no transport between `Reset` and `SetTransport` (`NoneBetween`), that
  a new one is unused until initialize is sent (`UnusedAtFirst`) and then only by pause until
  the answer (`AnswerAwaited`); and that a button, though it shows an older state, shows one from
  which the session can only have gone on to be completed or to end (`ButtonsFollow`).
- `FrameIsOwn`: `FrameOfThisSession` is an invariant. Answers to stackTrace on their way have
  frames of the session (`TracesOwn`), and until the handshake no frame is kept (`FrameKept`). The
  property excepts a session whose handshake was completed by a message of an earlier one:
  without the exception it is false from the third session on, where an initialize response
  and a stack trace that were both posted for the second one are handled in the third, one after the
  other. The run, with two sessions, had not shown that; the attempt to prove it did.
- `FrameIsOfLastStop`: `FrameIsCurrent` is an invariant if stackTrace is not refused, the condition
  of run `program`; the order of the answers does not matter. While the debuggee is stopped, the
  frame of the stop is known or on its way: the event, the request or the answer (`OnItsWay`); once
  it is given no older one follows it (`CurrentStays`).

`JsonRPC` (`JsonRPCProofs`): the inductive invariant `Framing` says that for some c the messages up
to c are taken, the buffer is the wire from there to what has arrived (`Aligned`), only
messages up to c are delivered and of a well-formed stream all (`DeliveredUpTo`), and
`ProcessBuffer` rests only when the next one is incomplete (`Waiting`). Or else the stream is
not well-formed and nothing is delivered any more: the buffer begins with a header whose length is
missing, not positive or overflows (`Barred`), or with the rest of a message that was cut at
the wrong place (`Headless`), or such a rest is the next to arrive (`Adrift`). One call of `DoProcessBuffer`
does one of three things (lemma `ProcessAligned`). It gives `TypeOK`, `DeliversWhatIsComplete`, `NothingLost` and the
refinement `ImplementsStream`, for any lengths and payloads.

`ServerProtocol` (`ServerProofs`): units are conserved (`Conserved`), from which `TypeOK` follows; the
server is silent until it has answered initialize, the client holds back what is not early
until it has the answer, hence what the handshake finds complete in its buffer is early
(`SilentUntilDone`, `HeldBack`, `HandshakeTakesEarly`), and what is left out since the last delivery
may be left out (`OnlyDroppable`). This gives `ImplementsStream`: a request that `Check` delivers is
a step of `MessageStream`, everything else leaves it alone or breaks the connection.

`StdoutTransport` (`StdoutProofs`): `TypeOK`; `DeletedOnce`, an action property, from `Ownership`
(who is deleting the object, and that it is live while the pointer is set and nobody is, and while
`Read` takes from its queue); `OutputIntact` (`OutputInOrder`), with `ChunkBeforePush` and `Ownership`: all steps but
`Freed` keep the whole of the output (`NextKept`), whose beginning is what is received
(`FirstIsCounted`), and nothing is received of an object that is freed.

`CommandLine` (in `StdoutProofs`): `ArgumentsArrive` says that `ArgvIsCommand` is an invariant. As far as the
arguments are plain, those that are cut stand in `A` as they stand in the string, and `curstr`,
a backslash held back in the state ESCAPE and what is not read yet make up the string for the
others (`Cut`); the state and the length of `curstr` tell where in the word the scanner
stands (`Within`). A turn of the loop then moves one character, or ends the word (`ReadInWord`), and
the string cannot end within a word (`WordIsNotLast`).

`FlattenTheorems` says what `FlattenSeq` computes for every argument (its type, the empty
sequence, one element more, head and tail, concatenation, which elements it has). It is
defined by recursion; the partial results are a function `run` and the induction is over a set
of numbers (`InductionSet`, by the least element that is not in it), since a theorem with an
operator as a parameter cannot be used by the provers.

Only model-checked:

- the liveness properties (`LostSessionEnds`, `JoinTerminates`, `DeliversAll`, `SendsEnd`, `DeletionEnds`,
  `OutputDrained`, `ReapedExitReported`): fairness is out of the prover's reach;
- `MembersSurvive` and `ClassIsFound`: `Messages` uses RECURSIVE operators, since classes nest,
  and the provers work in no module that reaches one; they also speak of a fixed table, which
  TLC covers whole.

## Findings

Six runs end in a counterexample; `PROJECT.json` quotes the comments they contradict:

| Run | The code |
|---|---|
| `stuck` | erases the wrong half of the buffer after a header section without `Content-Length`; keeps complete messages behind a useless length or a payload that is no JSON |
| `stale_lost` | ends a later session for a posted connection error |
| `pause` | lets the user pause before the answer to initialize |
| `roundTrip` | loses a false flag, frame 0 and the lines of a range between `To` and `From` |
| `zombie` | counts an exited child as alive |
| `race` | deletes the process in `Read` while `Send` uses it |

The properties of `stuck` and `roundTrip` are conjunctions, and TLC shows one way to violate them.
Each of the three streams of `stuck` violates `NothingStuck` when `FaultyStreams` holds no other,
and each part of `ArriveAsSent` is violated on its own.

What the models show without a run of its own: `Read` deletes the process of a reaped child, and
with it the output nobody has read (`Freed`, `OutputIntact`); a closing quote is escaped by a
backslash at the end of an argument with a space (`IsPlain`).

## Not modelled

- `Client` works on whole messages: part of a message left in `m_rpc` for the next session is
  not modelled (`Client.cpp:209`; `Reset` clears `m_rpc`, but a chunk posted before and handled
  after it may end within a message).
- The log event, off by default, that `SendRequest` fires between the send and the entry in
  `m_in_flight_requests` (`Client.cpp:629`): a handler that resets there is not covered.
- At most one posted `Reset` is under way at a time (`PostReset`).
- cJSON is vendored; that it parses what it prints is taken for granted. Reference counting
  of `Json` trees, `Log`, `DAPEvent` (a data holder) and the generated UI.
- `msw.cpp`, fork/exec, standard error and the loop of `UnixProcess::Write`: system calls.
- `ConnectionString`, and the helpers of `StringUtils` that trim, split and convert slashes.
- Message boxes and input dialogs run a nested event loop. A dialog in `OnSetBreakpoint` and
  `OnEval` is like a late click; the boxes in `OnConnectionError` and `OnLaunchResponse`
  are taken as closed before another event is handled.
- The texts `MainFrame` shows, the source file on display (`m_current_source`) and its configuration file.

## What could come next

Ownership of `Json` trees under copy and assignment; liveness of the program's handlers (a stop
is followed by its frame), under the fairness of run `sessions`.
