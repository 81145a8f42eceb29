-------------------------- MODULE StdoutTransport --------------------------
(***************************************************************************)
(* dap::StdoutTransport over dap::Process (UnixProcess): the DAP server is *)
(* a child process whose standard output is the connection.  Five actors:  *)
(*   - the child (external), which writes output and exits;                *)
(*   - the reader thread of Process, which moves output from the pipe to   *)
(*     m_stdoutQueue;                                                      *)
(*   - the isAlive thread of Process;                                      *)
(*   - the reader thread of Client, which calls StdoutTransport::Read;     *)
(*   - the main thread, which calls Send and, through Client::Reset, stops *)
(*     the client's reader thread and deletes the transport.               *)
(* Output is a sequence of numbered pieces; standard error is left out.    *)
(***************************************************************************)
EXTENDS Integers, Sequences, SequencesExt

CONSTANT MaxOutput      \* bound: pieces of output of the child

ASSUME MaxOutputAssumption == MaxOutput \in Nat

VARIABLES
    autoReap,   \* does the kernel reap children (the application ignores SIGCHLD)?
    child,      \* "running", "zombie" (exited, not waited for) or "gone"
    produced,   \* the number of pieces the child has written
    pipe,       \* m_childStdout
    stdoutQueue,\* m_stdoutQueue: chunks
    object,     \* the Process object: "live", "destroying" or "freed"
    process,    \* is the pointer StdoutTransport::m_process not null?
    shutdown,   \* Process::m_shutdown
    pump,       \* where the reader thread of Process stands
    chunk,      \* stdoutBuff of that thread
    watch,      \* where the isAlive thread stands
    stop,       \* Client::m_shutdown
    reader,     \* where the reader thread of Client stands
    received,   \* the pieces it has got
    main,       \* where the main thread stands
    fault       \* has a thread used the Process object after it was freed?

childVars == <<autoReap, child, produced>>
pumpVars == <<pump, chunk>>
clientVars == <<stop, received>>
vars == <<childVars, pipe, stdoutQueue, object, process, shutdown, pumpVars, watch,
          clientVars, reader, main, fault>>

\* kill(child_pid, 0) also succeeds for a child that has exited and that nobody
\* has waited for.
IsAlive == child \in {"running", "zombie"}

\* StdoutTransport::Execute has started the child and the threads, and
\* SetTransport the reader thread.
Init ==
    /\ autoReap \in BOOLEAN
    /\ child = "running" /\ produced = 0
    /\ pipe = <<>> /\ stdoutQueue = <<>>
    /\ object = "live" /\ process = TRUE /\ shutdown = FALSE
    /\ pump = "check" /\ chunk = <<>>
    /\ watch = "check"
    /\ stop = FALSE /\ reader = "check" /\ received = <<>>
    /\ main = "idle" /\ fault = FALSE

----------------------------------------------------------------------------
(* The child process (external).                                           *)

\* A pipe that nobody can read from any more takes no output.
ChildWrites ==
    /\ child = "running" /\ produced < MaxOutput /\ object # "freed"
    /\ produced' = produced + 1
    /\ pipe' = Append(pipe, produced + 1)
    /\ UNCHANGED <<autoReap, child, stdoutQueue, object, process, shutdown, pumpVars, watch,
                   clientVars, reader, main, fault>>

ChildExits ==
    /\ child = "running"
    /\ child' = IF autoReap THEN "gone" ELSE "zombie"
    /\ UNCHANGED <<autoReap, produced, pipe, stdoutQueue, object, process, shutdown,
                   pumpVars, watch, clientVars, reader, main, fault>>

----------------------------------------------------------------------------
(* Process::StartThreads: the reader thread.                               *)

PumpUnchanged == UNCHANGED <<childVars, object, process, shutdown, watch, clientVars,
                             reader, main, fault>>

PumpCheck ==
    /\ pump = "check"
    /\ pump' = IF shutdown THEN "exited" ELSE "alive"
    /\ UNCHANGED <<pipe, stdoutQueue, chunk>> /\ PumpUnchanged

\* Bug: the pipe is read to its end and the first piece is kept.
DrainedFirst == IF pipe = <<>> THEN <<>> ELSE <<Head(pipe)>>

\* Bug: the byte that terminates the read buffer is taken for output.
DrainedAndNul == Append(pipe, 0)

\* ReadAll: everything that is in the pipe.
Drained == pipe

\* Bug: a child that has exited is taken for a closed pipe and not read again.
PumpAliveRunning ==
    /\ pump = "alive"
    /\ pump' = IF child = "running" THEN "read" ELSE "check"
    /\ UNCHANGED <<pipe, stdoutQueue, chunk>> /\ PumpUnchanged

\* DoRead: nothing is read from a process that is not alive.
PumpAlive ==
    /\ pump = "alive"
    /\ pump' = IF IsAlive THEN "read" ELSE "check"
    /\ UNCHANGED <<pipe, stdoutQueue, chunk>> /\ PumpUnchanged

PumpRead ==
    /\ pump = "read"
    /\ chunk' = Drained /\ pipe' = <<>>
    /\ pump' = IF pipe = <<>> THEN "check" ELSE "push"
    /\ UNCHANGED stdoutQueue /\ PumpUnchanged

PumpPush ==
    /\ pump = "push"
    /\ stdoutQueue' = Append(stdoutQueue, chunk)
    /\ chunk' = <<>>
    /\ pump' = "check"
    /\ UNCHANGED pipe /\ PumpUnchanged

PumpStep == PumpCheck \/ PumpAlive \/ PumpRead \/ PumpPush

----------------------------------------------------------------------------
(* Process::StartThreads: the isAlive thread.                              *)

\* The loop is left when the process is not alive or m_shutdown is set ...
WatchLeaves ==
    /\ watch = "check"
    /\ ~IsAlive \/ shutdown
    /\ watch' = "set"
    /\ UNCHANGED <<childVars, pipe, stdoutQueue, object, process, shutdown, pumpVars,
                   clientVars, reader, main, fault>>

\* ... and m_shutdown is set, for the reader thread.
WatchSets ==
    /\ watch = "set"
    /\ shutdown' = TRUE
    /\ watch' = "exited"
    /\ UNCHANGED <<childVars, pipe, stdoutQueue, object, process, pumpVars, clientVars,
                   reader, main, fault>>

----------------------------------------------------------------------------
(* delete m_process, on the thread that calls it: ~UnixProcess and         *)
(* Process::Cleanup.                                                       *)

\* Bug: Cleanup sets no flag before it joins.
TerminateNoFlag ==
    /\ object' = "destroying"
    /\ child' = IF child = "zombie" THEN "gone" ELSE child
    /\ UNCHANGED shutdown

\* Terminate (SIGTERM, then waitpid with WNOHANG, which finds only a child that
\* has exited already) and m_shutdown = true.
Terminate ==
    /\ object' = "destroying"
    /\ child' = IF child = "zombie" THEN "gone" ELSE child
    /\ shutdown' = TRUE

\* Both joins have returned.
Joined == pump = "exited" /\ watch = "exited"

\* The object is freed, with its queue and its end of the pipe (~CPipe), whatever
\* is left in them; wxDELETE has yet to clear the pointer.
Freed ==
    /\ Joined
    /\ object' = "freed"
    /\ shutdown' = FALSE
    /\ stdoutQueue' = <<>> /\ pipe' = <<>>

----------------------------------------------------------------------------
(* The reader thread of Client and StdoutTransport::Read.                  *)

ReaderUnchanged ==
    UNCHANGED <<autoReap, produced, pumpVars, watch, stop, main, fault>>

ReaderCheck ==
    /\ reader = "check"
    /\ reader' = IF stop THEN "exited" ELSE "alive"
    /\ UNCHANGED <<child, pipe, stdoutQueue, object, process, shutdown, received>>
    /\ ReaderUnchanged

\* Read finds the process alive ...
ReaderAlive ==
    /\ reader = "alive" /\ process /\ IsAlive
    /\ reader' = "pop"
    /\ UNCHANGED <<child, pipe, stdoutQueue, object, process, shutdown, received>>
    /\ ReaderUnchanged

\* ... and ReadStdout takes a chunk or times out.
ReaderPop ==
    /\ reader = "pop"
    /\ IF stdoutQueue = <<>> THEN UNCHANGED <<stdoutQueue, received>>
       ELSE /\ received' = received \o Head(stdoutQueue)
            /\ stdoutQueue' = Tail(stdoutQueue)
    /\ reader' = "check"
    /\ UNCHANGED <<child, pipe, object, process, shutdown>>
    /\ ReaderUnchanged

\* Bug: a process that has terminated is taken for a timeout.
ReaderGoesOn ==
    /\ reader = "alive" /\ process /\ ~IsAlive
    /\ reader' = "check"
    /\ UNCHANGED <<child, pipe, stdoutQueue, object, process, shutdown, received>>
    /\ ReaderUnchanged

\* Read finds the process terminated: wxDELETE(m_process), return false.
ReaderTerminates ==
    /\ reader = "alive" /\ process /\ ~IsAlive
    /\ Terminate
    /\ reader' = "join"
    /\ UNCHANGED <<pipe, stdoutQueue, process, received>> /\ ReaderUnchanged

ReaderFrees ==
    /\ reader = "join"
    /\ Freed
    /\ reader' = "clear"
    /\ UNCHANGED <<child, process, received>> /\ ReaderUnchanged

\* The pointer is cleared, Read has failed: the connection error is posted and
\* the thread ends.
ReaderFails ==
    /\ reader = "clear"
    /\ process' = FALSE
    /\ reader' = "failed"
    /\ UNCHANGED <<child, pipe, stdoutQueue, object, shutdown, received>>
    /\ ReaderUnchanged

ReaderStep ==
    ReaderCheck \/ ReaderAlive \/ ReaderPop \/ ReaderTerminates \/ ReaderFrees \/ ReaderFails

----------------------------------------------------------------------------
(* The main thread.                                                        *)

MainUnchanged ==
    UNCHANGED <<autoReap, produced, pumpVars, watch, received, reader>>

\* Send: IsAlive dereferences a pointer that is not null ...
SendAlive ==
    /\ main = "idle" /\ process
    /\ fault' = (fault \/ object = "freed")
    /\ main' = IF IsAlive THEN "write" ELSE "idle"
    /\ UNCHANGED <<child, pipe, stdoutQueue, object, process, shutdown, stop>>
    /\ MainUnchanged

\* ... and Write dereferences it again.
SendWrite ==
    /\ main = "write"
    /\ fault' = (fault \/ object = "freed" \/ ~process)
    /\ main' = "idle"
    /\ UNCHANGED <<child, pipe, stdoutQueue, object, process, shutdown, stop>>
    /\ MainUnchanged

\* Client::Reset: the reader thread is told to stop and joined ...
ResetStops ==
    /\ main = "idle"
    /\ stop' = TRUE
    /\ main' = "joinReader"
    /\ UNCHANGED <<child, pipe, stdoutQueue, object, process, shutdown, fault>>
    /\ MainUnchanged

\* Bug: the reader thread is told to stop and not joined.
ResetDeletesAtOnce ==
    /\ main = "joinReader"
    /\ IF process THEN Terminate /\ main' = "join"
       ELSE main' = "done" /\ UNCHANGED <<object, child, shutdown>>
    /\ UNCHANGED <<pipe, stdoutQueue, process, stop, fault>> /\ MainUnchanged

\* ... the transport is deleted, and with it the process.
ResetDeletes ==
    /\ main = "joinReader" /\ reader \in {"exited", "failed"}
    /\ IF process THEN Terminate /\ main' = "join"
       ELSE main' = "done" /\ UNCHANGED <<object, child, shutdown>>
    /\ UNCHANGED <<pipe, stdoutQueue, process, stop, fault>> /\ MainUnchanged

ResetFrees ==
    /\ main = "join"
    /\ Freed
    /\ process' = FALSE
    /\ main' = "done"
    /\ UNCHANGED <<child, stop, fault>> /\ MainUnchanged

Done == main = "done" /\ UNCHANGED vars

ResetStep == ResetDeletes \/ ResetFrees

----------------------------------------------------------------------------
Next ==
    \/ ChildWrites \/ ChildExits
    \/ PumpStep
    \/ WatchLeaves \/ WatchSets
    \/ ReaderStep
    \/ SendAlive \/ SendWrite \/ ResetStops \/ ResetStep
    \/ Done

\* All threads keep running; the child may or may not exit, the application may
\* or may not send and reset.
Spec ==
    /\ Init /\ [][Next]_vars
    /\ WF_vars(PumpStep) /\ WF_vars(WatchLeaves \/ WatchSets) /\ WF_vars(ReaderStep)
    /\ WF_vars(SendWrite) /\ WF_vars(ResetStep)

----------------------------------------------------------------------------
(* Properties.                                                             *)

\* The type invariant.
TypeOK ==
    /\ autoReap \in BOOLEAN
    /\ child \in {"running", "zombie", "gone"}
    /\ produced \in 0..MaxOutput
    /\ pipe \in Seq(1..MaxOutput)
    /\ stdoutQueue \in Seq(Seq(1..MaxOutput))
    /\ object \in {"live", "destroying", "freed"}
    /\ process \in BOOLEAN
    /\ shutdown \in BOOLEAN
    /\ pump \in {"check", "alive", "read", "push", "exited"}
    /\ chunk \in Seq(1..MaxOutput)
    /\ watch \in {"check", "set", "exited"}
    /\ stop \in BOOLEAN
    /\ reader \in {"check", "alive", "pop", "join", "clear", "failed", "exited"}
    /\ received \in Seq(1..MaxOutput)
    /\ main \in {"idle", "write", "joinReader", "join", "done"}
    /\ fault \in BOOLEAN

\* The Process object is deleted once, although the reader thread of Client and the
\* main thread both delete it: whoever comes second finds the pointer cleared
\* (StdoutTransport::Read, ~StdoutTransport).
DeletedOnce ==
    [][object' # object =>
          <<object, object'>> \in {<<"live", "destroying">>, <<"destroying", "freed">>}]_vars

\* The client receives the output of the child from its beginning, in order and
\* without a gap, whatever the interleaving of the two reader threads, of the exit
\* and of the deletion; and as long as the Process object exists all the rest is
\* in the queue, in a buffer or in the pipe (ReadAll, Queue::push, Queue::pop, Read).
OutputIntact ==
    /\ received = [i \in 1..Len(received) |-> i]
    /\ object # "freed" =>
          received \o FlattenSeq(stdoutQueue) \o chunk \o pipe = [i \in 1..produced |-> i]

\* The deletion of a process ends, on whichever thread it was started: the
\* threads it joins see m_shutdown (Cleanup, StopReaderThread).
DeletionEnds ==
    (object = "destroying" \/ main = "joinReader")
        ~> (object = "freed" /\ main # "joinReader")

\* The application has given the session up.
Resetting == main \in {"joinReader", "join", "done"}

\* What the child wrote before it exited is still received, as long as it has not
\* been reaped (DoRead, which reads nothing of a process that is not alive).
OutputDrained ==
    (child = "zombie") ~> (Len(received) = produced \/ Resetting)

\* Where the kernel reaps the child the client learns of its exit (Read).
ReapedExitReported ==
    (autoReap /\ child # "running") ~> (reader = "failed" \/ Resetting)

\* Client.cpp:102: Read fails once the "process terminated", and the client learns
\* of it.
ExitReported == (child # "running") ~> (reader = "failed" \/ Resetting)

\* Client.hpp:19: a transport "must be stateless and thread-safe since it is used
\* by both an internal thread and the caller thread".
NoUseAfterFree == ~fault
=============================================================================
