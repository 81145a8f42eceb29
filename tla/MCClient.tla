------------------------------ MODULE MCClient ------------------------------
(* Small instances of Client: the commands of an application, by what they *)
(* do to the debuggee, and the events of a server.                         *)
EXTENDS Client

\* The commands that make the debuggee run or stop, and the others.
RunCommands == StepCommands \union {"pause"}
RequestCommands == AllCommands \ RunCommands

\* The server keeps the order where the client relies on it, and that of steps.
OrderedKinds == QueueCommands \union RunCommands

\* Bound: the application asks for data, and the server sends no events; or it steps
\* thread 1 (such requests stay in m_in_flight_requests); or it answers a reverse
\* request.
OneConcern ==
    LET Made == {inFlight[s] : s \in 1..seq}
    IN  \/ eventsSent = 0 /\ \A r \in Made : r.cmd \notin RunCommands
        \/ /\ \A r \in Made : r.cmd \in RunCommands \union {"initialize"} /\ r.arg # 2
           /\ \A i \in DOMAIN toClient : toClient[i].arg # 2 /\ toClient[i].cmd # "runInTerminal"
        \/ /\ \A r \in Made : r.cmd \in {"initialize", NoRequest.cmd}
           /\ eventsSent = 1 /\ debuggee = "running"
           /\ \A i \in DOMAIN toClient : toClient[i].arg # 2
=============================================================================
