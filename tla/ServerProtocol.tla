--------------------------- MODULE ServerProtocol ---------------------------
(***************************************************************************)
(* A client and a debug adapter built on dap::ServerProtocol, joined by a  *)
(* TCP connection: SocketTransport and the Client's threads at one end,    *)
(* SocketServer and ServerProtocol at the other, Socket at both.           *)
(*                                                                         *)
(* Every message is MsgLen units long, and the number of units is all that *)
(* is kept of the bytes in a buffer: a message is complete when the last   *)
(* of its units is there (see JsonRPC for the framing itself).             *)
(***************************************************************************)
EXTENDS Integers, Sequences, FiniteSets

CONSTANTS
    Plans,      \* the sequences of messages a client may send
    Loops,      \* the numbers of attempts Connect may be given
    MsgLen,     \* the units of a message
    ToServer,   \* the units the kernel takes in the client's direction
    ToClient,   \* the units the kernel takes in the server's direction
    MaxRead     \* the most units one read returns

(***************************************************************************)
(* A message is a request, and whether the client may send it before it    *)
(* has the response to its initialize request.  FromJSON knows no          *)
(* "variables" request unless the program has constructed one.             *)
(***************************************************************************)
Requests == [cmd : {"initialize", "variables", "other"}, early : BOOLEAN]

ASSUME PlansAssumption ==
    \A p \in Plans : p \in Seq(Requests) /\ p # <<>> /\ p[1].cmd = "initialize"

ASSUME SizesAssumption ==
    /\ Loops \subseteq Nat
    /\ {MsgLen, ToServer, ToClient, MaxRead} \subseteq Nat \ {0}

VARIABLES
    plan,       \* the messages of this client
    conn,       \* the client's end of the connection
    loops,      \* attempts Connect has left
    sent,       \* messages the client has given to Send
    clientOut,  \* units its running Send has left
    toServer,   \* units under way to the server
    pc,         \* where the server's thread is
    rpc,        \* units in its m_rpc.m_buffer
    handled,    \* messages it has taken from m_rpc
    done,       \* state = kDone in Initialize
    registered, \* is m_onNetworkMessage set?
    delivered,  \* requests given to it, by their position after initialize
    owed,       \* messages of the debugger waiting for ProcessGdbMessage
    serverOut,  \* units the server's running Send has left
    toClient,   \* units under way to the client
    clientIn    \* units the client's reader thread has read

clientVars == <<conn, loops, sent, clientOut, clientIn>>
serverVars == <<pc, rpc, handled, done, registered, delivered, owed>>
vars == <<plan, clientVars, toServer, serverVars, serverOut, toClient>>

Minimum(a, b) == IF a < b THEN a ELSE b

Init ==
    /\ plan \in Plans /\ loops \in Loops
    /\ conn = "connecting" /\ pc = "start"
    /\ sent = 0 /\ clientOut = 0 /\ clientIn = 0
    /\ rpc = 0 /\ handled = 0 /\ done = FALSE /\ registered = FALSE
    /\ delivered = <<>> /\ owed = 0 /\ serverOut = 0
    /\ toServer = 0 /\ toClient = 0

----------------------------------------------------------------------------
(* The connection.                                                         *)

\* SocketServer::Start: the kernel accepts connections from here on.
Start ==
    /\ pc = "start"
    /\ pc' = "listening"
    /\ UNCHANGED <<plan, clientVars, toServer, rpc, handled, done, registered,
                   delivered, owed, serverOut, toClient>>

\* One turn of the loop of SocketTransport::Connect.
Connect ==
    /\ conn = "connecting"
    /\ conn' = IF loops = 0 THEN "gaveUp"
               ELSE IF pc = "start" THEN "connecting" ELSE "up"
    /\ loops' = IF conn' = "connecting" THEN loops - 1 ELSE loops
    /\ UNCHANGED <<plan, sent, clientOut, clientIn, toServer, serverVars,
                   serverOut, toClient>>

\* SocketServer::WaitForNewConnection, and the program calls Initialize.
Accept ==
    /\ pc = "listening" /\ conn \in {"up", "closed"}
    /\ pc' = "initialize"
    /\ UNCHANGED <<plan, clientVars, toServer, rpc, handled, done, registered,
                   delivered, owed, serverOut, toClient>>

\* The client destroys the transport between two calls of Send.
Close ==
    /\ conn = "up" /\ clientOut = 0
    /\ conn' = "closed"
    /\ UNCHANGED <<plan, loops, sent, clientOut, clientIn, toServer, serverVars,
                   serverOut, toClient>>

\* The number of units a call of send or recv moves, of the n asked for.
Moves(n, limit) == 1..Minimum(n, limit)

----------------------------------------------------------------------------
(* The client: the main thread sends, the reader thread reads.             *)

\* JsonRPC::Send of the next message.
ClientSend ==
    /\ conn = "up" /\ clientOut = 0 /\ sent < Len(plan)
    /\ plan[sent + 1].early \/ clientIn >= MsgLen
    /\ sent' = sent + 1
    /\ clientOut' = MsgLen
    /\ UNCHANGED <<plan, conn, loops, clientIn, toServer, serverVars, serverOut,
                   toClient>>

\* One turn of the loop of Socket::Send.
ClientWrites(k) ==
    /\ k \in Moves(clientOut, ToServer - toServer)
    /\ clientOut' = clientOut - k
    /\ toServer' = toServer + k
    /\ UNCHANGED <<plan, conn, loops, sent, clientIn, serverVars, serverOut, toClient>>

\* Bug: the thread that sends is also the one that reads.
ClientReadsBetween(k) ==
    /\ conn = "up" /\ clientOut = 0 /\ k \in Moves(MaxRead, toClient)
    /\ clientIn' = clientIn + k
    /\ toClient' = toClient - k
    /\ UNCHANGED <<plan, conn, loops, sent, clientOut, toServer, serverVars, serverOut>>

\* SocketTransport::Read in the reader thread.
ClientReads(k) ==
    /\ conn = "up" /\ k \in Moves(MaxRead, toClient)
    /\ clientIn' = clientIn + k
    /\ toClient' = toClient - k
    /\ UNCHANGED <<plan, conn, loops, sent, clientOut, toServer, serverVars, serverOut>>

----------------------------------------------------------------------------
(* The server: one thread.                                                 *)

\* SelectReadMS and Read return k units, m_rpc appends them.
ServerReads(k) ==
    /\ k \in Moves(MaxRead, toServer)
    /\ toServer' = toServer - k
    /\ rpc' = rpc + k

\* The loop of Initialize reads.
InitializeReads(k) ==
    /\ pc = "initialize"
    /\ ServerReads(k)
    /\ pc' = "initializeBuffer"
    /\ UNCHANGED <<plan, clientVars, handled, done, registered, delivered, owed,
                   serverOut, toClient>>

\* Bug: a message whose beginning is there is taken for complete.
TakeMessageEarly ==
    /\ serverOut = 0 /\ rpc > 0
    /\ rpc' = rpc - MsgLen
    /\ handled' = handled + 1

\* ProcessBuffer takes the next message from the buffer, if it is complete.
TakeMessage ==
    /\ serverOut = 0 /\ rpc >= MsgLen
    /\ rpc' = rpc - MsgLen
    /\ handled' = handled + 1

\* The callback of Initialize: an initialize request is answered, all else is
\* dropped.
InitializeMessage ==
    /\ pc = "initializeBuffer"
    /\ TakeMessage
    /\ IF plan[handled'].cmd = "initialize"
       THEN serverOut' = 2 * MsgLen /\ done' = TRUE
       ELSE UNCHANGED <<serverOut, done>>
    /\ UNCHANGED <<plan, clientVars, toServer, pc, registered, delivered, owed, toClient>>

\* Bug: the loop reads once more after kDone.
InitializeBufferEndLate ==
    /\ pc = "initializeBuffer" /\ serverOut = 0 /\ rpc < MsgLen
    /\ pc' = IF done /\ handled > 1 THEN "loop" ELSE "initialize"
    /\ UNCHANGED <<plan, clientVars, toServer, rpc, handled, done, registered, delivered,
                   owed, serverOut, toClient>>

\* ProcessBuffer returns to the loop of Initialize, which ends after kDone.
InitializeBufferEnd ==
    /\ pc = "initializeBuffer" /\ serverOut = 0 /\ rpc < MsgLen
    /\ pc' = IF done THEN "loop" ELSE "initialize"
    /\ UNCHANGED <<plan, clientVars, toServer, rpc, handled, done, registered, delivered,
                   owed, serverOut, toClient>>

\* The program registers its callback, before or after Initialize.
RegisterNetworkCallback ==
    /\ pc \in {"listening", "loop"} /\ ~registered
    /\ registered' = TRUE
    /\ UNCHANGED <<plan, clientVars, toServer, pc, rpc, handled, done, delivered, owed,
                   serverOut, toClient>>

\* The program calls Check, which reads and calls ProcessBuffer.  A call that
\* finds nothing to read changes nothing: no complete message is in the buffer.
CheckReads ==
    /\ pc = "loop" /\ registered /\ serverOut = 0
    /\ \E k \in 1..MaxRead : ServerReads(k)
    /\ pc' = "checkBuffer"
    /\ UNCHANGED <<plan, clientVars, handled, done, registered, delivered, owed, serverOut,
                   toClient>>

\* Bug: one message per read instead of all that are complete.
CheckMessageOnce ==
    /\ pc = "checkBuffer"
    /\ TakeMessage
    /\ IF plan[handled'].cmd # "variables"
       THEN delivered' = Append(delivered, handled' - 1) /\ owed' = owed + 1
       ELSE UNCHANGED <<delivered, owed>>
    /\ pc' = "loop"
    /\ UNCHANGED <<plan, clientVars, toServer, done, registered, serverOut, toClient>>

\* The callback of Check: a message FromJSON knows goes to the program, which
\* will have something to answer.
CheckMessage ==
    /\ pc = "checkBuffer"
    /\ TakeMessage
    /\ IF plan[handled'].cmd # "variables"
       THEN delivered' = Append(delivered, handled' - 1) /\ owed' = owed + 1
       ELSE UNCHANGED <<delivered, owed>>
    /\ UNCHANGED <<plan, clientVars, toServer, pc, done, registered, serverOut, toClient>>

CheckBufferEnd ==
    /\ pc = "checkBuffer" /\ rpc < MsgLen
    /\ pc' = "loop"
    /\ UNCHANGED <<plan, clientVars, toServer, rpc, handled, done, registered, delivered,
                   owed, serverOut, toClient>>

\* The program sends a message of the debugger.
ProcessGdbMessage ==
    /\ pc = "loop" /\ serverOut = 0 /\ owed > 0
    /\ owed' = owed - 1
    /\ serverOut' = MsgLen
    /\ UNCHANGED <<plan, clientVars, toServer, pc, rpc, handled, done, registered, delivered,
                   toClient>>

\* One turn of the loop of Socket::Send in the server.
ServerWrites(k) ==
    /\ k \in Moves(serverOut, ToClient - toClient)
    /\ serverOut' = serverOut - k
    /\ toClient' = toClient + k
    /\ UNCHANGED <<plan, clientVars, toServer, serverVars>>

\* The client is gone: recv returns 0 when all it sent is read, or fails at once
\* when it left something unread; or send fails.  The exception leaves
\* Initialize, Check or ProcessGdbMessage.
ServerFails ==
    /\ conn = "closed"
    /\ \/ /\ pc = "initialize" \/ (pc = "loop" /\ registered)
          /\ toServer = 0 \/ toClient > 0
       \/ serverOut > 0
    /\ pc' = "failed" /\ serverOut' = 0
    /\ UNCHANGED <<plan, clientVars, toServer, rpc, handled, done, registered, delivered,
                   owed, toClient>>

\* SelectWriteMS times out in Socket::Send, which tries again.
RetryWrite ==
    /\ \/ clientOut > 0 /\ toServer = ToServer
       \/ serverOut > 0 /\ toClient = ToClient
    /\ UNCHANGED vars

----------------------------------------------------------------------------
\* Everything is sent and answered, or one end is gone.
Done ==
    /\ \/ conn = "gaveUp"
       \/ pc = "failed"
       \/ /\ sent = Len(plan) /\ clientOut = 0 /\ handled = sent
          /\ owed = 0 /\ serverOut = 0 /\ toClient = 0
    /\ UNCHANGED vars

ClientWrite == \E k \in 1..MsgLen : ClientWrites(k)
ClientRead == \E k \in 1..MaxRead : ClientReads(k)
InitializeRead == \E k \in 1..MaxRead : InitializeReads(k)
ServerWrite == \E k \in 1..2 * MsgLen : ServerWrites(k)

Server ==
    \/ Accept
    \/ InitializeRead \/ InitializeMessage \/ InitializeBufferEnd
    \/ CheckReads \/ CheckMessage \/ CheckBufferEnd
    \/ ServerWrite \/ ServerFails

Next ==
    \/ Start \/ Connect \/ Close \/ ClientSend \/ ClientWrite \/ ClientRead
    \/ Server \/ RegisterNetworkCallback \/ ProcessGdbMessage
    \/ RetryWrite \/ Done

\* The threads run once the server is started, the client sends what it has to
\* send, and the server's program registers its callback and goes on calling
\* Check and ProcessGdbMessage.
Fairness ==
    /\ WF_vars(Connect) /\ WF_vars(ClientSend) /\ WF_vars(ClientWrite)
    /\ WF_vars(ClientRead) /\ WF_vars(Server)
    /\ WF_vars(RegisterNetworkCallback /\ pc = "loop") /\ SF_vars(ProcessGdbMessage)

Spec == Init /\ [][Next]_vars /\ Fairness

----------------------------------------------------------------------------
(* Properties.                                                             *)

\* The type invariant.
TypeOK ==
    /\ plan \in Plans /\ loops \in Nat
    /\ conn \in {"connecting", "up", "gaveUp", "closed"}
    /\ sent \in 0..Len(plan) /\ clientOut \in 0..MsgLen /\ clientIn \in Nat
    /\ toServer \in 0..ToServer /\ toClient \in 0..ToClient
    /\ pc \in {"start", "listening", "initialize", "initializeBuffer", "loop",
               "checkBuffer", "failed"}
    /\ rpc \in Nat /\ handled \in 0..sent
    /\ done \in BOOLEAN /\ registered \in BOOLEAN
    /\ delivered \in Seq(0..Len(plan) - 1)
    /\ owed \in Nat /\ serverOut \in 0..2 * MsgLen

\* A request the server may drop: one that may arrive with initialize, and one
\* that FromJSON cannot decode.
MayBeDropped(m) == m.early \/ m.cmd = "variables"

Requested == INSTANCE MessageStream WITH
    stream <- [i \in 1..Len(plan) - 1 |->
                  IF MayBeDropped(plan[i + 1]) THEN "maybe" ELSE "ok"],
    up <- conn \notin {"gaveUp", "closed"}

\* The program at the server's end gets the requests of the client in their order
\* and once each, none left out but the undecodable ones and those the client did
\* not hold back until it was initialized: the handshake takes its messages out of
\* the same buffer (Initialize, Check, Connect).
ImplementsStream == Requested!Safety

\* While the connection is up the program gets all of these requests in the end
\* (Check, ProcessBuffer).
DeliversAll == Requested!Liveness

\* A Send that has begun ends, at either end: the retries after a timeout of
\* SelectWriteMS cannot go on for ever, because the peer's reader does not wait
\* for anything (Socket::Send, the Client's reader thread).
SendsEnd ==
    /\ clientOut > 0 ~> clientOut = 0
    /\ serverOut > 0 ~> serverOut = 0
=============================================================================
