---------------------------- MODULE ServerProofs ----------------------------
(***************************************************************************)
(* Theorems about ServerProtocol, for every plan of the client and every   *)
(* length of messages, of reads and of the kernel's buffers.               *)
(***************************************************************************)
EXTENDS ServerProtocol, TLAPS, SequenceTheorems

----------------------------------------------------------------------------
(* The inductive invariant.                                                *)

\* No unit is lost or made up between the client's Send and the messages the
\* server has taken from its buffer.
Conserved == handled * MsgLen + rpc + toServer + clientOut = sent * MsgLen

\* The server is silent until it has answered the initialize request.
SilentUntilDone == ~done => serverOut = 0 /\ toClient = 0 /\ clientIn = 0

\* The client holds back what is not early until it has the answer.
HeldBack == clientIn < MsgLen => \A i \in 1..sent : plan[i].early

\* Where the server's thread stands tells whether Initialize has returned.
Phases ==
    /\ pc \in {"start", "listening", "initialize"} => ~done
    /\ pc \in {"loop", "checkBuffer"} => done
    /\ pc \in {"start", "listening", "initialize", "initializeBuffer"} => delivered = <<>>
    /\ done => handled > 0

\* A message that is complete in the buffer of the handshake is early.
HandshakeTakesEarly ==
    pc \in {"start", "listening", "initialize", "initializeBuffer"} =>
        \A i \in 1..sent : i * MsgLen <= handled * MsgLen + rpc => plan[i].early

\* What was taken after the last delivery could not be delivered.
OnlyDroppable ==
    pc \in {"loop", "checkBuffer"} =>
        /\ Requested!Last < handled
        /\ \A k \in Requested!Last + 1 .. handled - 1 : MayBeDropped(plan[k + 1])

Handshake ==
    /\ SilentUntilDone
    /\ HeldBack
    /\ Phases
    /\ HandshakeTakesEarly
    /\ OnlyDroppable

----------------------------------------------------------------------------
(* Numbers of messages and of units.                                       *)

\* The sizes the connection is made of.
LEMMA Sizes ==
    /\ MsgLen \in Nat \ {0} /\ ToServer \in Nat \ {0}
    /\ ToClient \in Nat \ {0} /\ MaxRead \in Nat \ {0}
  BY SizesAssumption

\* One more message is MsgLen more units.
LEMMA OneMore ==
    ASSUME NEW n \in Nat
    PROVE  n * MsgLen \in Nat /\ (n + 1) * MsgLen = n * MsgLen + MsgLen
  BY Sizes

\* More messages are more units.
LEMMA MoreUnits ==
    ASSUME NEW m \in Nat, NEW n \in Nat, m * MsgLen <= n * MsgLen
    PROVE  m <= n
  <1>1. \A d \in Nat : (n + d) * MsgLen = n * MsgLen + d * MsgLen
      BY Sizes
  <1>2. \A d \in Nat : d > 0 => d * MsgLen > 0
      BY Sizes
  <1>3. ASSUME m > n PROVE FALSE
      <2>1. m - n \in Nat /\ m - n > 0 /\ n + (m - n) = m
          BY <1>3
      <2>2. m * MsgLen = n * MsgLen + (m - n) * MsgLen /\ (m - n) * MsgLen > 0
          BY <1>1, <1>2, <2>1
      <2>3. m * MsgLen \in Nat /\ n * MsgLen \in Nat /\ (m - n) * MsgLen \in Nat
          BY <2>1, OneMore
      <2> QED
          BY <2>2, <2>3
  <1> QED
      BY <1>3

\* A call of send or recv moves at least one unit, at most what it was asked for
\* and what there is.
LEMMA MovesBounded ==
    ASSUME NEW n \in Int, NEW limit \in Int, NEW k \in Moves(n, limit)
    PROVE  k \in Nat /\ 1 <= k /\ k <= n /\ k <= limit
  BY DEF Moves, Minimum

\* A plan is a sequence of requests that begins with initialize.
LEMMA PlanType ==
    ASSUME TypeOK
    PROVE  plan \in Seq(Requests) /\ Len(plan) \in Nat /\ Len(plan) > 0
  BY PlansAssumption DEF TypeOK

----------------------------------------------------------------------------
(* Type correctness.                                                       *)

\* Before a connection is made nothing is under way.
LEMMA InitUnits == Init => TypeOK /\ Conserved
  <1> SUFFICES ASSUME Init PROVE TypeOK /\ Conserved
      OBVIOUS
  <1>1. plan \in Seq(Requests) /\ Len(plan) \in Nat /\ Len(plan) > 0
      BY PlansAssumption DEF Init
  <1>2. delivered \in Seq(0..Len(plan) - 1)
      BY DEF Init
  <1>3. TypeOK
      <2>1. done \in BOOLEAN /\ registered \in BOOLEAN
          BY DEF Init
      <2>2. loops \in Nat
          BY SizesAssumption DEF Init
      <2> QED
          BY <1>1, <1>2, <2>1, <2>2, Sizes DEF Init, TypeOK
  <1>4. Conserved
      BY Sizes DEF Init, Conserved
  <1> QED
      BY <1>3, <1>4

\* The steps that move no unit: connecting, closing, the ends of the loops, the
\* program's registration and an exception.
LEMMA ControlUnits ==
    ASSUME TypeOK, Conserved,
           Start \/ Connect \/ Accept \/ Close \/ InitializeBufferEnd \/ CheckBufferEnd
             \/ RegisterNetworkCallback \/ ProcessGdbMessage \/ ServerFails
    PROVE  TypeOK' /\ Conserved'
  <1> USE DEF clientVars, serverVars
  <1>1. UNCHANGED <<plan, sent, clientOut, clientIn, toServer, rpc, handled, done,
                    delivered, toClient>>
      BY DEF Start, Connect, Accept, Close, InitializeBufferEnd, CheckBufferEnd,
         RegisterNetworkCallback, ProcessGdbMessage, ServerFails
  <1>2. /\ conn' \in {"connecting", "up", "gaveUp", "closed"}
        /\ pc' \in {"start", "listening", "initialize", "initializeBuffer", "loop",
                    "checkBuffer", "failed"}
        /\ registered' \in BOOLEAN
      BY DEF TypeOK, Start, Connect, Accept, Close, InitializeBufferEnd, CheckBufferEnd,
         RegisterNetworkCallback, ProcessGdbMessage, ServerFails
  <1>3. loops' \in Nat
      <2>1. CASE Connect
          BY <2>1 DEF TypeOK, Connect
      <2> QED
          BY <2>1 DEF TypeOK, Start, Accept, Close, InitializeBufferEnd, CheckBufferEnd,
             RegisterNetworkCallback, ProcessGdbMessage, ServerFails
  <1>4. owed' \in Nat /\ serverOut' \in 0..2 * MsgLen
      BY Sizes DEF TypeOK, Start, Connect, Accept, Close, InitializeBufferEnd,
         CheckBufferEnd, RegisterNetworkCallback, ProcessGdbMessage, ServerFails
  <1> QED
      BY <1>1, <1>2, <1>3, <1>4 DEF TypeOK, Conserved

\* The client gives a message to Send.
LEMMA ClientSendUnits ==
    ASSUME TypeOK, Conserved, ClientSend
    PROVE  TypeOK' /\ Conserved'
  <1>1. /\ sent' = sent + 1 /\ clientOut = 0 /\ clientOut' = MsgLen /\ sent < Len(plan)
        /\ UNCHANGED <<plan, conn, loops, clientIn, toServer, pc, rpc, handled, done,
                       registered, delivered, owed, serverOut, toClient>>
      BY DEF ClientSend, serverVars
  <1>2. sent \in Nat /\ handled \in Nat /\ Len(plan) \in Nat
      BY PlanType DEF TypeOK
  <1>3. TypeOK'
      BY <1>1, <1>2, Sizes DEF TypeOK
  <1>4. /\ (sent + 1) * MsgLen = sent * MsgLen + MsgLen
        /\ sent * MsgLen \in Nat /\ handled * MsgLen \in Nat
      BY <1>2, OneMore
  <1>5. Conserved'
      BY <1>1, <1>2, <1>4, Sizes DEF TypeOK, Conserved
  <1> QED
      BY <1>3, <1>5

\* Units move between a running Send, the kernel and a buffer.
LEMMA TransferUnits ==
    ASSUME TypeOK, Conserved,
           ClientWrite \/ ClientRead \/ InitializeRead \/ CheckReads \/ ServerWrite
    PROVE  TypeOK' /\ Conserved'
  <1> USE DEF clientVars, serverVars
  <1>0. handled \in Nat /\ sent \in Nat
      BY PlanType DEF TypeOK
  <1>1. handled * MsgLen \in Nat /\ sent * MsgLen \in Nat
      BY <1>0, OneMore
  <1>2. CASE ClientWrite
      <2>1. PICK k : ClientWrites(k)
          BY <1>2 DEF ClientWrite
      <2>2. k \in Nat /\ 1 <= k /\ k <= clientOut /\ k <= ToServer - toServer
          BY <2>1, MovesBounded, Sizes DEF TypeOK, ClientWrites
      <2> QED
          BY <1>1, <2>1, <2>2, Sizes DEF TypeOK, Conserved, ClientWrites
  <1>3. CASE ClientRead
      <2>1. PICK k : ClientReads(k)
          BY <1>3 DEF ClientRead
      <2>2. k \in Nat /\ 1 <= k /\ k <= toClient
          BY <2>1, MovesBounded, Sizes DEF TypeOK, ClientReads
      <2> QED
          BY <1>1, <2>1, <2>2, Sizes DEF TypeOK, Conserved, ClientReads
  <1>4. CASE InitializeRead \/ CheckReads
      <2>1. PICK k : ServerReads(k)
          BY <1>4 DEF InitializeRead, InitializeReads, CheckReads
      <2>2. k \in Nat /\ 1 <= k /\ k <= toServer
          BY <2>1, MovesBounded, Sizes DEF TypeOK, ServerReads
      <2>3. /\ pc' \in {"initializeBuffer", "checkBuffer"}
            /\ UNCHANGED <<plan, clientVars, handled, done, registered, delivered, owed,
                           serverOut, toClient>>
          BY <1>4 DEF InitializeRead, InitializeReads, CheckReads
      <2> QED
          BY <1>1, <2>1, <2>2, <2>3, Sizes DEF TypeOK, Conserved, ServerReads
  <1>5. CASE ServerWrite
      <2>1. PICK k : ServerWrites(k)
          BY <1>5 DEF ServerWrite
      <2>2. k \in Nat /\ 1 <= k /\ k <= serverOut /\ k <= ToClient - toClient
          BY <2>1, MovesBounded, Sizes DEF TypeOK, ServerWrites
      <2> QED
          BY <1>1, <2>1, <2>2, Sizes DEF TypeOK, Conserved, ServerWrites
  <1> QED
      BY <1>2, <1>3, <1>4, <1>5

\* A message that is complete in the buffer is one the client has sent.
LEMMA TakenWasSent ==
    ASSUME TypeOK, Conserved, TakeMessage
    PROVE  /\ handled' = handled + 1 /\ handled' \in 1..sent /\ handled' \in 1..Len(plan)
           /\ rpc' \in Nat /\ rpc' = rpc - MsgLen
           /\ handled' * MsgLen + rpc' = handled * MsgLen + rpc
           /\ handled' * MsgLen <= handled * MsgLen + rpc
  <1>1. sent \in Nat /\ handled \in Nat /\ rpc \in Nat /\ handled + 1 \in Nat
      BY PlanType DEF TypeOK
  <1>2. /\ (handled + 1) * MsgLen = handled * MsgLen + MsgLen
        /\ sent * MsgLen \in Nat /\ handled * MsgLen \in Nat
      BY <1>1, OneMore
  <1>3. handled' = handled + 1 /\ rpc' = rpc - MsgLen /\ rpc >= MsgLen
      BY DEF TakeMessage
  <1>4. (handled + 1) * MsgLen <= sent * MsgLen
      BY <1>1, <1>2, <1>3, Sizes DEF TypeOK, Conserved
  <1>5. handled + 1 <= sent
      BY <1>1, <1>4, MoreUnits
  <1> QED
      BY <1>1, <1>2, <1>3, <1>5, PlanType, Sizes DEF TypeOK

\* The callbacks of Initialize and of Check.
LEMMA MessageUnits ==
    ASSUME TypeOK, Conserved, InitializeMessage \/ CheckMessage
    PROVE  TypeOK' /\ Conserved'
  <1> USE DEF clientVars, serverVars
  <1>1. TakeMessage
      BY DEF InitializeMessage, CheckMessage
  <1>2. /\ handled' = handled + 1 /\ handled' \in 1..sent /\ handled' \in 1..Len(plan)
        /\ rpc' \in Nat
        /\ handled' * MsgLen + rpc' = handled * MsgLen + rpc
      BY <1>1, TakenWasSent
  <1>3. UNCHANGED <<plan, conn, loops, sent, clientOut, clientIn, toServer, pc, registered,
                    toClient>>
      BY DEF InitializeMessage, CheckMessage
  <1>4. done' \in BOOLEAN /\ serverOut' \in 0..2 * MsgLen
      <2>1. done' \in {done, TRUE} /\ serverOut' \in {serverOut, 2 * MsgLen}
          BY DEF InitializeMessage, CheckMessage
      <2>2. done' \in BOOLEAN
          BY <2>1 DEF TypeOK
      <2> QED
          BY <2>1, <2>2, Sizes DEF TypeOK
  <1>5. delivered' \in Seq(0..Len(plan) - 1) /\ owed' \in Nat
      <2>1. handled' - 1 \in 0..Len(plan) - 1
          BY <1>2, PlanType
      <2>2. CASE InitializeMessage
          BY <2>2 DEF TypeOK, InitializeMessage
      <2>3. CASE CheckMessage
          <3>1. \/ delivered' = delivered /\ owed' = owed
                \/ delivered' = Append(delivered, handled' - 1) /\ owed' = owed + 1
              BY <2>3 DEF CheckMessage
          <3>2. delivered \in Seq(0..Len(plan) - 1) /\ owed \in Nat
              BY DEF TypeOK
          <3> DEFINE S == 0..Len(plan) - 1
          <3>3. delivered \in Seq(S) /\ handled' - 1 \in S
              BY <2>1, <3>2
          <3> HIDE DEF S
          <3>4. Append(delivered, handled' - 1) \in Seq(S)
              BY <3>3, AppendProperties
          <3>5. delivered' \in Seq(S) /\ owed' \in Nat
              BY <3>1, <3>2, <3>3, <3>4
          <3> QED
              BY <3>5 DEF S
      <2> QED
          BY <2>2, <2>3
  <1>6. TypeOK'
      BY <1>2, <1>3, <1>4, <1>5 DEF TypeOK
  <1>7. Conserved'
      BY <1>2, <1>3 DEF Conserved
  <1> QED
      BY <1>6, <1>7

\* Every step keeps the types and the units.
LEMMA NextUnits == TypeOK /\ Conserved /\ [Next]_vars => (TypeOK /\ Conserved)'
  <1> SUFFICES ASSUME TypeOK, Conserved, [Next]_vars PROVE (TypeOK /\ Conserved)'
      OBVIOUS
  <1>1. CASE RetryWrite \/ Done \/ UNCHANGED vars
      BY <1>1 DEF RetryWrite, Done, vars, clientVars, serverVars, TypeOK, Conserved
  <1> QED
      BY <1>1, ControlUnits, ClientSendUnits, TransferUnits, MessageUnits DEF Next, Server

\* The types of ServerProtocol, for every plan and every size of messages, reads
\* and kernel buffers.  Above all: the server never takes a message from its
\* buffer that the client has not sent (handled \in 0..sent), and neither end
\* moves more units than the kernel holds.
THEOREM TypeCorrect == Spec => []TypeOK
  <1>1. Spec => [](TypeOK /\ Conserved)
      BY InitUnits, NextUnits, PTL DEF Spec
  <1> QED
      BY <1>1, PTL

----------------------------------------------------------------------------
(* The handshake and the deliveries.                                       *)

\* Fewer messages are fewer units.
LEMMA FewerUnits ==
    ASSUME NEW m \in Nat, NEW n \in Nat, m <= n
    PROVE  m * MsgLen <= n * MsgLen
  <1>1. CASE m = n
      BY <1>1, OneMore
  <1>2. CASE m * MsgLen > n * MsgLen
      BY <1>2, MoreUnits, OneMore, Sizes
  <1> QED
      BY <1>1, <1>2, OneMore

\* What is used of the types below.
LEMMA Counts ==
    ASSUME TypeOK
    PROVE  /\ sent \in Nat /\ handled \in Nat /\ rpc \in Nat /\ toServer \in Nat
           /\ clientOut \in Nat /\ clientIn \in Nat /\ toClient \in Nat /\ serverOut \in Nat
           /\ handled <= sent /\ sent <= Len(plan) /\ Len(plan) \in Nat
           /\ delivered \in Seq(0..Len(plan) - 1) /\ Requested!Last \in Nat
  <1>1. /\ sent \in Nat /\ handled \in Nat /\ rpc \in Nat /\ toServer \in Nat
        /\ clientOut \in Nat /\ clientIn \in Nat /\ toClient \in Nat /\ serverOut \in Nat
        /\ handled <= sent /\ sent <= Len(plan) /\ Len(plan) \in Nat
      BY PlanType, Sizes DEF TypeOK
  <1>3. delivered \in Seq(0..Len(plan) - 1)
      BY DEF TypeOK
  <1>4. Requested!Last \in Nat
      <2>1. CASE delivered = <<>>
          BY <2>1 DEF Requested!Last
      <2>2. CASE delivered # <<>>
          <3>1. Len(delivered) \in 1..Len(delivered)
              BY <1>3, <2>2, EmptySeq, LenProperties
          <3>2. delivered[Len(delivered)] \in 0..Len(plan) - 1
              BY <1>3, <3>1, ElementOfSeq
          <3> QED
              BY <1>1, <2>2, <3>2 DEF Requested!Last
      <2> QED
          BY <2>1, <2>2
  <1> QED
      BY <1>1, <1>3, <1>4

\* ... and the units of whole messages are numbers too.
LEMMA Numbers ==
    ASSUME TypeOK
    PROVE  /\ sent \in Nat /\ handled \in Nat /\ rpc \in Nat /\ toServer \in Nat
           /\ clientOut \in Nat /\ clientIn \in Nat /\ toClient \in Nat /\ serverOut \in Nat
           /\ handled <= sent /\ sent <= Len(plan) /\ Len(plan) \in Nat
           /\ sent * MsgLen \in Nat /\ handled * MsgLen \in Nat
  <1>1. /\ sent \in Nat /\ handled \in Nat /\ rpc \in Nat /\ toServer \in Nat
        /\ clientOut \in Nat /\ clientIn \in Nat /\ toClient \in Nat /\ serverOut \in Nat
        /\ handled <= sent /\ sent <= Len(plan) /\ Len(plan) \in Nat
      BY Counts
  <1>2. sent * MsgLen \in Nat /\ handled * MsgLen \in Nat
      BY <1>1, OneMore
  <1> QED
      BY <1>1, <1>2

\* Before the first message nothing is taken, read or delivered.
LEMMA InitHandshake == Init => Handshake
  <1> SUFFICES ASSUME Init PROVE Handshake
      OBVIOUS
  <1>1. \A i \in 1..sent : FALSE
      BY DEF Init
  <1> QED
      BY <1>1 DEF Init, Handshake, SilentUntilDone, HeldBack, Phases, HandshakeTakesEarly,
         OnlyDroppable

\* The steps that neither take a message nor read one.
LEMMA ControlHandshake ==
    ASSUME TypeOK, Handshake,
           \/ Start \/ Connect \/ Accept \/ Close \/ ClientWrite \/ CheckReads
           \/ CheckBufferEnd \/ RegisterNetworkCallback \/ ServerFails
    PROVE  Handshake'
  <1> DEFINE early == {"start", "listening", "initialize"}
             late == {"loop", "checkBuffer"}
  <1>1. /\ UNCHANGED <<plan, sent, clientIn, handled, done, delivered, toClient>>
        /\ serverOut' \in {serverOut, 0}
        /\ \/ pc' = pc /\ rpc' = rpc
           \/ pc \in early /\ pc' \in early /\ rpc' = rpc
           \/ pc \in late /\ pc' \in late
           \/ pc' = "failed"
      BY DEF Start, Connect, Accept, Close, ClientWrite, ClientWrites, CheckReads,
         CheckBufferEnd, RegisterNetworkCallback, ServerFails, clientVars, serverVars
  <1>2. SilentUntilDone' /\ HeldBack' /\ Phases'
      BY <1>1 DEF Handshake, SilentUntilDone, HeldBack, Phases
  <1>3. HandshakeTakesEarly'
      BY <1>1 DEF Handshake, HandshakeTakesEarly
  <1>4. OnlyDroppable'
      BY <1>1 DEF Handshake, OnlyDroppable, Requested!Last
  <1> QED
      BY <1>2, <1>3, <1>4 DEF Handshake

\* The client sends what is early, or has the answer; the new message is not yet
\* in the server's buffer.
LEMMA ClientSendHandshake ==
    ASSUME TypeOK, Conserved, Handshake, ClientSend
    PROVE  Handshake'
  <1>1. /\ sent' = sent + 1 /\ (plan[sent + 1].early \/ clientIn >= MsgLen)
        /\ UNCHANGED <<plan, clientIn, pc, rpc, handled, done, delivered, serverOut, toClient>>
      BY DEF ClientSend, serverVars
  <1>2. \A i \in 1..sent' : i \in 1..sent \/ i = sent + 1
      BY <1>1, Counts
  <1>3. HeldBack'
      <2> SUFFICES ASSUME clientIn < MsgLen, NEW i \in 1..sent' PROVE plan[i].early
          BY <1>1 DEF HeldBack
      <2>1. ~(clientIn >= MsgLen)
          BY Counts, Sizes
      <2>2. CASE i = sent + 1
          BY <1>1, <2>1, <2>2
      <2>3. CASE i \in 1..sent
          BY <2>3 DEF Handshake, HeldBack
      <2> QED
          BY <1>2, <2>2, <2>3
  <1>4. (sent + 1) * MsgLen > handled * MsgLen + rpc
      <2> DEFINE inSent == sent * MsgLen
                 inHandled == handled * MsgLen
      <2>1. (sent + 1) * MsgLen = inSent + MsgLen
          BY Counts, OneMore
      <2>2. inHandled + rpc + toServer + clientOut = inSent
          BY DEF Conserved
      <2>3. /\ inSent \in Nat /\ inHandled \in Nat
            /\ rpc \in Nat /\ toServer \in Nat /\ clientOut \in Nat
          BY Numbers
      <2> HIDE DEF inSent, inHandled
      <2>4. inSent + MsgLen > inHandled + rpc
          BY <2>2, <2>3, Sizes
      <2> QED
          BY <2>1, <2>4 DEF inHandled
  <1>5. HandshakeTakesEarly'
      <2> SUFFICES ASSUME pc \in {"start", "listening", "initialize", "initializeBuffer"},
                          NEW i \in 1..sent', i * MsgLen <= handled * MsgLen + rpc
                   PROVE  plan[i].early
          BY <1>1 DEF HandshakeTakesEarly
      <2>1. i # sent + 1
          <3>1. sent + 1 \in Nat
              BY Counts
          <3>2. (sent + 1) * MsgLen \in Nat
              BY <3>1, OneMore
          <3> QED
              BY <1>4, <3>2, Numbers
      <2> QED
          BY <1>2, <2>1 DEF Handshake, HandshakeTakesEarly
  <1>6. SilentUntilDone' /\ Phases' /\ OnlyDroppable'
      BY <1>1 DEF Handshake, SilentUntilDone, Phases, OnlyDroppable, Requested!Last
  <1> QED
      BY <1>3, <1>5, <1>6 DEF Handshake

\* Only what the server has sent is read, and only after the initialize request
\* does it send.
LEMMA AnswersHandshake ==
    ASSUME TypeOK, Handshake, ClientRead \/ ServerWrite \/ ProcessGdbMessage
    PROVE  Handshake'
  <1> USE DEF clientVars, serverVars
  <1>1. /\ done /\ clientIn' >= clientIn /\ clientIn' \in Nat
        /\ UNCHANGED <<plan, sent, pc, rpc, handled, done, delivered>>
      <2>1. CASE ClientRead
          <3>1. PICK k : ClientReads(k)
              BY <2>1 DEF ClientRead
          <3>2. k \in Nat /\ 1 <= k /\ k <= toClient
              BY <3>1, MovesBounded, Sizes DEF TypeOK, ClientReads
          <3>3. toClient # 0
              BY <3>2, Counts
          <3>4. done
              BY <3>3 DEF Handshake, SilentUntilDone
          <3>5. /\ clientIn' = clientIn + k
                /\ UNCHANGED <<plan, sent, pc, rpc, handled, done, delivered>>
              BY <3>1 DEF ClientReads
          <3>6. clientIn \in Nat
              BY Counts
          <3>7. clientIn' >= clientIn /\ clientIn' \in Nat
              BY <3>2, <3>5, <3>6
          <3> QED
              BY <3>4, <3>5, <3>7
      <2>2. CASE ServerWrite
          <3>1. PICK k : ServerWrites(k)
              BY <2>2 DEF ServerWrite
          <3>2. k \in Nat /\ 1 <= k /\ k <= serverOut
              BY <3>1, MovesBounded, Sizes DEF TypeOK, ServerWrites
          <3>3. serverOut # 0
              BY <3>2, Counts
          <3>4. done
              BY <3>3 DEF Handshake, SilentUntilDone
          <3> QED
              BY <3>1, <3>4, Counts DEF ServerWrites
      <2>3. CASE ProcessGdbMessage
          <3>1. done
              BY <2>3 DEF ProcessGdbMessage, Handshake, Phases
          <3> QED
              BY <2>3, <3>1, Counts DEF ProcessGdbMessage
      <2> QED
          BY <2>1, <2>2, <2>3
  <1>2. HeldBack'
      BY <1>1, Counts, Sizes DEF Handshake, HeldBack
  <1>3. SilentUntilDone' /\ Phases' /\ HandshakeTakesEarly' /\ OnlyDroppable'
      BY <1>1 DEF Handshake, SilentUntilDone, Phases, HandshakeTakesEarly, OnlyDroppable,
         Requested!Last
  <1> QED
      BY <1>2, <1>3 DEF Handshake

\* What the handshake reads was sent before the answer.
LEMMA InitializeReadHandshake ==
    ASSUME TypeOK, Conserved, Handshake, InitializeRead
    PROVE  Handshake'
  <1>1. /\ pc = "initialize" /\ pc' = "initializeBuffer"
        /\ UNCHANGED <<plan, sent, clientIn, handled, done, delivered, serverOut, toClient>>
      BY DEF InitializeRead, InitializeReads, clientVars
  <1>2. \A i \in 1..sent : plan[i].early
      BY <1>1, Sizes DEF Handshake, Phases, SilentUntilDone, HeldBack
  <1> QED
      BY <1>1, <1>2 DEF Handshake, SilentUntilDone, HeldBack, Phases, HandshakeTakesEarly,
         OnlyDroppable

\* The callback of Initialize.
LEMMA InitializeMessageHandshake ==
    ASSUME TypeOK, Conserved, Handshake, InitializeMessage
    PROVE  Handshake'
  <1>1. /\ handled' = handled + 1 /\ handled' * MsgLen + rpc' = handled * MsgLen + rpc
      BY TakenWasSent DEF InitializeMessage
  <1>2. /\ pc = "initializeBuffer" /\ pc' = pc
        /\ UNCHANGED <<plan, sent, clientIn, delivered, toClient>>
        /\ done' \/ UNCHANGED <<serverOut, done>>
      BY DEF InitializeMessage, clientVars
  <1>3. SilentUntilDone' /\ HeldBack' /\ OnlyDroppable'
      BY <1>2 DEF Handshake, SilentUntilDone, HeldBack, OnlyDroppable
  <1>4. Phases'
      BY <1>1, <1>2, Counts DEF Handshake, Phases
  <1>5. HandshakeTakesEarly'
      BY <1>1, <1>2 DEF Handshake, HandshakeTakesEarly
  <1> QED
      BY <1>3, <1>4, <1>5 DEF Handshake

\* When Initialize returns, all it has taken was early.
LEMMA InitializeBufferEndHandshake ==
    ASSUME TypeOK, Handshake, InitializeBufferEnd
    PROVE  Handshake'
  <1>1. /\ pc = "initializeBuffer" /\ pc' = IF done THEN "loop" ELSE "initialize"
        /\ UNCHANGED <<plan, sent, clientIn, rpc, handled, done, delivered, serverOut,
                       toClient>>
      BY DEF InitializeBufferEnd, clientVars
  <1>2. SilentUntilDone' /\ HeldBack' /\ Phases' /\ HandshakeTakesEarly'
      BY <1>1 DEF Handshake, SilentUntilDone, HeldBack, Phases, HandshakeTakesEarly
  <1>3. CASE done
      <2>1. delivered' = <<>> /\ Requested!Last' = 0 /\ handled' > 0
          BY <1>1, <1>3 DEF Handshake, Phases, Requested!Last
      <2>2. ASSUME NEW k \in 1 .. handled - 1 PROVE plan[k + 1].early
          <3>1. k + 1 \in Nat /\ k + 1 <= handled /\ k + 1 \in 1..sent
              BY Counts
          <3>2. (k + 1) * MsgLen <= handled * MsgLen /\ (k + 1) * MsgLen \in Nat
              BY <3>1, FewerUnits, OneMore, Counts
          <3>3. (k + 1) * MsgLen <= handled * MsgLen + rpc
              BY <3>2, Numbers
          <3> QED
              BY <1>1, <3>1, <3>3 DEF Handshake, HandshakeTakesEarly
      <2>3. \A k \in Requested!Last' + 1 .. handled' - 1 : MayBeDropped(plan'[k + 1])
          BY <1>1, <2>1, <2>2 DEF MayBeDropped
      <2>4. Requested!Last' < handled'
          BY <2>1
      <2>5. OnlyDroppable'
          BY <2>3, <2>4 DEF OnlyDroppable
      <2> QED
          BY <1>2, <2>5 DEF Handshake
  <1>4. CASE ~done
      BY <1>1, <1>2, <1>4 DEF Handshake, OnlyDroppable
  <1> QED
      BY <1>3, <1>4

\* The callback of Check: what it does not give to the program it cannot decode.
LEMMA CheckMessageHandshake ==
    ASSUME TypeOK, Conserved, Handshake, CheckMessage
    PROVE  Handshake'
  <1>1. handled' = handled + 1 /\ handled' \in 1..Len(plan)
      BY TakenWasSent DEF CheckMessage
  <1>2. /\ pc = "checkBuffer" /\ pc' = pc
        /\ UNCHANGED <<plan, sent, clientIn, done, serverOut, toClient>>
      BY DEF CheckMessage, clientVars
  <1>3. SilentUntilDone' /\ HeldBack' /\ HandshakeTakesEarly'
      BY <1>2 DEF Handshake, SilentUntilDone, HeldBack, HandshakeTakesEarly
  <1>4. Phases'
      BY <1>1, <1>2, Counts DEF Handshake, Phases
  <1>5. Requested!Last < handled
        /\ \A k \in Requested!Last + 1 .. handled - 1 : MayBeDropped(plan[k + 1])
      BY <1>2 DEF Handshake, OnlyDroppable
  <1>6. CASE plan[handled'].cmd # "variables"
      <2>1. delivered' = Append(delivered, handled)
          BY <1>1, <1>6, Counts DEF CheckMessage
      <2>2. handled \in 0..Len(plan) - 1
          BY <1>1, Counts
      <2>3. Requested!Last' = handled
          <3>1. delivered \in Seq(0..Len(plan) - 1)
              BY Counts
          <3>2. /\ Append(delivered, handled) # <<>>
                /\ Append(delivered, handled)[Len(Append(delivered, handled))] = handled
              BY <2>2, <3>1, AppendProperties
          <3> QED
              BY <2>1, <3>2 DEF Requested!Last
      <2> QED
          BY <1>1, <1>2, <1>3, <1>4, <2>3, Counts DEF Handshake, OnlyDroppable
  <1>7. CASE plan[handled'].cmd = "variables"
      <2>1. delivered' = delivered /\ Requested!Last' = Requested!Last
          BY <1>7 DEF CheckMessage, Requested!Last
      <2>2. MayBeDropped(plan[handled + 1])
          BY <1>1, <1>7 DEF MayBeDropped
      <2>3. ASSUME NEW k \in Requested!Last + 1 .. handled' - 1
            PROVE  MayBeDropped(plan[k + 1])
          <3> DEFINE last == Requested!Last
          <3>0. last \in Nat /\ handled \in Nat
              BY Counts
          <3> HIDE DEF last
          <3>1. k = handled \/ k \in last + 1 .. handled - 1
              BY <1>1, <3>0 DEF last
          <3> QED
              BY <1>5, <2>2, <3>1 DEF last
      <2>4. Requested!Last < handled'
          BY <1>1, <1>5, Counts
      <2>5. OnlyDroppable'
          BY <1>2, <2>1, <2>3, <2>4 DEF OnlyDroppable, MayBeDropped
      <2> QED
          BY <1>3, <1>4, <2>5 DEF Handshake
  <1> QED
      BY <1>6, <1>7

\* Every step keeps the order of the handshake and of the deliveries.
LEMMA NextHandshake ==
    TypeOK /\ Conserved /\ Handshake /\ [Next]_vars => Handshake'
  <1> SUFFICES ASSUME TypeOK, Conserved, Handshake, [Next]_vars PROVE Handshake'
      OBVIOUS
  <1>1. CASE RetryWrite \/ Done \/ UNCHANGED vars
      BY <1>1 DEF RetryWrite, Done, vars, clientVars, serverVars, Handshake, SilentUntilDone,
         HeldBack, Phases, HandshakeTakesEarly, OnlyDroppable, Requested!Last
  <1> QED
      BY <1>1, ControlHandshake, ClientSendHandshake, AnswersHandshake,
         InitializeReadHandshake, InitializeMessageHandshake, InitializeBufferEndHandshake,
         CheckMessageHandshake DEF Next, Server

----------------------------------------------------------------------------
(* The refinement of MessageStream.                                        *)

\* The kinds of the requests after initialize.
LEMMA StreamKinds ==
    ASSUME TypeOK, NEW k \in 1..Len(plan) - 1
    PROVE  /\ [i \in 1..Len(plan) - 1 |->
                  IF MayBeDropped(plan[i + 1]) THEN "maybe" ELSE "ok"][k] # "bad"
           /\ MayBeDropped(plan[k + 1]) =>
                 [i \in 1..Len(plan) - 1 |->
                     IF MayBeDropped(plan[i + 1]) THEN "maybe" ELSE "ok"][k] = "maybe"
  OBVIOUS

\* A call of the program's callback is a delivery of the abstract stream.
LEMMA CheckMessageDelivers ==
    ASSUME TypeOK, Conserved, Handshake, CheckMessage
    PROVE  [Requested!Next]_(Requested!vars)
  <1> DEFINE kinds == [i \in 1..Len(plan) - 1 |->
                          IF MayBeDropped(plan[i + 1]) THEN "maybe" ELSE "ok"]
  <1>1. handled' = handled + 1 /\ handled' \in 1..Len(plan)
      BY TakenWasSent DEF CheckMessage
  <1>2. pc = "checkBuffer" /\ plan' = plan /\ conn' = conn
      BY DEF CheckMessage, clientVars
  <1>3. /\ Requested!Last < handled
        /\ \A k \in Requested!Last + 1 .. handled - 1 : MayBeDropped(plan[k + 1])
      BY <1>2 DEF Handshake, OnlyDroppable
  <1>4. kinds' = kinds /\ (conn \notin {"gaveUp", "closed"})' = (conn \notin {"gaveUp", "closed"})
      BY <1>2 DEF MayBeDropped
  <1>5. CASE plan[handled'].cmd = "variables"
      BY <1>4, <1>5 DEF CheckMessage, Requested!vars
  <1>6. CASE plan[handled'].cmd # "variables"
      <2>1. delivered' = Append(delivered, handled)
          BY <1>1, <1>6, Counts DEF CheckMessage
      <2>2. handled \in 1..Len(plan) - 1 /\ handled > Requested!Last
          BY <1>1, <1>3, Counts
      <2>3. kinds[handled] # "bad"
          BY <2>2, StreamKinds
      <2>4. \A k \in Requested!Last + 1 .. handled - 1 : kinds[k] = "maybe"
          <3> TAKE k \in Requested!Last + 1 .. handled - 1
          <3>1. k \in 1..Len(plan) - 1
              BY <2>2, Counts
          <3> QED
              BY <1>3, <3>1, StreamKinds
      <2>5. DOMAIN kinds = 1..Len(plan) - 1
          OBVIOUS
      <2>6. Requested!Deliver(handled)
          BY <1>4, <2>1, <2>2, <2>3, <2>4 DEF Requested!Deliver
      <2> QED
          BY <2>2, <2>5, <2>6 DEF Requested!Next
  <1> QED
      BY <1>5, <1>6

\* No other step delivers; the connection ends at most once.
LEMMA OthersStutter ==
    ASSUME TypeOK, [Next]_vars, ~CheckMessage
    PROVE  [Requested!Next]_(Requested!vars)
  <1> DEFINE kinds == [i \in 1..Len(plan) - 1 |->
                          IF MayBeDropped(plan[i + 1]) THEN "maybe" ELSE "ok"]
             isUp == conn \notin {"gaveUp", "closed"}
  <1> USE DEF clientVars, serverVars
  <1>1. plan' = plan /\ delivered' = delivered
      BY DEF Next, Server, vars, Start, Connect, Close, ClientSend, ClientWrite, ClientWrites,
         ClientRead, ClientReads, Accept, InitializeRead, InitializeReads, InitializeMessage,
         InitializeBufferEnd, CheckReads, CheckBufferEnd, ServerWrite, ServerWrites,
         ServerFails, RegisterNetworkCallback, ProcessGdbMessage, RetryWrite, Done
  <1>2. \/ conn' = conn
        \/ conn \in {"connecting", "up"} /\ conn' \in {"connecting", "up", "gaveUp", "closed"}
      BY DEF Next, Server, vars, Start, Connect, Close, ClientSend, ClientWrite, ClientWrites,
         ClientRead, ClientReads, Accept, InitializeRead, InitializeReads, InitializeMessage,
         InitializeBufferEnd, CheckReads, CheckBufferEnd, ServerWrite, ServerWrites,
         ServerFails, RegisterNetworkCallback, ProcessGdbMessage, RetryWrite, Done
  <1>3. kinds' = kinds
      BY <1>1 DEF MayBeDropped
  <1>4. CASE isUp' = isUp
      BY <1>1, <1>3, <1>4 DEF Requested!vars
  <1>5. CASE isUp' # isUp
      <2>1. isUp /\ isUp' = FALSE
          BY <1>2, <1>5
      <2> QED
          BY <1>1, <1>3, <2>1 DEF Requested!Next, Requested!Break
  <1> QED
      BY <1>4, <1>5

\* The inductive invariant of the connection, for every plan and every size.
LEMMA ServerInvariant == Spec => [](TypeOK /\ Conserved /\ Handshake)
  <1>1. Init => TypeOK /\ Conserved /\ Handshake
      BY InitUnits, InitHandshake
  <1>2. TypeOK /\ Conserved /\ Handshake /\ [Next]_vars
            => (TypeOK /\ Conserved /\ Handshake)'
      BY NextUnits, NextHandshake
  <1> QED
      BY <1>1, <1>2, PTL DEF Spec

\* The server hands the program the client's requests in their order, none of
\* them twice and none left out but those it may drop (undecodable, or sent
\* before the answer to initialize): every step of the two threads, the two
\* sockets and the handshake is a step of MessageStream or leaves it alone
\* (Initialize, Check, Connect).
THEOREM RequestsInOrder == Spec => ImplementsStream
  <1>1. Init => Requested!Init
      BY DEF Init, Requested!Init
  <1>2. TypeOK /\ Conserved /\ Handshake /\ [Next]_vars => [Requested!Next]_(Requested!vars)
      BY CheckMessageDelivers, OthersStutter
  <1> QED
      BY <1>1, <1>2, ServerInvariant, PTL DEF Spec, ImplementsStream, Requested!Safety
=============================================================================
