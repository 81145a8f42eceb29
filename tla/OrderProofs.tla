---------------------------- MODULE OrderProofs ----------------------------
(***************************************************************************)
(* What Client leaves to the order of the server's messages: a refId taken *)
(* from the front of a queue is the one of the request that is answered,   *)
(* and CanInteract follows the debuggee.                                   *)
(***************************************************************************)
EXTENDS RequestProofs

----------------------------------------------------------------------------
(* The arguments of the messages for a command.                            *)

\* What message m adds to them.
One(c, m) == IF m.cmd = c THEN <<m.arg>> ELSE <<>>

\* What the messages of s add, one by one.
Parts(c, s) == [i \in DOMAIN s |-> IF s[i].cmd = c THEN <<s[i].arg>> ELSE <<>>]

\* The messages of S have an argument.
HaveArgs(S) == \A m \in S : m.arg \in Int

LEMMA OneType ==
    ASSUME NEW c, NEW m, m.arg \in Int
    PROVE  One(c, m) \in Seq(Int)
  BY DEF One

LEMMA PartsType ==
    ASSUME NEW S, HaveArgs(S), NEW c, NEW s \in Seq(S)
    PROVE  /\ Parts(c, s) \in Seq(Seq(Int)) /\ Len(Parts(c, s)) = Len(s)
           /\ \A i \in 1..Len(s) : Parts(c, s)[i] = One(c, s[i])
  <1>1. Len(s) \in Nat /\ DOMAIN s = 1..Len(s)
      BY LenProperties
  <1>2. \A i \in 1..Len(s) : s[i].arg \in Int
      BY <1>1, ElementOfSeq DEF HaveArgs
  <1>3. Parts(c, s) = [i \in 1..Len(s) |-> One(c, s[i])]
      BY <1>1 DEF Parts, One
  <1>4. \A i \in 1..Len(s) : One(c, s[i]) \in Seq(Int)
      BY <1>2, OneType
  <1> QED
      BY <1>1, <1>3, <1>4, IsASeq

LEMMA ArgsType ==
    ASSUME NEW S, HaveArgs(S), NEW c, NEW s \in Seq(S)
    PROVE  ArgsOf(c, s) \in Seq(Int)
  <1>1. ArgsOf(c, s) = FlattenSeq(Parts(c, s))
      BY DEF ArgsOf, Parts
  <1> QED
      BY <1>1, PartsType, FlattenType

\* Those of two sequences, one after the other.
LEMMA ArgsConcat ==
    ASSUME NEW S, HaveArgs(S), NEW c, NEW s \in Seq(S), NEW t \in Seq(S)
    PROVE  ArgsOf(c, s \o t) = ArgsOf(c, s) \o ArgsOf(c, t)
  <1> DEFINE st == s \o t
             a == Parts(c, s)
             b == Parts(c, t)
             p == Parts(c, st)
             q == a \o b
             k == Len(s)
             l == Len(t)
  <1>1. k \in Nat /\ l \in Nat
      BY LenProperties
  <1>2. /\ st \in Seq(S) /\ Len(st) = k + l
        /\ \A i \in 1..k + l : st[i] = IF i <= k THEN s[i] ELSE t[i - k]
      BY ConcatProperties
  <1>3. /\ a \in Seq(Seq(Int)) /\ Len(a) = k /\ \A i \in 1..k : a[i] = One(c, s[i])
        /\ b \in Seq(Seq(Int)) /\ Len(b) = l /\ \A i \in 1..l : b[i] = One(c, t[i])
      BY PartsType
  <1> HIDE DEF st, a, b, k, l
  <1>4. /\ p \in Seq(Seq(Int)) /\ Len(p) = k + l /\ \A i \in 1..k + l : p[i] = One(c, st[i])
      <2>1. /\ p \in Seq(Seq(Int)) /\ Len(p) = Len(st) /\ \A i \in 1..Len(st) : p[i] = One(c, st[i])
          BY <1>2, PartsType
      <2> QED
          BY <1>2, <2>1
  <1> HIDE DEF p
  <1>5. /\ q \in Seq(Seq(Int)) /\ Len(q) = k + l
        /\ \A i \in 1..k + l : q[i] = IF i <= k THEN a[i] ELSE b[i - k]
      BY <1>3, ConcatProperties
  <1> HIDE DEF q
  <1>6. ASSUME NEW i \in 1..k + l PROVE p[i] = q[i]
      <2>1. CASE i <= k
          <3>1. i \in 1..k
              BY <1>1, <2>1
          <3>2. st[i] = s[i] /\ q[i] = a[i]
              BY <1>2, <1>5, <2>1
          <3> QED
              BY <1>3, <1>4, <3>1, <3>2, Zenon
      <2>2. CASE ~(i <= k)
          <3>1. i - k \in 1..l
              BY <1>1, <2>2
          <3>2. st[i] = t[i - k] /\ q[i] = b[i - k]
              BY <1>2, <1>5, <2>2
          <3> QED
              BY <1>3, <1>4, <3>1, <3>2, Zenon
      <2> QED
          BY <2>1, <2>2
  <1>7. p = q
      BY <1>4, <1>5, <1>6, SeqEqual
  <1>8. FlattenSeq(a \o b) = FlattenSeq(a) \o FlattenSeq(b)
      BY <1>3, FlattenConcat
  <1>9. FlattenSeq(p) = FlattenSeq(a) \o FlattenSeq(b)
      BY <1>7, <1>8 DEF q
  <1> QED
      BY <1>9 DEF ArgsOf, p, a, b, Parts, st

\* Those of one message.
LEMMA ArgsOne ==
    ASSUME NEW S, HaveArgs(S), NEW c, NEW m \in S
    PROVE  ArgsOf(c, <<m>>) = One(c, m)
  <1> DEFINE w == <<m>>
             o == One(c, m)
             p == Parts(c, w)
  <1>1. o \in Seq(Int)
      BY OneType DEF HaveArgs
  <1>2. w \in Seq(S) /\ Len(w) = 1 /\ w[1] = m /\ 1 \in 1..1
      OBVIOUS
  <1> HIDE DEF w
  <1>3. p \in Seq(Seq(Int)) /\ Len(p) = 1 /\ p[1] = o
      <2>1. p \in Seq(Seq(Int)) /\ Len(p) = Len(w) /\ \A i \in 1..Len(w) : p[i] = One(c, w[i])
          BY <1>2, PartsType
      <2> QED
          BY <1>2, <2>1
  <1> HIDE DEF o, p
  <1>4. p = Append(<<>>, o) /\ <<>> \in Seq(Seq(Int))
      BY <1>1, <1>3
  <1>5. FlattenSeq(p) = FlattenSeq(<<>>) \o o
      BY <1>1, <1>4, FlattenAppend
  <1>6. FlattenSeq(p) = o
      BY <1>1, <1>5, FlattenEmpty, ConcatEmptySeq
  <1> QED
      BY <1>6 DEF ArgsOf, Parts, p, o, w

\* Those of a sequence with one more message.
LEMMA ArgsAppend ==
    ASSUME NEW S, HaveArgs(S), NEW c, NEW s \in Seq(S), NEW m \in S
    PROVE  ArgsOf(c, Append(s, m)) = ArgsOf(c, s) \o One(c, m)
  <1> DEFINE t == <<m>>
  <1>1. Append(s, m) = s \o t /\ t \in Seq(S)
      OBVIOUS
  <1>2. ArgsOf(c, t) = One(c, m)
      BY ArgsOne
  <1> HIDE DEF t
  <1>3. ArgsOf(c, s \o t) = ArgsOf(c, s) \o ArgsOf(c, t)
      BY <1>1, ArgsConcat
  <1> QED
      BY <1>1, <1>2, <1>3

\* Those of a sequence by its first message and the others.
LEMMA ArgsHeadTail ==
    ASSUME NEW S, HaveArgs(S), NEW c, NEW s \in Seq(S), s # <<>>
    PROVE  ArgsOf(c, s) = One(c, Head(s)) \o ArgsOf(c, Tail(s))
  <1> DEFINE h == Head(s)
             t == Tail(s)
             w == <<h>>
  <1>1. s = w \o t /\ w \in Seq(S) /\ t \in Seq(S) /\ h \in S
      OBVIOUS
  <1>2. ArgsOf(c, w) = One(c, h)
      BY <1>1, ArgsOne
  <1> HIDE DEF h, t, w
  <1>3. ArgsOf(c, w \o t) = ArgsOf(c, w) \o ArgsOf(c, t)
      BY <1>1, ArgsConcat
  <1> QED
      BY <1>1, <1>2, <1>3, Zenon DEF h, t

\* None when no message is for the command.
LEMMA ArgsNone ==
    ASSUME NEW S, HaveArgs(S), NEW c, NEW s \in Seq(S), \A i \in DOMAIN s : s[i].cmd # c
    PROVE  ArgsOf(c, s) = <<>>
  <1> DEFINE p == Parts(c, s)
             f == FlattenSeq(p)
  <1>1. /\ p \in Seq(Seq(Int)) /\ Len(p) = Len(s) /\ DOMAIN s = 1..Len(s)
        /\ \A i \in 1..Len(s) : p[i] = One(c, s[i])
      BY PartsType, LenProperties
  <1>2. \A i \in 1..Len(p) : p[i] = <<>>
      BY <1>1 DEF One
  <1> HIDE DEF p
  <1>3. f \in Seq(Int) /\ Len(f) \in Nat
      BY <1>1, FlattenType, LenProperties
  <1>4. ~\E j \in 1..Len(f) : TRUE
      <2> SUFFICES ASSUME NEW j \in 1..Len(f) PROVE FALSE
          OBVIOUS
      <2>1. PICK k \in 1..Len(p) : \E n \in 1..Len(p[k]) : f[j] = p[k][n]
          BY <1>1, FlattenFrom
      <2>2. Len(p[k]) = 0
          BY <1>2, EmptySeq
      <2> QED
          BY <2>1, <2>2
  <1> HIDE DEF f
  <1>5. f = <<>>
      <2>1. Len(f) = 0
          BY <1>3, <1>4
      <2> QED
          BY <1>3, <2>1, EmptySeq
  <1> QED
      BY <1>5 DEF f, p, Parts, ArgsOf

\* Those of a sequence without its element i.
LEMMA ArgsRemoved ==
    ASSUME NEW S, HaveArgs(S), NEW c, NEW s \in Seq(S), NEW i \in 1..Len(s),
           s[i].cmd = c => \A j \in 1..i - 1 : s[j].cmd # c
    PROVE  ArgsOf(c, s) = One(c, s[i])
              \o ArgsOf(c, SubSeq(s, 1, i - 1) \o SubSeq(s, i + 1, Len(s)))
  <1> DEFINE a == SubSeq(s, 1, i - 1)
             d == SubSeq(s, i, Len(s))
             b == SubSeq(s, i + 1, Len(s))
             m == s[i]
             A == ArgsOf(c, a)
             B == ArgsOf(c, b)
             o == One(c, m)
  <1>0. Len(s) \in Nat /\ DOMAIN s = 1..Len(s) /\ i \in Int /\ m \in S
      BY LenProperties, ElementOfSeq
  <1>1. i - 1 \in Nat /\ i - 1 <= Len(s) /\ i - 1 + 1 = i
      BY <1>0
  <1>2. a \in Seq(S) /\ d \in Seq(S) /\ a \o d = s
      BY <1>1, CutInTwo
  <1>3. i \in Nat /\ i <= Len(s)
      BY <1>0
  <1>4. b \in Seq(S)
      BY <1>3, CutInTwo
  <1>5. d = <<m>> \o b /\ <<m>> \in Seq(S)
      BY <1>0
  <1>6. ArgsOf(c, d) = o \o B
      <2> DEFINE w == <<m>>
      <2>1. ArgsOf(c, w) = o /\ w \in Seq(S) /\ d = w \o b
          BY <1>0, <1>5, ArgsOne
      <2> HIDE DEF w, b, d, o
      <2>2. ArgsOf(c, w \o b) = ArgsOf(c, w) \o ArgsOf(c, b)
          <3>1. w \in Seq(S) /\ b \in Seq(S)
              BY <1>4, <2>1
          <3> QED
              BY <3>1, ArgsConcat
      <2> QED
          BY <2>1, <2>2, Zenon
  <1>7. A \in Seq(Int) /\ B \in Seq(Int) /\ o \in Seq(Int)
      BY <1>0, <1>2, <1>4, ArgsType, OneType DEF HaveArgs
  <1>8. m.cmd = c => A = <<>>
      <2> SUFFICES ASSUME m.cmd = c PROVE A = <<>>
          OBVIOUS
      <2>1. \A j \in DOMAIN a : a[j].cmd # c
          BY <1>0, <1>1
      <2> HIDE DEF a
      <2> QED
          BY <1>2, <2>1, ArgsNone
  <1>9. m.cmd # c => o = <<>>
      BY DEF One
  <1> HIDE DEF a, b, d, o
  <1>10. ArgsOf(c, a \o d) = A \o (o \o B) /\ ArgsOf(c, a \o b) = A \o B
      <2>1. ArgsOf(c, a \o d) = ArgsOf(c, a) \o ArgsOf(c, d)
          <3>1. a \in Seq(S) /\ d \in Seq(S)
              BY <1>2
          <3> QED
              BY <3>1, ArgsConcat
      <2>2. ArgsOf(c, a \o b) = ArgsOf(c, a) \o ArgsOf(c, b)
          <3>1. a \in Seq(S) /\ b \in Seq(S)
              BY <1>2, <1>4
          <3> QED
              BY <3>1, ArgsConcat
      <2> QED
          BY <1>6, <2>1, <2>2, Zenon
  <1> HIDE DEF A, B
  <1>11. A \o (o \o B) = o \o (A \o B)
      <2> DEFINE AB == A \o B
                 oB == o \o B
      <2>1. AB \in Seq(Int) /\ oB \in Seq(Int)
          BY <1>7, ConcatProperties
      <2>2. CASE m.cmd = c
          <3>1. A = <<>>
              BY <1>8, <2>2
          <3>2. <<>> \o B = B /\ <<>> \o oB = oB
              BY <1>7, <2>1, ConcatEmptySeq
          <3> QED
              BY <3>1, <3>2, Zenon
      <2>3. CASE m.cmd # c
          <3>1. o = <<>>
              BY <1>9, <2>3
          <3>2. <<>> \o B = B /\ <<>> \o AB = AB
              BY <1>7, <2>1, ConcatEmptySeq
          <3> QED
              BY <3>1, <3>2, Zenon
      <2> QED
          BY <2>2, <2>3
  <1>12. ArgsOf(c, s) = o \o ArgsOf(c, a \o b)
      BY <1>2, <1>10, <1>11, Zenon
  <1> QED
      BY <1>12, Zenon DEF a, b, o

----------------------------------------------------------------------------
(* A queue and what is due from it.                                        *)

\* Queue q holds what is due; a server that is gone leaves more in it.
Held(q, due, s) == \E rest \in Seq(Int) : q = due \o rest /\ (s # "closed" => rest = <<>>)

LEMMA HeldMeans ==
    ASSUME NEW due \in Seq(Int), NEW q, NEW s, Held(q, due, s)
    PROVE  IF s = "closed" THEN IsPrefix(due, q) ELSE q = due
  <1>1. PICK rest \in Seq(Int) : q = due \o rest /\ (s # "closed" => rest = <<>>)
      BY DEF Held
  <1>2. due \o <<>> = due
      BY ConcatEmptySeq
  <1>3. IsPrefix(due, due \o rest)
      BY DEF IsPrefix
  <1> QED
      BY <1>1, <1>2, <1>3

\* Nothing is in it and nothing is due.
LEMMA HeldNothing ==
    ASSUME NEW s
    PROVE  Held(<<>>, <<>> \o <<>>, s)
  <1>1. <<>> \in Seq(Int) /\ <<>> = (<<>> \o <<>>) \o <<>>
      OBVIOUS
  <1> QED
      BY <1>1 DEF Held

\* The server goes away and answers nothing more.
LEMMA HeldCloses ==
    ASSUME NEW a \in Seq(Int), NEW b \in Seq(Int), NEW q, NEW s, Held(q, a \o b, s)
    PROVE  Held(q, a \o <<>>, "closed")
  <1>1. PICK rest \in Seq(Int) : q = (a \o b) \o rest
      BY DEF Held
  <1> DEFINE more == b \o rest
  <1>2. more \in Seq(Int) /\ (a \o b) \o rest = a \o more
      <2>1. more \in Seq(Int)
          BY ConcatProperties
      <2>2. Regrouped(a, b, rest)
          BY Regroup
      <2> QED
          BY <2>1, <2>2, Zenon DEF Regrouped
  <1>3. a \o <<>> = a
      BY ConcatEmptySeq
  <1> HIDE DEF more
  <1>4. q = (a \o <<>>) \o more
      BY <1>1, <1>2, <1>3, Zenon
  <1> QED
      BY <1>2, <1>4 DEF Held

\* A request is sent, ...
LEMMA HeldSent ==
    ASSUME NEW a \in Seq(Int), NEW b \in Seq(Int), NEW q \in Seq(Int), NEW s, s # "closed", Held(q, a \o b, s),
           NEW x \in Int
    PROVE  Held(Append(q, x), a \o (b \o <<x>>), s)
  <1> DEFINE w == <<x>>
             ab == a \o b
             bw == b \o w
             due == a \o bw
  <1>1. w \in Seq(Int) /\ ab \in Seq(Int) /\ bw \in Seq(Int) /\ due \in Seq(Int) /\ Append(q, x) = q \o w
      OBVIOUS
  <1>2. PICK rest \in Seq(Int) : q = ab \o rest /\ rest = <<>>
      BY DEF Held
  <1>3. ab \o <<>> = ab /\ due \o <<>> = due
      BY <1>1, ConcatEmptySeq
  <1> HIDE DEF w
  <1>4. (a \o b) \o w = a \o (b \o w)
      <2>1. Regrouped(a, b, w)
          BY <1>1, Regroup
      <2> QED
          BY <2>1, Zenon DEF Regrouped
  <1>5. Append(q, x) = due
      BY <1>1, <1>2, <1>3, <1>4, Zenon
  <1> HIDE DEF due
  <1>6. <<>> \in Seq(Int) /\ Append(q, x) = due \o <<>>
      BY <1>3, <1>5
  <1>7. Held(Append(q, x), due, s)
      BY <1>6 DEF Held
  <1> QED
      BY <1>7, Zenon DEF due, w

\* ... or lost.
LEMMA HeldLost ==
    ASSUME NEW due \in Seq(Int), NEW q \in Seq(Int), Held(q, due, "closed"), NEW x \in Int
    PROVE  Held(Append(q, x), due, "closed")
  <1> DEFINE w == <<x>>
  <1>1. PICK rest \in Seq(Int) : q = due \o rest
      BY DEF Held
  <1> DEFINE more == rest \o w
  <1>2. w \in Seq(Int) /\ more \in Seq(Int) /\ Append(q, x) = q \o w
      OBVIOUS
  <1> HIDE DEF w
  <1>3. (due \o rest) \o w = due \o (rest \o w)
      <2>1. Regrouped(due, rest, w)
          BY <1>2, Regroup
      <2> QED
          BY <2>1, Zenon DEF Regrouped
  <1>4. Append(q, x) = due \o more
      BY <1>1, <1>2, <1>3, Zenon
  <1> HIDE DEF more
  <1> QED
      BY <1>2, <1>4 DEF Held

\* The answer is handled: it is due first.
LEMMA HeldHandled ==
    ASSUME NEW x \in Int, NEW a \in Seq(Int), NEW b \in Seq(Int), NEW q, NEW s,
           Held(q, (<<x>> \o a) \o b, s)
    PROVE  q # <<>> /\ Head(q) = x /\ Held(Tail(q), a \o b, s)
  <1> DEFINE w == <<x>>
             ab == a \o b
  <1>1. PICK rest \in Seq(Int) : q = ((w \o a) \o b) \o rest /\ (s # "closed" => rest = <<>>)
      BY DEF Held
  <1> DEFINE t == ab \o rest
  <1>2. w \in Seq(Int) /\ ab \in Seq(Int) /\ t \in Seq(Int) /\ w # <<>> /\ Head(w) = x /\ Tail(w) = <<>>
      OBVIOUS
  <1>3. q = w \o t
      <2> HIDE DEF w
      <2>1. (w \o a) \o b = w \o (a \o b)
          <3>1. Regrouped(w, a, b)
              BY <1>2, Regroup
          <3> QED
              BY <3>1, Zenon DEF Regrouped
      <2>2. (w \o ab) \o rest = w \o (ab \o rest)
          <3> HIDE DEF ab
          <3>1. Regrouped(w, ab, rest)
              BY <1>2, Regroup
          <3> QED
              BY <3>1, Zenon DEF Regrouped
      <2> QED
          BY <1>1, <2>1, <2>2, Zenon
  <1> HIDE DEF w, t
  <1>4. q # <<>> /\ Head(q) = x /\ Tail(q) = <<>> \o t
      BY <1>2, <1>3, TailConcat
  <1>5. Tail(q) = t
      BY <1>2, <1>4, ConcatEmptySeq
  <1>6. Tail(q) = ab \o rest
      BY <1>5 DEF t
  <1>7. Held(Tail(q), ab, s)
      BY <1>1, <1>6, Zenon DEF Held
  <1> QED
      BY <1>4, <1>7

----------------------------------------------------------------------------
(* The invariant of the queues.                                            *)

\* The arguments due from the queue of c: of the answers to be handled, and of the
\* requests to be answered.
Due(c, incoming, sent) == ArgsOf(c, incoming) \o ArgsOf(c, sent)

\* Before the handshake is completed nothing is queued, sent or answered.
NoneEarly ==
    (transport # Null /\ handshake # "completed") =>
        /\ \A c \in QueueCommands : queue[c] = <<>>
        /\ \A i \in DOMAIN toServer : toServer[i].cmd \notin QueueCommands
        /\ \A j \in DOMAIN Incoming : Own(Incoming[j]) => Incoming[j].cmd \notin QueueCommands

\* The queues hold what is due.
Mirrors == Fresh => \A c \in QueueCommands : Held(queue[c], Due(c, Incoming, toServer), server)

QueuesKept == NoneEarly /\ Mirrors /\ RefIdMatches

\* The messages of a session that is Fresh are its own.
OwnsIncoming == Fresh => \A j \in DOMAIN Incoming : Incoming[j].sess = transport

\* The server answers the requests that have a queue in their order, which OnMessage
\* relies on and the protocol does not promise.
ServerKeepsOrder == QueueCommands \subseteq OrderedCommands

LEMMA DueType ==
    ASSUME TypeOK
    PROVE  /\ HaveArgs(Messages) /\ HaveArgs(SentRequests)
           /\ Incoming \in Seq(Messages) /\ toServer \in Seq(SentRequests)
           /\ \A c : ArgsOf(c, Incoming) \in Seq(Int) /\ ArgsOf(c, toServer) \in Seq(Int)
           /\ \A c \in QueueCommands : queue[c] \in Seq(Int)
           /\ server \in {"fresh", "ready", "closed"}
  <1>1. HaveArgs(Messages) /\ HaveArgs(SentRequests)
      BY DEF HaveArgs, Messages, SentRequests
  <1>2. Incoming \in Seq(Messages) /\ toServer \in Seq(SentRequests)
      BY NumbersType
  <1>3. \A c : ArgsOf(c, Incoming) \in Seq(Int) /\ ArgsOf(c, toServer) \in Seq(Int)
      BY <1>1, <1>2, ArgsType
  <1> QED
      BY <1>1, <1>2, <1>3 DEF TypeOK, SessionTypes, ServerTypes

\* Without a transport the invariant says nothing.
LEMMA QueuesWithout ==
    ASSUME transport' = Null
    PROVE  QueuesKept'
  BY DEF QueuesKept, NoneEarly, Mirrors, RefIdMatches, ToldOfThisSession, Fresh

\* What is told of a request is its own as long as nothing else is told.
LEMMA RefIdStays ==
    ASSUME RefIdMatches, Fresh' => Fresh, transport' = transport,
           event' = event \/ event'.kind = "lost"
    PROVE  RefIdMatches'
  BY DEF RefIdMatches, ToldOfThisSession

\* The steps that neither send, answer nor handle.
LEMMA QuietQueues ==
    ASSUME TypeOK, EmptyPosts, QueuesKept, Quiet
    PROVE  QueuesKept'
  <1>1. /\ Incoming' = Incoming
        /\ UNCHANGED <<transport, handshake, handshakeBy, queue>>
        /\ UNCHANGED <<toServer, server>> \/ (toServer' = <<>> /\ server' = "closed")
        /\ event' = event \/ event'.kind = "lost"
      BY QuietStep
  <1>2. Fresh' = Fresh
      BY <1>1 DEF Fresh
  <1>3. NoneEarly'
      BY <1>1 DEF QueuesKept, NoneEarly, Own
  <1>4. RefIdMatches'
      BY <1>1, <1>2, RefIdStays DEF QueuesKept
  <1>5. Mirrors'
      <2> SUFFICES ASSUME Fresh, NEW c \in QueueCommands
                   PROVE  Held(queue[c], Due(c, Incoming, toServer'), server')
          BY <1>1, <1>2 DEF Mirrors
      <2>1. Held(queue[c], Due(c, Incoming, toServer), server)
          BY DEF QueuesKept, Mirrors
      <2>2. CASE UNCHANGED <<toServer, server>>
          BY <2>1, <2>2
      <2>3. CASE toServer' = <<>> /\ server' = "closed"
          <3> DEFINE a == ArgsOf(c, Incoming)
                     b == ArgsOf(c, toServer)
                     n == <<>>
          <3>1. a \in Seq(Int) /\ b \in Seq(Int)
              BY DueType
          <3>2. ArgsOf(c, n) = <<>>
              <4>1. n \in Seq(SentRequests) /\ DOMAIN n = {}
                  OBVIOUS
              <4> HIDE DEF n
              <4> QED
                  BY <4>1, DueType, ArgsNone
          <3>3. Held(queue[c], a \o b, server)
              BY <2>1 DEF Due
          <3> HIDE DEF a, b
          <3>4. Held(queue[c], a \o <<>>, "closed")
              BY <3>1, <3>3, HeldCloses
          <3>5. Due(c, Incoming, toServer') = a \o <<>>
              BY <2>3, <3>2, Zenon DEF Due, a, n
          <3> QED
              BY <2>3, <3>4, <3>5
      <2> QED
          BY <1>1, <2>2, <2>3
  <1> QED
      BY <1>3, <1>4, <1>5 DEF QueuesKept

\* A request with a queue is queued and sent, or lost.
LEMMA SendsQueues ==
    ASSUME TypeOK, QueuesKept, NEW cmd, NEW arg, NEW then, Sends(cmd, arg, then), transport # Null
    PROVE  QueuesKept'
  <1> DEFINE r == [cmd |-> cmd, seq |-> seq + 1, arg |-> arg]
  <1>1. /\ cmd \in RequestNames /\ arg \in Int
        /\ cmd \in QueueCommands => handshake = "completed"
        /\ UNCHANGED <<transport, rpc, pending, toClient, server, event, handshakeBy>>
        /\ queue' = IF cmd \in QueueCommands THEN [queue EXCEPT ![cmd] = Append(@, arg)] ELSE queue
        /\ toServer' = IF server = "closed" THEN toServer ELSE Append(toServer, r)
      BY DEF Sends, SendRequest, Enqueue, GetNextSequence, serverVars
  <1>2. (handshake' = "completed") = (handshake = "completed")
      BY DEF Sends, SendRequest, HandshakeAfter
  <1>3. r \in SentRequests /\ r.cmd = cmd /\ r.arg = arg
      BY <1>1, BoundsAssumption DEF SentRequests, Sends, TypeOK, SessionTypes
  <1>4. Incoming' = Incoming
      BY <1>1, IncomingKept
  <1>5. Fresh' = Fresh
      BY <1>1, <1>2 DEF Fresh
  <1>6. RefIdMatches'
      BY <1>1, <1>5, RefIdStays DEF QueuesKept
  <1> HIDE DEF r
  <1>7. NoneEarly'
      <2> SUFFICES ASSUME handshake # "completed"
                   PROVE  /\ \A c \in QueueCommands : queue'[c] = <<>>
                          /\ \A i \in DOMAIN toServer' : toServer'[i].cmd \notin QueueCommands
                          /\ \A j \in DOMAIN Incoming : Own(Incoming[j]) => Incoming[j].cmd \notin QueueCommands
          BY <1>1, <1>2, <1>4 DEF NoneEarly, Own
      <2>1. /\ \A c \in QueueCommands : queue[c] = <<>>
            /\ \A i \in DOMAIN toServer : toServer[i].cmd \notin QueueCommands
            /\ \A j \in DOMAIN Incoming : Own(Incoming[j]) => Incoming[j].cmd \notin QueueCommands
          BY DEF QueuesKept, NoneEarly
      <2>2. cmd \notin QueueCommands /\ queue' = queue
          BY <1>1
      <2>3. \A i \in DOMAIN toServer' : toServer'[i].cmd \notin QueueCommands
          <3>1. Longer(Append(toServer, r), toServer, r)
              BY DueType, AppendLonger
          <3> QED
              BY <1>1, <1>3, <2>1, <2>2, <3>1 DEF Longer
      <2> QED
          BY <2>1, <2>2, <2>3
  <1>8. Mirrors'
      <2> SUFFICES ASSUME Fresh, NEW c \in QueueCommands
                   PROVE  Held(queue'[c], Due(c, Incoming, toServer'), server)
          BY <1>1, <1>4, <1>5 DEF Mirrors
      <2> DEFINE a == ArgsOf(c, Incoming)
                 b == ArgsOf(c, toServer)
                 q == queue[c]
      <2>1. a \in Seq(Int) /\ b \in Seq(Int) /\ q \in Seq(Int) /\ a \o b \in Seq(Int)
          BY DueType, ConcatProperties
      <2>2. Held(q, a \o b, server)
          BY DEF QueuesKept, Mirrors, Due
      <2>3. queue'[c] = IF c = cmd THEN Append(q, arg) ELSE q
          BY <1>1 DEF TypeOK, SessionTypes
      <2>4. Due(c, Incoming, toServer) = a \o b
          BY DEF Due
      <2>5. CASE server = "closed"
          <3> HIDE DEF a, b, q
          <3>1. Held(Append(q, arg), a \o b, "closed")
              BY <1>1, <2>1, <2>2, <2>5, HeldLost
          <3> QED
              BY <1>1, <2>2, <2>3, <2>4, <2>5, <3>1
      <2>6. CASE server # "closed"
          <3>1. ArgsOf(c, Append(toServer, r)) = b \o One(c, r)
              BY <1>3, DueType, ArgsAppend
          <3>2. Due(c, Incoming, toServer') = a \o (b \o One(c, r))
              BY <1>1, <2>6, <3>1, Zenon DEF Due
          <3> HIDE DEF a, b, q
          <3>3. CASE c = cmd
              <4>1. One(c, r) = <<arg>>
                  BY <1>3, <3>3 DEF One
              <4>2. Held(Append(q, arg), a \o (b \o <<arg>>), server)
                  BY <1>1, <2>1, <2>2, <2>6, HeldSent
              <4> QED
                  BY <2>3, <3>2, <3>3, <4>1, <4>2
          <3>4. CASE c # cmd
              <4>1. One(c, r) = <<>> /\ b \o <<>> = b
                  BY <1>3, <2>1, <3>4, ConcatEmptySeq DEF One
              <4> QED
                  BY <2>2, <2>3, <3>2, <3>4, <4>1
          <3> QED
              BY <3>3, <3>4
      <2> QED
          BY <2>5, <2>6
  <1> QED
      BY <1>6, <1>7, <1>8 DEF QueuesKept

LEMMA RequestQueues ==
    ASSUME TypeOK, EmptyPosts, QueuesKept, Request
    PROVE  QueuesKept'
  <1>1. CASE transport = Null
      BY <1>1, RequestUnchanged, QueuesWithout
  <1>2. CASE SendResponse
      BY <1>2, QuietQueues DEF Quiet
  <1>3. CASE transport # Null /\ ~SendResponse
      BY <1>3, RequestSends, SendsQueues
  <1> QED
      BY <1>1, <1>2, <1>3

\* A session starts with empty queues.
LEMMA JoinQueues ==
    ASSUME TypeOK, SessionsInOrder, QueuesKept, JoinReturns
    PROVE  QueuesKept'
  <1>1. CASE Top.then # "connect"
      <2>1. transport' = Null
          BY <1>1 DEF JoinReturns
      <2> QED
          BY <2>1, QueuesWithout
  <1>2. CASE Top.then = "connect"
      <2>1. /\ toServer' = <<>> /\ handshake' # "completed"
            /\ queue' = [c \in QueueCommands |-> <<>>]
          BY <1>2 DEF JoinReturns, ClearSession, HandshakeAfter, ClearedQueues
      <2>2. \A j \in DOMAIN Incoming' : Incoming'[j].sess # transport'
          BY <1>2, JoinIncoming
      <2> QED
          BY <2>1, <2>2 DEF QueuesKept, NoneEarly, Mirrors, RefIdMatches, ToldOfThisSession, Fresh, Own
  <1> QED
      BY <1>1, <1>2

\* An answer takes the place of its request, which is the oldest.
LEMMA AnswerQueues ==
    ASSUME ServerKeepsOrder, TypeOK, QueuesKept,
           NEW i \in 1..Len(toServer), NEW ok \in BOOLEAN, ServerAnswers(i, ok)
    PROVE  QueuesKept'
  <1> DEFINE r == toServer[i]
  <1>1. /\ UNCHANGED <<transport, handshake, handshakeBy, queue, event>>
        /\ server # "closed" /\ server' # "closed"
        /\ toServer' = SubSeq(toServer, 1, i - 1) \o SubSeq(toServer, i + 1, Len(toServer))
        /\ r.cmd \in OrderedCommands => \A j \in 1..i - 1 : toServer[j].cmd # r.cmd
      BY DEF ServerAnswers, sessionVars
  <1>2. PICK m \in Messages : /\ Answers(m, r) /\ Incoming' = Append(Incoming, m)
                              /\ Longer(Incoming', Incoming, m)
      BY AnswerGains
  <1>3. r \in SentRequests /\ Without(toServer', toServer, i)
      BY AnswerGains
  <1>4. Fresh' = Fresh
      BY <1>1 DEF Fresh
  <1>5. RefIdMatches'
      BY <1>1, <1>4, RefIdStays DEF QueuesKept
  <1>6. NoneEarly'
      <2> SUFFICES ASSUME transport # Null, handshake # "completed"
                   PROVE  /\ \A c \in QueueCommands : queue[c] = <<>>
                          /\ \A k \in DOMAIN toServer' : toServer'[k].cmd \notin QueueCommands
                          /\ \A j \in DOMAIN Incoming' : Own(Incoming'[j]) => Incoming'[j].cmd \notin QueueCommands
          BY <1>1 DEF NoneEarly, Own
      <2>1. /\ \A c \in QueueCommands : queue[c] = <<>>
            /\ \A k \in DOMAIN toServer : toServer[k].cmd \notin QueueCommands
            /\ \A j \in DOMAIN Incoming : Own(Incoming[j]) => Incoming[j].cmd \notin QueueCommands
          BY DEF QueuesKept, NoneEarly
      <2>2. \A k \in DOMAIN toServer' : toServer'[k].cmd \notin QueueCommands
          BY <1>3, <2>1 DEF Without
      <2>3. m.cmd \notin QueueCommands
          <3>1. i \in DOMAIN toServer
              BY DueType, LenProperties
          <3> QED
              BY <1>2, <2>1, <3>1 DEF Answers
      <2> QED
          BY <1>2, <2>1, <2>2, <2>3 DEF Longer
  <1>7. Mirrors'
      <2> SUFFICES ASSUME Fresh, NEW c \in QueueCommands
                   PROVE  Held(queue[c], Due(c, Incoming', toServer'), server')
          BY <1>1, <1>4 DEF Mirrors
      <2> DEFINE a == ArgsOf(c, Incoming)
                 b == ArgsOf(c, toServer)
                 d == ArgsOf(c, toServer')
                 o == One(c, r)
      <2>1. Held(queue[c], a \o b, server)
          BY DEF QueuesKept, Mirrors, Due
      <2>2. b = o \o d
          <3>1. r.cmd = c => \A j \in 1..i - 1 : toServer[j].cmd # c
              BY <1>1 DEF ServerKeepsOrder
          <3>2. HaveArgs(SentRequests) /\ toServer \in Seq(SentRequests)
              BY DueType
          <3> QED
              BY <1>1, <3>1, <3>2, ArgsRemoved
      <2>3. One(c, m) = o
          <3>1. c # "initialize"
              BY DEF QueueCommands, QueueEventCommands, CallbackCommands
          <3> QED
              BY <1>2, <3>1 DEF Answers, One
      <2>4. ArgsOf(c, Incoming') = a \o o
          <3>1. ArgsOf(c, Append(Incoming, m)) = a \o One(c, m)
              BY DueType, ArgsAppend
          <3> QED
              BY <1>2, <2>3, <3>1, Zenon
      <2>5. a \in Seq(Int) /\ d \in Seq(Int) /\ o \in Seq(Int)
          <3>1. toServer' \in Seq(SentRequests)
              <4> DEFINE e == SubSeq(toServer, 1, i - 1)
                         f == SubSeq(toServer, i + 1, Len(toServer))
              <4>1. toServer \in Seq(SentRequests) /\ Len(toServer) \in Nat
                  BY DueType, LenProperties
              <4>2. i - 1 \in Nat /\ i - 1 <= Len(toServer) /\ i \in Nat /\ i <= Len(toServer)
                  BY <4>1
              <4>3. e \in Seq(SentRequests)
                  BY <4>1, <4>2, CutInTwo
              <4>4. f \in Seq(SentRequests)
                  BY <4>1, <4>2, CutInTwo
              <4> QED
                  BY <1>1, <4>3, <4>4, ConcatProperties
          <3>2. d \in Seq(Int)
              BY <3>1, DueType, ArgsType
          <3>3. o \in Seq(Int)
              BY <1>3, DueType, OneType DEF HaveArgs
          <3> QED
              BY <3>2, <3>3, DueType
      <2>6. Due(c, Incoming', toServer') = a \o b
          <3>1. Due(c, Incoming', toServer') = (a \o o) \o d
              BY <2>4, Zenon DEF Due
          <3> HIDE DEF a, b, d, o
          <3>2. (a \o o) \o d = a \o (o \o d)
              <4>1. Regrouped(a, o, d)
                  BY <2>5, Regroup
              <4> QED
                  BY <4>1, Zenon DEF Regrouped
          <3> QED
              BY <2>2, <3>1, <3>2, Zenon
      <2>7. Held(queue[c], a \o b, server')
          BY <1>1, <2>1 DEF Held
      <2> HIDE DEF a, b
      <2> QED
          BY <2>6, <2>7, Zenon
  <1> QED
      BY <1>5, <1>6, <1>7 DEF QueuesKept

\* An event or a reverse request is due nothing.
LEMMA EventQueues ==
    ASSUME TypeOK, QueuesKept, NEW e \in ServerEvents, NEW thread \in Args, ServerSends(e, thread)
    PROVE  QueuesKept'
  <1>1. UNCHANGED <<transport, handshake, handshakeBy, queue, event, toServer, server>>
      BY DEF ServerSends, sessionVars
  <1>2. PICK m \in Messages : /\ m.type # "response" /\ Incoming' = Append(Incoming, m)
                              /\ Longer(Incoming', Incoming, m)
      BY EventGains
  <1>3. Fresh' = Fresh
      BY <1>1 DEF Fresh
  <1>4. RefIdMatches'
      BY <1>1, <1>3, RefIdStays DEF QueuesKept
  <1>5. NoneEarly'
      BY <1>1, <1>2 DEF QueuesKept, NoneEarly, Own, Longer
  <1>6. Mirrors'
      <2> SUFFICES ASSUME Fresh, NEW c \in QueueCommands
                   PROVE  Held(queue[c], Due(c, Incoming', toServer), server)
          BY <1>1, <1>3 DEF Mirrors
      <2> DEFINE a == ArgsOf(c, Incoming)
      <2>1. One(c, m) = <<>>
          BY <1>2 DEF One, Messages, RequestNames, AllCommands
      <2>2. ArgsOf(c, Append(Incoming, m)) = a \o One(c, m)
          BY DueType, ArgsAppend
      <2>3. a \o <<>> = a
          <3>1. a \in Seq(Int)
              BY DueType
          <3> QED
              BY <3>1, ConcatEmptySeq
      <2>4. ArgsOf(c, Incoming') = ArgsOf(c, Incoming)
          BY <1>2, <2>1, <2>2, <2>3, Zenon
      <2> QED
          BY <2>4 DEF QueuesKept, Mirrors, Due
  <1> QED
      BY <1>4, <1>5, <1>6 DEF QueuesKept

\* What is told names a request with a queue.
TellsQueued(e) ==
    \/ e.kind = "response" /\ e.cmd \in QueueEventCommands
    \/ e.kind = "callback"

\* A message before the handshake is completed.
LEMMA EarlyMessage ==
    ASSUME NEW m, OnMessage(m), handshake # "completed"
    PROVE  /\ UNCHANGED <<transport, toServer, server, queue>> /\ ~TellsQueued(event')
           /\ handshake' = "completed" => handshakeBy' = m.sess
  <1>1. UNCHANGED <<transport, toServer, server>>
      BY DEF OnMessage, serverVars
  <1>2. OnHandshakeMessage(m)
      BY DEF OnMessage, OnEvent, OnQueuedResponse, OnCallbackResponse, OnLocationsResponse,
         OnPlainResponse, OnStepResponse, OnIgnoredResponse, OnReverseRequest
  <1> QED
      BY <1>1, <1>2 DEF OnHandshakeMessage, TellsQueued, Told, NoEvent, QueueEventCommands

\* A message after it: an answer that has a queue takes its front.
LEMMA LaterMessage ==
    ASSUME NEW m \in Messages, OnMessage(m), handshake = "completed"
    PROVE  /\ UNCHANGED <<transport, toServer, server, handshake, handshakeBy>>
           /\ \/ m.cmd \notin QueueCommands /\ queue' = queue /\ ~TellsQueued(event')
              \/ /\ m.cmd \in QueueCommands /\ queue' = [queue EXCEPT ![m.cmd] = RestOf(@)]
                 /\ queue[m.cmd] # <<>> => event'.ref = Head(queue[m.cmd]) /\ event'.about = m.arg
  <1> USE DEF QueueCommands, QueueEventCommands, CallbackCommands, TellsQueued
  <1>1. UNCHANGED <<transport, toServer, server, handshake, handshakeBy>>
      BY DEF OnMessage, serverVars, OnHandshakeMessage, OnEvent, OnQueuedResponse, OnCallbackResponse,
         OnLocationsResponse, OnPlainResponse, OnStepResponse, OnIgnoredResponse, OnReverseRequest
  <1>2. m.type # "response" => m.cmd \notin QueueCommands
      BY DEF Messages, RequestNames, AllCommands
  <1>3. CASE OnEvent(m) \/ OnReverseRequest(m)
      <2>1. m.cmd \notin QueueCommands
          BY <1>2, <1>3 DEF OnEvent, OnReverseRequest
      <2>2. queue' = queue /\ ~TellsQueued(event')
          BY <1>3 DEF OnEvent, OnReverseRequest, Told
      <2> QED
          BY <1>1, <2>1, <2>2
  <1>4. CASE OnLocationsResponse(m) \/ OnPlainResponse(m)
      BY <1>1, <1>4 DEF OnLocationsResponse, OnPlainResponse, Told, PlainCommands
  <1>5. CASE OnStepResponse(m) \/ OnIgnoredResponse(m)
      BY <1>1, <1>5 DEF OnStepResponse, OnIgnoredResponse, Told, NoEvent, StepCommands, IgnoredCommands
  <1>6. CASE OnQueuedResponse(m)
      BY <1>1, <1>6 DEF OnQueuedResponse, Told, FrontOf
  <1>7. CASE OnCallbackResponse(m)
      BY <1>1, <1>7 DEF OnCallbackResponse, Told
  <1> QED
      BY <1>3, <1>4, <1>5, <1>6, <1>7 DEF OnMessage, OnHandshakeMessage

\* The handshake is completed: nothing is due.
LEMMA HandshakeQueues ==
    ASSUME TypeOK, OwnsIncoming', QueuesKept, NEW m, HandlesFirst(m), OnMessage(m),
           Incoming # <<>>, Incoming' = Tail(Incoming), handshake # "completed"
    PROVE  QueuesKept'
  <1>1. /\ UNCHANGED <<transport, toServer, server, queue>> /\ ~TellsQueued(event')
        /\ handshake' = "completed" => handshakeBy' = m.sess
      BY EarlyMessage
  <1>2. RefIdMatches'
      BY <1>1 DEF RefIdMatches, TellsQueued
  <1>3. transport # Null =>
           /\ \A c \in QueueCommands : queue[c] = <<>>
           /\ \A i \in DOMAIN toServer : toServer[i].cmd \notin QueueCommands
           /\ \A j \in DOMAIN Incoming' : Own(Incoming'[j]) => Incoming'[j].cmd \notin QueueCommands
      BY DEF QueuesKept, NoneEarly, HandlesFirst, Without
  <1>4. NoneEarly'
      BY <1>1, <1>3 DEF NoneEarly, Own
  <1>5. Mirrors'
      <2> SUFFICES ASSUME Fresh', NEW c \in QueueCommands
                   PROVE  Held(queue[c], Due(c, Incoming', toServer), server)
          BY <1>1 DEF Mirrors
      <2>1. transport # Null
          BY <1>1 DEF Fresh
      <2>2. Incoming' \in Seq(Messages)
          <3>1. Incoming \in Seq(Messages)
              BY DueType
          <3> QED
              BY <3>1, HeadTailProperties
      <2>3. ArgsOf(c, toServer) = <<>>
          <3>1. \A i \in DOMAIN toServer : toServer[i].cmd # c
              BY <1>3, <2>1
          <3> QED
              BY <3>1, DueType, ArgsNone
      <2>4. ArgsOf(c, Incoming') = <<>>
          <3>1. ASSUME NEW j \in DOMAIN Incoming' PROVE Incoming'[j].cmd # c
              <4>1. Incoming'[j].sess = transport
                  BY <1>1 DEF OwnsIncoming
              <4>2. Incoming'[j] \in Messages
                  BY <2>2, LenProperties, ElementOfSeq
              <4>3. CASE Incoming'[j].type = "response"
                  BY <1>3, <2>1, <4>1, <4>3 DEF Own
              <4>4. CASE Incoming'[j].type # "response"
                  BY <4>2, <4>4 DEF Messages, RequestNames, AllCommands
              <4> QED
                  BY <4>3, <4>4
          <3> DEFINE n == Incoming'
          <3>2. n \in Seq(Messages) /\ \A j \in DOMAIN n : n[j].cmd # c
              BY <2>2, <3>1
          <3> HIDE DEF n
          <3>3. ArgsOf(c, n) = <<>>
              BY <3>2, DueType, ArgsNone
          <3> QED
              BY <3>3 DEF n
      <2>5. Due(c, Incoming', toServer) = <<>> \o <<>> /\ queue[c] = <<>>
          BY <1>3, <2>1, <2>3, <2>4, Zenon DEF Due
      <2> QED
          BY <2>5, HeldNothing
  <1> QED
      BY <1>2, <1>4, <1>5 DEF QueuesKept

\* A message is handled: what it takes from a queue was due first.
LEMMA HandledQueues ==
    ASSUME TypeOK, QueuesKept, NEW m \in Messages, m = Head(Incoming), OnMessage(m),
           Incoming # <<>>, Incoming' = Tail(Incoming), handshake = "completed"
    PROVE  QueuesKept'
  <1> DEFINE n == Tail(Incoming)
             b == ArgsOf(m.cmd, toServer)
             a == ArgsOf(m.cmd, n)
  <1>1. /\ UNCHANGED <<transport, toServer, server, handshake, handshakeBy>>
        /\ \/ m.cmd \notin QueueCommands /\ queue' = queue /\ ~TellsQueued(event')
           \/ /\ m.cmd \in QueueCommands /\ queue' = [queue EXCEPT ![m.cmd] = RestOf(@)]
              /\ queue[m.cmd] # <<>> => event'.ref = Head(queue[m.cmd]) /\ event'.about = m.arg
      BY LaterMessage
  <1>2. Fresh' = Fresh
      BY <1>1 DEF Fresh
  <1>3. Incoming \in Seq(Messages) /\ n \in Seq(Messages) /\ Incoming' = n
      <2>1. Incoming \in Seq(Messages)
          BY DueType
      <2> QED
          BY <2>1, HeadTailProperties
  <1>4. NoneEarly'
      BY <1>1 DEF NoneEarly
  <1>5. ASSUME NEW c PROVE ArgsOf(c, Incoming) = One(c, m) \o ArgsOf(c, n) /\ ArgsOf(c, n) \in Seq(Int)
      BY <1>3, DueType, ArgsHeadTail, ArgsType
  <1>6. ASSUME Fresh, m.cmd \in QueueCommands
        PROVE  /\ queue[m.cmd] # <<>> /\ Head(queue[m.cmd]) = m.arg
               /\ Held(Tail(queue[m.cmd]), a \o b, server)
      <2>1. Held(queue[m.cmd], Due(m.cmd, Incoming, toServer), server)
          BY <1>6 DEF QueuesKept, Mirrors
      <2>2. One(m.cmd, m) = <<m.arg>> /\ m.arg \in Int
          BY DEF One, Messages
      <2>3. ArgsOf(m.cmd, Incoming) = <<m.arg>> \o a /\ a \in Seq(Int) /\ b \in Seq(Int)
          BY <1>5, <2>2, DueType
      <2>4. Due(m.cmd, Incoming, toServer) = (<<m.arg>> \o a) \o b
          BY <2>3, Zenon DEF Due
      <2> HIDE DEF a, b
      <2>5. Held(queue[m.cmd], (<<m.arg>> \o a) \o b, server)
          BY <2>1, <2>4, Zenon
      <2> QED
          BY <2>2, <2>3, <2>5, HeldHandled
  <1>7. RefIdMatches'
      <2> SUFFICES ASSUME Fresh, TellsQueued(event') PROVE event'.ref = event'.about
          BY <1>2 DEF RefIdMatches, ToldOfThisSession, TellsQueued
      <2> HIDE DEF a, b
      <2> QED
          BY <1>1, <1>6
  <1>8. Mirrors'
      <2> SUFFICES ASSUME Fresh, NEW c \in QueueCommands
                   PROVE  Held(queue'[c], Due(c, n, toServer), server)
          BY <1>1, <1>2, <1>3 DEF Mirrors
      <2>1. CASE c = m.cmd
          <3>1. queue'[c] = Tail(queue[c])
              BY <1>1, <1>6, <2>1 DEF RestOf, TypeOK, SessionTypes
          <3>2. Due(c, n, toServer) = a \o b
              BY <2>1 DEF Due
          <3> HIDE DEF a, b
          <3> QED
              BY <1>6, <2>1, <3>1, <3>2
      <2>2. CASE c # m.cmd
          <3>1. queue'[c] = queue[c]
              BY <1>1, <2>2 DEF TypeOK, SessionTypes
          <3>2. One(c, m) = <<>>
              BY <2>2 DEF One
          <3> DEFINE d == ArgsOf(c, n)
          <3>3. ArgsOf(c, Incoming) = <<>> \o d /\ d \in Seq(Int)
              BY <1>5, <3>2
          <3> HIDE DEF d
          <3>4. ArgsOf(c, Incoming) = d
              BY <3>3, ConcatEmptySeq
          <3>5. Due(c, n, toServer) = Due(c, Incoming, toServer)
              BY <3>4, Zenon DEF Due, d
          <3> QED
              BY <3>1, <3>5 DEF QueuesKept, Mirrors
      <2> QED
          BY <2>1, <2>2
  <1> QED
      BY <1>4, <1>7, <1>8 DEF QueuesKept

\* Every step keeps the queues.
LEMMA NextQueues ==
    ASSUME ServerKeepsOrder
    PROVE  TypeOK /\ SessionsInOrder /\ EmptyPosts /\ QueuesKept /\ [Next]_vars /\ OwnsIncoming'
              => QueuesKept'
  <1> SUFFICES ASSUME TypeOK, SessionsInOrder, EmptyPosts, QueuesKept, [Next]_vars, OwnsIncoming'
               PROVE  QueuesKept'
      OBVIOUS
  <1>1. CASE Quiet
      BY <1>1, QuietQueues
  <1>2. CASE ApplicationStep
      BY <1>2, QuietQueues, RequestQueues DEF ApplicationStep, Quiet
  <1>3. CASE OnDataRead \/ ProcessBuffer
      <2> DEFINE m == Head(Incoming)
      <2>1. /\ Incoming # <<>> /\ Incoming' = Tail(Incoming) /\ m \in Messages
            /\ HandlesFirst(m) /\ OnMessage(m)
          BY <1>3, MessageIsFirst
      <2>2. CASE handshake # "completed"
          BY <2>1, <2>2, HandshakeQueues
      <2>3. CASE handshake = "completed"
          BY <2>1, <2>3, HandledQueues
      <2> QED
          BY <2>2, <2>3
  <1>4. CASE MainStep
      BY <1>3, <1>4, QuietQueues, JoinQueues DEF MainStep, Quiet
  <1>5. CASE ServerStep
      BY <1>5, AnswerQueues, EventQueues, QuietQueues DEF ServerStep, Quiet
  <1> QED
      BY <1>1, <1>2, <1>4, <1>5 DEF Next, Quiet

LEMMA InitQueues == Init => QueuesKept
  BY DEF Init, QueuesKept, NoneEarly, Mirrors, RefIdMatches, ToldOfThisSession, Fresh

\* All that is to be handled for a session that is Fresh is its own.
LEMMA IncomingOwned == Spec => []OwnsIncoming
  <1>1. TypeOK /\ SessionsInOrder => OwnsIncoming
      BY FreshIncoming DEF OwnsIncoming
  <1>2. Init => TypeOK /\ SessionsInOrder
      BY InitTypeOK, InitSessions
  <1>3. TypeOK /\ SessionsInOrder /\ [Next]_vars => (TypeOK /\ SessionsInOrder)'
      BY NextTypeOK, NextSessions
  <1> QED
      BY <1>1, <1>2, <1>3, PTL DEF Spec

\* The queues follow the requests, for every number of sessions, requests and
\* messages, if the server answers the requests that have a queue in their order
\* (push_back in GetFrames and the like, erase in OnMessage, clear in Reset).
THEOREM QueuesTracked ==
    ASSUME ServerKeepsOrder
    PROVE  Spec => []QueuesKept
  <1>1. Init => TypeOK /\ SessionsInOrder /\ RequestsKept /\ QueuesKept
      BY InitTypeOK, InitSessions, InitKept, InitQueues
  <1>2. TypeOK /\ SessionsInOrder /\ RequestsKept /\ QueuesKept /\ [Next]_vars /\ OwnsIncoming'
           => (TypeOK /\ SessionsInOrder /\ RequestsKept /\ QueuesKept)'
      BY NextTypeOK, NextSessions, NextKept, NextQueues DEF RequestsKept
  <1> QED
      BY <1>1, <1>2, IncomingOwned, PTL DEF Spec

\* A refId, an originSource or a callback taken from the front of a queue is the
\* one given with the request that is answered, if the server keeps their order
\* (OnMessage, m_get_frames_queue.front() and the like).
THEOREM RefIdIsOwn ==
    ASSUME ServerKeepsOrder
    PROVE  Spec => []RefIdMatches
  <1>1. QueuesKept => RefIdMatches
      BY DEF QueuesKept
  <1> QED
      BY <1>1, QueuesTracked, PTL

\* No entry of a queue is lost, left over or out of place while the server lives,
\* and the entries it leaves unanswered are the last ones: every request of the API
\* adds one and OnMessage takes one per answer.
THEOREM QueuesAreOutstanding ==
    ASSUME ServerKeepsOrder
    PROVE  Spec => []QueuesMirrorOutstanding
  <1>1. TypeOK /\ QueuesKept => QueuesMirrorOutstanding
      <2> SUFFICES ASSUME TypeOK, QueuesKept, Fresh, NEW c \in QueueCommands
                   PROVE  IF server = "closed" THEN IsPrefix(Outstanding(c), queue[c])
                          ELSE queue[c] = Outstanding(c)
          BY DEF QueuesMirrorOutstanding
      <2> DEFINE due == Due(c, Incoming, toServer)
      <2>1. Outstanding(c) = due
          BY DEF Outstanding, Due, Incoming, Posts
      <2>2. due \in Seq(Int)
          BY DueType, ConcatProperties DEF Due
      <2>3. Held(queue[c], due, server)
          BY DEF QueuesKept, Mirrors
      <2> HIDE DEF due
      <2> QED
          BY <2>1, <2>2, <2>3, HeldMeans
  <1>2. Init => TypeOK
      BY InitTypeOK
  <1>3. TypeOK /\ [Next]_vars => TypeOK'
      BY NextTypeOK
  <1> QED
      BY <1>1, <1>2, <1>3, QueuesTracked, PTL DEF Spec

----------------------------------------------------------------------------
(* What tells the client that the debuggee stops or runs.                  *)

\* Message m of session t does.
Tells(m, t) ==
    /\ m.sess = t
    /\ \/ m.type = "event" /\ m.cmd \in {"stopped", "continued"}
       \/ m.type = "response" /\ m.cmd \in StepCommands

\* The last message of s that does tells what the debuggee does; when there is none
\* the client knows it (can).
LastTells(s, t, can, does) ==
    /\ (\A j \in DOMAIN s : ~Tells(s[j], t)) => (can <=> does = "stopped")
    /\ \A j \in DOMAIN s :
          (Tells(s[j], t) /\ \A k \in DOMAIN s : k > j => ~Tells(s[k], t))
              => (s[j].cmd = "stopped" <=> does = "stopped")

\* A message is sent.
LEMMA TellsGains ==
    ASSUME NEW S, NEW s \in Seq(S), NEW m, NEW t, NEW can, NEW old, NEW does,
           LastTells(s, t, can, old),
           Tells(m, t) => (m.cmd = "stopped" <=> does = "stopped"),
           ~Tells(m, t) => does = old
    PROVE  LastTells(Append(s, m), t, can, does)
  <1> DEFINE n == Append(s, m)
             l == Len(s) + 1
  <1>1. /\ l \in DOMAIN n /\ n[l] = m
        /\ \A j \in DOMAIN s : j \in DOMAIN n /\ n[j] = s[j] /\ l > j
        /\ \A j \in DOMAIN n : j = l \/ j \in DOMAIN s
      OBVIOUS
  <1> HIDE DEF n, l
  <1>2. ASSUME \A j \in DOMAIN n : ~Tells(n[j], t)
        PROVE  can <=> does = "stopped"
      <2>1. ~Tells(m, t)
          BY <1>1, <1>2, Zenon
      <2>2. \A j \in DOMAIN s : ~Tells(s[j], t)
          BY <1>1, <1>2, Zenon
      <2> QED
          BY <2>1, <2>2, Zenon DEF LastTells
  <1>3. ASSUME NEW j \in DOMAIN n, Tells(n[j], t), \A k \in DOMAIN n : k > j => ~Tells(n[k], t)
        PROVE  n[j].cmd = "stopped" <=> does = "stopped"
      <2>1. CASE j = l
          BY <1>1, <1>3, <2>1, Zenon
      <2>2. CASE j \in DOMAIN s
          <3>1. ~Tells(m, t)
              BY <1>1, <1>3, <2>2, Zenon
          <3>2. Tells(s[j], t) /\ \A k \in DOMAIN s : k > j => ~Tells(s[k], t)
              BY <1>1, <1>3, <2>2, Zenon
          <3>3. s[j].cmd = "stopped" <=> does = "stopped"
              BY <2>2, <3>1, <3>2, Zenon DEF LastTells
          <3> QED
              BY <1>1, <2>2, <3>3, Zenon
      <2> QED
          BY <1>1, <2>1, <2>2
  <1>4. LastTells(n, t, can, does)
      BY <1>2, <1>3, Zenon DEF LastTells
  <1> QED
      BY <1>4 DEF n

\* The first message is handled.
LEMMA TellsTail ==
    ASSUME NEW S, NEW s \in Seq(S), s # <<>>, NEW t, NEW old, NEW can, NEW does,
           LastTells(s, t, old, does),
           Tells(Head(s), t) => (can <=> Head(s).cmd = "stopped"),
           ~Tells(Head(s), t) => can = old
    PROVE  LastTells(Tail(s), t, can, does)
  <1> DEFINE n == Tail(s)
             h == Head(s)
  <1>1. /\ 1 \in DOMAIN s /\ s[1] = h
        /\ \A j \in DOMAIN n : j + 1 \in DOMAIN s /\ n[j] = s[j + 1] /\ j + 1 > 1
        /\ \A j \in DOMAIN s : j > 1 => j - 1 \in DOMAIN n /\ s[j] = n[j - 1]
        /\ \A j \in DOMAIN s : j = 1 \/ j > 1
        /\ \A j \in DOMAIN s, i \in DOMAIN n : j > i + 1 => j > 1 /\ j - 1 > i
      OBVIOUS
  <1> HIDE DEF n, h
  <1>2. ASSUME \A j \in DOMAIN n : ~Tells(n[j], t)
        PROVE  can <=> does = "stopped"
      <2>1. \A j \in DOMAIN s : j > 1 => ~Tells(s[j], t)
          BY <1>1, <1>2, Zenon
      <2>2. CASE Tells(h, t)
          <3>1. h.cmd = "stopped" <=> does = "stopped"
              BY <1>1, <2>1, <2>2, Zenon DEF LastTells
          <3>2. can <=> h.cmd = "stopped"
              BY <2>2 DEF h
          <3> QED
              BY <3>1, <3>2, Zenon
      <2>3. CASE ~Tells(h, t)
          <3>1. \A j \in DOMAIN s : ~Tells(s[j], t)
              BY <1>1, <2>1, <2>3, Zenon
          <3>2. can = old
              BY <2>3 DEF h
          <3> QED
              BY <3>1, <3>2, Zenon DEF LastTells
      <2> QED
          BY <2>2, <2>3
  <1>3. ASSUME NEW j \in DOMAIN n, Tells(n[j], t), \A k \in DOMAIN n : k > j => ~Tells(n[k], t)
        PROVE  n[j].cmd = "stopped" <=> does = "stopped"
      <2>1. j + 1 \in DOMAIN s /\ n[j] = s[j + 1] /\ Tells(s[j + 1], t)
          BY <1>1, <1>3, Zenon
      <2>2. \A k \in DOMAIN s : k > j + 1 => ~Tells(s[k], t)
          BY <1>1, <1>3, Zenon
      <2>3. s[j + 1].cmd = "stopped" <=> does = "stopped"
          BY <2>1, <2>2, Zenon DEF LastTells
      <2> QED
          BY <2>1, <2>3, Zenon
  <1>4. LastTells(n, t, can, does)
      BY <1>2, <1>3, Zenon DEF LastTells
  <1> QED
      BY <1>4 DEF n

\* Message m is the response to initialize of session t.
IsInitialize(m, t) == m.sess = t /\ m.type = "response" /\ m.cmd = "initialize"

\* It is among the messages of s.
Opened(s, t) == \E i \in DOMAIN s : IsInitialize(s[i], t)

\* It comes before every other one of t.
OpenedFirst(s, t) == \A j \in DOMAIN s : s[j].sess = t => \E i \in DOMAIN s : i <= j /\ IsInitialize(s[i], t)

LEMMA OpenedGains ==
    ASSUME NEW S, NEW s \in Seq(S), NEW m, NEW t, OpenedFirst(s, t), Opened(s, t) \/ IsInitialize(m, t)
    PROVE  OpenedFirst(Append(s, m), t) /\ Opened(Append(s, m), t)
  <1> DEFINE n == Append(s, m)
             l == Len(s) + 1
  <1>1. /\ l \in DOMAIN n /\ n[l] = m /\ l <= l
        /\ \A j \in DOMAIN s : j \in DOMAIN n /\ n[j] = s[j] /\ j <= l
        /\ \A j \in DOMAIN n : j = l \/ j \in DOMAIN s
      OBVIOUS
  <1> HIDE DEF n, l
  <1>2. PICK i \in DOMAIN n : i <= l /\ IsInitialize(n[i], t)
      BY <1>1, Zenon DEF Opened
  <1>3. ASSUME NEW j \in DOMAIN n, n[j].sess = t
        PROVE  \E k \in DOMAIN n : k <= j /\ IsInitialize(n[k], t)
      <2>1. CASE j = l
          BY <1>2, <2>1
      <2>2. CASE j \in DOMAIN s
          BY <1>1, <1>3, <2>2, Zenon DEF OpenedFirst
      <2> QED
          BY <1>1, <2>1, <2>2
  <1>4. OpenedFirst(n, t) /\ Opened(n, t)
      BY <1>2, <1>3, Zenon DEF OpenedFirst, Opened
  <1> QED
      BY <1>4 DEF n

LEMMA OpenedTail ==
    ASSUME NEW S, NEW s \in Seq(S), s # <<>>, NEW t, OpenedFirst(s, t), ~IsInitialize(Head(s), t)
    PROVE  /\ Head(s).sess # t
           /\ OpenedFirst(Tail(s), t)
           /\ Opened(s, t) => Opened(Tail(s), t)
  <1> DEFINE n == Tail(s)
             h == Head(s)
  <1>1. /\ 1 \in DOMAIN s /\ s[1] = h
        /\ \A j \in DOMAIN n : j + 1 \in DOMAIN s /\ n[j] = s[j + 1]
        /\ \A j \in DOMAIN s : j # 1 => j - 1 \in DOMAIN n /\ s[j] = n[j - 1]
        /\ \A j \in DOMAIN s : j <= 1 => j = 1
        /\ \A j \in DOMAIN s, i \in DOMAIN n : (j # 1 /\ j <= i + 1) => j - 1 <= i
      OBVIOUS
  <1>2. ~IsInitialize(h, t)
      OBVIOUS
  <1> HIDE DEF n, h
  <1>3. h.sess # t
      BY <1>1, <1>2, Zenon DEF OpenedFirst
  <1>4. ASSUME NEW j \in DOMAIN n, n[j].sess = t
        PROVE  \E k \in DOMAIN n : k <= j /\ IsInitialize(n[k], t)
      <2>1. PICK i \in DOMAIN s : i <= j + 1 /\ IsInitialize(s[i], t)
          BY <1>1, <1>4, Zenon DEF OpenedFirst
      <2>2. i # 1
          BY <1>1, <1>2, <2>1, Zenon
      <2> QED
          BY <1>1, <2>1, <2>2, Zenon
  <1>5. ASSUME Opened(s, t) PROVE Opened(n, t)
      <2>1. PICK i \in DOMAIN s : IsInitialize(s[i], t)
          BY <1>5 DEF Opened
      <2>2. i # 1
          BY <1>1, <1>2, <2>1, Zenon
      <2> QED
          BY <1>1, <2>1, <2>2, Zenon DEF Opened
  <1>6. OpenedFirst(n, t)
      BY <1>4, Zenon DEF OpenedFirst
  <1> QED
      BY <1>3, <1>5, <1>6 DEF n, h

----------------------------------------------------------------------------
(* The invariant of CanInteract.                                           *)

\* A server that has not answered initialize has sent nothing.
SilentAtFirst ==
    (transport # Null /\ server = "fresh") =>
        debuggee = "running" /\ \A j \in DOMAIN Incoming : Incoming[j].sess # transport

\* Before the handshake is completed the response to initialize comes first.
InitializeFirst ==
    (transport # Null /\ handshake # "completed") =>
        OpenedFirst(Incoming, transport) /\ (server = "ready" => Opened(Incoming, transport))

\* The server refuses no step: OnMessage does not look at success.
ServerSteps == StepCommands \intersect RefusedCommands = {}

\* The client is then behind the debuggee only by what it has not handled.
FollowsDebuggee ==
    (ServerSteps /\ Clean) =>
        /\ handshake # "completed" => canInteract = FALSE
        /\ LastTells(Incoming, transport, canInteract, debuggee)

InteractKept == SilentAtFirst /\ InitializeFirst /\ FollowsDebuggee

LEMMA InteractWithout ==
    ASSUME transport' = Null
    PROVE  InteractKept'
  BY DEF InteractKept, SilentAtFirst, InitializeFirst, FollowsDebuggee, Clean

\* Steps that change neither the messages to be handled nor what they tell.
LEMMA InteractSame ==
    ASSUME InteractKept, Incoming' = Incoming,
           UNCHANGED <<transport, handshakeBy, canInteract, debuggee>>,
           (handshake' = "completed") = (handshake = "completed"),
           server' = server \/ server' = "closed"
    PROVE  InteractKept'
  <1>1. Clean' = Clean
      BY DEF Clean
  <1>2. SilentAtFirst'
      BY DEF InteractKept, SilentAtFirst
  <1>3. InitializeFirst'
      BY DEF InteractKept, InitializeFirst
  <1>4. FollowsDebuggee'
      BY <1>1 DEF InteractKept, FollowsDebuggee
  <1> QED
      BY <1>2, <1>3, <1>4 DEF InteractKept

LEMMA RequestInteract ==
    ASSUME TypeOK, EmptyPosts, InteractKept, Request
    PROVE  InteractKept'
  <1>1. CASE transport = Null
      BY <1>1, RequestUnchanged, InteractWithout
  <1>2. CASE SendResponse
      BY <1>2, QuietStep, InteractSame DEF Quiet
  <1>3. CASE transport # Null /\ ~SendResponse
      <2>1. PICK cmd, arg, then : Sends(cmd, arg, then)
          BY <1>3, RequestSends
      <2>2. (handshake' = "completed") = (handshake = "completed")
          BY <1>3, <2>1 DEF Sends, SendRequest, HandshakeAfter
      <2>3. UNCHANGED <<rpc, pending, toClient, transport, handshakeBy, canInteract, debuggee, server>>
          BY <2>1 DEF Sends, SendRequest, serverVars
      <2> QED
          BY <2>2, <2>3, IncomingKept, InteractSame
  <1> QED
      BY <1>1, <1>2, <1>3

\* A session starts with a debuggee that runs.
LEMMA JoinInteract ==
    ASSUME TypeOK, SessionsInOrder, InteractKept, JoinReturns
    PROVE  InteractKept'
  <1>1. CASE Top.then # "connect"
      <2>1. transport' = Null
          BY <1>1 DEF JoinReturns
      <2> QED
          BY <2>1, InteractWithout
  <1>2. CASE Top.then = "connect"
      <2>1. /\ server' = "fresh" /\ debuggee' = "running" /\ canInteract' = FALSE
            /\ handshake' # "completed"
          BY <1>2 DEF JoinReturns, ClearSession, HandshakeAfter
      <2>2. \A j \in DOMAIN Incoming' : Incoming'[j].sess # transport'
          BY <1>2, JoinIncoming
      <2>3. SilentAtFirst'
          BY <2>1, <2>2 DEF SilentAtFirst
      <2>4. InitializeFirst'
          BY <2>1, <2>2 DEF InitializeFirst, OpenedFirst
      <2>5. LastTells(Incoming, transport, canInteract, debuggee)'
          BY <2>1, <2>2 DEF LastTells, Tells
      <2>6. FollowsDebuggee'
          BY <2>1, <2>5 DEF FollowsDebuggee
      <2> QED
          BY <2>3, <2>4, <2>6 DEF InteractKept
  <1> QED
      BY <1>1, <1>2

\* The server sends m, and the debuggee does what m tells.
LEMMA SendInteract ==
    ASSUME TypeOK, InteractKept, NEW m, Incoming' = Append(Incoming, m),
           UNCHANGED <<transport, handshake, handshakeBy, canInteract>>,
           server' = "ready", server = "ready" \/ IsInitialize(m, transport),
           (ServerSteps /\ Tells(m, transport)) => (m.cmd = "stopped" <=> debuggee' = "stopped"),
           ~Tells(m, transport) => debuggee' = debuggee
    PROVE  InteractKept'
  <1>1. Incoming \in Seq(Messages)
      BY DueType
  <1>2. Clean' = Clean
      BY DEF Clean
  <1>3. SilentAtFirst'
      BY DEF SilentAtFirst
  <1>4. InitializeFirst'
      <2> SUFFICES ASSUME transport # Null, handshake # "completed"
                   PROVE  OpenedFirst(Append(Incoming, m), transport) /\ Opened(Append(Incoming, m), transport)
          BY DEF InitializeFirst
      <2>1. OpenedFirst(Incoming, transport) /\ (Opened(Incoming, transport) \/ IsInitialize(m, transport))
          BY DEF InteractKept, InitializeFirst
      <2> QED
          BY <1>1, <2>1, OpenedGains
  <1>5. FollowsDebuggee'
      <2> SUFFICES ASSUME ServerSteps, Clean
                   PROVE  /\ handshake # "completed" => canInteract = FALSE
                          /\ LastTells(Append(Incoming, m), transport, canInteract, debuggee')
          BY <1>2 DEF FollowsDebuggee
      <2>1. /\ handshake # "completed" => canInteract = FALSE
            /\ LastTells(Incoming, transport, canInteract, debuggee)
          BY DEF InteractKept, FollowsDebuggee
      <2> QED
          BY <1>1, <2>1, TellsGains
  <1> QED
      BY <1>3, <1>4, <1>5 DEF InteractKept

LEMMA AnswerInteract ==
    ASSUME TypeOK, InteractKept,
           NEW i \in 1..Len(toServer), NEW ok \in BOOLEAN, ServerAnswers(i, ok)
    PROVE  InteractKept'
  <1> DEFINE r == toServer[i]
  <1>1. PICK m \in Messages : Answers(m, r) /\ m.ok = ok /\ Incoming' = Append(Incoming, m)
      BY AnswerGains
  <1>2. UNCHANGED <<transport, handshake, handshakeBy, canInteract>>
      BY DEF ServerAnswers, sessionVars
  <1>3. /\ server \in {"fresh", "ready", "closed"} /\ server # "closed"
        /\ server = "fresh" => r.cmd = "initialize"
        /\ server' = IF r.cmd = "initialize" THEN "ready" ELSE server
        /\ debuggee' = IF r.cmd \in StepCommands /\ ok THEN "running" ELSE debuggee
        /\ ok \/ r.cmd \in RefusedCommands
      BY DueType DEF ServerAnswers
  <1>4. server' = "ready" /\ (server = "ready" \/ IsInitialize(m, transport))
      BY <1>1, <1>3 DEF Answers, IsInitialize
  <1>5. Tells(m, transport) <=> r.cmd \in StepCommands
      BY <1>1 DEF Answers, Tells
  <1>6. (ServerSteps /\ Tells(m, transport)) => m.cmd # "stopped" /\ debuggee' # "stopped"
      BY <1>1, <1>3, <1>5 DEF ServerSteps, Answers, StepCommands
  <1>7. ~Tells(m, transport) => debuggee' = debuggee
      BY <1>3, <1>5
  <1> QED
      BY <1>1, <1>2, <1>4, <1>6, <1>7, SendInteract

LEMMA EventInteract ==
    ASSUME TypeOK, InteractKept, NEW e \in ServerEvents, NEW thread \in Args, ServerSends(e, thread)
    PROVE  InteractKept'
  <1>1. PICK m \in Messages : /\ m.type # "response" /\ m.cmd = e /\ m.sess = transport
                              /\ m.type = IF e = "runInTerminal" THEN "request" ELSE "event"
                              /\ Incoming' = Append(Incoming, m)
      BY EventGains
  <1>2. UNCHANGED <<transport, handshake, handshakeBy, canInteract>>
      BY DEF ServerSends, sessionVars
  <1>3. /\ server = "ready" /\ server' = "ready"
        /\ debuggee' = IF e = "stopped" THEN "stopped"
                       ELSE IF e = "continued" THEN "running" ELSE debuggee
      BY DEF ServerSends
  <1>4. Tells(m, transport) <=> e \in {"stopped", "continued"}
      BY <1>1 DEF Tells
  <1>5. Tells(m, transport) => (m.cmd = "stopped" <=> debuggee' = "stopped")
      BY <1>1, <1>3, <1>4
  <1>6. ~Tells(m, transport) => debuggee' = debuggee
      BY <1>3, <1>4
  <1> QED
      BY <1>1, <1>2, <1>3, <1>5, <1>6, SendInteract

\* What a message does to CanInteract.
LEMMA MessageInteract ==
    ASSUME TypeOK, NEW m \in Messages, OnMessage(m)
    PROVE  /\ UNCHANGED <<transport, server, debuggee>>
           /\ handshake # "completed" =>
                 /\ UNCHANGED canInteract
                 /\ \/ UNCHANGED <<handshake, handshakeBy>>
                       /\ ~(m.type = "response" /\ m.cmd = "initialize")
                    \/ handshake' = "completed" /\ handshakeBy' = m.sess
           /\ handshake = "completed" =>
                 /\ UNCHANGED <<handshake, handshakeBy>>
                 /\ Tells(m, m.sess) => (canInteract' <=> m.cmd = "stopped")
                 /\ ~Tells(m, m.sess) => canInteract' = canInteract
  <1>1. UNCHANGED <<transport, server, debuggee>>
      BY DEF OnMessage, serverVars
  <1>2. m.type = "response" => m.cmd \notin {"stopped", "continued"}
      BY DEF Messages, RequestNames, AllCommands, QueueCommands, QueueEventCommands,
         CallbackCommands, PlainCommands, StepCommands, IgnoredCommands
  <1> USE DEF Tells, StepCommands
  <1>3. CASE OnHandshakeMessage(m)
      BY <1>1, <1>3 DEF OnHandshakeMessage
  <1>4. CASE OnEvent(m)
      <2>1. /\ handshake = "completed" /\ UNCHANGED <<handshake, handshakeBy>> /\ m.type = "event"
            /\ canInteract' = (m.cmd = "stopped" \/ (canInteract /\ m.cmd # "continued"))
          BY <1>4 DEF OnEvent
      <2>2. canInteract \in BOOLEAN
          BY DEF TypeOK, FlagTypes
      <2>3. Tells(m, m.sess) <=> m.cmd \in {"stopped", "continued"}
          BY <2>1
      <2>4. CASE m.cmd = "stopped"
          BY <1>1, <2>1, <2>3, <2>4
      <2>5. CASE m.cmd = "continued"
          BY <1>1, <2>1, <2>3, <2>5
      <2>6. CASE m.cmd \notin {"stopped", "continued"}
          <3>1. canInteract' = canInteract
              BY <2>1, <2>2, <2>6
          <3> QED
              BY <1>1, <2>1, <2>3, <2>6, <3>1
      <2> QED
          BY <2>4, <2>5, <2>6
  <1>5. CASE OnReverseRequest(m)
      BY <1>1, <1>5 DEF OnReverseRequest
  <1>6. CASE OnStepResponse(m)
      BY <1>1, <1>2, <1>6 DEF OnStepResponse
  <1>7. CASE OnQueuedResponse(m) \/ OnCallbackResponse(m) \/ OnLocationsResponse(m)
      BY <1>1, <1>7 DEF OnQueuedResponse, OnCallbackResponse, OnLocationsResponse,
         QueueEventCommands, CallbackCommands
  <1>8. CASE OnPlainResponse(m) \/ OnIgnoredResponse(m)
      BY <1>1, <1>8 DEF OnPlainResponse, OnIgnoredResponse, PlainCommands, IgnoredCommands
  <1> QED
      BY <1>3, <1>4, <1>5, <1>6, <1>7, <1>8 DEF OnMessage

\* A message is handled.
LEMMA HandledInteract ==
    ASSUME TypeOK, OwnsIncoming, InteractKept, NEW m \in Messages, m = Head(Incoming), OnMessage(m),
           Incoming # <<>>, Incoming' = Tail(Incoming), HandlesFirst(m)
    PROVE  InteractKept'
  <1>1. Incoming \in Seq(Messages)
      BY DueType
  <1>2. UNCHANGED <<transport, server, debuggee>>
      BY MessageInteract
  <1>3. SilentAtFirst'
      BY <1>2 DEF InteractKept, SilentAtFirst, HandlesFirst, Without
  <1>4. CASE handshake # "completed"
      <2>1. /\ UNCHANGED canInteract
            /\ \/ UNCHANGED <<handshake, handshakeBy>> /\ ~(m.type = "response" /\ m.cmd = "initialize")
               \/ handshake' = "completed" /\ handshakeBy' = m.sess
          BY <1>4, MessageInteract
      <2>2. transport # Null => /\ OpenedFirst(Incoming, transport)
                                /\ server = "ready" => Opened(Incoming, transport)
          BY <1>4 DEF InteractKept, InitializeFirst
      <2>3. InitializeFirst'
          <3> SUFFICES ASSUME transport # Null, handshake' # "completed"
                       PROVE  /\ OpenedFirst(Tail(Incoming), transport)
                              /\ server = "ready" => Opened(Tail(Incoming), transport)
              BY <1>2 DEF InitializeFirst
          <3>1. ~IsInitialize(m, transport)
              BY <2>1 DEF IsInitialize
          <3> QED
              BY <1>1, <2>2, <3>1, OpenedTail
      <2>4. FollowsDebuggee'
          <3> SUFFICES ASSUME ServerSteps, transport # Null
                       PROVE  /\ canInteract' = FALSE
                              /\ LastTells(Tail(Incoming), transport, canInteract', debuggee)
              BY <1>2 DEF FollowsDebuggee, Clean
          <3>1. canInteract = FALSE /\ LastTells(Incoming, transport, canInteract, debuggee)
              BY <1>4 DEF InteractKept, FollowsDebuggee, Clean
          <3>2. ~Tells(m, transport)
              <4>1. CASE IsInitialize(m, transport)
                  BY <4>1 DEF IsInitialize, Tells, StepCommands
              <4>2. CASE ~IsInitialize(m, transport)
                  <5>1. m.sess # transport
                      BY <1>1, <2>2, <4>2, OpenedTail
                  <5> QED
                      BY <5>1 DEF Tells
              <4> QED
                  BY <4>1, <4>2
          <3>3. LastTells(Tail(Incoming), transport, canInteract, debuggee)
              BY <1>1, <3>1, <3>2, TellsTail
          <3> QED
              BY <2>1, <3>1, <3>3
      <2> QED
          BY <1>3, <2>3, <2>4 DEF InteractKept
  <1>5. CASE handshake = "completed"
      <2>1. /\ UNCHANGED <<handshake, handshakeBy>>
            /\ Tells(m, m.sess) => (canInteract' <=> m.cmd = "stopped")
            /\ ~Tells(m, m.sess) => canInteract' = canInteract
          BY <1>5, MessageInteract
      <2>2. InitializeFirst'
          BY <1>5, <2>1 DEF InitializeFirst
      <2>3. FollowsDebuggee'
          <3> SUFFICES ASSUME ServerSteps, Clean
                       PROVE  LastTells(Tail(Incoming), transport, canInteract', debuggee)
              BY <1>2, <1>5, <2>1 DEF FollowsDebuggee, Clean
          <3>1. LastTells(Incoming, transport, canInteract, debuggee)
              BY DEF InteractKept, FollowsDebuggee
          <3>2. m.sess = transport
              BY <1>5 DEF OwnsIncoming, Fresh, Clean, HandlesFirst
          <3> QED
              BY <1>1, <2>1, <3>1, <3>2, TellsTail
      <2> QED
          BY <1>3, <2>2, <2>3 DEF InteractKept
  <1> QED
      BY <1>4, <1>5

LEMMA NextInteract ==
    TypeOK /\ SessionsInOrder /\ EmptyPosts /\ InteractKept /\ [Next]_vars => InteractKept'
  <1> SUFFICES ASSUME TypeOK, SessionsInOrder, EmptyPosts, InteractKept, [Next]_vars
               PROVE  InteractKept'
      OBVIOUS
  <1>0. OwnsIncoming
      BY FreshIncoming DEF OwnsIncoming
  <1>1. CASE Quiet
      BY <1>1, QuietStep, InteractSame
  <1>2. CASE ApplicationStep
      BY <1>1, <1>2, RequestInteract DEF ApplicationStep, Quiet
  <1>3. CASE OnDataRead \/ ProcessBuffer
      <2> DEFINE m == Head(Incoming)
      <2>1. /\ Incoming # <<>> /\ Incoming' = Tail(Incoming) /\ m \in Messages
            /\ HandlesFirst(m) /\ OnMessage(m)
          BY <1>3, MessageIsFirst
      <2> QED
          BY <1>0, <2>1, HandledInteract
  <1>4. CASE MainStep
      BY <1>1, <1>3, <1>4, JoinInteract DEF MainStep, Quiet
  <1>5. CASE ServerStep
      BY <1>1, <1>5, AnswerInteract, EventInteract DEF ServerStep, Quiet
  <1> QED
      BY <1>1, <1>2, <1>4, <1>5 DEF Next, Quiet

LEMMA InitInteract == Init => InteractKept
  BY DEF Init, InteractKept, SilentAtFirst, InitializeFirst, FollowsDebuggee, Clean

\* A session's messages start with the answer to initialize, and CanInteract lags
\* behind the debuggee by the messages that are not handled if the server refuses no
\* step, for every number of sessions, requests and events (m_can_interact in
\* OnMessage and Reset).
THEOREM DebuggeeFollowed == Spec => []InteractKept
  <1>1. Init => TypeOK /\ SessionsInOrder /\ RequestsKept /\ InteractKept
      BY InitTypeOK, InitSessions, InitKept, InitInteract
  <1>2. TypeOK /\ SessionsInOrder /\ RequestsKept /\ InteractKept /\ [Next]_vars
           => (TypeOK /\ SessionsInOrder /\ RequestsKept /\ InteractKept)'
      BY NextTypeOK, NextSessions, NextKept, NextInteract DEF RequestsKept
  <1> QED
      BY <1>1, <1>2, PTL DEF Spec

\* When OnMessage has handled all that the server sent, CanInteract tells whether the
\* debuggee is stopped.
THEOREM InteractIsStopped ==
    ASSUME ServerSteps
    PROVE  Spec => []InteractIffStopped
  <1>1. InteractKept => InteractIffStopped
      <2> SUFFICES ASSUME InteractKept, Fresh, InEventLoop, pending = <<>>, toClient = <<>>
                   PROVE  canInteract <=> debuggee = "stopped"
          BY DEF InteractIffStopped
      <2>1. DOMAIN Incoming = {}
          <3>1. Posts(<<>>) = <<>>
              BY DEF Posts
          <3>2. Incoming = <<>> \o <<>> \o <<>>
              BY <3>1, FlattenEmpty DEF Incoming, InEventLoop
          <3> QED
              BY <3>2
      <2>2. LastTells(Incoming, transport, canInteract, debuggee)
          BY DEF InteractKept, FollowsDebuggee, Clean, Fresh
      <2> QED
          BY <2>1, <2>2 DEF LastTells
  <1> QED
      BY <1>1, DebuggeeFollowed, PTL
=============================================================================
