--------------------------- MODULE RequestProofs ---------------------------
(***************************************************************************)
(* Requests of Client and their answers: whatever order the server answers *)
(* in, an answer finds its own request, its own file and nothing else, and *)
(* what was found is forgotten.                                            *)
(***************************************************************************)
EXTENDS ClientProofs, FlattenTheorems

----------------------------------------------------------------------------
(* The messages that are still to be handled, as one sequence.             *)

Posts(q) == [i \in DOMAIN q |-> q[i].msgs]

Incoming == rpc \o FlattenSeq(Posts(pending)) \o toClient

\* Only chunks of bytes carry messages.
EmptyPosts == \A k \in DOMAIN pending : pending[k].kind # "data" => pending[k].msgs = <<>>

\* The answers of the server of this session.
Own(m) == m.sess = transport /\ m.type = "response"

\* Nothing of an earlier session has touched this one.
Clean == transport # Null /\ (handshake = "completed" => handshakeBy = transport)

----------------------------------------------------------------------------
(* The invariant.                                                          *)

\* Numbers are given out in order.
NumbersTaken ==
    transport # Null =>
        /\ \A i \in DOMAIN toServer : toServer[i].seq <= seq
        /\ \A j \in DOMAIN Incoming :
              Own(Incoming[j]) => Incoming[j].seq > 0 /\ Incoming[j].seq <= seq
        /\ \A s \in 1..MaxSeq : s > seq => inFlight[s] = NoRequest /\ filepath[s] = Null

\* No two requests or answers have the same.
NumbersDiffer ==
    transport # Null =>
        /\ \A i, k \in DOMAIN toServer : i # k => toServer[i].seq # toServer[k].seq
        /\ \A j, k \in DOMAIN Incoming :
              (j # k /\ Own(Incoming[j]) /\ Own(Incoming[k])) => Incoming[j].seq # Incoming[k].seq
        /\ \A i \in DOMAIN toServer, j \in DOMAIN Incoming :
              Own(Incoming[j]) => toServer[i].seq # Incoming[j].seq

\* A request or an answer is recorded under its number.
Recorded(m, requests, files) ==
    /\ requests[m.seq].cmd = m.cmd
    /\ m.cmd # "initialize" => requests[m.seq].arg = m.arg
    /\ m.cmd = "breakpointLocations" => files[m.seq] = m.arg

AllRecorded ==
    Clean => /\ \A i \in DOMAIN toServer :
                   /\ Recorded(toServer[i], inFlight, filepath)
                   /\ inFlight[toServer[i].seq].arg = toServer[i].arg
             /\ \A j \in DOMAIN Incoming : Own(Incoming[j]) => Recorded(Incoming[j], inFlight, filepath)

\* What is recorded of tracked requests is outstanding.
NoneLeft ==
    Clean =>
        \A s \in 1..MaxSeq :
            inFlight[s].cmd \in TrackedCommands =>
                /\ handshake = "completed"
                /\ server # "closed" =>
                      \/ \E i \in DOMAIN toServer : toServer[i].seq = s
                      \/ \E j \in DOMAIN Incoming : Own(Incoming[j]) /\ Incoming[j].seq = s

RequestsKept == EmptyPosts /\ NumbersTaken /\ NumbersDiffer /\ AllRecorded /\ NoneLeft

----------------------------------------------------------------------------
(* Sequences.                                                              *)

\* The tail of a concatenation.
LEMMA TailConcat ==
    ASSUME NEW S, NEW s \in Seq(S), NEW t \in Seq(S), s # <<>>
    PROVE  Head(s \o t) = Head(s) /\ Tail(s \o t) = Tail(s) \o t /\ s \o t # <<>>
  OBVIOUS

\* A sequence cut in two.
LEMMA CutInTwo ==
    ASSUME NEW S, NEW s \in Seq(S), NEW n \in Nat, n <= Len(s)
    PROVE  /\ SubSeq(s, 1, n) \in Seq(S) /\ SubSeq(s, n + 1, Len(s)) \in Seq(S)
           /\ SubSeq(s, 1, n) \o SubSeq(s, n + 1, Len(s)) = s
  <1>1. Len(s) \in Nat
      BY LenProperties
  <1>2. /\ \A i \in 1..n : i \in 1..Len(s)
        /\ \A i \in n + 1..Len(s) : i \in 1..Len(s)
      BY <1>1
  <1>3. /\ \A i \in 1..n : s[i] \in S
        /\ \A i \in n + 1..Len(s) : s[i] \in S
      BY <1>2, ElementOfSeq
  <1>4. SubSeq(s, 1, n) \in Seq(S) /\ SubSeq(s, n + 1, Len(s)) \in Seq(S)
      <2> DEFINE a == n + 1
      <2>1. a \in Int /\ \A i \in a..Len(s) : s[i] \in S
          BY <1>3
      <2> HIDE DEF a
      <2>2. SubSeq(s, a, Len(s)) \in Seq(S)
          BY <1>1, <2>1, SubSeqProperties
      <2> QED
          BY <1>3, <2>2, SubSeqProperties DEF a
  <1>5. 1 \in 1..Len(s) + 1 /\ n \in 1 - 1..Len(s) /\ Len(s) \in n..Len(s)
      BY <1>1
  <1>6. SubSeq(s, 1, n) \o SubSeq(s, n + 1, Len(s)) = SubSeq(s, 1, Len(s))
      BY <1>5, ConcatAdjacentSubSeq
  <1> QED
      BY <1>4, <1>6, SubSeqFull

\* The chunks in the event queue.
LEMMA PostsType ==
    ASSUME NEW q \in Seq(Posted)
    PROVE  /\ Posts(q) \in Seq(Seq(Messages)) /\ Len(Posts(q)) = Len(q)
           /\ \A i \in 1..Len(q) : Posts(q)[i] = q[i].msgs
  <1>1. Len(q) \in Nat /\ DOMAIN q = 1..Len(q)
      BY LenProperties
  <1>2. \A i \in 1..Len(q) : q[i].msgs \in Seq(Messages)
      <2>1. \A i \in 1..Len(q) : q[i] \in Posted
          BY <1>1, ElementOfSeq
      <2> QED
          BY <2>1 DEF Posted
  <1>3. Posts(q) = [i \in 1..Len(q) |-> q[i].msgs]
      BY <1>1 DEF Posts
  <1> QED
      BY <1>1, <1>2, <1>3, IsASeq

\* ... with one more.
LEMMA PostsAppend ==
    ASSUME NEW q \in Seq(Posted), NEW p \in Posted
    PROVE  Posts(Append(q, p)) = Append(Posts(q), p.msgs)
  <1> DEFINE a == Posts(Append(q, p))
             b == Append(Posts(q), p.msgs)
             n == Len(q)
  <1>0. n \in Nat /\ p.msgs \in Seq(Messages)
      BY LenProperties DEF Posted
  <1>1. /\ Append(q, p) \in Seq(Posted) /\ Len(Append(q, p)) = n + 1
        /\ (\A i \in 1..n : Append(q, p)[i] = q[i]) /\ Append(q, p)[n + 1] = p
      BY AppendProperties
  <1>2. /\ a \in Seq(Seq(Messages)) /\ Len(a) = n + 1
        /\ \A i \in 1..n + 1 : a[i] = Append(q, p)[i].msgs
      BY <1>1, PostsType
  <1>3. /\ Posts(q) \in Seq(Seq(Messages)) /\ Len(Posts(q)) = n
        /\ \A i \in 1..n : Posts(q)[i] = q[i].msgs
      BY PostsType
  <1>4. /\ b \in Seq(Seq(Messages)) /\ Len(b) = n + 1
        /\ (\A i \in 1..n : b[i] = Posts(q)[i]) /\ b[n + 1] = p.msgs
      BY <1>0, <1>3, AppendProperties
  <1> HIDE DEF a, b, n
  <1>5. ASSUME NEW i \in 1..n + 1 PROVE a[i] = b[i]
      <2>1. i \in 1..n \/ i = n + 1
          BY <1>0
      <2>2. CASE i \in 1..n
          BY <1>1, <1>2, <1>3, <1>4, <2>2, Zenon
      <2>3. CASE i = n + 1
          BY <1>1, <1>2, <1>4, <2>3, Zenon
      <2> QED
          BY <2>1, <2>2, <2>3
  <1>6. a = b
      BY <1>2, <1>4, <1>5, SeqEqual
  <1> QED
      BY <1>6 DEF a, b

\* ... and without the first.
LEMMA PostsTail ==
    ASSUME NEW q \in Seq(Posted), q # <<>>
    PROVE  /\ Posts(q) # <<>> /\ Head(Posts(q)) = Head(q).msgs
           /\ Posts(Tail(q)) = Tail(Posts(q)) /\ Tail(q) \in Seq(Posted)
  <1> DEFINE a == Posts(Tail(q))
             b == Tail(Posts(q))
             n == Len(q)
  <1>0. n \in Nat /\ n > 0
      BY LenProperties, EmptySeq
  <1>1. /\ Tail(q) \in Seq(Posted) /\ Len(Tail(q)) = n - 1 /\ Head(q) = q[1]
        /\ \A i \in 1..n - 1 : Tail(q)[i] = q[i + 1]
      BY HeadTailProperties
  <1>2. /\ a \in Seq(Seq(Messages)) /\ Len(a) = n - 1
        /\ \A i \in 1..n - 1 : a[i] = Tail(q)[i].msgs
      BY <1>1, PostsType
  <1>3. /\ Posts(q) \in Seq(Seq(Messages)) /\ Len(Posts(q)) = n
        /\ \A i \in 1..n : Posts(q)[i] = q[i].msgs
      BY PostsType
  <1>4. Posts(q) # <<>>
      BY <1>0, <1>3, EmptySeq
  <1>5. /\ b \in Seq(Seq(Messages)) /\ Len(b) = n - 1 /\ Head(Posts(q)) = Posts(q)[1]
        /\ \A i \in 1..n - 1 : b[i] = Posts(q)[i + 1]
      BY <1>3, <1>4, HeadTailProperties
  <1> HIDE DEF a, b, n
  <1>6. ASSUME NEW i \in 1..n - 1 PROVE a[i] = b[i]
      <2>1. i + 1 \in 1..n
          BY <1>0
      <2> QED
          BY <1>1, <1>2, <1>3, <1>5, <2>1, Zenon
  <1>7. a = b
      BY <1>2, <1>5, <1>6, SeqEqual
  <1>8. 1 \in 1..n
      BY <1>0
  <1> QED
      BY <1>1, <1>3, <1>4, <1>5, <1>7, <1>8 DEF a, b

----------------------------------------------------------------------------
(* How the steps change the messages to be handled.                        *)

\* They are messages.
LEMMA IncomingType ==
    ASSUME TypeOK
    PROVE  /\ rpc \in Seq(Messages) /\ toClient \in Seq(Messages) /\ pending \in Seq(Posted)
           /\ FlattenSeq(Posts(pending)) \in Seq(Messages) /\ Incoming \in Seq(Messages)
  <1>1. rpc \in Seq(Messages) /\ toClient \in Seq(Messages) /\ pending \in Seq(Posted)
      BY DEF TypeOK, ThreadTypes, ServerTypes
  <1>2. FlattenSeq(Posts(pending)) \in Seq(Messages)
      BY <1>1, PostsType, FlattenType
  <1> DEFINE f == FlattenSeq(Posts(pending))
  <1> HIDE DEF f
  <1>3. rpc \o f \o toClient \in Seq(Messages)
      BY <1>1, <1>2, ConcatProperties DEF f
  <1> QED
      BY <1>1, <1>2, <1>3 DEF Incoming, f

\* They stay when nothing is read or handled.
LEMMA IncomingKept ==
    ASSUME UNCHANGED <<rpc, pending, toClient>>
    PROVE  Incoming' = Incoming
  BY DEF Incoming, Posts

\* The server adds one.
LEMMA IncomingGains ==
    ASSUME TypeOK, UNCHANGED <<rpc, pending>>, NEW m \in Messages,
           toClient' = Append(toClient, m)
    PROVE  Incoming' = Append(Incoming, m)
  <1> DEFINE f == FlattenSeq(Posts(pending))
             a == rpc \o f
  <1>1. a \in Seq(Messages) /\ toClient \in Seq(Messages) /\ Incoming = a \o toClient
      BY IncomingType, ConcatProperties DEF Incoming
  <1>2. Incoming' = a \o Append(toClient, m)
      BY DEF Incoming, Posts
  <1> HIDE DEF a
  <1>3. a \o Append(toClient, m) = Append(a \o toClient, m)
      BY <1>1
  <1> QED
      BY <1>1, <1>2, <1>3

\* The reader thread posts what it has read.
LEMMA IncomingPosted ==
    ASSUME TypeOK, rpc' = rpc, NEW p \in Posted, pending' = Append(pending, p),
           NEW t \in Seq(Messages), toClient' = t, p.msgs \o t = toClient
    PROVE  Incoming' = Incoming
  <1> DEFINE f == FlattenSeq(Posts(pending))
             c == p.msgs
  <1>1. rpc \in Seq(Messages) /\ f \in Seq(Messages) /\ pending \in Seq(Posted)
        /\ c \in Seq(Messages)
      BY IncomingType DEF Posted
  <1>2. FlattenSeq(Posts(Append(pending, p))) = f \o c
      BY <1>1, PostsType, PostsAppend, FlattenAppend
  <1>3. Incoming' = rpc \o FlattenSeq(Posts(Append(pending, p))) \o t
      BY DEF Incoming, Posts
  <1>4. Incoming = rpc \o f \o (c \o t)
      BY DEF Incoming
  <1> HIDE DEF f, c
  <1>5. rpc \o (f \o c) \o t = rpc \o f \o (c \o t)
      <2>1. rpc \o (f \o c) = (rpc \o f) \o c
          <3>1. Regrouped(rpc, f, c)
              BY <1>1, Regroup
          <3> QED
              BY <3>1, Zenon DEF Regrouped
      <2> DEFINE r == rpc \o f
      <2>2. r \in Seq(Messages)
          BY <1>1, ConcatProperties
      <2> HIDE DEF r
      <2>3. (r \o c) \o t = r \o (c \o t)
          <3>1. Regrouped(r, c, t)
              BY <1>1, <2>2, Regroup
          <3> QED
              BY <3>1, Zenon DEF Regrouped
      <2> QED
          BY <2>1, <2>3, Zenon DEF r
  <1> QED
      BY <1>2, <1>3, <1>4, <1>5, Zenon

\* A post without messages is taken from the event queue.
LEMMA IncomingSkips ==
    ASSUME TypeOK, UNCHANGED <<rpc, toClient>>, pending # <<>>, pending' = Tail(pending),
           Head(pending).msgs = <<>>
    PROVE  Incoming' = Incoming
  <1> DEFINE g == FlattenSeq(Posts(Tail(pending)))
  <1>1. pending \in Seq(Posted) /\ Posts(pending) \in Seq(Seq(Messages))
      BY IncomingType, PostsType
  <1>2. /\ Posts(pending) # <<>> /\ Head(Posts(pending)) = <<>>
        /\ Posts(Tail(pending)) = Tail(Posts(pending)) /\ Tail(pending) \in Seq(Posted)
      BY <1>1, PostsTail
  <1>3. FlattenSeq(Posts(pending)) = <<>> \o g
      BY <1>1, <1>2, FlattenHeadTail
  <1>4. g \in Seq(Messages)
      BY <1>2, PostsType, FlattenType
  <1>5. Incoming' = rpc \o g \o toClient
      BY DEF Incoming, Posts
  <1> HIDE DEF g
  <1>6. <<>> \o g = g
      BY <1>4, ConcatEmptySeq
  <1> QED
      BY <1>3, <1>5, <1>6, Zenon DEF Incoming

\* The first of them is handled: of a posted chunk ...
LEMMA IncomingRead ==
    ASSUME TypeOK, OnDataRead
    PROVE  /\ Incoming # <<>> /\ Head(Incoming) = Head(Head(pending).msgs)
           /\ Incoming' = Tail(Incoming)
  <1> DEFINE g == FlattenSeq(Posts(Tail(pending)))
             c == Head(pending).msgs
  <1>1. pending \in Seq(Posted) /\ Posts(pending) \in Seq(Seq(Messages)) /\ toClient \in Seq(Messages)
      BY IncomingType, PostsType
  <1>2. /\ pending # <<>> /\ rpc = <<>> /\ pending' = Tail(pending) /\ rpc' = Tail(c)
        /\ toClient' = toClient
      BY DEF OnDataRead, InEventLoop, OnMessage
  <1>3. /\ Posts(pending) # <<>> /\ Head(Posts(pending)) = c
        /\ Posts(Tail(pending)) = Tail(Posts(pending)) /\ Tail(pending) \in Seq(Posted)
      BY <1>1, <1>2, PostsTail
  <1>4. FlattenSeq(Posts(pending)) = c \o g
      BY <1>1, <1>3, FlattenHeadTail
  <1>5. g \in Seq(Messages)
      BY <1>3, PostsType, FlattenType
  <1>6. c \in Seq(Messages) /\ c # <<>>
      <2>1. Head(pending) \in Posted /\ Head(pending).kind = "data"
          BY <1>1, <1>2, HeadTailProperties DEF OnDataRead
      <2> QED
          BY <2>1 DEF Posted
  <1>7. Incoming' = Tail(c) \o g \o toClient
      BY <1>2 DEF Incoming, Posts
  <1>8. Incoming = <<>> \o (c \o g) \o toClient
      BY <1>2, <1>4, Zenon DEF Incoming
  <1> HIDE DEF g, c
  <1> DEFINE d == c \o g
  <1>9. d \in Seq(Messages) /\ d # <<>> /\ Head(d) = Head(c) /\ Tail(d) = Tail(c) \o g
      BY <1>5, <1>6, TailConcat, ConcatProperties
  <1> HIDE DEF d
  <1>10. <<>> \o d = d
      BY <1>9, ConcatEmptySeq
  <1>11. Head(d \o toClient) = Head(d) /\ Tail(d \o toClient) = Tail(d) \o toClient
         /\ d \o toClient # <<>>
      BY <1>1, <1>9, TailConcat
  <1>12. Incoming = d \o toClient
      BY <1>8, <1>10, Zenon DEF d
  <1> QED
      BY <1>7, <1>9, <1>11, <1>12, Zenon DEF c

\* ... or of the one that is being processed.
LEMMA IncomingProcessed ==
    ASSUME TypeOK, ProcessBuffer
    PROVE  /\ Incoming # <<>> /\ Head(Incoming) = Head(rpc)
           /\ Incoming' = Tail(Incoming)
  <1> DEFINE f == FlattenSeq(Posts(pending))
             d == rpc \o f
  <1>1. rpc \in Seq(Messages) /\ f \in Seq(Messages) /\ toClient \in Seq(Messages)
      BY IncomingType
  <1>2. rpc # <<>> /\ pending' = pending /\ rpc' = Tail(rpc) /\ toClient' = toClient
      BY DEF ProcessBuffer, OnMessage
  <1>3. Incoming' = Tail(rpc) \o f \o toClient
      BY <1>2 DEF Incoming, Posts
  <1>4. Incoming = d \o toClient
      BY DEF Incoming
  <1> HIDE DEF f
  <1>5. d \in Seq(Messages) /\ d # <<>> /\ Head(d) = Head(rpc) /\ Tail(d) = Tail(rpc) \o f
      BY <1>1, <1>2, TailConcat, ConcatProperties
  <1> HIDE DEF d
  <1>6. Head(d \o toClient) = Head(d) /\ Tail(d \o toClient) = Tail(d) \o toClient
         /\ d \o toClient # <<>>
      BY <1>1, <1>5, TailConcat
  <1> QED
      BY <1>3, <1>4, <1>5, <1>6, Zenon

----------------------------------------------------------------------------
(* Where the messages to be handled are kept.                              *)

\* m is an element of s.
Has(s, m) == \E i \in DOMAIN s : s[i] = m

\* A message that is somewhere ...
Somewhere(m) == Has(rpc, m) \/ (\E k \in DOMAIN pending : Has(pending[k].msgs, m)) \/ Has(toClient, m)

\* The elements of a concatenation.
LEMMA ConcatHas ==
    ASSUME NEW S, NEW s \in Seq(S), NEW t \in Seq(S), NEW m
    PROVE  Has(s \o t, m) <=> Has(s, m) \/ Has(t, m)
  <1> DEFINE c == s \o t
  <1>1. /\ c \in Seq(S) /\ Len(c) = Len(s) + Len(t) /\ Len(s) \in Nat /\ Len(t) \in Nat
        /\ DOMAIN s = 1..Len(s) /\ DOMAIN t = 1..Len(t)
        /\ \A j \in 1..Len(s) + Len(t) : c[j] = IF j <= Len(s) THEN s[j] ELSE t[j - Len(s)]
      BY ConcatProperties, LenProperties
  <1>2. DOMAIN c = 1..Len(s) + Len(t)
      BY <1>1, LenProperties
  <1> HIDE DEF c
  <1>3. ASSUME NEW i \in 1..Len(s) PROVE i \in 1..Len(s) + Len(t) /\ c[i] = s[i]
      BY <1>1
  <1>4. ASSUME NEW i \in 1..Len(t)
        PROVE  Len(s) + i \in 1..Len(s) + Len(t) /\ c[Len(s) + i] = t[i]
      <2>1. Len(s) + i \in 1..Len(s) + Len(t) /\ ~(Len(s) + i <= Len(s)) /\ (Len(s) + i) - Len(s) = i
          BY <1>1
      <2> QED
          BY <1>1, <2>1
  <1>5. ASSUME NEW j \in 1..Len(s) + Len(t)
        PROVE  (\E i \in 1..Len(s) : c[j] = s[i]) \/ (\E i \in 1..Len(t) : c[j] = t[i])
      <2>1. CASE j <= Len(s)
          <3>1. j \in 1..Len(s) /\ c[j] = s[j]
              BY <1>1, <2>1
          <3> QED
              BY <3>1
      <2>2. CASE ~(j <= Len(s))
          <3>1. j - Len(s) \in 1..Len(t) /\ c[j] = t[j - Len(s)]
              BY <1>1, <2>2
          <3> QED
              BY <3>1
      <2> QED
          BY <2>1, <2>2
  <1>6. \A i \in 1..Len(s) : \E j \in 1..Len(s) + Len(t) : c[j] = s[i]
      BY <1>3
  <1>7. \A i \in 1..Len(t) : \E j \in 1..Len(s) + Len(t) : c[j] = t[i]
      BY <1>4
  <1>8. Has(c, m) => Has(s, m) \/ Has(t, m)
      BY <1>1, <1>2, <1>5, Zenon DEF Has
  <1>9. Has(s, m) \/ Has(t, m) => Has(c, m)
      BY <1>1, <1>2, <1>6, <1>7, Zenon DEF Has
  <1> QED
      BY <1>8, <1>9 DEF c

\* The elements of the chunks in the event queue.
LEMMA PostsHas ==
    ASSUME NEW q \in Seq(Posted), NEW m
    PROVE  Has(FlattenSeq(Posts(q)), m) <=> \E k \in DOMAIN q : Has(q[k].msgs, m)
  <1> DEFINE ss == Posts(q)
             f == FlattenSeq(ss)
  <1>1. /\ ss \in Seq(Seq(Messages)) /\ Len(ss) = Len(q) /\ Len(q) \in Nat
        /\ \A k \in 1..Len(q) : ss[k] = q[k].msgs
        /\ DOMAIN q = 1..Len(q)
      BY PostsType, LenProperties
  <1> HIDE DEF ss
  <1>2. f \in Seq(Messages) /\ DOMAIN f = 1..Len(f)
      BY <1>1, FlattenType, LenProperties
  <1>3. \A k \in 1..Len(q) : ss[k] \in Seq(Messages) /\ DOMAIN ss[k] = 1..Len(ss[k])
      BY <1>1, ElementOfSeq, LenProperties
  <1>4. ASSUME NEW k \in 1..Len(q), NEW n \in 1..Len(ss[k])
        PROVE  \E j \in 1..Len(f) : f[j] = ss[k][n]
      <2>1. ss \in Seq(Seq(Messages)) /\ k \in 1..Len(ss)
          BY <1>1
      <2> QED
          BY <2>1, FlattenCovers
  <1>5. ASSUME NEW j \in 1..Len(f)
        PROVE  \E k \in 1..Len(q) : \E n \in 1..Len(ss[k]) : f[j] = ss[k][n]
      <2>1. ss \in Seq(Seq(Messages))
          BY <1>1
      <2>2. \E k \in 1..Len(ss) : \E n \in 1..Len(ss[k]) : FlattenSeq(ss)[j] = ss[k][n]
          BY <2>1, FlattenFrom
      <2> QED
          BY <1>1, <2>2, Zenon
  <1> HIDE DEF f
  <1>6. Has(f, m) => \E k \in DOMAIN q : Has(q[k].msgs, m)
      <2> SUFFICES ASSUME NEW j \in 1..Len(f), f[j] = m PROVE \E k \in DOMAIN q : Has(q[k].msgs, m)
          BY <1>2 DEF Has
      <2>1. PICK k \in 1..Len(q) : \E n \in 1..Len(ss[k]) : f[j] = ss[k][n]
          BY <1>5
      <2>2. Has(ss[k], m)
          BY <1>3, <2>1, Zenon DEF Has
      <2> QED
          BY <1>1, <2>2
  <1>7. (\E k \in DOMAIN q : Has(q[k].msgs, m)) => Has(f, m)
      <2> SUFFICES ASSUME NEW k \in DOMAIN q, Has(q[k].msgs, m) PROVE Has(f, m)
          OBVIOUS
      <2>1. k \in 1..Len(q) /\ Has(ss[k], m)
          BY <1>1
      <2>2. PICK n \in 1..Len(ss[k]) : ss[k][n] = m
          BY <1>3, <2>1 DEF Has
      <2>3. PICK j \in 1..Len(f) : f[j] = ss[k][n]
          BY <1>4, <2>1, <2>2
      <2> QED
          BY <1>2, <2>2, <2>3 DEF Has
  <1> QED
      BY <1>6, <1>7 DEF f, ss

\* ... is to be handled, and what is to be handled is somewhere.
LEMMA IncomingHas ==
    ASSUME TypeOK, NEW m
    PROVE  Has(Incoming, m) <=> Somewhere(m)
  <1> DEFINE f == FlattenSeq(Posts(pending))
             a == rpc \o f
  <1>1. /\ rpc \in Seq(Messages) /\ f \in Seq(Messages) /\ toClient \in Seq(Messages)
        /\ pending \in Seq(Posted)
      BY IncomingType
  <1>2. Has(f, m) <=> \E k \in DOMAIN pending : Has(pending[k].msgs, m)
      BY <1>1, PostsHas
  <1> HIDE DEF f
  <1>3. a \in Seq(Messages) /\ (Has(a, m) <=> Has(rpc, m) \/ Has(f, m))
      BY <1>1, ConcatProperties, ConcatHas
  <1>4. Incoming = a \o toClient
      BY DEF Incoming, a, f
  <1> HIDE DEF a
  <1>5. Has(a \o toClient, m) <=> Has(a, m) \/ Has(toClient, m)
      BY <1>1, <1>3, ConcatHas
  <1> QED
      BY <1>2, <1>3, <1>4, <1>5, Zenon DEF Somewhere

\* The messages of a session that is Fresh are its own.
LEMMA FreshIncoming ==
    ASSUME TypeOK, SessionsInOrder, Fresh
    PROVE  \A j \in DOMAIN Incoming : Incoming[j].sess = transport
  <1> SUFFICES ASSUME NEW j \in DOMAIN Incoming PROVE Incoming[j].sess = transport
      OBVIOUS
  <1>1. Has(Incoming, Incoming[j])
      BY DEF Has
  <1>2. Somewhere(Incoming[j])
      BY <1>1, IncomingHas
  <1> QED
      BY <1>2 DEF Has, Somewhere, SessionsInOrder, FreshOwnsAll, ChunksOfOneSession

----------------------------------------------------------------------------
(* The steps that neither send, answer nor handle a request.               *)

\* The types of what is outstanding.
LEMMA NumbersType ==
    ASSUME TypeOK
    PROVE  /\ seq \in 0..MaxSeq /\ seq \in Int /\ MaxSeq \in Nat
           /\ toServer \in Seq(SentRequests) /\ Incoming \in Seq(Messages)
           /\ \A i \in DOMAIN toServer : toServer[i] \in SentRequests /\ toServer[i].seq \in 1..MaxSeq
           /\ \A j \in DOMAIN Incoming : Incoming[j] \in Messages /\ Incoming[j].seq \in 0..MaxSeq
           /\ inFlight \in [1..MaxSeq -> Requests] /\ filepath \in [1..MaxSeq -> Int]
  <1>1. /\ seq \in 0..MaxSeq /\ MaxSeq \in Nat /\ toServer \in Seq(SentRequests)
        /\ inFlight \in [1..MaxSeq -> Requests] /\ filepath \in [1..MaxSeq -> Int]
      BY BoundsAssumption DEF TypeOK, SessionTypes, ServerTypes
  <1>2. Incoming \in Seq(Messages)
      BY IncomingType
  <1>3. \A i \in DOMAIN toServer : toServer[i] \in SentRequests
      BY <1>1
  <1>4. \A j \in DOMAIN Incoming : Incoming[j] \in Messages
      BY <1>2
  <1>5. \A m \in SentRequests : m.seq \in 1..MaxSeq
      BY DEF SentRequests
  <1>6. \A m \in Messages : m.seq \in 0..MaxSeq
      BY DEF Messages
  <1>7. seq \in Int
      BY <1>1
  <1> QED
      BY <1>1, <1>2, <1>3, <1>4, <1>5, <1>6, <1>7, Zenon

\* What they leave alone; a server that goes away loses what it has not answered.
LEMMA KeepRequests ==
    ASSUME TypeOK, RequestsKept, EmptyPosts', Incoming' = Incoming,
           UNCHANGED <<transport, handshake, handshakeBy, inFlight, filepath>>,
           seq' \in Int, seq <= seq',
           \/ UNCHANGED <<toServer, server>>
           \/ toServer' = <<>> /\ server' = "closed"
    PROVE  RequestsKept'
  <1>2. NumbersTaken'
      BY NumbersType DEF RequestsKept, NumbersTaken, Own
  <1>3. NumbersDiffer'
      BY DEF RequestsKept, NumbersDiffer, Own
  <1>4. AllRecorded'
      BY DEF RequestsKept, AllRecorded, Own, Clean, Recorded
  <1>5. NoneLeft'
      BY DEF RequestsKept, NoneLeft, Own, Clean
  <1> QED
      BY <1>2, <1>3, <1>4, <1>5 DEF RequestsKept

\* Without a transport nothing is promised but that posts are empty.
LEMMA NoTransport ==
    ASSUME EmptyPosts', transport' = Null
    PROVE  RequestsKept'
  BY DEF RequestsKept, NumbersTaken, NumbersDiffer, AllRecorded, NoneLeft, Clean

\* One more post.
LEMMA PostedEmpty ==
    ASSUME TypeOK, EmptyPosts, NEW p, p.kind # "data" => p.msgs = <<>>,
           pending' = Append(pending, p)
    PROVE  EmptyPosts'
  <1>1. pending \in Seq(Posted)
      BY DEF TypeOK, ThreadTypes
  <1> QED
      BY <1>1, AppendElements DEF EmptyPosts

\* One post less.
LEMMA TakenEmpty ==
    ASSUME TypeOK, EmptyPosts, pending # <<>>, pending' = Tail(pending)
    PROVE  /\ EmptyPosts'
           /\ Head(pending).kind # "data" => Head(pending).msgs = <<>>
  <1>1. pending \in Seq(Posted)
      BY DEF TypeOK, ThreadTypes
  <1> QED
      BY <1>1, TailElements DEF EmptyPosts

\* A post without messages is added.
LEMMA IncomingSame ==
    ASSUME TypeOK, EmptyPosts, UNCHANGED <<rpc, toClient>>, NEW kind \in {"error", "reset"},
           pending' = Append(pending, [kind |-> kind, sess |-> transport, msgs |-> <<>>])
    PROVE  Incoming' = Incoming /\ EmptyPosts'
  <1> DEFINE p == [kind |-> kind, sess |-> transport, msgs |-> <<>>]
  <1>1. p \in Posted /\ p.msgs = <<>> /\ pending' = Append(pending, p)
      BY EmptySeq DEF TypeOK, ThreadTypes, Posted
  <1>2. toClient \in Seq(Messages) /\ <<>> \o toClient = toClient
      BY ConcatEmptySeq DEF TypeOK, ServerTypes
  <1> HIDE DEF p
  <1>3. p.msgs \o toClient = toClient
      BY <1>1, <1>2
  <1>4. Incoming' = Incoming
      BY <1>1, <1>2, <1>3, IncomingPosted
  <1> QED
      BY <1>1, <1>4, PostedEmpty

\* The steps that only reset, post or read.
Quiet ==
    \/ Reset \/ SetTransport \/ LostReturns \/ SendResponse
    \/ PostReset \/ OnConnectionError \/ OnPostedReset
    \/ ReaderStep \/ ServerCloses \/ UNCHANGED vars

\* The reader thread takes nothing away.
LEMMA ReaderIncoming ==
    ASSUME TypeOK, EmptyPosts, ReaderStep
    PROVE  Incoming' = Incoming /\ EmptyPosts'
  <1>1. rpc' = rpc
      BY DEF ReaderStep, ReaderCheck, ReaderTimeout, ReaderData, ReaderFails, ReaderPostsError
  <1>2. toClient \in Seq(Messages) /\ Len(toClient) \in Nat /\ transport \in 0..MaxSessions
      BY LenProperties DEF TypeOK, ServerTypes, ThreadTypes
  <1>3. CASE ReaderCheck \/ ReaderTimeout \/ ReaderFails
      <2>1. UNCHANGED <<pending, toClient>>
          BY <1>3 DEF ReaderCheck, ReaderTimeout, ReaderFails
      <2> QED
          BY <1>1, <2>1, IncomingKept DEF EmptyPosts
  <1>4. CASE ReaderData
      <2>1. PICK n \in 1..MaxChunk :
              /\ n <= Len(toClient)
              /\ pending' = Append(pending, [kind |-> "data", sess |-> transport,
                                             msgs |-> SubSeq(toClient, 1, n)])
              /\ toClient' = SubSeq(toClient, n + 1, Len(toClient))
          BY <1>4 DEF ReaderData
      <2> DEFINE c == SubSeq(toClient, 1, n)
                 t == SubSeq(toClient, n + 1, Len(toClient))
                 p == [kind |-> "data", sess |-> transport, msgs |-> c]
      <2>2. n \in Nat /\ n > 0
          BY BoundsAssumption
      <2>3. c \in Seq(Messages) /\ t \in Seq(Messages) /\ c \o t = toClient
          BY <1>2, <2>1, <2>2, CutInTwo
      <2>4. c # <<>>
          <3>1. 1 \in 1..Len(toClient) + 1 /\ n \in 1 - 1..Len(toClient) /\ n - 1 + 1 = n
              BY <1>2, <2>1, <2>2
          <3>2. Len(c) = n
              BY <1>2, <3>1, SubSeqProperties
          <3> HIDE DEF c
          <3> QED
              BY <2>2, <3>2
      <2>5. pending' = Append(pending, p) /\ toClient' = t
          BY <2>1
      <2> HIDE DEF c, t
      <2>6. p \in Posted /\ p.msgs = c /\ p.kind = "data"
          BY <1>2, <2>3, <2>4 DEF Posted
      <2> HIDE DEF p
      <2>7. Incoming' = Incoming
          BY <1>1, <2>3, <2>5, <2>6, IncomingPosted
      <2> QED
          BY <2>5, <2>6, <2>7, PostedEmpty
  <1>5. CASE ReaderPostsError
      <2>1. /\ pending' = Append(pending, [kind |-> "error", sess |-> transport, msgs |-> <<>>])
            /\ toClient' = toClient
          BY <1>5 DEF ReaderPostsError
      <2> QED
          BY <1>1, <2>1, IncomingSame
  <1> QED
      BY <1>3, <1>4, <1>5 DEF ReaderStep

\* Such a step leaves the messages to be handled, the requests and what is known of
\* them; a server that goes away loses what it has not answered.
LEMMA QuietStep ==
    ASSUME TypeOK, EmptyPosts, Quiet
    PROVE  /\ Incoming' = Incoming /\ EmptyPosts'
           /\ UNCHANGED <<transport, handshake, handshakeBy, inFlight, filepath, queue,
                          canInteract, debuggee>>
           /\ seq' \in Int /\ seq <= seq'
           /\ UNCHANGED <<toServer, server>> \/ (toServer' = <<>> /\ server' = "closed")
           /\ event' = event \/ event'.kind = "lost"
  <1>1. CASE Reset \/ SetTransport \/ LostReturns \/ SendResponse \/ UNCHANGED vars
      <2>1. UNCHANGED <<rpc, pending, toClient, transport, handshake, handshakeBy, inFlight,
                        filepath, queue, canInteract, debuggee, toServer, server>>
          BY <1>1 DEF Reset, SetTransport, LostReturns, SendResponse, BeginReset, vars,
             sessionVars, serverVars
      <2>2. seq' \in Int /\ seq <= seq'
          BY <1>1 DEF Reset, SetTransport, LostReturns, SendResponse, vars, sessionVars,
             GetNextSequence, TypeOK, SessionTypes
      <2>3. event' = event \/ event'.kind = "lost"
          BY <1>1 DEF Reset, SetTransport, LostReturns, SendResponse, vars, Told
      <2> QED
          BY <2>1, <2>2, <2>3, IncomingKept DEF EmptyPosts
  <1>2. CASE PostReset \/ OnConnectionError \/ OnPostedReset
      <2>1. UNCHANGED <<rpc, toClient, transport, handshake, handshakeBy, inFlight, filepath,
                        queue, canInteract, debuggee, toServer, server, seq>>
          BY <1>2 DEF PostReset, OnConnectionError, OnPostedReset, BeginReset, sessionVars, serverVars
      <2>2. Incoming' = Incoming /\ EmptyPosts'
          <3>1. CASE PostReset
              <4>1. pending' = Append(pending, [kind |-> "reset", sess |-> transport, msgs |-> <<>>])
                  BY <3>1 DEF PostReset
              <4> QED
                  BY <2>1, <4>1, IncomingSame
          <3>2. CASE OnConnectionError \/ OnPostedReset
              <4>1. pending # <<>> /\ pending' = Tail(pending) /\ Head(pending).kind # "data"
                  BY <3>2 DEF OnConnectionError, OnPostedReset
              <4>2. EmptyPosts' /\ Head(pending).msgs = <<>>
                  BY <4>1, TakenEmpty
              <4> QED
                  BY <2>1, <4>1, <4>2, IncomingSkips
          <3> QED
              BY <1>2, <3>1, <3>2
      <2>3. event' = event \/ event'.kind = "lost"
          BY <1>2 DEF PostReset, OnConnectionError, OnPostedReset, Told
      <2> QED
          BY <2>1, <2>2, <2>3, NumbersType
  <1>3. CASE ReaderStep
      <2>1. UNCHANGED <<transport, handshake, handshakeBy, inFlight, filepath, queue,
                        canInteract, debuggee, toServer, server, seq, event>>
          BY <1>3 DEF ReaderStep, ReaderCheck, ReaderTimeout, ReaderData, ReaderFails,
             ReaderPostsError, sessionVars, serverVars
      <2> QED
          BY <1>3, <2>1, ReaderIncoming, NumbersType
  <1>4. CASE ServerCloses
      <2>1. /\ UNCHANGED <<transport, rpc, pending, toClient, seq, handshake, handshakeBy, inFlight,
                           filepath, queue, canInteract, debuggee, event>>
            /\ toServer' = <<>> /\ server' = "closed"
          BY <1>4 DEF ServerCloses, sessionVars
      <2> QED
          BY <2>1, IncomingKept, NumbersType DEF EmptyPosts
  <1> QED
      BY <1>1, <1>2, <1>3, <1>4 DEF Quiet

\* They keep the invariant.
LEMMA QuietKept ==
    ASSUME TypeOK, RequestsKept, Quiet
    PROVE  RequestsKept'
  BY QuietStep, KeepRequests DEF RequestsKept

----------------------------------------------------------------------------
(* The API: a request takes the next number and is recorded under it.      *)

\* The API sends request cmd in the order the protocol asks for.
Sends(cmd, arg, then) ==
    /\ cmd \in RequestNames /\ arg \in Int /\ seq < MaxSeq
    /\ then \in {"return", "initialize", "locations"}
    /\ then = "initialize" => cmd = "initialize" /\ handshake # "completed"
    /\ then = "locations" <=> cmd = "breakpointLocations"
    /\ cmd \in TrackedCommands \union QueueCommands => handshake = "completed"
    /\ SendRequest(cmd, arg, IF cmd \in QueueCommands THEN Enqueue(cmd, arg) ELSE queue, then)

\* What is sent with a transport is recorded.
LEMMA SendRequestKept ==
    ASSUME TypeOK, RequestsKept, NEW cmd, NEW arg, NEW then, Sends(cmd, arg, then), transport # Null
    PROVE  RequestsKept'
  <1>0. /\ cmd \in RequestNames /\ arg \in Int /\ seq < MaxSeq
        /\ then = "initialize" => cmd = "initialize" /\ handshake # "completed"
        /\ then = "locations" <=> cmd = "breakpointLocations"
        /\ cmd \in TrackedCommands => handshake = "completed"
      BY DEF Sends
  <1> DEFINE s == seq + 1
             r == [cmd |-> cmd, seq |-> s, arg |-> arg]
  <1>1. /\ s \in 1..MaxSeq /\ s > seq /\ s \in Int /\ seq \in Int
        /\ inFlight[s] = NoRequest /\ filepath[s] = Null
      BY <1>0, NumbersType DEF RequestsKept, NumbersTaken
  <1>2. /\ inFlight' = [inFlight EXCEPT ![s] = [cmd |-> cmd, arg |-> arg]]
        /\ toServer' = IF server = "closed" THEN toServer ELSE Append(toServer, r)
        /\ filepath' = IF then = "locations" THEN [filepath EXCEPT ![s] = arg] ELSE filepath
        /\ handshake' = IF then = "initialize" THEN "inProgress" ELSE handshake
        /\ seq' = s
      BY <1>1 DEF Sends, SendRequest, GetNextSequence, FilepathAfter, HandshakeAfter
  <1>3. UNCHANGED <<transport, rpc, handshakeBy, pending, server, toClient>>
      BY DEF Sends, SendRequest, serverVars
  <1>4. Incoming' = Incoming /\ EmptyPosts'
      BY <1>3, IncomingKept DEF RequestsKept, EmptyPosts
  <1>5. Clean' => Clean
      BY <1>0, <1>2, <1>3 DEF Clean
  <1>6. /\ r.cmd = cmd /\ r.seq = s /\ r.arg = arg
        /\ inFlight'[s].cmd = cmd /\ inFlight'[s].arg = arg
        /\ cmd = "breakpointLocations" => filepath'[s] = arg
      BY <1>0, <1>1, <1>2, NumbersType
  <1>7. ASSUME NEW k \in 1..MaxSeq, k # s
        PROVE  inFlight'[k] = inFlight[k] /\ filepath'[k] = filepath[k]
      BY <1>2, <1>7, NumbersType
  <1>8. /\ \A i \in DOMAIN toServer' :
              \/ i \in DOMAIN toServer /\ toServer'[i] = toServer[i]
              \/ i = Len(toServer) + 1 /\ toServer'[i] = r
        /\ \A i \in DOMAIN toServer : i \in DOMAIN toServer' /\ toServer'[i] = toServer[i]
        /\ server # "closed" => \E i \in DOMAIN toServer' : toServer'[i] = r
      <2>1. toServer \in Seq(SentRequests)
          BY NumbersType
      <2> HIDE DEF r
      <2> QED
          BY <1>2, <2>1
  <1> HIDE DEF r, s
  <1>9. /\ \A i \in DOMAIN toServer : toServer[i].seq \in 1..MaxSeq /\ toServer[i].seq # s
        /\ \A j \in DOMAIN Incoming : Own(Incoming[j]) => Incoming[j].seq \in 1..MaxSeq /\ Incoming[j].seq # s
      BY <1>1, NumbersType DEF RequestsKept, NumbersTaken
  <1>10. NumbersTaken'
      <2>1. \A i \in DOMAIN toServer' : toServer'[i].seq <= seq'
          BY <1>1, <1>2, <1>6, <1>8, NumbersType DEF RequestsKept, NumbersTaken
      <2>2. \A j \in DOMAIN Incoming : Own(Incoming[j]) => Incoming[j].seq > 0 /\ Incoming[j].seq <= seq'
          BY <1>1, <1>2, NumbersType DEF RequestsKept, NumbersTaken
      <2>3. \A k \in 1..MaxSeq : k > seq' => inFlight'[k] = NoRequest /\ filepath'[k] = Null
          BY <1>1, <1>2, <1>7, NumbersType DEF RequestsKept, NumbersTaken
      <2> QED
          BY <1>3, <1>4, <2>1, <2>2, <2>3 DEF NumbersTaken, Own
  <1>11. NumbersDiffer'
      <2>1. \A i, k \in DOMAIN toServer' : i # k => toServer'[i].seq # toServer'[k].seq
          BY <1>6, <1>8, <1>9 DEF RequestsKept, NumbersDiffer
      <2>2. \A i \in DOMAIN toServer', j \in DOMAIN Incoming :
               Own(Incoming[j]) => toServer'[i].seq # Incoming[j].seq
          BY <1>6, <1>8, <1>9 DEF RequestsKept, NumbersDiffer
      <2> QED
          BY <1>3, <1>4, <2>1, <2>2 DEF RequestsKept, NumbersDiffer, Own
  <1>12. AllRecorded'
      <2> SUFFICES ASSUME Clean, Clean'
                   PROVE  /\ \A i \in DOMAIN toServer' :
                                /\ Recorded(toServer'[i], inFlight', filepath')
                                /\ inFlight'[toServer'[i].seq].arg = toServer'[i].arg
                          /\ \A j \in DOMAIN Incoming : Own(Incoming[j]) => Recorded(Incoming[j], inFlight', filepath')
          BY <1>3, <1>4, <1>5 DEF AllRecorded, Own
      <2>1. \A i \in DOMAIN toServer :
               Recorded(toServer[i], inFlight', filepath') /\ inFlight'[toServer[i].seq].arg = toServer[i].arg
          BY <1>7, <1>9 DEF RequestsKept, AllRecorded, Recorded
      <2>2. Recorded(r, inFlight', filepath') /\ inFlight'[r.seq].arg = r.arg
          BY <1>6 DEF Recorded
      <2>3. \A j \in DOMAIN Incoming : Own(Incoming[j]) => Recorded(Incoming[j], inFlight', filepath')
          BY <1>7, <1>9 DEF RequestsKept, AllRecorded, Recorded
      <2> QED
          BY <1>8, <2>1, <2>2, <2>3
  <1>13. NoneLeft'
      <2> SUFFICES ASSUME Clean, NEW k \in 1..MaxSeq, inFlight'[k].cmd \in TrackedCommands
                   PROVE  /\ handshake' = "completed"
                          /\ server # "closed" =>
                                \/ \E i \in DOMAIN toServer' : toServer'[i].seq = k
                                \/ \E j \in DOMAIN Incoming : Own(Incoming[j]) /\ Incoming[j].seq = k
          BY <1>3, <1>4, <1>5 DEF NoneLeft, Own
      <2>1. CASE k = s
          BY <1>0, <1>2, <1>6, <1>8, <2>1
          DEF TrackedCommands, QueueEventCommands, PlainCommands
      <2>2. CASE k # s
          <3>1. inFlight[k].cmd \in TrackedCommands
              BY <1>7, <2>2
          <3>2. /\ handshake = "completed"
                /\ server # "closed" =>
                      \/ \E i \in DOMAIN toServer : toServer[i].seq = k
                      \/ \E j \in DOMAIN Incoming : Own(Incoming[j]) /\ Incoming[j].seq = k
              BY <3>1 DEF RequestsKept, NoneLeft
          <3> QED
              BY <1>0, <1>2, <1>8, <3>2
      <2> QED
          BY <2>1, <2>2
  <1> QED
      BY <1>4, <1>10, <1>11, <1>12, <1>13 DEF RequestsKept

\* No call of the API touches the transport or what is posted.
LEMMA RequestUnchanged ==
    ASSUME Request
    PROVE  UNCHANGED <<transport, pending, toClient, rpc>>
  BY DEF Request, SendRequest, QueuedRequest, SimpleRequest, Initialize, Launch, BreakpointLocations,
         SendResponse, ConfigurationDone, GetThreads, Attach, GetFrames, Pause, StepIn, StepOut,
         NextStep, Continue, GetScopes, GetChildrenVariables, SetBreakpointsFile,
         EvaluateExpression, LoadSource, SetFunctionBreakpoints

\* A request that is not initialize or breakpointLocations.
LEMMA CallSends ==
    ASSUME TypeOK, transport # Null, NEW cmd, cmd # "breakpointLocations", NEW arg \in Int,
           MayRequest(cmd),
           SendRequest(cmd, arg, IF cmd \in QueueCommands THEN Enqueue(cmd, arg) ELSE queue, "return")
    PROVE  Sends(cmd, arg, "return")
  <1>1. cmd \in RequestNames /\ seq < MaxSeq
      BY CommandsAssumption DEF MayRequest, RequestNames
  <1>2. cmd \in TrackedCommands \union QueueCommands => handshake = "completed"
      BY DEF MayRequest, Callable, Allowed, TrackedCommands, QueueCommands, QueueEventCommands,
             CallbackCommands, PlainCommands
  <1> QED
      BY <1>1, <1>2 DEF Sends

\* Every call of the API sends one.
LEMMA RequestSends ==
    ASSUME TypeOK, transport # Null, Request, ~SendResponse
    PROVE  \E cmd, arg, then : Sends(cmd, arg, then)
  <1> USE DEF QueueCommands, QueueEventCommands, CallbackCommands
  <1>0. activeThread \in Int /\ Null \in Int /\ \A a \in Args : a \in Int
      BY ArgsAssumption DEF TypeOK, SessionTypes, Null
  <1>1. ASSUME NEW cmd \in QueueCommands, NEW arg \in Int, QueuedRequest(cmd, arg)
        PROVE  Sends(cmd, arg, "return")
      BY <1>1, CallSends DEF QueuedRequest
  <1>2. ASSUME NEW cmd, cmd \notin QueueCommands \union {"breakpointLocations"}, NEW arg \in Int,
               SimpleRequest(cmd, arg)
        PROVE  Sends(cmd, arg, "return")
      BY <1>2, CallSends DEF SimpleRequest
  <1>3. CASE Initialize
      <2>1. Sends("initialize", Null, "initialize")
          BY <1>0, <1>3 DEF Initialize, Sends, RequestNames, TrackedCommands, PlainCommands
      <2> QED
          BY <2>1
  <1>4. ASSUME NEW arg \in Args, BreakpointLocations(arg)
        PROVE  Sends("breakpointLocations", arg, "locations")
      BY <1>0, <1>4 DEF BreakpointLocations, MayRequest, Callable, Allowed, Sends, RequestNames,
             AllCommands
  <1>5. ASSUME NEW arg \in Args, Launch(arg)
        PROVE  Sends("launch", arg, "return")
      BY <1>0, <1>5, CallSends DEF Launch
  <1>6. CASE ConfigurationDone \/ GetThreads \/ Attach
      BY <1>0, <1>2, <1>6 DEF ConfigurationDone, GetThreads, Attach
  <1>7. ASSUME NEW thread \in Args \union {NotFound},
               \/ GetFrames(thread) \/ Pause(thread) \/ StepIn(thread) \/ StepOut(thread)
               \/ NextStep(thread) \/ Continue(thread)
        PROVE  \E cmd, arg, then : Sends(cmd, arg, then)
      <2>1. Resolve(thread) \in Int
          BY <1>0 DEF Resolve, NotFound
      <2> QED
          BY <1>1, <1>2, <1>7, <2>1 DEF GetFrames, Pause, StepIn, StepOut, NextStep, Continue
  <1>8. ASSUME NEW arg \in Args,
               \/ GetScopes(arg) \/ GetChildrenVariables(arg) \/ SetBreakpointsFile(arg)
               \/ EvaluateExpression(arg) \/ LoadSource(arg) \/ SetFunctionBreakpoints(arg)
        PROVE  \E cmd, a, then : Sends(cmd, a, then)
      BY <1>0, <1>1, <1>2, <1>8 DEF GetScopes, GetChildrenVariables, SetBreakpointsFile,
                        EvaluateExpression, LoadSource, SetFunctionBreakpoints
  <1> QED
      BY <1>3, <1>4, <1>5, <1>6, <1>7, <1>8 DEF Request

\* Without a transport nothing is sent and nothing promised.
LEMMA RequestKept ==
    ASSUME TypeOK, RequestsKept, Request
    PROVE  RequestsKept'
  <1>1. UNCHANGED <<transport, pending>>
      BY RequestUnchanged
  <1>2. CASE transport = Null
      <2>1. EmptyPosts'
          BY <1>1 DEF RequestsKept, EmptyPosts
      <2> QED
          BY <1>1, <1>2, <2>1, NoTransport
  <1>3. CASE SendResponse
      BY <1>3, QuietKept DEF Quiet
  <1>4. CASE transport # Null /\ ~SendResponse
      BY <1>4, RequestSends, SendRequestKept
  <1> QED
      BY <1>2, <1>3, <1>4

----------------------------------------------------------------------------
(* Sessions.                                                               *)

\* What is still to be handled when a session starts is of earlier ones.
LEMMA JoinIncoming ==
    ASSUME TypeOK, SessionsInOrder, JoinReturns, Top.then = "connect"
    PROVE  \A j \in DOMAIN Incoming' : Incoming'[j].sess # transport'
  <1>1. transport' = sessions /\ pending' = pending /\ rpc' = <<>> /\ toClient' = <<>>
      BY DEF JoinReturns, ClearSession
  <1>2. \A k \in DOMAIN pending : pending[k].sess < sessions
      <2>1. calls \in Seq(Calls) /\ calls # <<>>
          BY DEF TypeOK, ThreadTypes, JoinReturns
      <2> QED
          BY <2>1 DEF SessionsInOrder, ConnectIsLast, Top
  <1>3. \A k \in DOMAIN pending : pending[k].sess \in Int
      BY DEF TypeOK, ThreadTypes, Posted
  <1> DEFINE f == FlattenSeq(Posts(pending))
  <1>4. Incoming' = f
      <2>1. f \in Seq(Messages)
          BY IncomingType
      <2>2. Incoming' = <<>> \o f \o <<>>
          BY <1>1 DEF Incoming, Posts
      <2> HIDE DEF f
      <2>3. <<>> \o f = f /\ f \o <<>> = f
          BY <2>1, ConcatEmptySeq
      <2> QED
          BY <2>2, <2>3, Zenon
  <1> SUFFICES ASSUME NEW j \in DOMAIN Incoming' PROVE Incoming'[j].sess # transport'
      OBVIOUS
  <1>5. pending \in Seq(Posted) /\ sessions \in Int
      BY DEF TypeOK, ThreadTypes
  <1>6. Has(f, f[j])
      BY <1>4 DEF Has
  <1>7. PICK k \in DOMAIN pending : Has(pending[k].msgs, f[j])
      BY <1>5, <1>6, PostsHas
  <1>8. f[j].sess = pending[k].sess
      BY <1>7 DEF Has, SessionsInOrder, ChunksOfOneSession
  <1> QED
      BY <1>1, <1>2, <1>3, <1>4, <1>5, <1>8

\* A new session starts with no number taken, and with what is left of earlier ones.
LEMMA JoinReturnsKept ==
    ASSUME TypeOK, SessionsInOrder, RequestsKept, JoinReturns
    PROVE  RequestsKept'
  <1>1. EmptyPosts'
      BY DEF JoinReturns, RequestsKept, EmptyPosts
  <1>2. CASE Top.then # "connect"
      <2>1. transport' = Null
          BY <1>2 DEF JoinReturns
      <2> QED
          BY <1>1, <2>1, NoTransport
  <1>3. CASE Top.then = "connect"
      <2>1. /\ toServer' = <<>> /\ seq' = 0 /\ handshake' # "completed"
            /\ inFlight' = [s \in 1..MaxSeq |-> NoRequest] /\ filepath' = [s \in 1..MaxSeq |-> Null]
          BY <1>3 DEF JoinReturns, ClearSession, HandshakeAfter, FilepathAfter, ClearedInFlight
      <2>2. \A j \in DOMAIN Incoming' : Incoming'[j].sess # transport'
          BY <1>3, JoinIncoming
      <2>3. \A s \in 1..MaxSeq : inFlight'[s] = NoRequest /\ filepath'[s] = Null
          BY <2>1
      <2> QED
          BY <1>1, <2>1, <2>2, <2>3 DEF RequestsKept, NumbersTaken, NumbersDiffer, AllRecorded,
             NoneLeft, Own, NoRequest, TrackedCommands, QueueEventCommands, PlainCommands
  <1> QED
      BY <1>2, <1>3

----------------------------------------------------------------------------
(* The server.                                                             *)

\* The place element k had before element i was removed.
Before(k, i) == IF k < i THEN k ELSE k + 1

\* r is s without its element i.
Without(r, s, i) ==
    /\ \A k \in DOMAIN r :
          Before(k, i) \in DOMAIN s /\ Before(k, i) # i /\ r[k] = s[Before(k, i)]
    /\ \A k, n \in DOMAIN r : k # n => Before(k, i) # Before(n, i)
    /\ \A k \in DOMAIN s : k # i => \E n \in DOMAIN r : r[n] = s[k]

\* An element is removed.
LEMMA Removed ==
    ASSUME NEW S, NEW s \in Seq(S), NEW i \in 1..Len(s), NEW r,
           r = SubSeq(s, 1, i - 1) \o SubSeq(s, i + 1, Len(s))
    PROVE  Without(r, s, i)
  <1> DEFINE a == SubSeq(s, 1, i - 1)
             b == SubSeq(s, i + 1, Len(s))
             l == Len(s)
  <1>1. l \in Nat /\ DOMAIN s = 1..l /\ i \in Int
      BY LenProperties
  <1>2. \A k \in 1..l : s[k] \in S
      BY <1>1, ElementOfSeq
  <1>3. a \in Seq(S) /\ Len(a) = i - 1 /\ \A k \in 1..i - 1 : a[k] = s[k]
      <2>1. i - 1 \in Int /\ \A k \in 1..i - 1 : s[k] \in S
          BY <1>1, <1>2
      <2> QED
          BY <1>1, <2>1, SubSeqProperties
  <1>4. b \in Seq(S) /\ Len(b) = l - i /\ \A k \in 1..l - i : b[k] = s[k + i]
      <2> DEFINE n == i + 1
                 d == SubSeq(s, n, l)
      <2>1. n \in 1..Len(s) + 1 /\ l \in n - 1..Len(s)
          BY <1>1
      <2>2. l - n + 1 = l - i /\ \A k \in 1..l - i : n + k - 1 = k + i
          BY <1>1
      <2> HIDE DEF n, l
      <2>3. d \in Seq(S) /\ Len(d) = l - n + 1 /\ \A k \in 1..l - n + 1 : d[k] = s[n + k - 1]
          BY <2>1, SubSeqProperties
      <2> HIDE DEF d
      <2>4. d \in Seq(S) /\ Len(d) = l - i
          BY <2>2, <2>3
      <2>5. \A k \in 1..l - i : d[k] = s[k + i]
          BY <2>2, <2>3, Zenon
      <2> QED
          BY <2>4, <2>5, Zenon DEF d, l, n
  <1>5. r = a \o b
      OBVIOUS
  <1> HIDE DEF a, b, l
  <1>6. /\ Len(r) = l - 1 /\ DOMAIN r = 1..l - 1
        /\ \A k \in 1..l - 1 : r[k] = IF k < i THEN s[k] ELSE s[k + 1]
      <2> DEFINE c == a \o b
      <2>a. /\ c \in Seq(S) /\ Len(c) = Len(a) + Len(b)
            /\ \A k \in 1..Len(a) + Len(b) : c[k] = IF k <= Len(a) THEN a[k] ELSE b[k - Len(a)]
          BY <1>3, <1>4, ConcatProperties
      <2>b. r = c
          BY <1>5
      <2> HIDE DEF c
      <2>0. /\ r \in Seq(S) /\ Len(r) = Len(a) + Len(b)
            /\ \A k \in 1..Len(a) + Len(b) : r[k] = IF k <= Len(a) THEN a[k] ELSE b[k - Len(a)]
          BY <2>a, <2>b, Zenon
      <2>2. Len(a) + Len(b) = l - 1
          BY <1>1, <1>3, <1>4
      <2>1. /\ r \in Seq(S) /\ Len(r) = l - 1
            /\ \A k \in 1..l - 1 : r[k] = IF k <= i - 1 THEN a[k] ELSE b[k - (i - 1)]
          BY <1>3, <2>0, <2>2
      <2>3. DOMAIN r = 1..Len(r)
          BY <2>1, LenProperties
      <2>4. ASSUME NEW k \in 1..l - 1 PROVE r[k] = IF k < i THEN s[k] ELSE s[k + 1]
          <3>1. CASE k < i
              <4>1. k \in 1..i - 1 /\ k <= i - 1
                  BY <1>1, <3>1
              <4> QED
                  BY <1>3, <2>1, <2>2, <3>1, <4>1
          <3>2. CASE ~(k < i)
              <4>1. k - (i - 1) \in 1..l - i /\ ~(k <= i - 1) /\ k - (i - 1) + i = k + 1
                  BY <1>1, <3>2 DEF l
              <4> QED
                  BY <1>4, <2>1, <2>2, <3>2, <4>1
          <3> QED
              BY <3>1, <3>2
      <2> QED
          BY <2>1, <2>2, <2>3, <2>4
  <1>7. i \in 1..l
      BY DEF l
  <1>8. ASSUME NEW k \in DOMAIN r
        PROVE  Before(k, i) \in DOMAIN s /\ Before(k, i) # i /\ r[k] = s[Before(k, i)]
      <2>1. CASE k < i
          <3>1. Before(k, i) = k /\ k \in 1..l /\ k # i /\ r[k] = s[k]
              BY <1>1, <1>6, <1>7, <2>1 DEF Before
          <3> QED
              BY <1>1, <3>1
      <2>2. CASE ~(k < i)
          <3>0. k \in 1..l - 1
              BY <1>6
          <3>1. Before(k, i) = k + 1 /\ k + 1 \in 1..l /\ k + 1 # i
              BY <1>1, <1>7, <2>2, <3>0 DEF Before
          <3>2. r[k] = s[k + 1]
              BY <1>6, <2>2, <3>0
          <3> QED
              BY <1>1, <3>1, <3>2
      <2> QED
          BY <2>1, <2>2
  <1>9. ASSUME NEW k \in DOMAIN r, NEW n \in DOMAIN r, k # n
        PROVE  Before(k, i) # Before(n, i)
      BY <1>1, <1>6, <1>7, <1>9 DEF Before
  <1>10. ASSUME NEW k \in DOMAIN s, k # i PROVE \E n \in DOMAIN r : r[n] = s[k]
      <2>1. CASE k < i
          <3>1. k \in 1..l - 1
              BY <1>1, <1>7, <2>1
          <3> QED
              BY <1>6, <2>1, <3>1
      <2>2. CASE ~(k < i)
          <3>1. k - 1 \in 1..l - 1 /\ ~(k - 1 < i) /\ k - 1 + 1 = k
              BY <1>1, <1>7, <1>10, <2>2
          <3> QED
              BY <1>6, <3>1
      <2> QED
          BY <2>1, <2>2
  <1> QED
      BY <1>8, <1>9, <1>10 DEF Without

\* m is an answer to request r.
Answers(m, r) ==
    /\ m.type = "response" /\ m.cmd = r.cmd /\ m.seq = r.seq /\ m.sess = transport
    /\ r.cmd # "initialize" => m.arg = r.arg

\* Sequence t is s and m after it.
Longer(t, s, m) ==
    /\ \A j \in DOMAIN t :
          \/ j \in DOMAIN s /\ j # Len(s) + 1 /\ t[j] = s[j]
          \/ j = Len(s) + 1 /\ t[j] = m
    /\ \A j \in DOMAIN s : j \in DOMAIN t /\ t[j] = s[j]
    /\ Len(s) + 1 \in DOMAIN t /\ t[Len(s) + 1] = m

LEMMA AppendLonger ==
    ASSUME NEW S, NEW s \in Seq(S), NEW m
    PROVE  Longer(Append(s, m), s, m)
  BY DEF Longer

\* An answer is added to what is to be handled and the request is gone.
LEMMA AnswerGains ==
    ASSUME TypeOK, NEW i \in 1..Len(toServer), NEW ok \in BOOLEAN, ServerAnswers(i, ok)
    PROVE  /\ toServer[i] \in SentRequests
           /\ Without(toServer', toServer, i)
           /\ \E m \in Messages : /\ Answers(m, toServer[i]) /\ m.ok = ok
                                  /\ Incoming' = Append(Incoming, m)
                                  /\ Longer(Incoming', Incoming, m)
  <1> DEFINE r == toServer[i]
  <1>1. PICK arg \in IF r.cmd = "initialize" THEN {Null, Supported} ELSE {r.arg} :
           toClient' = Append(toClient, Message("response", r.cmd, r.seq, arg, ok))
      BY DEF ServerAnswers
  <1> DEFINE m == Message("response", r.cmd, r.seq, arg, ok)
  <1>2. toServer \in Seq(SentRequests) /\ r \in SentRequests
      BY NumbersType, LenProperties, ElementOfSeq
  <1>3. r.cmd \in RequestNames /\ r.seq \in 1..MaxSeq /\ r.arg \in Int
      BY <1>2 DEF SentRequests
  <1>4. arg \in Int /\ transport \in 0..MaxSessions /\ (r.cmd # "initialize" => arg = r.arg)
      BY <1>3 DEF Null, Supported, TypeOK, ThreadTypes
  <1>5. m \in Messages
      BY <1>3, <1>4, NumbersType DEF Message, Messages, Names
  <1>6. Answers(m, r) /\ m.ok = ok
      BY <1>4 DEF Message, Answers
  <1>7. UNCHANGED <<rpc, pending>> /\ toClient' = Append(toClient, m)
      BY <1>1 DEF ServerAnswers
  <1>8. toServer' = SubSeq(toServer, 1, i - 1) \o SubSeq(toServer, i + 1, Len(toServer))
      BY DEF ServerAnswers
  <1>9. Without(toServer', toServer, i)
      BY <1>2, <1>8, Removed
  <1> HIDE DEF m, r
  <1>10. Incoming' = Append(Incoming, m)
      BY <1>5, <1>7, IncomingGains
  <1>11. Longer(Incoming', Incoming, m)
      BY <1>10, NumbersType, AppendLonger
  <1> QED
      BY <1>2, <1>5, <1>6, <1>9, <1>10, <1>11 DEF r

\* An event or a reverse request is added.
LEMMA EventGains ==
    ASSUME TypeOK, NEW e \in ServerEvents, NEW thread \in Args, ServerSends(e, thread)
    PROVE  \E m \in Messages : /\ m.type # "response" /\ m.cmd = e /\ m.sess = transport
                               /\ m.type = IF e = "runInTerminal" THEN "request" ELSE "event"
                               /\ Incoming' = Append(Incoming, m)
                               /\ Longer(Incoming', Incoming, m)
  <1> DEFINE m == Message(IF e = "runInTerminal" THEN "request" ELSE "event", e, 0, thread, TRUE)
  <1>1. UNCHANGED <<rpc, pending>> /\ toClient' = Append(toClient, m)
      BY DEF ServerSends
  <1>2. /\ thread \in Int /\ 0 \in 0..MaxSeq /\ transport \in 0..MaxSessions
        /\ e \in Names /\ e \notin RequestNames
      BY ArgsAssumption, EventNames, BoundsAssumption DEF TypeOK, ThreadTypes
  <1>3. /\ m \in Messages /\ m.type # "response" /\ m.cmd = e /\ m.sess = transport
        /\ m.type = IF e = "runInTerminal" THEN "request" ELSE "event"
      BY <1>2 DEF Message, Messages
  <1> HIDE DEF m
  <1>4. Incoming' = Append(Incoming, m)
      BY <1>1, <1>3, IncomingGains
  <1>5. Longer(Incoming', Incoming, m)
      BY <1>4, NumbersType, AppendLonger
  <1> QED
      BY <1>3, <1>4, <1>5

\* The answer takes the place of the request.
LEMMA ServerAnswersKept ==
    ASSUME TypeOK, RequestsKept, NEW i \in 1..Len(toServer), NEW ok \in BOOLEAN, ServerAnswers(i, ok)
    PROVE  RequestsKept'
  <1> DEFINE r == toServer[i]
  <1>1. /\ UNCHANGED <<transport, seq, handshake, handshakeBy, inFlight, filepath, pending>>
        /\ server # "closed"
      BY DEF ServerAnswers, sessionVars
  <1>2. EmptyPosts'
      BY <1>1 DEF RequestsKept, EmptyPosts
  <1>3. CASE transport = Null
      BY <1>1, <1>2, <1>3, NoTransport
  <1>4. CASE transport # Null
      <2>1. PICK m \in Messages : Answers(m, r) /\ Longer(Incoming', Incoming, m)
          BY AnswerGains
      <2>2. i \in DOMAIN toServer
          BY NumbersType, LenProperties
      <2>3. r.seq \in 1..MaxSeq
          BY AnswerGains DEF SentRequests
      <2> HIDE DEF r
      <2>4. /\ m.type = "response" /\ m.cmd = r.cmd /\ m.seq = r.seq /\ m.sess = transport
            /\ r.cmd # "initialize" => m.arg = r.arg
          BY <2>1 DEF Answers
      <2>5. /\ \A j \in DOMAIN Incoming' :
                  \/ j \in DOMAIN Incoming /\ j # Len(Incoming) + 1 /\ Incoming'[j] = Incoming[j]
                  \/ j = Len(Incoming) + 1 /\ Incoming'[j] = m
            /\ \A j \in DOMAIN Incoming : j \in DOMAIN Incoming' /\ Incoming'[j] = Incoming[j]
            /\ Len(Incoming) + 1 \in DOMAIN Incoming' /\ Incoming'[Len(Incoming) + 1] = m
          BY <2>1 DEF Longer
      <2>6. /\ \A k \in DOMAIN toServer' :
                  Before(k, i) \in DOMAIN toServer /\ Before(k, i) # i /\ toServer'[k] = toServer[Before(k, i)]
            /\ \A k, n \in DOMAIN toServer' : k # n => Before(k, i) # Before(n, i)
            /\ \A k \in DOMAIN toServer : k # i => \E n \in DOMAIN toServer' : toServer'[n] = toServer[k]
          BY AnswerGains DEF Without
      <2>7. NumbersTaken'
          <3>1. \A k \in DOMAIN toServer' : toServer'[k].seq <= seq
              BY <1>4, <2>6 DEF RequestsKept, NumbersTaken
          <3>2. m.seq > 0 /\ m.seq <= seq
              BY <1>4, <2>2, <2>3, <2>4 DEF RequestsKept, NumbersTaken, r
          <3>3. \A j \in DOMAIN Incoming' : Own(Incoming'[j]) => Incoming'[j].seq > 0 /\ Incoming'[j].seq <= seq
              BY <1>4, <2>5, <3>2 DEF RequestsKept, NumbersTaken
          <3> QED
              BY <1>1, <1>4, <3>1, <3>3 DEF RequestsKept, NumbersTaken, Own
      <2>8. NumbersDiffer'
          <3>1. \A k, n \in DOMAIN toServer' : k # n => toServer'[k].seq # toServer'[n].seq
              BY <1>4, <2>6 DEF RequestsKept, NumbersDiffer
          <3>2. \A j, k \in DOMAIN Incoming' :
                   (j # k /\ Own(Incoming'[j]) /\ Own(Incoming'[k])) => Incoming'[j].seq # Incoming'[k].seq
              BY <1>4, <2>2, <2>4, <2>5 DEF RequestsKept, NumbersDiffer, r
          <3>3. \A k \in DOMAIN toServer' : toServer'[k].seq # m.seq
              BY <1>4, <2>2, <2>4, <2>6 DEF RequestsKept, NumbersDiffer, r
          <3>4. \A k \in DOMAIN toServer', j \in DOMAIN Incoming' :
                   Own(Incoming'[j]) => toServer'[k].seq # Incoming'[j].seq
              BY <1>4, <2>5, <2>6, <3>3 DEF RequestsKept, NumbersDiffer
          <3> QED
              BY <1>1, <1>4, <3>1, <3>2, <3>4 DEF NumbersDiffer, Own
      <2>9. AllRecorded'
          <3> SUFFICES ASSUME Clean
                       PROVE  /\ \A k \in DOMAIN toServer' :
                                    /\ Recorded(toServer'[k], inFlight, filepath)
                                    /\ inFlight[toServer'[k].seq].arg = toServer'[k].arg
                              /\ \A j \in DOMAIN Incoming' :
                                    Own(Incoming'[j]) => Recorded(Incoming'[j], inFlight, filepath)
              BY <1>1 DEF AllRecorded, Own, Clean
          <3>1. \A k \in DOMAIN toServer : /\ Recorded(toServer[k], inFlight, filepath)
                                           /\ inFlight[toServer[k].seq].arg = toServer[k].arg
              BY DEF RequestsKept, AllRecorded
          <3>2. Recorded(m, inFlight, filepath)
              <4>1. Recorded(r, inFlight, filepath)
                  BY <2>2, <3>1 DEF r
              <4> QED
                  BY <2>4, <4>1 DEF Recorded
          <3> QED
              BY <2>5, <2>6, <3>1, <3>2 DEF RequestsKept, AllRecorded
      <2>10. NoneLeft'
          <3> SUFFICES ASSUME Clean, NEW k \in 1..MaxSeq, inFlight[k].cmd \in TrackedCommands
                       PROVE  /\ handshake = "completed"
                              /\ \/ \E n \in DOMAIN toServer' : toServer'[n].seq = k
                                 \/ \E j \in DOMAIN Incoming' : Own(Incoming'[j]) /\ Incoming'[j].seq = k
              BY <1>1 DEF NoneLeft, Own, Clean
          <3>1. /\ handshake = "completed"
                /\ \/ \E n \in DOMAIN toServer : toServer[n].seq = k
                   \/ \E j \in DOMAIN Incoming : Own(Incoming[j]) /\ Incoming[j].seq = k
              BY <1>1 DEF RequestsKept, NoneLeft
          <3>2. CASE \E n \in DOMAIN toServer : toServer[n].seq = k
              <4>1. PICK n \in DOMAIN toServer : toServer[n].seq = k
                  BY <3>2
              <4>2. CASE n = i
                  <5>1. Own(m) /\ m.seq = k
                      BY <2>4, <4>1, <4>2 DEF Own, r
                  <5>2. \E j \in DOMAIN Incoming' : Own(Incoming'[j]) /\ Incoming'[j].seq = k
                      <6>1. Own(Incoming'[Len(Incoming) + 1]) /\ Incoming'[Len(Incoming) + 1].seq = k
                          BY <2>5, <5>1, Zenon
                      <6> QED
                          BY <2>5, <6>1, Zenon
                  <5> QED
                      BY <3>1, <5>2, Zenon
              <4>3. CASE n # i
                  <5>1. PICK q \in DOMAIN toServer' : toServer'[q] = toServer[n]
                      BY <2>6, <4>1, <4>3
                  <5>2. toServer'[q].seq = k
                      BY <4>1, <5>1, Zenon
                  <5> QED
                      BY <3>1, <5>2, Zenon
              <4> QED
                  BY <4>2, <4>3
          <3>3. CASE \E j \in DOMAIN Incoming : Own(Incoming[j]) /\ Incoming[j].seq = k
              BY <2>5, <3>1, <3>3
          <3> QED
              BY <3>1, <3>2, <3>3
      <2> QED
          BY <1>2, <2>7, <2>8, <2>9, <2>10 DEF RequestsKept
  <1> QED
      BY <1>3, <1>4

\* A message that is not an answer changes nothing about requests.
LEMMA ServerSendsKept ==
    ASSUME TypeOK, RequestsKept, NEW e \in ServerEvents, NEW thread \in Args, ServerSends(e, thread)
    PROVE  RequestsKept'
  <1>1. UNCHANGED <<transport, seq, handshake, handshakeBy, inFlight, filepath, pending,
                    toServer, server>>
      BY DEF ServerSends, sessionVars
  <1>2. EmptyPosts'
      BY <1>1 DEF RequestsKept, EmptyPosts
  <1>3. PICK m \in Messages : m.type # "response" /\ Longer(Incoming', Incoming, m)
      BY EventGains
  <1>4. /\ \A j \in DOMAIN Incoming' :
              (j \in DOMAIN Incoming /\ Incoming'[j] = Incoming[j]) \/ Incoming'[j] = m
        /\ \A j \in DOMAIN Incoming : j \in DOMAIN Incoming' /\ Incoming'[j] = Incoming[j]
      BY <1>3 DEF Longer
  <1>5. NumbersTaken'
      BY <1>1, <1>3, <1>4 DEF RequestsKept, NumbersTaken, Own
  <1>6. NumbersDiffer'
      BY <1>1, <1>3, <1>4 DEF RequestsKept, NumbersDiffer, Own
  <1>7. AllRecorded'
      BY <1>1, <1>3, <1>4 DEF RequestsKept, AllRecorded, Own, Clean
  <1>8. NoneLeft'
      BY <1>1, <1>3, <1>4 DEF RequestsKept, NoneLeft, Own, Clean
  <1> QED
      BY <1>2, <1>5, <1>6, <1>7, <1>8 DEF RequestsKept

\* The server.
LEMMA ServerKept ==
    ASSUME TypeOK, RequestsKept, ServerStep
    PROVE  RequestsKept'
  <1>1. CASE ServerCloses
      BY <1>1, QuietKept DEF Quiet
  <1> QED
      BY <1>1, ServerAnswersKept, ServerSendsKept DEF ServerStep

----------------------------------------------------------------------------
(* OnMessage.                                                              *)

\* An answer the application is told of.
TrackedAnswer(m) == m.type = "response" /\ m.cmd \in TrackedCommands

\* What a message does to the requests recorded.
LEMMA OnMessageRequests ==
    ASSUME NEW m, OnMessage(m)
    PROVE  /\ UNCHANGED <<transport, seq, toServer, server>>
           /\ \/ handshake # "completed" /\ UNCHANGED <<inFlight, filepath>>
              \/ /\ handshake = "completed" /\ ~TrackedAnswer(m)
                 /\ UNCHANGED <<handshake, handshakeBy, inFlight, filepath>>
              \/ /\ handshake = "completed" /\ TrackedAnswer(m)
                 /\ UNCHANGED <<handshake, handshakeBy>>
                 /\ inFlight' = Forget(m)
                 /\ filepath' = filepath \/ filepath' = [filepath EXCEPT ![m.seq] = Null]
  <1> USE DEF TrackedAnswer, TrackedCommands, QueueEventCommands, PlainCommands
  <1>1. UNCHANGED <<transport, seq, toServer, server>>
      BY DEF OnMessage, serverVars
  <1>2. CASE OnHandshakeMessage(m)
      BY <1>1, <1>2 DEF OnHandshakeMessage
  <1>3. CASE OnEvent(m) \/ OnReverseRequest(m)
      BY <1>1, <1>3 DEF OnEvent, OnReverseRequest
  <1>4. CASE OnCallbackResponse(m) \/ OnStepResponse(m) \/ OnIgnoredResponse(m)
      BY <1>1, <1>4 DEF OnCallbackResponse, OnStepResponse, OnIgnoredResponse,
         CallbackCommands, StepCommands, IgnoredCommands
  <1>5. CASE OnQueuedResponse(m) \/ OnPlainResponse(m) \/ OnLocationsResponse(m)
      BY <1>1, <1>5 DEF OnQueuedResponse, OnPlainResponse, OnLocationsResponse
  <1> QED
      BY <1>2, <1>3, <1>4, <1>5 DEF OnMessage

\* The tail of a sequence is the sequence without its first element.
LEMMA HeadRemoved ==
    ASSUME NEW S, NEW s \in Seq(S), s # <<>>
    PROVE  Without(Tail(s), s, 1) /\ Head(s) = s[1] /\ 1 \in DOMAIN s
  <1> DEFINE t == Tail(s)
             l == Len(s)
  <1>1. /\ l \in Nat /\ l > 0 /\ DOMAIN s = 1..l
        /\ DOMAIN t = 1..l - 1 /\ \A k \in 1..l - 1 : t[k] = s[k + 1]
        /\ Head(s) = s[1]
      OBVIOUS
  <1> HIDE DEF t, l
  <1>2. \A k \in 1..l - 1 : Before(k, 1) = k + 1
      BY <1>1 DEF Before
  <1>3. \A k \in 1..l : k # 1 => k - 1 \in 1..l - 1 /\ t[k - 1] = s[k]
      BY <1>1
  <1>4. \A k \in 1..l - 1 : k + 1 \in 1..l /\ k + 1 # 1
      BY <1>1
  <1>5. \A k, n \in 1..l - 1 : k # n => k + 1 # n + 1
      BY <1>1
  <1>6. \A k \in 1..l : k # 1 => \E n \in 1..l - 1 : t[n] = s[k]
      BY <1>3
  <1>7. \A k \in DOMAIN t : Before(k, 1) \in DOMAIN s /\ Before(k, 1) # 1 /\ t[k] = s[Before(k, 1)]
      BY <1>1, <1>2, <1>4, Zenon
  <1>8. \A k, n \in DOMAIN t : k # n => Before(k, 1) # Before(n, 1)
      BY <1>1, <1>2, <1>5, Zenon
  <1>9. Without(t, s, 1)
      BY <1>1, <1>6, <1>7, <1>8, Zenon DEF Without
  <1>10. 1 \in 1..l
      BY <1>1
  <1> QED
      BY <1>1, <1>9, <1>10 DEF t

\* Message m is the first of those to be handled, and gone after the step.
HandlesFirst(m) ==
    1 \in DOMAIN Incoming /\ m = Incoming[1] /\ Without(Incoming', Incoming, 1)

\* The event loop hands the first message to OnMessage.
LEMMA MessageIsFirst ==
    ASSUME TypeOK, EmptyPosts, OnDataRead \/ ProcessBuffer
    PROVE  /\ EmptyPosts' /\ Incoming # <<>> /\ Incoming' = Tail(Incoming)
           /\ Has(Incoming, Head(Incoming)) /\ Head(Incoming) \in Messages
           /\ HandlesFirst(Head(Incoming)) /\ OnMessage(Head(Incoming))
  <1>1. Incoming \in Seq(Messages)
      BY NumbersType
  <1>2. EmptyPosts' /\ Incoming # <<>> /\ Incoming' = Tail(Incoming) /\ OnMessage(Head(Incoming))
      <2>1. CASE OnDataRead
          <3>1. pending # <<>> /\ pending' = Tail(pending) /\ OnMessage(Head(Head(pending).msgs))
              BY <2>1 DEF OnDataRead
          <3>2. EmptyPosts'
              BY <3>1, TakenEmpty
          <3> QED
              BY <2>1, <3>1, <3>2, IncomingRead
      <2>2. CASE ProcessBuffer
          <3>1. pending' = pending /\ OnMessage(Head(rpc))
              BY <2>2 DEF ProcessBuffer
          <3>2. EmptyPosts'
              BY <3>1 DEF EmptyPosts
          <3> QED
              BY <2>2, <3>1, <3>2, IncomingProcessed
      <2> QED
          BY <2>1, <2>2
  <1>3. /\ Without(Incoming', Incoming, 1) /\ Head(Incoming) = Incoming[1]
        /\ 1 \in DOMAIN Incoming
      BY <1>1, <1>2, HeadRemoved
  <1>4. Incoming[1] \in Messages
      BY <1>3, NumbersType
  <1> QED
      BY <1>2, <1>3, <1>4 DEF Has, HandlesFirst

\* A message is handled: an answer the application is told of is forgotten, and it
\* alone.
LEMMA HandledKept ==
    ASSUME TypeOK, SessionsInOrder, RequestsKept, EmptyPosts',
           NEW m, HandlesFirst(m), OnMessage(m)
    PROVE  RequestsKept'
  <1>1. UNCHANGED <<transport, seq, toServer, server>>
      BY OnMessageRequests
  <1>2. /\ m = Incoming[1] /\ 1 \in DOMAIN Incoming
        /\ \A k \in DOMAIN Incoming' :
              Before(k, 1) \in DOMAIN Incoming /\ Before(k, 1) # 1 /\ Incoming'[k] = Incoming[Before(k, 1)]
        /\ \A k, n \in DOMAIN Incoming' : k # n => Before(k, 1) # Before(n, 1)
        /\ \A k \in DOMAIN Incoming : k # 1 => \E n \in DOMAIN Incoming' : Incoming'[n] = Incoming[k]
      BY DEF HandlesFirst, Without
  <1>3. NumbersDiffer'
      BY <1>1, <1>2 DEF RequestsKept, NumbersDiffer, Own
  <1>4. Clean' => Clean
      BY <1>1, OnMessageRequests DEF Clean
  <1>5. CASE UNCHANGED <<inFlight, filepath>> /\ (handshake = "completed" => ~TrackedAnswer(m) /\ handshake' = handshake)
      <2>1. NumbersTaken'
          BY <1>1, <1>2, <1>5 DEF RequestsKept, NumbersTaken, Own
      <2>2. AllRecorded'
          BY <1>1, <1>2, <1>4, <1>5 DEF RequestsKept, AllRecorded, Own
      <2>3. NoneLeft'
          <3> SUFFICES ASSUME Clean, NEW k \in 1..MaxSeq, inFlight[k].cmd \in TrackedCommands
                       PROVE  /\ handshake' = "completed"
                              /\ server # "closed" =>
                                    \/ \E n \in DOMAIN toServer : toServer[n].seq = k
                                    \/ \E j \in DOMAIN Incoming' : Own(Incoming'[j]) /\ Incoming'[j].seq = k
              BY <1>1, <1>4, <1>5 DEF NoneLeft, Own
          <3>1. /\ handshake = "completed"
                /\ server # "closed" =>
                      \/ \E n \in DOMAIN toServer : toServer[n].seq = k
                      \/ \E j \in DOMAIN Incoming : Own(Incoming[j]) /\ Incoming[j].seq = k
              BY DEF RequestsKept, NoneLeft
          <3>2. ~(Own(m) /\ m.seq = k)
              BY <1>2, <1>5, <3>1 DEF RequestsKept, AllRecorded, Recorded, Own, TrackedAnswer
          <3> QED
              BY <1>2, <1>5, <3>1, <3>2
      <2> QED
          BY <1>3, <2>1, <2>2, <2>3 DEF RequestsKept
  <1>6. CASE /\ handshake = "completed" /\ UNCHANGED <<handshake, handshakeBy>>
             /\ inFlight' = Forget(m) /\ TrackedAnswer(m)
             /\ filepath' = filepath \/ filepath' = [filepath EXCEPT ![m.seq] = Null]
      <2>1. \A k \in 1..MaxSeq :
               /\ inFlight'[k] = IF k = m.seq THEN NoRequest ELSE inFlight[k]
               /\ k # m.seq => filepath'[k] = filepath[k]
               /\ filepath'[k] = filepath[k] \/ filepath'[k] = Null
          BY <1>6, NumbersType DEF Forget
      <2>2. NumbersTaken'
          <3>1. \A k \in 1..MaxSeq : (transport # Null /\ k > seq) => inFlight'[k] = NoRequest /\ filepath'[k] = Null
              BY <2>1 DEF RequestsKept, NumbersTaken
          <3> QED
              BY <1>1, <1>2, <3>1 DEF RequestsKept, NumbersTaken, Own
      <2>3. Clean => Own(m)
          BY <1>2, <1>6, FreshIncoming DEF Clean, Fresh, Own, TrackedAnswer
      <2>4. AllRecorded'
          <3> SUFFICES ASSUME Clean
                       PROVE  /\ \A k \in DOMAIN toServer :
                                    /\ Recorded(toServer[k], inFlight', filepath')
                                    /\ inFlight'[toServer[k].seq].arg = toServer[k].arg
                              /\ \A j \in DOMAIN Incoming' :
                                    Own(Incoming'[j]) => Recorded(Incoming'[j], inFlight', filepath')
              BY <1>1, <1>4 DEF AllRecorded, Own
          <3>1. \A k \in DOMAIN toServer : toServer[k].seq # m.seq /\ toServer[k].seq \in 1..MaxSeq
              BY <1>2, <2>3, NumbersType DEF RequestsKept, NumbersDiffer, Clean
          <3>2. \A j \in DOMAIN Incoming :
                   (j # 1 /\ Own(Incoming[j])) => Incoming[j].seq # m.seq /\ Incoming[j].seq \in 1..MaxSeq
              BY <1>2, <2>3, NumbersType DEF RequestsKept, NumbersTaken, NumbersDiffer, Clean
          <3>3. \A k \in DOMAIN toServer :
                   /\ Recorded(toServer[k], inFlight', filepath')
                   /\ inFlight'[toServer[k].seq].arg = toServer[k].arg
              BY <2>1, <3>1 DEF RequestsKept, AllRecorded, Recorded
          <3>4. \A j \in DOMAIN Incoming :
                   (j # 1 /\ Own(Incoming[j])) => Recorded(Incoming[j], inFlight', filepath')
              BY <2>1, <3>2 DEF RequestsKept, AllRecorded, Recorded
          <3> QED
              BY <1>2, <3>3, <3>4
      <2>5. NoneLeft'
          <3> SUFFICES ASSUME Clean, NEW k \in 1..MaxSeq, inFlight'[k].cmd \in TrackedCommands
                       PROVE  server # "closed" =>
                                    \/ \E n \in DOMAIN toServer : toServer[n].seq = k
                                    \/ \E j \in DOMAIN Incoming' : Own(Incoming'[j]) /\ Incoming'[j].seq = k
              BY <1>1, <1>4, <1>6 DEF NoneLeft, Own
          <3>1. k # m.seq /\ inFlight[k].cmd \in TrackedCommands
              BY <2>1 DEF NoRequest, TrackedCommands, QueueEventCommands, PlainCommands
          <3>2. server # "closed" =>
                      \/ \E n \in DOMAIN toServer : toServer[n].seq = k
                      \/ \E j \in DOMAIN Incoming : Own(Incoming[j]) /\ Incoming[j].seq = k
              BY <3>1 DEF RequestsKept, NoneLeft
          <3> QED
              BY <1>2, <3>1, <3>2
      <2> QED
          BY <1>3, <2>2, <2>4, <2>5 DEF RequestsKept
  <1> QED
      BY <1>5, <1>6, OnMessageRequests

\* The event loop.
LEMMA HandlerKept ==
    ASSUME TypeOK, SessionsInOrder, RequestsKept, OnDataRead \/ ProcessBuffer
    PROVE  RequestsKept'
  <1>1. EmptyPosts
      BY DEF RequestsKept
  <1> QED
      BY <1>1, MessageIsFirst, HandledKept

----------------------------------------------------------------------------
(* The invariant.                                                          *)

\* The constructor establishes it.
LEMMA InitKept == Init => RequestsKept
  BY DEF Init, RequestsKept, EmptyPosts, NumbersTaken, NumbersDiffer, AllRecorded, NoneLeft, Clean

\* Every step keeps it.
LEMMA NextKept == TypeOK /\ SessionsInOrder /\ RequestsKept /\ [Next]_vars => RequestsKept'
  <1> SUFFICES ASSUME TypeOK, SessionsInOrder, RequestsKept, [Next]_vars PROVE RequestsKept'
      OBVIOUS
  <1>1. CASE Quiet
      BY <1>1, QuietKept
  <1>2. CASE ApplicationStep
      BY <1>2, QuietKept, RequestKept DEF ApplicationStep, Quiet
  <1>3. CASE MainStep
      BY <1>3, HandlerKept, QuietKept, JoinReturnsKept DEF MainStep, Quiet
  <1>4. CASE ServerStep
      BY <1>4, ServerKept
  <1> QED
      BY <1>1, <1>2, <1>3, <1>4 DEF Next, Quiet

\* Requests are numbered, recorded and forgotten in step with their answers, for
\* any number of sessions and requests and whatever order the server answers in
\* (GetNextSequence, SendRequest, OnMessage, Reset).
THEOREM RequestsTracked == Spec => []RequestsKept
  <1>1. Init => TypeOK /\ SessionsInOrder /\ RequestsKept
      BY InitTypeOK, InitSessions, InitKept
  <1>2. TypeOK /\ SessionsInOrder /\ RequestsKept /\ [Next]_vars
           => (TypeOK /\ SessionsInOrder /\ RequestsKept)'
      BY NextTypeOK, NextSessions, NextKept
  <1> QED
      BY <1>1, <1>2, PTL DEF Spec

----------------------------------------------------------------------------
(* What the application can rely on.                                       *)

\* A request with these fields is this one.
LEMMA SameRequest ==
    ASSUME NEW r \in Requests, NEW c, NEW a, r.cmd = c, r.arg = a
    PROVE  r = [cmd |-> c, arg |-> a]
  BY DEF Requests

\* The answers of a session that is Fresh are recorded.
LEMMA FreshRecorded ==
    ASSUME TypeOK, SessionsInOrder, RequestsKept, Fresh,
           NEW m, Has(Incoming, m), m.type = "response"
    PROVE  /\ m.seq \in 1..MaxSeq /\ m.sess = transport
           /\ m.cmd # "initialize" => inFlight[m.seq] = [cmd |-> m.cmd, arg |-> m.arg]
           /\ m.cmd = "breakpointLocations" => filepath[m.seq] = m.arg
  <1>1. PICK j \in DOMAIN Incoming : Incoming[j] = m
      BY DEF Has
  <1>2. Own(m) /\ Clean /\ transport # Null
      BY <1>1, FreshIncoming DEF Own, Clean, Fresh
  <1>3. m.seq \in 1..MaxSeq
      BY <1>1, <1>2, NumbersType DEF RequestsKept, NumbersTaken
  <1>4. Recorded(m, inFlight, filepath)
      BY <1>1, <1>2 DEF RequestsKept, AllRecorded
  <1>5. inFlight[m.seq] \in Requests
      BY <1>3, NumbersType
  <1> QED
      BY <1>2, <1>3, <1>4, <1>5, SameRequest DEF Recorded, Own

\* The answers that are to be handled, wherever they are.
LEMMA Covered ==
    ASSUME TypeOK, SessionsInOrder, RequestsKept
    PROVE  InFlightCoversOutstanding
  <1> DEFINE recorded(m) == inFlight[m.seq] = [cmd |-> m.cmd, arg |-> m.arg]
  <1> SUFFICES ASSUME Fresh
               PROVE  /\ \A i \in DOMAIN toServer : recorded(toServer[i])
                      /\ \A m : (Somewhere(m) /\ m.type = "response" /\ m.cmd # "initialize")
                                   => recorded(m)
      BY DEF InFlightCoversOutstanding, Somewhere, Has
  <1>1. ASSUME NEW i \in DOMAIN toServer PROVE recorded(toServer[i])
      <2>1. Clean
          BY DEF Clean, Fresh
      <2>2. inFlight[toServer[i].seq].cmd = toServer[i].cmd /\ inFlight[toServer[i].seq].arg = toServer[i].arg
          BY <2>1 DEF RequestsKept, AllRecorded, Recorded
      <2>3. inFlight[toServer[i].seq] \in Requests
          BY NumbersType
      <2> QED
          BY <2>2, <2>3, SameRequest
  <1>2. ASSUME NEW m, Somewhere(m), m.type = "response", m.cmd # "initialize" PROVE recorded(m)
      <2>1. Has(Incoming, m)
          BY <1>2, IncomingHas
      <2> QED
          BY <1>2, <2>1, FreshRecorded
  <1> QED
      BY <1>1, <1>2

\* Every request of a session that is not answered, and every answer that is not
\* handled, finds its request in m_in_flight_requests under its own number.
THEOREM OutstandingInFlight == Spec => []InFlightCoversOutstanding
  <1>1. TypeOK /\ SessionsInOrder /\ RequestsKept => InFlightCoversOutstanding
      BY Covered
  <1> QED
      BY <1>1, TypeCorrect, SessionsFollow, RequestsTracked, PTL

\* What is recorded of tracked requests is to be answered or handled.
LEMMA Forgotten ==
    ASSUME TypeOK, RequestsKept
    PROVE  TrackedAreForgotten
  <1> SUFFICES ASSUME Fresh, server # "closed", NEW s \in 1..MaxSeq, inFlight[s].cmd \in TrackedCommands
               PROVE  (\E i \in DOMAIN toServer : toServer[i].seq = s)
                      \/ \E m : Somewhere(m) /\ m.seq = s
      BY DEF TrackedAreForgotten, Somewhere, Has
  <1>1. Clean
      BY DEF Clean, Fresh
  <1>2. \/ \E i \in DOMAIN toServer : toServer[i].seq = s
        \/ \E j \in DOMAIN Incoming : Own(Incoming[j]) /\ Incoming[j].seq = s
      BY <1>1 DEF RequestsKept, NoneLeft
  <1>3. ASSUME NEW j \in DOMAIN Incoming, Incoming[j].seq = s
        PROVE  \E m : Somewhere(m) /\ m.seq = s
      <2>1. Has(Incoming, Incoming[j])
          BY DEF Has
      <2>2. Somewhere(Incoming[j])
          BY <2>1, IncomingHas
      <2> QED
          BY <1>3, <2>2
  <1> QED
      BY <1>2, <1>3

\* m_in_flight_requests does not grow with the requests the application is told
\* the answer of: GetOriginatingRequest erases what it finds.
THEOREM AnswersForgotten == Spec => []TrackedAreForgotten
  <1>1. TypeOK /\ RequestsKept => TrackedAreForgotten
      BY Forgotten
  <1> QED
      BY <1>1, TypeCorrect, RequestsTracked, PTL

----------------------------------------------------------------------------
(* What the application is told.                                           *)

\* A step that handles a message tells of it; another one tells of a lost
\* connection or tells nothing, and completes no handshake.
LEMMA OnlyMessagesTell ==
    ASSUME [Next]_vars, ~(OnDataRead \/ ProcessBuffer)
    PROVE  \/ event'.kind = "lost"
           \/ event' = event /\ (Fresh' => Fresh /\ transport' = transport)
  <1> USE DEF Told, Fresh
  <1>1. ASSUME NEW cmd, NEW arg, NEW q, NEW then, SendRequest(cmd, arg, q, then)
        PROVE  \/ event'.kind = "lost"
               \/ event' = event /\ (Fresh' => Fresh /\ transport' = transport)
      BY <1>1 DEF SendRequest, HandshakeAfter
  <1>2. CASE Request
      <2>1. ASSUME NEW cmd, NEW arg, QueuedRequest(cmd, arg) \/ SimpleRequest(cmd, arg)
            PROVE  \/ event'.kind = "lost"
                   \/ event' = event /\ (Fresh' => Fresh /\ transport' = transport)
          BY <1>1, <2>1, Zenon DEF QueuedRequest, SimpleRequest
      <2>2. CASE Initialize
          BY <1>1, <2>2, Zenon DEF Initialize
      <2>3. ASSUME NEW arg, Launch(arg) \/ BreakpointLocations(arg)
            PROVE  \/ event'.kind = "lost"
                   \/ event' = event /\ (Fresh' => Fresh /\ transport' = transport)
          BY <1>1, <2>3, Zenon DEF Launch, BreakpointLocations
      <2>4. CASE SendResponse
          BY <2>4 DEF SendResponse
      <2> QED
          BY <1>2, <2>1, <2>2, <2>3, <2>4, Zenon
          DEF Request, ConfigurationDone, GetThreads, Attach, GetFrames, Pause, StepIn, StepOut,
              NextStep, Continue, GetScopes, GetChildrenVariables, SetBreakpointsFile,
              EvaluateExpression, LoadSource, SetFunctionBreakpoints
  <1>3. CASE Reset \/ PostReset \/ SetTransport \/ LostReturns \/ OnPostedReset
      BY <1>3 DEF Reset, PostReset, SetTransport, LostReturns, OnPostedReset, BeginReset, sessionVars
  <1>4. CASE JoinReturns
      BY <1>4 DEF JoinReturns, ClearSession, HandshakeAfter
  <1>5. CASE OnConnectionError
      BY <1>5 DEF OnConnectionError
  <1>6. CASE ReaderStep
      BY <1>6 DEF ReaderStep, ReaderCheck, ReaderTimeout, ReaderData, ReaderFails,
             ReaderPostsError, sessionVars
  <1>7. CASE ServerStep
      BY <1>7 DEF ServerStep, ServerAnswers, ServerSends, ServerCloses, sessionVars
  <1>8. CASE UNCHANGED vars
      BY <1>8 DEF vars, sessionVars
  <1> QED
      BY <1>2, <1>3, <1>4, <1>5, <1>6, <1>7, <1>8 DEF Next, ApplicationStep, MainStep

\* Every response is given to the application with its own request and its own file.
LEMMA TellMatches ==
    ASSUME TypeOK, SessionsInOrder, RequestsKept, NEW m, Has(Incoming, m), OnMessage(m)
    PROVE  OriginMatches' /\ FilepathMatches'
  <1> USE DEF OriginMatches, FilepathMatches, ToldOfThisSession, TrackedCommands, Told,
              QueueEventCommands, PlainCommands
  <1>0. transport' = transport
      BY DEF OnMessage
  <1>1. CASE OnHandshakeMessage(m)
      BY <1>1 DEF OnHandshakeMessage, NoEvent
  <1>2. CASE OnEvent(m) \/ OnReverseRequest(m)
      BY <1>2 DEF OnEvent, OnReverseRequest
  <1>3. CASE OnCallbackResponse(m) \/ OnStepResponse(m) \/ OnIgnoredResponse(m)
      BY <1>3 DEF OnCallbackResponse, OnStepResponse, OnIgnoredResponse, NoEvent
  <1>4. CASE OnQueuedResponse(m) \/ OnPlainResponse(m) \/ OnLocationsResponse(m)
      <2> SUFFICES ASSUME Fresh PROVE OriginMatches' /\ FilepathMatches'
          BY <1>0, <1>4 DEF OnQueuedResponse, OnPlainResponse, OnLocationsResponse, Fresh
      <2>1. m.type = "response" /\ m.cmd \in TrackedCommands
          BY <1>4 DEF OnQueuedResponse, OnPlainResponse, OnLocationsResponse
      <2>2. /\ m.seq \in 1..MaxSeq
            /\ inFlight[m.seq] = [cmd |-> m.cmd, arg |-> m.arg]
            /\ m.cmd = "breakpointLocations" => filepath[m.seq] = m.arg
          BY <2>1, FreshRecorded
      <2>3. /\ Origin(m) = [cmd |-> m.cmd, arg |-> m.arg]
            /\ m.cmd = "breakpointLocations" => FileOf(m) = m.arg
          BY <2>2, NumbersType DEF Origin, FileOf
      <2>4. /\ event'.kind = "response" /\ event'.cmd = m.cmd /\ event'.about = m.arg
            /\ event'.origin = Origin(m)
            /\ m.cmd = "breakpointLocations" => event'.ref = FileOf(m)
          BY <1>4 DEF OnQueuedResponse, OnPlainResponse, OnLocationsResponse
      <2> QED
          BY <2>3, <2>4
  <1> QED
      BY <1>1, <1>2, <1>3, <1>4 DEF OnMessage

\* Both stay true.
LEMMA NextMatches ==
    ASSUME TypeOK, SessionsInOrder, RequestsKept, OriginMatches, FilepathMatches, [Next]_vars
    PROVE  OriginMatches' /\ FilepathMatches'
  <1>1. CASE OnDataRead \/ ProcessBuffer
      BY <1>1, MessageIsFirst, TellMatches DEF RequestsKept
  <1>2. CASE ~(OnDataRead \/ ProcessBuffer)
      BY <1>2, OnlyMessagesTell DEF OriginMatches, FilepathMatches, ToldOfThisSession
  <1> QED
      BY <1>1, <1>2

\* Whatever the order of the answers, a response is given to the application with
\* the request it answers (GetOriginatingRequest).
THEOREM OriginIsOwn == Spec => []OriginMatches
  <1>1. Init => OriginMatches /\ FilepathMatches
      BY DEF Init, OriginMatches, FilepathMatches, ToldOfThisSession, Fresh
  <1>2. TypeOK /\ SessionsInOrder /\ RequestsKept /\ OriginMatches /\ FilepathMatches /\ [Next]_vars
           => (OriginMatches /\ FilepathMatches)'
      BY NextMatches
  <1> QED
      BY <1>1, <1>2, TypeCorrect, SessionsFollow, RequestsTracked, PTL DEF Spec

\* Whatever the order of the answers, the response to breakpointLocations names the
\* file that was asked for (m_requestIdToFilepath).
THEOREM FileIsOwn == Spec => []FilepathMatches
  <1>1. Init => OriginMatches /\ FilepathMatches
      BY DEF Init, OriginMatches, FilepathMatches, ToldOfThisSession, Fresh
  <1>2. TypeOK /\ SessionsInOrder /\ RequestsKept /\ OriginMatches /\ FilepathMatches /\ [Next]_vars
           => (OriginMatches /\ FilepathMatches)'
      BY NextMatches
  <1> QED
      BY <1>1, <1>2, TypeCorrect, SessionsFollow, RequestsTracked, PTL DEF Spec

=============================================================================
