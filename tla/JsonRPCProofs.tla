--------------------------- MODULE JsonRPCProofs ---------------------------
(***************************************************************************)
(* Theorems about JsonRPC: for every sequence of messages, well-formed or  *)
(* not, and every way of cutting its bytes into reads.                     *)
(***************************************************************************)
EXTENDS JsonRPC, FlattenTheorems

----------------------------------------------------------------------------
(* The inductive invariant.                                                *)

Frames == [i \in DOMAIN stream |-> Frame(i)]

\* The wire up to the end of message c, for every c.
Sent == CHOOSE run : IsRun(run, Frames, Unit)

\* The messages up to number c are taken from the buffer, and the buffer holds
\* what has arrived of the others.
Aligned(c) ==
    /\ c \in 0..Len(stream)
    /\ Len(Sent[c]) <= arrived
    /\ buffer = SubSeq(Wire, Len(Sent[c]) + 1, arrived)

\* Only messages up to c are delivered, of a well-formed stream all of them, and
\* none is left out before the first faulty one.
DeliveredUpTo(c) ==
    /\ Abstract!Last <= c
    /\ WellFormed => delivered = [k \in 1..c |-> k]
    /\ \A k \in Abstract!Last + 1 .. c : \E b \in 1..k : ~IsGood(b)

\* ProcessBuffer returns only when the next message is not complete.
Waiting(c) == (WellFormed /\ ~looping /\ c < Len(stream)) => arrived < Len(Sent[c + 1])

\* A header with nothing usable in it stays at the front of the buffer for ever ...
Barred ==
    /\ Len(buffer) >= 2
    /\ buffer[1].part = "header" /\ buffer[2].part = "separator"
    /\ buffer[1].msg \in DOMAIN stream
    /\ LET m == stream[buffer[1].msg]
       IN  ~m.named \/ m.says <= 0 \/ 2 + m.says > LongMax

\* ... and so does the end of a message whose header is gone.
Headless == Len(buffer) >= 1 /\ buffer[1].part # "header"

Stuck == Headless \/ Barred

\* The buffer is empty and the next unit to arrive is not a header.
Adrift ==
    /\ buffer = <<>>
    /\ \E c \in 0..Len(stream) - 1 : Len(Sent[c]) < arrived /\ arrived < Len(Sent[c + 1])

Framing ==
    \/ ~WellFormed /\ (Stuck \/ Adrift)
    \/ \E c \in 0..Len(stream) : Aligned(c) /\ DeliveredUpTo(c) /\ Waiting(c)

----------------------------------------------------------------------------
(* The wire.                                                               *)

\* The messages of a stream.
LEMMA StreamType ==
    ASSUME stream \in Streams
    PROVE  /\ Len(stream) \in Nat /\ DOMAIN stream = 1..Len(stream)
           /\ \A i \in DOMAIN stream : /\ stream[i].len \in Nat \ {0}
                                       /\ stream[i].json \in Nat /\ 2 + stream[i].len <= LongMax
                                       /\ stream[i].says \in Int /\ stream[i].says <= LongMax
  <1>1. stream \in Seq(Message)
      BY StreamsAssumption
  <1>2. Len(stream) \in Nat /\ DOMAIN stream = 1..Len(stream)
      BY <1>1, LenProperties
  <1>3. \A i \in 1..Len(stream) : stream[i] \in Message
      BY <1>1, ElementOfSeq
  <1>4. \A m \in Message : /\ m.len \in Nat \ {0} /\ m.json \in Nat /\ 2 + m.len <= LongMax
                           /\ m.says \in Int /\ m.says <= LongMax
      BY LongAssumption DEF Message, Long
  <1> QED
      BY <1>2, <1>3, <1>4

\* The units of a message: the header, the separator and the payload.
LEMMA FrameUnits ==
    ASSUME stream \in Streams, NEW i \in DOMAIN stream
    PROVE  /\ Frame(i) \in Seq(Unit) /\ Len(Frame(i)) = 2 + stream[i].len
           /\ Frame(i)[1] = [msg |-> i, part |-> "header"]
           /\ Frame(i)[2] = [msg |-> i, part |-> "separator"]
           /\ \A k \in 3..2 + stream[i].len : Frame(i)[k] = [msg |-> i, part |-> "payload"]
  <1> DEFINE h == << [msg |-> i, part |-> "header"], [msg |-> i, part |-> "separator"] >>
             n == stream[i].len
             p == [k \in 1..n |-> [msg |-> i, part |-> "payload"]]
  <1>0. n \in Nat /\ n > 0 /\ i \in Nat
      BY StreamType
  <1>1. h \in Seq(Unit) /\ Len(h) = 2 /\ h[1] = [msg |-> i, part |-> "header"]
        /\ h[2] = [msg |-> i, part |-> "separator"]
      BY <1>0 DEF Unit
  <1>2. p \in Seq(Unit) /\ Len(p) = n /\ \A k \in 1..n : p[k] = [msg |-> i, part |-> "payload"]
      <2>1. \A k \in 1..n : [msg |-> i, part |-> "payload"] \in Unit
          BY <1>0 DEF Unit
      <2> QED
          BY <1>0, <2>1, IsASeq
  <1>3. Frame(i) = h \o p
      BY DEF Frame
  <1> HIDE DEF h, p, n
  <1>4. /\ h \o p \in Seq(Unit) /\ Len(h \o p) = Len(h) + Len(p)
        /\ \A k \in 1..Len(h) + Len(p) : (h \o p)[k] = IF k <= Len(h) THEN h[k] ELSE p[k - Len(h)]
      BY <1>1, <1>2, ConcatProperties
  <1>5. (h \o p)[1] = h[1] /\ (h \o p)[2] = h[2]
      BY <1>0, <1>1, <1>2, <1>4
  <1>6. ASSUME NEW k \in 3..2 + n PROVE (h \o p)[k] = [msg |-> i, part |-> "payload"]
      <2>1. k \in 1..Len(h) + Len(p) /\ ~(k <= Len(h)) /\ k - Len(h) \in 1..n
          BY <1>0, <1>1, <1>2
      <2> QED
          BY <1>2, <1>4, <2>1
  <1> QED
      BY <1>1, <1>2, <1>3, <1>4, <1>5, <1>6 DEF n

\* The frames of a stream are sequences of units.
LEMMA FramesType ==
    ASSUME stream \in Streams
    PROVE  /\ Frames \in Seq(Seq(Unit)) /\ Len(Frames) = Len(stream)
           /\ \A i \in 1..Len(stream) : Frames[i] = Frame(i)
  <1> DEFINE n == Len(stream)
  <1>1. n \in Nat /\ DOMAIN stream = 1..n
      BY StreamType
  <1>2. \A i \in 1..n : Frame(i) \in Seq(Unit)
      BY <1>1, FrameUnits
  <1>3. Frames = [i \in 1..n |-> Frame(i)]
      BY <1>1 DEF Frames
  <1> HIDE DEF n
  <1>4. [i \in 1..n |-> Frame(i)] \in Seq(Seq(Unit)) /\ Len([i \in 1..n |-> Frame(i)]) = n
      BY <1>1, <1>2, IsASeq
  <1> QED
      BY <1>3, <1>4 DEF n

\* The wire is the concatenation of the frames.
LEMMA SentRun ==
    ASSUME stream \in Streams
    PROVE  /\ IsRun(Sent, Frames, Unit) /\ Wire = Sent[Len(stream)] /\ Wire \in Seq(Unit)
           /\ Len(Wire) \in Nat /\ Sent[0] = <<>>
           /\ \A c \in 0..Len(stream) : Sent[c] \in Seq(Unit) /\ Len(Sent[c]) \in Nat
  <1>1. Frames \in Seq(Seq(Unit)) /\ Len(Frames) = Len(stream)
      BY FramesType
  <1>2. IsRun(Sent, Frames, Unit)
      BY <1>1, RunExists DEF Sent
  <1>3. Wire = Sent[Len(stream)]
      BY <1>1, <1>2, FlattenIsRun DEF Wire, Frames
  <1>4. \A c \in 0..Len(stream) : Sent[c] \in Seq(Unit)
      BY <1>1, <1>2 DEF IsRun
  <1>5. \A c \in 0..Len(stream) : Len(Sent[c]) \in Nat
      BY <1>4, LenProperties
  <1>6. Len(stream) \in 0..Len(stream)
      BY StreamType
  <1>7. Sent[0] = <<>>
      BY <1>2 DEF IsRun
  <1> QED
      BY <1>2, <1>3, <1>4, <1>5, <1>6, <1>7

\* Where message c + 1 stands on the wire.
LEMMA OnWire ==
    ASSUME stream \in Streams, NEW c \in 0..Len(stream) - 1
    PROVE  /\ c + 1 \in DOMAIN stream
           /\ Len(Sent[c + 1]) = Len(Sent[c]) + Len(Frame(c + 1))
           /\ Len(Sent[c + 1]) <= Len(Wire)
           /\ \A k \in 1..Len(Frame(c + 1)) : Wire[Len(Sent[c]) + k] = Frame(c + 1)[k]
  <1> DEFINE n == Len(stream)
             a == Sent[c]
             f == Frame(c + 1)
             b == Sent[c + 1]
  <1>1. /\ n \in Nat /\ DOMAIN stream = 1..n /\ c + 1 \in 1..n /\ c + 1 \in 0..n
        /\ c \in 0..n /\ n \in c + 1..n /\ (c + 1) - 1 = c
      BY StreamType
  <1>2. /\ IsRun(Sent, Frames, Unit) /\ Wire = Sent[n] /\ a \in Seq(Unit) /\ Len(a) \in Nat
      BY <1>1, SentRun
  <1>3. Frames \in Seq(Seq(Unit)) /\ Len(Frames) = n /\ Frames[c + 1] = f
      BY <1>1, FramesType
  <1>4. f \in Seq(Unit)
      BY <1>1, FrameUnits
  <1>5. b = a \o f
      BY <1>1, <1>2, <1>3 DEF IsRun
  <1>6. /\ Len(b) <= Len(Wire)
        /\ \A k \in 1..Len(b) : Wire[k] = b[k]
      <2>1. c + 1 \in 0..Len(Frames) /\ n \in c + 1..Len(Frames)
          BY <1>1, <1>3
      <2>2. /\ Len(Sent[c + 1]) <= Len(Sent[n])
            /\ \A k \in 1..Len(Sent[c + 1]) : Sent[n][k] = Sent[c + 1][k]
          <3> DEFINE m == c + 1
          <3>1. /\ m \in 0..Len(Frames) /\ n \in m..Len(Frames)
                /\ IsRun(Sent, Frames, Unit) /\ Frames \in Seq(Seq(Unit))
                /\ m \in Nat /\ n \in Nat /\ Len(Frames) \in Nat
              BY <1>1, <1>2, <1>3, <2>1
          <3> HIDE DEF m, n
          <3>2. /\ Len(Sent[m]) <= Len(Sent[n])
                /\ \A k \in 1..Len(Sent[m]) : Sent[n][k] = Sent[m][k]
              BY <3>1, RunPrefix
          <3> QED
              BY <3>2 DEF m
      <2> QED
          BY <1>2, <2>2
  <1> HIDE DEF n, a, f, b
  <1>7. /\ Len(f) \in Nat /\ Len(b) = Len(a) + Len(f)
        /\ \A k \in 1..Len(a) + Len(f) : b[k] = IF k <= Len(a) THEN a[k] ELSE f[k - Len(a)]
      BY <1>2, <1>4, <1>5, ConcatProperties, LenProperties
  <1>8. ASSUME NEW k \in 1..Len(f) PROVE Wire[Len(a) + k] = f[k]
      <2>1. /\ Len(a) + k \in 1..Len(b) /\ Len(a) + k \in 1..Len(a) + Len(f)
            /\ ~(Len(a) + k <= Len(a)) /\ (Len(a) + k) - Len(a) = k
          BY <1>2, <1>7
      <2> QED
          BY <1>6, <1>7, <2>1
  <1> QED
      BY <1>1, <1>6, <1>7, <1>8 DEF n, a, f, b

----------------------------------------------------------------------------
(* Subsequences.                                                           *)

\* A piece of a sequence, which may be empty.
LEMMA Piece ==
    ASSUME NEW S, NEW w \in Seq(S), NEW m \in Nat \ {0}, NEW n \in Nat, m <= n + 1, n <= Len(w)
    PROVE  /\ SubSeq(w, m, n) \in Seq(S) /\ Len(SubSeq(w, m, n)) = n - m + 1
           /\ \A i \in 1..n - m + 1 : SubSeq(w, m, n)[i] = w[m + i - 1]
  <1>1. Len(w) \in Nat
      BY LenProperties
  <1>2. \A i \in m..n : i \in 1..Len(w)
      BY <1>1
  <1>3. \A i \in m..n : w[i] \in S
      BY <1>2, ElementOfSeq
  <1>4. /\ SubSeq(w, m, n) \in Seq(S)
        /\ Len(SubSeq(w, m, n)) = IF m <= n THEN n - m + 1 ELSE 0
        /\ \A i \in 1..n - m + 1 : SubSeq(w, m, n)[i] = w[m + i - 1]
      BY <1>3, SubSeqProperties
  <1> QED
      BY <1>4

\* The end of a piece is a piece.
LEMMA PieceEnd ==
    ASSUME NEW S, NEW w \in Seq(S), NEW b \in Nat, NEW a \in Nat, a <= Len(w),
           NEW d \in Nat, b + d <= a
    PROVE  SubSeq(SubSeq(w, b + 1, a), d + 1, a - b) = SubSeq(w, (b + d) + 1, a)
  <1> DEFINE v == SubSeq(w, b + 1, a)
             x == SubSeq(v, d + 1, a - b)
             y == SubSeq(w, (b + d) + 1, a)
  <1>0. /\ b + 1 \in Nat \ {0} /\ b + 1 <= a + 1 /\ a - (b + 1) + 1 = a - b
        /\ d + 1 \in Nat \ {0} /\ a - b \in Nat /\ d + 1 <= (a - b) + 1
        /\ (a - b) - (d + 1) + 1 = a - (b + d)
        /\ (b + d) + 1 \in Nat \ {0} /\ (b + d) + 1 <= a + 1
        /\ a - ((b + d) + 1) + 1 = a - (b + d) /\ a - (b + d) \in Nat
      OBVIOUS
  <1>1. /\ v \in Seq(S) /\ Len(v) = a - b
        /\ \A i \in 1..a - b : v[i] = w[(b + 1) + i - 1]
      BY <1>0, Piece
  <1> HIDE DEF v
  <1>2. /\ x \in Seq(S) /\ Len(x) = a - (b + d)
        /\ \A i \in 1..a - (b + d) : x[i] = v[(d + 1) + i - 1]
      <2>1. a - b <= Len(v)
          BY <1>0, <1>1
      <2> QED
          BY <1>0, <1>1, <2>1, Piece
  <1>3. /\ y \in Seq(S) /\ Len(y) = a - (b + d)
        /\ \A i \in 1..a - (b + d) : y[i] = w[((b + d) + 1) + i - 1]
      BY <1>0, Piece
  <1> HIDE DEF x, y
  <1>4. ASSUME NEW i \in 1..Len(x) PROVE x[i] = y[i]
      <2>1. /\ i \in 1..a - (b + d) /\ (d + 1) + i - 1 = d + i /\ d + i \in 1..a - b
            /\ (b + 1) + (d + i) - 1 = (b + d) + i /\ ((b + d) + 1) + i - 1 = (b + d) + i
          BY <1>2
      <2>2. x[i] = v[d + i]
          BY <1>2, <2>1
      <2>3. v[d + i] = w[(b + d) + i]
          BY <1>1, <2>1
      <2>4. y[i] = w[(b + d) + i]
          BY <1>3, <2>1
      <2> QED
          BY <2>2, <2>3, <2>4
  <1>5. x = y
      BY <1>2, <1>3, <1>4, SeqEqual
  <1> QED
      BY <1>5 DEF x, y, v

----------------------------------------------------------------------------
(* DoProcessBuffer.                                                        *)

\* ReadHeaders finds the separator behind a header.
LEMMA HeadersFound ==
    ASSUME NEW buf \in Seq(Unit), Len(buf) >= 2,
           buf[1].part = "header", buf[2].part = "separator"
    PROVE  ReadHeaders(buf) = 2
  <1>1. Len(buf) \in Nat /\ DOMAIN buf = 1..Len(buf)
      BY LenProperties
  <1>2. 2 \in Separators(buf) /\ 1 \notin Separators(buf) /\ Separators(buf) \subseteq Nat
      BY <1>1 DEF Separators
  <1>3. \A y \in Separators(buf) : 2 <= y
      BY <1>1, <1>2 DEF Separators
  <1>4. \A x \in Separators(buf) : (\A y \in Separators(buf) : x <= y) => x = 2
      BY <1>2, <1>3
  <1>5. Min(Separators(buf)) = 2
      BY <1>2, <1>3, <1>4 DEF Min
  <1> QED
      BY <1>2, <1>5 DEF ReadHeaders

\* ReadHeaders finds nothing in an empty buffer, and nothing behind a header alone.
LEMMA HeadersMissing ==
    ASSUME NEW buf \in Seq(Unit), Len(buf) < 2, Len(buf) = 1 => buf[1].part = "header"
    PROVE  ReadHeaders(buf) = -1
  <1>1. Len(buf) \in Nat /\ DOMAIN buf = 1..Len(buf)
      BY LenProperties
  <1>2. Separators(buf) = {}
      BY <1>1 DEF Separators
  <1> QED
      BY <1>2 DEF ReadHeaders

\* The bounds of a buffer that holds what has arrived from message c + 1 on.
LEMMA AlignedBuffer ==
    ASSUME stream \in Streams, arrived \in 0..Len(Wire), NEW c \in 0..Len(stream), Aligned(c)
    PROVE  /\ buffer \in Seq(Unit) /\ Len(buffer) \in Nat
           /\ Len(Sent[c]) \in Nat /\ Len(buffer) = arrived - Len(Sent[c])
           /\ \A k \in 1..Len(buffer) : buffer[k] = Wire[Len(Sent[c]) + k]
  <1> DEFINE b == Len(Sent[c])
  <1>1. b \in Nat /\ Wire \in Seq(Unit) /\ Len(Wire) \in Nat
      BY SentRun
  <1>2. b <= arrived /\ arrived \in Nat /\ arrived <= Len(Wire)
        /\ buffer = SubSeq(Wire, b + 1, arrived)
      BY <1>1 DEF Aligned
  <1> HIDE DEF b
  <1>3. \A i \in b + 1..arrived : Wire[i] \in Unit
      <2>1. \A i \in b + 1..arrived : i \in 1..Len(Wire)
          BY <1>1, <1>2
      <2> QED
          BY <1>1, <2>1, ElementOfSeq
  <1>4. /\ buffer \in Seq(Unit)
        /\ Len(buffer) = IF b + 1 <= arrived THEN arrived - (b + 1) + 1 ELSE 0
        /\ \A i \in 1..arrived - (b + 1) + 1 : buffer[i] = Wire[(b + 1) + i - 1]
      BY <1>1, <1>2, <1>3, SubSeqProperties
  <1>5. Len(buffer) = arrived - b
      BY <1>1, <1>2, <1>4
  <1>6. ASSUME NEW k \in 1..Len(buffer) PROVE buffer[k] = Wire[b + k]
      <2>1. k \in 1..arrived - (b + 1) + 1 /\ (b + 1) + k - 1 = b + k
          BY <1>1, <1>2, <1>5
      <2> QED
          BY <1>4, <2>1
  <1>7. Len(buffer) \in Nat
      BY <1>4, LenProperties
  <1> QED
      BY <1>1, <1>4, <1>5, <1>6, <1>7 DEF b

\* ... begins with the units of that message.
LEMMA BufferFront ==
    ASSUME stream \in Streams, arrived \in 0..Len(Wire), NEW c \in 0..Len(stream) - 1, Aligned(c)
    PROVE  \A k \in 1..Len(buffer) : k <= Len(Frame(c + 1)) => buffer[k] = Frame(c + 1)[k]
  <1> TAKE k \in 1..Len(buffer)
  <1> HAVE k <= Len(Frame(c + 1))
  <1>1. c \in 0..Len(stream) /\ c + 1 \in DOMAIN stream
      BY StreamType
  <1>2. buffer[k] = Wire[Len(Sent[c]) + k] /\ Len(buffer) \in Nat
      BY <1>1, AlignedBuffer
  <1>3. Len(Frame(c + 1)) \in Nat
      BY <1>1, FrameUnits, StreamType
  <1>4. k \in 1..Len(Frame(c + 1))
      BY <1>2, <1>3
  <1> QED
      BY <1>2, <1>4, OnWire

\* Where the message that begins at the front of the buffer ends, by its header.
CutAt(c) == Len(Sent[c]) + (2 + stream[c + 1].says)

\* What DoProcessBuffer makes of it: nothing while what the header announces has
\* not arrived ...
Incomplete(c) ==
    /\ DoProcessBuffer(buffer) = [json |-> 0, rest |-> buffer]
    /\ (c < Len(stream) /\ RightLength(c + 1)) => arrived < Len(Sent[c + 1])

\* ... nothing, and never again anything, when the header is of no use ...
Hangs(c) == c < Len(stream) /\ ~IsGood(c + 1) /\ Barred

\* ... and else what the header announces, right or wrong.
Takes(c) ==
    /\ c < Len(stream) /\ stream[c + 1].named /\ stream[c + 1].says > 0
    /\ CutAt(c) <= arrived
    /\ DoProcessBuffer(buffer).rest = SubSeq(Wire, CutAt(c) + 1, arrived)
    /\ DoProcessBuffer(buffer).json =
           IF stream[c + 1].json \in 1..stream[c + 1].says THEN c + 1 ELSE 0

\* One call of DoProcessBuffer does one of the three.
LEMMA ProcessAligned ==
    ASSUME stream \in Streams, arrived \in 0..Len(Wire), NEW c \in 0..Len(stream), Aligned(c)
    PROVE  Incomplete(c) \/ Hangs(c) \/ Takes(c)
  <1> DEFINE b == Len(Sent[c])
             n == Len(buffer)
             len == stream[c + 1].len
             says == stream[c + 1].says
  <1>0. /\ buffer \in Seq(Unit) /\ n \in Nat /\ b \in Nat /\ n = arrived - b
        /\ \A k \in 1..n : buffer[k] = Wire[b + k]
      BY AlignedBuffer
  <1>1. /\ Len(stream) \in Nat /\ DOMAIN stream = 1..Len(stream) /\ Len(Wire) \in Nat
        /\ arrived \in Nat /\ arrived <= Len(Wire)
      BY StreamType, SentRun
  <1>2. ASSUME ReadHeaders(buffer) = -1
        PROVE  DoProcessBuffer(buffer) = [json |-> 0, rest |-> buffer]
      BY <1>2 DEF DoProcessBuffer
  <1>3. CASE c = Len(stream)
      <2>1. b = Len(Wire)
          BY <1>3, SentRun
      <2>2. n = 0
          BY <1>0, <1>1, <2>1
      <2>3. ReadHeaders(buffer) = -1
          <3>1. buffer \in Seq(Unit) /\ Len(buffer) = 0
              BY <1>0, <2>2
          <3>2. Len(buffer) < 2 /\ Len(buffer) # 1
              BY <3>1
          <3> QED
              BY <3>1, <3>2, HeadersMissing
      <2>4. ~(c < Len(stream))
          BY <1>1, <1>3
      <2> QED
          BY <1>2, <2>3, <2>4 DEF Incomplete
  <1>4. CASE c # Len(stream)
      <2>0. c \in 0..Len(stream) - 1 /\ c < Len(stream) /\ c + 1 \in DOMAIN stream
          <3> DEFINE m == Len(stream)
          <3>1. m \in Nat /\ c \in 0..m /\ c # m /\ DOMAIN stream = 1..m
              BY <1>1, <1>4
          <3> HIDE DEF m
          <3>2. c \in 0..m - 1 /\ c < m /\ c + 1 \in 1..m
              BY <3>1
          <3> QED
              BY <3>1, <3>2 DEF m
      <2>1. len \in Nat /\ len > 0 /\ 2 + len <= LongMax /\ says \in Int /\ says <= LongMax
          BY <2>0, StreamType
      <2>2. Len(Frame(c + 1)) = 2 + len /\ Len(Sent[c + 1]) = b + (2 + len)
          BY <2>0, FrameUnits, OnWire
      <2>3. \A k \in 1..n : k <= 2 + len => buffer[k] = Frame(c + 1)[k]
          BY <2>0, <2>2, BufferFront
      <2>4. RightLength(c + 1) => says = len
          BY DEF RightLength
      <2> HIDE DEF b, n, len, says
      <2>5. CASE n < 2
          <3>1. n = 1 => buffer[1].part = "header"
              <4> SUFFICES ASSUME n = 1 PROVE buffer[1].part = "header"
                  OBVIOUS
              <4>1. 1 \in 1..n /\ 1 <= 2 + len
                  BY <2>1
              <4>2. buffer[1] = [msg |-> c + 1, part |-> "header"]
                  BY <2>0, <2>3, <4>1, FrameUnits
              <4> QED
                  BY <4>2
          <3>2. ReadHeaders(buffer) = -1
              BY <1>0, <2>5, <3>1, HeadersMissing DEF n
          <3>3. arrived < Len(Sent[c + 1])
              BY <1>0, <1>1, <2>1, <2>2, <2>5
          <3> QED
              BY <1>2, <3>2, <3>3 DEF Incomplete
      <2>6. CASE n >= 2
          <3>1. 1 \in 1..n /\ 2 \in 1..n /\ 1 <= 2 + len /\ 2 <= 2 + len
              BY <1>0, <2>1, <2>6
          <3>2. /\ buffer[1] = [msg |-> c + 1, part |-> "header"]
                /\ buffer[2] = [msg |-> c + 1, part |-> "separator"]
              BY <2>0, <2>3, <3>1, FrameUnits
          <3>3. ReadHeaders(buffer) = 2
              <4>1. buffer[1].part = "header" /\ buffer[2].part = "separator"
                  BY <3>2
              <4> QED
                  BY <1>0, <2>6, <4>1, HeadersFound DEF n
          <3>4. HasContentLength(buffer, 2) <=> stream[c + 1].named
              BY <3>2 DEF HasContentLength
          <3>5. Msglen(buffer) = says
              BY <3>2 DEF Msglen, says
          <3>6. CASE ~stream[c + 1].named \/ says <= 0 \/ 2 + says > LongMax
              <4>1. Barred
                  BY <2>0, <2>6, <3>2, <3>6 DEF Barred, n, says
              <4>2. ASSUME IsGood(c + 1) PROVE FALSE
                  <5>1. stream[c + 1].named /\ says = len
                      BY <2>4, <4>2 DEF IsGood, RightLength
                  <5> QED
                      BY <2>1, <3>6, <5>1, LongAssumption
              <4> QED
                  BY <2>0, <4>1, <4>2 DEF Hangs
          <3>7. CASE stream[c + 1].named /\ says > 0 /\ 2 + says <= LongMax /\ 2 + says > n
              <4>1. AddLong(2, says) = 2 + says
                  BY <2>1, <3>7, LongAssumption DEF AddLong
              <4>2. DoProcessBuffer(buffer) = [json |-> 0, rest |-> buffer]
                  BY <3>3, <3>4, <3>5, <3>7, <4>1 DEF DoProcessBuffer, n
              <4>3. RightLength(c + 1) => arrived < Len(Sent[c + 1])
                  BY <1>0, <1>1, <2>1, <2>2, <2>4, <3>7
              <4> QED
                  BY <4>2, <4>3 DEF Incomplete
          <3>8. CASE stream[c + 1].named /\ says > 0 /\ 2 + says <= LongMax /\ 2 + says <= n
              <4> DEFINE payload == SubSeq(buffer, 3, 2 + says)
              <4>0. AddLong(2, says) = 2 + says
                  BY <2>1, <3>8, LongAssumption DEF AddLong
              <4>1. DoProcessBuffer(buffer) = [json |-> ParsePayload(payload),
                                               rest |-> SubSeq(buffer, (2 + says) + 1, n)]
                  <5>1. ~(says <= 0 \/ 2 + says > n) /\ ~(2 + says < 2) /\ 2 + 1 = 3
                      BY <1>0, <2>1, <3>8
                  <5>2. HasContentLength(buffer, 2) /\ ReadHeaders(buffer) # -1
                      BY <3>3, <3>4, <3>8
                  <5> HIDE DEF payload
                  <5>3. payload = SubSeq(buffer, 2 + 1, 2 + says)
                      BY <5>1 DEF payload
                  <5> QED
                      BY <3>3, <3>5, <4>0, <5>1, <5>2, <5>3 DEF DoProcessBuffer, n
              <4>2. ParsePayload(payload) = IF stream[c + 1].json \in 1..says THEN c + 1 ELSE 0
                  <5> DEFINE e == 2 + says
                  <5>0. says \in Int /\ says > 0 /\ 2 + says <= n /\ n \in Nat
                      BY <1>0, <2>1, <3>8
                  <5>1. /\ e \in Nat /\ 3 <= e + 1 /\ e - 3 + 1 = says /\ e <= Len(buffer)
                        /\ buffer \in Seq(Unit) /\ 1 \in 1..says
                      BY <1>0, <5>0 DEF n
                  <5> HIDE DEF e
                  <5>2. /\ Len(SubSeq(buffer, 3, e)) = e - 3 + 1
                        /\ \A i \in 1..e - 3 + 1 : SubSeq(buffer, 3, e)[i] = buffer[3 + i - 1]
                      BY <5>1, Piece
                  <5>3. Len(payload) = says /\ payload[1] = buffer[3]
                      BY <5>1, <5>2 DEF e
                  <5> HIDE DEF payload
                  <5>4. 3 \in 1..n /\ 3 <= 2 + len /\ 3 \in 3..2 + len
                      BY <1>0, <2>1, <3>8
                  <5>5. buffer[3] = Frame(c + 1)[3]
                      BY <2>3, <5>4
                  <5>6. Frame(c + 1)[3] = [msg |-> c + 1, part |-> "payload"]
                      BY <2>0, <5>4, FrameUnits DEF len
                  <5>7. payload[1].msg = c + 1
                      BY <5>3, <5>5, <5>6
                  <5> QED
                      BY <5>3, <5>7 DEF ParsePayload
              <4>3. SubSeq(buffer, (2 + says) + 1, n) = SubSeq(Wire, CutAt(c) + 1, arrived)
                  <5> DEFINE d == 2 + says
                  <5>1. buffer = SubSeq(Wire, b + 1, arrived) /\ Wire \in Seq(Unit)
                      BY SentRun DEF Aligned, b
                  <5>2. /\ Wire \in Seq(Unit) /\ b \in Nat /\ arrived \in Nat
                        /\ arrived <= Len(Wire) /\ d \in Nat /\ b + d <= arrived
                      BY <1>0, <1>1, <2>1, <3>8, <5>1
                  <5>3. CutAt(c) = b + d
                      BY DEF CutAt, b, says
                  <5> HIDE DEF d
                  <5>4. SubSeq(SubSeq(Wire, b + 1, arrived), d + 1, arrived - b)
                            = SubSeq(Wire, (b + d) + 1, arrived)
                      BY <5>2, PieceEnd
                  <5> QED
                      BY <1>0, <5>1, <5>3, <5>4 DEF d
              <4>4. CutAt(c) <= arrived
                  <5>1. CutAt(c) = b + (2 + says)
                      BY DEF CutAt, b, says
                  <5> QED
                      BY <1>0, <1>1, <2>1, <3>8, <5>1
              <4> HIDE DEF payload
              <4> DEFINE rest == SubSeq(buffer, (2 + says) + 1, n)
                         json == ParsePayload(payload)
              <4>5. DoProcessBuffer(buffer) = [json |-> json, rest |-> rest]
                  BY <4>1
              <4>6. json = IF stream[c + 1].json \in 1..says THEN c + 1 ELSE 0
                  BY <4>2
              <4>7. rest = SubSeq(Wire, CutAt(c) + 1, arrived)
                  BY <4>3
              <4> HIDE DEF rest, json
              <4>8. DoProcessBuffer(buffer).json = json /\ DoProcessBuffer(buffer).rest = rest
                  BY <4>5
              <4> QED
                  BY <2>0, <3>8, <4>4, <4>6, <4>7, <4>8 DEF says, Takes
          <3> QED
              BY <1>0, <2>1, <3>6, <3>7, <3>8, LongAssumption
      <2>7. n < 2 \/ n >= 2
          BY <1>0
      <2> QED
          BY <2>5, <2>6, <2>7
  <1> QED
      BY <1>3, <1>4

----------------------------------------------------------------------------
(* The steps.                                                              *)

\* The peer does not take back what it sends.
LEMMA SameWire ==
    ASSUME stream' = stream
    PROVE  /\ Wire' = Wire /\ Sent' = Sent /\ WellFormed' = WellFormed
           /\ \A i : IsGood(i)' = IsGood(i)
  <1>1. Frames' = Frames
      BY DEF Frames, Frame
  <1>2. Wire' = Wire
      BY DEF Wire, Frame
  <1>3. Sent' = Sent
      BY <1>1 DEF Sent
  <1>4. WellFormed' = WellFormed /\ \A i : IsGood(i)' = IsGood(i)
      BY DEF WellFormed, IsGood, RightLength
  <1> QED
      BY <1>2, <1>3, <1>4

\* A chunk extends the buffer with the next units of the wire.
LEMMA AppendAligned ==
    ASSUME stream \in Streams, arrived \in 0..Len(Wire), NEW c \in 0..Len(stream), Aligned(c),
           NEW n \in Nat, arrived + n <= Len(Wire)
    PROVE  buffer \o SubSeq(Wire, arrived + 1, arrived + n)
               = SubSeq(Wire, Len(Sent[c]) + 1, arrived + n)
  <1> DEFINE b == Len(Sent[c])
             e == arrived + n
  <1>1. Wire \in Seq(Unit) /\ Len(Wire) \in Nat /\ b \in Nat
      BY SentRun
  <1>2. b <= arrived /\ buffer = SubSeq(Wire, b + 1, arrived)
      BY DEF Aligned
  <1>3. b + 1 \in 1..Len(Wire) + 1 /\ arrived \in (b + 1) - 1..Len(Wire) /\ e \in arrived..Len(Wire)
      BY <1>1, <1>2
  <1> HIDE DEF b, e
  <1>4. SubSeq(Wire, b + 1, arrived) \o SubSeq(Wire, arrived + 1, e) = SubSeq(Wire, b + 1, e)
      BY <1>1, <1>3, ConcatAdjacentSubSeq
  <1> QED
      BY <1>2, <1>4 DEF b, e

\* A stuck buffer stays stuck whatever comes behind its first two units.
LEMMA StuckStays ==
    ASSUME Stuck, stream' = stream, Len(buffer') >= 1, buffer'[1] = buffer[1],
           Headless \/ (Len(buffer') >= 2 /\ buffer'[2] = buffer[2])
    PROVE  Stuck'
  BY DEF Stuck, Headless, Barred

\* A set of numbers that is not empty has a least element.
LEMMA Least ==
    ASSUME NEW T, T \subseteq Nat, T # {}
    PROVE  \E x \in T : \A y \in T : x <= y
  <1>1. PICK x \in T : \A y \in T : ~(<<y, x>> \in OpToRel(<, Nat))
      BY NatLessThanWellFounded, WFMin
  <1>2. \A y \in T : ~(y < x)
      BY <1>1 DEF OpToRel
  <1> QED
      BY <1>2

\* The separator that ReadHeaders finds is one of the buffer.
LEMMA HeaderSize ==
    ASSUME NEW buf \in Seq(Unit), ReadHeaders(buf) # -1
    PROVE  ReadHeaders(buf) \in 1..Len(buf)
  <1> DEFINE T == Separators(buf)
  <1>1. T # {} /\ T \subseteq 1..Len(buf) /\ T \subseteq Nat /\ Len(buf) \in Nat
      BY LenProperties DEF ReadHeaders, Separators
  <1> HIDE DEF T
  <1>2. PICK x \in T : \A y \in T : x <= y
      BY <1>1, Least
  <1>4. Min(T) \in T
      BY <1>2 DEF Min
  <1> QED
      BY <1>1, <1>4 DEF ReadHeaders, T

\* DoProcessBuffer takes nothing from a stuck buffer and leaves its front there.
LEMMA ProcessStuck ==
    ASSUME stream \in Streams, buffer \in Seq(Unit), Stuck
    PROVE  /\ DoProcessBuffer(buffer).json = 0
           /\ \/ DoProcessBuffer(buffer).rest = buffer
              \/ Barred /\ DoProcessBuffer(buffer).rest = SubSeq(buffer, 1, 2)
              \/ Headless /\ \E h \in 1..Len(buffer) :
                                DoProcessBuffer(buffer).rest = SubSeq(buffer, 1, h)
  <1>1. CASE Headless
      <2> DEFINE h == ReadHeaders(buffer)
      <2>1. CASE h = -1
          <3>1. DoProcessBuffer(buffer) = [json |-> 0, rest |-> buffer]
              BY <2>1 DEF DoProcessBuffer
          <3> QED
              BY <3>1
      <2>2. CASE h # -1
          <3>1. h \in 1..Len(buffer)
              BY <2>2, HeaderSize
          <3>2. ~HasContentLength(buffer, h)
              BY <1>1 DEF HasContentLength, Headless
          <3>3. DoProcessBuffer(buffer) = [json |-> 0, rest |-> SubSeq(buffer, 1, h)]
              BY <2>2, <3>2 DEF DoProcessBuffer
          <3> HIDE DEF h
          <3> QED
              BY <1>1, <3>1, <3>3
      <2> QED
          BY <2>1, <2>2
  <1>2. CASE Barred
      <2> DEFINE m == stream[buffer[1].msg]
      <2>1. ReadHeaders(buffer) = 2
          BY <1>2, HeadersFound DEF Barred
      <2>2. m.says \in Int /\ m.says <= LongMax /\ Len(buffer) \in Nat /\ Msglen(buffer) = m.says
          BY <1>2, StreamType, LenProperties DEF Barred, Msglen
      <2>3. HasContentLength(buffer, 2) <=> m.named
          BY <1>2 DEF Barred, HasContentLength
      <2>4. ~m.named \/ m.says <= 0 \/ 2 + m.says > LongMax
          BY <1>2 DEF Barred
      <2> HIDE DEF m
      <2>5. CASE ~m.named
          <3>1. DoProcessBuffer(buffer) = [json |-> 0, rest |-> SubSeq(buffer, 1, 2)]
              BY <2>1, <2>3, <2>5 DEF DoProcessBuffer
          <3> QED
              BY <1>2, <3>1
      <2>6. CASE m.named /\ m.says <= 0
          <3>1. DoProcessBuffer(buffer) = [json |-> 0, rest |-> buffer]
              BY <2>1, <2>2, <2>3, <2>6 DEF DoProcessBuffer
          <3> QED
              BY <3>1
      <2>7. CASE m.named /\ m.says > 0 /\ 2 + m.says > LongMax
          <3>1. AddLong(2, m.says) < 2
              BY <2>2, <2>7, LongAssumption DEF AddLong
          <3>2. DoProcessBuffer(buffer) = [json |-> 0, rest |-> buffer]
              BY <2>1, <2>2, <2>3, <2>7, <3>1 DEF DoProcessBuffer
          <3> QED
              BY <3>2
      <2> QED
          BY <2>2, <2>4, <2>5, <2>6, <2>7
  <1> QED
      BY <1>1, <1>2 DEF Stuck

\* The units at the front that DoProcessBuffer leaves of a stuck buffer.
LEMMA FrontUnits ==
    ASSUME NEW S, NEW buf \in Seq(S), NEW h \in 1..Len(buf)
    PROVE  LET r == SubSeq(buf, 1, h)
           IN  r \in Seq(S) /\ Len(r) = h /\ \A k \in 1..h : r[k] = buf[k]
  <1>1. h \in Nat /\ 1 <= h + 1 /\ h <= Len(buf) /\ h - 1 + 1 = h /\ \A k \in 1..h : 1 + k - 1 = k
      BY LenProperties
  <1>2. /\ SubSeq(buf, 1, h) \in Seq(S) /\ Len(SubSeq(buf, 1, h)) = h - 1 + 1
        /\ \A i \in 1..h - 1 + 1 : SubSeq(buf, 1, h)[i] = buf[1 + i - 1]
      BY <1>1, Piece
  <1> QED
      BY <1>1, <1>2

\* Between the header of a message and its end there is no other header.
LEMMA NotAHeader ==
    ASSUME stream \in Streams, NEW c \in 0..Len(stream) - 1, NEW q \in Nat,
           Len(Sent[c]) < q, q < Len(Sent[c + 1])
    PROVE  q + 1 \in 1..Len(Wire) /\ Wire[q + 1].part # "header"
  <1> DEFINE b == Len(Sent[c])
             k == (q + 1) - b
             f == Frame(c + 1)
  <1>1. /\ c + 1 \in DOMAIN stream /\ Len(Sent[c + 1]) = b + Len(f) /\ Len(Sent[c + 1]) <= Len(Wire)
        /\ \A j \in 1..Len(f) : Wire[b + j] = f[j]
      BY OnWire
  <1>2. /\ Len(f) = 2 + stream[c + 1].len /\ stream[c + 1].len \in Nat
        /\ f[2] = [msg |-> c + 1, part |-> "separator"]
        /\ \A j \in 3..2 + stream[c + 1].len : f[j] = [msg |-> c + 1, part |-> "payload"]
      BY <1>1, FrameUnits, StreamType
  <1>3. b \in Nat /\ Len(Wire) \in Nat
      <2>1. c \in 0..Len(stream)
          BY StreamType
      <2> QED
          BY <2>1, SentRun
  <1>4. k \in 1..Len(f) /\ b + k = q + 1 /\ q + 1 \in 1..Len(Wire)
        /\ (k = 2 \/ k \in 3..2 + stream[c + 1].len)
      <2> DEFINE w == Len(Wire)
                 l == stream[c + 1].len
                 t == Len(Sent[c + 1])
      <2>1. b \in Nat /\ w \in Nat /\ l \in Nat /\ t = b + (2 + l) /\ t <= w /\ b < q /\ q < t
          BY <1>1, <1>2, <1>3
      <2> HIDE DEF b, w, l, t
      <2>2. k \in 1..2 + l /\ b + k = q + 1 /\ q + 1 \in 1..w /\ (k = 2 \/ k \in 3..2 + l)
          BY <2>1
      <2> HIDE DEF k
      <2> QED
          BY <1>2, <2>2 DEF w, l
  <1> HIDE DEF b, f
  <1> HIDE DEF k
  <1>5. Wire[q + 1] = f[k]
      BY <1>1, <1>4
  <1>6. f[k].part # "header"
      BY <1>2, <1>4
  <1> QED
      BY <1>4, <1>5, <1>6

\* A prefix of the wire is no longer than a later one, and begins it.
LEMMA SentPrefix ==
    ASSUME stream \in Streams, NEW i \in 0..Len(stream), NEW j \in 0..Len(stream), i <= j
    PROVE  /\ Len(Sent[i]) <= Len(Sent[j])
           /\ \A k \in 1..Len(Sent[i]) : Sent[j][k] = Sent[i][k]
  <1>1. Frames \in Seq(Seq(Unit)) /\ Len(Frames) = Len(stream) /\ Len(stream) \in Nat
      BY FramesType, StreamType
  <1>2. i \in 0..Len(Frames) /\ j \in i..Len(Frames) /\ i \in Nat /\ j \in Nat
      BY <1>1
  <1>3. IsRun(Sent, Frames, Unit)
      BY SentRun
  <1> QED
      BY <1>1, <1>2, <1>3, RunPrefix

\* A place on the wire is the end of a message or inside one.
LEMMA Place ==
    ASSUME stream \in Streams, NEW q \in 0..Len(Wire)
    PROVE  \/ \E d \in 0..Len(stream) : q = Len(Sent[d])
           \/ \E d \in 0..Len(stream) - 1 : Len(Sent[d]) < q /\ q < Len(Sent[d + 1])
  <1> DEFINE T == {d \in 0..Len(stream) : q <= Len(Sent[d])}
  <1>1. /\ Len(stream) \in Nat /\ Wire = Sent[Len(stream)] /\ Len(Wire) \in Nat /\ Sent[0] = <<>>
        /\ \A d \in 0..Len(stream) : Len(Sent[d]) \in Nat
      BY StreamType, SentRun
  <1>2. T \subseteq Nat /\ Len(stream) \in T
      BY <1>1
  <1> HIDE DEF T
  <1>4. PICK x \in T : \A y \in T : x <= y
      BY <1>2, Least
  <1>5. x \in 0..Len(stream) /\ q <= Len(Sent[x])
      BY DEF T
  <1>6. CASE x = 0
      <2>1. Len(Sent[0]) = 0
          BY <1>1, EmptySeq
      <2>2. q = Len(Sent[0]) /\ 0 \in 0..Len(stream)
          BY <1>1, <1>5, <1>6, <2>1
      <2> QED
          BY <2>2
  <1>7. CASE x # 0
      <2> DEFINE d == x - 1
      <2>1. d \in 0..Len(stream) - 1 /\ d \in 0..Len(stream) /\ d + 1 = x /\ d < x /\ d \in Nat
          BY <1>1, <1>5, <1>7
      <2>2. d \notin T
          BY <1>4, <2>1, <1>5
      <2> HIDE DEF d
      <2>3. ~(q <= Len(Sent[d]))
          BY <2>1, <2>2 DEF T
      <2>4. Len(Sent[d]) < q
          BY <1>1, <2>1, <2>3
      <2>5. q = Len(Sent[x]) \/ q < Len(Sent[d + 1])
          BY <1>1, <1>5, <2>1
      <2> QED
          BY <1>5, <2>1, <2>4, <2>5
  <1> QED
      BY <1>6, <1>7

\* What one turn of ProcessBuffer does with the result of DoProcessBuffer.
LEMMA ProcessResult ==
    ASSUME ProcessBuffer
    PROVE  /\ stream' = stream /\ arrived' = arrived /\ looping
           /\ buffer' = DoProcessBuffer(buffer).rest
           /\ looping' = (DoProcessBuffer(buffer).json # 0)
           /\ delivered' = IF DoProcessBuffer(buffer).json # 0
                           THEN Append(delivered, DoProcessBuffer(buffer).json) ELSE delivered
  BY DEF ProcessBuffer

\* The number of the last message delivered.
LEMMA LastType ==
    ASSUME TypeOK
    PROVE  Abstract!Last \in Nat
  <1>1. DOMAIN stream = 1..Len(stream) /\ Len(stream) \in Nat
      BY StreamType DEF TypeOK
  <1>2. delivered \in Seq(Nat)
      <2>1. DOMAIN stream \subseteq Nat
          BY <1>1
      <2>2. Len(delivered) \in Nat /\ delivered \in [1..Len(delivered) -> DOMAIN stream]
          BY LenProperties DEF TypeOK
      <2> QED
          BY <2>1, <2>2, IsASeq
  <1>3. CASE delivered = <<>>
      BY <1>3 DEF Abstract!Last
  <1>4. CASE delivered # <<>>
      <2>1. Len(delivered) \in 1..Len(delivered)
          BY <1>2, <1>4, LenProperties, EmptySeq
      <2>2. delivered[Len(delivered)] \in Nat
          BY <1>2, <2>1, ElementOfSeq
      <2> QED
          BY <1>4, <2>2 DEF Abstract!Last
  <1> QED
      BY <1>3, <1>4

\* A message c + 1 added to the messages delivered.
LEMMA DeliveredNext ==
    ASSUME NEW D, NEW d \in Seq(D), NEW c \in Nat, c + 1 \in D
    PROVE  /\ Append(d, c + 1) \in Seq(D) /\ Append(d, c + 1) # <<>>
           /\ Append(d, c + 1)[Len(Append(d, c + 1))] = c + 1
           /\ d = [k \in 1..c |-> k] => Append(d, c + 1) = [k \in 1..c + 1 |-> k]
  <1> DEFINE a == Append(d, c + 1)
             e == c + 1
             f == [k \in 1..c + 1 |-> k]
  <1>1. Len(d) \in Nat
      BY LenProperties
  <1>2. /\ a \in Seq(D) /\ a # <<>> /\ Len(a) = Len(d) + 1
        /\ (\A i \in 1..Len(d) : a[i] = d[i]) /\ a[Len(d) + 1] = c + 1
      <2> HIDE DEF e
      <2>1. e \in D
          BY DEF e
      <2>2. /\ Append(d, e) \in Seq(D) /\ Append(d, e) # <<>> /\ Len(Append(d, e)) = Len(d) + 1
            /\ (\A i \in 1..Len(d) : Append(d, e)[i] = d[i]) /\ Append(d, e)[Len(d) + 1] = e
          BY <2>1, AppendProperties
      <2> QED
          BY <2>2 DEF e
  <1> HIDE DEF a
  <1>3. ASSUME d = [k \in 1..c |-> k] PROVE a = [k \in 1..c + 1 |-> k]
      <2>1. Len(d) = c
          BY <1>3, <1>1
      <2>2. DOMAIN a = 1..c + 1 /\ a = [i \in 1..c + 1 |-> a[i]]
          BY <1>2, <2>1, LenProperties
      <2>3. \A i \in 1..c + 1 : a[i] = i
          BY <1>2, <1>3, <2>1
      <2> QED
          BY <2>2, <2>3
  <1> QED
      BY <1>2, <1>3 DEF a

\* The invariant in a state in which the messages up to c have been taken.
At(c) == c \in 0..Len(stream) /\ Aligned(c) /\ DeliveredUpTo(c) /\ Waiting(c)

\* The whole of it.
Inv == TypeOK /\ Framing

\* What a step that takes a message adds to the messages delivered.
LEMMA TakesDelivers ==
    ASSUME TypeOK, NEW c \in 0..Len(stream), At(c), Takes(c), ProcessBuffer
    PROVE  /\ delivered' \in Seq(DOMAIN stream)
           /\ (Abstract!Last)' \in Nat /\ (Abstract!Last)' <= c + 1
           /\ \A k \in (Abstract!Last)' + 1 .. c + 1 : \E b \in 1..k : ~IsGood(b)
           /\ IsGood(c + 1) =>
                 looping' = TRUE
                 /\ (delivered = [k \in 1..c |-> k] => delivered' = [k \in 1..c + 1 |-> k])
  <1> DEFINE json == DoProcessBuffer(buffer).json
             e == c + 1
  <1>0. stream \in Streams /\ delivered \in Seq(DOMAIN stream)
      BY DEF TypeOK
  <1>1. /\ looping' = (json # 0)
        /\ delivered' = IF json # 0 THEN Append(delivered, json) ELSE delivered
      BY ProcessResult
  <1>2. json = IF stream[e].json \in 1..stream[e].says THEN e ELSE 0
      BY DEF Takes
  <1>3. /\ Len(stream) \in Nat /\ DOMAIN stream = 1..Len(stream) /\ c \in Nat /\ e \in Nat
        /\ e \in DOMAIN stream /\ e # 0 /\ c < e
      BY <1>0, StreamType DEF Takes
  <1>4. IsGood(e) => stream[e].json \in 1..stream[e].says
      BY DEF IsGood, RightLength
  <1>5. /\ Abstract!Last \in Nat /\ Abstract!Last <= c
        /\ \A k \in Abstract!Last + 1 .. c : \E b \in 1..k : ~IsGood(b)
      BY LastType DEF At, DeliveredUpTo
  <1> HIDE DEF json
  <1>6. CASE stream[e].json \in 1..stream[e].says
      <2>1. delivered' = Append(delivered, e) /\ looping' = TRUE
          BY <1>1, <1>2, <1>3, <1>6
      <2>2. /\ delivered' \in Seq(DOMAIN stream) /\ delivered' # <<>>
            /\ delivered'[Len(delivered')] = e
            /\ delivered = [k \in 1..c |-> k] => delivered' = [k \in 1..e |-> k]
          <3>1. /\ Append(delivered, c + 1) \in Seq(DOMAIN stream) /\ Append(delivered, c + 1) # <<>>
                /\ Append(delivered, c + 1)[Len(Append(delivered, c + 1))] = c + 1
                /\ delivered = [k \in 1..c |-> k]
                    => Append(delivered, c + 1) = [k \in 1..c + 1 |-> k]
              BY <1>0, <1>3, DeliveredNext
          <3> QED
              BY <2>1, <3>1
      <2>3. (Abstract!Last)' = e
          BY <2>2 DEF Abstract!Last
      <2>4. (Abstract!Last)' + 1 .. e = {}
          BY <1>3, <2>3
      <2>5. (Abstract!Last)' \in Nat /\ (Abstract!Last)' <= e
          BY <1>3, <2>3
      <2> QED
          BY <2>1, <2>2, <2>4, <2>5
  <1>7. CASE ~(stream[e].json \in 1..stream[e].says)
      <2>1. delivered' = delivered
          BY <1>1, <1>2, <1>7
      <2>2. ~IsGood(e)
          BY <1>4, <1>7
      <2>3. (Abstract!Last)' = Abstract!Last
          BY <2>1 DEF Abstract!Last
      <2> DEFINE last == Abstract!Last
      <2> HIDE DEF last
      <2>4. ASSUME NEW k \in last + 1 .. e PROVE \E b \in 1..k : ~IsGood(b)
          <3>1. last \in Nat
              BY <1>5 DEF last
          <3>2. k \in last + 1 .. c \/ (k = e /\ e \in 1..k)
              BY <1>3, <3>1
          <3> QED
              BY <1>5, <2>2, <3>2 DEF last
      <2>5. Abstract!Last <= e
          BY <1>3, <1>5
      <2> QED
          BY <1>0, <1>5, <2>1, <2>2, <2>3, <2>4, <2>5 DEF last
  <1> QED
      BY <1>6, <1>7

\* A step that takes a message: by its own length, by a wrong length that ends
\* where another message does, or by one that ends inside a message.
LEMMA StepTakes ==
    ASSUME TypeOK, NEW c \in 0..Len(stream), At(c), Takes(c), ProcessBuffer
    PROVE  TypeOK' /\ Framing'
  <1> DEFINE e == c + 1
             q == CutAt(c)
             last == (Abstract!Last)'
  <1>0. stream \in Streams /\ arrived \in 0..Len(Wire)
      BY DEF TypeOK
  <1>1. /\ stream' = stream /\ arrived' = arrived
        /\ looping' = (DoProcessBuffer(buffer).json # 0)
        /\ buffer' = SubSeq(Wire, q + 1, arrived)
      BY ProcessResult DEF Takes
  <1>2. /\ delivered' \in Seq(DOMAIN stream) /\ last \in Nat /\ last <= e
        /\ \A k \in last + 1 .. e : \E b \in 1..k : ~IsGood(b)
        /\ IsGood(e) => looping' = TRUE
                        /\ (delivered = [k \in 1..c |-> k] => delivered' = [k \in 1..e |-> k])
      BY TakesDelivers
  <1>3. Wire' = Wire /\ Sent' = Sent /\ WellFormed' = WellFormed /\ \A i : IsGood(i)' = IsGood(i)
      BY <1>1, SameWire
  <1>4. /\ Len(stream) \in Nat /\ DOMAIN stream = 1..Len(stream) /\ c \in Nat /\ e \in Nat
        /\ e \in 1..Len(stream) /\ e \in 0..Len(stream) /\ c \in 0..Len(stream) - 1
      BY <1>0, StreamType DEF Takes
  <1>5. /\ Wire \in Seq(Unit) /\ Len(Wire) \in Nat /\ arrived \in Nat /\ arrived <= Len(Wire)
        /\ \A d \in 0..Len(stream) : Len(Sent[d]) \in Nat
      BY <1>0, SentRun
  <1>6. q \in Nat /\ Len(Sent[c]) < q /\ q <= arrived /\ stream[e].says \in Int
      <2>1. stream[e].says \in Int /\ stream[e].says > 0 /\ q <= arrived
            /\ q = Len(Sent[c]) + (2 + stream[e].says) /\ Len(Sent[c]) \in Nat
          BY <1>0, <1>4, <1>5, StreamType DEF Takes, CutAt
      <2> HIDE DEF q, e
      <2> QED
          BY <1>5, <2>1
  <1>7. Len(buffer') = arrived - q /\ buffer' \in Seq(Unit)
        /\ \A k \in 1..arrived - q : buffer'[k] = Wire[q + k]
      <2> HIDE DEF q
      <2>1. q + 1 \in Nat \ {0} /\ q + 1 <= arrived + 1 /\ arrived - (q + 1) + 1 = arrived - q
            /\ \A k \in 1..arrived - q : (q + 1) + k - 1 = q + k
          BY <1>5, <1>6
      <2>2. /\ SubSeq(Wire, q + 1, arrived) \in Seq(Unit)
            /\ Len(SubSeq(Wire, q + 1, arrived)) = arrived - (q + 1) + 1
            /\ \A i \in 1..arrived - (q + 1) + 1 :
                  SubSeq(Wire, q + 1, arrived)[i] = Wire[(q + 1) + i - 1]
          <3> DEFINE a == q + 1
          <3>1. a \in Nat \ {0} /\ a <= arrived + 1
              BY <2>1
          <3> HIDE DEF a
          <3>2. /\ SubSeq(Wire, a, arrived) \in Seq(Unit)
                /\ Len(SubSeq(Wire, a, arrived)) = arrived - a + 1
                /\ \A i \in 1..arrived - a + 1 : SubSeq(Wire, a, arrived)[i] = Wire[a + i - 1]
              BY <1>5, <3>1, Piece
          <3> QED
              BY <3>2 DEF a
      <2> QED
          BY <1>1, <2>1, <2>2
  <1>8. TypeOK'
      BY <1>0, <1>1, <1>2, <1>3, <1>7 DEF TypeOK
  <1>9. CASE RightLength(e)
      <2>1. q = Len(Sent[e])
          <3>1. Len(Frame(e)) = 2 + stream[e].len /\ Len(Sent[e]) = Len(Sent[c]) + Len(Frame(e))
              BY <1>0, <1>4, OnWire, FrameUnits
          <3>2. stream[e].says = stream[e].len
              BY <1>9 DEF RightLength
          <3> QED
              BY <3>1, <3>2 DEF CutAt
      <2>2. Aligned(e)'
          BY <1>1, <1>3, <1>4, <1>6, <2>1 DEF Aligned
      <2>3. WellFormed => IsGood(e)
          BY <1>4 DEF WellFormed
      <2>4. WellFormed => delivered' = [k \in 1..e |-> k]
          BY <1>2, <2>3 DEF At, DeliveredUpTo
      <2>5. DeliveredUpTo(e)'
          BY <1>2, <1>3, <2>4 DEF DeliveredUpTo
      <2>6. Waiting(e)'
          BY <1>2, <1>3, <2>3 DEF Waiting
      <2>7. e \in 0..Len(stream')
          BY <1>1, <1>4
      <2> HIDE DEF e
      <2> QED
          BY <1>8, <2>2, <2>5, <2>6, <2>7 DEF Framing
  <1>10. CASE ~RightLength(e)
      <2>1. ~IsGood(e) /\ ~WellFormed /\ ~WellFormed'
          BY <1>3, <1>4, <1>10 DEF IsGood, WellFormed
      <2>2. q \in 0..Len(Wire)
          BY <1>5, <1>6
      <2> HIDE DEF q, e, last
      <2>3. CASE \E d \in 0..Len(stream) : q = Len(Sent[d])
          <3>1. PICK d \in 0..Len(stream) : q = Len(Sent[d])
              BY <2>3
          <3>2. d \in Nat /\ e <= d
              <4>1. ASSUME d <= c PROVE FALSE
                  <5>1. Len(Sent[d]) <= Len(Sent[c]) /\ c \in 0..Len(stream)
                      BY <1>0, <4>1, SentPrefix
                  <5> QED
                      BY <1>5, <1>6, <3>1, <5>1
              <4> QED
                  BY <1>4, <4>1 DEF e
          <3>3. Aligned(d)'
              BY <1>1, <1>3, <1>6, <3>1 DEF Aligned
          <3>4. ASSUME NEW k \in last + 1 .. d PROVE \E b \in 1..k : ~IsGood(b)
              <4>1. k \in last + 1 .. e \/ e \in 1..k
                  BY <1>2, <1>4, <3>2
              <4> QED
                  BY <1>2, <2>1, <4>1
          <3>5. last <= d
              BY <1>2, <1>4, <3>2
          <3>6. DeliveredUpTo(d)'
              BY <1>3, <2>1, <3>4, <3>5 DEF DeliveredUpTo, last
          <3>7. Waiting(d)'
              BY <2>1 DEF Waiting
          <3>8. d \in 0..Len(stream')
              BY <1>1
          <3> QED
              BY <1>8, <3>3, <3>6, <3>7, <3>8 DEF Framing
      <2>4. CASE \E d \in 0..Len(stream) - 1 : Len(Sent[d]) < q /\ q < Len(Sent[d + 1])
          <3>1. PICK d \in 0..Len(stream) - 1 : Len(Sent[d]) < q /\ q < Len(Sent[d + 1])
              BY <2>4
          <3>2. CASE q = arrived
              <4>1. Len(buffer') = 0
                  BY <1>5, <1>7, <3>2
              <4>2. buffer' = <<>>
                  BY <1>7, <4>1, EmptySeq
              <4>3. Adrift'
                  BY <1>1, <1>3, <3>1, <3>2, <4>2 DEF Adrift
              <4> QED
                  BY <1>8, <2>1, <4>3 DEF Framing
          <3>3. CASE q # arrived
              <4>1. Wire[q + 1].part # "header"
                  BY <1>0, <1>6, <3>1, NotAHeader
              <4>2. 1 \in 1..arrived - q /\ Len(buffer') >= 1
                  BY <1>5, <1>6, <1>7, <3>3
              <4>3. buffer'[1] = Wire[q + 1]
                  BY <1>7, <4>2
              <4>4. Headless'
                  BY <4>1, <4>2, <4>3 DEF Headless
              <4> QED
                  BY <1>8, <2>1, <4>4 DEF Framing, Stuck
          <3> QED
              BY <3>2, <3>3
      <2> QED
          BY <1>0, <2>2, <2>3, <2>4, Place
  <1> QED
      BY <1>9, <1>10

\* A step that finds the next message incomplete.
LEMMA StepIncomplete ==
    ASSUME TypeOK, NEW c \in 0..Len(stream), At(c), Incomplete(c), ProcessBuffer
    PROVE  TypeOK' /\ At(c)'
  <1>1. DoProcessBuffer(buffer).json = 0 /\ DoProcessBuffer(buffer).rest = buffer
      BY DEF Incomplete
  <1>2. /\ stream' = stream /\ arrived' = arrived /\ looping' = FALSE
        /\ buffer' = buffer /\ delivered' = delivered
      BY <1>1, ProcessResult
  <1>3. Wire' = Wire /\ Sent' = Sent /\ WellFormed' = WellFormed /\ \A i : IsGood(i)' = IsGood(i)
      BY <1>2, SameWire
  <1>4. (Abstract!Last)' = Abstract!Last
      BY <1>2 DEF Abstract!Last
  <1>5. Aligned(c)' /\ DeliveredUpTo(c)'
      BY <1>2, <1>3, <1>4 DEF At, Aligned, DeliveredUpTo
  <1>6. Waiting(c)'
      <2>1. (WellFormed /\ c < Len(stream)) => RightLength(c + 1)
          BY StreamType DEF WellFormed, IsGood, TypeOK
      <2> QED
          BY <1>2, <1>3, <2>1 DEF Incomplete, Waiting
  <1>7. TypeOK'
      BY <1>2, <1>3 DEF TypeOK
  <1> QED
      BY <1>2, <1>5, <1>6, <1>7 DEF At

\* A step on a stuck buffer.
LEMMA StepStuck ==
    ASSUME TypeOK, Stuck, ProcessBuffer
    PROVE  TypeOK' /\ Stuck' /\ delivered' = delivered
  <1>1. stream \in Streams /\ buffer \in Seq(Unit) /\ Len(buffer) \in Nat /\ Len(buffer) >= 1
      BY LenProperties DEF TypeOK, Stuck, Headless, Barred
  <1>2. /\ stream' = stream /\ arrived' = arrived /\ looping' = FALSE /\ delivered' = delivered
        /\ buffer' = DoProcessBuffer(buffer).rest
      BY <1>1, ProcessStuck, ProcessResult
  <1>3. Wire' = Wire
      BY <1>2, SameWire
  <1>4. /\ buffer' \in Seq(Unit) /\ Len(buffer') >= 1 /\ buffer'[1] = buffer[1]
        /\ Headless \/ (Len(buffer') >= 2 /\ buffer'[2] = buffer[2])
      <2>1. CASE buffer' = buffer
          BY <1>1, <2>1 DEF Stuck, Barred
      <2>2. ASSUME NEW h \in 1..Len(buffer), buffer' = SubSeq(buffer, 1, h)
            PROVE  /\ buffer' \in Seq(Unit) /\ Len(buffer') >= 1 /\ buffer'[1] = buffer[1]
                   /\ h >= 2 => Len(buffer') >= 2 /\ buffer'[2] = buffer[2]
          <3> DEFINE r == SubSeq(buffer, 1, h)
          <3>1. r \in Seq(Unit) /\ Len(r) = h /\ \A k \in 1..h : r[k] = buffer[k]
              BY <1>1, FrontUnits
          <3> HIDE DEF r
          <3>2. buffer' = r
              BY <2>2 DEF r
          <3>3. 1 \in 1..h /\ (h >= 2 => 2 \in 1..h)
              BY <1>1
          <3> QED
              BY <3>1, <3>2, <3>3
      <2>3. CASE Barred /\ buffer' = SubSeq(buffer, 1, 2)
          <3>1. 2 \in 1..Len(buffer) /\ 2 >= 2
              BY <1>1, <2>3 DEF Barred
          <3> QED
              BY <2>2, <2>3, <3>1
      <2>4. CASE Headless /\ \E h \in 1..Len(buffer) : buffer' = SubSeq(buffer, 1, h)
          BY <2>2, <2>4
      <2> QED
          BY <1>1, <1>2, <2>1, <2>3, <2>4, ProcessStuck
  <1>5. Stuck'
      BY <1>2, <1>4, StuckStays
  <1>6. TypeOK'
      BY <1>2, <1>3, <1>4 DEF TypeOK
  <1> QED
      BY <1>2, <1>5, <1>6

\* DoProcessBuffer takes nothing from an empty buffer.
LEMMA StepAdrift ==
    ASSUME TypeOK, Adrift, ProcessBuffer
    PROVE  TypeOK' /\ Adrift' /\ delivered' = delivered
  <1>1. buffer = <<>> /\ buffer \in Seq(Unit) /\ Len(buffer) = 0
      BY EmptySeq DEF Adrift, TypeOK
  <1>2. ReadHeaders(buffer) = -1
      <2>1. Len(buffer) < 2 /\ Len(buffer) # 1
          BY <1>1
      <2> QED
          BY <1>1, <2>1, HeadersMissing
  <1>3. DoProcessBuffer(buffer) = [json |-> 0, rest |-> buffer]
      BY <1>2 DEF DoProcessBuffer
  <1>4. /\ stream' = stream /\ arrived' = arrived /\ looping' = FALSE /\ delivered' = delivered
        /\ buffer' = buffer
      <2>1. DoProcessBuffer(buffer).json = 0 /\ DoProcessBuffer(buffer).rest = buffer
          BY <1>3
      <2> QED
          BY <2>1, ProcessResult
  <1>5. Wire' = Wire /\ Sent' = Sent
      BY <1>4, SameWire
  <1>6. TypeOK' /\ Adrift'
      BY <1>4, <1>5 DEF TypeOK, Adrift
  <1> QED
      BY <1>4, <1>6

\* A chunk that arrives.
LEMMA StepReceive ==
    ASSUME Inv, NEW n \in 1..MaxChunk, AppendBuffer(n)
    PROVE  TypeOK' /\ Framing'
  <1>0. n \in Nat
      BY MaxChunkAssumption
  <1>1. /\ stream' = stream /\ arrived' = arrived + n /\ arrived + n <= Len(Wire)
        /\ buffer' = buffer \o SubSeq(Wire, arrived + 1, arrived + n)
        /\ looping' = TRUE /\ delivered' = delivered
      BY DEF AppendBuffer
  <1>2. stream \in Streams /\ arrived \in 0..Len(Wire) /\ buffer \in Seq(Unit)
      BY DEF Inv, TypeOK
  <1>3. Wire' = Wire /\ Sent' = Sent /\ WellFormed' = WellFormed /\ \A i : IsGood(i)' = IsGood(i)
      BY <1>1, SameWire
  <1>4. Wire \in Seq(Unit) /\ Len(Wire) \in Nat /\ arrived \in Nat
      BY <1>2, SentRun
  <1> DEFINE chunk == SubSeq(Wire, arrived + 1, arrived + n)
  <1>5. chunk \in Seq(Unit)
      <2> DEFINE a == arrived + 1
                 e == arrived + n
      <2>1. a \in Nat \ {0} /\ e \in Nat /\ a <= e + 1 /\ e <= Len(Wire)
          BY <1>0, <1>1, <1>4
      <2> HIDE DEF a, e
      <2>2. SubSeq(Wire, a, e) \in Seq(Unit)
          BY <1>4, <2>1, Piece
      <2> QED
          BY <2>2 DEF a, e
  <1> HIDE DEF chunk
  <1>6. buffer' = buffer \o chunk
      BY <1>1 DEF chunk
  <1>7. buffer' \in Seq(Unit)
      BY <1>2, <1>5, <1>6, ConcatProperties
  <1>8. TypeOK'
      <2>1. arrived' \in 0..Len(Wire)
          BY <1>0, <1>1, <1>4
      <2> QED
          BY <1>1, <1>3, <1>7, <2>1 DEF Inv, TypeOK
  <1>9. CASE ~WellFormed /\ Stuck
      <2>1. /\ Len(buffer') = Len(buffer) + Len(chunk) /\ Len(buffer) \in Nat /\ Len(chunk) \in Nat
            /\ \A k \in 1..Len(buffer) : buffer'[k] = buffer[k]
          BY <1>2, <1>5, <1>6, ConcatBegins
      <2>2. Len(buffer) >= 1 /\ (Headless \/ Len(buffer) >= 2)
          BY <1>9, <2>1 DEF Stuck, Headless, Barred
      <2>3. /\ Len(buffer') >= 1 /\ 1 \in 1..Len(buffer)
            /\ Len(buffer) >= 2 => Len(buffer') >= 2 /\ 2 \in 1..Len(buffer)
          BY <2>1, <2>2
      <2>4. Stuck'
          BY <1>1, <1>9, <2>1, <2>2, <2>3, StuckStays
      <2> QED
          BY <1>3, <1>8, <1>9, <2>4 DEF Framing
  <1>10. CASE ~WellFormed /\ Adrift
      <2>1. PICK c \in 0..Len(stream) - 1 : Len(Sent[c]) < arrived /\ arrived < Len(Sent[c + 1])
          BY <1>10 DEF Adrift
      <2>2. Wire[arrived + 1].part # "header"
          BY <1>2, <1>4, <2>1, NotAHeader
      <2>3. buffer' = chunk
          BY <1>5, <1>6, <1>10, ConcatEmptySeq DEF Adrift
      <2>4. Len(chunk) >= 1 /\ chunk[1] = Wire[arrived + 1]
          <3> DEFINE a == arrived + 1
                     e == arrived + n
          <3>1. a \in Nat \ {0} /\ e \in Nat /\ a <= e + 1 /\ e <= Len(Wire) /\ 1 \in 1..e - a + 1
                /\ e - a + 1 >= 1 /\ a + 1 - 1 = a
              BY <1>0, <1>1, <1>4
          <3> HIDE DEF a, e
          <3>2. /\ Len(SubSeq(Wire, a, e)) = e - a + 1
                /\ \A i \in 1..e - a + 1 : SubSeq(Wire, a, e)[i] = Wire[a + i - 1]
              BY <1>4, <3>1, Piece
          <3>3. chunk = SubSeq(Wire, a, e)
              BY DEF chunk, a, e
          <3>4. chunk[1] = Wire[a]
              BY <3>1, <3>2, <3>3
          <3> QED
              BY <3>1, <3>2, <3>3, <3>4 DEF a
      <2>5. Headless'
          BY <2>2, <2>3, <2>4 DEF Headless
      <2> QED
          BY <1>3, <1>8, <1>10, <2>5 DEF Framing, Stuck
  <1>11. CASE \E c \in 0..Len(stream) : Aligned(c) /\ DeliveredUpTo(c)
      <2>1. PICK c \in 0..Len(stream) : Aligned(c) /\ DeliveredUpTo(c)
          BY <1>11
      <2>2. buffer' = SubSeq(Wire, Len(Sent[c]) + 1, arrived + n)
          BY <1>0, <1>1, <1>2, <2>1, AppendAligned
      <2>3. Len(Sent[c]) <= arrived /\ Len(Sent[c]) \in Nat
          BY <1>2, <2>1, SentRun DEF Aligned
      <2>4. Len(Sent[c]) <= arrived + n
          BY <1>0, <1>4, <2>3
      <2>5. Aligned(c)'
          BY <1>1, <1>3, <2>2, <2>4 DEF Aligned
      <2>6. (Abstract!Last)' = Abstract!Last
          BY <1>1 DEF Abstract!Last
      <2>7. DeliveredUpTo(c)'
          BY <1>1, <1>3, <2>1, <2>6 DEF DeliveredUpTo
      <2>8. Waiting(c)'
          BY <1>1 DEF Waiting
      <2>9. c \in 0..Len(stream')
          BY <1>1
      <2> QED
          BY <1>8, <2>5, <2>7, <2>8, <2>9 DEF Framing
  <1> QED
      BY <1>9, <1>10, <1>11 DEF Inv, Framing

\* A turn of ProcessBuffer.
LEMMA StepProcess ==
    ASSUME Inv, ProcessBuffer
    PROVE  TypeOK' /\ Framing'
  <1>1. TypeOK /\ stream \in Streams /\ arrived \in 0..Len(Wire) /\ buffer \in Seq(Unit)
      BY DEF Inv, TypeOK
  <1>2. stream' = stream
      BY ProcessResult
  <1>3. WellFormed' = WellFormed
      BY <1>2, SameWire
  <1>4. CASE ~WellFormed /\ Stuck
      BY <1>1, <1>3, <1>4, StepStuck DEF Framing
  <1>5. CASE ~WellFormed /\ Adrift
      BY <1>1, <1>3, <1>5, StepAdrift DEF Framing
  <1>6. CASE \E c \in 0..Len(stream) : At(c)
      <2>1. PICK c \in 0..Len(stream) : At(c)
          BY <1>6
      <2>2. Incomplete(c) \/ Hangs(c) \/ Takes(c)
          BY <1>1, <2>1, ProcessAligned DEF At
      <2>3. CASE Incomplete(c)
          BY <1>1, <2>1, <2>3, StepIncomplete DEF Framing, At
      <2>4. CASE Hangs(c)
          <3>1. ~WellFormed
              BY <1>1, <2>4, StreamType DEF Hangs, WellFormed
          <3> QED
              BY <1>1, <1>3, <2>4, <3>1, StepStuck DEF Hangs, Stuck, Framing
      <2>5. CASE Takes(c)
          BY <1>1, <2>1, <2>5, StepTakes
      <2> QED
          BY <2>2, <2>3, <2>4, <2>5
  <1> QED
      BY <1>4, <1>5, <1>6 DEF Inv, Framing, At

\* The invariant holds of a new connection.
LEMMA InitInv ==
    ASSUME Init
    PROVE  Inv
  <1>1. /\ stream \in Streams /\ arrived = 0 /\ buffer = <<>> /\ looping = FALSE
        /\ delivered = <<>>
      BY DEF Init
  <1>2. /\ Wire \in Seq(Unit) /\ Len(Wire) \in Nat /\ Sent[0] = <<>> /\ Len(stream) \in Nat
        /\ Len(Sent[0]) = 0
      BY <1>1, SentRun, StreamType, EmptySeq
  <1>3. TypeOK
      <2>1. arrived \in 0..Len(Wire)
          BY <1>1, <1>2
      <2>3. looping \in BOOLEAN
          BY <1>1, Zenon
      <2>2. buffer \in Seq(Unit) /\ delivered \in Seq(DOMAIN stream)
          BY <1>1, EmptySeq
      <2> QED
          BY <1>1, <2>1, <2>2, <2>3 DEF TypeOK
  <1>4. Aligned(0)
      <2>1. SubSeq(Wire, 0 + 1, 0) = <<>>
          BY SubSeqEmpty
      <2>2. 0 \in 0..Len(stream)
          BY <1>2
      <2> QED
          BY <1>1, <1>2, <2>1, <2>2 DEF Aligned
  <1>5. DeliveredUpTo(0)
      <2>1. Abstract!Last = 0
          BY <1>1 DEF Abstract!Last
      <2>2. [k \in 1..0 |-> k] = <<>> /\ 0 + 1 .. 0 = {}
          OBVIOUS
      <2> QED
          BY <1>1, <2>1, <2>2 DEF DeliveredUpTo
  <1>6. ASSUME 0 < Len(stream) PROVE arrived < Len(Sent[0 + 1])
      <2>1. 0 \in 0..Len(stream) - 1
          BY <1>2, <1>6
      <2>2. Len(Sent[0 + 1]) = Len(Sent[0]) + Len(Frame(0 + 1)) /\ 0 + 1 \in DOMAIN stream
          BY <1>1, <2>1, OnWire
      <2>3. Len(Frame(0 + 1)) = 2 + stream[0 + 1].len /\ stream[0 + 1].len \in Nat
          BY <1>1, <2>2, FrameUnits, StreamType
      <2> QED
          BY <1>1, <1>2, <2>2, <2>3
  <1>7. Waiting(0)
      BY <1>6 DEF Waiting
  <1>8. 0 \in 0..Len(stream)
      BY <1>2
  <1> QED
      BY <1>3, <1>4, <1>5, <1>7, <1>8 DEF Inv, Framing

\* Every step keeps the invariant.
LEMMA NextInv ==
    ASSUME Inv, [Next]_vars
    PROVE  Inv'
  <1>1. CASE Receive
      BY <1>1, StepReceive DEF Receive, Inv
  <1>2. CASE ProcessBuffer
      BY <1>2, StepProcess DEF Inv
  <1>3. CASE UNCHANGED vars
      <2>1. /\ stream' = stream /\ arrived' = arrived /\ buffer' = buffer
            /\ looping' = looping /\ delivered' = delivered
          BY <1>3 DEF vars
      <2>2. /\ Wire' = Wire /\ Sent' = Sent /\ WellFormed' = WellFormed
            /\ \A i : IsGood(i)' = IsGood(i)
          BY <2>1, SameWire
      <2>3. (Abstract!Last)' = Abstract!Last
          BY <2>1 DEF Abstract!Last
      <2>4. TypeOK'
          BY <2>1, <2>2 DEF Inv, TypeOK
      <2>5. (Stuck => Stuck') /\ (Adrift => Adrift')
          BY <2>1, <2>2 DEF Stuck, Headless, Barred, Adrift
      <2>6. ASSUME NEW c \in 0..Len(stream), Aligned(c), DeliveredUpTo(c), Waiting(c)
            PROVE  Aligned(c)' /\ DeliveredUpTo(c)' /\ Waiting(c)'
          BY <2>1, <2>2, <2>3, <2>6 DEF Aligned, DeliveredUpTo, Waiting
      <2>7. Framing'
          BY <2>1, <2>2, <2>5, <2>6 DEF Inv, Framing
      <2> QED
          BY <2>4, <2>7 DEF Inv
  <1> QED
      BY <1>1, <1>2, <1>3 DEF Next, Done

\* The invariant of the framing layer.
LEMMA Invariance == Spec => []Inv
  <1>1. Init => Inv
      BY InitInv
  <1>2. Inv /\ [Next]_vars => Inv'
      BY NextInv
  <1> QED
      BY <1>1, <1>2, PTL DEF Spec

----------------------------------------------------------------------------
(* The properties.                                                         *)

\* The concatenation of the first frames is a prefix of the wire.
LEMMA FlattenPrefix ==
    ASSUME stream \in Streams, NEW i \in 0..Len(stream)
    PROVE  FlattenSeq([k \in 1..i |-> Frame(k)]) = Sent[i]
  <1> DEFINE ss == [k \in 1..i |-> Frame(k)]
             run == [j \in 0..i |-> Sent[j]]
  <1>1. /\ Len(stream) \in Nat /\ i \in Nat /\ \A k \in 1..i : k \in 1..Len(stream)
        /\ DOMAIN stream = 1..Len(stream)
      BY StreamType
  <1>2. \A k \in 1..i : Frame(k) \in Seq(Unit)
      BY <1>1, FrameUnits
  <1>3. ss \in Seq(Seq(Unit)) /\ Len(ss) = i
      BY <1>1, <1>2, IsASeq
  <1>4. \A k \in 1..i : ss[k] = Frame(k)
      OBVIOUS
  <1>5. \A j \in 0..i : run[j] = Sent[j]
      OBVIOUS
  <1>6. Sent[0] = <<>> /\ \A j \in 0..i : Sent[j] \in Seq(Unit)
      BY <1>1, SentRun
  <1>7. \A k \in 1..i : Sent[k] = Sent[k - 1] \o Frame(k)
      <2>1. IsRun(Sent, Frames, Unit) /\ Len(Frames) = Len(stream)
            /\ \A k \in 1..Len(stream) : Frames[k] = Frame(k)
          BY SentRun, FramesType
      <2>2. \A k \in 1..Len(stream) : Sent[k] = Sent[k - 1] \o Frames[k]
          BY <2>1 DEF IsRun
      <2> QED
          BY <1>1, <2>1, <2>2, Zenon
  <1>8. run \in [0..i -> Seq(Unit)]
      BY <1>6
  <1> HIDE DEF ss, run
  <1>9. 0 \in 0..i /\ i \in 0..i /\ \A k \in 1..i : k \in 0..i /\ k - 1 \in 0..i
      BY <1>1
  <1>10. run[0] = <<>> /\ \A k \in 1..i : run[k] = run[k - 1] \o ss[k]
      BY <1>4, <1>5, <1>6, <1>7, <1>9, Zenon
  <1>11. IsRun(run, ss, Unit)
      BY <1>3, <1>8, <1>10 DEF IsRun
  <1>12. FlattenSeq(ss) = run[i]
      BY <1>3, <1>11, FlattenIsRun
  <1> QED
      BY <1>5, <1>9, <1>12 DEF ss

\* A well-formed stream never gets stuck.
LEMMA WellFormedAt ==
    ASSUME Inv, WellFormed
    PROVE  \E c \in 0..Len(stream) : At(c) /\ delivered = [k \in 1..c |-> k]
  BY DEF Inv, Framing, At, DeliveredUpTo

\* What is complete and what is not.
LEMMA CompleteAt ==
    ASSUME Inv, WellFormed, ~looping, NEW c \in 0..Len(stream), At(c), NEW i \in DOMAIN stream
    PROVE  i <= c <=> Complete(i)
  <1>1. stream \in Streams /\ arrived \in Nat
      <2>1. stream \in Streams /\ arrived \in 0..Len(Wire)
          BY DEF Inv, TypeOK
      <2> QED
          BY <2>1, SentRun
  <1>2. /\ Len(stream) \in Nat /\ i \in 0..Len(stream) /\ i \in Nat /\ i <= Len(stream)
        /\ c \in Nat /\ c <= Len(stream)
      BY <1>1, StreamType
  <1>3. Complete(i) <=> Len(Sent[i]) <= arrived
      BY <1>1, <1>2, FlattenPrefix DEF Complete
  <1>4. Len(Sent[i]) \in Nat /\ Len(Sent[c]) \in Nat /\ Len(Sent[c]) <= arrived
      BY <1>1, <1>2, SentRun DEF At, Aligned
  <1>5. ASSUME i <= c PROVE Len(Sent[i]) <= arrived
      <2>1. Len(Sent[i]) <= Len(Sent[c])
          BY <1>1, <1>2, <1>5, SentPrefix
      <2> QED
          BY <1>1, <1>4, <2>1
  <1>6. ASSUME ~(i <= c) PROVE ~(Len(Sent[i]) <= arrived)
      <2>1. c < Len(stream) /\ c + 1 \in 0..Len(stream) /\ c + 1 <= i
          BY <1>2, <1>6
      <2>2. arrived < Len(Sent[c + 1]) /\ Len(Sent[c + 1]) \in Nat
          BY <1>1, <2>1, SentRun DEF At, Waiting
      <2>3. Len(Sent[c + 1]) <= Len(Sent[i])
          BY <1>1, <1>2, <2>1, SentPrefix
      <2> QED
          BY <1>1, <1>4, <2>2, <2>3
  <1> QED
      BY <1>3, <1>5, <1>6

\* The invariant tells what is delivered when ProcessBuffer returns.
LEMMA InvDelivers ==
    ASSUME Inv
    PROVE  DeliversWhatIsComplete
  <1> SUFFICES ASSUME WellFormed, ~looping
               PROVE  /\ delivered = [k \in 1..Len(delivered) |-> k]
                      /\ \A i \in DOMAIN stream : i <= Len(delivered) <=> Complete(i)
      BY DEF DeliversWhatIsComplete
  <1>1. PICK c \in 0..Len(stream) : At(c) /\ delivered = [k \in 1..c |-> k]
      BY WellFormedAt
  <1>2. c \in Nat
      BY StreamType DEF Inv, TypeOK
  <1>3. Len(delivered) = c
      BY <1>1, <1>2
  <1>4. \A i \in DOMAIN stream : i <= c <=> Complete(i)
      BY <1>1, CompleteAt
  <1> QED
      BY <1>1, <1>3, <1>4

\* A prefix of the wire as a piece of it.
LEMMA SentPiece ==
    ASSUME stream \in Streams, NEW c \in 0..Len(stream)
    PROVE  Sent[c] = SubSeq(Wire, 1, Len(Sent[c]))
  <1> DEFINE n == Len(Sent[c])
             piece == SubSeq(Wire, 1, n)
  <1>1. /\ Sent[c] \in Seq(Unit) /\ Wire = Sent[Len(stream)] /\ Wire \in Seq(Unit)
        /\ n \in Nat /\ Len(stream) \in Nat
      BY SentRun, StreamType
  <1>2. n <= Len(Wire) /\ \A k \in 1..n : Wire[k] = Sent[c][k]
      <2>1. Len(stream) \in 0..Len(stream) /\ c <= Len(stream)
          BY <1>1
      <2> QED
          BY <1>1, <2>1, SentPrefix
  <1> HIDE DEF n
  <1>3. 1 <= n + 1 /\ n - 1 + 1 = n /\ \A k \in 1..n : 1 + k - 1 = k
      BY <1>1
  <1>4. /\ piece \in Seq(Unit) /\ Len(piece) = n
        /\ \A k \in 1..n : piece[k] = Wire[1 + k - 1]
      BY <1>1, <1>2, <1>3, Piece
  <1> HIDE DEF piece
  <1>5. \A k \in 1..n : piece[k] = Sent[c][k]
      BY <1>2, <1>3, <1>4
  <1>6. Len(Sent[c]) = n
      BY DEF n
  <1>7. piece = Sent[c]
      BY <1>1, <1>4, <1>5, <1>6, SeqEqual
  <1> QED
      BY <1>7 DEF piece, n

\* The invariant accounts for every unit of the wire.
LEMMA InvNothingLost ==
    ASSUME Inv
    PROVE  NothingLost
  <1> SUFFICES ASSUME WellFormed
               PROVE  FlattenSeq([k \in DOMAIN delivered |-> Frame(delivered[k])])
                          \o buffer \o SubSeq(Wire, arrived + 1, Len(Wire)) = Wire
      BY DEF NothingLost
  <1>1. PICK c \in 0..Len(stream) : At(c) /\ delivered = [k \in 1..c |-> k]
      BY WellFormedAt
  <1> DEFINE b == Len(Sent[c])
             w == Len(Wire)
  <1>2. stream \in Streams /\ arrived \in 0..w
      BY DEF Inv, TypeOK
  <1>3. /\ Wire \in Seq(Unit) /\ w \in Nat /\ b \in Nat /\ b <= arrived
        /\ buffer = SubSeq(Wire, b + 1, arrived)
      BY <1>1, <1>2, SentRun DEF At, Aligned
  <1>4. [k \in DOMAIN delivered |-> Frame(delivered[k])] = [k \in 1..c |-> Frame(k)]
      BY <1>1
  <1>5. FlattenSeq([k \in DOMAIN delivered |-> Frame(delivered[k])]) = SubSeq(Wire, 1, b)
      BY <1>2, <1>4, FlattenPrefix, SentPiece
  <1> HIDE DEF b, w
  <1>6. SubSeq(Wire, 1, b) \o SubSeq(Wire, b + 1, arrived) = SubSeq(Wire, 1, arrived)
      <2>1. 1 \in 1..Len(Wire) + 1 /\ b \in 1 - 1..Len(Wire) /\ arrived \in b..Len(Wire)
          BY <1>2, <1>3 DEF w
      <2> QED
          BY <1>3, <2>1, ConcatAdjacentSubSeq
  <1>7. SubSeq(Wire, 1, arrived) \o SubSeq(Wire, arrived + 1, w) = SubSeq(Wire, 1, w)
      <2>1. 1 \in 1..Len(Wire) + 1 /\ arrived \in 1 - 1..Len(Wire) /\ w \in arrived..Len(Wire)
          BY <1>2, <1>3 DEF w
      <2> QED
          BY <1>3, <2>1, ConcatAdjacentSubSeq
  <1>8. SubSeq(Wire, 1, w) = Wire
      BY <1>3, SubSeqFull DEF w
  <1> QED
      BY <1>3, <1>5, <1>6, <1>7, <1>8, Zenon DEF w

\* A turn of ProcessBuffer delivers the next message of the abstract stream, or
\* leaves the abstract stream alone.
LEMMA ProcessDelivers ==
    ASSUME Inv, ProcessBuffer
    PROVE  [Abstract!Next]_(Abstract!vars)
  <1> DEFINE kinds == [i \in DOMAIN stream |-> KindOf(i)]
  <1>1. TypeOK /\ stream \in Streams /\ arrived \in 0..Len(Wire) /\ buffer \in Seq(Unit)
      BY DEF Inv, TypeOK
  <1>2. stream' = stream
      BY ProcessResult
  <1>3. kinds' = kinds
      BY <1>2 DEF KindOf, IsGood, RightLength
  <1>4. CASE delivered' = delivered
      BY <1>3, <1>4 DEF Abstract!vars
  <1>5. CASE delivered' # delivered
      <2>1. ~Stuck /\ ~Adrift
          BY <1>1, <1>5, StepStuck, StepAdrift
      <2>2. PICK c \in 0..Len(stream) : At(c)
          BY <2>1 DEF Inv, Framing, At
      <2>3. Incomplete(c) \/ Hangs(c) \/ Takes(c)
          BY <1>1, <2>2, ProcessAligned DEF At
      <2>4. DoProcessBuffer(buffer).json # 0
            /\ delivered' = Append(delivered, DoProcessBuffer(buffer).json)
          BY <1>5, ProcessResult
      <2>5. Takes(c)
          BY <2>1, <2>3, <2>4 DEF Incomplete, Hangs, Stuck
      <2>6. stream[c + 1].json \in 1..stream[c + 1].says /\ DoProcessBuffer(buffer).json = c + 1
          BY <2>4, <2>5 DEF Takes
      <2>7. /\ c \in Nat /\ c + 1 \in DOMAIN stream /\ (c + 1) - 1 = c
            /\ DOMAIN stream = 1..Len(stream) /\ Len(stream) \in Nat
          BY <1>1, <2>5, StreamType DEF Takes
      <2>8. Abstract!Last \in Nat /\ Abstract!Last <= c
          BY <1>1, <2>2, LastType DEF At, DeliveredUpTo
      <2>9. c + 1 > Abstract!Last
          BY <2>7, <2>8
      <2>10. kinds[c + 1] # "bad"
          <3>1. stream[c + 1].named /\ stream[c + 1].says > 0 /\ stream[c + 1].json > 0
              BY <1>1, <2>5, <2>6, <2>7, StreamType DEF Takes
          <3> QED
              BY <2>7, <3>1 DEF KindOf
      <2>11. ASSUME NEW k \in Abstract!Last + 1 .. (c + 1) - 1
             PROVE  \E b \in 1..k : kinds[b] \in {"bad", "odd"}
          <3>1. k \in Abstract!Last + 1 .. c
              BY <2>7
          <3>2. PICK b \in 1..k : ~IsGood(b)
              BY <2>2, <3>1 DEF At, DeliveredUpTo
          <3>3. b \in DOMAIN stream
              BY <2>7, <2>8, <3>1
          <3>4. kinds[b] \in {"bad", "odd"}
              BY <3>2, <3>3 DEF KindOf
          <3> QED
              BY <3>4
      <2>12. c + 1 \in DOMAIN kinds
          BY <2>7
      <2> HIDE DEF kinds
      <2>13. Abstract!Deliver(c + 1)
          BY <1>3, <2>4, <2>6, <2>9, <2>10, <2>11 DEF kinds, Abstract!Deliver, Abstract!Harmed
      <2> QED
          BY <2>12, <2>13 DEF kinds, Abstract!Next
  <1> QED
      BY <1>4, <1>5

\* Every step of the framing layer is a step of the abstract stream.
LEMMA StepImplements ==
    ASSUME Inv, [Next]_vars
    PROVE  [Abstract!Next]_(Abstract!vars)
  <1>1. CASE ProcessBuffer
      BY <1>1, ProcessDelivers
  <1>2. CASE Receive \/ Done \/ UNCHANGED vars
      <2>1. stream' = stream /\ delivered' = delivered
          BY <1>2 DEF Receive, AppendBuffer, Done, vars
      <2> QED
          BY <2>1 DEF Abstract!vars, KindOf, IsGood, RightLength
  <1> QED
      BY <1>1, <1>2 DEF Next

\* JsonRPC's variables keep their types: the buffer holds nothing but units, and
\* every number handed to the callback is the number of a message the peer sent.
THEOREM TypeCorrect == Spec => []TypeOK
  <1>1. Inv => TypeOK
      BY DEF Inv
  <1> QED
      BY <1>1, Invariance, PTL

\* For every sequence of well-formed messages and every way of cutting it into
\* reads, when ProcessBuffer returns the messages delivered are exactly those that
\* have completely arrived, once each and in order (AppendBuffer, DoProcessBuffer).
THEOREM DeliversComplete == Spec => []DeliversWhatIsComplete
  <1>1. Inv => DeliversWhatIsComplete
      BY InvDelivers
  <1> QED
      BY <1>1, Invariance, PTL

\* At every moment the messages delivered, m_buffer and what has not arrived make
\* up the wire of a well-formed stream (AppendBuffer, m_buffer.erase).
THEOREM NoByteLost == Spec => []NothingLost
  <1>1. Inv => NothingLost
      BY InvNothingLost
  <1> QED
      BY <1>1, Invariance, PTL

\* Whatever the peer sends, with missing, wrong and overflowing lengths and with
\* payloads that are not JSON, every step of the framing layer is a step of
\* MessageStream or leaves it alone: the callback sees parsed messages only, in
\* order and none twice, and a good one is left out only behind a faulty one
\* (DoProcessBuffer, ProcessBuffer).
THEOREM MessagesInOrder == Spec => ImplementsStream
  <1>1. Init => Abstract!Init
      BY DEF Init, Abstract!Init
  <1>2. Inv /\ [Next]_vars => [Abstract!Next]_(Abstract!vars)
      BY StepImplements
  <1> QED
      BY <1>1, <1>2, Invariance, PTL DEF Spec, ImplementsStream, Abstract!Safety

=============================================================================
