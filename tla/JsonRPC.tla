------------------------------ MODULE JsonRPC ------------------------------
(***************************************************************************)
(* dap::JsonRPC: the framing layer.  The peer writes every message as a    *)
(* header, the separator CR LF CR LF and a payload; the network cuts the   *)
(* byte stream into arbitrary chunks; AppendBuffer collects the chunks and *)
(* ProcessBuffer extracts the messages and hands each to a callback.       *)
(*                                                                         *)
(* Text is abstracted to units: one for the header lines, one for the      *)
(* separator, one for every byte of the payload.  A separator or a header  *)
(* line that has only partly arrived is a unit that has not arrived.       *)
(***************************************************************************)
EXTENDS Integers, Sequences, SequencesExt

CONSTANTS
    Streams,    \* the message sequences a peer may send
    MaxChunk,   \* the most units one read returns
    LongMax     \* the largest number of type long

(***************************************************************************)
(* A message of the peer:                                                  *)
(*   named  does a line of the header begin with Content-Length?           *)
(*   says   the number that std::atol reads on that line                   *)
(*   len    the length of the payload that follows                         *)
(*   json   the length of the JSON object at the front of the payload, 0   *)
(*          if there is none: what is behind it is ignored by the parser   *)
(* Content-Length may be missing, 0, negative or not a number (0), too     *)
(* small, too large or close to the largest long; what is really sent is   *)
(* smaller than that.                                                      *)
(***************************************************************************)
Long == -LongMax - 1 .. LongMax

Message ==
    {m \in [named : BOOLEAN, says : Long, len : Nat \ {0}, json : Nat] :
        m.json <= m.len /\ 2 + m.len <= LongMax}

ASSUME StreamsAssumption == \A s \in Streams : s \in Seq(Message)

ASSUME MaxChunkAssumption == MaxChunk \in Nat \ {0}

ASSUME LongAssumption == LongMax \in Nat

VARIABLES
    stream,     \* the messages the peer sends on this connection
    arrived,    \* the number of units of the stream read so far
    buffer,     \* m_buffer
    looping,    \* is ProcessBuffer running?
    delivered   \* the messages handed to the callback, by position in stream

vars == <<stream, arrived, buffer, looping, delivered>>

----------------------------------------------------------------------------
(* The byte stream of the peer.                                            *)

\* JsonRPC::Send: the units of message number i.
Frame(i) ==
    << [msg |-> i, part |-> "header"], [msg |-> i, part |-> "separator"] >>
        \o [k \in 1..stream[i].len |-> [msg |-> i, part |-> "payload"]]

Wire == FlattenSeq([i \in DOMAIN stream |-> Frame(i)])

----------------------------------------------------------------------------
(* DoProcessBuffer on a buffer: the message it returns (0 for a null Json) *)
(* and the buffer it leaves.                                               *)

Separators(buf) == {k \in DOMAIN buf : buf[k].part = "separator"}

\* ReadHeaders: the size of the header section and its separator, -1 if the
\* separator has not arrived.
ReadHeaders(buf) == IF Separators(buf) = {} THEN -1 ELSE Min(Separators(buf))

\* headers.find("Content-Length"): the header line is found only when it
\* stands on a line of its own, with nothing before it.
HasContentLength(buf, headerSize) ==
    /\ headerSize = 2
    /\ buf[1].part = "header"
    /\ stream[buf[1].msg].named

\* std::atol(contentLength)
Msglen(buf) == stream[buf[1].msg].says

\* The sum of two longs, as the machine computes it.  (A compiler that takes overflow
\* for impossible may find the sum too large instead: the buffer is left as it is then,
\* too.)
AddLong(a, b) == IF a + b > LongMax THEN a + b - 2 * (LongMax + 1) ELSE a + b

\* Bug: the result of the parser is used without asking whether it is valid.
ParsePayloadUnchecked(payload) == payload[1].msg

\* Json::Parse: the object at the front of the payload is complete.
ParsePayload(payload) ==
    LET i == payload[1].msg
    IN  IF stream[i].json \in 1..Len(payload) THEN i ELSE 0

\* Bug: the test for a complete message forgets the size of the header.
DoProcessBufferShort(buf) ==
    LET headerSize == ReadHeaders(buf)
    IN  IF \/ headerSize = -1
           \/ ~HasContentLength(buf, headerSize)
           \/ Msglen(buf) > Len(buf)
        THEN [json |-> 0, rest |-> buf]
        ELSE [json |-> buf[1].msg,
              rest |-> SubSeq(buf, headerSize + Msglen(buf) + 1, Len(buf))]

DoProcessBuffer(buf) ==
    LET headerSize == ReadHeaders(buf)
        end == AddLong(headerSize, Msglen(buf))
    IN  IF headerSize = -1
        THEN [json |-> 0, rest |-> buf]
        ELSE IF ~HasContentLength(buf, headerSize)
        THEN \* m_buffer.erase(headerSize): from headerSize to the end
             [json |-> 0, rest |-> SubSeq(buf, 1, headerSize)]
        ELSE IF Msglen(buf) <= 0 \/ end > Len(buf)
        THEN [json |-> 0, rest |-> buf]
        ELSE IF end < headerSize
        THEN \* the sum is negative: no payload of that size can be constructed,
             \* and the exception leaves ProcessBuffer before m_buffer changes
             [json |-> 0, rest |-> buf]
        ELSE [json |-> ParsePayload(SubSeq(buf, headerSize + 1, end)),
              rest |-> SubSeq(buf, end + 1, Len(buf))]

----------------------------------------------------------------------------
Init ==
    /\ stream \in Streams
    /\ arrived = 0
    /\ buffer = <<>>
    /\ looping = FALSE
    /\ delivered = <<>>

\* A chunk arrives: AppendBuffer, and ProcessBuffer is entered.
AppendBuffer(n) ==
    /\ ~looping
    /\ arrived + n <= Len(Wire)
    /\ buffer' = buffer \o SubSeq(Wire, arrived + 1, arrived + n)
    /\ arrived' = arrived + n
    /\ looping' = TRUE
    /\ UNCHANGED <<stream, delivered>>

\* Bug: the callback is called before json.IsOK() is tested.
ProcessBufferUnchecked ==
    /\ looping
    /\ LET result == DoProcessBuffer(buffer)
       IN  /\ buffer' = result.rest
           /\ looping' = (result.json # 0)
           /\ delivered' = Append(delivered, result.json)
    /\ UNCHANGED <<stream, arrived>>

\* Bug: one message per call instead of a loop.
ProcessBufferOnce ==
    /\ looping
    /\ LET result == DoProcessBuffer(buffer)
       IN  /\ buffer' = result.rest
           /\ delivered' = IF result.json # 0
                           THEN Append(delivered, result.json) ELSE delivered
    /\ looping' = FALSE
    /\ UNCHANGED <<stream, arrived>>

\* One turn of ProcessBuffer's loop: it goes on as long as DoProcessBuffer
\* returns a message.
ProcessBuffer ==
    /\ looping
    /\ LET result == DoProcessBuffer(buffer)
       IN  /\ buffer' = result.rest
           /\ looping' = (result.json # 0)
           /\ delivered' = IF result.json # 0
                           THEN Append(delivered, result.json) ELSE delivered
    /\ UNCHANGED <<stream, arrived>>

Done ==
    /\ ~looping
    /\ arrived = Len(Wire)
    /\ UNCHANGED vars

Receive == \E n \in 1..MaxChunk : AppendBuffer(n)

Next == Receive \/ ProcessBuffer \/ Done

Spec == Init /\ [][Next]_vars /\ WF_vars(Receive) /\ WF_vars(ProcessBuffer)

----------------------------------------------------------------------------
(* Properties.                                                             *)

Unit == [msg : Nat, part : {"header", "separator", "payload"}]

\* The type invariant.
TypeOK ==
    /\ stream \in Streams
    /\ arrived \in 0..Len(Wire)
    /\ buffer \in Seq(Unit)
    /\ looping \in BOOLEAN
    /\ delivered \in Seq(DOMAIN stream)

\* All units of the first i messages have arrived.
Complete(i) == Len(FlattenSeq([k \in 1..i |-> Frame(k)])) <= arrived

\* Content-Length is the length of the payload.
RightLength(i) == stream[i].named /\ stream[i].says = stream[i].len

\* ... and the payload is a JSON object.
IsGood(i) == RightLength(i) /\ stream[i].json \in 1..stream[i].len

WellFormed == \A i \in DOMAIN stream : IsGood(i)

\* However the stream of a peer that sends well-formed messages is cut into
\* chunks, when ProcessBuffer returns the callback has been called for exactly
\* the messages that have completely arrived, once each and in the order of the
\* stream (DoProcessBuffer, ProcessBuffer).
DeliversWhatIsComplete ==
    (WellFormed /\ ~looping) =>
        /\ delivered = [k \in 1..Len(delivered) |-> k]
        /\ \A i \in DOMAIN stream : i <= Len(delivered) <=> Complete(i)

\* No byte of well-formed messages is lost or read twice: the messages delivered,
\* the buffer and the part that has not arrived make up the stream of the peer
\* (m_buffer.erase, AppendBuffer).
NothingLost ==
    WellFormed =>
        FlattenSeq([k \in DOMAIN delivered |-> Frame(delivered[k])])
            \o buffer \o SubSeq(Wire, arrived + 1, Len(Wire)) = Wire

\* What a message is to MessageStream: nothing behind one is sure to be handed
\* over that is not a good message; one with a wrong, positive Content-Length may
\* itself be handed over, if its object is complete in what is cut off.
KindOf(i) ==
    IF IsGood(i) THEN "ok"
    ELSE IF stream[i].named /\ stream[i].says > 0 /\ stream[i].json > 0 THEN "odd"
    ELSE "bad"

Abstract == INSTANCE MessageStream WITH
    stream <- [i \in DOMAIN stream |-> KindOf(i)],
    up <- TRUE

\* The framing layer implements a message stream whatever the peer sends, with
\* missing, useless, wrong and overflowing lengths and with payloads that are not
\* JSON: the callback sees parsed messages only, each under its own number, in
\* order and none twice, and a good message is left out only behind a faulty one
\* (ProcessBuffer, DoProcessBuffer).
ImplementsStream == Abstract!Safety

\* The good messages before the first faulty one are all delivered in the end
\* (ProcessBuffer's loop).
DeliversAll == Abstract!Liveness

\* A header section without Content-Length is in the buffer.
BadHeaderKept ==
    \E k \in DOMAIN buffer : buffer[k].part = "separator" /\ ~stream[buffer[k].msg].named

\* A good message is in the buffer, from its header to the end of its payload.
CompleteMessageKept ==
    \E i \in DOMAIN stream, k \in DOMAIN buffer :
        /\ IsGood(i)
        /\ Len(Frame(i)) <= Len(buffer) - k + 1
        /\ SubSeq(buffer, k, k + Len(Frame(i)) - 1) = Frame(i)

\* ProcessBuffer gets stuck at nothing.  JsonRPC.hpp:42: the callback "will get
\* called as long there are complete messages in the internal buffer".
\* JsonRPC.cpp:35: with a header section without Content-Length in the buffer "we
\* will simply stuck with it again later. So we remove it".  When ProcessBuffer
\* returns the buffer holds neither.
NothingStuck == ~looping => ~BadHeaderKept /\ ~CompleteMessageKept
=============================================================================
