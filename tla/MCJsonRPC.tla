----------------------------- MODULE MCJsonRPC -----------------------------
(* Small instances of JsonRPC: short streams, chunks of every size.        *)
EXTENDS JsonRPC

Msg(says, len, json) == [named |-> TRUE, says |-> says, len |-> len, json |-> json]

NoLength == [Msg(0, 1, 1) EXCEPT !.named = FALSE]
Unparsable == Msg(1, 1, 0)
BadLength == Msg(0, 1, 1)

\* Too short for the object or for what is behind it only, too long by a part of
\* the next message or by all of it, too long for a long.
WrongLengths ==
    {Msg(1, 2, 2), Msg(1, 2, 1), Msg(2, 1, 1), Msg(2, 1, 0), Msg(4, 1, 1), Msg(LongMax, 1, 1)}

\* Up to three messages of any kind, with payloads of one or two units.
ShortStreams ==
    BoundedSeq({Msg(1, 1, 1), Msg(2, 2, 1), Msg(-1, 1, 1), NoLength, Unparsable, BadLength}
                   \cup WrongLengths, 3)

\* A faulty message followed by a good one.
FaultyStreams == {<<m, Msg(1, 1, 1)>> : m \in {NoLength, BadLength, Unparsable}}
=============================================================================
