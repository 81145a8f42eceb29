---------------------------- MODULE StdoutProofs ----------------------------
(***************************************************************************)
(* Theorems about StdoutTransport, for any amount of output, and about the *)
(* command line of the process it starts.                                  *)
(***************************************************************************)
EXTENDS StdoutTransport, CommandLine, FlattenTheorems

----------------------------------------------------------------------------
(* Type correctness.                                                       *)

\* A piece is one of the pieces the child may write.
Pieces == 1..MaxOutput

\* The threads have just been started.
LEMMA InitTypeOK == Init => TypeOK
  <1> SUFFICES ASSUME Init PROVE TypeOK
      OBVIOUS
  <1>1. <<>> \in Seq(1..MaxOutput) /\ <<>> \in Seq(Seq(1..MaxOutput))
      BY EmptySeq
  <1>2. /\ autoReap \in BOOLEAN /\ process \in BOOLEAN /\ shutdown \in BOOLEAN
        /\ stop \in BOOLEAN /\ fault \in BOOLEAN
      BY DEF Init
  <1> QED
      BY <1>1, <1>2, MaxOutputAssumption DEF Init, TypeOK

\* The child writes one more piece, or exits.
LEMMA ChildTypeOK ==
    ASSUME TypeOK, ChildWrites \/ ChildExits
    PROVE  TypeOK'
  <1>1. CASE ChildWrites
      <2>1. produced \in 0..MaxOutput /\ produced < MaxOutput /\ pipe \in Seq(Pieces)
          BY <1>1 DEF TypeOK, ChildWrites, Pieces
      <2>2. produced + 1 \in 0..MaxOutput /\ produced + 1 \in Pieces
          BY <2>1, MaxOutputAssumption DEF Pieces
      <2>3. Append(pipe, produced + 1) \in Seq(Pieces)
          BY <2>1, <2>2, AppendProperties
      <2> QED
          BY <1>1, <2>2, <2>3 DEF TypeOK, ChildWrites, Pieces, pumpVars, clientVars
  <1>2. CASE ChildExits
      BY <1>2 DEF TypeOK, ChildExits, pumpVars, clientVars
  <1> QED
      BY <1>1, <1>2

\* The reader thread of Process moves output from the pipe to the queue.
LEMMA PumpTypeOK ==
    ASSUME TypeOK, PumpStep
    PROVE  TypeOK'
  <1> USE DEF PumpUnchanged, childVars, clientVars
  <1>1. CASE PumpCheck \/ PumpAlive
      BY <1>1 DEF TypeOK, PumpCheck, PumpAlive
  <1>2. CASE PumpRead
      BY <1>2, EmptySeq DEF TypeOK, PumpRead, Drained
  <1>3. CASE PumpPush
      <2>1. Append(stdoutQueue, chunk) \in Seq(Seq(1..MaxOutput))
          BY AppendProperties DEF TypeOK
      <2> QED
          BY <1>3, <2>1, EmptySeq DEF TypeOK, PumpPush
  <1> QED
      BY <1>1, <1>2, <1>3 DEF PumpStep

\* The isAlive thread.
LEMMA WatchTypeOK ==
    ASSUME TypeOK, WatchLeaves \/ WatchSets
    PROVE  TypeOK'
  <1>1. CASE WatchLeaves
      BY <1>1 DEF TypeOK, WatchLeaves, childVars, pumpVars, clientVars
  <1>2. CASE WatchSets
      BY <1>2 DEF TypeOK, WatchSets, childVars, pumpVars, clientVars
  <1> QED
      BY <1>1, <1>2

\* The reader thread of Client.
LEMMA ReaderTypeOK ==
    ASSUME TypeOK, ReaderStep
    PROVE  TypeOK'
  <1> USE DEF ReaderUnchanged, pumpVars
  <1>1. CASE ReaderPop
      <2>1. CASE stdoutQueue = <<>>
          BY <1>1, <2>1 DEF TypeOK, ReaderPop
      <2>2. CASE stdoutQueue # <<>>
          <3>1. Head(stdoutQueue) \in Seq(1..MaxOutput) /\ Tail(stdoutQueue) \in Seq(Seq(1..MaxOutput))
              BY <2>2, HeadTailProperties DEF TypeOK
          <3>2. received \o Head(stdoutQueue) \in Seq(1..MaxOutput)
              BY <3>1, ConcatProperties DEF TypeOK
          <3>3. /\ received' = received \o Head(stdoutQueue) /\ reader' = "check"
                /\ stdoutQueue' = Tail(stdoutQueue)
                /\ UNCHANGED <<autoReap, child, produced, pipe, object, process, shutdown, pump,
                               chunk, watch, stop, main, fault>>
              BY <1>1, <2>2 DEF ReaderPop
          <3> QED
              BY <3>1, <3>2, <3>3 DEF TypeOK
      <2> QED
          BY <2>1, <2>2
  <1>2. CASE ReaderCheck \/ ReaderAlive
      BY <1>2 DEF TypeOK, ReaderCheck, ReaderAlive
  <1>3. CASE ReaderTerminates \/ ReaderFrees \/ ReaderFails
      BY <1>3, EmptySeq DEF TypeOK, ReaderTerminates, Terminate, ReaderFrees, Freed, ReaderFails
  <1> QED
      BY <1>1, <1>2, <1>3 DEF ReaderStep

\* The main thread.
LEMMA MainTypeOK ==
    ASSUME TypeOK, SendAlive \/ SendWrite \/ ResetStops \/ ResetStep
    PROVE  TypeOK'
  <1> USE DEF MainUnchanged, pumpVars
  <1>1. CASE SendAlive \/ SendWrite
      BY <1>1 DEF TypeOK, SendAlive, SendWrite
  <1>2. CASE ResetStops \/ ResetStep
      BY <1>2, EmptySeq DEF TypeOK, ResetStops, ResetStep, ResetDeletes, Terminate, ResetFrees, Freed
  <1> QED
      BY <1>1, <1>2

\* Every step keeps the types.
LEMMA NextTypeOK == TypeOK /\ [Next]_vars => TypeOK'
  <1> SUFFICES ASSUME TypeOK, [Next]_vars PROVE TypeOK'
      OBVIOUS
  <1>1. CASE Done \/ UNCHANGED vars
      BY <1>1 DEF Done, vars, childVars, pumpVars, clientVars, TypeOK
  <1> QED
      BY <1>1, ChildTypeOK, PumpTypeOK, WatchTypeOK, ReaderTypeOK, MainTypeOK DEF Next

\* The types of StdoutTransport, for any amount of output of the child.
THEOREM TypeCorrect == Spec => []TypeOK
  BY InitTypeOK, NextTypeOK, PTL DEF Spec

----------------------------------------------------------------------------
(* The object and who deletes it.                                          *)

\* Who is deleting the object, and whether it is still there: it is live as long
\* as the pointer is set and nobody has begun to delete it.
Ownership ==
    /\ reader = "join" => object = "destroying"
    /\ reader = "clear" => object = "freed"
    /\ reader = "pop" => object = "live"
    /\ main = "join" => object = "destroying" /\ reader \in {"exited", "failed"}
    /\ (process /\ reader \notin {"join", "clear"} /\ main # "join") => object = "live"

\* Every step keeps the owner.
LEMMA NextOwnership == TypeOK /\ Ownership /\ [Next]_vars => Ownership'
  <1> SUFFICES ASSUME TypeOK, Ownership, [Next]_vars PROVE Ownership'
      OBVIOUS
  <1> USE DEF childVars, pumpVars, clientVars
  <1>1. CASE PumpStep
      BY <1>1 DEF PumpStep, PumpCheck, PumpAlive, PumpRead, PumpPush, PumpUnchanged, Ownership
  <1>2. CASE WatchLeaves \/ WatchSets
      BY <1>2 DEF WatchLeaves, WatchSets, Ownership
  <1>3. CASE ReaderStep
      BY <1>3 DEF ReaderStep, ReaderCheck, ReaderAlive, ReaderPop, ReaderTerminates,
         Terminate, ReaderFrees, Freed, ReaderFails, ReaderUnchanged, Ownership
  <1>4. CASE SendAlive \/ SendWrite \/ ResetStops \/ ResetStep
      BY <1>4 DEF SendAlive, SendWrite, ResetStops, ResetStep, ResetDeletes, Terminate,
         ResetFrees, Freed, MainUnchanged, Ownership
  <1>5. CASE ChildWrites \/ ChildExits \/ Done \/ UNCHANGED vars
      BY <1>5 DEF ChildWrites, ChildExits, Done, vars, Ownership
  <1> QED
      BY <1>1, <1>2, <1>3, <1>4, <1>5 DEF Next

\* How the object may change in a step.
ChangesOnce ==
    object' # object =>
        <<object, object'>> \in {<<"live", "destroying">>, <<"destroying", "freed">>}

LEMMA NextOnce == Ownership /\ Next => ChangesOnce
  <1> SUFFICES ASSUME Ownership, Next, object' # object
               PROVE  \/ object = "live" /\ object' = "destroying"
                      \/ object = "destroying" /\ object' = "freed"
      BY DEF ChangesOnce
  <1>1. ReaderTerminates \/ ReaderFrees \/ ResetDeletes \/ ResetFrees
      BY DEF Next, ChildWrites, ChildExits, PumpStep, PumpCheck, PumpAlive, PumpRead,
         PumpPush, PumpUnchanged, WatchLeaves, WatchSets, ReaderStep, ReaderCheck,
         ReaderAlive, ReaderPop, ReaderFails, ReaderUnchanged, SendAlive, SendWrite,
         ResetStops, ResetStep, Done, vars
  <1>2. CASE ReaderTerminates \/ ReaderFrees
      BY <1>2 DEF ReaderTerminates, Terminate, ReaderFrees, Freed, Ownership
  <1>3. CASE ResetDeletes \/ ResetFrees
      BY <1>3 DEF ResetDeletes, Terminate, ResetFrees, Freed, Ownership
  <1> QED
      BY <1>1, <1>2, <1>3

LEMMA AlwaysOwned == Spec => []Ownership
  <1>1. Init => Ownership
      BY DEF Init, Ownership
  <1> QED
      BY <1>1, NextOwnership, TypeCorrect, PTL DEF Spec

\* The process is deleted at most once, although the reader thread of Client and
\* the main thread both do it (StdoutTransport::Read, ~StdoutTransport).
THEOREM ProcessDeletedOnce == Spec => DeletedOnce
  <1>1. Ownership /\ [Next]_vars => [ChangesOnce]_vars
      BY NextOnce
  <1> QED
      BY <1>1, AlwaysOwned, PTL DEF Spec, DeletedOnce, ChangesOnce

----------------------------------------------------------------------------
(* The output.                                                             *)

\* The reader thread of Process holds output only between ReadAll and Push.
ChunkBeforePush == pump # "push" => chunk = <<>>

\* The three sequences output is kept in, and the queue of chunks.
LEMMA OutputTypes ==
    ASSUME TypeOK
    PROVE  /\ received \in Seq(Pieces) /\ chunk \in Seq(Pieces) /\ pipe \in Seq(Pieces)
           /\ stdoutQueue \in Seq(Seq(Pieces)) /\ FlattenSeq(stdoutQueue) \in Seq(Pieces)
           /\ produced \in Nat
  <1>1. /\ received \in Seq(Pieces) /\ chunk \in Seq(Pieces) /\ pipe \in Seq(Pieces)
        /\ stdoutQueue \in Seq(Seq(Pieces)) /\ produced \in Nat
      BY MaxOutputAssumption DEF TypeOK, Pieces
  <1> QED
      BY <1>1, FlattenType

\* One piece more at the end.
LEMMA CountOn ==
    ASSUME NEW n \in Nat
    PROVE  Append([i \in 1..n |-> i], n + 1) = [i \in 1..n + 1 |-> i]
  <1> DEFINE s == [i \in 1..n |-> i]
             t == [i \in 1..n + 1 |-> i]
  <1>1. s \in Seq(Nat) /\ Len(s) = n /\ t \in Seq(Nat) /\ Len(t) = n + 1
      BY IsASeq
  <1>2. /\ Append(s, n + 1) \in Seq(Nat) /\ Len(Append(s, n + 1)) = n + 1
        /\ \A i \in 1..n : Append(s, n + 1)[i] = s[i]
        /\ Append(s, n + 1)[n + 1] = n + 1
      BY <1>1, AppendProperties
  <1>3. \A i \in 1..n + 1 : Append(s, n + 1)[i] = t[i]
      BY <1>2
  <1> QED
      BY <1>1, <1>2, <1>3, SeqEqual

\* What is appended to the last part is appended to the whole.
LEMMA AppendToLast ==
    ASSUME NEW S, NEW a \in Seq(S), NEW b \in Seq(S), NEW e \in S
    PROVE  a \o Append(b, e) = Append(a \o b, e)
  <1>1. Append(b, e) = b \o <<e>> /\ <<e>> \in Seq(S)
      BY AppendIsConcat
  <1>2. a \o b \in Seq(S)
      BY ConcatProperties
  <1>3. Append(a \o b, e) = (a \o b) \o <<e>>
      BY <1>2, AppendIsConcat
  <1>4. (a \o b) \o <<e>> = a \o (b \o <<e>>)
      BY <1>1, ConcatAssociative
  <1> QED
      BY <1>1, <1>3, <1>4

\* An empty part in the middle.
LEMMA EmptyMiddle ==
    ASSUME NEW S, NEW a \in Seq(S), NEW b \in Seq(S)
    PROVE  (a \o <<>>) \o b = a \o b /\ (a \o b) \o <<>> = a \o b
  <1>1. a \o b \in Seq(S)
      BY ConcatProperties
  <1> QED
      BY <1>1, ConcatEmptySeq

\* All that the child has written, from the client back to the pipe.
AllKept ==
    ((received \o FlattenSeq(stdoutQueue)) \o chunk) \o pipe = [i \in 1..produced |-> i]

\* The steps that move output keep the whole of it: a write of the child, ReadAll,
\* Push and Pop.  Only Freed throws output away.
LEMMA NextKept ==
    ASSUME TypeOK, ChunkBeforePush, AllKept, [Next]_vars, ~ReaderFrees, ~ResetFrees
    PROVE  AllKept'
  <1> DEFINE inQueue == FlattenSeq(stdoutQueue)
  <1> USE DEF childVars, pumpVars, clientVars
  <1>0. /\ received \in Seq(Pieces) /\ chunk \in Seq(Pieces) /\ pipe \in Seq(Pieces)
        /\ stdoutQueue \in Seq(Seq(Pieces)) /\ inQueue \in Seq(Pieces) /\ produced \in Nat
      BY OutputTypes
  <1>1. received \o inQueue \in Seq(Pieces) /\ (received \o inQueue) \o chunk \in Seq(Pieces)
      <2>1. received \o inQueue \in Seq(Pieces)
          BY <1>0, ConcatProperties
      <2> QED
          BY <1>0, <2>1, ConcatProperties
  <1>2. ((received \o inQueue) \o chunk) \o pipe = [i \in 1..produced |-> i]
      BY DEF AllKept
  <1>3. CASE ChildWrites
      <2>1. /\ pipe' = Append(pipe, produced + 1) /\ produced' = produced + 1
            /\ produced < MaxOutput
            /\ UNCHANGED <<received, stdoutQueue, chunk, pump>>
          BY <1>3 DEF ChildWrites
      <2>2. produced + 1 \in Pieces
          BY <1>0, <2>1, MaxOutputAssumption DEF Pieces
      <2>3. ((received \o inQueue) \o chunk) \o Append(pipe, produced + 1)
               = Append(((received \o inQueue) \o chunk) \o pipe, produced + 1)
          BY <1>0, <1>1, <2>2, AppendToLast
      <2>4. Append([i \in 1..produced |-> i], produced + 1) = [i \in 1..produced + 1 |-> i]
          BY <1>0, CountOn
      <2> QED
          BY <1>2, <2>1, <2>3, <2>4 DEF AllKept
  <1>4. CASE PumpRead
      <2>1. /\ chunk = <<>> /\ chunk' = pipe /\ pipe' = <<>>
            /\ pump' = IF pipe = <<>> THEN "check" ELSE "push"
            /\ UNCHANGED <<received, stdoutQueue, produced>>
          BY <1>4 DEF PumpRead, Drained, PumpUnchanged, ChunkBeforePush
      <2>2. ((received \o inQueue) \o <<>>) \o pipe = ((received \o inQueue) \o pipe) \o <<>>
          BY <1>0, <1>1, EmptyMiddle
      <2> QED
          BY <1>2, <2>1, <2>2 DEF AllKept
  <1>5. CASE PumpPush
      <2>1. /\ stdoutQueue' = Append(stdoutQueue, chunk) /\ chunk' = <<>> /\ pump' = "check"
            /\ UNCHANGED <<received, pipe, produced>>
          BY <1>5 DEF PumpPush, PumpUnchanged
      <2>2. FlattenSeq(stdoutQueue') = inQueue \o chunk
          BY <1>0, <2>1, FlattenAppend
      <2>3. received \o (inQueue \o chunk) = (received \o inQueue) \o chunk
          <3>1. Regrouped(received, inQueue, chunk)
              BY <1>0, Regroup
          <3> QED
              BY <3>1 DEF Regrouped
      <2>4. (((received \o inQueue) \o chunk) \o <<>>) \o pipe
               = ((received \o inQueue) \o chunk) \o pipe
          BY <1>0, <1>1, EmptyMiddle
      <2> QED
          BY <1>2, <2>1, <2>2, <2>3, <2>4 DEF AllKept
  <1>6. CASE ReaderPop /\ stdoutQueue # <<>>
      <2> DEFINE h == Head(stdoutQueue)
                 t == FlattenSeq(Tail(stdoutQueue))
      <2>1. /\ received' = received \o h /\ stdoutQueue' = Tail(stdoutQueue)
            /\ UNCHANGED <<chunk, pump, pipe, produced>>
          BY <1>6 DEF ReaderPop, ReaderUnchanged
      <2>2. h \in Seq(Pieces) /\ t \in Seq(Pieces)
          BY <1>0, <1>6, HeadTailProperties, FlattenType
      <2>3. inQueue = h \o t
          BY <1>0, <1>6, FlattenHeadTail
      <2> HIDE DEF h, t
      <2>4. received \o (h \o t) = (received \o h) \o t
          <3>1. received \in Seq(Pieces) /\ h \in Seq(Pieces) /\ t \in Seq(Pieces)
              BY <1>0, <2>2
          <3>2. Regrouped(received, h, t)
              BY <3>1, Regroup
          <3> QED
              BY <3>2 DEF Regrouped
      <2> QED
          BY <1>2, <2>1, <2>3, <2>4 DEF AllKept, t
  <1>7. CASE ~ChildWrites /\ ~PumpRead /\ ~PumpPush /\ ~(ReaderPop /\ stdoutQueue # <<>>)
      <2>1. CASE PumpCheck \/ PumpAlive
          BY <2>1 DEF PumpCheck, PumpAlive, PumpUnchanged, AllKept
      <2>2. CASE ~PumpCheck /\ ~PumpAlive
          <3>1. UNCHANGED <<received, stdoutQueue, chunk, pipe, produced, pump>>
              BY <1>7, <2>2 DEF Next, ChildExits, PumpStep, WatchLeaves, WatchSets, ReaderStep,
                 ReaderCheck, ReaderAlive, ReaderPop, ReaderTerminates, ReaderFails,
                 ReaderUnchanged, SendAlive, SendWrite, ResetStops, ResetStep, ResetDeletes,
                 MainUnchanged, Done, vars
          <3> QED
              BY <3>1 DEF AllKept
      <2> QED
          BY <2>1, <2>2
  <1> QED
      BY <1>3, <1>4, <1>5, <1>6, <1>7

\* The numbers from 1 to n, and the beginning of them.
UpTo(n) == [i \in 1..n |-> i]

LEMMA CountPrefix ==
    ASSUME NEW S, NEW a \in Seq(S), NEW b \in Seq(S), NEW n \in Nat, a \o b = UpTo(n)
    PROVE  a = UpTo(Len(a)) /\ Len(a) \in Nat
  <1>1. Len(a) \in Nat /\ Len(b) \in Nat /\ DOMAIN a = 1..Len(a)
      BY LenProperties
  <1>2. Len(a \o b) = Len(a) + Len(b) /\ \A i \in 1..Len(a) : (a \o b)[i] = a[i]
      BY <1>1, ConcatProperties
  <1>3. Len(UpTo(n)) = n /\ \A i \in 1..n : UpTo(n)[i] = i
      BY IsASeq DEF UpTo
  <1>4. \A i \in 1..Len(a) : i \in 1..n
      BY <1>1, <1>2, <1>3
  <1>5. \A i \in 1..Len(a) : a[i] = i
      BY <1>2, <1>3, <1>4
  <1>6. /\ UpTo(Len(a)) \in Seq(Nat) /\ Len(UpTo(Len(a))) = Len(a)
        /\ \A i \in 1..Len(a) : UpTo(Len(a))[i] = i
      BY <1>1, IsASeq DEF UpTo
  <1>7. a \in Seq(Nat)
      BY <1>1, <1>5
  <1>8. a = UpTo(Len(a))
      BY <1>5, <1>6, <1>7, SeqEqual
  <1> QED
      BY <1>1, <1>8

\* If four parts make up the numbers from 1 on, the first has their beginning.
LEMMA FirstIsCounted ==
    ASSUME NEW S, NEW r \in Seq(S), NEW q \in Seq(S), NEW c \in Seq(S), NEW p \in Seq(S),
           NEW n \in Nat, ((r \o q) \o c) \o p = UpTo(n)
    PROVE  r = UpTo(Len(r))
  <1>1. r \o q \in Seq(S) /\ (r \o q) \o c \in Seq(S)
      <2>1. r \o q \in Seq(S)
          BY ConcatProperties
      <2> QED
          BY <2>1, ConcatProperties
  <1>2. PICK k \in Nat : (r \o q) \o c = UpTo(k)
      BY <1>1, CountPrefix
  <1>3. PICK l \in Nat : r \o q = UpTo(l)
      BY <1>1, <1>2, CountPrefix
  <1> QED
      BY <1>3, CountPrefix

\* Every step keeps the output in order, and the deletion throws away what is not
\* received yet.
LEMMA NextOutput ==
    TypeOK /\ TypeOK' /\ Ownership /\ ChunkBeforePush /\ OutputIntact /\ [Next]_vars
        => (ChunkBeforePush /\ OutputIntact)'
  <1> SUFFICES ASSUME TypeOK, TypeOK', Ownership, ChunkBeforePush, OutputIntact, [Next]_vars
               PROVE  ChunkBeforePush' /\ OutputIntact'
      OBVIOUS
  <1> USE DEF childVars, pumpVars, clientVars
  <1>1. ChunkBeforePush'
      <2>1. CASE PumpStep
          BY <2>1 DEF PumpStep, PumpCheck, PumpAlive, PumpRead, PumpPush, Drained, ChunkBeforePush
      <2>2. CASE ~PumpStep
          <3>1. UNCHANGED <<pump, chunk>>
              BY <2>2 DEF Next, ChildWrites, ChildExits, WatchLeaves, WatchSets, ReaderStep,
                 ReaderCheck, ReaderAlive, ReaderPop, ReaderTerminates, ReaderFrees, ReaderFails,
                 ReaderUnchanged, SendAlive, SendWrite, ResetStops, ResetStep, ResetDeletes,
                 ResetFrees, MainUnchanged, Done, vars
          <3> QED
              BY <3>1 DEF ChunkBeforePush
      <2> QED
          BY <2>1, <2>2
  <1>2. CASE object = "freed" \/ ReaderFrees \/ ResetFrees
      <2>1. received' = received
          <3>1. CASE ReaderFrees \/ ResetFrees
              BY <3>1 DEF ReaderFrees, ResetFrees, MainUnchanged
          <3>2. CASE object = "freed"
              <4>1. ~ReaderPop
                  BY <3>2 DEF ReaderPop, Ownership
              <4> QED
                  BY <4>1 DEF Next, ChildWrites, ChildExits, PumpStep, PumpCheck, PumpAlive,
                     PumpRead, PumpPush, PumpUnchanged, WatchLeaves, WatchSets, ReaderStep,
                     ReaderCheck, ReaderAlive, ReaderTerminates, ReaderFrees, ReaderFails,
                     SendAlive, SendWrite, ResetStops, ResetStep, ResetDeletes, ResetFrees,
                     MainUnchanged, Done, vars
          <3> QED
              BY <1>2, <3>1, <3>2
      <2>2. object' = "freed"
          <3>1. CASE ReaderFrees \/ ResetFrees
              BY <3>1 DEF ReaderFrees, ResetFrees, Freed
          <3>2. CASE object = "freed" /\ Next
              BY <3>2, NextOnce DEF ChangesOnce
          <3>3. CASE object = "freed" /\ UNCHANGED vars
              BY <3>3 DEF vars
          <3> QED
              BY <1>2, <3>1, <3>2, <3>3
      <2> QED
          BY <1>1, <2>1, <2>2 DEF OutputIntact
  <1>3. CASE object # "freed" /\ ~ReaderFrees /\ ~ResetFrees
      <2>1. AllKept
          BY <1>3 DEF OutputIntact, AllKept
      <2>2. AllKept'
          BY <1>3, <2>1, NextKept
      <2>3. (received = [i \in 1..Len(received) |-> i])'
          <3> DEFINE q == FlattenSeq(stdoutQueue')
          <3>1. /\ received' \in Seq(Pieces) /\ chunk' \in Seq(Pieces) /\ pipe' \in Seq(Pieces)
                /\ stdoutQueue' \in Seq(Seq(Pieces)) /\ produced' \in Nat
              BY MaxOutputAssumption DEF TypeOK, Pieces
          <3>2. q \in Seq(Pieces)
              BY <3>1, FlattenType
          <3>3. ((received' \o q) \o chunk') \o pipe' = UpTo(produced')
              BY <2>2 DEF AllKept, UpTo
          <3> HIDE DEF q
          <3>4. received' = UpTo(Len(received'))
              BY <3>1, <3>2, <3>3, FirstIsCounted
          <3> QED
              BY <3>4 DEF UpTo
      <2> QED
          BY <1>1, <2>2, <2>3 DEF OutputIntact, AllKept
  <1> QED
      BY <1>2, <1>3

\* The client receives the output of the child in order and without a gap, and until
\* the Process object is freed none is lost between the child and the client, for any
\* amount of output (ReadAll, Queue::push, Queue::pop, Read).
THEOREM OutputInOrder == Spec => []OutputIntact
  <1>1. Init => ChunkBeforePush /\ OutputIntact
      <2> SUFFICES ASSUME Init PROVE ChunkBeforePush /\ OutputIntact
          OBVIOUS
      <2>1. /\ received = <<>> /\ chunk = <<>> /\ pipe = <<>> /\ produced = 0
            /\ FlattenSeq(stdoutQueue) = <<>>
          BY FlattenEmpty DEF Init
      <2>2. <<>> \o <<>> = <<>> /\ Len(<<>>) = 0
          BY ConcatEmptySeq, EmptySeq
      <2>3. [i \in 1..0 |-> i] = <<>>
          BY EmptySeq
      <2> QED
          BY <2>1, <2>2, <2>3 DEF ChunkBeforePush, OutputIntact
  <1>2. Spec => [](ChunkBeforePush /\ OutputIntact)
      BY <1>1, TypeCorrect, AlwaysOwned, NextOutput, PTL DEF Spec
  <1> QED
      BY <1>2, PTL

----------------------------------------------------------------------------
(* The command line: what BuildArgv cuts out of the string that Execute    *)
(* has joined, for arguments of every length and number.                   *)

\* The characters of the string.
Text == Characters \union {DoubleQuote, Backslash, Space}

ArgvTypes ==
    /\ given \in Seq(Seq(Characters)) /\ str \in Seq(Text)
    /\ curstr \in Seq(Text) /\ A \in Seq(Seq(Text))

\* Nothing happens before Execute is called.
IdleAtFirst ==
    given = <<>> =>
        /\ state = "NORMAL" /\ curstr = <<>> /\ A = <<>>
        /\ str = <<>> /\ argv = NotStarted

AllPlain(k) == \A i \in 1..k : IsPlain(given[i])

\* What is read and not part of an argument yet, with what is still to be read.
Held == IF state = "ESCAPE" THEN <<Backslash>> ELSE <<>>
Unpushed == curstr \o (Held \o str)

\* The part of the string that stands for the arguments after the first m.
From(m) == FlattenSeq([i \in 1..(Len(given) - m) |-> Piece(given[m + i])])

\* Where the scanner stands in the piece of the string for arg.
InPlainWord(w) == state = "NORMAL" /\ Len(curstr) <= Len(w)
InQuotedWord(w) ==
    \/ state = "NORMAL" /\ (Len(curstr) = 0 \/ Len(curstr) = Len(w))
    \/ state = DoubleQuote /\ prev = "NORMAL" /\ Len(curstr) \in 1..(Len(w) - 1)
    \/ state = "ESCAPE" /\ prev = DoubleQuote /\ Len(curstr) \in 1..(Len(w) - 3)
Within(arg) ==
    IF Contains(arg, Space) THEN InQuotedWord(WrapWithQuotes(arg)) ELSE InPlainWord(WrapWithQuotes(arg))

\* Of the first k arguments, those that are cut stand in A as they do in the string, and
\* the rest is still to be cut; so it is as far as the arguments are plain.
Cut(k) ==
    /\ \A i \in 1..k : i <= Len(A) => A[i] = WrapWithQuotes(given[i])
    /\ Len(A) < k => Unpushed = From(Len(A)) /\ Within(given[Len(A) + 1])
CutSoFar == \A k \in 0..Len(given) : AllPlain(k) => Cut(k)

ArgvKept == ArgvTypes /\ IdleAtFirst /\ CutSoFar /\ ArgvIsCommand

\* The characters with a meaning are told apart, and from the names of the states.
LEMMA SignsDiffer ==
    /\ DoubleQuote \in Quotes /\ Backslash \notin Quotes /\ Backslash # DoubleQuote
    /\ Space \in Blanks /\ Space \notin Quotes /\ DoubleQuote \notin Blanks
    /\ "NORMAL" \notin Quotes /\ "ESCAPE" \notin Quotes /\ "NORMAL" # "ESCAPE"
    /\ \A x : x \notin Quotes \union {"\t"} /\ x # Space => x \notin Blanks \union Quotes
  BY Zenon DEF Space, DoubleQuote, Backslash, Quotes, Blanks

\* The head of a sequence may be moved to what stands before it.
Moves(c, s) == (c \o <<Head(s)>>) \o Tail(s) = c \o s

LEMMA HeadMoves ==
    ASSUME NEW S, NEW c \in Seq(S), NEW s \in Seq(S), s # <<>>
    PROVE  /\ Head(s) \in S /\ Tail(s) \in Seq(S) /\ <<Head(s)>> \in Seq(S)
           /\ Moves(c, s)
  <1>1. /\ Head(s) \in S /\ Head(s) = s[1] /\ Tail(s) \in Seq(S) /\ Len(Tail(s)) = Len(s) - 1
        /\ Len(s) \in Nat /\ Len(s) > 0
        /\ \A i \in 1..Len(Tail(s)) : Tail(s)[i] = s[i + 1]
      BY HeadTailProperties, EmptySeq, LenProperties
  <1>2. <<Head(s)>> \in Seq(S) /\ Len(<<Head(s)>>) = 1 /\ <<Head(s)>>[1] = Head(s)
      BY <1>1
  <1>3. <<Head(s)>> \o Tail(s) = s
      <2> DEFINE t == <<Head(s)>> \o Tail(s)
      <2>1. t \in Seq(S) /\ Len(t) = Len(s)
          BY <1>1, <1>2, ConcatProperties
      <2>2. \A i \in 1..Len(t) : t[i] = s[i]
          BY <1>1, <1>2, <2>1, ConcatProperties
      <2> QED
          BY <2>1, <2>2, SeqEqual
  <1>4. Regrouped(c, <<Head(s)>>, Tail(s))
      BY <1>1, <1>2, Regroup
  <1> QED
      BY <1>1, <1>2, <1>3, <1>4 DEF Moves, Regrouped

\* Two elements, one after the other.
LEMMA OneAndOne ==
    ASSUME NEW S, NEW x \in S, NEW y \in S
    PROVE  <<x>> \o <<y>> = <<x, y>>
  <1> DEFINE a == <<x>>
             b == <<y>>
             c == <<x, y>>
  <1>1. a \in Seq(S) /\ Len(a) = 1 /\ a[1] = x /\ b \in Seq(S) /\ Len(b) = 1 /\ b[1] = y
      OBVIOUS
  <1>2. c \in Seq(S) /\ Len(c) = 2 /\ c[1] = x /\ c[2] = y
      OBVIOUS
  <1> HIDE DEF a, b, c
  <1>3. /\ a \o b \in Seq(S) /\ Len(a \o b) = 2
        /\ \A i \in 1..2 : (a \o b)[i] = IF i <= 1 THEN a[i] ELSE b[i - 1]
      BY <1>1, ConcatProperties
  <1>4. (a \o b)[1] = x /\ (a \o b)[2] = y
      BY <1>1, <1>3
  <1>5. ASSUME NEW i \in 1..2 PROVE (a \o b)[i] = c[i]
      <2>1. i = 1 \/ i = 2
          OBVIOUS
      <2> QED
          BY <2>1, <1>2, <1>4
  <1>6. a \o b = c
      BY <1>2, <1>3, <1>5, SeqEqual
  <1> QED
      BY <1>6 DEF a, b, c

\* cur and rest make up a word, a space and more.
Splits(cur, rest, w, more) == cur \o rest = (w \o <<Space>>) \o more

\* If cur is not longer than the word, rest goes on with the next character of the word,
\* or with the space.
LEMMA NextCharacter ==
    ASSUME NEW cur \in Seq(Text), NEW rest \in Seq(Text), NEW w \in Seq(Text), NEW more \in Seq(Text),
           Splits(cur, rest, w, more), Len(cur) <= Len(w)
    PROVE  /\ rest # <<>>
           /\ Head(rest) = IF Len(cur) < Len(w) THEN w[Len(cur) + 1] ELSE Space
           /\ Len(cur) = Len(w) => cur = w /\ Tail(rest) = more
  <1> DEFINE p == w \o <<Space>>
             n == Len(cur)
  <1>1. /\ n \in Nat /\ Len(w) \in Nat /\ Len(rest) \in Nat /\ Len(more) \in Nat
        /\ <<Space>> \in Seq(Text) /\ Len(<<Space>>) = 1 /\ <<Space>>[1] = Space
      BY LenProperties DEF Text
  <1>2. /\ p \in Seq(Text) /\ Len(p) = Len(w) + 1
        /\ \A i \in 1..Len(w) + 1 : p[i] = IF i <= Len(w) THEN w[i] ELSE Space
      BY <1>1, ConcatProperties
  <1> HIDE DEF p
  <1>3. /\ Len(p \o more) = Len(p) + Len(more)
        /\ \A i \in 1..Len(p) + Len(more) :
              (p \o more)[i] = IF i <= Len(p) THEN p[i] ELSE more[i - Len(p)]
      BY <1>2, ConcatProperties
  <1>4. /\ Len(cur \o rest) = n + Len(rest)
        /\ \A i \in 1..n + Len(rest) :
              (cur \o rest)[i] = IF i <= n THEN cur[i] ELSE rest[i - n]
      BY ConcatProperties
  <1>5. cur \o rest = p \o more
      BY DEF p, Splits
  <1>6. n + Len(rest) = Len(w) + 1 + Len(more)
      BY <1>1, <1>2, <1>3, <1>4, <1>5
  <1>7. Len(rest) >= 1 /\ rest # <<>>
      BY <1>1, <1>6, EmptySeq
  <1>8. Head(rest) = rest[1]
      BY <1>7
  <1>9. rest[1] = IF n < Len(w) THEN w[n + 1] ELSE Space
      <2>1. n + 1 \in 1..n + Len(rest) /\ n + 1 \in 1..Len(p) + Len(more) /\ n + 1 \in 1..Len(w) + 1
          BY <1>1, <1>2, <1>6, <1>7
      <2>2. (cur \o rest)[n + 1] = rest[1]
          <3>1. ~(n + 1 <= n) /\ (n + 1) - n = 1
              BY <1>1
          <3>2. (cur \o rest)[n + 1] = rest[(n + 1) - n]
              BY <2>1, <3>1, <1>4
          <3> QED
              BY <3>1, <3>2
      <2>3. (p \o more)[n + 1] = p[n + 1]
          BY <2>1, <1>1, <1>2, <1>3
      <2> QED
          BY <2>1, <2>2, <2>3, <1>1, <1>2, <1>5
  <1>10. ASSUME n = Len(w) PROVE cur = w /\ Tail(rest) = more
      <2>1. cur = w
          <3>1. ASSUME NEW i \in 1..n PROVE cur[i] = w[i]
              <4>1. /\ i \in 1..n + Len(rest) /\ i \in 1..Len(p) + Len(more) /\ i \in 1..Len(w) + 1
                    /\ i <= n /\ i <= Len(w) /\ i <= Len(p)
                  BY <1>1, <1>2, <1>6, <1>10
              <4>2. (cur \o rest)[i] = cur[i]
                  BY <4>1, <1>4
              <4>3. (p \o more)[i] = w[i]
                  BY <4>1, <1>2, <1>3
              <4> QED
                  BY <4>2, <4>3, <1>5
          <3> QED
              BY <3>1, <1>10, SeqEqual
      <2>2. w \o rest = w \o (<<Space>> \o more)
          BY <2>1, <1>1, <1>5, ConcatAssociative DEF p
      <2>3. <<Space>> \o more \in Seq(Text)
          BY <1>1, ConcatProperties
      <2>4. rest = <<Space>> \o more
          BY <2>2, <2>3, ConcatSimplifications
      <2>5. Tail(<<Space>> \o more) = more
          <3> DEFINE b == <<Space>> \o more
          <3>1. b \in Seq(Text) /\ Len(b) = 1 + Len(more) /\ b # <<>>
              BY <1>1, <2>3, ConcatProperties, EmptySeq
          <3>2. \A i \in 1..Len(more) : b[i + 1] = more[i]
              BY <1>1, ConcatProperties
          <3>3. /\ Tail(b) \in Seq(Text) /\ Len(Tail(b)) = Len(more)
                /\ \A i \in 1..Len(Tail(b)) : Tail(b)[i] = b[i + 1]
              BY <3>1, <1>1, HeadTailProperties
          <3> HIDE DEF b
          <3>4. \A i \in 1..Len(Tail(b)) : Tail(b)[i] = more[i]
              BY <3>2, <3>3
          <3> QED
              BY <3>3, <3>4, SeqEqual
      <2> QED
          BY <2>1, <2>4, <2>5
  <1> QED
      BY <1>7, <1>8, <1>9, <1>10

----------------------------------------------------------------------------
(* The words of the string.                                                *)

\* An argument is a text of the string.
LEMMA ArgumentIsText ==
    ASSUME NEW arg \in Seq(Characters)
    PROVE  /\ arg \in Seq(Text) /\ Len(arg) \in Nat /\ arg \in [1..Len(arg) -> Characters]
           /\ DoubleQuote \in Text /\ Backslash \in Text /\ Space \in Text
           /\ WrapWithQuotes(arg) \in Seq(Text) /\ Piece(arg) \in Seq(Text)
  <1>1. Characters \subseteq Text /\ DoubleQuote \in Text /\ Backslash \in Text /\ Space \in Text
      BY DEF Text
  <1>2. arg \in Seq(Text)
      BY <1>1, SeqMonotonic
  <1>3. <<DoubleQuote>> \in Seq(Text) /\ <<Space>> \in Seq(Text)
      BY <1>1
  <1>4. (<<DoubleQuote>> \o arg) \o <<DoubleQuote>> \in Seq(Text)
      BY <1>2, <1>3, ConcatProperties
  <1>5. WrapWithQuotes(arg) \in Seq(Text)
      BY <1>2, <1>4 DEF WrapWithQuotes
  <1> QED
      BY <1>1, <1>2, <1>3, <1>5, ConcatProperties, LenProperties DEF Piece

\* A plain argument without a space stands in the string as it is.
LEMMA PlainWord ==
    ASSUME NEW arg \in Seq(Characters), IsPlain(arg), ~Contains(arg, Space)
    PROVE  /\ WrapWithQuotes(arg) = arg /\ Len(arg) \in Nat /\ Len(arg) > 0
           /\ \A i \in 1..Len(arg) : arg[i] \notin Blanks \union Quotes
  <1>1. WrapWithQuotes(arg) = arg
      BY DEF WrapWithQuotes
  <1>2. Len(arg) \in Nat /\ Len(arg) > 0 /\ DOMAIN arg = 1..Len(arg)
      BY LenProperties, EmptySeq DEF IsPlain
  <1>3. \A i \in 1..Len(arg) : arg[i] # Space
      BY DEF Contains
  <1>4. \A i \in 1..Len(arg) : arg[i] \notin Quotes \union {"\t"}
      BY <1>2, Zenon DEF IsPlain
  <1>5. \A i \in 1..Len(arg) : arg[i] \notin Blanks \union Quotes
      BY <1>3, <1>4, SignsDiffer, Zenon
  <1> QED
      BY <1>1, <1>2, <1>5

\* One with a space is put into quotes, and no other quote stands between them.
LEMMA QuotedWord ==
    ASSUME NEW arg \in Seq(Characters), IsPlain(arg), Contains(arg, Space), NEW w, w = WrapWithQuotes(arg)
    PROVE  /\ w \in Seq(Text) /\ Len(w) \in Nat /\ Len(w) = Len(arg) + 2 /\ Len(arg) \in Nat /\ Len(arg) > 0
           /\ w[1] = DoubleQuote /\ w[Len(w)] = DoubleQuote
           /\ \A i \in 1..Len(arg) : w[i + 1] = arg[i] /\ arg[i] \notin Quotes
           /\ w[Len(w) - 1] # Backslash
  <1> DEFINE q == <<DoubleQuote>>
             b == q \o arg
             n == Len(arg)
  <1>1. n \in Nat /\ n > 0 /\ DOMAIN arg = 1..n /\ arg \in Seq(Text)
      BY LenProperties, EmptySeq, ArgumentIsText DEF IsPlain
  <1>2. q \in Seq(Text) /\ Len(q) = 1 /\ q[1] = DoubleQuote
      BY ArgumentIsText
  <1>3. b \in Seq(Text) /\ Len(b) = n + 1
      BY <1>1, <1>2, ConcatProperties
  <1>4. \A i \in 1..n + 1 : b[i] = IF i <= 1 THEN q[i] ELSE arg[i - 1]
      BY <1>1, <1>2, ConcatProperties
  <1>5. w = b \o q
      BY DEF WrapWithQuotes
  <1> HIDE DEF q, b
  <1>6. w \in Seq(Text) /\ Len(w) = n + 2
      <2>1. b \o q \in Seq(Text) /\ Len(b \o q) = Len(b) + Len(q)
          BY <1>2, <1>3, ConcatProperties
      <2> QED
          BY <2>1, <1>1, <1>2, <1>3, <1>5
  <1>7. \A i \in 1..n + 2 : w[i] = IF i <= n + 1 THEN b[i] ELSE q[i - (n + 1)]
      <2>1. \A i \in 1..Len(b) + Len(q) : (b \o q)[i] = IF i <= Len(b) THEN b[i] ELSE q[i - Len(b)]
          BY <1>2, <1>3, ConcatProperties
      <2>2. Len(b) + Len(q) = n + 2
          BY <1>1, <1>2, <1>3
      <2> QED
          BY <2>1, <2>2, <1>3, <1>5
  <1>8. w[1] = DoubleQuote
      BY <1>1, <1>2, <1>4, <1>7
  <1>9. w[n + 2] = DoubleQuote
      <2>1. (n + 2) - (n + 1) = 1 /\ ~(n + 2 <= n + 1) /\ n + 2 \in 1..n + 2
          BY <1>1
      <2>2. w[n + 2] = q[(n + 2) - (n + 1)]
          BY <2>1, <1>7
      <2> QED
          BY <2>1, <2>2, <1>2
  <1>10. ASSUME NEW i \in 1..n PROVE w[i + 1] = arg[i]
      <2>1. i + 1 \in 1..n + 1 /\ i + 1 \in 1..n + 2 /\ i + 1 <= n + 1 /\ ~(i + 1 <= 1) /\ (i + 1) - 1 = i
          BY <1>1
      <2>2. w[i + 1] = arg[(i + 1) - 1]
          BY <2>1, <1>4, <1>7
      <2> QED
          BY <2>1, <2>2
  <1>11. \A i \in 1..n : arg[i] \notin Quotes
      BY <1>1, Zenon DEF IsPlain
  <1>12. w[Len(w) - 1] # Backslash
      <2>1. Last(arg) # Backslash
          BY DEF IsPlain
      <2>2. Last(arg) = arg[n] /\ n \in 1..n /\ Len(w) - 1 = n + 1
          BY <1>1, <1>6 DEF Last
      <2> QED
          BY <2>1, <2>2, <1>10
  <1> QED
      BY <1>1, <1>6, <1>8, <1>9, <1>10, <1>11, <1>12

\* BuildArgv takes the quotes off again, and no others.
LEMMA StripWord ==
    ASSUME NEW arg \in Seq(Characters), IsPlain(arg)
    PROVE  Strip(WrapWithQuotes(arg)) = arg
  <1>1. CASE ~Contains(arg, Space)
      <2>1. WrapWithQuotes(arg) = arg /\ 1 \in 1..Len(arg) /\ arg[1] \notin Quotes
          BY <1>1, PlainWord
      <2>2. arg[1] # DoubleQuote
          BY <2>1, SignsDiffer
      <2> QED
          BY <2>1, <2>2 DEF Strip
  <1>2. CASE Contains(arg, Space)
      <2> DEFINE w == WrapWithQuotes(arg)
                 n == Len(arg)
                 t == SubSeq(w, 2, Len(w) - 1)
      <2>1. /\ w \in Seq(Text) /\ Len(w) = n + 2 /\ n \in Nat /\ n > 0
            /\ w[1] = DoubleQuote /\ w[Len(w)] = DoubleQuote
            /\ \A i \in 1..n : w[i + 1] = arg[i]
          BY <1>2, QuotedWord
      <2> HIDE DEF w
      <2>2. Strip(w) = t
          BY <2>1 DEF Strip, Last
      <2>3. \A i \in 2..(n + 1) : w[i] \in Text
          BY <2>1, ElementOfSeq
      <2>4. Len(w) - 1 = n + 1 /\ (n + 1) - 2 + 1 = n /\ n + 1 \in Int /\ 2 <= n + 1
          BY <2>1
      <2>5. t = SubSeq(w, 2, n + 1)
          BY <2>4
      <2>6. /\ t \in Seq(Text) /\ Len(t) = n
            /\ \A i \in 1..n : t[i] = w[2 + i - 1]
          BY <2>3, <2>4, <2>5, SubSeqProperties
      <2> HIDE DEF t
      <2>7. \A i \in 1..n : 2 + i - 1 = i + 1
          BY <2>1
      <2>8. \A i \in 1..n : t[i] = arg[i]
          BY <2>1, <2>6, <2>7
      <2>9. t = arg
          BY <2>6, <2>8, SeqEqual, ArgumentIsText
      <2> QED
          BY <2>2, <2>9 DEF w
  <1> QED
      BY <1>1, <1>2

\* The string from an argument on is the piece for the argument and the rest.
LEMMA FromNext ==
    ASSUME given \in Seq(Seq(Characters)), NEW m \in Nat, m < Len(given)
    PROVE  /\ From(m) \in Seq(Text) /\ From(m + 1) \in Seq(Text) /\ given[m + 1] \in Seq(Characters)
           /\ From(m) = Piece(given[m + 1]) \o From(m + 1)
  <1> DEFINE g == Len(given)
             ss == [i \in 1..(g - m) |-> Piece(given[m + i])]
             tt == [i \in 1..(g - (m + 1)) |-> Piece(given[(m + 1) + i])]
  <1>1. g \in Nat /\ \A i \in 1..g : given[i] \in Seq(Characters)
      BY LenProperties, ElementOfSeq
  <1>2. g - m \in Nat /\ g - m > 0 /\ g - (m + 1) \in Nat /\ g - (m + 1) = (g - m) - 1
      BY <1>1
  <1>3. ASSUME NEW i \in 1..(g - m) PROVE Piece(given[m + i]) \in Seq(Text)
      <2>1. m + i \in 1..g
          BY <1>1, <1>2
      <2>2. given[m + i] \in Seq(Characters)
          BY <2>1, <1>1
      <2> QED
          BY <2>2, ArgumentIsText
  <1>4. ASSUME NEW i \in 1..(g - (m + 1)) PROVE Piece(given[(m + 1) + i]) \in Seq(Text)
      <2>1. (m + 1) + i \in 1..g
          BY <1>1, <1>2
      <2>2. given[(m + 1) + i] \in Seq(Characters)
          BY <2>1, <1>1
      <2> QED
          BY <2>2, ArgumentIsText
  <1>5. ss \in Seq(Seq(Text)) /\ Len(ss) = g - m
      BY <1>2, <1>3
  <1>6. tt \in Seq(Seq(Text)) /\ Len(tt) = g - (m + 1)
      BY <1>2, <1>4
  <1>7. ss # <<>> /\ Head(ss) = ss[1] /\ ss[1] = Piece(given[m + 1])
      <2>1. 1 \in 1..(g - m)
          BY <1>2
      <2>2. ss[1] = Piece(given[m + 1])
          BY <2>1
      <2> HIDE DEF ss
      <2>3. ss # <<>>
          BY <1>2, <1>5, EmptySeq
      <2> QED
          BY <2>2, <2>3
  <1>8. Tail(ss) = tt
      <2>1. /\ Tail(ss) \in Seq(Seq(Text)) /\ Len(Tail(ss)) = Len(ss) - 1
            /\ \A i \in 1..Len(Tail(ss)) : Tail(ss)[i] = ss[i + 1]
          BY <1>5, <1>7, HeadTailProperties
      <2>2. ASSUME NEW i \in 1..(g - (m + 1)) PROVE Tail(ss)[i] = tt[i]
          <3>1. i + 1 \in 1..(g - m) /\ m + (i + 1) = (m + 1) + i
              BY <1>1, <1>2
          <3>2. ss[i + 1] = Piece(given[m + (i + 1)]) /\ tt[i] = Piece(given[(m + 1) + i])
              BY <3>1
          <3>3. Tail(ss)[i] = ss[i + 1]
              BY <2>1, <1>2, <1>5
          <3> QED
              BY <3>1, <3>2, <3>3
      <2> HIDE DEF ss, tt
      <2> QED
          BY <2>1, <2>2, <1>2, <1>5, <1>6, SeqEqual
  <1>9. From(m) = FlattenSeq(ss) /\ From(m + 1) = FlattenSeq(tt)
      BY DEF From
  <1>10. given[m + 1] \in Seq(Characters)
      BY <1>1, <1>2
  <1> HIDE DEF ss, tt
  <1> QED
      BY <1>5, <1>6, <1>7, <1>8, <1>9, <1>10, FlattenHeadTail, FlattenType

----------------------------------------------------------------------------
(* One turn of the loop, inside the piece of the string for an argument.   *)

\* Outside of an escape nothing is held back.
LEMMA NothingHeld ==
    ASSUME ArgvTypes, state # "ESCAPE"
    PROVE  Unpushed = curstr \o str
  <1>1. Held = <<>> /\ str \in Seq(Text)
      BY DEF Held, ArgvTypes
  <1> QED
      BY <1>1, ConcatEmptySeq DEF Unpushed

\* After a backslash it is held back.
LEMMA BackslashHeld ==
    ASSUME ArgvTypes, state = "ESCAPE"
    PROVE  /\ curstr \o <<Backslash>> \in Seq(Text) /\ Len(curstr \o <<Backslash>>) = Len(curstr) + 1
           /\ Unpushed = (curstr \o <<Backslash>>) \o str
  <1>1. <<Backslash>> \in Seq(Text) /\ Len(<<Backslash>>) = 1
      BY DEF Text
  <1>2. Held = <<Backslash>>
      BY DEF Held
  <1>3. curstr \in Seq(Text) /\ str \in Seq(Text)
      BY DEF ArgvTypes
  <1>4. curstr \o <<Backslash>> \in Seq(Text) /\ Len(curstr \o <<Backslash>>) = Len(curstr) + 1
      BY <1>1, <1>3, ConcatProperties
  <1>5. Regrouped(curstr, <<Backslash>>, str)
      BY <1>1, <1>3, Regroup
  <1> QED
      BY <1>2, <1>4, <1>5 DEF Unpushed, Regrouped

\* The types are kept.
LEMMA ReadTypes ==
    ASSUME ArgvTypes, ReadCharacter
    PROVE  ArgvTypes'
  <1>1. /\ Head(str) \in Text /\ Tail(str) \in Seq(Text) /\ str # <<>>
        /\ <<Head(str)>> \in Seq(Text) /\ <<Backslash, Head(str)>> \in Seq(Text)
      BY HeadTailProperties DEF ArgvTypes, ReadCharacter, Text
  <1>2. given' \in Seq(Seq(Characters)) /\ str' \in Seq(Text)
      BY <1>1 DEF ArgvTypes, ReadCharacter
  <1>3. ASSUME NEW t \in Seq(Text), Add(t) PROVE curstr' \in Seq(Text) /\ A' \in Seq(Seq(Text))
      BY <1>3, ConcatProperties DEF Add, ArgvTypes
  <1>4. ASSUME Push PROVE curstr' \in Seq(Text) /\ A' \in Seq(Seq(Text))
      <2>1. CASE curstr = <<>>
          BY <1>4, <2>1 DEF Push, ArgvTypes
      <2>2. CASE curstr # <<>>
          <3>1. Append(A, curstr) \in Seq(Seq(Text)) /\ <<>> \in Seq(Text)
              BY AppendProperties, EmptySeq DEF ArgvTypes
          <3> QED
              BY <1>4, <2>2, <3>1 DEF Push
      <2> QED
          BY <2>1, <2>2
  <1>5. curstr' \in Seq(Text) /\ A' \in Seq(Seq(Text))
      <2>1. CASE ScanNormal(Head(str))
          BY <2>1, <1>1, <1>3, <1>4 DEF ScanNormal
      <2>2. CASE ScanEscaped(Head(str))
          BY <2>2, <1>1, <1>3 DEF ScanEscaped
      <2>3. CASE ScanQuoted(Head(str))
          <3>1. CASE UNCHANGED <<curstr, A>>
              BY <3>1 DEF ArgvTypes
          <3> QED
              BY <2>3, <3>1, <1>1, <1>3 DEF ScanQuoted
      <2> QED
          BY <2>1, <2>2, <2>3 DEF ReadCharacter
  <1> QED
      BY <1>2, <1>5 DEF ArgvTypes

\* A character that is added to curstr only changes its place.
LEMMA CharacterMoves ==
    ASSUME ArgvTypes, ReadCharacter, Add(<<Head(str)>>), state # "ESCAPE", state' # "ESCAPE"
    PROVE  A' = A /\ Unpushed' = Unpushed /\ Len(curstr) \in Nat /\ Len(curstr') = Len(curstr) + 1
  <1>1. ArgvTypes' /\ str \in Seq(Text) /\ str # <<>> /\ curstr \in Seq(Text) /\ str' = Tail(str)
      BY ReadTypes DEF ArgvTypes, ReadCharacter
  <1>2. Unpushed = curstr \o str
      BY NothingHeld
  <1>5. Unpushed' = curstr' \o str'
      <2>1. Held' = <<>> /\ str' \in Seq(Text)
          BY <1>1 DEF Held, ArgvTypes
      <2> QED
          BY <2>1, ConcatEmptySeq DEF Unpushed
  <1>3. <<Head(str)>> \in Seq(Text) /\ Len(<<Head(str)>>) = 1 /\ Moves(curstr, str)
      BY <1>1, HeadMoves
  <1>4. Len(curstr \o <<Head(str)>>) = Len(curstr) + 1 /\ Len(curstr) \in Nat
      BY <1>1, <1>3, ConcatProperties, LenProperties
  <1> QED
      BY <1>1, <1>2, <1>3, <1>4, <1>5 DEF Add, Moves

\* The blank after the argument ends it.
LEMMA WordEnds ==
    ASSUME ArgvTypes, ReadCharacter, state = "NORMAL", NEW w \in Seq(Text), NEW more \in Seq(Text),
           Len(w) > 0, Unpushed = (w \o <<Space>>) \o more, Len(curstr) = Len(w)
    PROVE  /\ A' = Append(A, w) /\ Unpushed' = more
           /\ state' = "NORMAL" /\ curstr' = <<>>
  <1>1. curstr \in Seq(Text) /\ str \in Seq(Text) /\ Space \in Text /\ Len(w) \in Nat
      BY LenProperties DEF ArgvTypes, Text
  <1>2. Splits(curstr, str, w, more)
      BY NothingHeld, SignsDiffer DEF Splits
  <1>3. Head(str) = Space /\ curstr = w /\ Tail(str) = more
      BY <1>1, <1>2, NextCharacter
  <1>4. ScanNormal(Space)
      BY <1>3, SignsDiffer DEF ReadCharacter, ScanEscaped, ScanQuoted
  <1>5. Push /\ Stay
      BY <1>4, SignsDiffer DEF ScanNormal
  <1>6. curstr # <<>>
      BY <1>1, <1>3, EmptySeq
  <1>7. A' = Append(A, w) /\ curstr' = <<>> /\ state' = "NORMAL" /\ str' = more
      BY <1>3, <1>5, <1>6 DEF Push, Stay, ReadCharacter
  <1>8. Held' = <<>>
      BY <1>7, SignsDiffer DEF Held
  <1>9. <<>> \o (<<>> \o more) = more
      BY ConcatEmptySeq
  <1> QED
      BY <1>7, <1>8, <1>9 DEF Unpushed

\* A word without a space.
LEMMA ReadPlainWord ==
    ASSUME ArgvTypes, ReadCharacter, NEW arg \in Seq(Characters), IsPlain(arg), ~Contains(arg, Space),
           NEW more \in Seq(Text), Unpushed = Piece(arg) \o more, Within(arg),
           Len(curstr) # Len(WrapWithQuotes(arg))
    PROVE  A' = A /\ Unpushed' = Unpushed /\ Within(arg)'
  <1> DEFINE n == Len(arg)
  <1>1. /\ WrapWithQuotes(arg) = arg /\ n \in Nat /\ arg \in Seq(Text)
        /\ \A i \in 1..n : arg[i] \notin Blanks \union Quotes
      BY PlainWord, ArgumentIsText
  <1>2. state = "NORMAL" /\ Len(curstr) < n /\ Len(curstr) \in Nat
      BY <1>1, LenProperties DEF Within, InPlainWord, ArgvTypes
  <1>3. Splits(curstr, str, arg, more)
      BY <1>1, <1>2, NothingHeld, SignsDiffer DEF Piece, Splits
  <1>4. Head(str) = arg[Len(curstr) + 1]
      <2>1. curstr \in Seq(Text) /\ str \in Seq(Text)
          BY DEF ArgvTypes
      <2> QED
          BY <2>1, <1>1, <1>2, <1>3, NextCharacter
  <1>5. Len(curstr) + 1 \in 1..n
      BY <1>1, <1>2
  <1>6. Head(str) \notin Blanks \union Quotes
      BY <1>1, <1>4, <1>5
  <1>7. ScanNormal(Head(str))
      BY <1>2, SignsDiffer DEF ReadCharacter, ScanEscaped, ScanQuoted
  <1>8. Add(<<Head(str)>>) /\ Stay
      BY <1>6, <1>7 DEF ScanNormal
  <1>9. state' = "NORMAL" /\ state # "ESCAPE" /\ state' # "ESCAPE"
      BY <1>2, <1>8, SignsDiffer DEF Stay
  <1>10. A' = A /\ Unpushed' = Unpushed /\ Len(curstr') = Len(curstr) + 1
      BY <1>8, <1>9, CharacterMoves
  <1>11. InPlainWord(arg)'
      BY <1>1, <1>2, <1>9, <1>10 DEF InPlainWord
  <1> QED
      BY <1>1, <1>10, <1>11 DEF Within

\* A word in quotes.
LEMMA ReadQuotedWord ==
    ASSUME ArgvTypes, ReadCharacter, NEW arg \in Seq(Characters), IsPlain(arg), Contains(arg, Space),
           NEW more \in Seq(Text), Unpushed = Piece(arg) \o more, Within(arg),
           ~(state = "NORMAL" /\ Len(curstr) = Len(WrapWithQuotes(arg)))
    PROVE  A' = A /\ Unpushed' = Unpushed /\ Within(arg)'
  <1> DEFINE w == WrapWithQuotes(arg)
             n == Len(arg)
             c == Len(curstr)
             ch == Head(str)
  <1>1. /\ w \in Seq(Text) /\ Len(w) \in Nat /\ Len(w) = n + 2 /\ n \in Nat /\ n > 0
        /\ w[1] = DoubleQuote /\ w[Len(w)] = DoubleQuote
        /\ \A i \in 1..n : w[i + 1] = arg[i] /\ arg[i] \notin Quotes
        /\ w[Len(w) - 1] # Backslash
      BY QuotedWord
  <1>2. curstr \in Seq(Text) /\ str \in Seq(Text) /\ Space \in Text /\ c \in Nat
      BY LenProperties DEF ArgvTypes, Text
  <1>3. InQuotedWord(w) /\ Unpushed = (w \o <<Space>>) \o more
      BY DEF Within, Piece
  <1> HIDE DEF w
  <1>4. ASSUME state' # "ESCAPE", state # "ESCAPE", Add(<<ch>>) PROVE
            A' = A /\ Unpushed' = Unpushed /\ Len(curstr') = c + 1
      BY <1>4, CharacterMoves
  <1>5. ASSUME state # "ESCAPE" PROVE Splits(curstr, str, w, more)
      BY <1>3, <1>5, NothingHeld DEF Splits
  <1>6. SUFFICES A' = A /\ Unpushed' = Unpushed /\ InQuotedWord(w)'
      BY DEF Within, w
  <1>7. CASE state = "NORMAL" /\ c = 0
      <2>0. Splits(curstr, str, w, more) /\ c <= Len(w) /\ c < Len(w) /\ c + 1 = 1
          BY <1>1, <1>5, <1>7, SignsDiffer
      <2>1. ch = DoubleQuote
          BY <1>1, <1>2, <2>0, NextCharacter
      <2>2. ScanNormal(DoubleQuote)
          BY <1>7, <2>1, SignsDiffer DEF ReadCharacter, ScanEscaped, ScanQuoted
      <2>3. Change(DoubleQuote) /\ Add(<<ch>>)
          BY <2>1, <2>2, SignsDiffer DEF ScanNormal
      <2>4. state' = DoubleQuote /\ prev' = "NORMAL" /\ state # "ESCAPE" /\ state' # "ESCAPE"
          BY <1>7, <2>3, SignsDiffer DEF Change
      <2>5. A' = A /\ Unpushed' = Unpushed /\ Len(curstr') = c + 1
          BY <1>4, <2>3, <2>4
      <2>6. Len(curstr') \in 1..(Len(w) - 1)
          BY <1>1, <1>7, <2>5
      <2> QED
          BY <2>4, <2>5, <2>6 DEF InQuotedWord
  <1>8. CASE state = DoubleQuote /\ prev = "NORMAL" /\ c \in 1..(Len(w) - 1)
      <2>0. Splits(curstr, str, w, more) /\ c <= Len(w) /\ c < Len(w)
          BY <1>1, <1>5, <1>8, SignsDiffer
      <2>1. ch = w[c + 1]
          BY <1>1, <1>2, <2>0, NextCharacter
      <2>2. ScanQuoted(ch) /\ state # "ESCAPE" /\ state # "NORMAL"
          BY <1>8, SignsDiffer DEF ReadCharacter, ScanEscaped, ScanNormal
      <2>3. CASE c = Len(w) - 1
          <3>1. ch = DoubleQuote
              BY <2>1, <2>3, <1>1
          <3>2. Add(<<ch>>) /\ Restore
              BY <1>8, <2>2, <3>1, SignsDiffer DEF ScanQuoted
          <3>3. state' = "NORMAL"
              BY <1>8, <3>2 DEF Restore
          <3>4. A' = A /\ Unpushed' = Unpushed /\ Len(curstr') = c + 1
              BY <1>4, <2>2, <3>2, <3>3, SignsDiffer
          <3> QED
              BY <3>3, <3>4, <2>3, <1>1 DEF InQuotedWord
      <2>4. CASE c # Len(w) - 1
          <3>1. c \in 1..n /\ c + 1 <= Len(w) - 1
              BY <2>4, <1>1, <1>8
          <3>2. ch \notin Quotes /\ ch # DoubleQuote
              BY <2>1, <3>1, <1>1, SignsDiffer
          <3>3. CASE ch = Backslash
              <4>1. c + 1 # Len(w) - 1
                  BY <2>1, <3>3, <1>1
              <4>2. Change("ESCAPE") /\ UNCHANGED <<curstr, A>>
                  BY <1>8, <2>2, <3>2, <3>3 DEF ScanQuoted
              <4>3. state' = "ESCAPE" /\ prev' = DoubleQuote
                  BY <4>2, <1>8 DEF Change
              <4>4. Len(curstr') \in 1..(Len(w) - 3)
                  <5>1. c <= Len(w) - 3 /\ c >= 1
                      BY <4>1, <3>1, <1>1, <1>2
                  <5>2. Len(curstr') = c
                      BY <4>2
                  <5> QED
                      BY <5>1, <5>2, <1>1, <1>2
              <4>5. Unpushed' = Unpushed
                  <5>1. Held' = <<ch>> /\ curstr' = curstr /\ str' = Tail(str) /\ str # <<>>
                      BY <4>2, <4>3, <3>3 DEF Held, ReadCharacter
                  <5>2. <<ch>> \in Seq(Text) /\ Tail(str) \in Seq(Text) /\ Moves(curstr, str)
                      BY <5>1, <1>2, HeadMoves
                  <5>3. curstr \o (<<ch>> \o Tail(str)) = curstr \o str
                      <6>1. Regrouped(curstr, <<ch>>, Tail(str))
                          BY <5>2, <1>2, Regroup
                      <6> QED
                          BY <5>2, <6>1 DEF Regrouped, Moves
                  <5> QED
                      BY <5>1, <5>3, <2>2, NothingHeld DEF Unpushed
              <4> QED
                  BY <4>2, <4>3, <4>4, <4>5 DEF InQuotedWord
          <3>4. CASE ch # Backslash
              <4>1. Add(<<ch>>) /\ Stay
                  BY <1>8, <2>2, <3>2, <3>4 DEF ScanQuoted
              <4>2. state' = DoubleQuote /\ prev' = "NORMAL"
                  BY <4>1, <1>8 DEF Stay
              <4>3. A' = A /\ Unpushed' = Unpushed /\ Len(curstr') = c + 1
                  BY <1>4, <2>2, <4>1, <4>2, SignsDiffer
              <4>4. Len(curstr') \in 1..(Len(w) - 1)
                  BY <4>3, <3>1, <1>1
              <4> QED
                  BY <4>2, <4>3, <4>4 DEF InQuotedWord
          <3> QED
              BY <3>3, <3>4
      <2> QED
          BY <2>3, <2>4
  <1>9. CASE state = "ESCAPE" /\ prev = DoubleQuote /\ c \in 1..(Len(w) - 3)
      <2> DEFINE d == curstr \o <<Backslash>>
      <2>1. d \in Seq(Text) /\ Len(d) = c + 1 /\ Unpushed = d \o str
          BY <1>9, BackslashHeld
      <2> HIDE DEF d
      <2>2. Splits(d, str, w, more) /\ Len(d) <= Len(w) /\ Len(d) < Len(w)
          BY <2>1, <1>3, <1>1, <1>9 DEF Splits
      <2>3. ch = w[(c + 1) + 1]
          <3>1. ch = w[Len(d) + 1]
              BY <1>1, <1>2, <2>1, <2>2, NextCharacter
          <3> QED
              BY <3>1, <2>1
      <2>4. c + 1 \in 1..n
          BY <1>1, <1>9
      <2>5. ch \notin Quotes /\ ch # prev
          BY <2>3, <2>4, <1>1, <1>9, SignsDiffer
      <2>6. ScanEscaped(ch)
          BY <1>9, SignsDiffer DEF ReadCharacter, ScanQuoted, ScanNormal
      <2>7. curstr' = curstr \o <<Backslash, ch>> /\ A' = A /\ state' = DoubleQuote /\ prev' = "NORMAL"
          BY <1>9, <2>5, <2>6 DEF ScanEscaped, Add, Restore
      <2>8. /\ str # <<>> /\ str' = Tail(str) /\ <<ch>> \in Seq(Text) /\ Tail(str) \in Seq(Text)
            /\ ch \in Text /\ Moves(d, str)
          BY <1>2, <2>1, HeadMoves DEF ReadCharacter
      <2>9. d \o <<ch>> = curstr \o <<Backslash, ch>>
          <3>1. <<Backslash>> \in Seq(Text) /\ Backslash \in Text
              BY DEF Text
          <3>2. <<Backslash>> \o <<ch>> = <<Backslash, ch>>
              BY <3>1, <2>8, OneAndOne
          <3>3. Regrouped(curstr, <<Backslash>>, <<ch>>)
              BY <3>1, <2>8, <1>2, Regroup
          <3> QED
              BY <3>2, <3>3 DEF d, Regrouped
      <2>10. Len(curstr') = c + 2
          <3>1. Len(d \o <<ch>>) = Len(d) + 1
              BY <2>1, <2>8, ConcatProperties
          <3> QED
              BY <3>1, <2>1, <2>7, <2>9, <1>2
      <2>11. Held' = <<>>
          BY <2>7, SignsDiffer DEF Held
      <2>12. Unpushed' = (d \o <<ch>>) \o Tail(str)
          BY <2>7, <2>8, <2>9, <2>11, ConcatEmptySeq DEF Unpushed
      <2>13. Len(curstr') \in 1..(Len(w) - 1)
          BY <2>10, <1>1, <1>9
      <2> QED
          BY <2>1, <2>7, <2>8, <2>12, <2>13 DEF InQuotedWord, Moves
  <1> QED
      BY <1>3, <1>7, <1>8, <1>9 DEF InQuotedWord, w

\* A turn of the loop in the piece for a plain argument leads on in the piece, or ends
\* the argument.
LEMMA ReadInWord ==
    ASSUME ArgvTypes, ReadCharacter, NEW arg \in Seq(Characters), IsPlain(arg),
           NEW more \in Seq(Text), Unpushed = Piece(arg) \o more, Within(arg)
    PROVE  \/ A' = A /\ Unpushed' = Unpushed /\ Within(arg)'
           \/ /\ A' = Append(A, WrapWithQuotes(arg)) /\ Unpushed' = more
              /\ state' = "NORMAL" /\ curstr' = <<>>
  <1> DEFINE w == WrapWithQuotes(arg)
  <1>1. w \in Seq(Text) /\ Len(w) > 0
      <2>1. CASE Contains(arg, Space)
          BY <2>1, QuotedWord
      <2>2. CASE ~Contains(arg, Space)
          BY <2>2, PlainWord, ArgumentIsText
      <2> QED
          BY <2>1, <2>2
  <1>2. CASE state = "NORMAL" /\ Len(curstr) = Len(w)
      BY <1>1, <1>2, WordEnds DEF Piece
  <1>3. CASE ~(state = "NORMAL" /\ Len(curstr) = Len(w)) /\ Contains(arg, Space)
      BY <1>3, ReadQuotedWord
  <1>4. CASE ~(state = "NORMAL" /\ Len(curstr) = Len(w)) /\ ~Contains(arg, Space)
      BY <1>4, ReadPlainWord DEF Within, InPlainWord
  <1> QED
      BY <1>2, <1>3, <1>4

\* The string does not end within the piece for an argument.
LEMMA WordIsNotLast ==
    ASSUME ArgvTypes, NEW arg \in Seq(Characters), IsPlain(arg),
           NEW more \in Seq(Text), Unpushed = Piece(arg) \o more, Within(arg)
    PROVE  str # <<>>
  <1> DEFINE w == WrapWithQuotes(arg)
  <1>1. /\ w \in Seq(Text) /\ Len(w) \in Nat /\ curstr \in Seq(Text) /\ Len(curstr) \in Nat
        /\ str \in Seq(Text)
      BY ArgumentIsText, LenProperties DEF ArgvTypes
  <1>2. Unpushed = (w \o <<Space>>) \o more
      BY DEF Piece
  <1>3. InQuotedWord(w) \/ InPlainWord(w)
      BY DEF Within
  <1> HIDE DEF w
  <1>4. CASE state # "ESCAPE"
      <2>1. Splits(curstr, str, w, more)
          BY <1>2, <1>4, NothingHeld DEF Splits
      <2>2. Len(curstr) <= Len(w)
          BY <1>1, <1>3, <1>4 DEF InQuotedWord, InPlainWord
      <2> QED
          BY <1>1, <2>1, <2>2, NextCharacter
  <1>5. CASE state = "ESCAPE"
      <2> DEFINE d == curstr \o <<Backslash>>
      <2>1. d \in Seq(Text) /\ Len(d) = Len(curstr) + 1 /\ Splits(d, str, w, more)
          BY <1>2, <1>5, BackslashHeld DEF Splits
      <2> HIDE DEF d
      <2>2. Len(curstr) + 1 <= Len(w)
          BY <1>1, <1>3, <1>5, SignsDiffer DEF InQuotedWord, InPlainWord
      <2> QED
          BY <1>1, <2>1, <2>2, NextCharacter
  <1> QED
      BY <1>4, <1>5

\* At the first character of a word the scanner is within it.
LEMMA WordBegins ==
    ASSUME NEW arg \in Seq(Characters), state = "NORMAL", curstr = <<>>
    PROVE  Within(arg)
  <1>1. Len(curstr) = 0 /\ Len(WrapWithQuotes(arg)) \in Nat
      BY ArgumentIsText, LenProperties, EmptySeq
  <1> QED
      BY <1>1 DEF Within, InQuotedWord, InPlainWord

----------------------------------------------------------------------------
(* The steps keep the invariant.                                           *)

LEMMA InitArgv == CommandInit => ArgvKept
  <1> SUFFICES ASSUME CommandInit PROVE ArgvKept
      OBVIOUS
  <1>1. given = <<>> /\ Len(given) = 0
      BY EmptySeq DEF CommandInit
  <1>2. ArgvTypes
      BY EmptySeq DEF CommandInit, ArgvTypes
  <1>3. IdleAtFirst
      BY DEF CommandInit, IdleAtFirst
  <1>4. ~(0 < 0) /\ Len(A) = 0 /\ \A k \in 0..0 : k = 0
      BY EmptySeq DEF CommandInit
  <1>5. CutSoFar
      BY <1>1, <1>4 DEF CutSoFar, Cut
  <1>6. ArgvIsCommand
      BY DEF CommandInit, ArgvIsCommand
  <1> QED
      BY <1>2, <1>3, <1>5, <1>6 DEF ArgvKept

\* A command is a sequence of texts.
LEMMA CommandType ==
    ASSUME NEW cmd \in CommandsOfTexts
    PROVE  cmd \in Seq(Seq(Characters)) /\ cmd # <<>>
  <1>1. PICK k \in 1..MaxArguments : cmd \in [1..k -> Texts(MaxArgument)]
      BY DEF CommandsOfTexts
  <1>2. k \in Nat /\ k > 0
      BY BoundsAssumption
  <1>3. Texts(MaxArgument) \subseteq Seq(Characters)
      <2> SUFFICES ASSUME NEW t \in Texts(MaxArgument) PROVE t \in Seq(Characters)
          OBVIOUS
      <2>1. PICK n \in 0..MaxArgument : t \in [1..n -> Characters]
          BY DEF Texts
      <2>2. n \in Nat
          BY BoundsAssumption
      <2> QED
          BY <2>1, <2>2, SeqDef
  <1>4. cmd \in [1..k -> Seq(Characters)]
      BY <1>1, <1>3
  <1>5. cmd \in Seq(Seq(Characters))
      BY <1>2, <1>4, SeqDef
  <1>6. Len(cmd) = k
      BY <1>2, <1>4
  <1> QED
      BY <1>2, <1>5, <1>6, EmptySeq

\* Execute joins the arguments.
LEMMA ExecuteArgv ==
    ASSUME ArgvKept, NEW cmd \in CommandsOfTexts, Execute(cmd)
    PROVE  ArgvKept'
  <1>1. cmd \in Seq(Seq(Characters)) /\ cmd # <<>> /\ given' = cmd
      BY CommandType DEF Execute
  <1>2. /\ state' = "NORMAL" /\ curstr' = <<>> /\ A' = <<>> /\ argv' = NotStarted
        /\ str' = CommandString(cmd)
      BY DEF ArgvKept, IdleAtFirst, Execute, scannerVars
  <1>3. Len(cmd) \in Nat /\ Len(cmd) > 0 /\ DOMAIN cmd = 1..Len(cmd)
        /\ \A i \in 1..Len(cmd) : cmd[i] \in Seq(Characters)
      BY <1>1, LenProperties, EmptySeq, ElementOfSeq
  <1>4. str' = From(0)'
      <2>1. [i \in DOMAIN cmd |-> Piece(cmd[i])] = [i \in 1..(Len(cmd) - 0) |-> Piece(cmd[0 + i])]
          BY <1>3
      <2> QED
          BY <1>1, <1>2, <2>1 DEF CommandString, From
  <1>5. str' \in Seq(Text)
      <2>1. \A i \in 1..Len(cmd) : Piece(cmd[i]) \in Seq(Text)
          BY <1>3, ArgumentIsText
      <2>2. [i \in DOMAIN cmd |-> Piece(cmd[i])] \in Seq(Seq(Text))
          BY <1>3, <2>1
      <2> QED
          BY <1>2, <2>2, FlattenType DEF CommandString
  <1>6. ArgvTypes'
      BY <1>1, <1>2, <1>5, EmptySeq DEF ArgvTypes
  <1>7. Unpushed' = str'
      <2>1. Held' = <<>>
          BY <1>2, SignsDiffer DEF Held
      <2> QED
          BY <1>2, <1>5, <2>1, ConcatEmptySeq DEF Unpushed
  <1>8. Within(given[1])'
      <2>1. 1 \in 1..Len(cmd)
          BY <1>3
      <2>2. cmd[1] \in Seq(Characters)
          BY <1>3, <2>1
      <2>3. Len(curstr') = 0 /\ Len(WrapWithQuotes(cmd[1])) \in Nat
          BY <2>2, <1>2, ArgumentIsText, LenProperties, EmptySeq
      <2> QED
          BY <1>1, <1>2, <2>3 DEF Within, InQuotedWord, InPlainWord
  <1>9. Len(A') = 0 /\ 0 + 1 = 1
      BY <1>2, EmptySeq
  <1>10. CutSoFar'
      <2>1. \A k \in 0..Len(given') : \A i \in 1..k : ~(i <= 0)
          BY <1>1, <1>3
      <2> QED
          BY <1>4, <1>7, <1>8, <1>9, <2>1 DEF CutSoFar, Cut
  <1>11. IdleAtFirst' /\ ArgvIsCommand'
      BY <1>1, <1>2 DEF IdleAtFirst, ArgvIsCommand
  <1> QED
      BY <1>6, <1>10, <1>11 DEF ArgvKept

\* A turn of the loop keeps what is cut, and cuts the next argument as it stands.
LEMMA ReadArgv ==
    ASSUME ArgvKept, ReadCharacter
    PROVE  ArgvKept'
  <1>1. ArgvTypes' /\ given' = given /\ argv' = argv /\ given # <<>>
      BY ReadTypes DEF ArgvKept, IdleAtFirst, ReadCharacter
  <1>2. /\ given \in Seq(Seq(Characters)) /\ Len(given) \in Nat
        /\ A \in Seq(Seq(Text)) /\ Len(A) \in Nat
      BY LenProperties DEF ArgvKept, ArgvTypes
  <1>3. A' = A \/ (curstr # <<>> /\ A' = Append(A, curstr))
      BY DEF ReadCharacter, ScanNormal, ScanEscaped, ScanQuoted, Push, Add
  <1>4. Len(A') \in Nat /\ Len(A') >= Len(A) /\ \A i \in 1..Len(A) : A'[i] = A[i]
      <2>1. curstr \in Seq(Text)
          BY DEF ArgvKept, ArgvTypes
      <2>2. Len(Append(A, curstr)) = Len(A) + 1 /\ \A i \in 1..Len(A) : Append(A, curstr)[i] = A[i]
          BY <1>2, <2>1, AppendProperties
      <2>3. CASE A' = A
          BY <2>3, <1>2
      <2>4. CASE A' = Append(A, curstr)
          BY <2>4, <2>2, <1>2
      <2> QED
          BY <1>3, <2>3, <2>4
  <1>5. CutSoFar'
      <2> SUFFICES ASSUME NEW k \in 0..Len(given), AllPlain(k) PROVE Cut(k)'
          BY <1>1 DEF CutSoFar, AllPlain
      <2>1. Cut(k)
          BY DEF ArgvKept, CutSoFar
      <2>2. CASE Len(A) >= k
          <3>1. ~(Len(A') < k) /\ \A i \in 1..k : i \in 1..Len(A) /\ i <= Len(A)
              BY <2>2, <1>2, <1>4
          <3> QED
              BY <2>1, <3>1, <1>1, <1>4 DEF Cut
      <2>3. CASE Len(A) < k
          <3>1. PICK m \in Nat : m = Len(A)
              BY <1>2
          <3>2. m < Len(given) /\ m + 1 \in 1..k /\ m + 1 \in 1..Len(given)
              BY <2>3, <3>1, <1>2
          <3>3. PICK arg \in Seq(Characters) : arg = given[m + 1]
              BY <3>1, <3>2, <1>2, FromNext
          <3>4. From(m + 1) \in Seq(Text) /\ From(m) = Piece(arg) \o From(m + 1)
              BY <3>1, <3>2, <3>3, <1>2, FromNext
          <3>5. PICK more \in Seq(Text) : more = From(m + 1)
              BY <3>4
          <3>6. Unpushed = From(m) /\ Within(arg)
              BY <2>1, <2>3, <3>1, <3>3 DEF Cut
          <3>7. IsPlain(arg) /\ Unpushed = Piece(arg) \o more
              BY <3>2, <3>3, <3>4, <3>5, <3>6 DEF AllPlain
          <3>8. From(m)' = From(m) /\ From(m + 1)' = From(m + 1)
              BY <1>1 DEF From
          <3>9. \/ A' = A /\ Unpushed' = Unpushed /\ Within(arg)'
                \/ /\ A' = Append(A, WrapWithQuotes(arg)) /\ Unpushed' = more
                   /\ state' = "NORMAL" /\ curstr' = <<>>
              BY <3>6, <3>7, ReadInWord DEF ArgvKept
          <3>10. CASE A' = A /\ Unpushed' = Unpushed /\ Within(arg)'
              <4>1. Len(A') = m /\ Within(given[m + 1])' /\ Unpushed' = From(m)'
                  BY <3>1, <3>3, <3>6, <3>8, <3>10, <1>1
              <4>2. \A i \in 1..k : i <= Len(A') => A'[i] = WrapWithQuotes(given'[i])
                  BY <2>1, <3>10, <1>1 DEF Cut
              <4> QED
                  BY <4>1, <4>2 DEF Cut
          <3>11. CASE /\ A' = Append(A, WrapWithQuotes(arg)) /\ Unpushed' = more
                      /\ state' = "NORMAL" /\ curstr' = <<>>
              <4>1. WrapWithQuotes(arg) \in Seq(Text)
                  BY ArgumentIsText
              <4>2. Len(A') = m + 1 /\ A'[m + 1] = WrapWithQuotes(given[m + 1])
                  BY <3>1, <3>3, <3>11, <4>1, <1>2, AppendProperties
              <4>3. ASSUME NEW i \in 1..k, i <= m + 1 PROVE A'[i] = WrapWithQuotes(given'[i])
                  <5>1. CASE i = m + 1
                      BY <4>2, <5>1, <1>1
                  <5>2. CASE i <= m
                      BY <5>2, <2>1, <3>1, <1>1, <1>2, <1>4 DEF Cut
                  <5> QED
                      BY <5>1, <5>2, <3>1, <4>3
              <4>4. ASSUME m + 1 < k PROVE Within(given[(m + 1) + 1])'
                  <5>1. (m + 1) + 1 \in 1..Len(given)
                      BY <4>4, <3>1, <1>2
                  <5>2. given[(m + 1) + 1] \in Seq(Characters)
                      BY <5>1, <1>2, ElementOfSeq
                  <5>3. Len(curstr') = 0 /\ Len(WrapWithQuotes(given[(m + 1) + 1])) \in Nat
                      BY <5>2, <3>11, ArgumentIsText, LenProperties, EmptySeq
                  <5> QED
                      BY <5>3, <3>11, <1>1 DEF Within, InQuotedWord, InPlainWord
              <4>5. Unpushed' = From(m + 1)'
                  BY <3>5, <3>8, <3>11
              <4> QED
                  BY <4>2, <4>3, <4>4, <4>5 DEF Cut
          <3> QED
              BY <3>9, <3>10, <3>11
      <2> QED
          BY <2>2, <2>3, <1>2
  <1>6. IdleAtFirst'
      BY <1>1 DEF IdleAtFirst
  <1>7. ArgvIsCommand'
      BY <1>1 DEF ArgvKept, ArgvIsCommand
  <1> QED
      BY <1>1, <1>5, <1>6, <1>7 DEF ArgvKept

\* The first k elements of a sequence.
LEMMA SubSeqOfFirst ==
    ASSUME NEW S, NEW s, NEW k \in Nat, \A i \in 1..k : s[i] \in S
    PROVE  /\ SubSeq(s, 1, k) \in Seq(S) /\ Len(SubSeq(s, 1, k)) = k
           /\ \A i \in 1..k : SubSeq(s, 1, k)[i] = s[i]
  <1>1. k \in Int /\ k - 1 + 1 = k /\ (1 <= k \/ k = 0) /\ \A i \in 1..k : 1 + i - 1 = i
      OBVIOUS
  <1>2. /\ SubSeq(s, 1, k) \in Seq(S)
        /\ Len(SubSeq(s, 1, k)) = IF 1 <= k THEN k - 1 + 1 ELSE 0
        /\ \A i \in 1..(k - 1 + 1) : SubSeq(s, 1, k)[i] = s[1 + i - 1]
      BY <1>1, SubSeqProperties
  <1> QED
      BY <1>1, <1>2

\* The process is started with what was cut, without its quotes.
LEMMA ProcessArgv ==
    ASSUME ArgvKept, ExecuteProcess
    PROVE  ArgvKept'
  <1>1. /\ given' = given /\ str' = str /\ state' = state /\ given # <<>> /\ str = <<>>
        /\ argv' = [i \in DOMAIN A' |-> Strip(A'[i])]
      BY DEF ExecuteProcess
  <1>2. /\ given \in Seq(Seq(Characters)) /\ Len(given) \in Nat /\ curstr \in Seq(Text)
        /\ A \in Seq(Seq(Text)) /\ Len(A) \in Nat
      BY LenProperties DEF ArgvKept, ArgvTypes
  <1>3. \/ curstr' = curstr /\ A' = A
        \/ A' = Append(A, curstr) /\ curstr' = <<>>
      BY DEF ExecuteProcess, Push
  <1>4. /\ A' \in Seq(Seq(Text)) /\ curstr' \in Seq(Text)
        /\ Len(A') \in Nat /\ Len(A') >= Len(A) /\ \A i \in 1..Len(A) : A'[i] = A[i]
      <2>1. CASE curstr' = curstr /\ A' = A
          BY <2>1, <1>2
      <2>2. CASE A' = Append(A, curstr) /\ curstr' = <<>>
          <3>1. /\ Append(A, curstr) \in Seq(Seq(Text)) /\ Len(Append(A, curstr)) = Len(A) + 1
                /\ \A i \in 1..Len(A) : Append(A, curstr)[i] = A[i]
              BY <1>2, AppendProperties
          <3> QED
              BY <2>2, <3>1, <1>2, EmptySeq
      <2> QED
          BY <1>3, <2>1, <2>2
  <1>5. ASSUME NEW k \in 0..Len(given), AllPlain(k)
        PROVE  Len(A) >= k /\ \A i \in 1..k : A[i] = WrapWithQuotes(given[i])
      <2>1. Cut(k)
          BY <1>5 DEF ArgvKept, CutSoFar
      <2>2. Len(A) >= k
          <3> SUFFICES ASSUME Len(A) < k PROVE FALSE
              BY <1>2
          <3> DEFINE m == Len(A)
          <3>1. m < Len(given) /\ m + 1 \in 1..k
              BY <1>2
          <3>2. /\ given[m + 1] \in Seq(Characters) /\ From(m + 1) \in Seq(Text)
                /\ Unpushed = Piece(given[m + 1]) \o From(m + 1) /\ Within(given[m + 1])
              BY <2>1, <3>1, <1>2, FromNext DEF Cut
          <3>3. IsPlain(given[m + 1])
              BY <3>1, <1>5 DEF AllPlain
          <3> QED
              BY <3>2, <3>3, <1>1, WordIsNotLast DEF ArgvKept
      <2> QED
          BY <2>1, <2>2, <1>2 DEF Cut
  <1>6. ArgvTypes'
      BY <1>1, <1>2, <1>4 DEF ArgvKept, ArgvTypes
  <1>7. IdleAtFirst'
      BY <1>1 DEF IdleAtFirst
  <1>8. CutSoFar'
      <2> SUFFICES ASSUME NEW k \in 0..Len(given), AllPlain(k) PROVE Cut(k)'
          BY <1>1 DEF CutSoFar, AllPlain
      <2>1. ~(Len(A') < k) /\ \A i \in 1..k : i \in 1..Len(A)
          BY <1>2, <1>4, <1>5
      <2> QED
          BY <2>1, <1>1, <1>4, <1>5 DEF Cut
  <1>9. ArgvIsCommand'
      <2> SUFFICES ASSUME NEW k \in 0..Len(given), AllPlain(k)
                   PROVE  Len(argv') >= k /\ SubSeq(argv', 1, k) = SubSeq(given, 1, k)
          BY <1>1 DEF ArgvIsCommand, AllPlain
      <2>1. Len(A) >= k /\ k \in Nat /\ k <= Len(given) /\ k <= Len(A')
          BY <1>2, <1>4, <1>5
      <2>2. DOMAIN A' = 1..Len(A')
          BY <1>4, LenProperties
      <2>3. Len(argv') = Len(A') /\ \A i \in 1..Len(A') : argv'[i] = Strip(A'[i])
          BY <2>2, <1>1, <1>4
      <2>4. ASSUME NEW i \in 1..k PROVE argv'[i] = given[i] /\ given[i] \in Seq(Characters)
          <3>1. i \in 1..Len(A) /\ i \in 1..Len(A') /\ i \in 1..Len(given)
              BY <2>1, <1>2, <1>4
          <3>2. argv'[i] = Strip(WrapWithQuotes(given[i]))
              BY <3>1, <2>3, <1>4, <1>5
          <3>3. given[i] \in Seq(Characters) /\ IsPlain(given[i])
              BY <3>1, <1>2, ElementOfSeq DEF AllPlain
          <3> QED
              BY <3>2, <3>3, StripWord
      <2>5. /\ SubSeq(argv', 1, k) \in Seq(Seq(Characters)) /\ Len(SubSeq(argv', 1, k)) = k
            /\ \A i \in 1..k : SubSeq(argv', 1, k)[i] = argv'[i]
          <3>1. \A i \in 1..k : argv'[i] \in Seq(Characters)
              BY <2>4
          <3> QED
              BY <2>1, <3>1, SubSeqOfFirst
      <2>6. /\ SubSeq(given, 1, k) \in Seq(Seq(Characters)) /\ Len(SubSeq(given, 1, k)) = k
            /\ \A i \in 1..k : SubSeq(given, 1, k)[i] = given[i]
          BY <2>1, <2>4, SubSeqOfFirst
      <2>7. SubSeq(argv', 1, k) = SubSeq(given, 1, k)
          BY <2>4, <2>5, <2>6, SeqEqual
      <2> QED
          BY <2>1, <2>3, <2>7
  <1> QED
      BY <1>6, <1>7, <1>8, <1>9 DEF ArgvKept

LEMMA NextArgv == ArgvKept /\ [CommandNext]_commandVars => ArgvKept'
  <1> SUFFICES ASSUME ArgvKept, [CommandNext]_commandVars PROVE ArgvKept'
      OBVIOUS
  <1>1. CASE UNCHANGED commandVars
      BY <1>1 DEF commandVars, scannerVars, ArgvKept, ArgvTypes, IdleAtFirst, CutSoFar, Cut, AllPlain,
                  Unpushed, Held, From, Within, InQuotedWord, InPlainWord, ArgvIsCommand
  <1> QED
      BY <1>1, ExecuteArgv, ReadArgv, ProcessArgv DEF CommandNext

\* The process gets the arguments it was started with, up to the first that is not plain,
\* for every number of arguments of every length over every set of characters
\* (WrapWithQuotes in Execute and BuildArgv undo each other).
THEOREM ArgumentsArrive == CommandSpec => []ArgvIsCommand
  <1>1. ArgvKept => ArgvIsCommand
      BY DEF ArgvKept
  <1> QED
      BY <1>1, InitArgv, NextArgv, PTL DEF CommandSpec
=============================================================================
