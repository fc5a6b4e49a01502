------------------------- MODULE AsyncLoggerProofs -------------------------
(***************************************************************************)
(* Proofs about AsyncLogger, for any callers and closers and any capacity  *)
(* of the channel and whatever writes fail: accepted lines are given to    *)
(* the output once and in order, and a Close that has returned has seen    *)
(* all of them given to it.                                                *)
(***************************************************************************)
EXTENDS AsyncLogger, TLAPS, SequenceTheorems

\* A caller that offers a line has counted it.
OfferCounted == \A c \in Callers : caller[c] = "offering" => calls[c] > 0

\* What writeLoop's state says about the channel.
WriterOK ==
    /\ writer = "writing" => writing \in Lines
    /\ writer = "ended" => closed /\ events = <<>>

\* Where a Close stands says how far writeLoop has come.
CloseOK ==
    /\ \A k \in Closers : closer[k] = "waiting" => closed
    /\ \A k \in Closers :
          closer[k] \in {"finishing", "closeFunc", "returned"} => writer = "ended"
    /\ once = "finished" => writer = "ended"
    /\ ~open => writer = "ended"

\* A caller's accepted lines have rising numbers, the one it offers the highest.
AcceptedOrder ==
    /\ \A i \in DOMAIN accepted :
          LET c == accepted[i][1] IN
            accepted[i][2] <= calls[c]
            /\ (caller[c] = "offering" => accepted[i][2] < calls[c])
    /\ \A i, j \in DOMAIN accepted :
          i < j /\ accepted[i][1] = accepted[j][1] => accepted[i][2] < accepted[j][2]

\* What Handed is as a sequence, and how a write extends it.
LEMMA HandedIsSequence ==
    ASSUME output \in Seq([line: Lines, whole: BOOLEAN])
    PROVE  /\ Handed \in Seq(Lines) /\ Len(Handed) = Len(output)
           /\ \A i \in DOMAIN output : Handed[i] = output[i].line
  <1>1. Len(output) \in Nat /\ DOMAIN output = 1..Len(output)  BY LenProperties
  <1>2. \A i \in 1..Len(output) : output[i].line \in Lines
    <2> TAKE i \in 1..Len(output)
    <2>1. output[i] \in [line: Lines, whole: BOOLEAN]  BY ElementOfSeq
    <2> QED  BY <2>1
  <1>3. Handed = [i \in 1..Len(output) |-> output[i].line]  BY <1>1 DEF Handed
  <1>4. \A i \in 1..Len(output) : Handed[i] = output[i].line  BY <1>3
  <1>5. Handed \in [1..Len(output) -> Lines]  BY <1>2, <1>3
  <1>6. Handed \in Seq(Lines)  BY <1>1, <1>5
  <1>7. Len(Handed) = Len(output)  BY <1>1, <1>5, <1>6, LenProperties
  <1> QED  BY <1>1, <1>4, <1>6, <1>7

LEMMA PutHands ==
    ASSUME output \in Seq([line: Lines, whole: BOOLEAN]), writing \in Lines,
           NEW whole \in BOOLEAN, output' = Append(output, [line |-> writing, whole |-> whole])
    PROVE  /\ output' \in Seq([line: Lines, whole: BOOLEAN])
           /\ Handed' = Handed \o <<writing>>
  <1> DEFINE piece == [line |-> writing, whole |-> whole]
  <1>1. piece \in [line: Lines, whole: BOOLEAN] /\ piece.line = writing  OBVIOUS
  <1> HIDE DEF piece
  <1>2. output' = Append(output, piece)  BY DEF piece
  <1>3. /\ output' \in Seq([line: Lines, whole: BOOLEAN]) /\ Len(output') = Len(output) + 1
        /\ \A i \in 1..Len(output) : output'[i] = output[i]
        /\ output'[Len(output) + 1] = piece
    BY <1>1, <1>2, AppendProperties
  <1>4. /\ Len(output) \in Nat /\ DOMAIN output = 1..Len(output)
        /\ DOMAIN output' = 1..(Len(output) + 1)
    BY <1>3, LenProperties
  <1>5. /\ Handed \in Seq(Lines) /\ Len(Handed) = Len(output)
        /\ \A i \in DOMAIN output : Handed[i] = output[i].line
    BY HandedIsSequence
  <1>6. /\ Handed' \in Seq(Lines) /\ Len(Handed') = Len(output) + 1
        /\ \A i \in 1..(Len(output) + 1) : Handed'[i] = output'[i].line
    <2>1. Handed' = [i \in 1..(Len(output) + 1) |-> output'[i].line]  BY <1>4 DEF Handed
    <2>2. \A i \in 1..(Len(output) + 1) : output'[i].line \in Lines
      <3> TAKE i \in 1..(Len(output) + 1)
      <3>1. output'[i] \in [line: Lines, whole: BOOLEAN]
        BY <1>3, LenProperties, ElementOfSeq
      <3> QED  BY <3>1
    <2>3. Handed' \in [1..(Len(output) + 1) -> Lines] /\ Len(output) + 1 \in Nat
      BY <1>4, <2>1, <2>2
    <2>4. Handed' \in Seq(Lines)  BY <2>3
    <2>5. Len(Handed') = Len(output) + 1  BY <2>3, <2>4, LenProperties
    <2> QED  BY <2>1, <2>4, <2>5
  <1>7. Append(Handed, writing) \in Seq(Lines) /\ Len(Append(Handed, writing)) = Len(output) + 1
        /\ \A i \in 1..Len(output) : Append(Handed, writing)[i] = Handed[i]
        /\ Append(Handed, writing)[Len(output) + 1] = writing
    BY <1>5, AppendProperties
  <1>8. \A i \in 1..(Len(output) + 1) : Handed'[i] = Append(Handed, writing)[i]
    <2> TAKE i \in 1..(Len(output) + 1)
    <2>1. CASE i = Len(output) + 1  BY <1>1, <1>3, <1>6, <1>7, <2>1
    <2>2. CASE i \in 1..Len(output)  BY <1>3, <1>4, <1>5, <1>6, <1>7, <2>2
    <2>3. i = Len(output) + 1 \/ i \in 1..Len(output)  BY <1>4
    <2> QED  BY <2>1, <2>2, <2>3
  <1>9. Handed' = Append(Handed, writing)  BY <1>6, <1>7, <1>8, SeqEqual
  <1> QED  BY <1>3, <1>5, <1>9, AppendIsConcat

LInv == TypeOK /\ OfferCounted /\ WriterOK /\ CloseOK /\ InOrder /\ AcceptedOrder

\* newJSONLogger establishes it.
LEMMA LInit == Init => LInv
  <1> SUFFICES ASSUME Init PROVE LInv  OBVIOUS
  <1> USE CapacityAssumption DEF Init
  <1>1. <<>> \in Seq(Lines) /\ Len(<<>>) = 0  BY EmptySeq
  <1>2. TypeOK
    <2>1. /\ events \in Seq(Lines) /\ accepted \in Seq(Lines)
          /\ output \in Seq([line: Lines, whole: BOOLEAN])
      BY <1>1, EmptySeq
    <2>2. Len(events) <= Capacity  BY <1>1
    <2>3. writing \in Lines \cup {<<>>}  OBVIOUS
    <2>4. calls \in [Callers -> 0..MaxCalls]  OBVIOUS
    <2> QED  BY <2>1, <2>2, <2>3, <2>4 DEF TypeOK
  <1>3. OfferCounted /\ WriterOK /\ CloseOK  BY DEF OfferCounted, WriterOK, CloseOK
  <1>4. InOrder
    <2>1. output \in Seq([line: Lines, whole: BOOLEAN]) /\ Len(output) = 0  BY EmptySeq
    <2>2. Handed \in Seq(Lines) /\ Len(Handed) = 0  BY <2>1, HandedIsSequence
    <2>3. Handed = <<>>  BY <2>2, EmptySeq
    <2> QED  BY <1>1, <2>3, ConcatEmptySeq DEF InOrder, InHand
  <1>5. AcceptedOrder  BY <1>1 DEF AcceptedOrder
  <1> QED  BY <1>2, <1>3, <1>4, <1>5 DEF LInv

\* log: an offered line goes to the end of the channel and of the accepted lines.
LEMMA LogKeeps ==
    ASSUME LInv, NEW c \in Callers, Log(c)
    PROVE  LInv'
  <1> USE CapacityAssumption DEF LInv, channel, writerVars, closerVars
  <1>1. CASE Format(c)
    <2> USE <1>1 DEF Format
    <2>1. TypeOK'  BY DEF TypeOK
    <2>2. OfferCounted'  BY DEF TypeOK, OfferCounted
    <2>3. (WriterOK /\ CloseOK /\ InOrder)'
      BY DEF WriterOK, CloseOK, InOrder, InHand, Handed
    <2>4. AcceptedOrder'
      <3>1. \A i \in DOMAIN accepted : accepted[i] \in Lines
        BY ElementOfSeq, LenProperties DEF TypeOK
      <3>2. \A b \in Callers : calls[b] \in Nat /\ calls'[b] = IF b = c THEN calls[b] + 1 ELSE calls[b]
        BY DEF TypeOK
      <3>3. \A b \in Callers : caller'[b] = IF b = c THEN "offering" ELSE caller[b]
        BY DEF TypeOK
      <3> QED  BY <3>1, <3>2, <3>3 DEF AcceptedOrder, Lines
    <2> QED  BY <2>1, <2>2, <2>3, <2>4
  <1>2. CASE Offer(c)
    <2> DEFINE line == <<c, calls[c]>>
    <2> USE <1>2 DEF Offer
    <2>1. line \in Lines  BY DEF TypeOK, OfferCounted, Lines
    <2>2. events' \in Seq(Lines) /\ accepted' \in Seq(Lines) /\ Len(events') = Len(events) + 1
      BY <2>1, AppendProperties DEF TypeOK
    <2>3. TypeOK'  BY <2>2, LenProperties DEF TypeOK, Room
    <2>4. OfferCounted'  BY DEF TypeOK, OfferCounted
    <2>5. (WriterOK /\ CloseOK)'  BY DEF WriterOK, CloseOK
    <2>6. InOrder'
      <3>1. Handed \in Seq(Lines) /\ InHand \in Seq(Lines) /\ events \in Seq(Lines)
            /\ <<line>> \in Seq(Lines)
        BY <2>1, HandedIsSequence DEF TypeOK, WriterOK, InHand
      <3>2. (Handed \o InHand) \in Seq(Lines)  BY <3>1, ConcatProperties
      <3>3. events' = events \o <<line>> /\ accepted' = accepted \o <<line>>
        BY <2>1, AppendIsConcat DEF TypeOK
      <3>4. (Handed \o InHand) \o (events \o <<line>>) = ((Handed \o InHand) \o events) \o <<line>>
        BY <3>1, <3>2, ConcatAssociative
      <3>5. Handed' = Handed /\ InHand' = InHand  BY DEF InHand, Handed
      <3> QED  BY <3>3, <3>4, <3>5 DEF InOrder
    <2>7. AcceptedOrder'
      <3>1. \A i \in DOMAIN accepted : accepted[i] \in Lines
        BY ElementOfSeq, LenProperties DEF TypeOK
      <3>2. Len(accepted) \in Nat /\ DOMAIN accepted = 1..Len(accepted)
        BY LenProperties DEF TypeOK
      <3>3. /\ DOMAIN accepted' = 1..(Len(accepted) + 1)
            /\ \A i \in 1..Len(accepted) : accepted'[i] = accepted[i]
            /\ accepted'[Len(accepted) + 1] = line
        BY <2>1, <2>2, AppendProperties, LenProperties DEF TypeOK
      <3>4. \A b \in Callers : calls[b] \in Nat
                               /\ caller'[b] = IF b = c THEN "idle" ELSE caller[b]
        BY DEF TypeOK
      <3>5. \A i \in DOMAIN accepted : accepted[i][1] = c => accepted[i][2] < calls[c]
        BY <3>1 DEF AcceptedOrder
      <3>6. ASSUME NEW i \in DOMAIN accepted'
            PROVE  LET b == accepted'[i][1] IN
                     accepted'[i][2] <= calls'[b]
                     /\ (caller'[b] = "offering" => accepted'[i][2] < calls'[b])
        <4>1. CASE i = Len(accepted) + 1
          BY <4>1, <3>3, <3>4
        <4>2. CASE i \in 1..Len(accepted)
          BY <4>2, <3>1, <3>2, <3>3, <3>4 DEF AcceptedOrder, Lines
        <4> QED  BY <4>1, <4>2, <3>2, <3>3
      <3>7. ASSUME NEW i \in DOMAIN accepted', NEW j \in DOMAIN accepted',
                   i < j, accepted'[i][1] = accepted'[j][1]
            PROVE  accepted'[i][2] < accepted'[j][2]
        <4>1. i \in 1..Len(accepted)  BY <3>2, <3>3, <3>7
        <4>2. CASE j = Len(accepted) + 1
          BY <4>1, <4>2, <3>2, <3>3, <3>5, <3>7
        <4>3. CASE j \in 1..Len(accepted)
          BY <4>1, <4>3, <3>2, <3>3, <3>7 DEF AcceptedOrder
        <4> QED  BY <4>2, <4>3, <3>2, <3>3
      <3> QED  BY <3>6, <3>7 DEF AcceptedOrder
    <2> QED  BY <2>3, <2>4, <2>5, <2>6, <2>7
  <1>3. CASE Drop(c) \/ Panic(c)
    <2> USE <1>3 DEF Drop, Panic
    <2>1. TypeOK'  BY DEF TypeOK
    <2>2. OfferCounted'  BY DEF TypeOK, OfferCounted
    <2>3. (WriterOK /\ CloseOK /\ InOrder)'
      BY DEF WriterOK, CloseOK, InOrder, InHand, Handed
    <2>4. \A b \in Callers : caller'[b] = "offering" => caller[b] = "offering"
      BY DEF TypeOK
    <2>5. \A i \in DOMAIN accepted : accepted[i][1] \in Callers
      BY ElementOfSeq, LenProperties DEF TypeOK, Lines
    <2>6. AcceptedOrder'  BY <2>4, <2>5 DEF AcceptedOrder
    <2> QED  BY <2>1, <2>2, <2>3, <2>6
  <1> QED  BY <1>1, <1>2, <1>3 DEF Log

\* writeLoop moves lines from the channel to the output, or to a write that fails.
LEMMA WriteLoopKeeps ==
    ASSUME LInv, WriteLoop
    PROVE  LInv'
  <1> USE CapacityAssumption DEF LInv, channel, callerVars, closerVars
  <1>1. CASE Receive
    <2> USE <1>1 DEF Receive
    <2>1. /\ Head(events) \in Lines /\ Tail(events) \in Seq(Lines)
          /\ Len(Tail(events)) = Len(events) - 1
      BY HeadTailProperties DEF TypeOK
    <2>2. TypeOK'  BY <2>1, LenProperties DEF TypeOK
    <2>3. OfferCounted'  BY DEF OfferCounted
    <2>4. (WriterOK /\ CloseOK)'  BY <2>1 DEF WriterOK, CloseOK
    <2>5. InOrder'
      <3>1. Handed \in Seq(Lines) /\ <<Head(events)>> \in Seq(Lines)
        BY <2>1, HandedIsSequence DEF TypeOK
      <3>2. events = <<Head(events)>> \o Tail(events)
        <4>1. (<<Head(events)>> \o Tail(events)) \in Seq(Lines)
              /\ Len(<<Head(events)>> \o Tail(events)) = Len(events)
          BY <2>1, <3>1, ConcatProperties DEF TypeOK
        <4>2. \A i \in 1..Len(events) : events[i] = (<<Head(events)>> \o Tail(events))[i]
          BY <2>1, <3>1, ConcatProperties, HeadTailProperties DEF TypeOK
        <4> QED  BY <4>1, <4>2, SeqEqual DEF TypeOK
      <3>3. Handed \o (<<Head(events)>> \o Tail(events))
              = (Handed \o <<Head(events)>>) \o Tail(events)
        BY <2>1, <3>1, ConcatAssociative
      <3>4. Handed \o InHand = Handed  BY <3>1, ConcatEmptySeq DEF InHand
      <3>5. InHand' = <<Head(events)>> /\ Handed' = Handed  BY DEF InHand, Handed
      <3> QED  BY <3>2, <3>3, <3>4, <3>5 DEF InOrder
    <2>6. AcceptedOrder'  BY DEF AcceptedOrder
    <2> QED  BY <2>2, <2>3, <2>4, <2>5, <2>6
  <1>2. ASSUME NEW whole \in BOOLEAN, Put(whole)
        PROVE  LInv'
    <2> USE <1>2 DEF Put
    <2>1. writing \in Lines  BY DEF WriterOK
    <2>2. /\ output' \in Seq([line: Lines, whole: BOOLEAN])
          /\ Handed' = Handed \o <<writing>>
      BY <2>1, PutHands DEF TypeOK
    <2>3. TypeOK'  BY <2>2 DEF TypeOK
    <2>4. (OfferCounted /\ WriterOK /\ AcceptedOrder)'
      BY DEF OfferCounted, WriterOK, AcceptedOrder
    <2>5. CloseOK'  BY DEF CloseOK
    <2>6. InOrder'
      <3>1. Handed' \in Seq(Lines)
        BY <2>1, <2>2, HandedIsSequence, ConcatProperties DEF TypeOK
      <3>2. InHand = <<writing>> /\ InHand' = <<>>  BY DEF InHand
      <3> QED  BY <2>2, <3>1, <3>2, ConcatEmptySeq DEF InOrder
    <2> QED  BY <2>3, <2>4, <2>5, <2>6
  <1>3. CASE WriterEnds
    <2> USE <1>3 DEF WriterEnds, Drained
    <2>1. TypeOK'  BY DEF TypeOK
    <2>2. (OfferCounted /\ WriterOK /\ AcceptedOrder /\ CloseOK)'
      BY DEF OfferCounted, WriterOK, AcceptedOrder, CloseOK
    <2>3. InOrder'  BY DEF InOrder, InHand, Handed
    <2> QED  BY <2>1, <2>2, <2>3
  <1> QED  BY <1>1, <1>2, <1>3 DEF WriteLoop, Write, WriteFails

\* Close waits for writeLoop before anything else is closed.
LEMMA CloseKeeps ==
    ASSUME LInv, NEW k \in Closers, Close(k)
    PROVE  LInv'
  <1> USE DEF LInv, callerVars, writerVars, channel,
              Close, CloseCall, CloseStart, CloseEvents, Wait, CloseDone, CloseOutput
  <1>1. TypeOK'  BY DEF TypeOK
  <1>2. (OfferCounted /\ AcceptedOrder /\ InOrder)'
    BY DEF OfferCounted, AcceptedOrder, InOrder, InHand, Handed
  <1>3. WriterOK'  BY DEF WriterOK
  <1>4. CloseOK'  BY DEF TypeOK, CloseOK
  <1> QED  BY <1>1, <1>2, <1>3, <1>4

\* The inductive invariant holds in every behaviour of the logger.
THEOREM LoggerInvariant == Safety => []LInv
  <1>1. LInv /\ [Next]_vars => LInv'
    <2> SUFFICES ASSUME LInv, [Next]_vars PROVE LInv'  OBVIOUS
    <2>1. CASE UNCHANGED vars
      <3> USE <2>1 DEF vars, channel, callerVars, writerVars, closerVars, LInv
      <3>1. TypeOK' /\ OfferCounted'  BY DEF TypeOK, OfferCounted
      <3>2. (WriterOK /\ CloseOK /\ AcceptedOrder)'  BY DEF WriterOK, CloseOK, AcceptedOrder
      <3>3. InOrder'  BY DEF InOrder, InHand, Handed
      <3> QED  BY <3>1, <3>2, <3>3
    <2> QED  BY <2>1, LogKeeps, WriteLoopKeeps, CloseKeeps DEF Next
  <1> QED  BY <1>1, LInit, PTL DEF Safety

\* No accepted line is skipped, doubled or overtaken on its way through the channel: each
\* is given to Write once and in order, whichever writes failed before it.
THEOREM LinesInOrder == Safety => []InOrder
  <1> QED  BY LoggerInvariant, PTL DEF LInv

\* What is written keeps the order of every caller's calls.
THEOREM OrderOfCaller == Safety => []CallerOrder
  <1>1. LInv => CallerOrder
    <2> SUFFICES ASSUME LInv PROVE CallerOrder  OBVIOUS
    <2> DEFINE rest == InHand \o events
    <2> USE DEF LInv
    <2>1. Handed \in Seq(Lines) /\ InHand \in Seq(Lines) /\ events \in Seq(Lines)
      BY HandedIsSequence DEF TypeOK, WriterOK, InHand
    <2>2. rest \in Seq(Lines)  BY <2>1, ConcatProperties
    <2>3. (Handed \o InHand) \o events = Handed \o (InHand \o events)
      BY <2>1, ConcatAssociative
    <2>4. accepted = Handed \o rest  BY <2>3 DEF InOrder
    <2> HIDE DEF rest
    <2>5. \A i \in DOMAIN Handed : i \in DOMAIN accepted /\ accepted[i] = Handed[i]
      BY <2>1, <2>2, <2>4, ConcatProperties, LenProperties DEF TypeOK
    <2>6. /\ DOMAIN output = DOMAIN Handed
          /\ \A i \in DOMAIN output : Handed[i] = output[i].line
          /\ DOMAIN output \subseteq Nat
      BY HandedIsSequence, LenProperties DEF TypeOK
    <2> QED  BY <2>5, <2>6 DEF CallerOrder, AcceptedOrder
  <1> QED  BY <1>1, LoggerInvariant, PTL

\* When a Close has returned, every accepted line was given to the output's Write.
THEOREM CloseHasFlushed == Safety => []CloseFlushes
  <1>1. LInv => CloseFlushes
    <2> SUFFICES ASSUME LInv, NEW k \in Closers, closer[k] = "returned"
                 PROVE  Handed = accepted
      BY DEF CloseFlushes
    <2>1. writer = "ended" /\ events = <<>>  BY DEF LInv, CloseOK, WriterOK
    <2>2. Handed \in Seq(Lines) /\ Handed \o InHand = Handed
      BY <2>1, HandedIsSequence, ConcatEmptySeq DEF LInv, TypeOK, InHand
    <2> QED  BY <2>1, <2>2, ConcatEmptySeq DEF LInv, InOrder
  <1> QED  BY <1>1, LoggerInvariant, PTL

\* The file is never written to once it is closed.
THEOREM OpenWhileWriting == Safety => WritesWhileOpen
  <1>1. LInv /\ [Next]_vars => [output' # output => open]_vars
    <2> SUFFICES ASSUME LInv, Next, output' # output PROVE open  BY DEF vars, writerVars
    <2>1. Write \/ WriteFails
      BY DEF Next, Log, WriteLoop, Close, Format, Offer, Drop, Panic, Receive, WriterEnds,
         CloseCall, CloseStart, CloseEvents, Wait, CloseDone, CloseOutput, writerVars
    <2> QED  BY <2>1 DEF Write, WriteFails, Put, LInv, CloseOK, TypeOK
  <1> QED  BY <1>1, LoggerInvariant, PTL DEF Safety, WritesWhileOpen

-----------------------------------------------------------------------------
(* How long a Close can take *)

\* What writeLoop has to do before wg.Wait returns: to receive and to write each line of
\* the channel, to write the one it holds, and to end.
Unwritten ==
    2 * Len(events) + (IF writer = "writing" THEN 1 ELSE 0) + (IF writer = "ended" THEN 0 ELSE 1)

\* Once the channel is closed nothing adds to that, and each step of writeLoop takes
\* something away.
NothingDelaysClose ==
    [][closed => /\ Unwritten \in Nat /\ Unwritten' <= Unwritten
                 /\ WriteLoop => Unwritten' < Unwritten]_vars

\* However many goroutines go on logging, they cannot keep a Close waiting.  This is
\* the part of CloseReturns that needs no fairness.
THEOREM CallersCannotDelayClose == Safety => NothingDelaysClose
  <1>1. ASSUME LInv, Next, closed
        PROVE  /\ Unwritten \in Nat /\ Unwritten' <= Unwritten
               /\ WriteLoop => Unwritten' < Unwritten
    <2> USE <1>1 DEF Unwritten, LInv
    <2>1. Len(events) \in Nat  BY LenProperties DEF TypeOK
    <2>2. ASSUME NEW c \in Callers, Log(c)
          PROVE  UNCHANGED <<events, writer>>
      BY <2>2 DEF Log, Format, Offer, Drop, Panic, channel, writerVars
    <2>3. ASSUME NEW k \in Closers, Close(k)
          PROVE  UNCHANGED <<events, writer>>
      BY <2>3 DEF Close, CloseCall, CloseStart, CloseEvents, Wait, CloseDone, CloseOutput, channel, writerVars
    <2>4. CASE WriteLoop
      <3>1. CASE Receive
        <4>1. Len(events') = Len(events) - 1 /\ Len(events) # 0
          BY <3>1, HeadTailProperties, EmptySeq, LenProperties DEF Receive, TypeOK
        <4> QED  BY <2>1, <3>1, <4>1 DEF Receive
      <3>2. CASE Write \/ WriteFails
        <4>1. writer = "writing" /\ writer' = "receiving" /\ events' = events
          BY <3>2 DEF Write, WriteFails, Put, channel
        <4> QED  BY <2>1, <4>1
      <3>3. CASE WriterEnds  BY <2>1, <3>3 DEF WriterEnds, channel
      <3> QED  BY <2>4, <3>1, <3>2, <3>3 DEF WriteLoop
    <2>5. CASE ~WriteLoop
      <3>1. UNCHANGED <<events, writer>>  BY <2>2, <2>3, <2>5 DEF Next
      <3> QED  BY <2>1, <2>5, <3>1
    <2> QED  BY <2>1, <2>4, <2>5
  <1>2. LInv /\ [Next]_vars =>
          [closed => /\ Unwritten \in Nat /\ Unwritten' <= Unwritten
                     /\ WriteLoop => Unwritten' < Unwritten]_vars
    BY <1>1
  <1> QED  BY <1>2, LoggerInvariant, PTL DEF Safety, NothingDelaysClose
=============================================================================
