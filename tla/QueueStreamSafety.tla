------------------------- MODULE QueueStreamSafety -------------------------
(***************************************************************************)
(* Proofs of the safety properties of QueueStream, for every value of its  *)
(* constants: its types, that headroom over the high water mark prevents   *)
(* overload, the buffer's accounts, the order in which positions reach the *)
(* browser, the acknowledgement window, and that no wakeup is lost.        *)
(***************************************************************************)
EXTENDS QueueStream, NatInduction, SequenceTheorems, FiniteSetTheorems, TLAPS

-----------------------------------------------------------------------------
(* The constants and the data.                                             *)

LEMMA ConstantsType ==
    /\ BufferLimit \in Nat \ {0} /\ HighWater \in Nat \ {0}
    /\ RoundBudget \in Nat \ {0} /\ PayloadMax \in Nat \ {0}
    /\ WindowBytes \in Nat \ {0} /\ WindowTurns \in Nat \ {0}
    /\ FrameBytes \in Nat \ {0} /\ TextCost \in Nat \ {0}
    /\ ClientTurns \in Nat \ {0}
    /\ 2 * TextCost <= BufferLimit
    /\ ReplayBurstLimit \in Nat /\ MaxOutput \in Nat /\ MaxPongs \in Nat
    /\ MaxTexts \in Nat
BY ConstantsAssumption DEF ConstantsAssumption

LEMMA OriginType == Origin \in Position
BY DEF Origin, Position

\* What a text payload becomes in the buffer.
LEMMA TextType ==
    ASSUME NEW kind \in TextKinds, NEW before \in Position, NEW after \in Position,
           NEW starts \in BOOLEAN, NEW finishes \in BOOLEAN
    PROVE  Text(kind, before, after, starts, finishes) \in Entry
BY ConstantsType DEF Text, Entry

LEMMA EnqueuedType ==
    ASSUME ReaderType, CursorType
    PROVE  Enqueued \in Position
BY DEF ReaderType, CursorType, Enqueued, Position

LEMMA PlainType ==
    ASSUME ReaderType, CursorType, NEW kind \in TextKinds
    PROVE  Plain(kind) \in Entry
BY EnqueuedType, TextType DEF Plain

\* A sum over boundaries is an integer, and the empty sum is zero.
LEMMA BytesThroughType ==
    ASSUME NEW boundaries \in Seq(Boundary), NEW k \in 0..Len(boundaries)
    PROVE  BytesThrough(boundaries, k) \in Int
<1> DEFINE bytes == [i \in 1..k |-> boundaries[i].bytes]
           Sums(f) == f = [i \in 0..k |-> IF i = 0 THEN 0
                                          ELSE f[i - 1] + boundaries[i].bytes]
<1>1. k \in Nat /\ bytes \in [1..k -> Int]
  <2>1. k \in Nat /\ k <= Len(boundaries)
    OBVIOUS
  <2>2. ASSUME NEW i \in 1..k PROVE boundaries[i].bytes \in Int
    <3>1. boundaries[i] \in Boundary
      BY <2>1
    <3> QED BY <3>1 DEF Boundary
  <2> QED BY <2>1, <2>2
<1>2. PICK f \in [0..k -> Int] :
          f = [i \in 0..k |-> IF i = 0 THEN 0 ELSE f[i - 1] + bytes[i]]
  BY <1>1, RunningSum
<1>3. Sums(f)
  <2>1. [i \in 0..k |-> IF i = 0 THEN 0 ELSE f[i - 1] + bytes[i]]
        = [i \in 0..k |-> IF i = 0 THEN 0 ELSE f[i - 1] + boundaries[i].bytes]
    BY <1>1
  <2> QED BY <1>2, <2>1
<1>4. ASSUME NEW g, Sums(g) PROVE g[k] = f[k]
  <2> DEFINE S == {i \in Nat : i <= k => g[i] = f[i]}
  <2>1. 0 \in S
    BY <1>1, <1>3, <1>4
  <2>2. ASSUME NEW i \in S PROVE i + 1 \in S
    <3>1. ASSUME i + 1 <= k PROVE g[i + 1] = f[i + 1]
      <4>1. i \in Nat /\ i + 1 \in 0..k /\ i + 1 # 0 /\ (i + 1) - 1 = i
        BY <1>1, <3>1
      <4>2. g[i] = f[i]
        BY <1>1, <3>1, <4>1
      <4>3. g[i + 1] = g[i] + boundaries[i + 1].bytes
        BY <1>4, <4>1
      <4>4. f[i + 1] = f[i] + boundaries[i + 1].bytes
        BY <1>3, <4>1
      <4> QED BY <4>2, <4>3, <4>4
    <3> QED BY <3>1
  <2>3. S = Nat
    <3>1. S \in SUBSET Nat
      OBVIOUS
    <3> HIDE DEF S
    <3> QED BY <2>1, <2>2, <3>1, SetInduction
  <2> QED BY <1>1, <2>3
<1>5. BytesThrough(boundaries, k) = (CHOOSE g : Sums(g))[k]
  BY DEF BytesThrough
<1>6. Sums(CHOOSE g : Sums(g))
  <2> HIDE DEF Sums
  <2> QED BY <1>3
<1>7. (CHOOSE g : Sums(g))[k] = f[k]
  <2> HIDE DEF Sums
  <2> QED BY <1>4, <1>6
<1>8. f[k] \in Int
  <2>1. f \in [0..k -> Int] /\ k \in 0..k
    BY <1>1
  <2> HIDE DEF Sums, bytes
  <2> QED BY <2>1
<1> QED
  <2> HIDE DEF Sums
  <2> QED BY <1>5, <1>7, <1>8

-----------------------------------------------------------------------------
(* Queueing keeps the types of what it changes.                            *)

LEMMA SequencedType ==
    ASSUME NEW entry \in Entry, NEW n \in Nat
    PROVE  /\ [entry EXCEPT !.seq = n] \in Entry
           /\ [entry EXCEPT !.seq = n].cost = entry.cost
BY DEF Entry

LEMMA EmptyWindowType ==
    EmptyWindow \in Window
BY OriginType DEF EmptyWindow, Window

LEMMA WindowType ==
    ASSUME NEW w \in Window
    PROVE  /\ w.inFlight \in Int /\ w.currentTurnBytes \in Int
           /\ w.boundaries \in Seq(Boundary) /\ w.ack \in Position
           /\ \A n \in Int : [w EXCEPT !.inFlight = n] \in Window
           /\ \A n \in Int : [w EXCEPT !.currentTurnBytes = n] \in Window
           /\ \A b \in Seq(Boundary) : [w EXCEPT !.boundaries = b] \in Window
           /\ \A at \in Position : [w EXCEPT !.ack = at] \in Window
BY DEF Window

LEMMA OverloadType ==
    ASSUME BufferType, TurnType, WakeType, stopPending \in BOOLEAN,
           lastSent \in Position, NEW who \in {"reader", "loop"}, Overload(who)
    PROVE  /\ BufferType' /\ TurnType'
           /\ stopPending' \in BOOLEAN /\ signals' \subseteq {"reader", "loop"}
<1>1. CASE ~Accepting
  BY <1>1 DEF Overload, Drop, dataVars, bufferVars, turnVars, BufferType,
              TurnType, WakeType
<1>2. CASE Accepting
  <2>1. OverloadNotice \in Entry
    <3>1. Text("overload", lastSent, lastSent, FALSE, FALSE) \in Entry
      BY TextType DEF TextKinds
    <3>2. nextSequence + 1 \in Nat
      BY DEF BufferType
    <3> QED BY <3>1, <3>2, SequencedType DEF OverloadNotice
  <2>2. BufferType'
    <3>1. buffer' \in Seq(Entry)
      <4>1. buffer' = <<OverloadNotice>>
        BY <1>2 DEF Overload
      <4> QED BY <2>1, <4>1
    <3>2. bufferBytes' \in 0..BufferLimit
      BY <1>2, ConstantsType DEF Overload, CountAfterOverload
    <3> QED BY <1>2, <3>1, <3>2 DEF Overload, BufferType
  <2>3. TurnType'
    BY <1>2, EmptyWindowType, OriginType DEF Overload, TurnType, AwaitingAfterOverload
  <2> QED BY <1>2, <2>2, <2>3 DEF Overload, WakeType
<1> QED BY <1>1, <1>2

LEMMA EnqueueType ==
    ASSUME BufferType, TurnType, WakeType, stopPending \in BOOLEAN,
           lastSent \in Position, NEW who \in {"reader", "loop"},
           NEW entry \in Entry, Enqueue(entry, who)
    PROVE  /\ BufferType' /\ TurnType'
           /\ stopPending' \in BOOLEAN /\ signals' \subseteq {"reader", "loop"}
<1>1. CASE ~Accepting /\ Drop
  BY <1>1 DEF Drop, dataVars, bufferVars, turnVars, BufferType, TurnType, WakeType
<1>2. CASE Overload(who)
  BY <1>2, OverloadType
<1>3. CASE /\ Accepting /\ Fits(entry.cost)
           /\ nextSequence' = nextSequence + 1
           /\ buffer' = Append(buffer, [entry EXCEPT !.seq = nextSequence + 1])
           /\ bufferBytes' = bufferBytes + entry.cost
           /\ signals' = signals \cup {who}
           /\ UNCHANGED <<overloaded, turnVars, stopPending>>
  <2>1. nextSequence + 1 \in Nat
    BY DEF BufferType
  <2>2. [entry EXCEPT !.seq = nextSequence + 1] \in Entry
    BY <2>1, SequencedType
  <2>3. buffer' \in Seq(Entry)
    BY <1>3, <2>2 DEF BufferType
  <2>4. bufferBytes' \in 0..BufferLimit
    <3>1. entry.cost \in Nat
      BY DEF Entry
    <3> QED BY <1>3, <3>1, ConstantsType DEF Fits, BufferType
  <2>5. BufferType'
    BY <1>3, <2>1, <2>3, <2>4 DEF BufferType
  <2> QED BY <1>3, <2>5 DEF turnVars, TurnType, WakeType
<1> QED BY <1>1, <1>2, <1>3 DEF Enqueue

-----------------------------------------------------------------------------
(* Types.  A frame that is being cut into chunks has bytes left, without   *)
(* which the cost of the next chunk need not be a natural.                 *)

ChunkOpen == readerPc = "chunk" => chunk.from < chunk.to

TypeInv == TypeOK /\ ChunkOpen

LEMMA InitType == Init => TypeInv
<1> SUFFICES ASSUME Init PROVE TypeInv
  OBVIOUS
<1>1. BufferType
  <2>1. ASSUME NEW i \in 1..2
        PROVE  [Text("text", Origin, Origin, FALSE, FALSE) EXCEPT !.seq = i] \in Entry
    <3>1. Text("text", Origin, Origin, FALSE, FALSE) \in Entry
      BY OriginType, TextType DEF TextKinds
    <3>2. i \in Nat
      OBVIOUS
    <3> QED BY <3>1, <3>2, SequencedType
  <2>2. buffer = [i \in 1..2 |->
                    [Text("text", Origin, Origin, FALSE, FALSE) EXCEPT !.seq = i]]
    BY DEF Init
  <2>3. buffer \in Seq(Entry)
    BY <2>1, <2>2
  <2>4. bufferBytes \in 0..BufferLimit /\ overloaded = FALSE /\ nextSequence = 2
    BY ConstantsType DEF Init
  <2> QED BY <2>3, <2>4 DEF BufferType
<1>2. TurnType
  BY OriginType, EmptyWindowType DEF Init, TurnType
<1>3. AgentType
  BY ConstantsType DEF Init, AgentType
<1>4. ReaderType /\ ChunkOpen /\ CursorType
  BY DEF Init, ReaderType, CursorType, ChunkOpen
<1>5. LifeType /\ WakeType
  BY DEF Init, LifeType, WakeType
<1>6. WriterType /\ LoopType
  <2>1. WriterType
    BY OriginType DEF Init, WriterType
  <2>2. LoopType
    <3>1. loopPc = "register" /\ pongs = 0
      BY DEF Init
    <3> QED BY <3>1, ConstantsType DEF LoopType
  <2> QED BY <2>1, <2>2
<1>7. WireType /\ ClientType
  BY OriginType DEF Init, WireType, ClientType
<1> QED BY <1>1, <1>2, <1>3, <1>4, <1>5, <1>6, <1>7 DEF TypeInv, TypeOK

\* The parts of the type invariant, put together after a step.
LEMMA Typed ==
    ASSUME AgentType', ReaderType', CursorType', BufferType', TurnType', LifeType',
           WakeType', WriterType', LoopType', WireType', ClientType', ChunkOpen'
    PROVE  TypeInv'
  BY DEF TypeInv, TypeOK

\* A handled frame leaves the writer, the loop and the browser alone.
LEMMA ReaderRestType ==
    ASSUME TypeOK, ReaderRest, stopPending' \in BOOLEAN,
           signals' \subseteq {"reader", "loop"}
    PROVE  /\ LifeType' /\ WakeType' /\ WriterType' /\ LoopType' /\ WireType'
           /\ ClientType'
BY DEF TypeOK, ReaderRest, writerVars, loopVars, socketVars, clientVars,
       LifeType, WakeType, WriterType, LoopType, WireType, ClientType

\* What a handled frame does to the pane stream, it does by queueing or not.
LEMMA ReaderQueueType ==
    ASSUME TypeOK, ReaderRest,
           \/ \E entry \in Entry : Enqueue(entry, "reader")
           \/ Overload("reader")
           \/ Drop
    PROVE  /\ BufferType' /\ TurnType' /\ LifeType' /\ WakeType' /\ WriterType'
           /\ LoopType' /\ WireType' /\ ClientType'
<1>1. /\ BufferType' /\ TurnType' /\ stopPending' \in BOOLEAN
      /\ signals' \subseteq {"reader", "loop"}
  <2>1. CASE \E entry \in Entry : Enqueue(entry, "reader")
    BY <2>1, EnqueueType DEF TypeOK, LifeType, WriterType
  <2>2. CASE Overload("reader")
    BY <2>2, OverloadType DEF TypeOK, LifeType, WriterType
  <2>3. CASE Drop
    BY <2>3 DEF Drop, dataVars, bufferVars, turnVars, TypeOK, BufferType, TurnType,
        LifeType, WakeType
  <2> QED BY <2>1, <2>2, <2>3
<1> QED BY <1>1, ReaderRestType

LEMMA ReaderTypes == TypeInv /\ Reader => TypeInv'
<1> SUFFICES ASSUME TypeInv, Reader PROVE TypeInv'
  OBVIOUS
<1>0. TypeOK /\ ChunkOpen
  BY DEF TypeInv
<1>a. /\ AgentType /\ ReaderType /\ CursorType /\ BufferType /\ TurnType /\ LifeType
      /\ WakeType /\ WriterType /\ LoopType /\ WireType /\ ClientType
  BY <1>0 DEF TypeOK
<1> USE <1>0, <1>a
<1>1. CASE ReaderPoll
  BY <1>1, Typed DEF ReaderPoll, agentVars, cursorVars, dataVars, bufferVars, turnVars,
      lifeVars, wakeVars, writerVars, loopVars, socketVars, clientVars,
      AgentType, ReaderType, CursorType, BufferType, TurnType, LifeType, WakeType,
      WriterType, LoopType, WireType, ClientType, ChunkOpen
<1>2. CASE ReadPlain
  <2>1. AgentType' /\ ReaderType' /\ ChunkOpen' /\ CursorType'
    BY <1>2 DEF ReadPlain, AgentType, ReaderType, CursorType, ChunkOpen, cursorVars
  <2>2. Plain("text") \in Entry
    BY PlainType DEF TextKinds
  <2> QED BY <1>2, <2>1, <2>2, ReaderQueueType, Typed DEF ReadPlain
<1>3. CASE \E to \in 0..MaxOutput, snapshot \in BOOLEAN : ReadReplayStart(to, snapshot)
  <2>1. PICK to \in 0..MaxOutput, snapshot \in BOOLEAN : ReadReplayStart(to, snapshot)
    BY <1>3
  <2>2. to \in Nat
    BY ConstantsType
  <2>3. AgentType' /\ ReaderType' /\ ChunkOpen' /\ CursorType'
    BY <2>1, <2>2 DEF ReadReplayStart, AgentType, ReaderType, CursorType, ChunkOpen
  <2>4. Text("replay-start", Enqueued,
             [cursor |-> agentCursor, seq |-> binarySequence],
             BurstAdmitted(agentCursor, to, snapshot), FALSE) \in Entry
    <3>1. [cursor |-> agentCursor, seq |-> binarySequence] \in Position
      BY DEF AgentType, CursorType, Position
    <3>2. BurstAdmitted(agentCursor, to, snapshot) \in BOOLEAN
      BY DEF BurstAdmitted
    <3> QED BY <3>1, <3>2, EnqueuedType, TextType DEF TextKinds
  <2> QED BY <2>1, <2>3, <2>4, ReaderQueueType, Typed DEF ReadReplayStart
<1>4. CASE ReadReplayComplete
  <2>1. AgentType' /\ ReaderType' /\ ChunkOpen' /\ CursorType'
    BY <1>4 DEF ReadReplayComplete, AgentType, ReaderType, CursorType, ChunkOpen,
        cursorVars
  <2>2. Plain("replay-complete") \in Entry
    BY PlainType DEF TextKinds
  <2> QED BY <1>4, <2>1, <2>2, ReaderQueueType, Typed DEF ReadReplayComplete
<1>5. CASE \E length \in 1..FrameBytes : ReadBinary(length)
  <2>1. PICK length \in 1..FrameBytes : ReadBinary(length)
    BY <1>5
  <2>2. length \in Nat /\ length > 0
    BY ConstantsType
  <2>3. AgentType' /\ ReaderType' /\ ChunkOpen' /\ CursorType'
    BY <2>1, <2>2 DEF ReadBinary, AgentType, ReaderType, CursorType, ChunkOpen
  <2>4. Overload("reader") \/ Drop
    BY <2>1 DEF ReadBinary, Drop
  <2> QED BY <2>1, <2>3, <2>4, ReaderQueueType, Typed DEF ReadBinary
<1>6. CASE EnqueueChunk
  <2>1. /\ ChunkLength \in Nat \ {0}
        /\ chunk.from + ChunkLength \in Nat
        /\ chunk.from + ChunkLength <= chunk.to
    BY <1>6, ConstantsType DEF EnqueueChunk, ChunkLength, ReaderType, ChunkOpen
  <2>2. ReaderType' /\ ChunkOpen'
    <3>1. chunk' = [chunk EXCEPT !.from = chunk.from + ChunkLength]
      BY <1>6 DEF EnqueueChunk
    <3>2. chunk' \in [from : Nat, to : Nat]
      BY <2>1, <3>1 DEF ReaderType
    <3>3. chunk'.from = chunk.from + ChunkLength /\ chunk'.to = chunk.to
      BY <3>1 DEF ReaderType
    <3>4. readerPc' = IF chunk'.from = chunk.to THEN "poll" ELSE "chunk"
      BY <1>6 DEF EnqueueChunk
    <3> QED BY <2>1, <3>2, <3>3, <3>4 DEF ReaderType, ChunkOpen
  <2>3. AgentType' /\ CursorType'
    BY <1>6 DEF EnqueueChunk, AgentType, CursorType, agentVars
  <2> DEFINE entry == [kind |-> "binary", before |-> Enqueued,
                       after |-> [cursor |-> chunk.from + ChunkLength,
                                  seq |-> binarySequence + 1],
                       seq |-> 0, cost |-> ChunkLength, burstStart |-> FALSE,
                       burstFinish |-> FALSE]
  <2>4. entry \in Entry
    <3>1. [cursor |-> chunk.from + ChunkLength, seq |-> binarySequence + 1] \in Position
      BY <2>1 DEF CursorType, Position
    <3>2. Enqueued \in Position
      BY EnqueuedType
    <3> QED BY <2>1, <3>1, <3>2 DEF Entry
  <2>5. Enqueue(entry, "reader") /\ ReaderRest
    BY <1>6 DEF EnqueueChunk
  <2> HIDE DEF entry
  <2> QED BY <2>2, <2>3, <2>4, <2>5, ReaderQueueType, Typed
<1>7. CASE ReadTerminalControl
  <2>1. AgentType' /\ ReaderType' /\ ChunkOpen' /\ CursorType'
    BY <1>7 DEF ReadTerminalControl, AgentType, ReaderType, CursorType, ChunkOpen
  <2>2. Plain("terminal") \in Entry
    BY PlainType DEF TextKinds
  <2> QED BY <1>7, <2>1, <2>2, ReaderQueueType, Typed DEF ReadTerminalControl
<1>8. CASE ReadEnd
  <2>1. AgentType' /\ ReaderType' /\ ChunkOpen' /\ CursorType'
    BY <1>8 DEF ReadEnd, AgentType, ReaderType, CursorType, ChunkOpen, agentVars
  <2>2. Plain("terminal") \in Entry /\ Plain("error") \in Entry
    BY PlainType DEF TextKinds
  <2>3. Drop \/ \E entry \in Entry : Enqueue(entry, "reader")
    BY <1>8, <2>2 DEF ReadEnd
  <2> QED BY <1>8, <2>1, <2>3, ReaderQueueType, Typed DEF ReadEnd
<1>9. CASE ReaderReturn
  BY <1>9, Typed DEF ReaderReturn, agentVars, cursorVars, dataVars, bufferVars, turnVars,
      lifeVars, wakeVars, writerVars, loopVars, socketVars, clientVars,
      AgentType, ReaderType, CursorType, BufferType, TurnType, LifeType, WakeType,
      WriterType, LoopType, WireType, ClientType, ChunkOpen
<1> QED
  BY <1>1, <1>2, <1>3, <1>4, <1>5, <1>6, <1>7, <1>8, <1>9 DEF Reader

\* A write reaches the websocket whole or ends the writer.
LEMMA WriteType ==
    ASSUME WireType, WriterType, cancelled \in BOOLEAN,
           NEW type \in TextKinds \cup {"binary", "turn-complete"},
           NEW before \in Position, NEW after \in Position,
           NEW next \in {"turn", "roundEnd"},
           Write(type, before, after, next), UNCHANGED upstream
    PROVE  /\ WireType' /\ lastSent' \in Position /\ cancelled' \in BOOLEAN
           /\ writerPc' \in {"turn", "roundEnd", "done"}
<1> DEFINE message == [type |-> type, before |-> before, after |-> after]
<1>1. message \in Message
  BY DEF Message
<1>2. CASE /\ wire' = Append(wire, message)
           /\ lastSent' = after /\ writerPc' = next /\ UNCHANGED cancelled
  <2> HIDE DEF message
  <2> QED BY <1>1, <1>2 DEF WireType
<1>3. CASE writerPc' = "done" /\ cancelled' = TRUE /\ UNCHANGED <<wire, lastSent>>
  BY <1>3 DEF WireType, WriterType
<1> QED BY <1>2, <1>3 DEF Write

LEMMA WriterTypes == TypeInv /\ Writer => TypeInv'
<1> SUFFICES ASSUME TypeInv, Writer PROVE TypeInv'
  OBVIOUS
<1>0. TypeOK /\ ChunkOpen
  BY DEF TypeInv
<1>a. BufferType /\ TurnType /\ LifeType /\ WakeType /\ WriterType /\ WireType
  BY <1>0 DEF TypeOK
<1> USE <1>a
<1>b. WriterRest =>
        /\ AgentType' /\ ReaderType' /\ ChunkOpen' /\ CursorType' /\ LoopType'
        /\ ClientType' /\ signals' \subseteq {"reader", "loop"}
        /\ cancelled' \in BOOLEAN => LifeType'
  BY <1>0 DEF WriterRest, TypeOK, agentVars, readerVars, cursorVars, loopVars,
      clientVars, AgentType, ReaderType, ChunkOpen, CursorType, LoopType, ClientType,
      LifeType, WakeType
<1>1. CASE WriterWake \/ WriterStops \/ WriterRoundEnd
  <2>1. /\ WriterRest /\ cancelled' = cancelled /\ wake' \in BOOLEAN
        /\ BufferType' /\ TurnType' /\ WireType' /\ WriterType'
    BY <1>0, <1>1 DEF WriterWake, WriterStops, WriterRoundEnd, WriterRest, dataVars,
        bufferVars, turnVars, BufferType, TurnType, WireType, WriterType, WakeType
  <2> QED BY <1>b, <2>1, Typed DEF LifeType, WakeType
<1>2. CASE WriterScan
  <2>1. TargetSequence \in Nat
    <3>1. CASE buffer = <<>>
      BY <3>1 DEF TargetSequence
    <3>2. CASE buffer # <<>>
      <4>1. Len(buffer) \in 1..Len(buffer)
        BY <3>2 DEF BufferType
      <4>2. buffer[Len(buffer)] \in Entry
        BY <4>1 DEF BufferType
      <4> QED BY <4>2 DEF TargetSequence, Entry
    <3> QED BY <3>1, <3>2
  <2>2. WriterType'
    BY <1>2, <2>1, OriginType DEF WriterScan, WriterType
  <2>3. /\ WriterRest /\ cancelled' = cancelled /\ wake' \in BOOLEAN
        /\ BufferType' /\ TurnType' /\ WireType'
    BY <1>0, <1>2 DEF WriterScan, WriterRest, dataVars, bufferVars, turnVars,
        BufferType, TurnType, WireType, WakeType
  <2> QED BY <1>b, <2>2, <2>3, Typed DEF LifeType, WakeType
<1>3. CASE WriterSend
  <2> DEFINE entry  == Head(buffer)
             binary == entry.kind = "binary"
  <2>1. buffer # <<>> /\ entry \in Entry
    BY <1>3 DEF WriterSend, CanPop, BufferType
  <2>2. /\ buffer' = Tail(buffer)
        /\ bufferBytes' = IF entry.cost > bufferBytes THEN 0
                          ELSE bufferBytes - entry.cost
        /\ replayBurstActive' = /\ replayBurstActive \/ entry.burstStart
                                /\ ~entry.burstFinish
        /\ window' = IF UsesWindow /\ binary
                     THEN [window EXCEPT
                             !.inFlight = window.inFlight + entry.cost,
                             !.currentTurnBytes =
                                 window.currentTurnBytes + entry.cost]
                     ELSE window
        /\ turn' = IF binary THEN entry.after ELSE turn
        /\ written' = written + entry.cost
        /\ Write(entry.kind, entry.before, entry.after, "turn")
        /\ wrote' = TRUE
        /\ UNCHANGED <<overloaded, nextSequence, pendingTurn, awaitingTurnAck,
                       turnAck, target, wake>>
        /\ WriterRest
    BY <1>3 DEF WriterSend
  <2>3. /\ entry.kind \in TextKinds \cup {"binary"} /\ entry.cost \in Nat
        /\ entry.before \in Position /\ entry.after \in Position
        /\ entry.burstStart \in BOOLEAN /\ entry.burstFinish \in BOOLEAN
    BY <2>1 DEF Entry
  <2> HIDE DEF entry
  <2>4. BufferType'
    <3>1. buffer' \in Seq(Entry)
      BY <2>1, <2>2 DEF BufferType
    <3>2. bufferBytes' \in 0..BufferLimit
      <4>1. /\ bufferBytes \in Nat /\ bufferBytes <= BufferLimit /\ BufferLimit \in Nat
            /\ entry.cost \in Nat
        BY <2>3, ConstantsType DEF BufferType
      <4>2. bufferBytes' = IF entry.cost > bufferBytes THEN 0
                           ELSE bufferBytes - entry.cost
        BY <2>2
      <4> QED BY <4>1, <4>2
    <3> QED BY <2>2, <3>1, <3>2 DEF BufferType
  <2>5. TurnType'
    <3>1. window' \in Window
      <4>1. window \in Window
        BY <1>a DEF TurnType
      <4>2. CASE UsesWindow /\ binary
        <5> DEFINE inFlight == window.inFlight + entry.cost
                   currentTurnBytes == window.currentTurnBytes + entry.cost
        <5>1. inFlight \in Int /\ currentTurnBytes \in Int
          BY <2>3, <4>1, WindowType
        <5>2. window' = [[window EXCEPT !.inFlight = inFlight]
                            EXCEPT !.currentTurnBytes = currentTurnBytes]
          BY <2>2, <4>2
        <5> HIDE DEF inFlight, currentTurnBytes
        <5> QED BY <4>1, <5>1, <5>2, WindowType
      <4>3. CASE ~(UsesWindow /\ binary)
        BY <2>2, <4>1, <4>3
      <4> QED BY <4>2, <4>3
    <3>2. replayBurstActive' \in BOOLEAN
      BY <2>2
    <3> QED BY <2>2, <3>1, <3>2 DEF TurnType
  <2>6. /\ WireType' /\ lastSent' \in Position /\ cancelled' \in BOOLEAN
        /\ writerPc' \in {"turn", "roundEnd", "done"}
    BY <2>2, <2>3, WriteType DEF WriterRest, LifeType
  <2>7. WriterType'
    BY <2>2, <2>3, <2>6 DEF WriterType
  <2>8. WakeType'
    BY <1>0, <1>b, <2>2 DEF WakeType
  <2> QED BY <1>b, <2>2, <2>4, <2>5, <2>6, <2>7, <2>8, Typed
<1>4. CASE WriterFinishTurn
  <2> DEFINE done == IF turn.seq # 0 THEN turn ELSE pendingTurn
  <2>1. done \in Position
    BY <1>a DEF WriterType, TurnType
  <2>2. /\ WriterRest
        /\ UNCHANGED <<target, written, turn, wrote, bufferVars, wake>>
    BY <1>4 DEF WriterFinishTurn
  <2>3. /\ TurnType' /\ WireType' /\ lastSent' \in Position /\ cancelled' \in BOOLEAN
        /\ writerPc' \in {"turn", "roundEnd", "done"}
    <3>1. CASE /\ writerPc' = "roundEnd"
               /\ UNCHANGED <<turnVars, wire, cancelled, lastSent>>
      BY <2>2, <3>1 DEF WriterRest, turnVars, TurnType, WireType, LifeType,
          WriterType
    <3>2. CASE /\ pendingTurn' = done /\ writerPc' = "roundEnd"
               /\ UNCHANGED <<replayBurstActive, awaitingTurnAck, turnAck,
                              window, wire, cancelled, lastSent>>
      <4> HIDE DEF done
      <4> QED BY <2>1, <2>2, <3>2 DEF WriterRest, TurnType, WireType, LifeType,
                 WriterType
    <3>3. CASE /\ pendingTurn' = Origin
               /\ IF FlowControl = "turn-ack-v1"
                  THEN awaitingTurnAck' = TRUE /\ turnAck' = done
                  ELSE UNCHANGED <<awaitingTurnAck, turnAck>>
               /\ window' = IF UsesWindow
                            THEN [window EXCEPT
                                    !.boundaries = Append(window.boundaries,
                                        [at |-> done,
                                         bytes |-> window.currentTurnBytes]),
                                    !.currentTurnBytes = 0]
                            ELSE window
               /\ Write("turn-complete", done, done, "roundEnd")
               /\ UNCHANGED replayBurstActive
      <4> HIDE DEF done
      <4>1. /\ WireType' /\ lastSent' \in Position /\ cancelled' \in BOOLEAN
            /\ writerPc' \in {"turn", "roundEnd", "done"}
        BY <2>1, <2>2, <3>3, WriteType DEF WriterRest, LifeType
      <4>2. /\ window \in Window /\ window.currentTurnBytes \in Int
            /\ window.boundaries \in Seq(Boundary)
        BY WindowType DEF TurnType
      <4>3. Append(window.boundaries, [at |-> done, bytes |-> window.currentTurnBytes])
              \in Seq(Boundary)
        <5>1. [at |-> done, bytes |-> window.currentTurnBytes] \in Boundary
          BY <2>1, <4>2 DEF Boundary
        <5> QED BY <4>2, <5>1
      <4>4. window' \in Window
        <5> DEFINE boundaries == Append(window.boundaries,
                                    [at |-> done, bytes |-> window.currentTurnBytes])
        <5>1. boundaries \in Seq(Boundary)
          BY <4>3
        <5>2. \/ window' = window
              \/ window' = [[window EXCEPT !.boundaries = boundaries]
                               EXCEPT !.currentTurnBytes = 0]
          BY <3>3
        <5> HIDE DEF boundaries
        <5>3. [window EXCEPT !.boundaries = boundaries] \in Window
          BY <4>2, <5>1, WindowType
        <5>4. [[window EXCEPT !.boundaries = boundaries]
                  EXCEPT !.currentTurnBytes = 0] \in Window
          <6> DEFINE w == [window EXCEPT !.boundaries = boundaries]
          <6>1. w \in Window /\ 0 \in Int
            BY <5>3
          <6> HIDE DEF w
          <6>2. [w EXCEPT !.currentTurnBytes = 0] \in Window
            BY <6>1, WindowType
          <6> QED BY <6>2 DEF w
        <5> QED BY <4>2, <5>2, <5>4
      <4>5. TurnType'
        BY <2>1, <3>3, <4>4, OriginType DEF TurnType
      <4> QED BY <4>1, <4>5
    <3> HIDE DEF done
    <3> QED BY <1>4, <3>1, <3>2, <3>3 DEF WriterFinishTurn, done
  <2>4. BufferType' /\ WriterType' /\ WakeType'
    BY <1>0, <1>b, <2>2, <2>3 DEF bufferVars, BufferType, WriterType, WakeType
  <2> QED BY <1>b, <2>2, <2>3, <2>4, Typed
<1> QED
  BY <1>1, <1>2, <1>3, <1>4 DEF Writer

\* The first boundary an acknowledgement names, when there is one.
LEMMA FirstMatchType ==
    ASSUME NEW at, window \in Window,
           \E i \in 1..Len(window.boundaries) : window.boundaries[i].at = at
    PROVE  /\ FirstMatch(at) \in 1..Len(window.boundaries)
           /\ window.boundaries[FirstMatch(at)].at = at
<1> DEFINE M == {i \in 1..Len(window.boundaries) : window.boundaries[i].at = at}
<1>1. Len(window.boundaries) \in Nat
  BY WindowType
<1>2. M \in SUBSET Nat /\ M # {}
  BY <1>1
<1>3. PICK i \in M : \A j \in M : i <= j
  <2> HIDE DEF M
  <2> QED BY <1>2, LeastNat
<1>4. /\ i \in 1..Len(window.boundaries)
      /\ window.boundaries[i].at = at
      /\ \A j \in 1..(i - 1) : window.boundaries[j].at # at
  BY <1>1, <1>3
<1> HIDE DEF M
<1> QED BY <1>4 DEF FirstMatch

LEMMA AcknowledgeType ==
    ASSUME TurnType, NEW at \in Position, AckMatches(at), AcknowledgeTurn(at)
    PROVE  TurnType'
<1>1. CASE UsesWindow /\ at = window.ack
  BY <1>1 DEF AcknowledgeTurn, TurnType
<1>2. CASE UsesWindow /\ at # window.ack
  <2> DEFINE k == FirstMatch(at)
             rest == SubSeq(window.boundaries, k + 1, Len(window.boundaries))
  <2>1. /\ window \in Window /\ window.inFlight \in Int
        /\ window.boundaries \in Seq(Boundary)
    BY WindowType DEF TurnType
  <2>2. k \in 1..Len(window.boundaries)
    BY <1>2, <2>1, FirstMatchType DEF AckMatches
  <2>3. Released(k) \in Int
    <3>1. k \in 0..Len(window.boundaries)
      BY <2>1, <2>2
    <3> HIDE DEF k
    <3> QED BY <2>1, <3>1, BytesThroughType DEF Released
  <2>4. rest \in Seq(Boundary)
    <3> HIDE DEF k
    <3> QED BY <2>1, <2>2
  <2>5. window' = [window EXCEPT !.inFlight = @ - Released(k),
                                 !.boundaries = rest, !.ack = at]
    BY <1>2 DEF AcknowledgeTurn
  <2>6. window' \in Window
    <3> DEFINE inFlight == window.inFlight - Released(k)
               w1 == [window EXCEPT !.inFlight = inFlight]
               w2 == [w1 EXCEPT !.boundaries = rest]
               w3 == [w2 EXCEPT !.ack = at]
    <3>1. inFlight \in Int
      BY <2>1, <2>3
    <3>2. window' = w3
      <4> HIDE DEF k, rest
      <4> QED BY <2>1, <2>5 DEF Window
    <3> HIDE DEF k, rest, inFlight
    <3>3. w1 \in Window
      BY <2>1, <3>1, WindowType
    <3> HIDE DEF w1
    <3>4. w2 \in Window
      BY <2>4, <3>3, WindowType
    <3> HIDE DEF w2
    <3>5. w3 \in Window
      BY <3>4, WindowType
    <3> HIDE DEF w3
    <3> QED BY <3>2, <3>5
  <2> QED BY <1>2, <2>6 DEF AcknowledgeTurn, TurnType
<1>3. CASE ~UsesWindow
  BY <1>3, OriginType DEF AcknowledgeTurn, TurnType
<1> QED BY <1>1, <1>2, <1>3

LEMMA HeadTailType ==
    ASSUME NEW S, NEW q \in Seq(S), q # <<>>
    PROVE  Head(q) \in S /\ Tail(q) \in Seq(S)
OBVIOUS

LEMMA AppendType ==
    ASSUME NEW S, NEW q \in Seq(S), NEW e \in S
    PROVE  Append(q, e) \in Seq(S)
OBVIOUS

LEMMA SuffixType ==
    ASSUME NEW S, NEW q \in Seq(S), NEW i \in 1..Len(q)
    PROVE  SubSeq(q, i + 1, Len(q)) \in Seq(S)
OBVIOUS

LEMMA LoopTypes == TypeInv /\ Loop => TypeInv'
<1> SUFFICES ASSUME TypeInv, Loop PROVE TypeInv'
  OBVIOUS
<1>0. TypeOK /\ ChunkOpen
  BY DEF TypeInv
<1>a. /\ BufferType /\ TurnType /\ LifeType /\ WriterType /\ WireType /\ WakeType
      /\ ReaderType /\ CursorType /\ LoopType /\ ClientType
  BY <1>0 DEF TypeOK
<1>b. LoopRest =>
        /\ AgentType' /\ CursorType' /\ WriterType' /\ UNCHANGED chunk
        /\ signals' \subseteq {"reader", "loop"} => WakeType'
  BY <1>0 DEF LoopRest, TypeOK, agentVars, cursorVars, writerVars, AgentType,
      CursorType, WriterType, WakeType
<1>c. SignalsOfLoop \subseteq {"reader", "loop"}
  BY <1>a DEF SignalsOfLoop, WakeType
<1>1. CASE LoopRegister
  <2>1. /\ LoopRest /\ ReaderType' /\ ChunkOpen' /\ LifeType' /\ LoopType'
        /\ signals' \subseteq {"reader", "loop"}
    BY <1>a, <1>b, <1>0, <1>1, <1>c DEF LoopRegister, dataVars, lifeVars,
        ReaderType, ChunkOpen, LifeType, LoopType, WakeType
  <2>2. BufferType' /\ TurnType' /\ WireType' /\ ClientType'
    BY <1>a, <1>1 DEF LoopRegister, dataVars, bufferVars, turnVars, socketVars,
        clientVars, BufferType, TurnType, WireType, ClientType
  <2> QED BY <1>b, <2>1, <2>2, Typed
<1>6. CASE LoopRun
  <2>1. /\ LoopRest /\ ReaderType' /\ ChunkOpen' /\ LifeType' /\ LoopType'
        /\ signals' \subseteq {"reader", "loop"}
    BY <1>a, <1>b, <1>0, <1>6, <1>c DEF LoopRun, dataVars, lifeVars,
        ReaderType, ChunkOpen, LifeType, LoopType, WakeType
  <2>2. BufferType' /\ TurnType' /\ WireType' /\ ClientType'
    BY <1>a, <1>6 DEF LoopRun, dataVars, bufferVars, turnVars, socketVars,
        clientVars, BufferType, TurnType, WireType, ClientType
  <2> QED BY <1>b, <2>1, <2>2, Typed
<1>7. CASE LoopStop
  <2>1. /\ LoopRest /\ ReaderType' /\ ChunkOpen' /\ LifeType' /\ LoopType'
        /\ signals' \subseteq {"reader", "loop"}
    BY <1>a, <1>b, <1>0, <1>7, <1>c DEF LoopStop, dataVars, lifeVars,
        ReaderType, ChunkOpen, LifeType, LoopType, WakeType
  <2>2. BufferType' /\ TurnType' /\ WireType' /\ ClientType'
    BY <1>a, <1>7 DEF LoopStop, dataVars, bufferVars, turnVars, socketVars,
        clientVars, BufferType, TurnType, WireType, ClientType
  <2> QED BY <1>b, <2>1, <2>2, Typed
<1>2. CASE LoopAck
  <2> DEFINE at == Head(upstream).at
             notice == [type |-> "pane-error", before |-> lastSent, after |-> lastSent]
  <2>1. Head(upstream) \in [type : {"ack", "replace"}, at : Position]
    BY <1>a, <1>2, HeadTailType DEF LoopAck, WireType
  <2>2. at \in Position /\ Tail(upstream) \in Seq([type : {"ack", "replace"}, at : Position])
    BY <1>a, <1>2, <2>1, HeadTailType DEF LoopAck, WireType
  <2>3. /\ LoopRest /\ UNCHANGED <<readerPc, bufferVars, lifeVars, loopVars, clientVars>>
        /\ upstream' = Tail(upstream)
        /\ \/ /\ AckMatches(at) /\ AcknowledgeTurn(at) /\ signals' = SignalsOfLoop
              /\ UNCHANGED wire
           \/ wire' = Append(wire, notice) /\ UNCHANGED <<turnVars, signals>>
    BY <1>2 DEF LoopAck
  <2> HIDE DEF at
  <2>4. TurnType' /\ signals' \subseteq {"reader", "loop"}
    BY <1>a, <1>c, <2>2, <2>3, AcknowledgeType DEF turnVars, TurnType, WakeType
  <2>5. WireType'
    <3>1. notice \in Message
      BY <1>a DEF Message, WriterType
    <3> HIDE DEF notice
    <3>2. wire \in Seq(Message)
      BY <1>a DEF WireType
    <3>3. Append(wire, notice) \in Seq(Message)
      BY <3>1, <3>2, AppendType
    <3>4. wire' \in Seq(Message)
      BY <2>3, <3>2, <3>3
    <3>5. upstream' \in Seq([type : {"ack", "replace"}, at : Position])
      BY <2>2, <2>3
    <3> QED BY <3>4, <3>5 DEF WireType
  <2>6. /\ ReaderType' /\ ChunkOpen' /\ BufferType' /\ LifeType' /\ LoopType'
        /\ ClientType'
    BY <1>a, <1>b, <1>0, <2>3 DEF bufferVars, lifeVars, loopVars, clientVars, ReaderType,
        ChunkOpen, BufferType, LifeType, LoopType, ClientType
  <2> QED BY <1>b, <2>3, <2>4, <2>5, <2>6, Typed
<1>3. CASE LoopPing
  <2>1. Plain("text") \in Entry
    BY <1>a, PlainType DEF TextKinds
  <2>2. /\ BufferType' /\ TurnType' /\ stopPending' \in BOOLEAN
        /\ signals' \subseteq {"reader", "loop"}
    BY <1>a, <1>3, <2>1, EnqueueType DEF LoopPing, LifeType, WriterType
  <2>3. LoopType'
    <3>1. pongs \in Nat /\ pongs < MaxPongs /\ pongs' = pongs + 1 /\ loopPc' = loopPc
      BY <1>a, <1>3, ConstantsType DEF LoopPing, LoopType
    <3> QED BY <1>a, <3>1, ConstantsType DEF LoopType
  <2>4. /\ LoopRest /\ ReaderType' /\ ChunkOpen' /\ LifeType' /\ WireType' /\ ClientType'
    BY <1>a, <1>b, <1>0, <1>3, <2>2 DEF LoopPing, socketVars, clientVars, ReaderType,
        ChunkOpen, LifeType, WireType, ClientType
  <2> QED BY <1>b, <2>2, <2>3, <2>4, Typed
<1>4. CASE LoopRemove
  <2>1. WireType'
    BY <1>a, <1>4, HeadTailType DEF LoopRemove, WireType
  <2>2. /\ LoopRest /\ ReaderType' /\ ChunkOpen' /\ LifeType' /\ LoopType'
        /\ signals' \subseteq {"reader", "loop"}
    BY <1>a, <1>b, <1>0, <1>4 DEF LoopRemove, ReaderType, ChunkOpen, LifeType,
        LoopType, WakeType
  <2>3. BufferType' /\ TurnType' /\ ClientType'
    BY <1>a, <1>4 DEF LoopRemove, dataVars, bufferVars, turnVars, clientVars,
        BufferType, TurnType, ClientType
  <2> QED BY <1>b, <2>1, <2>2, <2>3, Typed
<1>8. CASE LoopClose
  <2>1. WireType'
    BY <1>a, <1>8 DEF LoopClose, WireType
  <2>2. /\ LoopRest /\ ReaderType' /\ ChunkOpen' /\ LifeType' /\ LoopType'
        /\ signals' \subseteq {"reader", "loop"}
    BY <1>a, <1>b, <1>0, <1>8 DEF LoopClose, ReaderType, ChunkOpen, LifeType,
        LoopType, WakeType
  <2>3. BufferType' /\ TurnType' /\ ClientType'
    BY <1>a, <1>8 DEF LoopClose, dataVars, bufferVars, turnVars,
        BufferType, TurnType, ClientType
  <2> QED BY <1>b, <2>1, <2>2, <2>3, Typed
<1>5. CASE LoopDeactivate
  <2>1. BufferType'
    <3>1. /\ buffer' = <<>> /\ bufferBytes' = 0 /\ overloaded' = overloaded
          /\ nextSequence' = nextSequence
      BY <1>5 DEF LoopDeactivate
    <3> QED BY <1>a, <3>1, ConstantsType DEF BufferType
  <2>2. LoopRest /\ UNCHANGED <<turnVars, socketVars>>
    BY <1>5 DEF LoopDeactivate
  <2>3. ReaderType' /\ ChunkOpen' /\ signals' \subseteq {"reader", "loop"}
    BY <1>a, <1>b, <1>0, <1>5, <2>2 DEF LoopDeactivate, ReaderType, ChunkOpen, WakeType
  <2>4. LifeType' /\ LoopType'
    BY <1>a, <1>5 DEF LoopDeactivate, LifeType, LoopType
  <2>5. TurnType'
    BY <1>a, <2>2 DEF turnVars, TurnType
  <2>6. WireType' /\ ClientType'
    BY <1>a, <2>2 DEF socketVars, clientVars, WireType, ClientType
  <2> QED BY <1>b, <2>1, <2>2, <2>3, <2>4, <2>5, <2>6, Typed
<1> QED
  BY <1>1, <1>2, <1>3, <1>4, <1>5, <1>6, <1>7, <1>8 DEF Loop

LEMMA ClientTypes == TypeInv /\ Client => TypeInv'
<1> SUFFICES ASSUME TypeInv, Client PROVE TypeInv'
  OBVIOUS
<1>0. TypeOK /\ ChunkOpen
  BY DEF TypeInv
<1>a. WireType /\ ClientType
  BY <1>0 DEF TypeOK
<1>b. ClientRest =>
        /\ AgentType' /\ ReaderType' /\ ChunkOpen' /\ CursorType' /\ BufferType'
        /\ TurnType' /\ LifeType' /\ WakeType' /\ WriterType' /\ LoopType'
  <2>1. ClientRest => AgentType' /\ ReaderType' /\ ChunkOpen' /\ CursorType'
    BY <1>0 DEF ClientRest, TypeOK, agentVars, readerVars, cursorVars, AgentType,
        ReaderType, ChunkOpen, CursorType
  <2>2. ClientRest => BufferType' /\ TurnType' /\ LifeType'
    BY <1>0 DEF ClientRest, TypeOK, dataVars, bufferVars, turnVars, lifeVars,
        BufferType, TurnType, LifeType
  <2>3. ClientRest => WakeType' /\ WriterType' /\ LoopType'
    BY <1>0 DEF ClientRest, TypeOK, wakeVars, writerVars, loopVars, WakeType,
        WriterType, LoopType
  <2> QED BY <2>1, <2>2, <2>3
<1>1. CASE ClientReceive
  <2> DEFINE m == Head(wire)
  <2>1. m \in Message /\ Tail(wire) \in Seq(Message)
    BY <1>a, <1>1, HeadTailType DEF ClientReceive, WireType
  <2>2. m.after \in Position
    BY <2>1 DEF Message
  <2>3. /\ wire' = Tail(wire) /\ clientPos' = m.after /\ UNCHANGED upstream /\ ClientRest
        /\ \/ UNCHANGED <<clientState, applied, clientBoundaries>>
           \/ clientState' = "invalid" /\ UNCHANGED <<applied, clientBoundaries>>
           \/ /\ clientState' \in {"resync", "open"}
              /\ applied' = IF m.type = "replay-start" THEN m.after.cursor ELSE applied
              /\ clientBoundaries' =
                    IF m.type # "turn-complete" \/ FlowControl = ""
                    THEN clientBoundaries
                    ELSE IF UsesWindow THEN Append(clientBoundaries, m.after)
                    ELSE <<m.after>>
    BY <1>1 DEF ClientReceive
  <2> HIDE DEF m
  <2>4. clientBoundaries' \in Seq(Position)
    <3>1. clientBoundaries \in Seq(Position)
      BY <1>a DEF ClientType
    <3>2. /\ Append(clientBoundaries, m.after) \in Seq(Position)
          /\ <<m.after>> \in Seq(Position)
      BY <2>2, <3>1
    <3>3. \/ clientBoundaries' = clientBoundaries
          \/ clientBoundaries' = Append(clientBoundaries, m.after)
          \/ clientBoundaries' = <<m.after>>
      BY <2>3
    <3> QED BY <3>1, <3>2, <3>3
  <2>5. applied' \in Nat
    BY <1>a, <2>2, <2>3 DEF ClientType, Position
  <2>6. ClientType'
    BY <1>a, <2>2, <2>3, <2>4, <2>5 DEF ClientType
  <2>7. WireType'
    BY <1>a, <2>1, <2>3 DEF WireType
  <2> QED BY <1>b, <2>3, <2>6, <2>7, Typed
<1>2. CASE \E through \in 1..MaxOutput : ClientApply(through)
  <2>1. PICK through \in 1..MaxOutput : ClientApply(through)
    BY <1>2
  <2>2. through \in Nat
    BY ConstantsType
  <2>3. ClientRest /\ ClientType' /\ WireType'
    BY <1>a, <2>1, <2>2 DEF ClientApply, ClientType, WireType
  <2> QED BY <1>b, <2>3, Typed
<1>3. CASE ClientAck
  <2>1. PICK i \in 1..Len(clientBoundaries) :
            /\ upstream' = Append(upstream, [type |-> "ack", at |-> clientBoundaries[i]])
            /\ clientBoundaries' = SubSeq(clientBoundaries, i + 1, Len(clientBoundaries))
    BY <1>3 DEF ClientAck
  <2>2. ClientRest /\ UNCHANGED <<clientState, clientPos, applied, wire>>
    BY <1>3 DEF ClientAck
  <2>3. WireType'
    <3> DEFINE ack == [type |-> "ack", at |-> clientBoundaries[i]]
    <3>1. clientBoundaries[i] \in Position
      BY <1>a DEF ClientType
    <3>2. ack \in [type : {"ack", "replace"}, at : Position]
      BY <3>1
    <3>3. upstream' = Append(upstream, ack)
      BY <2>1
    <3> HIDE DEF ack
    <3> QED BY <1>a, <2>2, <3>2, <3>3 DEF WireType
  <2>4. ClientType'
    <3>1. clientBoundaries' \in Seq(Position)
      <4>1. clientBoundaries \in Seq(Position)
        BY <1>a DEF ClientType
      <4>2. clientBoundaries' = SubSeq(clientBoundaries, i + 1, Len(clientBoundaries))
        BY <2>1
      <4> QED BY <4>1, <4>2, SuffixType
    <3> QED BY <1>a, <2>2, <3>1 DEF ClientType
  <2> QED BY <1>b, <2>2, <2>3, <2>4, Typed
<1>4. CASE ClientLeave
  <2> DEFINE leave == [type |-> "replace", at |-> Origin]
  <2>1. leave \in [type : {"ack", "replace"}, at : Position]
    BY OriginType
  <2>2. /\ upstream' = Append(upstream, leave) /\ clientState' = "left" /\ ClientRest
        /\ UNCHANGED <<clientPos, applied, clientBoundaries, wire>>
    BY <1>4 DEF ClientLeave
  <2> HIDE DEF leave
  <2>3. ClientType' /\ WireType'
    BY <1>a, <2>1, <2>2 DEF ClientType, WireType
  <2> QED BY <1>b, <2>2, <2>3, Typed
<1> QED
  BY <1>1, <1>2, <1>3, <1>4 DEF Client

\* A step that leaves the typed groups alone, apart from life and wake.
LEMMA QuietTypes ==
    ASSUME TypeInv, LifeType', WakeType',
           UNCHANGED <<agentVars, readerVars, cursorVars, dataVars, writerVars,
                       loopVars, socketVars>>
    PROVE  TypeInv'
<1>1. AgentType' /\ ReaderType' /\ ChunkOpen' /\ CursorType'
  BY DEF TypeInv, TypeOK, agentVars, readerVars, cursorVars, AgentType, ReaderType,
      ChunkOpen, CursorType
<1>2. BufferType' /\ TurnType'
  BY DEF TypeInv, TypeOK, dataVars, bufferVars, turnVars, BufferType, TurnType
<1>3. WriterType' /\ LoopType' /\ WireType' /\ ClientType'
  BY DEF TypeInv, TypeOK, writerVars, loopVars, socketVars, clientVars, WriterType,
      LoopType, WireType, ClientType
<1> QED BY <1>1, <1>2, <1>3 DEF TypeInv, TypeOK

LEMMA NextType == TypeInv /\ [Next]_vars => TypeInv'
<1> SUFFICES ASSUME TypeInv, [Next]_vars PROVE TypeInv'
  OBVIOUS
<1>1. CASE StopRuns
  BY <1>1, QuietTypes DEF StopRuns, TypeInv, TypeOK, LifeType, WakeType, wakeVars
<1>2. CASE \E who \in {"reader", "loop"} : Signal(who)
  BY <1>2, QuietTypes DEF Signal, TypeInv, TypeOK, LifeType, WakeType, lifeVars
<1>3. CASE UNCHANGED vars
  BY <1>3, QuietTypes DEF vars, TypeInv, TypeOK, LifeType, WakeType, lifeVars, wakeVars
<1> QED
  BY <1>1, <1>2, <1>3, ReaderTypes, WriterTypes, LoopTypes, ClientTypes DEF Next

\* Type correctness: in particular the buffer's byte count stays within
\* terminalQueuePaneBufferLimit (queue_stream.go:297), overload included.
THEOREM TypeCorrect == Spec => []TypeOK
<1>1. TypeInv => TypeOK
  BY DEF TypeInv
<1> QED BY <1>1, InitType, NextType, PTL DEF Spec

-----------------------------------------------------------------------------
(* Headroom.  HeadroomPreventsOverload is not inductive: that the buffer   *)
(* is not over its limit says nothing of the frame the reader is about to  *)
(* queue.  What is inductive is a budget: above its high water mark the    *)
(* buffer holds at most the one frame read since the mark was polled and   *)
(* the pongs, whose number is bounded; a frame under way has its unqueued  *)
(* rest reserved; and the reader's cursor follows the agent's, so that no  *)
(* frame and no replay end is refused for any other reason.                *)

PongCost == pongs * TextCost

AtMark   == HighWater - 1 + PongCost
OverMark == AtMark + FrameBytes

BufferBudget ==
    /\ bufferBytes <= OverMark
    /\ readerPc \in {"none", "read"} => bufferBytes <= AtMark
    /\ readerPc = "chunk" => bufferBytes + (chunk.to - chunk.from) <= OverMark

CursorFollows ==
    agentPhase \in {"replay", "live"} => hasCursor /\ cursor = agentCursor

HeadroomInv == Headroom => ~overloaded /\ BufferBudget /\ CursorFollows

LEMMA PongCostType ==
    ASSUME LoopType, Headroom
    PROVE  /\ PongCost \in Nat
           /\ OverMark <= BufferLimit
           /\ pongs < MaxPongs => /\ (pongs + 1) * TextCost = PongCost + TextCost
                                  /\ OverMark + TextCost <= BufferLimit
<1>1. pongs \in Nat /\ MaxPongs \in Nat /\ MaxPongs - pongs \in Nat /\ TextCost \in Nat
  BY ConstantsType DEF LoopType
<1>2. PongCost \in Nat
  BY <1>1, ProductNat DEF PongCost
<1>3. (pongs + 1) * TextCost = PongCost + TextCost
  BY <1>1 DEF PongCost
<1>4. MaxPongs * TextCost = PongCost + (MaxPongs - pongs) * TextCost
  BY <1>1 DEF PongCost
<1>5. (MaxPongs - pongs) * TextCost \in Nat
  BY <1>1, ProductNat
<1>6. MaxPongs * TextCost \in Nat
  BY <1>1, ProductNat
<1>7. OverMark <= BufferLimit
  BY <1>2, <1>4, <1>5, <1>6, ConstantsType DEF Headroom, OverMark, AtMark
<1>8. ASSUME pongs < MaxPongs PROVE OverMark + TextCost <= BufferLimit
  <2>1. MaxPongs - pongs - 1 \in Nat
    BY <1>1, <1>8
  <2>2. (MaxPongs - pongs - 1) * TextCost \in Nat
    BY <1>1, <2>1, ProductNat
  <2>3. (MaxPongs - pongs) * TextCost = (MaxPongs - pongs - 1) * TextCost + TextCost
    BY <1>1
  <2> QED BY <1>1, <1>2, <1>4, <1>6, <2>2, <2>3, ConstantsType DEF Headroom, OverMark, AtMark
<1> QED BY <1>2, <1>3, <1>7, <1>8

\* An entry that fits does not start the overload.
LEMMA EnqueueWithRoom ==
    ASSUME NEW who, NEW entry \in Entry, Enqueue(entry, who), ~overloaded,
           bufferBytes \in Nat, bufferBytes + entry.cost <= BufferLimit
    PROVE  ~overloaded' /\ bufferBytes' \in {bufferBytes, bufferBytes + entry.cost}
BY DEF Enqueue, Drop, Overload, Accepting, Fits, dataVars, bufferVars

LEMMA InitHeadroom == Init => HeadroomInv
<1> SUFFICES ASSUME Init, Headroom PROVE ~overloaded /\ BufferBudget /\ CursorFollows
  BY DEF HeadroomInv
<1>1. LoopType
  BY InitType DEF TypeInv, TypeOK
<1>2. /\ bufferBytes = 2 * TextCost /\ readerPc = "none" /\ ~overloaded
      /\ agentPhase = "attach"
  BY DEF Init
<1> QED BY <1>1, <1>2, PongCostType, ConstantsType
        DEF Headroom, BufferBudget, AtMark, OverMark, CursorFollows

LEMMA ReaderHeadroom == TypeInv /\ HeadroomInv /\ Reader => HeadroomInv'
<1> SUFFICES ASSUME TypeInv, HeadroomInv, Reader, Headroom
             PROVE  (~overloaded /\ BufferBudget /\ CursorFollows)'
  BY DEF HeadroomInv, Headroom
<1>0. ~overloaded /\ BufferBudget /\ CursorFollows
  BY DEF HeadroomInv
<1>t. /\ ReaderType /\ CursorType /\ AgentType /\ ChunkOpen
      /\ bufferBytes \in Nat /\ agentCursor \in Nat /\ cursor \in Nat
      /\ chunk.from \in Nat /\ chunk.to \in Nat
  BY ConstantsType DEF TypeInv, TypeOK, BufferType, AgentType, CursorType, ReaderType
<1>p. /\ PongCost \in Nat /\ OverMark <= BufferLimit
      /\ HighWater \in Nat \ {0} /\ FrameBytes \in Nat \ {0} /\ TextCost \in Nat \ {0}
      /\ TextCost <= FrameBytes /\ BufferLimit \in Nat
  BY PongCostType, ConstantsType DEF TypeInv, TypeOK, Headroom
<1>m. AtMark \in Int /\ OverMark = AtMark + FrameBytes /\ OverMark \in Int
  BY <1>p DEF AtMark, OverMark
<1>q. UNCHANGED pongs => AtMark' = AtMark /\ OverMark' = OverMark
  BY DEF AtMark, OverMark, PongCost
<1>r. ReaderRest => UNCHANGED pongs
  BY DEF ReaderRest, loopVars
\* A text queued by a reader that has just polled the mark.
<1>text. ASSUME readerPc = "read", readerPc' \in {"poll", "return"}, ReaderRest,
                NEW entry \in Entry, entry.cost = TextCost,
                Enqueue(entry, "reader") \/ Drop
         PROVE  ~overloaded' /\ BufferBudget'
  <2>1. bufferBytes <= AtMark
    BY <1>0, <1>text DEF BufferBudget
  <2>2. ~overloaded' /\ bufferBytes' \in {bufferBytes, bufferBytes + TextCost}
    <3>1. CASE Drop
      BY <1>0, <3>1 DEF Drop, dataVars, bufferVars
    <3>2. CASE Enqueue(entry, "reader")
      <4>1. bufferBytes + entry.cost <= BufferLimit
        BY <1>t, <1>p, <1>m, <1>text, <2>1
      <4> QED BY <1>0, <1>t, <1>text, <3>2, <4>1, EnqueueWithRoom
    <3> QED BY <1>text, <3>1, <3>2
  <2>3. bufferBytes' <= OverMark
    BY <1>t, <1>p, <1>m, <2>1, <2>2
  <2> QED BY <1>q, <1>r, <1>text, <2>2, <2>3 DEF BufferBudget
<1>plain. ASSUME NEW kind \in TextKinds
          PROVE  Plain(kind) \in Entry /\ Plain(kind).cost = TextCost
  BY <1>t, PlainType DEF Plain, Text
<1>1. CASE ReaderPoll
  <2>1. /\ readerPc' \in {"read", "return"}
        /\ readerPc' = "read" => bufferBytes < HighWater
        /\ UNCHANGED <<chunk, pongs, overloaded, bufferBytes, agentPhase, agentCursor,
                       hasCursor, cursor>>
    BY <1>1 DEF ReaderPoll, Ready, agentVars, cursorVars, dataVars, bufferVars, loopVars
  <2>2. readerPc' = "read" => bufferBytes <= AtMark
    BY <1>t, <1>p, <2>1 DEF AtMark
  <2> QED BY <1>0, <1>q, <2>1, <2>2 DEF BufferBudget, CursorFollows
<1>2. CASE ReadPlain
  <2>1. CursorFollows'
    BY <1>0, <1>2 DEF ReadPlain, CursorFollows, cursorVars
  <2> QED BY <1>2, <1>text, <1>plain, <2>1 DEF ReadPlain, TextKinds
<1>3. CASE \E to \in 0..MaxOutput, snapshot \in BOOLEAN : ReadReplayStart(to, snapshot)
  <2>1. PICK to \in 0..MaxOutput, snapshot \in BOOLEAN : ReadReplayStart(to, snapshot)
    BY <1>3
  <2> DEFINE entry == Text("replay-start", Enqueued,
                           [cursor |-> agentCursor, seq |-> binarySequence],
                           BurstAdmitted(agentCursor, to, snapshot), FALSE)
  <2>2. entry \in Entry /\ entry.cost = TextCost
    <3>1. [cursor |-> agentCursor, seq |-> binarySequence] \in Position
      BY <1>t DEF CursorType, Position
    <3>2. BurstAdmitted(agentCursor, to, snapshot) \in BOOLEAN
      BY DEF BurstAdmitted
    <3>3. entry \in Entry
      BY <1>t, <3>1, <3>2, EnqueuedType, TextType DEF TextKinds
    <3> QED BY <3>3 DEF Text
  <2>3. /\ readerPc = "read" /\ readerPc' = "poll" /\ ReaderRest
        /\ Enqueue(entry, "reader")
        /\ hasCursor' = TRUE /\ cursor' = agentCursor /\ agentCursor' = agentCursor
    BY <2>1 DEF ReadReplayStart
  <2> HIDE DEF entry
  <2>4. ~overloaded' /\ BufferBudget'
    BY <1>text, <2>2, <2>3
  <2> QED BY <2>3, <2>4 DEF CursorFollows
<1>4. CASE ReadReplayComplete
  <2>1. hasCursor /\ cursor = agentCursor
    BY <1>0, <1>4 DEF ReadReplayComplete, CursorFollows
  <2>2. Enqueue(Plain("replay-complete"), "reader")
    BY <1>4, <2>1 DEF ReadReplayComplete
  <2>3. CursorFollows'
    BY <1>4, <2>1 DEF ReadReplayComplete, CursorFollows, cursorVars
  <2> QED BY <1>4, <1>text, <1>plain, <2>2, <2>3 DEF ReadReplayComplete, TextKinds
<1>5. CASE \E length \in 1..FrameBytes : ReadBinary(length)
  <2>1. PICK length \in 1..FrameBytes : ReadBinary(length)
    BY <1>5
  <2>2. length \in Nat /\ length <= FrameBytes
    BY <1>p
  <2>3. hasCursor /\ cursor = agentCursor
    BY <1>0, <2>1 DEF ReadBinary, CursorFollows
  <2>4. bufferBytes <= AtMark
    BY <1>0, <2>1 DEF ReadBinary, BufferBudget
  <2>5. Fits(length)
    BY <1>t, <1>p, <1>m, <2>2, <2>4 DEF Fits
  <2>6. /\ cursor' = cursor + length
        /\ chunk' = [from |-> cursor, to |-> cursor + length]
        /\ readerPc' = "chunk" /\ agentCursor' = agentCursor + length
        /\ UNCHANGED <<overloaded, bufferBytes, hasCursor, pongs>>
    BY <2>1, <2>3, <2>5, <1>r DEF ReadBinary, dataVars, bufferVars
  <2>7. chunk'.to - chunk'.from = length
    BY <1>t, <2>2, <2>6
  <2>8. BufferBudget'
    BY <1>t, <1>p, <1>m, <1>q, <2>2, <2>4, <2>6, <2>7 DEF BufferBudget
  <2> QED BY <1>0, <2>3, <2>6, <2>8 DEF CursorFollows
<1>6. CASE EnqueueChunk
  <2> DEFINE entry == [kind |-> "binary", before |-> Enqueued,
                       after |-> [cursor |-> chunk.from + ChunkLength,
                                  seq |-> binarySequence + 1],
                       seq |-> 0, cost |-> ChunkLength, burstStart |-> FALSE,
                       burstFinish |-> FALSE]
  <2>1. ChunkLength \in Nat /\ ChunkLength <= chunk.to - chunk.from
    BY <1>6, <1>t, ConstantsType DEF EnqueueChunk, ChunkLength, ChunkOpen
  <2>2. entry \in Entry
    <3>1. [cursor |-> chunk.from + ChunkLength, seq |-> binarySequence + 1] \in Position
      BY <1>t, <2>1 DEF CursorType, Position
    <3>2. Enqueued \in Position
      BY <1>t, EnqueuedType
    <3> QED BY <2>1, <3>1, <3>2 DEF Entry
  <2>3. bufferBytes + (chunk.to - chunk.from) <= OverMark
    BY <1>0, <1>6 DEF EnqueueChunk, BufferBudget
  <2>4. bufferBytes + entry.cost <= BufferLimit
    BY <1>t, <1>p, <1>m, <2>1, <2>3
  <2>5. ~overloaded' /\ bufferBytes' \in {bufferBytes, bufferBytes + ChunkLength}
    <3>1. Enqueue(entry, "reader") /\ entry.cost = ChunkLength
      BY <1>6 DEF EnqueueChunk
    <3> HIDE DEF entry
    <3> QED BY <1>0, <1>t, <2>2, <2>4, <3>1, EnqueueWithRoom
  <2>6. /\ chunk'.from = chunk.from + ChunkLength /\ chunk'.to = chunk.to
        /\ readerPc' \in {"poll", "chunk"} /\ UNCHANGED pongs
        /\ UNCHANGED <<agentPhase, agentCursor, hasCursor, cursor>>
    BY <1>6, <1>t, <1>r DEF EnqueueChunk, ReaderType, agentVars
  <2>7. BufferBudget'
    BY <1>t, <1>p, <1>m, <1>q, <2>1, <2>3, <2>5, <2>6 DEF BufferBudget
  <2> QED BY <1>0, <2>5, <2>6, <2>7 DEF CursorFollows
<1>7. CASE ReadTerminalControl
  <2>1. CursorFollows'
    BY <1>7 DEF ReadTerminalControl, CursorFollows
  <2> QED BY <1>7, <1>text, <1>plain, <2>1 DEF ReadTerminalControl, TextKinds
<1>8. CASE ReadEnd
  <2>1. CursorFollows'
    BY <1>0, <1>8 DEF ReadEnd, CursorFollows, agentVars
  <2>2. PICK kind \in {"terminal", "error"} : Enqueue(Plain(kind), "reader") \/ Drop
    BY <1>8 DEF ReadEnd
  <2>3. kind \in TextKinds
    BY DEF TextKinds
  <2> QED BY <1>8, <1>text, <1>plain, <2>1, <2>2, <2>3 DEF ReadEnd
<1>9. CASE ReaderReturn
  BY <1>0, <1>9, <1>q DEF ReaderReturn, agentVars, cursorVars, dataVars, bufferVars,
      loopVars, BufferBudget, CursorFollows
<1> QED
  BY <1>1, <1>2, <1>3, <1>4, <1>5, <1>6, <1>7, <1>8, <1>9 DEF Reader

\* A step that takes nothing from the reader, queues nothing and adds nothing.
LEMMA QuietHeadroom ==
    ASSUME TypeInv, HeadroomInv, bufferBytes' \in Nat, bufferBytes' <= bufferBytes,
           UNCHANGED <<readerVars, cursorVars, agentVars, overloaded, pongs>>
    PROVE  HeadroomInv'
<1> SUFFICES ASSUME Headroom PROVE (~overloaded /\ BufferBudget /\ CursorFollows)'
  BY DEF HeadroomInv, Headroom
<1>1. ~overloaded /\ BufferBudget /\ CursorFollows
  BY DEF HeadroomInv
<1>2. /\ bufferBytes \in Nat /\ chunk.from \in Nat /\ chunk.to \in Nat
      /\ PongCost \in Nat /\ HighWater \in Nat /\ FrameBytes \in Nat
  BY ConstantsType, PongCostType DEF TypeInv, TypeOK, BufferType, ReaderType
<1>3. AtMark \in Int /\ OverMark \in Int /\ AtMark' = AtMark /\ OverMark' = OverMark
  BY <1>2 DEF AtMark, OverMark, PongCost
<1> QED BY <1>1, <1>2, <1>3 DEF BufferBudget, CursorFollows, readerVars, cursorVars,
           agentVars

LEMMA WriterHeadroom == TypeInv /\ HeadroomInv /\ Writer => HeadroomInv'
<1> SUFFICES ASSUME TypeInv, HeadroomInv, Writer PROVE HeadroomInv'
  OBVIOUS
<1>1. bufferBytes \in Nat
  BY ConstantsType DEF TypeInv, TypeOK, BufferType
<1>2. /\ WriterRest /\ UNCHANGED overloaded
      /\ bufferBytes' \in Nat /\ bufferBytes' <= bufferBytes
  <2>1. CASE WriterSend
    <3> DEFINE entry == Head(buffer)
    <3>1. entry.cost \in Nat
      <4>1. buffer \in Seq(Entry) /\ buffer # <<>>
        BY <2>1 DEF WriterSend, CanPop, TypeInv, TypeOK, BufferType
      <4>2. entry \in Entry
        BY <4>1, HeadTailType
      <4> QED BY <4>2 DEF Entry
    <3>2. /\ bufferBytes' = IF entry.cost > bufferBytes THEN 0
                            ELSE bufferBytes - entry.cost
          /\ WriterRest /\ UNCHANGED overloaded
      BY <2>1 DEF WriterSend
    <3> HIDE DEF entry
    <3> QED BY <1>1, <3>1, <3>2
  <2>2. CASE WriterWake \/ WriterStops \/ WriterScan \/ WriterFinishTurn \/ WriterRoundEnd
    BY <1>1, <2>2 DEF WriterWake, WriterStops, WriterScan, WriterFinishTurn,
        WriterRoundEnd, dataVars, bufferVars
  <2> QED BY <2>1, <2>2 DEF Writer
<1> QED BY <1>2, QuietHeadroom DEF WriterRest, loopVars

LEMMA LoopHeadroom == TypeInv /\ HeadroomInv /\ Loop => HeadroomInv'
<1> SUFFICES ASSUME TypeInv, HeadroomInv, Loop PROVE HeadroomInv'
  OBVIOUS
<1>1. bufferBytes \in Nat
  BY ConstantsType DEF TypeInv, TypeOK, BufferType
<1>2. CASE LoopRegister \/ LoopAck \/ LoopRemove \/ LoopClose \/ LoopStop
  BY <1>1, <1>2, QuietHeadroom DEF LoopRegister, LoopAck, LoopRemove, LoopClose, LoopStop,
      LoopRest, dataVars, bufferVars, loopVars, readerVars
<1>3. CASE LoopDeactivate
  BY <1>1, <1>3, QuietHeadroom DEF LoopDeactivate, LoopRest, readerVars
<1>4. CASE LoopRun
  <2> SUFFICES ASSUME Headroom PROVE (~overloaded /\ BufferBudget /\ CursorFollows)'
    BY DEF HeadroomInv, Headroom
  <2>1. ~overloaded /\ BufferBudget /\ CursorFollows
    BY DEF HeadroomInv
  <2>2. /\ readerPc' = "poll"
        /\ UNCHANGED <<chunk, overloaded, bufferBytes, pongs, agentVars, cursorVars>>
    BY <1>4 DEF LoopRun, LoopRest, dataVars, bufferVars
  <2> QED BY <2>1, <2>2 DEF BufferBudget, CursorFollows, AtMark, OverMark, PongCost,
             agentVars, cursorVars
<1>5. CASE LoopPing
  <2> SUFFICES ASSUME Headroom PROVE (~overloaded /\ BufferBudget /\ CursorFollows)'
    BY DEF HeadroomInv, Headroom
  <2>1. ~overloaded /\ BufferBudget /\ CursorFollows
    BY DEF HeadroomInv
  <2>2. LoopType /\ ReaderType /\ CursorType /\ pongs \in Nat
    BY ConstantsType DEF TypeInv, TypeOK, LoopType
  <2>3. /\ PongCost \in Nat /\ HighWater \in Nat /\ FrameBytes \in Nat
        /\ TextCost \in Nat /\ BufferLimit \in Nat
        /\ chunk.from \in Nat /\ chunk.to \in Nat
    BY <2>2, ConstantsType, PongCostType DEF ReaderType
  <2>4. PongCost' = PongCost + TextCost /\ OverMark + TextCost <= BufferLimit
    <3>1. pongs < MaxPongs /\ pongs' = pongs + 1
      BY <1>5 DEF LoopPing
    <3>2. (pongs + 1) * TextCost = PongCost + TextCost
      BY <2>2, <3>1, PongCostType
    <3> QED BY <2>2, <3>1, <3>2, PongCostType DEF PongCost
  <2>5. /\ AtMark \in Int /\ OverMark \in Int
        /\ AtMark' = AtMark + TextCost /\ OverMark' = OverMark + TextCost
    BY <2>3, <2>4 DEF AtMark, OverMark
  <2>6. ~overloaded' /\ bufferBytes' \in {bufferBytes, bufferBytes + TextCost}
    <3>1. Plain("text") \in Entry /\ Plain("text").cost = TextCost
      BY <2>2, PlainType DEF Plain, Text, TextKinds
    <3>2. bufferBytes + TextCost <= BufferLimit
      BY <1>1, <2>1, <2>3, <2>4, <2>5 DEF BufferBudget
    <3> QED BY <1>1, <1>5, <2>1, <3>1, <3>2, EnqueueWithRoom DEF LoopPing
  <2>7. UNCHANGED <<readerPc, chunk, agentVars, cursorVars>>
    BY <1>5 DEF LoopPing, LoopRest
  <2>8. BufferBudget'
    BY <1>1, <2>1, <2>3, <2>5, <2>6, <2>7 DEF BufferBudget
  <2> QED BY <2>1, <2>6, <2>7, <2>8 DEF CursorFollows, agentVars, cursorVars
<1> QED BY <1>2, <1>3, <1>4, <1>5 DEF Loop

LEMMA NextHeadroom == TypeInv /\ HeadroomInv /\ [Next]_vars => HeadroomInv'
<1> SUFFICES ASSUME TypeInv, HeadroomInv, [Next]_vars PROVE HeadroomInv'
  OBVIOUS
<1>1. bufferBytes \in Nat
  BY ConstantsType DEF TypeInv, TypeOK, BufferType
<1>2. CASE Client
  <2>1. ClientRest
    BY <1>2 DEF Client, ClientReceive, ClientApply, ClientAck, ClientLeave
  <2> QED BY <1>1, <2>1, QuietHeadroom DEF ClientRest, dataVars, bufferVars, loopVars
<1>3. CASE StopRuns \/ \E who \in {"reader", "loop"} : Signal(who)
  BY <1>1, <1>3, QuietHeadroom DEF StopRuns, Signal, dataVars, bufferVars, loopVars
<1>4. CASE UNCHANGED vars
  BY <1>1, <1>4, QuietHeadroom DEF vars, dataVars, bufferVars, loopVars
<1> QED BY <1>2, <1>3, <1>4, ReaderHeadroom, WriterHeadroom, LoopHeadroom DEF Next

\* With the headroom the constants leave over the high water mark
\* (queue_stream.go:131-148, terminal_queue.go:17-33), enqueue's overload
\* branch is unreachable, whatever the interleaving: the reader polls before
\* each frame, not before each chunk, and still never overflows the buffer.
THEOREM HeadroomSuffices == Spec => []HeadroomPreventsOverload
<1>1. HeadroomInv => HeadroomPreventsOverload
  BY DEF HeadroomInv, HeadroomPreventsOverload
<1> QED BY <1>1, InitType, NextType, InitHeadroom, NextHeadroom, PTL DEF Spec

-----------------------------------------------------------------------------
(* The inductive invariant.                                                *)

\* What the entries of a buffer cost together.
Costs(entries) ==
    LET costs[i \in 0..Len(entries)] ==
            IF i = 0 THEN 0 ELSE costs[i - 1] + entries[i].cost
    IN  costs[Len(entries)]

Counted ==
    /\ bufferBytes = Costs(buffer)
    /\ \A i \in 1..Len(buffer) : buffer[i].seq = nextSequence - Len(buffer) + i

\* Entries or messages lead from one position to another without a gap.
Joined(from, items, to) ==
    /\ \A i \in 1..Len(items) :
          items[i].before = IF i = 1 THEN from ELSE items[i - 1].after
    /\ to = IF items = <<>> THEN from ELSE items[Len(items)].after

\* Only output and the start of a replay move the position, and a replay
\* starts before there is any output.
EntryShape(e) ==
    /\ e.kind = "binary" => e.after.seq = e.before.seq + 1
    /\ e.kind = "replay-start" => e.before.seq = 0 /\ e.after.seq = 0
    /\ e.kind \notin {"binary", "replay-start"} => e.after = e.before
    /\ e.burstStart => e.kind = "replay-start"

MessageShape(m) == m.type \notin {"binary", "replay-start"} => m.after = m.before

\* While entries are accepted the buffer leads to where the next one will stand.
BufferEnd == IF Accepting THEN Enqueued ELSE lastSent

BufferOrder ==
    /\ writerPc # "done" => Joined(lastSent, buffer, BufferEnd)
    /\ \A i \in 1..Len(buffer) : /\ EntryShape(buffer[i])
                                 /\ overloaded => buffer[i].kind = "overload"

WireOrder ==
    /\ Joined(clientPos, wire, lastSent)
    /\ \A i \in 1..Len(wire) : MessageShape(wire[i])

\* The frame being cut ends at the cursor, and no output precedes the replay.
FrameOrder ==
    /\ readerPc = "chunk" => chunk.to = cursor
    /\ agentPhase = "attach" => binarySequence = 0 /\ readerPc # "chunk"

\* The reader starts after the stream is registered.
Unstarted == loopPc \in {"register", "run"} => readerPc = "none"

\* A turn, or a held turn, that would be completed ends where the websocket is.
TurnPosition ==
    /\ writerPc = "turn" /\ turn.seq # 0 => turn = lastSent
    /\ pendingTurn.seq # 0 /\ active /\ writerPc # "done" =>
          (writerPc = "turn" /\ turn.seq # 0) \/ pendingTurn = lastSent
    /\ overloaded => pendingTurn.seq = 0

Positions == BufferOrder /\ WireOrder /\ FrameOrder /\ Unstarted /\ TurnPosition

\* The last boundary the browser was told of: outstanding, or acknowledged.
LastOf(boundaries, ack) ==
    IF boundaries = <<>> THEN ack ELSE boundaries[Len(boundaries)].at

LastBoundary == LastOf(window.boundaries, window.ack)

\* Boundaries in stream order, after the one that was acknowledged.
Ascending(boundaries, ack) ==
    \A i \in 1..Len(boundaries) :
        /\ ack.seq < boundaries[i].at.seq
        /\ \A j \in 1..(i - 1) : boundaries[j].at.seq < boundaries[i].at.seq

\* The window's ledger, kept in overload and in the other modes too.
WindowKept ==
    /\ ~UsesWindow => window = EmptyWindow
    /\ window.inFlight = BytesThrough(window.boundaries, Len(window.boundaries))
                            + window.currentTurnBytes
    /\ Ascending(window.boundaries, window.ack)
    /\ LastBoundary.seq <= lastSent.seq
    /\ Len(window.boundaries) <= WindowTurns
    /\ awaitingTurnAck => /\ FlowControl = "turn-ack-v1"
                          /\ 0 < turnAck.seq /\ turnAck.seq <= lastSent.seq

\* A turn that would be completed is beyond every boundary, and the window has
\* a place for it; during a burst, and while a turn is held, nothing is awaited.
TurnRoom ==
    /\ writerPc = "turn" =>
          /\ ~awaitingTurnAck
          /\ turn.seq # 0 => /\ LastBoundary.seq < turn.seq
                             /\ Len(window.boundaries) < WindowTurns
    /\ (replayBurstActive \/ pendingTurn.seq # 0) =>
          window.boundaries = <<>> /\ window.ack.seq = 0 /\ ~awaitingTurnAck

\* What a sleeping writer, and one about to find nothing to send, may rely on.
Quiet == ~wake /\ signals = {} /\ registered

Idling == writerPc = "parked" \/ (writerPc = "roundEnd" /\ ~wrote)

Awake ==
    /\ Quiet /\ Idling => TargetSequence = 0
    /\ writerPc = "turn" /\ ~wrote => written = 0 /\ (Quiet => CanPop \/ ~active)

\* The boundaries the broker waits for.
Outstanding ==
    IF UsesWindow
    THEN {window.boundaries[i].at : i \in 1..Len(window.boundaries)}
    ELSE IF awaitingTurnAck THEN {turnAck} ELSE {}

\* The boundaries on their way: acknowledgements to the broker (upstream), and
\* turns that end (wire); those in between are the browser's own.
Acks == {i \in 1..Len(upstream) : upstream[i].type = "ack"}
Ends == {i \in 1..Len(wire) : wire[i].type = "turn-complete"}

Held == {clientBoundaries[i] : i \in 1..Len(clientBoundaries)}
            \cup {wire[i].after : i \in Ends}

\* The stream can still refuse an acknowledgement that it should not.
Alive == (registered \/ loopPc = "register") /\ ~overloaded

\* The browser acknowledges the turns it is told of.
Acking == FlowControl # ""

AcksOwed ==
    Alive /\ Acking =>
        /\ \A i \in Acks :
              /\ upstream[i].at \in Outstanding
              /\ \A j \in Acks : j < i => upstream[j].at.seq < upstream[i].at.seq
        /\ clientState = "open" =>
              /\ Held \subseteq Outstanding
              /\ \A i \in Acks, h \in Held : upstream[i].at.seq < h.seq

HeldInOrder ==
    clientState = "open" /\ Acking =>
        /\ \A i \in 1..Len(clientBoundaries) :
              /\ \A j \in 1..(i - 1) : clientBoundaries[j].seq < clientBoundaries[i].seq
              /\ \A j \in Ends : clientBoundaries[i].seq < wire[j].after.seq
        /\ \A i \in Ends, j \in Ends : i < j => wire[i].after.seq < wire[j].after.seq
        /\ Cardinality(Held) <= IF UsesWindow THEN WindowTurns ELSE 1

Membership ==
    /\ loopPc = "register" => ~registered
    /\ ~registered /\ loopPc # "register" => clientState = "left"
    /\ \A i \in 1..Len(upstream) : upstream[i].type = "replace" => clientState = "left"
    /\ Alive => \A i \in 1..Len(wire) : wire[i].type # "pane-error"
    /\ ~Acking => clientBoundaries = <<>> /\ Acks = {}

\* The browser accepts at least the boundaries the window may hold
\* (terminalQueueWindowTurns 256, output_controller.js:776 512).
TurnsMatch == WindowTurns <= ClientTurns

InSync == TurnsMatch => ClientInSync

StreamInv ==
    /\ TypeInv
    /\ Counted
    /\ Positions
    /\ WindowKept
    /\ TurnRoom
    /\ Awake
    /\ AcksOwed
    /\ HeldInOrder
    /\ Membership
    /\ InSync

-----------------------------------------------------------------------------
(* Running sums.                                                           *)

\* f holds the sums of the first 0, 1, ... n of the numbers v[1], ... v[n].
Running(v, n, f) ==
    /\ f \in [0..n -> Int] /\ f[0] = 0
    /\ \A i \in 1..n : f[i] = f[i - 1] + v[i]

LEMMA RunningExists ==
    ASSUME NEW n \in Nat, NEW v \in [1..n -> Int]
    PROVE  \E f : Running(v, n, f)
<1>1. PICK f \in [0..n -> Int] :
          f = [i \in 0..n |-> IF i = 0 THEN 0 ELSE f[i - 1] + v[i]]
  BY RunningSum
<1>2. f[0] = 0 /\ \A i \in 1..n : f[i] = f[i - 1] + v[i]
  BY <1>1
<1> QED BY <1>2 DEF Running

\* Sums of the same numbers are the same.
LEMMA RunningUnique ==
    ASSUME NEW m \in Nat, NEW n \in Nat, NEW v, NEW w, NEW f, NEW g,
           Running(v, m, f), Running(w, n, g), NEW k \in Nat, k <= m, k <= n,
           \A i \in 1..k : v[i] = w[i]
    PROVE  f[k] = g[k]
<1> DEFINE S == {i \in Nat : i <= k => f[i] = g[i]}
<1>1. 0 \in S
  BY DEF Running
<1>2. ASSUME NEW i \in S PROVE i + 1 \in S
  <2>1. ASSUME i + 1 <= k PROVE f[i + 1] = g[i + 1]
    <3>1. /\ i \in Nat /\ f[i] = g[i] /\ v[i + 1] = w[i + 1] /\ (i + 1) - 1 = i
          /\ i + 1 \in 1..m /\ i + 1 \in 1..n
      BY <2>1
    <3>2. f[i + 1] = f[i] + v[i + 1] /\ g[i + 1] = g[i] + w[i + 1]
      BY <3>1 DEF Running
    <3> QED BY <3>1, <3>2
  <2> QED BY <2>1
<1>3. S = Nat
  <2>1. S \in SUBSET Nat
    OBVIOUS
  <2> HIDE DEF S
  <2> QED BY <1>1, <1>2, <2>1, SetInduction
<1> QED BY <1>3

\* The n numbers w follow the first k of v.
Following(v, w, k, n) == \A i \in 1..n : w[i] = v[i + k]

\* Their sum.
LEMMA RunningRest ==
    ASSUME NEW m \in Nat, NEW k \in Nat, NEW n \in Nat, NEW v, NEW w, NEW f, NEW g,
           n = m + k, Running(v, n, f), Running(w, m, g),
           v \in [1..n -> Int], Following(v, w, k, m)
    PROVE  g[m] = f[n] - f[k]
<1> DEFINE S == {i \in Nat : i <= m => g[i] = f[i + k] - f[k]}
<1>0. \A i \in 0..n : f[i] \in Int
  BY DEF Running
<1>1. 0 \in S
  <2>1. g[0] = 0 /\ f[0 + k] = f[k] /\ f[k] \in Int
    BY <1>0 DEF Running
  <2> QED BY <2>1
<1>2. ASSUME NEW i \in S PROVE i + 1 \in S
  <2>1. ASSUME i + 1 <= m PROVE g[i + 1] = f[(i + 1) + k] - f[k]
    <3>1. /\ i \in Nat /\ g[i] = f[i + k] - f[k] /\ (i + 1) - 1 = i
          /\ i + 1 \in 1..m /\ (i + 1) + k \in 1..n
          /\ ((i + 1) + k) - 1 = i + k /\ i + k \in 0..n
      BY <2>1
    <3>2. /\ g[i + 1] = g[i] + w[i + 1] /\ w[i + 1] = v[(i + 1) + k]
          /\ f[(i + 1) + k] = f[i + k] + v[(i + 1) + k]
      BY <3>1 DEF Running, Following
    <3>3. f[i + k] \in Int /\ f[k] \in Int /\ v[(i + 1) + k] \in Int
      BY <1>0, <3>1
    <3> QED BY <3>1, <3>2, <3>3
  <2> QED BY <2>1
<1>3. S = Nat
  <2>1. S \in SUBSET Nat
    OBVIOUS
  <2> HIDE DEF S
  <2> QED BY <1>1, <1>2, <2>1, SetInduction
<1>4. m \in S
  BY <1>3
<1>5. g[m] = f[m + k] - f[k]
  BY <1>4
<1>6. m + k = n
  OBVIOUS
<1> QED BY <1>5, <1>6

\* A sum of naturals is one.
LEMMA RunningNat ==
    ASSUME NEW n \in Nat, NEW v \in [1..n -> Nat], NEW f, Running(v, n, f)
    PROVE  \A i \in 0..n : f[i] \in Nat
<1> DEFINE S == {i \in Nat : i <= n => f[i] \in Nat}
<1>1. 0 \in S
  BY DEF Running
<1>2. ASSUME NEW i \in S PROVE i + 1 \in S
  <2>1. ASSUME i + 1 <= n PROVE f[i + 1] \in Nat
    <3>1. i \in Nat /\ f[i] \in Nat /\ (i + 1) - 1 = i /\ i + 1 \in 1..n
      BY <2>1
    <3>2. f[i + 1] = f[i] + v[i + 1] /\ v[i + 1] \in Nat
      BY <3>1 DEF Running
    <3> QED BY <3>1, <3>2
  <2> QED BY <2>1
<1>3. S = Nat
  <2>1. S \in SUBSET Nat
    OBVIOUS
  <2> HIDE DEF S
  <2> QED BY <1>1, <1>2, <2>1, SetInduction
<1> QED BY <1>3

-----------------------------------------------------------------------------
(* What a buffer costs.                                                    *)

EntryCosts(entries) == [i \in 1..Len(entries) |-> entries[i].cost]

LEMMA EntryCostsType ==
    ASSUME NEW entries \in Seq(Entry)
    PROVE  /\ Len(entries) \in Nat
           /\ EntryCosts(entries) \in [1..Len(entries) -> Nat]
           /\ EntryCosts(entries) \in [1..Len(entries) -> Int]
           /\ \A i \in 1..Len(entries) : EntryCosts(entries)[i] = entries[i].cost
<1>1. Len(entries) \in Nat /\ \A i \in 1..Len(entries) : entries[i] \in Entry
  OBVIOUS
<1>2. \A i \in 1..Len(entries) : entries[i].cost \in Nat
  BY <1>1 DEF Entry
<1> QED BY <1>1, <1>2 DEF EntryCosts

LEMMA CostsRunning ==
    ASSUME NEW entries \in Seq(Entry), NEW f,
           Running(EntryCosts(entries), Len(entries), f)
    PROVE  Costs(entries) = f[Len(entries)]
<1> DEFINE n == Len(entries)
           Sums(g) == g = [i \in 0..n |-> IF i = 0 THEN 0 ELSE g[i - 1] + entries[i].cost]
<1>1. n \in Nat /\ \A i \in 1..n : EntryCosts(entries)[i] = entries[i].cost
  BY EntryCostsType
<1>2. Sums(f)
  <2>1. f \in [0..n -> Int] /\ f[0] = 0
        /\ \A i \in 1..n : f[i] = f[i - 1] + entries[i].cost
    BY <1>1 DEF Running
  <2> QED BY <1>1, <2>1
<1>3. ASSUME NEW g, Sums(g) PROVE g[n] = f[n]
  <2> DEFINE S == {k \in Nat : k <= n => g[k] = f[k]}
  <2>1. 0 \in S
    BY <1>1, <1>2, <1>3
  <2>2. ASSUME NEW k \in S PROVE k + 1 \in S
    <3>1. ASSUME k + 1 <= n PROVE g[k + 1] = f[k + 1]
      <4>1. k \in Nat /\ k + 1 \in 0..n /\ k + 1 # 0 /\ (k + 1) - 1 = k /\ g[k] = f[k]
        BY <1>1, <3>1
      <4>2. g[k + 1] = g[k] + entries[k + 1].cost
        BY <1>3, <4>1
      <4>3. f[k + 1] = f[k] + entries[k + 1].cost
        BY <1>2, <4>1
      <4> QED BY <4>1, <4>2, <4>3
    <3> QED BY <3>1
  <2>3. S = Nat
    <3>1. S \in SUBSET Nat
      OBVIOUS
    <3> HIDE DEF S
    <3> QED BY <2>1, <2>2, <3>1, SetInduction
  <2> QED BY <1>1, <2>3
<1>4. Costs(entries) = (CHOOSE g : Sums(g))[n]
  BY DEF Costs
<1>5. Sums(CHOOSE g : Sums(g))
  <2> HIDE DEF Sums
  <2> QED BY <1>2
<1> QED
  <2> HIDE DEF Sums, n
  <2>1. Costs(entries) = f[n]
    BY <1>3, <1>4, <1>5
  <2> QED BY <2>1 DEF n

LEMMA CostsNone == Costs(<<>>) = 0
<1>1. <<>> \in Seq(Entry) /\ Len(<<>>) = 0
  OBVIOUS
<1>2. PICK f : Running(EntryCosts(<<>>), 0, f)
  BY <1>1, EntryCostsType, RunningExists
<1> QED BY <1>1, <1>2, CostsRunning DEF Running

LEMMA CostsAppend ==
    ASSUME NEW entries \in Seq(Entry), NEW e \in Entry
    PROVE  Costs(Append(entries, e)) = Costs(entries) + e.cost
<1> DEFINE longer == Append(entries, e)
           n == Len(entries)
<1>1. /\ longer \in Seq(Entry) /\ Len(longer) = n + 1 /\ n \in Nat
      /\ \A i \in 1..n : longer[i] = entries[i]
      /\ longer[n + 1] = e
  OBVIOUS
<1> HIDE DEF longer
<1>2. PICK f : Running(EntryCosts(entries), n, f)
  BY EntryCostsType, RunningExists
<1>3. PICK g : Running(EntryCosts(longer), n + 1, g)
  <2>1. n + 1 \in Nat /\ EntryCosts(longer) \in [1..(n + 1) -> Int]
    BY <1>1, EntryCostsType
  <2> QED BY <2>1, RunningExists
<1>4. f[n] = g[n]
  <2>1. \A i \in 1..n : EntryCosts(entries)[i] = EntryCosts(longer)[i]
    BY <1>1, EntryCostsType
  <2> QED BY <1>1, <1>2, <1>3, <2>1, RunningUnique
<1>5. g[n + 1] = g[n] + e.cost
  <2>1. n + 1 \in 1..(n + 1) /\ (n + 1) - 1 = n /\ EntryCosts(longer)[n + 1] = e.cost
    BY <1>1, EntryCostsType
  <2> QED BY <1>3, <2>1 DEF Running
<1>6. Costs(entries) = f[n] /\ Costs(longer) = g[n + 1]
  BY <1>1, <1>2, <1>3, CostsRunning
<1>7. Costs(longer) = Costs(entries) + e.cost
  BY <1>4, <1>5, <1>6
<1> QED BY <1>7 DEF longer

LEMMA CostsTail ==
    ASSUME NEW entries \in Seq(Entry), entries # <<>>
    PROVE  /\ Costs(entries) \in Nat
           /\ Head(entries).cost <= Costs(entries)
           /\ Costs(Tail(entries)) = Costs(entries) - Head(entries).cost
<1> DEFINE rest == Tail(entries)
           n == Len(entries)
           first == Head(entries).cost
<1>1. /\ n \in Nat /\ 1 \in 0..n /\ rest \in Seq(Entry) /\ Len(rest) = n - 1
      /\ \A i \in 1..(n - 1) : rest[i] = entries[i + 1]
      /\ Head(entries) = entries[1] /\ entries[1] \in Entry
  OBVIOUS
<1>2. first \in Nat
  BY <1>1 DEF Entry
<1> HIDE DEF rest, first
<1>3. PICK f : Running(EntryCosts(entries), n, f)
  BY EntryCostsType, RunningExists
<1>4. PICK g : Running(EntryCosts(rest), n - 1, g)
  <2>1. n - 1 \in Nat /\ EntryCosts(rest) \in [1..(n - 1) -> Int]
    BY <1>1, EntryCostsType
  <2> QED BY <2>1, RunningExists
<1>5. f[1] = first
  <2>1. 1 \in 1..n /\ EntryCosts(entries)[1] = first
    BY <1>1, EntryCostsType DEF first
  <2>2. f[1] = f[0] + EntryCosts(entries)[1] /\ f[0] = 0
    BY <1>3, <2>1 DEF Running
  <2> QED BY <1>2, <2>1, <2>2
<1>6. g[n - 1] = f[n] - first
  <2> DEFINE v == EntryCosts(entries)
             w == EntryCosts(rest)
             m == n - 1
  <2>1. ASSUME NEW i \in 1..m PROVE w[i] = v[i + 1]
    <3>1. i + 1 \in 1..n /\ i \in 1..Len(rest)
      BY <1>1
    <3>2. w[i] = rest[i].cost /\ v[i + 1] = entries[i + 1].cost
      BY <1>1, <3>1, EntryCostsType
    <3> QED BY <1>1, <3>2
  <2>2. m \in Nat /\ n \in Nat /\ n = m + 1 /\ v \in [1..n -> Int]
    BY <1>1, EntryCostsType
  <2>3. Running(v, n, f) /\ Running(w, m, g) /\ Following(v, w, 1, m)
    BY <1>3, <1>4, <2>1, <2>2 DEF Following
  <2> HIDE DEF v, w, m, n
  <2>4. g[m] = f[n] - f[1]
    BY <2>2, <2>3, RunningRest
  <2> QED BY <1>5, <2>4 DEF m
<1>7. Costs(entries) = f[n] /\ Costs(rest) = g[n - 1]
  BY <1>1, <1>3, <1>4, CostsRunning
<1>8. f[n] \in Nat /\ g[n - 1] \in Nat
  <2>1. n - 1 \in Nat /\ n \in 0..n /\ n - 1 \in 0..(n - 1)
    BY <1>1
  <2>2. \A i \in 0..n : f[i] \in Nat
    BY <1>3, EntryCostsType, RunningNat
  <2>3. \A i \in 0..(n - 1) : g[i] \in Nat
    BY <1>1, <1>4, <2>1, EntryCostsType, RunningNat
  <2> QED BY <2>1, <2>2, <2>3
<1>9. /\ Costs(entries) \in Nat /\ first <= Costs(entries)
      /\ Costs(rest) = Costs(entries) - first
  BY <1>2, <1>6, <1>7, <1>8
<1> QED BY <1>9 DEF rest, first

-----------------------------------------------------------------------------
(* What boundaries account for.                                            *)

ByteCounts(boundaries) == [i \in 1..Len(boundaries) |-> boundaries[i].bytes]

LEMMA ByteCountsType ==
    ASSUME NEW boundaries \in Seq(Boundary)
    PROVE  /\ Len(boundaries) \in Nat
           /\ ByteCounts(boundaries) \in [1..Len(boundaries) -> Int]
           /\ \A i \in 1..Len(boundaries) : ByteCounts(boundaries)[i] = boundaries[i].bytes
<1>1. Len(boundaries) \in Nat /\ \A i \in 1..Len(boundaries) : boundaries[i] \in Boundary
  OBVIOUS
<1>2. \A i \in 1..Len(boundaries) : boundaries[i].bytes \in Int
  BY <1>1 DEF Boundary
<1> QED BY <1>1, <1>2 DEF ByteCounts

LEMMA BytesRunning ==
    ASSUME NEW boundaries \in Seq(Boundary), NEW k \in 0..Len(boundaries), NEW f,
           Running(ByteCounts(boundaries), Len(boundaries), f)
    PROVE  BytesThrough(boundaries, k) = f[k] /\ f[k] \in Int
<1> DEFINE n == Len(boundaries)
           Sums(g) == g = [i \in 0..k |-> IF i = 0 THEN 0
                                          ELSE g[i - 1] + boundaries[i].bytes]
           h == [i \in 0..k |-> f[i]]
<1>1. /\ n \in Nat /\ k \in Nat /\ k <= n
      /\ \A i \in 1..n : ByteCounts(boundaries)[i] = boundaries[i].bytes
  BY ByteCountsType
<1>2. f \in [0..n -> Int] /\ f[0] = 0 /\ \A i \in 1..n : f[i] = f[i - 1] + boundaries[i].bytes
  BY <1>1 DEF Running
<1>3. Sums(h)
  BY <1>1, <1>2
<1>4. ASSUME NEW g, Sums(g) PROVE g[k] = f[k]
  <2> DEFINE S == {i \in Nat : i <= k => g[i] = f[i]}
  <2>1. 0 \in S
    BY <1>1, <1>2, <1>4
  <2>2. ASSUME NEW i \in S PROVE i + 1 \in S
    <3>1. ASSUME i + 1 <= k PROVE g[i + 1] = f[i + 1]
      <4>1. /\ i \in Nat /\ i + 1 \in 0..k /\ i + 1 \in 1..n /\ i + 1 # 0
            /\ (i + 1) - 1 = i /\ g[i] = f[i]
        BY <1>1, <3>1
      <4>2. g[i + 1] = g[i] + boundaries[i + 1].bytes
        BY <1>4, <4>1
      <4>3. f[i + 1] = f[i] + boundaries[i + 1].bytes
        BY <1>2, <4>1
      <4> QED BY <4>1, <4>2, <4>3
    <3> QED BY <3>1
  <2>3. S = Nat
    <3>1. S \in SUBSET Nat
      OBVIOUS
    <3> HIDE DEF S
    <3> QED BY <2>1, <2>2, <3>1, SetInduction
  <2> QED BY <1>1, <2>3
<1>5. BytesThrough(boundaries, k) = (CHOOSE g : Sums(g))[k]
  BY DEF BytesThrough
<1>6. Sums(CHOOSE g : Sums(g))
  <2> HIDE DEF Sums, h
  <2> QED BY <1>3
<1>7. f[k] \in Int
  BY <1>1, <1>2
<1> QED
  <2> HIDE DEF Sums
  <2> QED BY <1>4, <1>5, <1>6, <1>7

LEMMA BytesNone == BytesThrough(<<>>, Len(<<>>)) = 0
<1>1. <<>> \in Seq(Boundary) /\ Len(<<>>) = 0 /\ 0 \in 0..Len(<<>>)
  OBVIOUS
<1>2. PICK f : Running(ByteCounts(<<>>), 0, f)
  BY <1>1, ByteCountsType, RunningExists
<1>3. BytesThrough(<<>>, 0) = f[0]
  BY <1>1, <1>2, BytesRunning
<1> QED BY <1>1, <1>2, <1>3 DEF Running

LEMMA BytesAppend ==
    ASSUME NEW boundaries \in Seq(Boundary), NEW b \in Boundary
    PROVE  BytesThrough(Append(boundaries, b), Len(Append(boundaries, b)))
             = BytesThrough(boundaries, Len(boundaries)) + b.bytes
<1> DEFINE longer == Append(boundaries, b)
           n == Len(boundaries)
<1>1. /\ longer \in Seq(Boundary) /\ Len(longer) = n + 1 /\ n \in Nat
      /\ \A i \in 1..n : longer[i] = boundaries[i]
      /\ longer[n + 1] = b
  OBVIOUS
<1> HIDE DEF longer
<1>2. PICK f : Running(ByteCounts(boundaries), n, f)
  BY ByteCountsType, RunningExists
<1>3. PICK g : Running(ByteCounts(longer), n + 1, g)
  <2>1. n + 1 \in Nat /\ ByteCounts(longer) \in [1..(n + 1) -> Int]
    BY <1>1, ByteCountsType
  <2> QED BY <2>1, RunningExists
<1>4. f[n] = g[n]
  <2>1. \A i \in 1..n : ByteCounts(boundaries)[i] = ByteCounts(longer)[i]
    BY <1>1, ByteCountsType
  <2> QED BY <1>1, <1>2, <1>3, <2>1, RunningUnique
<1>5. g[n + 1] = g[n] + b.bytes
  <2>1. n + 1 \in 1..(n + 1) /\ (n + 1) - 1 = n /\ ByteCounts(longer)[n + 1] = b.bytes
    BY <1>1, ByteCountsType
  <2> QED BY <1>3, <2>1 DEF Running
<1>6. BytesThrough(boundaries, n) = f[n] /\ BytesThrough(longer, n + 1) = g[n + 1]
  <2>1. n \in 0..n /\ n + 1 \in 0..Len(longer)
    BY <1>1
  <2> QED BY <1>1, <1>2, <1>3, <2>1, BytesRunning
<1>7. BytesThrough(longer, Len(longer)) = BytesThrough(boundaries, n) + b.bytes
  BY <1>1, <1>4, <1>5, <1>6
<1> QED BY <1>7 DEF longer

\* The boundaries after the i-th account for the rest.
LEMMA BytesRest ==
    ASSUME NEW boundaries \in Seq(Boundary), NEW i \in 1..Len(boundaries),
           NEW rest, rest = SubSeq(boundaries, i + 1, Len(boundaries))
    PROVE  BytesThrough(rest, Len(rest))
             = BytesThrough(boundaries, Len(boundaries)) - BytesThrough(boundaries, i)
<1> DEFINE n == Len(boundaries)
<1>1. /\ n \in Nat /\ i \in 0..n /\ rest \in Seq(Boundary) /\ Len(rest) = n - i
      /\ \A j \in 1..(n - i) : rest[j] = boundaries[j + i]
  OBVIOUS
<1>2. PICK f : Running(ByteCounts(boundaries), n, f)
  BY ByteCountsType, RunningExists
<1>3. PICK g : Running(ByteCounts(rest), n - i, g)
  <2>1. n - i \in Nat /\ ByteCounts(rest) \in [1..(n - i) -> Int]
    BY <1>1, ByteCountsType
  <2> QED BY <2>1, RunningExists
<1>4. g[n - i] = f[n] - f[i]
  <2> DEFINE v == ByteCounts(boundaries)
             w == ByteCounts(rest)
             m == n - i
  <2>1. ASSUME NEW j \in 1..m PROVE w[j] = v[j + i]
    <3>1. j + i \in 1..n /\ j \in 1..Len(rest)
      BY <1>1
    <3>2. w[j] = rest[j].bytes /\ v[j + i] = boundaries[j + i].bytes
      BY <1>1, <3>1, ByteCountsType
    <3> QED BY <1>1, <3>2
  <2>2. m \in Nat /\ i \in Nat /\ n \in Nat /\ n = m + i /\ v \in [1..n -> Int]
    BY <1>1, ByteCountsType
  <2>3. Running(v, n, f) /\ Running(w, m, g) /\ Following(v, w, i, m)
    BY <1>2, <1>3, <2>1, <2>2 DEF Following
  <2> HIDE DEF v, w, m, n
  <2>4. g[m] = f[n] - f[i]
    BY <2>2, <2>3, RunningRest
  <2> QED BY <2>4 DEF m
<1>5. /\ BytesThrough(boundaries, n) = f[n] /\ BytesThrough(boundaries, i) = f[i]
      /\ BytesThrough(rest, n - i) = g[n - i]
  <2>1. n \in 0..n /\ n - i \in 0..Len(rest)
    BY <1>1
  <2> QED BY <1>1, <1>2, <1>3, <2>1, BytesRunning
<1> QED BY <1>1, <1>4, <1>5

-----------------------------------------------------------------------------
(* Positions that are joined.                                              *)

LEMMA JoinedNone ==
    ASSUME NEW from, NEW to
    PROVE  Joined(from, <<>>, to) <=> to = from
BY DEF Joined

LEMMA JoinedAppend ==
    ASSUME NEW S, NEW items \in Seq(S), NEW from, NEW to, NEW e \in S,
           Joined(from, items, to), e.before = to
    PROVE  Joined(from, Append(items, e), e.after)
<1> DEFINE longer == Append(items, e)
           n == Len(items)
<1>1. /\ longer \in Seq(S) /\ Len(longer) = n + 1 /\ n \in Nat
      /\ \A i \in 1..n : longer[i] = items[i]
      /\ longer[n + 1] = e /\ longer # <<>>
      /\ items = <<>> <=> n = 0
  OBVIOUS
<1> HIDE DEF longer, n
<1>2. /\ \A i \in 1..n : items[i].before = IF i = 1 THEN from ELSE items[i - 1].after
      /\ to = IF n = 0 THEN from ELSE items[n].after
  BY <1>1 DEF Joined, n
<1>3. ASSUME NEW i \in 1..(n + 1)
      PROVE  longer[i].before = IF i = 1 THEN from ELSE longer[i - 1].after
  <2>1. CASE i = n + 1
    <3>1. CASE n = 0
      BY <1>1, <1>2, <2>1, <3>1
    <3>2. CASE n # 0
      <4>1. i # 1 /\ i - 1 = n /\ n \in 1..n
        BY <1>1, <2>1, <3>2
      <4>2. longer[i].before = to /\ longer[i - 1] = items[n]
        BY <1>1, <2>1, <4>1
      <4> QED BY <1>2, <3>2, <4>1, <4>2
    <3> QED BY <3>1, <3>2
  <2>2. CASE i # n + 1
    <3>1. i \in 1..n /\ (i # 1 => i - 1 \in 1..n)
      BY <1>1, <2>2
    <3>2. longer[i] = items[i] /\ (i # 1 => longer[i - 1] = items[i - 1])
      BY <1>1, <3>1
    <3> QED BY <1>2, <3>1, <3>2
  <2> QED BY <2>1, <2>2
<1>4. Joined(from, longer, e.after)
  BY <1>1, <1>3 DEF Joined
<1> QED BY <1>4 DEF longer

LEMMA JoinedTail ==
    ASSUME NEW S, NEW items \in Seq(S), items # <<>>, NEW from, NEW to,
           Joined(from, items, to)
    PROVE  /\ Head(items).before = from
           /\ Joined(Head(items).after, Tail(items), to)
<1> DEFINE rest == Tail(items)
           n == Len(items)
<1>1. /\ n \in Nat /\ n # 0 /\ rest \in Seq(S) /\ Len(rest) = n - 1
      /\ \A i \in 1..(n - 1) : rest[i] = items[i + 1]
      /\ Head(items) = items[1]
      /\ rest = <<>> <=> n = 1
  <2>1. n \in Nat \ {0} /\ Head(items) = items[1]
    BY EmptySeq
  <2>2. /\ rest \in Seq(S) /\ Len(rest) = n - 1
        /\ \A i \in 1..(n - 1) : rest[i] = items[i + 1]
    BY HeadTailProperties
  <2> HIDE DEF rest, n
  <2>3. rest = <<>> <=> Len(rest) = 0
    BY <2>2, EmptySeq
  <2> QED BY <2>1, <2>2, <2>3
<1> HIDE DEF rest, n
<1>2. /\ \A i \in 1..n : items[i].before = IF i = 1 THEN from ELSE items[i - 1].after
      /\ to = items[n].after
  BY <1>1 DEF Joined, n
<1>3. items[1].before = from
  BY <1>1, <1>2
<1>4. ASSUME NEW i \in 1..(n - 1)
      PROVE  rest[i].before = IF i = 1 THEN items[1].after ELSE rest[i - 1].after
  <2>1. i + 1 \in 1..n /\ (i + 1) - 1 = i /\ i + 1 # 1 /\ rest[i] = items[i + 1]
    BY <1>1
  <2>2. rest[i].before = items[i].after
    BY <1>2, <2>1
  <2>3. i # 1 => rest[i - 1] = items[i]
    <3>1. i # 1 => i - 1 \in 1..(n - 1) /\ (i - 1) + 1 = i
      BY <1>1
    <3> QED BY <1>1, <3>1
  <2> QED BY <2>2, <2>3
<1>5. to = IF rest = <<>> THEN items[1].after ELSE rest[Len(rest)].after
  <2>1. n # 1 => n - 1 \in 1..(n - 1) /\ (n - 1) + 1 = n
    BY <1>1
  <2> QED BY <1>1, <1>2, <2>1
<1>6. Joined(items[1].after, rest, to)
  BY <1>1, <1>4, <1>5 DEF Joined
<1> QED BY <1>1, <1>3, <1>6 DEF rest

-----------------------------------------------------------------------------
(* The buffer's accounts.                                                  *)

\* Every variable of the stream's state has its type.
LEMMA TypeParts ==
    ASSUME TypeInv
    PROVE  /\ AgentType /\ ReaderType /\ CursorType /\ BufferType /\ TurnType /\ LifeType
           /\ WakeType /\ WriterType /\ LoopType /\ WireType /\ ClientType /\ ChunkOpen
BY DEF TypeInv, TypeOK

LEMMA NoticeEntry ==
    ASSUME BufferType, lastSent \in Position
    PROVE  /\ OverloadNotice \in Entry /\ OverloadNotice.kind = "overload"
           /\ OverloadNotice.before = lastSent /\ OverloadNotice.after = lastSent
           /\ OverloadNotice.cost = TextCost /\ OverloadNotice.seq = nextSequence + 1
           /\ OverloadNotice.burstStart = FALSE /\ OverloadNotice.burstFinish = FALSE
<1> DEFINE t == Text("overload", lastSent, lastSent, FALSE, FALSE)
           n == nextSequence + 1
<1>1. t \in Entry
  BY TextType DEF TextKinds
<1>2. /\ t.kind = "overload" /\ t.before = lastSent /\ t.after = lastSent
      /\ t.cost = TextCost /\ t.burstStart = FALSE /\ t.burstFinish = FALSE
  BY DEF Text
<1>3. n \in Nat
  BY DEF BufferType
<1>4. OverloadNotice = [t EXCEPT !.seq = n]
  BY DEF OverloadNotice
<1> HIDE DEF t, n
<1>5. /\ OverloadNotice \in Entry
      /\ OverloadNotice.kind = t.kind /\ OverloadNotice.before = t.before
      /\ OverloadNotice.after = t.after /\ OverloadNotice.cost = t.cost
      /\ OverloadNotice.burstStart = t.burstStart
      /\ OverloadNotice.burstFinish = t.burstFinish /\ OverloadNotice.seq = n
  BY <1>1, <1>3, <1>4 DEF Entry
<1> QED BY <1>2, <1>5 DEF n

\* What queueing does to the entries: it drops the new one, puts it last, or
\* replaces all of them by the notice.
LEMMA Queueing ==
    ASSUME BufferType, NEW entry \in Entry, NEW who, Enqueue(entry, who)
    PROVE  \/ ~Accepting /\ Drop
           \/ Accepting /\ Overload(who)
           \/ /\ Accepting
              /\ [entry EXCEPT !.seq = nextSequence + 1] \in Entry
              /\ nextSequence' = nextSequence + 1
              /\ buffer' = Append(buffer, [entry EXCEPT !.seq = nextSequence + 1])
              /\ bufferBytes' = bufferBytes + entry.cost
              /\ signals' = signals \cup {who}
              /\ UNCHANGED <<overloaded, turnVars, stopPending>>
<1>1. nextSequence + 1 \in Nat
  BY DEF BufferType
<1>2. [entry EXCEPT !.seq = nextSequence + 1] \in Entry
  BY <1>1, SequencedType
<1> QED BY <1>2 DEF Enqueue

LEMMA OverloadCounted ==
    ASSUME BufferType, lastSent \in Position, Counted, NEW who, Overload(who)
    PROVE  Counted'
<1>1. CASE Drop
  BY <1>1 DEF Drop, dataVars, bufferVars, Counted
<1>2. CASE Accepting
  <2>1. /\ nextSequence' = nextSequence + 1 /\ buffer' = <<OverloadNotice>>
        /\ bufferBytes' = TextCost
    BY <1>2 DEF Overload, CountAfterOverload
  <2>2. /\ OverloadNotice \in Entry /\ OverloadNotice.cost = TextCost
        /\ OverloadNotice.seq = nextSequence + 1
    BY NoticeEntry
  <2>3. Costs(buffer') = TextCost
    <3>1. buffer' = Append(<<>>, OverloadNotice) /\ <<>> \in Seq(Entry)
      BY <2>1, <2>2
    <3>2. Costs(buffer') = Costs(<<>>) + OverloadNotice.cost
      BY <2>2, <3>1, CostsAppend
    <3>3. TextCost \in Nat
      BY ConstantsType
    <3> QED BY <2>2, <3>2, <3>3, CostsNone
  <2>4. nextSequence \in Nat /\ Len(buffer') = 1 /\ buffer'[1] = OverloadNotice
    BY <2>1 DEF BufferType
  <2> QED BY <2>1, <2>2, <2>3, <2>4 DEF Counted
<1> QED BY <1>1, <1>2 DEF Overload

LEMMA EnqueueCounted ==
    ASSUME BufferType, lastSent \in Position, Counted, NEW who,
           NEW entry \in Entry, Enqueue(entry, who)
    PROVE  Counted'
<1>1. CASE Drop
  BY <1>1 DEF Drop, dataVars, bufferVars, Counted
<1>2. CASE Overload(who)
  BY <1>2, OverloadCounted
<1> DEFINE e == [entry EXCEPT !.seq = nextSequence + 1]
<1>3. CASE /\ e \in Entry /\ nextSequence' = nextSequence + 1
           /\ buffer' = Append(buffer, e) /\ bufferBytes' = bufferBytes + entry.cost
  <2>1. e.cost = entry.cost /\ e.seq = nextSequence + 1 /\ entry.cost \in Nat
    BY DEF Entry
  <2> HIDE DEF e
  <2>2. buffer \in Seq(Entry) /\ nextSequence \in Nat
    BY DEF BufferType
  <2>3. bufferBytes' = Costs(buffer')
    BY <1>3, <2>1, <2>2, CostsAppend DEF Counted
  <2>4. /\ Len(buffer') = Len(buffer) + 1 /\ Len(buffer) \in Nat
        /\ \A i \in 1..Len(buffer) : buffer'[i] = buffer[i]
        /\ buffer'[Len(buffer) + 1] = e
    BY <1>3, <2>2
  <2>5. ASSUME NEW i \in 1..Len(buffer')
        PROVE  buffer'[i].seq = nextSequence' - Len(buffer') + i
    <3>1. CASE i = Len(buffer) + 1
      BY <1>3, <2>1, <2>2, <2>4, <3>1
    <3>2. CASE i # Len(buffer) + 1
      <4>1. i \in 1..Len(buffer)
        BY <2>4, <3>2
      <4>2. buffer[i].seq = nextSequence - Len(buffer) + i
        BY <4>1 DEF Counted
      <4> QED BY <1>3, <2>2, <2>4, <4>1, <4>2
    <3> QED BY <3>1, <3>2
  <2> QED BY <2>3, <2>5 DEF Counted
<1> QED
  <2> HIDE DEF e
  <2> QED BY <1>1, <1>2, <1>3, Queueing DEF e

LEMMA InitCounted == Init => Counted
<1> SUFFICES ASSUME Init PROVE Counted
  OBVIOUS
<1> DEFINE t == Text("text", Origin, Origin, FALSE, FALSE)
           first == [t EXCEPT !.seq = 1]
           second == [t EXCEPT !.seq = 2]
<1>1. t \in Entry /\ t.cost = TextCost
  BY OriginType, TextType DEF TextKinds, Text
<1>2. /\ buffer = [i \in 1..2 |-> [t EXCEPT !.seq = i]]
      /\ bufferBytes = 2 * TextCost /\ nextSequence = 2
  BY DEF Init
<1> HIDE DEF t
<1>3. /\ first \in Entry /\ first.cost = TextCost /\ first.seq = 1
      /\ second \in Entry /\ second.cost = TextCost /\ second.seq = 2
  BY <1>1 DEF Entry
<1>4. buffer = <<first, second>>
  BY <1>2
<1> HIDE DEF first, second
<1>5. buffer = Append(Append(<<>>, first), second) /\ Append(<<>>, first) \in Seq(Entry)
  BY <1>3, <1>4
<1>6. TextCost \in Nat
  BY ConstantsType
<1>7. Costs(buffer) = Costs(<<>>) + TextCost + TextCost
  <2>1. <<>> \in Seq(Entry)
    OBVIOUS
  <2>2. Costs(Append(<<>>, first)) = Costs(<<>>) + TextCost
    BY <1>3, <2>1, CostsAppend
  <2> QED BY <1>3, <1>5, <2>2, CostsAppend
<1>8. Costs(buffer) = bufferBytes
  BY <1>2, <1>6, <1>7, CostsNone
<1>9. \A i \in 1..Len(buffer) : buffer[i].seq = nextSequence - Len(buffer) + i
  <2>1. Len(buffer) = 2 /\ buffer[1].seq = 1 /\ buffer[2].seq = 2
    BY <1>3, <1>4
  <2> QED BY <1>2, <2>1
<1> QED BY <1>8, <1>9 DEF Counted

-----------------------------------------------------------------------------
(* What the reader and a ping queue.                                       *)

\* Nothing, the notice, or an entry that leads to where the next will stand.
QueueStep(who) ==
    \/ Drop /\ Enqueued' = Enqueued
    \/ Overload(who)
    \/ \E entry \in Entry : /\ Enqueue(entry, who)
                            /\ EntryShape(entry)
                            /\ entry.before = Enqueued /\ entry.after = Enqueued'

LEMMA PlainShape ==
    ASSUME TypeInv, NEW kind \in TextKinds \ {"replay-start"}
    PROVE  /\ Plain(kind) \in Entry /\ EntryShape(Plain(kind))
           /\ Plain(kind).before = Enqueued /\ Plain(kind).after = Enqueued
<1>1. Plain(kind) \in Entry
  BY TypeParts, PlainType
<1>2. /\ Plain(kind).kind = kind /\ Plain(kind).before = Enqueued
      /\ Plain(kind).after = Enqueued /\ Plain(kind).burstStart = FALSE
  BY DEF Plain, Text
<1>3. kind # "binary"
  BY DEF TextKinds
<1> QED BY <1>1, <1>2, <1>3 DEF EntryShape

LEMMA PlainQueued ==
    ASSUME TypeInv, NEW kind \in TextKinds \ {"replay-start"}, NEW who,
           Enqueue(Plain(kind), who) \/ Drop, Enqueued' = Enqueued
    PROVE  QueueStep(who)
BY PlainShape DEF QueueStep

LEMMA FrameKept ==
    ASSUME FrameOrder, UNCHANGED <<chunk, agentPhase, cursor, binarySequence>>,
           readerPc' \in {readerPc, "poll", "read", "return", "done"}
    PROVE  FrameOrder'
BY DEF FrameOrder

LEMMA ReaderQueues ==
    ASSUME TypeInv, FrameOrder, Reader
    PROVE  /\ QueueStep("reader") /\ FrameOrder'
           /\ UNCHANGED <<registered, active, cancelled, wake, writerVars, loopVars,
                          socketVars>>
<1>0. /\ UNCHANGED <<registered, active, cancelled, wake, writerVars, loopVars,
                     socketVars>>
  <2>1. CASE ReaderPoll
    BY <2>1 DEF ReaderPoll, lifeVars, wakeVars
  <2>2. CASE ReaderReturn
    BY <2>2 DEF ReaderReturn, wakeVars
  <2>3. CASE ReaderRest
    BY <2>3 DEF ReaderRest
  <2> QED BY <2>1, <2>2, <2>3 DEF Reader, ReadPlain, ReadReplayStart, ReadReplayComplete,
             ReadBinary, EnqueueChunk, ReadTerminalControl, ReadEnd
<1>t. ReaderType /\ CursorType /\ AgentType /\ ChunkOpen
  BY TypeParts
<1>1. CASE ReaderPoll
  <2>1. Drop /\ Enqueued' = Enqueued
    BY <1>1 DEF ReaderPoll, Drop, Enqueued, cursorVars, lifeVars, wakeVars
  <2> QED BY <1>0, <1>1, <2>1, FrameKept DEF ReaderPoll, agentVars, cursorVars, QueueStep
<1>2. CASE ReadPlain
  <2>1. Enqueued' = Enqueued
    BY <1>2 DEF ReadPlain, Enqueued, cursorVars
  <2>2. QueueStep("reader")
    BY <1>2, <2>1, PlainQueued DEF ReadPlain, TextKinds
  <2> QED BY <1>0, <1>2, <2>2, FrameKept DEF ReadPlain, cursorVars
<1>3. CASE \E to \in 0..MaxOutput, snapshot \in BOOLEAN : ReadReplayStart(to, snapshot)
  <2>1. PICK to \in 0..MaxOutput, snapshot \in BOOLEAN : ReadReplayStart(to, snapshot)
    BY <1>3
  <2> DEFINE after == [cursor |-> agentCursor, seq |-> binarySequence]
             entry == Text("replay-start", Enqueued, after,
                           BurstAdmitted(agentCursor, to, snapshot), FALSE)
  <2>2. entry \in Entry
    <3>1. after \in Position
      BY <1>t DEF AgentType, CursorType, Position
    <3>2. BurstAdmitted(agentCursor, to, snapshot) \in BOOLEAN
      BY DEF BurstAdmitted
    <3> QED BY <1>t, <3>1, <3>2, EnqueuedType, TextType DEF TextKinds
  <2>3. Enqueued.seq = 0 /\ after.seq = 0
    BY <2>1 DEF ReadReplayStart, FrameOrder, Enqueued
  <2>4. /\ entry.kind = "replay-start" /\ entry.before = Enqueued /\ entry.after = after
    BY DEF Text
  <2>5. Enqueue(entry, "reader")
    BY <2>1 DEF ReadReplayStart
  <2>6. Enqueued' = after
    BY <2>1 DEF ReadReplayStart, Enqueued
  <2>7. EntryShape(entry)
    <3> HIDE DEF entry, after
    <3> QED BY <2>3, <2>4 DEF EntryShape
  <2>8. FrameOrder'
    BY <2>1 DEF ReadReplayStart, FrameOrder
  <2> HIDE DEF entry, after
  <2> QED BY <1>0, <2>2, <2>4, <2>5, <2>6, <2>7, <2>8 DEF QueueStep
<1>4. CASE ReadReplayComplete
  <2>1. Enqueued' = Enqueued
    BY <1>4 DEF ReadReplayComplete, Enqueued, cursorVars
  <2>2. Enqueue(Plain("replay-complete"), "reader") \/ Overload("reader")
    BY <1>4 DEF ReadReplayComplete
  <2>3. QueueStep("reader")
    <3>1. "replay-complete" \in TextKinds \ {"replay-start"}
      BY DEF TextKinds
    <3>2. CASE Enqueue(Plain("replay-complete"), "reader")
      BY <2>1, <3>1, <3>2, PlainQueued
    <3> QED BY <2>2, <3>2 DEF QueueStep
  <2>4. FrameOrder'
    BY <1>4 DEF ReadReplayComplete, FrameOrder, cursorVars
  <2> QED BY <1>0, <2>3, <2>4
<1>5. CASE \E length \in 1..FrameBytes : ReadBinary(length)
  <2>1. PICK length \in 1..FrameBytes : ReadBinary(length)
    BY <1>5
  <2>2. FrameOrder'
    BY <2>1 DEF ReadBinary, FrameOrder
  <2>3. CASE Overload("reader")
    BY <1>0, <2>2, <2>3 DEF QueueStep
  <2>4. CASE Drop /\ chunk' = [from |-> cursor, to |-> cursor + length]
             /\ readerPc' = "chunk"
    <3>1. Enqueued' = Enqueued
      BY <2>1, <2>4 DEF ReadBinary, Enqueued
    <3> QED BY <1>0, <2>2, <2>4, <3>1 DEF QueueStep
  <2> QED BY <2>1, <2>3, <2>4 DEF ReadBinary, Drop
<1>6. CASE EnqueueChunk
  <2> DEFINE after == [cursor |-> chunk.from + ChunkLength, seq |-> binarySequence + 1]
             entry == [kind |-> "binary", before |-> Enqueued, after |-> after,
                       seq |-> 0, cost |-> ChunkLength, burstStart |-> FALSE,
                       burstFinish |-> FALSE]
  <2>1. ChunkLength \in Nat /\ chunk.from + ChunkLength \in Nat
    BY <1>6, <1>t, ConstantsType DEF EnqueueChunk, ChunkLength, ReaderType, ChunkOpen
  <2>2. Enqueued \in Position /\ after \in Position
    BY <1>t, <2>1, EnqueuedType DEF CursorType, Position
  <2>3. /\ entry \in Entry /\ entry.kind = "binary" /\ entry.before = Enqueued
        /\ entry.after = after /\ entry.burstStart = FALSE
    BY <2>1, <2>2 DEF Entry
  <2>4. Enqueued.seq = binarySequence /\ after.seq = binarySequence + 1
    BY DEF Enqueued
  <2>5. Enqueue(entry, "reader")
    BY <1>6 DEF EnqueueChunk
  <2>6. /\ chunk'.from = chunk.from + ChunkLength /\ chunk'.to = chunk.to
        /\ readerPc' = IF chunk'.from = chunk.to THEN "poll" ELSE "chunk"
        /\ binarySequence' = binarySequence + 1 /\ cursor' = cursor
        /\ agentPhase' = agentPhase /\ readerPc = "chunk"
    BY <1>6, <1>t DEF EnqueueChunk, ReaderType, agentVars
  <2>7. Enqueued' = after
    BY <2>6 DEF Enqueued, FrameOrder
  <2>8. EntryShape(entry)
    <3> HIDE DEF entry, after
    <3> QED BY <2>3, <2>4 DEF EntryShape
  <2>9. FrameOrder'
    BY <2>6 DEF FrameOrder
  <2> HIDE DEF entry, after
  <2> QED BY <1>0, <2>3, <2>5, <2>7, <2>8, <2>9 DEF QueueStep
<1>7. CASE ReadTerminalControl
  <2>1. Enqueued' = Enqueued /\ FrameOrder'
    BY <1>7 DEF ReadTerminalControl, Enqueued, FrameOrder
  <2>2. QueueStep("reader")
    BY <1>7, <2>1, PlainQueued DEF ReadTerminalControl, TextKinds
  <2> QED BY <1>0, <2>1, <2>2
<1>8. CASE ReadEnd
  <2>1. Enqueued' = Enqueued
    BY <1>8 DEF ReadEnd, Enqueued
  <2>2. PICK kind \in {"terminal", "error"} : Enqueue(Plain(kind), "reader") \/ Drop
    BY <1>8 DEF ReadEnd
  <2>3. QueueStep("reader")
    <3>1. kind \in TextKinds \ {"replay-start"}
      BY DEF TextKinds
    <3> QED BY <2>1, <2>2, <3>1, PlainQueued
  <2> QED BY <1>0, <1>8, <2>3, FrameKept DEF ReadEnd, agentVars
<1>9. CASE ReaderReturn
  <2>1. Drop /\ Enqueued' = Enqueued
    BY <1>9 DEF ReaderReturn, Drop, Enqueued, cursorVars, wakeVars
  <2> QED BY <1>0, <1>9, <2>1, FrameKept DEF ReaderReturn, agentVars, cursorVars, QueueStep
<1> QED
  BY <1>1, <1>2, <1>3, <1>4, <1>5, <1>6, <1>7, <1>8, <1>9 DEF Reader

LEMMA PingQueues ==
    ASSUME TypeInv, LoopPing
    PROVE  /\ QueueStep("loop")
           /\ UNCHANGED <<registered, active, cancelled, wake, writerVars, socketVars,
                          agentVars, readerVars, cursorVars>>
           /\ UNCHANGED loopPc
<1>1. Enqueue(Plain("text"), "loop") /\ LoopRest
      /\ UNCHANGED <<readerPc, registered, active, stopped, cancelled, loopPc, socketVars>>
  BY DEF LoopPing
<1>2. Enqueued' = Enqueued
  BY <1>1 DEF LoopRest, Enqueued, cursorVars
<1>3. QueueStep("loop")
  BY <1>1, <1>2, PlainQueued DEF TextKinds
<1> QED BY <1>1, <1>3 DEF LoopRest, readerVars

LEMMA NextFrames ==
    ASSUME TypeInv, FrameOrder, [Next]_vars
    PROVE  FrameOrder'
<1>1. CASE Writer
  <2>1. WriterRest
    BY <1>1 DEF Writer, WriterWake, WriterStops, WriterScan, WriterSend, WriterFinishTurn,
        WriterRoundEnd
  <2> QED BY <2>1, FrameKept DEF WriterRest, readerVars, agentVars, cursorVars
<1>2. CASE Loop
  <2>1. LoopRest /\ readerPc' \in {readerPc, "poll"}
    BY <1>2 DEF Loop, LoopRegister, LoopRun, LoopAck, LoopPing, LoopRemove, LoopClose,
        LoopDeactivate, LoopStop
  <2> QED BY <2>1, FrameKept DEF LoopRest, agentVars, cursorVars
<1>3. CASE Client
  <2>1. ClientRest
    BY <1>3 DEF Client, ClientReceive, ClientApply, ClientAck, ClientLeave
  <2> QED BY <2>1, FrameKept DEF ClientRest, readerVars, agentVars, cursorVars
<1>4. CASE StopRuns \/ (\E who \in {"reader", "loop"} : Signal(who)) \/ UNCHANGED vars
  BY <1>4, FrameKept DEF StopRuns, Signal, vars, readerVars, agentVars, cursorVars
<1> QED BY <1>1, <1>2, <1>3, <1>4, ReaderQueues DEF Next

LEMMA OtherBuffers ==
    ASSUME [Next]_vars, ~Reader, ~LoopPing, ~WriterSend, ~LoopDeactivate
    PROVE  UNCHANGED bufferVars
<1>1. CASE UNCHANGED vars
  BY <1>1 DEF vars, dataVars
<1>2. CASE StopRuns \/ \E who \in {"reader", "loop"} : Signal(who)
  BY <1>2 DEF StopRuns, Signal, dataVars
<1>3. CASE Writer
  BY <1>3 DEF Writer, WriterWake, WriterStops, WriterScan, WriterFinishTurn,
      WriterRoundEnd, dataVars
<1>4. CASE Loop
  BY <1>4 DEF Loop, LoopRegister, LoopRun, LoopAck, LoopRemove, LoopClose, LoopStop,
      dataVars
<1>5. CASE Client
  <2>1. ClientRest
    BY <1>5 DEF Client, ClientReceive, ClientApply, ClientAck, ClientLeave
  <2> QED BY <2>1 DEF ClientRest, dataVars
<1> QED BY <1>1, <1>2, <1>3, <1>4, <1>5 DEF Next

LEMMA SendFacts ==
    ASSUME TypeInv, WriterSend
    PROVE  /\ buffer \in Seq(Entry) /\ buffer # <<>> /\ buffer' = Tail(buffer)
           /\ Head(buffer) \in Entry /\ Tail(buffer) \in Seq(Entry)
           /\ Head(buffer) = buffer[1] /\ 1 \in 1..Len(buffer)
           /\ Len(buffer) \in Nat /\ Len(Tail(buffer)) = Len(buffer) - 1
           /\ \A i \in 1..(Len(buffer) - 1) : i + 1 \in 1..Len(buffer)
                                              /\ Tail(buffer)[i] = buffer[i + 1]
           /\ Head(buffer).cost \in Nat
<1>1. buffer \in Seq(Entry) /\ buffer # <<>> /\ buffer' = Tail(buffer)
  BY TypeParts DEF BufferType, WriterSend, CanPop
<1>2. Head(buffer) \in Entry /\ Tail(buffer) \in Seq(Entry)
  BY <1>1
<1>3. /\ Head(buffer) = buffer[1] /\ Len(buffer) \in Nat \ {0}
      /\ Len(Tail(buffer)) = Len(buffer) - 1
      /\ \A i \in 1..(Len(buffer) - 1) : Tail(buffer)[i] = buffer[i + 1]
  BY <1>1, EmptySeq, HeadTailProperties
<1>4. Head(buffer).cost \in Nat
  BY <1>2 DEF Entry
<1> QED BY <1>1, <1>2, <1>3, <1>4

LEMMA NextCounted ==
    ASSUME TypeInv, FrameOrder, Counted, [Next]_vars
    PROVE  Counted'
<1>0. BufferType /\ lastSent \in Position
  BY TypeParts DEF WriterType
<1>1. ASSUME NEW who, QueueStep(who) PROVE Counted'
  BY <1>0, <1>1, EnqueueCounted, OverloadCounted DEF QueueStep, Drop, dataVars, bufferVars,
      Counted
<1>2. CASE WriterSend
  <2>1. /\ bufferBytes' = IF Head(buffer).cost > bufferBytes THEN 0
                          ELSE bufferBytes - Head(buffer).cost
        /\ nextSequence' = nextSequence
    BY <1>2 DEF WriterSend
  <2>2. /\ Costs(buffer) \in Nat /\ Head(buffer).cost <= Costs(buffer)
        /\ Costs(Tail(buffer)) = Costs(buffer) - Head(buffer).cost
    BY <1>2, SendFacts, CostsTail
  <2>3. bufferBytes' = Costs(buffer')
    <3>1. Head(buffer).cost \in Nat /\ bufferBytes = Costs(buffer)
      BY <1>2, SendFacts DEF Counted
    <3>2. bufferBytes' = Costs(Tail(buffer))
      BY <2>1, <2>2, <3>1
    <3> QED BY <1>2, <3>2, SendFacts
  <2>4. ASSUME NEW i \in 1..Len(buffer')
        PROVE  buffer'[i].seq = nextSequence' - Len(buffer') + i
    <3>1. /\ i \in 1..(Len(buffer) - 1) /\ buffer'[i] = buffer[i + 1] /\ i + 1 \in 1..Len(buffer)
          /\ Len(buffer') = Len(buffer) - 1 /\ Len(buffer) \in Nat
      BY <1>2, SendFacts
    <3>2. buffer[i + 1].seq = nextSequence - Len(buffer) + (i + 1)
      BY <3>1 DEF Counted
    <3>3. nextSequence \in Nat
      BY <1>0 DEF BufferType
    <3> QED BY <2>1, <3>1, <3>2, <3>3
  <2> QED BY <2>3, <2>4 DEF Counted
<1>3. CASE LoopDeactivate
  <2>1. buffer' = <<>> /\ bufferBytes' = 0
    BY <1>3 DEF LoopDeactivate
  <2> QED BY <2>1, CostsNone DEF Counted
<1>4. CASE ~Reader /\ ~LoopPing /\ ~WriterSend /\ ~LoopDeactivate
  BY <1>4, OtherBuffers DEF bufferVars, Counted
<1> QED BY <1>1, <1>2, <1>3, <1>4, ReaderQueues, PingQueues

\* The byte count of the buffer is that of its entries, whose numbers are
\* consecutive (queue_stream.go:283-347): popThrough's clamp at zero is never
\* needed, and the limit and the high water mark mean what they say.
THEOREM BufferCounted == Spec => []BufferAccounting
<1>1. Init => TypeInv /\ FrameOrder /\ Counted
  <2>1. Init => FrameOrder
    BY DEF Init, FrameOrder
  <2> QED BY <2>1, InitType, InitCounted
<1>2. TypeInv /\ FrameOrder /\ Counted /\ [Next]_vars => (TypeInv /\ FrameOrder /\ Counted)'
  BY NextType, NextCounted, NextFrames
<1>3. Counted => BufferAccounting
  BY DEF Counted, BufferAccounting, Costs
<1> QED BY <1>1, <1>2, <1>3, PTL DEF Spec

-----------------------------------------------------------------------------
(* Positions.                                                              *)

LEMMA NextUnstarted ==
    ASSUME Unstarted, [Next]_vars
    PROVE  Unstarted'
<1>1. CASE Reader
  <2>1. readerPc # "none" /\ (UNCHANGED loopVars \/ ReaderRest)
    BY <1>1 DEF Reader, ReaderPoll, ReadPlain, ReadReplayStart, ReadReplayComplete,
        ReadBinary, EnqueueChunk, ReadTerminalControl, ReadEnd, ReaderReturn
  <2>2. loopPc' = loopPc
    BY <2>1 DEF ReaderRest, loopVars
  <2> QED BY <2>1, <2>2 DEF Unstarted
<1>2. CASE Writer
  <2>1. WriterRest
    BY <1>2 DEF Writer, WriterWake, WriterStops, WriterScan, WriterSend, WriterFinishTurn,
        WriterRoundEnd
  <2> QED BY <2>1 DEF WriterRest, readerVars, loopVars, Unstarted
<1>3. CASE LoopRegister \/ LoopRun
  BY <1>3 DEF LoopRegister, LoopRun, Unstarted
<1>4. CASE LoopAck \/ LoopPing \/ LoopRemove \/ LoopClose \/ LoopDeactivate \/ LoopStop
  BY <1>4 DEF LoopAck, LoopPing, LoopRemove, LoopClose, LoopDeactivate, LoopStop, loopVars,
      Unstarted
<1>5. CASE Client
  <2>1. ClientRest
    BY <1>5 DEF Client, ClientReceive, ClientApply, ClientAck, ClientLeave
  <2> QED BY <2>1 DEF ClientRest, readerVars, loopVars, Unstarted
<1>6. CASE StopRuns \/ (\E who \in {"reader", "loop"} : Signal(who)) \/ UNCHANGED vars
  BY <1>6 DEF StopRuns, Signal, vars, readerVars, loopVars, Unstarted
<1> QED BY <1>1, <1>2, <1>3, <1>4, <1>5, <1>6 DEF Next, Loop

LEMMA QueueOrder ==
    ASSUME TypeInv, BufferOrder, NEW who, QueueStep(who),
           UNCHANGED <<active, writerPc, lastSent>>
    PROVE  BufferOrder'
<1>0. BufferType /\ lastSent \in Position /\ buffer \in Seq(Entry)
  BY TypeParts DEF WriterType, BufferType
<1>1. CASE Drop /\ (Enqueued' = Enqueued \/ ~Accepting)
  <2>1. buffer' = buffer /\ overloaded' = overloaded
    BY <1>1 DEF Drop, dataVars, bufferVars
  <2>2. BufferEnd' = BufferEnd
    BY <1>1, <2>1 DEF BufferEnd, Accepting
  <2> QED BY <2>1, <2>2 DEF BufferOrder
<1>2. CASE Accepting /\ Overload(who)
  <2>1. buffer' = <<OverloadNotice>> /\ overloaded' = TRUE
    BY <1>2 DEF Overload
  <2>2. /\ OverloadNotice \in Entry /\ OverloadNotice.kind = "overload"
        /\ OverloadNotice.before = lastSent /\ OverloadNotice.after = lastSent
        /\ OverloadNotice.burstStart = FALSE
    BY <1>0, NoticeEntry
  <2>3. Joined(lastSent, buffer', lastSent)
    <3>1. buffer' = Append(<<>>, OverloadNotice) /\ <<>> \in Seq(Entry)
      BY <2>1
    <3>2. Joined(lastSent, <<>>, lastSent)
      BY JoinedNone
    <3> QED BY <2>2, <3>1, <3>2, JoinedAppend
  <2>4. BufferEnd' = lastSent'
    BY <2>1 DEF BufferEnd, Accepting
  <2>5. \A i \in 1..Len(buffer') : buffer'[i] = OverloadNotice
    BY <2>1
  <2>6. EntryShape(OverloadNotice)
    BY <2>2 DEF EntryShape
  <2> QED BY <2>2, <2>3, <2>4, <2>5, <2>6 DEF BufferOrder
<1>3. ASSUME NEW entry \in Entry, Accepting, EntryShape(entry),
             entry.before = Enqueued, entry.after = Enqueued', UNCHANGED overloaded,
             [entry EXCEPT !.seq = nextSequence + 1] \in Entry,
             buffer' = Append(buffer, [entry EXCEPT !.seq = nextSequence + 1])
      PROVE  BufferOrder'
  <2> DEFINE e == [entry EXCEPT !.seq = nextSequence + 1]
  <2>1. /\ e \in Entry /\ buffer' = Append(buffer, e) /\ e.kind = entry.kind
        /\ e.before = entry.before /\ e.after = entry.after
        /\ e.burstStart = entry.burstStart
    BY <1>3 DEF Entry
  <2> HIDE DEF e
  <2>2. EntryShape(e)
    BY <1>3, <2>1 DEF EntryShape
  <2>3. BufferEnd = Enqueued /\ BufferEnd' = Enqueued' /\ ~overloaded'
    BY <1>3 DEF BufferEnd, Accepting
  <2>4. writerPc' # "done" => Joined(lastSent', buffer', BufferEnd')
    <3>1. ASSUME Joined(lastSent, buffer, Enqueued)
          PROVE  Joined(lastSent, buffer', Enqueued')
      BY <1>0, <1>3, <2>1, <3>1, JoinedAppend
    <3> QED BY <2>3, <3>1 DEF BufferOrder
  <2>5. \A i \in 1..Len(buffer') : EntryShape(buffer'[i])
    <3>1. /\ Len(buffer') = Len(buffer) + 1 /\ Len(buffer) \in Nat
          /\ buffer'[Len(buffer) + 1] = e
          /\ \A i \in 1..Len(buffer) : buffer'[i] = buffer[i]
      BY <1>0, <2>1
    <3>2. \A i \in 1..Len(buffer') : i = Len(buffer) + 1 \/ i \in 1..Len(buffer)
      BY <3>1
    <3> QED BY <2>2, <3>1, <3>2 DEF BufferOrder
  <2> QED BY <2>3, <2>4, <2>5 DEF BufferOrder
<1>4. CASE Overload(who) /\ ~Accepting
  BY <1>1, <1>4 DEF Overload
<1>5. ASSUME NEW entry \in Entry, Enqueue(entry, who), EntryShape(entry),
             entry.before = Enqueued, entry.after = Enqueued'
      PROVE  BufferOrder'
  <2>1. \/ ~Accepting /\ Drop
        \/ Accepting /\ Overload(who)
        \/ /\ Accepting /\ UNCHANGED overloaded
           /\ [entry EXCEPT !.seq = nextSequence + 1] \in Entry
           /\ buffer' = Append(buffer, [entry EXCEPT !.seq = nextSequence + 1])
    BY <1>0, <1>5, Queueing
  <2> QED BY <1>1, <1>2, <1>3, <1>5, <2>1
<1> QED BY <1>1, <1>2, <1>4, <1>5 DEF QueueStep

\* What a turn that is completed is completed with.
DoneTurn == IF turn.seq # 0 THEN turn ELSE pendingTurn

LEMMA DoneIsLast ==
    ASSUME TypeInv, TurnPosition, writerPc = "turn", active, ~TurnHeld(DoneTurn)
    PROVE  DoneTurn = lastSent /\ DoneTurn.seq # 0 /\ DoneTurn \in Position
BY TypeParts DEF TurnHeld, DoneTurn, TurnPosition, WriterType, TurnType

\* The three ways a turn ends: not at all any more, held, or completed.
TurnCut ==
    /\ ~active \/ overloaded
    /\ writerPc' = "roundEnd"
    /\ UNCHANGED <<turnVars, wire, cancelled, lastSent>>
TurnKept ==
    /\ active /\ ~overloaded /\ TurnHeld(DoneTurn)
    /\ pendingTurn' = DoneTurn
    /\ writerPc' = "roundEnd"
    /\ UNCHANGED <<replayBurstActive, awaitingTurnAck, turnAck, window, wire, cancelled,
                   lastSent>>
TurnCompleted ==
    /\ active /\ ~overloaded /\ ~TurnHeld(DoneTurn)
    /\ pendingTurn' = Origin
    /\ IF FlowControl = "turn-ack-v1"
       THEN awaitingTurnAck' = TRUE /\ turnAck' = DoneTurn
       ELSE UNCHANGED <<awaitingTurnAck, turnAck>>
    /\ window' = IF UsesWindow
                 THEN [window EXCEPT
                         !.boundaries = Append(window.boundaries,
                             [at |-> DoneTurn, bytes |-> window.currentTurnBytes]),
                         !.currentTurnBytes = 0]
                 ELSE window
    /\ Write("turn-complete", DoneTurn, DoneTurn, "roundEnd")
    /\ UNCHANGED replayBurstActive

LEMMA FinishFacts ==
    ASSUME WriterFinishTurn
    PROVE  /\ writerPc = "turn" /\ (~CanPop \/ written > 0)
           /\ TurnCut \/ TurnKept \/ TurnCompleted
           /\ UNCHANGED <<target, written, turn, wrote, bufferVars, wake>>
           /\ WriterRest
<1>1. /\ writerPc = "turn" /\ (~CanPop \/ written > 0)
      /\ UNCHANGED <<target, written, turn, wrote, bufferVars, wake>>
      /\ WriterRest
  BY DEF WriterFinishTurn
<1>2. TurnCut \/ TurnKept \/ TurnCompleted
  BY DEF WriterFinishTurn, TurnCut, TurnKept, TurnCompleted, DoneTurn
<1> QED BY <1>1, <1>2

\* What queueing does to the turns: nothing, or it ends them with the backlog.
TurnsEnded ==
    /\ Accepting /\ overloaded' = TRUE /\ replayBurstActive' = FALSE
    /\ pendingTurn' = Origin /\ awaitingTurnAck' = FALSE
    /\ window' = EmptyWindow /\ turnAck' = turnAck

LEMMA QueueTurns ==
    ASSUME BufferType, NEW who, QueueStep(who)
    PROVE  UNCHANGED <<turnVars, overloaded>> \/ TurnsEnded
<1>1. CASE Drop
  BY <1>1 DEF Drop, dataVars, bufferVars
<1>2. CASE Accepting /\ Overload(who)
  BY <1>2 DEF Overload, AwaitingAfterOverload, TurnsEnded
<1>3. CASE UNCHANGED <<overloaded, turnVars, stopPending>>
  BY <1>3
<1>4. CASE ~Accepting /\ Overload(who)
  BY <1>1, <1>4 DEF Overload
<1>5. ASSUME NEW entry \in Entry, Enqueue(entry, who)
      PROVE  \/ Drop
             \/ Accepting /\ Overload(who)
             \/ UNCHANGED <<overloaded, turnVars, stopPending>>
  BY <1>5, Queueing
<1> QED BY <1>1, <1>2, <1>3, <1>4, <1>5 DEF QueueStep

\* The next position depends on the reader alone.
LEMMA EnqueuedKept ==
    ASSUME UNCHANGED <<chunk, cursor, binarySequence>>,
           readerPc' = "chunk" <=> readerPc = "chunk"
    PROVE  Enqueued' = Enqueued
BY DEF Enqueued

LEMMA OrderKept ==
    ASSUME BufferOrder, UNCHANGED <<bufferVars, active>>, Enqueued' = Enqueued,
           writerPc = "done" => writerPc' = "done", lastSent' = lastSent
    PROVE  BufferOrder'
<1>1. BufferEnd' = BufferEnd /\ buffer' = buffer /\ overloaded' = overloaded
  BY DEF bufferVars, BufferEnd, Accepting
<1> QED BY <1>1 DEF BufferOrder

\* What the writer sends follows what it has sent, and an overloaded stream
\* sends only the notice.
LEMMA SentFollows ==
    ASSUME TypeInv, BufferOrder, WriterSend
    PROVE  /\ Head(buffer).before = lastSent
           /\ Joined(Head(buffer).after, Tail(buffer), BufferEnd)
           /\ EntryShape(Head(buffer))
           /\ overloaded => Head(buffer).after = lastSent
<1>1. /\ buffer \in Seq(Entry) /\ buffer # <<>> /\ Head(buffer) = buffer[1]
      /\ 1 \in 1..Len(buffer)
  BY SendFacts
<1>2. Joined(lastSent, buffer, BufferEnd)
  BY DEF WriterSend, BufferOrder
<1>3. Head(buffer).before = lastSent /\ Joined(Head(buffer).after, Tail(buffer), BufferEnd)
  BY <1>1, <1>2, JoinedTail
<1>4. EntryShape(Head(buffer)) /\ (overloaded => Head(buffer).kind = "overload")
  BY <1>1 DEF BufferOrder
<1> QED BY <1>3, <1>4 DEF EntryShape

LEMMA SendOrder ==
    ASSUME TypeInv, BufferOrder, WriterSend
    PROVE  BufferOrder'
<1>1. /\ overloaded' = overloaded /\ active' = active /\ active
      /\ UNCHANGED <<chunk, cursor, binarySequence, readerPc>>
  BY DEF WriterSend, WriterRest, CanPop, readerVars, cursorVars
<1>2. Enqueued' = Enqueued
  BY <1>1, EnqueuedKept
<1>3. /\ buffer' = Tail(buffer)
      /\ \A i \in 1..Len(buffer') : i + 1 \in 1..Len(buffer) /\ buffer'[i] = buffer[i + 1]
  BY SendFacts
<1>4. \A i \in 1..Len(buffer') : /\ EntryShape(buffer'[i])
                                 /\ overloaded' => buffer'[i].kind = "overload"
  BY <1>1, <1>3 DEF BufferOrder
<1>5. ASSUME writerPc' # "done" PROVE Joined(lastSent', buffer', BufferEnd')
  <2>1. lastSent' = Head(buffer).after
    BY <1>5 DEF WriterSend, Write
  <2>2. Joined(lastSent', buffer', BufferEnd)
    BY <1>3, <2>1, SentFollows
  <2>3. BufferEnd' = BufferEnd
    BY <1>1, <1>2, <2>1, SentFollows DEF BufferEnd, Accepting
  <2> QED BY <2>2, <2>3
<1> QED BY <1>4, <1>5 DEF BufferOrder

LEMMA NextBufferOrder ==
    ASSUME TypeInv, Positions, [Next]_vars
    PROVE  BufferOrder'
<1>0. BufferOrder /\ FrameOrder /\ Unstarted /\ TurnPosition
  BY DEF Positions
<1>1. CASE Reader
  BY <1>0, <1>1, ReaderQueues, QueueOrder DEF writerVars
<1>2. CASE LoopPing
  BY <1>0, <1>2, PingQueues, QueueOrder DEF writerVars
<1>3. CASE WriterSend
  BY <1>0, <1>3, SendOrder
<1>4. CASE LoopDeactivate
  <2>1. buffer' = <<>> /\ ~active' /\ lastSent' = lastSent
    BY <1>4 DEF LoopDeactivate, LoopRest, writerVars
  <2>2. Joined(lastSent', buffer', BufferEnd')
    BY <2>1, JoinedNone DEF BufferEnd, Accepting
  <2> QED BY <2>1, <2>2 DEF BufferOrder
<1>5. CASE LoopRun
  <2>1. readerPc = "none" /\ readerPc' = "poll"
    BY <1>0, <1>5 DEF LoopRun, Unstarted
  <2>2. UNCHANGED <<bufferVars, active, chunk, cursor, binarySequence, writerPc, lastSent>>
    BY <1>5 DEF LoopRun, LoopRest, dataVars, lifeVars, cursorVars, writerVars
  <2> QED BY <1>0, <2>1, <2>2, EnqueuedKept, OrderKept
<1>6. CASE Writer /\ ~WriterSend
  <2>1. UNCHANGED <<bufferVars, active, chunk, cursor, binarySequence, readerPc>>
    <3>1. WriterRest
      BY <1>6 DEF Writer, WriterWake, WriterStops, WriterScan, WriterFinishTurn,
          WriterRoundEnd
    <3>2. UNCHANGED bufferVars
      BY <1>6 DEF Writer, WriterWake, WriterStops, WriterScan, WriterFinishTurn,
          WriterRoundEnd, dataVars
    <3> QED BY <3>1, <3>2 DEF WriterRest, readerVars, cursorVars
  <2>2. lastSent' = lastSent /\ writerPc # "done"
    <3>1. CASE WriterFinishTurn
      <4>1. writerPc = "turn" /\ (TurnCut \/ TurnKept \/ TurnCompleted)
        BY <3>1, FinishFacts
      <4>2. ASSUME TurnCompleted PROVE lastSent' = lastSent
        BY <1>0, <4>1, <4>2, DoneIsLast DEF TurnCompleted, Write
      <4> QED BY <4>1, <4>2 DEF TurnCut, TurnKept
    <3> QED BY <1>6, <3>1 DEF Writer, WriterWake, WriterStops, WriterScan, WriterRoundEnd
  <2> QED BY <1>0, <2>1, <2>2, EnqueuedKept, OrderKept
<1>7. CASE UNCHANGED <<bufferVars, active, chunk, cursor, binarySequence, readerPc,
                       writerPc, lastSent>>
  BY <1>0, <1>7, EnqueuedKept, OrderKept
<1>8. CASE \/ LoopRegister \/ LoopAck \/ LoopRemove \/ LoopClose \/ LoopStop
           \/ StopRuns \/ (\E who \in {"reader", "loop"} : Signal(who)) \/ UNCHANGED vars
  BY <1>7, <1>8 DEF LoopRegister, LoopAck, LoopRemove, LoopClose, LoopStop, LoopRest,
     StopRuns, Signal, vars, dataVars, lifeVars, readerVars, cursorVars, writerVars
<1>9. CASE Client
  <2>1. ClientRest
    BY <1>9 DEF Client, ClientReceive, ClientApply, ClientAck, ClientLeave
  <2> QED BY <1>7, <2>1 DEF ClientRest, dataVars, lifeVars, readerVars, cursorVars, writerVars
<1> QED BY <1>1, <1>2, <1>3, <1>4, <1>5, <1>6, <1>8, <1>9 DEF Next, Loop

\* A message that starts where the websocket is keeps the wire in order.
LEMMA WireAppend ==
    ASSUME WireType, WireOrder, NEW m \in Message, m.before = lastSent,
           MessageShape(m), wire' = Append(wire, m), lastSent' = m.after,
           UNCHANGED clientPos
    PROVE  WireOrder'
<1>1. wire \in Seq(Message)
  BY DEF WireType
<1>2. Joined(clientPos', wire', lastSent')
  BY <1>1, JoinedAppend DEF WireOrder
<1>3. /\ Len(wire') = Len(wire) + 1 /\ Len(wire) \in Nat
      /\ \A i \in 1..Len(wire) : wire'[i] = wire[i]
      /\ wire'[Len(wire) + 1] = m
  BY <1>1
<1>4. \A i \in 1..Len(wire') : i = Len(wire) + 1 \/ i \in 1..Len(wire)
  BY <1>3
<1>5. \A i \in 1..Len(wire') : MessageShape(wire'[i])
  BY <1>3, <1>4 DEF WireOrder
<1> QED BY <1>2, <1>5 DEF WireOrder

\* The writer ends a write, if it succeeds, where the message ends.
LEMMA WriteOrder ==
    ASSUME WireType, WireOrder, NEW type, NEW before, NEW after, NEW next,
           Write(type, before, after, next), before = lastSent,
           [type |-> type, before |-> before, after |-> after] \in Message,
           type \notin {"binary", "replay-start"} => after = before,
           UNCHANGED clientPos
    PROVE  WireOrder'
<1> DEFINE m == [type |-> type, before |-> before, after |-> after]
<1>1. m \in Message /\ m.before = lastSent /\ m.after = after /\ MessageShape(m)
  BY DEF MessageShape
<1>2. CASE wire' = Append(wire, m) /\ lastSent' = after
  <2> HIDE DEF m
  <2> QED BY <1>1, <1>2, WireAppend
<1>3. CASE UNCHANGED <<wire, lastSent>>
  BY <1>3 DEF WireOrder
<1> QED BY <1>2, <1>3 DEF Write

LEMMA NextWireOrder ==
    ASSUME TypeInv, Positions, [Next]_vars
    PROVE  WireOrder'
<1>0. /\ BufferOrder /\ WireOrder /\ FrameOrder /\ TurnPosition
      /\ WireType /\ lastSent \in Position /\ wire \in Seq(Message)
  BY TypeParts DEF Positions, WriterType, WireType
<1>1. CASE UNCHANGED <<wire, clientPos, lastSent>>
  BY <1>0, <1>1 DEF WireOrder
<1>2. CASE WriterSend
  <2> DEFINE e == Head(buffer)
  <2>1. /\ e \in Entry /\ e.before = lastSent /\ EntryShape(e)
    BY <1>0, <1>2, SendFacts, SentFollows
  <2>2. [type |-> e.kind, before |-> e.before, after |-> e.after] \in Message
    BY <2>1 DEF Entry, Message
  <2>3. Write(e.kind, e.before, e.after, "turn") /\ clientPos' = clientPos
    BY <1>2 DEF WriterSend, WriterRest, clientVars
  <2>4. e.kind \notin {"binary", "replay-start"} => e.after = e.before
    BY <2>1 DEF EntryShape
  <2> HIDE DEF e
  <2> QED BY <1>0, <2>1, <2>2, <2>3, <2>4, WriteOrder
<1>3. CASE WriterFinishTurn
  <2>1. clientPos' = clientPos /\ writerPc = "turn"
    BY <1>3, FinishFacts DEF WriterRest, clientVars
  <2>2. CASE TurnCut \/ TurnKept
    BY <1>1, <2>1, <2>2 DEF TurnCut, TurnKept
  <2>3. CASE TurnCompleted
    <3>1. DoneTurn = lastSent
      BY <1>0, <2>1, <2>3, DoneIsLast DEF TurnCompleted
    <3>2. [type |-> "turn-complete", before |-> DoneTurn, after |-> DoneTurn] \in Message
      BY <1>0, <3>1 DEF Message
    <3>3. Write("turn-complete", DoneTurn, DoneTurn, "roundEnd")
      BY <2>3 DEF TurnCompleted
    <3> QED BY <1>0, <2>1, <3>1, <3>2, <3>3, WriteOrder
  <2> QED BY <1>3, <2>2, <2>3, FinishFacts
<1>4. CASE LoopAck
  <2> DEFINE m == [type |-> "pane-error", before |-> lastSent, after |-> lastSent]
  <2>1. UNCHANGED <<clientPos, lastSent>> /\ (wire' = wire \/ wire' = Append(wire, m))
    BY <1>4 DEF LoopAck, LoopRest, clientVars, writerVars
  <2>2. m \in Message /\ m.before = lastSent /\ m.after = lastSent /\ MessageShape(m)
    BY <1>0 DEF Message, MessageShape
  <2> HIDE DEF m
  <2> QED BY <1>0, <1>1, <2>1, <2>2, WireAppend
<1>5. CASE ClientReceive
  <2>1. /\ wire # <<>> /\ wire' = Tail(wire) /\ clientPos' = Head(wire).after
        /\ lastSent' = lastSent
    BY <1>5 DEF ClientReceive, ClientRest, writerVars
  <2>2. Joined(clientPos', wire', lastSent')
    BY <1>0, <2>1, JoinedTail DEF WireOrder
  <2>3. \A i \in 1..Len(Tail(wire)) : i + 1 \in 1..Len(wire) /\ Tail(wire)[i] = wire[i + 1]
    BY <1>0, <2>1, EmptySeq, HeadTailProperties
  <2> QED BY <1>0, <2>1, <2>2, <2>3 DEF WireOrder
<1>6. CASE Reader
  BY <1>0, <1>1, <1>6, ReaderQueues DEF socketVars, clientVars, writerVars
<1>7. CASE LoopPing
  BY <1>1, <1>7, PingQueues DEF socketVars, clientVars, writerVars
<1>8. CASE Writer /\ ~WriterSend /\ ~WriterFinishTurn
  BY <1>1, <1>8 DEF Writer, WriterWake, WriterStops, WriterScan, WriterRoundEnd, WriterRest,
     clientVars
<1>9. CASE \/ LoopRegister \/ LoopRun \/ LoopRemove \/ LoopClose \/ LoopStop
           \/ LoopDeactivate \/ StopRuns
           \/ (\E who \in {"reader", "loop"} : Signal(who)) \/ UNCHANGED vars
  BY <1>1, <1>9 DEF LoopRegister, LoopRun, LoopRemove, LoopClose, LoopStop, LoopDeactivate,
     LoopRest, StopRuns, Signal, vars, socketVars, clientVars, writerVars
<1>10. CASE Client /\ ~ClientReceive
  BY <1>1, <1>10 DEF Client, ClientApply, ClientAck, ClientLeave, ClientRest, writerVars
<1> QED BY <1>2, <1>3, <1>4, <1>5, <1>6, <1>7, <1>8, <1>9, <1>10 DEF Next, Loop

LEMMA SendTurn ==
    ASSUME TypeInv, BufferOrder, TurnPosition, WriterSend
    PROVE  TurnPosition'
<1> DEFINE e == Head(buffer)
<1>0. /\ lastSent \in Position /\ turn \in Position /\ pendingTurn \in Position
      /\ e \in Entry
  BY TypeParts, SendFacts DEF WriterType, TurnType
<1>1. /\ e.before = lastSent /\ EntryShape(e)
  BY SentFollows
<1>2. /\ writerPc = "turn" /\ active' = active /\ overloaded' = overloaded
      /\ pendingTurn' = pendingTurn
      /\ turn' = IF e.kind = "binary" THEN e.after ELSE turn
      /\ (writerPc' = "turn" /\ lastSent' = e.after) \/ writerPc' = "done"
  BY DEF WriterSend, WriterRest, Write
<1> HIDE DEF e
<1>3. CASE writerPc' = "done"
  BY <1>2, <1>3 DEF TurnPosition
<1>4. CASE writerPc' = "turn" /\ lastSent' = e.after /\ e.kind = "binary"
  <2>1. e.after.seq # 0
    BY <1>0, <1>1, <1>4 DEF EntryShape, Position
  <2> QED BY <1>2, <1>4, <2>1 DEF TurnPosition
<1>5. CASE writerPc' = "turn" /\ lastSent' = e.after /\ e.kind = "replay-start"
  <2>1. lastSent.seq = 0 /\ turn' = turn
    BY <1>1, <1>2, <1>5 DEF EntryShape
  <2>2. turn.seq = 0
    BY <1>2, <2>1 DEF TurnPosition
  <2>3. active => pendingTurn.seq = 0
    BY <1>2, <2>1, <2>2 DEF TurnPosition
  <2> QED BY <1>2, <1>5, <2>1, <2>2, <2>3 DEF TurnPosition
<1>6. CASE writerPc' = "turn" /\ lastSent' = e.after /\ e.kind \notin {"binary", "replay-start"}
  <2>1. lastSent' = lastSent /\ turn' = turn
    BY <1>1, <1>2, <1>6 DEF EntryShape
  <2> QED BY <1>2, <1>6, <2>1 DEF TurnPosition
<1> QED BY <1>2, <1>3, <1>4, <1>5, <1>6

LEMMA NextTurnPosition ==
    ASSUME TypeInv, Positions, [Next]_vars
    PROVE  TurnPosition'
<1>0. BufferOrder /\ FrameOrder /\ TurnPosition /\ BufferType
  BY TypeParts DEF Positions
<1>1. CASE UNCHANGED <<writerPc, turn, lastSent, pendingTurn, active, overloaded>>
  BY <1>0, <1>1 DEF TurnPosition
<1>2. ASSUME NEW who, QueueStep(who), UNCHANGED <<active, writerVars>>
      PROVE  TurnPosition'
  <2>1. UNCHANGED <<writerPc, turn, lastSent, active>>
    BY <1>2 DEF writerVars
  <2>2. UNCHANGED <<turnVars, overloaded>> \/ TurnsEnded
    BY <1>0, <1>2, QueueTurns
  <2>3. CASE UNCHANGED <<turnVars, overloaded>>
    BY <1>1, <2>1, <2>3 DEF turnVars
  <2>4. CASE TurnsEnded
    BY <1>0, <2>1, <2>4 DEF TurnPosition, Origin, TurnsEnded
  <2> QED BY <2>2, <2>3, <2>4
<1>3. CASE WriterSend
  BY <1>0, <1>3, SendTurn
<1>4. CASE WriterFinishTurn
  <2>1. /\ writerPc = "turn" /\ writerPc' # "turn"
        /\ active' = active /\ overloaded' = overloaded
    BY <1>4, FinishFacts DEF WriterRest, bufferVars, TurnCut, TurnKept, TurnCompleted, Write
  <2>2. CASE TurnCut
    BY <1>0, <2>1, <2>2 DEF TurnCut, turnVars, TurnPosition
  <2>3. CASE TurnKept
    BY <1>0, <2>1, <2>3 DEF TurnKept, DoneTurn, TurnPosition
  <2>4. CASE TurnCompleted
    BY <2>1, <2>4 DEF TurnCompleted, TurnPosition, Origin
  <2> QED BY <1>4, <2>2, <2>3, <2>4, FinishFacts
<1>5. CASE WriterScan
  BY <1>0, <1>5 DEF WriterScan, WriterRest, dataVars, turnVars, bufferVars, TurnPosition,
     Origin
<1>6. CASE WriterWake \/ WriterStops \/ WriterRoundEnd
  BY <1>0, <1>6 DEF WriterWake, WriterStops, WriterRoundEnd, WriterRest, dataVars, turnVars,
     bufferVars, TurnPosition
<1>7. CASE LoopDeactivate
  BY <1>0, <1>7 DEF LoopDeactivate, LoopRest, writerVars, turnVars, TurnPosition
<1>8. CASE LoopAck
  <2>1. pendingTurn' = pendingTurn
    BY <1>8 DEF LoopAck, AcknowledgeTurn, turnVars
  <2> QED BY <1>1, <1>8, <2>1 DEF LoopAck, LoopRest, bufferVars, lifeVars, writerVars
<1>9. CASE \/ LoopRegister \/ LoopRun \/ LoopRemove \/ LoopClose \/ LoopStop \/ StopRuns
           \/ (\E who \in {"reader", "loop"} : Signal(who)) \/ UNCHANGED vars
  BY <1>1, <1>9 DEF LoopRegister, LoopRun, LoopRemove, LoopClose, LoopStop, LoopRest,
     StopRuns, Signal, vars, dataVars, bufferVars, turnVars, lifeVars, writerVars
<1>10. CASE Client
  <2>1. ClientRest
    BY <1>10 DEF Client, ClientReceive, ClientApply, ClientAck, ClientLeave
  <2> QED BY <1>1, <2>1 DEF ClientRest, dataVars, bufferVars, turnVars, lifeVars, writerVars
<1>11. CASE Reader
  BY <1>0, <1>2, <1>11, ReaderQueues
<1>12. CASE LoopPing
  BY <1>2, <1>12, PingQueues
<1> QED BY <1>3, <1>4, <1>5, <1>6, <1>7, <1>8, <1>9, <1>10, <1>11, <1>12
    DEF Next, Writer, Loop

\* Initially the two controls of the attach stand in the buffer.
LEMMA InitPositions == Init => Positions
<1> SUFFICES ASSUME Init PROVE Positions
  OBVIOUS
<1> DEFINE t == Text("text", Origin, Origin, FALSE, FALSE)
<1>1. /\ buffer = [i \in 1..2 |-> [t EXCEPT !.seq = i]] /\ ~overloaded /\ active
      /\ lastSent = Origin /\ Enqueued = Origin /\ clientPos = Origin /\ wire = <<>>
      /\ writerPc = "parked" /\ readerPc = "none" /\ binarySequence = 0
      /\ pendingTurn = Origin
  BY DEF Init, Enqueued, Origin
<1>2. /\ t \in Entry /\ t.kind = "text" /\ t.before = Origin /\ t.after = Origin
      /\ t.burstStart = FALSE
  BY OriginType, TextType DEF TextKinds, Text
<1> HIDE DEF t
<1>3. /\ buffer # <<>> /\ Len(buffer) = 2
      /\ \A i \in 1..2 : /\ buffer[i].kind = "text" /\ buffer[i].before = Origin
                         /\ buffer[i].after = Origin /\ buffer[i].burstStart = FALSE
  BY <1>1, <1>2 DEF Entry
<1>4. BufferEnd = Origin
  BY <1>1 DEF BufferEnd, Accepting
<1>5. Joined(Origin, buffer, Origin)
  BY <1>3 DEF Joined
<1>6. \A i \in 1..Len(buffer) : EntryShape(buffer[i])
  BY <1>3 DEF EntryShape
<1>7. BufferOrder
  BY <1>1, <1>4, <1>5, <1>6 DEF BufferOrder
<1>8. WireOrder
  BY <1>1, JoinedNone DEF WireOrder
<1>9. FrameOrder /\ Unstarted /\ TurnPosition
  BY <1>1 DEF FrameOrder, Unstarted, TurnPosition, Origin
<1> QED BY <1>7, <1>8, <1>9 DEF Positions

LEMMA NextPositions ==
    ASSUME TypeInv, Positions, [Next]_vars
    PROVE  Positions'
BY NextBufferOrder, NextWireOrder, NextFrames, NextUnstarted, NextTurnPosition DEF Positions

-----------------------------------------------------------------------------
(* The acknowledgement window.                                             *)

LEMMA BoundaryTypes ==
    ASSUME NEW b \in Seq(Boundary)
    PROVE  /\ Len(b) \in Nat
           /\ \A i \in 1..Len(b) : b[i].at \in Position /\ b[i].at.seq \in Nat
<1>1. Len(b) \in Nat /\ \A i \in 1..Len(b) : b[i] \in Boundary
  OBVIOUS
<1>2. \A e \in Boundary : e.at \in Position
  BY DEF Boundary
<1>3. \A at \in Position : at.seq \in Nat
  BY DEF Position
<1> QED BY <1>1, <1>2, <1>3

LEMMA AscendingLast ==
    ASSUME NEW b \in Seq(Boundary), NEW ack \in Position, Ascending(b, ack)
    PROVE  /\ LastOf(b, ack) \in Position /\ ack.seq <= LastOf(b, ack).seq
           /\ b # <<>> => ack.seq < LastOf(b, ack).seq
           /\ \A i \in 1..Len(b) : b[i].at.seq <= LastOf(b, ack).seq
<1>1. /\ Len(b) \in Nat /\ ack.seq \in Nat
      /\ \A i \in 1..Len(b) : b[i].at \in Position /\ b[i].at.seq \in Nat
  BY BoundaryTypes DEF Position
<1>2. CASE b = <<>>
  BY <1>1, <1>2 DEF LastOf
<1>3. CASE b # <<>>
  <2>1. Len(b) \in 1..Len(b) /\ LastOf(b, ack) = b[Len(b)].at
    BY <1>1, <1>3, EmptySeq DEF LastOf
  <2>2. \A i \in 1..Len(b) : i = Len(b) \/ i \in 1..(Len(b) - 1)
    BY <1>1
  <2>3. /\ ack.seq < b[Len(b)].at.seq
        /\ \A i \in 1..(Len(b) - 1) : b[i].at.seq < b[Len(b)].at.seq
    BY <2>1 DEF Ascending
  <2>4. \A i \in 1..Len(b) : b[i].at.seq <= b[Len(b)].at.seq
    BY <1>1, <2>1, <2>2, <2>3
  <2>5. ack.seq <= b[Len(b)].at.seq /\ b[Len(b)].at \in Position
    BY <1>1, <2>1, <2>3
  <2> QED BY <2>1, <2>3, <2>4, <2>5
<1> QED BY <1>2, <1>3

LEMMA AscendingAppend ==
    ASSUME NEW b \in Seq(Boundary), NEW ack \in Position, Ascending(b, ack),
           NEW e \in Boundary, LastOf(b, ack).seq < e.at.seq
    PROVE  /\ Ascending(Append(b, e), ack)
           /\ LastOf(Append(b, e), ack) = e.at
           /\ Len(Append(b, e)) = Len(b) + 1
<1> DEFINE longer == Append(b, e)
<1>1. /\ Len(b) \in Nat /\ Len(longer) = Len(b) + 1 /\ longer # <<>>
      /\ \A i \in 1..Len(b) : longer[i] = b[i]
      /\ longer[Len(b) + 1] = e
  OBVIOUS
<1> HIDE DEF longer
<1>2. /\ ack.seq < e.at.seq /\ \A i \in 1..Len(b) : b[i].at.seq < e.at.seq
  <2>1. /\ ack.seq \in Nat /\ e.at.seq \in Nat /\ LastOf(b, ack).seq \in Nat
        /\ \A i \in 1..Len(b) : b[i].at.seq \in Nat
    <3>1. e.at \in Position
      BY DEF Boundary
    <3> QED BY <3>1, AscendingLast, BoundaryTypes DEF Position
  <2> QED BY <2>1, AscendingLast
<1>3. ASSUME NEW i \in 1..Len(longer)
      PROVE  /\ ack.seq < longer[i].at.seq
             /\ \A j \in 1..(i - 1) : longer[j].at.seq < longer[i].at.seq
  <2>1. CASE i = Len(b) + 1
    BY <1>1, <1>2, <2>1
  <2>2. CASE i # Len(b) + 1
    <3>1. i \in 1..Len(b) /\ \A j \in 1..(i - 1) : j \in 1..Len(b)
      BY <1>1, <2>2
    <3> QED BY <1>1, <3>1 DEF Ascending
  <2> QED BY <2>1, <2>2
<1>4. LastOf(longer, ack) = e.at
  BY <1>1 DEF LastOf
<1>5. Ascending(longer, ack)
  BY <1>3 DEF Ascending
<1> QED BY <1>1, <1>4, <1>5 DEF longer

LEMMA AscendingRest ==
    ASSUME NEW b \in Seq(Boundary), NEW ack \in Position, Ascending(b, ack),
           NEW i \in 1..Len(b), NEW rest, rest = SubSeq(b, i + 1, Len(b))
    PROVE  /\ Ascending(rest, b[i].at)
           /\ LastOf(rest, b[i].at) = LastOf(b, ack)
           /\ Len(rest) <= Len(b)
<1> DEFINE n == Len(b)
<1>1. /\ n \in Nat /\ rest \in Seq(Boundary) /\ Len(rest) = n - i
      /\ \A j \in 1..(n - i) : rest[j] = b[j + i] /\ j + i \in 1..n
      /\ b # <<>>
  OBVIOUS
<1>2. rest = <<>> <=> n = i
  <2>1. rest = <<>> <=> Len(rest) = 0
    BY <1>1, EmptySeq
  <2> HIDE DEF n
  <2> QED BY <1>1, <2>1
<1> HIDE DEF n
<1>3. \A j \in 1..n : \A k \in 1..(j - 1) : b[k].at.seq < b[j].at.seq
  BY DEF Ascending, n
<1>4. ASSUME NEW j \in 1..Len(rest)
      PROVE  /\ b[i].at.seq < rest[j].at.seq
             /\ \A k \in 1..(j - 1) : rest[k].at.seq < rest[j].at.seq
  <2>1. j \in 1..(n - i) /\ rest[j] = b[j + i] /\ j + i \in 1..n /\ i \in 1..((j + i) - 1)
    BY <1>1
  <2>2. \A k \in 1..(j - 1) : k \in 1..(n - i) /\ k + i \in 1..((j + i) - 1)
    BY <1>1, <2>1
  <2> QED BY <1>1, <1>3, <2>1, <2>2
<1>5. LastOf(rest, b[i].at) = LastOf(b, ack)
  <2>1. CASE n = i
    BY <1>1, <1>2, <2>1 DEF LastOf, n
  <2>2. CASE n # i
    <3>1. n - i \in 1..(n - i) /\ (n - i) + i = n
      BY <1>1, <2>2
    <3>2. rest[Len(rest)] = b[n]
      BY <1>1, <3>1
    <3> QED BY <1>1, <1>2, <2>2, <3>2 DEF LastOf, n
  <2> QED BY <2>1, <2>2
<1> QED BY <1>1, <1>4, <1>5 DEF Ascending, n

\* An empty window.
LEMMA WindowNone ==
    /\ EmptyWindow.boundaries = <<>> /\ EmptyWindow.ack = Origin
    /\ EmptyWindow.inFlight = BytesThrough(EmptyWindow.boundaries,
                                           Len(EmptyWindow.boundaries))
                                + EmptyWindow.currentTurnBytes
    /\ Ascending(EmptyWindow.boundaries, EmptyWindow.ack)
    /\ LastOf(EmptyWindow.boundaries, EmptyWindow.ack) = Origin
    /\ Origin.seq = 0 /\ Len(EmptyWindow.boundaries) = 0
<1>1. /\ EmptyWindow.boundaries = <<>> /\ EmptyWindow.ack = Origin
      /\ EmptyWindow.inFlight = 0 /\ EmptyWindow.currentTurnBytes = 0
  BY DEF EmptyWindow
<1>2. Len(<<>>) = 0 /\ Origin.seq = 0
  BY DEF Origin
<1> HIDE DEF EmptyWindow, Origin
<1> QED BY <1>1, <1>2, BytesNone DEF Ascending, LastOf

Ledger == WindowKept /\ TurnRoom

\* A step that moves neither the window nor what is awaited.
LEMMA LedgerSame ==
    ASSUME Ledger, UNCHANGED turnVars, lastSent' = lastSent, turn' = turn,
           writerPc' = "turn" => writerPc = "turn"
    PROVE  Ledger'
<1>1. UNCHANGED <<window, awaitingTurnAck, turnAck, replayBurstActive, pendingTurn>>
  BY DEF turnVars
<1>2. LastBoundary' = LastBoundary
  BY <1>1 DEF LastBoundary
<1> QED BY <1>1, <1>2 DEF Ledger, WindowKept, TurnRoom

LEMMA QueueLedger ==
    ASSUME TypeInv, Ledger, NEW who, QueueStep(who), UNCHANGED writerVars
    PROVE  Ledger'
<1>0. BufferType /\ lastSent \in Position /\ turn \in Position
  BY TypeParts DEF WriterType
<1>1. UNCHANGED <<lastSent, turn, writerPc>>
  BY DEF writerVars
<1>2. CASE UNCHANGED <<turnVars, overloaded>>
  BY <1>1, <1>2, LedgerSame
<1>3. CASE TurnsEnded
  <2>0. /\ replayBurstActive' = FALSE /\ pendingTurn' = Origin
        /\ awaitingTurnAck' = FALSE /\ window' = EmptyWindow
    BY <1>3 DEF TurnsEnded
  <2>1. 0 < WindowTurns /\ 0 <= WindowTurns /\ 0 <= lastSent.seq /\ (turn.seq # 0 => 0 < turn.seq)
    BY <1>0, ConstantsType DEF Position
  <2>2. LastBoundary' = Origin
    BY <2>0, WindowNone DEF LastBoundary
  <2>3. WindowKept'
    BY <1>1, <2>0, <2>1, <2>2, WindowNone DEF WindowKept
  <2>4. TurnRoom'
    BY <1>1, <2>0, <2>1, <2>2, WindowNone DEF TurnRoom
  <2> QED BY <2>3, <2>4 DEF Ledger
<1> QED BY <1>0, <1>2, <1>3, QueueTurns

\* Output that is sent is in flight, and counts to the turn under way.
LEMMA SentWindow ==
    ASSUME TurnType, WriterSend, Head(buffer).cost \in Nat
    PROVE  /\ window'.boundaries = window.boundaries /\ window'.ack = window.ack
           /\ \/ window' = window
              \/ /\ UsesWindow
                 /\ window'.inFlight = window.inFlight + Head(buffer).cost
                 /\ window'.currentTurnBytes
                        = window.currentTurnBytes + Head(buffer).cost
<1> DEFINE cost == Head(buffer).cost
           inFlight == window.inFlight + cost
           currentTurnBytes == window.currentTurnBytes + cost
           w == [window EXCEPT !.inFlight = inFlight, !.currentTurnBytes = currentTurnBytes]
<1>1. (window' = w /\ UsesWindow) \/ window' = window
  BY DEF WriterSend
<1>2. window \in Window /\ inFlight \in Int /\ currentTurnBytes \in Int
  <2>1. window \in Window
    BY DEF TurnType
  <2> QED BY <2>1, WindowType
<1> HIDE DEF inFlight, currentTurnBytes
<1>3. /\ w.boundaries = window.boundaries /\ w.ack = window.ack
      /\ w.inFlight = inFlight /\ w.currentTurnBytes = currentTurnBytes
  BY <1>2 DEF Window
<1> HIDE DEF w
<1> QED BY <1>1, <1>3 DEF inFlight, currentTurnBytes

LEMMA SendLedger ==
    ASSUME TypeInv, BufferOrder, Ledger, WriterSend
    PROVE  Ledger'
<1> DEFINE e == Head(buffer)
           last == LastBoundary
<1>0. /\ TurnType /\ lastSent \in Position /\ turn \in Position /\ turnAck \in Position
      /\ e \in Entry /\ e.cost \in Nat /\ e.before = lastSent /\ EntryShape(e)
      /\ window \in Window /\ window.boundaries \in Seq(Boundary)
      /\ window.ack \in Position /\ WindowTurns \in Nat \ {0}
      /\ window.inFlight \in Int /\ window.currentTurnBytes \in Int
  BY TypeParts, SendFacts, SentFollows, WindowType, ConstantsType DEF WriterType, TurnType
<1>1. /\ writerPc = "turn" /\ WindowAllows(e)
      /\ turn' = IF e.kind = "binary" THEN e.after ELSE turn
      /\ replayBurstActive' => replayBurstActive \/ e.burstStart
      /\ UNCHANGED <<pendingTurn, awaitingTurnAck, turnAck>>
      /\ (lastSent' = e.after \/ (lastSent' = lastSent /\ writerPc' = "done"))
  BY DEF WriterSend, CanPop, Write
<1>2. /\ window'.boundaries = window.boundaries /\ window'.ack = window.ack
      /\ \/ window' = window
         \/ /\ UsesWindow
            /\ window'.inFlight = window.inFlight + e.cost
            /\ window'.currentTurnBytes = window.currentTurnBytes + e.cost
  BY <1>0, SentWindow
<1>3. LastBoundary' = last
  BY <1>2 DEF LastBoundary
<1>4. /\ last \in Position /\ window.ack.seq <= last.seq
      /\ window.boundaries # <<>> => window.ack.seq < last.seq
  BY <1>0, AscendingLast DEF Ledger, WindowKept, LastBoundary
<1>5. /\ lastSent.seq \in Nat /\ last.seq \in Nat /\ window.ack.seq \in Nat
      /\ e.after.seq \in Nat /\ e.before.seq \in Nat /\ turnAck.seq \in Nat
  <2>1. e.after \in Position /\ e.before \in Position
    BY <1>0 DEF Entry
  <2>2. \A p \in Position : p.seq \in Nat
    BY DEF Position
  <2> QED BY <1>0, <1>4, <2>1, <2>2
<1> HIDE DEF e, last
<1>6. lastSent.seq <= e.after.seq /\ (e.kind = "binary" => e.after.seq = lastSent.seq + 1)
  BY <1>0, <1>5 DEF EntryShape
<1>7. lastSent.seq <= lastSent'.seq /\ lastSent'.seq \in Nat
  BY <1>1, <1>5, <1>6
<1>8. WindowKept'
  <2>1. /\ ~UsesWindow => window = EmptyWindow
        /\ window.inFlight = BytesThrough(window.boundaries, Len(window.boundaries))
                                + window.currentTurnBytes
        /\ Ascending(window.boundaries, window.ack)
        /\ last.seq <= lastSent.seq
        /\ Len(window.boundaries) <= WindowTurns
        /\ awaitingTurnAck => /\ FlowControl = "turn-ack-v1"
                              /\ 0 < turnAck.seq /\ turnAck.seq <= lastSent.seq
    BY DEF Ledger, WindowKept, last
  <2>2. LastBoundary'.seq <= lastSent'.seq
    BY <1>3, <1>5, <1>7, <2>1
  <2>3. awaitingTurnAck' => turnAck'.seq <= lastSent'.seq /\ 0 < turnAck'.seq
                            /\ FlowControl = "turn-ack-v1"
    BY <1>1, <1>5, <1>7, <2>1
  <2>4. ~UsesWindow => window' = EmptyWindow
    BY <1>2, <2>1
  <2>5. window'.inFlight = BytesThrough(window.boundaries, Len(window.boundaries))
                              + window'.currentTurnBytes
    <3> DEFINE sum == BytesThrough(window.boundaries, Len(window.boundaries))
    <3>1. Len(window.boundaries) \in 0..Len(window.boundaries)
      BY <1>0
    <3>2. sum \in Int
      BY <1>0, <3>1, BytesThroughType
    <3>3. window.inFlight = sum + window.currentTurnBytes
      BY <2>1
    <3> HIDE DEF sum
    <3>4. window'.inFlight = sum + window'.currentTurnBytes
      BY <1>0, <1>2, <3>2, <3>3
    <3> QED BY <3>4 DEF sum
  <2> QED BY <1>2, <2>1, <2>2, <2>3, <2>4, <2>5 DEF WindowKept
<1>9. TurnRoom'
  <2>1. /\ ~awaitingTurnAck
        /\ turn.seq # 0 => last.seq < turn.seq /\ Len(window.boundaries) < WindowTurns
        /\ (replayBurstActive \/ pendingTurn.seq # 0) =>
              window.boundaries = <<>> /\ window.ack.seq = 0
    BY <1>1 DEF Ledger, TurnRoom, last
  <2>2. last.seq <= lastSent.seq /\ (~UsesWindow => window.boundaries = <<>>)
    BY WindowNone DEF Ledger, WindowKept, last
  <2>3. Len(<<>>) < WindowTurns
    BY <1>0
  <2>4. ASSUME e.kind = "binary"
        PROVE  last.seq < e.after.seq /\ Len(window.boundaries) < WindowTurns
    BY <1>1, <1>5, <1>6, <2>1, <2>2, <2>3, <2>4 DEF WindowAllows
  <2>5. ASSUME e.burstStart PROVE window.boundaries = <<>> /\ window.ack.seq = 0
    <3>1. lastSent.seq = 0
      BY <1>0, <2>5 DEF EntryShape
    <3> QED BY <1>4, <1>5, <2>2, <3>1
  <2>6. turn'.seq # 0 => last.seq < turn'.seq /\ Len(window.boundaries) < WindowTurns
    BY <1>1, <2>1, <2>4
  <2> QED BY <1>1, <1>2, <1>3, <2>1, <2>5, <2>6 DEF TurnRoom
<1> QED BY <1>8, <1>9 DEF Ledger

\* A completed turn becomes the last boundary that is awaited.
LEMMA CompletedWindow ==
    ASSUME TurnType, DoneTurn \in Position, TurnCompleted
    PROVE  \/ ~UsesWindow /\ window' = window
           \/ /\ UsesWindow
              /\ [at |-> DoneTurn, bytes |-> window.currentTurnBytes] \in Boundary
              /\ window'.boundaries = Append(window.boundaries,
                     [at |-> DoneTurn, bytes |-> window.currentTurnBytes])
              /\ window'.inFlight = window.inFlight /\ window'.ack = window.ack
              /\ window'.currentTurnBytes = 0
<1> DEFINE e == [at |-> DoneTurn, bytes |-> window.currentTurnBytes]
           longer == Append(window.boundaries, e)
           w == [window EXCEPT !.boundaries = longer, !.currentTurnBytes = 0]
<1>1. \/ ~UsesWindow /\ window' = window
      \/ UsesWindow /\ window' = w
  BY DEF TurnCompleted
<1>2. window \in Window /\ window.boundaries \in Seq(Boundary) /\ e \in Boundary
  <2>1. window \in Window
    BY DEF TurnType
  <2> QED BY <2>1, WindowType DEF Boundary
<1> HIDE DEF e
<1>3. longer \in Seq(Boundary)
  BY <1>2
<1> HIDE DEF longer
<1>4. /\ w.boundaries = longer /\ w.ack = window.ack
      /\ w.inFlight = window.inFlight /\ w.currentTurnBytes = 0
  BY <1>2, <1>3 DEF Window
<1> HIDE DEF w
<1> QED BY <1>1, <1>2, <1>4 DEF longer, e

LEMMA FinishLedger ==
    ASSUME TypeInv, TurnPosition, Ledger, WriterFinishTurn
    PROVE  Ledger'
<1>0. /\ TurnType /\ lastSent \in Position /\ turn \in Position /\ pendingTurn \in Position
      /\ window \in Window /\ window.boundaries \in Seq(Boundary)
      /\ window.ack \in Position /\ WindowTurns \in Nat \ {0}
      /\ window.inFlight \in Int /\ window.currentTurnBytes \in Int
  BY TypeParts, WindowType, ConstantsType DEF WriterType, TurnType
<1>1. /\ writerPc = "turn" /\ turn' = turn
      /\ TurnCut \/ TurnKept \/ TurnCompleted
  BY FinishFacts
<1>2. /\ ~awaitingTurnAck
      /\ turn.seq # 0 => /\ LastBoundary.seq < turn.seq
                         /\ Len(window.boundaries) < WindowTurns
      /\ (replayBurstActive \/ pendingTurn.seq # 0) =>
            window.boundaries = <<>> /\ window.ack.seq = 0
  BY <1>1 DEF Ledger, TurnRoom
<1>3. CASE TurnCut
  BY <1>1, <1>3, LedgerSame DEF TurnCut
<1>4. CASE TurnKept
  <2>1. /\ pendingTurn' = DoneTurn /\ writerPc' = "roundEnd" /\ TurnHeld(DoneTurn)
        /\ UNCHANGED <<replayBurstActive, awaitingTurnAck, turnAck, window, lastSent>>
    BY <1>4 DEF TurnKept
  <2>2. LastBoundary' = LastBoundary
    BY <2>1 DEF LastBoundary
  <2>3. WindowKept'
    BY <2>1, <2>2 DEF Ledger, WindowKept
  <2>4. pendingTurn'.seq # 0 => replayBurstActive
    BY <2>1 DEF TurnHeld
  <2> QED BY <1>2, <2>1, <2>3, <2>4 DEF Ledger, TurnRoom
<1>5. CASE TurnCompleted
  <2>1. DoneTurn = lastSent /\ DoneTurn.seq # 0 /\ DoneTurn \in Position
    BY <1>1, <1>5, DoneIsLast DEF TurnCompleted
  <2>2. /\ lastSent' = lastSent /\ writerPc' # "turn" /\ ~replayBurstActive'
        /\ pendingTurn' = Origin
        /\ IF FlowControl = "turn-ack-v1"
           THEN awaitingTurnAck' = TRUE /\ turnAck' = DoneTurn
           ELSE UNCHANGED <<awaitingTurnAck, turnAck>>
    BY <1>5, <2>1 DEF TurnCompleted, Write, TurnHeld
  <2>3. TurnRoom'
    BY <2>2 DEF TurnRoom, Origin
  <2>4. DoneTurn.seq \in Nat /\ 0 < DoneTurn.seq /\ lastSent.seq \in Nat
    BY <2>1 DEF Position
  <2>5. /\ ~UsesWindow => window = EmptyWindow
        /\ window.inFlight = BytesThrough(window.boundaries, Len(window.boundaries))
                                + window.currentTurnBytes
        /\ Ascending(window.boundaries, window.ack)
        /\ LastBoundary.seq <= lastSent.seq
        /\ Len(window.boundaries) <= WindowTurns
    BY DEF Ledger, WindowKept
  <2>6. awaitingTurnAck' => /\ FlowControl = "turn-ack-v1"
                            /\ 0 < turnAck'.seq /\ turnAck'.seq <= lastSent'.seq
    <3>1. awaitingTurnAck' => FlowControl = "turn-ack-v1" /\ turnAck' = DoneTurn
      BY <1>2, <2>2
    <3>2. DoneTurn.seq <= lastSent'.seq
      BY <2>1, <2>2, <2>4
    <3> QED BY <2>4, <3>1, <3>2
  <2>7. CASE ~UsesWindow /\ window' = window
    <3>1. LastBoundary' = LastBoundary
      BY <2>7 DEF LastBoundary
    <3> QED BY <2>2, <2>3, <2>5, <2>6, <2>7, <3>1 DEF Ledger, WindowKept
  <2> DEFINE e == [at |-> DoneTurn, bytes |-> window.currentTurnBytes]
             longer == Append(window.boundaries, e)
             sum == BytesThrough(window.boundaries, Len(window.boundaries))
  <2>8. CASE /\ UsesWindow /\ e \in Boundary /\ window'.boundaries = longer
             /\ window'.inFlight = window.inFlight /\ window'.ack = window.ack
             /\ window'.currentTurnBytes = 0
    <3>1. e.at = DoneTurn /\ e.bytes = window.currentTurnBytes
      OBVIOUS
    <3> HIDE DEF e
    <3>2. LastBoundary.seq < DoneTurn.seq /\ Len(window.boundaries) < WindowTurns
      <4>1. CASE turn.seq # 0
        BY <1>2, <4>1 DEF DoneTurn
      <4>2. CASE turn.seq = 0
        <5>1. pendingTurn.seq # 0
          BY <2>1, <4>2 DEF DoneTurn
        <5>2. window.boundaries = <<>> /\ window.ack.seq = 0
          BY <1>2, <5>1
        <5>3. LastBoundary.seq = 0 /\ Len(window.boundaries) = 0
          BY <5>2 DEF LastBoundary, LastOf
        <5> QED BY <1>0, <2>4, <5>3
      <4> QED BY <4>1, <4>2
    <3>3. /\ Ascending(longer, window.ack) /\ LastOf(longer, window.ack) = DoneTurn
          /\ Len(longer) = Len(window.boundaries) + 1
      BY <1>0, <2>5, <2>8, <3>1, <3>2, AscendingAppend DEF LastBoundary
    <3>4. BytesThrough(longer, Len(longer)) = sum + window.currentTurnBytes
      BY <1>0, <2>8, <3>1, BytesAppend
    <3>5. sum \in Int
      <4>1. Len(window.boundaries) \in 0..Len(window.boundaries)
        BY <1>0
      <4> QED BY <1>0, <4>1, BytesThroughType
    <3>6. window.inFlight = sum + window.currentTurnBytes
      BY <2>5
    <3>7. Len(longer) <= WindowTurns
      BY <1>0, <3>2, <3>3
    <3> HIDE DEF longer, sum
    <3>8. window'.inFlight = BytesThrough(window'.boundaries, Len(window'.boundaries))
                                + window'.currentTurnBytes
      BY <1>0, <2>8, <3>4, <3>5, <3>6
    <3>9. LastBoundary' = DoneTurn
      BY <2>8, <3>3 DEF LastBoundary
    <3>10. LastBoundary'.seq <= lastSent'.seq
      BY <2>1, <2>2, <2>4, <3>9
    <3>11. WindowKept'
      BY <2>6, <2>8, <3>3, <3>7, <3>8, <3>10 DEF WindowKept
    <3> QED BY <2>3, <3>11 DEF Ledger
  <2> QED
    <3> HIDE DEF longer, sum
    <3> QED BY <1>0, <1>5, <2>1, <2>7, <2>8, CompletedWindow DEF longer
<1> QED BY <1>1, <1>3, <1>4, <1>5

\* An acknowledgement releases every boundary up to the one it names.
LEMMA AcknowledgedWindow ==
    ASSUME TurnType, NEW at, UsesWindow, AckMatches(at), at # window.ack,
           AcknowledgeTurn(at)
    PROVE  \E i \in 1..Len(window.boundaries) :
              /\ window.boundaries[i].at = at
              /\ window'.inFlight = window.inFlight - BytesThrough(window.boundaries, i)
              /\ window'.boundaries
                    = SubSeq(window.boundaries, i + 1, Len(window.boundaries))
              /\ window'.ack = at
              /\ window'.currentTurnBytes = window.currentTurnBytes
<1> DEFINE i == FirstMatch(at)
           inFlight == window.inFlight - BytesThrough(window.boundaries, i)
           rest == SubSeq(window.boundaries, i + 1, Len(window.boundaries))
           w == [window EXCEPT !.inFlight = inFlight, !.boundaries = rest, !.ack = at]
<1>1. window \in Window
  BY DEF TurnType
<1>2. i \in 1..Len(window.boundaries) /\ window.boundaries[i].at = at
  BY <1>1, FirstMatchType DEF AckMatches
<1>3. window' = [window EXCEPT !.inFlight = @ - Released(i),
                               !.boundaries = SubSeq(@, i + 1, Len(@)), !.ack = at]
  BY DEF AcknowledgeTurn
<1> HIDE DEF i
<1>4. window' = w
  BY <1>1, <1>3 DEF Window, Released
<1> HIDE DEF inFlight, rest
<1>5. /\ w.inFlight = inFlight /\ w.boundaries = rest /\ w.ack = at
      /\ w.currentTurnBytes = window.currentTurnBytes
  BY <1>1 DEF Window
<1> HIDE DEF w
<1> QED BY <1>2, <1>4, <1>5 DEF inFlight, rest

LEMMA AckLedger ==
    ASSUME TypeInv, Ledger, LoopAck
    PROVE  Ledger'
<1> DEFINE at == Head(upstream).at
<1>0. /\ TurnType /\ lastSent \in Position /\ window \in Window
      /\ window.boundaries \in Seq(Boundary) /\ window.ack \in Position
      /\ window.inFlight \in Int /\ window.currentTurnBytes \in Int
      /\ WindowTurns \in Nat
  BY TypeParts, WindowType, ConstantsType DEF WriterType, TurnType
<1>1. UNCHANGED <<writerPc, turn, lastSent>>
  BY DEF LoopAck, LoopRest, writerVars
<1>2. CASE UNCHANGED turnVars
  BY <1>1, <1>2, LedgerSame
<1>3. CASE AckMatches(at) /\ AcknowledgeTurn(at)
  <2>1. CASE UsesWindow /\ at = window.ack
    <3>1. UNCHANGED turnVars
      BY <1>3, <2>1 DEF AcknowledgeTurn, turnVars
    <3> QED BY <1>2, <3>1
  <2>2. CASE ~UsesWindow
    <3>1. /\ awaitingTurnAck' = FALSE
          /\ UNCHANGED <<replayBurstActive, pendingTurn, window>>
      BY <1>3, <2>2 DEF AcknowledgeTurn
    <3>2. LastBoundary' = LastBoundary
      BY <3>1 DEF LastBoundary
    <3> QED BY <1>1, <3>1, <3>2 DEF Ledger, WindowKept, TurnRoom
  <2>3. CASE UsesWindow /\ at # window.ack
    <3> HIDE DEF at
    <3>1. PICK i \in 1..Len(window.boundaries) :
              /\ window.boundaries[i].at = at
              /\ window'.inFlight = window.inFlight - BytesThrough(window.boundaries, i)
              /\ window'.boundaries
                    = SubSeq(window.boundaries, i + 1, Len(window.boundaries))
              /\ window'.ack = at
              /\ window'.currentTurnBytes = window.currentTurnBytes
      BY <1>0, <1>3, <2>3, AcknowledgedWindow
    <3>2. UNCHANGED <<replayBurstActive, pendingTurn, awaitingTurnAck, turnAck>>
      BY <1>3, <2>3 DEF AcknowledgeTurn
    <3> DEFINE b == window.boundaries
               rest == window'.boundaries
               all == BytesThrough(b, Len(b))
               freed == BytesThrough(b, i)
    <3>3. rest = SubSeq(b, i + 1, Len(b)) /\ b \in Seq(Boundary) /\ i \in 1..Len(b)
      BY <1>0, <3>1
    <3>4. Ascending(b, window.ack) /\ Len(b) <= WindowTurns
      BY DEF Ledger, WindowKept
    <3>5. /\ Ascending(rest, b[i].at)
          /\ LastOf(rest, b[i].at) = LastOf(b, window.ack)
          /\ Len(rest) <= Len(b)
      <4> HIDE DEF rest, b
      <4> QED BY <1>0, <3>3, <3>4, AscendingRest
    <3>6. BytesThrough(rest, Len(rest)) = all - freed
      <4> HIDE DEF rest, b
      <4> QED BY <3>3, BytesRest
    <3>7. all \in Int /\ freed \in Int
      <4>1. i \in 0..Len(b) /\ Len(b) \in 0..Len(b)
        BY <3>3
      <4> HIDE DEF b
      <4> QED BY <3>3, <4>1, BytesThroughType
    <3>8. LastBoundary' = LastBoundary
      BY <3>1, <3>5 DEF LastBoundary
    <3>9. window.inFlight = all + window.currentTurnBytes
      BY DEF Ledger, WindowKept
    <3>10. window'.inFlight = BytesThrough(rest, Len(rest)) + window'.currentTurnBytes
      <4>1. window'.inFlight = window.inFlight - freed
        BY <3>1
      <4>2. window'.currentTurnBytes = window.currentTurnBytes
        BY <3>1
      <4> HIDE DEF all, freed, rest
      <4> QED BY <1>0, <3>6, <3>7, <3>9, <4>1, <4>2
    <3>11. Len(rest) <= WindowTurns
      <4>1. Len(rest) \in Nat /\ Len(b) \in Nat
        BY <1>0, <3>3
      <4> HIDE DEF rest, b
      <4> QED BY <1>0, <3>4, <3>5, <4>1
    <3>12. WindowKept'
      BY <1>1, <2>3, <3>1, <3>2, <3>5, <3>8, <3>10, <3>11 DEF Ledger, WindowKept
    <3>13. b # <<>>
      BY <3>3
    <3>14. TurnRoom'
      <4>1. Len(rest) \in Nat /\ Len(b) \in Nat /\ Len(rest) <= Len(b)
        BY <1>0, <3>3, <3>5
      <4>2. ~replayBurstActive /\ pendingTurn.seq = 0
        BY <3>13 DEF Ledger, TurnRoom
      <4>3. ASSUME writerPc = "turn"
            PROVE  /\ ~awaitingTurnAck
                   /\ turn.seq # 0 => /\ LastBoundary.seq < turn.seq
                                      /\ Len(b) < WindowTurns
        BY <4>3 DEF Ledger, TurnRoom
      <4>4. Len(b) < WindowTurns => Len(rest) < WindowTurns
        BY <1>0, <4>1
      <4> QED BY <1>1, <3>2, <3>8, <4>2, <4>3, <4>4 DEF TurnRoom
    <3> QED BY <3>12, <3>14 DEF Ledger
  <2> QED BY <2>1, <2>2, <2>3
<1> QED BY <1>2, <1>3 DEF LoopAck

LEMMA NextLedger ==
    ASSUME TypeInv, Positions, Ledger, [Next]_vars
    PROVE  Ledger'
<1>0. BufferOrder /\ FrameOrder /\ TurnPosition
  BY DEF Positions
<1>1. CASE Reader
  BY <1>0, <1>1, ReaderQueues, QueueLedger
<1>2. CASE LoopPing
  BY <1>2, PingQueues, QueueLedger
<1>3. CASE WriterSend
  BY <1>0, <1>3, SendLedger
<1>4. CASE WriterFinishTurn
  BY <1>0, <1>4, FinishLedger
<1>5. CASE LoopAck
  BY <1>5, AckLedger
<1>6. CASE WriterScan
  <2>1. UNCHANGED turnVars /\ lastSent' = lastSent
    BY <1>6 DEF WriterScan, dataVars
  <2>2. CASE writerPc' = "turn" /\ turn' = Origin
    <3>1. ~awaitingTurnAck
      BY <1>6, <2>2 DEF WriterScan, TargetSequence
    <3>2. UNCHANGED <<window, awaitingTurnAck, turnAck, replayBurstActive, pendingTurn>>
      BY <2>1 DEF turnVars
    <3>3. LastBoundary' = LastBoundary
      BY <3>2 DEF LastBoundary
    <3> QED BY <2>1, <2>2, <3>1, <3>2, <3>3 DEF Ledger, WindowKept, TurnRoom, Origin
  <2>3. CASE writerPc' = "roundEnd" /\ turn' = turn
    BY <2>1, <2>3, LedgerSame
  <2> QED BY <1>6, <2>2, <2>3 DEF WriterScan
<1>7. CASE WriterWake \/ WriterStops \/ WriterRoundEnd
  BY <1>7, LedgerSame DEF WriterWake, WriterStops, WriterRoundEnd, dataVars
<1>8. CASE \/ LoopRegister \/ LoopRun \/ LoopRemove \/ LoopClose \/ LoopDeactivate
           \/ LoopStop \/ StopRuns
           \/ (\E who \in {"reader", "loop"} : Signal(who)) \/ UNCHANGED vars
  <2>1. UNCHANGED <<turnVars, writerVars>>
    BY <1>8 DEF LoopRegister, LoopRun, LoopRemove, LoopClose, LoopDeactivate, LoopStop,
       LoopRest, StopRuns, Signal, vars, dataVars
  <2> QED BY <2>1, LedgerSame DEF writerVars
<1>9. CASE Client
  <2>1. ClientRest
    BY <1>9 DEF Client, ClientReceive, ClientApply, ClientAck, ClientLeave
  <2> QED BY <2>1, LedgerSame DEF ClientRest, dataVars, writerVars
<1> QED BY <1>1, <1>2, <1>3, <1>4, <1>5, <1>6, <1>7, <1>8, <1>9 DEF Next, Writer, Loop

LEMMA InitLedger == Init => Ledger
<1> SUFFICES ASSUME Init PROVE Ledger
  OBVIOUS
<1>1. /\ window = EmptyWindow /\ awaitingTurnAck = FALSE /\ replayBurstActive = FALSE
      /\ pendingTurn = Origin /\ lastSent = Origin /\ writerPc = "parked"
  BY DEF Init
<1>2. LastBoundary = Origin /\ 0 <= WindowTurns
  BY <1>1, WindowNone, ConstantsType DEF LastBoundary
<1> QED BY <1>1, <1>2, WindowNone DEF Ledger, WindowKept, TurnRoom

LedgerInv == TypeInv /\ Positions /\ Ledger

LEMMA LedgerHolds == Spec => []LedgerInv
<1>1. Init => LedgerInv
  BY InitType, InitPositions, InitLedger DEF LedgerInv
<1>2. LedgerInv /\ [Next]_vars => LedgerInv'
  BY NextType, NextPositions, NextLedger DEF LedgerInv
<1> QED BY <1>1, <1>2, PTL DEF Spec

\* The acknowledgement ledger of the window (terminal_queue_flow.go:51-168):
\* what is in flight is what the outstanding boundaries and the turn under way
\* account for, however sends, completed turns, cumulative and repeated
\* acknowledgements and overload interleave, and the boundaries stand in stream
\* order between what was acknowledged and what was sent.
THEOREM WindowAccounted == Spec => []WindowLedger
<1>1. ASSUME LedgerInv PROVE WindowLedger
  <2> DEFINE b == window.boundaries
  <2>1. /\ b \in Seq(Boundary) /\ window.ack \in Position /\ lastSent \in Position
    BY <1>1, TypeParts, WindowType DEF LedgerInv, TurnType, WriterType
  <2>2. /\ window.inFlight = BytesThrough(b, Len(b)) + window.currentTurnBytes
        /\ Ascending(b, window.ack) /\ LastOf(b, window.ack).seq <= lastSent.seq
    BY <1>1 DEF LedgerInv, Ledger, WindowKept, LastBoundary
  <2> HIDE DEF b
  <2>3. /\ \A i \in 1..Len(b) : b[i].at.seq <= LastOf(b, window.ack).seq
        /\ LastOf(b, window.ack).seq \in Nat /\ lastSent.seq \in Nat
    BY <2>1, <2>2, AscendingLast DEF Position
  <2>4. ASSUME NEW i \in 1..Len(b)
        PROVE  /\ b[i].at.seq > IF i = 1 THEN window.ack.seq ELSE b[i - 1].at.seq
               /\ b[i].at.seq <= lastSent.seq
    <3>1. b[i].at.seq \in Nat /\ window.ack.seq < b[i].at.seq
          /\ \A j \in 1..(i - 1) : b[j].at.seq < b[i].at.seq
      BY <2>1, <2>2, BoundaryTypes DEF Ascending
    <3>2. b[i].at.seq <= lastSent.seq
      BY <2>2, <2>3, <3>1
    <3>3. CASE i = 1
      BY <3>1, <3>2, <3>3
    <3>4. CASE i # 1
      <4>1. i - 1 \in 1..(i - 1) /\ i - 1 \in 1..Len(b)
        BY <2>1, <3>4
      <4> QED BY <3>1, <3>2, <3>4, <4>1
    <3> QED BY <3>3, <3>4
  <2> QED BY <2>2, <2>4 DEF WindowLedger, b
<1> QED BY <1>1, LedgerHolds, PTL

\* While an admitted snapshot burst is on its way nothing of it awaits an
\* acknowledgement (terminal_queue_replay.go:25): finishTurn holds its turns
\* until the completion control has been sent.
THEOREM BurstWhole == Spec => []BurstUnacknowledged
<1>1. LedgerInv => BurstUnacknowledged
  BY DEF LedgerInv, Ledger, TurnRoom, BurstUnacknowledged
<1> QED BY <1>1, LedgerHolds, PTL

-----------------------------------------------------------------------------
(* Wakeups.                                                                *)

LEMMA AwakeSame ==
    ASSUME Awake,
           UNCHANGED <<active, registered, wake, signals, dataVars, writerVars>>
    PROVE  Awake'
<1>1. UNCHANGED <<buffer, awaitingTurnAck, window, replayBurstActive, writerPc, target,
                  written, wrote>>
  BY DEF dataVars, bufferVars, turnVars, writerVars
<1>2. Quiet' = Quiet /\ Idling' = Idling
  BY <1>1 DEF Quiet, Idling
<1>3. TargetSequence' = TargetSequence /\ CanPop' = CanPop
  BY <1>1 DEF TargetSequence, CanPop, WindowAllows
<1> QED BY <1>1, <1>2, <1>3 DEF Awake

\* A token in the wake channel, or on its way there, is enough.
LEMMA AwakeLoud ==
    ASSUME Awake, ~Quiet', UNCHANGED writerVars
    PROVE  Awake'
BY DEF Awake, writerVars

\* Whatever is queued is signalled.
LEMMA QueueAwake ==
    ASSUME TypeInv, Awake, NEW who, QueueStep(who),
           UNCHANGED <<registered, active, wake, writerVars>>
    PROVE  Awake'
<1>0. BufferType
  BY TypeParts
<1>1. CASE Drop
  BY <1>1, AwakeSame DEF Drop
<1>2. CASE signals' = signals \cup {who}
  BY <1>2, AwakeLoud DEF Quiet
<1>3. Overload(who) => Drop \/ signals' = signals \cup {who}
  BY DEF Overload
<1>4. ASSUME NEW entry \in Entry, Enqueue(entry, who)
      PROVE  Drop \/ signals' = signals \cup {who}
  BY <1>0, <1>3, <1>4, Queueing
<1> QED BY <1>1, <1>2, <1>3, <1>4 DEF QueueStep

\* What the writer finds to send when it looks, it can send.
LEMMA ScanFinds ==
    ASSUME TypeInv, Counted, WriterScan, writerPc' = "turn"
    PROVE  CanPop' /\ written' = 0
<1>1. /\ TargetSequence # 0 /\ target' = TargetSequence /\ written' = 0
      /\ UNCHANGED <<active, buffer, window, replayBurstActive>>
  BY DEF WriterScan, WriterRest, dataVars, bufferVars, turnVars
<1>2. /\ active /\ buffer # <<>> /\ WindowAllows(Head(buffer))
      /\ target' = buffer[Len(buffer)].seq
  BY <1>1 DEF TargetSequence
<1>3. buffer \in Seq(Entry) /\ nextSequence \in Nat
  BY TypeParts DEF BufferType
<1>4. /\ Len(buffer) \in Nat \ {0} /\ Head(buffer) = buffer[1]
      /\ 1 \in 1..Len(buffer) /\ Len(buffer) \in 1..Len(buffer)
  BY <1>2, <1>3, EmptySeq
<1>5. buffer[1].seq <= buffer[Len(buffer)].seq
  BY <1>3, <1>4 DEF Counted
<1>6. WindowAllows(Head(buffer))'
  BY <1>1, <1>2 DEF WindowAllows
<1> QED BY <1>1, <1>2, <1>4, <1>5, <1>6 DEF CanPop

LEMMA NextAwake ==
    ASSUME TypeInv, Counted, FrameOrder, Awake, [Next]_vars
    PROVE  Awake'
<1>1. CASE Reader
  BY <1>1, ReaderQueues, QueueAwake
<1>2. CASE LoopPing
  BY <1>2, PingQueues, QueueAwake
<1>3. CASE WriterWake \/ WriterStops
  BY <1>3 DEF WriterWake, WriterStops, Awake, Idling
<1>4. CASE WriterScan
  <2>1. UNCHANGED <<registered, active, buffer, awaitingTurnAck, window, replayBurstActive>>
    BY <1>4 DEF WriterScan, WriterRest, dataVars, bufferVars, turnVars
  <2>2. TargetSequence' = TargetSequence
    BY <2>1 DEF TargetSequence, WindowAllows
  <2>3. CASE writerPc' = "turn"
    BY <1>4, <2>3, ScanFinds DEF Awake, Idling
  <2>4. CASE writerPc' = "roundEnd" /\ (registered => TargetSequence = 0)
    BY <2>1, <2>2, <2>4 DEF Awake, Quiet
  <2> QED BY <1>4, <2>3, <2>4 DEF WriterScan
<1>5. CASE WriterSend
  BY <1>5 DEF WriterSend, Write, Awake, Idling
<1>6. CASE WriterFinishTurn
  <2>1. /\ writerPc = "turn" /\ (~CanPop \/ written > 0) /\ writerPc' \in {"roundEnd", "done"}
        /\ UNCHANGED <<wrote, wake, signals, registered, active>>
    BY <1>6, FinishFacts DEF WriterRest, TurnCut, TurnKept, TurnCompleted, Write
  <2>2. Quiet' = Quiet
    BY <2>1 DEF Quiet
  <2>3. ~wrote /\ Quiet => ~active
    BY <2>1 DEF Awake
  <2>4. ~active' => TargetSequence' = 0
    BY DEF TargetSequence
  <2> QED BY <2>1, <2>2, <2>3, <2>4 DEF Awake, Idling
<1>7. CASE WriterRoundEnd
  <2>1. /\ writerPc = "roundEnd" /\ writerPc' \in {"scan", "parked"}
        /\ writerPc' = "parked" => ~wrote
        /\ UNCHANGED <<active, registered, wake, signals, buffer, awaitingTurnAck, window,
                       replayBurstActive>>
    BY <1>7 DEF WriterRoundEnd, NextRound, WriterRest, dataVars, bufferVars, turnVars
  <2>2. TargetSequence' = TargetSequence /\ Quiet' = Quiet
    BY <2>1 DEF TargetSequence, WindowAllows, Quiet
  <2> QED BY <2>1, <2>2 DEF Awake, Idling
<1>8. CASE LoopRegister
  BY <1>8, AwakeLoud DEF LoopRegister, LoopRest, SignalsOfLoop, Quiet
<1>9. CASE LoopAck
  <2>1. UNCHANGED <<active, registered, wake, writerVars, bufferVars>>
    BY <1>9 DEF LoopAck, LoopRest, lifeVars
  <2>2. CASE signals' = SignalsOfLoop
    BY <2>1, <2>2, AwakeLoud DEF SignalsOfLoop, Quiet
  <2>3. CASE UNCHANGED <<turnVars, signals>>
    BY <2>1, <2>3, AwakeSame DEF dataVars
  <2> QED BY <1>9, <2>2, <2>3 DEF LoopAck
<1>10. CASE LoopRemove \/ LoopClose
  BY <1>10, AwakeLoud DEF LoopRemove, LoopClose, LoopRest, Quiet
<1>11. CASE LoopDeactivate
  <2>1. ~active' /\ UNCHANGED writerVars
    BY <1>11 DEF LoopDeactivate, LoopRest
  <2>2. TargetSequence' = 0
    BY <2>1 DEF TargetSequence
  <2> QED BY <2>1, <2>2 DEF Awake, writerVars
<1>12. CASE \E who \in {"reader", "loop"} : Signal(who)
  BY <1>12, AwakeLoud DEF Signal, Quiet
<1>13. CASE LoopRun \/ LoopStop \/ StopRuns \/ UNCHANGED vars
  BY <1>13, AwakeSame DEF LoopRun, LoopStop, LoopRest, StopRuns, vars, lifeVars, wakeVars
<1>14. CASE Client
  <2>1. ClientRest
    BY <1>14 DEF Client, ClientReceive, ClientApply, ClientAck, ClientLeave
  <2> QED BY <2>1, AwakeSame DEF ClientRest, lifeVars, wakeVars
<1> QED BY <1>1, <1>2, <1>3, <1>4, <1>5, <1>6, <1>7, <1>8, <1>9, <1>10, <1>11, <1>12,
           <1>13, <1>14 DEF Next, Writer, Loop

AwakeInv == TypeInv /\ FrameOrder /\ Counted /\ Awake

\* The writer never sleeps on output it could send (terminal_queue.go:
\* signalWriter and RunWriter): whatever is queued, acknowledged or registered
\* while the writer works leaves a token behind it.
THEOREM WakeupsKept == Spec => []NoLostWakeup
<1>1. Init => AwakeInv
  <2>1. Init => FrameOrder /\ Awake
    BY DEF Init, FrameOrder, Awake, Quiet
  <2> QED BY <2>1, InitType, InitCounted DEF AwakeInv
<1>2. AwakeInv /\ [Next]_vars => AwakeInv'
  BY NextType, NextCounted, NextFrames, NextAwake DEF AwakeInv
<1>3. AwakeInv => NoLostWakeup
  BY DEF AwakeInv, Awake, Quiet, Idling, NoLostWakeup
<1> QED BY <1>1, <1>2, <1>3, PTL DEF Spec

-----------------------------------------------------------------------------
(* Sequences that lose their head or gain a last element.                  *)

LEMMA TailFacts ==
    ASSUME NEW S, NEW q \in Seq(S), q # <<>>
    PROVE  /\ Head(q) = q[1] /\ 1 \in 1..Len(q) /\ Tail(q) \in Seq(S) /\ Len(q) \in Nat
           /\ Len(Tail(q)) = Len(q) - 1
           /\ \A i \in 1..Len(Tail(q)) : i + 1 \in 1..Len(q) /\ Tail(q)[i] = q[i + 1]
           /\ \A i \in 1..Len(q) :
                 i = 1 \/ (i - 1 \in 1..Len(Tail(q)) /\ Tail(q)[i - 1] = q[i])
<1> DEFINE rest == Tail(q)
<1>1. /\ Head(q) = q[1] /\ Len(q) \in Nat \ {0} /\ rest \in Seq(S)
      /\ Len(rest) = Len(q) - 1
      /\ \A i \in 1..(Len(q) - 1) : rest[i] = q[i + 1]
  BY EmptySeq, HeadTailProperties
<1> HIDE DEF rest
<1>2. \A i \in 1..Len(q) : i = 1 \/ (i - 1 \in 1..Len(rest) /\ (i - 1) + 1 = i)
  BY <1>1
<1>3. \A i \in 1..Len(rest) : i + 1 \in 1..Len(q) /\ rest[i] = q[i + 1]
  BY <1>1
<1>4. \A i \in 1..Len(q) : i = 1 \/ (i - 1 \in 1..Len(rest) /\ rest[i - 1] = q[i])
  <2>1. TAKE i \in 1..Len(q)
  <2>2. CASE i # 1
    <3>1. i - 1 \in 1..Len(rest) /\ (i - 1) + 1 = i
      BY <1>2, <2>2
    <3> QED BY <1>3, <3>1
  <2> QED BY <2>2
<1> QED BY <1>1, <1>3, <1>4 DEF rest

LEMMA AppendFacts ==
    ASSUME NEW S, NEW q \in Seq(S), NEW e \in S
    PROVE  /\ Append(q, e) \in Seq(S) /\ Len(q) \in Nat /\ Len(Append(q, e)) = Len(q) + 1
           /\ Len(q) + 1 \in 1..Len(Append(q, e)) /\ Append(q, e)[Len(q) + 1] = e
           /\ \A i \in 1..Len(q) : i \in 1..Len(Append(q, e)) /\ Append(q, e)[i] = q[i]
           /\ \A i \in 1..Len(Append(q, e)) : i = Len(q) + 1 \/ i \in 1..Len(q)
<1> DEFINE longer == Append(q, e)
<1>1. /\ longer \in Seq(S) /\ Len(q) \in Nat /\ Len(longer) = Len(q) + 1
      /\ longer[Len(q) + 1] = e
      /\ \A i \in 1..Len(q) : longer[i] = q[i]
  OBVIOUS
<1> HIDE DEF longer
<1>2. /\ Len(q) + 1 \in 1..Len(longer)
      /\ \A i \in 1..Len(q) : i \in 1..Len(longer)
      /\ \A i \in 1..Len(longer) : i = Len(q) + 1 \/ i \in 1..Len(q)
  BY <1>1
<1> QED BY <1>1, <1>2 DEF longer

\* A sequence of n elements holds at most n different ones.
LEMMA ImageBound ==
    ASSUME NEW n \in Nat, NEW f, f = [i \in 1..n |-> f[i]],
           NEW T, T = {f[i] : i \in 1..n}
    PROVE  IsFiniteSet(T) /\ Cardinality(T) <= n /\ Cardinality(T) \in Nat
<1>1. f \in Surjection(1..n, T)
  BY DEF Surjection
<1>2. IsFiniteSet(1..n) /\ Cardinality(1..n) = n
  <2>1. 1 \in Int /\ n \in Int /\ (IF 1 > n THEN 0 ELSE n - 1 + 1) = n
    OBVIOUS
  <2> QED BY <2>1, FS_Interval
<1> QED BY <1>1, <1>2, FS_Surjection, FS_CardinalityType

LEMMA BoundarySet ==
    ASSUME NEW b \in Seq(Boundary)
    PROVE  /\ IsFiniteSet({b[i].at : i \in 1..Len(b)})
           /\ Cardinality({b[i].at : i \in 1..Len(b)}) <= Len(b)
<1> DEFINE f == [i \in 1..Len(b) |-> b[i].at]
<1>1. /\ Len(b) \in Nat /\ f = [i \in 1..Len(b) |-> f[i]]
      /\ {b[i].at : i \in 1..Len(b)} = {f[i] : i \in 1..Len(b)}
  OBVIOUS
<1> HIDE DEF f
<1> QED BY <1>1, ImageBound

-----------------------------------------------------------------------------
(* What the browser holds and what it has acknowledged.                    *)

LEMMA HeldFinite ==
    ASSUME WireType, ClientType
    PROVE  IsFiniteSet(Held) /\ Cardinality(Held) \in Nat
<1> DEFINE A == {clientBoundaries[i] : i \in 1..Len(clientBoundaries)}
           f == [i \in 1..Len(wire) |-> wire[i].after]
           B == {f[i] : i \in 1..Len(wire)}
<1>1. Len(clientBoundaries) \in Nat /\ Len(wire) \in Nat
      /\ clientBoundaries = [i \in 1..Len(clientBoundaries) |-> clientBoundaries[i]]
      /\ f = [i \in 1..Len(wire) |-> f[i]]
  BY DEF WireType, ClientType
<1>2. Held \subseteq A \cup B
  BY DEF Held, Ends
<1>3. IsFiniteSet(A)
  BY <1>1, ImageBound
<1>4. IsFiniteSet(B)
  <2> HIDE DEF f
  <2> QED BY <1>1, ImageBound
<1> HIDE DEF A, B
<1>5. IsFiniteSet(A \cup B)
  BY <1>3, <1>4, FS_Union
<1> QED BY <1>2, <1>5, FS_Subset, FS_CardinalityType

\* A message that does not end a turn changes nothing of what the browser holds.
LEMMA HeldSame ==
    ASSUME WireType, NEW m \in Message, wire' = wire \/ wire' = Append(wire, m),
           m.type # "turn-complete", UNCHANGED clientBoundaries
    PROVE  /\ Held' = Held /\ Ends' = Ends
           /\ \A i \in Ends : wire'[i] = wire[i]
<1>1. wire \in Seq(Message)
  BY DEF WireType
<1>2. CASE wire' = wire
  BY <1>2 DEF Held, Ends
<1>3. CASE wire' = Append(wire, m)
  <2>1. /\ Len(wire) \in Nat /\ Len(wire') = Len(wire) + 1 /\ wire'[Len(wire) + 1] = m
        /\ \A i \in 1..Len(wire) : i \in 1..Len(wire') /\ wire'[i] = wire[i]
        /\ \A i \in 1..Len(wire') : i = Len(wire) + 1 \/ i \in 1..Len(wire)
    BY <1>1, <1>3, AppendFacts
  <2>2. Ends' = Ends /\ \A i \in Ends : wire'[i] = wire[i]
    BY <2>1 DEF Ends
  <2> QED BY <2>2 DEF Held
<1> QED BY <1>2, <1>3

\* What the browser receives of a turn's end it holds from then on.
LEMMA HeldReceived ==
    ASSUME TypeInv, ClientReceive, clientState' = "open", Acking, HeldInOrder
    PROVE  Held' \subseteq Held /\ HeldInOrder'
<1> DEFINE cb == clientBoundaries
<1>0. /\ wire \in Seq(Message) /\ cb \in Seq(Position) /\ Len(cb) \in Nat
  BY TypeParts DEF WireType, ClientType
<1>1. /\ clientState = "open" /\ wire # <<>> /\ wire' = Tail(wire)
      /\ cb' = IF Head(wire).type # "turn-complete" THEN cb
               ELSE IF UsesWindow THEN Append(cb, Head(wire).after)
               ELSE <<Head(wire).after>>
  BY DEF ClientReceive, Acking
<1>2. /\ Head(wire) = wire[1] /\ 1 \in 1..Len(wire)
      /\ \A i \in 1..Len(wire') : i + 1 \in 1..Len(wire) /\ wire'[i] = wire[i + 1]
      /\ Len(wire) \in Nat /\ Len(wire') = Len(wire) - 1
      /\ \A i \in 1..Len(wire) : i = 1 \/ (i - 1 \in 1..Len(wire') /\ wire'[i - 1] = wire[i])
  BY <1>0, <1>1, TailFacts
<1>3. /\ \A i \in Ends' : i + 1 \in Ends /\ wire'[i] = wire[i + 1] /\ i \in Nat
      /\ 1 \in Ends <=> Head(wire).type = "turn-complete"
      /\ \A i \in Ends : i \in Nat
  BY <1>2 DEF Ends
<1>4. /\ \A i \in 1..Len(cb) :
            /\ \A j \in 1..(i - 1) : cb[j].seq < cb[i].seq
            /\ \A j \in Ends : cb[i].seq < wire[j].after.seq
      /\ \A i \in Ends, j \in Ends : i < j => wire[i].after.seq < wire[j].after.seq
      /\ Cardinality(Held) <= IF UsesWindow THEN WindowTurns ELSE 1
  BY <1>1 DEF HeldInOrder
<1>5. ASSUME Held' \subseteq Held
      PROVE  Cardinality(Held') <= IF UsesWindow THEN WindowTurns ELSE 1
  <2>1. Cardinality(Held') <= Cardinality(Held) /\ Cardinality(Held) \in Nat
        /\ Cardinality(Held') \in Nat
    BY <1>5, HeldFinite, TypeParts, FS_Subset, FS_CardinalityType
  <2>2. WindowTurns \in Nat
    BY ConstantsType
  <2> QED BY <1>4, <2>1, <2>2
<1>6. \A i \in Ends', j \in Ends' : i < j => wire'[i].after.seq < wire'[j].after.seq
  BY <1>3, <1>4
<1>7. ASSUME NEW c, c \in {cb[i] : i \in 1..Len(cb)}
      PROVE  c \in Held
  BY <1>7 DEF Held
<1>8. {wire'[i].after : i \in Ends'} \subseteq Held
  BY <1>3 DEF Held
<1>9. CASE cb' = cb
  <2>1. Held' \subseteq Held
    BY <1>7, <1>8, <1>9 DEF Held
  <2>2. \A i \in 1..Len(cb) : \A j \in Ends' : cb[i].seq < wire'[j].after.seq
    BY <1>3, <1>4
  <2> QED BY <1>4, <1>5, <1>6, <1>9, <2>1, <2>2 DEF HeldInOrder
<1>10. CASE Head(wire).type = "turn-complete" /\ ~UsesWindow /\ cb' = <<Head(wire).after>>
  <2>1. 1 \in Ends /\ Len(cb') = 1 /\ cb'[1] = wire[1].after
    BY <1>2, <1>3, <1>10
  <2>2. wire[1].after \in Held
    BY <2>1 DEF Held
  <2>3. Held' \subseteq Held
    <3>1. \A i \in 1..Len(cb') : cb'[i] \in Held
      BY <2>1, <2>2
    <3> QED BY <1>8, <3>1 DEF Held
  <2>4. \A j \in Ends' : wire[1].after.seq < wire'[j].after.seq
    <3>1. \A j \in Ends' : j + 1 \in Ends /\ 1 < j + 1
      BY <1>3 DEF Ends
    <3> QED BY <1>3, <1>4, <2>1, <3>1
  <2>5. \A i \in 1..Len(cb') : i = 1 /\ \A j \in 1..(i - 1) : FALSE
    BY <2>1
  <2> QED BY <1>5, <1>6, <1>10, <2>1, <2>3, <2>4, <2>5 DEF HeldInOrder
<1>11. CASE Head(wire).type = "turn-complete" /\ cb' = Append(cb, Head(wire).after)
  <2>1. 1 \in Ends /\ wire[1].after \in Position
    <3>1. wire[1] \in Message
      BY <1>0, <1>2
    <3> QED BY <1>3, <1>11, <3>1 DEF Message
  <2>2. /\ Len(cb') = Len(cb) + 1 /\ cb'[Len(cb) + 1] = wire[1].after
        /\ \A i \in 1..Len(cb) : cb'[i] = cb[i]
        /\ \A i \in 1..Len(cb') : i = Len(cb) + 1 \/ i \in 1..Len(cb)
    BY <1>0, <1>2, <1>11, <2>1, AppendFacts
  <2>3. wire[1].after \in Held
    BY <2>1 DEF Held
  <2>4. Held' \subseteq Held
    <3>1. \A i \in 1..Len(cb') : cb'[i] \in Held
      BY <1>7, <2>2, <2>3
    <3> QED BY <1>8, <3>1 DEF Held
  <2>5. \A j \in Ends' : wire[1].after.seq < wire'[j].after.seq
    <3>1. \A j \in Ends' : j + 1 \in Ends /\ 1 < j + 1
      BY <1>3 DEF Ends
    <3> QED BY <1>3, <1>4, <2>1, <3>1
  <2>6. ASSUME NEW i \in 1..Len(cb')
        PROVE  /\ \A j \in 1..(i - 1) : cb'[j].seq < cb'[i].seq
               /\ \A j \in Ends' : cb'[i].seq < wire'[j].after.seq
    <3>1. CASE i = Len(cb) + 1
      <4>1. \A j \in 1..(i - 1) : j \in 1..Len(cb)
        BY <1>0, <3>1
      <4> QED BY <1>4, <2>1, <2>2, <2>5, <3>1, <4>1
    <3>2. CASE i \in 1..Len(cb)
      <4>1. \A j \in 1..(i - 1) : j \in 1..Len(cb)
        BY <1>0, <3>2
      <4> QED BY <1>3, <1>4, <2>2, <3>2, <4>1
    <3> QED BY <2>2, <3>1, <3>2
  <2> QED BY <1>5, <1>6, <2>4, <2>6 DEF HeldInOrder
<1> QED BY <1>1, <1>9, <1>10, <1>11

LEMMA FlowModes ==
    /\ UsesWindow => Acking /\ FlowControl # "turn-ack-v1"
    /\ FlowControl = "turn-ack-v1" => Acking /\ ~UsesWindow
    /\ Acking /\ ~UsesWindow => FlowControl = "turn-ack-v1"
BY ConstantsAssumption DEF ConstantsAssumption, UsesWindow, Acking

\* A turn is completed beyond everything the broker waits for.
LEMMA CompletedBeyond ==
    ASSUME TypeInv, TurnPosition, Ledger, writerPc = "turn", TurnCompleted, Acking
    PROVE  /\ DoneTurn \in Position
           /\ \A o \in Outstanding : o.seq < DoneTurn.seq
           /\ Outstanding' = Outstanding \cup {DoneTurn}
           /\ IsFiniteSet(Outstanding')
           /\ Cardinality(Outstanding') <= IF UsesWindow THEN WindowTurns ELSE 1
<1> DEFINE b == window.boundaries
           e == [at |-> DoneTurn, bytes |-> window.currentTurnBytes]
<1>0. /\ TurnType /\ pendingTurn \in Position /\ turn \in Position
      /\ window \in Window /\ b \in Seq(Boundary) /\ window.ack \in Position
      /\ WindowTurns \in Nat \ {0}
  BY TypeParts, WindowType, ConstantsType DEF WriterType, TurnType
<1>1. DoneTurn \in Position /\ DoneTurn.seq # 0 /\ DoneTurn.seq \in Nat
  <2>1. DoneTurn \in Position /\ DoneTurn.seq # 0
    BY DoneIsLast DEF TurnCompleted
  <2> QED BY <2>1 DEF Position
<1>2. ~awaitingTurnAck
  BY DEF Ledger, TurnRoom
<1>3. CASE UsesWindow
  <2>1. /\ e \in Boundary /\ window'.boundaries = Append(b, e)
    BY <1>0, <1>1, <1>3, CompletedWindow
  <2>2. Ascending(b, window.ack) /\ Len(b) <= WindowTurns
    BY DEF Ledger, WindowKept
  <2>3. LastBoundary.seq < DoneTurn.seq /\ Len(b) < WindowTurns
    <3>1. CASE turn.seq # 0
      BY <3>1 DEF Ledger, TurnRoom, DoneTurn
    <3>2. CASE turn.seq = 0
      <4>1. pendingTurn.seq # 0
        BY <1>1, <3>2 DEF DoneTurn
      <4>2. b = <<>> /\ window.ack.seq = 0
        BY <4>1 DEF Ledger, TurnRoom
      <4>3. LastBoundary.seq = 0 /\ Len(b) = 0
        BY <4>2 DEF LastBoundary, LastOf
      <4> QED BY <1>0, <1>1, <4>3
    <3> QED BY <3>1, <3>2
  <2>4. \A i \in 1..Len(b) : b[i].at.seq < DoneTurn.seq
    <3>1. /\ \A i \in 1..Len(b) : b[i].at.seq <= LastBoundary.seq
          /\ LastBoundary.seq \in Nat
      BY <1>0, <2>2, AscendingLast DEF LastBoundary, Position
    <3>2. \A i \in 1..Len(b) : b[i].at.seq \in Nat
      BY <1>0, BoundaryTypes
    <3> HIDE DEF b
    <3> QED BY <1>1, <2>3, <3>1, <3>2
  <2>5. Outstanding = {b[i].at : i \in 1..Len(b)}
        /\ Outstanding' = {window'.boundaries[i].at : i \in 1..Len(window'.boundaries)}
    BY <1>3 DEF Outstanding
  <2> DEFINE longer == window'.boundaries
  <2>6. /\ longer = Append(b, e) /\ longer \in Seq(Boundary) /\ Len(longer) = Len(b) + 1
        /\ Len(b) + 1 \in 1..Len(longer) /\ longer[Len(b) + 1] = e
        /\ \A i \in 1..Len(b) : i \in 1..Len(longer) /\ longer[i] = b[i]
        /\ \A i \in 1..Len(longer) : i = Len(b) + 1 \/ i \in 1..Len(b)
    BY <1>0, <2>1, AppendFacts
  <2>7. e.at = DoneTurn
    OBVIOUS
  <2> HIDE DEF longer, e, b
  <2>8. {longer[i].at : i \in 1..Len(longer)} = {b[i].at : i \in 1..Len(b)} \cup {DoneTurn}
    BY <2>6, <2>7
  <2>9. /\ IsFiniteSet({longer[i].at : i \in 1..Len(longer)})
        /\ Cardinality({longer[i].at : i \in 1..Len(longer)}) <= Len(longer)
    BY <2>6, BoundarySet
  <2>10. Outstanding' = Outstanding \cup {DoneTurn} /\ IsFiniteSet(Outstanding')
    BY <2>5, <2>8, <2>9 DEF longer
  <2>11. Cardinality(Outstanding') <= WindowTurns
    <3>1. Cardinality(Outstanding') <= Len(b) + 1 /\ Cardinality(Outstanding') \in Nat
      BY <2>5, <2>6, <2>9, <2>10, FS_CardinalityType DEF longer
    <3>2. Len(b) \in Nat
      BY <1>0
    <3> QED BY <1>0, <2>3, <3>1, <3>2
  <2> QED BY <1>1, <1>3, <2>4, <2>5, <2>10, <2>11
<1>4. CASE ~UsesWindow
  <2>1. awaitingTurnAck' /\ turnAck' = DoneTurn
    BY <1>4, FlowModes DEF TurnCompleted
  <2>2. Outstanding = {} /\ Outstanding' = {DoneTurn}
    BY <1>2, <1>4, <2>1 DEF Outstanding
  <2>3. IsFiniteSet(Outstanding') /\ Cardinality(Outstanding') = 1
    BY <2>2, FS_Singleton
  <2> QED BY <1>1, <1>4, <2>2, <2>3
<1> QED BY <1>3, <1>4

\* The browser learns of a completed turn by its control on the wire.
LEMMA HeldCompleted ==
    ASSUME TypeInv, TurnPosition, Ledger, Membership, AcksOwed, HeldInOrder,
           WriterFinishTurn, TurnCompleted, Acking
    PROVE  AcksOwed' /\ HeldInOrder'
<1> DEFINE cb == clientBoundaries
           bound == IF UsesWindow THEN WindowTurns ELSE 1
           m == [type |-> "turn-complete", before |-> DoneTurn, after |-> DoneTurn]
<1>0. /\ wire \in Seq(Message) /\ writerPc = "turn" /\ ~overloaded
      /\ UNCHANGED <<registered, loopPc, overloaded, upstream, clientState, clientBoundaries>>
  BY TypeParts, FinishFacts DEF WireType, WriterRest, loopVars, clientVars, bufferVars,
     TurnCompleted
<1>1. /\ DoneTurn \in Position
      /\ \A o \in Outstanding : o.seq < DoneTurn.seq
      /\ Outstanding' = Outstanding \cup {DoneTurn}
      /\ IsFiniteSet(Outstanding') /\ Cardinality(Outstanding') <= bound
  BY <1>0, CompletedBeyond
<1>2. Alive' = Alive /\ Acks' = Acks
  BY <1>0 DEF Alive, Acks
<1>3. clientState = "open" => Alive
  BY <1>0 DEF Membership, Alive
<1>4. wire' = wire \/ wire' = Append(wire, m)
  BY DEF TurnCompleted, Write
<1>5. m \in Message /\ m.type = "turn-complete" /\ m.after = DoneTurn
  BY <1>1 DEF Message
<1> HIDE DEF m
<1>6. /\ \A i \in Ends : i \in Ends' /\ wire'[i] = wire[i]
      /\ \A i \in Ends' : \/ i \in Ends
                          \/ wire'[i].after = DoneTurn /\ \A j \in Ends : j < i
      /\ \A i \in Ends' : i \in Nat
      /\ \A i \in Ends', j \in Ends' : i < j => i \in Ends
  <2>1. CASE wire' = wire
    BY <1>0, <2>1 DEF Ends
  <2>2. CASE wire' = Append(wire, m)
    <3>1. /\ Len(wire) \in Nat /\ Len(wire') = Len(wire) + 1 /\ wire'[Len(wire) + 1] = m
          /\ \A i \in 1..Len(wire) : i \in 1..Len(wire') /\ wire'[i] = wire[i]
          /\ \A i \in 1..Len(wire') : i = Len(wire) + 1 \/ i \in 1..Len(wire)
      BY <1>0, <1>5, <2>2, AppendFacts
    <3>2. \A i \in Ends' : i = Len(wire) + 1 \/ i \in Ends
      BY <3>1 DEF Ends
    <3>3. \A i \in Ends : i \in Ends' /\ wire'[i] = wire[i] /\ i < Len(wire) + 1
      BY <3>1 DEF Ends
    <3>4. \A i \in Ends' : i \in Nat /\ i <= Len(wire) + 1
      BY <3>1 DEF Ends
    <3> QED BY <1>5, <3>1, <3>2, <3>3, <3>4
  <2> QED BY <1>4, <2>1, <2>2
<1>7. Held' \subseteq Held \cup {DoneTurn}
  <2>1. \A i \in Ends' : wire'[i].after \in {wire[j].after : j \in Ends} \cup {DoneTurn}
    BY <1>6
  <2> QED BY <1>0, <2>1 DEF Held
<1>8. AcksOwed'
  <2>1. ASSUME Alive
        PROVE  /\ \A i \in Acks :
                     /\ upstream[i].at \in Outstanding
                     /\ \A j \in Acks : j < i => upstream[j].at.seq < upstream[i].at.seq
               /\ clientState = "open" =>
                     /\ Held \subseteq Outstanding
                     /\ \A i \in Acks, h \in Held : upstream[i].at.seq < h.seq
    BY <2>1 DEF AcksOwed
  <2> QED BY <1>0, <1>1, <1>2, <1>7, <2>1 DEF AcksOwed
<1>9. HeldInOrder'
  <2>1. SUFFICES ASSUME clientState = "open"
                 PROVE  /\ \A i \in 1..Len(cb) :
                              /\ \A j \in 1..(i - 1) : cb[j].seq < cb[i].seq
                              /\ \A j \in Ends' : cb[i].seq < wire'[j].after.seq
                        /\ \A i \in Ends', j \in Ends' :
                              i < j => wire'[i].after.seq < wire'[j].after.seq
                        /\ Cardinality(Held') <= bound
    BY <1>0 DEF HeldInOrder
  <2>2. /\ \A i \in 1..Len(cb) :
              /\ \A j \in 1..(i - 1) : cb[j].seq < cb[i].seq
              /\ \A j \in Ends : cb[i].seq < wire[j].after.seq
        /\ \A i \in Ends, j \in Ends : i < j => wire[i].after.seq < wire[j].after.seq
    BY <2>1 DEF HeldInOrder
  <2>3. Held \subseteq Outstanding
    BY <1>3, <2>1 DEF AcksOwed
  <2>4. \A h \in Held : h.seq < DoneTurn.seq
    BY <1>1, <2>3
  <2>5. /\ \A i \in 1..Len(cb) : cb[i].seq < DoneTurn.seq
        /\ \A i \in Ends : wire[i].after.seq < DoneTurn.seq
    BY <2>4 DEF Held
  <2>6. \A i \in 1..Len(cb) : \A j \in Ends' : cb[i].seq < wire'[j].after.seq
    BY <1>6, <2>2, <2>5
  <2>7. ASSUME NEW i \in Ends', NEW j \in Ends', i < j
        PROVE  wire'[i].after.seq < wire'[j].after.seq
    BY <1>6, <2>2, <2>5, <2>7
  <2>8. Cardinality(Held') <= bound
    <3>1. Held' \subseteq Outstanding'
      BY <1>1, <1>7, <2>3
    <3>2. /\ Cardinality(Held') <= Cardinality(Outstanding')
          /\ Cardinality(Held') \in Nat /\ Cardinality(Outstanding') \in Nat
      BY <1>1, <3>1, FS_Subset, FS_CardinalityType
    <3>3. bound \in Nat
      BY ConstantsType
    <3> QED BY <1>1, <3>2, <3>3
  <2> QED BY <2>2, <2>6, <2>7, <2>8
<1> QED BY <1>8, <1>9

\* What is owed stays owed while the broker waits for no less.
LEMMA OwedKept ==
    ASSUME AcksOwed, Alive' => Alive, Outstanding \subseteq Outstanding',
           UNCHANGED upstream, Held' \subseteq Held,
           clientState' = "open" => clientState = "open"
    PROVE  AcksOwed'
<1>1. Acks' = Acks
  BY DEF Acks
<1> QED BY <1>1 DEF AcksOwed

LEMMA HeldKept ==
    ASSUME WireType, HeldInOrder, NEW m \in Message,
           wire' = wire \/ wire' = Append(wire, m), m.type # "turn-complete",
           UNCHANGED <<clientBoundaries, clientState>>
    PROVE  HeldInOrder' /\ Held' = Held
<1>1. Held' = Held /\ Ends' = Ends /\ \A i \in Ends : wire'[i] = wire[i]
  BY HeldSame
<1> QED BY <1>1 DEF HeldInOrder

\* Steps that leave the wire, the browser and the broker's window alone.
LEMMA OwedSame ==
    ASSUME AcksOwed, HeldInOrder, Alive' => Alive, UNCHANGED socketVars,
           Alive' => UNCHANGED <<window, awaitingTurnAck, turnAck>>
    PROVE  AcksOwed' /\ HeldInOrder'
<1>1. UNCHANGED <<wire, upstream, clientState, clientBoundaries>>
  BY DEF socketVars, clientVars
<1>2. Held' = Held /\ Ends' = Ends /\ Acks' = Acks
  BY <1>1 DEF Held, Ends, Acks
<1>3. Alive' => Outstanding' = Outstanding
  BY DEF Outstanding
<1>4. AcksOwed'
  BY <1>1, <1>2, <1>3 DEF AcksOwed
<1>5. HeldInOrder'
  BY <1>1, <1>2 DEF HeldInOrder
<1> QED BY <1>4, <1>5

\* What lies beyond an acknowledged boundary is still awaited.
LEMMA AwaitedBeyond ==
    ASSUME TypeInv, Ledger, Acking, NEW at \in Outstanding, AcknowledgeTurn(at)
    PROVE  /\ AckMatches(at)
           /\ \A o \in Outstanding : at.seq < o.seq => o \in Outstanding'
<1> DEFINE b == window.boundaries
<1>0. /\ TurnType /\ window \in Window /\ b \in Seq(Boundary) /\ turnAck.seq \in Nat
  <2>1. turnAck \in Position /\ TurnType /\ window \in Window
    BY TypeParts DEF TurnType
  <2> QED BY <2>1, WindowType DEF Position
<1>1. CASE UsesWindow
  <2>1. Outstanding = {b[i].at : i \in 1..Len(b)}
        /\ Outstanding' = {window'.boundaries[i].at : i \in 1..Len(window'.boundaries)}
    BY <1>1 DEF Outstanding
  <2>2. AckMatches(at)
    BY <1>1, <2>1 DEF AckMatches
  <2>3. CASE at = window.ack
    BY <1>1, <2>1, <2>2, <2>3 DEF AcknowledgeTurn
  <2>4. CASE at # window.ack
    <3>1. PICK i \in 1..Len(b) : /\ b[i].at = at
                                 /\ window'.boundaries = SubSeq(b, i + 1, Len(b))
      BY <1>0, <1>1, <2>2, <2>4, AcknowledgedWindow
    <3> DEFINE rest == window'.boundaries
    <3>2. /\ Len(b) \in Nat /\ Len(rest) = Len(b) - i
          /\ \A j \in 1..(Len(b) - i) : rest[j] = b[j + i]
      <4>1. rest = SubSeq(b, i + 1, Len(b)) /\ b \in Seq(Boundary) /\ i \in 1..Len(b)
        BY <1>0, <3>1
      <4> HIDE DEF rest, b
      <4> QED BY <4>1
    <3>3. ASSUME NEW j \in 1..Len(b), at.seq < b[j].at.seq
          PROVE  j - i \in 1..Len(rest) /\ rest[j - i] = b[j]
      <4>1. Ascending(b, window.ack)
        BY DEF Ledger, WindowKept
      <4>2. b[j].at.seq \in Nat /\ at.seq \in Nat
        BY <1>0, <3>1, BoundaryTypes
      <4>3. i < j
        <5>1. ASSUME j < i PROVE FALSE
          <6>1. j \in 1..(i - 1)
            BY <3>2, <5>1
          <6>2. b[j].at.seq < at.seq
            BY <3>1, <4>1, <6>1 DEF Ascending
          <6> QED BY <3>3, <4>2, <6>2
        <5>2. ASSUME j = i PROVE FALSE
          BY <3>1, <3>3, <4>2, <5>2
        <5> QED BY <3>2, <5>1, <5>2
      <4>4. j - i \in 1..(Len(b) - i) /\ (j - i) + i = j
        BY <3>2, <4>3
      <4> QED BY <3>2, <4>4
    <3> HIDE DEF rest
    <3>4. Outstanding' = {rest[k].at : k \in 1..Len(rest)}
      BY <2>1 DEF rest
    <3> QED BY <2>1, <2>2, <3>3, <3>4
  <2> QED BY <2>3, <2>4
<1>2. CASE ~UsesWindow
  <2>1. awaitingTurnAck /\ at = turnAck /\ Outstanding = {turnAck}
    BY <1>2 DEF Outstanding
  <2>2. AckMatches(at)
    BY <1>2, <2>1, FlowModes DEF AckMatches
  <2> QED BY <1>0, <2>1, <2>2
<1> QED BY <1>1, <1>2

\* Whoever is waited for matches.
LEMMA AwaitedMatches ==
    ASSUME Acking, NEW at \in Outstanding
    PROVE  AckMatches(at)
<1>1. CASE UsesWindow
  BY <1>1 DEF Outstanding, AckMatches
<1>2. CASE ~UsesWindow
  BY <1>2, FlowModes DEF Outstanding, AckMatches
<1> QED BY <1>1, <1>2

\* An acknowledgement that arrives while the stream lives is accepted.
LEMMA AckOwed ==
    ASSUME TypeInv, Ledger, Membership, AcksOwed, HeldInOrder, LoopAck
    PROVE  AcksOwed' /\ HeldInOrder' /\ (Alive' => Alive /\ wire' = wire)
<1> DEFINE at == Head(upstream).at
           m == [type |-> "pane-error", before |-> lastSent, after |-> lastSent]
<1>0. /\ WireType /\ lastSent \in Position
      /\ upstream \in Seq([type : {"ack", "replace"}, at : Position])
  BY TypeParts DEF WireType, WriterType
<1>1. /\ upstream # <<>> /\ Head(upstream).type = "ack" /\ loopPc = "idle"
      /\ upstream' = Tail(upstream) /\ (wire' = wire \/ wire' = Append(wire, m))
      /\ UNCHANGED <<registered, overloaded, loopPc, clientState, clientBoundaries>>
      /\ (registered /\ AckMatches(at)) => (AcknowledgeTurn(at) /\ wire' = wire)
  BY DEF LoopAck, lifeVars, bufferVars, loopVars, clientVars
<1>2. /\ Head(upstream) = upstream[1] /\ 1 \in 1..Len(upstream)
      /\ \A i \in 1..Len(upstream') : /\ i + 1 \in 1..Len(upstream)
                                      /\ upstream'[i] = upstream[i + 1]
  BY <1>0, <1>1, TailFacts
<1>3. /\ 1 \in Acks /\ at = upstream[1].at
      /\ \A i \in Acks' : i + 1 \in Acks /\ upstream'[i] = upstream[i + 1] /\ 1 < i + 1
      /\ \A i \in Acks' : i \in Nat
  BY <1>1, <1>2 DEF Acks
<1>4. Acking
  BY <1>3 DEF Membership
<1>5. m \in Message /\ m.type # "turn-complete"
  BY <1>0 DEF Message
<1>6. HeldInOrder' /\ Held' = Held
  <2> HIDE DEF m
  <2> QED BY <1>0, <1>1, <1>5, HeldKept
<1>7. Alive' = Alive
  BY <1>1 DEF Alive
<1>8. ASSUME Alive
      PROVE  /\ wire' = wire /\ AcknowledgeTurn(at) /\ at \in Outstanding
             /\ \A i \in Acks : upstream[i].at \in Outstanding
             /\ \A i \in Acks, j \in Acks : j < i => upstream[j].at.seq < upstream[i].at.seq
             /\ clientState = "open" =>
                   /\ Held \subseteq Outstanding
                   /\ \A i \in Acks, h \in Held : upstream[i].at.seq < h.seq
  <2>1. /\ \A i \in Acks : upstream[i].at \in Outstanding
        /\ \A i \in Acks, j \in Acks : j < i => upstream[j].at.seq < upstream[i].at.seq
        /\ clientState = "open" =>
              /\ Held \subseteq Outstanding
              /\ \A i \in Acks, h \in Held : upstream[i].at.seq < h.seq
    BY <1>4, <1>8 DEF AcksOwed
  <2>2. at \in Outstanding /\ registered
    BY <1>1, <1>3, <1>8, <2>1 DEF Alive
  <2> HIDE DEF at, m
  <2>3. AckMatches(at)
    BY <1>4, <2>2, AwaitedMatches
  <2> QED BY <1>1, <2>1, <2>2, <2>3
<1> HIDE DEF at
<1>9. ASSUME Alive PROVE \A o \in Outstanding : at.seq < o.seq => o \in Outstanding'
  BY <1>4, <1>8, <1>9, AwaitedBeyond
<1>10. ASSUME Alive
       PROVE  /\ \A i \in Acks' : upstream'[i].at \in Outstanding'
              /\ \A i \in Acks', j \in Acks' :
                    j < i => upstream'[j].at.seq < upstream'[i].at.seq
  <2>1. \A i \in Acks' : /\ upstream'[i].at \in Outstanding
                         /\ at.seq < upstream'[i].at.seq
    BY <1>3, <1>8, <1>10
  <2>2. ASSUME NEW i \in Acks', NEW j \in Acks', j < i
        PROVE  upstream'[j].at.seq < upstream'[i].at.seq
    <3>1. i + 1 \in Acks /\ j + 1 \in Acks /\ j + 1 < i + 1
      BY <1>3, <2>2
    <3> QED BY <1>3, <1>8, <1>10, <3>1
  <2> QED BY <1>9, <1>10, <2>1, <2>2
<1>11. ASSUME Alive, clientState = "open"
       PROVE  /\ Held \subseteq Outstanding'
              /\ \A i \in Acks', h \in Held : upstream'[i].at.seq < h.seq
  <2>1. \A h \in Held : h \in Outstanding /\ at.seq < h.seq
    BY <1>3, <1>8, <1>11
  <2>2. \A i \in Acks', h \in Held : upstream'[i].at.seq < h.seq
    BY <1>3, <1>8, <1>11
  <2> QED BY <1>9, <1>11, <2>1, <2>2
<1>12. AcksOwed'
  BY <1>1, <1>6, <1>7, <1>10, <1>11 DEF AcksOwed
<1> QED BY <1>6, <1>7, <1>8, <1>12

\* The browser acknowledges the first boundaries it holds.
LEMMA ClientAckOwed ==
    ASSUME TypeInv, AcksOwed, HeldInOrder, ClientAck, Acking
    PROVE  AcksOwed' /\ HeldInOrder'
<1> DEFINE cb == clientBoundaries
           bound == IF UsesWindow THEN WindowTurns ELSE 1
<1>0. /\ upstream \in Seq([type : {"ack", "replace"}, at : Position])
      /\ cb \in Seq(Position)
  BY TypeParts DEF WireType, ClientType
<1>1. PICK i \in 1..Len(cb) :
          /\ upstream' = Append(upstream, [type |-> "ack", at |-> cb[i]])
          /\ cb' = SubSeq(cb, i + 1, Len(cb))
  BY DEF ClientAck
<1>2. /\ clientState = "open"
      /\ UNCHANGED <<clientState, wire, registered, overloaded, loopPc, window,
                     awaitingTurnAck, turnAck>>
  BY DEF ClientAck, ClientRest, lifeVars, dataVars, bufferVars, turnVars, loopVars
<1>3. /\ Len(cb) \in Nat /\ Len(cb') = Len(cb) - i
      /\ \A j \in 1..Len(cb') : j + i \in 1..Len(cb) /\ cb'[j] = cb[j + i]
  <2>1. /\ Len(cb) \in Nat /\ Len(cb') = Len(cb) - i
        /\ \A j \in 1..(Len(cb) - i) : cb'[j] = cb[j + i]
    BY <1>0, <1>1
  <2>2. \A j \in 1..(Len(cb) - i) : j + i \in 1..Len(cb)
    BY <2>1
  <2> QED BY <2>1, <2>2
<1> DEFINE e == [type |-> "ack", at |-> cb[i]]
<1>4. e \in [type : {"ack", "replace"}, at : Position] /\ e.type = "ack" /\ e.at = cb[i]
  BY <1>0
<1> HIDE DEF e
<1>5. /\ Len(upstream) \in Nat /\ upstream'[Len(upstream) + 1] = e
      /\ \A j \in 1..Len(upstream) : j \in 1..Len(upstream') /\ upstream'[j] = upstream[j]
      /\ \A j \in 1..Len(upstream') : j = Len(upstream) + 1 \/ j \in 1..Len(upstream)
      /\ Len(upstream') = Len(upstream) + 1
  BY <1>0, <1>1, <1>4, AppendFacts DEF e
<1>6. /\ \A j \in Acks' : \/ j \in Acks /\ upstream'[j] = upstream[j]
                          \/ j = Len(upstream) + 1 /\ upstream'[j].at = cb[i]
      /\ \A j \in Acks' : j \in Nat /\ j <= Len(upstream) + 1
      /\ \A j \in Acks : j \in Nat /\ j < Len(upstream) + 1
  BY <1>4, <1>5 DEF Acks
<1>7. Ends' = Ends /\ wire' = wire /\ Outstanding' = Outstanding /\ Alive' = Alive
  BY <1>2 DEF Ends, Outstanding, Alive
<1>8. /\ \A k \in 1..Len(cb) :
            /\ \A j \in 1..(k - 1) : cb[j].seq < cb[k].seq
            /\ \A j \in Ends : cb[k].seq < wire[j].after.seq
      /\ \A k \in Ends, j \in Ends : k < j => wire[k].after.seq < wire[j].after.seq
      /\ Cardinality(Held) <= bound
  BY <1>2 DEF HeldInOrder
<1>9. cb[i] \in Held
  BY DEF Held
<1>10. Held' \subseteq Held /\ \A h \in Held' : cb[i].seq < h.seq
  <2>1. \A j \in 1..Len(cb') : cb'[j] \in Held /\ cb[i].seq < cb'[j].seq
    <3>1. TAKE j \in 1..Len(cb')
    <3>2. j + i \in 1..Len(cb) /\ cb'[j] = cb[j + i] /\ i \in 1..((j + i) - 1)
      BY <1>3
    <3> QED BY <1>8, <3>2 DEF Held
  <2>2. \A j \in Ends : wire[j].after \in Held /\ cb[i].seq < wire[j].after.seq
    BY <1>8 DEF Held
  <2> QED BY <1>7, <2>1, <2>2 DEF Held
<1>11. AcksOwed'
  <2>1. SUFFICES ASSUME Alive
                 PROVE  /\ \A k \in Acks' :
                              /\ upstream'[k].at \in Outstanding
                              /\ \A j \in Acks' : j < k =>
                                    upstream'[j].at.seq < upstream'[k].at.seq
                        /\ Held' \subseteq Outstanding
                        /\ \A k \in Acks', h \in Held' : upstream'[k].at.seq < h.seq
    BY <1>7 DEF AcksOwed
  <2>2. /\ \A k \in Acks : upstream[k].at \in Outstanding
        /\ \A k \in Acks, j \in Acks : j < k => upstream[j].at.seq < upstream[k].at.seq
        /\ Held \subseteq Outstanding
        /\ \A k \in Acks, h \in Held : upstream[k].at.seq < h.seq
    BY <1>2, <2>1 DEF AcksOwed
  <2>3. \A k \in Acks' : upstream'[k].at \in Outstanding
    BY <1>6, <1>9, <2>2
  <2>4. ASSUME NEW k \in Acks', NEW j \in Acks', j < k
        PROVE  upstream'[j].at.seq < upstream'[k].at.seq
    <3>1. j \in Acks /\ upstream'[j] = upstream[j]
      BY <1>5, <1>6, <2>4
    <3> QED BY <1>6, <1>9, <2>2, <2>4, <3>1
  <2>5. \A k \in Acks', h \in Held' : upstream'[k].at.seq < h.seq
    BY <1>6, <1>10, <2>2
  <2> QED BY <1>10, <2>2, <2>3, <2>4, <2>5
<1>12. HeldInOrder'
  <2>1. ASSUME NEW k \in 1..Len(cb')
        PROVE  /\ \A j \in 1..(k - 1) : cb'[j].seq < cb'[k].seq
               /\ \A j \in Ends : cb'[k].seq < wire[j].after.seq
    <3>1. /\ k + i \in 1..Len(cb) /\ cb'[k] = cb[k + i]
          /\ \A j \in 1..(k - 1) : j \in 1..Len(cb') /\ j + i \in 1..((k + i) - 1)
      BY <1>3
    <3> QED BY <1>3, <1>8, <3>1
  <2>2. Cardinality(Held') <= bound
    <3>1. Cardinality(Held') <= Cardinality(Held) /\ Cardinality(Held) \in Nat
          /\ Cardinality(Held') \in Nat
      BY <1>10, HeldFinite, TypeParts, FS_Subset, FS_CardinalityType
    <3>2. bound \in Nat
      BY ConstantsType
    <3> QED BY <1>8, <3>1, <3>2
  <2> QED BY <1>7, <1>8, <2>1, <2>2 DEF HeldInOrder
<1> QED BY <1>11, <1>12

\* What a browser that receives leaves alone.
LEMMA ReceiveFacts ==
    ASSUME ClientReceive
    PROVE  /\ ClientRest /\ UNCHANGED upstream
           /\ clientState' = "open" => clientState = "open"
           /\ clientState = "left" => clientState' = "left"
           /\ ~Acking => clientBoundaries' = clientBoundaries
           /\ wire # <<>> /\ wire' = Tail(wire)
           /\ clientState # "invalid" /\ clientState' = "invalid" =>
                 clientState = "open" /\ ~Accepted(Head(wire))
<1>1. ClientRest /\ UNCHANGED upstream /\ wire # <<>> /\ wire' = Tail(wire)
  BY Zenon DEF ClientReceive
<1>2. clientState' = "open" => clientState = "open"
  BY Zenon DEF ClientReceive
<1>3. clientState = "left" => clientState' = "left"
  BY Zenon DEF ClientReceive
<1>4. ~Acking => clientBoundaries' = clientBoundaries
  BY Zenon DEF ClientReceive, Acking
<1>5. clientState # "invalid" /\ clientState' = "invalid" =>
          clientState = "open" /\ ~Accepted(Head(wire))
  BY Zenon DEF ClientReceive
<1> QED BY <1>1, <1>2, <1>3, <1>4, <1>5

\* A stream that was removed or overloaded does not come back.
LEMMA AliveBack ==
    ASSUME TypeInv, FrameOrder, [Next]_vars
    PROVE  Alive' => Alive
<1>1. CASE UNCHANGED <<registered, loopPc>>
  <2>1. CASE UNCHANGED bufferVars
    BY <1>1, <2>1 DEF Alive, bufferVars
  <2>2. CASE Reader \/ LoopPing
    <3>1. PICK who \in {"reader", "loop"} : QueueStep(who)
      BY <2>2, ReaderQueues, PingQueues
    <3>2. BufferType
      BY TypeParts
    <3>3. CASE UNCHANGED <<turnVars, overloaded>>
      BY <1>1, <3>3 DEF Alive
    <3>4. CASE TurnsEnded
      BY <3>4 DEF Alive, TurnsEnded
    <3> QED BY <3>1, <3>2, <3>3, <3>4, QueueTurns
  <2>3. CASE WriterSend
    BY <1>1, <2>3 DEF WriterSend, Alive
  <2>4. CASE LoopDeactivate
    BY <1>1, <2>4 DEF LoopDeactivate, Alive
  <2> QED BY <2>1, <2>2, <2>3, <2>4, OtherBuffers
<1>2. CASE LoopRegister \/ LoopRun \/ LoopRemove \/ LoopClose \/ LoopDeactivate \/ LoopStop
  BY <1>2 DEF LoopRegister, LoopRun, LoopRemove, LoopClose, LoopDeactivate, LoopStop, Alive,
     dataVars, bufferVars, lifeVars
<1>3. CASE Reader
  BY <1>1, <1>3, ReaderQueues DEF loopVars
<1>4. CASE LoopPing \/ LoopAck
  BY <1>1, <1>4, PingQueues DEF LoopAck, lifeVars, loopVars
<1>5. CASE Writer
  <2>1. WriterRest
    BY <1>5 DEF Writer, WriterWake, WriterStops, WriterScan, WriterSend, WriterFinishTurn,
        WriterRoundEnd
  <2> QED BY <1>1, <2>1 DEF WriterRest, loopVars
<1>6. CASE Client
  <2>1. ClientRest
    BY <1>6, ReceiveFacts DEF Client, ClientApply, ClientAck, ClientLeave
  <2> QED BY <1>1, <2>1 DEF ClientRest, loopVars, lifeVars
<1>7. CASE StopRuns \/ (\E who \in {"reader", "loop"} : Signal(who)) \/ UNCHANGED vars
  BY <1>1, <1>7 DEF StopRuns, Signal, vars, loopVars, lifeVars
<1> QED BY <1>2, <1>3, <1>4, <1>5, <1>6, <1>7 DEF Next, Loop

\* The step's part in what the browser owes, action by action.
LEMMA SendOwed ==
    ASSUME TypeInv, Alive' => Alive, AcksOwed, HeldInOrder, WriterSend
    PROVE  AcksOwed' /\ HeldInOrder'
<1> DEFINE e == Head(buffer)
           m == [type |-> e.kind, before |-> e.before, after |-> e.after]
<1>1. e \in Entry /\ e.cost \in Nat
  BY SendFacts
<1>2. m \in Message /\ m.type # "turn-complete"
  BY <1>1 DEF Entry, Message, TextKinds
<1>3. /\ wire' = wire \/ wire' = Append(wire, m)
      /\ UNCHANGED <<upstream, clientBoundaries, clientState, awaitingTurnAck, turnAck>>
  BY DEF WriterSend, Write, WriterRest, clientVars
<1>4. window'.boundaries = window.boundaries
  BY <1>1, SentWindow, TypeParts
<1>5. HeldInOrder' /\ Held' = Held
  <2> HIDE DEF m
  <2> QED BY <1>2, <1>3, HeldKept, TypeParts
<1>6. Outstanding' = Outstanding
  BY <1>3, <1>4 DEF Outstanding
<1> HIDE DEF m
<1> QED BY <1>3, <1>5, <1>6, OwedKept

LEMMA ReceiveOwed ==
    ASSUME TypeInv, Alive' => Alive, AcksOwed, HeldInOrder, ClientReceive
    PROVE  AcksOwed' /\ HeldInOrder'
<1>1. /\ UNCHANGED <<upstream, window, awaitingTurnAck, turnAck>>
      /\ clientState' = "open" => clientState = "open"
  BY ReceiveFacts DEF ClientRest, dataVars, turnVars
<1>2. Outstanding' = Outstanding /\ Acks' = Acks
  BY <1>1 DEF Outstanding, Acks
<1>3. CASE ~Acking
  BY <1>3 DEF AcksOwed, HeldInOrder
<1>4. CASE Acking /\ clientState' = "open"
  <2>1. Held' \subseteq Held /\ HeldInOrder'
    BY <1>4, HeldReceived
  <2> QED BY <1>1, <1>2, <2>1, OwedKept
<1>5. CASE Acking /\ clientState' # "open"
  BY <1>1, <1>2, <1>5 DEF AcksOwed, HeldInOrder
<1> QED BY <1>3, <1>4, <1>5

LEMMA LeaveOwed ==
    ASSUME TypeInv, Alive' => Alive, AcksOwed, HeldInOrder, ClientLeave
    PROVE  AcksOwed' /\ HeldInOrder'
<1> DEFINE r == [type |-> "replace", at |-> Origin]
<1>1. /\ upstream \in Seq([type : {"ack", "replace"}, at : Position])
      /\ r \in [type : {"ack", "replace"}, at : Position] /\ r.type # "ack"
  BY TypeParts, OriginType DEF WireType
<1>2. /\ upstream' = Append(upstream, r) /\ clientState' # "open"
      /\ UNCHANGED <<window, awaitingTurnAck, turnAck>>
  BY DEF ClientLeave, ClientRest, dataVars, turnVars
<1> HIDE DEF r
<1>3. Outstanding' = Outstanding
  BY <1>2 DEF Outstanding
<1>4. /\ Len(upstream) \in Nat /\ upstream'[Len(upstream) + 1] = r
      /\ \A i \in 1..Len(upstream) : i \in 1..Len(upstream') /\ upstream'[i] = upstream[i]
      /\ \A i \in 1..Len(upstream') : i = Len(upstream) + 1 \/ i \in 1..Len(upstream)
  BY <1>1, <1>2, AppendFacts
<1>5. Acks' \subseteq Acks /\ \A i \in Acks : upstream'[i] = upstream[i]
  BY <1>1, <1>4 DEF Acks
<1>6. AcksOwed'
  BY <1>2, <1>3, <1>5 DEF AcksOwed
<1>7. HeldInOrder'
  BY <1>2 DEF HeldInOrder
<1> QED BY <1>6, <1>7

LEMMA FinishOwed ==
    ASSUME TypeInv, TurnPosition, Ledger, Membership, Alive' => Alive, AcksOwed, HeldInOrder,
           WriterFinishTurn
    PROVE  AcksOwed' /\ HeldInOrder'
<1>1. UNCHANGED <<upstream, clientVars>>
  BY FinishFacts DEF WriterRest
<1>2. CASE TurnCut \/ TurnKept
  <2>1. UNCHANGED <<wire, window, awaitingTurnAck, turnAck>>
    BY <1>2 DEF TurnCut, TurnKept, turnVars
  <2> QED BY <1>1, <2>1, OwedSame DEF socketVars
<1>3. CASE TurnCompleted /\ Acking
  BY <1>3, HeldCompleted
<1>4. CASE ~Acking
  BY <1>4 DEF AcksOwed, HeldInOrder
<1> QED BY <1>2, <1>3, <1>4, FinishFacts

LEMMA QueueOwed ==
    ASSUME TypeInv, Alive' => Alive, AcksOwed, HeldInOrder, NEW who, QueueStep(who),
           UNCHANGED socketVars
    PROVE  AcksOwed' /\ HeldInOrder'
<1>1. BufferType
  BY TypeParts
<1>2. CASE UNCHANGED <<turnVars, overloaded>>
  <2>1. UNCHANGED <<window, awaitingTurnAck, turnAck>>
    BY <1>2 DEF turnVars
  <2> QED BY <2>1, OwedSame
<1>3. CASE TurnsEnded
  <2>1. ~Alive'
    BY <1>3 DEF Alive, TurnsEnded
  <2> QED BY <2>1, OwedSame
<1> QED BY <1>1, <1>2, <1>3, QueueTurns

LEMMA NextOwed ==
    ASSUME TypeInv, Positions, Ledger, Membership, AcksOwed, HeldInOrder, [Next]_vars
    PROVE  AcksOwed' /\ HeldInOrder'
<1>0. /\ FrameOrder /\ TurnPosition
      /\ Alive' => Alive
  BY AliveBack DEF Positions
<1>1. CASE Reader
  BY <1>0, <1>1, ReaderQueues, QueueOwed
<1>2. CASE LoopPing
  BY <1>0, <1>2, PingQueues, QueueOwed
<1>3. CASE WriterSend
  BY <1>0, <1>3, SendOwed
<1>4. CASE WriterFinishTurn
  BY <1>0, <1>4, FinishOwed
<1>5. CASE LoopAck
  BY <1>5, AckOwed
<1>6. CASE LoopRemove \/ LoopClose
  <2>1. ~Alive'
    BY <1>6 DEF LoopRemove, LoopClose, Alive
  <2>2. UNCHANGED <<wire, clientBoundaries>> /\ (clientState' = "open" => clientState = "open")
    BY <1>6 DEF LoopRemove, LoopClose, clientVars
  <2>3. Held' = Held /\ Ends' = Ends
    BY <2>2 DEF Held, Ends
  <2> QED BY <2>1, <2>2, <2>3 DEF AcksOwed, HeldInOrder
<1>7. CASE ClientReceive
  BY <1>0, <1>7, ReceiveOwed
<1>8. CASE ClientAck
  <2>1. CASE ~Acking
    BY <2>1 DEF AcksOwed, HeldInOrder
  <2> QED BY <1>8, <2>1, ClientAckOwed
<1>9. CASE ClientLeave
  BY <1>0, <1>9, LeaveOwed
<1>10. CASE \E through \in 1..MaxOutput : ClientApply(through)
  <2>1. UNCHANGED <<wire, upstream, clientState, clientBoundaries, window, awaitingTurnAck,
                    turnAck>>
    BY <1>10 DEF ClientApply, ClientRest, dataVars, turnVars
  <2>2. Held' = Held /\ Ends' = Ends /\ Outstanding' = Outstanding /\ Acks' = Acks
    BY <2>1 DEF Held, Ends, Outstanding, Acks
  <2>3. HeldInOrder'
    BY <2>1, <2>2 DEF HeldInOrder
  <2> QED BY <1>0, <2>1, <2>2, <2>3, OwedKept
<1>11. CASE \/ Writer /\ ~WriterSend /\ ~WriterFinishTurn
            \/ LoopRegister \/ LoopRun \/ LoopDeactivate \/ LoopStop \/ StopRuns
            \/ (\E who \in {"reader", "loop"} : Signal(who)) \/ UNCHANGED vars
  <2>1. UNCHANGED <<socketVars, window, awaitingTurnAck, turnAck>>
    BY <1>11 DEF Writer, WriterWake, WriterStops, WriterScan, WriterRoundEnd, WriterRest,
       LoopRegister, LoopRun, LoopDeactivate, LoopStop, LoopRest, StopRuns, Signal, vars,
       socketVars, dataVars, turnVars
  <2> QED BY <1>0, <2>1, OwedSame
<1> QED BY <1>1, <1>2, <1>3, <1>4, <1>5, <1>6, <1>7, <1>8, <1>9, <1>10, <1>11
        DEF Next, Loop, Client

\* No refusal is among the messages of a wire.
Unrefused(messages) == \A i \in 1..Len(messages) : messages[i].type # "pane-error"

LEMMA UnrefusedAppend ==
    ASSUME NEW messages \in Seq(Message), NEW m \in Message, m.type # "pane-error",
           Unrefused(messages)
    PROVE  Unrefused(Append(messages, m))
<1> DEFINE longer == Append(messages, m)
<1>1. /\ longer[Len(messages) + 1] = m
      /\ \A i \in 1..Len(messages) : longer[i] = messages[i]
      /\ \A i \in 1..Len(longer) : i = Len(messages) + 1 \/ i \in 1..Len(messages)
  BY AppendFacts
<1> HIDE DEF longer
<1>2. Unrefused(longer)
  BY <1>1 DEF Unrefused
<1> QED BY <1>2 DEF longer

\* The membership of the stream, part by part.
Enrolled ==
    /\ loopPc = "register" => ~registered
    /\ ~registered /\ loopPc # "register" => clientState = "left"
Replaces ==
    \A i \in 1..Len(upstream) : upstream[i].type = "replace" => clientState = "left"
Silent == ~Acking => clientBoundaries = <<>> /\ Acks = {}

LEMMA MembershipParts ==
    Membership <=> Enrolled /\ Replaces /\ (Alive => Unrefused(wire)) /\ Silent
BY DEF Membership, Enrolled, Replaces, Silent, Unrefused

LEMMA NextUnrefused ==
    ASSUME TypeInv, Positions, Ledger, Membership, AcksOwed, HeldInOrder, [Next]_vars
    PROVE  Alive' => Unrefused(wire')
<1>0. /\ FrameOrder /\ (Alive' => Alive) /\ (Alive => Unrefused(wire))
      /\ wire \in Seq(Message) /\ WireType
  BY AliveBack, MembershipParts, TypeParts DEF Positions, WireType
<1>1. CASE wire' = wire
  BY <1>0, <1>1
<1>2. CASE WriterSend
  <2> DEFINE e == Head(buffer)
             m == [type |-> e.kind, before |-> e.before, after |-> e.after]
  <2>1. e \in Entry
    BY <1>2, SendFacts
  <2>2. m \in Message /\ m.type # "pane-error"
    BY <2>1 DEF Entry, Message, TextKinds
  <2>3. wire' = wire \/ wire' = Append(wire, m)
    BY <1>2 DEF WriterSend, Write
  <2> HIDE DEF m
  <2> QED BY <1>0, <2>2, <2>3, UnrefusedAppend
<1>3. CASE WriterFinishTurn
  <2> DEFINE m == [type |-> "turn-complete", before |-> DoneTurn, after |-> DoneTurn]
  <2>1. wire' = wire \/ (TurnCompleted /\ wire' = Append(wire, m))
    BY <1>3, FinishFacts DEF TurnCut, TurnKept, TurnCompleted, Write
  <2>2. CASE TurnCompleted /\ wire' = Append(wire, m)
    <3>1. TurnPosition /\ writerPc = "turn"
      BY <1>3, FinishFacts DEF Positions
    <3>2. DoneTurn \in Position
      BY <2>2, <3>1, DoneIsLast DEF TurnCompleted
    <3>3. m \in Message /\ m.type # "pane-error"
      BY <3>2 DEF Message
    <3> HIDE DEF m
    <3> QED BY <1>0, <2>2, <3>3, UnrefusedAppend
  <2> QED BY <1>1, <2>1, <2>2
<1>4. CASE LoopAck
  BY <1>0, <1>4, AckOwed
<1>5. CASE ClientReceive
  <2>1. wire # <<>> /\ wire' = Tail(wire)
    BY <1>5, ReceiveFacts
  <2>2. \A i \in 1..Len(wire') : i + 1 \in 1..Len(wire) /\ wire'[i] = wire[i + 1]
    BY <1>0, <2>1, TailFacts
  <2> QED BY <1>0, <2>2 DEF Unrefused
<1>6. CASE Reader \/ LoopPing
  BY <1>1, <1>6, ReaderQueues, PingQueues, <1>0 DEF socketVars
<1>7. CASE \/ (Writer /\ ~WriterSend /\ ~WriterFinishTurn)
           \/ LoopRegister \/ LoopRun \/ LoopRemove \/ LoopClose \/ LoopDeactivate
           \/ LoopStop \/ StopRuns \/ (Client /\ ~ClientReceive)
           \/ (\E who \in {"reader", "loop"} : Signal(who)) \/ UNCHANGED vars
  BY <1>1, <1>7 DEF Writer, WriterWake, WriterStops, WriterScan, WriterRoundEnd, LoopRegister,
     LoopRun, LoopRemove, LoopClose, LoopDeactivate, LoopStop, StopRuns, Client, ClientApply,
     ClientAck, ClientLeave, Signal, vars, socketVars
<1> QED BY <1>2, <1>3, <1>4, <1>5, <1>6, <1>7 DEF Next, Loop

LEMMA NextMembership ==
    ASSUME TypeInv, Positions, Ledger, Membership, AcksOwed, HeldInOrder, [Next]_vars
    PROVE  Membership'
<1>0. /\ Enrolled /\ Replaces /\ Silent /\ FrameOrder
      /\ upstream \in Seq([type : {"ack", "replace"}, at : Position])
  BY MembershipParts, TypeParts DEF Positions, WireType
<1>1. ASSUME Enrolled', Replaces', Silent' PROVE Membership'
  BY <1>1, MembershipParts, NextUnrefused DEF Membership, Enrolled, Replaces, Silent, Unrefused
<1>2. ASSUME UNCHANGED <<registered, loopPc, upstream, clientState, clientBoundaries>>
      PROVE  Membership'
  BY <1>0, <1>1, <1>2 DEF Enrolled, Replaces, Silent, Acks
<1>3. CASE Reader \/ LoopPing
  BY <1>0, <1>2, <1>3, ReaderQueues, PingQueues DEF socketVars, clientVars, loopVars
<1>4. CASE Writer
  <2>1. WriterRest
    BY <1>4 DEF Writer, WriterWake, WriterStops, WriterScan, WriterSend, WriterFinishTurn,
        WriterRoundEnd
  <2> QED BY <1>2, <2>1 DEF WriterRest, loopVars, clientVars
<1>5. CASE LoopRegister \/ LoopRun \/ LoopDeactivate \/ LoopStop
  <2>1. UNCHANGED <<upstream, clientState, clientBoundaries>>
    BY <1>5 DEF LoopRegister, LoopRun, LoopDeactivate, LoopStop, socketVars, clientVars
  <2>2. Enrolled'
    BY <1>0, <1>5, <2>1 DEF LoopRegister, LoopRun, LoopDeactivate, LoopStop, Enrolled, lifeVars
  <2> QED BY <1>0, <1>1, <2>1, <2>2 DEF Replaces, Silent, Acks
<1>6. CASE LoopAck \/ LoopRemove
  <2>1. /\ upstream # <<>> /\ upstream' = Tail(upstream)
        /\ UNCHANGED <<clientState, clientBoundaries>>
    BY <1>6 DEF LoopAck, LoopRemove, clientVars
  <2>2. /\ Head(upstream) = upstream[1] /\ 1 \in 1..Len(upstream)
        /\ \A i \in 1..Len(upstream') : i + 1 \in 1..Len(upstream)
                                        /\ upstream'[i] = upstream[i + 1]
    BY <1>0, <2>1, TailFacts
  <2>3. Enrolled'
    <3>1. CASE LoopAck
      BY <1>0, <3>1, <2>1 DEF LoopAck, Enrolled, lifeVars, loopVars
    <3>2. CASE LoopRemove
      <4>1. clientState = "left"
        BY <1>0, <2>2, <3>2 DEF LoopRemove, Replaces
      <4> QED BY <2>1, <3>2, <4>1 DEF LoopRemove, Enrolled
    <3> QED BY <1>6, <3>1, <3>2
  <2>4. Replaces'
    BY <1>0, <2>1, <2>2 DEF Replaces
  <2>5. Silent'
    BY <1>0, <2>1, <2>2 DEF Silent, Acks
  <2> QED BY <1>1, <2>3, <2>4, <2>5
<1>7. CASE LoopClose
  <2>1. /\ upstream' = <<>> /\ clientState' = "left" /\ loopPc' = "deactivate"
        /\ clientBoundaries' = clientBoundaries
    BY <1>7 DEF LoopClose
  <2>2. Acks' = {}
    BY <2>1 DEF Acks
  <2> QED BY <1>0, <1>1, <2>1, <2>2 DEF Enrolled, Replaces, Silent
<1>8. CASE ClientReceive
  <2>1. /\ UNCHANGED <<upstream, registered, loopPc>>
        /\ clientState = "left" => clientState' = "left"
        /\ ~Acking => clientBoundaries' = clientBoundaries
    BY <1>8, ReceiveFacts DEF ClientRest, lifeVars, loopVars
  <2> QED BY <1>0, <1>1, <2>1 DEF Enrolled, Replaces, Silent, Acks
<1>9. CASE \E through \in 1..MaxOutput : ClientApply(through)
  BY <1>2, <1>9 DEF ClientApply, ClientRest, lifeVars, loopVars
<1>10. CASE ClientAck
  <2>1. PICK i \in 1..Len(clientBoundaries) :
            upstream' = Append(upstream, [type |-> "ack", at |-> clientBoundaries[i]])
    BY <1>10 DEF ClientAck
  <2>2. /\ UNCHANGED <<registered, loopPc, clientState>> /\ clientState = "open"
    BY <1>10 DEF ClientAck, ClientRest, lifeVars, loopVars
  <2> DEFINE e == [type |-> "ack", at |-> clientBoundaries[i]]
  <2>3. e \in [type : {"ack", "replace"}, at : Position] /\ e.type = "ack"
    BY <2>1, TypeParts DEF ClientType
  <2> HIDE DEF e
  <2>4. /\ \A j \in 1..Len(upstream) : upstream'[j] = upstream[j]
        /\ upstream'[Len(upstream) + 1] = e
        /\ \A j \in 1..Len(upstream') : j = Len(upstream) + 1 \/ j \in 1..Len(upstream)
    BY <1>0, <2>1, <2>3, AppendFacts DEF e
  <2>5. Replaces'
    BY <1>0, <2>2, <2>3, <2>4 DEF Replaces
  <2>6. Enrolled'
    BY <1>0, <2>2 DEF Enrolled
  <2>7. Acking
    BY <1>0, <2>1 DEF Silent
  <2> QED BY <1>1, <2>5, <2>6, <2>7 DEF Silent
<1>11. CASE ClientLeave
  <2> DEFINE r == [type |-> "replace", at |-> Origin]
  <2>1. /\ upstream' = Append(upstream, r) /\ clientState' = "left"
        /\ UNCHANGED <<registered, loopPc, clientBoundaries>>
    BY <1>11 DEF ClientLeave, ClientRest, lifeVars, loopVars
  <2>2. r \in [type : {"ack", "replace"}, at : Position] /\ r.type # "ack"
    BY OriginType
  <2> HIDE DEF r
  <2>3. /\ \A j \in 1..Len(upstream) : upstream'[j] = upstream[j]
        /\ upstream'[Len(upstream) + 1] = r
        /\ \A j \in 1..Len(upstream') : j = Len(upstream) + 1 \/ j \in 1..Len(upstream)
    BY <1>0, <2>1, <2>2, AppendFacts
  <2>4. Acks' \subseteq Acks
    BY <2>2, <2>3 DEF Acks
  <2> QED BY <1>0, <1>1, <2>1, <2>4 DEF Enrolled, Replaces, Silent
<1>12. CASE StopRuns \/ (\E who \in {"reader", "loop"} : Signal(who)) \/ UNCHANGED vars
  BY <1>2, <1>12 DEF StopRuns, Signal, vars, lifeVars, loopVars, socketVars, clientVars
<1> QED BY <1>3, <1>4, <1>5, <1>6, <1>7, <1>8, <1>9, <1>10, <1>11, <1>12
        DEF Next, Loop, Client

-----------------------------------------------------------------------------
(* The browser stays in step.                                              *)

Rising(f, n) == \A i \in 1..n : \A j \in 1..(i - 1) : f[j].seq < f[i].seq

\* Rising positions are different ones.
LEMMA RisingBound ==
    ASSUME NEW n \in Nat, NEW T, T \subseteq Position, IsFiniteSet(T),
           NEW f \in [1..n -> T], Rising(f, n)
    PROVE  n <= Cardinality(T)
<1>1. \A i \in 1..n : f[i].seq \in Nat
  BY DEF Position
<1>2. ASSUME NEW i \in 1..n, NEW j \in 1..n, f[i] = f[j] PROVE i = j
  <2>1. ~(j < i)
    <3>1. ASSUME j < i PROVE FALSE
      <4>1. j \in 1..(i - 1)
        BY <3>1
      <4> QED BY <1>1, <1>2, <4>1 DEF Rising
    <3> QED BY <3>1
  <2>2. ~(i < j)
    <3>1. ASSUME i < j PROVE FALSE
      <4>1. i \in 1..(j - 1)
        BY <3>1
      <4> QED BY <1>1, <1>2, <4>1 DEF Rising
    <3> QED BY <3>1
  <2> QED BY <2>1, <2>2
<1>3. f \in Injection(1..n, T)
  BY <1>2 DEF Injection, IsInjective
<1>4. Cardinality(1..n) <= Cardinality(T)
  BY <1>3, FS_Injection
<1>5. Cardinality(1..n) = n
  <2>1. 1 \in Int /\ n \in Int /\ (IF 1 > n THEN 0 ELSE n - 1 + 1) = n
    OBVIOUS
  <2> QED BY <2>1, FS_Interval
<1> QED BY <1>4, <1>5

\* With the end of a turn before it, the browser holds fewer than it may.
LEMMA TurnAccepted ==
    ASSUME TypeInv, HeldInOrder, Membership, TurnsMatch, clientState = "open",
           1 \in Ends
    PROVE  Len(clientBoundaries) < ClientTurns
<1> DEFINE cb == clientBoundaries
           n == Len(cb) + 1
           f == [i \in 1..n |-> IF i = n THEN wire[1].after ELSE cb[i]]
           bound == IF UsesWindow THEN WindowTurns ELSE 1
<1>0. /\ cb \in Seq(Position) /\ wire \in Seq(Message) /\ Len(cb) \in Nat
      /\ WindowTurns \in Nat \ {0} /\ ClientTurns \in Nat \ {0} /\ WindowTurns <= ClientTurns
  BY TypeParts, ConstantsType DEF WireType, ClientType, TurnsMatch
<1>1. CASE ~Acking
  <2>1. cb = <<>>
    BY <1>1 DEF Membership
  <2> QED BY <1>0, <2>1
<1>2. CASE Acking
  <2>1. /\ \A i \in 1..Len(cb) : /\ \A j \in 1..(i - 1) : cb[j].seq < cb[i].seq
                                 /\ cb[i].seq < wire[1].after.seq
        /\ Cardinality(Held) <= bound
    BY <1>2 DEF HeldInOrder
  <2>2. \A i \in 1..n : i = n \/ i \in 1..Len(cb)
    BY <1>0
  <2>3. \A i \in 1..Len(cb) : i # n /\ i \in 1..n
    BY <1>0
  <2>4. \A i \in 1..Len(cb) : cb[i] \in Held
    BY DEF Held
  <2>5. wire[1].after \in Held
    BY DEF Held
  <2>6. f \in [1..n -> Held]
    BY <2>2, <2>4, <2>5
  <2>7. Rising(f, n)
    <3>1. f[n] = wire[1].after /\ \A i \in 1..Len(cb) : f[i] = cb[i]
      BY <1>0, <2>3
    <3>2. ASSUME NEW i \in 1..n, NEW j \in 1..(i - 1) PROVE f[j].seq < f[i].seq
      <4>1. j \in 1..Len(cb)
        BY <1>0
      <4>2. CASE i = n
        BY <2>1, <3>1, <4>1, <4>2
      <4>3. CASE i \in 1..Len(cb)
        BY <2>1, <3>1, <4>1, <4>3
      <4> QED BY <2>2, <4>2, <4>3
    <3> HIDE DEF f
    <3> QED BY <3>2 DEF Rising
  <2>8. Held \subseteq Position
    <3>1. \A i \in 1..Len(cb) : cb[i] \in Position
      BY <1>0
    <3>2. \A i \in Ends : wire[i].after \in Position
      <4>1. \A i \in 1..Len(wire) : wire[i] \in Message
        BY <1>0
      <4> QED BY <4>1 DEF Ends, Message
    <3> QED BY <3>1, <3>2 DEF Held
  <2>9. IsFiniteSet(Held) /\ Cardinality(Held) \in Nat
    BY HeldFinite, TypeParts
  <2>10. n \in Nat
    BY <1>0
  <2> HIDE DEF f, n
  <2>11. n <= Cardinality(Held)
    BY <2>6, <2>7, <2>8, <2>9, <2>10, RisingBound
  <2>12. n <= bound
    <3>1. bound \in Nat
      BY <1>0
    <3> HIDE DEF bound
    <3> QED BY <2>1, <2>9, <2>10, <2>11, <3>1
  <2>13. n <= ClientTurns
    <3>1. bound \in Nat /\ bound <= ClientTurns
      BY <1>0
    <3> HIDE DEF bound
    <3> QED BY <1>0, <2>10, <2>12, <3>1
  <2> QED BY <1>0, <2>13 DEF n
<1> QED BY <1>1, <1>2

LEMMA AcceptedIf ==
    ASSUME NEW m, m.type = "binary" => m.before = clientPos,
           m.type \notin {"binary", "replay-start"} => m.after = clientPos,
           m.type = "turn-complete" => Len(clientBoundaries) < ClientTurns
    PROVE  Accepted(m)
BY DEF Accepted

\* What arrives continues what has been received.
LEMMA HeadAccepted ==
    ASSUME TypeInv, WireOrder, HeldInOrder, Membership, TurnsMatch, clientState = "open",
           wire # <<>>
    PROVE  Accepted(Head(wire))
<1> DEFINE m == Head(wire)
<1>0. wire \in Seq(Message)
  BY TypeParts DEF WireType
<1>1. m.before = clientPos
  BY <1>0, JoinedTail DEF WireOrder
<1>2. m = wire[1] /\ 1 \in 1..Len(wire)
  BY <1>0, TailFacts
<1>3. MessageShape(m)
  BY <1>2 DEF WireOrder
<1>4. m.type \notin {"binary", "replay-start"} => m.after = clientPos
  BY <1>1, <1>3 DEF MessageShape
<1>5. m.type = "turn-complete" => Len(clientBoundaries) < ClientTurns
  <2>1. m.type = "turn-complete" => 1 \in Ends
    BY <1>2 DEF Ends
  <2> QED BY <2>1, TurnAccepted
<1>6. m.type = "binary" => m.before = clientPos
  BY <1>1
<1> HIDE DEF m
<1>7. Accepted(m)
  BY <1>4, <1>5, <1>6, AcceptedIf
<1> QED BY <1>7 DEF m

LEMMA NextInSync ==
    ASSUME TypeInv, Positions, HeldInOrder, Membership, InSync, [Next]_vars
    PROVE  InSync'
<1>0. WireOrder
  BY DEF Positions
<1>1. SUFFICES ASSUME TurnsMatch PROVE clientState' # "invalid"
  BY DEF InSync, ClientInSync
<1>2. clientState # "invalid"
  BY <1>1 DEF InSync, ClientInSync
<1>3. CASE clientState' = clientState
  BY <1>2, <1>3
<1>4. CASE ClientReceive
  <2>1. /\ wire # <<>>
        /\ clientState' = "invalid" => clientState = "open" /\ ~Accepted(Head(wire))
    BY <1>2, <1>4, ReceiveFacts
  <2> QED BY <1>0, <1>1, <2>1, HeadAccepted
<1>5. CASE LoopClose \/ ClientLeave
  BY <1>5 DEF LoopClose, ClientLeave
<1>6. CASE Reader \/ LoopPing
  <2>1. FrameOrder
    BY DEF Positions
  <2> QED BY <1>3, <1>6, <2>1, ReaderQueues, PingQueues DEF socketVars, clientVars
<1>7. CASE Writer
  <2>1. WriterRest
    BY <1>7 DEF Writer, WriterWake, WriterStops, WriterScan, WriterSend, WriterFinishTurn,
        WriterRoundEnd
  <2> QED BY <1>3, <2>1 DEF WriterRest, clientVars
<1>8. CASE \/ LoopRegister \/ LoopRun \/ LoopAck \/ LoopRemove \/ LoopDeactivate \/ LoopStop
           \/ StopRuns \/ (\E through \in 1..MaxOutput : ClientApply(through)) \/ ClientAck
           \/ (\E who \in {"reader", "loop"} : Signal(who)) \/ UNCHANGED vars
  BY <1>3, <1>8 DEF LoopRegister, LoopRun, LoopAck, LoopRemove, LoopDeactivate, LoopStop,
     StopRuns, ClientApply, ClientAck, Signal, vars, socketVars, clientVars
<1> QED BY <1>4, <1>5, <1>6, <1>7, <1>8 DEF Next, Loop, Client

LEMMA InitOwed == Init => AcksOwed /\ HeldInOrder /\ Membership /\ InSync
<1> SUFFICES ASSUME Init PROVE AcksOwed /\ HeldInOrder /\ Membership /\ InSync
  OBVIOUS
<1>1. /\ wire = <<>> /\ upstream = <<>> /\ clientBoundaries = <<>>
      /\ clientState = "open" /\ loopPc = "register" /\ registered = FALSE
  BY DEF Init
<1>2. Acks = {} /\ Ends = {} /\ Held = {}
  BY <1>1 DEF Acks, Ends, Held
<1>3. AcksOwed
  BY <1>2 DEF AcksOwed
<1>4. HeldInOrder
  <2>1. Cardinality(Held) = 0
    BY <1>2, FS_EmptySet
  <2>2. 0 <= WindowTurns
    BY ConstantsType
  <2> QED BY <1>1, <1>2, <2>1, <2>2 DEF HeldInOrder
<1>5. Membership /\ InSync
  BY <1>1, <1>2 DEF Membership, InSync, ClientInSync
<1> QED BY <1>3, <1>4, <1>5

LEMMA StreamHolds == Spec => []StreamInv
<1>1. Init => StreamInv
  <2>1. Init => Awake
    BY DEF Init, Awake, Quiet
  <2> QED BY <2>1, InitType, InitCounted, InitPositions, InitLedger, InitOwed DEF StreamInv, Ledger
<1>2. StreamInv /\ [Next]_vars => StreamInv'
  <2> SUFFICES ASSUME StreamInv, [Next]_vars PROVE StreamInv'
    OBVIOUS
  <2>1. /\ TypeInv /\ Counted /\ Positions /\ Ledger /\ Awake /\ AcksOwed /\ HeldInOrder
        /\ Membership /\ InSync /\ FrameOrder
    BY DEF StreamInv, Ledger, Positions
  <2>2. TypeInv' /\ Counted' /\ Positions' /\ Ledger' /\ Awake'
    BY <2>1, NextType, NextCounted, NextPositions, NextLedger, NextAwake
  <2>3. AcksOwed' /\ HeldInOrder' /\ Membership' /\ InSync'
    BY <2>1, NextOwed, NextMembership, NextInSync
  <2> QED BY <2>2, <2>3 DEF StreamInv, Ledger
<1> QED BY <1>1, <1>2, PTL DEF Spec

\* An acknowledgement is refused (terminal_queue.go WritePaneError after
\* HandlePaneControl) only once the stream has been overloaded or removed: every
\* acknowledgement on its way, every boundary the browser still holds and every
\* turn's end it has not read is one the broker waits for, in the same order.
THEOREM RefusalsEnd == Spec => []AckRefusedOnlyAfterEnd
<1>1. StreamInv => AckRefusedOnlyAfterEnd
  BY DEF StreamInv, Membership, Alive, AckRefusedOnlyAfterEnd
<1> QED BY <1>1, StreamHolds, PTL

\* The browser never meets a frame, a turn or a replay end that does not continue
\* what it has received (output_controller.js queueTurnReceivedCursor/Sequence),
\* nor more turns than it keeps, as long as it keeps at least as many as the
\* broker's window holds.
THEOREM BrowserInStep == TurnsMatch => (Spec => []ClientInSync)
<1>1. TurnsMatch /\ StreamInv => ClientInSync
  BY DEF StreamInv, InSync
<1>2. ASSUME TurnsMatch PROVE Spec => []ClientInSync
  <2>1. StreamInv => ClientInSync
    BY <1>1, <1>2
  <2> QED BY <2>1, StreamHolds, PTL
<1> QED BY <1>2
=============================================================================
