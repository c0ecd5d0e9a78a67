----------------------- MODULE QueueStreamRefinement -----------------------
(***************************************************************************)
(* QueueStream implements CreditStream, for every value of its constants   *)
(* and in both modes in which the browser acknowledges what it applied.    *)
(***************************************************************************)
EXTENDS QueueStreamSafety

-----------------------------------------------------------------------------
(* What the refinement needs beyond StreamInv.                             *)

\* Where the replay is announced: on the websocket, and still in the buffer.
Announced == {i \in 1..Len(wire) : wire[i].type = "replay-start"}
Unannounced == {i \in 1..Len(buffer) : buffer[i].kind = "replay-start"}

\* The replay starts once, before any output.
StartsOnce ==
    /\ agentPhase = "attach" => cursor = 0 /\ Announced = {} /\ Unannounced = {}
    /\ \A i, j \in Announced : i = j
    /\ \A i, j \in Unannounced : i = j
    /\ Announced = {} \/ Unannounced = {}

\* The cursors of the agent and of its reader.
AgentCursors ==
    /\ cursor <= agentCursor /\ agentCursor <= MaxOutput /\ replayTo <= MaxOutput
    /\ agentPhase = "replay" => agentCursor <= replayTo
    /\ readerPc = "chunk" => agentPhase \in {"replay", "live"}

\* An entry moves the cursor by the bytes it is accounted for.
EntryBytes(e) ==
    /\ e.kind = "binary" =>
          /\ e.after.cursor = e.before.cursor + e.cost
          /\ 0 < e.cost /\ e.cost <= PayloadMax
    /\ e.kind = "replay-start" => e.before.cursor = 0
    /\ e.kind \in {"binary", "replay-start"} => e.after.cursor <= MaxOutput

\* On the websocket the cursor never goes back.
WireRises ==
    /\ clientPos.cursor <= lastSent.cursor
    /\ \A i \in 1..Len(wire) :
          /\ clientPos.cursor <= wire[i].before.cursor
          /\ wire[i].before.cursor <= wire[i].after.cursor
          /\ wire[i].after.cursor <= lastSent.cursor
          /\ wire[i].type = "replay-start" => wire[i].before.cursor = 0
          /\ \A j \in 1..(i - 1) : wire[j].after.cursor <= wire[i].before.cursor

\* What the browser acknowledges it has applied.
AckedApplied ==
    clientState = "open" =>
        /\ applied <= clientPos.cursor
        /\ \A i \in Acks : upstream[i].at.cursor <= applied

\* The burst is over when the j-th entry is sent.
OverBefore(j) ==
    \/ ~replayBurstActive /\ \A i \in 1..(j - 1) : ~buffer[i].burstStart
    \/ \E i \in 1..(j - 1) : buffer[i].burstFinish

\* A burst is the replay it was admitted for: output beyond it comes after the
\* control that ends it.
BurstQuiet ==
    agentPhase = "attach" =>
        /\ ~replayBurstActive
        /\ \A i \in 1..Len(buffer) :
              /\ buffer[i].kind # "binary"
              /\ buffer[i].burstFinish => readerPc \in {"return", "done"}
BurstEntry(i) ==
    /\ buffer[i].burstStart => /\ buffer[i].after.cursor <= replayTo
                               /\ replayTo <= buffer[i].after.cursor + ReplayBurstLimit
                               /\ \A j \in 1..(i - 1) : ~buffer[j].burstFinish
    /\ buffer[i].kind = "binary" /\ replayTo < buffer[i].after.cursor => OverBefore(i)
BurstOver == OverBefore(Len(buffer) + 1)
BurstBounds ==
    /\ BurstQuiet
    /\ replayBurstActive => Unannounced = {}
    /\ \A i \in 1..Len(buffer) : BurstEntry(i)
    /\ agentPhase = "live" /\ Accepting => BurstOver

\* The stream can still send.
Flowing == Accepting /\ writerPc # "done"

BurstHeld ==
    replayBurstActive /\ Flowing =>
        /\ lastSent.cursor <= replayTo
        /\ clientState = "open" => replayTo <= AppliedOrAnnounced + ReplayBurstLimit

\* The window's boundaries stand where its bytes say, and what has been sent and
\* is not in flight has been applied.
WindowHeld ==
    UsesWindow /\ Flowing =>
        /\ \A i \in 1..Len(window.boundaries) :
              window.boundaries[i].at.cursor + window.inFlight
                = lastSent.cursor + BytesThrough(window.boundaries, i)
        /\ clientState = "open" => lastSent.cursor <= AppliedOrAnnounced + window.inFlight

\* Without a window a turn begins when the one before it has been applied, or
\* during a burst.
TurnHolds ==
    FlowControl = "turn-ack-v1" /\ Flowing =>
        /\ awaitingTurnAck => turnAck.cursor = lastSent.cursor
        /\ clientState = "open" /\ ~awaitingTurnAck =>
              lastSent.cursor <= AppliedOrAnnounced + ReplayBurstLimit
                                    + IF writerPc = "turn" /\ turn.seq # 0 THEN written ELSE 0

CreditInv ==
    /\ StartsOnce
    /\ AgentCursors
    /\ \A i \in 1..Len(buffer) : EntryBytes(buffer[i])
    /\ WireRises
    /\ AckedApplied
    /\ BurstBounds
    /\ BurstHeld
    /\ WindowHeld
    /\ TurnHolds

-----------------------------------------------------------------------------
(* What is queued.                                                         *)

\* A new entry belongs to what the agent has sent.
NewEntry(d) ==
    /\ EntryShape(d) /\ EntryBytes(d)
    /\ d.kind = "replay-start" =>
          agentPhase = "attach" /\ agentPhase' # "attach" /\ readerPc = "read"
    /\ d.burstStart => /\ d.after.cursor <= replayTo'
                       /\ replayTo' <= d.after.cursor + ReplayBurstLimit
    /\ d.kind = "binary" =>
          /\ agentPhase # "attach" /\ agentPhase' # "attach"
          /\ replayTo' < d.after.cursor => agentPhase = "live"
    /\ d.burstFinish /\ agentPhase' = "attach" => readerPc' \in {"return", "done"}

\* Queueing leaves the buffer alone, cuts it to the notice, or adds an entry.
BufferKept == UNCHANGED <<buffer, overloaded, replayBurstActive>>
BufferCut ==
    /\ overloaded' = TRUE /\ replayBurstActive' = FALSE
    /\ Len(buffer') = 1 /\ buffer'[1].kind = "overload"
    /\ ~buffer'[1].burstStart /\ ~buffer'[1].burstFinish
BufferPut(d) ==
    /\ Accepting /\ UNCHANGED <<overloaded, replayBurstActive>>
    /\ buffer' = Append(buffer, d)
    /\ agentPhase' = "live" => agentPhase = "live" \/ d.burstFinish

QueuesWell ==
    \/ BufferKept /\ (agentPhase' = "live" /\ Accepting' => agentPhase = "live")
    \/ BufferCut
    \/ \E d \in Entry : NewEntry(d) /\ BufferPut(d)

\* The agent's phase only moves on, and the replay it announced stays.
PhaseStep ==
    /\ agentPhase # "attach" => agentPhase' # "attach" /\ replayTo' = replayTo
    /\ agentPhase' = "attach" => replayTo' = replayTo /\ cursor' = cursor
    /\ readerPc \in {"return", "done"} => readerPc' \in {"return", "done"}

\* What an entry and its numbered copy have in common.
Alike(d, e) ==
    /\ d.kind = e.kind /\ d.before = e.before /\ d.after = e.after /\ d.cost = e.cost
    /\ d.burstStart = e.burstStart /\ d.burstFinish = e.burstFinish

\* Numbering an entry changes nothing the refinement looks at.
LEMMA NumberedAlike ==
    ASSUME NEW e \in Entry, NEW n \in Nat
    PROVE  [e EXCEPT !.seq = n] \in Entry /\ Alike([e EXCEPT !.seq = n], e)
BY DEF Entry, Alike

\* An entry that is well formed stays so once numbered.
LEMMA NewEntryAlike ==
    ASSUME NEW d, NEW e, Alike(d, e), NewEntry(e)
    PROVE  NewEntry(d)
BY DEF Alike, NewEntry, EntryShape, EntryBytes

\* What is refused leaves the buffer alone.
LEMMA DropKeeps == Drop => BufferKept
BY DEF Drop, dataVars, bufferVars, turnVars, BufferKept

\* Overload leaves nothing but its notice in the buffer.
LEMMA OverloadCuts ==
    ASSUME BufferType, lastSent \in Position, NEW who, Accepting, Overload(who)
    PROVE  BufferCut
<1>1. /\ overloaded' = TRUE /\ replayBurstActive' = FALSE /\ buffer' = <<OverloadNotice>>
  BY DEF Overload
<1>2. Len(buffer') = 1 /\ buffer'[1] = OverloadNotice
  BY <1>1
<1> QED BY <1>1, <1>2, NoticeEntry DEF BufferCut

\* Queueing keeps the buffer, adds the entry, or cuts the backlog.
LEMMA EnqueueWell ==
    ASSUME BufferType, lastSent \in Position, NEW who, NEW e \in Entry, Enqueue(e, who),
           NewEntry(e), active' = active,
           agentPhase' = "live" => agentPhase = "live" \/ e.burstFinish
    PROVE  QueuesWell
<1>1. CASE ~Accepting /\ Drop
  <2>1. overloaded' = overloaded /\ ~Accepting'
    BY <1>1 DEF Drop, dataVars, bufferVars, Accepting
  <2> QED BY <1>1, <2>1, DropKeeps DEF QueuesWell
<1>2. CASE Accepting /\ Overload(who)
  BY <1>2, OverloadCuts DEF QueuesWell
<1> DEFINE d == [e EXCEPT !.seq = nextSequence + 1]
<1>3. CASE /\ Accepting /\ buffer' = Append(buffer, d)
           /\ UNCHANGED <<overloaded, turnVars, stopPending>>
  <2>1. nextSequence + 1 \in Nat
    BY DEF BufferType
  <2>2. d \in Entry /\ Alike(d, e)
    BY <2>1, NumberedAlike
  <2> HIDE DEF d
  <2>3. NewEntry(d) /\ d.burstFinish = e.burstFinish
    BY <2>2, NewEntryAlike DEF Alike
  <2>4. BufferPut(d)
    BY <1>3, <2>3 DEF BufferPut, turnVars
  <2> QED BY <2>2, <2>3, <2>4 DEF QueuesWell
<1> QED
  <2> HIDE DEF d
  <2> QED BY <1>1, <1>2, <1>3, Queueing DEF d

\* A plain control moves nothing.
LEMMA PlainNew ==
    ASSUME TypeInv, NEW kind \in TextKinds \ {"replay-start"},
           kind # "text" /\ agentPhase' = "attach" => readerPc' \in {"return", "done"}
    PROVE  /\ Plain(kind) \in Entry /\ NewEntry(Plain(kind))
           /\ Plain(kind).burstFinish = (kind # "text")
<1>1. /\ Plain(kind) \in Entry /\ EntryShape(Plain(kind))
  BY PlainShape
<1>2. /\ Plain(kind).kind = kind /\ Plain(kind).burstStart = FALSE
      /\ Plain(kind).burstFinish = (kind # "text")
  BY DEF Plain, Text
<1>3. kind # "binary"
  BY DEF TextKinds
<1> QED BY <1>1, <1>2, <1>3 DEF NewEntry, EntryBytes

\* The types of the cursors of the agent and of its reader.
LEMMA CursorTypes ==
    ASSUME TypeInv
    PROVE  /\ cursor \in Nat /\ agentCursor \in Nat /\ replayTo \in Nat
           /\ binarySequence \in Nat /\ MaxOutput \in Nat /\ ReplayBurstLimit \in Nat
           /\ chunk.from \in Nat /\ chunk.to \in Nat /\ chunk \in [from : Nat, to : Nat]
BY TypeParts, ConstantsType DEF CursorType, AgentType, ReaderType

\* A control that is not the announcement does not move the cursor.
LEMMA PlainWell ==
    ASSUME TypeInv, NEW kind \in TextKinds \ {"replay-start"}, NEW who,
           Enqueue(Plain(kind), who), active' = active,
           kind # "text" /\ agentPhase' = "attach" => readerPc' \in {"return", "done"},
           agentPhase' = "live" => agentPhase = "live" \/ kind # "text"
    PROVE  QueuesWell
<1>1. BufferType /\ lastSent \in Position
  BY TypeParts DEF WriterType
<1> QED BY <1>1, PlainNew, EnqueueWell

\* The announcement is queued at cursor 0, the first and only time.
LEMMA ReplayStartWell ==
    ASSUME TypeInv, FrameOrder, StartsOnce, AgentCursors,
           NEW to \in 0..MaxOutput, NEW snapshot \in BOOLEAN, ReadReplayStart(to, snapshot),
           active' = active
    PROVE  QueuesWell /\ PhaseStep /\ AgentCursors'
<1> DEFINE after == [cursor |-> agentCursor, seq |-> binarySequence]
           admitted == BurstAdmitted(agentCursor, to, snapshot)
           entry == Text("replay-start", Enqueued, after, admitted, FALSE)
<1>0. /\ BufferType /\ lastSent \in Position /\ ReaderType /\ CursorType
      /\ after \in Position
  BY TypeParts, CursorTypes DEF WriterType, Position
<1>1. /\ agentPhase = "attach" /\ agentPhase' = "replay" /\ replayTo' = to
      /\ readerPc = "read" /\ readerPc' = "poll" /\ agentCursor <= to
      /\ cursor' = agentCursor /\ agentCursor' = agentCursor
      /\ Enqueue(entry, "reader")
  BY CursorTypes DEF ReadReplayStart
<1>2. AgentCursors' /\ PhaseStep
  BY <1>1, CursorTypes DEF AgentCursors, PhaseStep
<1>2a. admitted \in BOOLEAN
  BY DEF BurstAdmitted
<1>2b. ASSUME admitted PROVE to <= agentCursor + ReplayBurstLimit
  <2>1. to - agentCursor <= ReplayBurstLimit
    BY <1>2b, Zenon DEF BurstAdmitted
  <2> HIDE DEF after, admitted, entry
  <2> QED BY <2>1, CursorTypes
<1>3. admitted \in BOOLEAN /\ (admitted => to <= agentCursor + ReplayBurstLimit)
  BY <1>2a, <1>2b
<1>4. Enqueued \in Position /\ Enqueued.cursor = 0 /\ Enqueued.seq = 0 /\ after.seq = 0
      /\ after.cursor = agentCursor
  BY <1>0, <1>1, EnqueuedType DEF Enqueued, StartsOnce, FrameOrder
<1>5. entry \in Entry
  BY <1>0, <1>3, <1>4, TextType DEF TextKinds
<1> HIDE DEF after, admitted
<1>6. /\ entry.kind = "replay-start" /\ entry.before = Enqueued /\ entry.after = after
      /\ entry.burstStart = admitted /\ entry.burstFinish = FALSE
  BY DEF Text
<1> HIDE DEF entry
<1>7. after.cursor <= MaxOutput
  BY <1>4 DEF AgentCursors
<1>8. NewEntry(entry)
  BY <1>1, <1>3, <1>4, <1>6, <1>7 DEF NewEntry, EntryShape, EntryBytes
<1>9. QueuesWell
  BY <1>0, <1>1, <1>5, <1>8, EnqueueWell
<1> QED BY <1>2, <1>9

\* A frame is accepted whole: the cursor moves before the chunks are cut.
LEMMA BinaryWell ==
    ASSUME TypeInv, AgentCursors, NEW length \in 1..FrameBytes, ReadBinary(length),
           active' = active
    PROVE  QueuesWell /\ PhaseStep /\ AgentCursors'
<1>0. BufferType /\ lastSent \in Position /\ length \in Nat
  BY TypeParts, ConstantsType DEF WriterType
<1>1. /\ readerPc = "read" /\ agentPhase' = agentPhase /\ replayTo' = replayTo
      /\ \/ agentPhase = "replay" /\ agentCursor + length <= replayTo
         \/ agentPhase = "live" /\ agentCursor + length <= MaxOutput
      /\ agentCursor' = agentCursor + length
      /\ \/ Overload("reader") /\ readerPc' = "poll" /\ cursor' = cursor
         \/ /\ cursor' = cursor + length /\ readerPc' = "chunk"
            /\ UNCHANGED <<dataVars, stopPending, signals>>
  BY DEF ReadBinary
<1>2. PhaseStep
  BY <1>1 DEF PhaseStep
<1>3. AgentCursors'
  BY <1>0, <1>1, CursorTypes DEF AgentCursors
<1>4. QueuesWell
  <2>1. CASE Drop
    BY <1>1, <2>1, DropKeeps DEF QueuesWell, Accepting, Drop, dataVars, bufferVars
  <2>2. CASE Accepting /\ Overload("reader")
    BY <1>0, <2>2, OverloadCuts DEF QueuesWell
  <2> QED
    <3>1. ~Accepting /\ Overload("reader") => Drop
      BY DEF Overload
    <3>2. UNCHANGED <<dataVars, stopPending, signals>> => Drop
      BY DEF Drop
    <3>3. CASE UNCHANGED <<dataVars, stopPending, signals>>
      BY <2>1, <3>2, <3>3
    <3>4. CASE Overload("reader")
      BY <2>1, <2>2, <3>1, <3>4
    <3> QED BY <1>1, <3>3, <3>4
<1> QED BY <1>2, <1>3, <1>4

\* A chunk moves the cursor by its length, within what the agent wrote.
LEMMA ChunkWell ==
    ASSUME TypeInv, FrameOrder, AgentCursors, EnqueueChunk, active' = active
    PROVE  QueuesWell /\ PhaseStep /\ AgentCursors'
<1> DEFINE after == [cursor |-> chunk.from + ChunkLength, seq |-> binarySequence + 1]
           entry == [kind |-> "binary", before |-> Enqueued, after |-> after,
                     seq |-> 0, cost |-> ChunkLength, burstStart |-> FALSE,
                     burstFinish |-> FALSE]
<1>0. /\ BufferType /\ lastSent \in Position /\ ReaderType /\ CursorType
      /\ PayloadMax \in Nat \ {0}
  BY TypeParts, ConstantsType DEF WriterType
<1>1. /\ readerPc = "chunk" /\ chunk.from < chunk.to /\ chunk.to = cursor
      /\ readerPc' \in {"poll", "chunk"}
      /\ UNCHANGED <<agentPhase, agentCursor, replayTo, cursor>>
      /\ Enqueue(entry, "reader")
  BY TypeParts DEF EnqueueChunk, FrameOrder, ChunkOpen, agentVars
<1>2. /\ ChunkLength \in Nat /\ 0 < ChunkLength /\ ChunkLength <= PayloadMax
      /\ chunk.from + ChunkLength \in Nat /\ chunk.from + ChunkLength <= cursor
  BY <1>0, <1>1, CursorTypes DEF ChunkLength
<1>3. Enqueued \in Position /\ after \in Position
  BY <1>0, <1>2, EnqueuedType, CursorTypes DEF Position
<1>4. /\ entry \in Entry /\ entry.kind = "binary" /\ entry.before = Enqueued
      /\ entry.after = after /\ entry.cost = ChunkLength /\ entry.burstStart = FALSE
      /\ entry.burstFinish = FALSE
  BY <1>2, <1>3 DEF Entry
<1>5. /\ Enqueued.seq = binarySequence /\ after.seq = binarySequence + 1
      /\ Enqueued.cursor = chunk.from /\ after.cursor = chunk.from + ChunkLength
  BY <1>1 DEF Enqueued
<1>6. AgentCursors' /\ PhaseStep
  BY <1>1 DEF AgentCursors, PhaseStep
<1> HIDE DEF after, entry
<1>7. after.cursor <= MaxOutput /\ after.cursor <= agentCursor
  BY <1>2, <1>5, CursorTypes DEF AgentCursors
<1>8. agentPhase \in {"replay", "live"} /\ (agentPhase = "replay" => after.cursor <= replayTo)
  <2>1. agentPhase \in {"replay", "live"}
    BY <1>1 DEF AgentCursors
  <2>2. agentPhase = "replay" => agentCursor <= replayTo
    BY DEF AgentCursors
  <2>3. after.cursor \in Nat
    BY <1>2, <1>5
  <2> QED BY <1>7, <2>1, <2>2, <2>3, CursorTypes
<1>9. EntryShape(entry) /\ EntryBytes(entry)
  BY <1>2, <1>4, <1>5, <1>7 DEF EntryShape, EntryBytes
<1>10. replayTo < after.cursor => agentPhase = "live"
  BY <1>2, <1>5, <1>8, CursorTypes
<1>11. NewEntry(entry)
  BY <1>1, <1>4, <1>8, <1>9, <1>10 DEF NewEntry
<1>12. QueuesWell
  BY <1>0, <1>1, <1>4, <1>11, EnqueueWell
<1> QED BY <1>6, <1>12

\* What each step of the reader queues.
LEMMA ReaderWell ==
    ASSUME TypeInv, FrameOrder, StartsOnce, AgentCursors, Reader
    PROVE  QueuesWell /\ PhaseStep /\ AgentCursors' /\ active' = active
<1>0. BufferType /\ lastSent \in Position /\ active' = active
  BY TypeParts, ReaderQueues DEF WriterType
<1>1. CASE ReaderPoll \/ ReaderReturn
  <2>1. /\ Drop /\ UNCHANGED <<agentVars, cursorVars>>
        /\ readerPc \notin {"chunk", "done"}
        /\ readerPc' # "chunk" /\ (readerPc = "return" => readerPc' = "done")
    BY <1>1 DEF ReaderPoll, ReaderReturn, Drop, wakeVars, lifeVars
  <2>2. QueuesWell
    BY <1>0, <2>1, DropKeeps DEF QueuesWell, agentVars, Drop, dataVars, bufferVars, Accepting
  <2> QED BY <1>0, <2>1, <2>2 DEF PhaseStep, AgentCursors, agentVars, cursorVars
<1>2. CASE ReadPlain
  <2>1. /\ Enqueue(Plain("text"), "reader") /\ readerPc = "read" /\ readerPc' = "poll"
        /\ UNCHANGED <<agentPhase, agentCursor, replayTo, cursor>>
    BY <1>2 DEF ReadPlain, cursorVars
  <2>2. "text" \in TextKinds \ {"replay-start"}
    BY DEF TextKinds
  <2>3. QueuesWell
    BY <1>0, <2>1, <2>2, PlainWell
  <2> QED BY <1>0, <2>1, <2>3 DEF PhaseStep, AgentCursors
<1>3. CASE \E to \in 0..MaxOutput, snapshot \in BOOLEAN : ReadReplayStart(to, snapshot)
  BY <1>0, <1>3, ReplayStartWell
<1>4. CASE ReadReplayComplete
  <2>1. /\ readerPc = "read" /\ readerPc' = "poll"
        /\ agentPhase = "replay" /\ agentPhase' = "live"
        /\ UNCHANGED <<agentCursor, replayTo, cursor>>
        /\ Enqueue(Plain("replay-complete"), "reader") \/ Overload("reader")
    BY <1>4 DEF ReadReplayComplete, cursorVars
  <2>2. "replay-complete" \in TextKinds \ {"replay-start"}
    BY DEF TextKinds
  <2>3. QueuesWell
    <3>1. CASE Enqueue(Plain("replay-complete"), "reader")
      BY <1>0, <2>1, <2>2, <3>1, PlainWell
    <3>2. CASE Overload("reader") /\ Accepting
      BY <1>0, <3>2, OverloadCuts DEF QueuesWell
    <3>3. CASE Overload("reader") /\ ~Accepting
      <4>1. Drop
        BY <3>3 DEF Overload
      <4>2. ~Accepting'
        BY <1>0, <3>3, <4>1 DEF Drop, dataVars, bufferVars, Accepting
      <4> QED BY <4>1, <4>2, DropKeeps DEF QueuesWell
    <3> QED BY <2>1, <3>1, <3>2, <3>3
  <2> QED BY <1>0, <2>1, <2>3 DEF PhaseStep, AgentCursors
<1>5. CASE \E length \in 1..FrameBytes : ReadBinary(length)
  BY <1>0, <1>5, BinaryWell
<1>6. CASE EnqueueChunk
  BY <1>0, <1>6, ChunkWell
<1>7. CASE ReadTerminalControl
  <2>1. /\ Enqueue(Plain("terminal"), "reader") /\ readerPc = "read" /\ readerPc' = "poll"
        /\ agentPhase' = "ended"
        /\ UNCHANGED <<agentCursor, replayTo, cursor>>
    BY <1>7 DEF ReadTerminalControl
  <2>2. "terminal" \in TextKinds \ {"replay-start"}
    BY DEF TextKinds
  <2>3. QueuesWell
    BY <1>0, <2>1, <2>2, PlainWell
  <2> QED BY <1>0, <2>1, <2>3 DEF PhaseStep, AgentCursors
<1>8. CASE ReadEnd
  <2>1. /\ readerPc = "read" /\ readerPc' = "return"
        /\ UNCHANGED <<agentPhase, agentCursor, replayTo, cursor>>
    BY <1>8 DEF ReadEnd, agentVars
  <2>2. PICK kind \in {"terminal", "error"} : Enqueue(Plain(kind), "reader") \/ Drop
    BY <1>8 DEF ReadEnd
  <2>3. kind \in TextKinds \ {"replay-start"} /\ kind # "text"
    BY DEF TextKinds
  <2>4. CASE Enqueue(Plain(kind), "reader")
    BY <1>0, <2>1, <2>3, <2>4, PlainWell DEF PhaseStep, AgentCursors
  <2>5. CASE Drop
    BY <1>0, <2>1, <2>5, DropKeeps DEF QueuesWell, PhaseStep, AgentCursors
  <2> QED BY <2>2, <2>4, <2>5
<1> QED
  BY <1>1, <1>2, <1>3, <1>4, <1>5, <1>6, <1>7, <1>8 DEF Reader

\* What a reply to a ping queues.
LEMMA PingWell ==
    ASSUME TypeInv, AgentCursors, LoopPing
    PROVE  QueuesWell /\ PhaseStep /\ AgentCursors' /\ active' = active
<1>1. /\ Enqueue(Plain("text"), "loop") /\ active' = active
      /\ UNCHANGED <<agentVars, readerPc, cursorVars>>
  BY DEF LoopPing, LoopRest
<1>2. "text" \in TextKinds \ {"replay-start"}
  BY DEF TextKinds
<1>3. agentPhase' = agentPhase /\ replayTo' = replayTo /\ agentCursor' = agentCursor
      /\ cursor' = cursor /\ readerPc' = readerPc
  BY <1>1 DEF agentVars, cursorVars
<1>4. QueuesWell
  BY <1>1, <1>2, <1>3, PlainWell
<1> QED BY <1>1, <1>3, <1>4 DEF PhaseStep, AgentCursors

\* Steps that queue nothing leave the agent alone, and only LoopRun starts the reader.
LEMMA OtherAgents ==
    ASSUME [Next]_vars, ~Reader, ~LoopPing, Unstarted
    PROVE  /\ UNCHANGED agentVars /\ UNCHANGED cursorVars
           /\ readerPc' = readerPc \/ (readerPc = "none" /\ readerPc' = "poll")
<1>1. CASE Next
  <2>1. CASE StopRuns
    BY <2>1 DEF StopRuns, readerVars
  <2>2. CASE Writer
    <3>1. WriterRest
      BY <2>2 DEF Writer, WriterWake, WriterStops, WriterScan, WriterSend, WriterFinishTurn,
                  WriterRoundEnd
    <3> QED BY <3>1 DEF WriterRest, readerVars
  <2>3. CASE Loop
    <3>1. CASE LoopRun
      BY <3>1 DEF LoopRun, LoopRest, Unstarted
    <3>2. CASE ~LoopRun
      BY <2>3, <3>2 DEF Loop, LoopRegister, LoopAck, LoopRemove, LoopClose, LoopDeactivate,
                        LoopStop, LoopRest
    <3> QED BY <3>1, <3>2
  <2>4. CASE Client
    <3>1. ClientRest
      BY <2>4 DEF Client, ClientReceive, ClientApply, ClientAck, ClientLeave
    <3> QED BY <3>1 DEF ClientRest, readerVars
  <2>5. CASE \E who \in {"reader", "loop"} : Signal(who)
    BY <2>5 DEF Signal, readerVars
  <2> QED BY <1>1, <2>1, <2>2, <2>3, <2>4, <2>5 DEF Next
<1>2. CASE UNCHANGED vars
  BY <1>2 DEF vars, readerVars
<1> QED BY <1>1, <1>2

\* The agent is seen only by its reader.
LEMMA OtherPhases ==
    ASSUME [Next]_vars, ~Reader, ~LoopPing, Unstarted
    PROVE  PhaseStep /\ (AgentCursors => AgentCursors')
<1>1. /\ agentPhase' = agentPhase /\ replayTo' = replayTo /\ agentCursor' = agentCursor
      /\ cursor' = cursor
      /\ readerPc' = readerPc \/ (readerPc = "none" /\ readerPc' = "poll")
  BY OtherAgents DEF agentVars, cursorVars
<1> QED BY <1>1 DEF PhaseStep, AgentCursors

\* What the reader and a ping do.
LEMMA QueueWell ==
    ASSUME TypeInv, FrameOrder, StartsOnce, AgentCursors, Reader \/ LoopPing
    PROVE  /\ QueuesWell /\ PhaseStep /\ AgentCursors' /\ active' = active
           /\ UNCHANGED writerVars /\ UNCHANGED socketVars
           /\ UNCHANGED <<turnVars, overloaded>> \/ TurnsEnded
<1>1. BufferType
  BY TypeParts
<1>2. CASE Reader
  BY <1>1, <1>2, ReaderWell, ReaderQueues, QueueTurns
<1>3. CASE LoopPing
  BY <1>1, <1>3, PingWell, PingQueues, QueueTurns
<1> QED BY <1>2, <1>3

\* The cursors of the agent stay in order.
LEMMA NextPhases ==
    ASSUME TypeInv, FrameOrder, Unstarted, StartsOnce, AgentCursors, [Next]_vars
    PROVE  PhaseStep /\ AgentCursors'
BY QueueWell, OtherPhases

-----------------------------------------------------------------------------
(* The buffer and the websocket, step by step.                             *)

BytesKept == \A i \in 1..Len(buffer) : EntryBytes(buffer[i])

\* Every entry stays accounted for.
LEMMA NextEntryBytes ==
    ASSUME TypeInv, FrameOrder, StartsOnce, AgentCursors, BytesKept, [Next]_vars
    PROVE  BytesKept'
<1>0. buffer \in Seq(Entry)
  BY TypeParts DEF BufferType
<1>1. CASE UNCHANGED buffer
  BY <1>1 DEF BytesKept
<1>2. CASE Reader \/ LoopPing
  <2>1. CASE BufferCut
    <3>1. \A i \in 1..Len(buffer') : i = 1
      BY <2>1 DEF BufferCut
    <3> QED BY <2>1, <3>1 DEF BufferCut, BytesKept, EntryBytes
  <2>2. ASSUME NEW d \in Entry, NewEntry(d), BufferPut(d) PROVE BytesKept'
    <3>1. buffer' = Append(buffer, d) /\ EntryBytes(d)
      BY <2>2 DEF BufferPut, NewEntry
    <3>2. \A i \in 1..Len(buffer') : buffer'[i] = d \/ (i \in 1..Len(buffer) /\ buffer'[i] = buffer[i])
      BY <1>0, <3>1, AppendFacts
    <3> QED BY <3>1, <3>2 DEF BytesKept
  <2> QED BY <1>1, <1>2, <2>1, <2>2, QueueWell DEF QueuesWell, BufferKept
<1>3. CASE WriterSend
  <2>1. buffer' = Tail(buffer)
        /\ \A i \in 1..Len(Tail(buffer)) : i + 1 \in 1..Len(buffer)
                                           /\ Tail(buffer)[i] = buffer[i + 1]
    BY <1>3, SendFacts
  <2> QED BY <2>1 DEF BytesKept
<1>4. CASE LoopDeactivate
  <2>1. buffer' = <<>>
    BY <1>4 DEF LoopDeactivate
  <2> QED BY <2>1 DEF BytesKept
<1> QED BY <1>1, <1>2, <1>3, <1>4, OtherBuffers DEF bufferVars

\* What is written to the websocket continues it.
WirePut(m) ==
    /\ m.before = lastSent /\ lastSent' = m.after /\ wire' = Append(wire, m)
    /\ clientPos' = clientPos /\ applied' = applied
    /\ clientState' = clientState
    /\ m.before.cursor <= m.after.cursor
    /\ m.type = "replay-start" =>
          m.before.cursor = 0 /\ WriterSend /\ Head(buffer).kind = "replay-start"
    /\ m.type \notin {"binary", "replay-start"} => m.after = m.before
    /\ WriterSend => m.type = Head(buffer).kind /\ m.after = Head(buffer).after

\* The writer puts the first entry on the websocket, or nothing.
LEMMA SentPut ==
    ASSUME TypeInv, BufferOrder, BytesKept, WriterSend
    PROVE  UNCHANGED <<wire, lastSent, clientVars>> \/ \E m \in Message : WirePut(m)
<1> DEFINE e == Head(buffer)
           m == [type |-> e.kind, before |-> e.before, after |-> e.after]
<1>1. /\ e \in Entry /\ e.before = lastSent /\ EntryShape(e) /\ EntryBytes(e)
  BY SendFacts, SentFollows DEF BytesKept
<1>2. /\ Write(e.kind, e.before, e.after, "turn")
      /\ UNCHANGED clientVars
  BY DEF WriterSend, WriterRest
<1>3. CASE UNCHANGED <<wire, lastSent>>
  BY <1>2, <1>3
<1>4. CASE wire' = Append(wire, m) /\ lastSent' = m.after
  <2>1. m \in Message /\ m.type = e.kind /\ m.before = e.before /\ m.after = e.after
    BY <1>1 DEF Entry, Message
  <2>2. /\ e.kind = "binary" => e.after.cursor = e.before.cursor + e.cost
        /\ e.kind = "replay-start" => e.before.cursor = 0
        /\ e.kind \notin {"binary", "replay-start"} => e.after = e.before
    BY <1>1 DEF EntryBytes, EntryShape
  <2>3. e.before.cursor \in Nat /\ e.after.cursor \in Nat /\ e.cost \in Nat
    BY <1>1 DEF Entry, Position
  <2> HIDE DEF m
  <2>4. e.before.cursor <= e.after.cursor
    <3> HIDE DEF e
    <3> QED BY <2>2, <2>3
  <2>5. WirePut(m)
    BY <1>1, <1>2, <1>4, <2>1, <2>2, <2>4 DEF WirePut, clientVars
  <2> QED BY <2>1, <2>5
<1> QED BY <1>2, <1>3, <1>4 DEF Write

\* A completed turn puts its control on the websocket, if it puts anything.
LEMMA FinishPut ==
    ASSUME TypeInv, TurnPosition, WriterFinishTurn
    PROVE  \/ UNCHANGED <<wire, lastSent, clientVars>>
           \/ TurnCompleted /\ \E m \in Message : WirePut(m) /\ m.type = "turn-complete"
<1>1. UNCHANGED clientVars /\ writerPc = "turn" /\ (TurnCut \/ TurnKept \/ TurnCompleted)
  BY FinishFacts DEF WriterRest
<1>2. CASE TurnCut \/ TurnKept
  BY <1>1, <1>2 DEF TurnCut, TurnKept
<1>3. CASE TurnCompleted
  <2> DEFINE m == [type |-> "turn-complete", before |-> DoneTurn, after |-> DoneTurn]
  <2>1. DoneTurn = lastSent /\ lastSent \in Position
    BY <1>1, <1>3, DoneIsLast, TypeParts DEF TurnCompleted, WriterType
  <2>2. m \in Message /\ m.type = "turn-complete" /\ m.before = lastSent /\ m.after = lastSent
        /\ lastSent.cursor \in Nat
    BY <2>1 DEF Message, Position
  <2>3. UNCHANGED <<wire, lastSent>> \/ (wire' = Append(wire, m) /\ lastSent' = lastSent)
    BY <1>3, <2>1 DEF TurnCompleted, Write
  <2>4. ~WriterSend
    <3>1. Len(buffer') = Len(buffer) /\ Len(buffer) \in Nat
      BY FinishFacts, TypeParts DEF bufferVars, BufferType
    <3>2. WriterSend => Len(buffer') = Len(buffer) - 1
      BY SendFacts
    <3> QED BY <3>1, <3>2
  <2> HIDE DEF m
  <2>5. CASE wire' = Append(wire, m) /\ lastSent' = lastSent
    <3>1. WirePut(m)
      BY <1>1, <2>2, <2>4, <2>5 DEF WirePut, clientVars
    <3> QED BY <1>3, <2>2, <3>1
  <2> QED BY <1>1, <2>3, <2>5
<1> QED BY <1>1, <1>2, <1>3

\* A refused acknowledgement puts an error on the websocket.
LEMMA AckPut ==
    ASSUME TypeInv, LoopAck
    PROVE  \/ UNCHANGED <<wire, lastSent, clientVars>>
           \/ UNCHANGED turnVars /\ \E m \in Message : WirePut(m) /\ m.type = "pane-error"
<1> DEFINE m == [type |-> "pane-error", before |-> lastSent, after |-> lastSent]
<1>1. /\ UNCHANGED <<lastSent, clientVars, buffer>>
      /\ wire' = wire \/ (wire' = Append(wire, m) /\ UNCHANGED turnVars)
  BY DEF LoopAck, LoopRest, writerVars, bufferVars
<1>2. m \in Message /\ m.type = "pane-error" /\ m.before = lastSent /\ m.after = lastSent
      /\ lastSent.cursor \in Nat
  BY TypeParts DEF Message, Position, WriterType
<1>3. ~WriterSend
  <2>1. Len(buffer') = Len(buffer) /\ Len(buffer) \in Nat
    BY <1>1, TypeParts DEF bufferVars, BufferType
  <2>2. WriterSend => Len(buffer') = Len(buffer) - 1
    BY SendFacts
  <2> QED BY <2>1, <2>2
<1> HIDE DEF m
<1>4. CASE wire' = Append(wire, m) /\ UNCHANGED turnVars
  <2>1. WirePut(m)
    BY <1>1, <1>2, <1>3, <1>4 DEF WirePut, clientVars
  <2> QED BY <1>2, <1>4, <2>1
<1> QED BY <1>1, <1>4

\* The other steps leave the websocket and what has been received alone.
LEMMA OtherWires ==
    ASSUME TypeInv, FrameOrder, [Next]_vars, ~WriterSend, ~WriterFinishTurn, ~LoopAck, ~Client
    PROVE  /\ UNCHANGED <<wire, lastSent, clientPos, applied>>
           /\ clientState' = clientState \/ clientState' = "left"
<1>1. CASE Next
  <2>1. CASE Reader
    BY <2>1, ReaderQueues DEF socketVars, clientVars, writerVars
  <2>2. CASE LoopPing
    BY <2>2, PingQueues DEF socketVars, clientVars, writerVars
  <2>3. CASE Writer
    BY <2>3 DEF Writer, WriterWake, WriterStops, WriterScan, WriterRoundEnd, WriterRest,
       clientVars
  <2>4. CASE LoopClose
    BY <2>4 DEF LoopClose, LoopRest, writerVars
  <2>5. CASE \/ LoopRegister \/ LoopRun \/ LoopRemove \/ LoopStop \/ LoopDeactivate
    BY <2>5 DEF LoopRegister, LoopRun, LoopRemove, LoopStop, LoopDeactivate,
       LoopRest, socketVars, clientVars, writerVars
  <2>6. CASE StopRuns \/ (\E who \in {"reader", "loop"} : Signal(who))
    BY <2>6 DEF StopRuns, Signal, socketVars, clientVars, writerVars
  <2> QED BY <1>1, <2>1, <2>2, <2>3, <2>4, <2>5, <2>6 DEF Next, Loop
<1>2. CASE UNCHANGED vars
  BY <1>2 DEF vars, socketVars, clientVars, writerVars
<1> QED BY <1>1, <1>2

\* What the browser does to it.
LEMMA ClientWires ==
    ASSUME Client, ~ClientReceive
    PROVE  UNCHANGED <<wire, lastSent, clientPos>>
BY DEF Client, ClientApply, ClientAck, ClientLeave, ClientRest, writerVars

\* What a step does to the websocket.
LEMMA WireSteps ==
    ASSUME TypeInv, Positions, BytesKept, [Next]_vars
    PROVE  \/ UNCHANGED <<wire, lastSent, clientPos>>
           \/ \E m \in Message : WirePut(m)
           \/ ClientReceive
<1>0. FrameOrder /\ BufferOrder /\ TurnPosition
  BY DEF Positions
<1>1. CASE WriterSend \/ WriterFinishTurn \/ LoopAck
  BY <1>0, <1>1, SentPut, FinishPut, AckPut DEF clientVars
<1> QED BY <1>0, <1>1, OtherWires, ClientWires

\* The types of what is on the websocket.
LEMMA WireCursors ==
    ASSUME TypeInv
    PROVE  /\ wire \in Seq(Message) /\ Len(wire) \in Nat
           /\ lastSent \in Position /\ lastSent.cursor \in Nat
           /\ clientPos.cursor \in Nat /\ applied \in Nat
           /\ \A i \in 1..Len(wire) : /\ wire[i] \in Message
                                      /\ wire[i].before.cursor \in Nat
                                      /\ wire[i].after.cursor \in Nat
<1>1. wire \in Seq(Message) /\ lastSent \in Position /\ clientPos \in Position /\ applied \in Nat
  BY TypeParts DEF WireType, WriterType, ClientType
<1>2. \A i \in 1..Len(wire) : wire[i] \in Message
  BY <1>1
<1>3. \A m \in Message : m.before.cursor \in Nat /\ m.after.cursor \in Nat
  BY DEF Message, Position
<1>4. \A p \in Position : p.cursor \in Nat
  BY DEF Position
<1> QED BY <1>1, <1>2, <1>3, <1>4

\* On the websocket the cursor never goes back, whatever the step.
LEMMA NextWireRises ==
    ASSUME TypeInv, Positions, BytesKept, WireRises, [Next]_vars
    PROVE  WireRises'
<1>1. CASE UNCHANGED <<wire, lastSent, clientPos>>
  BY <1>1 DEF WireRises
<1>2. ASSUME NEW m \in Message, WirePut(m) PROVE WireRises'
  <2>1. /\ Len(wire') = Len(wire) + 1
        /\ \A i \in 1..Len(wire) : wire'[i] = wire[i]
        /\ wire'[Len(wire) + 1] = m
        /\ \A i \in 1..Len(wire') : i = Len(wire) + 1 \/ i \in 1..Len(wire)
    BY <1>2, AppendFacts, WireCursors DEF WirePut
  <2>2. /\ m.before = lastSent /\ lastSent' = m.after /\ clientPos' = clientPos
        /\ m.before.cursor <= m.after.cursor
        /\ m.type = "replay-start" => m.before.cursor = 0
        /\ m.after.cursor \in Nat
    BY <1>2 DEF WirePut, Message, Position
  <2>3. clientPos'.cursor <= lastSent'.cursor
    BY <2>2, WireCursors DEF WireRises
  <2>4. ASSUME NEW i \in 1..Len(wire')
        PROVE  /\ clientPos'.cursor <= wire'[i].before.cursor
               /\ wire'[i].before.cursor <= wire'[i].after.cursor
               /\ wire'[i].after.cursor <= lastSent'.cursor
               /\ wire'[i].type = "replay-start" => wire'[i].before.cursor = 0
               /\ \A j \in 1..(i - 1) : wire'[j].after.cursor <= wire'[i].before.cursor
    <3>1. CASE i \in 1..Len(wire)
      <4>1. \A j \in 1..(i - 1) : j \in 1..Len(wire)
        BY <3>1, WireCursors
      <4>2. \A j \in 1..(i - 1) : wire'[j] = wire[j]
        BY <2>1, <4>1
      <4>3. wire[i].after.cursor \in Nat /\ wire[i].after.cursor <= lastSent.cursor
        BY <3>1, WireCursors DEF WireRises
      <4>4. wire'[i] = wire[i] /\ wire'[i].after.cursor <= lastSent'.cursor
        BY <2>1, <2>2, <3>1, <4>3, WireCursors
      <4> QED BY <2>2, <3>1, <4>2, <4>4, SMTT(30) DEF WireRises
    <3>2. CASE i = Len(wire) + 1
      <4>1. \A j \in 1..(i - 1) : j \in 1..Len(wire)
        BY <3>2, WireCursors
      <4> QED BY <2>1, <2>2, <3>2, <4>1, WireCursors DEF WireRises
    <3> QED BY <2>1, <3>1, <3>2
  <2> QED BY <2>3, <2>4 DEF WireRises
<1>3. CASE ClientReceive
  <2>1. /\ wire # <<>> /\ wire' = Tail(wire) /\ clientPos' = wire[1].after
        /\ lastSent' = lastSent /\ 1 \in 1..Len(wire) /\ Len(wire') = Len(wire) - 1
        /\ \A i \in 1..Len(wire') : i + 1 \in 1..Len(wire) /\ wire'[i] = wire[i + 1]
    <3>1. wire # <<>> /\ wire' = Tail(wire) /\ clientPos' = Head(wire).after
          /\ lastSent' = lastSent
      BY <1>3 DEF ClientReceive, ClientRest, writerVars
    <3> QED BY <3>1, WireCursors, TailFacts
  <2>2. clientPos'.cursor <= lastSent'.cursor
    BY <2>1 DEF WireRises
  <2>3. ASSUME NEW i \in 1..Len(wire')
        PROVE  /\ clientPos'.cursor <= wire'[i].before.cursor
               /\ wire'[i].before.cursor <= wire'[i].after.cursor
               /\ wire'[i].after.cursor <= lastSent'.cursor
               /\ wire'[i].type = "replay-start" => wire'[i].before.cursor = 0
               /\ \A j \in 1..(i - 1) : wire'[j].after.cursor <= wire'[i].before.cursor
    <3>1. i + 1 \in 1..Len(wire) /\ wire'[i] = wire[i + 1] /\ 1 \in 1..((i + 1) - 1)
      BY <2>1
    <3>2. \A j \in 1..(i - 1) : j \in 1..Len(wire') /\ j + 1 \in 1..((i + 1) - 1)
      BY <2>1, WireCursors
    <3>3. \A j \in 1..(i - 1) : wire'[j] = wire[j + 1]
      BY <2>1, <3>2
    <3>4. /\ wire[i + 1].before.cursor <= wire[i + 1].after.cursor
          /\ wire[i + 1].after.cursor <= lastSent.cursor
          /\ wire[i + 1].type = "replay-start" => wire[i + 1].before.cursor = 0
          /\ \A j \in 1..((i + 1) - 1) : wire[j].after.cursor <= wire[i + 1].before.cursor
      BY <3>1 DEF WireRises
    <3>5. \A j \in 1..(i - 1) : wire[j + 1].after.cursor <= wire[i + 1].before.cursor
      BY <3>2, <3>4
    <3> QED BY <2>1, <3>1, <3>3, <3>4, <3>5
  <2> QED BY <2>2, <2>3 DEF WireRises
<1> QED BY <1>1, <1>2, <1>3, WireSteps

\* The announcements after a message is appended.
LEMMA AppendedStarts ==
    ASSUME wire \in Seq(Message), NEW m \in Message, wire' = Append(wire, m)
    PROVE  /\ m.type # "replay-start" => Announced' = Announced
           /\ Announced' \subseteq Announced \cup {Len(wire) + 1}
           /\ \A i \in Announced : i \in Announced' /\ wire'[i] = wire[i]
           /\ m.type = "replay-start" => Len(wire) + 1 \in Announced'
           /\ wire'[Len(wire) + 1] = m
<1>1. /\ Len(wire) + 1 \in 1..Len(wire') /\ wire'[Len(wire) + 1] = m
      /\ \A i \in 1..Len(wire) : i \in 1..Len(wire') /\ wire'[i] = wire[i]
      /\ \A i \in 1..Len(wire') : i = Len(wire) + 1 \/ i \in 1..Len(wire)
  BY AppendFacts
<1> QED BY <1>1 DEF Announced

\* The announcements after a message is taken.
LEMMA TakenStarts ==
    ASSUME wire \in Seq(Message), wire # <<>>, wire' = Tail(wire)
    PROVE  /\ \A i \in Announced' : i \in Nat /\ i + 1 \in Announced /\ wire'[i] = wire[i + 1]
           /\ \A i \in Announced : i \in Nat /\ (i = 1 \/ (i - 1 \in Announced' /\ wire'[i - 1] = wire[i]))
           /\ 1 \in Announced <=> Head(wire).type = "replay-start"
<1>1. /\ Head(wire) = wire[1] /\ 1 \in 1..Len(wire) /\ Len(wire) \in Nat
      /\ \A i \in 1..Len(wire') : i + 1 \in 1..Len(wire) /\ wire'[i] = wire[i + 1]
      /\ \A i \in 1..Len(wire) : i = 1 \/ (i - 1 \in 1..Len(wire') /\ wire'[i - 1] = wire[i])
  BY TailFacts
<1>2. \A i \in 1..Len(wire) : i \in Nat
  BY <1>1
<1>3. \A i \in 1..Len(wire') : i \in Nat
  OBVIOUS
<1> QED BY <1>1, <1>2, <1>3 DEF Announced

\* The replay is announced once.
LEMMA NextStartsOnce ==
    ASSUME TypeInv, Positions, StartsOnce, AgentCursors, BytesKept, [Next]_vars
    PROVE  StartsOnce'
<1>0. /\ FrameOrder /\ BufferOrder /\ Unstarted /\ buffer \in Seq(Entry) /\ wire \in Seq(Message)
      /\ Len(buffer) \in Nat
  BY TypeParts DEF Positions, BufferType, WireType
<1>1. /\ agentPhase # "attach" => agentPhase' # "attach"
      /\ agentPhase' = "attach" => cursor' = cursor
  BY <1>0, NextPhases DEF PhaseStep
<1>2. CASE WriterSend
  <2>1. /\ buffer' = Tail(buffer) /\ Head(buffer) = buffer[1] /\ 1 \in 1..Len(buffer)
        /\ \A i \in 1..Len(buffer') : i + 1 \in 1..Len(buffer) /\ buffer'[i] = buffer[i + 1]
    BY <1>2, SendFacts
  <2>2. /\ \A i \in Unannounced' : i \in Nat /\ i # 0 /\ i + 1 \in Unannounced
        /\ 1 \in Unannounced <=> Head(buffer).kind = "replay-start"
    <3>1. \A i \in 1..Len(buffer') : i \in Nat /\ i # 0
      OBVIOUS
    <3> QED BY <2>1, <3>1 DEF Unannounced
  <2>3. \A i, j \in Unannounced' : i = j
    BY <2>2 DEF StartsOnce
  <2>4. CASE Announced' = Announced
    BY <1>1, <2>2, <2>3, <2>4 DEF StartsOnce
  <2>5. CASE Announced' # Announced
    <3>1. PICK m \in Message : WirePut(m)
      BY <1>0, <1>2, <2>5, SentPut DEF Announced
    <3>2. wire' = Append(wire, m) /\ m.type = Head(buffer).kind
      BY <1>2, <3>1 DEF WirePut
    <3>3. m.type = "replay-start" /\ Announced' \subseteq Announced \cup {Len(wire) + 1}
      BY <1>0, <2>5, <3>2, AppendedStarts
    <3>4. 1 \in Unannounced
      BY <2>2, <3>2, <3>3
    <3>5. Announced = {} /\ \A i \in Unannounced : i = 1
      BY <3>4 DEF StartsOnce
    <3>6. Unannounced' = {} /\ \A i, j \in Announced' : i = j
      <4>1. \A i \in Unannounced' : FALSE
        BY <2>2, <3>5
      <4> QED BY <3>3, <3>5, <4>1
    <3>7. agentPhase' # "attach"
      BY <1>1, <3>4 DEF StartsOnce
    <3> QED BY <3>6, <3>7 DEF StartsOnce
  <2> QED BY <2>4, <2>5
<1>3. CASE ClientReceive
  <2>1. UNCHANGED bufferVars /\ wire # <<>> /\ wire' = Tail(wire)
    BY <1>3 DEF ClientReceive, ClientRest, dataVars
  <2>2. Unannounced' = Unannounced
    BY <2>1 DEF bufferVars, Unannounced
  <2>3. \A i \in Announced' : i \in Nat /\ i + 1 \in Announced
    BY <1>0, <2>1, TakenStarts
  <2> QED BY <1>1, <2>2, <2>3 DEF StartsOnce
<1>4. ASSUME ~WriterSend, ~ClientReceive PROVE Announced' = Announced
  <2>1. CASE UNCHANGED wire
    BY <2>1 DEF Announced
  <2>2. ASSUME NEW m \in Message, WirePut(m) PROVE Announced' = Announced
    <3>1. wire' = Append(wire, m) /\ m.type # "replay-start"
      BY <1>4, <2>2 DEF WirePut
    <3> QED BY <1>0, <3>1, AppendedStarts
  <2> QED BY <1>4, <2>1, <2>2, WireSteps
<1>5. CASE Reader \/ LoopPing
  <2>1. Announced' = Announced
    BY <1>0, <1>5, QueueWell DEF socketVars, Announced
  <2>2. CASE BufferKept
    <3>1. Unannounced' = Unannounced
      BY <2>2 DEF BufferKept, Unannounced
    <3> QED BY <1>1, <2>1, <3>1 DEF StartsOnce
  <2>3. CASE BufferCut
    <3>1. \A i \in 1..Len(buffer') : i = 1
      BY <2>3 DEF BufferCut
    <3>2. Unannounced' = {}
      BY <2>3, <3>1 DEF BufferCut, Unannounced
    <3> QED BY <1>1, <2>1, <3>2 DEF StartsOnce
  <2>4. ASSUME NEW d \in Entry, NewEntry(d), BufferPut(d) PROVE StartsOnce'
    <3>1. /\ Len(buffer) + 1 \in 1..Len(buffer') /\ buffer'[Len(buffer) + 1] = d
          /\ \A i \in 1..Len(buffer) : i \in 1..Len(buffer') /\ buffer'[i] = buffer[i]
          /\ \A i \in 1..Len(buffer') : i = Len(buffer) + 1 \/ i \in 1..Len(buffer)
      BY <1>0, <2>4, AppendFacts DEF BufferPut
    <3>2. CASE d.kind = "replay-start"
      <4>1. agentPhase = "attach" /\ agentPhase' # "attach"
        BY <2>4, <3>2 DEF NewEntry
      <4>2. Announced = {} /\ Unannounced = {}
        BY <4>1 DEF StartsOnce
      <4>3. \A i \in Unannounced' : i = Len(buffer) + 1
        BY <3>1, <4>2 DEF Unannounced
      <4> QED BY <2>1, <4>1, <4>2, <4>3 DEF StartsOnce
    <3>3. CASE d.kind # "replay-start"
      <4>1. Unannounced' = Unannounced
        BY <3>1, <3>3 DEF Unannounced
      <4> QED BY <1>1, <2>1, <4>1 DEF StartsOnce
    <3> QED BY <3>2, <3>3
  <2> QED BY <1>0, <1>5, <2>2, <2>3, <2>4, QueueWell DEF QueuesWell
<1>6. CASE LoopDeactivate
  <2>1. Unannounced' = {}
    <3>1. buffer' = <<>>
      BY <1>6 DEF LoopDeactivate
    <3> QED BY <3>1 DEF Unannounced
  <2>2. ~WriterSend /\ ~ClientReceive
    BY <1>6 DEF LoopDeactivate, WriterSend, WriterRest, ClientReceive, ClientRest, loopVars
  <2> QED BY <1>1, <1>4, <2>1, <2>2 DEF StartsOnce
<1>7. CASE ~Reader /\ ~LoopPing /\ ~WriterSend /\ ~LoopDeactivate /\ ~ClientReceive
  <2>1. Unannounced' = Unannounced
    BY <1>7, OtherBuffers DEF bufferVars, Unannounced
  <2> QED BY <1>1, <1>4, <1>7, <2>1 DEF StartsOnce
<1> QED BY <1>2, <1>3, <1>5, <1>6, <1>7

\* What is on its way to the broker.
LEMMA OtherUpstreams ==
    ASSUME TypeInv, FrameOrder, [Next]_vars, ~LoopAck, ~LoopRemove, ~LoopClose, ~Client
    PROVE  UNCHANGED upstream /\ UNCHANGED clientVars
<1>1. CASE Next
  <2>1. CASE Reader
    BY <2>1, ReaderQueues DEF socketVars
  <2>2. CASE LoopPing
    BY <2>2, PingQueues DEF socketVars
  <2>3. CASE Writer
    <3>1. WriterRest
      BY <2>3 DEF Writer, WriterWake, WriterStops, WriterScan, WriterSend, WriterFinishTurn,
                  WriterRoundEnd
    <3> QED BY <3>1 DEF WriterRest
  <2>4. CASE \/ LoopRegister \/ LoopRun \/ LoopStop \/ LoopDeactivate
    BY <2>4 DEF LoopRegister, LoopRun, LoopStop, LoopDeactivate, socketVars
  <2>5. CASE StopRuns \/ (\E who \in {"reader", "loop"} : Signal(who))
    BY <2>5 DEF StopRuns, Signal, socketVars
  <2> QED BY <1>1, <2>1, <2>2, <2>3, <2>4, <2>5 DEF Next, Loop
<1>2. CASE UNCHANGED vars
  BY <1>2 DEF vars, socketVars
<1> QED BY <1>1, <1>2

AppliedBehind == applied <= clientPos.cursor /\ \A i \in Acks : upstream[i].at.cursor <= applied

\* The elements of a sequence.
LEMMA SeqElements ==
    ASSUME NEW S, NEW q \in Seq(S)
    PROVE  \A i \in 1..Len(q) : q[i] \in S
OBVIOUS

\* The types of what the browser has sent.
LEMMA UpstreamTypes ==
    ASSUME TypeInv
    PROVE  /\ upstream \in Seq([type : {"ack", "replace"}, at : Position])
           /\ Len(upstream) \in Nat /\ applied \in Nat /\ clientPos.cursor \in Nat
           /\ \A i \in Acks : upstream[i].at.cursor \in Nat
<1>1. /\ upstream \in Seq([type : {"ack", "replace"}, at : Position]) /\ applied \in Nat
      /\ clientPos \in Position
  BY TypeParts DEF WireType, ClientType
<1>2. \A i \in Acks : upstream[i].at \in Position
  <2>1. \A i \in 1..Len(upstream) : upstream[i] \in [type : {"ack", "replace"}, at : Position]
    BY <1>1, SeqElements
  <2>2. \A i \in 1..Len(upstream) : upstream[i].at \in Position
    BY <2>1
  <2> QED BY <2>2 DEF Acks
<1>3. \A p \in Position : p.cursor \in Nat
  BY DEF Position
<1> QED BY <1>1, <1>2, <1>3

\* What the browser takes in is not behind what it has applied.
LEMMA ReceivedCursors ==
    ASSUME TypeInv, WireRises, ClientReceive, clientState' = "open", applied <= clientPos.cursor
    PROVE  /\ clientState = "open" /\ applied <= applied' /\ applied' <= clientPos'.cursor
           /\ wire # <<>> /\ wire' = Tail(wire) /\ 1 \in 1..Len(wire) /\ Head(wire) = wire[1]
           /\ applied' = IF Head(wire).type = "replay-start" THEN wire[1].after.cursor
                         ELSE applied
           /\ clientPos' = wire[1].after
<1>1. /\ wire # <<>> /\ wire' = Tail(wire) /\ clientPos' = Head(wire).after
      /\ \/ clientState # "open" /\ UNCHANGED clientState
         \/ clientState' = "invalid"
         \/ /\ clientState = "open"
            /\ applied' = IF Head(wire).type = "replay-start" THEN Head(wire).after.cursor
                          ELSE applied
  BY DEF ClientReceive
<1>2. /\ clientState = "open"
      /\ applied' = IF Head(wire).type = "replay-start" THEN Head(wire).after.cursor
                    ELSE applied
  BY <1>1
<1>3. Head(wire) = wire[1] /\ 1 \in 1..Len(wire)
  BY <1>1, WireCursors, TailFacts
<1>4. clientPos.cursor <= wire[1].before.cursor /\ wire[1].before.cursor <= wire[1].after.cursor
  BY <1>3 DEF WireRises
<1>5. wire[1].after.cursor \in Nat /\ wire[1].before.cursor \in Nat
  BY <1>3, WireCursors
<1> QED BY <1>1, <1>2, <1>3, <1>4, <1>5, UpstreamTypes

\* The browser acknowledges what it has applied, and still has.
LEMMA NextAckedApplied ==
    ASSUME TypeInv, FrameOrder, WireRises, AckedApplied, [Next]_vars
    PROVE  AckedApplied'
<1> SUFFICES ASSUME clientState' = "open" PROVE AppliedBehind'
  BY DEF AckedApplied, AppliedBehind
<1>1. CASE ClientReceive
  <2>1. clientState = "open" /\ upstream' = upstream
    BY <1>1, ReceiveFacts
  <2>2. applied <= clientPos.cursor /\ \A i \in Acks : upstream[i].at.cursor <= applied
    BY <2>1 DEF AckedApplied
  <2>3. applied <= applied' /\ applied' <= clientPos'.cursor /\ applied' \in Nat
    BY <1>1, <2>2, ReceivedCursors, WireCursors
  <2>4. Acks' = Acks
    BY <2>1 DEF Acks
  <2> QED BY <2>1, <2>2, <2>3, <2>4, UpstreamTypes DEF AppliedBehind
<1>2. ASSUME NEW through \in 1..MaxOutput, ClientApply(through) PROVE AppliedBehind'
  <2>1. /\ clientState = "open" /\ upstream' = upstream /\ clientPos' = clientPos
        /\ applied' = through /\ applied < through /\ through <= clientPos.cursor
    BY <1>2 DEF ClientApply
  <2>2. Acks' = Acks /\ through \in Nat
    BY <2>1, ConstantsType DEF Acks
  <2> QED BY <2>1, <2>2, UpstreamTypes DEF AppliedBehind, AckedApplied
<1>3. CASE ClientAck
  <2>1. clientState = "open" /\ UNCHANGED <<clientPos, applied>>
    BY <1>3 DEF ClientAck
  <2>2. PICK i \in 1..Len(clientBoundaries) :
            /\ clientBoundaries[i].cursor <= applied \/ clientBoundaries[i].cursor = applied
            /\ upstream' = Append(upstream, [type |-> "ack", at |-> clientBoundaries[i]])
    BY <1>3 DEF ClientAck
  <2> DEFINE m == [type |-> "ack", at |-> clientBoundaries[i]]
  <2>3. clientBoundaries[i] \in Position /\ m \in [type : {"ack", "replace"}, at : Position]
    BY TypeParts DEF ClientType
  <2>4. m.at = clientBoundaries[i] /\ m.at.cursor \in Nat
    BY <2>3 DEF Position
  <2> HIDE DEF m
  <2>5. m.at.cursor <= applied
    BY <2>2, <2>4, UpstreamTypes
  <2>6. \A k \in 1..Len(upstream') :
            (k = Len(upstream) + 1 /\ upstream'[k] = m)
              \/ (k \in 1..Len(upstream) /\ upstream'[k] = upstream[k])
    BY <2>2, <2>3, UpstreamTypes, AppendFacts DEF m
  <2>7. \A k \in Acks' : upstream'[k].at.cursor <= applied
    BY <2>1, <2>5, <2>6 DEF AckedApplied, Acks
  <2> QED BY <2>1, <2>7 DEF AppliedBehind, AckedApplied
<1>4. CASE ClientLeave
  BY <1>4 DEF ClientLeave
<1>5. CASE LoopAck \/ LoopRemove
  <2>1. /\ UNCHANGED clientVars /\ upstream # <<>> /\ upstream' = Tail(upstream)
    BY <1>5 DEF LoopAck, LoopRemove
  <2>2. \A k \in 1..Len(upstream') : k + 1 \in 1..Len(upstream) /\ upstream'[k] = upstream[k + 1]
    BY <2>1, UpstreamTypes, TailFacts
  <2>3. \A k \in Acks' : k + 1 \in Acks /\ upstream'[k] = upstream[k + 1]
    BY <2>2 DEF Acks
  <2> QED BY <2>1, <2>3 DEF AppliedBehind, AckedApplied, clientVars
<1>6. CASE LoopClose
  BY <1>6 DEF LoopClose
<1>7. CASE ~LoopAck /\ ~LoopRemove /\ ~LoopClose /\ ~Client
  <2>1. UNCHANGED upstream /\ UNCHANGED clientVars
    BY <1>7, OtherUpstreams
  <2>2. Acks' = Acks
    BY <2>1 DEF Acks
  <2> QED BY <2>1, <2>2 DEF AppliedBehind, AckedApplied, clientVars
<1> QED BY <1>1, <1>2, <1>3, <1>4, <1>5, <1>6, <1>7 DEF Client

-----------------------------------------------------------------------------
(* The burst.                                                              *)

\* The types of the entries.
LEMMA EntryCursors ==
    ASSUME TypeInv
    PROVE  /\ buffer \in Seq(Entry) /\ Len(buffer) \in Nat
           /\ \A i \in 1..Len(buffer) : buffer[i] \in Entry /\ buffer[i].after.cursor \in Nat
<1>1. buffer \in Seq(Entry)
  BY TypeParts DEF BufferType
<1>2. \A i \in 1..Len(buffer) : buffer[i] \in Entry
  BY <1>1
<1>3. \A e \in Entry : e.after.cursor \in Nat
  BY DEF Entry, Position
<1> QED BY <1>1, <1>2, <1>3

\* While the agent attaches there is neither output nor the start of a burst.
LEMMA AttachedEntries ==
    ASSUME BufferOrder, StartsOnce, BurstQuiet, NEW i \in 1..Len(buffer), agentPhase = "attach"
    PROVE  ~buffer[i].burstStart /\ buffer[i].kind # "binary"
BY DEF BufferOrder, EntryShape, StartsOnce, BurstQuiet, Unannounced

\* A burst's start that is the i-th entry announces the replay.
LEMMA StartsHere ==
    ASSUME BufferOrder, NEW i \in 1..Len(buffer), buffer[i].burstStart
    PROVE  i \in Unannounced
BY DEF BufferOrder, EntryShape, Unannounced

\* The steps that queue and send nothing leave the burst alone.
LEMMA OtherBursts ==
    ASSUME [Next]_vars, ~Reader, ~LoopPing, ~WriterSend
    PROVE  replayBurstActive' = replayBurstActive /\ (active' = active \/ LoopDeactivate)
<1>1. CASE Next
  <2>1. CASE WriterFinishTurn
    <3>1. TurnCut \/ TurnKept \/ TurnCompleted
      BY <2>1, FinishFacts
    <3>2. active' = active
      BY <2>1, FinishFacts DEF WriterRest
    <3> QED BY <3>1, <3>2 DEF TurnCut, TurnKept, TurnCompleted, turnVars
  <2>2. CASE Writer /\ ~WriterFinishTurn
    <3>1. WriterRest /\ UNCHANGED dataVars
      BY <2>2 DEF Writer, WriterWake, WriterStops, WriterScan, WriterRoundEnd
    <3> QED BY <3>1 DEF WriterRest, dataVars, turnVars
  <2>3. CASE LoopAck
    BY <2>3 DEF LoopAck, AcknowledgeTurn, turnVars, lifeVars
  <2>4. CASE \/ LoopRegister \/ LoopRun \/ LoopStop \/ LoopDeactivate \/ LoopRemove \/ LoopClose
    BY <2>4 DEF LoopRegister, LoopRun, LoopStop, LoopDeactivate, LoopRemove, LoopClose,
       dataVars, turnVars, lifeVars
  <2>5. CASE Client
    <3>1. ClientRest
      BY <2>5 DEF Client, ClientReceive, ClientApply, ClientAck, ClientLeave
    <3> QED BY <3>1 DEF ClientRest, dataVars, turnVars, lifeVars
  <2>6. CASE StopRuns \/ (\E who \in {"reader", "loop"} : Signal(who))
    BY <2>6 DEF StopRuns, Signal, dataVars, turnVars, lifeVars
  <2> QED BY <1>1, <2>1, <2>2, <2>3, <2>4, <2>5, <2>6 DEF Next, Loop
<1>2. CASE UNCHANGED vars
  BY <1>2 DEF vars, dataVars, turnVars, lifeVars
<1> QED BY <1>1, <1>2

\* The burst is over when every entry is sent.
LEMMA OverAll ==
    ASSUME NEW k \in Nat
    PROVE  /\ k = Len(buffer) + 1 => (BurstOver <=> OverBefore(k))
           /\ k = Len(buffer') + 1 => (BurstOver' <=> OverBefore(k)')
BY DEF BurstOver, OverBefore

\* The buffer keeps its first entries, its burst and where it is ending.
LEMMA OverSame ==
    ASSUME NEW i \in Nat, \A j \in 1..(i - 1) : buffer'[j] = buffer[j],
           replayBurstActive' = replayBurstActive, OverBefore(i)
    PROVE  OverBefore(i)'
BY DEF OverBefore

\* What the burst is bound to while the buffer stays as it is.
LEMMA BurstSame ==
    ASSUME TypeInv, BufferOrder, StartsOnce, BurstBounds, PhaseStep,
           UNCHANGED <<buffer, replayBurstActive>>,
           agentPhase' = "live" /\ Accepting' => agentPhase = "live" /\ Accepting
    PROVE  BurstBounds'
<1>1. Unannounced' = Unannounced
  BY DEF Unannounced
<1>2. BurstQuiet'
  BY DEF BurstBounds, BurstQuiet, PhaseStep
<1>3. ASSUME NEW i \in 1..Len(buffer) PROVE BurstEntry(i)'
  <2>1. buffer[i].burstStart \/ buffer[i].kind = "binary" => replayTo' = replayTo
    BY AttachedEntries DEF BurstBounds, PhaseStep
  <2>2. OverBefore(i) => OverBefore(i)'
    BY DEF OverBefore
  <2>3. BurstEntry(i)
    BY DEF BurstBounds
  <2> QED BY <2>1, <2>2, <2>3 DEF BurstEntry
<1>4. agentPhase' = "live" /\ Accepting' => BurstOver'
  BY DEF BurstBounds, BurstOver, OverBefore
<1> QED BY <1>1, <1>2, <1>3, <1>4 DEF BurstBounds

\* After overload there is no burst.
LEMMA BurstCut ==
    ASSUME BufferCut
    PROVE  BurstBounds'
<1>1. /\ overloaded' = TRUE /\ replayBurstActive' = FALSE /\ Len(buffer') = 1
      /\ buffer'[1].kind = "overload" /\ ~buffer'[1].burstStart /\ ~buffer'[1].burstFinish
  BY DEF BufferCut
<1>2. \A i \in 1..Len(buffer') : i = 1
  BY <1>1
<1>3. BurstQuiet' /\ \A i \in 1..Len(buffer') : BurstEntry(i)'
  BY <1>1, <1>2 DEF BurstQuiet, BurstEntry
<1> QED BY <1>1, <1>3 DEF BurstBounds, Accepting

\* An entry is queued within the burst, or after the control that ends it.
LEMMA BurstPut ==
    ASSUME TypeInv, BufferOrder, StartsOnce, BurstBounds, PhaseStep,
           NEW d \in Entry, NewEntry(d), BufferPut(d)
    PROVE  BurstBounds'
<1> DEFINE n == Len(buffer)
<1>1. /\ n \in Nat /\ Len(buffer') = n + 1 /\ buffer'[n + 1] = d
      /\ \A i \in 1..n : i \in 1..Len(buffer') /\ buffer'[i] = buffer[i]
      /\ \A i \in 1..Len(buffer') : i = n + 1 \/ i \in 1..n
  BY EntryCursors, AppendFacts DEF BufferPut
<1>2. /\ Accepting /\ replayBurstActive' = replayBurstActive
      /\ agentPhase' = "live" => agentPhase = "live" \/ d.burstFinish
      /\ agentPhase' = "attach" => agentPhase = "attach"
      /\ readerPc \in {"return", "done"} => readerPc' \in {"return", "done"}
      /\ agentPhase # "attach" => replayTo' = replayTo
  BY DEF BufferPut, PhaseStep
<1>3. /\ d.kind = "replay-start" => agentPhase = "attach" /\ readerPc = "read"
      /\ d.burstStart => d.kind = "replay-start"
  BY DEF NewEntry, EntryShape
<1>4. BurstQuiet'
  <2>1. ASSUME agentPhase' = "attach", NEW i \in 1..Len(buffer')
        PROVE  /\ buffer'[i].kind # "binary"
               /\ buffer'[i].burstFinish => readerPc' \in {"return", "done"}
    BY <1>1, <1>2, <2>1 DEF NewEntry, BurstBounds, BurstQuiet
  <2> QED BY <1>2, <2>1 DEF BurstBounds, BurstQuiet
<1>5. ASSUME replayBurstActive' PROVE Unannounced' = {}
  <2>1. replayBurstActive /\ Unannounced = {}
    BY <1>2, <1>5 DEF BurstBounds
  <2>2. d.kind # "replay-start"
    BY <1>3, <2>1 DEF BurstBounds, BurstQuiet
  <2> QED BY <1>1, <2>1, <2>2 DEF Unannounced
<1>6. ASSUME NEW i \in 1..n PROVE BurstEntry(i)'
  <2>1. buffer[i].burstStart \/ buffer[i].kind = "binary" => replayTo' = replayTo
    BY <1>2, AttachedEntries DEF BurstBounds
  <2>2. \A j \in 1..(i - 1) : j \in 1..n
    BY <1>1
  <2>3. OverBefore(i) => OverBefore(i)'
    BY <1>1, <1>2, <2>2, OverSame
  <2>4. BurstEntry(i) /\ buffer'[i] = buffer[i]
    BY <1>1 DEF BurstBounds
  <2> HIDE DEF n
  <2> QED BY <1>1, <2>1, <2>2, <2>3, <2>4 DEF BurstEntry
<1> HIDE DEF n
<1>7. PICK k \in Nat : k = n + 1
  BY <1>1
<1>8. /\ \A j \in 1..(k - 1) : j \in 1..n
      /\ \A j \in 1..((k + 1) - 1) : j = n + 1 \/ j \in 1..n
      /\ n + 1 \in 1..((k + 1) - 1)
  BY <1>1, <1>7
<1>9. OverBefore(k) => OverBefore(k)'
  BY <1>1, <1>2, <1>8, OverSame
<1>10. agentPhase = "live" => OverBefore(k)
  BY <1>2, <1>7, OverAll DEF BurstBounds, n
<1>11. BurstEntry(k)'
  <2>1. ASSUME d.burstStart
        PROVE  /\ d.after.cursor <= replayTo'
               /\ replayTo' <= d.after.cursor + ReplayBurstLimit
               /\ \A j \in 1..(k - 1) : ~buffer'[j].burstFinish
    <3>1. agentPhase = "attach" /\ readerPc = "read"
      BY <1>3, <2>1
    <3>2. \A j \in 1..n : ~buffer[j].burstFinish
      BY <3>1 DEF BurstBounds, BurstQuiet, n
    <3> QED BY <1>1, <1>8, <2>1, <3>2 DEF NewEntry
  <2>2. d.kind = "binary" /\ replayTo' < d.after.cursor => OverBefore(k)'
    BY <1>9, <1>10 DEF NewEntry
  <2> QED BY <1>1, <1>7, <2>1, <2>2 DEF BurstEntry
<1>12. ASSUME agentPhase' = "live" PROVE OverBefore(k + 1)'
  <2>1. CASE d.burstFinish
    BY <1>1, <1>8, <2>1 DEF OverBefore
  <2>2. CASE agentPhase = "live" /\ OverBefore(k)'
    <3>1. ~d.burstStart
      BY <1>3, <2>2
    <3>2. \A j \in 1..((k + 1) - 1) : j \in 1..(k - 1) \/ buffer'[j] = d
      BY <1>1, <1>7, <1>8
    <3>3. \A j \in 1..(k - 1) : j \in 1..((k + 1) - 1)
      OBVIOUS
    <3> QED BY <2>2, <3>1, <3>2, <3>3 DEF OverBefore
  <2> QED BY <1>2, <1>9, <1>10, <1>12, <2>1, <2>2
<1>13. agentPhase' = "live" /\ Accepting' => BurstOver'
  <2>1. k + 1 \in Nat /\ k + 1 = Len(buffer') + 1
    BY <1>1, <1>7
  <2> QED BY <1>12, <2>1, OverAll
<1> QED BY <1>1, <1>4, <1>5, <1>6, <1>7, <1>11, <1>13 DEF BurstBounds

\* What is sent in its turn: the burst ends with it, or starts with it.
LEMMA SentOver ==
    ASSUME TypeInv, WriterSend, BurstBounds, NEW i \in 1..Len(buffer), OverBefore(i + 1)
    PROVE  OverBefore(i)'
<1>1. /\ Len(buffer) \in Nat /\ 1 \in 1..Len(buffer) /\ Head(buffer) = buffer[1]
      /\ \A j \in 1..(Len(buffer) - 1) : j + 1 \in 1..Len(buffer)
                                         /\ buffer'[j] = buffer[j + 1]
  BY SendFacts
<1>2. replayBurstActive' = ((replayBurstActive \/ buffer[1].burstStart) /\ ~buffer[1].burstFinish)
  BY <1>1 DEF WriterSend
<1>3. /\ \A j \in 1..(i - 1) : j + 1 \in 1..Len(buffer) /\ buffer'[j] = buffer[j + 1]
      /\ \A j \in 1..(i - 1) : j + 1 \in 1..((i + 1) - 1)
      /\ 1 \in 1..((i + 1) - 1)
      /\ \A j \in 1..((i + 1) - 1) : j = 1 \/ (j - 1 \in 1..(i - 1) /\ buffer'[j - 1] = buffer[j])
  BY <1>1
<1>4. CASE ~replayBurstActive /\ \A j \in 1..((i + 1) - 1) : ~buffer[j].burstStart
  BY <1>2, <1>3, <1>4 DEF OverBefore
<1>5. ASSUME NEW j \in 1..((i + 1) - 1), buffer[j].burstFinish PROVE OverBefore(i)'
  <2>1. CASE j = 1
    <3>1. ~replayBurstActive'
      BY <1>2, <1>5, <2>1
    <3>2. ASSUME NEW k \in 1..(i - 1) PROVE ~buffer'[k].burstStart
      <4>1. k + 1 \in 1..Len(buffer) /\ buffer'[k] = buffer[k + 1] /\ 1 \in 1..((k + 1) - 1)
        BY <1>3
      <4>2. BurstEntry(k + 1)
        BY <4>1 DEF BurstBounds
      <4> QED BY <1>5, <2>1, <4>1, <4>2 DEF BurstEntry
    <3> QED BY <3>1, <3>2 DEF OverBefore
  <2>2. CASE j # 1
    BY <1>3, <1>5, <2>2 DEF OverBefore
  <2> QED BY <2>1, <2>2
<1> QED BY <1>4, <1>5 DEF OverBefore

\* The writer enters and leaves the burst with the entries that say so.
LEMMA BurstSent ==
    ASSUME TypeInv, BufferOrder, StartsOnce, BurstBounds, WriterSend
    PROVE  BurstBounds'
<1>1. /\ Len(buffer) \in Nat /\ 1 \in 1..Len(buffer) /\ Head(buffer) = buffer[1]
      /\ Len(buffer') = Len(buffer) - 1
      /\ \A j \in 1..Len(buffer') : j + 1 \in 1..Len(buffer) /\ buffer'[j] = buffer[j + 1]
  BY SendFacts
<1>2. /\ replayBurstActive' = ((replayBurstActive \/ buffer[1].burstStart) /\ ~buffer[1].burstFinish)
      /\ UNCHANGED <<agentPhase, replayTo, readerPc, active, overloaded>>
  BY <1>1 DEF WriterSend, WriterRest, agentVars, readerVars
<1>3. BurstQuiet'
  <2> SUFFICES ASSUME agentPhase' = "attach"
               PROVE  /\ ~replayBurstActive'
                      /\ \A i \in 1..Len(buffer') :
                            /\ buffer'[i].kind # "binary"
                            /\ buffer'[i].burstFinish => readerPc' \in {"return", "done"}
    BY DEF BurstQuiet
  <2>1. BurstQuiet
    BY DEF BurstBounds
  <2>2. ~buffer[1].burstStart
    BY <1>1, <1>2, <2>1, AttachedEntries
  <2> QED BY <1>1, <1>2, <2>1, <2>2 DEF BurstQuiet
<1>4. ASSUME replayBurstActive' PROVE Unannounced' = {}
  <2>1. \A i \in Unannounced : i = 1
    <3>1. CASE replayBurstActive
      BY <3>1 DEF BurstBounds
    <3>2. CASE buffer[1].burstStart
      <4>1. 1 \in Unannounced
        BY <1>1, <3>2, StartsHere
      <4> QED BY <4>1 DEF StartsOnce
    <3> QED BY <1>2, <1>4, <3>1, <3>2
  <2>2. \A i \in 1..Len(buffer') : i + 1 # 1
    OBVIOUS
  <2> QED BY <1>1, <2>1, <2>2 DEF Unannounced
<1>5. ASSUME NEW i \in 1..Len(buffer') PROVE BurstEntry(i)'
  <2>1. i + 1 \in 1..Len(buffer) /\ buffer'[i] = buffer[i + 1] /\ i \in 1..Len(buffer)
    BY <1>1
  <2>2. BurstEntry(i + 1)
    BY <2>1 DEF BurstBounds
  <2>3. OverBefore(i + 1) => OverBefore(i)'
    BY <2>1, SentOver
  <2>4. \A j \in 1..(i - 1) : j + 1 \in 1..((i + 1) - 1) /\ j \in 1..Len(buffer')
    BY <1>1
  <2>5. \A j \in 1..(i - 1) : buffer'[j] = buffer[j + 1]
    BY <1>1, <2>4
  <2> QED BY <1>2, <2>1, <2>2, <2>3, <2>4, <2>5 DEF BurstEntry
<1>6. agentPhase' = "live" /\ Accepting' => BurstOver'
  <2> SUFFICES ASSUME agentPhase' = "live", Accepting' PROVE BurstOver'
    OBVIOUS
  <2>1. PICK k \in Nat : k = Len(buffer)
    BY <1>1
  <2>2. k \in 1..Len(buffer) /\ k + 1 \in Nat
    BY <1>1, <2>1
  <2>3. OverBefore(k + 1)
    BY <1>2, <2>1, <2>2, OverAll DEF BurstBounds, Accepting
  <2>4. OverBefore(k)'
    BY <2>2, <2>3, SentOver
  <2>5. k = Len(buffer') + 1
    BY <1>1, <2>1
  <2> QED BY <2>4, <2>5, OverAll
<1> QED BY <1>3, <1>4, <1>5, <1>6 DEF BurstBounds

\* A burst stays the replay it was admitted for.
LEMMA NextBurstBounds ==
    ASSUME TypeInv, Positions, StartsOnce, AgentCursors, BurstBounds, [Next]_vars
    PROVE  BurstBounds'
<1>0. FrameOrder /\ BufferOrder /\ Unstarted
  BY DEF Positions
<1>1. CASE Reader \/ LoopPing
  <2>1. PhaseStep /\ active' = active
    BY <1>0, <1>1, QueueWell
  <2>2. CASE BufferKept /\ (agentPhase' = "live" /\ Accepting' => agentPhase = "live")
    BY <1>0, <2>1, <2>2, BurstSame DEF BufferKept, Accepting
  <2>3. CASE BufferCut
    BY <2>3, BurstCut
  <2>4. ASSUME NEW d \in Entry, NewEntry(d), BufferPut(d) PROVE BurstBounds'
    BY <1>0, <2>1, <2>4, BurstPut
  <2> QED BY <1>0, <1>1, <2>2, <2>3, <2>4, QueueWell DEF QueuesWell
<1>2. CASE WriterSend
  BY <1>0, <1>2, BurstSent
<1>3. CASE LoopDeactivate
  <2>1. /\ buffer' = <<>> /\ ~active'
        /\ UNCHANGED <<agentPhase, readerPc, replayBurstActive>>
    BY <1>3 DEF LoopDeactivate, LoopRest, turnVars, agentVars
  <2> QED BY <2>1 DEF BurstBounds, BurstQuiet, Unannounced, Accepting
<1>4. CASE ~Reader /\ ~LoopPing /\ ~WriterSend /\ ~LoopDeactivate
  <2>1. UNCHANGED <<buffer, overloaded, replayBurstActive, active>>
    BY <1>4, OtherBuffers, OtherBursts DEF bufferVars
  <2>2. PhaseStep /\ agentPhase' = agentPhase
    BY <1>0, <1>4, OtherPhases, OtherAgents DEF agentVars
  <2> QED BY <1>0, <2>1, <2>2, BurstSame DEF Accepting
<1> QED BY <1>1, <1>2, <1>3, <1>4

-----------------------------------------------------------------------------
(* What has been applied or announced.                                     *)

\* AppliedOrAnnounced of a websocket w on which there is no other announcement.
AnnouncedIn(w) == {i \in 1..Len(w) : w[i].type = "replay-start"}
AppliedOn(w, a) ==
    IF \E i \in 1..Len(w) : w[i].type = "replay-start"
    THEN w[CHOOSE i \in 1..Len(w) : w[i].type = "replay-start"].after.cursor
    ELSE a

\* Without an announcement on the websocket, what counts is what is applied.
LEMMA AppliedNone ==
    ASSUME NEW w, NEW a, AnnouncedIn(w) = {}
    PROVE  AppliedOn(w, a) = a
BY DEF AnnouncedIn, AppliedOn

\* With one announcement, what counts is the cursor it carries.
LEMMA AppliedOnce ==
    ASSUME NEW w, NEW a, NEW i \in AnnouncedIn(w), \A j \in AnnouncedIn(w) : j = i
    PROVE  AppliedOn(w, a) = w[i].after.cursor
<1>1. i \in 1..Len(w) /\ w[i].type = "replay-start"
  BY DEF AnnouncedIn
<1>2. \A j \in 1..Len(w) : w[j].type = "replay-start" => j = i
  BY DEF AnnouncedIn
<1>3. (CHOOSE j \in 1..Len(w) : w[j].type = "replay-start") = i
  BY <1>1, <1>2
<1> QED BY <1>1, <1>3 DEF AppliedOn

\* The operator of the refinement mapping, by the websocket and what is applied.
LEMMA AppliedIs ==
    /\ AppliedOrAnnounced = AppliedOn(wire, applied)
    /\ AppliedOrAnnounced' = AppliedOn(wire', applied')
    /\ Announced = AnnouncedIn(wire) /\ Announced' = AnnouncedIn(wire')
BY DEF AppliedOrAnnounced, AppliedOn, Announced, AnnouncedIn

\* What is applied or announced now, ...
LEMMA AppliedNow ==
    ASSUME StartsOnce
    PROVE  /\ Announced = {} => AppliedOrAnnounced = applied
           /\ \A i \in Announced : AppliedOrAnnounced = wire[i].after.cursor
<1>1. Announced = {} => AppliedOrAnnounced = applied
  BY AppliedIs, AppliedNone
<1>2. ASSUME NEW i \in Announced PROVE AppliedOrAnnounced = wire[i].after.cursor
  <2>1. i \in AnnouncedIn(wire) /\ \A j \in AnnouncedIn(wire) : j = i
    BY <1>2, AppliedIs DEF StartsOnce
  <2> QED BY <2>1, AppliedIs, AppliedOnce
<1> QED BY <1>1, <1>2

\* ... and after the step.
LEMMA AppliedNext ==
    ASSUME StartsOnce'
    PROVE  /\ Announced' = {} => AppliedOrAnnounced' = applied'
           /\ \A i \in Announced' : AppliedOrAnnounced' = wire'[i].after.cursor
<1>1. Announced' = {} => AppliedOrAnnounced' = applied'
  BY AppliedIs, AppliedNone
<1>2. ASSUME NEW i \in Announced' PROVE AppliedOrAnnounced' = wire'[i].after.cursor
  <2>1. i \in AnnouncedIn(wire') /\ \A j \in AnnouncedIn(wire') : j = i
    BY <1>2, AppliedIs DEF StartsOnce
  <2> QED BY <2>1, AppliedIs, AppliedOnce
<1> QED BY <1>1, <1>2

\* What is applied or announced has been sent.
LEMMA AppliedBound ==
    ASSUME TypeInv, StartsOnce, WireRises, AckedApplied, clientState = "open"
    PROVE  /\ AppliedOrAnnounced \in Nat /\ AppliedOrAnnounced <= lastSent.cursor
           /\ applied <= clientPos.cursor /\ clientPos.cursor <= lastSent.cursor
<1>1. applied <= clientPos.cursor /\ clientPos.cursor <= lastSent.cursor
  BY DEF AckedApplied, WireRises
<1>2. CASE Announced = {}
  BY <1>1, <1>2, AppliedNow, WireCursors
<1>3. ASSUME NEW i \in Announced
      PROVE  AppliedOrAnnounced \in Nat /\ AppliedOrAnnounced <= lastSent.cursor
  <2>1. i \in 1..Len(wire)
    BY DEF Announced
  <2> QED BY <2>1, AppliedNow, WireCursors DEF WireRises
<1> QED BY <1>1, <1>2, <1>3

\* How the credit can change: not, by a start, or by what the browser applies.
AppliedStays == AppliedOrAnnounced' = AppliedOrAnnounced
AppliedStarts ==
    /\ WriterSend /\ Head(buffer).kind = "replay-start"
    /\ lastSent.cursor = 0 /\ AppliedOrAnnounced = 0
    /\ lastSent' = Head(buffer).after /\ AppliedOrAnnounced' = lastSent'.cursor
AppliedMoves ==
    /\ \E through \in 1..MaxOutput : ClientApply(through)
    /\ AppliedOrAnnounced' \in 1..MaxOutput /\ AppliedOrAnnounced < AppliedOrAnnounced'
    /\ AppliedOrAnnounced' <= lastSent.cursor

\* Receiving changes nothing: an announcement counted when it was sent.
LEMMA AppliedReceived ==
    ASSUME TypeInv, StartsOnce, StartsOnce', WireRises, AckedApplied, ClientReceive,
           clientState' = "open"
    PROVE  AppliedStays
<1>1. clientState = "open" /\ applied <= clientPos.cursor
  BY ReceiveFacts DEF AckedApplied
<1>2. /\ wire # <<>> /\ wire' = Tail(wire) /\ 1 \in 1..Len(wire) /\ Head(wire) = wire[1]
      /\ applied' = IF Head(wire).type = "replay-start" THEN wire[1].after.cursor ELSE applied
  BY <1>1, ReceivedCursors
<1>3. wire \in Seq(Message)
  BY WireCursors
<1>4. CASE Head(wire).type = "replay-start"
  <2>1. 1 \in Announced
    BY <1>2, <1>3, <1>4, TakenStarts
  <2>2. \A i \in Announced' : FALSE
    <3>1. \A i \in Announced' : i \in 1..Len(wire') /\ i + 1 \in Announced
      BY <1>2, <1>3, TakenStarts DEF Announced
    <3>2. \A i \in Announced' : i + 1 = 1
      BY <2>1, <3>1 DEF StartsOnce
    <3> QED BY <3>1, <3>2
  <2> QED BY <1>2, <1>4, <2>1, <2>2, AppliedNow, AppliedNext DEF AppliedStays
<1>5. CASE Head(wire).type # "replay-start" /\ Announced = {}
  <2>1. Announced' = {}
    BY <1>2, <1>3, <1>5, TakenStarts
  <2> QED BY <1>2, <1>5, <2>1, AppliedNow, AppliedNext DEF AppliedStays
<1>6. ASSUME Head(wire).type # "replay-start", NEW i \in Announced PROVE AppliedStays
  <2>1. i - 1 \in Announced' /\ wire'[i - 1] = wire[i]
    BY <1>2, <1>3, <1>6, TakenStarts
  <2>2. AppliedOrAnnounced = wire[i].after.cursor
    BY AppliedNow
  <2>3. AppliedOrAnnounced' = wire'[i - 1].after.cursor
    BY <2>1, AppliedNext
  <2> QED BY <2>1, <2>2, <2>3 DEF AppliedStays
<1> QED BY <1>4, <1>5, <1>6

\* What the browser applies moves on, up to what has been sent.
LEMMA AppliedMoved ==
    ASSUME TypeInv, StartsOnce, StartsOnce', WireRises, AckedApplied,
           NEW through \in 1..MaxOutput, ClientApply(through)
    PROVE  AppliedMoves
<1>1. /\ clientState = "open" /\ wire' = wire /\ applied' = through
      /\ applied < through /\ through <= clientPos.cursor /\ through \in Nat
  BY ConstantsType DEF ClientApply
<1>2. Announced' = Announced
  BY <1>1 DEF Announced
<1>3. Announced = {}
  <2> SUFFICES ASSUME NEW i \in Announced PROVE FALSE
    OBVIOUS
  <2>1. i \in 1..Len(wire) /\ wire[i].type = "replay-start"
    BY DEF Announced
  <2>2. wire[i].before.cursor = 0 /\ clientPos.cursor <= wire[i].before.cursor
    BY <2>1 DEF WireRises
  <2> QED BY <1>1, <2>2, WireCursors
<1>4. AppliedOrAnnounced = applied /\ AppliedOrAnnounced' = through
  BY <1>1, <1>2, <1>3, AppliedNow, AppliedNext
<1>5. applied <= clientPos.cursor /\ clientPos.cursor <= lastSent.cursor
  BY <1>1, AppliedBound
<1>6. through <= lastSent.cursor
  BY <1>1, <1>5, WireCursors
<1> QED BY <1>1, <1>4, <1>6 DEF AppliedMoves

\* Only an announcement put on the websocket changes what counts.
LEMMA AppliedPut ==
    ASSUME TypeInv, BufferOrder, StartsOnce, StartsOnce', WireRises, AckedApplied,
           clientState = "open", NEW m \in Message, WirePut(m)
    PROVE  AppliedStays \/ AppliedStarts
<1>1. /\ wire' = Append(wire, m) /\ applied' = applied /\ wire \in Seq(Message)
      /\ lastSent' = m.after /\ m.before = lastSent
  BY WireCursors DEF WirePut
<1>2. CASE m.type = "replay-start"
  <2>1. /\ WriterSend /\ Head(buffer).kind = "replay-start" /\ lastSent.cursor = 0
        /\ m.after = Head(buffer).after
    BY <1>1, <1>2 DEF WirePut
  <2>2. 1 \in Unannounced
    BY <2>1, SendFacts DEF Unannounced
  <2>3. Announced = {}
    BY <2>2 DEF StartsOnce
  <2>4. AppliedOrAnnounced = 0
    BY <2>1, AppliedBound
  <2>5. Len(wire) + 1 \in Announced' /\ wire'[Len(wire) + 1] = m
    BY <1>1, <1>2, AppendedStarts
  <2>6. AppliedOrAnnounced' = m.after.cursor
    BY <2>5, AppliedNext
  <2> QED BY <1>1, <2>1, <2>4, <2>6 DEF AppliedStarts
<1>3. CASE m.type # "replay-start" /\ Announced = {}
  <2>1. Announced' = {}
    BY <1>1, <1>3, AppendedStarts
  <2> QED BY <1>1, <1>3, <2>1, AppliedNow, AppliedNext DEF AppliedStays
<1>4. ASSUME m.type # "replay-start", NEW i \in Announced PROVE AppliedStays
  <2>1. i \in Announced' /\ wire'[i] = wire[i]
    BY <1>1, <1>4, AppendedStarts
  <2>2. AppliedOrAnnounced' = wire'[i].after.cursor
    BY <2>1, AppliedNext
  <2> QED BY <2>1, <2>2, AppliedNow DEF AppliedStays
<1> QED BY <1>2, <1>3, <1>4

\* What leaves the websocket and the browser alone changes nothing.
LEMMA AppliedKept ==
    ASSUME UNCHANGED <<wire, applied>>
    PROVE  AppliedStays
BY DEF AppliedStays, AppliedOrAnnounced

\* What each step does to the cursors while the browser takes part.
LEMMA AppliedSteps ==
    ASSUME TypeInv, Positions, StartsOnce, StartsOnce', WireRises, AckedApplied, BytesKept,
           clientState' = "open", [Next]_vars
    PROVE  clientState = "open" /\ (AppliedStays \/ AppliedStarts \/ AppliedMoves)
<1>0. FrameOrder /\ BufferOrder /\ TurnPosition
  BY DEF Positions
<1>1. CASE WriterSend \/ WriterFinishTurn \/ LoopAck
  <2>1. UNCHANGED <<wire, clientVars>> \/ \E m \in Message : WirePut(m)
    BY <1>0, <1>1, SentPut, FinishPut, AckPut
  <2>2. ASSUME NEW m \in Message, WirePut(m)
        PROVE clientState = "open" /\ (AppliedStays \/ AppliedStarts)
    <3>1. clientState = "open"
      BY <2>2 DEF WirePut
    <3> QED BY <1>0, <2>2, <3>1, AppliedPut
  <2>3. CASE UNCHANGED <<wire, clientVars>>
    BY <2>3, AppliedKept DEF clientVars
  <2> QED BY <2>1, <2>2, <2>3
<1>2. CASE ClientReceive
  BY <1>2, AppliedReceived, ReceiveFacts
<1>3. ASSUME NEW through \in 1..MaxOutput, ClientApply(through)
      PROVE  clientState = "open" /\ AppliedMoves
  BY <1>3, AppliedMoved DEF ClientApply
<1>4. CASE ClientAck
  BY <1>4, AppliedKept DEF ClientAck
<1>5. CASE ClientLeave
  BY <1>5 DEF ClientLeave
<1>6. CASE ~WriterSend /\ ~WriterFinishTurn /\ ~LoopAck /\ ~Client
  BY <1>0, <1>6, OtherWires, AppliedKept
<1> QED BY <1>1, <1>2, <1>3, <1>4, <1>5, <1>6 DEF Client

-----------------------------------------------------------------------------
(* What the first boundaries account for.                                  *)

\* A boundary appended does not change what the first ones account for.
LEMMA BytesAppendPart ==
    ASSUME NEW b \in Seq(Boundary), NEW e \in Boundary, NEW i \in 0..Len(b)
    PROVE  BytesThrough(Append(b, e), i) = BytesThrough(b, i)
<1> DEFINE longer == Append(b, e)
           n == Len(b)
<1>1. /\ longer \in Seq(Boundary) /\ Len(longer) = n + 1 /\ n \in Nat
      /\ \A j \in 1..n : longer[j] = b[j]
  OBVIOUS
<1> HIDE DEF longer
<1>2. PICK f : Running(ByteCounts(b), n, f)
  BY ByteCountsType, RunningExists
<1>3. PICK g : Running(ByteCounts(longer), n + 1, g)
  <2>1. n + 1 \in Nat /\ ByteCounts(longer) \in [1..(n + 1) -> Int]
    BY <1>1, ByteCountsType
  <2> QED BY <2>1, RunningExists
<1>4. f[i] = g[i]
  <2>1. \A j \in 1..i : ByteCounts(b)[j] = ByteCounts(longer)[j]
    <3>1. \A j \in 1..i : j \in 1..n /\ j \in 1..Len(longer)
      BY <1>1
    <3> QED BY <1>1, <3>1, ByteCountsType
  <2>2. i \in Nat /\ i <= n /\ i <= n + 1 /\ n + 1 \in Nat
    BY <1>1
  <2> QED BY <1>1, <1>2, <1>3, <2>1, <2>2, RunningUnique
<1>5. BytesThrough(b, i) = f[i] /\ BytesThrough(longer, i) = g[i]
  <2>1. i \in 0..Len(longer)
    BY <1>1
  <2> QED BY <1>1, <1>2, <1>3, <2>1, BytesRunning
<1> QED BY <1>4, <1>5 DEF longer

\* The boundaries after the i-th.
IsRest(rest, b, i) ==
    /\ rest \in Seq(Boundary) /\ Len(rest) = Len(b) - i
    /\ \A j \in 1..Len(rest) : i + j \in 1..Len(b) /\ rest[j] = b[i + j]

\* An acknowledged prefix leaves the boundaries after it.
LEMMA RestIs ==
    ASSUME NEW b \in Seq(Boundary), NEW i \in 1..Len(b)
    PROVE  IsRest(SubSeq(b, i + 1, Len(b)), b, i)
<1>1. /\ SubSeq(b, i + 1, Len(b)) \in Seq(Boundary)
      /\ Len(SubSeq(b, i + 1, Len(b))) = Len(b) - i /\ Len(b) \in Nat
      /\ \A j \in 1..(Len(b) - i) : SubSeq(b, i + 1, Len(b))[j] = b[i + j]
  OBVIOUS
<1>2. \A j \in 1..(Len(b) - i) : i + j \in 1..Len(b)
  BY <1>1
<1> QED BY <1>1, <1>2 DEF IsRest

\* They account for what they accounted for, less the prefix.
LEMMA BytesRestPart ==
    ASSUME NEW b \in Seq(Boundary), NEW i \in 1..Len(b),
           NEW rest, IsRest(rest, b, i), NEW k \in 0..Len(rest)
    PROVE  /\ i + k \in 0..Len(b)
           /\ BytesThrough(rest, k) = BytesThrough(b, i + k) - BytesThrough(b, i)
<1> DEFINE n == Len(b)
           m == i + k
<1>1. /\ n \in Nat /\ i \in 0..n /\ rest \in Seq(Boundary) /\ Len(rest) = n - i
      /\ \A j \in 1..(n - i) : rest[j] = b[j + i]
      /\ k \in Nat /\ k <= n - i /\ m \in Nat /\ m <= n /\ i \in Nat
  BY DEF IsRest
<1>2. PICK f : Running(ByteCounts(b), n, f)
  BY ByteCountsType, RunningExists
<1>3. PICK g : Running(ByteCounts(rest), n - i, g)
  <2>1. n - i \in Nat /\ ByteCounts(rest) \in [1..(n - i) -> Int]
    BY <1>1, ByteCountsType
  <2> QED BY <2>1, RunningExists
<1> DEFINE v == [j \in 1..m |-> ByteCounts(b)[j]]
           w == ByteCounts(rest)
           h == [j \in 0..m |-> f[j]]
           gk == [j \in 0..k |-> g[j]]
<1>4. gk[k] = h[m] - h[i]
  <2>1. v \in [1..m -> Int] /\ \A j \in 1..m : v[j] = ByteCounts(b)[j]
    <3>1. \A j \in 1..m : j \in 1..n
      BY <1>1
    <3>2. ByteCounts(b) \in [1..n -> Int]
      BY ByteCountsType
    <3> QED BY <3>1, <3>2
  <2>2. Running(v, m, h)
    <3>1. \A j \in 1..m : j \in 1..n /\ j \in 0..m /\ j - 1 \in 0..m
      BY <1>1
    <3>2. \A j \in 0..m : j \in 0..n
      BY <1>1
    <3>3. /\ f \in [0..n -> Int] /\ f[0] = 0
          /\ \A j \in 1..n : f[j] = f[j - 1] + ByteCounts(b)[j]
      BY <1>2 DEF Running
    <3>4. h \in [0..m -> Int] /\ h[0] = 0 /\ \A j \in 0..m : h[j] = f[j]
      <4>1. \A j \in 0..m : f[j] \in Int
        BY <3>2, <3>3
      <4>2. 0 \in 0..m
        BY <1>1
      <4>3. h \in [0..m -> Int]
        BY <4>1
      <4>4. \A j \in 0..m : h[j] = f[j]
        OBVIOUS
      <4> QED BY <3>3, <4>2, <4>3, <4>4
    <3> HIDE DEF h, v
    <3> QED BY <2>1, <3>1, <3>3, <3>4 DEF Running
  <2>3. Running(w, k, gk)
    <3>1. \A j \in 1..k : j \in 1..(n - i) /\ j \in 0..k /\ j - 1 \in 0..k
      BY <1>1
    <3>2. \A j \in 0..k : j \in 0..(n - i)
      BY <1>1
    <3>3. /\ g \in [0..(n - i) -> Int] /\ g[0] = 0
          /\ \A j \in 1..(n - i) : g[j] = g[j - 1] + w[j]
      BY <1>3 DEF Running
    <3>4. gk \in [0..k -> Int] /\ gk[0] = 0 /\ \A j \in 0..k : gk[j] = g[j]
      <4>1. \A j \in 0..k : g[j] \in Int
        BY <3>2, <3>3
      <4>2. 0 \in 0..k
        BY <1>1
      <4>3. gk \in [0..k -> Int]
        BY <4>1
      <4>4. \A j \in 0..k : gk[j] = g[j]
        OBVIOUS
      <4> QED BY <3>3, <4>2, <4>3, <4>4
    <3> HIDE DEF gk, w
    <3> QED BY <3>1, <3>3, <3>4 DEF Running
  <2>4. Following(v, w, i, k)
    <3>1. ASSUME NEW j \in 1..k PROVE w[j] = v[j + i]
      <4>1. j + i \in 1..n /\ j \in 1..Len(rest) /\ j + i \in 1..m /\ j \in 1..(n - i)
        BY <1>1
      <4>2. w[j] = rest[j].bytes /\ ByteCounts(b)[j + i] = b[j + i].bytes
        BY <1>1, <4>1, ByteCountsType
      <4> QED BY <1>1, <2>1, <4>1, <4>2
    <3> QED BY <3>1 DEF Following
  <2>5. m = k + i
    BY <1>1
  <2> HIDE DEF v, w, h, gk, m, n
  <2> QED BY <1>1, <2>1, <2>2, <2>3, <2>4, <2>5, RunningRest
<1>5. gk[k] = g[k] /\ h[m] = f[m] /\ h[i] = f[i]
  BY <1>1
<1>6. /\ BytesThrough(b, m) = f[m] /\ BytesThrough(b, i) = f[i]
      /\ BytesThrough(rest, k) = g[k]
  <2>1. m \in 0..n /\ i \in 0..n /\ k \in 0..Len(rest)
    BY <1>1
  <2>2. Running(ByteCounts(rest), Len(rest), g)
    BY <1>1, <1>3
  <2> HIDE DEF h, gk, v, w, m
  <2> QED BY <1>1, <1>2, <2>1, <2>2, BytesRunning
<1>7. m \in 0..n
  BY <1>1
<1> HIDE DEF h, gk, v, w
<1> QED BY <1>4, <1>5, <1>6, <1>7

-----------------------------------------------------------------------------
(* What is sent and not yet applied.                                       *)

\* Nothing but the writer's entries moves what has been sent.
LEMMA OthersUnsent ==
    ASSUME TypeInv, FrameOrder, TurnPosition, [Next]_vars, ~WriterSend
    PROVE  lastSent' = lastSent
<1>1. ASSUME NEW m \in Message, WirePut(m), m.type \in {"turn-complete", "pane-error"}
      PROVE  lastSent' = lastSent
  BY <1>1 DEF WirePut
<1>2. CASE WriterFinishTurn
  BY <1>1, <1>2, FinishPut
<1>3. CASE LoopAck
  BY <1>1, <1>3, AckPut
<1>4. CASE ClientReceive
  BY <1>4, ReceiveFacts DEF ClientRest, writerVars
<1> QED BY <1>2, <1>3, <1>4, OtherWires, ClientWires

\* What a step that neither sends, ends a turn, starts one nor acknowledges leaves alone.
FlowQuiet ==
    /\ UNCHANGED turnVars /\ UNCHANGED <<turn, written>>
    /\ writerPc' = "turn" <=> writerPc = "turn"

\* A step after which the stream flows: it flowed before, and the step is one of five.
LEMMA FlowSteps ==
    ASSUME TypeInv, Positions, StartsOnce, AgentCursors, [Next]_vars, Flowing'
    PROVE  Flowing /\ (WriterSend \/ WriterFinishTurn \/ LoopAck \/ WriterScan \/ FlowQuiet)
<1>0. FrameOrder /\ Unstarted /\ active' /\ ~overloaded' /\ writerPc' # "done"
  BY DEF Positions, Flowing, Accepting
<1>1. CASE Reader \/ LoopPing
  <2>1. /\ active' = active /\ UNCHANGED writerVars /\ UNCHANGED <<turnVars, overloaded>>
    BY <1>0, <1>1, QueueWell DEF TurnsEnded
  <2> QED BY <1>0, <2>1 DEF Flowing, Accepting, FlowQuiet, writerVars
<1>2. CASE WriterSend
  BY <1>0, <1>2 DEF WriterSend, WriterRest, Flowing, Accepting
<1>3. CASE WriterFinishTurn
  <2>1. writerPc = "turn" /\ UNCHANGED bufferVars /\ active' = active
    BY <1>3, FinishFacts DEF WriterRest
  <2> QED BY <1>0, <1>3, <2>1 DEF Flowing, Accepting, bufferVars
<1>4. CASE LoopAck
  BY <1>0, <1>4 DEF LoopAck, LoopRest, Flowing, Accepting, bufferVars, lifeVars, writerVars
<1>5. CASE Writer /\ ~WriterSend /\ ~WriterFinishTurn
  <2>1. WriterRest /\ UNCHANGED dataVars
    BY <1>5 DEF Writer, WriterWake, WriterStops, WriterScan, WriterRoundEnd
  <2>2. /\ writerPc # "done" /\ (WriterScan \/ (UNCHANGED <<turn, written>> /\ writerPc # "turn" /\ writerPc' # "turn"))
    BY <1>5 DEF Writer, WriterWake, WriterStops, WriterScan, WriterRoundEnd
  <2> QED BY <1>0, <2>1, <2>2 DEF WriterRest, dataVars, bufferVars, Flowing, Accepting, FlowQuiet
<1>6. CASE LoopDeactivate
  BY <1>0, <1>6 DEF LoopDeactivate
<1>7. CASE \/ LoopRegister \/ LoopRun \/ LoopRemove \/ LoopClose \/ LoopStop \/ StopRuns
           \/ (\E who \in {"reader", "loop"} : Signal(who)) \/ UNCHANGED vars
  <2>1. UNCHANGED dataVars /\ UNCHANGED writerVars /\ active' = active
    BY <1>7 DEF LoopRegister, LoopRun, LoopRemove, LoopClose, LoopStop, LoopRest, StopRuns,
       Signal, vars, lifeVars
  <2> QED BY <1>0, <2>1 DEF dataVars, bufferVars, writerVars, Flowing, Accepting, FlowQuiet
<1>8. CASE Client
  <2>1. ClientRest
    BY <1>8 DEF Client, ClientReceive, ClientApply, ClientAck, ClientLeave
  <2> QED BY <1>0, <2>1 DEF ClientRest, dataVars, bufferVars, lifeVars, writerVars, Flowing,
                            Accepting, FlowQuiet
<1> QED BY <1>1, <1>2, <1>3, <1>4, <1>5, <1>6, <1>7, <1>8 DEF Next, Loop

\* What the writer sends while the stream flows: the first entry, and with the
\* announcement of the replay it starts the credit.
LEMMA SentFlowing ==
    ASSUME TypeInv, BufferOrder, BytesKept, StartsOnce, StartsOnce', WireRises, AckedApplied,
           WriterSend, Flowing'
    PROVE  /\ lastSent' = Head(buffer).after
           /\ clientState' = clientState
           /\ clientState = "open" =>
                 IF Head(buffer).kind = "replay-start" THEN AppliedStarts ELSE AppliedStays
<1>1. writerPc' # "done"
  BY DEF Flowing
<1>2. lastSent' = Head(buffer).after
  BY <1>1 DEF WriterSend, Write
<1>3. UNCHANGED clientVars
  BY DEF WriterSend, WriterRest
<1>4. ASSUME clientState = "open"
      PROVE  IF Head(buffer).kind = "replay-start" THEN AppliedStarts ELSE AppliedStays
  <2>1. wire' = Append(wire, [type |-> Head(buffer).kind, before |-> Head(buffer).before,
                              after |-> Head(buffer).after])
    BY <1>1 DEF WriterSend, Write
  <2>2. wire' # wire
    <3>1. wire \in Seq(Message)
      BY WireCursors
    <3>2. Len(wire') = Len(wire) + 1 /\ Len(wire) \in Nat
      BY <2>1, <3>1
    <3> QED BY <3>2
  <2>3. PICK m \in Message : WirePut(m)
    BY <2>2, SentPut
  <2>4. m.type = Head(buffer).kind
    BY <2>3 DEF WirePut
  <2>5. CASE m.type = "replay-start"
    <3>1. 1 \in Unannounced
      BY <2>4, <2>5, SendFacts DEF Unannounced
    <3>2. Announced = {}
      BY <3>1 DEF StartsOnce
    <3>3. lastSent.cursor = 0
      BY <2>3, <2>5 DEF WirePut
    <3>4. AppliedOrAnnounced = 0
      BY <1>4, <3>3, AppliedBound
    <3>5. Len(wire) + 1 \in Announced' /\ wire'[Len(wire) + 1] = m
      BY <2>3, <2>5, WireCursors, AppendedStarts DEF WirePut
    <3>6. AppliedOrAnnounced' = m.after.cursor /\ m.after = lastSent'
      BY <2>3, <3>5, AppliedNext DEF WirePut
    <3> QED BY <1>2, <2>4, <2>5, <3>3, <3>4, <3>6 DEF AppliedStarts
  <2>6. CASE m.type # "replay-start"
    BY <1>4, <2>3, <2>4, <2>6, AppliedPut DEF AppliedStarts
  <2> QED BY <2>4, <2>5, <2>6
<1> QED BY <1>2, <1>3, <1>4 DEF clientVars

\* The first entry, as the writer sends it.
LEMMA SentCursors ==
    ASSUME TypeInv, BufferOrder, BytesKept, WriterSend
    PROVE  /\ Head(buffer) = buffer[1] /\ 1 \in 1..Len(buffer) /\ Head(buffer) \in Entry
           /\ Head(buffer).before = lastSent /\ lastSent.cursor \in Nat
           /\ Head(buffer).after.cursor \in Nat /\ Head(buffer).cost \in Nat
           /\ Head(buffer).kind = "binary" =>
                 /\ Head(buffer).after.cursor = lastSent.cursor + Head(buffer).cost
                 /\ 0 < Head(buffer).cost /\ Head(buffer).cost <= PayloadMax
                 /\ Head(buffer).after.seq = lastSent.seq + 1
           /\ Head(buffer).kind = "replay-start" => lastSent.seq = 0 /\ lastSent.cursor = 0
           /\ Head(buffer).kind \in {"binary", "replay-start"} =>
                 Head(buffer).after.cursor <= MaxOutput
           /\ Head(buffer).kind \notin {"binary", "replay-start"} =>
                 Head(buffer).after = lastSent
<1>1. /\ Head(buffer) = buffer[1] /\ 1 \in 1..Len(buffer) /\ Head(buffer) \in Entry
      /\ Head(buffer).before = lastSent /\ EntryShape(Head(buffer)) /\ EntryBytes(Head(buffer))
  BY SendFacts, SentFollows DEF BytesKept
<1>2. Head(buffer).after.cursor \in Nat /\ Head(buffer).cost \in Nat /\ lastSent.cursor \in Nat
  BY <1>1 DEF Entry, Position
<1> QED BY <1>1, <1>2 DEF EntryShape, EntryBytes

\* What is applied or announced never goes back.
LEMMA AppliedRises ==
    ASSUME TypeInv, Positions, StartsOnce, StartsOnce', WireRises, AckedApplied, BytesKept,
           clientState' = "open", [Next]_vars
    PROVE  /\ clientState = "open" /\ AppliedOrAnnounced \in Nat /\ AppliedOrAnnounced' \in Nat
           /\ ~WriterSend => AppliedOrAnnounced <= AppliedOrAnnounced'
<1>1. clientState = "open" /\ (AppliedStays \/ AppliedStarts \/ AppliedMoves)
  BY AppliedSteps
<1>2. AppliedOrAnnounced \in Nat /\ lastSent.cursor \in Nat
  BY <1>1, AppliedBound, WireCursors
<1>3. CASE AppliedStays
  BY <1>1, <1>2, <1>3 DEF AppliedStays
<1>4. CASE AppliedStarts
  <2>1. Head(buffer).after.cursor \in Nat
    BY <1>4, SentCursors DEF AppliedStarts, Positions
  <2> QED BY <1>1, <1>2, <1>4, <2>1 DEF AppliedStarts
<1>5. CASE AppliedMoves
  BY <1>1, <1>2, <1>5, ConstantsType DEF AppliedMoves
<1> QED BY <1>1, <1>3, <1>4, <1>5

\* What is sent during a burst stays within the replay.
LEMMA BurstSentWithin ==
    ASSUME TypeInv, BufferOrder, BytesKept, BurstBounds, BurstHeld, Flowing,
           WriterSend, replayBurstActive
    PROVE  /\ Head(buffer).kind # "replay-start"
           /\ Head(buffer).after.cursor <= replayTo
<1>1. /\ Head(buffer) = buffer[1] /\ 1 \in 1..Len(buffer)
      /\ Head(buffer).kind \notin {"binary", "replay-start"} => Head(buffer).after = lastSent
  BY SentCursors
<1>2. Head(buffer).kind # "replay-start"
  <2>1. Unannounced = {}
    BY DEF BurstBounds
  <2> QED BY <1>1, <2>1 DEF Unannounced
<1>3. CASE Head(buffer).kind = "binary"
  <2>1. ~(replayTo < buffer[1].after.cursor)
    <3>1. ~OverBefore(1)
      BY DEF OverBefore
    <3>2. BurstEntry(1)
      BY <1>1 DEF BurstBounds
    <3> QED BY <1>1, <1>3, <3>1, <3>2 DEF BurstEntry
  <2> QED BY <1>1, <1>2, <2>1, CursorTypes, EntryCursors
<1>4. CASE Head(buffer).kind # "binary"
  BY <1>1, <1>2, <1>4 DEF BurstHeld
<1> QED BY <1>2, <1>3, <1>4

\* During a burst no more is sent than was admitted.
LEMMA NextBurstHeld ==
    ASSUME TypeInv, Positions, StartsOnce, StartsOnce', AgentCursors, WireRises, AckedApplied,
           BytesKept, BurstBounds, BurstHeld, [Next]_vars
    PROVE  BurstHeld'
<1> SUFFICES ASSUME replayBurstActive', Flowing'
             PROVE  /\ lastSent'.cursor <= replayTo'
                    /\ clientState' = "open" =>
                          replayTo' <= AppliedOrAnnounced' + ReplayBurstLimit
  BY DEF BurstHeld
<1>0. FrameOrder /\ BufferOrder /\ Unstarted /\ TurnPosition /\ Flowing
  BY FlowSteps DEF Positions
<1>1. CASE WriterSend
  <2>1. /\ Head(buffer) = buffer[1] /\ 1 \in 1..Len(buffer)
        /\ replayBurstActive \/ buffer[1].burstStart
        /\ lastSent' = Head(buffer).after /\ replayTo' = replayTo
    <3>1. Head(buffer) = buffer[1] /\ 1 \in 1..Len(buffer)
      BY <1>1, SendFacts
    <3>2. replayTo' = replayTo
      BY <1>1 DEF WriterSend, WriterRest, agentVars
    <3> QED BY <1>0, <1>1, <3>1, <3>2, SentFlowing DEF WriterSend
  <2>2. CASE buffer[1].burstStart
    <3>1. /\ buffer[1].after.cursor <= replayTo
          /\ replayTo <= buffer[1].after.cursor + ReplayBurstLimit
      BY <2>1, <2>2 DEF BurstBounds, BurstEntry
    <3>2. Head(buffer).kind = "replay-start"
      BY <1>0, <2>1, <2>2 DEF BufferOrder, EntryShape
    <3>3. clientState' = "open" => AppliedOrAnnounced' = lastSent'.cursor
      BY <1>0, <1>1, <3>2, SentFlowing DEF AppliedStarts
    <3> QED BY <2>1, <3>1, <3>3
  <2>3. CASE replayBurstActive
    <3>1. Head(buffer).kind # "replay-start" /\ Head(buffer).after.cursor <= replayTo
      BY <1>0, <1>1, <2>3, BurstSentWithin
    <3>2. clientState' = "open" => clientState = "open" /\ AppliedOrAnnounced' = AppliedOrAnnounced
      BY <1>0, <1>1, <3>1, SentFlowing DEF AppliedStays
    <3>3. clientState = "open" => replayTo <= AppliedOrAnnounced + ReplayBurstLimit
      BY <1>0, <2>3 DEF BurstHeld
    <3> QED BY <2>1, <3>1, <3>2, <3>3
  <2> QED BY <2>1, <2>2, <2>3
<1>2. CASE ~WriterSend
  <2>1. replayBurstActive
    <3>1. CASE Reader \/ LoopPing
      BY <1>0, <3>1, QueueWell DEF turnVars, TurnsEnded
    <3> QED BY <1>2, <3>1, OtherBursts
  <2>2. lastSent' = lastSent
    BY <1>0, <1>2, OthersUnsent
  <2>3. agentPhase # "attach"
    BY <2>1 DEF BurstBounds, BurstQuiet
  <2>4. replayTo' = replayTo
    BY <1>0, <2>3, NextPhases DEF PhaseStep
  <2>5. ASSUME clientState' = "open" PROVE replayTo <= AppliedOrAnnounced' + ReplayBurstLimit
    <3>1. /\ clientState = "open" /\ AppliedOrAnnounced \in Nat /\ AppliedOrAnnounced' \in Nat
          /\ AppliedOrAnnounced <= AppliedOrAnnounced'
      BY <1>2, <2>5, AppliedRises
    <3>2. replayTo <= AppliedOrAnnounced + ReplayBurstLimit
      BY <1>0, <2>1, <3>1 DEF BurstHeld
    <3> QED BY <3>1, <3>2, CursorTypes
  <2> QED BY <1>0, <2>1, <2>2, <2>4, <2>5 DEF BurstHeld
<1> QED BY <1>1, <1>2

\* What has been acknowledged has been applied.
LEMMA AckedBefore ==
    ASSUME TypeInv, StartsOnce, WireRises, AckedApplied, clientState = "open",
           NEW i \in Acks
    PROVE  upstream[i].at.cursor <= AppliedOrAnnounced
<1>1. upstream[i].at.cursor <= applied /\ applied <= clientPos.cursor
  BY DEF AckedApplied
<1>2. CASE Announced = {}
  BY <1>1, <1>2, AppliedNow
<1>3. ASSUME NEW k \in Announced PROVE applied <= AppliedOrAnnounced
  <2>1. k \in 1..Len(wire)
    BY DEF Announced
  <2>2. /\ clientPos.cursor <= wire[k].before.cursor
        /\ wire[k].before.cursor <= wire[k].after.cursor
    BY <2>1 DEF WireRises
  <2> QED BY <1>1, <2>1, <2>2, AppliedNow, WireCursors
<1> QED BY <1>1, <1>2, <1>3, AppliedBound, UpstreamTypes

\* What an acknowledgement the loop takes in stands for.
LEMMA AckTaken ==
    ASSUME TypeInv, LoopAck
    PROVE  /\ 1 \in Acks /\ upstream[1].at \in Position
           /\ \/ UNCHANGED turnVars
              \/ AckMatches(upstream[1].at) /\ AcknowledgeTurn(upstream[1].at)
           /\ UNCHANGED <<clientVars, writerVars>>
           /\ clientState' = clientState /\ lastSent' = lastSent /\ writerPc' = writerPc
           /\ turn' = turn /\ written' = written
<1>1. upstream # <<>> /\ upstream \in Seq([type : {"ack", "replace"}, at : Position])
  BY UpstreamTypes DEF LoopAck
<1>2. Head(upstream) = upstream[1] /\ 1 \in 1..Len(upstream)
  BY <1>1, TailFacts
<1>3. 1 \in Acks
  BY <1>2 DEF LoopAck, Acks
<1>4. upstream[1] \in [type : {"ack", "replace"}, at : Position]
  BY <1>1, <1>2, SeqElements
<1>5. upstream[1].at \in Position
  BY <1>4
<1>6. \/ UNCHANGED turnVars
      \/ AckMatches(upstream[1].at) /\ AcknowledgeTurn(upstream[1].at)
  BY <1>2 DEF LoopAck
<1>7. UNCHANGED <<clientVars, writerVars>>
  BY DEF LoopAck, LoopRest
<1> QED BY <1>3, <1>5, <1>6, <1>7 DEF clientVars, writerVars

\* Where the boundaries of a window stand, given the bytes that are in flight.
Stand(b, inFlight, sent) ==
    \A i \in 1..Len(b) : b[i].at.cursor + inFlight = sent + BytesThrough(b, i)

\* The types of what the boundaries account for.
LEMMA BoundaryCursors ==
    ASSUME NEW b \in Seq(Boundary)
    PROVE  \A i \in 1..Len(b) : /\ b[i].at.cursor \in Nat /\ i \in 0..Len(b)
                                /\ BytesThrough(b, i) \in Int
<1>1. \A i \in 1..Len(b) : b[i] \in Boundary /\ i \in 0..Len(b)
  OBVIOUS
<1>2. \A e \in Boundary : e.at.cursor \in Nat
  BY DEF Boundary, Position
<1> QED BY <1>1, <1>2, BytesThroughType

\* Both sides of an account grow alike, ...
LEMMA SumMore ==
    ASSUME NEW a \in Int, NEW f \in Int, NEW s \in Int, NEW t \in Int, NEW n \in Int,
           a + f = s + t
    PROVE  a + (f + n) = (s + n) + t
OBVIOUS

\* ... and shrink alike.
LEMMA SumLess ==
    ASSUME NEW a \in Int, NEW f \in Int, NEW s \in Int, NEW t \in Int, NEW u \in Int,
           a + f = s + u
    PROVE  a + (f - t) = s + (u - t) /\ (u = t => a + (f - t) = s)
OBVIOUS

\* The boundaries stand when more is sent and is in flight, ...
LEMMA StandMore ==
    ASSUME NEW b \in Seq(Boundary), NEW inFlight \in Int, NEW sent \in Int,
           Stand(b, inFlight, sent), NEW n \in Int
    PROVE  Stand(b, inFlight + n, sent + n)
<1>1. ASSUME NEW i \in 1..Len(b)
      PROVE  b[i].at.cursor + (inFlight + n) = (sent + n) + BytesThrough(b, i)
  <2>1. /\ b[i].at.cursor \in Int /\ BytesThrough(b, i) \in Int
        /\ b[i].at.cursor + inFlight = sent + BytesThrough(b, i)
    <3>1. b[i].at.cursor \in Nat /\ BytesThrough(b, i) \in Int
      BY BoundaryCursors
    <3>2. b[i].at.cursor + inFlight = sent + BytesThrough(b, i)
      BY DEF Stand
    <3> QED BY <3>1, <3>2
  <2> DEFINE at == b[i].at.cursor
             through == BytesThrough(b, i)
  <2>2. at \in Int /\ through \in Int /\ at + inFlight = sent + through
    BY <2>1
  <2> HIDE DEF at, through
  <2>3. at + (inFlight + n) = (sent + n) + through
    BY <2>2, SumMore
  <2> QED BY <2>3 DEF at, through
<1> QED BY <1>1 DEF Stand

\* ... when a turn is completed where the websocket is, ...
LEMMA StandAppend ==
    ASSUME NEW b \in Seq(Boundary), NEW inFlight \in Int, NEW sent \in Int, NEW e \in Boundary,
           Stand(b, inFlight, sent), e.at.cursor = sent,
           inFlight = BytesThrough(b, Len(b)) + e.bytes
    PROVE  Stand(Append(b, e), inFlight, sent)
<1> DEFINE longer == Append(b, e)
<1>1. /\ Len(b) \in Nat /\ longer[Len(b) + 1] = e /\ Len(longer) = Len(b) + 1
      /\ \A i \in 1..Len(b) : longer[i] = b[i] /\ i \in 0..Len(b)
      /\ \A i \in 1..Len(longer) : i = Len(b) + 1 \/ i \in 1..Len(b)
  BY AppendFacts
<1>2. BytesThrough(longer, Len(longer)) = BytesThrough(b, Len(b)) + e.bytes
  BY BytesAppend
<1>3. \A i \in 1..Len(b) : BytesThrough(longer, i) = BytesThrough(b, i)
  BY <1>1, BytesAppendPart
<1> HIDE DEF longer
<1>4. ASSUME NEW i \in 1..Len(longer)
      PROVE  longer[i].at.cursor + inFlight = sent + BytesThrough(longer, i)
  <2>1. CASE i = Len(b) + 1
    BY <1>1, <1>2, <2>1
  <2>2. CASE i \in 1..Len(b)
    BY <1>1, <1>3, <2>2 DEF Stand
  <2> QED BY <1>1, <2>1, <2>2
<1> QED BY <1>4 DEF Stand, longer

\* ... and when the first of them are acknowledged.
LEMMA StandRest ==
    ASSUME NEW b \in Seq(Boundary), NEW inFlight \in Int, NEW sent \in Int,
           Stand(b, inFlight, sent), NEW i \in 1..Len(b), NEW rest, IsRest(rest, b, i)
    PROVE  /\ Stand(rest, inFlight - BytesThrough(b, i), sent)
           /\ b[i].at.cursor + (inFlight - BytesThrough(b, i)) = sent
<1>1. /\ BytesThrough(b, i) \in Int /\ b[i].at.cursor \in Nat
      /\ b[i].at.cursor + inFlight = sent + BytesThrough(b, i)
  BY BoundaryCursors DEF Stand
<1>2. /\ Len(b) \in Nat /\ rest \in Seq(Boundary)
      /\ \A k \in 1..Len(rest) : i + k \in 1..Len(b) /\ rest[k] = b[i + k] /\ k \in 0..Len(rest)
  BY DEF IsRest
<1>3. ASSUME NEW k \in 1..Len(rest)
      PROVE  rest[k].at.cursor + (inFlight - BytesThrough(b, i)) = sent + BytesThrough(rest, k)
  <2>0. k \in 0..Len(rest) /\ i + k \in 1..Len(b) /\ rest[k] = b[i + k]
    BY <1>2
  <2>1. BytesThrough(rest, k) = BytesThrough(b, i + k) - BytesThrough(b, i)
    BY <2>0, BytesRestPart
  <2>2. /\ BytesThrough(b, i + k) \in Int /\ b[i + k].at.cursor \in Int
        /\ b[i + k].at.cursor + inFlight = sent + BytesThrough(b, i + k)
    BY <2>0, BoundaryCursors DEF Stand
  <2>3. b[i + k].at.cursor + (inFlight - BytesThrough(b, i))
          = sent + (BytesThrough(b, i + k) - BytesThrough(b, i))
    <3>1. PICK a \in Int, t \in Int, u \in Int :
              /\ a = b[i + k].at.cursor /\ t = BytesThrough(b, i) /\ u = BytesThrough(b, i + k)
      BY <1>1, <2>2
    <3>2. a + inFlight = sent + u
      BY <2>2, <3>1
    <3>3. a + (inFlight - t) = sent + (u - t)
      BY <3>2, SumLess
    <3> QED BY <3>1, <3>3
  <2> QED BY <2>0, <2>1, <2>3
<1>4. b[i].at.cursor + (inFlight - BytesThrough(b, i)) = sent
  <2>1. b[i].at.cursor \in Int
    BY <1>1
  <2> QED BY <1>1, <2>1, SumLess
<1> QED BY <1>3, <1>4 DEF Stand

\* WindowHeld in terms of Stand.
LEMMA WindowIs ==
    WindowHeld <=> (UsesWindow /\ Flowing =>
                       /\ Stand(window.boundaries, window.inFlight, lastSent.cursor)
                       /\ clientState = "open" =>
                             lastSent.cursor <= AppliedOrAnnounced + window.inFlight)
BY DEF WindowHeld, Stand

\* The types of the window.
LEMMA WindowTypes ==
    ASSUME TypeInv
    PROVE  /\ window \in Window /\ window.boundaries \in Seq(Boundary) /\ window.inFlight \in Int
           /\ window.ack \in Position /\ window.currentTurnBytes \in Int /\ lastSent.cursor \in Int
           /\ TurnType
<1>1. window \in Window /\ TurnType
  BY TypeParts DEF TurnType
<1> QED BY <1>1, WindowType, WireCursors

\* Sending keeps the account of the window, ...
LEMMA SentHeld ==
    ASSUME TypeInv, BufferOrder, BytesKept, StartsOnce, StartsOnce', WireRises, AckedApplied,
           Ledger, WindowHeld, UsesWindow, Flowing, Flowing', WriterSend
    PROVE  WindowHeld'
<1> DEFINE h == Head(buffer)
<1>1. /\ h \in Entry /\ lastSent.cursor \in Nat /\ h.after.cursor \in Nat /\ h.cost \in Nat
      /\ h.kind = "binary" => h.after.cursor = lastSent.cursor + h.cost
      /\ h.kind = "replay-start" => lastSent.seq = 0 /\ lastSent.cursor = 0
      /\ h.kind \notin {"binary", "replay-start"} => h.after = lastSent
  BY SentCursors
<1>2. /\ lastSent' = h.after /\ clientState' = clientState
      /\ clientState = "open" => IF h.kind = "replay-start" THEN AppliedStarts ELSE AppliedStays
  BY SentFlowing
<1>3. /\ Stand(window.boundaries, window.inFlight, lastSent.cursor)
      /\ clientState = "open" => lastSent.cursor <= AppliedOrAnnounced + window.inFlight
      /\ clientState = "open" => AppliedOrAnnounced \in Nat
  BY WindowIs, AppliedBound
<1>4. \/ h.kind = "binary" /\ window'.inFlight = window.inFlight + h.cost
      \/ h.kind # "binary" /\ window' = window
  <2>1. CASE h.kind # "binary"
    BY <2>1 DEF WriterSend
  <2>2. CASE h.kind = "binary"
    <3> DEFINE inFlight == window.inFlight + h.cost
               bytes == window.currentTurnBytes + h.cost
    <3>1. window' = [window EXCEPT !.inFlight = inFlight, !.currentTurnBytes = bytes]
      BY <2>2 DEF WriterSend
    <3>2. inFlight \in Int /\ bytes \in Int /\ window \in Window
      BY <1>1, WindowTypes
    <3> HIDE DEF inFlight, bytes
    <3>3. window'.inFlight = inFlight
      BY <3>1, <3>2 DEF Window
    <3> QED BY <2>2, <3>3 DEF inFlight
  <2> QED BY <2>1, <2>2
<1>5. window'.boundaries = window.boundaries
  BY <1>1, SentWindow, WindowTypes
<1> HIDE DEF h
<1>6. Stand(window'.boundaries, window'.inFlight, lastSent'.cursor)
  <2>1. CASE h.kind = "binary"
    <3>1. Stand(window.boundaries, window.inFlight + h.cost, lastSent.cursor + h.cost)
      BY <1>1, <1>3, WindowTypes, StandMore
    <3>2. window'.inFlight = window.inFlight + h.cost
          /\ lastSent'.cursor = lastSent.cursor + h.cost
      BY <1>1, <1>2, <1>4, <2>1
    <3> QED BY <1>5, <3>1, <3>2
  <2>2. CASE h.kind = "replay-start"
    <3>1. window.boundaries = <<>>
      <4>1. Ascending(window.boundaries, window.ack) /\ LastBoundary.seq <= 0
        BY <1>1, <2>2 DEF Ledger, WindowKept
      <4>2. /\ LastBoundary \in Position /\ window.ack.seq \in Nat
            /\ window.boundaries # <<>> => window.ack.seq < LastBoundary.seq
        BY <4>1, WindowTypes, AscendingLast DEF LastBoundary, Position
      <4>3. LastBoundary.seq \in Nat
        BY <4>2 DEF Position
      <4> QED BY <4>1, <4>2, <4>3
    <3> QED BY <1>5, <3>1 DEF Stand
  <2>3. CASE h.kind \notin {"binary", "replay-start"}
    BY <1>1, <1>2, <1>3, <1>4, <2>3
  <2> QED BY <2>1, <2>2, <2>3
<1>7. ASSUME clientState' = "open"
      PROVE  lastSent'.cursor <= AppliedOrAnnounced' + window'.inFlight
  <2>1. /\ clientState = "open" /\ lastSent.cursor <= AppliedOrAnnounced + window.inFlight
        /\ AppliedOrAnnounced \in Nat /\ window.inFlight \in Int
    BY <1>2, <1>3, <1>7, WindowTypes
  <2>2. CASE h.kind = "binary"
    BY <1>1, <1>2, <1>4, <2>1, <2>2 DEF AppliedStays
  <2>3. CASE h.kind = "replay-start"
    <3>1. /\ AppliedOrAnnounced' = lastSent'.cursor /\ AppliedOrAnnounced = 0
          /\ lastSent.cursor = 0 /\ window' = window
      BY <1>2, <1>4, <2>1, <2>3 DEF AppliedStarts
    <3> QED BY <1>1, <1>2, <2>1, <3>1
  <2>4. CASE h.kind \notin {"binary", "replay-start"}
    BY <1>1, <1>2, <1>4, <2>1, <2>4 DEF AppliedStays
  <2> QED BY <2>2, <2>3, <2>4
<1> QED BY <1>6, <1>7 DEF WindowHeld, Stand

\* ... so does completing a turn, ...
LEMMA FinishHeld ==
    ASSUME TypeInv, Positions, StartsOnce, StartsOnce', WireRises, AckedApplied, BytesKept,
           Ledger, WindowHeld, UsesWindow, Flowing, Flowing', WriterFinishTurn, [Next]_vars
    PROVE  WindowHeld'
<1> DEFINE b == window.boundaries
           e == [at |-> DoneTurn, bytes |-> window.currentTurnBytes]
<1>1. /\ writerPc = "turn" /\ (TurnCut \/ TurnKept \/ TurnCompleted) /\ active /\ ~overloaded
      /\ TurnPosition /\ FrameOrder
  BY FinishFacts DEF Flowing, Accepting, Positions
<1>2. /\ b \in Seq(Boundary) /\ window.inFlight \in Int /\ lastSent.cursor \in Int /\ TurnType
      /\ Stand(b, window.inFlight, lastSent.cursor)
      /\ window.inFlight = BytesThrough(b, Len(b)) + window.currentTurnBytes
  BY WindowTypes, WindowIs DEF Ledger, WindowKept
<1>3. ~WriterSend
  <2>1. Len(buffer') = Len(buffer) /\ Len(buffer) \in Nat
    BY FinishFacts, EntryCursors DEF bufferVars
  <2>2. WriterSend => Len(buffer') = Len(buffer) - 1
    BY SendFacts
  <2> QED BY <2>1, <2>2
<1>4. lastSent' = lastSent
  BY <1>1, <1>3, OthersUnsent
<1>5. /\ window'.inFlight = window.inFlight
      /\ Stand(window'.boundaries, window'.inFlight, lastSent'.cursor)
  <2>1. CASE TurnKept
    BY <1>2, <1>4, <2>1 DEF TurnKept
  <2>2. CASE TurnCompleted
    <3>1. DoneTurn = lastSent /\ DoneTurn \in Position
      BY <1>1, <2>2, DoneIsLast DEF TurnCompleted
    <3>2. /\ e \in Boundary /\ window'.boundaries = Append(b, e)
          /\ window'.inFlight = window.inFlight
      BY <1>2, <2>2, <3>1, CompletedWindow
    <3>3. e.at.cursor = lastSent.cursor /\ e.bytes = window.currentTurnBytes
      BY <3>1
    <3> HIDE DEF b, e
    <3>4. Stand(Append(b, e), window.inFlight, lastSent.cursor)
      BY <1>2, <3>2, <3>3, StandAppend
    <3> QED BY <1>4, <3>2, <3>4
  <2> QED BY <1>1, <2>1, <2>2 DEF TurnCut
<1>6. ASSUME clientState' = "open"
      PROVE  lastSent'.cursor <= AppliedOrAnnounced' + window'.inFlight
  <2>1. /\ clientState = "open" /\ AppliedOrAnnounced \in Nat /\ AppliedOrAnnounced' \in Nat
        /\ AppliedOrAnnounced <= AppliedOrAnnounced'
    BY <1>3, <1>6, AppliedRises
  <2>2. lastSent.cursor <= AppliedOrAnnounced + window.inFlight
    BY <2>1, WindowIs
  <2> QED BY <1>2, <1>4, <1>5, <2>1, <2>2
<1> QED BY <1>5, <1>6 DEF WindowHeld, Stand

\* ... and so does an acknowledgement, cumulative or repeated.
LEMMA AckHeld ==
    ASSUME TypeInv, Positions, StartsOnce, StartsOnce', WireRises, AckedApplied, BytesKept,
           Ledger, WindowHeld, UsesWindow, Flowing, Flowing', LoopAck, [Next]_vars
    PROVE  WindowHeld'
<1> DEFINE b == window.boundaries
           at == upstream[1].at
<1>1. /\ 1 \in Acks /\ at \in Position
      /\ UNCHANGED turnVars \/ (AckMatches(at) /\ AcknowledgeTurn(at))
      /\ clientState' = clientState /\ lastSent' = lastSent
  BY AckTaken
<1>2. /\ b \in Seq(Boundary) /\ window.inFlight \in Int /\ lastSent.cursor \in Int /\ TurnType
      /\ Stand(b, window.inFlight, lastSent.cursor)
  BY WindowTypes, WindowIs
<1>3. ~WriterSend
  <2>1. Len(buffer') = Len(buffer) /\ Len(buffer) \in Nat
    BY EntryCursors DEF LoopAck, bufferVars
  <2>2. WriterSend => Len(buffer') = Len(buffer) - 1
    BY SendFacts
  <2> QED BY <2>1, <2>2
<1>4. ASSUME clientState' = "open"
      PROVE  /\ clientState = "open" /\ AppliedOrAnnounced \in Nat /\ AppliedOrAnnounced' \in Nat
             /\ AppliedOrAnnounced <= AppliedOrAnnounced'
             /\ lastSent.cursor <= AppliedOrAnnounced + window.inFlight
             /\ at.cursor <= AppliedOrAnnounced
  <2>1. /\ clientState = "open" /\ AppliedOrAnnounced \in Nat /\ AppliedOrAnnounced' \in Nat
        /\ AppliedOrAnnounced <= AppliedOrAnnounced'
    BY <1>3, <1>4, AppliedRises
  <2> QED BY <1>1, <2>1, WindowIs, AckedBefore
<1>5. CASE window' = window
  <2>1. ASSUME clientState' = "open"
        PROVE  lastSent'.cursor <= AppliedOrAnnounced' + window'.inFlight
    BY <1>1, <1>2, <1>4, <1>5, <2>1
  <2> QED BY <1>1, <1>2, <1>5, <2>1 DEF WindowHeld, Stand
<1>6. CASE AckMatches(at) /\ AcknowledgeTurn(at) /\ at # window.ack
  <2> HIDE DEF at
  <2>1. PICK i \in 1..Len(b) :
            /\ b[i].at = at
            /\ window'.inFlight = window.inFlight - BytesThrough(b, i)
            /\ window'.boundaries = SubSeq(b, i + 1, Len(b))
    BY <1>2, <1>6, AcknowledgedWindow
  <2> HIDE DEF b
  <2>2. IsRest(window'.boundaries, b, i)
    BY <1>2, <2>1, RestIs
  <2>3. /\ Stand(window'.boundaries, window.inFlight - BytesThrough(b, i), lastSent.cursor)
        /\ b[i].at.cursor + (window.inFlight - BytesThrough(b, i)) = lastSent.cursor
    BY <1>2, <2>2, StandRest
  <2>4. /\ Stand(window'.boundaries, window'.inFlight, lastSent'.cursor)
        /\ at.cursor + window'.inFlight = lastSent.cursor
    BY <1>1, <2>1, <2>3
  <2>5. BytesThrough(b, i) \in Int
    BY <1>2, BoundaryCursors
  <2>6. window'.inFlight \in Int
    BY <1>2, <2>1, <2>5
  <2>7. at.cursor \in Nat
    BY <1>1 DEF Position
  <2>8. ASSUME clientState' = "open"
        PROVE  lastSent'.cursor <= AppliedOrAnnounced' + window'.inFlight
    BY <1>1, <1>2, <1>4, <2>4, <2>6, <2>7, <2>8
  <2> QED BY <2>4, <2>8 DEF WindowHeld, Stand
<1> QED
  <2>1. UNCHANGED turnVars => window' = window
    BY DEF turnVars
  <2>2. AcknowledgeTurn(at) /\ at = window.ack => window' = window
    BY DEF AcknowledgeTurn
  <2> HIDE DEF at
  <2> QED BY <1>1, <1>5, <1>6, <2>1, <2>2

\* What is sent beyond what is applied is in flight.
LEMMA NextWindowHeld ==
    ASSUME TypeInv, Positions, StartsOnce, StartsOnce', AgentCursors, WireRises, AckedApplied,
           BytesKept, Ledger, WindowHeld, [Next]_vars
    PROVE  WindowHeld'
<1>1. CASE ~(UsesWindow /\ Flowing')
  BY <1>1 DEF WindowHeld, UsesWindow
<1>2. CASE UsesWindow /\ Flowing'
  <2>0. BufferOrder /\ FrameOrder /\ TurnPosition
    BY DEF Positions
  <2>1. Flowing /\ (WriterSend \/ WriterFinishTurn \/ LoopAck \/ WriterScan \/ FlowQuiet)
    BY <1>2, FlowSteps
  <2>2. CASE WriterSend
    BY <1>2, <2>0, <2>1, <2>2, SentHeld
  <2>3. CASE WriterFinishTurn
    BY <1>2, <2>1, <2>3, FinishHeld
  <2>4. CASE LoopAck
    BY <1>2, <2>1, <2>4, AckHeld
  <2>5. CASE ~WriterSend /\ (WriterScan \/ FlowQuiet)
    <3>1. window' = window
      BY <2>5 DEF WriterScan, FlowQuiet, dataVars, turnVars
    <3>2. lastSent' = lastSent
      BY <2>0, <2>5, OthersUnsent
    <3>3. ASSUME clientState' = "open"
          PROVE  lastSent'.cursor <= AppliedOrAnnounced' + window'.inFlight
      <4>1. /\ clientState = "open" /\ AppliedOrAnnounced \in Nat /\ AppliedOrAnnounced' \in Nat
            /\ AppliedOrAnnounced <= AppliedOrAnnounced'
        BY <2>5, <3>3, AppliedRises
      <4>2. lastSent.cursor <= AppliedOrAnnounced + window.inFlight
        BY <1>2, <2>1, <4>1, WindowIs
      <4> QED BY <3>1, <3>2, <4>1, <4>2, WindowTypes
    <3>4. Stand(window.boundaries, window.inFlight, lastSent.cursor)
      BY <1>2, <2>1, WindowIs
    <3> QED BY <3>1, <3>2, <3>3, <3>4 DEF WindowHeld, Stand
  <2> QED BY <2>1, <2>2, <2>3, <2>4, <2>5
<1> QED BY <1>1, <1>2

\* Within a turn: what it has written already.
Extra == IF writerPc = "turn" /\ turn.seq # 0 THEN written ELSE 0
TurnMode == FlowControl = "turn-ack-v1"

\* TurnHolds in terms of what the turn has written already.
LEMMA TurnIs ==
    TurnHolds <=>
        (TurnMode /\ Flowing =>
            /\ awaitingTurnAck => turnAck.cursor = lastSent.cursor
            /\ clientState = "open" /\ ~awaitingTurnAck =>
                  lastSent.cursor <= AppliedOrAnnounced + ReplayBurstLimit + Extra)
BY DEF TurnHolds, TurnMode, Extra

\* The types of the turn.
LEMMA TurnTypes ==
    ASSUME TypeInv
    PROVE  /\ written \in Nat /\ Extra \in Nat /\ turn \in Position /\ turn.seq \in Nat
           /\ ReplayBurstLimit \in Nat /\ lastSent.cursor \in Nat /\ lastSent.seq \in Nat
<1>1. written \in Nat /\ turn \in Position /\ lastSent \in Position
  BY TypeParts DEF WriterType
<1> QED BY <1>1, ConstantsType DEF Extra, Position

\* Sending within a turn, ...
LEMMA SentTurn ==
    ASSUME TypeInv, BufferOrder, BytesKept, StartsOnce, StartsOnce', WireRises, AckedApplied,
           Ledger, TurnHolds, TurnMode, Flowing, Flowing', WriterSend
    PROVE  TurnHolds'
<1> DEFINE h == Head(buffer)
<1>1. /\ lastSent.cursor \in Nat /\ h.after.cursor \in Nat /\ h.cost \in Nat
      /\ h.kind = "binary" => /\ h.after.cursor = lastSent.cursor + h.cost
                              /\ h.after.seq = lastSent.seq + 1
      /\ h.kind \notin {"binary", "replay-start"} => h.after = lastSent
  BY SentCursors
<1>2. /\ lastSent' = h.after /\ clientState' = clientState
      /\ clientState = "open" => IF h.kind = "replay-start" THEN AppliedStarts ELSE AppliedStays
  BY SentFlowing
<1>3. /\ writerPc = "turn" /\ writerPc' = "turn" /\ awaitingTurnAck' = awaitingTurnAck
      /\ written' = written + h.cost
      /\ turn' = IF h.kind = "binary" THEN h.after ELSE turn
  BY DEF WriterSend, Write, Flowing
<1>4. ~awaitingTurnAck
  BY <1>3 DEF Ledger, TurnRoom
<1> HIDE DEF h
<1>5. /\ Extra \in Nat /\ Extra' \in Nat /\ Extra <= written /\ written' \in Nat
      /\ h.kind = "binary" => Extra' = written'
      /\ h.kind # "binary" => Extra <= Extra'
  <2>1. h.kind = "binary" => turn'.seq # 0
    BY <1>1, <1>3, TurnTypes
  <2> QED BY <1>1, <1>3, <2>1, TurnTypes DEF Extra
<1>6. ASSUME clientState' = "open"
      PROVE  lastSent'.cursor <= AppliedOrAnnounced' + ReplayBurstLimit + Extra'
  <2>1. /\ clientState = "open"
        /\ lastSent.cursor <= AppliedOrAnnounced + ReplayBurstLimit + Extra
        /\ AppliedOrAnnounced \in Nat /\ ReplayBurstLimit \in Nat
    BY <1>2, <1>4, <1>6, TurnIs, AppliedBound, TurnTypes
  <2>2. CASE h.kind = "binary"
    <3>1. AppliedOrAnnounced' = AppliedOrAnnounced
      BY <1>2, <2>1, <2>2 DEF AppliedStays
    <3>2. lastSent'.cursor = lastSent.cursor + h.cost
      BY <1>1, <1>2, <2>2
    <3>3. Extra + h.cost <= Extra'
      BY <1>1, <1>3, <1>5, <2>2, TurnTypes
    <3> QED BY <1>1, <1>5, <2>1, <3>1, <3>2, <3>3
  <2>3. CASE h.kind = "replay-start"
    BY <1>1, <1>2, <1>5, <2>1, <2>3 DEF AppliedStarts
  <2>4. CASE h.kind \notin {"binary", "replay-start"}
    <3>1. AppliedOrAnnounced' = AppliedOrAnnounced
      BY <1>2, <2>1, <2>4 DEF AppliedStays
    <3>2. lastSent'.cursor = lastSent.cursor
      BY <1>1, <1>2, <2>4
    <3> QED BY <1>1, <1>5, <2>1, <2>4, <3>1, <3>2
  <2> QED BY <2>2, <2>3, <2>4
<1> QED BY <1>3, <1>4, <1>6 DEF TurnHolds, Extra

\* What is sent beyond what is applied, while nothing more is sent.
LEMMA UnsentWithin ==
    ASSUME TypeInv, Positions, StartsOnce, StartsOnce', WireRises, AckedApplied, BytesKept,
           [Next]_vars, ~WriterSend, clientState' = "open", NEW limit \in Nat,
           clientState = "open" => lastSent.cursor <= AppliedOrAnnounced + limit
    PROVE  lastSent'.cursor <= AppliedOrAnnounced' + limit
<1>1. /\ clientState = "open" /\ AppliedOrAnnounced \in Nat /\ AppliedOrAnnounced' \in Nat
      /\ AppliedOrAnnounced <= AppliedOrAnnounced'
  BY AppliedRises
<1>2. lastSent' = lastSent
  BY OthersUnsent DEF Positions
<1> QED BY <1>1, <1>2, TurnTypes

\* ... ending it, ...
LEMMA FinishTurnHolds ==
    ASSUME TypeInv, Positions, StartsOnce, StartsOnce', WireRises, AckedApplied, BytesKept,
           Ledger, BurstHeld, TurnHolds, TurnMode, Flowing, Flowing', WriterFinishTurn,
           [Next]_vars
    PROVE  TurnHolds'
<1>1. /\ writerPc = "turn" /\ (TurnCut \/ TurnKept \/ TurnCompleted) /\ active /\ ~overloaded
      /\ TurnPosition /\ FrameOrder /\ turn' = turn
  BY FinishFacts DEF Flowing, Accepting, Positions
<1>2. ~WriterSend
  <2>1. Len(buffer') = Len(buffer) /\ Len(buffer) \in Nat
    BY FinishFacts, EntryCursors DEF bufferVars
  <2>2. WriterSend => Len(buffer') = Len(buffer) - 1
    BY SendFacts
  <2> QED BY <2>1, <2>2
<1>3. lastSent' = lastSent
  BY <1>1, <1>2, OthersUnsent
<1>4. CASE TurnKept
  <2>1. awaitingTurnAck' = awaitingTurnAck /\ writerPc' = "roundEnd" /\ TurnHeld(DoneTurn)
        /\ ~awaitingTurnAck
    BY <1>1, <1>4 DEF TurnKept, Ledger, TurnRoom
  <2>2. ReplayBurstLimit \in Nat
    BY TurnTypes
  <2>3. ASSUME clientState = "open" PROVE lastSent.cursor <= AppliedOrAnnounced + ReplayBurstLimit
    <3>1. AppliedOrAnnounced \in Nat
      BY <2>3, AppliedBound
    <3>2. CASE replayBurstActive
      <4>1. lastSent.cursor <= replayTo /\ replayTo <= AppliedOrAnnounced + ReplayBurstLimit
        BY <2>3, <3>2 DEF BurstHeld
      <4> QED BY <3>1, <4>1, TurnTypes, CursorTypes
    <3>3. CASE DoneTurn.seq = 0
      <4>1. turn.seq = 0
        BY <3>3 DEF DoneTurn
      <4>2. Extra = 0
        BY <4>1 DEF Extra
      <4>3. lastSent.cursor <= AppliedOrAnnounced + ReplayBurstLimit + Extra
        BY <2>1, <2>3, TurnIs
      <4> QED BY <3>1, <4>2, <4>3, TurnTypes
    <3> QED BY <2>1, <3>2, <3>3 DEF TurnHeld
  <2>4. ASSUME clientState' = "open"
        PROVE  lastSent'.cursor <= AppliedOrAnnounced' + ReplayBurstLimit
    BY <1>2, <2>2, <2>3, <2>4, UnsentWithin
  <2>5. Extra' = 0
    BY <2>1 DEF Extra
  <2>6. clientState' = "open" => AppliedOrAnnounced' \in Nat
    BY AppliedRises
  <2>7. ASSUME clientState' = "open"
        PROVE  lastSent'.cursor <= AppliedOrAnnounced' + ReplayBurstLimit + Extra'
    BY <2>2, <2>4, <2>5, <2>6, <2>7
  <2> QED BY <2>1, <2>7 DEF TurnHolds, Extra
<1>5. CASE TurnCompleted
  <2>1. DoneTurn = lastSent
    BY <1>1, <1>5, DoneIsLast DEF TurnCompleted
  <2>2. awaitingTurnAck' /\ turnAck' = lastSent
    BY <1>5, <2>1 DEF TurnCompleted, TurnMode
  <2> QED BY <1>3, <2>2 DEF TurnHolds
<1> QED BY <1>1, <1>4, <1>5 DEF TurnCut

\* ... and its acknowledgement keep what is sent beyond what is applied bounded.
LEMMA AckTurnHolds ==
    ASSUME TypeInv, Positions, StartsOnce, StartsOnce', WireRises, AckedApplied, BytesKept,
           Ledger, TurnHolds, TurnMode, Flowing, Flowing', LoopAck, [Next]_vars
    PROVE  TurnHolds'
<1> DEFINE at == upstream[1].at
<1>1. /\ 1 \in Acks /\ at \in Position
      /\ UNCHANGED turnVars \/ (AckMatches(at) /\ AcknowledgeTurn(at))
      /\ lastSent' = lastSent /\ writerPc' = writerPc /\ turn' = turn /\ written' = written
  BY AckTaken
<1>2. ~WriterSend
  <2>1. Len(buffer') = Len(buffer) /\ Len(buffer) \in Nat
    BY EntryCursors DEF LoopAck, bufferVars
  <2>2. WriterSend => Len(buffer') = Len(buffer) - 1
    BY SendFacts
  <2> QED BY <2>1, <2>2
<1>3. ReplayBurstLimit \in Nat /\ Extra \in Nat /\ Extra' = Extra
      /\ ReplayBurstLimit + Extra \in Nat
  BY <1>1, TurnTypes DEF Extra
<1>4. CASE UNCHANGED turnVars
  <2>1. awaitingTurnAck' = awaitingTurnAck /\ turnAck' = turnAck
    BY <1>4 DEF turnVars
  <2>2. ASSUME clientState' = "open", ~awaitingTurnAck'
        PROVE  lastSent'.cursor <= AppliedOrAnnounced' + ReplayBurstLimit + Extra'
    <3>1. clientState = "open" =>
              /\ lastSent.cursor <= AppliedOrAnnounced + ReplayBurstLimit + Extra
              /\ AppliedOrAnnounced \in Nat
      BY <2>1, <2>2, TurnIs, AppliedBound
    <3>2. clientState = "open" => lastSent.cursor <= AppliedOrAnnounced + (ReplayBurstLimit + Extra)
      BY <1>3, <3>1, TurnTypes
    <3>3. lastSent'.cursor <= AppliedOrAnnounced' + (ReplayBurstLimit + Extra)
      BY <1>2, <1>3, <2>2, <3>2, UnsentWithin
    <3>4. AppliedOrAnnounced' \in Nat
      BY <2>2, AppliedRises
    <3> QED BY <1>1, <1>3, <3>3, <3>4, TurnTypes
  <2>3. awaitingTurnAck' => turnAck'.cursor = lastSent'.cursor
    BY <1>1, <2>1, TurnIs
  <2> QED BY <2>2, <2>3 DEF TurnHolds, Extra
<1>5. CASE AckMatches(at) /\ AcknowledgeTurn(at)
  <2>0. ~UsesWindow
    BY FlowModes DEF TurnMode
  <2>1. awaitingTurnAck /\ at = turnAck /\ ~awaitingTurnAck'
    BY <1>5, <2>0 DEF AckMatches, AcknowledgeTurn
  <2>2. at.cursor = lastSent.cursor
    BY <2>1, TurnIs
  <2> HIDE DEF at
  <2>3. clientState = "open" => lastSent.cursor <= AppliedOrAnnounced + 0
    <3>1. ASSUME clientState = "open"
          PROVE  at.cursor <= AppliedOrAnnounced /\ AppliedOrAnnounced \in Nat
      BY <1>1, <3>1, AckedBefore, AppliedBound DEF at
    <3> QED BY <2>2, <3>1
  <2>4. ASSUME clientState' = "open"
        PROVE  lastSent'.cursor <= AppliedOrAnnounced' + ReplayBurstLimit + Extra'
    <3>1. lastSent'.cursor <= AppliedOrAnnounced' + 0
      BY <1>2, <2>3, <2>4, UnsentWithin
    <3>2. AppliedOrAnnounced' \in Nat
      BY <2>4, AppliedRises
    <3> QED BY <1>1, <1>3, <3>1, <3>2, TurnTypes
  <2> QED BY <2>1, <2>4 DEF TurnHolds, Extra
<1> QED BY <1>1, <1>4, <1>5

\* Without a window no turn begins before the one before it is applied.
LEMMA NextTurnHolds ==
    ASSUME TypeInv, Positions, StartsOnce, StartsOnce', AgentCursors, WireRises, AckedApplied,
           BytesKept, Ledger, BurstHeld, TurnHolds, [Next]_vars
    PROVE  TurnHolds'
<1>1. CASE ~(TurnMode /\ Flowing')
  BY <1>1 DEF TurnHolds, TurnMode
<1>2. CASE TurnMode /\ Flowing'
  <2>0. BufferOrder /\ FrameOrder /\ TurnPosition
    BY DEF Positions
  <2>1. Flowing /\ (WriterSend \/ WriterFinishTurn \/ LoopAck \/ WriterScan \/ FlowQuiet)
    BY <1>2, FlowSteps
  <2>2. CASE WriterSend
    BY <1>2, <2>0, <2>1, <2>2, SentTurn
  <2>3. CASE WriterFinishTurn
    BY <1>2, <2>1, <2>3, FinishTurnHolds
  <2>4. CASE LoopAck
    BY <1>2, <2>1, <2>4, AckTurnHolds
  <2>5. CASE ~WriterSend /\ (WriterScan \/ FlowQuiet)
    <3>1. UNCHANGED turnVars
      BY <2>5 DEF WriterScan, FlowQuiet, dataVars
    <3>2. awaitingTurnAck' = awaitingTurnAck /\ turnAck' = turnAck
      BY <3>1 DEF turnVars
    <3>3. lastSent' = lastSent
      BY <2>0, <2>5, OthersUnsent
    <3>4. Extra' \in Nat /\ Extra <= Extra' /\ Extra \in Nat
      <4>1. CASE WriterScan
        <5>1. Extra = 0
          BY <4>1 DEF WriterScan, Extra
        <5>2. Extra' = 0
          BY <4>1 DEF WriterScan, Extra, Origin
        <5> QED BY <5>1, <5>2
      <4>2. CASE FlowQuiet
        BY <4>2, TurnTypes DEF FlowQuiet, Extra
      <4> QED BY <2>5, <4>1, <4>2
    <3>5. ReplayBurstLimit \in Nat /\ ReplayBurstLimit + Extra \in Nat
      BY <3>4, TurnTypes
    <3>6. ASSUME clientState' = "open", ~awaitingTurnAck'
          PROVE  lastSent'.cursor <= AppliedOrAnnounced' + ReplayBurstLimit + Extra'
      <4>1. clientState = "open" =>
                /\ lastSent.cursor <= AppliedOrAnnounced + ReplayBurstLimit + Extra
                /\ AppliedOrAnnounced \in Nat
        BY <1>2, <2>1, <3>2, <3>6, TurnIs, AppliedBound
      <4>2. clientState = "open" =>
                lastSent.cursor <= AppliedOrAnnounced + (ReplayBurstLimit + Extra)
        BY <3>4, <3>5, <4>1, TurnTypes
      <4>3. lastSent'.cursor <= AppliedOrAnnounced' + (ReplayBurstLimit + Extra)
        BY <2>5, <3>5, <3>6, <4>2, UnsentWithin
      <4>4. AppliedOrAnnounced' \in Nat
        BY <3>6, AppliedRises
      <4>5. lastSent'.cursor \in Nat
        BY <3>3, TurnTypes
      <4> QED BY <3>4, <3>5, <4>3, <4>4, <4>5
    <3>7. awaitingTurnAck' => turnAck'.cursor = lastSent'.cursor
      BY <1>2, <2>1, <3>2, <3>3, TurnIs
    <3> QED BY <3>6, <3>7 DEF TurnHolds, Extra
  <2> QED BY <2>1, <2>2, <2>3, <2>4, <2>5
<1> QED BY <1>1, <1>2

-----------------------------------------------------------------------------
(* The invariant.                                                          *)

\* The two controls startPaneStream queues leave everything at the origin.
LEMMA InitCredit == Init => CreditInv
<1> SUFFICES ASSUME Init PROVE CreditInv
  OBVIOUS
<1>1. /\ lastSent.cursor = 0 /\ clientPos.cursor = 0 /\ applied = 0 /\ cursor = 0
      /\ wire = <<>> /\ upstream = <<>> /\ agentPhase = "attach" /\ replayTo = 0
      /\ agentCursor \in 0..MaxOutput /\ replayBurstActive = FALSE /\ readerPc = "none"
      /\ awaitingTurnAck = FALSE /\ turn.seq = 0 /\ writerPc = "parked"
  BY DEF Init, Origin
<1>2. /\ Len(buffer) = 2
      /\ \A i \in 1..2 : buffer[i].kind = "text" /\ buffer[i].burstStart = FALSE
                         /\ buffer[i].burstFinish = FALSE
  <2> DEFINE e == Text("text", Origin, Origin, FALSE, FALSE)
  <2>1. buffer = [i \in 1..2 |-> [e EXCEPT !.seq = i]]
    BY DEF Init
  <2>2. /\ \A i \in 1..2 : [e EXCEPT !.seq = i].kind = "text"
        /\ \A i \in 1..2 : [e EXCEPT !.seq = i].burstStart = FALSE
        /\ \A i \in 1..2 : [e EXCEPT !.seq = i].burstFinish = FALSE
    BY DEF Text
  <2> HIDE DEF e
  <2>3. Len(buffer) = 2
    BY <2>1
  <2> QED BY <2>1, <2>2, <2>3
<1>3. window.boundaries = <<>> /\ window.inFlight = 0
  BY DEF Init, EmptyWindow
<1>4. AppliedOrAnnounced = 0
  BY <1>1 DEF AppliedOrAnnounced
<1>5. StartsOnce
  <2>1. Announced = {} /\ Unannounced = {}
    BY <1>1, <1>2 DEF Announced, Unannounced
  <2> QED BY <1>1, <2>1 DEF StartsOnce
<1>6. AgentCursors
  BY <1>1, ConstantsType DEF AgentCursors
<1>7. \A i \in 1..Len(buffer) : EntryBytes(buffer[i])
  BY <1>2 DEF EntryBytes
<1>8. WireRises /\ AckedApplied
  <2>1. Acks = {}
    BY <1>1 DEF Acks
  <2> QED BY <1>1, <2>1 DEF WireRises, AckedApplied
<1>9. BurstBounds
  <2>1. BurstQuiet /\ \A i \in 1..Len(buffer) : BurstEntry(i)
    BY <1>1, <1>2 DEF BurstQuiet, BurstEntry
  <2> QED BY <1>1, <2>1 DEF BurstBounds
<1>10. BurstHeld
  BY <1>1 DEF BurstHeld
<1>11. WindowHeld
  BY <1>1, <1>3, <1>4 DEF WindowHeld
<1>12. TurnHolds
  BY <1>1, <1>4, ConstantsType DEF TurnHolds
<1> QED BY <1>5, <1>6, <1>7, <1>8, <1>9, <1>10, <1>11, <1>12 DEF CreditInv

\* Every step keeps what the refinement needs.
LEMMA NextCredit == StreamInv /\ CreditInv /\ [Next]_vars => CreditInv'
<1> SUFFICES ASSUME StreamInv, CreditInv, [Next]_vars PROVE CreditInv'
  OBVIOUS
<1>1. TypeInv /\ Positions /\ Ledger /\ FrameOrder /\ Unstarted
  BY DEF StreamInv, Positions, Ledger
<1>2. /\ StartsOnce /\ AgentCursors /\ BytesKept /\ WireRises /\ AckedApplied /\ BurstBounds
      /\ BurstHeld /\ WindowHeld /\ TurnHolds
  BY DEF CreditInv, BytesKept
<1>3. StartsOnce'
  BY <1>1, <1>2, NextStartsOnce
<1>4. AgentCursors'
  BY <1>1, <1>2, NextPhases
<1>5. BytesKept'
  BY <1>1, <1>2, NextEntryBytes
<1>6. WireRises'
  BY <1>1, <1>2, NextWireRises
<1>7. AckedApplied'
  BY <1>1, <1>2, NextAckedApplied
<1>8. BurstBounds'
  BY <1>1, <1>2, NextBurstBounds
<1>9. BurstHeld'
  BY <1>1, <1>2, <1>3, NextBurstHeld
<1>10. WindowHeld'
  BY <1>1, <1>2, <1>3, NextWindowHeld
<1>11. TurnHolds'
  BY <1>1, <1>2, <1>3, NextTurnHolds
<1> QED BY <1>3, <1>4, <1>5, <1>6, <1>7, <1>8, <1>9, <1>10, <1>11 DEF CreditInv, BytesKept

-----------------------------------------------------------------------------
(* Steps of the stream as steps of the credit stream.                      *)

\* What a step does to the cursors while the browser takes part.
Standing == lastSent'.cursor = lastSent.cursor /\ AppliedOrAnnounced' = AppliedOrAnnounced
Starting ==
    /\ lastSent.cursor = 0 /\ AppliedOrAnnounced = 0
    /\ lastSent'.cursor \in 0..MaxOutput /\ AppliedOrAnnounced' = lastSent'.cursor
Sending ==
    /\ AppliedOrAnnounced' = AppliedOrAnnounced
    /\ lastSent'.cursor \in 1..MaxOutput /\ lastSent.cursor < lastSent'.cursor
    /\ lastSent'.cursor - AppliedOrAnnounced <= Credit
Applying ==
    /\ lastSent'.cursor = lastSent.cursor
    /\ AppliedOrAnnounced' \in 1..MaxOutput /\ AppliedOrAnnounced < AppliedOrAnnounced'
    /\ AppliedOrAnnounced' <= lastSent.cursor

\* The steps by which the credit changes hands.
CreditStep ==
    \/ clientState' # "open"
    \/ clientState = "open" /\ clientState' = "open" /\ (Standing \/ Starting \/ Sending \/ Applying)

\* What the credit admits.
LEMMA CreditBounds ==
    /\ Credit \in Nat
    /\ UsesWindow => WindowBytes <= Credit /\ ReplayBurstLimit <= Credit
    /\ ~UsesWindow => /\ ReplayBurstLimit + RoundBudget <= Credit
                      /\ ReplayBurstLimit + PayloadMax <= Credit
BY ConstantsType DEF Credit, Larger

\* Output is sent within the credit.
LEMMA SentWithin ==
    ASSUME Acking, TypeInv, Positions, StartsOnce, WireRises, AckedApplied, BytesKept, Ledger,
           BurstBounds, BurstHeld, WindowHeld, TurnHolds, Flowing, WriterSend,
           Head(buffer).kind = "binary", clientState = "open"
    PROVE  Head(buffer).after.cursor - AppliedOrAnnounced <= Credit
<1> DEFINE h == Head(buffer)
           a == AppliedOrAnnounced
<1>1. /\ lastSent.cursor \in Nat /\ h.after.cursor \in Nat /\ h.cost \in Nat
      /\ h.after.cursor = lastSent.cursor + h.cost /\ h.cost <= PayloadMax
  BY SentCursors DEF Positions
<1>2. a \in Nat
  BY AppliedBound
<1>3. writerPc = "turn" /\ CanPop
  BY DEF WriterSend
<1>4. CASE replayBurstActive
  <2>1. h.after.cursor <= replayTo /\ replayTo <= a + ReplayBurstLimit
    BY <1>4, BurstSentWithin DEF Positions, BurstHeld
  <2>2. h.after.cursor <= a + ReplayBurstLimit
    BY <1>1, <1>2, <2>1, TurnTypes, CursorTypes
  <2>3. ReplayBurstLimit <= Credit
    BY CreditBounds, ConstantsType
  <2> HIDE DEF a, h
  <2>4. h.after.cursor - a <= Credit
    BY <1>1, <1>2, <2>2, <2>3, CreditBounds, ConstantsType
  <2> QED BY <2>4 DEF a, h
<1>5. CASE ~replayBurstActive /\ UsesWindow
  <2>1. window.inFlight + h.cost <= WindowBytes
    BY <1>3, <1>5 DEF CanPop, WindowAllows
  <2>2. lastSent.cursor <= a + window.inFlight
    BY <1>5, WindowIs
  <2>3. window.inFlight \in Int
    BY WindowTypes
  <2> HIDE DEF a, h
  <2>4. h.after.cursor - a <= Credit
    BY <1>1, <1>2, <1>5, <2>1, <2>2, <2>3, CreditBounds, ConstantsType
  <2> QED BY <2>4 DEF a, h
<1>6. CASE ~UsesWindow
  <2>1. TurnMode
    BY <1>6, FlowModes DEF TurnMode
  <2>2. ~awaitingTurnAck
    BY <1>3 DEF Ledger, TurnRoom
  <2>3. lastSent.cursor <= a + ReplayBurstLimit + Extra
    BY <2>1, <2>2, TurnIs
  <2>4. /\ written > 0 => written + h.cost <= RoundBudget
        /\ Extra = 0 \/ Extra = written
    BY <1>3 DEF CanPop, Extra
  <2>5. Extra + h.cost <= RoundBudget \/ Extra + h.cost <= PayloadMax
    <3>1. CASE Extra = 0
      BY <1>1, <3>1, ConstantsType
    <3>2. CASE Extra = written /\ written > 0
      BY <2>4, <3>2
    <3> QED BY <2>4, <3>1, <3>2, TurnTypes
  <2> HIDE DEF a, h
  <2>6. h.after.cursor <= a + ReplayBurstLimit + (Extra + h.cost)
    BY <1>1, <1>2, <2>3, TurnTypes
  <2>7. h.after.cursor - a <= Credit
    <3> DEFINE more == Extra + h.cost
    <3>1. more \in Nat
      BY <1>1, TurnTypes
    <3> HIDE DEF more
    <3>2. h.after.cursor <= a + ReplayBurstLimit + more
      BY <2>6 DEF more
    <3>3. more <= RoundBudget \/ more <= PayloadMax
      BY <2>5 DEF more
    <3> QED BY <1>1, <1>2, <1>6, <3>1, <3>2, <3>3, CreditBounds, ConstantsType
  <2> QED BY <2>7 DEF a, h
<1> QED BY <1>4, <1>5, <1>6

\* Every step moves the cursors as the credit stream may.
LEMMA StepCredit ==
    ASSUME Acking, StreamInv, CreditInv, StartsOnce', [Next]_vars
    PROVE  CreditStep
<1>1. TypeInv /\ Positions /\ Ledger /\ FrameOrder /\ TurnPosition /\ BufferOrder
  BY DEF StreamInv, Positions, Ledger
<1>2. /\ StartsOnce /\ AgentCursors /\ BytesKept /\ WireRises /\ AckedApplied /\ BurstBounds
      /\ BurstHeld /\ WindowHeld /\ TurnHolds
  BY DEF CreditInv, BytesKept
<1>3. CASE clientState' # "open"
  BY <1>3 DEF CreditStep
<1>4. CASE clientState' = "open"
  <2>1. clientState = "open" /\ (AppliedStays \/ AppliedStarts \/ AppliedMoves)
    BY <1>1, <1>2, <1>4, AppliedSteps
  <2>2. CASE ~WriterSend
    <3>1. lastSent' = lastSent
      BY <1>1, <2>2, OthersUnsent
    <3> QED BY <1>4, <2>1, <2>2, <3>1
            DEF AppliedStays, AppliedStarts, AppliedMoves, Standing, Applying, CreditStep
  <2>3. CASE WriterSend /\ writerPc' = "done"
    <3>1. UNCHANGED <<wire, applied>> /\ lastSent' = lastSent
      BY <2>3 DEF WriterSend, Write, WriterRest, clientVars
    <3>2. AppliedStays
      BY <3>1, AppliedKept
    <3> QED BY <1>4, <2>1, <3>1, <3>2 DEF AppliedStays, Standing, CreditStep
  <2>4. CASE WriterSend /\ writerPc' # "done" /\ overloaded
    <3>1. Head(buffer).kind = "overload" /\ Head(buffer).after = lastSent
      BY <1>1, <1>2, <2>4, SentCursors DEF BufferOrder
    <3>2. lastSent' = lastSent
      BY <2>4, <3>1 DEF WriterSend, Write
    <3>3. ~AppliedMoves
      <4>1. ASSUME NEW through \in 1..MaxOutput, ClientApply(through) PROVE FALSE
        BY <2>4, <4>1, SendFacts, <1>1 DEF ClientApply, ClientRest, dataVars, bufferVars
      <4> QED BY <4>1 DEF AppliedMoves
    <3> QED BY <1>4, <2>1, <3>1, <3>2, <3>3
            DEF AppliedStays, AppliedStarts, Standing, CreditStep
  <2>5. CASE WriterSend /\ writerPc' # "done" /\ ~overloaded
    <3>1. Flowing /\ Flowing'
      BY <2>5 DEF WriterSend, WriterRest, CanPop, Flowing, Accepting
    <3>2. /\ lastSent' = Head(buffer).after
          /\ IF Head(buffer).kind = "replay-start" THEN AppliedStarts ELSE AppliedStays
      BY <1>1, <1>2, <2>1, <2>5, <3>1, SentFlowing
    <3>3. CASE Head(buffer).kind = "replay-start"
      <4>1. Head(buffer).after.cursor \in 0..MaxOutput
        BY <1>1, <1>2, <2>5, <3>3, SentCursors, ConstantsType
      <4> QED BY <1>4, <2>1, <3>2, <3>3, <4>1 DEF AppliedStarts, Starting, CreditStep
    <3>4. CASE Head(buffer).kind = "binary"
      <4>1. Head(buffer).after.cursor - AppliedOrAnnounced <= Credit
        BY <1>1, <1>2, <2>1, <2>5, <3>1, <3>4, SentWithin
      <4>2. /\ Head(buffer).after.cursor \in 1..MaxOutput
            /\ lastSent.cursor < Head(buffer).after.cursor
        BY <1>1, <1>2, <2>5, <3>4, SentCursors, ConstantsType
      <4>3. AppliedOrAnnounced' = AppliedOrAnnounced
        BY <3>2, <3>4 DEF AppliedStays
      <4>4. Sending
        BY <3>2, <4>1, <4>2, <4>3 DEF Sending
      <4> QED BY <1>4, <2>1, <4>4 DEF CreditStep
    <3>5. CASE Head(buffer).kind \notin {"binary", "replay-start"}
      <4>1. Head(buffer).after = lastSent
        BY <1>1, <1>2, <2>5, <3>5, SentCursors
      <4> QED BY <1>4, <2>1, <3>2, <3>5, <4>1 DEF AppliedStays, Standing, CreditStep
    <3> QED BY <3>3, <3>4, <3>5
  <2> QED BY <2>2, <2>3, <2>4, <2>5
<1> QED BY <1>3, <1>4

\* Those steps are steps of the credit stream.
LEMMA StepMaps == ASSUME CreditStep PROVE [Stream!Next]_(Stream!creditVars)
<1>1. CASE clientState' # "open"
  BY <1>1 DEF Stream!Next, Stream!End
<1>2. CASE clientState = "open" /\ clientState' = "open" /\ Standing
  BY <1>2 DEF Standing, Stream!creditVars
<1>3. CASE clientState = "open" /\ clientState' = "open" /\ Starting
  BY <1>3 DEF Starting, Stream!Next, Stream!Start
<1>4. CASE clientState = "open" /\ clientState' = "open" /\ Sending
  BY <1>4 DEF Sending, Stream!Next, Stream!Send
<1>5. CASE clientState = "open" /\ clientState' = "open" /\ Applying
  BY <1>5 DEF Applying, Stream!Next, Stream!Apply
<1> QED BY <1>1, <1>2, <1>3, <1>4, <1>5 DEF CreditStep

\* Initially nothing has been sent or applied.
LEMMA InitMaps == Init => Stream!Init
<1> SUFFICES ASSUME Init PROVE Stream!Init
  OBVIOUS
<1>1. lastSent.cursor = 0 /\ applied = 0 /\ wire = <<>> /\ clientState = "open"
  BY DEF Init, Origin
<1>2. AppliedOrAnnounced = 0
  BY <1>1 DEF AppliedOrAnnounced
<1> QED BY <1>1, <1>2 DEF Stream!Init

\* In both modes in which the browser acknowledges, the stream keeps the
\* promise of CreditStream: output is sent and applied in order, from the
\* cursor the replay announces, and however turns, cumulative and late
\* acknowledgements, bursts and overload interleave, what is sent and not yet
\* applied stays within Credit (terminal_queue_flow.go, terminal_queue_replay.go).
THEOREM CreditImplemented == Acking => (Spec => ImplementsCreditStream)
<1>1. ASSUME Acking PROVE Spec => ImplementsCreditStream
  <2>1. Init => Stream!Init
    BY InitMaps
  <2>2. StreamInv /\ CreditInv /\ [Next]_vars => [Stream!Next]_(Stream!creditVars)
    <3> SUFFICES ASSUME StreamInv, CreditInv, [Next]_vars
                 PROVE  [Stream!Next]_(Stream!creditVars)
      OBVIOUS
    <3>1. StartsOnce'
      BY NextCredit DEF CreditInv
    <3>2. CreditStep
      BY <1>1, <3>1, StepCredit
    <3> QED BY <3>2, StepMaps
  <2>3. Spec => []CreditInv
    BY InitCredit, NextCredit, StreamHolds, PTL DEF Spec
  <2> QED BY <2>1, <2>2, <2>3, StreamHolds, PTL DEF Spec, ImplementsCreditStream, Stream!Spec
<1> QED BY <1>1
=============================================================================
