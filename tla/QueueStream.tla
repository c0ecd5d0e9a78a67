---------------------------- MODULE QueueStream ----------------------------
(***************************************************************************)
(* One pane stream of the Unified terminal broker (core/queue_stream.go,   *)
(* terminal_queue_flow.go, terminal_queue_replay.go and the writer of      *)
(* terminal_queue.go), with the four goroutines that share it:             *)
(*                                                                         *)
(*   reader   terminalQueuePaneStream.run: agent frames into the buffer    *)
(*   writer   terminalQueueBroker.RunWriter: buffer onto the websocket     *)
(*   loop     the websocket read loop: acknowledgements, pings, membership *)
(*   stopper  the goroutine that overload starts to stop the stream        *)
(*                                                                         *)
(* and the two parties it stands between: the attach agent that produces   *)
(* the frames and the browser that applies and acknowledges them.          *)
(*                                                                         *)
(* Payload bytes are abstracted to cursors, the stream offsets every frame *)
(* carries.  An entry of the buffer records the position before and after  *)
(* it; a text entry does not move the position, except history-replay-     *)
(* start, which carries the cursor the agent starts from.                  *)
(*                                                                         *)
(* A section under the stream mutex is one step.  popThrough and the write *)
(* of the entry are one step, as are finishTurn and the write of its       *)
(* control: no step of another goroutine between the two reads or changes  *)
(* what the write uses, and only the writer writes entries.                *)
(*                                                                         *)
(* Some decisions of the code have a definition of their own and, before   *)
(* it, the mistaken form a regression could give it (Fits and FitsBefore); *)
(* the mistaken forms take no part in Spec.                                *)
(***************************************************************************)
EXTENDS Integers, Sequences

CONSTANTS
    FlowControl,       \* "", "turn-ack-v1" or "window-ack-v1"
    BufferLimit,       \* terminalQueuePaneBufferLimit
    HighWater,         \* terminalQueuePaneBufferHighWater
    RoundBudget,       \* terminalQueueRoundByteBudget
    PayloadMax,        \* terminalQueueBinaryPayloadMaxBytes
    WindowBytes,       \* terminalQueueWindowBytes
    WindowTurns,       \* terminalQueueWindowTurns
    ReplayBurstLimit,  \* the smaller of the subscription's and the server's limit
    ClientTurns,       \* unconsumed boundaries the browser accepts
    FrameBytes,        \* longest binary frame the agent writes
    TextCost,          \* length of a text payload
    MaxOutput,         \* bound: last cursor the agent reaches
    MaxPongs,          \* bound: pings the browser sends
    MaxTexts,          \* bound: plain controls the agent writes
    Disruptions        \* bound: what may go wrong, of "crash" (of the agent),
                       \* "exit", "leave" (of the browser), "close" (of the
                       \* connection) and "write" (to the websocket fails)

ASSUME ConstantsAssumption ==
    /\ FlowControl \in {"", "turn-ack-v1", "window-ack-v1"}
    /\ {BufferLimit, HighWater, RoundBudget, PayloadMax, WindowBytes,
        WindowTurns, ClientTurns, FrameBytes, TextCost} \subseteq Nat \ {0}
    /\ 2 * TextCost <= BufferLimit
    /\ {ReplayBurstLimit, MaxOutput, MaxPongs, MaxTexts} \subseteq Nat
    /\ Disruptions \subseteq {"crash", "exit", "leave", "close", "write"}

VARIABLES
    \* the agent, as its frames are read
    agentPhase, agentCursor, replayTo, agentTexts,
    \* the reader goroutine
    readerPc, chunk,
    \* terminalQueuePaneStream
    registered, active, overloaded, terminalControl, hasCursor, cursor,
    binarySequence, nextSequence, buffer, bufferBytes, replayBurstActive,
    pendingTurn, awaitingTurnAck, turnAck, window, stopPending, stopped,
    \* the broker's wake channel and the goroutines about to signal it
    wake, signals, cancelled,
    \* the writer goroutine
    writerPc, target, written, turn, wrote, lastSent,
    \* the websocket loop
    loopPc, pongs,
    \* the websocket, both directions, and the browser
    wire, upstream, clientState, clientPos, applied, clientBoundaries

agentVars  == <<agentPhase, agentCursor, replayTo, agentTexts>>
readerVars == <<readerPc, chunk>>
cursorVars == <<terminalControl, hasCursor, cursor, binarySequence>>
bufferVars == <<overloaded, nextSequence, buffer, bufferBytes>>
turnVars   == <<replayBurstActive, pendingTurn, awaitingTurnAck, turnAck, window>>
lifeVars   == <<registered, active, stopPending, stopped, cancelled>>
wakeVars   == <<wake, signals>>
writerVars == <<writerPc, target, written, turn, wrote, lastSent>>
loopVars   == <<loopPc, pongs>>
clientVars == <<clientState, clientPos, applied, clientBoundaries>>
dataVars   == <<bufferVars, turnVars>>
socketVars == <<wire, upstream, clientVars>>

vars == <<agentVars, readerVars, cursorVars, dataVars, lifeVars, wakeVars,
          writerVars, loopVars, socketVars>>

-----------------------------------------------------------------------------
(* Data.                                                                   *)

\* A position in the stream: the cursor reached and the binary frames so far.
Position == [cursor : Nat, seq : Nat]
Origin   == [cursor |-> 0, seq |-> 0]

TextKinds == {"text", "replay-start", "replay-complete", "terminal", "error",
              "overload"}

Entry == [kind : TextKinds \cup {"binary"}, before : Position, after : Position,
          seq : Nat, cost : Nat, burstStart : BOOLEAN, burstFinish : BOOLEAN]

Message == [type : TextKinds \cup {"binary", "turn-complete", "pane-error"},
            before : Position, after : Position]

Boundary == [at : Position, bytes : Int]

Window == [inFlight : Int, currentTurnBytes : Int, boundaries : Seq(Boundary),
           ack : Position]

EmptyWindow == [inFlight |-> 0, currentTurnBytes |-> 0, boundaries |-> <<>>,
                ack |-> Origin]

\* Where the next entry will stand: a frame is cut into chunks one by one.
Enqueued == [cursor |-> IF readerPc = "chunk" THEN chunk.from ELSE cursor,
             seq    |-> binarySequence]

Text(kind, before, after, burstStart, burstFinish) ==
    [kind |-> kind, before |-> before, after |-> after, seq |-> 0,
     cost |-> TextCost, burstStart |-> burstStart, burstFinish |-> burstFinish]

Plain(kind) == Text(kind, Enqueued, Enqueued, FALSE, kind # "text")

UsesWindow == FlowControl = "window-ack-v1"

\* terminalQueueReplayBurstBytes(...) > 0
BurstAdmitted(from, to, snapshot) ==
    /\ FlowControl # ""
    /\ snapshot
    /\ from < to
    /\ to - from <= ReplayBurstLimit

WindowAllowsBefore(entry) ==
    \/ ~UsesWindow
    \/ replayBurstActive
    \/ entry.kind # "binary"
    \/ Len(window.boundaries) < WindowTurns /\ window.inFlight <= WindowBytes

WindowAllows(entry) ==
    \/ ~UsesWindow
    \/ replayBurstActive
    \/ entry.kind # "binary"
    \/ /\ Len(window.boundaries) < WindowTurns
       /\ window.inFlight + entry.cost <= WindowBytes

TargetSequence ==
    IF \/ ~active
       \/ awaitingTurnAck
       \/ buffer = <<>>
       \/ ~WindowAllows(Head(buffer))
    THEN 0
    ELSE buffer[Len(buffer)].seq

\* The first entry may leave the buffer in the turn under way.
CanPop ==
    /\ active
    /\ buffer # <<>>
    /\ Head(buffer).seq <= target
    /\ WindowAllows(Head(buffer))
    /\ written > 0 => written + Head(buffer).cost <= RoundBudget

\* The bytes of the first k boundaries.
BytesThrough(boundaries, k) ==
    LET sum[i \in 0..k] ==
            IF i = 0 THEN 0 ELSE sum[i - 1] + boundaries[i].bytes
    IN  sum[k]

-----------------------------------------------------------------------------
(* Initially startPaneStream has opened the agent and queued its two       *)
(* controls; the stream is not registered yet.                             *)

Init ==
    /\ agentPhase = "attach" /\ agentCursor \in 0..MaxOutput /\ replayTo = 0
    /\ agentTexts = 0
    /\ readerPc = "none" /\ chunk = [from |-> 0, to |-> 0]
    /\ registered = FALSE /\ active = TRUE /\ overloaded = FALSE
    /\ terminalControl = FALSE /\ hasCursor = FALSE /\ cursor = 0
    /\ binarySequence = 0 /\ nextSequence = 2
    /\ buffer = [i \in 1..2 |->
                    [Text("text", Origin, Origin, FALSE, FALSE) EXCEPT !.seq = i]]
    /\ bufferBytes = 2 * TextCost
    /\ replayBurstActive = FALSE /\ pendingTurn = Origin
    /\ awaitingTurnAck = FALSE /\ turnAck = Origin /\ window = EmptyWindow
    /\ stopPending = FALSE /\ stopped = FALSE /\ cancelled = FALSE
    /\ wake \in BOOLEAN /\ signals = {}
    /\ writerPc = "parked" /\ target = 0 /\ written = 0 /\ turn = Origin
    /\ wrote = FALSE /\ lastSent = Origin
    /\ loopPc = "register" /\ pongs = 0
    /\ wire = <<>> /\ upstream = <<>>
    /\ clientState = "open" /\ clientPos = Origin /\ applied = 0
    /\ clientBoundaries = <<>>

-----------------------------------------------------------------------------
(* Queueing, done by the reader and by the loop (who).                     *)

Drop == UNCHANGED <<dataVars, stopPending, signals>>

Accepting == active /\ ~overloaded

FitsBefore(cost) == bufferBytes <= BufferLimit
Fits(cost) == bufferBytes + cost <= BufferLimit

OverloadNotice ==
    [Text("overload", lastSent, lastSent, FALSE, FALSE) EXCEPT !.seq = nextSequence + 1]

\* What overload leaves of the byte count and of the awaited acknowledgement.
CountKept == bufferBytes
CountAfterOverload == TextCost
AwaitingKept == awaitingTurnAck
AwaitingAfterOverload == FALSE

\* terminalQueuePaneStream.overload: the backlog gives way to one error.
Overload(who) ==
    IF ~Accepting
    THEN Drop
    ELSE /\ overloaded' = TRUE
         /\ replayBurstActive' = FALSE
         /\ pendingTurn' = Origin
         /\ awaitingTurnAck' = AwaitingAfterOverload
         /\ window' = EmptyWindow
         /\ nextSequence' = nextSequence + 1
         /\ buffer' = <<OverloadNotice>>
         /\ bufferBytes' = CountAfterOverload
         /\ signals' = signals \cup {who}
         /\ stopPending' = TRUE
         /\ UNCHANGED turnAck

\* terminalQueuePaneStream.enqueue
Enqueue(entry, who) ==
    \/ ~Accepting /\ Drop
    \/ Accepting /\ ~Fits(entry.cost) /\ Overload(who)
    \/ /\ Accepting /\ Fits(entry.cost)
       /\ nextSequence' = nextSequence + 1
       /\ buffer' = Append(buffer, [entry EXCEPT !.seq = nextSequence + 1])
       /\ bufferBytes' = bufferBytes + entry.cost
       /\ signals' = signals \cup {who}
       /\ UNCHANGED <<overloaded, turnVars, stopPending>>

\* signalWriter, after the mutex is released: one token, never a second.
Signal(who) ==
    /\ who \in signals
    /\ signals' = signals \ {who}
    /\ wake' = TRUE
    /\ UNCHANGED <<agentVars, readerVars, cursorVars, dataVars, lifeVars,
                   writerVars, loopVars, socketVars>>

-----------------------------------------------------------------------------
(* The reader goroutine.  It reads a frame only after the buffer was below *)
(* its high water mark; each read takes the agent one frame further.       *)

ReaderFree == "reader" \notin signals

\* waitForBufferCapacity
ReadyAtMark == active /\ ~overloaded /\ bufferBytes <= HighWater
Ready == active /\ ~overloaded /\ bufferBytes < HighWater

GiveUpNever == FALSE
GiveUp == stopped \/ cancelled

ReaderPoll ==
    /\ readerPc = "poll" /\ ReaderFree
    /\ \/ Ready /\ readerPc' = "read"
       \/ ~Ready /\ GiveUp /\ readerPc' = "return"
    /\ UNCHANGED <<chunk, agentVars, cursorVars, dataVars, lifeVars, wakeVars,
                   writerVars, loopVars, socketVars>>

\* What every handled frame leaves alone.
ReaderRest ==
    UNCHANGED <<registered, active, stopped, cancelled, wake, writerVars,
                loopVars, socketVars>>

\* A control without a marker: agent-attach-ready, resize-applied, ...
ReadPlain ==
    /\ readerPc = "read" /\ ReaderFree
    /\ agentPhase \in {"attach", "live"} /\ agentTexts < MaxTexts
    /\ agentTexts' = agentTexts + 1
    /\ readerPc' = "poll"
    /\ Enqueue(Plain("text"), "reader")
    /\ UNCHANGED <<agentPhase, agentCursor, replayTo, chunk, cursorVars>>
    /\ ReaderRest

ReadReplayStart(to, snapshot) ==
    /\ readerPc = "read" /\ ReaderFree
    /\ agentPhase = "attach"
    /\ to >= agentCursor
    /\ agentPhase' = "replay" /\ replayTo' = to
    /\ cursor' = agentCursor /\ hasCursor' = TRUE
    /\ readerPc' = "poll"
    /\ Enqueue(Text("replay-start", Enqueued,
                    [cursor |-> agentCursor, seq |-> binarySequence],
                    BurstAdmitted(agentCursor, to, snapshot), FALSE), "reader")
    /\ UNCHANGED <<agentCursor, agentTexts, chunk, terminalControl,
                   binarySequence>>
    /\ ReaderRest

ReadReplayComplete ==
    /\ readerPc = "read" /\ ReaderFree
    /\ agentPhase = "replay" /\ agentCursor = replayTo
    /\ agentPhase' = "live"
    /\ readerPc' = "poll"
    /\ IF hasCursor /\ cursor = agentCursor
       THEN Enqueue(Plain("replay-complete"), "reader")
       ELSE Overload("reader")
    /\ UNCHANGED <<agentCursor, replayTo, agentTexts, chunk, cursorVars>>
    /\ ReaderRest

\* enqueueBinary up to its first chunk.
ReadBinary(length) ==
    /\ readerPc = "read" /\ ReaderFree
    /\ \/ agentPhase = "replay" /\ agentCursor + length <= replayTo
       \/ agentPhase = "live" /\ agentCursor + length <= MaxOutput
    /\ agentCursor' = agentCursor + length
    /\ IF ~hasCursor \/ ~Fits(length)
       THEN /\ Overload("reader")
            /\ readerPc' = "poll"
            /\ UNCHANGED <<cursor, chunk>>
       ELSE /\ cursor' = cursor + length
            /\ chunk' = [from |-> cursor, to |-> cursor + length]
            /\ readerPc' = "chunk"
            /\ UNCHANGED <<dataVars, stopPending, signals>>
    /\ UNCHANGED <<agentPhase, replayTo, agentTexts, terminalControl,
                   hasCursor, binarySequence>>
    /\ ReaderRest

ChunkLength ==
    IF chunk.to - chunk.from < PayloadMax THEN chunk.to - chunk.from ELSE PayloadMax

\* One turn of the chunk loop: the pane mutex is released between chunks.
EnqueueChunk ==
    /\ readerPc = "chunk" /\ ReaderFree
    /\ binarySequence' = binarySequence + 1
    /\ chunk' = [chunk EXCEPT !.from = chunk.from + ChunkLength]
    /\ readerPc' = IF chunk'.from = chunk.to THEN "poll" ELSE "chunk"
    /\ Enqueue([kind |-> "binary", before |-> Enqueued,
                after |-> [cursor |-> chunk.from + ChunkLength,
                           seq |-> binarySequence + 1],
                seq |-> 0, cost |-> ChunkLength, burstStart |-> FALSE,
                burstFinish |-> FALSE], "reader")
    /\ UNCHANGED <<agentVars, terminalControl, hasCursor, cursor>>
    /\ ReaderRest

\* process-exit, workspace-refresh-required or terminal-checkpoint-error
ReadTerminalControl ==
    /\ readerPc = "read" /\ ReaderFree
    /\ "exit" \in Disruptions /\ agentPhase \in {"attach", "live"}
    /\ agentPhase' = "ended"
    /\ terminalControl' = TRUE
    /\ readerPc' = "poll"
    /\ Enqueue(Plain("terminal"), "reader")
    /\ UNCHANGED <<agentCursor, replayTo, agentTexts, chunk, hasCursor, cursor,
                   binarySequence>>
    /\ ReaderRest

EndIsAlwaysKnown == TRUE
EndIsKnown == terminalControl

\* ReadAgentFrame fails: the agent closed, crashed or was killed.
ReadEnd ==
    /\ readerPc = "read" /\ ReaderFree
    /\ "crash" \in Disruptions \/ stopped \/ cancelled \/ agentPhase = "ended"
    /\ readerPc' = "return"
    /\ \/ /\ stopped \/ cancelled
          /\ Drop /\ UNCHANGED terminalControl
       \/ /\ ~stopped /\ agentPhase = "attach"
          /\ terminalControl' = TRUE
          /\ Enqueue(Plain("terminal"), "reader")
       \/ /\ ~stopped
          /\ IF EndIsKnown THEN Drop ELSE Enqueue(Plain("error"), "reader")
          /\ UNCHANGED terminalControl
    /\ UNCHANGED <<agentVars, chunk, hasCursor, cursor, binarySequence>>
    /\ ReaderRest

\* The deferred stop of run.
ReaderReturn ==
    /\ readerPc = "return" /\ ReaderFree
    /\ readerPc' = "done"
    /\ stopped' = TRUE
    /\ UNCHANGED <<chunk, agentVars, cursorVars, dataVars, registered, active,
                   stopPending, cancelled, wakeVars, writerVars, loopVars,
                   socketVars>>

\* The goroutine overload starts.
StopRuns ==
    /\ stopPending
    /\ stopPending' = FALSE
    /\ stopped' = TRUE
    /\ UNCHANGED <<agentVars, readerVars, cursorVars, dataVars, registered,
                   active, cancelled, wakeVars, writerVars, loopVars,
                   socketVars>>

-----------------------------------------------------------------------------
(* The writer goroutine.                                                   *)

WriterRest ==
    UNCHANGED <<agentVars, readerVars, cursorVars, registered, active,
                stopPending, stopped, signals, loopVars, upstream, clientVars>>

WriterWake ==
    /\ writerPc = "parked" /\ wake
    /\ wake' = FALSE
    /\ writerPc' = "scan" /\ wrote' = FALSE
    /\ UNCHANGED <<target, written, turn, lastSent, dataVars, cancelled, wire>>
    /\ WriterRest

WriterStops ==
    /\ writerPc = "parked" /\ cancelled
    /\ writerPc' = "done"
    /\ UNCHANGED <<target, written, turn, wrote, lastSent, dataVars, cancelled,
                   wake, wire>>
    /\ WriterRest

\* streamSnapshot and targetSequence: what is sent in this turn is fixed here.
WriterScan ==
    /\ writerPc = "scan"
    /\ IF registered /\ TargetSequence # 0
       THEN /\ writerPc' = "turn"
            /\ target' = TargetSequence /\ written' = 0 /\ turn' = Origin
       ELSE /\ writerPc' = "roundEnd"
            /\ UNCHANGED <<target, written, turn>>
    /\ UNCHANGED <<wrote, lastSent, dataVars, cancelled, wake, wire>>
    /\ WriterRest

\* writeMessage succeeds, or fails and ends the writer and the broker.
Write(type, before, after, next) ==
    \/ /\ wire' = Append(wire, [type |-> type, before |-> before, after |-> after])
       /\ lastSent' = after
       /\ writerPc' = next
       /\ UNCHANGED cancelled
    \/ /\ "write" \in Disruptions
       /\ writerPc' = "done"
       /\ cancelled' = TRUE
       /\ UNCHANGED <<wire, lastSent>>

\* popThrough and writeOutbound.
WriterSend ==
    /\ writerPc = "turn" /\ written < RoundBudget
    /\ CanPop
    /\ LET entry  == Head(buffer)
           binary == entry.kind = "binary"
       IN  /\ buffer' = Tail(buffer)
           /\ bufferBytes' = IF entry.cost > bufferBytes THEN 0
                             ELSE bufferBytes - entry.cost
           /\ replayBurstActive' = /\ replayBurstActive \/ entry.burstStart
                                   /\ ~entry.burstFinish
           /\ window' = IF UsesWindow /\ binary
                        THEN [window EXCEPT
                                !.inFlight = window.inFlight + entry.cost,
                                !.currentTurnBytes =
                                    window.currentTurnBytes + entry.cost]
                        ELSE window
           /\ turn' = IF binary THEN entry.after ELSE turn
           /\ written' = written + entry.cost
           /\ Write(entry.kind, entry.before, entry.after, "turn")
    /\ wrote' = TRUE
    /\ UNCHANGED <<overloaded, nextSequence, pendingTurn, awaitingTurnAck,
                   turnAck, target, wake>>
    /\ WriterRest

\* A turn whose completion waits: an admitted burst is not over.
TurnHeldNever(done) == done.seq = 0
TurnHeldInBurst(done) == replayBurstActive
TurnHeld(done) == replayBurstActive \/ done.seq = 0

\* finishTurn and queue-turn-complete.  A turn with nothing left to send, a
\* full byte budget or, after at least one entry, an elapsed time budget.
WriterFinishTurn ==
    /\ writerPc = "turn"
    /\ ~CanPop \/ written > 0
    /\ LET done == IF turn.seq # 0 THEN turn ELSE pendingTurn
       IN  \/ /\ ~active \/ overloaded
              /\ writerPc' = "roundEnd"
              /\ UNCHANGED <<turnVars, wire, cancelled, lastSent>>
           \/ /\ active /\ ~overloaded
              /\ TurnHeld(done)
              /\ pendingTurn' = done
              /\ writerPc' = "roundEnd"
              /\ UNCHANGED <<replayBurstActive, awaitingTurnAck, turnAck,
                             window, wire, cancelled, lastSent>>
           \/ /\ active /\ ~overloaded
              /\ ~TurnHeld(done)
              /\ pendingTurn' = Origin
              /\ IF FlowControl = "turn-ack-v1"
                 THEN awaitingTurnAck' = TRUE /\ turnAck' = done
                 ELSE UNCHANGED <<awaitingTurnAck, turnAck>>
              /\ window' = IF UsesWindow
                           THEN [window EXCEPT
                                   !.boundaries = Append(window.boundaries,
                                       [at |-> done,
                                        bytes |-> window.currentTurnBytes]),
                                   !.currentTurnBytes = 0]
                           ELSE window
              /\ Write("turn-complete", done, done, "roundEnd")
              /\ UNCHANGED replayBurstActive
    /\ UNCHANGED <<target, written, turn, wrote, bufferVars, wake>>
    /\ WriterRest

NextRoundNever == FALSE
NextRound == wrote

\* The round wrote something: look again; otherwise wait for the next token.
WriterRoundEnd ==
    /\ writerPc = "roundEnd"
    /\ writerPc' = IF NextRound THEN "scan" ELSE "parked"
    /\ wrote' = FALSE
    /\ UNCHANGED <<target, written, turn, lastSent, dataVars, cancelled, wake,
                   wire>>
    /\ WriterRest

-----------------------------------------------------------------------------
(* The websocket loop, one message at a time.                              *)

LoopFree == "loop" \notin signals

LoopRest == UNCHANGED <<agentVars, chunk, cursorVars, writerVars, wake>>

SignalsLost == signals
SignalsOfLoop == signals \cup {"loop"}

\* ReplaceSubscriptions registers the stream, signals and starts its reader.
LoopRegister ==
    /\ loopPc = "register"
    /\ registered' = TRUE
    /\ signals' = SignalsOfLoop
    /\ loopPc' = "run"
    /\ UNCHANGED <<readerPc, dataVars, active, stopPending, stopped, cancelled,
                   pongs, socketVars>>
    /\ LoopRest

LoopRun ==
    /\ loopPc = "run" /\ LoopFree
    /\ readerPc' = "poll"
    /\ loopPc' = "idle"
    /\ UNCHANGED <<dataVars, lifeVars, signals, pongs, socketVars>>
    /\ LoopRest

\* acknowledgeWindow; the caller signals the writer when there is no error.
AckMatchesFirst(at) ==
    IF UsesWindow
    THEN \/ at = window.ack
         \/ window.boundaries # <<>> /\ Head(window.boundaries).at = at
    ELSE FlowControl = "turn-ack-v1" /\ awaitingTurnAck /\ at = turnAck

AckMatches(at) ==
    IF UsesWindow
    THEN \/ at = window.ack
         \/ \E i \in 1..Len(window.boundaries) : window.boundaries[i].at = at
    ELSE FlowControl = "turn-ack-v1" /\ awaitingTurnAck /\ at = turnAck

FirstMatch(at) ==
    CHOOSE i \in 1..Len(window.boundaries) :
        /\ window.boundaries[i].at = at
        /\ \A j \in 1..(i - 1) : window.boundaries[j].at # at

\* The bytes an acknowledgement of the i-th boundary releases.
ReleasedAlone(i) == window.boundaries[i].bytes
Released(i) == BytesThrough(window.boundaries, i)

AcknowledgeTurn(at) ==
    IF UsesWindow
    THEN /\ window' =
              IF at = window.ack THEN window
              ELSE LET i == FirstMatch(at)
                   IN [window EXCEPT
                         !.inFlight = @ - Released(i),
                         !.boundaries = SubSeq(@, i + 1, Len(@)),
                         !.ack = at]
         /\ UNCHANGED <<replayBurstActive, pendingTurn, awaitingTurnAck,
                        turnAck>>
    ELSE /\ awaitingTurnAck' = FALSE
         /\ turnAck' = Origin
         /\ UNCHANGED <<replayBurstActive, pendingTurn, window>>

\* HandlePaneControl("queue-turn-ack"), WritePaneError when it is refused.
LoopAck ==
    /\ loopPc = "idle" /\ LoopFree
    /\ upstream # <<>> /\ Head(upstream).type = "ack"
    /\ upstream' = Tail(upstream)
    /\ LET at == Head(upstream).at
       IN IF registered /\ AckMatches(at)
          THEN /\ AcknowledgeTurn(at)
               /\ signals' = SignalsOfLoop
               /\ UNCHANGED wire
          ELSE /\ wire' = Append(wire, [type |-> "pane-error",
                                        before |-> lastSent, after |-> lastSent])
               /\ UNCHANGED <<turnVars, signals>>
    /\ UNCHANGED <<readerPc, bufferVars, lifeVars, loopVars, clientVars>>
    /\ LoopRest

\* HandlePaneControl("ping"): the reply is queued behind the output.  A ping may
\* have been sent between any two other messages, so it is not kept in upstream.
LoopPing ==
    /\ loopPc = "idle" /\ LoopFree /\ registered
    /\ pongs < MaxPongs
    /\ pongs' = pongs + 1
    /\ Enqueue(Plain("text"), "loop")
    /\ UNCHANGED <<readerPc, registered, active, stopped, cancelled, loopPc,
                   socketVars>>
    /\ LoopRest

\* ReplaceSubscriptions without this stream: out of the map first, ...
LoopRemove ==
    /\ loopPc = "idle" /\ LoopFree
    /\ upstream # <<>> /\ Head(upstream).type = "replace"
    /\ upstream' = Tail(upstream)
    /\ registered' = FALSE
    /\ loopPc' = "deactivate"
    /\ UNCHANGED <<readerPc, dataVars, active, stopPending, stopped, cancelled,
                   signals, pongs, wire, clientVars>>
    /\ LoopRest

\* The connection is lost: Close cancels the broker and empties its map, ...
LoopClose ==
    /\ loopPc = "idle" /\ LoopFree
    /\ "close" \in Disruptions /\ clientState # "left"
    /\ cancelled' = TRUE
    /\ registered' = FALSE
    /\ upstream' = <<>>
    /\ clientState' = "left"
    /\ loopPc' = "deactivate"
    /\ UNCHANGED <<readerPc, dataVars, active, stopPending, stopped, signals,
                   pongs, wire, clientPos, applied, clientBoundaries>>
    /\ LoopRest

\* ... then deactivate, ...
LoopDeactivate ==
    /\ loopPc = "deactivate"
    /\ active' = FALSE
    /\ buffer' = <<>> /\ bufferBytes' = 0
    /\ loopPc' = "stop"
    /\ UNCHANGED <<readerPc, overloaded, nextSequence, turnVars, registered,
                   stopPending, stopped, cancelled, signals, pongs,
                   socketVars>>
    /\ LoopRest

\* ... and stop.
LoopStop ==
    /\ loopPc = "stop"
    /\ stopped' = TRUE
    /\ loopPc' = "idle"
    /\ UNCHANGED <<readerPc, dataVars, registered, active, stopPending,
                   cancelled, signals, pongs, socketVars>>
    /\ LoopRest

-----------------------------------------------------------------------------
(* The browser (output_controller.js): frames are checked as they arrive,  *)
(* applied later, and acknowledged once applied.                           *)

ClientRest ==
    UNCHANGED <<agentVars, readerVars, cursorVars, dataVars, lifeVars,
                wakeVars, writerVars, loopVars>>

\* What the browser accepts; anything else is an invalid stream.
Accepted(m) ==
    CASE m.type = "binary" -> m.before = clientPos
      [] m.type = "replay-complete" -> m.after.cursor = clientPos.cursor
      [] m.type = "turn-complete" -> /\ m.after = clientPos
                                     /\ Len(clientBoundaries) < ClientTurns
      [] OTHER -> TRUE

ClientReceive ==
    /\ wire # <<>>
    /\ wire' = Tail(wire)
    /\ LET m == Head(wire)
       IN  \/ /\ clientState # "open"
              /\ UNCHANGED <<clientState, applied, clientBoundaries>>
           \/ /\ clientState = "open" /\ ~Accepted(m)
              /\ clientState' = "invalid"
              /\ UNCHANGED <<applied, clientBoundaries>>
           \/ /\ clientState = "open" /\ Accepted(m)
              /\ clientState' = IF m.type \in {"error", "overload", "pane-error"}
                                THEN "resync" ELSE "open"
              /\ applied' = IF m.type = "replay-start" THEN m.after.cursor
                            ELSE applied
              /\ clientBoundaries' =
                    IF m.type # "turn-complete" \/ FlowControl = ""
                    THEN clientBoundaries
                    ELSE IF UsesWindow THEN Append(clientBoundaries, m.after)
                    ELSE <<m.after>>
    /\ clientPos' = Head(wire).after
    /\ UNCHANGED upstream
    /\ ClientRest

\* The terminal worker confirms a batch.
ClientApply(through) ==
    /\ clientState = "open"
    /\ applied < through /\ through <= clientPos.cursor
    /\ applied' = through
    /\ UNCHANGED <<clientState, clientPos, clientBoundaries, wire,
                   upstream>>
    /\ ClientRest

\* trySendPendingQueueTurnAck: one cumulative acknowledgement of what has
\* been applied (window), or of the turn once all of it has been (turn).
ClientAck ==
    /\ clientState = "open"
    /\ \E i \in 1..Len(clientBoundaries) :
          /\ IF UsesWindow
             THEN /\ clientBoundaries[i].cursor <= applied
                  /\ i < Len(clientBoundaries) =>
                        clientBoundaries[i + 1].cursor > applied
             ELSE applied = clientPos.cursor /\ clientBoundaries[i].cursor = applied
          /\ upstream' = Append(upstream, [type |-> "ack", at |-> clientBoundaries[i]])
          /\ clientBoundaries' = SubSeq(clientBoundaries, i + 1, Len(clientBoundaries))
    /\ UNCHANGED <<clientState, clientPos, applied, wire>>
    /\ ClientRest

\* The pane is closed, or subscribed again under another identity.
ClientLeave ==
    /\ \/ clientState = "resync"
       \/ clientState = "open" /\ "leave" \in Disruptions
    /\ clientState' = "left"
    /\ upstream' = Append(upstream, [type |-> "replace", at |-> Origin])
    /\ UNCHANGED <<clientPos, applied, clientBoundaries, wire>>
    /\ ClientRest

-----------------------------------------------------------------------------
Reader ==
    \/ ReaderPoll
    \/ ReadPlain
    \/ \E to \in 0..MaxOutput, snapshot \in BOOLEAN : ReadReplayStart(to, snapshot)
    \/ ReadReplayComplete
    \/ \E length \in 1..FrameBytes : ReadBinary(length)
    \/ EnqueueChunk
    \/ ReadTerminalControl
    \/ ReadEnd
    \/ ReaderReturn

Writer ==
    \/ WriterWake
    \/ WriterStops
    \/ WriterScan
    \/ WriterSend
    \/ WriterFinishTurn
    \/ WriterRoundEnd

Loop ==
    \/ LoopRegister
    \/ LoopRun
    \/ LoopAck
    \/ LoopPing
    \/ LoopRemove
    \/ LoopClose
    \/ LoopDeactivate
    \/ LoopStop

Client ==
    \/ ClientReceive
    \/ \E through \in 1..MaxOutput : ClientApply(through)
    \/ ClientAck
    \/ ClientLeave

Next ==
    \/ Reader
    \/ StopRuns
    \/ Writer
    \/ Loop
    \/ Client
    \/ \E who \in {"reader", "loop"} : Signal(who)

Spec == Init /\ [][Next]_vars

(* The goroutines run, the agent finishes its replay and ends once stopped *)
(* (stop closes its input and kills it after two seconds), and the browser *)
(* reads its socket.  Nothing obliges the agent to produce live output or  *)
(* to end, the connection to break, or a page, which the system may        *)
(* throttle, to apply and acknowledge: a property that needs that says so. *)
Fairness ==
    /\ WF_vars(ReaderPoll)
    /\ WF_vars(\E to \in 0..MaxOutput, snapshot \in BOOLEAN :
                    ReadReplayStart(to, snapshot))
    /\ WF_vars(agentPhase = "replay" /\ \E length \in 1..FrameBytes :
                    ReadBinary(length))
    /\ WF_vars(ReadReplayComplete)
    /\ WF_vars(EnqueueChunk)
    /\ WF_vars((stopped \/ agentPhase = "ended") /\ ReadEnd)
    /\ WF_vars(ReaderReturn)
    /\ WF_vars(StopRuns)
    /\ WF_vars(Writer)
    /\ WF_vars(LoopRegister \/ LoopRun \/ LoopAck \/ LoopPing \/ LoopRemove
                \/ LoopDeactivate \/ LoopStop)
    /\ \A who \in {"reader", "loop"} : WF_vars(Signal(who))
    /\ WF_vars(ClientReceive)

FairSpec == Spec /\ Fairness

Responsive ==
    /\ WF_vars(\E through \in 1..MaxOutput : ClientApply(through))
    /\ WF_vars(ClientAck)

-----------------------------------------------------------------------------
(* Properties.                                                             *)

AgentType ==
    /\ agentPhase \in {"attach", "replay", "live", "ended"}
    /\ agentCursor \in Nat /\ replayTo \in Nat /\ agentTexts \in Nat
ReaderType ==
    /\ readerPc \in {"none", "poll", "read", "chunk", "return", "done"}
    /\ chunk \in [from : Nat, to : Nat]
CursorType ==
    /\ terminalControl \in BOOLEAN /\ hasCursor \in BOOLEAN
    /\ cursor \in Nat /\ binarySequence \in Nat
BufferType ==
    /\ overloaded \in BOOLEAN /\ nextSequence \in Nat
    /\ buffer \in Seq(Entry) /\ bufferBytes \in 0..BufferLimit
TurnType ==
    /\ replayBurstActive \in BOOLEAN /\ awaitingTurnAck \in BOOLEAN
    /\ pendingTurn \in Position /\ turnAck \in Position
    /\ window \in Window
LifeType ==
    /\ registered \in BOOLEAN /\ active \in BOOLEAN
    /\ stopPending \in BOOLEAN /\ stopped \in BOOLEAN /\ cancelled \in BOOLEAN
WakeType == wake \in BOOLEAN /\ signals \subseteq {"reader", "loop"}
WriterType ==
    /\ writerPc \in {"parked", "scan", "turn", "roundEnd", "done"}
    /\ target \in Nat /\ written \in Nat /\ wrote \in BOOLEAN
    /\ turn \in Position /\ lastSent \in Position
LoopType ==
    /\ loopPc \in {"register", "run", "idle", "deactivate", "stop"}
    /\ pongs \in 0..MaxPongs
WireType ==
    /\ wire \in Seq(Message)
    /\ upstream \in Seq([type : {"ack", "replace"}, at : Position])
ClientType ==
    /\ clientState \in {"open", "resync", "left", "invalid"}
    /\ clientPos \in Position /\ applied \in Nat
    /\ clientBoundaries \in Seq(Position)

\* Every variable has the type its Go or JavaScript counterpart has.
TypeOK ==
    /\ AgentType
    /\ ReaderType
    /\ CursorType
    /\ BufferType
    /\ TurnType
    /\ LifeType
    /\ WakeType
    /\ WriterType
    /\ LoopType
    /\ WireType
    /\ ClientType

\* The browser never meets a frame, a turn or a replay end that does not
\* continue what it has received, however enqueue, overload, pings and the
\* writer's turns interleave (queueTurnReceivedCursor/Sequence checks).
ClientInSync == clientState # "invalid"

\* The reader polls the high water mark before every frame, so with room for
\* one more frame and the pongs the browser may ask for, the pane buffer
\* never overflows and a correct agent is never cut off.
Headroom ==
    /\ HighWater - 1 + FrameBytes + MaxPongs * TextCost <= BufferLimit
    /\ TextCost <= FrameBytes
    /\ 2 * TextCost < HighWater
HeadroomPreventsOverload == Headroom => ~overloaded

\* An acknowledgement of the browser is refused, which costs it the stream,
\* only once the stream has been overloaded or taken out of the broker.
AckRefusedOnlyAfterEnd ==
    \A i \in 1..Len(wire) : wire[i].type = "pane-error" => overloaded \/ ~registered

\* The acknowledgement ledger: what is in flight is what the boundaries and
\* the turn under way account for, and the boundaries are in stream order.
WindowLedger ==
    UsesWindow /\ ~overloaded =>
        /\ window.inFlight = BytesThrough(window.boundaries, Len(window.boundaries))
                                + window.currentTurnBytes
        /\ \A i \in 1..Len(window.boundaries) :
              /\ window.boundaries[i].at.seq > IF i = 1 THEN window.ack.seq
                                               ELSE window.boundaries[i - 1].at.seq
              /\ window.boundaries[i].at.seq <= lastSent.seq

\* What the browser can be made to hold: the window, or one admitted burst;
\* in turn mode one turn, after an admitted burst.
Larger(a, b) == IF a > b THEN a ELSE b
Credit ==
    IF UsesWindow THEN Larger(WindowBytes, ReplayBurstLimit)
    ELSE ReplayBurstLimit + Larger(RoundBudget, PayloadMax)

\* The start cursor counts as applied once it is on the websocket.
AppliedOrAnnounced ==
    IF \E i \in 1..Len(wire) : wire[i].type = "replay-start"
    THEN wire[CHOOSE i \in 1..Len(wire) : wire[i].type = "replay-start"].after.cursor
    ELSE applied

Stream == INSTANCE CreditStream WITH
    LastCursor <- MaxOutput,
    sent <- lastSent.cursor, applied <- AppliedOrAnnounced,
    open <- clientState = "open"

\* The detailed stream implements the credit stream: frames are in order, and
\* whatever the reader, the burst markers, cumulative and late acknowledgements
\* do, the output sent and not yet applied stays within the credit.
ImplementsCreditStream == Stream!Spec

\* An admitted snapshot is not acknowledged piecewise: no turn of it completes
\* before its completion control has been sent (terminal_queue_replay.go:25).
BurstUnacknowledged ==
    replayBurstActive => ~awaitingTurnAck /\ window.boundaries = <<>>

\* The writer never sleeps on output it could send: a token is in the wake
\* channel or a goroutine is about to put one there.
NoLostWakeup ==
    writerPc = "parked" /\ ~wake /\ signals = {} /\ registered => TargetSequence = 0

\* The buffer's byte count is that of its entries, so its limit and the high
\* water mark mean what they say and the clamp at zero is never needed.
BufferAccounting ==
    LET costs[i \in 0..Len(buffer)] ==
            IF i = 0 THEN 0 ELSE costs[i - 1] + buffer[i].cost
    IN  /\ bufferBytes = costs[Len(buffer)]
        /\ \A i \in 1..Len(buffer) : buffer[i].seq = nextSequence - Len(buffer) + i

\* Output that the broker has accepted is applied by a responsive browser, unless
\* the stream ends first.
Ended == overloaded \/ ~active \/ cancelled \/ clientState # "open"
OutputDelivered ==
    Responsive =>
        \A n \in 1..MaxOutput :
            hasCursor /\ cursor >= n ~> (clientPos.cursor >= n /\ applied >= n) \/ Ended

\* An overloaded stream's browser is told, even while it owes the writer an
\* acknowledgement or the window is full.
OverloadReported == overloaded ~> ~active \/ cancelled \/ clientState # "open"

\* When the agent has ended, a responsive browser learns of it.
EndReported ==
    Responsive =>
        (readerPc = "done" ~>
            \/ overloaded \/ ~active \/ cancelled \/ clientState # "open"
            \/ terminalControl /\ buffer = <<>> /\ wire = <<>>)

\* A stopped stream leaves no reader goroutine behind.
StoppedReaderEnds == stopped ~> readerPc = "done"
=============================================================================
