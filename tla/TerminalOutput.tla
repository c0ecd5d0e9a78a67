---------------------------- MODULE TerminalOutput ----------------------------
(* What the page does with the bytes of one pane, from the logical socket to *)
(* the terminal engine, which runs in a worker of its own:                   *)
(*   output_controller.js, output_lifecycle.js, replay_batch.js              *)
(*                                 the queue, its drain and the acks;        *)
(*   remote_terminal.js, terminal_adapter.js, async_geometry.js              *)
(*                                 the requests to the worker, in order;     *)
(*   session_protocol_controller.js, session_replay_controller.js,           *)
(*   session_recovery_controller.js                                          *)
(*                                 replay, its commit, detaching, resyncing; *)
(*   resize_controller.js          the fence: what came before a resize is   *)
(*                                 parsed on the old grid;                   *)
(*   session_health_controller.js  the restart of what failed or stalled.    *)
(* An action is a task of the page with the microtasks it leaves behind.     *)
EXTENDS Naturals, FiniteSets, Sequences

CONSTANTS MaxBytes,      \* bound: bytes the pane prints
          MaxResizes,    \* bound: resizes of the grid
          MaxFaults,     \* bound: faults of the network, broker and worker
          QueueLimit,    \* bytes the page holds before it is overloaded
          Window,        \* bytes the broker sends ahead of the ack
          RetryLimit,    \* restarts before the page gives up
          FailureLimit   \* replays that may fail before the pane pauses

VARIABLE pane

(* A write the drain waits for, and a resize the queue waits behind.         *)
NoFlight == [n |-> 0, force |-> FALSE, left |-> 0, stale |-> FALSE]
NoFence == [set |-> FALSE, end |-> 0, grid |-> 0, later |-> <<>>,
            busy |-> FALSE, posted |-> FALSE]

(* The worker: the requests it has not answered, in order, the cursor it was *)
(* restored to, the bytes it parsed since, and its grid, 0 before the first. *)
Engine == [failed |-> FALSE, lane |-> <<>>, base |-> 0, screen |-> <<>>, grid |-> 0]

Start ==
    [hist |-> 0, faults |-> MaxFaults,
     stage |-> "closed", sent |-> 0, acked |-> 0, turn |-> 0, resizes |-> 1,
     phase |-> "idle", fails |-> 0, target |-> 0, received |-> 0, applied |-> 0,
     queue |-> <<>>, batch |-> "none", count |-> 0, bounds |-> <<>>,
     scheduled |-> FALSE, flight |-> NoFlight, failed |-> FALSE,
     geometry |-> FALSE, broken |-> FALSE, fence |-> NoFence, fenceTask |-> FALSE,
     engine |-> Engine, timer |-> FALSE, recovering |-> FALSE, attempts |-> 0,
     exhausted |-> FALSE]

Init == pane = Start

Attached(w) == w.stage # "closed"
Paused(w) == w.fails = FailureLimit
Asked(w, op) == \E i \in DOMAIN w.engine.lane : w.engine.lane[i].op = op
Ask(w, r) == [w EXCEPT !.engine.lane = Append(@, r)]

(* Normal output waits for the grid of a replay, and behind a resize.        *)
FenceIgnored(w) == w.geometry \/ w.broken
Gated(w) == w.geometry \/ w.broken \/ w.fence # NoFence

-----------------------------------------------------------------------------
(* Recovery: a failure arms a restart, which replaces stream and worker.     *)

HealthFail(w) ==
    IF w.timer \/ w.exhausted \/ (w.recovering /\ ~w.engine.failed) THEN w
    ELSE [w EXCEPT !.recovering = FALSE, !.attempts = @ + 1,
                   !.timer = w.attempts < RetryLimit,
                   !.exhausted = w.attempts = RetryLimit]

Scheduled(w) == IF w.failed THEN w ELSE [w EXCEPT !.scheduled = TRUE]

(* A drain that still waits for the worker belongs to the past from then on. *)
Discard(w) ==
    [w EXCEPT !.queue = <<>>, !.batch = "none", !.count = 0, !.bounds = <<>>,
              !.scheduled = FALSE, !.failed = FALSE,
              !.flight = IF @ = NoFlight THEN NoFlight ELSE [@ EXCEPT !.stale = TRUE]]

(* restart: a new worker; whoever waited for the old one is told so.         *)
SameEngine(w) == [w EXCEPT !.engine.failed = FALSE, !.engine.lane = <<>>,
                           !.engine.grid = 0, !.flight = NoFlight]
Restarted(w) == [w EXCEPT !.engine = Engine, !.flight = NoFlight]

NoteFailure(w) ==
    IF w.phase = "committed" \/ Paused(w) THEN w ELSE [w EXCEPT !.fails = @ + 1]

Detached(w) == [w EXCEPT !.stage = "closed", !.phase = "idle"]

-----------------------------------------------------------------------------
(* The drain.                                                                *)

(* The replay is committed once the worker parsed all of it.                 *)
Finish(w) ==
    IF /\ w.phase = "awaiting"
       /\ w.queue = <<>>
       /\ ~Asked(w, "restore") /\ ~Asked(w, "grid")
       /\ w.received >= w.target /\ w.applied >= w.target
    THEN [w EXCEPT !.phase = "committed", !.fails = 0]
    ELSE w

AckReached(w, cursor) ==
    LET done == {i \in DOMAIN w.bounds : w.bounds[i] <= cursor} IN
    IF done = {} \/ ~Attached(w) THEN w
    ELSE [w EXCEPT !.acked = w.bounds[Cardinality(done)],
                   !.bounds = SubSeq(@, Cardinality(done) + 1, Len(@))]
AckReceived(w) == AckReached(w, w.received)
TrySend(w) == AckReached(w, w.applied)

(* A write takes one entry, or as many as go together; the snapshot of a     *)
(* replay goes as a whole; a fence takes no more than it waits for.          *)
Sizes(w, left) ==
    LET alike == {k \in 1 .. Len(w.queue) : \A i \in 1 .. k :
                      w.queue[i].kind = w.queue[1].kind /\ i <= left}
        all == Cardinality(alike) IN
    IF w.batch = "ready" /\ w.queue[1].kind = "burst" THEN {all} ELSE {1, all}

Write(w, force, left) ==
    IF w.engine.failed THEN {[w EXCEPT !.flight = NoFlight]}
    ELSE {Ask([w EXCEPT !.flight =
                  [n |-> k, force |-> force, left |-> left, stale |-> FALSE]],
              [op |-> "write", old |-> FALSE, bytes |-> SubSeq(w.queue, 1, k)]) :
          k \in Sizes(w, left)}

(* Output of a stream that is gone is dropped.                               *)
Drain(w, force, left) ==
    IF w.queue = <<>> THEN {TrySend(Finish(w))}
    ELSE IF ~Attached(w) \/ \E i \in DOMAIN w.queue : w.queue[i].old
         THEN {[w EXCEPT !.queue = <<>>]}
    ELSE Write(w, force, left)

(* The end of a flush: what is left is scheduled, whoever drained.           *)
ForceLeaves(w) == w
Reschedule(w) ==
    IF w.queue # <<>> /\ ~w.failed /\ w.batch # "waiting" /\ ~Gated(w)
    THEN Scheduled(w) ELSE w

(* A flush runs now, or is put off when the turn of the page is used up.     *)
Flush(w) ==
    LET v == [w EXCEPT !.scheduled = FALSE] IN
    IF w.failed THEN {w}
    ELSE IF v.flight # NoFlight \/ v.batch = "waiting" \/ Gated(v) THEN {v}
    ELSE {Scheduled(v)} \union
         {IF u.flight = NoFlight THEN Reschedule(u) ELSE u : u \in Drain(v, FALSE, Len(v.queue))}

-----------------------------------------------------------------------------
(* The fence of a resize: the entries queued before it are parsed first,     *)
(* then the grid changes, and only then the queue moves on.                  *)

NewFence(resize, later) ==
    [NoFence EXCEPT !.set = TRUE, !.end = resize.end, !.grid = resize.grid, !.later = later]

(* applyFence after the drain it waited for.                                 *)
FenceGoesOn(w) ==
    IF w.fence = NoFence \/ w.flight # NoFlight THEN w
    ELSE IF ~w.fence.busy \/ w.fence.posted THEN w
    ELSE IF w.fence.end > w.count
         THEN [w EXCEPT !.fence.busy = FALSE, !.fenceTask = TRUE]
    ELSE IF w.engine.failed THEN [w EXCEPT !.fence.posted = TRUE]
    ELSE Ask([w EXCEPT !.fence.posted = TRUE], [op |-> "grid", old |-> FALSE, grid |-> w.fence.grid])

FenceDrain(w) ==
    LET v == [w EXCEPT !.scheduled = FALSE] IN
    IF w.fence.end <= w.count \/ w.failed THEN {w}
    ELSE IF v.flight # NoFlight THEN {v}
    ELSE Drain([v EXCEPT !.batch = "none"], TRUE, w.fence.end - w.count)

(* applyFence, in its turn of the page.                                      *)
FencePump ==
    /\ pane.fenceTask
    /\ pane.fence # NoFence => ~Asked(pane, "grid")
    /\ LET w == [pane EXCEPT !.fenceTask = FALSE] IN
       IF pane.fence = NoFence \/ pane.broken \/ pane.fence.busy THEN pane' = w
       ELSE \E v \in FenceDrain([w EXCEPT !.fence.busy = TRUE]) : pane' = FenceGoesOn(v)

NextFence(w) ==
    IF w.fence.later = <<>> THEN Reschedule([w EXCEPT !.fence = NoFence])
    ELSE [w EXCEPT !.fence = NewFence(Head(w.fence.later), Tail(w.fence.later)),
                   !.fenceTask = TRUE]

-----------------------------------------------------------------------------
(* The worker.                                                               *)

(* fail: the worker is given up and everyone who waited for it is told: the  *)
(* drain refuses output until the restart, a resize blocks, a checkpoint     *)
(* that was not restored closes the stream.                                  *)
EngineFails(w) ==
    LET lane == w.engine.lane
        lost == HealthFail([w EXCEPT !.engine.failed = TRUE, !.engine.lane = <<>>])
        drain == IF w.flight = NoFlight THEN lost
                 ELSE IF w.flight.stale THEN Reschedule([lost EXCEPT !.flight = NoFlight])
                 ELSE [lost EXCEPT !.flight = NoFlight, !.failed = TRUE, !.scheduled = FALSE]
        grid == [drain EXCEPT !.broken = @ \/ \E i \in DOMAIN lane :
                                  lane[i].op = "grid" /\ ~lane[i].old] IN
    {FenceGoesOn(v) : v \in
        IF \E i \in DOMAIN lane : lane[i].op = "restore"
        THEN IF \E i \in DOMAIN lane : lane[i].op = "restore" /\ ~lane[i].old
                /\ Attached(w)
             THEN Flush(Detached(NoteFailure(grid)))
             ELSE {NoteFailure(grid)}
        ELSE {grid}}

Answered(w) == [w EXCEPT !.engine.lane = Tail(@)]

(* A checkpoint is in place: the cursor starts there.                        *)
RestoreDone(w, r) ==
    LET v == [Answered(w) EXCEPT !.engine.base = r.cursor] IN
    {IF r.old THEN v ELSE [v EXCEPT !.applied = IF @ < r.cursor THEN r.cursor ELSE @]}

(* The grid changed: a replay may be parsed, or a fence is over.             *)
GeometrySilent(w) == [w EXCEPT !.geometry = FALSE]
GeometryDone(w) == Scheduled([w EXCEPT !.geometry = FALSE])
GridDone(w, r) ==
    LET v == [Answered(w) EXCEPT !.engine.grid = r.grid] IN
    {IF w.geometry THEN GeometryDone(v)
     ELSE IF w.fence # NoFence /\ w.fence.posted THEN NextFence(v)
     ELSE v}

(* What the worker parsed leaves the queue, is acked, and the drain goes on  *)
(* unless its turn is over, output is held back or it has all it came for.   *)
Popped(w) ==
    LET f == w.flight
        last == w.queue[f.n].at IN
    TrySend([w EXCEPT !.queue = SubSeq(@, f.n + 1, Len(@)), !.applied = last,
                      !.count = @ + f.n,
                      !.batch = IF last >= w.target THEN "none" ELSE @])

DrainEnds(w) ==
    LET v == [w EXCEPT !.flight = NoFlight]
        rest == v.queue # <<>> /\ ~w.flight.force /\ ~Gated(v) IN
    Reschedule(IF rest THEN [v EXCEPT !.scheduled = TRUE] ELSE Finish(v))

DrainGoesOn(w) ==
    LET f == w.flight IN
    IF w.queue = <<>> \/ (~f.force /\ Gated(w)) \/ f.left = f.n THEN {}
    ELSE {IF v.flight = NoFlight THEN Reschedule(v) ELSE v : v \in Write(w, f.force, f.left - f.n)}

WriteDone(w, r) ==
    LET v == [Answered(w) EXCEPT !.engine.screen = @ \o
                 [i \in DOMAIN r.bytes |->
                     [at |-> r.bytes[i].at, fits |-> r.bytes[i].grid = w.engine.grid]]] IN
    IF w.flight = NoFlight THEN {v}
    ELSE IF w.flight.stale THEN {FenceGoesOn(Reschedule([v EXCEPT !.flight = NoFlight]))}
    ELSE {FenceGoesOn(u) : u \in {DrainEnds(Popped(v))} \union DrainGoesOn(Popped(v))}

(* An answer that crossed a reconnection fails the worker it came from.      *)
Reply ==
    /\ pane.engine.lane # <<>>
    /\ LET r == Head(pane.engine.lane) IN
       pane' \in CASE r.op = "restore" -> RestoreDone(pane, r)
                   [] r.op # "restore" /\ r.old -> EngineFails(pane)
                   [] r.op = "grid" /\ ~r.old -> GridDone(pane, r)
                   [] r.op = "write" /\ ~r.old -> WriteDone(pane, r)

-----------------------------------------------------------------------------
(* The stream of the pane.                                                   *)

Older(list) == [i \in DOMAIN list |-> [list[i] EXCEPT !.old = TRUE]]

(* connectSession: a new epoch, to which nothing queued or asked belongs.    *)
Connect ==
    /\ ~Attached(pane) /\ ~Paused(pane)
    /\ pane' = Reschedule(
         [pane EXCEPT !.stage = "attach", !.phase = "idle", !.bounds = <<>>, !.batch = "none",
                      !.queue = Older(@), !.engine.lane = Older(@),
                      !.geometry = FALSE, !.broken = FALSE, !.fence = NoFence,
                      !.fenceTask = FALSE])

(* history-replay-start: a snapshot, from a checkpoint or from the start,    *)
(* into a fresh worker that first takes the grid it was recorded on.         *)
ReplayStart ==
    /\ pane.stage = "attach"
    /\ \E cursor \in 0 .. pane.hist, burst \in BOOLEAN :
         LET w == Restarted(Discard(pane))
             bytes == pane.hist - cursor
             restore == IF cursor = 0 THEN <<>>
                        ELSE <<[op |-> "restore", old |-> FALSE, cursor |-> cursor]>> IN
         /\ burst => bytes \in 1 .. QueueLimit - 1
         /\ pane' = [w EXCEPT
              !.stage = "replay", !.phase = "replaying", !.target = pane.hist,
              !.sent = cursor, !.acked = cursor, !.turn = cursor,
              !.received = cursor, !.applied = 0,
              !.engine.lane = restore \o <<[op |-> "grid", old |-> FALSE, grid |-> pane.resizes]>>,
              !.geometry = TRUE, !.broken = FALSE, !.fence = NoFence, !.fenceTask = FALSE,
              !.batch = IF burst THEN "waiting" ELSE "none"]

Overload(w) == HealthFail([w EXCEPT !.failed = TRUE, !.scheduled = FALSE])

Entry(w) ==
    [at |-> w.sent, old |-> FALSE, grid |-> w.resizes,
     kind |-> CASE w.batch = "waiting" -> "burst"
                [] w.batch # "waiting" /\ w.phase = "committed" -> "live"
                [] w.batch # "waiting" /\ w.phase # "committed" -> "replay"]

(* A byte arrives; a drain that failed takes none.                           *)
Received(w) ==
    IF w.failed THEN w
    ELSE IF Len(w.queue) >= QueueLimit THEN Overload(w)
    ELSE LET v == [w EXCEPT !.queue = Append(@, Entry(w)), !.received = w.sent] IN
         IF Len(v.queue) = QueueLimit THEN Overload(v)
         ELSE IF v.batch = "waiting" THEN v ELSE Scheduled(v)

FrameDue ==
    /\ \/ pane.stage = "replay" /\ pane.sent < pane.target
       \/ pane.stage = "live" /\ pane.sent < pane.hist
    /\ pane.batch = "waiting" \/ pane.sent < pane.acked + Window
TurnDue == Attached(pane) /\ pane.sent > pane.turn
CompleteDue == pane.stage = "replay" /\ pane.sent = pane.target

Frame ==
    /\ FrameDue
    /\ pane' = Received([pane EXCEPT !.sent = @ + 1])

(* queue-turn-complete: an ack is due when the worker parsed that far.       *)
Turn ==
    /\ TurnDue
    /\ \E v \in Flush([pane EXCEPT !.turn = pane.sent,
                                   !.bounds = Append(@, pane.sent)]) :
         pane' = TrySend(v)

(* history-replay-complete: everything was received, or the replay is bad.   *)
ReplayComplete ==
    /\ CompleteDue
    /\ LET w == [pane EXCEPT !.stage = "live", !.phase = "awaiting",
                             !.batch = IF @ = "waiting" THEN "ready" ELSE @] IN
       pane' \in IF pane.received < pane.target
                 THEN Flush(Detached(NoteFailure(pane)))
                 ELSE IF Finish(w) # w THEN {Finish(w)} ELSE Flush(w)

(* resize-applied: the bytes before it belong to the grid before it.         *)
Resize ==
    /\ pane.stage = "live" /\ pane.resizes <= MaxResizes
    /\ LET w == [pane EXCEPT !.resizes = @ + 1]
           resize == [end |-> pane.count + Len(pane.queue), grid |-> w.resizes] IN
       pane' = IF pane.fence # NoFence THEN [w EXCEPT !.fence.later = Append(@, resize)]
               ELSE [w EXCEPT !.fence = NewFence(resize, <<>>), !.fenceTask = TRUE]

Produce == pane.hist < MaxBytes /\ pane' = [pane EXCEPT !.hist = @ + 1]

-----------------------------------------------------------------------------
(* Timers.                                                                   *)

(* The scheduled flush.                                                      *)
Pump == pane.scheduled /\ pane' \in Flush([pane EXCEPT !.scheduled = FALSE])

(* recover: stream and output are given up, the resize is retired and the    *)
(* worker replaced unless it is idle.                                        *)
HealthTimer ==
    /\ pane.timer
    /\ LET w == Discard([Detached(pane) EXCEPT
                    !.timer = FALSE, !.recovering = TRUE, !.geometry = FALSE,
                    !.broken = FALSE, !.fence = NoFence, !.fenceTask = FALSE]) IN
       pane' = IF w.engine.failed \/ w.engine.lane # <<>> THEN Restarted(w) ELSE w

Presented ==
    /\ pane.recovering /\ pane.phase = "committed"
    /\ pane' = [pane EXCEPT !.recovering = FALSE]

(* Nothing of the page moves; a fence that cannot drain only tries again.    *)
Still ==
    pane.engine.lane = <<>> /\ ~pane.scheduled /\ (pane.fenceTask => pane.failed)

(* inspectAttach: a stream whose replay does not get on is closed after 8 s; *)
(* a restart that is due comes first.                                        *)
AttachTimeout ==
    /\ ~pane.timer
    /\ Attached(pane) /\ pane.phase \in {"replaying", "awaiting"}
    /\ Still /\ ~FrameDue /\ ~TurnDue /\ ~CompleteDue
    /\ pane' \in Flush(Detached(pane))

(* The watchdog: a recovery, or output that is owed, does not move for 12 s. *)
Stalled ==
    /\ ~pane.timer /\ ~pane.exhausted /\ Still
    /\ \/ pane.recovering /\ pane.phase # "committed" /\ pane.failed
       \/ /\ ~pane.recovering /\ pane.phase = "committed"
          /\ pane.queue # <<>> \/ pane.bounds # <<>> \/ pane.fence # NoFence
    /\ pane' = HealthFail([pane EXCEPT !.recovering = FALSE])

-----------------------------------------------------------------------------
(* Faults.                                                                   *)

Trouble == pane.faults > 0
Blamed(w) == [w EXCEPT !.faults = @ - 1]

Disconnect == Trouble /\ Attached(pane) /\ pane' \in Flush(Detached(Blamed(pane)))

(* A message of another stream: the output is discarded and the stream       *)
(* closed, the worker is not.                                                *)
Misrouted ==
    Trouble /\ Attached(pane) /\ pane' \in Flush(Detached(Discard(Blamed(pane))))

WorkerFails ==
    Trouble /\ ~pane.engine.failed /\ pane' \in EngineFails(Blamed(pane))

-----------------------------------------------------------------------------
Progress ==
    \/ Connect \/ ReplayStart \/ Frame \/ Turn \/ ReplayComplete
    \/ Pump \/ FencePump \/ Reply \/ HealthTimer \/ Presented
    \/ AttachTimeout \/ Stalled

Next == Progress \/ Produce \/ Resize \/ Disconnect \/ Misrouted \/ WorkerFails

Spec == Init /\ [][Next]_pane
FairSpec == Spec /\ WF_pane(Progress)

-----------------------------------------------------------------------------
(* Properties *)

Parsed(w) == w.engine.base + Len(w.engine.screen)
Restored(w) == w.phase # "idle" /\ ~w.engine.failed /\ ~Asked(w, "restore")

(* Every part of the pane's state keeps its type.                            *)
TypeOK ==
    /\ pane.stage \in {"closed", "attach", "replay", "live"}
    /\ pane.phase \in {"idle", "replaying", "awaiting", "committed"}
    /\ pane.batch \in {"none", "waiting", "ready"}
    /\ pane.attempts \in 0 .. RetryLimit + 1
    /\ pane.fails \in 0 .. FailureLimit
    /\ Len(pane.queue) <= QueueLimit
    /\ pane.applied <= pane.hist /\ pane.received <= pane.sent

(* The worker shows the history without a gap and without a repetition, from *)
(* the checkpoint on, and the cursor says how far, whatever was cut short,   *)
(* retried or replaced.                                                      *)
ScreenMatches ==
    /\ \A i \in DOMAIN pane.engine.screen :
         pane.engine.screen[i].at = pane.engine.base + i
    /\ Restored(pane) => pane.applied = Parsed(pane)
    /\ Restored(pane) /\ pane.phase = "committed" => Parsed(pane) >= pane.target

(* A byte is parsed on the grid it was printed for (resize_controller.js     *)
(* 1084): before a resize on the old one, after it on the new one.           *)
GridBoundary == \A i \in DOMAIN pane.engine.screen : pane.engine.screen[i].fits

(* The broker is told that bytes were consumed only after the worker parsed  *)
(* them.                                                                     *)
AckedParsed == Restored(pane) => pane.acked <= Parsed(pane)

(* Output that may move has someone who moves it: a flush that is scheduled  *)
(* or one that waits for the worker.                                         *)
NoLostFlush ==
    pane.queue # <<>> /\ ~pane.failed /\ ~Gated(pane) /\ pane.batch # "waiting"
    => pane.scheduled \/ pane.flight # NoFlight

CaughtUp ==
    /\ pane.phase = "committed" /\ pane.fence = NoFence
    /\ Parsed(pane) = pane.hist /\ pane.acked = pane.hist

(* Whatever failed before, the pane ends up showing its whole history, with  *)
(* everything acked, unless it used up its restarts or its replays.          *)
Served == pane.exhausted \/ Paused(pane) \/ CaughtUp
CatchesUp == <>[]Served
=============================================================================
