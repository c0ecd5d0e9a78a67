# Verification of lazycat-microserver-webshell

This directory holds TLA+ models of the terminal service, the TLC
configurations that check them on small instances, and proofs checked by TLAPS.
Source paths below are relative to `src/`.

## 1. The system

A browser (or a native client) shows terminals that live on another machine.
Three programs take part:

    browser  --websocket-->  Provider (Go, HTTP)  --exec + socket-->  agent (Go, on the target)
    runtime/static/...       provider/...                              core/... (daemon, panes)

The Provider starts an *agent daemon* on the target; the daemon keeps the
workspace (tabs, layouts, panes) and its shells alive across connections. For
each pane the browser shows, the Provider starts an *attach agent*, a process
that copies the daemon's attachment to its standard output, and multiplexes all
of them over one websocket, the *Unified queue*. `core.Local` runs the daemon
in-process for the PC client and the browser extension.

### Components

| Component | State | Operations | Interacts with |
|---|---|---|---|
| Unified pane stream (`core/queue_stream.go`, `terminal_queue_flow.go`, `terminal_queue_replay.go`) | buffer of outbound entries and its byte count, cursor, sequence numbers, flow-control ledger (pending turn, awaited acknowledgement, window), overloaded / active / stopped | reader: frames in; enqueue, overload; writer: pop, finish turn; acknowledge, ping, deactivate, stop | attach agent (frames), broker's writer, websocket loop, browser |
| Queue broker (`core/terminal_queue.go`) | map of streams, wake channel, control queue | RunWriter, ReplaceSubscriptions, HandlePaneControl, Close | pane streams, websocket |
| Browser output consumer (`terminal/output/*`, `terminal/session/*`, the fence of `terminal/resize/resize_controller.js`) | queue and drain, received and applied cursors, turn boundaries, replay batch, the requests to the worker, health restart | accept a frame, complete a turn, drain, acknowledge, start, complete and commit a replay, fence a resize, restart | websocket, terminal worker |
| Agent workspace (`core/workspace*.go`, `agent_workspace.go`, `layout.go`) | tabs, pane map, active tab/pane, recent tabs, counters, generation | the twelve actions of `applyAction`, ensure, restore, pane exit, close | panes, daemon mutex, workspace mutex, connections |
| Pane (`core/pane.go`, `subscriber.go`, `pane_replay.go`, `agent_attach.go`, `pane_resize.go`) | PTY, history ring, subscribers, dimensions and their owner, exited / retained | read loop, fan-out, attach with snapshot or delta, resize, exit, retain, close | shell, workspace, attach connections |
| Workspace recovery (`provider/workspace_recovery.go`, `core/workspace_activity.go`) | one document per scope and epoch on disk | state, action and activity requests; restore before answering; save after | agent, settings, browser |
| Agent installation (`provider/agent_runtime.go`) | daemon process, binary, protocol version, lock | ensure, upgrade, request with retry | target machine |
| Settings (`provider/settings.go`) | restore setting and its epoch, plain settings | read, write | recovery |
| Browser connection (`terminal/transport/*`, `app/runtime_recovery_controller.js`) | the physical connection and its streams, close fence, recovery, watchdog, membership and gates, retries, foreground window | prepare, connect, subscribe, reconnect, give up, react to network and user | broker, output consumer |
| Browser resize (`terminal/resize/*`) | grid, owner, epochs, pending size | claim, send, apply, retry | pane, output consumer |
| SSH server, shell sessions (`sshserver`, `core/shell_sessions.go`) | retained sessions, tickets | attach, detach, reattach, expire | library SSH connections |
| Client runtime (`clientruntime/managedruntime`) | file lock, registrations | acquire, renew, release | other processes |

`PROJECT.json` lists every component, the unmodelled ones with the reason.

### What is hard here

* The pane stream is shared by four goroutines that take its mutex in short
  sections; the writer takes it three times per turn, the reader once per chunk.
* An overload may fall between any two of those sections, and discards the
  buffer and the ledger that the others are about to use.
* The wake channel holds one token, and is signalled outside the mutex.
* Flow control must neither stall (nobody left to acknowledge) nor let more
  output be outstanding than the browser has agreed to hold, with three
  special cases: bursts, texts and the overload notice.
* Two mutexes guard a workspace, and pane starts happen under either one, so a
  pane may exit before the tab it was started for exists.
* The page is one thread, but microtasks, promises and the answers of the
  terminal's worker come in an order nobody wrote down: what was read before an
  await belongs to an earlier connection after it.
* Watchdog, close events, timers and signals of the user all replace a
  connection; each must leave alone what another has just replaced.
* Agent and Provider stop independently, replies are lost and requests repeated,
  and the document on disk must follow the user's workspace and no other.

For each component, what makes it correct:

* **Pane stream**: the browser gets exactly the agent's output, in order and
  once; no more than the credit is outstanding; the buffer does not overflow
  when there is headroom for a frame; accepted output is eventually delivered;
  overload and end are eventually reported; nothing is left running.
* **Workspace**: tabs, layouts and pane map agree; what is active exists; a
  pane's process belongs to a pane of the workspace in use; an exit is settled;
  a closed runtime stays empty; requests and closed panes end.
* **Pane**: each attachment sees every byte once, the exit after the last
  byte, and agrees with the pane about retention and size.
* **Browser connection**: one live connection at most; streams and sessions
  agree; what works is not replaced; with a network every pane is replayed.
* **Browser output**: the worker parses every byte once, on the grid it was
  printed for; acknowledgements follow the parser; the screen catches up.
* **Recovery**: what was last shown to the user can be restored after any stop,
  and living sessions are never replaced.

## 2. Modules

| Module | Models | Abstract specification |
|---|---|---|
| `QueueStream` | one pane stream with its reader, the broker's writer, the websocket loop, the stop goroutine, the attach agent and the browser | `CreditStream` |
| `CreditStream` | what a flow-controlled stream promises: output in order, at most `Credit` ahead of what is applied | |
| `QueueStreamSafety` | its safety theorems | |
| `QueueStreamRefinement` | the proof that it implements `CreditStream` | |
| `PaneOutput` | one pane with its output goroutine, and the attachments' writers and readers | |
| `PaneOutputProofs` | lemmas about its queues; its safety theorems | |
| `NatInduction` | least-number principle and running sums, without operator parameters | |
| `Workspace` | the agent's workspace with concurrent requests, exits and restoration | |
| `WorkspaceProofs` | its safety theorems | |
| `WorkspaceRecovery` | Provider's requests, the document store, an agent that stops | |
| `WorkspaceRecoveryProofs` | its safety theorems | |
| `MCSafety` | `PaneOutput` and `WorkspaceRecovery`, side by side, for safety | |
| `UnifiedTransport` | the page's connection: owner, fence, recovery, membership, a session's stream and replay, signals | |
| `UnifiedTransportProofs` | its safety theorems | |
| `TerminalOutput` | a pane's output in the page: queue, drain, worker, replay, resize fence, health restart | |
| `TerminalOutputProofs` | its safety theorems | |
| `MCBrowser` | `UnifiedTransport` and `TerminalOutput`, each once for safety and once for liveness, side by side | |

The map of definitions to source lines is in `PROJECT.json` under `map`.

### QueueStream

One action per critical section of the stream's mutex. The reader's program
counter follows `run`: `ReaderPoll` is `waitForBufferCapacity`, the `Read...`
actions handle one agent frame each, `EnqueueChunk` is one turn of the loop of
`enqueueBinary`, `ReadEnd` and `ReaderReturn` the end of the stream. `Enqueue`
and `Overload` are shared by the reader and by the websocket loop (pongs). The
writer's actions are those of `RunWriter`: wait for a token, scan
`targetSequence`, `popThrough` and write, `finishTurn` and write, next round.
`Loop...` are the messages the websocket loop handles; `Client...` is
`output_controller.js`. Payloads are cursors: an entry records the position
before and after it, so a gap, a repetition and a reordering are all visible
to `Accepted`, the browser's check.

Steps that are one action although the code takes the mutex once and then
writes: no other goroutine reads or changes what the write uses, and only the
writer writes entries. An attachment failing before its first frame ends the
reader as a crash does. The broker has one stream here; rounds over several
streams are planned (`QueueBroker`).

### Workspace

Everything under `terminalWorkspace.mu` is one step; the daemon's mutex spans
several. `Ensure...`, `Create...` and `Restore...` follow a request through
`ensureWorkspaceLocked` and the restoration, the actions named after the kinds are
the branches of `applyAction`; `PaneExit`, `PaneRetain` and `PaneRemove` are
`markExited`, `retainFailedFinalPane` and `removePaneAfterExit`. A layout is the
sequence of its leaves; the neighbour that takes the focus when a pane goes is
nondeterministic (the tree decides it). Labels, directories, sizes and split
directions are left out. The documents restored are
those of one to `MaxRestored` panes numbered from 1, in one tab or in a tab each,
the first pane of each tab active, and the one without a tab.

`LocalClose` leaves out the `cancel()` of `Local.Close`, on which `localPlatform` refuses to start
shells and kills those it has started. That errs on the safe side: what `ClosedStaysEmpty` shows is
what the mutexes and `closed` do without it, and where they do not suffice (section 5) it is the
cancellation that does. The sections under `terminalWorkspace.mu` are single steps, so that
mutex is no variable, and a deadlock on it cannot be expressed.

### PaneOutput

One action per section under the pane's mutex or a subscriber's, with `outputMu` and
`resizeMu` held across them: who holds one shows in where a goroutine is
(`OutputFree`, `ResizeFree`). `Output...` is `readLoop`, `appendOutput` and
`markExited`; `Attach` is `attachClient`, taken between any two of them;
`Writer...` and `Reader...` are the two goroutines of `handleAttach`; `Resize...` is
`applyResize`. `Enqueued` and `Dequeued` are the two sides of a subscriber's queue, the
channel and the backlog behind it, as functions of its record. Bytes are offsets,
so a gap, a repetition or an overtaking shows in the offsets of a backlog.

Steps that are one although the code takes them apart: the delivery to the captured
subscribers one after the other (none sees another's queue); a resize from
the lock of `outputMu` to the capture of subscribers (what it reads and writes
is written by others under `resizeMu` or `outputMu` only, except for closing and exit,
which show as a failing `ResizePTY`); the taking off the byte count and the
write of the frame. What a dropped subscriber's writer still writes is left
out. So is the choice between snapshot and delta: either brings the browser to
the offset that `attachClient` saw. Retention is external: `OutputFinish` removes the
pane or not. Input, filters and checkpoints are not modelled.

### WorkspaceRecovery

One scope. A request of the Provider takes the operation lock, asks the agent
at most twice, compares generations with the saved document, restores, repeats
the action and saves. A document that cannot be read (fault `load`) is logged, and the request
goes on as without one. The agent is its workspace (generation, panes,
directories); it stops at any time, its reply may be lost, and it may refuse a
restoration (`version`). The Provider may stop, losing the requests under way but
not the document. `shown` (what was last shown to the user) and the root of a
workspace (which workspace it was restored from) are history variables: no
guard reads them.

### UnifiedTransport

The state is one record, `page`, because a task of the page runs many of the
controllers' functions one after the other; each of these is an operator from
page to page (`CloseTransport`, `Disconnected`, `Reconciled`...). An action is a task
of the network, a timer or the user. What a task queues as microtasks
(`queueMicrotask`, the continuation of an await) goes into `micro` and is run in
order, by `Drained`, before the action ends, as the event loop does; `MicroLimit` bounds how
many a task may queue (the run finds the same states with 12 as with 20). Physical
connections are numbered in the order they are made; a stream is a pane with its
generation. `lost` is a path that died silently: nothing arrives, and only the
watchdog finds out. Replay is as coarse as its stages: `TerminalOutput` has the rest.

Left out: another target (instance), the demand to update the agent, the deferral
while the workspace is applied, priority frames, the user moving to another pane
(`Active` and `Visible` are constants), the legacy `fast` channel, the one second retry
when recovery throws, and the probes after a resume. Backoff times are left out:
a timer that is armed may fire.

### TerminalOutput

One pane and its logical socket; the broker is what `QueueStream` promises
(`FrameDue`, `TurnDue`, `CompleteDue`). A byte is its position, with the grid it was
printed on. The worker answers requests in order (`engine.lane`); a request of an earlier
connection is `old`, and its answer fails the worker as `requireCurrentIdentity`
does. `Flush` and `Drain` are `flush` and the loop it awaits; `flight` is where the loop
waits, with what it remembers across the wait (`stale` is a changed drain generation).
Fences queue in `fence.later`. Health is `HealthFail`, the restart timer and two
observers, `AttachTimeout` (8 s) and `Stalled` (12 s), which by their lengths act only
when nothing else can; the restart timer (250 ms to 4 s) precedes them.

Left out: turn acknowledgements (`QueueStream` has them), the settling drain after a resize,
the budget of forced flushes, the preparation of a worker in advance, the caps of 512
boundaries and 64 fences, the 30 s after which restarts are forgotten, the end
of the process, a user resuming a paused pane, resizes to the same dimensions,
and deltas.

## 3. Runs

| Run | Instance | Shows |
|---|---|---|
| `queue_window` | window-ack, cursors 0..3, buffer 6 / mark 4, frames of 2, one pong | the browser stays in sync, the ledger balances, headroom prevents overload, `CreditStream` is implemented |
| `queue_overload` | window-ack, buffer and mark 3, frames of 2 cut in chunks of 1, a text, browser leaves, connection closes | the same in the presence of overload and removal; refusals, byte accounting, no lost wake-up |
| `queue_live` | turn-ack, fairness, buffer and mark 2, chunks of 1; agent crashes or exits, a write fails | delivery, report of overload and end, no goroutine left, burst admission, `CreditStream` |
| `workspace_safe` | 3 panes, 2 workspaces, all actions in eight mixes, PTY failures, restorations of up to 2 panes, one request at a time | structure, focus, ownership, exits, identities |
| `workspace_live` | 2 concurrent requests attach, restore, close a pane or close the runtime | a closed runtime stays empty, without its cancellation; closed panes and requests end |
| `workspace_race` | two concurrent requests `create_tab` / `attach` | *violated*: identities are not fresh |
| `workspace_final` | two panes that fail together | *violated*: the last failed pane is not kept |
| `pane_recovery` | a pane: two attachments, three bytes, reads of 1 or 2, a channel of 1, a queue of 3 bytes, controls of 2, two sizes, one epoch, legacy resizes; and recovery: two requests, lost replies, refusing agents, stops, setting switched | each byte once, controls in place, epochs known, queue accounting, ownership; what was shown stays recoverable, living sessions are not replaced |
| `pane_live` | two attachments, a byte, a channel of 1, a queue of 3, one epoch, legacy resizes, fairness | output is written, dropped and exited attachments end |
| `recovery_save` | a save fails after a restoration | *violated*: living sessions are replaced |
| `recovery_activity` | an activity request first after a stop | *violated*: directories of a fresh workspace enter the document |
| `browser` | connection: two panes, one in the background, a fault and a signal (for liveness one of either); output: two bytes, a resize, two faults, a queue of 2, a window of 2 (for liveness 1) | one owned connection, streams and sessions agree, subscription first, replaces only what broke, reconnects; screen, grid, acknowledgements, no lost flush, catches up |

**Bounds.** Stream: three bytes of output and limits of two or three make
every limit binding: the high water mark, the byte limit in the middle of a
frame, the round budget, the window in bytes and in turns, a burst that is and
one that is not admitted. A frame of two bytes cut into chunks of one gives the
interleavings between chunks. `MaxPongs` and `MaxTexts` bound entries that do
not move the position. Workspace: three panes are a split tab and another one,
or a tab of three leaves, two workspaces are one restoration; a connection
requests actions of one of the eight mixes; the actions of a mix work on the same
structures (panes of a tab, layout and focus, the list of tabs, a restored document). A request is received
while identities are at most `MaxPanes + 1`, and a start beyond `MaxPanes` fails as
a PTY that does not open. With one request, `workspace_safe` has neither two requests creating a tab
(`workspace_race` has) nor an action beside a restoration (section 5). Recovery: five generations allow a stop, a
restoration and a second stop; two epochs allow the setting to be off in between.
The faults of `pane_recovery` are those the code withstands: loads and saves that fail, a setting changed
beside requests and a second stop within one request are left to `recovery_save` and section 5.
Pane: a channel of one and a queue of three bytes have a control and a byte, or three
bytes in two reads, fill the channel, wait in the backlog, coalesce and overflow.
A second attachment is the browser that takes the size over, the one
that is told of it, or the first one's return. One epoch follows legacy owners, so claims
and refusals occur; an epoch older than the pane's does not, and is refused by the same step.
Attachments, and requests, are symmetric in `pane_recovery`; `pane_live`, which checks liveness, uses
no symmetry, and one byte, since the controls fill its queue too.
Two requests suffice for the lock, since a third only waits; their kinds are one of each
sort (a state, an action, an activity).
Connection: the second pane competes for the one background slot and waits behind the
first; a fault and a signal in either order give a recovery under way when the
network goes, the user returns or a pane closes. For `PageReconnects` it is one or the other, so there no
network return is dropped (`missed`) and no pane is paused: a page that misses its network is excluded, and one that
pauses counts as settled, without the run having met either. Two faults in a row are reached for the
output. There a window as large as the queue overloads it, two bytes split a batch
at the fence, and three restarts and three failed replays are more than two faults use up:
with the smaller window the page never gives up, so that `ScreenCatchesUp` means catching up. For liveness the window is smaller than the
queue, as in the page (1 MiB and 4 MiB): with the larger one `ScreenCatchesUp` fails, since a replay that
overloads while a restart is under way is not restarted, and the attach timeout
only repeats it.

**Deadlock** checking is off in all runs: a stream that ended, a runtime that was
closed and a bounded environment that is used up stop for good. What must go on is stated as
liveness instead.

**Fairness.** Stream: weak fairness of every goroutine, of the agent while it
replays and once it is stopped (`stop` closes its input and kills it after two
seconds), and of the browser's reading of its socket. The agent is never obliged
to produce live output or to end, nor the connection to break. A page may be
throttled, so applying and acknowledging is not assumed; the two properties
that need it state it as their premise (`Responsive`). Workspace: weak
fairness of each goroutine's next step, strong fairness for taking the
daemon's mutex, since `sync.Mutex` does not starve a waiter; a shell need not
end by itself. Pane: weak fairness of its goroutines; a
reader whose connection is closed sees it; browsers do not resize forever (`ResizesEnd`), so
weak fairness is enough; a closed pseudoterminal ends the output.
Browser: one weak fairness for all that the page and the server do by themselves: the event
loop runs some task as long as there is one, and no property needs that a
particular one is chosen, except that the deferred membership pass, a timer that may arm
itself again, gets its turn (`DeferredTimer`).

## 4. Proofs

TLAPS proves the theorems below for every value of the constants that satisfies
the named assumptions of the modules: any number of attachments, requests, panes and epochs,
any limits, any number of faults, and output of any length. A property that the runs check under the same
name is thereby shown beyond the instances of section 3.

| Module | Theorem | Property | Hypotheses |
|---|---|---|---|
| `QueueStreamSafety` | `TypeCorrect` | `TypeOK` | |
| | `HeadroomSuffices` | `HeadroomPreventsOverload` | |
| | `BufferCounted` | `BufferAccounting` | |
| | `WindowAccounted` | `WindowLedger` | |
| | `BurstWhole` | `BurstUnacknowledged` | |
| | `WakeupsKept` | `NoLostWakeup` | |
| | `RefusalsEnd` | `AckRefusedOnlyAfterEnd` | |
| | `BrowserInStep` | `ClientInSync` | `TurnsMatch` |
| `QueueStreamRefinement` | `CreditImplemented` | `ImplementsCreditStream` | `Acking` |
| `PaneOutputProofs` | `PaneTyped` | `TypeOK` | |
| | `SizeOwnerAttached` | `OwnerAttached` | |
| | `QueuesAccounted` | `QueueAccounting` | |
| | `BytesOnce` | `EachByteOnce` | |
| | `ControlsPlaced` | `ControlsInPlace` | |
| | `EpochsAgree` | `EpochAgreement` | |
| `WorkspaceRecoveryProofs` | `RecoveryTyped` | `RecoveryTypeOK` | |
| | `ShownRecoverable` | `LastShownRecoverable` | `Orderly`, `Steady` |
| | `LiveWorkspaceKept` | `LiveNotReplaced` | `Orderly` |
| `WorkspaceProofs` | `WorkspaceTyped` | | `Serial` |
| | `PartitionSafe` | `TabsPartitionPanes` | `Serial` |
| | `IdentitiesFresh` | `FreshIdentities` | `Serial` |
| | `PanesOwned` | `LivePanesOwned` | `Serial` |
| | `ClosedEmpty` | `ClosedStaysEmpty` | `Serial` |
| | `FocusSafe` | `FocusValid` | `Serial`, `~EarlyExit` |
| | `ExitsSettle` | `ExitSettled` | `Serial`, `~EarlyExit` |
| `TerminalOutputProofs` | `OutputInductive` | | |
| | `GridBoundarySafe` | `GridBoundary` | |
| | `ScreenSafe` | `ScreenMatches` | |
| | `AckedSafe` | `AckedParsed` | |
| | `NoLostFlushSafe` | `NoLostFlush` | |
| `UnifiedTransportProofs` | `PageTyped` | | |
| | `ConnectionOwnedSafe` | `ConnectionOwned` | |
| | `StreamsMatchSafe` | `StreamsMatchSessions` | |
| | `SubscribedFirstSafe` | `SubscribedFirst` | |
| | `ReplacesBrokenSafe` | `ReplacesBroken` | |

Each is proved the same way: an inductive invariant that implies it, one
lemma per process or action that the invariant is kept, the lemmas about the data
they share before them. TLC checked each invariant on an instance before it was proved.

**QueueStream.** `TypeInv` is `TypeOK` strengthened by
`ChunkOpen` (in the chunk loop something of the frame is left, so a
chunk's length is positive); byte counts are the point of it:
`bufferBytes \in 0..BufferLimit`. For `HeadroomSuffices` (if one
frame and the pongs fit above the high water mark, the stream is never
overloaded) the reader polls the mark *before* it reads a frame, so `HeadroomInv`
must say what the buffer may hold at each of the
reader's program counters (`BufferBudget`: below the mark before a read, mark
plus what is left of the frame while chunks are queued, each with the pongs so far), and that
the reader's cursor follows the agent's (`CursorFollows`), since a mismatch
also overloads. The code's constants satisfy `Headroom`: mark 3 MiB,
limit 4 MiB, agent frames of at most 512 KiB, which leaves 512 KiB for pongs.

`StreamInv` carries the rest, in layers, each proved from the ones before it:

* `Positions`: buffer, websocket and browser hold one chain of positions without a
  gap (`Joined`), which overload may cut only behind what was sent; a turn ends where
  the websocket is.
* `WindowKept` and `TurnRoom`: the bytes in flight are those of the outstanding
  boundaries and of the turn under way, boundaries ascend between what was
  acknowledged and what was sent, and a turn that is about to be completed finds a place.
* `Awake`: a writer that sleeps, or that goes to sleep without having written, with no token
  in the channel and nobody about to put one there, has nothing it could send.
* `AcksOwed`, `HeldInOrder`, `Membership`: every acknowledgement on its way, every boundary the browser
  holds and every end of a turn it has not read is one the broker waits for, in the
  same order. `AckRefusedOnlyAfterEnd` follows, and without it nothing bounds the
  browser's boundaries.

`TurnsMatch` is `WindowTurns <= ClientTurns`: the broker may have 256 turns outstanding
(`terminalQueueWindowTurns`), the browser keeps 512 (`output_controller.js:776`). With a
smaller window of the browser the property is false.

`CreditImplemented` is the refinement, with the mapping `Stream`: sent is the cursor of the
last frame on the websocket, applied what the browser has applied, or the cursor of the
announced start while the announcement is on its way. `StreamInv` does not say where cursors
are, only how entries join, so `CreditInv` adds it:

* `StartsOnce`, `AgentCursors`, `EntryBytes`, `WireRises`: the replay is announced once and before
  any output; the agent, its reader and the entries agree about cursors, a binary
  entry moves the cursor by the bytes it is accounted for, and on the websocket it never goes back.
* `AckedApplied`: an acknowledgement on its way is of something the browser has applied.
* `BurstBounds` and `BurstHeld`: an admitted burst ends before output beyond the replay is sent, and the
  replay is within the burst limit of what is applied.
* `WindowHeld`: every boundary stands where the bytes in flight say, so a cumulative acknowledgement
  releases no more than what was applied; what is sent and not applied is in flight.
* `TurnHolds`: without a window, what is sent and not applied is a burst and the turn under way.

`CreditStep` then lists how a step may move the two cursors, and each is a step of `CreditStream`.
`Acking` is that the subscription has a flow control: without one nothing is ever acknowledged and
the code bounds nothing, so there is no credit to keep.

**PaneOutput.** `PaneInv` says of each attachment that what its writer has taken, its channel and
its backlog, in this order, bring its browser from where it is to the end
of the output and to the pane's epoch (`Served`, by a path of intermediate points, `BringsBy`), except for
the entry that the output goroutine is just about to queue (`UpTo`) and the resize that
is just being told (`Telling`). The first part of `PaneOutputProofs` has the lemmas about queues: that
`Enqueued`, with its coalescing and its overflow into the backlog, and `Dequeued`, which refills the channel,
keep both the path and the byte count.

**Workspace.** `WorkspaceInv` says who holds the daemon's mutex (`Mutex`), that workspaces and panes are
numbered as they are used (`Counting`), that a pane's name is one its workspace has already given
(`Identified`) and is given back to nobody, that tabs show the names of the workspace's
members, except while one is being loaded (`Gathered`, `Kept`), and what each request knows where it
stands (`InStep`): what it may ask, for which workspace, with which name and started pane, and how
far it has followed the document it restores. Without the last, nothing connects the counter a request read under the
mutex with the pane it enters after the shell has started. `Parted` keeps actions
off a workspace that is being restored, `Owned` says whose the running panes are before and
after they are entered, `Settling` what is left to do for a pane that ended. An operation is described by what it
promises about one workspace (`Legal`, `Calm`, `Grown`), so that closing a tab, moving or resizing one share
one argument, and a step by what it does to panes (`ShrinkStep`, `GrowStep`, `PaneStep`,
`RequestStep`, `ClearStep`).

`Serial` is: there is one connection, or none asks for an action that starts a pane (`create_tab`,
`split_pane`, `restart_pane`). It covers the instances of `workspace_safe` (one request, every
action) and of `workspace_live` (two, none that starts a pane). It is what the Provider's operation lock gives; without it
`workspace_race` refutes `FreshIdentities`, and two requests refute `LivePanesOwned`
(section 5), and `ClosedStaysEmpty`: the same race lets a pane replace another of its name in the pane map, and
`Local.Close` does not find the one replaced (section 5). There the code relies on its cancellation,
which the model leaves out. `~EarlyExit` says that no pane ends while its workspace is being restored:
with such an exit TLC refutes `ExitSettled`, and `FocusValid` for a document whose active tab
is the one that goes.

**WorkspaceRecovery.** `RecoveryInv` says what a request that holds the operation lock
knows (`Knows`): what it loaded is still the document, and the reply it compares is the
agent or the agent has stopped since. `Orderly` excludes failing saves and a setting changed while requests
are under way, `Steady` a document that cannot be read and an agent that stops a second time within one
request; section 5 has the behaviour that refutes the theorem without each of them, so they are what the code
relies on. The proof found that `AfterReply` merged and compared for an
activity of no epoch too, which the code returns from before (`workspace_recovery.go`); the model was corrected.

**TerminalOutput.** `OutputInductive` is the inductive invariant `Good`; TLC checked it on an
instance of 685 647 states before it was proved. Its parts:

* `Lanes`: the worker is asked one thing at a time, the drain waits exactly while it
  writes, and a new grid is asked for by a replay,
  by a fence, or by a connection that has gone. `Stages`: the phase of the replay follows the stage
  of the connection, the queue is of one stream, and what was sent to a browser that is not
  failed was received.
* `Written`: a write of the present stream carries the head of the queue, continues what was
  parsed, and is of the worker's grid.
* `Placed`: the queue continues what is parsed, or will be when the request under way is
  answered; received and applied cursors and acknowledgements say the same.
* `Gridded`: without a fence the queue was printed for the grid that the request under way
  leads to; with one, on the side of the fence where it stands, and later fences in their order.
* `Parsing`: each byte on the screen is the next of the history, on its own grid. `Bounded`: turn
  boundaries ascend up to the turn.

`Placed` and `Gridded` are only claimed of a *bound* queue: a replay is under way, or a
queue of the present stream is left. What belongs to a connection that has gone is exempt,
since the replay that follows discards it; a claim about every queue is not inductive. `ScreenMatches`,
`GridBoundary` and `AckedParsed` follow from `Good`. `NoLostFlush` (output that may move has a
drain or a scheduled flush) is proved on top, through `Flow`: an operation that
empties, refuses or holds back output owes nothing, one that lets it go schedules a flush,
and every other leaves alone what `NoLostFlush` reads.

**UnifiedTransport.** A task is an action, but what it does is a sequence of microtasks, so the
invariant, `Sound`, is one of the page between two *microtasks*, and `PageInductive` says that
it holds, with none left, between tasks. TLC checked it on 1 547 040 states first. Its parts:

* `Owned`: a connection lives if and only if it is the current one; it is watched, has no fence
  beside it, and an expected close implies a fence. This is `ConnectionOwned`, strengthened by what
  the watchdog and the list of closed connections know.
* `Matched`: `StreamsMatchSessions`, with generations that were given.
* `Heard`: an update of the subscriptions that is due is queued, and before the open event of
  every stream that the server was not told of. `SubscribedFirst` alone says nothing of a stream
  whose open event is still queued.
* `Recovering`: a recovery that is said to be scheduled is queued, only without a connection, and
  ahead of every membership pass, which would make one. Otherwise recovery would close
  the connection that the pass has just made.
* `Rested`: a pane that failed too often is paused, and one that is paused has no socket.

Each operator is shown to keep `Sound` (`Sound...`), then each microtask (`SoundRunHead`), then
any number of them (`SoundDrained`), then each task (`...Safe`). For `ReplacesBroken` microtasks keep
the state of every connection (`Steady`): only what a task does at once closes one. That
a probe never finds the current connection closed is a consequence (`NoneNeeded`).

`NatInduction` derives what is needed about sums over sequences from the
naturals, because the induction theorems of the library take an operator as
parameter.

**Only model-checked.** All liveness (beyond the prover: fairness, `ENABLED`), `WorkEnds` of `Workspace` and
`ScreenCatchesUp` of `TerminalOutput` and `PageReconnects` of `UnifiedTransport` too.

## 5. Where code and documents disagree

1. `workspace_race`: `ensureWorkspaceLocked` creates the first tab under the
   daemon's mutex, actions change tabs under the workspace's. Two requests on an
   empty workspace give two panes one identity (`core/README.md:29`).
2. `workspace_final`: whether a failed pane is the final one is decided before
   the lock under which it is removed is taken; two that fail together each see the
   other, both are removed and the failure that was to be kept is lost (`core/workspace.go:214`).
3. `recovery_save`: a failed save after a restoration is logged only, and the
   next request restores again, over living sessions
   (`spec/workspace/restart-restore/AC.md:24`).
4. `recovery_activity`: an activity answer names panes without the generation
   (`spec/workspace/restart-restore/AC.md:7`).

Further disagreements that the models reproduce when a constant is changed:

* `WorkspaceRecovery` with fault `"load"`: a failed load is logged and the request goes on as if
  there were no document (`provider/workspace_recovery.go:192` and `217`). When the agent has stopped,
  its fresh workspace is then saved over the user's and `LastShownRecoverable` fails after one read error
  (`spec/workspace/restart-restore/REQ.md:16`: 再次打开同一普通 LightOS 实例会恢复此前的标签). TLC finds it with one
  request of kind `state`. `LiveNotReplaced` holds with failing loads too.
* `WorkspaceRecovery` with fault `"again"`: the agent stops again between the
  restoration and the repeated action; the action's fresh workspace is saved over
  the user's document and `LastShownRecoverable` fails.
* `WorkspaceRecovery` with fault `"setting"`: the epoch is read before the
  operation lock and used after it; with the setting changed while requests
  wait, `LastShownRecoverable` fails.
* `Workspace` with `EarlyExit = TRUE` and restorations: a pane that ends before
  its tab is entered is neither retained nor removed and `ExitSettled` fails
  (`core/workspace_recovery.go:209`).
* `Workspace` with two requests in `workspace_safe`: an action applied to a
  workspace that a restoration has just replaced starts a shell nobody owns, and
  `LivePanesOwned` fails. The Provider's operation lock gives one request at a time
  per scope while the setting is on, which is what that run assumes.
* `Workspace` with two requests, one of the mix `attach`, `close` and one of `create_tab`, `close_tab`: the
  race of `workspace_race` gives two panes one name, the pane map keeps the second, and after
  `LocalClose` the first still runs: `ClosedStaysEmpty` fails in the model. In the code the
  cancellation (`core/local.go:84`) kills that shell.

Seen in the code while modelling it, and not shown by a run:

* `core/pane_resize.go:92` keeps the new dimensions when `ResizePTY` then fails. The
  browser is told that it may retry (line 266); a retry with the same size finds it
  unchanged, calls nothing and is told as applied to every attachment.
* `runtime_recovery_controller.js` `handleOnline`: an `online` event that falls into the 64 ms after
  a foreground signal is coalesced with it; when that signal came offline, it reconnected
  nothing, and nothing reconnects later unless the user acts. The model records it
  (`missed`) and `PageReconnects` excludes it (`spec/app/network-presentation-recovery/REQ.md:14`).
* `transport_runtime_controller.js:244` calls `appendDebugWarning`, which is not in scope: it throws after
  the retry timer was armed. `terminal_connection_scheduler.js` is used by nothing.
* A write under way when the session connects again fails the worker on its answer, and the
  timer this arms still tears down the new connection when its replay has
  already replaced the worker, though the comment of `session_health_controller.js` says retired
  operations must not restart a healthy replacement.
* A resize fence that arrives while a replay waits for its grid leaves a replay
  without output uncommitted until the attach timeout reconnects.
* `core/pane.go:228`: an attachment between the exit and its retention is told
  that the pane is not retained, though it is a moment later.

## 6. Plan

In order of importance; the modules in section 2 are done.

1. `TerminalResize`: the page's claims and requests for a size against `applyResize` of the pane,
   with a second device; composes with the fence of `TerminalOutput`.
2. `PaneOutput` further: the choice between snapshot and delta with the history's limit,
   retention told to attachments, and the pseudoterminal's size beside the pane's; composition with
   `QueueStream`, whose agent this pane is.
3. `QueueBroker`: rounds over several streams with priorities, replaced subscriptions,
   control messages, stop while input is written; composes with the stream as a black box.
4. The page's workspace controllers: answers that arrive out of order.
5. `LayoutTree`: the pure algorithms of `layout.go` (split, remove, adjacent,
   normalise) against reference definitions over bounded trees. Recursive, TLC only.
6. `AgentRuntime`: installation, upgrade, negotiation and process reconciliation.
7. SSH retained sessions, managed client runtime.

Not planned: byte-level parsers of terminal sequences (their content is the
point, and tests reach it), static assets, platform adapters, rendering and
dialogs of the browser, vendored and generated code.
