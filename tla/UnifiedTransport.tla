--------------------------- MODULE UnifiedTransport ---------------------------
(* The browser's side of the unified transport: one physical WebSocket per   *)
(* page carries a logical stream for every pane of the workspace.  Modelled  *)
(* together, because only together do they reconnect:                        *)
(*   terminal_queue_connection.js      a physical socket and its streams;    *)
(*   unified_transport_controller.js   who owns the current connection, its  *)
(*                                     close fence, recovery, preconnection; *)
(*   terminal_unified_health.js        the watchdog;                         *)
(*   transport_runtime_controller.js   membership, gates, stream retries;    *)
(*   session_protocol_controller.js    a pane's socket and its replay;       *)
(*   runtime_recovery_controller.js    online, offline, focus, gesture.      *)
(* A page runs one task at a time and drains the microtasks the task queued  *)
(* before the next: "micro" is that queue, in order, and an action is a task *)
(* of the network, of a timer or of the user with all its microtasks.        *)
EXTENDS Naturals, FiniteSets, Sequences

CONSTANTS Pane,             \* the panes of the workspace, in visual order
          Active,           \* the pane that has the keyboard
          Visible,          \* the panes of the tab that is shown
          BackgroundSlots,  \* background replays at a time
          PauseLimit,       \* replays that may fail before the pane pauses
          MicroLimit,       \* bound: microtasks of one task
          Troubles          \* bounds: pairs of the faults of the network and
                            \* of the server, and of the times the network
                            \* goes, the user returns or closes a pane

ASSUME PageAssumption ==
    /\ Pane \subseteq Nat /\ IsFiniteSet(Pane)
    /\ PauseLimit \in Nat \ {0}
    /\ MicroLimit \in Nat
    /\ Troubles \subseteq Nat \X Nat

VARIABLE page   \* the controllers, their sockets, the faults and signals to come

None == 0
Connections == DOMAIN page.conns

(* A physical connection: the WebSocket, whether the server said queue-ready *)
(* and whether the path to it silently died; the streams the page opened and *)
(* the subscriptions it last sent, and whether an update is due.             *)
NewConnection == [ws |-> "connecting", ready |-> FALSE, lost |-> FALSE,
                  streams |-> {}, sent |-> {}, update |-> FALSE]
Disposed(c) == c.ws \in {"closing", "closed"}

NewPane == [alive |-> FALSE, sized |-> FALSE, gen |-> 0, sock |-> None,
            opened |-> FALSE, told |-> FALSE, pending |-> FALSE, retry |-> FALSE,
            replay |-> "idle", fails |-> 0, paused |-> FALSE]

PageStart(trouble) ==
    [online |-> TRUE, events |-> <<>>, micro |-> <<>>,
     conns |-> <<>>, conn |-> None, closed |-> {},
     fence |-> None, expected |-> FALSE, syncWait |-> FALSE,
     recovery |-> "idle", again |-> FALSE, watch |-> None, ticking |-> FALSE,
     panes |-> [p \in Pane |-> NewPane], gens |-> 0,
     sync |-> FALSE, later |-> FALSE, wait |-> "none",
     throttled |-> FALSE, onlineWait |-> FALSE, missed |-> FALSE,
     slow |-> FALSE, boot |-> TRUE, prepared |-> None,
     faults |-> trouble[1], signals |-> trouble[2]]

PageInit == \E trouble \in Troubles : page = PageStart(trouble)

-----------------------------------------------------------------------------
(* Panes: what a session does when its logical socket closes.                *)

Later(w, task) == [w EXCEPT !.micro = Append(@, task)]

ScheduleSync(w) ==
    IF w.sync THEN w ELSE [Later(w, <<"sync">>) EXCEPT !.sync = TRUE]

Member(w, p) == w.panes[p].alive
Restoring(w, p) == w.panes[p].replay # "committed" /\ ~w.panes[p].paused

(* The session forgets its socket, its stream identity and its replay.       *)
SocketForgotten(s) == [s EXCEPT !.sock = None, !.gen = 0, !.opened = FALSE,
                         !.told = FALSE, !.pending = FALSE, !.replay = "idle"]

(* A retry of the stream is armed unless the pane is gone or paused; offline *)
(* nothing is armed.                                                         *)
Retried(w, s) ==
    IF ~s.alive \/ s.paused THEN s ELSE [s EXCEPT !.retry = w.online]

(* The close event of a pane's logical socket: when the shared connection is *)
(* known to be lost its owner recovers, otherwise the pane retries.          *)
StreamClosed(w, s) ==
    IF s.sock \in w.closed THEN SocketForgotten(s)
    ELSE Retried(w, SocketForgotten(s))

ScheduleSubscriptions(w, c) ==
    IF w.conns[c].update THEN w
    ELSE [Later(w, <<"subs", c>>) EXCEPT !.conns[c].update = TRUE]

(* logicalSocket.close for one pane                                          *)
CloseStream(w, p) ==
    LET s == w.panes[p]
        c == s.sock
        gone == [w EXCEPT !.conns[c].streams = @ \ {<<p, s.gen>>},
                          !.panes[p] = StreamClosed(w, s)] IN
    IF Disposed(w.conns[c]) THEN gone ELSE ScheduleSubscriptions(gone, c)

Owners(w, c) == {p \in Pane : w.panes[p].sock = c}

(* Every logical stream of a connection closes.                              *)
ForgetStreams(w, c) == [w EXCEPT !.conns[c].streams = {}]
CloseAllStreams(w, c) ==
    [w EXCEPT !.conns[c].streams = {},
              !.panes = [p \in Pane |-> IF p \in Owners(w, c)
                                        THEN StreamClosed(w, w.panes[p])
                                        ELSE w.panes[p]]]

(* connection.close                                                          *)
CloseConnection(w, c) ==
    IF Disposed(w.conns[c]) THEN w
    ELSE CloseAllStreams([w EXCEPT !.conns[c].ws = "closing",
                                   !.conns[c].ready = FALSE], c)

-----------------------------------------------------------------------------
(* The owner of the physical connection.                                     *)

(* The fence a new connection waits for: the old one closed, or 500 ms.      *)
RegisterFence(w, c) ==
    LET f == [w EXCEPT !.fence = c] IN
    IF w.conns[c].ws = "closed" THEN Later(f, <<"fence">>) ELSE f

CloseTransport(w) ==
    IF w.conn = None THEN w
    ELSE LET c == w.conn
             f == RegisterFence([w EXCEPT !.conn = None, !.expected = TRUE,
                                 !.watch = None, !.ticking = FALSE], c) IN
         CloseConnection([f EXCEPT !.closed = @ \union {c}], c)

ScheduleRecovery(w) ==
    IF ~w.online THEN w
    ELSE IF w.recovery # "idle" THEN [w EXCEPT !.again = TRUE]
    ELSE [Later(w, <<"recover">>) EXCEPT !.recovery = "scheduled"]

(* handlePhysicalDisconnect: the connection is taken out of use, its streams *)
(* close as shared loss and recovery is scheduled, once per connection.      *)
Disconnected(w, c, alsoClose) ==
    IF c \in w.closed THEN w
    ELSE LET fenced == IF w.fence = None THEN RegisterFence(w, c) ELSE w
             out == [fenced EXCEPT !.closed = @ \union {c}, !.watch = None,
                                   !.conn = IF @ = c THEN None ELSE @]
             shut == CloseAllStreams(out, c) IN
         ScheduleRecovery(IF alsoClose THEN CloseConnection(shut, c) ELSE shut)

(* The watchdog gives a connection up: it is disconnected, then closed.      *)
CloseUnhealthy(w, c) == CloseConnection(Disconnected(w, c, FALSE), c)

(* ensure: the current connection, or a new one unless a fence is up.        *)
NewCurrent(w) ==
    LET c == Len(w.conns) + 1 IN
    [w EXCEPT !.conns = Append(@, NewConnection), !.conn = c,
              !.watch = c, !.ticking = TRUE]
EnsuredAtOnce(w) == IF w.conn = None THEN NewCurrent(w) ELSE w
Ensured(w) ==
    IF w.fence # None THEN w
    ELSE IF w.conn # None
         THEN IF Disposed(w.conns[w.conn]) THEN CloseTransport(w) ELSE w
    ELSE NewCurrent(w)

NotOpen(w) == w.conn # None /\ w.conns[w.conn].ws # "open"
NeedsRecovery(w) ==
    /\ w.conn # None
    /\ w.conns[w.conn].ws = "closed"
    /\ \E p \in Pane : Member(w, p)

(* reconnectWorkspaceSessions with the refresh of the membership before it.  *)
Reconnect(w, set) ==
    ScheduleSync([w EXCEPT !.panes =
        [p \in Pane |-> IF p \in set /\ w.panes[p].paused
                        THEN [w.panes[p] EXCEPT !.paused = FALSE, !.fails = 0]
                        ELSE w.panes[p]]])

-----------------------------------------------------------------------------
(* reconcileUnifiedMembership: which panes open their stream now.            *)

Background(p) == p \notin Visible
Wanting(w) == {p \in Pane : /\ Member(w, p)
                            /\ w.panes[p].sock = None
                            /\ ~w.panes[p].pending
                            /\ ~w.panes[p].paused}

(* The wait of the visible panes: none, less or more than 20 s.              *)
ForegroundWait(w) ==
    IF \E p \in Visible : Member(w, p) /\ Restoring(w, p)
    THEN IF w.wait = "none" THEN "recent" ELSE w.wait
    ELSE "none"

BackgroundBusy(w) ==
    Cardinality({p \in Pane : /\ Member(w, p) /\ Background(p)
                              /\ w.panes[p].sock # None \/ w.panes[p].pending
                              /\ Restoring(w, p)})

(* A pane is held back for the input pane, or for every visible pane.        *)
HeldFor(w, p) ==
    /\ w.wait = "recent"
    /\ p # Active
    /\ Background(p) \/ (Member(w, Active) /\ Restoring(w, Active))

Connectable(w) == {p \in Wanting(w) : /\ ~HeldFor(w, p)
                                      /\ w.panes[p].sized
                                      /\ ~w.panes[p].retry}

Before(p, q) ==
    \/ ~Background(p) /\ Background(q)
    \/ (Background(p) <=> Background(q)) /\ p < q

(* The background panes that find a slot, in order.                          *)
Admitted(w) ==
    {p \in Connectable(w) : Background(p) =>
        BackgroundBusy(w) + Cardinality({q \in Connectable(w) :
            Background(q) /\ Before(q, p)}) < BackgroundSlots}

Crowded(w, p) == Background(p) /\ p \in Connectable(w) \ Admitted(w)

AnnouncedLate(w, c, tasks) ==
    ScheduleSubscriptions([w EXCEPT !.micro = @ \o tasks], c)
Announced(w, c, tasks) ==
    [ScheduleSubscriptions(w, c) EXCEPT !.micro = @ \o tasks]

(* The panes of a set in order, and the generation each gets.                *)
Rank(set, p) == Cardinality({q \in set : Before(q, p)})
InOrder(set) == [i \in 1 .. Cardinality(set) |-> CHOOSE p \in set : Rank(set, p) = i - 1]
NextGen(w, set, p) == w.gens + Rank(set, p) + 1

(* Streams open in order, each under a generation of its own; the update of  *)
(* the subscriptions is queued before the open event of the first.           *)
WithStreams(w, set) ==
    [w EXCEPT !.gens = @ + Cardinality(set),
              !.conns[w.conn].streams = @ \union {<<p, NextGen(w, set, p)>> : p \in set},
              !.panes = [p \in Pane |->
                  IF p \in set
                  THEN [w.panes[p] EXCEPT !.sock = w.conn, !.gen = NextGen(w, set, p),
                                          !.pending = TRUE, !.replay = "idle"]
                  ELSE w.panes[p]]]
Told(w, set, kind) ==
    [i \in 1 .. Cardinality(set) |->
        LET p == InOrder(set)[i] IN <<kind, p, NextGen(w, set, p)>>]
OpenStreams(w, set) ==
    IF set = {} THEN w
    ELSE Announced(WithStreams(w, set), w.conn,
                   Told(w, set, "opened") \o Told(w, set, "settled"))

HeldBack(w, set) ==
    \E p \in Wanting(w) : \/ HeldFor(w, p) \/ ~w.panes[p].sized
                          \/ Background(p) /\ p \in Connectable(w) \ set

ConnectStreams(w, set) ==
    IF w.conn = None THEN [w EXCEPT !.syncWait = TRUE]
    ELSE IF ~w.conns[w.conn].ready THEN w
    ELSE OpenStreams(w, set)

(* The one page after a pass, as a set: its parts are computed once.         *)
Reconciled(w) ==
    IF ~w.online THEN {w}
    ELSE LET pass(v, set) ==
                 LET d == [v EXCEPT !.later = @ \/ HeldBack(v, set)] IN
                 IF set = {} THEN {d}
                 ELSE {ConnectStreams(e, set) : e \in {Ensured(d)}} IN
         UNION {UNION {pass(v, set) : set \in {Admitted(v)}} :
                v \in {[w EXCEPT !.wait = ForegroundWait(w)]}}

-----------------------------------------------------------------------------
(* Microtasks.                                                               *)

(* The fence is over: the reason of the close and the fence are forgotten    *)
(* and whoever waited goes on.                                               *)
FenceDropped(w) == [w EXCEPT !.fence = None, !.expected = FALSE]
FenceOver(w) ==
    LET f == [w EXCEPT !.fence = None, !.expected = FALSE, !.syncWait = FALSE]
        s == IF w.syncWait THEN ScheduleSync(f) ELSE f
        r == IF w.recovery = "waiting" THEN Later(s, <<"resume">>) ELSE s IN
    IF w.onlineWait THEN Later(r, <<"online">>) ELSE r

Recover(w) ==
    IF ~w.online THEN [w EXCEPT !.recovery = "idle"]
    ELSE LET c == CloseTransport([w EXCEPT !.recovery = "waiting"]) IN
         IF c.fence = None THEN Later(c, <<"resume">>) ELSE c

Resume(w) ==
    LET e == [w EXCEPT !.expected = FALSE, !.recovery = "idle",
                       !.again = FALSE]
        r == IF w.online THEN Reconnect(e, Pane) ELSE e IN
    IF w.again /\ w.online /\ NeedsRecovery(r) THEN ScheduleRecovery(r) ELSE r

(* The tail of handleOnline, unless a later signal made it stale.            *)
Online(w) ==
    IF ~w.onlineWait \/ ~w.online THEN [w EXCEPT !.onlineWait = FALSE]
    ELSE Reconnect([w EXCEPT !.onlineWait = FALSE, !.expected = FALSE], Pane)

Subscribe(w, c) ==
    IF Disposed(w.conns[c]) \/ ~w.conns[c].update THEN w
    ELSE [w EXCEPT !.conns[c].update = FALSE,
                   !.conns[c].sent = w.conns[c].streams]

IsStream(w, p, g) == w.panes[p].sock # None /\ w.panes[p].gen = g

(* The open event: timers start and the theme and the size are sent, which   *)
(* the broker takes only for a stream it was told of.                        *)
Opened(w, p, g) ==
    IF IsStream(w, p, g)
    THEN [w EXCEPT !.panes[p].opened = TRUE,
                   !.panes[p].told = <<p, g>> \in w.conns[w.panes[p].sock].sent]
    ELSE w

(* The end of the connect promise.                                           *)
Settled(w, p, g) ==
    IF w.panes[p].gen = g THEN [w EXCEPT !.panes[p].pending = FALSE] ELSE w

RunTask(w, t) ==
    CASE t[1] = "sync"    -> Reconciled([w EXCEPT !.sync = FALSE])
      [] t[1] = "fence"   -> {FenceOver(w)}
      [] t[1] = "recover" -> {Recover(w)}
      [] t[1] = "resume"  -> {Resume(w)}
      [] t[1] = "online"  -> {Online(w)}
      [] t[1] = "subs"    -> {Subscribe(w, t[2])}
      [] t[1] = "opened"  -> {Opened(w, t[2], t[3])}
      [] t[1] = "settled" -> {Settled(w, t[2], t[3])}

(* A task does what it does, then the microtasks run until none is left.     *)
RunHead(w) ==
    IF w.micro = <<>> THEN {w}
    ELSE RunTask([w EXCEPT !.micro = Tail(@)], Head(w.micro))
Drained(w) ==
    LET after[n \in 0 .. MicroLimit] ==
            IF n = 0 THEN {w} ELSE UNION {RunHead(v) : v \in after[n - 1]} IN
    {v \in after[MicroLimit] : v.micro = <<>>}

-----------------------------------------------------------------------------
(* Tasks: the network.                                                       *)

Task(w) == \E v \in {w} : page' \in Drained(v)
Fault(w) == page.faults > 0 /\ Task([w EXCEPT !.faults = @ - 1])

Signal(w) == page.signals > 0 /\ Task([w EXCEPT !.signals = @ - 1])

Reachable(c) == page.online /\ ~page.conns[c].lost

(* The open event and the queue-ready message of the current connection      *)
(* probe it and ask for a membership pass.                                   *)
SocketOpen(c) ==
    /\ page.conns[c].ws = "connecting"
    /\ Reachable(c)
    /\ LET o == [page EXCEPT !.conns[c].ws = "open",
                             !.conns[c].update = FALSE] IN
       Task(IF c = page.conn THEN ScheduleSync(o) ELSE o)

ServerReady(c) ==
    /\ page.conns[c].ws = "open"
    /\ ~page.conns[c].ready
    /\ Reachable(c)
    /\ LET r == [page EXCEPT !.conns[c].ready = TRUE] IN
       Task(IF c = page.conn THEN ScheduleSync(r) ELSE r)

(* The close event of the WebSocket.                                         *)
SocketClosed(w, c) ==
    LET s == [w EXCEPT !.conns[c].ws = "closed", !.conns[c].ready = FALSE]
        d == IF w.conn = c /\ ~w.expected THEN Disconnected(s, c, FALSE) ELSE s
        z == CloseAllStreams(d, c) IN
    IF w.fence = c THEN Later(z, <<"fence">>) ELSE z

CloseEvent(c) ==
    /\ page.conns[c].ws = "closing"
    /\ Task(SocketClosed(page, c))

ConnectFails(c) ==
    /\ page.conns[c].ws = "connecting"
    /\ ~page.online
    /\ Task(SocketClosed(page, c))

Drop(c) ==
    /\ page.conns[c].ws \in {"connecting", "open"}
    /\ Fault(SocketClosed(page, c))

(* An error event or a queue-error message is for the first stream, and is   *)
(* ignored while there is none.                                              *)
SocketError(c) ==
    /\ page.conns[c].ws = "open"
    /\ page.conns[c].streams # {}
    /\ Fault(IF c = page.conn THEN Disconnected(page, c, TRUE) ELSE page)

Lose(c) ==
    /\ ~Disposed(page.conns[c])
    /\ ~page.conns[c].lost
    /\ Fault([page EXCEPT !.conns[c].lost = TRUE])

(* 500 ms pass before the old connection reports its close.                  *)
FenceTimeout ==
    /\ page.fence # None
    /\ Task(Later(page, <<"fence">>))

(* A tick of the watchdog that finds something: nothing to watch, a          *)
(* connection that stopped answering, or a closed one.                       *)
WatchdogTick ==
    /\ page.ticking
    /\ page.online
    /\ \/ /\ page.watch = None
          /\ Task(ScheduleRecovery(page))
       \/ /\ page.watch # None
          /\ page.conns[page.watch].lost
          /\ page.conns[page.watch].ws # "closed"
          /\ Task(CloseUnhealthy(page, page.watch))
       \/ /\ page.watch # None
          /\ page.conns[page.watch].ws = "closed"
          /\ Task(ScheduleRecovery(page))

-----------------------------------------------------------------------------
(* Tasks: the server and the replay of a pane.                               *)

Subscribed(p) ==
    LET s == page.panes[p] IN
    /\ s.sock # None
    /\ page.conns[s.sock].ws = "open"
    /\ Reachable(s.sock)
    /\ <<p, s.gen>> \in page.conns[s.sock].sent

ReplayBegins(p) ==
    /\ Subscribed(p)
    /\ page.panes[p].replay = "idle"
    /\ Task([page EXCEPT !.panes[p].replay = "replaying"])

ReplaySent(p) ==
    /\ Subscribed(p)
    /\ page.panes[p].replay = "replaying"
    /\ Task([page EXCEPT !.panes[p].replay = "awaiting"])

(* The terminal drained the replay: it is committed, its failures are        *)
(* forgotten and the panes that waited for it are looked at.                 *)
ReplayCommit(p) ==
    /\ page.panes[p].replay = "awaiting"
    /\ Task(ScheduleSync([page EXCEPT !.panes[p].replay = "committed",
                                      !.panes[p].fails = 0,
                                      !.panes[p].paused = FALSE,
                                      !.panes[p].retry = FALSE]))

(* recycleUnifiedSession: the stream closes and is retried.                  *)
Recycled(w, p) ==
    LET c == CloseStream(w, p) IN
    [c EXCEPT !.panes[p] = Retried(c, @)]

(* A replay that does not validate, or a connection-error: counted until the *)
(* replay committed; at the limit the pane pauses until the user returns.    *)
ReplayFails(p) ==
    /\ Subscribed(p)
    /\ LET s == page.panes[p]
           n == IF s.replay = "committed" THEN s.fails ELSE s.fails + 1
           f == [page EXCEPT !.panes[p].fails = n,
                             !.panes[p].paused = @ \/ n = PauseLimit] IN
       Fault(IF n = PauseLimit THEN CloseStream(f, p) ELSE Recycled(f, p))

(* Nothing usable arrived within the attach timeout.                         *)
AttachTimedOut(p) ==
    /\ page.panes[p].opened
    /\ page.panes[p].replay # "committed"
    /\ Fault(Recycled(page, p))

RetryTimer(p) ==
    /\ page.panes[p].retry
    /\ Task(ScheduleSync([page EXCEPT !.panes[p].retry = FALSE]))

DeferredTimer ==
    /\ page.later
    /\ \E w \in Reconciled([page EXCEPT !.later = FALSE]) : Task(w)

ForegroundTooLong ==
    /\ page.wait = "recent"
    /\ Task([page EXCEPT !.wait = "long"])

-----------------------------------------------------------------------------
(* Tasks: the user and the operating system.                                 *)

(* The terminal of a pane has a size: the connection it wants is requested.  *)
BackendReady(p) ==
    /\ ~page.panes[p].sized
    /\ page.panes[p].alive
    /\ Task(ScheduleSync([page EXCEPT !.panes[p].sized = TRUE]))

(* A pane is closed or its shell ended: it leaves the membership.            *)
ClosePane(p) ==
    /\ page.panes[p].alive
    /\ LET d == [page EXCEPT !.panes[p].alive = FALSE,
                             !.panes[p].retry = FALSE] IN
       Signal(ScheduleSync(IF d.panes[p].sock = None THEN d
                           ELSE CloseStream(d, p)))

(* The page starts: prepare connects before the first pane does, and what it *)
(* prepared is closed if the workspace does not come and nothing adopted it. *)
Prepare ==
    /\ page.boot
    /\ page.prepared = None
    /\ page.online /\ page.conn = None /\ page.fence = None
    /\ LET e == Ensured(page) IN Task([e EXCEPT !.prepared = e.conn])

CancelPrepared ==
    /\ page.boot
    /\ page.prepared # None
    /\ page.conn = page.prepared
    /\ page.conns[page.conn].streams = {}
    /\ Fault(CloseTransport(page))

(* The workspace arrives, at first or by a retry, and its panes are made.    *)
WorkspaceApplied ==
    /\ page.boot
    /\ Task([page EXCEPT !.boot = FALSE,
                         !.panes = [p \in Pane |-> [@[p] EXCEPT !.alive = TRUE]]])

(* navigator.onLine changes, and the event that tells is a task of its own.  *)
NetworkChanges ==
    /\ LET w == [page EXCEPT !.online = ~@, !.events = Append(@,
                      IF page.online THEN "offline" ELSE "online")] IN
       IF page.online THEN Signal(w) ELSE Task(w)

(* An accepted foreground signal opens the 64 ms window in which the next is *)
(* coalesced, and makes the tail of an earlier one stale.                    *)
Accepted(w) == [w EXCEPT !.throttled = TRUE, !.onlineWait = FALSE,
                         !.missed = FALSE]

HandleOnline(w) ==
    IF w.throttled THEN [w EXCEPT !.missed = TRUE]
    ELSE LET a == [Accepted(w) EXCEPT !.onlineWait = TRUE]
             probed == IF NeedsRecovery(a) THEN ScheduleRecovery(a) ELSE a IN
         IF probed.fence = None THEN Later(probed, <<"online">>) ELSE probed

HandleOffline(w) ==
    CloseTransport([w EXCEPT !.throttled = FALSE, !.onlineWait = FALSE,
        !.panes = [p \in Pane |-> [w.panes[p] EXCEPT !.retry = FALSE]]])

NetworkEvent ==
    /\ page.events # <<>>
    /\ LET w == [page EXCEPT !.events = Tail(@)] IN
       Task(IF Head(page.events) = "online" THEN HandleOnline(w)
            ELSE HandleOffline(w))

(* recoverUnifiedTransport: probe the connection, or recover without one.    *)
Probed(w) ==
    IF w.conn = None /\ \E p \in Pane : Member(w, p) THEN ScheduleRecovery(w)
    ELSE IF NeedsRecovery(w) THEN ScheduleRecovery(w) ELSE w


(* focus, visibilitychange and pageshow                                      *)
Foreground ==
    Signal(IF page.throttled THEN page
           ELSE IF ~page.online THEN Accepted(page)
           ELSE Reconnect(Probed(Accepted(page)), Visible))

(* A gesture is never coalesced, but at most one counts in 1.5 s.            *)
Gesture ==
    /\ ~page.slow
    /\ LET g == [Accepted(page) EXCEPT !.slow = TRUE] IN
       Signal(IF page.online THEN Reconnect(g, Visible) ELSE g)

WindowEnds ==
    \/ page.throttled /\ Task([page EXCEPT !.throttled = FALSE])
    \/ page.slow /\ ~page.throttled /\ Task([page EXCEPT !.slow = FALSE])

-----------------------------------------------------------------------------
ConnectionSteps(c) ==
    \/ SocketOpen(c) \/ ServerReady(c) \/ CloseEvent(c) \/ ConnectFails(c)

PaneSteps(p) ==
    \/ ReplayBegins(p) \/ ReplaySent(p) \/ ReplayCommit(p)
    \/ RetryTimer(p) \/ BackendReady(p)

(* What happens by itself; the rest is faults and choices of the user.       *)
PageProgress ==
    \/ \E c \in Connections : ConnectionSteps(c)
    \/ \E p \in Pane : PaneSteps(p)
    \/ WatchdogTick \/ FenceTimeout \/ ForegroundTooLong
    \/ NetworkEvent \/ WindowEnds \/ WorkspaceApplied

PageNext ==
    \/ PageProgress
    \/ DeferredTimer
    \/ \E c \in Connections : Drop(c) \/ SocketError(c) \/ Lose(c)
    \/ \E p \in Pane : ReplayFails(p) \/ AttachTimedOut(p) \/ ClosePane(p)
    \/ Prepare \/ CancelPrepared \/ NetworkChanges \/ Foreground \/ Gesture

PageSpec == PageInit /\ [][PageNext]_page

(* The event loop runs some task as long as there is one, and the deferred   *)
(* pass, which arms itself again, in its turn: fairness to every timer and   *)
(* every answer of the server is not needed.                                 *)
PageFairness == WF_page(PageProgress) /\ WF_page(DeferredTimer)
PageFairSpec == PageSpec /\ PageFairness

-----------------------------------------------------------------------------
(* Properties *)

SocketStates == {"connecting", "open", "closing", "closed"}

(* Every part of the page's state keeps its type.                            *)
PageTypeOK ==
    /\ page.conn \in {None} \union Connections
    /\ page.fence \in {None} \union Connections
    /\ page.closed \subseteq Connections
    /\ page.micro = <<>>
    /\ page.recovery \in {"idle", "waiting"}
    /\ page.wait \in {"none", "recent", "long"}
    /\ \A c \in Connections :
         /\ page.conns[c].ws \in SocketStates
         /\ page.conns[c].streams \subseteq Pane \X (1 .. page.gens)
         /\ page.conns[c].sent \subseteq Pane \X (1 .. page.gens)
    /\ \A p \in Pane :
         /\ page.panes[p].sock \in {None} \union Connections
         /\ page.panes[p].gen \in 0 .. page.gens
         /\ page.panes[p].fails \in 0 .. PauseLimit
         /\ page.panes[p].replay \in
              {"idle", "replaying", "awaiting", "committed"}

(* Between tasks a page has one live physical connection at most, the one it *)
(* uses: none is left open behind its back, the current one is never closing *)
(* or closed nor next to a fence, and no close of it is taken as an expected *)
(* one and ignored (unified_transport_controller.js:350).                    *)
ConnectionOwned ==
    /\ \A c \in Connections : Disposed(page.conns[c]) \/ c = page.conn
    /\ page.conn # None =>
         /\ page.fence = None /\ ~page.expected
         /\ page.conn \notin page.closed
         /\ ~Disposed(page.conns[page.conn])

(* A pane has a socket exactly while the connection it is on holds a stream  *)
(* of its generation, and that connection is the current one: no stream is   *)
(* left without a session and no pane is attached twice.                     *)
StreamsMatchSessions ==
    /\ \A c \in Connections : page.conns[c].streams =
         {<<p, page.panes[p].gen>> : p \in Owners(page, c)}
    /\ \A p \in Pane : page.panes[p].sock \in {None, page.conn}

(* A pane opens, and sends its theme and size, only after the subscription   *)
(* of its stream was sent (terminal_queue_connection.js:588).                *)
SubscribedFirst == \A p \in Pane : page.panes[p].opened => page.panes[p].told

(* Recovery replaces what broke: a connection that works is closed only when *)
(* the network was reported gone or something failed, and the next one       *)
(* opens with no fence left.                                                 *)
ReplacesBrokenStep ==
    \A c \in Connections :
        page.conns[c].ws \in {"connecting", "open"} /\ Disposed(page'.conns[c])
        => \/ page'.faults < page.faults \/ page.conns[c].lost
           \/ page.events # <<>> /\ Head(page.events) = "offline"
           \/ ~page.online
ReplacesBroken == [][ReplacesBrokenStep]_page

NetworkThere == page.online /\ ~page.missed
Settling == ~page.boot /\ \A p \in Pane :
    page.panes[p].alive => page.panes[p].replay = "committed" \/ page.panes[p].paused

(* With a network that stays, whatever failed before, every pane is attached *)
(* and replayed, or paused for the user, for good; unless the signal that    *)
(* the network returned was coalesced with an earlier one.                   *)
Reconnects == <>[]NetworkThere => <>[]Settling
=============================================================================
