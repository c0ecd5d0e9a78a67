----------------------- MODULE UnifiedTransportProofs -----------------------
(***************************************************************************)
(* Proofs about UnifiedTransport, for any panes, any number of faults and  *)
(* signals and any number of microtasks a task queues: a page has one live *)
(* connection, whose streams are those of its panes, opens no stream that  *)
(* the server was not told of, and closes no connection that works.        *)
(*                                                                         *)
(* The invariant Sound holds between microtasks too.  What it is made of   *)
(* comes first, then what keeps it, then each microtask and each task.     *)
(***************************************************************************)
EXTENDS UnifiedTransport, NatInduction, FiniteSetTheorems, SequenceTheorems

-----------------------------------------------------------------------------
\* What a page is made of.

\* The fields of a page, and a page that has exactly these.
PageFields ==
    {"online", "events", "micro", "conns", "conn", "closed", "fence", "expected",
     "syncWait", "recovery", "again", "watch", "ticking", "panes", "gens", "sync",
     "later", "wait", "throttled", "onlineWait", "missed", "slow", "boot", "prepared",
     "faults", "signals"}
Made(w) == w = [f \in PageFields |-> w[f]]

\* Typed data: a physical connection, the session of a pane, a microtask.
Streams == Pane \X Nat
Connection == [ws : SocketStates, ready : BOOLEAN, lost : BOOLEAN,
               streams : SUBSET Streams, sent : SUBSET Streams, update : BOOLEAN]
Session == [alive : BOOLEAN, sized : BOOLEAN, gen : Nat, sock : Nat, opened : BOOLEAN,
            told : BOOLEAN, pending : BOOLEAN, retry : BOOLEAN,
            replay : {"idle", "replaying", "awaiting", "committed"},
            fails : Nat, paused : BOOLEAN]
Plain == {"sync", "fence", "recover", "resume", "online"}
IsTask(t) ==
    \/ \E k \in Plain : t = <<k>>
    \/ \E c \in Nat : t = <<"subs", c>>
    \/ \E k \in {"opened", "settled"}, p \in Pane, g \in Nat : t = <<k, p, g>>

-----------------------------------------------------------------------------
\* The inductive invariant, of a page between two tasks or two microtasks.

\* Every field that the invariant reads has its type.
Typed(w) ==
    /\ Made(w)
    /\ w.online \in BOOLEAN /\ w.expected \in BOOLEAN
    /\ w.recovery \in {"idle", "scheduled", "waiting"}
    /\ w.wait \in {"none", "recent", "long"}
    /\ w.conns \in Seq(Connection)
    /\ w.conn \in 0 .. Len(w.conns) /\ w.fence \in 0 .. Len(w.conns)
    /\ w.gens \in Nat /\ w.faults \in Nat /\ w.events \in Seq({"online", "offline"})
    /\ w.panes \in [Pane -> Session]

\* What was queued can be run: it is a task, of a connection that was made and
\* of a generation that was given.
QueuedOf(micro, n, gens) ==
    /\ micro = [i \in 1 .. Len(micro) |-> micro[i]] /\ Len(micro) \in Nat
    /\ \A i \in 1 .. Len(micro) :
         /\ IsTask(micro[i])
         /\ micro[i][1] = "subs" => micro[i][2] \in 1 .. n
         /\ micro[i][1] = "opened" => micro[i][3] \in 1 .. gens
Queued(w) == QueuedOf(w.micro, Len(w.conns), w.gens)

\* One connection lives, the current one: it is watched, no fence is up beside
\* it, and its close would not be taken as expected.
OwnedOf(conns, conn, closed, fence, expected, watch) ==
    /\ closed = DOMAIN conns \ {conn}
    /\ \A c \in DOMAIN conns : Disposed(conns[c]) <=> c # conn
    /\ conn # None => fence = None
    /\ expected => fence # None
    /\ watch = conn
Owned(w) == OwnedOf(w.conns, w.conn, w.closed, w.fence, w.expected, w.watch)

\* A connection holds the streams of the panes that are on it, which is the
\* current one, under generations that were given.
MatchedOf(conns, conn, panes, gens) ==
    /\ \A c \in DOMAIN conns :
         /\ conns[c].streams = {<<p, panes[p].gen>> : p \in {q \in Pane : panes[q].sock = c}}
         /\ conns[c].sent \subseteq Pane \X (1 .. gens)
    /\ \A p \in Pane :
         /\ panes[p].sock \in {None, conn}
         /\ panes[p].gen \in 0 .. gens
         /\ panes[p].sock # None => panes[p].gen # 0
Matched(w) == MatchedOf(w.conns, w.conn, w.panes, w.gens)

\* An update that is due is queued, and before every open event of a stream
\* that the server was not yet told of.
SubsBefore(micro, c, i) == \E j \in 1 .. (i - 1) : micro[j][1] = "subs" /\ micro[j][2] = c
HeardOf(conns, conn, panes, micro) ==
    /\ conn # None /\ conns[conn].update => SubsBefore(micro, conn, Len(micro) + 1)
    /\ \A i \in 1 .. Len(micro) :
         /\ micro[i][1] = "opened"
         /\ panes[micro[i][2]].sock # None /\ panes[micro[i][2]].gen = micro[i][3]
         => \/ <<micro[i][2], micro[i][3]>> \in conns[conn].sent
            \/ conns[conn].update /\ SubsBefore(micro, conn, i)
    /\ \A p \in Pane : panes[p].opened => panes[p].told
Heard(w) == HeardOf(w.conns, w.conn, w.panes, w.micro)

\* Recovery is queued when it is said to be, and only without a connection and
\* ahead of whatever would make one.
RecoveringOf(micro, conn, recovery) ==
    /\ recovery = "scheduled" => \E i \in 1 .. Len(micro) : micro[i][1] = "recover"
    /\ \A i \in 1 .. Len(micro) : micro[i][1] = "recover" =>
         conn = None /\ \A j \in 1 .. (i - 1) : micro[j][1] # "sync"
Recovering(w) == RecoveringOf(w.micro, w.conn, w.recovery)

\* A pane that failed too often is paused, one that is paused has no socket, and
\* one that opened still has it.
RestedOf(panes) ==
    \A p \in Pane :
        /\ panes[p].fails \in 0 .. PauseLimit
        /\ panes[p].fails = PauseLimit => panes[p].paused
        /\ panes[p].paused => panes[p].sock = None
        /\ panes[p].opened => panes[p].sock # None
Rested(w) == RestedOf(w.panes)

\* The inductive invariant.
Sound(w) ==
    Typed(w) /\ Queued(w) /\ Owned(w) /\ Matched(w) /\ Heard(w) /\ Recovering(w) /\ Rested(w)

-----------------------------------------------------------------------------
\* A page changed in the fields F at most, of those the invariant reads.
Kept(w, v, F) ==
    /\ Made(v)
    /\ "online" \notin F => v.online = w.online
    /\ "expected" \notin F => v.expected = w.expected
    /\ "recovery" \notin F => v.recovery = w.recovery
    /\ "wait" \notin F => v.wait = w.wait
    /\ "conns" \notin F => v.conns = w.conns
    /\ "conn" \notin F => v.conn = w.conn
    /\ "closed" \notin F => v.closed = w.closed
    /\ "fence" \notin F => v.fence = w.fence
    /\ "watch" \notin F => v.watch = w.watch
    /\ "gens" \notin F => v.gens = w.gens
    /\ "faults" \notin F => v.faults = w.faults
    /\ "events" \notin F => v.events = w.events
    /\ "panes" \notin F => v.panes = w.panes
    /\ "micro" \notin F => v.micro = w.micro

\* Two changes, and no change at all.
LEMMA KeptTwice ==
  ASSUME NEW w, NEW u, NEW v, NEW F, NEW G, Kept(w, u, F), Kept(u, v, G)
  PROVE  Kept(w, v, F \cup G)
BY DEF Kept

\* No change at all.
LEMMA KeptSelf == ASSUME NEW w, Made(w) PROVE Kept(w, w, {})
BY DEF Kept

\* A page that differs in nothing the invariant reads is sound as well.
LEMMA SoundKept ==
  ASSUME NEW w, NEW v, Sound(w), Kept(w, v, {})
  PROVE  Sound(v)
BY Zenon DEF Sound, Typed, Queued, Owned, Matched, Heard, Recovering, Rested, Kept

-----------------------------------------------------------------------------
\* The queue of microtasks.

\* What appending a task does to the queue,
LEMMA Appended ==
  ASSUME NEW m, NEW t, m = [i \in 1 .. Len(m) |-> m[i]], Len(m) \in Nat
  PROVE  LET a == Append(m, t) IN
         /\ a = [i \in 1 .. Len(a) |-> a[i]] /\ Len(a) = Len(m) + 1
         /\ \A i \in 1 .. Len(m) : a[i] = m[i]
         /\ a[Len(m) + 1] = t
<1> DEFINE T == {m[i] : i \in 1 .. Len(m)} \cup {t}
<1>1. m \in Seq(T)
  <2>1. \A i \in 1 .. Len(m) : m[i] \in T
    OBVIOUS
  <2>2. m \in [1 .. Len(m) -> T]
    BY <2>1
  <2> QED BY <2>2
<1>2. t \in T
  OBVIOUS
<1> HIDE DEF T
<1>3. Append(m, t) \in Seq(T)
  BY <1>1, <1>2, AppendProperties
<1>4. Len(Append(m, t)) = Len(m) + 1 /\ Append(m, t)[Len(m) + 1] = t
      /\ \A i \in 1 .. Len(m) : Append(m, t)[i] = m[i]
  BY <1>1, <1>2, AppendProperties
<1>5. Append(m, t) = [i \in 1 .. Len(Append(m, t)) |-> Append(m, t)[i]]
  <2>1. Append(m, t) \in [1 .. Len(Append(m, t)) -> T]
    BY <1>3, LenProperties
  <2> QED BY <2>1
<1> QED BY <1>4, <1>5

\* and what taking the first off does.
LEMMA HeadTaken ==
  ASSUME NEW m, m = [i \in 1 .. Len(m) |-> m[i]], Len(m) \in Nat, m # <<>>
  PROVE  LET r == Tail(m) IN
         /\ r = [i \in 1 .. Len(r) |-> r[i]] /\ Len(r) = Len(m) - 1 /\ Len(r) \in Nat
         /\ \A i \in 1 .. Len(r) : r[i] = m[i + 1]
         /\ Head(m) = m[1] /\ Len(m) > 0
<1> DEFINE T == {m[i] : i \in 1 .. Len(m)}
<1>1. m \in Seq(T)
  <2>1. m \in [1 .. Len(m) -> T]
    OBVIOUS
  <2> QED BY <2>1
<1> HIDE DEF T
<1>2. Tail(m) \in Seq(T) /\ Len(m) > 0
  BY <1>1
<1>3. Tail(m) = [i \in 1 .. Len(Tail(m)) |-> Tail(m)[i]]
  <2>1. Tail(m) \in [1 .. Len(Tail(m)) -> T]
    BY <1>2, LenProperties
  <2> QED BY <2>1
<1>4. Len(Tail(m)) = Len(m) - 1 /\ \A i \in 1 .. Len(Tail(m)) : Tail(m)[i] = m[i + 1]
  BY <1>1, HeadTailProperties
<1> QED BY <1>1, <1>2, <1>3, <1>4

\* Queueing a task.
LEMMA KeptLater ==
  ASSUME NEW w, Made(w), NEW t
  PROVE  Kept(w, Later(w, t), {"micro"}) /\ Later(w, t).micro = Append(w.micro, t)
BY DEF Later, Made, PageFields, Kept

\* A recovery that is not queued behind what makes a connection.
NoSync(w) == \A i \in 1 .. Len(w.micro) : w.micro[i][1] # "sync"
NoRecover(w) == \A i \in 1 .. Len(w.micro) : w.micro[i][1] # "recover"

\* What may be queued without harm.
MayQueue(w, t) ==
    /\ IsTask(t)
    /\ t[1] = "subs" => t[2] \in 1 .. Len(w.conns)
    /\ t[1] # "opened"
    /\ t[1] = "recover" => w.conn = None /\ NoSync(w)

\* A harmless task may be queued behind a sound page's others.
LEMMA SoundAppended ==
  ASSUME NEW w, NEW v, NEW t, Sound(w), MayQueue(w, t),
         Kept(w, v, {"micro"}), v.micro = Append(w.micro, t)
  PROVE  Sound(v)
<1> DEFINE m == w.micro
           a == v.micro
<1>1. /\ a = [i \in 1 .. Len(a) |-> a[i]] /\ Len(a) = Len(m) + 1
      /\ \A i \in 1 .. Len(m) : a[i] = m[i]
      /\ a[Len(m) + 1] = t /\ Len(m) \in Nat
  BY Appended DEF Sound, Queued, QueuedOf
<1>2. /\ v.conns = w.conns /\ v.gens = w.gens /\ v.panes = w.panes /\ v.conn = w.conn
      /\ v.recovery = w.recovery
  BY DEF Kept
<1>3. Typed(v) /\ Owned(v) /\ Matched(v) /\ Rested(v)
  BY Zenon DEF Sound, Typed, Owned, Matched, Rested, Kept
<1>4. QueuedOf(m, Len(w.conns), w.gens) /\ HeardOf(w.conns, w.conn, w.panes, m)
      /\ RecoveringOf(m, w.conn, w.recovery)
  BY DEF Sound, Queued, Heard, Recovering
<1> HIDE DEF m, a
<1>5. QueuedOf(a, Len(w.conns), w.gens)
  BY <1>1, <1>4 DEF QueuedOf, MayQueue
<1>6. HeardOf(w.conns, w.conn, w.panes, a)
  <2>1. \A c : \A i \in 1 .. (Len(m) + 1) : SubsBefore(m, c, i) => SubsBefore(a, c, i)
    BY <1>1 DEF SubsBefore
  <2>2. \A c : SubsBefore(m, c, Len(m) + 1) => SubsBefore(a, c, Len(a) + 1)
    BY <1>1 DEF SubsBefore
  <2>3. \A i \in 1 .. Len(a) : a[i][1] = "opened" => i \in 1 .. Len(m) /\ a[i] = m[i]
    BY <1>1 DEF MayQueue
  <2> QED BY <1>1, <1>4, <2>1, <2>2, <2>3 DEF HeardOf
<1>7. RecoveringOf(a, w.conn, w.recovery)
  <2>1. t[1] = "recover" => w.conn = None /\ \A i \in 1 .. Len(m) : m[i][1] # "sync"
    BY DEF MayQueue, NoSync, m
  <2> QED BY <1>1, <1>4, <2>1 DEF RecoveringOf
<1> QED BY <1>2, <1>3, <1>5, <1>6, <1>7 DEF Sound, Queued, Heard, Recovering, a

\* The membership pass may always be queued, and is queued once.
LEMMA SoundScheduleSync ==
  ASSUME NEW w, Sound(w)
  PROVE  Sound(ScheduleSync(w)) /\ Kept(w, ScheduleSync(w), {"micro"})
<1> DEFINE u == Later(w, <<"sync">>)
<1>m. Made(w)
  BY DEF Sound, Typed
<1>1. Kept(w, u, {"micro"}) /\ u.micro = Append(w.micro, <<"sync">>)
  BY <1>m, KeptLater
<1>2. MayQueue(w, <<"sync">>)
  BY DEF MayQueue, IsTask, Plain
<1>3. Sound(u)
  BY <1>1, <1>2, SoundAppended
<1>4. Kept(u, [u EXCEPT !.sync = TRUE], {})
  <2> HIDE DEF u
  <2>1. Made(u)
    BY <1>1 DEF Kept
  <2> QED BY <2>1 DEF Made, PageFields, Kept
<1>5. Sound([u EXCEPT !.sync = TRUE]) /\ Kept(w, [u EXCEPT !.sync = TRUE], {"micro"})
  <2> HIDE DEF u
  <2> QED BY <1>1, <1>3, <1>4, SoundKept, KeptTwice
<1>6. Kept(w, w, {"micro"})
  BY <1>m DEF Kept
<1> QED BY <1>5, <1>6 DEF ScheduleSync, u

-----------------------------------------------------------------------------
\* Connections and sessions that end.

\* A page whose connections and panes are well formed.
Formed(w) ==
    /\ Made(w) /\ w.online \in BOOLEAN
    /\ w.conns \in Seq(Connection)
    /\ w.panes \in [Pane -> Session]

\* A sound page is formed.
LEMMA SoundFormed == ASSUME NEW w, Sound(w) PROVE Formed(w)
BY DEF Sound, Typed, Formed

\* One connection of a page changes.
LEMMA ConnectionChanged ==
  ASSUME NEW cs \in Seq(Connection), NEW c \in DOMAIN cs, NEW x \in Connection
  PROVE  LET ds == [cs EXCEPT ![c] = x] IN
         /\ ds \in Seq(Connection) /\ Len(ds) = Len(cs) /\ DOMAIN ds = DOMAIN cs
         /\ ds[c] = x /\ \A d \in DOMAIN cs : d # c => ds[d] = cs[d]
<1>1. cs \in [1 .. Len(cs) -> Connection] /\ Len(cs) \in Nat /\ DOMAIN cs = 1 .. Len(cs)
  BY LenProperties
<1> QED BY <1>1

\* A session that lost its socket.
Dropped(s, r) ==
    /\ r.sock = None /\ r.gen = 0 /\ ~r.opened
    /\ r.fails = s.fails /\ r.paused = s.paused

\* The close event of a stream (on:close) drops the session that had it.
LEMMA SessionDropped ==
  ASSUME NEW w, NEW s \in Session, w.online \in BOOLEAN
  PROVE  StreamClosed(w, s) \in Session /\ Dropped(s, StreamClosed(w, s))
<1>1. SocketForgotten(s) \in Session /\ Dropped(s, SocketForgotten(s))
  BY DEF SocketForgotten, Session, Dropped, None
<1>2. ASSUME NEW r \in Session, Dropped(s, r)
      PROVE  Retried(w, r) \in Session /\ Dropped(s, Retried(w, r))
  BY <1>2 DEF Retried, Session, Dropped
<1> QED BY <1>1, <1>2 DEF StreamClosed

\* The connection c becomes x, which has no streams, and its panes lose their
\* sockets.
ShutPanes(ps, qs, c) ==
    /\ qs \in [Pane -> Session]
    /\ \A p \in Pane : IF ps[p].sock = c THEN Dropped(ps[p], qs[p]) ELSE qs[p] = ps[p]
Shut(w, v, c, x) ==
    /\ Kept(w, v, {"conns", "panes"})
    /\ v.conns = [w.conns EXCEPT ![c] = x]
    /\ x \in Connection /\ x.streams = {}
    /\ ShutPanes(w.panes, v.panes, c)

\* A page stays formed, and the other connections are what they were.
LEMMA ShutFormed ==
  ASSUME NEW w, NEW v, Formed(w), NEW c \in DOMAIN w.conns, NEW x, Shut(w, v, c, x)
  PROVE  /\ Formed(v) /\ Len(v.conns) = Len(w.conns) /\ DOMAIN v.conns = DOMAIN w.conns
         /\ v.conns[c] = x /\ \A d \in DOMAIN w.conns : d # c => v.conns[d] = w.conns[d]
<1>1. x \in Connection /\ w.conns \in Seq(Connection) /\ v.conns = [w.conns EXCEPT ![c] = x]
  BY DEF Shut, Formed
<1>2. /\ v.conns \in Seq(Connection) /\ Len(v.conns) = Len(w.conns)
      /\ DOMAIN v.conns = DOMAIN w.conns
      /\ v.conns[c] = x /\ \A d \in DOMAIN w.conns : d # c => v.conns[d] = w.conns[d]
  BY <1>1, ConnectionChanged
<1>3. Made(v) /\ v.online \in BOOLEAN /\ v.panes \in [Pane -> Session]
  BY DEF Shut, Kept, Formed, ShutPanes
<1> QED BY <1>2, <1>3 DEF Formed

\* Its streams are closed,
Bare(r) == [r EXCEPT !.streams = {}]

\* closeAllLogical shuts the streams of a connection and of nothing else.
LEMMA StreamsShut ==
  ASSUME NEW w, Formed(w), NEW c \in DOMAIN w.conns
  PROVE  Shut(w, CloseAllStreams(w, c), c, Bare(w.conns[c]))
<1> DEFINE v == CloseAllStreams(w, c)
           x == Bare(w.conns[c])
<1>1. Kept(w, v, {"conns", "panes"})
      /\ v.conns = [w.conns EXCEPT ![c].streams = {}]
      /\ v.panes = [p \in Pane |-> IF p \in Owners(w, c) THEN StreamClosed(w, w.panes[p])
                                   ELSE w.panes[p]]
  BY DEF CloseAllStreams, Formed, Made, PageFields, Kept
<1>2. w.conns[c] \in Connection
  BY ElementOfSeq, LenProperties DEF Formed
<1>3. x \in Connection /\ x.streams = {}
  BY <1>2 DEF Connection, Bare
<1>4. v.conns = [w.conns EXCEPT ![c] = x]
  BY <1>1 DEF Bare
<1>5. ShutPanes(w.panes, v.panes, c)
  <2>1. w.panes \in [Pane -> Session] /\ w.online \in BOOLEAN
    BY DEF Formed
  <2>2. \A p \in Pane : StreamClosed(w, w.panes[p]) \in Session
                        /\ Dropped(w.panes[p], StreamClosed(w, w.panes[p]))
    BY <2>1, SessionDropped
  <2> HIDE DEF v
  <2> QED BY <1>1, <2>1, <2>2 DEF ShutPanes, Owners
<1> QED BY <1>1, <1>3, <1>4, <1>5 DEF Shut

\* or the connection is, unless it is already.
Closing(r) == [r EXCEPT !.ws = "closing", !.ready = FALSE, !.streams = {}]

\* close shuts a connection that lives, with its streams.
LEMMA ConnectionShut ==
  ASSUME NEW w, Formed(w), NEW c \in DOMAIN w.conns, ~Disposed(w.conns[c])
  PROVE  Shut(w, CloseConnection(w, c), c, Closing(w.conns[c]))
<1> DEFINE u == [w EXCEPT !.conns[c].ws = "closing", !.conns[c].ready = FALSE]
           y == [w.conns[c] EXCEPT !.ws = "closing", !.ready = FALSE]
           v == CloseAllStreams(u, c)
           x == Closing(w.conns[c])
<1>1. w.conns[c] \in Connection /\ w.conns \in Seq(Connection)
  BY ElementOfSeq, LenProperties DEF Formed
<1>2. y \in Connection /\ x \in Connection /\ x.streams = {} /\ x = Bare(y)
  BY <1>1 DEF Connection, SocketStates, Closing, Bare
<1>3. Kept(w, u, {"conns"}) /\ u.conns = [w.conns EXCEPT ![c] = y]
  BY DEF Formed, Made, PageFields, Kept
<1> HIDE DEF u, x, y
<1>4. u.conns \in Seq(Connection) /\ DOMAIN u.conns = DOMAIN w.conns /\ u.conns[c] = y
  <2> DEFINE cs == w.conns
             ds == [cs EXCEPT ![c] = y]
  <2>1. cs \in Seq(Connection) /\ c \in DOMAIN cs
    BY <1>1
  <2> HIDE DEF cs
  <2>2. ds \in Seq(Connection) /\ DOMAIN ds = DOMAIN cs /\ ds[c] = y
    BY <1>2, <2>1, ConnectionChanged
  <2> QED BY <1>3, <2>2 DEF cs
<1>5. Formed(u)
  BY <1>3, <1>4 DEF Formed, Kept
<1>6. Shut(u, v, c, x)
  BY <1>2, <1>4, <1>5, StreamsShut
<1>7. Kept(w, v, {"conns", "panes"})
  BY <1>3, <1>6 DEF Shut, Kept
<1>8. v.conns = [w.conns EXCEPT ![c] = x]
  BY <1>1, <1>3, <1>6 DEF Shut
<1>9. ShutPanes(w.panes, v.panes, c)
  BY <1>3, <1>6 DEF Shut, Kept
<1>10. CloseConnection(w, c) = v
  BY DEF CloseConnection, u
<1> QED BY <1>2, <1>7, <1>8, <1>9, <1>10 DEF Shut, x

\* Shut twice is shut.
LEMMA ShutTwice ==
  ASSUME NEW w, NEW u, NEW v, NEW c, NEW x, NEW y, Formed(w), c \in DOMAIN w.conns,
         Shut(w, u, c, x), Shut(u, v, c, y), c # None
  PROVE  Shut(w, v, c, y)
<1>1. Kept(w, v, {"conns", "panes"})
  BY DEF Shut, Kept
<1>2. v.conns = [w.conns EXCEPT ![c] = y]
  BY DEF Shut, Formed
<1>3. ShutPanes(w.panes, v.panes, c)
  BY DEF Shut, ShutPanes, Dropped
<1> QED BY <1>1, <1>2, <1>3 DEF Shut

-----------------------------------------------------------------------------
\* The current connection is given up.

\* The connection c, which becomes x, is out of use, fenced and without panes.
Retired(w, v, c, x) ==
    /\ Kept(w, v, {"conns", "conn", "closed", "fence", "expected", "watch", "panes"})
    /\ v.conns = [w.conns EXCEPT ![c] = x]
    /\ x \in Connection /\ x.streams = {} /\ Disposed(x) /\ x.sent = w.conns[c].sent
    /\ ShutPanes(w.panes, v.panes, c)
    /\ v.conn = None /\ v.watch = None /\ v.fence = c
    /\ v.closed = w.closed \cup {c} /\ v.expected \in BOOLEAN

\* Giving the current connection up leaves a sound page behind a fence.
LEMMA SoundRetired ==
  ASSUME NEW w, NEW v, Sound(w), w.conn # None, NEW x, Retired(w, v, w.conn, x)
  PROVE  Sound(v)
<1> DEFINE c == w.conn
<1>1. /\ w.conns \in Seq(Connection) /\ c \in DOMAIN w.conns /\ DOMAIN w.conns = 1 .. Len(w.conns)
      /\ Len(w.conns) \in Nat
  BY LenProperties DEF Sound, Typed, None
<1>2. /\ v.conns \in Seq(Connection) /\ Len(v.conns) = Len(w.conns)
      /\ DOMAIN v.conns = DOMAIN w.conns
      /\ v.conns[c] = x /\ \A d \in DOMAIN w.conns : d # c => v.conns[d] = w.conns[d]
  BY <1>1, ConnectionChanged DEF Retired
<1>3. /\ Made(v) /\ v.online = w.online /\ v.recovery = w.recovery /\ v.wait = w.wait
      /\ v.gens = w.gens /\ v.faults = w.faults /\ v.micro = w.micro
      /\ v.events = w.events /\ v.panes \in [Pane -> Session]
  BY DEF Retired, Kept, ShutPanes
<1>4. Typed(v)
  <2>1. v.conn \in 0 .. Len(v.conns) /\ v.fence \in 0 .. Len(v.conns)
        /\ v.expected \in BOOLEAN
    BY <1>1, <1>2 DEF Retired, None
  <2> QED BY <1>2, <1>3, <2>1 DEF Sound, Typed
<1>5. Queued(v)
  BY <1>2, <1>3 DEF Sound, Queued
<1>6. Owned(v)
  <2>1. v.conn = None /\ v.watch = None /\ v.fence = c /\ c # None
        /\ v.closed = w.closed \cup {c} /\ Disposed(x)
    BY DEF Retired
  <2>2. w.closed = DOMAIN w.conns \ {c}
        /\ \A d \in DOMAIN w.conns : Disposed(w.conns[d]) <=> d # c
    BY DEF Sound, Owned, OwnedOf
  <2>3. \A d \in DOMAIN v.conns : Disposed(v.conns[d]) /\ d # None
    BY <1>1, <1>2, <2>1, <2>2 DEF None
  <2> QED BY <1>1, <1>2, <2>1, <2>2, <2>3 DEF Owned, OwnedOf
<1>7. ASSUME NEW p \in Pane
      PROVE  /\ v.panes[p].sock = None /\ (v.panes[p].opened => v.panes[p].told)
             /\ v.panes[p].fails = w.panes[p].fails
             /\ v.panes[p].paused = w.panes[p].paused /\ ~v.panes[p].opened
             /\ v.panes[p].gen \in 0 .. w.gens
  <2>1. w.panes[p].sock \in {None, c} /\ w.panes[p].gen \in 0 .. w.gens /\ w.gens \in Nat
        /\ (w.panes[p].opened => w.panes[p].told /\ w.panes[p].sock # None)
    BY DEF Sound, Matched, MatchedOf, Typed, Heard, HeardOf, Rested, RestedOf
  <2>2. IF w.panes[p].sock = c THEN Dropped(w.panes[p], v.panes[p])
        ELSE v.panes[p] = w.panes[p]
    BY DEF Retired, ShutPanes
  <2>3. CASE w.panes[p].sock = c
    BY <2>1, <2>2, <2>3 DEF Dropped
  <2>4. CASE w.panes[p].sock # c
    BY <2>1, <2>2, <2>4
  <2> QED BY <2>3, <2>4
<1>8. Matched(v)
  <2>1. \A d \in DOMAIN w.conns :
          /\ w.conns[d].streams = {<<p, w.panes[p].gen>> : p \in {q \in Pane : w.panes[q].sock = d}}
          /\ w.conns[d].sent \subseteq Pane \X (1 .. w.gens)
    BY DEF Sound, Matched, MatchedOf
  <2>2. \A p \in Pane : w.panes[p].sock \in {None, c}
    BY DEF Sound, Matched, MatchedOf
  <2>3. x.streams = {} /\ x.sent = w.conns[c].sent
    BY DEF Retired
  <2>4. ASSUME NEW d \in DOMAIN v.conns
        PROVE  /\ v.conns[d].streams = {} /\ v.conns[d].sent \subseteq Pane \X (1 .. w.gens)
               /\ {q \in Pane : v.panes[q].sock = d} = {}
    <3>1. d # None
      BY <1>1, <1>2 DEF None
    <3>2. {q \in Pane : v.panes[q].sock = d} = {}
      BY <1>7, <3>1
    <3>3. CASE d = c
      BY <1>1, <1>2, <2>1, <2>3, <3>2, <3>3
    <3>4. CASE d # c
      <4>1. {q \in Pane : w.panes[q].sock = d} = {}
        BY <2>2, <3>1, <3>4
      <4> QED BY <1>1, <1>2, <2>1, <3>2, <3>4, <4>1
    <3> QED BY <3>3, <3>4
  <2>5. v.conn = None
    BY DEF Retired
  <2> QED BY <1>3, <1>7, <2>4, <2>5 DEF Matched, MatchedOf
<1>9. Heard(v)
  <2>1. v.conn = None
    BY DEF Retired
  <2>2. \A i \in 1 .. Len(v.micro) : v.micro[i][1] = "opened" => v.micro[i][2] \in Pane
    BY <1>3 DEF Sound, Queued, QueuedOf, IsTask, Plain
  <2> QED BY <1>7, <2>1, <2>2 DEF Heard, HeardOf
<1>10. Recovering(v)
  <2>1. v.conn = None
    BY DEF Retired
  <2> QED BY <1>3, <2>1 DEF Sound, Recovering, RecoveringOf
<1>11. Rested(v)
  BY <1>7 DEF Sound, Rested, RestedOf
<1> QED BY <1>4, <1>5, <1>6, <1>8, <1>9, <1>10, <1>11 DEF Sound

\* A close by the page: HandleOffline, recovery, a prepared connection.
LEMMA TransportClosed ==
  ASSUME NEW w, Sound(w), w.conn # None
  PROVE  \E x : Retired(w, CloseTransport(w), w.conn, x)
<1> DEFINE c == w.conn
           a == [w EXCEPT !.conn = None, !.expected = TRUE, !.watch = None, !.ticking = FALSE]
           f == [a EXCEPT !.fence = c]
           b == [f EXCEPT !.closed = @ \union {c}]
           x == Closing(w.conns[c])
<1>1. c \in DOMAIN w.conns /\ ~Disposed(w.conns[c]) /\ w.conns[c] \in Connection
  <2>1. c \in DOMAIN w.conns /\ w.conns \in Seq(Connection)
    BY LenProperties DEF Sound, Typed, None
  <2> QED BY <2>1, ElementOfSeq, LenProperties DEF Sound, Owned, OwnedOf
<1>2. Made(w) /\ Formed(w)
  BY SoundFormed DEF Formed
<1>3. /\ Kept(w, b, {"conn", "expected", "watch", "fence", "closed"})
      /\ b.conn = None /\ b.expected = TRUE /\ b.watch = None /\ b.fence = c
      /\ b.closed = w.closed \cup {c}
  BY <1>2 DEF Made, PageFields, Kept
<1>4. a.conns = w.conns
  BY <1>2 DEF Made, PageFields
<1>5. RegisterFence(a, c) = f
  <2>1. w.conns[c].ws # "closed"
    BY <1>1 DEF Disposed
  <2> QED BY <1>4, <2>1 DEF RegisterFence
<1>6. CloseTransport(w) = CloseConnection(b, c)
  BY <1>5 DEF CloseTransport
<1> HIDE DEF b
<1>7. Formed(b) /\ b.conns = w.conns /\ b.panes = w.panes
  BY <1>2, <1>3 DEF Formed, Kept
<1>8. Shut(b, CloseConnection(b, c), c, x)
  <2>1. c \in DOMAIN b.conns /\ ~Disposed(b.conns[c])
    BY <1>1, <1>7
  <2> HIDE DEF c
  <2>2. Shut(b, CloseConnection(b, c), c, Closing(b.conns[c]))
    BY <1>7, <2>1, ConnectionShut
  <2> QED BY <1>7, <2>2
<1>9. x \in Connection /\ x.sent = w.conns[c].sent /\ Disposed(x)
  BY <1>1 DEF Connection, SocketStates, Disposed, Closing
<1> HIDE DEF x
<1>10. Retired(w, CloseConnection(b, c), c, x)
  BY <1>3, <1>7, <1>8, <1>9 DEF Retired, Shut, Kept
<1> QED BY <1>6, <1>10

\* close of the owner gives the current connection up, if there is one.
LEMMA SoundCloseTransport ==
  ASSUME NEW w, Sound(w)
  PROVE  LET v == CloseTransport(w) IN
         /\ Sound(v) /\ v.faults = w.faults /\ v.micro = w.micro /\ v.conn = None
         /\ v.recovery = w.recovery
         /\ w.conn = None => v = w
<1>1. CASE w.conn = None
  BY <1>1 DEF CloseTransport
<1>2. CASE w.conn # None
  <2>1. PICK x : Retired(w, CloseTransport(w), w.conn, x)
    BY <1>2, TransportClosed
  <2>2. Sound(CloseTransport(w))
    BY <1>2, <2>1, SoundRetired
  <2> QED BY <1>2, <2>1, <2>2 DEF Retired, Kept
<1> QED BY <1>1, <1>2

-----------------------------------------------------------------------------
\* Changes that the invariant hardly notices.

\* Recovery is at another point, and queued when it is said to be.
LEMMA SoundRecoveryAt ==
  ASSUME NEW w, NEW v, Sound(w), Kept(w, v, {"recovery"}),
         v.recovery \in {"idle", "scheduled", "waiting"},
         v.recovery = "scheduled" => ~NoRecover(w)
  PROVE  Sound(v)
<1>1. Typed(v) /\ Queued(v) /\ Owned(v) /\ Matched(v) /\ Heard(v) /\ Rested(v)
  BY Zenon DEF Sound, Typed, Queued, Owned, Matched, Heard, Rested, Kept
<1>2. RecoveringOf(w.micro, w.conn, w.recovery) /\ v.micro = w.micro /\ v.conn = w.conn
  BY DEF Sound, Recovering, Kept
<1>3. RecoveringOf(v.micro, v.conn, v.recovery)
  BY <1>2 DEF RecoveringOf, NoRecover
<1> QED BY <1>1, <1>3 DEF Sound, Recovering

\* A fence goes, a close is no longer expected, the network comes or goes, a
\* fault is used up.
LEMMA SoundAside ==
  ASSUME NEW w, NEW v, Sound(w), Kept(w, v, {"expected", "fence", "online", "wait", "faults"}),
         v.fence \in {None, w.fence}, v.expected \in {FALSE, w.expected},
         v.expected => v.fence = w.fence,
         v.online \in BOOLEAN, v.wait \in {"none", "recent", "long"}, v.faults \in Nat
  PROVE  Sound(v)
<1>1. v.expected \in BOOLEAN /\ v.fence \in 0 .. Len(v.conns)
  <2>1. Len(w.conns) \in Nat /\ w.fence \in 0 .. Len(w.conns) /\ w.expected \in BOOLEAN
    BY LenProperties DEF Sound, Typed
  <2>2. v.conns = w.conns
    BY DEF Kept
  <2>3. v.expected \in BOOLEAN
    <3>1. w.expected = TRUE \/ w.expected = FALSE
      BY <2>1
    <3>2. v.expected = FALSE \/ v.expected = w.expected
      OBVIOUS
    <3> QED BY <3>1, <3>2, Zenon
  <2>4. v.fence \in 0 .. Len(v.conns)
    <3>1. v.fence = 0 \/ v.fence = w.fence
      BY DEF None
    <3> QED BY <2>1, <2>2, <3>1
  <2> QED BY <2>3, <2>4
<1>2. Typed(v) /\ Queued(v) /\ Matched(v) /\ Heard(v) /\ Recovering(v) /\ Rested(v)
  BY <1>1, Zenon DEF Sound, Typed, Queued, Matched, Heard, Recovering, Rested, Kept
<1>3. Owned(v)
  BY DEF Sound, Owned, OwnedOf, Kept
<1> QED BY <1>2, <1>3 DEF Sound

\* The panes change, though not what they are connected by.
LEMMA SoundPanes ==
  ASSUME NEW w, NEW v, Sound(w), Kept(w, v, {"panes"}), v.panes \in [Pane -> Session],
         \A p \in Pane : /\ v.panes[p].sock = w.panes[p].sock
                         /\ v.panes[p].gen = w.panes[p].gen
                         /\ v.panes[p].opened => v.panes[p].told,
         RestedOf(v.panes)
  PROVE  Sound(v)
<1>1. Typed(v) /\ Queued(v) /\ Owned(v) /\ Recovering(v) /\ Rested(v)
  BY Zenon DEF Sound, Typed, Queued, Owned, Recovering, Rested, Kept
<1>2. v.conns = w.conns /\ v.conn = w.conn /\ v.gens = w.gens /\ v.micro = w.micro
  BY DEF Kept
<1>3. Matched(v)
  <2>1. \A c : {q \in Pane : v.panes[q].sock = c} = {q \in Pane : w.panes[q].sock = c}
    OBVIOUS
  <2>2. \A c : {<<p, v.panes[p].gen>> : p \in {q \in Pane : v.panes[q].sock = c}}
               = {<<p, w.panes[p].gen>> : p \in {q \in Pane : w.panes[q].sock = c}}
    BY <2>1
  <2> QED BY <1>2, <2>2 DEF Sound, Matched, MatchedOf
<1>4. Heard(v)
  <2>1. \A i \in 1 .. Len(w.micro) : w.micro[i][1] = "opened" => w.micro[i][2] \in Pane
    BY DEF Sound, Queued, QueuedOf, IsTask, Plain
  <2> QED BY <1>2, <2>1 DEF Sound, Heard, HeardOf
<1> QED BY <1>1, <1>3, <1>4 DEF Sound

\* A connection changes, though neither its streams nor whether it lives.
LEMMA SoundConnection ==
  ASSUME NEW w, NEW v, Sound(w), Kept(w, v, {"conns"}), NEW c \in DOMAIN w.conns,
         NEW x \in Connection, v.conns = [w.conns EXCEPT ![c] = x],
         x.streams = w.conns[c].streams, x.sent = w.conns[c].sent,
         Disposed(x) <=> Disposed(w.conns[c]),
         x.update = w.conns[c].update \/ (~x.update /\ w.micro = <<>>)
  PROVE  Sound(v)
<1>1. /\ v.conns \in Seq(Connection) /\ Len(v.conns) = Len(w.conns)
      /\ DOMAIN v.conns = DOMAIN w.conns
      /\ v.conns[c] = x /\ \A d \in DOMAIN w.conns : d # c => v.conns[d] = w.conns[d]
  BY ConnectionChanged DEF Sound, Typed
<1>2. /\ v.conn = w.conn /\ v.gens = w.gens /\ v.micro = w.micro /\ v.panes = w.panes
      /\ v.closed = w.closed /\ v.fence = w.fence /\ v.expected = w.expected
      /\ v.watch = w.watch
  BY DEF Kept
<1>3. Typed(v)
  BY <1>1 DEF Sound, Typed, Kept
<1>4. Queued(v) /\ Recovering(v) /\ Rested(v)
  BY <1>1, <1>2, Zenon DEF Sound, Queued, Recovering, Rested, Kept
<1>5. Owned(v)
  BY <1>1, <1>2 DEF Sound, Owned, OwnedOf
<1>6. Matched(v)
  <2>1. \A d \in DOMAIN w.conns : v.conns[d].streams = w.conns[d].streams
                                  /\ v.conns[d].sent = w.conns[d].sent
    BY <1>1
  <2> HIDE DEF Sound
  <2>2. MatchedOf(w.conns, w.conn, w.panes, w.gens)
    BY DEF Sound, Matched
  <2> QED BY <1>1, <1>2, <2>1, <2>2 DEF Matched, MatchedOf
<1>7. Heard(v)
  <2>1. HeardOf(w.conns, w.conn, w.panes, w.micro)
    BY DEF Sound, Heard
  <2>2. w.conn \in DOMAIN w.conns \/ w.conn = None
    BY LenProperties DEF Sound, Typed, None
  <2>3. CASE w.conn \in DOMAIN w.conns /\ w.micro # <<>>
    <3>1. v.conns[w.conn].sent = w.conns[w.conn].sent
          /\ v.conns[w.conn].update = w.conns[w.conn].update
      BY <1>1, <2>3
    <3> QED BY <1>2, <2>1, <3>1 DEF Heard, HeardOf
  <2>4. CASE w.conn \in DOMAIN w.conns /\ w.micro = <<>>
    <3>1. v.conns[w.conn].update => w.conns[w.conn].update
      BY <1>1, <2>4
    <3>2. Len(w.micro) = 0
      BY <2>4
    <3> QED BY <1>2, <2>1, <3>1, <3>2 DEF Heard, HeardOf
  <2>5. CASE w.conn = None
    <3>1. \A i \in 1 .. Len(w.micro) : w.micro[i][1] = "opened" => w.micro[i][2] \in Pane
      BY DEF Sound, Queued, QueuedOf, IsTask, Plain
    <3>2. \A p \in Pane : w.panes[p].sock = None
      BY <2>5 DEF Sound, Matched, MatchedOf
    <3> QED BY <1>2, <2>1, <2>5, <3>1, <3>2 DEF Heard, HeardOf
  <2> QED BY <2>2, <2>3, <2>4, <2>5
<1> QED BY <1>3, <1>4, <1>5, <1>6, <1>7 DEF Sound

\* Recovery is scheduled once, and not while offline.
RecoveryQueued(u, v) ==
    /\ Kept(u, v, {"micro", "recovery"})
    /\ v.micro = Append(u.micro, <<"recover">>) /\ v.recovery = "scheduled"

\* scheduleRecovery queues a recovery or changes nothing the invariant reads.
LEMMA RecoveryScheduled ==
  ASSUME NEW w, Made(w)
  PROVE  LET v == ScheduleRecovery(w) IN Kept(w, v, {}) \/ RecoveryQueued(w, v)
<1>1. CASE ~w.online
  BY <1>1, KeptSelf DEF ScheduleRecovery
<1>2. CASE w.online /\ w.recovery # "idle"
  <2>1. Kept(w, [w EXCEPT !.again = TRUE], {})
    BY DEF Made, PageFields, Kept
  <2> QED BY <1>2, <2>1 DEF ScheduleRecovery
<1>3. CASE w.online /\ w.recovery = "idle"
  <2> DEFINE u == Later(w, <<"recover">>)
             v == [u EXCEPT !.recovery = "scheduled"]
  <2>1. Kept(w, u, {"micro"}) /\ u.micro = Append(w.micro, <<"recover">>)
    BY KeptLater
  <2>2. Kept(u, v, {"recovery"}) /\ v.recovery = "scheduled"
    <3> HIDE DEF u
    <3>1. Made(u)
      BY <2>1 DEF Kept
    <3> QED BY <3>1 DEF Made, PageFields, Kept
  <2>3. ScheduleRecovery(w) = v
    BY <1>3 DEF ScheduleRecovery
  <2> HIDE DEF u, v
  <2>4. RecoveryQueued(w, v)
    BY <2>1, <2>2 DEF RecoveryQueued, Kept
  <2> QED BY <2>3, <2>4
<1> QED BY <1>1, <1>2, <1>3

\* A recovery may be queued without a connection and before any membership pass.
LEMMA SoundRecoveryQueued ==
  ASSUME NEW w, NEW v, Sound(w), w.conn = None, NoSync(w), RecoveryQueued(w, v)
  PROVE  Sound(v)
<1> DEFINE u == Later(w, <<"recover">>)
<1>1. Made(w)
  BY DEF Sound, Typed
<1>2. Kept(w, u, {"micro"}) /\ u.micro = Append(w.micro, <<"recover">>)
  BY <1>1, KeptLater
<1>3. MayQueue(w, <<"recover">>)
  BY DEF MayQueue, IsTask, Plain
<1> HIDE DEF u
<1>4. Sound(u)
  BY <1>2, <1>3, SoundAppended
<1>5. Kept(u, v, {"recovery"}) /\ v.recovery = "scheduled"
  BY <1>2 DEF RecoveryQueued, Kept
<1>6. ~NoRecover(u)
  <2>1. Len(u.micro) = Len(w.micro) + 1 /\ u.micro[Len(w.micro) + 1] = <<"recover">>
        /\ Len(w.micro) \in Nat
    BY <1>2, Appended DEF Sound, Queued, QueuedOf
  <2> QED BY <2>1 DEF NoRecover
<1> QED BY <1>4, <1>5, <1>6, SoundRecoveryAt

\* So scheduleRecovery is safe there.
LEMMA SoundScheduleRecovery ==
  ASSUME NEW w, Sound(w), w.conn = None, NoSync(w)
  PROVE  Sound(ScheduleRecovery(w)) /\ Kept(w, ScheduleRecovery(w), {"micro", "recovery"})
<1>1. Made(w)
  BY DEF Sound, Typed
<1> DEFINE v == ScheduleRecovery(w)
<1>2. Kept(w, v, {}) \/ RecoveryQueued(w, v)
  BY <1>1, RecoveryScheduled
<1> HIDE DEF v
<1>3. Sound(v)
  BY <1>2, SoundKept, SoundRecoveryQueued
<1>4. Kept(w, v, {"micro", "recovery"})
  BY <1>2 DEF Kept, RecoveryQueued
<1> QED BY <1>3, <1>4 DEF v

-----------------------------------------------------------------------------
\* The current connection is found broken, or closes.

\* It is taken out of use, its streams are closed and recovery is scheduled.
Withdrawn(w, c) ==
    [(IF w.conns[c].ws = "closed" THEN Later([w EXCEPT !.fence = c], <<"fence">>)
                                  ELSE [w EXCEPT !.fence = c])
     EXCEPT !.closed = @ \union {c}, !.watch = None, !.conn = None]

\* handlePhysicalDisconnect of the current connection, once its conditions are known.
LEMMA DisconnectedIs ==
  ASSUME NEW w, NEW c, NEW also, Made(w), w.conn = c, c \notin w.closed, w.fence = None
  PROVE  Disconnected(w, c, also)
         = ScheduleRecovery(IF also THEN CloseConnection(CloseAllStreams(Withdrawn(w, c), c), c)
                                    ELSE CloseAllStreams(Withdrawn(w, c), c))
<1> DEFINE f == IF w.conns[c].ws = "closed" THEN Later([w EXCEPT !.fence = c], <<"fence">>)
                ELSE [w EXCEPT !.fence = c]
<1>1. RegisterFence(w, c) = f
  BY DEF RegisterFence, Made, PageFields
<1>2. f.conn = c
  BY DEF Later, Made, PageFields
<1>3. [f EXCEPT !.closed = @ \union {c}, !.watch = None,
                !.conn = IF @ = c THEN None ELSE @] = Withdrawn(w, c)
  BY <1>2 DEF Withdrawn
<1> HIDE DEF f
<1> QED BY <1>1, <1>3 DEF Disconnected

\* What taking a connection out of use changes.
LEMMA WithdrawnIs ==
  ASSUME NEW w, NEW c, Formed(w)
  PROVE  LET v == Withdrawn(w, c) IN
         /\ Kept(w, v, {"conn", "closed", "fence", "watch", "micro"})
         /\ v.conn = None /\ v.watch = None /\ v.fence = c /\ v.closed = w.closed \cup {c}
         /\ v.micro = IF w.conns[c].ws = "closed" THEN Append(w.micro, <<"fence">>)
                      ELSE w.micro
         /\ Formed(v)
<1> DEFINE v == Withdrawn(w, c)
<1>1. Kept(w, v, {"conn", "closed", "fence", "watch", "micro"})
      /\ v.conn = None /\ v.watch = None /\ v.fence = c /\ v.closed = w.closed \cup {c}
      /\ v.micro = IF w.conns[c].ws = "closed" THEN Append(w.micro, <<"fence">>)
                   ELSE w.micro
  <2>m. Made(w)
    BY DEF Formed
  <2> DEFINE f == [w EXCEPT !.fence = c]
  <2>1. Kept(w, f, {"fence"}) /\ f.fence = c
    BY <2>m DEF Made, PageFields, Kept
  <2>2. Made(Later(f, <<"fence">>)) /\ Kept(f, Later(f, <<"fence">>), {"micro"})
        /\ Later(f, <<"fence">>).micro = Append(f.micro, <<"fence">>)
    <3> HIDE DEF f
    <3> QED BY <2>1, KeptLater DEF Kept
  <2> DEFINE l == IF w.conns[c].ws = "closed" THEN Later(f, <<"fence">>) ELSE f
  <2>3. /\ Kept(w, l, {"fence", "micro"}) /\ l.fence = c
        /\ l.micro = IF w.conns[c].ws = "closed" THEN Append(w.micro, <<"fence">>)
                     ELSE w.micro
    <3> HIDE DEF f
    <3> QED BY <2>1, <2>2 DEF Kept
  <2>4. v = [l EXCEPT !.closed = @ \union {c}, !.watch = None, !.conn = None]
    BY DEF Withdrawn
  <2> HIDE DEF l, v
  <2>5. Made(l)
    BY <2>3 DEF Kept
  <2>6. Kept(l, v, {"conn", "closed", "watch"}) /\ v.conn = None /\ v.watch = None
        /\ v.closed = l.closed \cup {c}
    BY <2>4, <2>5 DEF Made, PageFields, Kept
  <2> QED BY <2>3, <2>6 DEF Kept
<1> HIDE DEF v
<1>2. Formed(v)
  BY <1>1 DEF Kept, Formed
<1> QED BY <1>1, <1>2 DEF v

\* The page u that is left but for the microtasks, and what was queued: that
\* the fence is over, when the close was reported, and the recovery.
LEMMA SoundGivenUp ==
  ASSUME NEW w, Sound(w), w.conn # None, w.micro = <<>>, NEW x, NEW u, Retired(w, u, w.conn, x),
         NEW f, Kept(u, f, {"micro"}), f.micro \in {<<>>, Append(<<>>, <<"fence">>)},
         NEW v, Kept(f, v, {}) \/ RecoveryQueued(f, v)
  PROVE  Sound(v) /\ v.faults = w.faults
<1>1. Sound(u) /\ u.micro = <<>> /\ u.conn = None /\ u.faults = w.faults
  BY SoundRetired DEF Retired, Kept
<1>2. Sound(f) /\ NoSync(f) /\ f.conn = None /\ f.faults = w.faults
  <2>1. f.conn = None /\ f.faults = w.faults
    BY <1>1 DEF Kept
  <2>2. CASE f.micro = <<>>
    <3>1. Kept(u, f, {})
      BY <1>1, <2>2 DEF Kept
    <3>2. Len(f.micro) = 0
      BY <2>2
    <3> QED BY <1>1, <2>1, <3>1, <3>2, SoundKept DEF NoSync
  <2>3. CASE f.micro = Append(<<>>, <<"fence">>)
    <3>1. MayQueue(u, <<"fence">>)
      BY DEF MayQueue, IsTask, Plain
    <3>2. Sound(f)
      BY <1>1, <2>3, <3>1, SoundAppended
    <3>3. Len(f.micro) = 1 /\ f.micro[1] = <<"fence">>
      BY <2>3
    <3> QED BY <2>1, <3>2, <3>3 DEF NoSync
  <2> QED BY <2>2, <2>3
<1>3. CASE Kept(f, v, {})
  BY <1>2, <1>3, SoundKept DEF Kept
<1>4. CASE RecoveryQueued(f, v)
  BY <1>2, <1>4, SoundRecoveryQueued DEF RecoveryQueued, Kept
<1> QED BY <1>3, <1>4

\* What is known of the current connection.
LEMMA Current ==
  ASSUME NEW w, Sound(w), w.conn # None
  PROVE  /\ w.conn \in DOMAIN w.conns /\ w.conns[w.conn] \in Connection
         /\ ~Disposed(w.conns[w.conn])
         /\ w.conn \notin w.closed /\ w.fence = None /\ ~w.expected /\ w.watch = w.conn
<1>1. w.conn \in DOMAIN w.conns /\ w.conns \in Seq(Connection)
  BY LenProperties DEF Sound, Typed, None
<1>2. w.conns[w.conn] \in Connection
  BY <1>1, ElementOfSeq, LenProperties
<1> QED BY <1>1, <1>2 DEF Sound, Owned, OwnedOf

\* A connection that ended keeps what the server was told.
Gone(r) == [r EXCEPT !.ws = "closed", !.ready = FALSE]

\* What the ends of a connection keep of it.
LEMMA Ends ==
  ASSUME NEW r \in Connection
  PROVE  /\ Bare(r) \in Connection /\ Bare(r).sent = r.sent /\ Bare(r).ws = r.ws
         /\ Gone(r) \in Connection /\ Gone(r).sent = r.sent /\ Disposed(Gone(r))
         /\ Gone(r).streams = r.streams /\ Gone(r).update = r.update
         /\ Closing(r) \in Connection /\ Closing(r).sent = r.sent /\ Disposed(Closing(r))
BY DEF Connection, SocketStates, Disposed, Closing, Bare, Gone

\* The watchdog finds it dead.
LEMMA SoundUnhealthy ==
  ASSUME NEW w, Sound(w), w.conn # None, w.micro = <<>>
  PROVE  LET v == CloseUnhealthy(w, w.conn) IN Sound(v) /\ v.faults = w.faults
<1> DEFINE c == w.conn
           out == Withdrawn(w, c)
           shut == CloseAllStreams(out, c)
           r == ScheduleRecovery(shut)
           v == CloseConnection(r, c)
           x == Bare(w.conns[c])
           u == [v EXCEPT !.micro = <<>>, !.recovery = w.recovery]
<1>1. /\ c \in DOMAIN w.conns /\ w.conns[c] \in Connection /\ ~Disposed(w.conns[c])
      /\ c \notin w.closed /\ w.fence = None /\ w.conns[c].ws # "closed"
  BY Current DEF Disposed
<1>2. Formed(w) /\ Made(w)
  BY SoundFormed DEF Formed
<1>3. CloseUnhealthy(w, c) = v
  <2>1. Disconnected(w, c, FALSE) = r
    BY <1>1, <1>2, DisconnectedIs
  <2> QED BY <2>1 DEF CloseUnhealthy
<1> HIDE DEF out, shut, r, v
<1>4. /\ Kept(w, out, {"conn", "closed", "fence", "watch", "micro"}) /\ Formed(out)
      /\ out.conn = None /\ out.watch = None /\ out.fence = c /\ out.closed = w.closed \cup {c}
      /\ out.micro = w.micro
  BY <1>1, <1>2, WithdrawnIs DEF out
<1>5. out.conns = w.conns /\ out.panes = w.panes
  BY <1>4 DEF Kept
<1>6. Shut(out, shut, c, x)
  BY <1>1, <1>4, <1>5, StreamsShut DEF shut
<1>7. Formed(shut) /\ shut.conns[c] = x /\ DOMAIN shut.conns = DOMAIN w.conns
  BY <1>1, <1>4, <1>5, <1>6, ShutFormed
<1>8. Kept(shut, r, {}) \/ RecoveryQueued(shut, r)
  BY <1>7, RecoveryScheduled DEF Formed, r
<1>9. Formed(r) /\ r.conns = shut.conns
  BY <1>7, <1>8 DEF Formed, Kept, RecoveryQueued
<1>10. Shut(r, v, c, Closing(x))
  <2>1. ~Disposed(r.conns[c])
    BY <1>1, <1>7, <1>9, Ends DEF Disposed
  <2>2. c \in DOMAIN r.conns /\ r.conns[c] = x
    BY <1>1, <1>7, <1>9
  <2> QED BY <1>9, <2>1, <2>2, ConnectionShut DEF v
<1>11. Closing(x).sent = w.conns[c].sent /\ Disposed(Closing(x))
  BY <1>1, Ends
<1>12. Kept(v, u, {"micro", "recovery"}) /\ u.micro = <<>> /\ u.recovery = w.recovery
  <2>1. Made(v)
    BY <1>10 DEF Shut, Kept
  <2> QED BY <2>1 DEF Made, PageFields, Kept
<1> HIDE DEF u, x
<1>13. Retired(w, u, c, Closing(x))
  <2>1. Kept(w, u, {"conns", "conn", "closed", "fence", "expected", "watch", "panes"})
    BY <1>4, <1>6, <1>8, <1>10, <1>12 DEF Kept, Shut, RecoveryQueued
  <2>2. u.conns = [w.conns EXCEPT ![c] = Closing(x)]
    <3>1. u.conns = v.conns /\ v.conns = [r.conns EXCEPT ![c] = Closing(x)]
          /\ shut.conns = [out.conns EXCEPT ![c] = x]
      BY <1>6, <1>10, <1>12 DEF Kept, Shut
    <3> QED BY <1>1, <1>2, <1>5, <1>9, <3>1 DEF Formed
  <2>3. ShutPanes(w.panes, u.panes, c)
    <3>1. r.panes = shut.panes /\ u.panes = v.panes
      BY <1>8, <1>12 DEF Kept, RecoveryQueued
    <3>2. ShutPanes(w.panes, shut.panes, c) /\ ShutPanes(shut.panes, v.panes, c)
      BY <1>5, <1>6, <1>10, <3>1 DEF Shut
    <3>3. c # None
      OBVIOUS
    <3> HIDE DEF c
    <3> QED BY <3>1, <3>2, <3>3 DEF ShutPanes, Dropped
  <2>4. u.conn = None /\ u.watch = None /\ u.fence = c /\ u.closed = w.closed \cup {c}
        /\ u.expected = w.expected
    BY <1>4, <1>6, <1>8, <1>10, <1>12 DEF Kept, Shut, RecoveryQueued
  <2>5. Closing(x) \in Connection /\ Closing(x).streams = {} /\ u.expected \in BOOLEAN
    BY <1>10, <2>4 DEF Shut, Sound, Typed
  <2> QED BY <1>11, <2>1, <2>2, <2>3, <2>4, <2>5 DEF Retired
<1>14. Kept(u, v, {}) \/ RecoveryQueued(u, v)
  <2>1. shut.micro = <<>> /\ shut.recovery = w.recovery
    BY <1>4, <1>6 DEF Kept, Shut
  <2>2. Kept(u, v, {"micro", "recovery"}) /\ v.micro = r.micro /\ v.recovery = r.recovery
    BY <1>10, <1>12 DEF Kept, Shut
  <2>3. CASE Kept(shut, r, {})
    <3>1. v.micro = u.micro /\ v.recovery = u.recovery
      BY <1>12, <2>1, <2>2, <2>3 DEF Kept
    <3>2. Kept(u, v, {})
      BY <2>2, <3>1 DEF Kept
    <3> QED BY <3>2
  <2>4. CASE RecoveryQueued(shut, r)
    BY <1>12, <2>1, <2>2, <2>4 DEF RecoveryQueued
  <2> QED BY <1>8, <2>3, <2>4
<1>15. Kept(u, u, {"micro"})
  BY <1>12 DEF Kept
<1> QED BY <1>3, <1>12, <1>13, <1>14, <1>15, SoundGivenUp

\* The socket reports an error.
LEMMA SoundSocketError ==
  ASSUME NEW w, Sound(w), w.conn # None, w.micro = <<>>
  PROVE  LET v == Disconnected(w, w.conn, TRUE) IN Sound(v) /\ v.faults = w.faults
<1> DEFINE c == w.conn
           out == Withdrawn(w, c)
           shut == CloseAllStreams(out, c)
           u == CloseConnection(shut, c)
           v == ScheduleRecovery(u)
           x == Bare(w.conns[c])
<1>1. /\ c \in DOMAIN w.conns /\ w.conns[c] \in Connection /\ ~Disposed(w.conns[c])
      /\ c \notin w.closed /\ w.fence = None /\ w.conns[c].ws # "closed"
  BY Current DEF Disposed
<1>2. Formed(w) /\ Made(w)
  BY SoundFormed DEF Formed
<1>3. Disconnected(w, c, TRUE) = v
  BY <1>1, <1>2, DisconnectedIs
<1> HIDE DEF out, shut, u, v
<1>4. /\ Kept(w, out, {"conn", "closed", "fence", "watch", "micro"}) /\ Formed(out)
      /\ out.conn = None /\ out.watch = None /\ out.fence = c /\ out.closed = w.closed \cup {c}
      /\ out.micro = w.micro
  BY <1>1, <1>2, WithdrawnIs DEF out
<1>5. out.conns = w.conns /\ out.panes = w.panes
  BY <1>4 DEF Kept
<1>6. Shut(out, shut, c, x)
  BY <1>1, <1>4, <1>5, StreamsShut DEF shut
<1>7. Formed(shut) /\ shut.conns[c] = x /\ DOMAIN shut.conns = DOMAIN w.conns
  BY <1>1, <1>4, <1>5, <1>6, ShutFormed
<1>8. Shut(shut, u, c, Closing(x))
  <2>1. ~Disposed(shut.conns[c])
    BY <1>1, <1>7, Ends DEF Disposed
  <2>2. c \in DOMAIN shut.conns /\ shut.conns[c] = x
    BY <1>1, <1>7
  <2> QED BY <1>7, <2>1, <2>2, ConnectionShut DEF u
<1>9. Shut(out, u, c, Closing(x))
  <2> HIDE DEF x, c
  <2> QED BY <1>1, <1>4, <1>5, <1>6, <1>8, ShutTwice DEF c
<1>10. Closing(x).sent = w.conns[c].sent /\ Disposed(Closing(x))
  BY <1>1, Ends
<1> HIDE DEF x
<1>11. Retired(w, u, c, Closing(x))
  <2>1. Kept(w, u, {"conns", "conn", "closed", "fence", "expected", "watch", "panes"})
    BY <1>4, <1>9 DEF Kept, Shut
  <2>2. u.conn = None /\ u.watch = None /\ u.fence = c /\ u.closed = w.closed \cup {c}
        /\ u.expected = w.expected
    BY <1>4, <1>9 DEF Kept, Shut
  <2>3. u.expected \in BOOLEAN
    BY <2>2 DEF Sound, Typed
  <2> QED BY <1>5, <1>9, <1>10, <2>1, <2>2, <2>3 DEF Retired, Shut
<1>12. Made(u) /\ u.micro = <<>>
  BY <1>4, <1>11 DEF Retired, Kept
<1>13. Kept(u, u, {"micro"})
  BY <1>12 DEF Kept
<1>14. Kept(u, v, {}) \/ RecoveryQueued(u, v)
  BY <1>12, RecoveryScheduled DEF v
<1> QED BY <1>3, <1>11, <1>12, <1>13, <1>14, SoundGivenUp

\* A socket closes.
SocketGone(w, c) == [w EXCEPT !.conns[c].ws = "closed", !.conns[c].ready = FALSE]

\* The close event changes the one connection.
LEMMA GoneIs ==
  ASSUME NEW w, Formed(w), NEW c \in DOMAIN w.conns
  PROVE  LET s == SocketGone(w, c) IN
         /\ Kept(w, s, {"conns"}) /\ s.conns = [w.conns EXCEPT ![c] = Gone(w.conns[c])]
         /\ Formed(s) /\ s.conns[c] = Gone(w.conns[c]) /\ DOMAIN s.conns = DOMAIN w.conns
<1> DEFINE s == SocketGone(w, c)
           y == Gone(w.conns[c])
           ds == w.conns
<1>1. Kept(w, s, {"conns"}) /\ s.conns = [w.conns EXCEPT ![c] = y]
  BY DEF Formed, Made, PageFields, Kept, Gone, SocketGone
<1>2. w.conns[c] \in Connection /\ w.conns \in Seq(Connection)
  BY ElementOfSeq, LenProperties DEF Formed
<1>3. y \in Connection
  BY <1>2, Ends
<1> HIDE DEF s, y, ds
<1>4. LET es == [ds EXCEPT ![c] = y] IN
      es \in Seq(Connection) /\ DOMAIN es = DOMAIN ds /\ es[c] = y
  BY <1>2, <1>3, ConnectionChanged DEF ds
<1>5. Formed(s) /\ s.conns[c] = y /\ DOMAIN s.conns = DOMAIN w.conns
  BY <1>1, <1>4 DEF ds, Formed, Kept
<1> QED BY <1>1, <1>5 DEF s, y

\* The close event of the current connection, which nobody expects,
LEMMA SoundCurrentClosed ==
  ASSUME NEW w, NEW c, Sound(w), c = w.conn, w.conn # None, w.micro = <<>>
  PROVE  LET v == SocketClosed(w, c) IN Sound(v) /\ v.faults = w.faults
<1> DEFINE y == Gone(w.conns[c])
           s == SocketGone(w, c)
           out == Withdrawn(s, c)
           shut == CloseAllStreams(out, c)
           r == ScheduleRecovery(shut)
           v == CloseAllStreams(r, c)
           f == [v EXCEPT !.micro = <<<<"fence">>>>, !.recovery = w.recovery]
           u == [f EXCEPT !.micro = <<>>]
           x == Bare(y)
<1>1. /\ c \in DOMAIN w.conns /\ w.conns[c] \in Connection /\ ~w.expected
      /\ c \notin w.closed /\ w.fence = None /\ c # None
  BY Current
<1>2. Formed(w) /\ Made(w) /\ w.conns \in Seq(Connection)
  BY SoundFormed DEF Formed
<1>3. /\ y \in Connection /\ x \in Connection /\ x.sent = w.conns[c].sent
      /\ Disposed(x) /\ x.streams = {} /\ y.ws = "closed" /\ Bare(x) = x
  BY <1>1 DEF Gone, Bare, Connection, SocketStates, Disposed
<1>4. Kept(w, s, {"conns"}) /\ s.conns = [w.conns EXCEPT ![c] = y]
  BY <1>1, <1>2, GoneIs
<1>5. Formed(s) /\ s.conns[c] = y /\ DOMAIN s.conns = DOMAIN w.conns
  BY <1>1, <1>2, GoneIs
<1> HIDE DEF s, y, x
<1>6. s.conn = c /\ s.closed = w.closed /\ s.fence = None /\ ~s.expected /\ Made(s)
      /\ s.micro = <<>> /\ s.panes = w.panes
  BY <1>1, <1>4 DEF Kept
<1>7. SocketClosed(w, c) = v
  <2>1. Disconnected(s, c, FALSE) = r
    BY <1>1, <1>6, DisconnectedIs
  <2>2. w.conn = c /\ ~w.expected /\ w.fence # c
    BY <1>1
  <2> HIDE DEF out, shut, r
  <2> QED BY <2>1, <2>2 DEF SocketClosed, SocketGone, s
<1> HIDE DEF out, shut, r, v, f, u
<1>8. /\ Kept(s, out, {"conn", "closed", "fence", "watch", "micro"}) /\ Formed(out)
      /\ out.conn = None /\ out.watch = None /\ out.fence = c /\ out.closed = w.closed \cup {c}
      /\ out.micro = Append(<<>>, <<"fence">>)
  <2>1. /\ Kept(s, out, {"conn", "closed", "fence", "watch", "micro"}) /\ Formed(out)
        /\ out.conn = None /\ out.watch = None /\ out.fence = c
        /\ out.closed = s.closed \cup {c}
        /\ out.micro = IF s.conns[c].ws = "closed" THEN Append(s.micro, <<"fence">>)
                       ELSE s.micro
    BY <1>5, WithdrawnIs DEF out
  <2> QED BY <1>3, <1>5, <1>6, <2>1
<1>9. out.conns = s.conns /\ out.panes = w.panes
  BY <1>6, <1>8 DEF Kept
<1>10. Shut(out, shut, c, x)
  BY <1>1, <1>5, <1>8, <1>9, StreamsShut DEF shut, x
<1>11. Formed(shut) /\ shut.conns[c] = x /\ DOMAIN shut.conns = DOMAIN w.conns
  <2>1. c \in DOMAIN out.conns
    BY <1>1, <1>5, <1>9
  <2>2. Formed(out)
    BY <1>8
  <2>3. Formed(shut) /\ shut.conns[c] = x /\ DOMAIN shut.conns = DOMAIN out.conns
    BY <1>10, <2>1, <2>2, ShutFormed
  <2> QED BY <1>5, <1>9, <2>3
<1>12. Kept(shut, r, {}) \/ RecoveryQueued(shut, r)
  BY <1>11, RecoveryScheduled DEF Formed, r
<1>13. Formed(r) /\ r.conns = shut.conns
  BY <1>11, <1>12 DEF Formed, Kept, RecoveryQueued
<1>14. Shut(r, v, c, x)
  <2>1. c \in DOMAIN r.conns /\ r.conns[c] = x
    BY <1>1, <1>11, <1>13
  <2> QED BY <1>3, <1>13, <2>1, StreamsShut DEF v
<1>15. Kept(v, f, {"micro", "recovery"}) /\ f.micro = <<<<"fence">>>> /\ f.recovery = w.recovery
  <2>1. Made(v)
    BY <1>14 DEF Shut, Kept
  <2> QED BY <2>1 DEF Made, PageFields, Kept, f
<1>16. Kept(f, u, {"micro"}) /\ u.micro = <<>>
  <2>1. Made(f)
    BY <1>15 DEF Kept
  <2> QED BY <2>1 DEF Made, PageFields, Kept, u
<1>17. Retired(w, u, c, x)
  <2>1. Kept(w, u, {"conns", "conn", "closed", "fence", "expected", "watch", "panes"})
    <3>1. u.micro = w.micro /\ u.recovery = w.recovery
      BY <1>15, <1>16 DEF Kept
    <3>2. Kept(w, r, {"conns", "conn", "closed", "fence", "expected", "watch", "panes", "micro",
                      "recovery"})
      BY <1>4, <1>8, <1>10, <1>12 DEF Kept, Shut, RecoveryQueued
    <3> QED BY <1>14, <1>15, <1>16, <3>1, <3>2 DEF Kept, Shut
  <2>2. u.conns = [w.conns EXCEPT ![c] = x]
    <3>1. u.conns = v.conns /\ v.conns = [r.conns EXCEPT ![c] = x]
          /\ r.conns = [s.conns EXCEPT ![c] = x]
      BY <1>9, <1>10, <1>13, <1>14, <1>15, <1>16 DEF Kept, Shut
    <3> QED BY <1>4, <3>1
  <2>3. ShutPanes(w.panes, u.panes, c)
    <3>1. r.panes = shut.panes /\ u.panes = v.panes
      BY <1>12, <1>15, <1>16 DEF Kept, RecoveryQueued
    <3>2. ShutPanes(w.panes, shut.panes, c) /\ ShutPanes(shut.panes, v.panes, c)
      BY <1>9, <1>10, <1>14, <3>1 DEF Shut
    <3> QED BY <1>1, <3>1, <3>2 DEF ShutPanes, Dropped
  <2>4. u.conn = None /\ u.watch = None /\ u.fence = c /\ u.closed = w.closed \cup {c}
        /\ u.expected = w.expected
    <3>1. r.conn = None /\ r.watch = None /\ r.fence = c /\ r.closed = w.closed \cup {c}
          /\ r.expected = w.expected
      BY <1>4, <1>8, <1>10, <1>12 DEF Kept, Shut, RecoveryQueued
    <3> QED BY <1>14, <1>15, <1>16, <3>1 DEF Kept, Shut
  <2>5. u.expected \in BOOLEAN
    BY <2>4 DEF Sound, Typed
  <2> QED BY <1>3, <2>1, <2>2, <2>3, <2>4, <2>5 DEF Retired
<1>18. Kept(u, f, {"micro"}) /\ f.micro = Append(<<>>, <<"fence">>)
  <2>1. Made(f)
    BY <1>15 DEF Kept
  <2>2. Append(<<>>, <<"fence">>) = <<<<"fence">>>>
    OBVIOUS
  <2> QED BY <1>15, <1>16, <2>1, <2>2 DEF Kept
<1>19. Kept(f, v, {}) \/ RecoveryQueued(f, v)
  <2>1. shut.micro = Append(<<>>, <<"fence">>) /\ shut.recovery = w.recovery
    BY <1>4, <1>8, <1>10 DEF Kept, Shut
  <2>2. Kept(f, v, {"micro", "recovery"}) /\ v.micro = r.micro /\ v.recovery = r.recovery
    BY <1>14, <1>15 DEF Kept, Shut
  <2>3. CASE Kept(shut, r, {})
    <3>1. v.micro = f.micro /\ v.recovery = f.recovery
      BY <1>15, <1>18, <2>1, <2>2, <2>3 DEF Kept
    <3>2. Kept(f, v, {})
      BY <2>2, <3>1 DEF Kept
    <3> QED BY <3>2
  <2>4. CASE RecoveryQueued(shut, r)
    BY <1>15, <1>18, <2>1, <2>2, <2>4 DEF RecoveryQueued
  <2> QED BY <1>12, <2>3, <2>4
<1> QED BY <1>7, <1>17, <1>18, <1>19, SoundGivenUp

\* and of one that was given up before.
LEMMA SoundOldClosed ==
  ASSUME NEW w, Sound(w), NEW c \in DOMAIN w.conns, c # w.conn
  PROVE  LET v == SocketClosed(w, c) IN
         Sound(v) /\ v.faults = w.faults /\ v.conn = w.conn
<1> DEFINE y == Gone(w.conns[c])
           s == SocketGone(w, c)
           z == CloseAllStreams(s, c)
           x == Bare(y)
<1>1. Formed(w) /\ Made(w) /\ w.conns \in Seq(Connection) /\ c \in 1 .. Len(w.conns)
      /\ w.panes \in [Pane -> Session]
  BY SoundFormed, LenProperties DEF Formed
<1>2. w.conns[c] \in Connection /\ Disposed(w.conns[c])
  <2>1. w.conns[c] \in Connection
    BY <1>1, ElementOfSeq
  <2> QED BY <2>1 DEF Sound, Owned, OwnedOf
<1>3. \A p \in Pane : w.panes[p].sock # c
  BY <1>1 DEF Sound, Matched, MatchedOf, None
<1>4. w.conns[c].streams = {}
  BY <1>3 DEF Sound, Matched, MatchedOf
<1>5. /\ y \in Connection /\ x \in Connection /\ x.sent = w.conns[c].sent
      /\ Disposed(x) /\ x.streams = {} /\ x.update = w.conns[c].update
  BY <1>2 DEF Gone, Bare, Connection, SocketStates, Disposed
<1>6. Kept(w, s, {"conns"}) /\ s.conns = [w.conns EXCEPT ![c] = y]
  BY <1>1, GoneIs
<1>7. SocketClosed(w, c) = IF w.fence = c THEN Later(z, <<"fence">>) ELSE z
  <2>1. w.conn # c
    OBVIOUS
  <2> HIDE DEF z
  <2> QED BY <2>1 DEF SocketClosed, SocketGone, z
<1>8. Formed(s) /\ s.conns[c] = y /\ DOMAIN s.conns = DOMAIN w.conns
  BY <1>1, GoneIs
<1> HIDE DEF s
<1>9. Shut(s, z, c, x)
  <2> HIDE DEF y
  <2> QED BY <1>8, StreamsShut
<1> HIDE DEF x, y, z
<1>10. z.panes = w.panes
  <2>1. s.panes = w.panes
    BY <1>6 DEF Kept
  <2>2. z.panes \in [Pane -> Session] /\ \A p \in Pane : z.panes[p] = w.panes[p]
    BY <1>3, <1>9, <2>1 DEF Shut, ShutPanes
  <2> QED BY <1>1, <2>2
<1>11. Kept(w, z, {"conns"}) /\ z.conns = [w.conns EXCEPT ![c] = x]
  BY <1>6, <1>9, <1>10 DEF Shut, Kept
<1>12. Sound(z) /\ z.faults = w.faults /\ z.conn = w.conn /\ Made(z)
  <2>1. Disposed(x) <=> Disposed(w.conns[c])
    BY <1>2, <1>5
  <2>2. x.streams = w.conns[c].streams
    BY <1>4, <1>5
  <2> QED BY <1>5, <1>11, <2>1, <2>2, SoundConnection DEF Kept
<1>13. Sound(Later(z, <<"fence">>)) /\ Later(z, <<"fence">>).faults = z.faults
       /\ Later(z, <<"fence">>).conn = z.conn
  <2>1. MayQueue(z, <<"fence">>)
    BY DEF MayQueue, IsTask, Plain
  <2> QED BY <1>12, <2>1, KeptLater, SoundAppended DEF Kept
<1> QED BY <1>7, <1>12, <1>13

-----------------------------------------------------------------------------
\* Streams are closed and subscriptions are sent.

\* An update of the subscriptions is queued, once.
Updating(r) == [r EXCEPT !.update = TRUE]

\* An update of the subscriptions that becomes due is queued as well.
LEMMA SoundScheduleSubscriptions ==
  ASSUME NEW w, Sound(w), w.conn # None
  PROVE  LET v == ScheduleSubscriptions(w, w.conn) IN
         /\ Sound(v) /\ Kept(w, v, {"conns", "micro"}) /\ v.conns[w.conn].update
         /\ DOMAIN v.conns = DOMAIN w.conns
         /\ \A d \in DOMAIN w.conns : v.conns[d].ws = w.conns[d].ws
<1> DEFINE c == w.conn
           u == Later(w, <<"subs", c>>)
           v == [u EXCEPT !.conns[c].update = TRUE]
           x == Updating(w.conns[c])
<1>1. Formed(w) /\ Made(w) /\ c \in DOMAIN w.conns /\ w.conns[c] \in Connection
      /\ c \in 1 .. Len(w.conns) /\ w.conns \in Seq(Connection)
  BY SoundFormed, Current, LenProperties DEF Formed
<1>2. CASE w.conns[c].update
  BY <1>1, <1>2, KeptSelf DEF ScheduleSubscriptions, Kept
<1>3. CASE ~w.conns[c].update
  <2>1. Kept(w, u, {"micro"}) /\ u.micro = Append(w.micro, <<"subs", c>>)
    BY <1>1, KeptLater
  <2>2. MayQueue(w, <<"subs", c>>)
    BY <1>1 DEF MayQueue, IsTask
  <2> HIDE DEF u
  <2>3. Sound(u)
    BY <2>1, <2>2, SoundAppended
  <2>4. u.conns = w.conns /\ u.conn = c /\ Made(u) /\ u.panes = w.panes
    BY <2>1 DEF Kept
  <2>5. Kept(u, v, {"conns"}) /\ v.conns = [w.conns EXCEPT ![c] = x]
    BY <2>4 DEF Made, PageFields, Kept, Updating
  <2>6. x \in Connection /\ x.streams = w.conns[c].streams /\ x.sent = w.conns[c].sent
        /\ x.ws = w.conns[c].ws /\ x.update
    BY <1>1 DEF Connection, Updating
  <2> HIDE DEF x, v
  <2>7. /\ v.conns \in Seq(Connection) /\ Len(v.conns) = Len(w.conns)
        /\ DOMAIN v.conns = DOMAIN w.conns
        /\ v.conns[c] = x /\ \A d \in DOMAIN w.conns : d # c => v.conns[d] = w.conns[d]
    <3> DEFINE ds == w.conns
    <3> HIDE DEF ds
    <3>1. LET es == [ds EXCEPT ![c] = x] IN
          /\ es \in Seq(Connection) /\ Len(es) = Len(ds) /\ DOMAIN es = DOMAIN ds
          /\ es[c] = x /\ \A d \in DOMAIN ds : d # c => es[d] = ds[d]
      BY <1>1, <2>6, ConnectionChanged DEF ds
    <3> QED BY <2>5, <3>1 DEF ds
  <2>8. /\ v.conn = c /\ v.gens = u.gens /\ v.micro = u.micro /\ v.panes = u.panes
        /\ v.closed = u.closed /\ v.fence = u.fence /\ v.expected = u.expected
        /\ v.watch = u.watch
    BY <2>4, <2>5 DEF Kept
  <2>9. Typed(v)
    BY <2>3, <2>4, <2>5, <2>7 DEF Sound, Typed, Kept
  <2>10. Queued(v) /\ Recovering(v) /\ Rested(v)
    BY <2>3, <2>4, <2>7, <2>5, Zenon DEF Sound, Queued, Recovering, Rested, Kept
  <2>11. Owned(v)
    <3>1. \A d \in DOMAIN w.conns : v.conns[d].ws = w.conns[d].ws
      BY <2>6, <2>7
    <3> QED BY <2>3, <2>4, <2>7, <2>8, <3>1 DEF Sound, Owned, OwnedOf, Disposed
  <2>12. Matched(v)
    <3>1. \A d \in DOMAIN w.conns : v.conns[d].streams = w.conns[d].streams
                                    /\ v.conns[d].sent = w.conns[d].sent
      BY <2>6, <2>7
    <3>2. MatchedOf(w.conns, c, u.panes, u.gens)
      BY <2>3, <2>4 DEF Sound, Matched
    <3> QED BY <2>7, <2>8, <3>1, <3>2 DEF Matched, MatchedOf
  <2>13. Heard(v)
    <3>1. HeardOf(w.conns, c, w.panes, w.micro) /\ HeardOf(w.conns, c, u.panes, u.micro)
      BY <2>3, <2>4 DEF Sound, Heard
    <3>2. SubsBefore(u.micro, c, Len(u.micro) + 1)
      <4>1. Len(u.micro) = Len(w.micro) + 1 /\ u.micro[Len(w.micro) + 1] = <<"subs", c>>
            /\ Len(w.micro) \in Nat
        BY <2>1, Appended DEF Sound, Queued, QueuedOf
      <4>2. Len(w.micro) + 1 \in 1 .. (Len(u.micro) + 1 - 1)
            /\ u.micro[Len(w.micro) + 1][1] = "subs" /\ u.micro[Len(w.micro) + 1][2] = c
        BY <4>1
      <4> QED BY <4>2 DEF SubsBefore
    <3>3. v.conns[c].sent = w.conns[c].sent /\ v.conns[c].update
      BY <2>6, <2>7
    <3>4. ~w.conns[c].update
      BY <1>3
    <3> HIDE DEF c
    <3> QED BY <2>8, <3>1, <3>2, <3>3, <3>4 DEF Heard, HeardOf
  <2>14. Sound(v)
    BY <2>9, <2>10, <2>11, <2>12, <2>13 DEF Sound
  <2>15. ScheduleSubscriptions(w, c) = v
    BY <1>3 DEF ScheduleSubscriptions, v, u
  <2>16. Kept(w, v, {"conns", "micro"}) /\ v.conns[c].update
         /\ \A d \in DOMAIN w.conns : v.conns[d].ws = w.conns[d].ws
    BY <2>1, <2>5, <2>6, <2>7 DEF Kept
  <2> QED BY <2>7, <2>14, <2>15, <2>16
<1> QED BY <1>2, <1>3

\* The stream of a pane closes.
Without(r, s) == [r EXCEPT !.streams = @ \ {s}]
Released(w, p) ==
    [w EXCEPT !.conns[w.panes[p].sock].streams = @ \ {<<p, w.panes[p].gen>>},
              !.panes[p] = StreamClosed(w, w.panes[p])]

\* Connection and session give the stream of a pane up together.
LEMMA SoundReleased ==
  ASSUME NEW w, Sound(w), NEW p \in Pane, w.panes[p].sock # None
  PROVE  LET v == Released(w, p) IN
         /\ Sound(v) /\ Kept(w, v, {"conns", "panes"})
         /\ DOMAIN v.conns = DOMAIN w.conns
         /\ \A d \in DOMAIN w.conns : v.conns[d].ws = w.conns[d].ws
         /\ v.panes = [w.panes EXCEPT ![p] = StreamClosed(w, w.panes[p])]
         /\ Dropped(w.panes[p], v.panes[p])
<1> DEFINE v == Released(w, p)
           g == w.panes[p].gen
           s == StreamClosed(w, w.panes[p])
           ps == [w.panes EXCEPT ![p] = s]
<1>1. PICK c : c = w.conn
  OBVIOUS
<1>2. w.panes[p].sock = c /\ c # None
  BY <1>1 DEF Sound, Matched, MatchedOf
<1>3. Formed(w) /\ Made(w) /\ c \in DOMAIN w.conns /\ w.conns[c] \in Connection
      /\ c \in 1 .. Len(w.conns) /\ w.conns \in Seq(Connection) /\ w.panes \in [Pane -> Session]
      /\ w.online \in BOOLEAN
  BY <1>1, <1>2, SoundFormed, Current, LenProperties DEF Formed
<1> DEFINE x == Without(w.conns[c], <<p, g>>)
<1>4. Kept(w, v, {"conns", "panes"}) /\ v.panes = ps
      /\ v.conns = [w.conns EXCEPT ![c] = x]
  BY <1>2, <1>3 DEF Made, PageFields, Kept, Released, Without
<1>5. s \in Session /\ Dropped(w.panes[p], s)
  BY <1>3, SessionDropped
<1>6. x \in Connection /\ x.streams = w.conns[c].streams \ {<<p, g>>}
      /\ x.sent = w.conns[c].sent /\ x.ws = w.conns[c].ws /\ x.update = w.conns[c].update
  BY <1>3 DEF Connection, Without
<1> HIDE DEF x, v, s, ps
<1>7. /\ v.conns \in Seq(Connection) /\ Len(v.conns) = Len(w.conns)
      /\ DOMAIN v.conns = DOMAIN w.conns
      /\ v.conns[c] = x /\ \A d \in DOMAIN w.conns : d # c => v.conns[d] = w.conns[d]
  <2> DEFINE ds == w.conns
  <2> HIDE DEF ds
  <2>1. LET es == [ds EXCEPT ![c] = x] IN
        /\ es \in Seq(Connection) /\ Len(es) = Len(ds) /\ DOMAIN es = DOMAIN ds
        /\ es[c] = x /\ \A d \in DOMAIN ds : d # c => es[d] = ds[d]
    BY <1>3, <1>6, ConnectionChanged DEF ds
  <2> QED BY <1>4, <2>1 DEF ds
<1>8. ps \in [Pane -> Session] /\ ps[p] = s /\ \A q \in Pane : q # p => ps[q] = w.panes[q]
  BY <1>3, <1>5 DEF ps
<1>9. /\ v.conn = c /\ v.gens = w.gens /\ v.micro = w.micro
      /\ v.closed = w.closed /\ v.fence = w.fence /\ v.expected = w.expected
      /\ v.watch = w.watch
  BY <1>1, <1>4 DEF Kept
<1>10. Typed(v)
  BY <1>4, <1>7, <1>8 DEF Sound, Typed, Kept
<1>11. Queued(v) /\ Recovering(v)
  BY <1>4, <1>7, Zenon DEF Sound, Queued, Recovering, Kept
<1>12. \A d \in DOMAIN w.conns : v.conns[d].ws = w.conns[d].ws
                                 /\ v.conns[d].sent = w.conns[d].sent
                                 /\ v.conns[d].update = w.conns[d].update
  BY <1>6, <1>7
<1>13. Owned(v)
  BY <1>1, <1>7, <1>9, <1>12 DEF Sound, Owned, OwnedOf, Disposed
<1>14. Rested(v)
  BY <1>4, <1>5, <1>8 DEF Sound, Rested, RestedOf, Dropped
<1>15. Matched(v)
  <2>1. MatchedOf(w.conns, c, w.panes, w.gens) /\ w.gens \in Nat
    BY <1>1 DEF Sound, Matched, Typed
  <2>2. ASSUME NEW d \in DOMAIN w.conns
        PROVE  v.conns[d].streams = {<<q, ps[q].gen>> : q \in {r \in Pane : ps[r].sock = d}}
    <3>1. d # None
      BY <1>3, LenProperties DEF None
    <3>2. {r \in Pane : ps[r].sock = d} = {r \in Pane : w.panes[r].sock = d} \ {p}
      BY <1>2, <1>5, <1>8, <3>1 DEF Dropped
    <3>3. w.conns[d].streams = {<<q, w.panes[q].gen>> : q \in {r \in Pane : w.panes[r].sock = d}}
      BY <2>1 DEF MatchedOf
    <3>4. CASE d = c
      BY <1>2, <1>6, <1>7, <1>8, <3>2, <3>3, <3>4
    <3>5. CASE d # c
      <4>1. p \notin {r \in Pane : w.panes[r].sock = d}
        BY <1>2, <3>5
      <4>2. v.conns[d].streams = w.conns[d].streams
        BY <1>7, <3>5
      <4> QED BY <1>8, <3>2, <3>3, <4>1, <4>2
    <3> QED BY <3>4, <3>5
  <2>3. \A q \in Pane :
          /\ ps[q].sock \in {None, c} /\ ps[q].gen \in 0 .. w.gens
          /\ ps[q].sock # None => ps[q].gen # 0
    BY <1>5, <1>8, <2>1 DEF MatchedOf, Dropped
  <2> QED BY <1>4, <1>7, <1>9, <1>12, <2>1, <2>2, <2>3 DEF Matched, MatchedOf
<1>16. Heard(v)
  <2>1. HeardOf(w.conns, c, w.panes, w.micro)
    BY <1>1 DEF Sound, Heard
  <2>2. \A i \in 1 .. Len(w.micro) : w.micro[i][1] = "opened" => w.micro[i][2] \in Pane
    BY DEF Sound, Queued, QueuedOf, IsTask, Plain
  <2>3. \A q \in Pane : ps[q].sock # None => ps[q] = w.panes[q]
    BY <1>5, <1>8 DEF Dropped
  <2>4. \A q \in Pane : ps[q].opened => ps[q] = w.panes[q]
    BY <1>5, <1>8 DEF Dropped
  <2>5. v.conns[c].sent = w.conns[c].sent /\ v.conns[c].update = w.conns[c].update
    BY <1>3, <1>12
  <2> QED BY <1>4, <1>9, <2>1, <2>2, <2>3, <2>4, <2>5 DEF Heard, HeardOf
<1>17. Sound(v)
  BY <1>10, <1>11, <1>13, <1>14, <1>15, <1>16 DEF Sound
<1>18. v.panes = ps /\ v.panes[p] = s
  BY <1>4, <1>8
<1> QED BY <1>4, <1>5, <1>7, <1>12, <1>17, <1>18 DEF v, s, ps

\* logicalSocket.close releases the stream and has the server told.
LEMMA SoundCloseStream ==
  ASSUME NEW w, Sound(w), NEW p \in Pane, w.panes[p].sock # None
  PROVE  LET v == CloseStream(w, p) IN
         /\ Sound(v) /\ Kept(w, v, {"conns", "panes", "micro"})
         /\ DOMAIN v.conns = DOMAIN w.conns
         /\ \A d \in DOMAIN w.conns : v.conns[d].ws = w.conns[d].ws
         /\ v.panes = [w.panes EXCEPT ![p] = StreamClosed(w, w.panes[p])]
         /\ Dropped(w.panes[p], v.panes[p])
<1> DEFINE u == Released(w, p)
           v == ScheduleSubscriptions(u, u.conn)
<1>1. /\ Sound(u) /\ Kept(w, u, {"conns", "panes"})
      /\ DOMAIN u.conns = DOMAIN w.conns
      /\ \A d \in DOMAIN w.conns : u.conns[d].ws = w.conns[d].ws
      /\ u.panes = [w.panes EXCEPT ![p] = StreamClosed(w, w.panes[p])]
      /\ Dropped(w.panes[p], u.panes[p])
  BY SoundReleased
<1>2. w.panes[p].sock = w.conn /\ w.conn # None /\ u.conn = w.conn
  BY <1>1 DEF Sound, Matched, MatchedOf, Kept
<1>3. ~Disposed(w.conns[w.conn])
  BY <1>2, Current
<1>4. CloseStream(w, p) = v
  BY <1>2, <1>3 DEF CloseStream, Released
<1> HIDE DEF u
<1>5. /\ Sound(v) /\ Kept(u, v, {"conns", "micro"}) /\ DOMAIN v.conns = DOMAIN u.conns
      /\ \A d \in DOMAIN u.conns : v.conns[d].ws = u.conns[d].ws
  BY <1>1, <1>2, SoundScheduleSubscriptions
<1> HIDE DEF v
<1>6. Kept(w, v, {"conns", "panes", "micro"}) /\ v.panes = u.panes
  BY <1>1, <1>5 DEF Kept
<1> QED BY <1>1, <1>4, <1>5, <1>6

-----------------------------------------------------------------------------
\* The current connection, or a new one.

\* Connections are made, but none changes its state and no fault is used up.
Steady(w, v) ==
    /\ v.faults = w.faults
    /\ DOMAIN w.conns \subseteq DOMAIN v.conns
    /\ \A d \in DOMAIN w.conns : v.conns[d].ws = w.conns[d].ws

\* Two steady steps are one.
LEMMA SteadyTwice ==
  ASSUME NEW w, NEW u, NEW v, Steady(w, u), Steady(u, v)
  PROVE  Steady(w, v)
BY DEF Steady

\* A step that leaves the connections and the faults alone is steady.
LEMMA SteadyKept ==
  ASSUME NEW w, NEW v, NEW F, Kept(w, v, F), "conns" \notin F, "faults" \notin F
  PROVE  Steady(w, v)
BY DEF Steady, Kept

\* ensure makes a connection when there is neither one nor a fence.
LEMMA SoundNewCurrent ==
  ASSUME NEW w, Sound(w), w.conn = None, w.fence = None, NoRecover(w)
  PROVE  Sound(NewCurrent(w)) /\ Steady(w, NewCurrent(w))
<1> DEFINE v == NewCurrent(w)
           n == Len(w.conns)
           ds == Append(w.conns, NewConnection)
<1>1. Formed(w) /\ Made(w) /\ w.conns \in Seq(Connection) /\ n \in Nat
      /\ DOMAIN w.conns = 1 .. n
  BY SoundFormed, LenProperties DEF Formed
<1>2. NewConnection \in Connection /\ NewConnection.streams = {} /\ NewConnection.sent = {}
      /\ ~NewConnection.update /\ ~Disposed(NewConnection)
  BY DEF NewConnection, Connection, SocketStates, Disposed
<1>3. /\ Kept(w, v, {"conns", "conn", "watch"})
      /\ v.conns = ds /\ v.conn = n + 1 /\ v.watch = n + 1
  BY <1>1 DEF NewCurrent, Made, PageFields, Kept
<1> HIDE DEF v, ds
<1>4. /\ ds \in Seq(Connection) /\ Len(ds) = n + 1 /\ DOMAIN ds = 1 .. (n + 1)
      /\ ds[n + 1] = NewConnection /\ \A d \in 1 .. n : ds[d] = w.conns[d]
  <2>1. ds \in Seq(Connection) /\ Len(ds) = n + 1
        /\ ds[n + 1] = NewConnection /\ \A d \in 1 .. n : ds[d] = w.conns[d]
    BY <1>1, <1>2, AppendProperties DEF ds
  <2> QED BY <2>1, LenProperties
<1>5. /\ v.gens = w.gens /\ v.micro = w.micro /\ v.panes = w.panes
      /\ v.closed = w.closed /\ v.fence = None /\ v.expected = w.expected
      /\ v.recovery = w.recovery
  BY <1>3 DEF Kept
<1>6. Typed(v)
  <2>1. v.conn \in 0 .. Len(v.conns) /\ v.fence \in 0 .. Len(v.conns)
    BY <1>1, <1>3, <1>4, <1>5 DEF None
  <2> QED BY <1>3, <1>4, <2>1 DEF Sound, Typed, Kept
<1>7. Queued(v)
  BY <1>1, <1>3, <1>4, <1>5 DEF Sound, Queued, QueuedOf
<1>8. Owned(v)
  <2>1. w.closed = 1 .. n /\ ~w.expected
    BY <1>1 DEF Sound, Owned, OwnedOf, None
  <2>2. \A d \in 1 .. n : Disposed(w.conns[d])
    BY <1>1 DEF Sound, Owned, OwnedOf, None
  <2>3. \A d \in 1 .. (n + 1) : Disposed(ds[d]) <=> d # n + 1
    BY <1>1, <1>2, <1>4, <2>2
  <2>4. 1 .. n = (1 .. (n + 1)) \ {n + 1}
    BY <1>1
  <2> QED BY <1>3, <1>4, <1>5, <2>1, <2>3, <2>4 DEF Owned, OwnedOf
<1>9. \A p \in Pane : w.panes[p].sock = None
  BY DEF Sound, Matched, MatchedOf
<1>10. Matched(v)
  <2>1. MatchedOf(w.conns, None, w.panes, w.gens)
    BY DEF Sound, Matched
  <2>2. ASSUME NEW d \in 1 .. (n + 1)
        PROVE  /\ ds[d].streams = {<<p, w.panes[p].gen>> : p \in {q \in Pane : w.panes[q].sock = d}}
               /\ ds[d].sent \subseteq Pane \X (1 .. w.gens)
    <3>1. CASE d \in 1 .. n
      BY <1>1, <1>4, <2>1, <3>1 DEF MatchedOf
    <3>2. CASE d = n + 1
      <4>1. {q \in Pane : w.panes[q].sock = d} = {}
        BY <1>1, <1>9, <3>2 DEF None
      <4> QED BY <1>2, <1>4, <3>2, <4>1
    <3> QED BY <1>1, <3>1, <3>2
  <2> QED BY <1>3, <1>4, <1>5, <1>9, <2>1, <2>2 DEF Matched, MatchedOf
<1>11. Heard(v)
  <2>1. \A i \in 1 .. Len(w.micro) : w.micro[i][1] = "opened" => w.micro[i][2] \in Pane
    BY DEF Sound, Queued, QueuedOf, IsTask, Plain
  <2>2. \A p \in Pane : w.panes[p].opened => w.panes[p].told
    BY DEF Sound, Heard, HeardOf
  <2>3. ~ds[n + 1].update
    BY <1>2, <1>4
  <2> QED BY <1>3, <1>5, <1>9, <2>1, <2>2, <2>3 DEF Heard, HeardOf
<1>12. Recovering(v)
  BY <1>5 DEF Sound, Recovering, RecoveringOf, NoRecover
<1>13. Rested(v)
  BY <1>5 DEF Sound, Rested
<1>14. Sound(v)
  BY <1>6, <1>7, <1>8, <1>10, <1>11, <1>12, <1>13 DEF Sound
<1>15. Steady(w, v)
  BY <1>1, <1>3, <1>4 DEF Steady, Kept
<1> QED BY <1>14, <1>15 DEF v

\* A connection is made only when there is neither one nor a fence.
LEMMA SoundEnsured ==
  ASSUME NEW w, Sound(w), NoRecover(w)
  PROVE  Sound(Ensured(w)) /\ Steady(w, Ensured(w)) /\ Ensured(w).panes = w.panes
<1>1. w.conn # None => ~Disposed(w.conns[w.conn])
  BY Current
<1>2. Ensured(w) = IF w.fence # None \/ w.conn # None THEN w ELSE NewCurrent(w)
  BY <1>1 DEF Ensured
<1>3. NewCurrent(w).panes = w.panes
  BY DEF NewCurrent, Sound, Typed, Made, PageFields
<1>4. Steady(w, w)
  BY DEF Steady
<1> QED BY <1>2, <1>3, <1>4, SoundNewCurrent

-----------------------------------------------------------------------------
\* The order in which panes open.

\* The ranks of the panes of a set are 0, 1, 2, ...
LEMMA Ranks ==
  ASSUME NEW set \in SUBSET Pane
  PROVE  /\ IsFiniteSet(set) /\ Cardinality(set) \in Nat
         /\ \A p \in set : Rank(set, p) \in 0 .. (Cardinality(set) - 1)
         /\ \A i \in 1 .. Cardinality(set) : InOrder(set)[i] \in set
<1> DEFINE n == Cardinality(set)
           Pred(p) == {q \in set : Before(q, p)}
<1>1. IsFiniteSet(set) /\ n \in Nat /\ \A p \in set : p \in Nat
  BY PageAssumption, FS_Subset, FS_CardinalityType
<1>2. ASSUME NEW p \in set
      PROVE  IsFiniteSet(Pred(p)) /\ Rank(set, p) = Cardinality(Pred(p)) /\ Rank(set, p) \in Nat
  <2>1. Pred(p) \in SUBSET set
    OBVIOUS
  <2> HIDE DEF n
  <2>2. IsFiniteSet(Pred(p)) /\ Cardinality(Pred(p)) \in Nat
    BY <1>1, <2>1, FS_Subset, FS_CardinalityType
  <2> QED BY <2>2 DEF Rank
<1>3. ASSUME NEW p \in set
      PROVE  Rank(set, p) \in 0 .. (n - 1)
  <2>1. Pred(p) \in SUBSET (set \ {p})
    BY <1>1 DEF Before, Background
  <2>2. IsFiniteSet(set \ {p}) /\ Cardinality(set \ {p}) = n - 1
    BY <1>1, FS_RemoveElement
  <2> DEFINE A == set \ {p}
             B == Pred(p)
  <2> HIDE DEF A, B, n
  <2>3. Cardinality(B) <= Cardinality(A)
    BY <2>1, <2>2, FS_Subset DEF A, B
  <2> QED BY <1>1, <1>2, <2>2, <2>3 DEF A, B
<1>4. ASSUME NEW p \in set, NEW q \in set, Before(p, q)
      PROVE  Rank(set, p) < Rank(set, q)
  <2>1. Pred(p) \in SUBSET (Pred(q) \ {p}) /\ p \in Pred(q)
    BY <1>1, <1>4 DEF Before, Background
  <2> DEFINE A == Pred(p)
             B == Pred(q)
  <2>2. IsFiniteSet(A) /\ IsFiniteSet(B) /\ Rank(set, p) = Cardinality(A)
        /\ Rank(set, q) = Cardinality(B) /\ Cardinality(A) \in Nat /\ Cardinality(B) \in Nat
    BY <1>2
  <2> HIDE DEF A, B
  <2>3. IsFiniteSet(B \ {p}) /\ Cardinality(B \ {p}) = Cardinality(B) - 1
    BY <2>1, <2>2, FS_RemoveElement DEF A, B
  <2>4. A \in SUBSET (B \ {p})
    BY <2>1 DEF A, B
  <2>5. Cardinality(A) <= Cardinality(B \ {p})
    BY <2>3, <2>4, FS_Subset
  <2> QED BY <2>2, <2>3, <2>5
<1>5. ASSUME NEW p \in set, NEW q \in set, Rank(set, p) = Rank(set, q)
      PROVE  p = q
  <2>1. p = q \/ Before(p, q) \/ Before(q, p)
    BY <1>1 DEF Before, Background
  <2>2. Rank(set, p) \in Nat /\ Rank(set, q) \in Nat
    BY <1>2
  <2> QED BY <1>4, <1>5, <2>1, <2>2
<1> DEFINE f == [p \in set |-> Rank(set, p)]
           T == 0 .. (n - 1)
<1>6. f \in Injection(set, T)
  BY <1>3, <1>5 DEF Injection, IsInjective
<1>7. IsFiniteSet(T) /\ Cardinality(T) = n
  <2> HIDE DEF n
  <2>1. 0 \in Int /\ n - 1 \in Int /\ (0 > n - 1 => n = 0)
    BY <1>1
  <2>2. IsFiniteSet(T) /\ Cardinality(T) = IF 0 > n - 1 THEN 0 ELSE n - 1 - 0 + 1
    BY <2>1, FS_Interval
  <2> QED BY <1>1, <2>1, <2>2
<1>8. f \in Surjection(set, T)
  <2> HIDE DEF f, T
  <2> QED BY <1>6, <1>7, FS_Injection
<1>9. ASSUME NEW i \in 1 .. n
      PROVE  InOrder(set)[i] \in set
  <2>1. i - 1 \in T
    BY <1>1
  <2>2. \E p \in set : f[p] = i - 1
    BY <1>8, <2>1 DEF Surjection
  <2>3. \E p \in set : Rank(set, p) = i - 1
    BY <2>2
  <2>4. InOrder(set)[i] = CHOOSE p \in set : Rank(set, p) = i - 1
    BY DEF InOrder
  <2> QED BY <2>3, <2>4
<1> QED BY <1>1, <1>3, <1>9

-----------------------------------------------------------------------------
\* Streams open.

\* A session gets a stream, and the panes of a set get streams of new generations.
Joining(r, c, g) == [r EXCEPT !.sock = c, !.gen = g, !.pending = TRUE, !.replay = "idle"]

\* What joining a connection changes of a session.
LEMMA Joins ==
  ASSUME NEW r \in Session, NEW c \in Nat, NEW g \in Nat
  PROVE  LET s == Joining(r, c, g) IN
         /\ s \in Session /\ s.sock = c /\ s.gen = g /\ s.paused = r.paused
         /\ s.fails = r.fails /\ s.opened = r.opened /\ s.told = r.told
BY DEF Joining, Session

Joined(r, new) == [r EXCEPT !.streams = @ \union new]

\* Panes without a socket join the current connection, each under a new generation.
LEMMA SoundWithStreams ==
  ASSUME NEW w, Sound(w), w.conn # None, NEW set \in SUBSET Pane,
         \A p \in set : w.panes[p].sock = None /\ ~w.panes[p].paused
  PROVE  LET v == WithStreams(w, set) IN
         /\ Sound(v) /\ Kept(w, v, {"gens", "conns", "panes"}) /\ Steady(w, v)
         /\ v.gens = w.gens + Cardinality(set)
<1> DEFINE v == WithStreams(w, set)
           G(p) == NextGen(w, set, p)
           h == w.gens + Cardinality(set)
           ps == [p \in Pane |-> IF p \in set
                    THEN [w.panes[p] EXCEPT !.sock = w.conn, !.gen = NextGen(w, set, p),
                                            !.pending = TRUE, !.replay = "idle"]
                    ELSE w.panes[p]]
           new == {<<p, NextGen(w, set, p)>> : p \in set}
<1>1. PICK c : c = w.conn
  OBVIOUS
<1>2. Formed(w) /\ Made(w) /\ c \in DOMAIN w.conns /\ w.conns[c] \in Connection
      /\ c \in 1 .. Len(w.conns) /\ w.conns \in Seq(Connection) /\ w.panes \in [Pane -> Session]
      /\ w.gens \in Nat /\ c # None
  BY <1>1, SoundFormed, Current, LenProperties DEF Formed, Sound, Typed
<1> DEFINE x == Joined(w.conns[c], new)
<1>3. h \in Nat /\ w.gens <= h /\ \A p \in set : G(p) \in Nat /\ G(p) > w.gens /\ G(p) <= h
  <2>1. Cardinality(set) \in Nat /\ \A p \in set : Rank(set, p) \in 0 .. (Cardinality(set) - 1)
    BY Ranks
  <2> QED BY <1>2, <2>1 DEF NextGen
<1>4. Kept(w, v, {"gens", "conns", "panes"}) /\ v.panes = ps /\ v.gens = h
      /\ v.conns = [w.conns EXCEPT ![c] = x]
  <2> HIDE DEF ps, new, h
  <2>1. v = [w EXCEPT !.gens = h, !.conns[c].streams = @ \union new, !.panes = ps]
    BY <1>1 DEF WithStreams, ps, new, h
  <2>2. v = [w EXCEPT !.gens = h, !.conns = [w.conns EXCEPT ![c] = x], !.panes = ps]
    BY <1>2, <2>1 DEF Made, PageFields, Joined
  <2> HIDE DEF v, x
  <2> QED BY <1>2, <2>2 DEF Made, PageFields, Kept
<1>5. /\ ps \in [Pane -> Session]
      /\ \A p \in set : ps[p].sock = c /\ ps[p].gen = G(p) /\ ps[p].paused = w.panes[p].paused
                        /\ ps[p].fails = w.panes[p].fails /\ ps[p].opened = w.panes[p].opened
                        /\ ps[p].told = w.panes[p].told
      /\ \A p \in Pane \ set : ps[p] = w.panes[p]
  <2>1. ASSUME NEW p \in set
        PROVE  /\ ps[p] \in Session /\ ps[p].sock = c /\ ps[p].gen = G(p)
               /\ ps[p].paused = w.panes[p].paused /\ ps[p].fails = w.panes[p].fails
               /\ ps[p].opened = w.panes[p].opened /\ ps[p].told = w.panes[p].told
    <3>1. w.panes[p] \in Session /\ w.conn \in Nat /\ NextGen(w, set, p) \in Nat
      BY <1>1, <1>2, <1>3, LenProperties
    <3>2. ps[p] = Joining(w.panes[p], w.conn, NextGen(w, set, p))
      <4>1. p \in Pane
        OBVIOUS
      <4> QED BY <4>1, Zenon DEF Joining
    <3> DEFINE r == w.panes[p]
               g == NextGen(w, set, p)
    <3>4. r \in Session /\ w.conn \in Nat /\ g \in Nat /\ ps[p] = Joining(r, w.conn, g)
      BY <3>1, <3>2, Zenon
    <3> HIDE DEF ps, r, g
    <3>3. LET s == Joining(r, w.conn, g) IN
          /\ s \in Session /\ s.sock = w.conn /\ s.gen = g /\ s.paused = r.paused
          /\ s.fails = r.fails /\ s.opened = r.opened /\ s.told = r.told
      BY <3>4, Joins
    <3>5. /\ ps[p] \in Session /\ ps[p].sock = w.conn /\ ps[p].gen = g /\ ps[p].paused = r.paused
          /\ ps[p].fails = r.fails /\ ps[p].opened = r.opened /\ ps[p].told = r.told
      BY <3>3, <3>4
    <3> QED BY <1>1, <3>5 DEF r, g
  <2>2. \A p \in Pane \ set : ps[p] = w.panes[p] /\ w.panes[p] \in Session
    BY <1>2
  <2>3. ps = [p \in Pane |-> ps[p]]
    OBVIOUS
  <2> HIDE DEF ps
  <2> QED BY <2>1, <2>2, <2>3
<1>6. /\ x \in Connection /\ x.streams = w.conns[c].streams \cup new
      /\ x.sent = w.conns[c].sent /\ x.ws = w.conns[c].ws /\ x.update = w.conns[c].update
  <2>1. new \in SUBSET Streams
    BY <1>3 DEF Streams
  <2> HIDE DEF new
  <2> QED BY <1>2, <2>1 DEF Connection, Joined
<1> HIDE DEF x, v, ps
<1>7. /\ v.conns \in Seq(Connection) /\ Len(v.conns) = Len(w.conns)
      /\ DOMAIN v.conns = DOMAIN w.conns
      /\ v.conns[c] = x /\ \A d \in DOMAIN w.conns : d # c => v.conns[d] = w.conns[d]
  <2> DEFINE ds == w.conns
  <2> HIDE DEF ds
  <2>1. LET es == [ds EXCEPT ![c] = x] IN
        /\ es \in Seq(Connection) /\ Len(es) = Len(ds) /\ DOMAIN es = DOMAIN ds
        /\ es[c] = x /\ \A d \in DOMAIN ds : d # c => es[d] = ds[d]
    BY <1>2, <1>6, ConnectionChanged DEF ds
  <2> QED BY <1>4, <2>1 DEF ds
<1>8. /\ v.conn = c /\ v.micro = w.micro /\ v.recovery = w.recovery
      /\ v.closed = w.closed /\ v.fence = w.fence /\ v.expected = w.expected
      /\ v.watch = w.watch
  BY <1>1, <1>4 DEF Kept
<1> HIDE DEF h
<1>9. Typed(v)
  BY <1>3, <1>4, <1>5, <1>7 DEF Sound, Typed, Kept
<1>10. Queued(v)
  <2>1. QueuedOf(w.micro, Len(w.conns), w.gens)
    BY DEF Sound, Queued
  <2>2. \A i \in 1 .. Len(w.micro) : w.micro[i][1] = "opened" => w.micro[i][3] \in 1 .. h
    BY <1>2, <1>3, <2>1 DEF QueuedOf
  <2>3. QueuedOf(w.micro, Len(w.conns), h)
    BY <2>1, <2>2, Zenon DEF QueuedOf
  <2> QED BY <1>4, <1>7, <1>8, <2>3 DEF Queued
<1>11. \A d \in DOMAIN w.conns : v.conns[d].ws = w.conns[d].ws
                                 /\ v.conns[d].sent = w.conns[d].sent
                                 /\ v.conns[d].update = w.conns[d].update
  BY <1>6, <1>7
<1>12. Owned(v)
  BY <1>1, <1>7, <1>8, <1>11 DEF Sound, Owned, OwnedOf, Disposed
<1>13. Recovering(v)
  BY <1>1, <1>8 DEF Sound, Recovering
<1>14. Rested(v)
  <2>1. RestedOf(w.panes)
    BY DEF Sound, Rested
  <2> QED BY <1>4, <1>5, <2>1 DEF Rested, RestedOf
<1>15. Matched(v)
  <2>1. MatchedOf(w.conns, c, w.panes, w.gens)
    BY <1>1 DEF Sound, Matched
  <2>2. ASSUME NEW d \in DOMAIN w.conns
        PROVE  v.conns[d].streams = {<<q, ps[q].gen>> : q \in {r \in Pane : ps[r].sock = d}}
    <3>1. w.conns[d].streams = {<<q, w.panes[q].gen>> : q \in {r \in Pane : w.panes[r].sock = d}}
          /\ d # None
      BY <1>2, <2>1, LenProperties DEF MatchedOf, None
    <3>2. CASE d = c
      <4>1. {r \in Pane : ps[r].sock = c} = {r \in Pane : w.panes[r].sock = c} \cup set
        BY <1>5
      <4>2. set \cap {r \in Pane : w.panes[r].sock = c} = {}
        BY <1>2
      <4>3. {<<q, ps[q].gen>> : q \in {r \in Pane : ps[r].sock = c}}
            = {<<q, ps[q].gen>> : q \in {r \in Pane : w.panes[r].sock = c}}
              \cup {<<q, ps[q].gen>> : q \in set}
        BY <4>1
      <4>4. {<<q, ps[q].gen>> : q \in {r \in Pane : w.panes[r].sock = c}}
            = {<<q, w.panes[q].gen>> : q \in {r \in Pane : w.panes[r].sock = c}}
        BY <1>5, <4>2
      <4>5. {<<q, ps[q].gen>> : q \in set} = new
        BY <1>5
      <4> HIDE DEF new
      <4> QED BY <1>6, <1>7, <3>1, <3>2, <4>3, <4>4, <4>5
    <3>3. CASE d # c
      <4>1. {r \in Pane : ps[r].sock = d} = {r \in Pane : w.panes[r].sock = d}
        BY <1>2, <1>5, <3>1, <3>3
      <4>2. \A q \in {r \in Pane : w.panes[r].sock = d} : ps[q] = w.panes[q]
        BY <1>5, <3>1
      <4>3. v.conns[d].streams = w.conns[d].streams
        BY <1>7, <3>3
      <4> QED BY <3>1, <4>1, <4>2, <4>3
    <3> QED BY <3>2, <3>3
  <2>3. \A q \in Pane :
          /\ ps[q].sock \in {None, c} /\ ps[q].gen \in 0 .. h
          /\ ps[q].sock # None => ps[q].gen # 0
    BY <1>2, <1>3, <1>5, <2>1 DEF MatchedOf
  <2>4. \A d \in DOMAIN w.conns : w.conns[d].sent \subseteq Pane \X (1 .. h)
    BY <1>2, <1>3, <2>1 DEF MatchedOf
  <2> QED BY <1>4, <1>7, <1>8, <1>11, <2>2, <2>3, <2>4 DEF Matched, MatchedOf
<1>16. Heard(v)
  <2>1. HeardOf(w.conns, c, w.panes, w.micro)
    BY <1>1 DEF Sound, Heard
  <2>2. \A i \in 1 .. Len(w.micro) : w.micro[i][1] = "opened" =>
          w.micro[i][2] \in Pane /\ w.micro[i][3] \in 1 .. w.gens
    BY DEF Sound, Queued, QueuedOf, IsTask, Plain
  <2>3. \A q \in Pane, g \in 1 .. w.gens : ps[q].gen = g => ps[q] = w.panes[q]
    BY <1>2, <1>3, <1>5
  <2>4. v.conns[c].sent = w.conns[c].sent /\ v.conns[c].update = w.conns[c].update
    BY <1>2, <1>11
  <2>5. \A q \in Pane : ps[q].opened => ps[q].told
    BY <1>5, <2>1 DEF HeardOf
  <2>6. ASSUME NEW i \in 1 .. Len(w.micro), w.micro[i][1] = "opened",
               ps[w.micro[i][2]].sock # None, ps[w.micro[i][2]].gen = w.micro[i][3]
        PROVE  \/ <<w.micro[i][2], w.micro[i][3]>> \in v.conns[c].sent
               \/ v.conns[c].update /\ SubsBefore(w.micro, c, i)
    <3>1. ps[w.micro[i][2]] = w.panes[w.micro[i][2]]
      BY <2>2, <2>3, <2>6
    <3> QED BY <2>1, <2>4, <2>6, <3>1 DEF HeardOf
  <2> QED BY <1>4, <1>8, <2>1, <2>4, <2>5, <2>6 DEF Heard, HeardOf
<1>17. Sound(v)
  BY <1>9, <1>10, <1>12, <1>13, <1>14, <1>15, <1>16 DEF Sound
<1>18. Steady(w, v)
  BY <1>4, <1>7, <1>11 DEF Steady, Kept
<1> QED BY <1>4, <1>17, <1>18 DEF v, h

\* The open events are queued after the update of the subscriptions.
Openings(n) == {"opened", "settled"} \X Pane \X (1 .. n)

\* Open events may be queued once the update of the subscriptions is.
LEMMA SoundOpenings ==
  ASSUME NEW w, Sound(w), w.conn # None, w.conns[w.conn].update,
         NEW ts \in Seq(Openings(w.gens)),
         NEW v, Kept(w, v, {"micro"}), v.micro = w.micro \o ts
  PROVE  Sound(v)
<1> DEFINE m == w.micro
           a == v.micro
           T == {m[i] : i \in 1 .. Len(m)} \cup Openings(w.gens)
<1>1. m = [i \in 1 .. Len(m) |-> m[i]] /\ Len(m) \in Nat
  BY DEF Sound, Queued, QueuedOf
<1>2. m \in Seq(T)
  <2>1. m \in [1 .. Len(m) -> T]
    BY <1>1
  <2> HIDE DEF T, m
  <2> QED BY <1>1, <2>1, SeqDef
<1>3. ts \in Seq(T)
  BY SeqDef
<1> DEFINE n == Len(ts)
<1> HIDE DEF T
<1>4. /\ a \in Seq(T) /\ Len(a) = Len(m) + n /\ n \in Nat
      /\ \A i \in 1 .. (Len(m) + n) : a[i] = IF i <= Len(m) THEN m[i] ELSE ts[i - Len(m)]
  BY <1>2, <1>3, ConcatProperties, LenProperties
<1>5. \A i \in 1 .. n : ts[i] \in Openings(w.gens)
  BY ElementOfSeq
<1>6. a = [i \in 1 .. Len(a) |-> a[i]] /\ Len(a) \in Nat
  BY <1>4, LenProperties
<1>7. /\ v.conns = w.conns /\ v.gens = w.gens /\ v.panes = w.panes /\ v.conn = w.conn
      /\ v.recovery = w.recovery
  BY DEF Kept
<1>8. Typed(v) /\ Owned(v) /\ Matched(v) /\ Rested(v)
  BY Zenon DEF Sound, Typed, Owned, Matched, Rested, Kept
<1>9. QueuedOf(m, Len(w.conns), w.gens) /\ HeardOf(w.conns, w.conn, w.panes, m)
      /\ RecoveringOf(m, w.conn, w.recovery)
  BY DEF Sound, Queued, Heard, Recovering
<1> HIDE DEF m, a, n
<1>10. \A i \in 1 .. Len(m) : a[i] = m[i]
  BY <1>1, <1>4
<1>11. \A i \in 1 .. Len(a) : \/ (i \in 1 .. Len(m) /\ a[i] = m[i])
                             \/ (i > Len(m) /\ a[i] \in Openings(w.gens))
  <2>1. ASSUME NEW i \in 1 .. Len(a), ~(i <= Len(m))
        PROVE  i > Len(m) /\ a[i] \in Openings(w.gens)
    <3>1. i - Len(m) \in 1 .. n /\ a[i] = ts[i - Len(m)] /\ i > Len(m)
      BY <1>1, <1>4, <2>1
    <3> QED BY <1>5, <3>1
  <2> QED BY <1>1, <1>10, <2>1
<1>12. \A t \in Openings(w.gens) : /\ IsTask(t) /\ t[1] # "subs" /\ t[1] # "recover"
                                   /\ t[3] \in 1 .. w.gens /\ t[2] \in Pane
  <2>1. ASSUME NEW t \in Openings(w.gens)
        PROVE  \E k \in {"opened", "settled"}, p \in Pane, g \in Nat : t = <<k, p, g>>
    BY DEF Openings, Sound, Typed
  <2> QED BY <2>1 DEF IsTask, Openings
<1>13. QueuedOf(a, Len(w.conns), w.gens)
  <2>1. \A i \in 1 .. Len(a) :
          /\ IsTask(a[i])
          /\ a[i][1] = "subs" => a[i][2] \in 1 .. Len(w.conns)
          /\ a[i][1] = "opened" => a[i][3] \in 1 .. w.gens
    BY <1>9, <1>11, <1>12 DEF QueuedOf
  <2> QED BY <1>6, <2>1 DEF QueuedOf
<1>14. HeardOf(w.conns, w.conn, w.panes, a)
  <2>1. SubsBefore(m, w.conn, Len(m) + 1)
    BY <1>9 DEF HeardOf
  <2>2. ASSUME NEW i \in Nat, i > Len(m) PROVE SubsBefore(a, w.conn, i)
    <3>1. PICK j \in 1 .. (Len(m) + 1 - 1) : m[j][1] = "subs" /\ m[j][2] = w.conn
      BY <2>1 DEF SubsBefore
    <3>2. j \in 1 .. Len(m) /\ j \in 1 .. (i - 1)
      BY <1>1, <2>2
    <3>3. a[j] = m[j]
      BY <1>10, <3>2
    <3> QED BY <3>1, <3>2, <3>3 DEF SubsBefore
  <2>3. \A i \in 1 .. Len(m) : SubsBefore(m, w.conn, i) => SubsBefore(a, w.conn, i)
    BY <1>1, <1>10 DEF SubsBefore
  <2>4. SubsBefore(a, w.conn, Len(a) + 1)
    <3>1. Len(a) + 1 \in Nat /\ Len(a) + 1 > Len(m)
      BY <1>1, <1>4, <1>6
    <3> QED BY <2>2, <3>1
  <2>5. ASSUME NEW i \in 1 .. Len(a), a[i][1] = "opened",
               w.panes[a[i][2]].sock # None, w.panes[a[i][2]].gen = a[i][3]
        PROVE  \/ <<a[i][2], a[i][3]>> \in w.conns[w.conn].sent
               \/ w.conns[w.conn].update /\ SubsBefore(a, w.conn, i)
    <3>1. CASE i \in 1 .. Len(m) /\ a[i] = m[i]
      BY <1>9, <2>3, <2>5, <3>1 DEF HeardOf
    <3>2. CASE i > Len(m)
      BY <2>2, <3>2
    <3> QED BY <1>11, <3>1, <3>2
  <2>6. \A p \in Pane : w.panes[p].opened => w.panes[p].told
    BY <1>9 DEF HeardOf
  <2> QED BY <2>4, <2>5, <2>6 DEF HeardOf
<1>15. RecoveringOf(a, w.conn, w.recovery)
  <2>1. w.recovery = "scheduled" => \E i \in 1 .. Len(a) : a[i][1] = "recover"
    <3>1. w.recovery = "scheduled" => \E i \in 1 .. Len(m) : m[i][1] = "recover"
      BY <1>9 DEF RecoveringOf
    <3>2. \A i \in 1 .. Len(m) : i \in 1 .. Len(a)
      BY <1>1, <1>4, <1>6
    <3> QED BY <1>10, <3>1, <3>2
  <2>2. ASSUME NEW i \in 1 .. Len(a), a[i][1] = "recover"
        PROVE  w.conn = None /\ \A j \in 1 .. (i - 1) : a[j][1] # "sync"
    <3>1. i \in 1 .. Len(m) /\ a[i] = m[i]
      BY <1>11, <1>12, <2>2
    <3> QED BY <1>9, <2>2, <3>1 DEF RecoveringOf
  <2> QED BY <2>1, <2>2 DEF RecoveringOf
<1> QED BY <1>7, <1>8, <1>13, <1>14, <1>15 DEF Sound, Queued, Heard, Recovering, a

\* Streams open with all that follows, whichever panes they are for.
LEMMA SoundOpenStreams ==
  ASSUME NEW w, Sound(w), w.conn # None, NEW set \in SUBSET Pane,
         \A p \in set : w.panes[p].sock = None /\ ~w.panes[p].paused
  PROVE  Sound(OpenStreams(w, set)) /\ Steady(w, OpenStreams(w, set))
<1>1. CASE set = {}
  BY <1>1 DEF OpenStreams, Steady
<1>2. CASE set # {}
  <2> DEFINE u == WithStreams(w, set)
             s == ScheduleSubscriptions(u, w.conn)
             ts == Told(w, set, "opened") \o Told(w, set, "settled")
             v == [s EXCEPT !.micro = @ \o ts]
             h == w.gens + Cardinality(set)
  <2>1. Sound(u) /\ Kept(w, u, {"gens", "conns", "panes"}) /\ Steady(w, u) /\ u.gens = h
    BY SoundWithStreams
  <2>2. u.conn = w.conn
    BY <2>1 DEF Kept
  <2> HIDE DEF u
  <2>3. /\ Sound(s) /\ Kept(u, s, {"conns", "micro"}) /\ s.conns[w.conn].update
        /\ DOMAIN s.conns = DOMAIN u.conns
        /\ \A d \in DOMAIN u.conns : s.conns[d].ws = u.conns[d].ws
    BY <2>1, <2>2, SoundScheduleSubscriptions
  <2> HIDE DEF s
  <2>4. s.gens = h /\ s.conn = w.conn /\ Made(s)
    BY <2>1, <2>2, <2>3 DEF Kept
  <2>5. ASSUME NEW k \in {"opened", "settled"}
        PROVE  Told(w, set, k) \in Seq(Openings(h))
    <3> DEFINE n == Cardinality(set)
               f == Told(w, set, k)
    <3>1. n \in Nat /\ w.gens \in Nat /\ \A i \in 1 .. n : InOrder(set)[i] \in set
          /\ \A p \in set : Rank(set, p) \in 0 .. (n - 1)
      BY Ranks DEF Sound, Typed
    <3>2. \A i \in 1 .. n : NextGen(w, set, InOrder(set)[i]) \in 1 .. h
      BY <3>1 DEF NextGen
    <3>3. f = [i \in 1 .. n |-> f[i]]
          /\ \A i \in 1 .. n : f[i] = <<k, InOrder(set)[i], NextGen(w, set, InOrder(set)[i])>>
      BY DEF Told
    <3> HIDE DEF f, n, h
    <3>4. ASSUME NEW i \in 1 .. n PROVE f[i] \in Openings(h)
      <4> DEFINE q == InOrder(set)[i]
                 g == NextGen(w, set, q)
      <4>1. f[i] = <<k, q, g>> /\ q \in Pane /\ g \in 1 .. h
        BY <3>1, <3>2, <3>3
      <4> HIDE DEF q, g
      <4> QED BY <4>1 DEF Openings
    <3>5. f \in [1 .. n -> Openings(h)]
      BY <3>3, <3>4
    <3> QED BY <3>1, <3>5, SeqDef DEF f
  <2>6. ts \in Seq(Openings(s.gens))
    <3> DEFINE a == Told(w, set, "opened")
               b == Told(w, set, "settled")
    <3>1. a \in Seq(Openings(h)) /\ b \in Seq(Openings(h))
      BY <2>5
    <3> HIDE DEF a, b, h
    <3>2. a \o b \in Seq(Openings(h))
      BY <3>1, ConcatProperties
    <3> QED BY <2>4, <3>2 DEF a, b
  <2>7. OpenStreams(w, set) = v
    BY <1>2 DEF OpenStreams, Announced, s, u
  <2> HIDE DEF ts
  <2>8. Kept(s, v, {"micro"}) /\ v.micro = s.micro \o ts
    BY <2>4 DEF Made, PageFields, Kept
  <2> HIDE DEF v
  <2>9. Sound(v)
    BY <2>3, <2>4, <2>6, <2>8, SoundOpenings
  <2>10. Steady(u, s)
    BY <2>3 DEF Steady, Kept
  <2>11. Steady(s, v)
    BY <2>8, SteadyKept
  <2>12. Steady(w, v)
    BY <2>1, <2>10, <2>11, SteadyTwice
  <2> QED BY <2>7, <2>9, <2>12
<1> QED BY <1>1, <1>2

-----------------------------------------------------------------------------
\* The membership pass.

\* What is waiting to be opened has no socket and is not paused.
LEMMA AdmittedRest ==
  ASSUME NEW w
  PROVE  /\ Admitted(w) \in SUBSET Pane
         /\ \A p \in Admitted(w) : w.panes[p].sock = None /\ ~w.panes[p].paused
BY DEF Admitted, Connectable, Wanting

\* A pass makes a connection if there is none and opens what may be opened.
LEMMA SoundReconciled ==
  ASSUME NEW w, Sound(w), NoRecover(w), NEW v \in Reconciled(w)
  PROVE  Sound(v) /\ Steady(w, v)
<1>m. Made(w)
  BY DEF Sound, Typed
<1>1. CASE ~w.online
  BY <1>1 DEF Reconciled, Steady
<1>2. CASE w.online
  <2> DEFINE u == [w EXCEPT !.wait = ForegroundWait(w)]
             set == Admitted(u)
             d == [u EXCEPT !.later = @ \/ HeldBack(u, set)]
             e == Ensured(d)
             b == [e EXCEPT !.syncWait = TRUE]
  <2>1. v = d \/ v = ConnectStreams(e, set)
    <3> DEFINE pass(x, y) == LET z == [x EXCEPT !.later = @ \/ HeldBack(x, y)] IN
                             IF y = {} THEN {z}
                             ELSE {ConnectStreams(a, y) : a \in {Ensured(z)}}
    <3>1. Reconciled(w) = UNION {UNION {pass(x, y) : y \in {Admitted(x)}} : x \in {u}}
      BY <1>2 DEF Reconciled
    <3>2. v \in pass(u, set)
      <4> HIDE DEF pass, u
      <4> QED BY <3>1
    <3>3. pass(u, set) = IF set = {} THEN {d} ELSE {ConnectStreams(a, set) : a \in {e}}
      BY DEF pass
    <3> HIDE DEF pass, d, e, u, set
    <3> QED BY <3>2, <3>3
  <2>2. Kept(w, u, {"wait"}) /\ u.wait = ForegroundWait(w)
    BY <1>m DEF Made, PageFields, Kept
  <2> HIDE DEF u
  <2>3. ForegroundWait(w) \in {"none", "recent", "long"}
    BY DEF ForegroundWait, Sound, Typed
  <2>4. Sound(u) /\ Steady(w, u) /\ Made(u)
    <3>1. Kept(w, u, {"expected", "fence", "online", "wait", "faults"})
      BY <2>2 DEF Kept
    <3>2. u.fence = w.fence /\ u.expected = w.expected /\ u.online \in BOOLEAN /\ u.faults \in Nat
      BY <2>2 DEF Kept, Sound, Typed
    <3>3. Sound(u)
      BY <2>2, <2>3, <3>1, <3>2, SoundAside
    <3>4. Steady(w, u) /\ Made(u)
      BY <2>2 DEF Steady, Kept
    <3> QED BY <3>3, <3>4
  <2>5. Kept(u, d, {})
    <3> HIDE DEF set
    <3> QED BY <2>4 DEF Made, PageFields, Kept
  <2> HIDE DEF d
  <2>6. Sound(d) /\ Steady(u, d) /\ NoRecover(d) /\ d.panes = u.panes
    <3>1. d.micro = w.micro
      BY <2>2, <2>5 DEF Kept
    <3> QED BY <2>4, <2>5, <3>1, SoundKept, SteadyKept DEF NoRecover, Kept
  <2>7. Sound(e) /\ Steady(d, e) /\ e.panes = u.panes
    BY <2>6, SoundEnsured
  <2> HIDE DEF e
  <2>8. Kept(e, b, {})
    BY <2>7 DEF Sound, Typed, Made, PageFields, Kept
  <2>9. Sound(b) /\ Steady(e, b)
    BY <2>7, <2>8, SoundKept, SteadyKept
  <2>10. set \in SUBSET Pane /\ \A p \in set : e.panes[p].sock = None /\ ~e.panes[p].paused
    BY <2>7, AdmittedRest
  <2> HIDE DEF set, b
  <2>11. e.conn # None => Sound(OpenStreams(e, set)) /\ Steady(e, OpenStreams(e, set))
    BY <2>7, <2>10, SoundOpenStreams
  <2>12. ConnectStreams(e, set) \in {b, e, OpenStreams(e, set)}
         /\ (ConnectStreams(e, set) = b \/ ConnectStreams(e, set) = e \/ e.conn # None)
    BY DEF ConnectStreams, b
  <2>13. v \in {d, b, e} \/ (e.conn # None /\ v = OpenStreams(e, set))
    BY <2>1, <2>12
  <2>14. Steady(w, d) /\ Steady(w, e)
    BY <2>4, <2>6, <2>7, SteadyTwice
  <2> QED BY <2>6, <2>7, <2>9, <2>11, <2>13, <2>14, SteadyTwice
<1> QED BY <1>1, <1>2

\* The panes of a set are woken and a pass is asked for.
LEMMA SoundReconnect ==
  ASSUME NEW w, Sound(w), NEW set
  PROVE  Sound(Reconnect(w, set)) /\ Kept(w, Reconnect(w, set), {"panes", "micro"})
<1> DEFINE ps == [p \in Pane |-> IF p \in set /\ w.panes[p].paused
                       THEN [w.panes[p] EXCEPT !.paused = FALSE, !.fails = 0]
                       ELSE w.panes[p]]
           u == [w EXCEPT !.panes = ps]
<1>1. Made(w) /\ w.panes \in [Pane -> Session]
  BY DEF Sound, Typed
<1>2. Kept(w, u, {"panes"}) /\ u.panes = ps
  <2> HIDE DEF ps
  <2> QED BY <1>1 DEF Made, PageFields, Kept
<1>3. ASSUME NEW p \in Pane
      PROVE  /\ ps[p] \in Session /\ ps[p].sock = w.panes[p].sock /\ ps[p].gen = w.panes[p].gen
             /\ ps[p].opened = w.panes[p].opened /\ ps[p].told = w.panes[p].told
             /\ \/ ps[p].fails = w.panes[p].fails /\ ps[p].paused = w.panes[p].paused
                \/ ps[p].fails = 0 /\ ~ps[p].paused
  <2> DEFINE s == w.panes[p]
             r == [s EXCEPT !.paused = FALSE, !.fails = 0]
  <2>1. ps[p] = r \/ ps[p] = s
    OBVIOUS
  <2>2. s \in Session
    BY <1>1
  <2> HIDE DEF ps, s
  <2>3. r \in Session /\ r.sock = s.sock /\ r.gen = s.gen /\ r.opened = s.opened
        /\ r.told = s.told /\ r.fails = 0 /\ ~r.paused
    BY <2>2 DEF Session
  <2> QED BY <2>1, <2>2, <2>3 DEF s
<1>4. ps = [p \in Pane |-> ps[p]]
  OBVIOUS
<1> HIDE DEF ps, u
<1>5. Sound(u)
  <2>1. RestedOf(u.panes)
    <3>1. RestedOf(w.panes) /\ 0 \in 0 .. PauseLimit /\ PauseLimit # 0
      BY PageAssumption DEF Sound, Rested
    <3> QED BY <1>2, <1>3, <3>1 DEF RestedOf
  <2>2. \A p \in Pane : w.panes[p].opened => w.panes[p].told
    BY DEF Sound, Heard, HeardOf
  <2>3. u.panes \in [Pane -> Session]
    BY <1>2, <1>3, <1>4
  <2> QED BY <1>2, <1>3, <2>1, <2>2, <2>3, SoundPanes
<1>6. Sound(ScheduleSync(u)) /\ Kept(u, ScheduleSync(u), {"micro"})
  BY <1>5, SoundScheduleSync
<1>7. Reconnect(w, set) = ScheduleSync(u)
  BY DEF Reconnect, u, ps
<1>8. Kept(w, ScheduleSync(u), {"panes", "micro"})
  BY <1>2, <1>6 DEF Kept
<1> QED BY <1>6, <1>7, <1>8

-----------------------------------------------------------------------------
\* Microtasks.

\* The first microtask is taken off the queue: what the rest of the queue
\* needs from it is only an update of the subscriptions or a recovery.
LEMMA SoundTail ==
  ASSUME NEW w, Sound(w), w.micro # <<>>, Head(w.micro)[1] # "subs",
         NEW v, Kept(w, v, {"micro", "recovery"}), v.micro = Tail(w.micro),
         v.recovery \in {"idle", "scheduled", "waiting"},
         v.recovery = "scheduled" => w.recovery = "scheduled" /\ Head(w.micro)[1] # "recover"
  PROVE  Sound(v) /\ (Head(w.micro)[1] = "sync" => NoRecover(v))
<1> DEFINE m == w.micro
           r == v.micro
<1>1. /\ r = [i \in 1 .. Len(r) |-> r[i]] /\ Len(r) = Len(m) - 1 /\ Len(r) \in Nat
      /\ \A i \in 1 .. Len(r) : r[i] = m[i + 1]
      /\ Head(m) = m[1] /\ Len(m) > 0 /\ Len(m) \in Nat
  BY HeadTaken DEF Sound, Queued, QueuedOf
<1>2. /\ v.conns = w.conns /\ v.gens = w.gens /\ v.panes = w.panes /\ v.conn = w.conn
  BY DEF Kept
<1>3. Typed(v) /\ Owned(v) /\ Matched(v) /\ Rested(v)
  BY Zenon DEF Sound, Typed, Owned, Matched, Rested, Kept
<1>4. QueuedOf(m, Len(w.conns), w.gens) /\ HeardOf(w.conns, w.conn, w.panes, m)
      /\ RecoveringOf(m, w.conn, w.recovery)
  BY DEF Sound, Queued, Heard, Recovering
<1>5. m[1][1] # "subs" /\ (v.recovery = "scheduled" => w.recovery = "scheduled" /\ m[1][1] # "recover")
  BY <1>1
<1> HIDE DEF m, r
<1>6. \A i \in 1 .. Len(r) : i + 1 \in 1 .. Len(m) /\ r[i] = m[i + 1]
  BY <1>1
<1>7. QueuedOf(r, Len(w.conns), w.gens)
  BY <1>1, <1>4, <1>6 DEF QueuedOf
<1>8. ASSUME NEW c, NEW i \in 1 .. (Len(r) + 1), SubsBefore(m, c, i + 1)
      PROVE  SubsBefore(r, c, i)
  <2>1. PICK j \in 1 .. (i + 1 - 1) : m[j][1] = "subs" /\ m[j][2] = c
    BY <1>8 DEF SubsBefore
  <2>2. j # 1
    BY <1>5, <2>1
  <2>3. j - 1 \in 1 .. (i - 1) /\ j - 1 \in 1 .. Len(r) /\ (j - 1) + 1 = j
    BY <1>1, <2>2
  <2>4. r[j - 1] = m[j]
    BY <1>6, <2>3
  <2> QED BY <2>1, <2>3, <2>4 DEF SubsBefore
<1>9. HeardOf(w.conns, w.conn, w.panes, r)
  <2>1. w.conn # None /\ w.conns[w.conn].update => SubsBefore(r, w.conn, Len(r) + 1)
    <3>1. Len(r) + 1 \in 1 .. (Len(r) + 1) /\ Len(r) + 1 + 1 = Len(m) + 1
      BY <1>1
    <3> QED BY <1>4, <1>8, <3>1 DEF HeardOf
  <2>2. ASSUME NEW i \in 1 .. Len(r), r[i][1] = "opened",
               w.panes[r[i][2]].sock # None, w.panes[r[i][2]].gen = r[i][3]
        PROVE  \/ <<r[i][2], r[i][3]>> \in w.conns[w.conn].sent
               \/ w.conns[w.conn].update /\ SubsBefore(r, w.conn, i)
    <3>1. i + 1 \in 1 .. Len(m) /\ r[i] = m[i + 1] /\ i \in 1 .. (Len(r) + 1)
      BY <1>1, <1>6
    <3>2. \/ <<r[i][2], r[i][3]>> \in w.conns[w.conn].sent
          \/ w.conns[w.conn].update /\ SubsBefore(m, w.conn, i + 1)
      BY <1>4, <2>2, <3>1 DEF HeardOf
    <3> QED BY <1>8, <3>1, <3>2
  <2>3. \A p \in Pane : w.panes[p].opened => w.panes[p].told
    BY <1>4 DEF HeardOf
  <2> QED BY <2>1, <2>2, <2>3 DEF HeardOf
<1>10. RecoveringOf(r, w.conn, v.recovery)
  <2>1. ASSUME v.recovery = "scheduled" PROVE \E i \in 1 .. Len(r) : r[i][1] = "recover"
    <3>1. PICK i \in 1 .. Len(m) : m[i][1] = "recover"
      BY <1>4, <1>5, <2>1 DEF RecoveringOf
    <3>2. i # 1
      BY <1>5, <2>1, <3>1
    <3>3. i - 1 \in 1 .. Len(r) /\ (i - 1) + 1 = i
      BY <1>1, <3>2
    <3>4. r[i - 1] = m[i]
      BY <1>6, <3>3
    <3> QED BY <3>1, <3>3, <3>4
  <2>2. ASSUME NEW i \in 1 .. Len(r), r[i][1] = "recover"
        PROVE  w.conn = None /\ \A j \in 1 .. (i - 1) : r[j][1] # "sync"
    <3>1. i + 1 \in 1 .. Len(m) /\ m[i + 1][1] = "recover"
      BY <1>6, <2>2
    <3>2. w.conn = None /\ \A j \in 1 .. (i + 1 - 1) : m[j][1] # "sync"
      BY <1>4, <3>1 DEF RecoveringOf
    <3>3. \A j \in 1 .. (i - 1) : j + 1 \in 1 .. (i + 1 - 1) /\ r[j] = m[j + 1]
      BY <1>1, <1>6
    <3> QED BY <3>2, <3>3
  <2> QED BY <2>1, <2>2 DEF RecoveringOf
<1>11. ASSUME m[1][1] = "sync" PROVE NoRecover(v)
  <2>1. ASSUME NEW i \in 1 .. Len(r), r[i][1] = "recover" PROVE FALSE
    <3>1. i + 1 \in 1 .. Len(m) /\ m[i + 1][1] = "recover"
      BY <1>6, <2>1
    <3>2. \A j \in 1 .. (i + 1 - 1) : m[j][1] # "sync"
      BY <1>4, <3>1 DEF RecoveringOf
    <3>3. 1 \in 1 .. (i + 1 - 1)
      BY <1>1
    <3> QED BY <1>11, <3>2, <3>3
  <2> QED BY <2>1 DEF NoRecover, r
<1>12. Queued(v) /\ Heard(v) /\ Recovering(v)
  BY <1>2, <1>7, <1>9, <1>10 DEF Queued, Heard, Recovering, r
<1> QED BY <1>1, <1>3, <1>11, <1>12 DEF Sound, m

\* The first microtask can be run.
LEMMA HeadIs ==
  ASSUME NEW w, Sound(w), w.micro # <<>>
  PROVE  LET t == Head(w.micro) IN
         /\ IsTask(t) /\ t = w.micro[1] /\ Len(w.micro) \in Nat /\ Len(w.micro) > 0
         /\ t[1] = "subs" => t[2] \in 1 .. Len(w.conns)
         /\ t[1] = "recover" => w.conn = None
         /\ t[1] = "opened" /\ IsStream(w, t[2], t[3]) => <<t[2], t[3]>> \in w.conns[w.conn].sent
<1> DEFINE m == w.micro
<1>1. Head(m) = m[1] /\ Len(m) > 0 /\ Len(m) \in Nat
  BY HeadTaken DEF Sound, Queued, QueuedOf
<1>2. 1 \in 1 .. Len(m)
  BY <1>1
<1>3. QueuedOf(m, Len(w.conns), w.gens) /\ HeardOf(w.conns, w.conn, w.panes, m)
      /\ RecoveringOf(m, w.conn, w.recovery)
  BY DEF Sound, Queued, Heard, Recovering
<1> HIDE DEF m
<1>4. IsTask(m[1]) /\ (m[1][1] = "subs" => m[1][2] \in 1 .. Len(w.conns))
      /\ (m[1][1] = "recover" => w.conn = None)
  BY <1>2, <1>3 DEF QueuedOf, RecoveringOf
<1>5. m[1][1] = "opened" /\ IsStream(w, m[1][2], m[1][3])
      => <<m[1][2], m[1][3]>> \in w.conns[w.conn].sent
  <2>1. ~SubsBefore(m, w.conn, 1)
    BY DEF SubsBefore
  <2> QED BY <1>2, <1>3, <2>1 DEF HeardOf, IsStream
<1> QED BY <1>1, <1>4, <1>5 DEF m

\* The update of the subscriptions is sent.
Sending(r) == [r EXCEPT !.update = FALSE, !.sent = r.streams]

\* sendSubscriptions tells the server of every stream of the connection.
LEMMA SoundSubscribe ==
  ASSUME NEW w, Sound(w), w.micro # <<>>, Head(w.micro)[1] = "subs"
  PROVE  LET u == [w EXCEPT !.micro = Tail(@)]
             v == Subscribe(u, Head(w.micro)[2]) IN
         Sound(v) /\ Steady(w, v)
<1> DEFINE m == w.micro
           r == Tail(m)
           b == Head(m)[2]
           u == [w EXCEPT !.micro = r]
           v == Subscribe(u, b)
           c == w.conn
           x == Sending(w.conns[b])
           y == IF b = c /\ w.conns[b].update THEN x ELSE w.conns[b]
<1>1. /\ r = [i \in 1 .. Len(r) |-> r[i]] /\ Len(r) = Len(m) - 1 /\ Len(r) \in Nat
      /\ \A i \in 1 .. Len(r) : r[i] = m[i + 1]
      /\ Head(m) = m[1] /\ Len(m) > 0 /\ Len(m) \in Nat
  BY HeadTaken DEF Sound, Queued, QueuedOf
<1>2. b \in 1 .. Len(w.conns) /\ b = m[1][2] /\ m[1][1] = "subs"
  BY <1>1, HeadIs
<1>3. Formed(w) /\ Made(w) /\ b \in DOMAIN w.conns /\ w.conns \in Seq(Connection)
      /\ w.conns[b] \in Connection /\ w.panes \in [Pane -> Session] /\ w.gens \in Nat
  BY <1>2, SoundFormed, LenProperties, ElementOfSeq DEF Formed, Sound, Typed
<1>4. Kept(w, u, {"micro"}) /\ u.micro = r
  <2> HIDE DEF r
  <2> QED BY <1>3 DEF Made, PageFields, Kept
<1>5. Disposed(w.conns[b]) <=> b # c
  BY <1>3 DEF Sound, Owned, OwnedOf
<1>6. x \in Connection /\ x.ws = w.conns[b].ws /\ x.sent = w.conns[b].streams
      /\ x.streams = w.conns[b].streams /\ ~x.update
  BY <1>3 DEF Sending, Connection
<1> HIDE DEF u, r, m, b
<1>7. Kept(w, v, {"micro", "conns"}) /\ v.micro = r /\ v.conns = [w.conns EXCEPT ![b] = y]
  <2>1. u.conns = w.conns /\ Made(u)
    BY <1>4 DEF Kept
  <2>2. CASE b = c /\ w.conns[b].update
    <3>1. v = [u EXCEPT !.conns[b].update = FALSE, !.conns[b].sent = u.conns[b].streams]
      BY <1>5, <2>1, <2>2 DEF Subscribe
    <3>2. Kept(u, v, {"conns"}) /\ v.conns = [w.conns EXCEPT ![b] = x]
      <4> HIDE DEF v
      <4> QED BY <1>3, <2>1, <3>1 DEF Made, PageFields, Kept, Sending
    <3> HIDE DEF v, x
    <3> QED BY <1>4, <2>2, <3>2 DEF Kept
  <2>3. CASE ~(b = c /\ w.conns[b].update)
    <3>1. v = u
      BY <1>5, <2>1, <2>3 DEF Subscribe
    <3>2. [w.conns EXCEPT ![b] = y] = w.conns
      BY <1>3, <2>3
    <3> HIDE DEF v, y
    <3> QED BY <1>4, <3>1, <3>2 DEF Kept
  <2> QED BY <2>2, <2>3
<1>8. y \in Connection /\ y.ws = w.conns[b].ws /\ y.streams = w.conns[b].streams
      /\ y.sent \in {w.conns[b].sent, w.conns[b].streams}
  BY <1>3, <1>6
<1>9. b = c => ~y.update /\ (y.sent = w.conns[b].streams \/ ~w.conns[b].update)
  BY <1>3, <1>6
<1> HIDE DEF v, y, x
<1>10. /\ v.conns \in Seq(Connection) /\ Len(v.conns) = Len(w.conns)
       /\ DOMAIN v.conns = DOMAIN w.conns
       /\ v.conns[b] = y /\ \A d \in DOMAIN w.conns : d # b => v.conns[d] = w.conns[d]
  <2> DEFINE ds == w.conns
  <2> HIDE DEF ds
  <2>1. LET es == [ds EXCEPT ![b] = y] IN
        /\ es \in Seq(Connection) /\ Len(es) = Len(ds) /\ DOMAIN es = DOMAIN ds
        /\ es[b] = y /\ \A d \in DOMAIN ds : d # b => es[d] = ds[d]
    BY <1>3, <1>8, ConnectionChanged DEF ds
  <2> QED BY <1>7, <2>1 DEF ds
<1>11. /\ v.conn = c /\ v.gens = w.gens /\ v.panes = w.panes
       /\ v.closed = w.closed /\ v.fence = w.fence /\ v.expected = w.expected
       /\ v.watch = w.watch /\ v.recovery = w.recovery
  BY <1>7 DEF Kept
<1>12. Typed(v)
  BY <1>7, <1>10 DEF Sound, Typed, Kept
<1>13. QueuedOf(m, Len(w.conns), w.gens) /\ HeardOf(w.conns, c, w.panes, m)
       /\ RecoveringOf(m, c, w.recovery) /\ MatchedOf(w.conns, c, w.panes, w.gens)
  BY DEF Sound, Queued, Heard, Recovering, Matched, m
<1>14. \A i \in 1 .. Len(r) : i + 1 \in 1 .. Len(m) /\ r[i] = m[i + 1]
  BY <1>1
<1>15. QueuedOf(r, Len(w.conns), w.gens)
  BY <1>1, <1>13, <1>14 DEF QueuedOf
<1>16. Owned(v)
  <2>1. \A d \in DOMAIN w.conns : v.conns[d].ws = w.conns[d].ws
    BY <1>8, <1>10
  <2> QED BY <1>10, <1>11, <2>1 DEF Sound, Owned, OwnedOf, Disposed
<1>17. Matched(v)
  <2>1. \A d \in DOMAIN w.conns : v.conns[d].streams = w.conns[d].streams
    BY <1>8, <1>10
  <2>2. \A d \in DOMAIN w.conns : w.conns[d].streams \subseteq Pane \X (1 .. w.gens)
    <3>1. ASSUME NEW d \in DOMAIN w.conns, NEW q \in Pane, w.panes[q].sock = d
          PROVE  w.panes[q].gen \in 1 .. w.gens
      <4>1. d # None
        BY <1>3, LenProperties DEF None
      <4>2. w.panes[q].gen \in 0 .. w.gens /\ w.panes[q].gen # 0
        BY <1>13, <3>1, <4>1 DEF MatchedOf
      <4> QED BY <1>3, <4>2
    <3> QED BY <1>13, <3>1 DEF MatchedOf
  <2>3. \A d \in DOMAIN w.conns : v.conns[d].sent \subseteq Pane \X (1 .. w.gens)
    BY <1>3, <1>8, <1>10, <1>13, <2>2 DEF MatchedOf
  <2> QED BY <1>10, <1>11, <1>13, <2>1, <2>3 DEF Matched, MatchedOf
<1>18. HeardOf(v.conns, c, w.panes, r)
  <2>1. CASE b = c
    <3>1. ~v.conns[c].update
      BY <1>9, <1>10, <2>1
    <3>2. ASSUME NEW i \in 1 .. Len(r), r[i][1] = "opened",
                 w.panes[r[i][2]].sock # None, w.panes[r[i][2]].gen = r[i][3]
          PROVE  <<r[i][2], r[i][3]>> \in v.conns[c].sent
      <4>1. i + 1 \in 1 .. Len(m) /\ r[i] = m[i + 1] /\ r[i][2] \in Pane
        <5>1. i + 1 \in 1 .. Len(m) /\ r[i] = m[i + 1]
          BY <1>14
        <5> QED BY <1>15, <3>2, <5>1 DEF QueuedOf, IsTask, Plain
      <4>2. CASE ~w.conns[b].update
        <5>1. <<r[i][2], r[i][3]>> \in w.conns[c].sent
          BY <1>13, <2>1, <3>2, <4>1, <4>2 DEF HeardOf
        <5>2. v.conns[c].sent = w.conns[c].sent
          BY <1>10, <2>1, <4>2 DEF y
        <5> QED BY <5>1, <5>2
      <4>3. CASE y.sent = w.conns[b].streams
        <5>1. w.panes[r[i][2]].sock = c
          BY <1>13, <3>2, <4>1 DEF MatchedOf
        <5>2. <<r[i][2], r[i][3]>> \in w.conns[c].streams
          BY <1>3, <1>13, <2>1, <3>2, <4>1, <5>1 DEF MatchedOf
        <5> QED BY <1>10, <2>1, <4>3, <5>2
      <4> QED BY <1>9, <2>1, <4>2, <4>3
    <3>3. \A p \in Pane : w.panes[p].opened => w.panes[p].told
      BY <1>13 DEF HeardOf
    <3> QED BY <3>1, <3>2, <3>3 DEF HeardOf
  <2>2. CASE b # c
    <3>1. ASSUME NEW i \in 1 .. (Len(r) + 1), SubsBefore(m, c, i + 1)
          PROVE  SubsBefore(r, c, i)
      <4>1. PICK j \in 1 .. (i + 1 - 1) : m[j][1] = "subs" /\ m[j][2] = c
        BY <3>1 DEF SubsBefore
      <4>2. j # 1
        BY <1>2, <2>2, <4>1
      <4>3. j - 1 \in 1 .. (i - 1) /\ j - 1 \in 1 .. Len(r) /\ (j - 1) + 1 = j
        BY <1>1, <4>2
      <4>4. r[j - 1] = m[j]
        BY <1>14, <4>3
      <4> QED BY <4>1, <4>3, <4>4 DEF SubsBefore
    <3>2. c # None => v.conns[c] = w.conns[c]
      BY <1>10, <2>2, Current
    <3>3. c # None /\ v.conns[c].update => SubsBefore(r, c, Len(r) + 1)
      <4>1. Len(r) + 1 \in 1 .. (Len(r) + 1) /\ Len(r) + 1 + 1 = Len(m) + 1
        BY <1>1
      <4> QED BY <1>13, <3>1, <3>2, <4>1 DEF HeardOf
    <3>4. ASSUME NEW i \in 1 .. Len(r), r[i][1] = "opened",
                 w.panes[r[i][2]].sock # None, w.panes[r[i][2]].gen = r[i][3]
          PROVE  \/ <<r[i][2], r[i][3]>> \in v.conns[c].sent
                 \/ v.conns[c].update /\ SubsBefore(r, c, i)
      <4>1. i + 1 \in 1 .. Len(m) /\ r[i] = m[i + 1] /\ i \in 1 .. (Len(r) + 1)
            /\ r[i][2] \in Pane
        <5>1. i + 1 \in 1 .. Len(m) /\ r[i] = m[i + 1] /\ i \in 1 .. (Len(r) + 1)
          BY <1>1, <1>14
        <5> QED BY <1>15, <3>4, <5>1 DEF QueuedOf, IsTask, Plain
      <4>2. c # None
        BY <1>13, <3>4, <4>1 DEF MatchedOf
      <4>3. \/ <<r[i][2], r[i][3]>> \in w.conns[c].sent
            \/ w.conns[c].update /\ SubsBefore(m, c, i + 1)
        BY <1>13, <3>4, <4>1 DEF HeardOf
      <4> QED BY <3>1, <3>2, <4>1, <4>2, <4>3
    <3>5. \A p \in Pane : w.panes[p].opened => w.panes[p].told
      BY <1>13 DEF HeardOf
    <3> QED BY <3>3, <3>4, <3>5 DEF HeardOf
  <2> QED BY <2>1, <2>2
<1>19. RecoveringOf(r, c, w.recovery)
  <2>1. ASSUME w.recovery = "scheduled" PROVE \E i \in 1 .. Len(r) : r[i][1] = "recover"
    <3>1. PICK i \in 1 .. Len(m) : m[i][1] = "recover"
      BY <1>13, <2>1 DEF RecoveringOf
    <3>2. i # 1
      BY <1>2, <3>1
    <3>3. i - 1 \in 1 .. Len(r) /\ (i - 1) + 1 = i
      BY <1>1, <3>2
    <3>4. r[i - 1] = m[i]
      BY <1>14, <3>3
    <3> QED BY <3>1, <3>3, <3>4
  <2>2. ASSUME NEW i \in 1 .. Len(r), r[i][1] = "recover"
        PROVE  c = None /\ \A j \in 1 .. (i - 1) : r[j][1] # "sync"
    <3>1. i + 1 \in 1 .. Len(m) /\ m[i + 1][1] = "recover"
      BY <1>14, <2>2
    <3>2. c = None /\ \A j \in 1 .. (i + 1 - 1) : m[j][1] # "sync"
      BY <1>13, <3>1 DEF RecoveringOf
    <3>3. \A j \in 1 .. (i - 1) : j + 1 \in 1 .. (i + 1 - 1) /\ r[j] = m[j + 1]
      BY <1>1, <1>14
    <3> QED BY <3>2, <3>3
  <2> QED BY <2>1, <2>2 DEF RecoveringOf
<1>20. Queued(v) /\ Heard(v) /\ Recovering(v)
  BY <1>7, <1>10, <1>11, <1>15, <1>18, <1>19 DEF Queued, Heard, Recovering
<1>21. Rested(v)
  BY <1>11 DEF Sound, Rested
<1>22. Sound(v)
  BY <1>12, <1>16, <1>17, <1>20, <1>21 DEF Sound
<1>23. Steady(w, v)
  <2>1. \A d \in DOMAIN w.conns : v.conns[d].ws = w.conns[d].ws
    BY <1>8, <1>10
  <2> QED BY <1>7, <1>10, <2>1 DEF Steady, Kept
<1> QED BY <1>22, <1>23 DEF v, u, r, m, b

\* The fence is over, and whoever waited for it goes on.
LEMMA SoundFenceOver ==
  ASSUME NEW w, Sound(w)
  PROVE  Sound(FenceOver(w)) /\ Steady(w, FenceOver(w))
<1> DEFINE f == [w EXCEPT !.fence = None, !.expected = FALSE, !.syncWait = FALSE]
           s == IF w.syncWait THEN ScheduleSync(f) ELSE f
           r == IF w.recovery = "waiting" THEN Later(s, <<"resume">>) ELSE s
           v == IF w.onlineWait THEN Later(r, <<"online">>) ELSE r
<1>1. Made(w)
  BY DEF Sound, Typed
<1>2. FenceOver(w) = v
  BY DEF FenceOver
<1>3. Kept(w, f, {"fence", "expected"}) /\ f.fence = None /\ f.expected = FALSE
  BY <1>1 DEF Made, PageFields, Kept
<1> HIDE DEF f, v
<1>4. Sound(f) /\ Steady(w, f)
  <2>1. Kept(w, f, {"expected", "fence", "online", "wait", "faults"})
        /\ f.online = w.online /\ f.wait = w.wait /\ f.faults = w.faults
    BY <1>3 DEF Kept
  <2>2. f.online \in BOOLEAN /\ f.wait \in {"none", "recent", "long"} /\ f.faults \in Nat
    BY <2>1 DEF Sound, Typed
  <2> QED BY <1>3, <2>1, <2>2, SoundAside, SteadyKept
<1>5. Sound(s) /\ Steady(w, s)
  <2>1. Sound(ScheduleSync(f)) /\ Steady(f, ScheduleSync(f))
    BY <1>4, SoundScheduleSync, SteadyKept
  <2> QED BY <1>4, <2>1, SteadyTwice
<1> HIDE DEF s
<1>6. ASSUME NEW u, Sound(u), Steady(w, u), NEW k \in {"resume", "online"}
      PROVE  Sound(Later(u, <<k>>)) /\ Steady(w, Later(u, <<k>>))
  <2>1. Kept(u, Later(u, <<k>>), {"micro"}) /\ Later(u, <<k>>).micro = Append(u.micro, <<k>>)
    BY <1>6, KeptLater DEF Sound, Typed
  <2>2. MayQueue(u, <<k>>)
    BY DEF MayQueue, IsTask, Plain
  <2> QED BY <1>6, <2>1, <2>2, SoundAppended, SteadyKept, SteadyTwice
<1>7. Sound(r) /\ Steady(w, r)
  BY <1>5, <1>6
<1> HIDE DEF r
<1>8. Sound(v) /\ Steady(w, v)
  BY <1>6, <1>7 DEF v
<1> QED BY <1>2, <1>8

\* Recovery starts: there is no connection that it would have to close.
LEMMA SoundRecover ==
  ASSUME NEW w, Sound(w), w.micro # <<>>, Head(w.micro)[1] = "recover",
         NEW u, Kept(w, u, {"micro"}), u.micro = Tail(w.micro)
  PROVE  Sound(Recover(u)) /\ Steady(w, Recover(u))
<1> DEFINE i == [u EXCEPT !.recovery = "idle"]
           h == [u EXCEPT !.recovery = "waiting"]
<1>1. Made(u) /\ u.conn = None
  BY HeadIs DEF Kept
<1>2. Kept(w, i, {"micro", "recovery"}) /\ i.micro = Tail(w.micro) /\ i.recovery = "idle"
  BY <1>1 DEF Made, PageFields, Kept
<1>3. Kept(w, h, {"micro", "recovery"}) /\ h.micro = Tail(w.micro) /\ h.recovery = "waiting"
      /\ h.conn = None
  BY <1>1 DEF Made, PageFields, Kept
<1>4. CloseTransport(h) = h
  <2> HIDE DEF h
  <2> QED BY <1>3 DEF CloseTransport
<1>5. Recover(u) \in {i, h, Later(h, <<"resume">>)}
  <2> HIDE DEF i
  <2> QED BY <1>4 DEF Recover, i
<1> HIDE DEF i, h
<1>6. Sound(i) /\ Steady(w, i) /\ Sound(h) /\ Steady(w, h)
  BY <1>2, <1>3, SoundTail, SteadyKept
<1>7. Sound(Later(h, <<"resume">>)) /\ Steady(h, Later(h, <<"resume">>))
  <2>1. Made(h)
    BY <1>3 DEF Kept
  <2>2. Kept(h, Later(h, <<"resume">>), {"micro"})
        /\ Later(h, <<"resume">>).micro = Append(h.micro, <<"resume">>)
    BY <2>1, KeptLater
  <2>3. MayQueue(h, <<"resume">>)
    BY DEF MayQueue, IsTask, Plain
  <2> QED BY <1>6, <2>2, <2>3, SoundAppended, SteadyKept
<1> QED BY <1>5, <1>6, <1>7, SteadyTwice

\* Nothing that is sound needs recovery: its current connection is open.
LEMMA NoneNeeded ==
  ASSUME NEW w, Sound(w)
  PROVE  ~NeedsRecovery(w)
BY Current DEF NeedsRecovery, Disposed

\* Recovery ends and the panes reconnect.
LEMMA SoundResume ==
  ASSUME NEW w, Sound(w)
  PROVE  Sound(Resume(w)) /\ Steady(w, Resume(w))
<1> DEFINE e == [w EXCEPT !.expected = FALSE, !.recovery = "idle", !.again = FALSE]
           r == IF w.online THEN Reconnect(e, Pane) ELSE e
           a == [w EXCEPT !.expected = FALSE]
<1>1. Made(w)
  BY DEF Sound, Typed
<1>2. Kept(w, a, {"expected"}) /\ a.expected = FALSE
  BY <1>1 DEF Made, PageFields, Kept
<1>3. Kept(a, e, {"recovery"}) /\ e.recovery = "idle" /\ Kept(w, e, {"expected", "recovery"})
  BY <1>1 DEF Made, PageFields, Kept
<1> HIDE DEF a, e
<1>4. Sound(a)
  <2>1. Kept(w, a, {"expected", "fence", "online", "wait", "faults"})
        /\ a.online = w.online /\ a.wait = w.wait /\ a.faults = w.faults /\ a.fence = w.fence
    BY <1>2 DEF Kept
  <2>2. a.online \in BOOLEAN /\ a.wait \in {"none", "recent", "long"} /\ a.faults \in Nat
    BY <2>1 DEF Sound, Typed
  <2> QED BY <1>2, <2>1, <2>2, SoundAside
<1>5. Sound(e) /\ Steady(w, e)
  BY <1>3, <1>4, SoundRecoveryAt, SteadyKept
<1>6. Sound(r) /\ Steady(w, r)
  <2>1. Sound(Reconnect(e, Pane)) /\ Steady(e, Reconnect(e, Pane))
    BY <1>5, SoundReconnect, SteadyKept
  <2> QED BY <1>5, <2>1, SteadyTwice
<1>7. Resume(w) = r
  <2> HIDE DEF r
  <2>1. ~NeedsRecovery(r)
    BY <1>6, NoneNeeded
  <2> QED BY <2>1 DEF Resume, r, e
<1> QED BY <1>6, <1>7

\* The tail of the signal that the network is there.
LEMMA SoundOnline ==
  ASSUME NEW w, Sound(w)
  PROVE  Sound(Online(w)) /\ Steady(w, Online(w))
<1> DEFINE n == [w EXCEPT !.onlineWait = FALSE]
           e == [w EXCEPT !.onlineWait = FALSE, !.expected = FALSE]
<1>1. Made(w)
  BY DEF Sound, Typed
<1>2. Kept(w, n, {})
  BY <1>1 DEF Made, PageFields, Kept
<1>3. Kept(w, e, {"expected"}) /\ e.expected = FALSE
  BY <1>1 DEF Made, PageFields, Kept
<1>4. Online(w) = n \/ Online(w) = Reconnect(e, Pane)
  BY DEF Online
<1> HIDE DEF n, e
<1>5. Sound(n) /\ Steady(w, n)
  BY <1>2, SoundKept, SteadyKept
<1>6. Sound(e) /\ Steady(w, e)
  <2>1. Kept(w, e, {"expected", "fence", "online", "wait", "faults"})
        /\ e.online = w.online /\ e.wait = w.wait /\ e.faults = w.faults /\ e.fence = w.fence
    BY <1>3 DEF Kept
  <2>2. e.online \in BOOLEAN /\ e.wait \in {"none", "recent", "long"} /\ e.faults \in Nat
    BY <2>1 DEF Sound, Typed
  <2> QED BY <1>3, <2>1, <2>2, SoundAside, SteadyKept
<1>7. Sound(Reconnect(e, Pane)) /\ Steady(e, Reconnect(e, Pane))
  BY <1>6, SoundReconnect, SteadyKept
<1> QED BY <1>4, <1>5, <1>6, <1>7, SteadyTwice

\* The session of one pane changes, though not what it is connected by.
LEMMA SoundPane ==
  ASSUME NEW w, Sound(w), NEW p \in Pane, NEW r \in Session,
         NEW v, Kept(w, v, {"panes"}), v.panes = [w.panes EXCEPT ![p] = r],
         r.sock = w.panes[p].sock, r.gen = w.panes[p].gen, r.opened => r.told,
         r.fails \in 0 .. PauseLimit, r.fails = PauseLimit => r.paused,
         r.paused => r.sock = None, r.opened => r.sock # None
  PROVE  Sound(v) /\ Steady(w, v)
<1>1. w.panes \in [Pane -> Session] /\ \A q \in Pane : w.panes[q].opened => w.panes[q].told
  BY DEF Sound, Typed, Heard, HeardOf
<1>2. RestedOf(w.panes)
  BY DEF Sound, Rested
<1>3. v.panes \in [Pane -> Session] /\ v.panes[p] = r
      /\ \A q \in Pane : q # p => v.panes[q] = w.panes[q]
  BY <1>1
<1>4. RestedOf(v.panes)
  BY <1>2, <1>3 DEF RestedOf
<1>5. \A q \in Pane : /\ v.panes[q].sock = w.panes[q].sock /\ v.panes[q].gen = w.panes[q].gen
                      /\ v.panes[q].opened => v.panes[q].told
  BY <1>1, <1>3
<1> QED BY <1>3, <1>4, <1>5, SoundPanes, SteadyKept

\* What is known of the session of a pane.
LEMMA SessionIs ==
  ASSUME NEW w, Sound(w), NEW p \in Pane
  PROVE  LET s == w.panes[p] IN
         /\ s \in Session /\ (s.opened => s.told /\ s.sock # None) /\ s.fails \in 0 .. PauseLimit
         /\ (s.fails = PauseLimit => s.paused) /\ (s.paused => s.sock = None)
         /\ s.sock \in {None, w.conn}
BY DEF Sound, Typed, Heard, HeardOf, Rested, RestedOf, Matched, MatchedOf

\* A stream opened: the server was told of it.
LEMMA SoundOpened ==
  ASSUME NEW w, Sound(w), NEW p \in Pane, NEW g,
         IsStream(w, p, g) => <<p, g>> \in w.conns[w.conn].sent
  PROVE  Sound(Opened(w, p, g)) /\ Steady(w, Opened(w, p, g))
<1>1. CASE IsStream(w, p, g)
  <2> DEFINE s == w.panes[p]
             told == <<p, g>> \in w.conns[w.panes[p].sock].sent
             r == [s EXCEPT !.opened = TRUE, !.told = told]
             v == [w EXCEPT !.panes[p].opened = TRUE, !.panes[p].told = told]
  <2>1. /\ s \in Session /\ s.fails \in 0 .. PauseLimit /\ s.sock \in {None, w.conn}
        /\ (s.fails = PauseLimit => s.paused) /\ (s.paused => s.sock = None)
    BY SessionIs
  <2>2. told = TRUE /\ s.sock # None
    BY <1>1, <2>1 DEF IsStream
  <2>3. Opened(w, p, g) = v
    BY <1>1 DEF Opened
  <2> HIDE DEF told
  <2>4. Kept(w, v, {"panes"}) /\ v.panes = [w.panes EXCEPT ![p] = r]
    BY DEF Sound, Typed, Made, PageFields, Kept
  <2> HIDE DEF v, s
  <2>5. r \in Session /\ r.sock = s.sock /\ r.gen = s.gen /\ r.told /\ r.fails = s.fails
        /\ r.paused = s.paused
    BY <2>1, <2>2 DEF Session
  <2> HIDE DEF r
  <2>6. r.sock = w.panes[p].sock /\ r.gen = w.panes[p].gen
    BY <2>5 DEF s
  <2> QED BY <2>1, <2>2, <2>3, <2>4, <2>5, <2>6, SoundPane
<1>2. CASE ~IsStream(w, p, g)
  BY <1>2 DEF Opened, Steady
<1> QED BY <1>1, <1>2

\* The connect promise of a stream settled.
LEMMA SoundSettled ==
  ASSUME NEW w, Sound(w), NEW p \in Pane, NEW g
  PROVE  Sound(Settled(w, p, g)) /\ Steady(w, Settled(w, p, g))
<1> DEFINE s == w.panes[p]
           r == [s EXCEPT !.pending = FALSE]
           v == [w EXCEPT !.panes[p].pending = FALSE]
<1>1. /\ s \in Session /\ (s.opened => s.told /\ s.sock # None) /\ s.fails \in 0 .. PauseLimit
      /\ (s.fails = PauseLimit => s.paused) /\ (s.paused => s.sock = None)
  BY SessionIs
<1>2. Settled(w, p, g) \in {w, v}
  BY DEF Settled
<1>3. Kept(w, v, {"panes"}) /\ v.panes = [w.panes EXCEPT ![p] = r]
  BY DEF Sound, Typed, Made, PageFields, Kept
<1> HIDE DEF v, s
<1>4. r \in Session /\ r.sock = s.sock /\ r.gen = s.gen /\ r.opened = s.opened
      /\ r.told = s.told /\ r.fails = s.fails /\ r.paused = s.paused
  BY <1>1 DEF Session
<1> HIDE DEF r
<1>5. r.sock = w.panes[p].sock /\ r.gen = w.panes[p].gen
  BY <1>4 DEF s
<1>6. Sound(v) /\ Steady(w, v)
  BY <1>1, <1>3, <1>4, <1>5, SoundPane
<1> QED BY <1>2, <1>6 DEF Steady

\* Whatever the next microtask is, it leaves the page sound and steady.
LEMMA SoundRunHead ==
  ASSUME NEW w, Sound(w), NEW v \in RunHead(w)
  PROVE  Sound(v) /\ Steady(w, v)
<1>1. CASE w.micro = <<>>
  BY <1>1 DEF RunHead, Steady
<1>2. CASE w.micro # <<>>
  <2> DEFINE t == Head(w.micro)
             u == [w EXCEPT !.micro = Tail(@)]
  <2>1. /\ IsTask(t)
        /\ t[1] = "opened" /\ IsStream(w, t[2], t[3]) => <<t[2], t[3]>> \in w.conns[w.conn].sent
    BY <1>2, HeadIs
  <2>2. Kept(w, u, {"micro"}) /\ u.micro = Tail(w.micro) /\ Steady(w, u)
    <3>1. Kept(w, u, {"micro"}) /\ u.micro = Tail(w.micro)
      <4>1. Made(w)
        BY DEF Sound, Typed
      <4> QED BY <4>1 DEF Made, PageFields, Kept
    <3> QED BY <3>1, SteadyKept
  <2>3. v \in RunTask(u, t)
    BY <1>2 DEF RunHead
  <2>4. t[1] = "subs" => Sound(Subscribe(u, t[2])) /\ Steady(w, Subscribe(u, t[2]))
    BY <1>2, SoundSubscribe
  <2> HIDE DEF u, t
  <2>5. t[1] \notin {"subs", "recover"} => Sound(u)
    <3>1. u.recovery = w.recovery
      BY <2>2 DEF Kept
    <3>2. Kept(w, u, {"micro", "recovery"}) /\ u.recovery \in {"idle", "scheduled", "waiting"}
      BY <2>2, <3>1 DEF Kept, Sound, Typed
    <3> QED BY <1>2, <2>2, <3>1, <3>2, SoundTail DEF t
  <2>6. t[1] = "sync" => NoRecover(u)
    <3>1. u.recovery = w.recovery
      BY <2>2 DEF Kept
    <3>2. Kept(w, u, {"micro", "recovery"}) /\ u.recovery \in {"idle", "scheduled", "waiting"}
      BY <2>2, <3>1 DEF Kept, Sound, Typed
    <3> QED BY <1>2, <2>2, <3>1, <3>2, SoundTail DEF t
  <2>7. CASE t[1] = "sync"
    <3> DEFINE y == [u EXCEPT !.sync = FALSE]
    <3>1. v \in Reconciled(y)
      BY <2>3, <2>7 DEF RunTask
    <3>2. Kept(u, y, {})
      BY <2>2 DEF Made, PageFields, Kept
    <3> HIDE DEF y
    <3>3. Sound(y) /\ NoRecover(y) /\ Steady(u, y)
      BY <2>5, <2>6, <2>7, <3>2, SoundKept, SteadyKept DEF NoRecover, Kept
    <3>4. Sound(v) /\ Steady(y, v)
      BY <3>1, <3>3, SoundReconciled
    <3> QED BY <2>2, <3>3, <3>4, SteadyTwice
  <2>8. CASE t[1] = "fence"
    <3>1. v = FenceOver(u)
      BY <2>3, <2>8 DEF RunTask
    <3> QED BY <2>2, <2>5, <2>8, <3>1, SoundFenceOver, SteadyTwice
  <2>9. CASE t[1] = "recover"
    <3>1. v = Recover(u)
      BY <2>3, <2>9 DEF RunTask
    <3> QED BY <1>2, <2>2, <2>9, <3>1, SoundRecover DEF t
  <2>10. CASE t[1] = "resume"
    <3>1. v = Resume(u)
      BY <2>3, <2>10 DEF RunTask
    <3> QED BY <2>2, <2>5, <2>10, <3>1, SoundResume, SteadyTwice
  <2>11. CASE t[1] = "online"
    <3>1. v = Online(u)
      BY <2>3, <2>11 DEF RunTask
    <3> QED BY <2>2, <2>5, <2>11, <3>1, SoundOnline, SteadyTwice
  <2>12. CASE t[1] = "subs"
    <3>1. v = Subscribe(u, t[2])
      BY <2>3, <2>12 DEF RunTask
    <3> QED BY <2>4, <2>12, <3>1
  <2>13. CASE t[1] \in {"opened", "settled"}
    <3>1. v = IF t[1] = "opened" THEN Opened(u, t[2], t[3]) ELSE Settled(u, t[2], t[3])
      BY <2>3, <2>13 DEF RunTask
    <3>2. t[2] \in Pane
      BY <2>1, <2>13 DEF IsTask, Plain
    <3>3. Sound(u) /\ u.panes = w.panes /\ u.conns = w.conns /\ u.conn = w.conn
      BY <2>2, <2>5, <2>13 DEF Kept
    <3>4. CASE t[1] = "opened"
      <4>1. IsStream(u, t[2], t[3]) => <<t[2], t[3]>> \in u.conns[u.conn].sent
        BY <2>1, <3>3, <3>4 DEF IsStream
      <4>2. Sound(Opened(u, t[2], t[3])) /\ Steady(u, Opened(u, t[2], t[3]))
        BY <3>2, <3>3, <4>1, SoundOpened
      <4> QED BY <2>2, <3>1, <3>4, <4>2, SteadyTwice
    <3>5. CASE t[1] = "settled"
      <4>1. Sound(Settled(u, t[2], t[3])) /\ Steady(u, Settled(u, t[2], t[3]))
        BY <3>2, <3>3, SoundSettled
      <4> QED BY <2>2, <3>1, <3>5, <4>1, SteadyTwice
    <3> QED BY <2>13, <3>4, <3>5
  <2> QED BY <2>1, <2>7, <2>8, <2>9, <2>10, <2>11, <2>12, <2>13 DEF IsTask, Plain
<1> QED BY <1>1, <1>2

-----------------------------------------------------------------------------
\* The microtasks run until none is left.

\* The pages after each microtask.
Runs(w, f) ==
    f = [n \in 0 .. MicroLimit |->
            IF n = 0 THEN {w} ELSE UNION {RunHead(v) : v \in f[n - 1]}]

\* The function that Drained is built from.
LEMMA RunsExist ==
  ASSUME NEW w
  PROVE  \E f : Runs(w, f)
<1> DEFINE Upto(f, k) ==
               /\ f = [n \in 0 .. k |-> f[n]]
               /\ \A n \in 0 .. k : f[n] = IF n = 0 THEN {w}
                                           ELSE UNION {RunHead(v) : v \in f[n - 1]}
           S == {k \in Nat : \E f : Upto(f, k)}
<1>1. 0 \in S
  <2> DEFINE f == [n \in 0 .. 0 |-> {w}]
  <2>1. Upto(f, 0)
    OBVIOUS
  <2> QED BY <2>1
<1>2. ASSUME NEW k \in S PROVE k + 1 \in S
  <2>1. k \in Nat
    OBVIOUS
  <2>2. PICK g : Upto(g, k)
    OBVIOUS
  <2> DEFINE f == [n \in 0 .. (k + 1) |-> IF n <= k THEN g[n] ELSE UNION {RunHead(v) : v \in g[k]}]
  <2>3. f = [n \in 0 .. (k + 1) |-> f[n]]
    OBVIOUS
  <2>4. ASSUME NEW n \in 0 .. (k + 1)
        PROVE  f[n] = IF n = 0 THEN {w} ELSE UNION {RunHead(v) : v \in f[n - 1]}
    <3>1. CASE n <= k
      <4>1. f[n] = g[n] /\ (n # 0 => f[n - 1] = g[n - 1])
        BY <2>1, <3>1
      <4>2. g[n] = IF n = 0 THEN {w} ELSE UNION {RunHead(v) : v \in g[n - 1]}
        <5>1. n \in 0 .. k
          BY <2>1, <3>1
        <5> HIDE DEF f
        <5> QED BY <2>2, <5>1, Zenon
      <4> HIDE DEF f
      <4> QED BY <4>1, <4>2
    <3>2. CASE n = k + 1
      <4>1. f[n] = UNION {RunHead(v) : v \in g[k]} /\ f[n - 1] = g[k] /\ n # 0
        BY <2>1, <3>2
      <4> HIDE DEF f
      <4> QED BY <4>1
    <3> QED BY <2>1, <3>1, <3>2
  <2> HIDE DEF f
  <2>5. Upto(f, k + 1)
    BY <2>3, <2>4
  <2> HIDE DEF Upto
  <2> QED BY <2>1, <2>5
<1>3. MicroLimit \in S
  <2>1. S \in SUBSET Nat
    OBVIOUS
  <2> HIDE DEF S
  <2>2. S = Nat
    BY <1>1, <1>2, <2>1, SetInduction
  <2> QED BY <2>2, PageAssumption
<1>4. PICK f : Upto(f, MicroLimit)
  BY <1>3
<1>5. Runs(w, f)
  BY <1>4 DEF Runs
<1> QED BY <1>5

\* What a task leaves when its microtasks have run: a sound page without any.
LEMMA SoundDrained ==
  ASSUME NEW w, Sound(w), NEW v \in Drained(w)
  PROVE  Sound(v) /\ Steady(w, v) /\ v.micro = <<>>
<1> DEFINE F == CHOOSE f : Runs(w, f)
<1>1. v \in F[MicroLimit] /\ v.micro = <<>>
  BY DEF Drained, Runs
<1>2. Runs(w, F)
  BY RunsExist
<1> HIDE DEF F
<1> DEFINE S == {n \in Nat : n <= MicroLimit => \A u \in F[n] : Sound(u) /\ Steady(w, u)}
<1>3. MicroLimit \in Nat
  BY PageAssumption
<1>4. F[0] = {w} /\ \A n \in 1 .. MicroLimit : F[n] = UNION {RunHead(u) : u \in F[n - 1]}
  BY <1>2, <1>3 DEF Runs
<1>5. 0 \in S
  BY <1>4 DEF Steady
<1>6. ASSUME NEW n \in S PROVE n + 1 \in S
  <2>1. n \in Nat
    OBVIOUS
  <2>2. ASSUME n + 1 <= MicroLimit, NEW u \in F[n + 1]
        PROVE  Sound(u) /\ Steady(w, u)
    <3>1. n + 1 \in 1 .. MicroLimit /\ (n + 1) - 1 = n /\ n <= MicroLimit
      BY <1>3, <2>1, <2>2
    <3>2. PICK x \in F[n] : u \in RunHead(x)
      BY <1>4, <2>2, <3>1
    <3>3. Sound(x) /\ Steady(w, x)
      BY <3>1, <3>2
    <3> QED BY <3>2, <3>3, SoundRunHead, SteadyTwice
  <2> QED BY <2>1, <2>2
<1>7. S = Nat
  <2>1. S \in SUBSET Nat
    OBVIOUS
  <2> HIDE DEF S
  <2> QED BY <1>5, <1>6, <2>1, SetInduction
<1>8. \A u \in F[MicroLimit] : Sound(u) /\ Steady(w, u)
  BY <1>3, <1>7
<1> QED BY <1>1, <1>8

-----------------------------------------------------------------------------
\* Tasks.

\* A page between two tasks, and what every task does.
Between(w) == Sound(w) /\ w.micro = <<>>
Safe == Between(page') /\ ReplacesBrokenStep

\* A task that keeps the current connection closes none that works,
LEMMA TaskSafe ==
  ASSUME Between(page), NEW w, Sound(w), Task(w), page.conn # None => w.conn = page.conn
  PROVE  Safe
<1>1. page' \in Drained(w)
  BY DEF Task
<1>2. Sound(page') /\ Steady(w, page') /\ page'.micro = <<>>
  BY <1>1, SoundDrained
<1>3. ASSUME NEW c \in Connections, page.conns[c].ws \in {"connecting", "open"}
      PROVE  ~Disposed(page'.conns[c])
  <2>1. c = page.conn /\ c # None
    <3>1. c = page.conn
      BY <1>3 DEF Between, Sound, Owned, OwnedOf, Connections, Disposed
    <3>2. c \in 1 .. Len(page.conns)
      BY <1>3, LenProperties DEF Between, Sound, Typed, Connections
    <3> QED BY <3>1, <3>2 DEF None
  <2>2. w.conn = c
    BY <2>1
  <2>3. c \in DOMAIN w.conns /\ ~Disposed(w.conns[c])
    BY <2>1, <2>2, Current
  <2>4. page'.conns[c].ws = w.conns[c].ws
    BY <1>2, <2>3 DEF Steady
  <2> QED BY <2>3, <2>4 DEF Disposed
<1>4. ReplacesBrokenStep
  BY <1>3 DEF ReplacesBrokenStep
<1> QED BY <1>2, <1>4 DEF Safe, Between

\* and neither does one whose excuse it is that something failed,
LEMMA TaskExcused ==
  ASSUME NEW w, Sound(w), Task(w),
         \/ page.events # <<>> /\ Head(page.events) = "offline"
         \/ ~page.online
         \/ \A c \in Connections : page.conns[c].ws \in {"connecting", "open"} => page.conns[c].lost
         \/ w.faults < page.faults
  PROVE  Safe
<1>1. page' \in Drained(w)
  BY DEF Task
<1>2. Sound(page') /\ Steady(w, page') /\ page'.micro = <<>>
  BY <1>1, SoundDrained
<1>3. page'.faults = w.faults
  BY <1>2 DEF Steady
<1> QED BY <1>2, <1>3 DEF Safe, Between, ReplacesBrokenStep

\* like a fault.
LEMMA FaultSafe ==
  ASSUME Between(page), NEW w, Sound(w), w.faults = page.faults, Fault(w)
  PROVE  Safe
<1> DEFINE v == [w EXCEPT !.faults = @ - 1]
<1>1. page.faults > 0 /\ Task(v)
  BY DEF Fault
<1>2. Kept(w, v, {"faults"}) /\ v.faults = w.faults - 1
  BY DEF Sound, Typed, Made, PageFields, Kept
<1> HIDE DEF v
<1>3. Kept(w, v, {"expected", "fence", "online", "wait", "faults"})
      /\ v.online = w.online /\ v.wait = w.wait /\ v.expected = w.expected /\ v.fence = w.fence
  BY <1>2 DEF Kept
<1>4. w.faults \in Nat /\ v.faults \in Nat /\ v.faults < page.faults
  BY <1>1, <1>2 DEF Sound, Typed
<1>5. v.online \in BOOLEAN /\ v.wait \in {"none", "recent", "long"}
  BY <1>3 DEF Sound, Typed
<1>6. Sound(v)
  BY <1>3, <1>4, <1>5, SoundAside
<1> QED BY <1>1, <1>4, <1>6, TaskExcused

\* What the user or the operating system does counts as a signal.
LEMMA SignalSafe ==
  ASSUME Between(page), NEW w, Sound(w), Signal(w), page.conn # None => w.conn = page.conn
  PROVE  Safe
<1> DEFINE v == [w EXCEPT !.signals = @ - 1]
<1>1. Task(v)
  BY DEF Signal
<1>2. Kept(w, v, {})
  BY DEF Sound, Typed, Made, PageFields, Kept
<1> HIDE DEF v
<1>3. Sound(v) /\ v.conn = w.conn
  BY <1>2, SoundKept DEF Kept
<1> QED BY <1>1, <1>3, TaskSafe

\* Nothing that the invariant reads changes, or a pass is asked for as well.
LEMMA SoundSame ==
  ASSUME NEW w, NEW v, Sound(w), Kept(w, v, {})
  PROVE  /\ Sound(v) /\ v.conn = w.conn
         /\ Sound(ScheduleSync(v)) /\ ScheduleSync(v).conn = w.conn
BY SoundKept, SoundScheduleSync DEF Kept

-----------------------------------------------------------------------------
\* The network.

\* The connection that works is the current one.
LEMMA LiveCurrent ==
  ASSUME Between(page), NEW c \in Connections, ~Disposed(page.conns[c])
  PROVE  c = page.conn /\ c # None /\ page.conns[c] \in Connection
<1>1. c = page.conn
  BY DEF Between, Sound, Owned, OwnedOf, Connections
<1>2. c \in 1 .. Len(page.conns) /\ page.conns[c] \in Connection
  BY LenProperties, ElementOfSeq DEF Between, Sound, Typed, Connections
<1> QED BY <1>1, <1>2 DEF None

\* A connection changes its state, though not whether it lives.
LEMMA SoundState ==
  ASSUME Between(page), NEW c \in Connections, NEW x \in Connection,
         NEW v, Kept(page, v, {"conns"}), v.conns = [page.conns EXCEPT ![c] = x],
         x.streams = page.conns[c].streams, x.sent = page.conns[c].sent,
         Disposed(x) <=> Disposed(page.conns[c]), x.update \in {FALSE, page.conns[c].update}
  PROVE  Sound(v) /\ v.conn = page.conn /\ v.faults = page.faults
         /\ Sound(ScheduleSync(v)) /\ ScheduleSync(v).conn = page.conn
<1>1. Sound(page) /\ page.micro = <<>> /\ c \in DOMAIN page.conns
  BY DEF Between, Connections
<1>2. Sound(v)
  BY <1>1, SoundConnection
<1> QED BY <1>2, SoundScheduleSync DEF Kept

\* The WebSocket opens.
LEMMA OpenSafe ==
  ASSUME Between(page), NEW c \in Connections, SocketOpen(c)
  PROVE  Safe
<1> DEFINE o == [page EXCEPT !.conns[c].ws = "open", !.conns[c].update = FALSE]
           x == [page.conns[c] EXCEPT !.ws = "open", !.update = FALSE]
<1>1. page.conns[c].ws = "connecting" /\ Task(IF c = page.conn THEN ScheduleSync(o) ELSE o)
  BY DEF SocketOpen
<1>2. c = page.conn /\ page.conns[c] \in Connection
  BY <1>1, LiveCurrent DEF Disposed
<1>3. Kept(page, o, {"conns"}) /\ o.conns = [page.conns EXCEPT ![c] = x]
  BY DEF Between, Sound, Typed, Made, PageFields, Kept, Connections
<1>4. x \in Connection /\ x.streams = page.conns[c].streams /\ x.sent = page.conns[c].sent
      /\ x.update \in {FALSE, page.conns[c].update} /\ (Disposed(x) <=> Disposed(page.conns[c]))
  BY <1>1, <1>2 DEF Connection, SocketStates, Disposed
<1> HIDE DEF o, x
<1>5. Sound(ScheduleSync(o)) /\ ScheduleSync(o).conn = page.conn
  BY <1>3, <1>4, SoundState
<1> QED BY <1>1, <1>2, <1>5, TaskSafe

\* The server says queue-ready.
LEMMA ReadySafe ==
  ASSUME Between(page), NEW c \in Connections, ServerReady(c)
  PROVE  Safe
<1> DEFINE o == [page EXCEPT !.conns[c].ready = TRUE]
           x == [page.conns[c] EXCEPT !.ready = TRUE]
<1>1. page.conns[c].ws = "open" /\ Task(IF c = page.conn THEN ScheduleSync(o) ELSE o)
  BY DEF ServerReady
<1>2. c = page.conn /\ page.conns[c] \in Connection
  BY <1>1, LiveCurrent DEF Disposed
<1>3. Kept(page, o, {"conns"}) /\ o.conns = [page.conns EXCEPT ![c] = x]
  BY DEF Between, Sound, Typed, Made, PageFields, Kept, Connections
<1>4. x \in Connection /\ x.streams = page.conns[c].streams /\ x.sent = page.conns[c].sent
      /\ x.update = page.conns[c].update /\ x.ws = page.conns[c].ws
  BY <1>2 DEF Connection
<1> HIDE DEF o, x
<1>5. Sound(ScheduleSync(o)) /\ ScheduleSync(o).conn = page.conn
  BY <1>3, <1>4, SoundState DEF Disposed
<1> QED BY <1>1, <1>2, <1>5, TaskSafe

\* The close of a connection that the page closed is reported.
LEMMA CloseEventSafe ==
  ASSUME Between(page), NEW c \in Connections, CloseEvent(c)
  PROVE  Safe
<1> DEFINE v == SocketClosed(page, c)
<1>1. page.conns[c].ws = "closing" /\ Task(v)
  BY DEF CloseEvent
<1>2. Sound(page) /\ c \in DOMAIN page.conns
  BY DEF Between, Connections
<1>3. c # page.conn
  BY <1>1, <1>2 DEF Sound, Owned, OwnedOf, Disposed
<1>4. Sound(v) /\ v.conn = page.conn
  BY <1>2, <1>3, SoundOldClosed
<1> QED BY <1>1, <1>4, TaskSafe

\* The current connection closes by itself.
LEMMA SoundSocketClosed ==
  ASSUME Between(page), NEW c \in Connections, ~Disposed(page.conns[c])
  PROVE  Sound(SocketClosed(page, c)) /\ SocketClosed(page, c).faults = page.faults
BY LiveCurrent, SoundCurrentClosed DEF Between

\* A connection attempt fails without a network.
LEMMA ConnectFailsSafe ==
  ASSUME Between(page), NEW c \in Connections, ConnectFails(c)
  PROVE  Safe
<1>1. page.conns[c].ws = "connecting" /\ ~page.online /\ Task(SocketClosed(page, c))
  BY DEF ConnectFails
<1>2. Sound(SocketClosed(page, c))
  BY <1>1, SoundSocketClosed DEF Disposed
<1> QED BY <1>1, <1>2, TaskExcused

\* A connection breaks.
LEMMA DropSafe ==
  ASSUME Between(page), NEW c \in Connections, Drop(c)
  PROVE  Safe
<1>1. page.conns[c].ws \in {"connecting", "open"} /\ Fault(SocketClosed(page, c))
  BY DEF Drop
<1>2. Sound(SocketClosed(page, c)) /\ SocketClosed(page, c).faults = page.faults
  BY <1>1, SoundSocketClosed DEF Disposed
<1> QED BY <1>1, <1>2, FaultSafe

\* An error event or a queue-error message: the current connection is given up.
LEMMA ErrorSafe ==
  ASSUME Between(page), NEW c \in Connections, SocketError(c)
  PROVE  Safe
<1>1. page.conns[c].ws = "open"
      /\ Fault(IF c = page.conn THEN Disconnected(page, c, TRUE) ELSE page)
  BY DEF SocketError
<1>2. c = page.conn /\ c # None
  BY <1>1, LiveCurrent DEF Disposed
<1>3. LET v == Disconnected(page, page.conn, TRUE) IN Sound(v) /\ v.faults = page.faults
  BY <1>2, SoundSocketError DEF Between
<1> QED BY <1>1, <1>2, <1>3, FaultSafe

\* The path of a connection dies silently.
LEMMA LoseSafe ==
  ASSUME Between(page), NEW c \in Connections, Lose(c)
  PROVE  Safe
<1> DEFINE o == [page EXCEPT !.conns[c].lost = TRUE]
           x == [page.conns[c] EXCEPT !.lost = TRUE]
<1>1. ~Disposed(page.conns[c]) /\ Fault(o)
  BY DEF Lose
<1>2. page.conns[c] \in Connection
  BY <1>1, LiveCurrent
<1>3. Kept(page, o, {"conns"}) /\ o.conns = [page.conns EXCEPT ![c] = x]
  BY DEF Between, Sound, Typed, Made, PageFields, Kept, Connections
<1>4. x \in Connection /\ x.streams = page.conns[c].streams /\ x.sent = page.conns[c].sent
      /\ x.update = page.conns[c].update /\ x.ws = page.conns[c].ws
  BY <1>2 DEF Connection
<1> HIDE DEF o, x
<1>5. Sound(o) /\ o.faults = page.faults
  BY <1>3, <1>4, SoundState DEF Disposed
<1> QED BY <1>1, <1>5, FaultSafe

\* The close fence times out.
LEMMA FenceTimeoutSafe ==
  ASSUME Between(page), FenceTimeout
  PROVE  Safe
<1> DEFINE v == Later(page, <<"fence">>)
<1>1. Task(v) /\ Sound(page)
  BY DEF FenceTimeout, Between
<1>2. Kept(page, v, {"micro"}) /\ v.micro = Append(page.micro, <<"fence">>)
  BY <1>1, KeptLater DEF Sound, Typed
<1>3. MayQueue(page, <<"fence">>)
  BY DEF MayQueue, IsTask, Plain
<1>4. Sound(v) /\ v.conn = page.conn
  BY <1>1, <1>2, <1>3, SoundAppended DEF Kept
<1> HIDE DEF v
<1> QED BY <1>1, <1>4, TaskSafe

\* The watchdog recovers a page without a connection, or gives up a lost one.
LEMMA WatchdogSafe ==
  ASSUME Between(page), WatchdogTick
  PROVE  Safe
<1>1. Sound(page) /\ page.micro = <<>> /\ NoSync(page) /\ page.watch = page.conn
  BY DEF Between, NoSync, Sound, Owned, OwnedOf
<1>2. CASE page.conn = None
  <2>1. Task(ScheduleRecovery(page))
    BY <1>1, <1>2 DEF WatchdogTick
  <2>2. Sound(ScheduleRecovery(page))
    BY <1>1, <1>2, SoundScheduleRecovery
  <2> QED BY <1>2, <2>1, <2>2, TaskSafe
<1>3. CASE page.conn # None
  <2>1. page.conns[page.conn].ws # "closed"
    BY <1>1, <1>3, Current DEF Disposed
  <2>2. page.conns[page.conn].lost /\ Task(CloseUnhealthy(page, page.conn))
    BY <1>1, <1>3, <2>1 DEF WatchdogTick
  <2>3. Sound(CloseUnhealthy(page, page.conn))
    BY <1>1, <1>3, SoundUnhealthy
  <2>4. \A c \in Connections : page.conns[c].ws \in {"connecting", "open"} => page.conns[c].lost
    BY <2>2, LiveCurrent DEF Disposed
  <2> QED BY <2>2, <2>3, <2>4, TaskExcused
<1> QED BY <1>2, <1>3

-----------------------------------------------------------------------------
\* The server and the replay of a pane.

\* The session of one pane of the page becomes r.
With(w, p, r) == [w EXCEPT !.panes[p] = r]

\* A session may change what does not concern its stream.
LEMMA SoundWith ==
  ASSUME NEW w, Sound(w), NEW p \in Pane, NEW r \in Session,
         r.sock = w.panes[p].sock, r.gen = w.panes[p].gen, r.opened => r.told,
         r.fails \in 0 .. PauseLimit, r.fails = PauseLimit => r.paused,
         r.paused => r.sock = None, r.opened => r.sock # None
  PROVE  LET v == With(w, p, r) IN
         /\ Sound(v) /\ v.conn = w.conn /\ v.faults = w.faults /\ v.panes[p] = r
         /\ Sound(ScheduleSync(v)) /\ ScheduleSync(v).conn = w.conn
<1> DEFINE v == With(w, p, r)
<1>1. Kept(w, v, {"panes"}) /\ v.panes = [w.panes EXCEPT ![p] = r]
  BY DEF With, Sound, Typed, Made, PageFields, Kept
<1>2. v.panes[p] = r
  BY <1>1 DEF Sound, Typed
<1> HIDE DEF v
<1>3. Sound(v)
  BY <1>1, SoundPane
<1>4. Sound(ScheduleSync(v)) /\ ScheduleSync(v).conn = w.conn
  BY <1>1, <1>3, SoundScheduleSync DEF Kept
<1>5. v.conn = w.conn /\ v.faults = w.faults
  BY <1>1 DEF Kept
<1> QED BY <1>1, <1>2, <1>3, <1>4, <1>5 DEF v

\* A session changes in what the invariant does not read.
Alike(s, r) ==
    /\ r \in Session /\ r.sock = s.sock /\ r.gen = s.gen /\ r.opened = s.opened
    /\ r.told = s.told /\ r.fails = s.fails /\ r.paused = s.paused

\* Such a change keeps the page sound, with a membership pass or without.
LEMMA SoundAlike ==
  ASSUME NEW w, Sound(w), NEW p \in Pane, NEW r, Alike(w.panes[p], r)
  PROVE  LET v == With(w, p, r) IN
         /\ Sound(v) /\ v.conn = w.conn /\ v.faults = w.faults /\ v.panes[p] = r
         /\ Sound(ScheduleSync(v)) /\ ScheduleSync(v).conn = w.conn
<1> DEFINE s == w.panes[p]
<1>1. /\ s \in Session /\ (s.opened => s.told /\ s.sock # None) /\ s.fails \in 0 .. PauseLimit
      /\ (s.fails = PauseLimit => s.paused) /\ (s.paused => s.sock = None)
  BY SessionIs
<1>2. /\ r \in Session /\ r.sock = w.panes[p].sock /\ r.gen = w.panes[p].gen
      /\ (r.opened => r.told) /\ r.fails \in 0 .. PauseLimit
      /\ (r.fails = PauseLimit => r.paused) /\ (r.paused => r.sock = None)
      /\ (r.opened => r.sock # None)
  BY <1>1 DEF Alike
<1> QED BY <1>2, SoundWith

\* The replay of a pane goes on.
LEMMA ReplaySafe ==
  ASSUME Between(page), NEW p \in Pane, ReplayBegins(p) \/ ReplaySent(p)
  PROVE  Safe
<1> DEFINE s == page.panes[p]
<1>1. Sound(page) /\ s \in Session
  BY SessionIs DEF Between
<1>2. PICK k \in {"replaying", "awaiting"} : Task([page EXCEPT !.panes[p].replay = k])
  BY DEF ReplayBegins, ReplaySent
<1> DEFINE r == [s EXCEPT !.replay = k]
<1>3. [page EXCEPT !.panes[p].replay = k] = With(page, p, r)
  BY DEF With
<1>4. Alike(s, r)
  BY <1>1 DEF Session, Alike
<1> HIDE DEF r
<1>5. Sound(With(page, p, r)) /\ With(page, p, r).conn = page.conn
  BY <1>1, <1>4, SoundAlike
<1> QED BY <1>2, <1>3, <1>5, TaskSafe

\* The replay of a pane commits, its failures are forgotten.
LEMMA CommitSafe ==
  ASSUME Between(page), NEW p \in Pane, ReplayCommit(p)
  PROVE  Safe
<1> DEFINE s == page.panes[p]
           r == [s EXCEPT !.replay = "committed", !.fails = 0, !.paused = FALSE, !.retry = FALSE]
           v == [page EXCEPT !.panes[p].replay = "committed", !.panes[p].fails = 0,
                             !.panes[p].paused = FALSE, !.panes[p].retry = FALSE]
<1>1. /\ Sound(page) /\ s \in Session /\ (s.opened => s.told /\ s.sock # None)
      /\ PauseLimit \in Nat /\ PauseLimit # 0
  BY SessionIs, PageAssumption DEF Between
<1>2. Task(ScheduleSync(v))
  BY DEF ReplayCommit
<1>3. v = With(page, p, r)
  <2> DEFINE a == [page EXCEPT !.panes[p].replay = "committed"]
             b == [a EXCEPT !.panes[p].fails = 0]
             c == [b EXCEPT !.panes[p].paused = FALSE]
             x == [s EXCEPT !.replay = "committed"]
             y == [x EXCEPT !.fails = 0]
             z == [y EXCEPT !.paused = FALSE]
  <2>1. a = With(page, p, x) /\ page = [f \in PageFields |-> page[f]]
        /\ p \in DOMAIN page.panes /\ page.panes = [q \in Pane |-> page.panes[q]]
    BY <1>1 DEF With, Sound, Typed, Made
  <2>2. ASSUME NEW t PROVE With(page, p, t).panes[p] = t
    BY <2>1 DEF With, PageFields
  <2>3. ASSUME NEW t, NEW u PROVE With(With(page, p, t), p, u) = With(page, p, u)
    BY <2>1 DEF With, PageFields
  <2> HIDE DEF x
  <2>4. b = With(page, p, y)
    <3>1. b = With(With(page, p, x), p, y)
      BY <2>1, <2>2 DEF With
    <3> QED BY <3>1, <2>3
  <2> HIDE DEF a, b, y
  <2>5. c = With(page, p, z)
    <3>1. c = With(With(page, p, y), p, z)
      BY <2>4, <2>2 DEF With
    <3> QED BY <3>1, <2>3
  <2> HIDE DEF c, z
  <2>6. v = With(page, p, r)
    <3>1. v = [c EXCEPT !.panes[p].retry = FALSE] /\ r = [z EXCEPT !.retry = FALSE]
      BY DEF a, b, c, x, y, z
    <3> HIDE DEF v, r
    <3>2. v = With(With(page, p, z), p, r)
      BY <3>1, <2>5, <2>2 DEF With
    <3> QED BY <3>2, <2>3
  <2> QED BY <2>6
<1>4. r \in Session /\ r.sock = s.sock /\ r.gen = s.gen /\ r.opened = s.opened
      /\ r.told = s.told /\ r.fails = 0 /\ ~r.paused
  BY <1>1 DEF Session
<1> HIDE DEF r, v
<1>5. 0 \in 0 .. PauseLimit /\ (r.opened => r.told) /\ (r.opened => r.sock # None)
      /\ r.fails # PauseLimit
  BY <1>1, <1>4
<1>6. Sound(ScheduleSync(With(page, p, r))) /\ ScheduleSync(With(page, p, r)).conn = page.conn
  BY <1>1, <1>4, <1>5, SoundWith DEF s
<1> QED BY <1>2, <1>3, <1>6, TaskSafe

\* A stream is closed and its pane may retry.
LEMMA SoundRecycled ==
  ASSUME NEW w, Sound(w), NEW p \in Pane, w.panes[p].sock # None
  PROVE  Sound(Recycled(w, p)) /\ Recycled(w, p).faults = w.faults
<1> DEFINE c == CloseStream(w, p)
           s == c.panes[p]
           r == Retried(c, s)
<1>1. Sound(c) /\ c.faults = w.faults
  BY SoundCloseStream DEF Kept
<1>2. Recycled(w, p) = With(c, p, r)
  BY DEF Recycled, With
<1> HIDE DEF c
<1>3. s \in Session /\ c.online \in BOOLEAN
  BY <1>1, SessionIs DEF Sound, Typed
<1>4. Alike(s, r)
  BY <1>3 DEF Session, Alike, Retried
<1> HIDE DEF r
<1>5. Sound(With(c, p, r)) /\ With(c, p, r).faults = c.faults
  BY <1>1, <1>4, SoundAlike
<1> QED BY <1>1, <1>2, <1>5

\* The attach timeout closes the stream of a pane, which retries.
LEMMA AttachTimedOutSafe ==
  ASSUME Between(page), NEW p \in Pane, AttachTimedOut(p)
  PROVE  Safe
<1>1. page.panes[p].opened /\ Fault(Recycled(page, p)) /\ Sound(page)
  BY DEF AttachTimedOut, Between
<1>2. page.panes[p].sock # None
  BY <1>1, SessionIs
<1>3. Sound(Recycled(page, p)) /\ Recycled(page, p).faults = page.faults
  BY <1>1, <1>2, SoundRecycled
<1> QED BY <1>1, <1>3, FaultSafe

\* The second of two values for one argument is the one that stays.
LEMMA SetTwice ==
  ASSUME NEW S, NEW f, f = [q \in S |-> f[q]], NEW p \in S, NEW a, NEW b
  PROVE  [[f EXCEPT ![p] = a] EXCEPT ![p] = b] = [f EXCEPT ![p] = b]
BY Zenon

\* Closing the stream of a pane whose session became r before that does with
\* the rest of the page what it would have done without.
LEMMA CloseStreamWith ==
  ASSUME NEW w, Sound(w), NEW p \in Pane, NEW r, r.sock = w.panes[p].sock, r.gen = w.panes[p].gen
  PROVE  CloseStream(With(w, p, r), p) = With(CloseStream(w, p), p, StreamClosed(w, r))
<1> DEFINE f == With(w, p, r)
           c == r.sock
           x == Without(w.conns[c], <<p, r.gen>>)
           cs == [w.conns EXCEPT ![c] = x]
           g == [w EXCEPT !.conns = cs]
           ps == w.panes
           sf == StreamClosed(w, r)
           sw == StreamClosed(w, ps[p])
<1>1. Made(w) /\ ps = [q \in Pane |-> ps[q]]
  BY DEF Sound, Typed
<1>2. /\ f.panes[p] = r /\ f.conns = w.conns /\ f.online = w.online /\ f.closed = w.closed
      /\ f = [w EXCEPT !.panes = [ps EXCEPT ![p] = r]]
  BY <1>1 DEF With, Made, PageFields
<1>3. StreamClosed(f, r) = sf
  BY <1>2 DEF StreamClosed, Retried
<1> DEFINE gone(u, s) == [w EXCEPT !.conns = cs, !.panes = [ps EXCEPT ![p] = s]]
           Full(u) == IF Disposed(w.conns[c]) THEN u ELSE ScheduleSubscriptions(u, c)
<1>4. CloseStream(f, p) = Full(gone(w, sf))
  <2> DEFINE a == [f EXCEPT !.conns[c].streams = @ \ {<<p, r.gen>>}]
             b == [a EXCEPT !.panes[p] = sf]
  <2>1. Released(f, p) = b
    <3> HIDE DEF f, sf
    <3> QED BY Zenon, <1>2, <1>3 DEF Released
  <2>2. b = gone(w, sf)
    <3>1. a = [f EXCEPT !.conns = cs]
      <4> HIDE DEF f, c
      <4> QED BY <1>2 DEF Without
    <3> DEFINE qs == [ps EXCEPT ![p] = r]
               rs == [ps EXCEPT ![p] = sf]
    <3>2. a = [w EXCEPT !.conns = cs, !.panes = qs]
      <4>1. f = [w EXCEPT !.panes = qs]
        BY <1>2
      <4> HIDE DEF cs, f, qs, a
      <4> QED BY <3>1, <4>1, <1>1 DEF Made, PageFields
    <3>3. [qs EXCEPT ![p] = sf] = rs
      <4> HIDE DEF sf, ps
      <4> QED BY <1>1, SetTwice
    <3>4. gone(w, sf) = [w EXCEPT !.conns = cs, !.panes = rs]
      OBVIOUS
    <3>5. b = [a EXCEPT !.panes = [a.panes EXCEPT ![p] = sf]]
      OBVIOUS
    <3> HIDE DEF a, b, sf, cs, qs, rs, gone
    <3>6. a.panes = qs
      BY <3>2, <1>1 DEF Made, PageFields
    <3>7. b = [a EXCEPT !.panes = rs]
      BY <3>3, <3>5, <3>6
    <3> QED BY <3>2, <3>4, <3>7, <1>1 DEF Made, PageFields
  <2> HIDE DEF gone, f, b, sf
  <2> QED BY <1>2, <2>1, <2>2 DEF CloseStream, Released
<1>5. CloseStream(w, p) = Full(gone(w, sw))
  <2>1. [w EXCEPT !.conns[c].streams = @ \ {<<p, w.panes[p].gen>>},
                  !.panes[p] = StreamClosed(w, w.panes[p])] = gone(w, sw)
    <3> HIDE DEF sw
    <3> QED BY <1>1 DEF Made, PageFields, Without, sw
  <2> HIDE DEF gone
  <2> QED BY <2>1 DEF CloseStream
<1>6. ASSUME NEW s PROVE gone(w, sf) = With(gone(w, s), p, sf)
  <2> HIDE DEF sf, cs
  <2> QED BY <1>1 DEF Made, PageFields, With
<1>7. ASSUME NEW u, Made(u) PROVE Full(With(u, p, sf)) = With(Full(u), p, sf)
  <2> HIDE DEF sf, c
  <2> DEFINE d == c
  <2>1. With(u, p, sf).conns = u.conns
    BY <1>7 DEF Made, PageFields, With
  <2>2. [Later(With(u, p, sf), <<"subs", c>>) EXCEPT !.conns[c].update = TRUE]
        = With([Later(u, <<"subs", c>>) EXCEPT !.conns[c].update = TRUE], p, sf)
    BY <1>7 DEF Made, PageFields, With, Later
  <2> QED BY <2>1, <2>2 DEF ScheduleSubscriptions
<1>8. Made(gone(w, sw))
  <2> HIDE DEF sw, cs
  <2> QED BY <1>1 DEF Made, PageFields
<1> HIDE DEF gone, Full, f, sf, sw
<1>9. gone(w, sf) = With(gone(w, sw), p, sf)
  BY <1>6
<1>10. Full(With(gone(w, sw), p, sf)) = With(Full(gone(w, sw)), p, sf)
  BY <1>7, <1>8
<1> QED BY <1>4, <1>5, <1>9, <1>10 DEF f, sf

\* A replay fails: the pane pauses, or retries.
LEMMA ReplayFailsSafe ==
  ASSUME Between(page), NEW p \in Pane, ReplayFails(p)
  PROVE  Safe
<1> DEFINE s == page.panes[p]
           n == IF s.replay = "committed" THEN s.fails ELSE s.fails + 1
           k == s.paused \/ n = PauseLimit
           x == [s EXCEPT !.fails = n]
           r == [x EXCEPT !.paused = k]
           a == [page EXCEPT !.panes[p].fails = n]
           f == [a EXCEPT !.panes[p].paused = @ \/ n = PauseLimit]
<1>1. /\ Sound(page) /\ s \in Session /\ (s.opened => s.told /\ s.sock # None)
      /\ s.fails \in 0 .. PauseLimit /\ (s.fails = PauseLimit => s.paused)
      /\ (s.paused => s.sock = None)
      /\ PauseLimit \in Nat /\ PauseLimit # 0
  BY SessionIs, PageAssumption DEF Between
<1>2. s.sock # None /\ Fault(IF n = PauseLimit THEN CloseStream(f, p) ELSE Recycled(f, p))
  BY DEF ReplayFails, Subscribed
<1>3. f = With(page, p, r)
  <2>1. /\ a = With(page, p, x) /\ page = [g \in PageFields |-> page[g]]
        /\ p \in DOMAIN page.panes /\ page.panes = [q \in Pane |-> page.panes[q]]
    BY <1>1 DEF With, Sound, Typed, Made
  <2>2. ASSUME NEW t PROVE With(page, p, t).panes[p] = t
    BY <2>1 DEF With, PageFields
  <2>3. ASSUME NEW t, NEW u PROVE With(With(page, p, t), p, u) = With(page, p, u)
    BY <2>1 DEF With, PageFields
  <2>4. x.paused = s.paused
    BY <1>1 DEF Session
  <2> HIDE DEF x, n, a
  <2>5. a.panes[p] = x
    BY <2>1, <2>2
  <2>6. f = [a EXCEPT !.panes[p] = [x EXCEPT !.paused = x.paused \/ n = PauseLimit]]
    BY <2>5
  <2>7. f = [a EXCEPT !.panes[p] = r]
    BY <2>4, <2>6
  <2> HIDE DEF f, r
  <2>8. f = With(With(page, p, x), p, r)
    BY <2>1, <2>7 DEF With
  <2> QED BY <2>3, <2>8
<1>4. n \in 0 .. PauseLimit /\ ~s.paused
  BY <1>1, <1>2 DEF Session
<1>5. /\ r \in Session /\ r.sock = s.sock /\ r.gen = s.gen /\ r.opened = s.opened
      /\ r.told = s.told /\ r.fails = n /\ r.paused = (n = PauseLimit)
  <2>1. n \in Nat /\ k \in BOOLEAN /\ k = (n = PauseLimit)
    BY <1>1, <1>4
  <2> HIDE DEF n, k
  <2> QED BY <1>1, <2>1 DEF Session
<1> HIDE DEF s, n, r, f
<1>6. CASE n = PauseLimit
  <2> DEFINE c == CloseStream(page, p)
             t == StreamClosed(page, r)
  <2>1. /\ Sound(c) /\ Kept(page, c, {"conns", "panes", "micro"})
        /\ Dropped(page.panes[p], c.panes[p])
    BY <1>1, <1>2, SoundCloseStream DEF s
  <2>2. t \in Session /\ Dropped(r, t)
    BY <1>1, <1>5, SessionDropped DEF Sound, Typed
  <2>3. CloseStream(f, p) = With(c, p, t)
    BY <1>1, <1>3, <1>5, CloseStreamWith DEF s
  <2> HIDE DEF c, t
  <2>4. /\ t.sock = c.panes[p].sock /\ t.gen = c.panes[p].gen /\ ~t.opened
        /\ t.fails = n /\ t.paused /\ t.sock = None
    BY <1>5, <1>6, <2>1, <2>2 DEF Dropped
  <2>5. Sound(With(c, p, t)) /\ With(c, p, t).faults = c.faults
    <3>1. /\ t.sock = c.panes[p].sock /\ t.gen = c.panes[p].gen /\ (t.opened => t.told)
          /\ t.fails \in 0 .. PauseLimit /\ (t.fails = PauseLimit => t.paused)
          /\ (t.paused => t.sock = None) /\ (t.opened => t.sock # None)
      BY <1>4, <2>4
    <3>2. Sound(c) /\ t \in Session
      BY <2>1, <2>2
    <3> QED BY <3>1, <3>2, SoundWith
  <2>6. c.faults = page.faults
    BY <2>1 DEF Kept
  <2> QED BY <1>2, <1>6, <2>3, <2>5, <2>6, FaultSafe
<1>7. CASE n # PauseLimit
  <2>1. ~r.paused /\ r.sock # None /\ (r.opened => r.told) /\ r.fails \in 0 .. PauseLimit
        /\ r.fails # PauseLimit
    BY <1>1, <1>2, <1>4, <1>5, <1>7
  <2>2. r.sock = page.panes[p].sock /\ r.gen = page.panes[p].gen
    BY <1>5 DEF s
  <2>3. Sound(f) /\ f.faults = page.faults /\ f.panes[p] = r
    BY <1>1, <1>3, <1>5, <2>1, <2>2, SoundWith
  <2>4. Sound(Recycled(f, p)) /\ Recycled(f, p).faults = f.faults
    BY <2>1, <2>3, SoundRecycled
  <2> QED BY <1>2, <1>7, <2>3, <2>4, FaultSafe
<1> QED BY <1>6, <1>7

\* A pane leaves the membership, closing its stream.
LEMMA ClosePaneSafe ==
  ASSUME Between(page), NEW p \in Pane, ClosePane(p)
  PROVE  Safe
<1> DEFINE s == page.panes[p]
           x == [s EXCEPT !.alive = FALSE]
           r == [x EXCEPT !.retry = FALSE]
           a == [page EXCEPT !.panes[p].alive = FALSE]
           d == [a EXCEPT !.panes[p].retry = FALSE]
           e == CloseStream(d, p)
<1>1. Sound(page) /\ s \in Session
  BY SessionIs DEF Between
<1>2. Signal(ScheduleSync(IF d.panes[p].sock = None THEN d ELSE e))
  BY DEF ClosePane
<1>3. d = With(page, p, r)
  <2>1. /\ a = With(page, p, x) /\ page = [g \in PageFields |-> page[g]]
        /\ p \in DOMAIN page.panes /\ page.panes = [q \in Pane |-> page.panes[q]]
    BY <1>1 DEF With, Sound, Typed, Made
  <2>2. ASSUME NEW t PROVE With(page, p, t).panes[p] = t
    BY <2>1 DEF With, PageFields
  <2>3. ASSUME NEW t, NEW u PROVE With(With(page, p, t), p, u) = With(page, p, u)
    BY <2>1 DEF With, PageFields
  <2> HIDE DEF x, a
  <2>4. a.panes[p] = x
    BY <2>1, <2>2
  <2>5. d = [a EXCEPT !.panes[p] = r]
    BY <2>4
  <2> HIDE DEF d, r
  <2>6. d = With(With(page, p, x), p, r)
    BY <2>1, <2>5 DEF With
  <2> QED BY <2>3, <2>6
<1>4. Alike(s, r)
  BY <1>1 DEF Session, Alike
<1> HIDE DEF r, d
<1>5. /\ Sound(d) /\ d.conn = page.conn
      /\ Sound(ScheduleSync(d)) /\ ScheduleSync(d).conn = page.conn
  BY <1>1, <1>3, <1>4, SoundAlike DEF s
<1>6. CASE d.panes[p].sock = None
  BY <1>2, <1>5, <1>6, SignalSafe
<1>7. CASE d.panes[p].sock # None
  <2>1. Sound(e) /\ Kept(d, e, {"conns", "panes", "micro"})
    BY <1>5, <1>7, SoundCloseStream
  <2> HIDE DEF e
  <2>2. Sound(ScheduleSync(e)) /\ Kept(e, ScheduleSync(e), {"micro"})
    BY <2>1, SoundScheduleSync
  <2>3. ScheduleSync(e).conn = page.conn
    BY <1>5, <2>1, <2>2 DEF Kept
  <2> QED BY <1>2, <1>7, <2>2, <2>3, SignalSafe
<1> QED BY <1>6, <1>7

-----------------------------------------------------------------------------
\* Timers.

\* A session changes in what the invariant does not read, and a pass is asked for.
LEMMA CommitsRetry ==
  ASSUME Between(page), NEW p \in Pane, NEW r, Alike(page.panes[p], r),
         Task(ScheduleSync(With(page, p, r)))
  PROVE  Safe
<1>1. Sound(page)
  BY DEF Between
<1>2. Sound(ScheduleSync(With(page, p, r))) /\ ScheduleSync(With(page, p, r)).conn = page.conn
  BY <1>1, SoundAlike
<1> QED BY <1>2, TaskSafe

\* The retry timer of a pane ends.
LEMMA RetryTimerSafe ==
  ASSUME Between(page), NEW p \in Pane, RetryTimer(p)
  PROVE  Safe
<1> DEFINE s == page.panes[p]
           r == [s EXCEPT !.retry = FALSE]
<1>1. s \in Session
  BY SessionIs DEF Between
<1>2. Alike(s, r)
  BY <1>1 DEF Session, Alike
<1>3. Task(ScheduleSync(With(page, p, r)))
  BY DEF RetryTimer, With
<1> HIDE DEF r
<1> QED BY <1>2, <1>3, CommitsRetry

\* The terminal of a pane has a size.
LEMMA BackendReadySafe ==
  ASSUME Between(page), NEW p \in Pane, BackendReady(p)
  PROVE  Safe
<1> DEFINE s == page.panes[p]
           r == [s EXCEPT !.sized = TRUE]
<1>1. s \in Session
  BY SessionIs DEF Between
<1>2. Alike(s, r)
  BY <1>1 DEF Session, Alike
<1>3. Task(ScheduleSync(With(page, p, r)))
  BY DEF BackendReady, With
<1> HIDE DEF r
<1> QED BY <1>2, <1>3, CommitsRetry

\* A sound page that keeps the state of every connection keeps the current one.
LEMMA CurrentKept ==
  ASSUME NEW w, NEW v, Sound(w), Sound(v), Steady(w, v), w.conn # None
  PROVE  v.conn = w.conn
<1>1. w.conn \in DOMAIN w.conns /\ ~Disposed(w.conns[w.conn])
  BY Current
<1>2. w.conn \in DOMAIN v.conns /\ ~Disposed(v.conns[w.conn])
  BY <1>1 DEF Steady, Disposed
<1> QED BY <1>2 DEF Sound, Owned, OwnedOf

\* The deferred membership pass runs.
LEMMA DeferredTimerSafe ==
  ASSUME Between(page), DeferredTimer
  PROVE  Safe
<1> DEFINE u == [page EXCEPT !.later = FALSE]
<1>1. PICK w \in Reconciled(u) : Task(w)
  BY DEF DeferredTimer
<1>2. Sound(page) /\ page.micro = <<>>
  BY DEF Between
<1>3. Kept(page, u, {})
  BY <1>2 DEF Sound, Typed, Made, PageFields, Kept
<1> HIDE DEF u
<1>4. Sound(u) /\ u.conn = page.conn /\ NoRecover(u)
  BY <1>2, <1>3, SoundKept DEF Kept, NoRecover
<1>5. Sound(w) /\ Steady(u, w)
  BY <1>4, SoundReconciled
<1>6. page.conn # None => w.conn = page.conn
  BY <1>4, <1>5, CurrentKept
<1> QED BY <1>1, <1>5, <1>6, TaskSafe

\* The visible panes took too long, the others need not wait for them.
LEMMA ForegroundTooLongSafe ==
  ASSUME Between(page), ForegroundTooLong
  PROVE  Safe
<1> DEFINE v == [page EXCEPT !.wait = "long"]
<1>1. Task(v) /\ Sound(page)
  BY DEF ForegroundTooLong, Between
<1>2. Kept(page, v, {"wait"}) /\ v.wait = "long"
  BY <1>1 DEF Sound, Typed, Made, PageFields, Kept
<1> HIDE DEF v
<1>3. /\ Kept(page, v, {"expected", "fence", "online", "wait", "faults"})
      /\ v.online = page.online /\ v.expected = page.expected /\ v.fence = page.fence
      /\ v.faults = page.faults /\ v.conn = page.conn
  BY <1>2 DEF Kept
<1>4. v.online \in BOOLEAN /\ v.faults \in Nat /\ v.expected \in {FALSE, page.expected}
      /\ v.wait \in {"none", "recent", "long"} /\ v.fence \in {None, page.fence}
  BY <1>1, <1>2, <1>3 DEF Sound, Typed
<1>5. Sound(v)
  BY <1>1, <1>3, <1>4, SoundAside
<1> QED BY <1>1, <1>3, <1>5, TaskSafe

-----------------------------------------------------------------------------
\* The user and the operating system.

\* The page connects before its workspace is there.
LEMMA PrepareSafe ==
  ASSUME Between(page), Prepare
  PROVE  Safe
<1> DEFINE e == Ensured(page)
           v == [e EXCEPT !.prepared = e.conn]
<1>1. Sound(page) /\ NoRecover(page) /\ page.conn = None /\ Task(v)
  BY DEF Prepare, Between, NoRecover
<1>2. Sound(e)
  BY <1>1, SoundEnsured
<1> HIDE DEF e
<1>3. Kept(e, v, {})
  BY <1>2 DEF Sound, Typed, Made, PageFields, Kept
<1> HIDE DEF v
<1>4. Sound(v)
  BY <1>2, <1>3, SoundKept
<1> QED BY <1>1, <1>4, TaskSafe

\* What was prepared is closed when no workspace comes.
LEMMA CancelPreparedSafe ==
  ASSUME Between(page), CancelPrepared
  PROVE  Safe
<1>1. Fault(CloseTransport(page)) /\ Sound(page)
  BY DEF CancelPrepared, Between
<1>2. Sound(CloseTransport(page)) /\ CloseTransport(page).faults = page.faults
  BY <1>1, SoundCloseTransport
<1> QED BY <1>1, <1>2, FaultSafe

\* Every session changes in what the invariant does not read.
LEMMA SoundAllAlike ==
  ASSUME NEW w, Sound(w), NEW v, Kept(w, v, {"panes"}), v.panes = [p \in Pane |-> v.panes[p]],
         \A p \in Pane : Alike(w.panes[p], v.panes[p])
  PROVE  Sound(v) /\ v.conn = w.conn /\ v.faults = w.faults
<1>1. v.panes \in [Pane -> Session]
  BY DEF Alike
<1>2. \A p \in Pane : /\ v.panes[p].sock = w.panes[p].sock
                      /\ v.panes[p].gen = w.panes[p].gen
                      /\ v.panes[p].opened => v.panes[p].told
  BY SessionIs DEF Alike
<1>3. RestedOf(v.panes)
  BY SessionIs DEF Alike, RestedOf
<1>4. Sound(v)
  BY <1>1, <1>2, <1>3, SoundPanes
<1> QED BY <1>4 DEF Kept

\* The workspace arrives.
LEMMA WorkspaceAppliedSafe ==
  ASSUME Between(page), WorkspaceApplied
  PROVE  Safe
<1> DEFINE ps == [p \in Pane |-> [page.panes[p] EXCEPT !.alive = TRUE]]
           v == [page EXCEPT !.boot = FALSE, !.panes = ps]
<1>1. Task(v) /\ Sound(page)
  BY DEF WorkspaceApplied, Between
<1>2. \A p \in Pane : Alike(page.panes[p], ps[p])
  <2>1. \A p \in Pane : page.panes[p] \in Session
    BY <1>1, SessionIs
  <2> QED BY <2>1 DEF Session, Alike
<1>3. Kept(page, v, {"panes"}) /\ v.panes = ps
  <2> HIDE DEF ps
  <2> QED BY <1>1 DEF Sound, Typed, Made, PageFields, Kept
<1>4. v.panes = [p \in Pane |-> v.panes[p]]
  BY <1>3
<1> HIDE DEF v, ps
<1>5. Sound(v) /\ v.conn = page.conn
  BY <1>1, <1>2, <1>3, <1>4, SoundAllAlike
<1> QED BY <1>1, <1>5, TaskSafe

\* An event is queued, or taken off; the page goes online or offline.
LEMMA SoundEvents ==
  ASSUME NEW w, Sound(w), NEW v, Kept(w, v, {"online", "events"}),
         v.online \in BOOLEAN, v.events \in Seq({"online", "offline"})
  PROVE  Sound(v) /\ v.conn = w.conn /\ v.faults = w.faults /\ v.micro = w.micro
<1>1. Typed(v)
  BY Zenon DEF Sound, Typed, Kept
<1>2. /\ Queued(v) /\ Owned(v) /\ Matched(v) /\ Heard(v) /\ Recovering(v) /\ Rested(v)
      /\ v.conn = w.conn /\ v.faults = w.faults /\ v.micro = w.micro
  BY Zenon DEF Sound, Queued, Owned, Matched, Heard, Recovering, Rested, Kept
<1> QED BY <1>1, <1>2 DEF Sound

\* The network comes or goes, and an event is on its way.
LEMMA NetworkChangesSafe ==
  ASSUME Between(page), NetworkChanges
  PROVE  Safe
<1> DEFINE e == IF page.online THEN "offline" ELSE "online"
           w == [page EXCEPT !.online = ~@, !.events = Append(@, e)]
<1>1. Signal(w) \/ Task(w)
  BY DEF NetworkChanges
<1>2. Sound(page) /\ page.online \in BOOLEAN /\ page.events \in Seq({"online", "offline"})
  BY DEF Between, Sound, Typed
<1>3. Kept(page, w, {"online", "events"}) /\ w.online = ~page.online
      /\ w.events = Append(page.events, e)
  <2> HIDE DEF e
  <2> QED BY <1>2 DEF Sound, Typed, Made, PageFields, Kept
<1>4. w.online \in BOOLEAN /\ w.events \in Seq({"online", "offline"})
  <2>1. e \in {"online", "offline"}
    OBVIOUS
  <2> HIDE DEF e, w
  <2> QED BY <1>2, <1>3, <2>1, AppendProperties
<1> HIDE DEF w
<1>5. Sound(w) /\ w.conn = page.conn
  BY <1>2, <1>3, <1>4, SoundEvents
<1> QED BY <1>1, <1>5, TaskSafe, SignalSafe

\* handleOnline reconnects what works on; handleOffline closes, as the network was reported gone.
LEMMA NetworkEventSafe ==
  ASSUME Between(page), NetworkEvent
  PROVE  Safe
<1> DEFINE w == [page EXCEPT !.events = Tail(@)]
<1>1. /\ Task(IF Head(page.events) = "online" THEN HandleOnline(w) ELSE HandleOffline(w))
      /\ page.events # <<>> /\ Sound(page) /\ page.micro = <<>>
  BY DEF NetworkEvent, Between
<1>2. page.events \in Seq({"online", "offline"}) /\ page.online \in BOOLEAN
  BY <1>1 DEF Sound, Typed
<1>3. Head(page.events) \in {"online", "offline"} /\ Tail(page.events) \in Seq({"online", "offline"})
  BY <1>1, <1>2, HeadTailProperties
<1>4. Kept(page, w, {"online", "events"}) /\ w.online = page.online
      /\ w.events = Tail(page.events)
  BY <1>1 DEF Sound, Typed, Made, PageFields, Kept
<1> HIDE DEF w
<1>5. Sound(w) /\ w.conn = page.conn /\ w.micro = <<>>
  BY <1>1, <1>2, <1>3, <1>4, SoundEvents
<1>6. CASE Head(page.events) = "online"
  <2> DEFINE m == [w EXCEPT !.missed = TRUE]
             a == [Accepted(w) EXCEPT !.onlineWait = TRUE]
             l == Later(a, <<"online">>)
  <2>1. Kept(w, m, {}) /\ Kept(w, a, {})
    BY <1>5 DEF Accepted, Sound, Typed, Made, PageFields, Kept
  <2> HIDE DEF m, a
  <2>2. Sound(m) /\ m.conn = page.conn /\ Sound(a) /\ a.conn = page.conn
    BY <1>5, <2>1, SoundKept DEF Kept
  <2>3. Kept(a, l, {"micro"}) /\ l.micro = Append(a.micro, <<"online">>)
    BY <2>2, KeptLater DEF Sound, Typed
  <2>4. MayQueue(a, <<"online">>)
    BY DEF MayQueue, IsTask, Plain
  <2> HIDE DEF l
  <2>5. Sound(l) /\ l.conn = page.conn
    BY <2>2, <2>3, <2>4, SoundAppended DEF Kept
  <2>6. ~NeedsRecovery(a)
    BY <2>2, NoneNeeded
  <2>7. HandleOnline(w) \in {m, a, l}
    BY <2>6 DEF HandleOnline, m, a, l
  <2>8. Task(HandleOnline(w))
    BY <1>1, <1>6
  <2>9. Sound(HandleOnline(w)) /\ HandleOnline(w).conn = page.conn
    BY <2>2, <2>5, <2>7
  <2> QED BY <2>8, <2>9, TaskSafe
<1>7. CASE Head(page.events) = "offline"
  <2> DEFINE ps == [p \in Pane |-> [w.panes[p] EXCEPT !.retry = FALSE]]
             v == [w EXCEPT !.throttled = FALSE, !.onlineWait = FALSE, !.panes = ps]
  <2>1. \A p \in Pane : Alike(w.panes[p], ps[p])
    <3>1. \A p \in Pane : w.panes[p] \in Session
      BY <1>5, SessionIs
    <3> QED BY <3>1 DEF Session, Alike
  <2>2. Kept(w, v, {"panes"}) /\ v.panes = ps
    <3> HIDE DEF ps
    <3> QED BY <1>5 DEF Sound, Typed, Made, PageFields, Kept
  <2>3. v.panes = [p \in Pane |-> v.panes[p]]
    BY <2>2
  <2>4. HandleOffline(w) = CloseTransport(v)
    BY DEF HandleOffline
  <2> HIDE DEF v, ps
  <2>5. Sound(v)
    BY <1>5, <2>1, <2>2, <2>3, SoundAllAlike
  <2>6. Sound(CloseTransport(v))
    BY <2>5, SoundCloseTransport
  <2>7. Task(CloseTransport(v))
    BY <1>1, <1>7, <2>4
  <2> QED BY <1>1, <1>7, <2>6, <2>7, TaskExcused
<1> QED BY <1>3, <1>6, <1>7

\* The user returns.
LEMMA ForegroundSafe ==
  ASSUME Between(page), Foreground
  PROVE  Safe
<1> DEFINE a == Accepted(page)
           b == Probed(a)
           r == Reconnect(b, Visible)
<1>1. /\ Signal(IF page.throttled THEN page ELSE IF ~page.online THEN a ELSE r)
      /\ Sound(page) /\ page.micro = <<>>
  BY DEF Foreground, Between
<1>2. Kept(page, a, {})
  BY <1>1 DEF Accepted, Sound, Typed, Made, PageFields, Kept
<1> HIDE DEF a
<1>3. Sound(a) /\ a.conn = page.conn /\ NoSync(a)
  BY <1>1, <1>2, SoundKept DEF Kept, NoSync
<1>4. Sound(b) /\ (page.conn # None => b.conn = page.conn)
  <2>1. b = a \/ (b = ScheduleRecovery(a) /\ a.conn = None)
    BY <1>3, NoneNeeded DEF Probed
  <2>2. CASE a.conn = None /\ b = ScheduleRecovery(a)
    BY <1>3, <2>2, SoundScheduleRecovery
  <2> HIDE DEF b
  <2> QED BY <1>3, <2>1, <2>2
<1> HIDE DEF b
<1>5. Sound(r) /\ Kept(b, r, {"panes", "micro"})
  BY <1>4, SoundReconnect
<1> HIDE DEF r
<1>6. r.conn = b.conn
  BY <1>5 DEF Kept
<1>7. Signal(page) \/ Signal(a) \/ Signal(r)
  BY <1>1
<1> QED BY <1>1, <1>3, <1>4, <1>5, <1>6, <1>7, SignalSafe

\* A gesture of the user.
LEMMA GestureSafe ==
  ASSUME Between(page), Gesture
  PROVE  Safe
<1> DEFINE g == [Accepted(page) EXCEPT !.slow = TRUE]
           r == Reconnect(g, Visible)
<1>1. Signal(IF page.online THEN r ELSE g) /\ Sound(page)
  BY DEF Gesture, Between
<1>2. Kept(page, g, {})
  BY <1>1 DEF Accepted, Sound, Typed, Made, PageFields, Kept
<1> HIDE DEF g
<1>3. Sound(g) /\ g.conn = page.conn
  BY <1>1, <1>2, SoundKept DEF Kept
<1>4. Sound(r) /\ Kept(g, r, {"panes", "micro"})
  BY <1>3, SoundReconnect
<1> HIDE DEF r
<1>5. r.conn = page.conn
  BY <1>3, <1>4 DEF Kept
<1>6. Signal(r) \/ Signal(g)
  BY <1>1
<1> QED BY <1>3, <1>4, <1>5, <1>6, SignalSafe

\* The foreground window or that of the gesture ends.
LEMMA WindowEndsSafe ==
  ASSUME Between(page), WindowEnds
  PROVE  Safe
<1>1. PICK v \in {[page EXCEPT !.throttled = FALSE], [page EXCEPT !.slow = FALSE]} : Task(v)
  BY DEF WindowEnds
<1>2. Sound(page)
  BY DEF Between
<1>3. Kept(page, v, {})
  BY <1>2 DEF Sound, Typed, Made, PageFields, Kept
<1>4. Sound(v) /\ v.conn = page.conn
  BY <1>2, <1>3, SoundSame
<1> QED BY <1>1, <1>4, TaskSafe

-----------------------------------------------------------------------------
\* The specification.

\* A page that starts is sound.
LEMMA InitSafe ==
  ASSUME PageInit
  PROVE  Between(page)
<1>1. PICK trouble \in Troubles : page = PageStart(trouble)
  BY DEF PageInit
<1>2. trouble[1] \in Nat /\ PauseLimit \in Nat /\ PauseLimit # 0
  BY PageAssumption
<1> DEFINE n == trouble[1]
           ps == [p \in Pane |-> NewPane]
<1>3. /\ page.conns = <<>> /\ page.conn = None /\ page.closed = {} /\ page.fence = None
      /\ page.expected = FALSE /\ page.watch = None /\ page.micro = <<>> /\ page.events = <<>>
      /\ page.online = TRUE /\ page.recovery = "idle" /\ page.wait = "none"
      /\ page.gens = 0 /\ page.faults = n /\ page.panes = ps
  BY <1>1 DEF PageStart
<1>4. Made(page)
  BY <1>1 DEF PageStart, Made, PageFields
<1>5. /\ NewPane \in Session /\ NewPane.sock = None /\ NewPane.gen = 0 /\ ~NewPane.opened
      /\ NewPane.fails = 0 /\ ~NewPane.paused
  BY DEF NewPane, Session, None
<1>6. \A p \in Pane : page.panes[p] = NewPane
  BY <1>3
<1>7. Typed(page)
  <2>1. page.conns \in Seq(Connection) /\ Len(page.conns) = 0
        /\ page.events \in Seq({"online", "offline"})
    <3> HIDE DEF ps, n
    <3> QED BY <1>3
  <2>2. page.panes \in [Pane -> Session]
    BY <1>3, <1>5
  <2>3. page.conn \in 0 .. Len(page.conns) /\ page.fence \in 0 .. Len(page.conns)
        /\ page.gens \in Nat /\ page.faults \in Nat
    BY <1>2, <1>3, <2>1 DEF None
  <2>4. page.online \in BOOLEAN /\ page.expected \in BOOLEAN
        /\ page.recovery \in {"idle", "scheduled", "waiting"}
        /\ page.wait \in {"none", "recent", "long"}
    BY Zenon, <1>3
  <2> QED BY Zenon, <1>4, <2>1, <2>2, <2>3, <2>4 DEF Typed
<1> HIDE DEF ps, n
<1>8. Queued(page) /\ Recovering(page)
  BY <1>3 DEF Queued, QueuedOf, Recovering, RecoveringOf
<1>9. Owned(page)
  BY <1>3 DEF Owned, OwnedOf
<1>10. Matched(page)
  BY <1>3, <1>5, <1>6 DEF Matched, MatchedOf
<1>11. Heard(page)
  BY <1>3, <1>5, <1>6 DEF Heard, HeardOf
<1>12. Rested(page)
  BY <1>2, <1>5, <1>6 DEF Rested, RestedOf
<1> QED BY <1>3, <1>7, <1>8, <1>9, <1>10, <1>11, <1>12 DEF Between, Sound

\* Every task keeps the page sound and closes nothing that works.
LEMMA NextSafe ==
  ASSUME Between(page), PageNext
  PROVE  Safe
<1>1. ASSUME NEW c \in Connections, ConnectionSteps(c) PROVE Safe
  BY <1>1, OpenSafe, ReadySafe, CloseEventSafe, ConnectFailsSafe DEF ConnectionSteps
<1>2. ASSUME NEW p \in Pane, PaneSteps(p) PROVE Safe
  BY <1>2, ReplaySafe, CommitSafe, RetryTimerSafe, BackendReadySafe DEF PaneSteps
<1>3. ASSUME NEW c \in Connections, Drop(c) \/ SocketError(c) \/ Lose(c) PROVE Safe
  BY <1>3, DropSafe, ErrorSafe, LoseSafe
<1>4. ASSUME NEW p \in Pane, ReplayFails(p) \/ AttachTimedOut(p) \/ ClosePane(p) PROVE Safe
  BY <1>4, ReplayFailsSafe, AttachTimedOutSafe, ClosePaneSafe
<1>5. CASE PageProgress
  BY <1>1, <1>2, <1>5, WatchdogSafe, FenceTimeoutSafe, ForegroundTooLongSafe, NetworkEventSafe,
     WindowEndsSafe, WorkspaceAppliedSafe DEF PageProgress
<1> QED BY <1>3, <1>4, <1>5, DeferredTimerSafe, PrepareSafe, CancelPreparedSafe,
           NetworkChangesSafe, ForegroundSafe, GestureSafe DEF PageNext

\* Between two tasks the page is sound and no microtask is left.
THEOREM PageInductive == PageSpec => [](Sound(page) /\ page.micro = <<>>)
<1>1. PageInit => Sound(page) /\ page.micro = <<>>
  BY InitSafe DEF Between
<1>2. (Sound(page) /\ page.micro = <<>>) /\ [PageNext]_page => (Sound(page) /\ page.micro = <<>>)'
  <2> SUFFICES ASSUME Sound(page), page.micro = <<>>, [PageNext]_page
               PROVE  Sound(page') /\ page'.micro = <<>>
    OBVIOUS
  <2>1. CASE PageNext
    BY <2>1, NextSafe DEF Between, Safe
  <2>2. CASE UNCHANGED page
    BY <2>2
  <2> QED BY <2>1, <2>2
<1> QED BY <1>1, <1>2, PTL DEF PageSpec

\* Every part of a page keeps its type; between tasks no recovery is scheduled
\* without having begun, as its microtask has run.
THEOREM PageTyped == PageSpec => []PageTypeOK
<1>1. Sound(page) /\ page.micro = <<>> => PageTypeOK
  <2> SUFFICES ASSUME Sound(page), page.micro = <<>> PROVE PageTypeOK
    OBVIOUS
  <2>1. /\ page.conns \in Seq(Connection) /\ Connections = 1 .. Len(page.conns)
        /\ page.conn \in {None} \cup Connections /\ page.fence \in {None} \cup Connections
        /\ page.closed \subseteq Connections
    BY LenProperties DEF Sound, Typed, Owned, OwnedOf, Connections, None
  <2>2. page.recovery \in {"idle", "waiting"} /\ page.wait \in {"none", "recent", "long"}
    BY DEF Sound, Typed, Recovering, RecoveringOf
  <2>3. ASSUME NEW c \in Connections
        PROVE  /\ page.conns[c].ws \in SocketStates
               /\ page.conns[c].streams \subseteq Pane \X (1 .. page.gens)
               /\ page.conns[c].sent \subseteq Pane \X (1 .. page.gens)
    <3>1. page.conns[c] \in Connection /\ c # None /\ page.gens \in Nat
      BY <2>1, ElementOfSeq DEF Sound, Typed, None
    <3>2. /\ page.conns[c].sent \subseteq Pane \X (1 .. page.gens)
          /\ page.conns[c].streams
             = {<<p, page.panes[p].gen>> : p \in {q \in Pane : page.panes[q].sock = c}}
          /\ \A p \in Pane : /\ page.panes[p].gen \in 0 .. page.gens
                             /\ page.panes[p].sock # None => page.panes[p].gen # 0
      BY DEF Sound, Matched, MatchedOf, Connections
    <3>3. \A p \in Pane : page.panes[p].sock = c => page.panes[p].gen \in 1 .. page.gens
      BY <3>1, <3>2
    <3> QED BY <3>1, <3>2, <3>3 DEF Connection
  <2>4. ASSUME NEW p \in Pane
        PROVE  /\ page.panes[p].sock \in {None} \cup Connections
               /\ page.panes[p].gen \in 0 .. page.gens
               /\ page.panes[p].fails \in 0 .. PauseLimit
               /\ page.panes[p].replay \in {"idle", "replaying", "awaiting", "committed"}
    <3>1. page.panes[p] \in Session /\ page.panes[p].fails \in 0 .. PauseLimit
          /\ page.panes[p].sock \in {None, page.conn}
      BY SessionIs
    <3>2. page.panes[p].gen \in 0 .. page.gens
      BY DEF Sound, Matched, MatchedOf
    <3> QED BY <2>1, <3>1, <3>2 DEF Session
  <2> QED BY <2>1, <2>2, <2>3, <2>4 DEF PageTypeOK
<1> QED BY <1>1, PageInductive, PTL

\* One live connection, the current one, with no fence beside it, none of
\* whose closes is taken as expected.
THEOREM ConnectionOwnedSafe == PageSpec => []ConnectionOwned
<1>1. Sound(page) => ConnectionOwned
  <2> SUFFICES ASSUME Sound(page) PROVE ConnectionOwned
    OBVIOUS
  <2>1. \A c \in Connections : Disposed(page.conns[c]) \/ c = page.conn
    BY DEF Sound, Owned, OwnedOf, Connections
  <2>2. page.conn # None =>
          /\ page.fence = None /\ ~page.expected /\ page.conn \notin page.closed
          /\ ~Disposed(page.conns[page.conn])
    BY Current
  <2> QED BY <2>1, <2>2 DEF ConnectionOwned
<1> QED BY <1>1, PageInductive, PTL

\* The streams of a connection are those of the panes that are on it, and a
\* pane is on the current connection or on none.
THEOREM StreamsMatchSafe == PageSpec => []StreamsMatchSessions
<1>1. Sound(page) => StreamsMatchSessions
  BY DEF Sound, Matched, MatchedOf, StreamsMatchSessions, Connections, Owners
<1> QED BY <1>1, PageInductive, PTL

\* No pane opens before the server was told of its stream.
THEOREM SubscribedFirstSafe == PageSpec => []SubscribedFirst
<1>1. Sound(page) => SubscribedFirst
  BY DEF Sound, Heard, HeardOf, SubscribedFirst
<1> QED BY <1>1, PageInductive, PTL

\* No step closes a connection that works, unless the network was reported gone
\* or something failed.
THEOREM ReplacesBrokenSafe == PageSpec => ReplacesBroken
<1>1. (Sound(page) /\ page.micro = <<>>) /\ [PageNext]_page => [ReplacesBrokenStep]_page
  BY NextSafe DEF Between, Safe
<1> QED BY <1>1, PageInductive, PTL DEF PageSpec, ReplacesBroken
=============================================================================
