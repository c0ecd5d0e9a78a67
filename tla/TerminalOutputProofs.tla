------------------------ MODULE TerminalOutputProofs ------------------------
(***************************************************************************)
(* Proofs about TerminalOutput, for any number of bytes, resizes and       *)
(* faults and any limits of the page: what the worker shows is the history *)
(* of the pane, each byte on the grid it was printed for, no more is acked *)
(* than it parsed, and output that may move has someone who moves it.      *)
(*                                                                         *)
(* The data and what each operation leaves alone come first, then the      *)
(* inductive invariant Good with one lemma per operation and per action;   *)
(* the lost flush, which needs no more than its shape, comes last.         *)
(***************************************************************************)
EXTENDS TerminalOutput, NatInduction, FiniteSetTheorems, SequenceTheorems

-----------------------------------------------------------------------------
\* What a state of the pane is made of.

\* The fields of a state, and a state that has exactly these.
Fields ==
    {"hist", "faults", "stage", "sent", "acked", "turn", "resizes", "phase", "fails",
     "target", "received", "applied", "queue", "batch", "count", "bounds", "scheduled",
     "flight", "failed", "geometry", "broken", "fence", "fenceTask", "engine", "timer",
     "recovering", "attempts", "exhausted"}
Made(w) == w = [f \in Fields |-> w[f]]

\* Typed data: an entry of the queue, a parsed byte, a change of the grid, a
\* write the drain waits for, a resize the queue waits behind, the worker.
Byte == [at : Nat, old : BOOLEAN, grid : Nat, kind : {"burst", "live", "replay"}]
Parse == [at : Nat, fits : BOOLEAN]
Change == [end : Nat, grid : Nat]
Flight == [n : Nat, force : BOOLEAN, left : Nat, stale : BOOLEAN]
Fence == [set : BOOLEAN, end : Nat, grid : Nat, later : Seq(Change),
          busy : BOOLEAN, posted : BOOLEAN]
WorkerMade(e) ==
    e = [failed |-> e.failed, lane |-> e.lane, base |-> e.base, screen |-> e.screen,
         grid |-> e.grid]

\* A state changed in the fields F at most, of those the invariant reads.
Kept(w, v, F) ==
    /\ Made(v)
    /\ "hist" \notin F => v.hist = w.hist
    /\ "stage" \notin F => v.stage = w.stage
    /\ "sent" \notin F => v.sent = w.sent
    /\ "acked" \notin F => v.acked = w.acked
    /\ "turn" \notin F => v.turn = w.turn
    /\ "resizes" \notin F => v.resizes = w.resizes
    /\ "phase" \notin F => v.phase = w.phase
    /\ "target" \notin F => v.target = w.target
    /\ "received" \notin F => v.received = w.received
    /\ "applied" \notin F => v.applied = w.applied
    /\ "queue" \notin F => v.queue = w.queue
    /\ "count" \notin F => v.count = w.count
    /\ "bounds" \notin F => v.bounds = w.bounds
    /\ "flight" \notin F => v.flight = w.flight
    /\ "failed" \notin F => v.failed = w.failed
    /\ "geometry" \notin F => v.geometry = w.geometry
    /\ "fence" \notin F => v.fence = w.fence
    /\ "engine" \notin F => v.engine = w.engine

\* What an operation of the model leaves alone: the fields of a failure,
LEMMA KeptTimer ==
  ASSUME NEW w, Made(w), NEW a, NEW b, NEW c
  PROVE  Kept(w, [w EXCEPT !.recovering = FALSE, !.attempts = a, !.timer = b, !.exhausted = c], {})
BY DEF Made, Fields, Kept

\* a failure,
LEMMA KeptHealthFail == ASSUME NEW w, Made(w) PROVE Kept(w, HealthFail(w), {})
<1>1. CASE w.timer \/ w.exhausted \/ (w.recovering /\ ~w.engine.failed)
  BY <1>1 DEF HealthFail, Kept
<1>2. CASE ~(w.timer \/ w.exhausted \/ (w.recovering /\ ~w.engine.failed))
  BY <1>2, KeptTimer, Zenon DEF HealthFail
<1> QED BY <1>1, <1>2

\* a flush that is scheduled,
LEMMA KeptScheduled == ASSUME NEW w, Made(w) PROVE Kept(w, Scheduled(w), {})
BY DEF Scheduled, Made, Fields, Kept

\* or scheduled when there is reason to,
LEMMA KeptReschedule == ASSUME NEW w, Made(w) PROVE Kept(w, Reschedule(w), {})
<1>1. Kept(w, w, {})
  BY DEF Kept
<1> QED BY <1>1, KeptScheduled DEF Reschedule

\* a replay that failed,
LEMMA KeptNoteFailure == ASSUME NEW w, Made(w) PROVE Kept(w, NoteFailure(w), {})
BY DEF NoteFailure, Made, Fields, Kept

\* a stream that is given up,
LEMMA KeptDetached ==
  ASSUME NEW w, Made(w)
  PROVE  LET v == Detached(w) IN
         Kept(w, v, {"stage", "phase"}) /\ v.stage = "closed" /\ v.phase = "idle"
BY DEF Detached, Made, Fields, Kept

\* a commit, which happens only when nothing is left to parse,
LEMMA KeptFinish ==
  ASSUME NEW w, Made(w)
  PROVE  LET v == Finish(w) IN
         /\ Kept(w, v, {"phase"})
         /\ \/ v = w
            \/ /\ v.phase = "committed" /\ w.phase = "awaiting" /\ w.queue = <<>>
               /\ ~Asked(w, "restore") /\ ~Asked(w, "grid")
               /\ w.received >= w.target /\ w.applied >= w.target
BY DEF Finish, Made, Fields, Kept

\* and an ack, of the last turn the cursor covers.
LEMMA KeptAcked ==
  ASSUME NEW w, Made(w), NEW cursor
  PROVE  LET v == AckReached(w, cursor)
             done == {i \in DOMAIN w.bounds : w.bounds[i] <= cursor} IN
         /\ Kept(w, v, {"acked", "bounds"})
         /\ \/ v = w
            \/ /\ done # {}
               /\ v.acked = w.bounds[Cardinality(done)]
               /\ v.bounds = SubSeq(w.bounds, Cardinality(done) + 1, Len(w.bounds))
BY DEF AckReached, Made, Fields, Kept

\* Two operations, a larger set of fields, and no operation at all.
LEMMA KeptTwice ==
  ASSUME NEW w, NEW u, NEW v, NEW F, NEW G, Kept(w, u, F), Kept(u, v, G)
  PROVE  Kept(w, v, F \cup G)
BY DEF Kept

\* A change in fewer fields is a change in more.
LEMMA KeptMore ==
  ASSUME NEW w, NEW v, NEW F, NEW G, Kept(w, v, F), F \subseteq G
  PROVE  Kept(w, v, G)
BY DEF Kept

\* A state agrees with itself.
LEMMA KeptSelf == ASSUME NEW w, Made(w) PROVE Kept(w, w, {})
BY DEF Kept

-----------------------------------------------------------------------------
\* The requests to the worker.

\* The requests to the worker, and the lanes they stand in: one write, one
\* grid, or a checkpoint followed by its grid.
WriteAsk(o, b) == [op |-> "write", old |-> o, bytes |-> b]
GridAsk(o, g) == [op |-> "grid", old |-> o, grid |-> g]
RestoreAsk(o, c) == [op |-> "restore", old |-> o, cursor |-> c]

IsWrite(l) == \E o \in BOOLEAN, b \in Seq(Byte) : l = <<WriteAsk(o, b)>>
IsGrid(l) == \E o \in BOOLEAN, g \in Nat : l = <<GridAsk(o, g)>>
IsRestore(l) ==
    \E o \in BOOLEAN, c \in Nat, g \in Nat : l = <<RestoreAsk(o, c), GridAsk(o, g)>>
Lane(l) == l = <<>> \/ IsWrite(l) \/ IsGrid(l) \/ IsRestore(l)

\* Some request of the lane is of the kind.
LaneAsks(l, op) == \E i \in DOMAIN l : l[i].op = op

\* A lane of one write, element by element;
LEMMA WriteLane ==
  ASSUME NEW o, NEW b
  PROVE  LET l == <<WriteAsk(o, b)>> IN
         /\ l # <<>> /\ l[1].op = "write" /\ l[1].old = o /\ l[1].bytes = b
         /\ Head(l) = l[1] /\ Tail(l) = <<>> /\ Len(l) = 1 /\ DOMAIN l = {1}
BY DEF WriteAsk

\* a lane of one grid;
LEMMA GridLane ==
  ASSUME NEW o, NEW g
  PROVE  LET l == <<GridAsk(o, g)>> IN
         /\ l # <<>> /\ l[1].op = "grid" /\ l[1].old = o /\ l[1].grid = g
         /\ Head(l) = l[1] /\ Tail(l) = <<>> /\ Len(l) = 1 /\ DOMAIN l = {1}
BY DEF GridAsk

\* a lane of a checkpoint and its grid.
LEMMA RestoreLane ==
  ASSUME NEW o, NEW c, NEW g
  PROVE  LET l == <<RestoreAsk(o, c), GridAsk(o, g)>> IN
         /\ l # <<>> /\ l[1].op = "restore" /\ l[1].old = o /\ l[1].cursor = c
         /\ l[2].op = "grid" /\ l[2].old = o /\ l[2].grid = g
         /\ Head(l) = l[1] /\ Tail(l) = <<GridAsk(o, g)>> /\ Len(l) = 2 /\ DOMAIN l = {1, 2}
<1> DEFINE l == <<RestoreAsk(o, c), GridAsk(o, g)>>
<1>1. Len(l) = 2 /\ DOMAIN l = {1, 2} /\ l[1] = RestoreAsk(o, c) /\ l[2] = GridAsk(o, g)
      /\ l # <<>> /\ Head(l) = l[1] /\ Tail(l) = <<GridAsk(o, g)>>
  OBVIOUS
<1>2. /\ RestoreAsk(o, c).op = "restore" /\ RestoreAsk(o, c).old = o
      /\ RestoreAsk(o, c).cursor = c
      /\ GridAsk(o, g).op = "grid" /\ GridAsk(o, g).old = o /\ GridAsk(o, g).grid = g
  BY DEF RestoreAsk, GridAsk
<1> QED BY <1>1, <1>2

\* What each kind of lane asks.
LEMMA WriteFacts ==
  ASSUME NEW l, IsWrite(l)
  PROVE  /\ l # <<>> /\ l[1].op = "write" /\ l[1].old \in BOOLEAN /\ l[1].bytes \in Seq(Byte)
         /\ l = <<WriteAsk(l[1].old, l[1].bytes)>>
         /\ Head(l) = l[1] /\ Tail(l) = <<>>
         /\ ~LaneAsks(l, "grid") /\ ~LaneAsks(l, "restore")
         /\ ~IsGrid(l) /\ ~IsRestore(l)
<1>1. PICK o \in BOOLEAN, b \in Seq(Byte) : l = <<WriteAsk(o, b)>>
  BY DEF IsWrite
<1>2. /\ l # <<>> /\ l[1].op = "write" /\ l[1].old = o /\ l[1].bytes = b
      /\ Head(l) = l[1] /\ Tail(l) = <<>> /\ Len(l) = 1 /\ DOMAIN l = {1}
  BY <1>1, WriteLane
<1>3. ~LaneAsks(l, "grid") /\ ~LaneAsks(l, "restore")
  BY <1>2 DEF LaneAsks
<1>4. ~IsGrid(l) /\ ~IsRestore(l)
  BY <1>2, GridLane, RestoreLane DEF IsGrid, IsRestore
<1> QED BY <1>1, <1>2, <1>3, <1>4

\* The same of a lane that is a grid,
LEMMA GridFacts ==
  ASSUME NEW l, IsGrid(l)
  PROVE  /\ l # <<>> /\ l[1].op = "grid" /\ l[1].old \in BOOLEAN /\ l[1].grid \in Nat
         /\ l = <<GridAsk(l[1].old, l[1].grid)>> /\ Len(l) = 1
         /\ Head(l) = l[1] /\ Tail(l) = <<>>
         /\ LaneAsks(l, "grid") /\ ~LaneAsks(l, "restore")
         /\ ~IsWrite(l) /\ ~IsRestore(l)
<1>1. PICK o \in BOOLEAN, g \in Nat : l = <<GridAsk(o, g)>>
  BY DEF IsGrid
<1>2. /\ l # <<>> /\ l[1].op = "grid" /\ l[1].old = o /\ l[1].grid = g
      /\ Head(l) = l[1] /\ Tail(l) = <<>> /\ Len(l) = 1 /\ DOMAIN l = {1}
  BY <1>1, GridLane
<1>3. LaneAsks(l, "grid") /\ ~LaneAsks(l, "restore")
  BY <1>2 DEF LaneAsks
<1>4. ~IsWrite(l) /\ ~IsRestore(l)
  BY <1>2, WriteLane, RestoreLane DEF IsWrite, IsRestore
<1> QED BY <1>1, <1>2, <1>3, <1>4

\* or a checkpoint,
LEMMA RestoreFacts ==
  ASSUME NEW l, IsRestore(l)
  PROVE  /\ l # <<>> /\ l[1].op = "restore" /\ l[1].old \in BOOLEAN /\ l[1].cursor \in Nat
         /\ l[2].grid \in Nat /\ l[2].op = "grid" /\ l[2].old = l[1].old
         /\ l = <<RestoreAsk(l[1].old, l[1].cursor), GridAsk(l[1].old, l[2].grid)>>
         /\ Len(l) = 2 /\ DOMAIN l = {1, 2}
         /\ Head(l) = l[1] /\ Tail(l) = <<GridAsk(l[1].old, l[2].grid)>>
         /\ LaneAsks(l, "grid") /\ LaneAsks(l, "restore")
         /\ ~IsWrite(l) /\ ~IsGrid(l)
<1>1. PICK o \in BOOLEAN, c \in Nat, g \in Nat : l = <<RestoreAsk(o, c), GridAsk(o, g)>>
  BY DEF IsRestore
<1>2. /\ l # <<>> /\ l[1].op = "restore" /\ l[1].old = o /\ l[1].cursor = c
      /\ l[2].op = "grid" /\ l[2].old = o /\ l[2].grid = g
      /\ Head(l) = l[1] /\ Tail(l) = <<GridAsk(o, g)>> /\ Len(l) = 2 /\ DOMAIN l = {1, 2}
  BY <1>1, RestoreLane
<1>3. LaneAsks(l, "grid") /\ LaneAsks(l, "restore")
  BY <1>2 DEF LaneAsks
<1>4. ~IsWrite(l) /\ ~IsGrid(l)
  BY <1>2, WriteLane, GridLane DEF IsWrite, IsGrid
<1> QED BY <1>1, <1>2, <1>3, <1>4

\* or empty.
LEMMA EmptyFacts ==
  /\ ~LaneAsks(<<>>, "grid") /\ ~LaneAsks(<<>>, "restore")
  /\ ~IsWrite(<<>>) /\ ~IsGrid(<<>>) /\ ~IsRestore(<<>>)
<1>1. ~LaneAsks(<<>>, "grid") /\ ~LaneAsks(<<>>, "restore")
  BY DEF LaneAsks
<1>2. ~IsWrite(<<>>) /\ ~IsGrid(<<>>) /\ ~IsRestore(<<>>)
  BY WriteFacts, GridFacts, RestoreFacts
<1> QED BY <1>1, <1>2

\* A request of an earlier stream is the same request, marked.
LEMMA OldAsks ==
  ASSUME NEW x, NEW o, NEW a
  PROVE  /\ [WriteAsk(o, a) EXCEPT !.old = x] = WriteAsk(x, a)
         /\ [GridAsk(o, a) EXCEPT !.old = x] = GridAsk(x, a)
         /\ [RestoreAsk(o, a) EXCEPT !.old = x] = RestoreAsk(x, a)
BY DEF WriteAsk, GridAsk, RestoreAsk

\* The same with the mark in place.
LEMMA OldWrite ==
  ASSUME NEW o, NEW a
  PROVE  /\ [WriteAsk(o, a) EXCEPT !.old = TRUE] = WriteAsk(TRUE, a)
         /\ [GridAsk(o, a) EXCEPT !.old = TRUE] = GridAsk(TRUE, a)
         /\ [RestoreAsk(o, a) EXCEPT !.old = TRUE] = RestoreAsk(TRUE, a)
BY OldAsks, Zenon

\* A lane of one request of an earlier stream,
LEMMA OldOne == ASSUME NEW r PROVE Older(<<r>>) = <<[r EXCEPT !.old = TRUE]>>
<1> DEFINE E(t) == [t EXCEPT !.old = TRUE]
<1>1. \A l : Older(l) = [i \in DOMAIN l |-> E(l[i])]
  BY Zenon DEF Older
<1> HIDE DEF E
<1>2. [i \in DOMAIN <<r>> |-> E(<<r>>[i])] = <<E(r)>>
  OBVIOUS
<1>3. Older(<<r>>) = <<E(r)>>
  BY <1>1, <1>2
<1> QED BY <1>3, Zenon DEF E

\* and of two.
LEMMA OldTwo ==
  ASSUME NEW r, NEW s
  PROVE  Older(<<r, s>>) = <<[r EXCEPT !.old = TRUE], [s EXCEPT !.old = TRUE]>>
<1> DEFINE E(t) == [t EXCEPT !.old = TRUE]
<1>1. \A l : Older(l) = [i \in DOMAIN l |-> E(l[i])]
  BY Zenon DEF Older
<1> HIDE DEF E
<1>2. [i \in DOMAIN <<r, s>> |-> E(<<r, s>>[i])] = <<E(r), E(s)>>
  OBVIOUS
<1>3. Older(<<r, s>>) = <<E(r), E(s)>>
  BY <1>1, <1>2
<1> QED BY <1>3, Zenon DEF E

\* A lane of an earlier stream keeps its kind.
LEMMA OldKinds ==
  ASSUME NEW o, NEW a, NEW b
  PROVE  /\ Older(<<WriteAsk(o, a)>>) = <<WriteAsk(TRUE, a)>>
         /\ Older(<<GridAsk(o, a)>>) = <<GridAsk(TRUE, a)>>
         /\ Older(<<RestoreAsk(o, a), GridAsk(o, b)>>) = <<RestoreAsk(TRUE, a), GridAsk(TRUE, b)>>
<1>1. /\ [WriteAsk(o, a) EXCEPT !.old = TRUE] = WriteAsk(TRUE, a)
      /\ [GridAsk(o, a) EXCEPT !.old = TRUE] = GridAsk(TRUE, a)
      /\ [GridAsk(o, b) EXCEPT !.old = TRUE] = GridAsk(TRUE, b)
      /\ [RestoreAsk(o, a) EXCEPT !.old = TRUE] = RestoreAsk(TRUE, a)
  BY OldWrite, Zenon
<1>2. /\ Older(<<WriteAsk(o, a)>>) = <<[WriteAsk(o, a) EXCEPT !.old = TRUE]>>
      /\ Older(<<GridAsk(o, a)>>) = <<[GridAsk(o, a) EXCEPT !.old = TRUE]>>
  BY OldOne, Zenon
<1>3. Older(<<RestoreAsk(o, a), GridAsk(o, b)>>)
      = <<[RestoreAsk(o, a) EXCEPT !.old = TRUE], [GridAsk(o, b) EXCEPT !.old = TRUE]>>
  BY OldTwo, Zenon
<1> QED BY <1>1, <1>2, <1>3, Zenon

\* A new epoch makes every request one of the past.
LEMMA OlderLane ==
  ASSUME NEW l, Lane(l)
  PROVE  LET m == Older(l) IN
         /\ Lane(m) /\ (IsWrite(l) <=> IsWrite(m)) /\ (IsRestore(l) <=> IsRestore(m))
         /\ (m = <<>> <=> l = <<>>) /\ (m # <<>> => m[1].old)
         /\ (IsWrite(l) => m[1].bytes = l[1].bytes)
<1>1. CASE l = <<>>
  <2>1. Older(l) = <<>>
    BY <1>1 DEF Older
  <2> QED BY <1>1, <2>1, EmptyFacts DEF Lane
<1>2. CASE IsWrite(l)
  <2>1. PICK o \in BOOLEAN, b \in Seq(Byte) : l = <<WriteAsk(o, b)>>
    BY <1>2 DEF IsWrite
  <2>2. PICK m : m = Older(l)
    OBVIOUS
  <2>3. m = <<WriteAsk(TRUE, b)>>
    BY <2>1, <2>2, OldKinds, Zenon
  <2>4. IsWrite(m) /\ l[1].bytes = b /\ m[1].bytes = b /\ m[1].old = TRUE
    <3>1. IsWrite(m)
      BY <2>3 DEF IsWrite
    <3>2. l[1].bytes = b
      BY <2>1 DEF WriteAsk
    <3>3. m[1].bytes = b /\ m[1].old = TRUE
      BY <2>3 DEF WriteAsk
    <3> QED BY <3>1, <3>2, <3>3
  <2>5. ~IsRestore(l) /\ ~IsRestore(m) /\ l # <<>> /\ m # <<>>
    BY <1>2, <2>4, WriteFacts
  <2> QED BY <1>2, <2>2, <2>4, <2>5 DEF Lane
<1>3. CASE IsGrid(l)
  <2>1. PICK o \in BOOLEAN, g \in Nat : l = <<GridAsk(o, g)>>
    BY <1>3 DEF IsGrid
  <2>2. PICK m : m = Older(l)
    OBVIOUS
  <2>3. m = <<GridAsk(TRUE, g)>>
    BY <2>1, <2>2, OldKinds, Zenon
  <2>4. IsGrid(m) /\ m[1].old = TRUE
    BY <2>1, <2>3, GridLane DEF IsGrid
  <2>5. ~IsRestore(l) /\ ~IsRestore(m) /\ ~IsWrite(l) /\ ~IsWrite(m) /\ l # <<>> /\ m # <<>>
    BY <1>3, <2>4, GridFacts
  <2> QED BY <1>3, <2>2, <2>4, <2>5 DEF Lane
<1>4. CASE IsRestore(l)
  <2>1. PICK o \in BOOLEAN, c \in Nat, g \in Nat : l = <<RestoreAsk(o, c), GridAsk(o, g)>>
    BY <1>4 DEF IsRestore
  <2>2. PICK m : m = Older(l)
    OBVIOUS
  <2>3. m = <<RestoreAsk(TRUE, c), GridAsk(TRUE, g)>>
    BY <2>1, <2>2, OldKinds, Zenon
  <2>4. IsRestore(m) /\ m[1].old = TRUE
    BY <2>1, <2>3, RestoreLane DEF IsRestore
  <2>5. ~IsWrite(l) /\ ~IsWrite(m) /\ l # <<>> /\ m # <<>>
    BY <1>4, <2>4, RestoreFacts
  <2> QED BY <1>4, <2>2, <2>4, <2>5 DEF Lane
<1> QED BY <1>1, <1>2, <1>3, <1>4 DEF Lane

\* A byte of the past is still a byte.
LEMMA OlderBytes ==
  ASSUME NEW q \in Seq(Byte)
  PROVE  LET m == Older(q) IN
         /\ m \in Seq(Byte) /\ Len(m) = Len(q)
         /\ \A i \in DOMAIN m : m[i].old
<1>1. \A i \in 1..Len(q) : q[i] \in Byte
  BY ElementOfSeq
<1>2. \A i \in 1..Len(q) : [q[i] EXCEPT !.old = TRUE] \in Byte
                           /\ [q[i] EXCEPT !.old = TRUE].old
  BY <1>1 DEF Byte
<1> DEFINE E(i) == [q[i] EXCEPT !.old = TRUE]
<1>3. Older(q) = [i \in 1..Len(q) |-> E(i)]
  BY DEF Older
<1>4. \A i \in 1..Len(q) : E(i) \in Byte /\ E(i).old
  BY <1>2
<1> HIDE DEF E
<1>5. Len(q) \in Nat
  OBVIOUS
<1>6. [i \in 1..Len(q) |-> E(i)] \in Seq(Byte) /\ Len([i \in 1..Len(q) |-> E(i)]) = Len(q)
  BY <1>4, <1>5
<1> QED BY <1>3, <1>4, <1>6

\* Initial segments: what goes together, what is acked.
LEMMA Segment ==
  ASSUME NEW n \in Nat, NEW S \in SUBSET (1..n),
         \A i \in S : \A j \in 1..i : j \in S
  PROVE  S = 1..Cardinality(S) /\ Cardinality(S) \in 0..n
<1>1. CASE S = {}
  BY <1>1, FS_EmptySet
<1>2. CASE S # {}
  <2>1. S \in SUBSET (0..n)
    OBVIOUS
  <2>2. PICK m \in S : \A y \in S : y <= m
    BY <1>2, <2>1, GreatestNat
  <2>3. m \in 1..n /\ S = 1..m
    <3>1. m \in 1..n /\ \A j \in 1..m : j \in S
      BY <2>2
    <3>2. \A j \in S : j \in 1..m
      BY <2>2, <3>1
    <3> QED BY <3>1, <3>2
  <2>4. Cardinality(1..m) = m
    BY <2>3, FS_Interval
  <2> QED BY <2>3, <2>4
<1> QED BY <1>1, <1>2

-----------------------------------------------------------------------------
\* The inductive invariant.

\* The queue belongs to the present stream; a state is bound to it when a
\* replay runs or when such a queue is left.
FreshBytes(q) == \A i \in DOMAIN q : ~q[i].old
BoundTo(phase, q) == phase # "idle" \/ (q # <<>> /\ FreshBytes(q))
Bound(w) == BoundTo(w.phase, w.queue)

\* Every field that the invariant reads has its type.
Typed(w) ==
    /\ Made(w)
    /\ w.hist \in Nat /\ w.sent \in Nat /\ w.acked \in Nat /\ w.turn \in Nat
    /\ w.resizes \in Nat /\ w.target \in Nat /\ w.received \in Nat /\ w.applied \in Nat
    /\ w.count \in Nat
    /\ w.stage \in {"closed", "attach", "replay", "live"}
    /\ w.phase \in {"idle", "replaying", "awaiting", "committed"}
    /\ w.queue \in Seq(Byte) /\ w.bounds \in Seq(Nat)
    /\ w.flight \in Flight /\ w.fence \in Fence
    /\ w.failed \in BOOLEAN /\ w.geometry \in BOOLEAN
    /\ WorkerMade(w.engine) /\ w.engine.failed \in BOOLEAN /\ w.engine.base \in Nat
    /\ w.engine.screen \in Seq(Parse) /\ w.engine.grid \in Nat

\* The worker is asked one thing at a time, a drain waits exactly while it
\* writes, and a grid is asked for a replay, for a fence or by the past.
LanesOf(e, flight, geometry, fence, bound) ==
    /\ Lane(e.lane)
    /\ e.failed => e.lane = <<>>
    /\ flight # NoFlight <=> IsWrite(e.lane)
    /\ IsRestore(e.lane) => e.screen = <<>>
    /\ bound => e.lane = <<>> \/ ~e.lane[1].old
    /\ LaneAsks(e.lane, "grid") => geometry \/ fence # NoFence \/ e.lane[1].old
    /\ fence # NoFence => fence.set
Lanes(w) == LanesOf(w.engine, w.flight, w.geometry, w.fence, Bound(w))

\* The phase of the replay follows the stage of the stream, a queue is of one
\* stream, and a drain that did not fail has received all that was sent.
StagesOf(stage, phase, q, failed, received, sent) ==
    /\ phase # "idle" <=> stage \in {"replay", "live"}
    /\ phase # "idle" => FreshBytes(q)
    /\ FreshBytes(q) \/ \A i \in DOMAIN q : q[i].old
    /\ received <= sent /\ (~failed /\ phase # "idle" => received = sent)
Stages(w) == StagesOf(w.stage, w.phase, w.queue, w.failed, w.received, w.sent)

\* A write of the present stream carries the head of the queue, which follows
\* what is parsed and was printed for the grid the worker has.
WrittenOf(e, flight, q, count, fence, bound) ==
    IsWrite(e.lane) /\ ~e.lane[1].old =>
        LET bytes == e.lane[1].bytes IN
        /\ \A i \in DOMAIN bytes : /\ bytes[i].at = e.base + Len(e.screen) + i
                                   /\ bytes[i].grid = e.grid
        /\ flight.stale => ~bound
        /\ ~flight.stale =>
              /\ flight.n \in 1..Len(q) /\ bytes = SubSeq(q, 1, flight.n)
              /\ FreshBytes(q) /\ flight.n <= flight.left /\ flight.left <= Len(q)
              /\ flight.force => /\ fence # NoFence /\ ~fence.posted
                                 /\ count + flight.left = fence.end
Written(w) == WrittenOf(w.engine, w.flight, w.queue, w.count, w.fence, Bound(w))

\* The screen is the history from the base on, each byte on its own grid.
Parsing(e) == \A i \in DOMAIN e.screen : e.screen[i].at = e.base + i /\ e.screen[i].fits

\* The cursor that parsing will have reached when the lane is answered; the
\* queue, the cursors and the acks follow it.
FromOf(lane, applied) == IF LaneAsks(lane, "restore") THEN lane[1].cursor ELSE applied
PlacedOf(e, phase, q, received, applied, acked, target) ==
    LET from == FromOf(e.lane, applied) IN
    BoundTo(phase, q) /\ ~e.failed =>
        /\ \A i \in DOMAIN q : q[i].at = from + i
        /\ received = from + Len(q)
        /\ applied = IF LaneAsks(e.lane, "restore") THEN 0 ELSE e.base + Len(e.screen)
        /\ phase # "idle" => acked <= from
        /\ phase = "committed" => applied >= target /\ ~LaneAsks(e.lane, "restore")
Placed(w) ==
    PlacedOf(w.engine, w.phase, w.queue, w.received, w.applied, w.acked, w.target)

\* The turns not yet acked are an increasing list below what was sent.
Bounded(bounds, turn, sent) ==
    /\ \A i \in DOMAIN bounds : /\ 0 < bounds[i] /\ bounds[i] <= turn
                                /\ \A j \in 1..(i - 1) : bounds[j] < bounds[i]
    /\ turn <= sent

\* The grid that the worker will have when the lane is answered; the queue is
\* printed for it, or on the sides of the fences that change it.
LastOf(e) == IF LaneAsks(e.lane, "grid") THEN e.lane[Len(e.lane)].grid ELSE e.grid
GriddedOf(last, fence, resizes, q, count) ==
    /\ fence = NoFence => /\ last = resizes
                          /\ \A i \in DOMAIN q : q[i].grid = resizes
    /\ fence # NoFence =>
        /\ fence.grid = last + (IF fence.posted THEN 0 ELSE 1)
        /\ fence.posted => fence.end <= count
        /\ resizes = fence.grid + Len(fence.later)
        /\ fence.end <= count + Len(q)
        /\ \A j \in DOMAIN fence.later :
              /\ fence.later[j].grid = fence.grid + j
              /\ fence.end <= fence.later[j].end
              /\ \A k \in 1..(j - 1) : fence.later[k].end <= fence.later[j].end
              /\ fence.later[j].end <= count + Len(q)
        /\ \A i \in DOMAIN q :
              /\ fence.grid <= q[i].grid + 1 /\ q[i].grid <= resizes
              /\ count + i <= fence.end <=> q[i].grid < fence.grid
              /\ \A j \in DOMAIN fence.later :
                    count + i <= fence.later[j].end <=> q[i].grid < fence.later[j].grid
Gridded(w) ==
    Bound(w) /\ ~w.engine.failed =>
        GriddedOf(LastOf(w.engine), w.fence, w.resizes, w.queue, w.count)

\* The inductive invariant.
Good(w) ==
    /\ Typed(w)
    /\ Lanes(w)
    /\ Stages(w)
    /\ Written(w)
    /\ Parsing(w.engine)
    /\ Placed(w)
    /\ Bounded(w.bounds, w.turn, w.sent)
    /\ Gridded(w)

\* What the invariant does not read may change.
LEMMA GoodKept ==
  ASSUME NEW w, NEW v, Good(w), Kept(w, v, {})
  PROVE  Good(v)
<1>1. /\ Made(v) /\ v.hist = w.hist /\ v.stage = w.stage /\ v.sent = w.sent
      /\ v.acked = w.acked /\ v.turn = w.turn /\ v.resizes = w.resizes /\ v.phase = w.phase
      /\ v.target = w.target /\ v.received = w.received /\ v.applied = w.applied
      /\ v.queue = w.queue /\ v.count = w.count /\ v.bounds = w.bounds
      /\ v.flight = w.flight /\ v.failed = w.failed /\ v.geometry = w.geometry
      /\ v.fence = w.fence /\ v.engine = w.engine
  BY DEF Kept
<1>2. Typed(v)
  BY <1>1 DEF Good, Typed
<1>3. Lanes(v) /\ Stages(v) /\ Written(v) /\ Parsing(v.engine) /\ Placed(v)
      /\ Bounded(v.bounds, v.turn, v.sent) /\ Gridded(v)
  BY <1>1, Zenon DEF Good, Lanes, Stages, Written, Placed, Gridded, Bound
<1> QED BY <1>2, <1>3 DEF Good

-----------------------------------------------------------------------------
\* The steps the operations are made of.

\* The types the invariant gives.
LEMMA GoodTypes ==
  ASSUME NEW w, Good(w)
  PROVE  /\ Made(w) /\ w.hist \in Nat /\ w.sent \in Nat /\ w.acked \in Nat /\ w.turn \in Nat
         /\ w.resizes \in Nat /\ w.target \in Nat /\ w.received \in Nat /\ w.applied \in Nat
         /\ w.count \in Nat /\ w.queue \in Seq(Byte) /\ w.bounds \in Seq(Nat)
         /\ w.flight \in Flight /\ w.fence \in Fence
         /\ WorkerMade(w.engine) /\ w.engine.failed \in BOOLEAN /\ w.engine.base \in Nat
         /\ w.engine.screen \in Seq(Parse) /\ w.engine.grid \in Nat
         /\ Lane(w.engine.lane)
BY DEF Good, Typed, Lanes, LanesOf

\* A stream that is detached owes nothing any more.
LEMMA GoodDetached ==
  ASSUME NEW w, NEW v, Good(w), Kept(w, v, {"stage", "phase"}),
         v.stage = "closed", v.phase = "idle"
  PROVE  Good(v)
<1>1. /\ Made(v) /\ v.hist = w.hist /\ v.sent = w.sent
      /\ v.acked = w.acked /\ v.turn = w.turn /\ v.resizes = w.resizes
      /\ v.target = w.target /\ v.received = w.received /\ v.applied = w.applied
      /\ v.queue = w.queue /\ v.count = w.count /\ v.bounds = w.bounds
      /\ v.flight = w.flight /\ v.failed = w.failed /\ v.geometry = w.geometry
      /\ v.fence = w.fence /\ v.engine = w.engine
  BY DEF Kept
<1>2. Bound(v) => Bound(w)
  BY <1>1 DEF Bound, BoundTo
<1>3. Typed(v)
  BY <1>1 DEF Good, Typed
<1>4. Lanes(v)
  BY <1>1, <1>2, Zenon DEF Good, Lanes, LanesOf
<1>5. Stages(v)
  BY <1>1 DEF Good, Stages, StagesOf
<1>6. Written(v)
  BY <1>1, <1>2, Zenon DEF Good, Written, WrittenOf
<1>7. Placed(v)
  <2>1. BoundTo(v.phase, w.queue) => BoundTo(w.phase, w.queue)
    BY <1>1, <1>2 DEF Bound
  <2> QED BY <1>1, <2>1 DEF Good, Placed, PlacedOf
<1>8. Gridded(v)
  BY <1>1, <1>2, Zenon DEF Good, Gridded
<1>9. Parsing(v.engine) /\ Bounded(v.bounds, v.turn, v.sent)
  BY <1>1 DEF Good
<1> QED BY <1>3, <1>4, <1>5, <1>6, <1>7, <1>8, <1>9 DEF Good

\* What is left of a sequence.
LEMMA SubSeqFacts ==
  ASSUME NEW S, NEW q \in Seq(S), NEW n \in 0..Len(q)
  PROVE  LET rest == SubSeq(q, n + 1, Len(q)) IN
         /\ rest \in Seq(S) /\ Len(rest) = Len(q) - n
         /\ DOMAIN rest = 1..(Len(q) - n)
         /\ \A i \in 1..(Len(q) - n) : rest[i] = q[n + i]
<1>1. Len(q) \in Nat /\ n \in Nat /\ n <= Len(q)
  BY LenProperties
<1>2. \A i \in (n + 1)..Len(q) : q[i] \in S
  BY <1>1, ElementOfSeq
<1>3. SubSeq(q, n + 1, Len(q)) \in Seq(S)
  BY <1>1, <1>2, SubSeqProperties
<1> QED BY <1>1, <1>3

\* The bounds an ack covers are the first ones.
LEMMA AckCovers ==
  ASSUME NEW b \in Seq(Nat), NEW turn \in Nat, NEW sent \in Nat, Bounded(b, turn, sent),
         NEW cursor \in Nat, NEW done \in SUBSET (1..Len(b)), done # {},
         \A i \in 1..Len(b) : i \in done <=> b[i] <= cursor
  PROVE  LET c == Cardinality(done)
             rest == SubSeq(b, c + 1, Len(b)) IN
         /\ c \in 1..Len(b) /\ b[c] \in Nat /\ 0 < b[c] /\ b[c] <= cursor
         /\ rest \in Seq(Nat) /\ Bounded(rest, turn, sent)
<1> DEFINE c == Cardinality(done)
           rest == SubSeq(b, c + 1, Len(b))
<1>1. Len(b) \in Nat /\ DOMAIN b = 1..Len(b) /\ \A i \in 1..Len(b) : b[i] \in Nat
  BY LenProperties, ElementOfSeq
<1>2. \A i \in 1..Len(b) : 0 < b[i] /\ b[i] <= turn /\ \A j \in 1..(i - 1) : b[j] < b[i]
  BY <1>1 DEF Bounded
<1>3. done \in SUBSET (1..Len(b)) /\ \A i \in done : b[i] <= cursor
  BY <1>1
<1>4. ASSUME NEW i \in done, NEW j \in 1..i
      PROVE  j \in done
  <2>1. i \in 1..Len(b) /\ b[i] <= cursor /\ j \in 1..Len(b)
    BY <1>1, <1>3
  <2>2. b[j] <= b[i]
    <3>1. i \in Nat /\ j \in Nat /\ b[i] \in Nat /\ b[j] \in Nat /\ j <= i
      BY <1>1, <2>1
    <3>2. CASE j < i
      <4>1. j \in 1..(i - 1)
        BY <2>1, <3>1, <3>2
      <4>2. b[j] < b[i]
        BY <1>2, <2>1, <4>1
      <4> QED BY <3>1, <4>2
    <3>3. j = i => b[j] <= b[i]
      BY <3>1
    <3> QED BY <3>1, <3>2, <3>3
  <2> QED BY <1>1, <2>1, <2>2
<1>5. done = 1..c /\ c \in 0..Len(b)
  BY <1>1, <1>3, <1>4, Segment
<1>6. c \in 1..Len(b) /\ c \in done
  <2> HIDE DEF c
  <2> QED BY <1>1, <1>5
<1> HIDE DEF c
<1>7. rest \in Seq(Nat) /\ Len(rest) = Len(b) - c
      /\ \A i \in 1..(Len(b) - c) : rest[i] = b[c + i]
  <2>1. c \in 0..Len(b)
    BY <1>1, <1>6
  <2> QED BY <2>1, SubSeqFacts, Zenon
<1>8. Bounded(rest, turn, sent)
  <2> HIDE DEF rest
  <2>1. DOMAIN rest = 1..(Len(b) - c)
    BY <1>7
  <2>2. turn <= sent
    BY DEF Bounded
  <2>3. ASSUME NEW i \in 1..(Len(b) - c)
        PROVE  0 < rest[i] /\ rest[i] <= turn /\ \A j \in 1..(i - 1) : rest[j] < rest[i]
    <3>1. c + i \in 1..Len(b) /\ rest[i] = b[c + i]
      BY <1>1, <1>6, <1>7
    <3>2. \A j \in 1..(i - 1) : c + j \in 1..((c + i) - 1) /\ rest[j] = b[c + j]
      BY <1>1, <1>6, <1>7
    <3> QED BY <1>2, <3>1, <3>2
  <2> QED BY <2>1, <2>2, <2>3 DEF Bounded
<1> QED BY <1>1, <1>2, <1>3, <1>6, <1>7, <1>8 DEF c

\* An ack tells the broker no more than what the cursor reached.
LEMMA GoodTrySend ==
  ASSUME NEW w, Good(w)
  PROVE  LET v == TrySend(w) IN Good(v) /\ Kept(w, v, {"acked", "bounds"})
<1> DEFINE v == TrySend(w)
           done == {i \in DOMAIN w.bounds : w.bounds[i] <= w.applied}
           c == Cardinality(done)
<1>1. Kept(w, v, {"acked", "bounds"})
      /\ \/ v = w
         \/ /\ done # {} /\ v.acked = w.bounds[c]
            /\ v.bounds = SubSeq(w.bounds, c + 1, Len(w.bounds))
  BY GoodTypes, KeptAcked DEF TrySend
<1>2. CASE done # {} /\ v.acked = w.bounds[c]
           /\ v.bounds = SubSeq(w.bounds, c + 1, Len(w.bounds))
  <2>0. w.bounds \in Seq(Nat) /\ w.turn \in Nat /\ w.sent \in Nat /\ w.applied \in Nat
        /\ Bounded(w.bounds, w.turn, w.sent)
    BY GoodTypes DEF Good
  <2>1. /\ v.acked \in Nat /\ 0 < v.acked /\ v.acked <= w.applied
        /\ v.bounds \in Seq(Nat) /\ Bounded(v.bounds, w.turn, w.sent)
    <3> DEFINE d == done
    <3>1. DOMAIN w.bounds = 1..Len(w.bounds)
      BY <2>0
    <3>2. d \in SUBSET (1..Len(w.bounds)) /\ d # {}
          /\ \A i \in 1..Len(w.bounds) : i \in d <=> w.bounds[i] <= w.applied
      BY <1>2, <3>1
    <3>3. v.acked = w.bounds[Cardinality(d)]
          /\ v.bounds = SubSeq(w.bounds, Cardinality(d) + 1, Len(w.bounds))
      BY <1>2
    <3> HIDE DEF d
    <3>4. /\ Cardinality(d) \in 1..Len(w.bounds) /\ w.bounds[Cardinality(d)] \in Nat
          /\ 0 < w.bounds[Cardinality(d)] /\ w.bounds[Cardinality(d)] <= w.applied
          /\ SubSeq(w.bounds, Cardinality(d) + 1, Len(w.bounds)) \in Seq(Nat)
          /\ Bounded(SubSeq(w.bounds, Cardinality(d) + 1, Len(w.bounds)), w.turn, w.sent)
      BY <2>0, <3>2, AckCovers, Zenon
    <3> QED BY <3>3, <3>4
  <2> HIDE DEF v, done, c
  <2>2. /\ Made(v) /\ v.hist = w.hist /\ v.stage = w.stage /\ v.sent = w.sent
        /\ v.turn = w.turn /\ v.resizes = w.resizes /\ v.phase = w.phase
        /\ v.target = w.target /\ v.received = w.received /\ v.applied = w.applied
        /\ v.queue = w.queue /\ v.count = w.count
        /\ v.flight = w.flight /\ v.failed = w.failed /\ v.geometry = w.geometry
        /\ v.fence = w.fence /\ v.engine = w.engine
    BY <1>1 DEF Kept
  <2>3. Typed(v)
    BY <2>1, <2>2 DEF Good, Typed
  <2>4. Lanes(v) /\ Stages(v) /\ Written(v) /\ Parsing(v.engine) /\ Gridded(v)
    BY <2>2, Zenon DEF Good, Lanes, Stages, Written, Gridded, Bound
  <2>5. Placed(v)
    <3>1. CASE BoundTo(w.phase, w.queue) /\ ~w.engine.failed
      <4>1. ~LaneAsks(w.engine.lane, "restore")
        BY <2>0, <2>1, <3>1 DEF Good, Placed, PlacedOf
      <4>2. FromOf(w.engine.lane, w.applied) = w.applied
        BY <4>1 DEF FromOf
      <4> QED BY <2>1, <2>2, <4>2 DEF Good, Placed, PlacedOf
    <3>2. CASE ~(BoundTo(w.phase, w.queue) /\ ~w.engine.failed)
      BY <2>2, <3>2 DEF Placed, PlacedOf
    <3> QED BY <3>1, <3>2
  <2>6. Good(v)
    BY <2>1, <2>2, <2>3, <2>4, <2>5 DEF Good
  <2> QED BY <1>1, <2>6 DEF v
<1> QED BY <1>1, <1>2

\* A replay is committed when the worker parsed all of it.
LEMMA GoodFinish ==
  ASSUME NEW w, Good(w)
  PROVE  LET v == Finish(w) IN Good(v) /\ Kept(w, v, {"phase"})
<1> DEFINE v == Finish(w)
<1>1. /\ Kept(w, v, {"phase"})
      /\ \/ v = w
         \/ /\ v.phase = "committed" /\ w.phase = "awaiting" /\ w.queue = <<>>
            /\ ~Asked(w, "restore") /\ ~Asked(w, "grid")
            /\ w.received >= w.target /\ w.applied >= w.target
  BY GoodTypes, KeptFinish
<1>2. CASE /\ v.phase = "committed" /\ w.phase = "awaiting" /\ w.queue = <<>>
           /\ ~Asked(w, "restore") /\ w.applied >= w.target
  <2> HIDE DEF v
  <2>1. /\ Made(v) /\ v.hist = w.hist /\ v.stage = w.stage /\ v.sent = w.sent
        /\ v.acked = w.acked /\ v.turn = w.turn /\ v.resizes = w.resizes
        /\ v.target = w.target /\ v.received = w.received /\ v.applied = w.applied
        /\ v.queue = w.queue /\ v.count = w.count /\ v.bounds = w.bounds
        /\ v.flight = w.flight /\ v.failed = w.failed /\ v.geometry = w.geometry
        /\ v.fence = w.fence /\ v.engine = w.engine
    BY <1>1 DEF Kept
  <2>2. Bound(v) /\ Bound(w) /\ BoundTo(v.phase, v.queue) /\ BoundTo(w.phase, w.queue)
    BY <1>2 DEF Bound, BoundTo
  <2>3. Typed(v)
    BY <1>2, <2>1 DEF Good, Typed
  <2>4. Stages(v)
    BY <1>2, <2>1 DEF Good, Stages, StagesOf
  <2>5. Lanes(v) /\ Written(v) /\ Parsing(v.engine) /\ Gridded(v)
        /\ Bounded(v.bounds, v.turn, v.sent)
    BY <2>1, <2>2, Zenon DEF Good, Lanes, Written, Gridded
  <2>6. ~LaneAsks(w.engine.lane, "restore")
    BY <1>2 DEF Asked, LaneAsks
  <2>7. Placed(v)
    BY <1>2, <2>1, <2>2, <2>6 DEF Good, Placed, PlacedOf
  <2>8. Good(v)
    BY <2>3, <2>4, <2>5, <2>7 DEF Good
  <2> QED BY <1>1, <2>8 DEF v
<1> QED BY <1>1, <1>2

\* The end of a drain that found nothing to write.
LEMMA GoodSent ==
  ASSUME NEW w, Good(w)
  PROVE  LET v == TrySend(Finish(w)) IN Good(v) /\ Kept(w, v, {"acked", "bounds", "phase"})
<1>1. Good(Finish(w)) /\ Kept(w, Finish(w), {"phase"})
  BY GoodFinish
<1> DEFINE u == Finish(w)
<1> HIDE DEF u
<1>2. Good(TrySend(u)) /\ Kept(u, TrySend(u), {"acked", "bounds"})
  BY <1>1, GoodTrySend DEF u
<1>3. Kept(w, TrySend(u), {"phase"} \cup {"acked", "bounds"})
  BY <1>1, <1>2, KeptTwice DEF u
<1>4. {"phase"} \cup {"acked", "bounds"} = {"acked", "bounds", "phase"}
  OBVIOUS
<1> QED BY <1>2, <1>3, <1>4 DEF u

-----------------------------------------------------------------------------
\* The drain.

\* The queue, entry by entry.
LEMMA QueueFacts ==
  ASSUME NEW q \in Seq(Byte)
  PROVE  /\ Len(q) \in Nat /\ DOMAIN q = 1..Len(q)
         /\ (q # <<>> <=> Len(q) > 0)
         /\ \A i \in 1..Len(q) : /\ q[i] \in Byte /\ q[i].at \in Nat /\ q[i].grid \in Nat
                                 /\ q[i].old \in BOOLEAN
<1>1. Len(q) \in Nat /\ DOMAIN q = 1..Len(q)
  BY LenProperties
<1>2. \A i \in 1..Len(q) : q[i] \in Byte
  BY ElementOfSeq
<1>3. \A b \in Byte : b.at \in Nat /\ b.grid \in Nat /\ b.old \in BOOLEAN
  BY DEF Byte
<1>4. q # <<>> <=> Len(q) > 0
  BY EmptySeq, <1>1
<1> QED BY <1>1, <1>2, <1>3, <1>4

\* A write takes at least one entry and no more than it may.
LEMMA SizesFit ==
  ASSUME NEW w, w.queue \in Seq(Byte), NEW left \in 1..Len(w.queue), NEW k \in Sizes(w, left)
  PROVE  k \in 1..left
<1> DEFINE q == w.queue
           alike == {i \in 1..Len(q) : \A j \in 1..i : q[j].kind = q[1].kind /\ j <= left}
           all == Cardinality(alike)
<1>1. Len(q) \in Nat /\ left \in Nat /\ 1 <= left /\ left <= Len(q)
  BY QueueFacts
<1>2. alike \in SUBSET (1..Len(q)) /\ \A i \in alike : i <= left
  BY <1>1
<1>3. 1 \in alike
  BY <1>1
<1>4. \A i \in alike : \A j \in 1..i : j \in alike
  <2>1. ASSUME NEW i \in alike, NEW j \in 1..i PROVE j \in alike
    <3>1. i \in 1..Len(q) /\ \A m \in 1..i : q[m].kind = q[1].kind /\ m <= left
      OBVIOUS
    <3>2. j \in 1..Len(q) /\ \A m \in 1..j : m \in 1..i
      BY <1>1, <3>1
    <3> QED BY <3>1, <3>2
  <2> QED BY <2>1
<1>5. k = all \/ k = 1
  BY Zenon DEF Sizes
<1> HIDE DEF q
<1>6. alike = 1..all /\ all \in 0..Len(q)
  <2> HIDE DEF alike
  <2> QED BY <1>1, <1>2, <1>4, Segment
<1> HIDE DEF all
<1>7. all \in 1..left
  <2> HIDE DEF alike
  <2>1. all \in Nat /\ 1 \in 1..all
    BY <1>1, <1>3, <1>6
  <2>2. all \in alike
    BY <1>6, <2>1
  <2> QED BY <1>1, <1>2, <2>1, <2>2
<1> QED BY <1>1, <1>5, <1>7

\* A drain that waits, or no longer waits, for the worker,
LEMMA KeptLanded ==
  ASSUME NEW w, Made(w), NEW f
  PROVE  LET v == [w EXCEPT !.flight = f] IN
         Kept(w, v, {"flight"}) /\ v.flight = f
BY DEF Made, Fields, Kept

\* and one that asks it.
LEMMA KeptAsk ==
  ASSUME NEW w, Made(w), NEW f, NEW r
  PROVE  LET v == Ask([w EXCEPT !.flight = f], r) IN
         /\ Kept(w, v, {"flight", "engine"}) /\ v.flight = f
         /\ v.engine = [w.engine EXCEPT !.lane = Append(w.engine.lane, r)]
BY DEF Ask, Made, Fields, Kept

\* A request changes nothing else of the worker.
LEMMA WorkerLane ==
  ASSUME NEW e, WorkerMade(e), NEW l
  PROVE  LET u == [e EXCEPT !.lane = l] IN
         /\ WorkerMade(u) /\ u.lane = l /\ u.failed = e.failed /\ u.base = e.base
         /\ u.screen = e.screen /\ u.grid = e.grid
BY DEF WorkerMade

\* The first entries go to the worker.
LEMMA GoodWrite ==
  ASSUME NEW w, Good(w), w.flight = NoFlight, w.queue # <<>>, FreshBytes(w.queue),
         w.engine.lane = <<>>, NEW left \in Nat, NEW force \in BOOLEAN,
         ~w.engine.failed =>
             /\ left \in 1..Len(w.queue)
             /\ \A i \in 1..left : w.queue[i].grid = w.engine.grid
             /\ force => /\ w.fence # NoFence /\ ~w.fence.posted
                         /\ w.count + left = w.fence.end,
         NEW v \in Write(w, force, left)
  PROVE  /\ Good(v) /\ Kept(w, v, {"flight", "engine"})
         /\ ~LaneAsks(v.engine.lane, "grid") /\ v.engine.failed = w.engine.failed
<1>1. CASE w.engine.failed
  <2>1. v = [w EXCEPT !.flight = NoFlight]
    BY <1>1 DEF Write
  <2>2. Kept(w, v, {"flight"}) /\ v.flight = NoFlight
    BY <2>1, GoodTypes, KeptLanded, Zenon
  <2>3. Kept(w, v, {})
    BY <2>2 DEF Kept
  <2>4. v.engine = w.engine
    BY <2>3 DEF Kept
  <2> QED BY <2>3, <2>4, GoodKept, KeptMore, EmptyFacts
<1>2. CASE ~w.engine.failed
  <2>1. PICK k \in Sizes(w, left) :
          v = Ask([w EXCEPT !.flight =
                      [n |-> k, force |-> force, left |-> left, stale |-> FALSE]],
                  [op |-> "write", old |-> FALSE, bytes |-> SubSeq(w.queue, 1, k)])
    BY <1>2, Zenon DEF Write
  <2>2. PICK f : f = [n |-> k, force |-> force, left |-> left, stale |-> FALSE]
    OBVIOUS
  <2>3. PICK bytes : bytes = SubSeq(w.queue, 1, k)
    OBVIOUS
  <2>4. [op |-> "write", old |-> FALSE, bytes |-> SubSeq(w.queue, 1, k)]
        = WriteAsk(FALSE, bytes)
    BY <2>3, Zenon DEF WriteAsk
  <2>5. v = Ask([w EXCEPT !.flight = f], WriteAsk(FALSE, bytes))
    BY <2>1, <2>2, <2>4, Zenon
  <2>6. /\ Kept(w, v, {"flight", "engine"}) /\ v.flight = f
        /\ v.engine = [w.engine EXCEPT !.lane = Append(w.engine.lane, WriteAsk(FALSE, bytes))]
    <3>1. Made(w)
      BY GoodTypes
    <3>2. PICK r : r = WriteAsk(FALSE, bytes)
      OBVIOUS
    <3>3. v = Ask([w EXCEPT !.flight = f], r)
      BY <2>5, <3>2
    <3>4. /\ Kept(w, v, {"flight", "engine"}) /\ v.flight = f
          /\ v.engine = [w.engine EXCEPT !.lane = Append(w.engine.lane, r)]
      BY <3>1, <3>3 DEF Ask, Made, Fields, Kept
    <3> QED BY <3>2, <3>4
  <2>7. Append(w.engine.lane, WriteAsk(FALSE, bytes)) = <<WriteAsk(FALSE, bytes)>>
    OBVIOUS
  <2> DEFINE e == v.engine
             l == <<WriteAsk(FALSE, bytes)>>
  <2>8. /\ WorkerMade(e) /\ e.lane = l /\ e.failed = w.engine.failed
        /\ e.base = w.engine.base /\ e.screen = w.engine.screen /\ e.grid = w.engine.grid
    <3>1. WorkerMade(w.engine)
      BY GoodTypes
    <3>2. v.engine = [w.engine EXCEPT !.lane = l]
      BY <2>6, <2>7
    <3> HIDE DEF l
    <3> QED BY <3>1, <3>2 DEF WorkerMade
  <2>9. /\ w.queue \in Seq(Byte) /\ Len(w.queue) \in Nat /\ DOMAIN w.queue = 1..Len(w.queue)
        /\ left \in 1..Len(w.queue)
    <3>1. w.queue \in Seq(Byte)
      BY GoodTypes
    <3> QED BY <1>2, <3>1, LenProperties
  <2>10. k \in 1..left
    BY <2>9, SizesFit
  <2>11. k \in 1..Len(w.queue) /\ k <= left /\ k \in Nat
    BY <2>9, <2>10
  <2>12. /\ bytes \in Seq(Byte) /\ Len(bytes) = k /\ DOMAIN bytes = 1..k
         /\ \A i \in 1..k : bytes[i] = w.queue[i]
    <3>1. \A i \in 1..k : w.queue[i] \in Byte
      BY <2>9, <2>11, QueueFacts
    <3> QED BY <2>3, <2>11, <3>1, SubSeqProperties, LenProperties
  <2>13. /\ IsWrite(l) /\ l[1].old = FALSE /\ l[1].bytes = bytes
    <3>1. IsWrite(l)
      BY <2>12 DEF IsWrite
    <3>2. l[1].old = FALSE /\ l[1].bytes = bytes
      BY DEF WriteAsk
    <3> QED BY <3>1, <3>2
  <2>14. ~LaneAsks(l, "grid") /\ ~LaneAsks(l, "restore") /\ ~IsRestore(l) /\ ~IsGrid(l)
         /\ Lane(l) /\ l # <<>>
    BY <2>13, WriteFacts DEF Lane
  <2> HIDE DEF l
  <2>15. /\ Made(v) /\ v.hist = w.hist /\ v.stage = w.stage /\ v.sent = w.sent
         /\ v.acked = w.acked /\ v.turn = w.turn /\ v.resizes = w.resizes /\ v.phase = w.phase
         /\ v.target = w.target /\ v.received = w.received /\ v.applied = w.applied
         /\ v.queue = w.queue /\ v.count = w.count /\ v.bounds = w.bounds
         /\ v.failed = w.failed /\ v.geometry = w.geometry
         /\ v.fence = w.fence
    BY <2>6 DEF Kept
  <2>16. f \in Flight /\ f # NoFlight /\ f.n = k /\ f.force = force /\ f.left = left /\ ~f.stale
    BY <2>2, <2>11 DEF Flight, NoFlight
  <2>17. Typed(v)
    BY <2>6, <2>8, <2>15, <2>16 DEF Good, Typed
  <2>18. Lanes(v)
    <3>1. (w.fence # NoFence => w.fence.set)
      BY DEF Good, Lanes, LanesOf
    <3> QED BY <1>2, <2>6, <2>8, <2>13, <2>14, <2>15, <2>16, <3>1 DEF Lanes, LanesOf
  <2>19. Stages(v) /\ Parsing(v.engine) /\ Bounded(v.bounds, v.turn, v.sent)
    BY <2>8, <2>15 DEF Good, Stages, Parsing
  <2>20. /\ BoundTo(w.phase, w.queue)
         /\ ~LaneAsks(w.engine.lane, "restore") /\ ~LaneAsks(w.engine.lane, "grid")
    BY EmptyFacts DEF BoundTo
  <2>21. \A i \in DOMAIN w.queue : w.queue[i].at = w.engine.base + Len(w.engine.screen) + i
    BY <1>2, <2>20 DEF Good, Placed, PlacedOf, FromOf
  <2>22. \A i \in DOMAIN bytes : /\ bytes[i].at = e.base + Len(e.screen) + i
                                 /\ bytes[i].grid = e.grid
    BY <1>2, <2>8, <2>9, <2>11, <2>12, <2>21
  <2>23. Written(v)
    <3>1. /\ f.n \in 1..Len(w.queue) /\ bytes = SubSeq(w.queue, 1, f.n) /\ f.n <= f.left
          /\ f.left <= Len(w.queue)
          /\ f.force => /\ w.fence # NoFence /\ ~w.fence.posted
                        /\ w.count + f.left = w.fence.end
      BY <1>2, <2>3, <2>9, <2>11, <2>16
    <3>2. WrittenOf(e, f, w.queue, w.count, w.fence, Bound(v))
      BY <2>8, <2>13, <2>16, <2>22, <3>1 DEF WrittenOf
    <3> QED BY <2>6, <2>15, <3>2 DEF Written
  <2>24. Placed(v)
    BY <2>8, <2>14, <2>15, <2>20 DEF Good, Placed, PlacedOf, FromOf
  <2>25. Gridded(v)
    <3>1. LastOf(e) = LastOf(w.engine)
      BY <2>8, <2>14, <2>20 DEF LastOf
    <3>2. Bound(v) <=> Bound(w)
      BY <2>15 DEF Bound
    <3> HIDE DEF e
    <3>3. LastOf(v.engine) = LastOf(w.engine) /\ v.engine.failed = w.engine.failed
      BY <2>8, <3>1 DEF e
    <3> QED BY <2>15, <3>2, <3>3, Zenon DEF Good, Gridded
  <2>26. Good(v)
    BY <2>17, <2>18, <2>19, <2>23, <2>24, <2>25 DEF Good
  <2> QED BY <2>6, <2>8, <2>14, <2>26
<1> QED BY <1>1, <1>2

\* Output of a stream that is gone is dropped.
LEMMA GoodDropped ==
  ASSUME NEW w, Good(w), w.flight = NoFlight,
         ~Attached(w) \/ \E i \in DOMAIN w.queue : w.queue[i].old,
         NEW v, v = [w EXCEPT !.queue = <<>>]
  PROVE  Good(v) /\ Kept(w, v, {"queue"})
<1>1. Made(w)
  BY GoodTypes
<1>2. Kept(w, v, {"queue"}) /\ v.queue = <<>>
  BY <1>1 DEF Made, Fields, Kept
<1>3. /\ Made(v) /\ v.hist = w.hist /\ v.stage = w.stage /\ v.sent = w.sent
      /\ v.acked = w.acked /\ v.turn = w.turn /\ v.resizes = w.resizes /\ v.phase = w.phase
      /\ v.target = w.target /\ v.received = w.received /\ v.applied = w.applied
      /\ v.count = w.count /\ v.bounds = w.bounds /\ v.flight = w.flight
      /\ v.failed = w.failed /\ v.geometry = w.geometry
      /\ v.fence = w.fence /\ v.engine = w.engine
  BY <1>2 DEF Kept
<1>4. w.phase = "idle"
  BY DEF Good, Stages, StagesOf, Attached, FreshBytes
<1>5. ~Bound(v) /\ ~BoundTo(v.phase, v.queue)
  BY <1>2, <1>3, <1>4 DEF Bound, BoundTo
<1>6. Typed(v)
  <2>1. <<>> \in Seq(Byte)
    OBVIOUS
  <2> QED BY <1>2, <1>3, <2>1 DEF Good, Typed
<1>7. Lanes(v)
  BY <1>3, <1>5 DEF Good, Lanes, LanesOf
<1>8. Stages(v)
  BY <1>2, <1>3, <1>4 DEF Good, Stages, StagesOf, FreshBytes
<1>9. Written(v)
  <2>1. ~IsWrite(w.engine.lane)
    BY DEF Good, Lanes, LanesOf
  <2> QED BY <1>3, <2>1, Zenon DEF Written, WrittenOf
<1>10. Placed(v) /\ Gridded(v)
  BY <1>3, <1>5, Zenon DEF Placed, PlacedOf, Gridded
<1>11. Parsing(v.engine) /\ Bounded(v.bounds, v.turn, v.sent)
  BY <1>3 DEF Good
<1>12. Good(v)
  BY <1>6, <1>7, <1>8, <1>9, <1>10, <1>11 DEF Good
<1> QED BY <1>2, <1>12

\* What a drain that may start leaves.
DrainFields == {"acked", "bounds", "phase", "queue", "flight", "engine"}

\* A drain, when the worker is free for the present stream and the grid of
\* what it may take is the worker's.
LEMMA GoodDrain ==
  ASSUME NEW w, Good(w), w.flight = NoFlight, NEW left \in Nat, NEW force \in BOOLEAN,
         w.queue # <<>> /\ FreshBytes(w.queue) => ~LaneAsks(w.engine.lane, "grid"),
         w.queue # <<>> /\ FreshBytes(w.queue) /\ ~w.engine.failed =>
             /\ left \in 1..Len(w.queue)
             /\ \A i \in 1..left : w.queue[i].grid = w.engine.grid
             /\ force => /\ w.fence # NoFence /\ ~w.fence.posted
                         /\ w.count + left = w.fence.end,
         NEW v \in Drain(w, force, left)
  PROVE  /\ Good(v) /\ Kept(w, v, DrainFields)
         /\ v.engine.failed = w.engine.failed
         /\ ~LaneAsks(w.engine.lane, "grid") => ~LaneAsks(v.engine.lane, "grid")
<1>1. CASE w.queue = <<>>
  <2>1. v = TrySend(Finish(w))
    BY <1>1, Zenon DEF Drain
  <2>2. Good(v) /\ Kept(w, v, {"acked", "bounds", "phase"})
    BY <2>1, GoodSent, Zenon
  <2>3. Kept(w, v, DrainFields) /\ v.engine = w.engine
    BY <2>2 DEF Kept, DrainFields
  <2> QED BY <2>2, <2>3
<1>2. CASE w.queue # <<>> /\ (~Attached(w) \/ \E i \in DOMAIN w.queue : w.queue[i].old)
  <2>1. v = [w EXCEPT !.queue = <<>>]
    BY <1>2, Zenon DEF Drain
  <2>2. Good(v) /\ Kept(w, v, {"queue"})
    BY <1>2, <2>1, GoodDropped
  <2>3. Kept(w, v, DrainFields) /\ v.engine = w.engine
    BY <2>2 DEF Kept, DrainFields
  <2> QED BY <2>2, <2>3
<1>3. CASE w.queue # <<>> /\ ~(~Attached(w) \/ \E i \in DOMAIN w.queue : w.queue[i].old)
  <2>1. v \in Write(w, force, left)
    BY <1>3, Zenon DEF Drain
  <2>2. FreshBytes(w.queue)
    BY <1>3 DEF FreshBytes
  <2>3. w.engine.lane = <<>>
    <3>1. Lane(w.engine.lane) /\ ~IsWrite(w.engine.lane)
      BY DEF Good, Lanes, LanesOf
    <3>2. ~LaneAsks(w.engine.lane, "grid")
      BY <1>3, <2>2
    <3> QED BY <3>1, <3>2, GridFacts, RestoreFacts DEF Lane
  <2>4. /\ Good(v) /\ Kept(w, v, {"flight", "engine"})
        /\ ~LaneAsks(v.engine.lane, "grid") /\ v.engine.failed = w.engine.failed
    BY <1>3, <2>1, <2>2, <2>3, GoodWrite
  <2>5. Kept(w, v, DrainFields)
    BY <2>4 DEF Kept, DrainFields
  <2> QED BY <2>4, <2>5
<1> QED BY <1>1, <1>2, <1>3

\* A flush that starts.
LEMMA KeptFlush ==
  ASSUME NEW w, Made(w), NEW v, v = [w EXCEPT !.scheduled = FALSE]
  PROVE  Kept(w, v, {})
BY DEF Made, Fields, Kept

\* A flush that is scheduled.
LEMMA GoodReschedule ==
  ASSUME NEW w, Good(w)
  PROVE  /\ Good(Reschedule(w)) /\ Kept(w, Reschedule(w), {})
         /\ Good(Scheduled(w)) /\ Kept(w, Scheduled(w), {})
BY GoodTypes, KeptReschedule, KeptScheduled, GoodKept

\* A flush.
LEMMA GoodFlush ==
  ASSUME NEW w, Good(w), NEW v \in Flush(w)
  PROVE  /\ Good(v) /\ Kept(w, v, DrainFields)
         /\ v.engine.failed = w.engine.failed
         /\ ~LaneAsks(w.engine.lane, "grid") => ~LaneAsks(v.engine.lane, "grid")
<1>1. CASE w.failed
  <2>1. v = w
    BY <1>1, Zenon DEF Flush
  <2> QED BY <2>1, GoodTypes DEF Kept
<1>2. CASE ~w.failed
  <2>1. PICK u : u = [w EXCEPT !.scheduled = FALSE]
    OBVIOUS
  <2>2. Made(w)
    BY GoodTypes
  <2>3. Kept(w, u, {}) /\ Good(u)
    BY <2>1, <2>2, KeptFlush, GoodKept
  <2>4. u.engine = w.engine /\ u.queue = w.queue /\ u.flight = w.flight /\ u.fence = w.fence
        /\ u.geometry = w.geometry /\ u.resizes = w.resizes /\ u.count = w.count
    BY <2>3 DEF Kept
  <2>5. CASE v = u
    BY <2>3, <2>4, <2>5, KeptMore
  <2>6. CASE v = Scheduled(u)
    <3>1. Good(v) /\ Kept(u, v, {})
      BY <2>3, <2>6, GoodReschedule
    <3>2. Kept(w, v, DrainFields) /\ v.engine = w.engine
      BY <2>3, <3>1 DEF Kept
    <3> QED BY <3>1, <3>2
  <2>7. ASSUME u.flight = NoFlight, ~Gated(u), NEW x \in Drain(u, FALSE, Len(u.queue)),
               v = IF x.flight = NoFlight THEN Reschedule(x) ELSE x
        PROVE  /\ Good(v) /\ Kept(w, v, DrainFields)
               /\ v.engine.failed = w.engine.failed
               /\ ~LaneAsks(w.engine.lane, "grid") => ~LaneAsks(v.engine.lane, "grid")
    <3>1. u.fence = NoFence /\ ~u.geometry
      BY <2>7, Zenon DEF Gated
    <3>2. u.queue \in Seq(Byte) /\ Len(u.queue) \in Nat /\ (u.queue # <<>> => Len(u.queue) > 0)
          /\ DOMAIN u.queue = 1..Len(u.queue)
      <4>1. u.queue \in Seq(Byte)
        BY <2>3, GoodTypes
      <4> QED BY <4>1, LenProperties, EmptySeq
    <3>3. ASSUME u.queue # <<>>, FreshBytes(u.queue)
          PROVE  Bound(u) /\ ~LaneAsks(u.engine.lane, "grid")
      <4>1. Bound(u)
        BY <3>3 DEF Bound, BoundTo
      <4>2. u.engine.lane = <<>> \/ ~u.engine.lane[1].old
        BY <2>3, <4>1 DEF Good, Lanes, LanesOf
      <4>3. LaneAsks(u.engine.lane, "grid") => u.engine.lane[1].old
        BY <2>3, <3>1 DEF Good, Lanes, LanesOf
      <4> QED BY <4>1, <4>2, <4>3, EmptyFacts
    <3>4. ASSUME u.queue # <<>>, FreshBytes(u.queue), ~u.engine.failed
          PROVE  /\ Len(u.queue) \in 1..Len(u.queue)
                 /\ \A i \in 1..Len(u.queue) : u.queue[i].grid = u.engine.grid
      <4>1. LastOf(u.engine) = u.engine.grid
        BY <3>3, <3>4 DEF LastOf
      <4>2. GriddedOf(u.engine.grid, u.fence, u.resizes, u.queue, u.count)
        BY <2>3, <3>3, <3>4, <4>1 DEF Good, Gridded
      <4> QED BY <3>1, <3>2, <3>4, <4>2 DEF GriddedOf
    <3>5. /\ Good(x) /\ Kept(u, x, DrainFields) /\ x.engine.failed = u.engine.failed
          /\ ~LaneAsks(u.engine.lane, "grid") => ~LaneAsks(x.engine.lane, "grid")
      BY <2>3, <2>7, <3>2, <3>3, <3>4, GoodDrain
    <3>6. Good(v) /\ Kept(x, v, {})
      BY <2>7, <3>5, GoodReschedule, GoodTypes, KeptSelf
    <3>7. v.engine = x.engine
      BY <3>6 DEF Kept
    <3>8. Kept(w, v, DrainFields)
      BY <2>3, <3>5, <3>6 DEF Kept
    <3> QED BY <2>4, <3>5, <3>6, <3>7, <3>8
  <2>8. \/ v = u \/ v = Scheduled(u)
        \/ /\ u.flight = NoFlight /\ ~Gated(u)
           /\ \E x \in Drain(u, FALSE, Len(u.queue)) :
                 v = IF x.flight = NoFlight THEN Reschedule(x) ELSE x
    BY <1>2, <2>1, Zenon DEF Flush
  <2> QED BY <2>5, <2>6, <2>7, <2>8
<1> QED BY <1>1, <1>2

-----------------------------------------------------------------------------
\* The fence.

\* A fence that asked for its grid is still the same fence.
LEMMA FencePosted ==
  ASSUME NEW f \in Fence, NEW g, g = [f EXCEPT !.posted = TRUE]
  PROVE  /\ g \in Fence /\ g.set = f.set /\ g.end = f.end /\ g.grid = f.grid
         /\ g.later = f.later /\ g.posted = TRUE /\ g.busy = f.busy
BY DEF Fence

\* A fence, field by field.
LEMMA FenceTypes ==
  ASSUME NEW f \in Fence
  PROVE  /\ f.set \in BOOLEAN /\ f.end \in Nat /\ f.grid \in Nat /\ f.later \in Seq(Change)
         /\ f.busy \in BOOLEAN /\ f.posted \in BOOLEAN
         /\ Len(f.later) \in Nat /\ DOMAIN f.later = 1..Len(f.later)
         /\ \A i \in 1..Len(f.later) : /\ f.later[i] \in Change
                                       /\ f.later[i].end \in Nat /\ f.later[i].grid \in Nat
         /\ f.set => f # NoFence
<1>1. /\ f.set \in BOOLEAN /\ f.end \in Nat /\ f.grid \in Nat /\ f.later \in Seq(Change)
      /\ f.busy \in BOOLEAN /\ f.posted \in BOOLEAN
  BY DEF Fence
<1>2. Len(f.later) \in Nat /\ DOMAIN f.later = 1..Len(f.later)
      /\ \A i \in 1..Len(f.later) : f.later[i] \in Change
  BY <1>1, LenProperties, ElementOfSeq
<1>3. \A c \in Change : c.end \in Nat /\ c.grid \in Nat
  BY DEF Change
<1>4. ~NoFence.set
  BY DEF NoFence
<1> QED BY <1>1, <1>2, <1>3, <1>4

\* A fence that changed only what the invariant does not read.
LEMMA GoodFence ==
  ASSUME NEW w, Good(w), NEW v, Kept(w, v, {"fence"}),
         v.fence \in Fence, v.fence.set = w.fence.set, v.fence.end = w.fence.end,
         v.fence.grid = w.fence.grid, v.fence.later = w.fence.later,
         v.fence.posted = w.fence.posted, w.fence # NoFence
  PROVE  Good(v)
<1>1. /\ Made(v) /\ v.hist = w.hist /\ v.stage = w.stage /\ v.sent = w.sent
      /\ v.acked = w.acked /\ v.turn = w.turn /\ v.resizes = w.resizes /\ v.phase = w.phase
      /\ v.target = w.target /\ v.received = w.received /\ v.applied = w.applied
      /\ v.queue = w.queue /\ v.count = w.count /\ v.bounds = w.bounds
      /\ v.flight = w.flight /\ v.failed = w.failed /\ v.geometry = w.geometry
      /\ v.engine = w.engine
  BY DEF Kept
<1>2. w.fence.set /\ v.fence # NoFence
  <2>1. w.fence.set
    BY DEF Good, Lanes, LanesOf
  <2> QED BY <2>1, FenceTypes
<1>3. Bound(v) <=> Bound(w)
  BY <1>1 DEF Bound
<1>4. Typed(v)
  BY <1>1 DEF Good, Typed
<1>5. Lanes(v)
  BY <1>1, <1>2, <1>3 DEF Good, Lanes, LanesOf
<1>6. Stages(v) /\ Placed(v) /\ Parsing(v.engine) /\ Bounded(v.bounds, v.turn, v.sent)
  BY <1>1, Zenon DEF Good, Stages, Placed
<1>7. Written(v)
  <2>1. WrittenOf(w.engine, w.flight, w.queue, w.count, w.fence, Bound(w))
    BY DEF Good, Written
  <2>2. WrittenOf(w.engine, w.flight, w.queue, w.count, v.fence, Bound(w))
    BY <1>2, <2>1, Zenon DEF WrittenOf
  <2>3. WrittenOf(w.engine, w.flight, w.queue, w.count, v.fence, Bound(v))
    BY <1>3, <2>2, Zenon DEF WrittenOf
  <2> QED BY <1>1, <2>3, Zenon DEF Written
<1>8. Gridded(v)
  <2>1. ASSUME Bound(w), ~w.engine.failed
        PROVE  GriddedOf(LastOf(w.engine), v.fence, w.resizes, w.queue, w.count)
    <3>1. GriddedOf(LastOf(w.engine), w.fence, w.resizes, w.queue, w.count)
      BY <2>1 DEF Good, Gridded
    <3> QED BY <1>2, <3>1, Zenon DEF GriddedOf
  <2> QED BY <1>1, <1>3, <2>1 DEF Gridded
<1> QED BY <1>4, <1>5, <1>6, <1>7, <1>8 DEF Good

\* The grid of the fence goes to the worker, which has nothing else to do.
LEMMA GoodPosted ==
  ASSUME NEW w, Good(w), w.fence # NoFence, w.flight = NoFlight, ~w.fence.posted,
         w.fence.end <= w.count, ~w.engine.failed => w.engine.lane = <<>>,
         NEW v, Kept(w, v, {"fence", "engine"}), v.fence = [w.fence EXCEPT !.posted = TRUE],
         v.engine = IF w.engine.failed THEN w.engine
                    ELSE [w.engine EXCEPT !.lane = <<GridAsk(FALSE, w.fence.grid)>>]
  PROVE  Good(v)
<1>1. /\ Made(v) /\ v.hist = w.hist /\ v.stage = w.stage /\ v.sent = w.sent
      /\ v.acked = w.acked /\ v.turn = w.turn /\ v.resizes = w.resizes /\ v.phase = w.phase
      /\ v.target = w.target /\ v.received = w.received /\ v.applied = w.applied
      /\ v.queue = w.queue /\ v.count = w.count /\ v.bounds = w.bounds
      /\ v.flight = w.flight /\ v.failed = w.failed /\ v.geometry = w.geometry
  BY DEF Kept
<1>2. PICK f : f = v.fence
  OBVIOUS
<1>3. /\ w.fence \in Fence /\ w.fence.set /\ w.fence.grid \in Nat
  BY GoodTypes, FenceTypes DEF Good, Lanes, LanesOf
<1>4. /\ f \in Fence /\ f.set /\ f.end = w.fence.end /\ f.grid = w.fence.grid
      /\ f.later = w.fence.later /\ f.posted = TRUE
  BY <1>2, <1>3, FencePosted
<1>5. f # NoFence
  BY <1>4, FenceTypes
<1>6. PICK e : e = v.engine
  OBVIOUS
<1>7. /\ WorkerMade(e) /\ e.failed = w.engine.failed /\ e.base = w.engine.base
      /\ e.screen = w.engine.screen /\ e.grid = w.engine.grid
      /\ e.failed => e.lane = <<>>
      /\ ~e.failed => e.lane = <<GridAsk(FALSE, w.fence.grid)>>
  <2>1. WorkerMade(w.engine) /\ (w.engine.failed => w.engine.lane = <<>>)
    BY GoodTypes DEF Good, Lanes, LanesOf
  <2>2. CASE w.engine.failed
    BY <1>6, <2>1, <2>2
  <2>3. CASE ~w.engine.failed
    <3>1. e = [w.engine EXCEPT !.lane = <<GridAsk(FALSE, w.fence.grid)>>]
      BY <1>6, <2>3
    <3> QED BY <2>1, <2>3, <3>1 DEF WorkerMade
  <2> QED BY <2>2, <2>3
<1>8. ~e.failed => /\ IsGrid(e.lane) /\ e.lane[1].old = FALSE
                   /\ e.lane[1].grid = w.fence.grid /\ Len(e.lane) = 1
  <2>1. ASSUME ~e.failed
        PROVE  /\ IsGrid(e.lane) /\ e.lane[1].old = FALSE
               /\ e.lane[1].grid = w.fence.grid /\ Len(e.lane) = 1
    <3>1. e.lane = <<GridAsk(FALSE, w.fence.grid)>>
      BY <1>7, <2>1
    <3>2. IsGrid(e.lane)
      BY <1>3, <3>1 DEF IsGrid
    <3>3. e.lane[1].old = FALSE /\ e.lane[1].grid = w.fence.grid /\ Len(e.lane) = 1
      BY <3>1 DEF GridAsk
    <3> QED BY <3>2, <3>3
  <2> QED BY <2>1
<1>9. /\ ~IsWrite(e.lane) /\ ~IsRestore(e.lane) /\ Lane(e.lane)
      /\ ~LaneAsks(e.lane, "restore") /\ (~e.failed => LaneAsks(e.lane, "grid"))
  BY <1>7, <1>8, GridFacts, EmptyFacts DEF Lane
<1>10. Typed(v)
  BY <1>1, <1>2, <1>4, <1>6, <1>7 DEF Good, Typed
<1>11. Lanes(v)
  BY <1>1, <1>2, <1>4, <1>5, <1>6, <1>7, <1>8, <1>9 DEF Lanes, LanesOf
<1>12. Stages(v) /\ Parsing(v.engine) /\ Bounded(v.bounds, v.turn, v.sent)
  BY <1>1, <1>6, <1>7, ZenonT(60) DEF Good, Stages, Parsing
<1>13. Written(v)
  BY <1>6, <1>9, Zenon DEF Written, WrittenOf
<1>14. Placed(v)
  <2>1. ~w.engine.failed => ~LaneAsks(w.engine.lane, "restore")
    BY EmptyFacts
  <2> QED BY <1>1, <1>6, <1>7, <1>9, <2>1 DEF Good, Placed, PlacedOf, FromOf
<1>15. Gridded(v)
  <2>1. ASSUME Bound(w), ~w.engine.failed
        PROVE  GriddedOf(LastOf(e), f, w.resizes, w.queue, w.count)
    <3>1. LastOf(e) = w.fence.grid
      BY <1>7, <1>8, <1>9, <2>1 DEF LastOf
    <3>2. GriddedOf(LastOf(w.engine), w.fence, w.resizes, w.queue, w.count)
      BY <2>1 DEF Good, Gridded
    <3> QED BY <1>3, <1>4, <1>5, <3>1, <3>2 DEF GriddedOf
  <2>2. Bound(v) <=> Bound(w)
    BY <1>1 DEF Bound
  <2> QED BY <1>1, <1>2, <1>6, <1>7, <2>1, <2>2 DEF Gridded
<1> QED BY <1>10, <1>11, <1>12, <1>13, <1>14, <1>15 DEF Good

\* applyFence goes on after the drain it waited for.
LEMMA GoodFenceGoesOn ==
  ASSUME NEW w, Good(w),
         w.fence # NoFence /\ ~w.fence.posted /\ w.flight = NoFlight /\ ~w.engine.failed
             => ~LaneAsks(w.engine.lane, "grid")
  PROVE  Good(FenceGoesOn(w))
<1> DEFINE v == FenceGoesOn(w)
<1>1. CASE w.fence = NoFence \/ w.flight # NoFlight \/ ~w.fence.busy \/ w.fence.posted
  BY <1>1, Zenon DEF FenceGoesOn
<1>2. CASE ~(w.fence = NoFence \/ w.flight # NoFlight \/ ~w.fence.busy \/ w.fence.posted)
  <2>0. Made(w) /\ w.fence \in Fence /\ w.fence.end \in Nat /\ w.count \in Nat
    BY GoodTypes, FenceTypes
  <2>1. CASE w.fence.end > w.count
    <3>1. v = [w EXCEPT !.fence.busy = FALSE, !.fenceTask = TRUE]
      BY <1>2, <2>1, Zenon DEF FenceGoesOn
    <3>2. Kept(w, v, {"fence"}) /\ v.fence = [w.fence EXCEPT !.busy = FALSE]
      <4> HIDE DEF v
      <4> QED BY <2>0, <3>1 DEF Made, Fields, Kept
    <3> HIDE DEF v
    <3>4. /\ v.fence \in Fence /\ v.fence.set = w.fence.set /\ v.fence.end = w.fence.end
          /\ v.fence.grid = w.fence.grid /\ v.fence.later = w.fence.later
          /\ v.fence.posted = w.fence.posted
      BY <2>0, <3>2 DEF Fence
    <3>3. Good(v)
      BY <1>2, <3>2, <3>4, GoodFence
    <3> QED BY <3>3 DEF v
  <2>2. CASE ~(w.fence.end > w.count)
    <3>1. ~w.engine.failed => w.engine.lane = <<>>
      <4>1. Lane(w.engine.lane) /\ ~IsWrite(w.engine.lane)
        BY <1>2 DEF Good, Lanes, LanesOf
      <4>2. ~w.engine.failed => ~LaneAsks(w.engine.lane, "grid")
        BY <1>2
      <4> QED BY <4>1, <4>2, GridFacts, RestoreFacts DEF Lane
    <3>2. PICK u : u = [w EXCEPT !.fence.posted = TRUE]
      OBVIOUS
    <3>3. Kept(w, u, {"fence"}) /\ u.fence = [w.fence EXCEPT !.posted = TRUE]
      BY <2>0, <3>2 DEF Made, Fields, Kept
    <3>4. v = IF w.engine.failed THEN u
              ELSE Ask(u, [op |-> "grid", old |-> FALSE, grid |-> w.fence.grid])
      BY <1>2, <2>2, <3>2, Zenon DEF FenceGoesOn
    <3>5. /\ Kept(u, v, {"engine"})
          /\ w.engine.failed => v.engine = u.engine
          /\ ~w.engine.failed =>
                v.engine = [u.engine EXCEPT !.lane =
                               Append(u.engine.lane, GridAsk(FALSE, w.fence.grid))]
      <4>1. Made(u)
        BY <3>3 DEF Kept
      <4>2. CASE w.engine.failed
        <5> HIDE DEF v
        <5> QED BY <3>4, <4>1, <4>2 DEF Kept
      <4>3. CASE ~w.engine.failed
        <5>1. PICK r : r = GridAsk(FALSE, w.fence.grid)
          OBVIOUS
        <5>2. v = Ask(u, r)
          BY <3>4, <4>3, <5>1, Zenon DEF GridAsk
        <5> HIDE DEF v
        <5>3. Kept(u, v, {"engine"}) /\ v.engine = [u.engine EXCEPT !.lane = Append(u.engine.lane, r)]
          BY <4>1, <5>2 DEF Ask, Made, Fields, Kept
        <5> QED BY <4>3, <5>1, <5>3
      <4> QED BY <4>2, <4>3
    <3> HIDE DEF v
    <3>6. u.engine = w.engine
      BY <3>3 DEF Kept
    <3>7. Kept(w, v, {"fence", "engine"}) /\ v.fence = [w.fence EXCEPT !.posted = TRUE]
      BY <3>3, <3>5 DEF Kept
    <3>8. v.engine = IF w.engine.failed THEN w.engine
                     ELSE [w.engine EXCEPT !.lane = <<GridAsk(FALSE, w.fence.grid)>>]
      <4>1. CASE w.engine.failed
        BY <3>5, <3>6, <4>1
      <4>2. CASE ~w.engine.failed
        <5>1. Append(w.engine.lane, GridAsk(FALSE, w.fence.grid))
              = <<GridAsk(FALSE, w.fence.grid)>>
          <6>1. w.engine.lane = <<>>
            BY <3>1, <4>2
          <6>2. \A r : Append(<<>>, r) = <<r>>
            OBVIOUS
          <6> QED BY <6>1, <6>2, Zenon
        <5> QED BY <3>5, <3>6, <4>2, <5>1
      <4> QED BY <4>1, <4>2
    <3>9. w.fence.end <= w.count
      BY <2>0, <2>2
    <3>10. Good(v)
      BY <1>2, <3>1, <3>7, <3>8, <3>9, GoodPosted
    <3> QED BY <3>10 DEF v
  <2> QED BY <2>1, <2>2
<1> QED BY <1>1, <1>2

-----------------------------------------------------------------------------
\* The answers of the worker.

\* A byte of a grid before the fence's and not before the one below it.
LEMMA OneBelow ==
  ASSUME NEW g \in Nat, NEW f \in Nat, NEW e \in Nat, f = e + 1, f <= g + 1, g < f
  PROVE  g = e
OBVIOUS

\* The drain of a fence takes no more than what was printed before it.
LEMMA GoodFenceDrain ==
  ASSUME NEW w, Good(w), w.fence # NoFence, ~LaneAsks(w.engine.lane, "grid"),
         NEW v \in FenceDrain(w)
  PROVE  Good(v) /\ ~LaneAsks(v.engine.lane, "grid")
<1>0. /\ Made(w) /\ w.fence \in Fence /\ w.fence.end \in Nat /\ w.count \in Nat
      /\ w.fence.grid \in Nat /\ w.queue \in Seq(Byte) /\ w.engine.grid \in Nat
  BY GoodTypes, FenceTypes
<1>1. CASE w.fence.end <= w.count \/ w.failed
  <2>1. v = w
    BY <1>1, Zenon DEF FenceDrain
  <2> QED BY <2>1
<1>2. CASE ~(w.fence.end <= w.count \/ w.failed)
  <2>1. PICK u : u = [w EXCEPT !.scheduled = FALSE]
    OBVIOUS
  <2>2. Kept(w, u, {}) /\ Good(u)
    BY <1>0, <2>1, KeptFlush, GoodKept
  <2>3. PICK x : x = [u EXCEPT !.batch = "none"]
    OBVIOUS
  <2>4. Made(u)
    BY <2>2 DEF Kept
  <2>5. Kept(u, x, {})
    BY <2>3, <2>4 DEF Made, Fields, Kept
  <2>6. Good(x) /\ Kept(w, x, {})
    BY <2>2, <2>5, GoodKept DEF Kept
  <2>7. u.engine = w.engine /\ x.engine = w.engine /\ x.queue = w.queue /\ x.count = w.count
        /\ x.fence = w.fence /\ u.flight = w.flight /\ x.flight = w.flight
        /\ x.resizes = w.resizes
    BY <2>2, <2>6 DEF Kept
  <2>8. CASE w.flight # NoFlight
    <3>1. v = u
      BY <1>2, <2>1, <2>7, <2>8, Zenon DEF FenceDrain
    <3> QED BY <2>2, <2>7, <3>1
  <2>9. CASE w.flight = NoFlight
    <3>1. v \in Drain(x, TRUE, w.fence.end - w.count)
      BY <1>2, <2>1, <2>3, <2>7, <2>9, Zenon DEF FenceDrain
    <3>2. PICK left : left = w.fence.end - w.count
      OBVIOUS
    <3>3. left \in Nat /\ left > 0 /\ w.count + left = w.fence.end
      BY <1>0, <1>2, <3>2
    <3>4. ASSUME x.queue # <<>>, FreshBytes(x.queue), ~x.engine.failed
          PROVE  /\ left \in 1..Len(x.queue)
                 /\ \A i \in 1..left : x.queue[i].grid = x.engine.grid
                 /\ ~w.fence.posted
      <4>1. Bound(x)
        BY <3>4 DEF Bound, BoundTo
      <4>2. LastOf(x.engine) = w.engine.grid
        BY <2>7 DEF LastOf
      <4>3. GriddedOf(w.engine.grid, w.fence, w.resizes, w.queue, w.count)
        BY <2>6, <2>7, <3>4, <4>1, <4>2 DEF Good, Gridded
      <4>4. /\ Len(w.queue) \in Nat /\ DOMAIN w.queue = 1..Len(w.queue)
            /\ \A i \in 1..Len(w.queue) : w.queue[i].grid \in Nat
        BY <1>0, QueueFacts
      <4>5. ~w.fence.posted /\ w.fence.grid = w.engine.grid + 1
            /\ w.fence.end <= w.count + Len(w.queue)
        BY <1>0, <1>2, <4>3 DEF GriddedOf
      <4>6. left \in 1..Len(w.queue)
        BY <1>0, <3>3, <4>4, <4>5
      <4>7. ASSUME NEW i \in 1..left PROVE w.queue[i].grid = w.engine.grid
        <5>1. i \in 1..Len(w.queue) /\ i \in Nat /\ i <= left /\ w.count + i <= w.fence.end
          BY <1>0, <3>3, <4>4, <4>6
        <5>2. w.fence.grid <= w.queue[i].grid + 1 /\ w.queue[i].grid < w.fence.grid
          BY <4>3, <4>4, <5>1 DEF GriddedOf
        <5>3. w.queue[i].grid \in Nat /\ w.fence.grid \in Nat /\ w.engine.grid \in Nat
          BY <1>0, <4>4, <5>1
        <5> QED BY <4>5, <5>2, <5>3, OneBelow
      <4> QED BY <2>7, <4>5, <4>6, <4>7
    <3>5. x.flight = NoFlight /\ ~LaneAsks(x.engine.lane, "grid") /\ x.fence # NoFence
          /\ x.count + left = x.fence.end /\ x.fence = w.fence
      BY <2>7, <2>9, <3>3
    <3>6. v \in Drain(x, TRUE, left)
      BY <3>1, <3>2
    <3> QED BY <2>6, <3>3, <3>4, <3>5, <3>6, GoodDrain
  <2> QED BY <2>8, <2>9
<1> QED BY <1>1, <1>2

\* applyFence keeps the invariant.
LEMMA GoodFencePump ==
  ASSUME Good(pane), FencePump
  PROVE  Good(pane')
<1>1. PICK w : w = [pane EXCEPT !.fenceTask = FALSE]
  OBVIOUS
<1>2. Made(pane)
  BY GoodTypes
<1>3. Kept(pane, w, {})
  BY <1>1, <1>2 DEF Made, Fields, Kept
<1>4. Good(w) /\ Made(w) /\ w.fence = pane.fence /\ w.engine = pane.engine
  BY <1>3, GoodKept DEF Kept
<1>5. CASE pane.fence = NoFence \/ pane.broken \/ pane.fence.busy
  BY <1>1, <1>4, <1>5, Zenon DEF FencePump
<1>6. CASE ~(pane.fence = NoFence \/ pane.broken \/ pane.fence.busy)
  <2>1. PICK v \in FenceDrain([w EXCEPT !.fence.busy = TRUE]) : pane' = FenceGoesOn(v)
    BY <1>1, <1>6, Zenon DEF FencePump
  <2>2. PICK u : u = [w EXCEPT !.fence.busy = TRUE]
    OBVIOUS
  <2>3. Kept(w, u, {"fence"}) /\ u.fence = [w.fence EXCEPT !.busy = TRUE]
    BY <1>4, <2>2 DEF Made, Fields, Kept
  <2>4. w.fence \in Fence /\ w.fence # NoFence /\ w.fence.set
    BY <1>4, <1>6, GoodTypes DEF Good, Lanes, LanesOf
  <2>5. /\ u.fence \in Fence /\ u.fence.set = w.fence.set /\ u.fence.end = w.fence.end
        /\ u.fence.grid = w.fence.grid /\ u.fence.later = w.fence.later
        /\ u.fence.posted = w.fence.posted
    BY <2>3, <2>4 DEF Fence
  <2>6. Good(u) /\ u.fence # NoFence /\ u.engine = w.engine
    <3>1. Good(u)
      BY <1>4, <2>3, <2>4, <2>5, GoodFence
    <3>2. u.engine = w.engine
      BY <2>3 DEF Kept
    <3> QED BY <2>4, <2>5, <3>1, <3>2, FenceTypes
  <2>7. ~LaneAsks(u.engine.lane, "grid")
    BY <1>4, <1>6, <2>6 DEF FencePump, Asked, LaneAsks
  <2>8. Good(v) /\ ~LaneAsks(v.engine.lane, "grid")
    BY <2>1, <2>2, <2>6, <2>7, GoodFenceDrain
  <2> QED BY <2>1, <2>8, GoodFenceGoesOn
<1> QED BY <1>5, <1>6

\* The worker took the grid it was asked for, and has nothing left to do.
LEMMA GoodGrid ==
  ASSUME NEW w, Good(w), IsGrid(w.engine.lane),
         NEW v, v = [Answered(w) EXCEPT !.engine.grid = w.engine.lane[1].grid]
  PROVE  Good(v) /\ v.engine.lane = <<>> /\ Kept(w, v, {"engine"})
<1>0. Made(w) /\ WorkerMade(w.engine) /\ Tail(w.engine.lane) = <<>>
      /\ w.engine.lane[1].grid \in Nat /\ Len(w.engine.lane) = 1
  BY GoodTypes, GridFacts
<1>1. Kept(w, v, {"engine"})
      /\ v.engine = [[w.engine EXCEPT !.lane = Tail(w.engine.lane)]
                        EXCEPT !.grid = w.engine.lane[1].grid]
  BY <1>0 DEF Answered, Made, Fields, Kept
<1>2. /\ WorkerMade(v.engine) /\ v.engine.lane = <<>> /\ v.engine.failed = w.engine.failed
      /\ v.engine.base = w.engine.base /\ v.engine.screen = w.engine.screen
      /\ v.engine.grid = w.engine.lane[1].grid
  <2>1. PICK e : e = [w.engine EXCEPT !.lane = Tail(w.engine.lane)]
    OBVIOUS
  <2>2. /\ WorkerMade(e) /\ e.lane = <<>> /\ e.failed = w.engine.failed
        /\ e.base = w.engine.base /\ e.screen = w.engine.screen
    BY <1>0, <2>1 DEF WorkerMade
  <2>3. PICK g : g = w.engine.lane[1].grid
    OBVIOUS
  <2>4. v.engine = [e EXCEPT !.grid = g]
    BY <1>1, <2>1, <2>3
  <2>5. /\ WorkerMade(v.engine) /\ v.engine.lane = e.lane /\ v.engine.failed = e.failed
        /\ v.engine.base = e.base /\ v.engine.screen = e.screen /\ v.engine.grid = g
    BY <2>2, <2>4 DEF WorkerMade
  <2> QED BY <2>2, <2>3, <2>5
<1>3. /\ Made(v) /\ v.hist = w.hist /\ v.stage = w.stage /\ v.sent = w.sent
      /\ v.acked = w.acked /\ v.turn = w.turn /\ v.resizes = w.resizes /\ v.phase = w.phase
      /\ v.target = w.target /\ v.received = w.received /\ v.applied = w.applied
      /\ v.queue = w.queue /\ v.count = w.count /\ v.bounds = w.bounds
      /\ v.flight = w.flight /\ v.failed = w.failed /\ v.geometry = w.geometry
      /\ v.fence = w.fence
  BY <1>1 DEF Kept
<1>4. /\ ~IsWrite(w.engine.lane) /\ ~IsRestore(w.engine.lane)
      /\ LaneAsks(w.engine.lane, "grid") /\ ~LaneAsks(w.engine.lane, "restore")
  BY GridFacts
<1>5. Lane(<<>>) /\ ~LaneAsks(<<>>, "grid") /\ ~LaneAsks(<<>>, "restore") /\ ~IsWrite(<<>>)
      /\ ~IsRestore(<<>>)
  BY EmptyFacts DEF Lane
<1>6. Typed(v)
  BY <1>0, <1>2, <1>3 DEF Good, Typed
<1>7. Lanes(v)
  BY <1>2, <1>3, <1>4, <1>5 DEF Good, Lanes, LanesOf
<1>8. Stages(v) /\ Parsing(v.engine) /\ Bounded(v.bounds, v.turn, v.sent)
  BY <1>2, <1>3, ZenonT(60) DEF Good, Stages, Parsing
<1>9. Written(v)
  BY <1>2, <1>5, Zenon DEF Written, WrittenOf
<1>10. Placed(v)
  BY <1>2, <1>3, <1>4, <1>5 DEF Good, Placed, PlacedOf, FromOf
<1>11. Gridded(v)
  <2>1. LastOf(v.engine) = LastOf(w.engine)
    BY <1>0, <1>2, <1>4, <1>5 DEF LastOf
  <2>2. Bound(v) <=> Bound(w)
    BY <1>3 DEF Bound
  <2> QED BY <1>2, <1>3, <2>1, <2>2 DEF Good, Gridded
<1>12. Good(v)
  BY <1>6, <1>7, <1>8, <1>9, <1>10, <1>11 DEF Good
<1> QED BY <1>1, <1>2, <1>12

\* The geometry of a replay is in place.
LEMMA GoodGeometry ==
  ASSUME NEW w, Good(w), w.engine.lane = <<>>,
         NEW v, v = [w EXCEPT !.geometry = FALSE]
  PROVE  Good(v)
<1>1. Made(w)
  BY GoodTypes
<1>2. Kept(w, v, {"geometry"}) /\ v.geometry = FALSE
  BY <1>1 DEF Made, Fields, Kept
<1>3. /\ Made(v) /\ v.hist = w.hist /\ v.stage = w.stage /\ v.sent = w.sent
      /\ v.acked = w.acked /\ v.turn = w.turn /\ v.resizes = w.resizes /\ v.phase = w.phase
      /\ v.target = w.target /\ v.received = w.received /\ v.applied = w.applied
      /\ v.queue = w.queue /\ v.count = w.count /\ v.bounds = w.bounds
      /\ v.flight = w.flight /\ v.failed = w.failed
      /\ v.fence = w.fence /\ v.engine = w.engine
  BY <1>2 DEF Kept
<1>4. Typed(v)
  BY <1>2, <1>3 DEF Good, Typed
<1>5. Lanes(v)
  BY <1>3, EmptyFacts DEF Good, Lanes, LanesOf, Bound
<1>6. Stages(v) /\ Written(v) /\ Parsing(v.engine) /\ Placed(v)
      /\ Bounded(v.bounds, v.turn, v.sent) /\ Gridded(v)
  BY <1>3, Zenon DEF Good, Stages, Written, Placed, Gridded, Bound
<1> QED BY <1>4, <1>5, <1>6 DEF Good

-----------------------------------------------------------------------------
\* The next fence.

\* An entry beyond the end of a fence was printed for its grid or a later one.
LEMMA AtFence ==
  ASSUME NEW c \in Nat, NEW i \in Nat, NEW e \in Nat, NEW g \in Nat, NEW f \in Nat, NEW r \in Nat,
         1 <= i, e <= c, c + i <= e <=> g < f, g <= r
  PROVE  f <= g /\ (r = f => g = r)
OBVIOUS

\* A fence that is over: the bytes left behind it are on its grid.
LEMMA FenceOver ==
  ASSUME NEW f \in Fence, f # NoFence, f.posted, NEW last \in Nat, NEW r \in Nat,
         NEW q \in Seq(Byte), NEW c \in Nat, GriddedOf(last, f, r, q, c)
  PROVE  /\ f.grid = last /\ f.end <= c /\ r = last + Len(f.later)
         /\ \A i \in 1..Len(q) : f.grid <= q[i].grid /\ q[i].grid <= r
<1>1. /\ f.grid \in Nat /\ f.end \in Nat /\ Len(f.later) \in Nat
      /\ Len(q) \in Nat /\ DOMAIN q = 1..Len(q) /\ \A i \in 1..Len(q) : q[i].grid \in Nat
  BY FenceTypes, QueueFacts
<1>2. /\ f.grid = last /\ f.end <= c /\ r = f.grid + Len(f.later)
  BY <1>1 DEF GriddedOf
<1>3. ASSUME NEW i \in 1..Len(q)
      PROVE  f.grid <= q[i].grid /\ q[i].grid <= r
  <2>1. (c + i <= f.end <=> q[i].grid < f.grid) /\ q[i].grid <= r
    BY <1>1 DEF GriddedOf
  <2>2. i \in Nat /\ 1 <= i /\ q[i].grid \in Nat
    BY <1>1
  <2> QED BY <1>1, <1>2, <2>1, <2>2, AtFence
<1> QED BY <1>2, <1>3

\* The last fence leaves a queue of one grid.
LEMMA GriddedFree ==
  ASSUME NEW f \in Fence, f # NoFence, f.posted, f.later = <<>>, NEW last \in Nat,
         NEW r \in Nat, NEW q \in Seq(Byte), NEW c \in Nat, GriddedOf(last, f, r, q, c)
  PROVE  GriddedOf(last, NoFence, r, q, c)
<1>1. /\ f.grid = last /\ r = last + Len(f.later)
      /\ \A i \in 1..Len(q) : f.grid <= q[i].grid /\ q[i].grid <= r
  BY FenceOver
<1>2. r = last
  BY <1>1
<1>3. DOMAIN q = 1..Len(q) /\ \A i \in 1..Len(q) : q[i].grid \in Nat
  BY QueueFacts
<1>4. \A i \in 1..Len(q) : q[i].grid = r
  BY <1>1, <1>2, <1>3
<1> QED BY <1>2, <1>3, <1>4 DEF GriddedOf

\* A new fence, field by field.
LEMMA NewFenceFacts ==
  ASSUME NEW h \in Change, NEW t \in Seq(Change)
  PROVE  LET g == NewFence(h, t) IN
         /\ g.set = TRUE /\ g.end = h.end /\ g.grid = h.grid /\ g.later = t
         /\ g.busy = FALSE /\ g.posted = FALSE
         /\ g = [set |-> TRUE, end |-> h.end, grid |-> h.grid, later |-> t,
                 busy |-> FALSE, posted |-> FALSE]
<1>1. PICK e, gr, s : e = h.end /\ gr = h.grid /\ s = TRUE
  OBVIOUS
<1>2. [NoFence EXCEPT !.set = s, !.end = e, !.grid = gr, !.later = t]
      = [set |-> s, end |-> e, grid |-> gr, later |-> t, busy |-> FALSE, posted |-> FALSE]
  <2>1. PICK m, z, y, x : m = <<>> /\ z = 0 /\ y = FALSE /\ x = FALSE
    OBVIOUS
  <2>2. NoFence = [set |-> x, end |-> z, grid |-> z, later |-> m, busy |-> y, posted |-> y]
    BY <2>1, Zenon DEF NoFence
  <2>3. PICK a : a = [NoFence EXCEPT !.set = s]
    BY Zenon
  <2>4. a = [set |-> s, end |-> z, grid |-> z, later |-> m, busy |-> y, posted |-> y]
    BY <2>2, <2>3
  <2>5. PICK b : b = [a EXCEPT !.end = e]
    BY Zenon
  <2>6. b = [set |-> s, end |-> e, grid |-> z, later |-> m, busy |-> y, posted |-> y]
    BY <2>4, <2>5
  <2>7. PICK c : c = [b EXCEPT !.grid = gr]
    BY Zenon
  <2>8. c = [set |-> s, end |-> e, grid |-> gr, later |-> m, busy |-> y, posted |-> y]
    BY <2>6, <2>7
  <2>9. [c EXCEPT !.later = t]
        = [set |-> s, end |-> e, grid |-> gr, later |-> t, busy |-> y, posted |-> y]
    BY <2>8
  <2>10. [NoFence EXCEPT !.set = s, !.end = e, !.grid = gr, !.later = t] = [c EXCEPT !.later = t]
    BY <2>3, <2>5, <2>7, Zenon
  <2> QED BY <2>1, <2>9, <2>10, Zenon
<1>3. NewFence(h, t) = [set |-> s, end |-> e, grid |-> gr, later |-> t,
                        busy |-> FALSE, posted |-> FALSE]
  BY <1>1, <1>2, Zenon DEF NewFence
<1> QED BY <1>1, <1>3

\* A new fence is a fence, and set.
LEMMA NewFenceTyped ==
  ASSUME NEW h \in Change, NEW t \in Seq(Change)
  PROVE  LET g == NewFence(h, t) IN
         /\ g \in Fence /\ g # NoFence
         /\ g.set /\ g.end = h.end /\ g.grid = h.grid /\ g.later = t /\ ~g.posted
<1> DEFINE g == NewFence(h, t)
<1>1. /\ g = [set |-> TRUE, end |-> h.end, grid |-> h.grid, later |-> t,
              busy |-> FALSE, posted |-> FALSE]
      /\ g.set = TRUE /\ g.end = h.end /\ g.grid = h.grid /\ g.later = t /\ g.posted = FALSE
  BY NewFenceFacts
<1> HIDE DEF g
<1>2. g \in Fence
  BY <1>1 DEF Fence, Change
<1>3. g # NoFence
  BY <1>1, <1>2, FenceTypes
<1> QED BY <1>1, <1>2, <1>3 DEF g

\* The first of the resizes that wait, and the others.
LEMMA LaterFacts ==
  ASSUME NEW l \in Seq(Change), l # <<>>
  PROVE  /\ Head(l) = l[1] /\ l[1] \in Change /\ Tail(l) \in Seq(Change)
         /\ Len(l) \in Nat /\ Len(l) >= 1 /\ Len(Tail(l)) = Len(l) - 1
         /\ DOMAIN Tail(l) = 1..(Len(l) - 1) /\ DOMAIN l = 1..Len(l)
         /\ \A j \in 1..(Len(l) - 1) : Tail(l)[j] = l[j + 1]
<1>1. Len(l) \in Nat /\ Len(l) >= 1 /\ DOMAIN l = 1..Len(l)
  BY LenProperties, EmptySeq
<1>2. l[1] \in Change
  BY <1>1, ElementOfSeq
<1> QED BY <1>1, <1>2

\* The next fence takes over.
LEMMA GriddedNext ==
  ASSUME NEW f \in Fence, f # NoFence, f.posted, f.later # <<>>, NEW last \in Nat,
         NEW r \in Nat, NEW q \in Seq(Byte), NEW c \in Nat, GriddedOf(last, f, r, q, c)
  PROVE  GriddedOf(last, NewFence(Head(f.later), Tail(f.later)), r, q, c)
<1> DEFINE l == f.later
           g == NewFence(Head(f.later), Tail(f.later))
<1>1. /\ f.grid = last /\ r = last + Len(l)
      /\ \A i \in 1..Len(q) : f.grid <= q[i].grid /\ q[i].grid <= r
  BY FenceOver
<1>2. /\ Head(l) = l[1] /\ l[1] \in Change /\ Tail(l) \in Seq(Change)
      /\ Len(l) \in Nat /\ Len(l) >= 1 /\ Len(Tail(l)) = Len(l) - 1
      /\ DOMAIN Tail(l) = 1..(Len(l) - 1) /\ DOMAIN l = 1..Len(l)
      /\ \A j \in 1..(Len(l) - 1) : Tail(l)[j] = l[j + 1]
  BY FenceTypes, LaterFacts
<1>3. /\ Len(q) \in Nat /\ DOMAIN q = 1..Len(q) /\ \A i \in 1..Len(q) : q[i].grid \in Nat
      /\ \A j \in 1..Len(l) : l[j].end \in Nat /\ l[j].grid \in Nat
  BY FenceTypes, QueueFacts
<1>4. \A j \in 1..Len(l) : /\ l[j].grid = last + j
                           /\ \A k \in 1..(j - 1) : l[k].end <= l[j].end
                           /\ l[j].end <= c + Len(q)
  BY <1>1, <1>2 DEF GriddedOf
<1>5. \A i \in 1..Len(q) : \A j \in 1..Len(l) : c + i <= l[j].end <=> q[i].grid < l[j].grid
  BY <1>2, <1>3 DEF GriddedOf
<1>6. /\ g # NoFence /\ g.end = l[1].end /\ g.grid = l[1].grid /\ g.later = Tail(l)
      /\ ~g.posted
  <2>1. PICK h, t : h = Head(l) /\ t = Tail(l)
    OBVIOUS
  <2>2. h \in Change /\ t \in Seq(Change) /\ h = l[1] /\ t = Tail(l) /\ g = NewFence(h, t)
    BY <1>2, <2>1
  <2> HIDE DEF g
  <2>3. /\ g.end = h.end /\ g.grid = h.grid /\ g.later = t /\ ~g.posted
    <3>1. LET x == NewFence(h, t) IN x.end = h.end /\ x.grid = h.grid /\ x.later = t
                                    /\ ~x.posted
      BY <2>2, NewFenceTyped
    <3> QED BY <2>2, <3>1, Zenon
  <2>4. g # NoFence
    BY <2>2, NewFenceTyped, Zenon
  <2> QED BY <2>2, <2>3, <2>4
<1> HIDE DEF g, l
<1>7. 1 \in 1..Len(l) /\ g.grid = last + 1 /\ g.end \in Nat /\ g.grid \in Nat
  BY <1>2, <1>3, <1>4, <1>6
<1>8. r = g.grid + Len(g.later) /\ g.end <= c + Len(q)
  BY <1>1, <1>2, <1>4, <1>6, <1>7
<1>9. ASSUME NEW j \in DOMAIN g.later
      PROVE  /\ g.later[j].grid = g.grid + j
             /\ g.end <= g.later[j].end
             /\ \A k \in 1..(j - 1) : g.later[k].end <= g.later[j].end
             /\ g.later[j].end <= c + Len(q)
  <2>1. /\ j \in 1..(Len(l) - 1) /\ j + 1 \in 1..Len(l) /\ g.later[j] = l[j + 1]
        /\ 1 \in 1..((j + 1) - 1)
    BY <1>2, <1>6
  <2>2. ASSUME NEW k \in 1..(j - 1) PROVE g.later[k].end <= g.later[j].end
    <3>0. k \in 1..(Len(l) - 1)
      <4>1. \A n \in Nat : j \in 1..(n - 1) /\ k \in 1..(j - 1) => k \in 1..(n - 1)
        OBVIOUS
      <4> QED BY <1>2, <2>1, <4>1, Zenon
    <3>1. k + 1 \in 1..((j + 1) - 1) /\ g.later[k] = l[k + 1]
      BY <1>2, <1>6, <2>1, <3>0
    <3> QED BY <1>4, <2>1, <3>1
  <2>3. g.later[j].grid = last + (j + 1) /\ l[1].end <= l[j + 1].end /\ l[j + 1].end <= c + Len(q)
    BY <1>4, <2>1
  <2>4. last + (j + 1) = (last + 1) + j
    BY <2>1
  <2> QED BY <1>6, <1>7, <2>1, <2>2, <2>3, <2>4
<1>10. ASSUME NEW i \in DOMAIN q
       PROVE  /\ g.grid <= q[i].grid + 1 /\ q[i].grid <= r
              /\ c + i <= g.end <=> q[i].grid < g.grid
              /\ \A j \in DOMAIN g.later :
                    c + i <= g.later[j].end <=> q[i].grid < g.later[j].grid
  <2>1. i \in 1..Len(q) /\ f.grid <= q[i].grid /\ q[i].grid <= r /\ q[i].grid \in Nat
    BY <1>1, <1>3
  <2>2. g.grid <= q[i].grid + 1
    <3>1. f.grid \in Nat /\ f.grid = last
      BY <1>1, FenceTypes
    <3>2. \A a, b, x, d \in Nat : a = b + 1 /\ x <= d /\ x = b => a <= d + 1
      OBVIOUS
    <3> QED BY <1>7, <2>1, <3>1, <3>2, Zenon
  <2>3. c + i <= g.end <=> q[i].grid < g.grid
    BY <1>5, <1>6, <1>7, <2>1
  <2>4. ASSUME NEW j \in DOMAIN g.later
        PROVE  c + i <= g.later[j].end <=> q[i].grid < g.later[j].grid
    <3>1. j + 1 \in 1..Len(l) /\ g.later[j] = l[j + 1]
      BY <1>2, <1>6
    <3> QED BY <1>5, <2>1, <3>1
  <2> QED BY <2>1, <2>2, <2>3, <2>4
<1>11. GriddedOf(last, g, r, q, c)
  BY <1>6, <1>7, <1>8, <1>9, <1>10 DEF GriddedOf
<1> QED BY <1>11 DEF g

\* The next fence keeps the invariant.
LEMMA GoodNextFence ==
  ASSUME NEW w, Good(w), w.engine.lane = <<>>, ~w.engine.failed,
         w.fence # NoFence, w.fence.posted
  PROVE  Good(NextFence(w))
<1>0. /\ Made(w) /\ w.fence \in Fence /\ w.engine.grid \in Nat /\ w.resizes \in Nat
      /\ w.queue \in Seq(Byte) /\ w.count \in Nat /\ w.fence.later \in Seq(Change)
  BY GoodTypes, FenceTypes
<1>1. ASSUME NEW f \in Fence, f # NoFence => f.set,
             NEW v, Kept(w, v, {"fence"}), v.fence = f,
             \A last \in Nat : GriddedOf(last, w.fence, w.resizes, w.queue, w.count)
                               => GriddedOf(last, f, w.resizes, w.queue, w.count)
      PROVE  Good(v)
  <2>1. /\ Made(v) /\ v.hist = w.hist /\ v.stage = w.stage /\ v.sent = w.sent
        /\ v.acked = w.acked /\ v.turn = w.turn /\ v.resizes = w.resizes /\ v.phase = w.phase
        /\ v.target = w.target /\ v.received = w.received /\ v.applied = w.applied
        /\ v.queue = w.queue /\ v.count = w.count /\ v.bounds = w.bounds
        /\ v.flight = w.flight /\ v.failed = w.failed /\ v.geometry = w.geometry
        /\ v.engine = w.engine
    BY <1>1 DEF Kept
  <2>2. Typed(v)
    BY <1>1, <2>1 DEF Good, Typed
  <2>3. Lanes(v)
    BY <1>1, <2>1, EmptyFacts DEF Good, Lanes, LanesOf
  <2>4. Stages(v) /\ Placed(v) /\ Parsing(v.engine) /\ Bounded(v.bounds, v.turn, v.sent)
    BY <2>1, Zenon DEF Good, Stages, Placed
  <2>5. Written(v)
    BY <2>1, EmptyFacts DEF Written, WrittenOf
  <2>6. Gridded(v)
    <3>1. LastOf(w.engine) = w.engine.grid
      BY EmptyFacts DEF LastOf
    <3>2. Bound(v) <=> Bound(w)
      BY <2>1 DEF Bound
    <3> QED BY <1>0, <1>1, <2>1, <3>1, <3>2 DEF Good, Gridded
  <2> QED BY <2>2, <2>3, <2>4, <2>5, <2>6 DEF Good
<1>2. CASE w.fence.later = <<>>
  <2>1. PICK u : u = [w EXCEPT !.fence = NoFence]
    OBVIOUS
  <2>2. Kept(w, u, {"fence"}) /\ u.fence = NoFence
    BY <1>0, <2>1 DEF Made, Fields, Kept
  <2>3. NoFence \in Fence
    <3>1. <<>> \in Seq(Change)
      OBVIOUS
    <3> QED BY <3>1 DEF NoFence, Fence
  <2>4. \A last \in Nat : GriddedOf(last, w.fence, w.resizes, w.queue, w.count)
                          => GriddedOf(last, NoFence, w.resizes, w.queue, w.count)
    BY <1>0, <1>2, GriddedFree
  <2>5. Good(u)
    BY <1>1, <2>2, <2>3, <2>4
  <2> QED BY <1>2, <2>1, <2>5, GoodReschedule DEF NextFence
<1>3. CASE w.fence.later # <<>>
  <2>1. PICK f : f = NewFence(Head(w.fence.later), Tail(w.fence.later))
    OBVIOUS
  <2>2. PICK v : v = [w EXCEPT !.fence = f, !.fenceTask = TRUE]
    OBVIOUS
  <2>3. Kept(w, v, {"fence"}) /\ v.fence = f
    BY <1>0, <2>2 DEF Made, Fields, Kept
  <2>4. f \in Fence /\ f # NoFence /\ f.set
    <3>1. PICK h, t : h = Head(w.fence.later) /\ t = Tail(w.fence.later)
      OBVIOUS
    <3>2. h \in Change /\ t \in Seq(Change)
      BY <1>0, <1>3, <3>1, LaterFacts
    <3>3. f = NewFence(h, t)
      BY <2>1, <3>1, Zenon
    <3> QED BY <3>2, <3>3, NewFenceTyped
  <2>5. \A last \in Nat : GriddedOf(last, w.fence, w.resizes, w.queue, w.count)
                          => GriddedOf(last, f, w.resizes, w.queue, w.count)
    BY <1>0, <1>3, <2>1, GriddedNext
  <2>6. Good(v)
    BY <1>1, <2>3, <2>4, <2>5
  <2>7. NextFence(w) = v
    BY <1>3, <2>1, <2>2, Zenon DEF NextFence
  <2> QED BY <2>6, <2>7
<1> QED BY <1>2, <1>3

\* The grid changed.
LEMMA GoodGridDone ==
  ASSUME NEW w, Good(w), IsGrid(w.engine.lane),
         NEW v \in GridDone(w, w.engine.lane[1])
  PROVE  Good(v)
<1>1. PICK u : u = [Answered(w) EXCEPT !.engine.grid = w.engine.lane[1].grid]
  OBVIOUS
<1>2. Good(u) /\ u.engine.lane = <<>> /\ Kept(w, u, {"engine"})
  BY <1>1, GoodGrid
<1>3. u.fence = w.fence /\ u.geometry = w.geometry
  BY <1>2 DEF Kept
<1>4. CASE w.geometry
  <2>1. PICK x : x = [u EXCEPT !.geometry = FALSE]
    OBVIOUS
  <2>2. Good(x)
    BY <1>2, <2>1, GoodGeometry
  <2>3. v = Scheduled(x)
    BY <1>1, <1>4, <2>1, Zenon DEF GridDone, GeometryDone
  <2> QED BY <2>2, <2>3, GoodReschedule
<1>5. CASE ~w.geometry /\ w.fence # NoFence /\ w.fence.posted
  <2>1. v = NextFence(u)
    BY <1>1, <1>5, Zenon DEF GridDone
  <2>2. ~u.engine.failed
    <3>1. w.engine.lane # <<>>
      BY GridFacts
    <3>2. ~w.engine.failed
      BY <3>1 DEF Good, Lanes, LanesOf
    <3>3. Made(w) /\ WorkerMade(w.engine)
      BY GoodTypes
    <3>4. u.engine = [[w.engine EXCEPT !.lane = Tail(w.engine.lane)]
                        EXCEPT !.grid = w.engine.lane[1].grid]
      BY <1>1, <3>3 DEF Answered, Made, Fields
    <3>5. u.engine.failed = w.engine.failed
      BY <3>3, <3>4 DEF WorkerMade
    <3> QED BY <3>2, <3>5
  <2> QED BY <1>2, <1>3, <1>5, <2>1, <2>2, GoodNextFence
<1>6. CASE ~w.geometry /\ ~(w.fence # NoFence /\ w.fence.posted)
  <2>1. v = u
    BY <1>1, <1>6, Zenon DEF GridDone
  <2> QED BY <1>2, <2>1
<1> QED BY <1>4, <1>5, <1>6

-----------------------------------------------------------------------------
\* A checkpoint is in place.

\* A cursor raised from nothing is the one it was raised to.
LEMMA Reached ==
  ASSUME NEW c \in Nat
  PROVE  (IF 0 < c THEN c ELSE 0) = c
OBVIOUS

\* The answer to a checkpoint keeps the invariant.
LEMMA GoodRestoreDone ==
  ASSUME NEW w, Good(w), IsRestore(w.engine.lane),
         NEW v \in RestoreDone(w, w.engine.lane[1])
  PROVE  Good(v)
<1>1. PICK o, c, g : o = w.engine.lane[1].old /\ c = w.engine.lane[1].cursor
                     /\ g = w.engine.lane[2].grid
  OBVIOUS
<1>2. PICK l : l = Tail(w.engine.lane)
  OBVIOUS
<1>3. /\ o \in BOOLEAN /\ c \in Nat /\ g \in Nat /\ l = <<GridAsk(o, g)>>
      /\ Len(w.engine.lane) = 2 /\ LaneAsks(w.engine.lane, "grid")
      /\ LaneAsks(w.engine.lane, "restore") /\ ~IsWrite(w.engine.lane)
      /\ w.engine.lane # <<>>
  BY <1>1, <1>2, RestoreFacts
<1>4. Made(w) /\ WorkerMade(w.engine) /\ w.applied \in Nat /\ ~w.engine.failed
      /\ w.engine.screen = <<>>
  BY <1>3, GoodTypes DEF Good, Lanes, LanesOf
<1>5. IsGrid(l) /\ Lane(l) /\ l # <<>> /\ l[1].old = o /\ l[1].grid = g /\ Len(l) = 1
      /\ LaneAsks(l, "grid") /\ ~LaneAsks(l, "restore") /\ ~IsWrite(l) /\ ~IsRestore(l)
  <2>1. IsGrid(l)
    BY <1>3 DEF IsGrid
  <2>2. l[1].old = o /\ l[1].grid = g
    BY <1>3 DEF GridAsk
  <2> QED BY <2>1, <2>2, GridFacts DEF Lane
<1>6. PICK u : u = [Answered(w) EXCEPT !.engine.base = c]
  OBVIOUS
<1>7. /\ Kept(w, u, {"engine"})
      /\ u.engine = [[w.engine EXCEPT !.lane = l] EXCEPT !.base = c]
  BY <1>2, <1>4, <1>6 DEF Answered, Made, Fields, Kept
<1>8. /\ WorkerMade(u.engine) /\ u.engine.lane = l /\ u.engine.failed = w.engine.failed
      /\ u.engine.base = c /\ u.engine.screen = w.engine.screen /\ u.engine.grid = w.engine.grid
  <2>1. PICK d : d = [w.engine EXCEPT !.lane = l]
    OBVIOUS
  <2>2. /\ WorkerMade(d) /\ d.lane = l /\ d.failed = w.engine.failed
        /\ d.screen = w.engine.screen /\ d.grid = w.engine.grid
    BY <1>4, <2>1 DEF WorkerMade
  <2>3. PICK x : x = u.engine
    OBVIOUS
  <2>4. x = [d EXCEPT !.base = c]
    BY <1>7, <2>1, <2>3
  <2>5. /\ WorkerMade(x) /\ x.lane = d.lane /\ x.failed = d.failed /\ x.base = c
        /\ x.screen = d.screen /\ x.grid = d.grid
    BY <2>2, <2>4 DEF WorkerMade
  <2> QED BY <2>2, <2>3, <2>5
<1>9. PICK a : a = IF o THEN w.applied ELSE IF w.applied < c THEN c ELSE w.applied
  OBVIOUS
<1>10. a \in Nat /\ (o => a = w.applied) /\ (~o /\ w.applied = 0 => a = c)
  BY <1>3, <1>4, <1>9, Reached
<1>11. Kept(w, v, {"engine", "applied"}) /\ v.applied = a /\ v.engine = u.engine
  <2>1. CASE o
    <3>1. v = u
      BY <1>1, <1>6, <2>1, Zenon DEF RestoreDone
    <3> QED BY <1>7, <1>10, <2>1, <3>1 DEF Kept
  <2>2. CASE ~o
    <3>1. v = [u EXCEPT !.applied = IF u.applied < c THEN c ELSE u.applied]
      BY <1>1, <1>6, <2>2, Zenon DEF RestoreDone
    <3>2. u.applied = w.applied /\ Made(u)
      BY <1>7 DEF Kept
    <3>3. v = [u EXCEPT !.applied = a]
      BY <1>9, <2>2, <3>1, <3>2, Zenon
    <3>4. Kept(u, v, {"applied"}) /\ v.applied = a
      BY <3>2, <3>3 DEF Made, Fields, Kept
    <3> QED BY <1>7, <3>4 DEF Kept
  <2> QED BY <2>1, <2>2
<1>12. /\ Made(v) /\ v.hist = w.hist /\ v.stage = w.stage /\ v.sent = w.sent
       /\ v.acked = w.acked /\ v.turn = w.turn /\ v.resizes = w.resizes /\ v.phase = w.phase
       /\ v.target = w.target /\ v.received = w.received
       /\ v.queue = w.queue /\ v.count = w.count /\ v.bounds = w.bounds
       /\ v.flight = w.flight /\ v.failed = w.failed /\ v.geometry = w.geometry
       /\ v.fence = w.fence
  BY <1>11 DEF Kept
<1>13. Bound(v) <=> Bound(w)
  BY <1>12 DEF Bound
<1>14. Bound(w) => ~o
  BY <1>1, <1>3 DEF Good, Lanes, LanesOf
<1>15. Typed(v)
  BY <1>3, <1>8, <1>10, <1>11, <1>12 DEF Good, Typed
<1>16. Lanes(v)
  BY <1>1, <1>3, <1>4, <1>5, <1>8, <1>11, <1>12, <1>13, <1>14 DEF Good, Lanes, LanesOf
<1>17. Stages(v) /\ Bounded(v.bounds, v.turn, v.sent)
  BY <1>12, Zenon DEF Good, Stages
<1>18. Parsing(v.engine)
  BY <1>4, <1>8, <1>11 DEF Parsing
<1>19. Written(v)
  BY <1>5, <1>8, <1>11, Zenon DEF Written, WrittenOf
<1>20. Placed(v)
  <2>1. ASSUME BoundTo(w.phase, w.queue)
        PROVE  /\ \A i \in DOMAIN w.queue : w.queue[i].at = c + i
               /\ w.received = c + Len(w.queue)
               /\ w.applied = 0
               /\ w.phase # "idle" => w.acked <= c
               /\ w.phase # "committed"
    BY <1>1, <1>3, <1>4, <2>1 DEF Good, Placed, PlacedOf, FromOf
  <2>2. BoundTo(w.phase, w.queue) => ~o
    BY <1>14 DEF Bound
  <2>3. Len(w.engine.screen) = 0 /\ c + 0 = c
    BY <1>3, <1>4
  <2>4. BoundTo(w.phase, w.queue) => a = c
    BY <1>10, <2>1, <2>2
  <2>5. PlacedOf(v.engine, w.phase, w.queue, w.received, a, w.acked, w.target)
    BY <1>5, <1>8, <1>11, <2>1, <2>3, <2>4 DEF PlacedOf, FromOf
  <2> QED BY <1>11, <1>12, <2>5 DEF Placed
<1>21. Gridded(v)
  <2>1. LastOf(v.engine) = LastOf(w.engine)
    BY <1>1, <1>3, <1>5, <1>8, <1>11 DEF LastOf
  <2> QED BY <1>8, <1>11, <1>12, <1>13, <2>1 DEF Good, Gridded
<1> QED BY <1>15, <1>16, <1>17, <1>18, <1>19, <1>20, <1>21 DEF Good

-----------------------------------------------------------------------------
\* The worker is given up.

\* What stands for nothing has its type.
LEMMA NothingTyped == NoFlight \in Flight /\ NoFence \in Fence /\ <<>> \in Seq(Byte)
                      /\ <<>> \in Seq(Nat) /\ <<>> \in Seq(Parse)
<1>1. <<>> \in Seq(Change) /\ <<>> \in Seq(Byte) /\ <<>> \in Seq(Nat) /\ <<>> \in Seq(Parse)
  OBVIOUS
<1>2. NoFlight \in Flight
  BY DEF NoFlight, Flight
<1>3. NoFence \in Fence
  BY <1>1 DEF NoFence, Fence
<1> QED BY <1>1, <1>2, <1>3

\* A worker that is given up has no requests and owes no answer.
LEMMA GoodLost ==
  ASSUME NEW w, Good(w), NEW v, Kept(w, v, {"engine", "flight", "failed"}),
         WorkerMade(v.engine), v.engine.failed = TRUE, v.engine.lane = <<>>,
         v.engine.base = w.engine.base, v.engine.screen = w.engine.screen,
         v.engine.grid = w.engine.grid, v.flight = NoFlight,
         v.failed \in BOOLEAN, w.failed => v.failed
  PROVE  Good(v)
<1>1. /\ Made(v) /\ v.hist = w.hist /\ v.stage = w.stage /\ v.sent = w.sent
      /\ v.acked = w.acked /\ v.turn = w.turn /\ v.resizes = w.resizes /\ v.phase = w.phase
      /\ v.target = w.target /\ v.received = w.received /\ v.applied = w.applied
      /\ v.queue = w.queue /\ v.count = w.count /\ v.bounds = w.bounds
      /\ v.geometry = w.geometry /\ v.fence = w.fence
  BY DEF Kept
<1>2. Lane(<<>>) /\ ~IsWrite(<<>>) /\ ~IsRestore(<<>>) /\ ~LaneAsks(<<>>, "grid")
  BY EmptyFacts DEF Lane
<1>3. Typed(v)
  BY <1>1, NothingTyped DEF Good, Typed
<1>4. Lanes(v)
  BY <1>1, <1>2 DEF Good, Lanes, LanesOf
<1>5. Stages(v)
  BY <1>1 DEF Good, Stages, StagesOf
<1>6. Written(v)
  BY <1>2, Zenon DEF Written, WrittenOf
<1>7. Parsing(v.engine) /\ Bounded(v.bounds, v.turn, v.sent)
  BY <1>1, Zenon DEF Good, Parsing
<1>8. Placed(v) /\ Gridded(v)
  BY DEF Placed, PlacedOf, Gridded
<1> QED BY <1>3, <1>4, <1>5, <1>6, <1>7, <1>8 DEF Good

\* A resize that is blocked.
LEMMA KeptBroken ==
  ASSUME NEW w, Made(w), NEW b
  PROVE  Kept(w, [w EXCEPT !.broken = b], {})
BY DEF Made, Fields, Kept

\* The states EngineFails passes through: without the worker, and without the
\* drain that waited for it.
LostWorker(w) == [w EXCEPT !.engine.failed = TRUE, !.engine.lane = <<>>]
LostDrain(w) ==
    LET lost == HealthFail(LostWorker(w)) IN
    IF w.flight = NoFlight THEN lost
    ELSE IF w.flight.stale THEN Reschedule([lost EXCEPT !.flight = NoFlight])
    ELSE [lost EXCEPT !.flight = NoFlight, !.failed = TRUE, !.scheduled = FALSE]

\* Losing the worker changes the worker only, and empties its lane.
LEMMA KeptLost ==
  ASSUME NEW w, Made(w), WorkerMade(w.engine)
  PROVE  LET v == LostWorker(w) IN
         /\ Kept(w, v, {"engine"}) /\ WorkerMade(v.engine) /\ v.engine.failed = TRUE
         /\ v.engine.lane = <<>> /\ v.engine.base = w.engine.base
         /\ v.engine.screen = w.engine.screen /\ v.engine.grid = w.engine.grid
<1>1. PICK t, l : t = TRUE /\ l = <<>>
  OBVIOUS
<1>2. PICK v : v = [w EXCEPT !.engine.failed = t, !.engine.lane = l]
  OBVIOUS
<1>3. v = LostWorker(w)
  BY <1>1, <1>2, Zenon DEF LostWorker
<1>4. Kept(w, v, {"engine"})
      /\ v.engine = [[w.engine EXCEPT !.failed = t] EXCEPT !.lane = l]
  BY <1>2 DEF Made, Fields, Kept
<1>5. PICK d : d = [w.engine EXCEPT !.failed = t]
  OBVIOUS
<1>6. /\ WorkerMade(d) /\ d.failed = t /\ d.base = w.engine.base
      /\ d.screen = w.engine.screen /\ d.grid = w.engine.grid
  BY <1>5 DEF WorkerMade
<1>7. PICK u : u = v.engine
  OBVIOUS
<1>8. u = [d EXCEPT !.lane = l]
  BY <1>4, <1>5, <1>7
<1>9. /\ WorkerMade(u) /\ u.lane = l /\ u.failed = d.failed /\ u.base = d.base
      /\ u.screen = d.screen /\ u.grid = d.grid
  BY <1>6, <1>8 DEF WorkerMade
<1>10. /\ WorkerMade(u) /\ u.failed = TRUE /\ u.lane = <<>> /\ u.base = w.engine.base
       /\ u.screen = w.engine.screen /\ u.grid = w.engine.grid
  BY <1>1, <1>6, <1>9, Zenon
<1> QED BY <1>3, <1>4, <1>7, <1>10, Zenon

\* The drain the lost worker leaves.
LEMMA GoodLostDrain ==
  ASSUME NEW w, Good(w)
  PROVE  Good(LostDrain(w)) /\ LostDrain(w).engine.failed
<1>0. Made(w) /\ WorkerMade(w.engine) /\ w.failed \in BOOLEAN
  BY GoodTypes DEF Good, Typed
<1> DEFINE x == LostWorker(w)
           lost == HealthFail(x)
           drain == LostDrain(w)
<1>2. /\ Kept(w, x, {"engine"}) /\ WorkerMade(x.engine) /\ x.engine.failed = TRUE
      /\ x.engine.lane = <<>> /\ x.engine.base = w.engine.base
      /\ x.engine.screen = w.engine.screen /\ x.engine.grid = w.engine.grid
  BY <1>0, KeptLost
<1>d. drain = IF w.flight = NoFlight THEN lost
              ELSE IF w.flight.stale THEN Reschedule([lost EXCEPT !.flight = NoFlight])
              ELSE [lost EXCEPT !.flight = NoFlight, !.failed = TRUE, !.scheduled = FALSE]
  BY Zenon DEF LostDrain
<1> HIDE DEF x, drain
<1>m. Made(x)
  BY <1>2 DEF Kept
<1>3. Kept(x, lost, {})
  BY <1>m, KeptHealthFail
<1> HIDE DEF lost
<1>4. Kept(w, lost, {"engine"}) /\ lost.engine = x.engine /\ lost.flight = w.flight
      /\ lost.failed = w.failed /\ Made(lost)
  BY <1>2, <1>3 DEF Kept
<1>5. CASE w.flight = NoFlight
  <2>1. Kept(w, lost, {"engine", "flight", "failed"})
    BY <1>4 DEF Kept
  <2>2. Good(lost) /\ lost.engine.failed
    BY <1>0, <1>2, <1>4, <1>5, <2>1, GoodLost
  <2>3. drain = lost
    BY <1>d, <1>5, Zenon
  <2> QED BY <2>2, <2>3 DEF drain
<1>6. CASE w.flight # NoFlight /\ w.flight.stale
  <2>1. PICK n : n = NoFlight
    OBVIOUS
  <2>2. PICK y : y = [lost EXCEPT !.flight = n]
    OBVIOUS
  <2>3. Kept(lost, y, {"flight"}) /\ y.flight = n
    BY <1>4, <2>2 DEF Made, Fields, Kept
  <2>4. drain = Reschedule(y)
    BY <1>d, <1>6, <2>1, <2>2, Zenon
  <2>5. Made(y)
    BY <2>3 DEF Kept
  <2>6. Kept(y, drain, {})
    BY <2>4, <2>5, KeptReschedule
  <2>7. /\ Kept(w, drain, {"engine", "flight", "failed"}) /\ drain.flight = NoFlight
        /\ drain.engine = x.engine /\ drain.failed = w.failed
    BY <1>4, <2>1, <2>3, <2>6 DEF Kept
  <2>8. Good(drain) /\ drain.engine.failed
    BY <1>0, <1>2, <2>7, GoodLost
  <2> QED BY <2>8 DEF drain
<1>7. CASE w.flight # NoFlight /\ ~w.flight.stale
  <2>0. PICK n : n = NoFlight
    OBVIOUS
  <2>1. PICK t : t = TRUE
    OBVIOUS
  <2>f. PICK f : f = FALSE
    BY Zenon
  <2>2. drain = [lost EXCEPT !.flight = n, !.failed = t, !.scheduled = f]
    BY <1>d, <1>7, <2>0, <2>1, <2>f, Zenon
  <2>3. Kept(lost, drain, {"flight", "failed"}) /\ drain.flight = n /\ drain.failed = t
    BY <1>4, <2>2 DEF Made, Fields, Kept
  <2>4. /\ Kept(w, drain, {"engine", "flight", "failed"}) /\ drain.engine = x.engine
    BY <1>4, <2>3 DEF Kept
  <2>5. drain.flight = NoFlight /\ drain.failed = TRUE
    BY <2>0, <2>1, <2>3, Zenon
  <2>6. Good(drain) /\ drain.engine.failed
    BY <1>2, <2>4, <2>5, GoodLost
  <2> QED BY <2>6 DEF drain
<1> QED BY <1>5, <1>6, <1>7

\* Everyone who waited for the worker is told so.
LEMMA GoodEngineFails ==
  ASSUME NEW w, Good(w), NEW v \in EngineFails(w)
  PROVE  Good(v)
<1> DEFINE drain == LostDrain(w)
           b == drain.broken \/ \E i \in DOMAIN w.engine.lane :
                    w.engine.lane[i].op = "grid" /\ ~w.engine.lane[i].old
           grid == [drain EXCEPT !.broken = b]
           n == NoteFailure(grid)
           d == Detached(n)
<1>1. Good(drain) /\ drain.engine.failed
  BY GoodLostDrain
<1>2. PICK u : /\ u \in Flush(d) \/ u = n \/ u = grid
               /\ v = FenceGoesOn(u)
  BY Zenon DEF EngineFails, LostDrain, LostWorker
<1> HIDE DEF drain, b
<1>3. Made(drain)
  BY <1>1, GoodTypes
<1>4. Kept(drain, grid, {})
  BY <1>3, KeptBroken
<1> HIDE DEF grid
<1>5. Good(grid)
  BY <1>1, <1>4, GoodKept
<1>6. Made(grid) /\ grid.engine.failed
  BY <1>1, <1>4 DEF Kept
<1>7. Kept(grid, n, {})
  BY <1>6, KeptNoteFailure
<1> HIDE DEF n
<1>8. Good(n)
  BY <1>5, <1>7, GoodKept
<1>9. Made(n) /\ n.engine.failed
  BY <1>6, <1>7 DEF Kept
<1>10. Kept(n, d, {"stage", "phase"}) /\ d.stage = "closed" /\ d.phase = "idle"
  BY <1>9, KeptDetached
<1> HIDE DEF d
<1>11. Good(d)
  BY <1>8, <1>10, GoodDetached
<1>12. d.engine.failed
  BY <1>9, <1>10 DEF Kept
<1>13. Good(u) /\ u.engine.failed
  BY <1>2, <1>5, <1>6, <1>8, <1>9, <1>11, <1>12, GoodFlush
<1> QED BY <1>2, <1>13, GoodFenceGoesOn

-----------------------------------------------------------------------------
\* What the worker parsed.

\* What the worker makes of a write, and a screen that grew by it.
ParsedBytes(bytes, grid) ==
    [i \in DOMAIN bytes |-> [at |-> bytes[i].at, fits |-> bytes[i].grid = grid]]

Grown(base, s, bytes, grid) ==
    LET t == s \o ParsedBytes(bytes, grid) IN
    /\ t \in Seq(Parse) /\ Len(t) = Len(s) + Len(bytes)
    /\ \A i \in DOMAIN t : t[i].at = base + i /\ t[i].fits

\* Bytes that follow the screen and were printed for the grid extend it.
LEMMA ScreenGrows ==
  ASSUME NEW base \in Nat, NEW grid \in Nat, NEW s \in Seq(Parse), NEW bytes \in Seq(Byte),
         \A i \in DOMAIN s : s[i].at = base + i /\ s[i].fits,
         \A i \in DOMAIN bytes : bytes[i].at = base + Len(s) + i /\ bytes[i].grid = grid
  PROVE  Grown(base, s, bytes, grid)
<1> DEFINE n == Len(bytes)
           F(i) == [at |-> bytes[i].at, fits |-> bytes[i].grid = grid]
           p == [i \in 1..n |-> F(i)]
           t == s \o p
<1>1. n \in Nat /\ DOMAIN bytes = 1..n /\ Len(s) \in Nat /\ DOMAIN s = 1..Len(s)
  BY LenProperties
<1>2. \A i \in 1..n : bytes[i].at \in Nat /\ bytes[i].grid \in Nat
  BY QueueFacts
<1>3. ASSUME NEW i \in 1..n
      PROVE  F(i) \in Parse /\ F(i).at = base + Len(s) + i /\ F(i).fits
  <2>1. bytes[i].at \in Nat /\ bytes[i].at = base + Len(s) + i /\ bytes[i].grid = grid
    BY <1>1, <1>2
  <2>2. PICK a, b : a = bytes[i].at /\ b = (bytes[i].grid = grid)
    BY Zenon
  <2>3. a \in Nat /\ b = TRUE /\ a = base + Len(s) + i
    BY <2>1, <2>2
  <2>4. [at |-> a, fits |-> b] \in Parse /\ [at |-> a, fits |-> b].at = a
        /\ [at |-> a, fits |-> b].fits = b
    BY <2>3 DEF Parse
  <2>5. F(i) = [at |-> a, fits |-> b]
    BY <2>2, Zenon
  <2> QED BY <2>3, <2>4, <2>5
<1>4. ParsedBytes(bytes, grid) = p
  BY <1>1, Zenon DEF ParsedBytes
<1> HIDE DEF F
<1>t. \A i \in 1..n : F(i) \in Parse
  BY <1>3
<1>5. p \in Seq(Parse) /\ Len(p) = n /\ \A i \in 1..n : p[i] = F(i)
  <2> HIDE DEF n
  <2> QED BY <1>1, <1>t
<1> HIDE DEF p, n
<1>6. t \in Seq(Parse) /\ Len(t) = Len(s) + n
      /\ \A i \in 1..Len(t) : t[i] = IF i <= Len(s) THEN s[i] ELSE p[i - Len(s)]
  BY <1>5, ConcatProperties
<1> HIDE DEF t
<1>7. ASSUME NEW i \in 1..Len(t)
      PROVE  t[i].at = base + i /\ t[i].fits
  <2>1. i \in Nat /\ 1 <= i /\ i <= Len(s) + n
    BY <1>1, <1>6
  <2>2. CASE i <= Len(s)
    <3>1. i \in DOMAIN s /\ t[i] = s[i]
      BY <1>1, <1>6, <2>1, <2>2
    <3> QED BY <3>1
  <2>3. CASE ~(i <= Len(s))
    <3>0. \A m, j, x \in Nat : m <= j + x /\ ~(m <= j) => m - j \in 1..x
      OBVIOUS
    <3>1. PICK k \in 1..n : k = i - Len(s)
      BY <1>1, <2>1, <2>3, <3>0, Zenon
    <3>2. t[i] = F(k)
      BY <1>5, <1>6, <2>3, <3>1
    <3>3. base + Len(s) + k = base + i
      BY <1>1, <2>1, <3>1
    <3> QED BY <1>3, <3>2, <3>3
  <2> QED BY <2>2, <2>3
<1>8. DOMAIN t = 1..Len(t)
  BY <1>6
<1>9. t = s \o ParsedBytes(bytes, grid)
  BY <1>4, Zenon DEF t
<1>10. /\ t \in Seq(Parse) /\ Len(t) = Len(s) + Len(bytes)
       /\ \A i \in DOMAIN t : t[i].at = base + i /\ t[i].fits
  BY <1>6, <1>7, <1>8 DEF n
<1> QED BY <1>9, <1>10, Zenon DEF Grown

\* The engine after a write.
Landed(w, v, F) ==
    /\ Kept(w, v, F \cup {"engine", "flight"})
    /\ v.flight = NoFlight
    /\ WorkerMade(v.engine) /\ v.engine.lane = <<>> /\ v.engine.failed = w.engine.failed
    /\ v.engine.base = w.engine.base /\ v.engine.grid = w.engine.grid
    /\ v.engine.screen = w.engine.screen \o ParsedBytes(w.engine.lane[1].bytes, w.engine.grid)

\* A write of the present stream extends the screen.
LEMMA GoodScreen ==
  ASSUME NEW w, Good(w), IsWrite(w.engine.lane), ~w.engine.lane[1].old,
         NEW v, NEW F, Landed(w, v, F)
  PROVE  /\ v.engine.screen \in Seq(Parse) /\ Parsing(v.engine)
         /\ Len(v.engine.screen) = Len(w.engine.screen) + Len(w.engine.lane[1].bytes)
         /\ w.engine.lane[1].bytes \in Seq(Byte) /\ ~w.engine.failed
<1>1. PICK bytes, s, base, grid : /\ bytes = w.engine.lane[1].bytes /\ s = w.engine.screen
                                  /\ base = w.engine.base /\ grid = w.engine.grid
  OBVIOUS
<1>2. bytes \in Seq(Byte) /\ w.engine.lane # <<>>
  BY <1>1, WriteFacts
<1>3. base \in Nat /\ grid \in Nat /\ s \in Seq(Parse)
  BY <1>1, GoodTypes
<1>4. \A i \in DOMAIN s : s[i].at = base + i /\ s[i].fits
  BY <1>1 DEF Good, Parsing
<1>5. \A i \in DOMAIN bytes : bytes[i].at = base + Len(s) + i /\ bytes[i].grid = grid
  BY <1>1 DEF Good, Written, WrittenOf
<1>6. PICK t : t = s \o ParsedBytes(bytes, grid)
  OBVIOUS
<1>7. /\ t \in Seq(Parse) /\ Len(t) = Len(s) + Len(bytes)
      /\ \A i \in DOMAIN t : t[i].at = base + i /\ t[i].fits
  <2>1. Grown(base, s, bytes, grid)
    BY <1>2, <1>3, <1>4, <1>5, ScreenGrows
  <2> QED BY <1>6, <2>1, Zenon DEF Grown
<1>8. v.engine.screen = t /\ v.engine.base = base
  BY <1>1, <1>6 DEF Landed
<1>9. ~w.engine.failed
  BY <1>2 DEF Good, Lanes, LanesOf
<1> QED BY <1>1, <1>2, <1>7, <1>8, <1>9 DEF Parsing

\* A write nobody waits for any more.
LEMMA GoodStale ==
  ASSUME NEW w, Good(w), IsWrite(w.engine.lane), ~w.engine.lane[1].old, w.flight.stale,
         NEW v, Landed(w, v, {})
  PROVE  Good(v)
<1>1. /\ Made(v) /\ v.hist = w.hist /\ v.stage = w.stage /\ v.sent = w.sent
      /\ v.acked = w.acked /\ v.turn = w.turn /\ v.resizes = w.resizes /\ v.phase = w.phase
      /\ v.target = w.target /\ v.received = w.received /\ v.applied = w.applied
      /\ v.queue = w.queue /\ v.count = w.count /\ v.bounds = w.bounds
      /\ v.failed = w.failed /\ v.geometry = w.geometry
      /\ v.fence = w.fence
  BY DEF Landed, Kept
<1>2. v.engine.screen \in Seq(Parse) /\ Parsing(v.engine)
  BY GoodScreen
<1>3. /\ v.flight = NoFlight
      /\ WorkerMade(v.engine) /\ v.engine.lane = <<>> /\ v.engine.failed = w.engine.failed
      /\ v.engine.base = w.engine.base /\ v.engine.grid = w.engine.grid
  BY DEF Landed
<1>4. ~Bound(w)
  BY DEF Good, Written, WrittenOf
<1>5. ~Bound(v) /\ ~BoundTo(v.phase, v.queue)
  BY <1>1, <1>4 DEF Bound
<1>6. Lane(<<>>) /\ ~IsWrite(<<>>) /\ ~IsRestore(<<>>) /\ ~LaneAsks(<<>>, "grid")
  BY EmptyFacts DEF Lane
<1>7. Typed(v)
  BY <1>1, <1>2, <1>3, NothingTyped DEF Good, Typed
<1>8. Lanes(v)
  BY <1>1, <1>3, <1>5, <1>6 DEF Good, Lanes, LanesOf
<1>9. Stages(v) /\ Bounded(v.bounds, v.turn, v.sent)
  BY <1>1, Zenon DEF Good, Stages
<1>10. Written(v)
  BY <1>3, <1>6, Zenon DEF Written, WrittenOf
<1>11. Placed(v) /\ Gridded(v)
  BY <1>5 DEF Placed, PlacedOf, Gridded
<1> QED BY <1>2, <1>7, <1>8, <1>9, <1>10, <1>11 DEF Good

\* What the drain knows of the write it waits for.
LEMMA FlightFacts ==
  ASSUME NEW w, Good(w), IsWrite(w.engine.lane), ~w.engine.lane[1].old, ~w.flight.stale
  PROVE  LET n == w.flight.n  left == w.flight.left  q == w.queue IN
         /\ q \in Seq(Byte) /\ n \in 1..Len(q) /\ left \in Nat /\ n <= left /\ left <= Len(q)
         /\ w.engine.lane[1].bytes = SubSeq(q, 1, n)
         /\ Len(w.engine.lane[1].bytes) = n
         /\ FreshBytes(q) /\ Bound(w) /\ BoundTo(w.phase, w.queue) /\ ~w.engine.failed
         /\ w.flight.force \in BOOLEAN
         /\ w.flight.force => w.fence # NoFence /\ ~w.fence.posted /\ w.count + left = w.fence.end
<1>1. /\ w.flight.n \in 1..Len(w.queue) /\ w.flight.n <= w.flight.left
      /\ w.flight.left <= Len(w.queue)
      /\ w.engine.lane[1].bytes = SubSeq(w.queue, 1, w.flight.n) /\ FreshBytes(w.queue)
      /\ w.flight.force => w.fence # NoFence /\ ~w.fence.posted
                           /\ w.count + w.flight.left = w.fence.end
  BY DEF Good, Written, WrittenOf
<1>2. w.queue \in Seq(Byte) /\ w.flight \in Flight /\ w.engine.lane # <<>>
  BY GoodTypes, WriteFacts
<1>3. w.flight.left \in Nat /\ w.flight.force \in BOOLEAN
  BY <1>2 DEF Flight
<1>4. w.queue # <<>>
  BY <1>1, <1>2, QueueFacts
<1>5. Bound(w) /\ BoundTo(w.phase, w.queue)
  BY <1>1, <1>4 DEF Bound, BoundTo
<1>6. ~w.engine.failed
  BY <1>2 DEF Good, Lanes, LanesOf
<1>7. Len(w.engine.lane[1].bytes) = w.flight.n
  <2>1. PICK q, n : q = w.queue /\ n = w.flight.n
    OBVIOUS
  <2>2. q \in Seq(Byte) /\ n \in 1..Len(q)
    BY <1>1, <1>2, <2>1
  <2>3. Len(SubSeq(q, 1, n)) = n
    BY <2>2, LenProperties
  <2> QED BY <1>1, <2>1, <2>3
<1> QED BY <1>1, <1>2, <1>3, <1>5, <1>6, <1>7

\* What is left of a queue after n entries.
Rest(q, n) == SubSeq(q, n + 1, Len(q))

IsRest(p, q, n) ==
    /\ p \in Seq(Byte) /\ Len(p) = Len(q) - n
    /\ \A i \in DOMAIN p : i \in Nat /\ n + i \in DOMAIN q /\ p[i] = q[n + i]

\* The rest of a queue, entry by entry.
LEMMA RestFacts ==
  ASSUME NEW q \in Seq(Byte), NEW n \in 0..Len(q)
  PROVE  IsRest(Rest(q, n), q, n)
<1> DEFINE p == Rest(q, n)
<1>1. /\ Len(q) \in Nat /\ DOMAIN q = 1..Len(q) /\ n \in Nat /\ n <= Len(q)
  BY QueueFacts
<1>2. /\ p \in Seq(Byte) /\ Len(p) = Len(q) - n /\ DOMAIN p = 1..(Len(q) - n)
      /\ \A i \in 1..(Len(q) - n) : p[i] = q[n + i]
  BY SubSeqFacts DEF Rest
<1> HIDE DEF p
<1>3. \A i \in 1..(Len(q) - n) : i \in Nat /\ n + i \in 1..Len(q)
  BY <1>1
<1>4. IsRest(p, q, n)
  BY <1>1, <1>2, <1>3 DEF IsRest
<1> QED BY <1>4 DEF p

\* The bytes that are left after some of them were parsed.
LEMMA GriddedRest ==
  ASSUME NEW f \in Fence, NEW last \in Nat, NEW r \in Nat, NEW q \in Seq(Byte), NEW c \in Nat,
         NEW n \in 0..Len(q), GriddedOf(last, f, r, q, c)
  PROVE  GriddedOf(last, f, r, Rest(q, n), c + n)
<1> DEFINE p == Rest(q, n)
<1>1. /\ Len(q) \in Nat /\ DOMAIN q = 1..Len(q) /\ n \in Nat /\ n <= Len(q)
      /\ \A i \in 1..Len(q) : q[i].grid \in Nat
  BY QueueFacts
<1>2. /\ Len(p) = Len(q) - n
      /\ \A i \in DOMAIN p : i \in Nat /\ n + i \in DOMAIN q /\ p[i] = q[n + i]
  <2>1. IsRest(p, q, n)
    BY RestFacts
  <2> QED BY <2>1 DEF IsRest
<1> HIDE DEF p
<1>3. ASSUME NEW i \in DOMAIN p
      PROVE  n + i \in DOMAIN q /\ p[i] = q[n + i] /\ (c + n) + i = c + (n + i)
  <2>1. \A x, y, z \in Nat : (x + y) + z = x + (y + z)
    OBVIOUS
  <2> QED BY <1>1, <1>2, <2>1, Zenon
<1>4. (c + n) + Len(p) = c + Len(q)
  BY <1>1, <1>2
<1>5. CASE f = NoFence
  <2>1. last = r /\ \A i \in DOMAIN q : q[i].grid = r
    BY <1>5 DEF GriddedOf
  <2>2. GriddedOf(last, f, r, p, c + n)
    BY <1>3, <1>5, <2>1 DEF GriddedOf
  <2> QED BY <2>2 DEF p
<1>6. CASE f # NoFence
  <2>1. /\ f.grid \in Nat /\ f.end \in Nat /\ Len(f.later) \in Nat
        /\ DOMAIN f.later = 1..Len(f.later)
        /\ \A j \in 1..Len(f.later) : f.later[j].end \in Nat /\ f.later[j].grid \in Nat
    BY FenceTypes
  <2>2. /\ f.grid = last + (IF f.posted THEN 0 ELSE 1)
        /\ f.posted => f.end <= c
        /\ r = f.grid + Len(f.later)
        /\ f.end <= c + Len(q)
        /\ \A j \in DOMAIN f.later :
              /\ f.later[j].grid = f.grid + j
              /\ f.end <= f.later[j].end
              /\ \A k \in 1..(j - 1) : f.later[k].end <= f.later[j].end
              /\ f.later[j].end <= c + Len(q)
        /\ \A i \in DOMAIN q :
              /\ f.grid <= q[i].grid + 1 /\ q[i].grid <= r
              /\ c + i <= f.end <=> q[i].grid < f.grid
              /\ \A j \in DOMAIN f.later :
                    c + i <= f.later[j].end <=> q[i].grid < f.later[j].grid
    BY <1>6 DEF GriddedOf
  <2>3. f.posted => f.end <= c + n
    BY <1>1, <2>1, <2>2
  <2>4. \A i \in DOMAIN p :
              /\ f.grid <= p[i].grid + 1 /\ p[i].grid <= r
              /\ (c + n) + i <= f.end <=> p[i].grid < f.grid
              /\ \A j \in DOMAIN f.later :
                    (c + n) + i <= f.later[j].end <=> p[i].grid < f.later[j].grid
    BY <1>3, <2>2, Zenon
  <2>5. GriddedOf(last, f, r, p, c + n)
    BY <1>4, <1>6, <2>2, <2>3, <2>4, Zenon DEF GriddedOf
  <2> QED BY <2>5 DEF p
<1> QED BY <1>5, <1>6

\* What was parsed leaves the queue.
LEMMA GoodPopped ==
  ASSUME NEW w, Good(w), IsWrite(w.engine.lane), ~w.engine.lane[1].old, ~w.flight.stale,
         NEW v, Landed(w, v, {"queue", "applied", "count"}),
         v.queue = SubSeq(w.queue, w.flight.n + 1, Len(w.queue)),
         v.applied = w.queue[w.flight.n].at, v.count = w.count + w.flight.n
  PROVE  Good(v)
<1>1. /\ Made(v) /\ v.hist = w.hist /\ v.stage = w.stage /\ v.sent = w.sent
      /\ v.acked = w.acked /\ v.turn = w.turn /\ v.resizes = w.resizes /\ v.phase = w.phase
      /\ v.target = w.target /\ v.received = w.received
      /\ v.bounds = w.bounds
      /\ v.failed = w.failed /\ v.geometry = w.geometry
      /\ v.fence = w.fence
  BY DEF Landed, Kept
<1>2. v.engine.screen \in Seq(Parse) /\ Parsing(v.engine)
      /\ Len(v.engine.screen) = Len(w.engine.screen) + Len(w.engine.lane[1].bytes)
  BY GoodScreen
<1>3. /\ v.flight = NoFlight
      /\ WorkerMade(v.engine) /\ v.engine.lane = <<>> /\ v.engine.failed = w.engine.failed
      /\ v.engine.base = w.engine.base /\ v.engine.grid = w.engine.grid
  BY DEF Landed
<1>4. PICK n, q : n = w.flight.n /\ q = w.queue
  OBVIOUS
<1>5. /\ q \in Seq(Byte) /\ n \in 1..Len(q) /\ Len(w.engine.lane[1].bytes) = n
      /\ FreshBytes(q) /\ Bound(w) /\ BoundTo(w.phase, w.queue) /\ ~w.engine.failed
  BY <1>4, FlightFacts
<1>6. /\ Len(q) \in Nat /\ DOMAIN q = 1..Len(q) /\ n \in Nat /\ n \in 0..Len(q)
      /\ \A i \in 1..Len(q) : q[i].at \in Nat
  BY <1>5, QueueFacts
<1>7. PICK p : p = Rest(q, n)
  OBVIOUS
<1>8. /\ p \in Seq(Byte) /\ Len(p) = Len(q) - n
      /\ \A i \in DOMAIN p : i \in Nat /\ n + i \in DOMAIN q /\ p[i] = q[n + i]
  <2>1. IsRest(Rest(q, n), q, n)
    BY <1>5, <1>6, RestFacts
  <2> QED BY <1>7, <2>1, Zenon DEF IsRest
<1>9. v.queue = p /\ v.applied = q[n].at /\ v.count = w.count + n /\ w.count \in Nat
      /\ w.engine.grid \in Nat /\ w.resizes \in Nat /\ w.fence \in Fence
      /\ w.engine.base \in Nat /\ Len(w.engine.screen) \in Nat
      /\ w.received \in Nat /\ w.acked \in Nat /\ w.target \in Nat
  <2>1. w.engine.screen \in Seq(Parse)
    BY GoodTypes
  <2>2. Len(w.engine.screen) \in Nat
    BY <2>1, LenProperties
  <2> QED BY <1>4, <1>7, <2>2, GoodTypes DEF Rest
<1>10. \A i \in DOMAIN p : n + i \in DOMAIN q /\ p[i] = q[n + i] /\ i \in Nat
  BY <1>8
<1>11. FreshBytes(p)
  BY <1>5, <1>10 DEF FreshBytes
<1>12. /\ ~LaneAsks(w.engine.lane, "grid") /\ ~LaneAsks(w.engine.lane, "restore")
  BY WriteFacts
<1>13. /\ Lane(<<>>) /\ ~IsWrite(<<>>) /\ ~IsRestore(<<>>) /\ ~LaneAsks(<<>>, "grid")
       /\ ~LaneAsks(<<>>, "restore")
  BY EmptyFacts DEF Lane
<1>14. Typed(v)
  <2>0. q[n].at \in Nat
    BY <1>5, <1>6
  <2>1. v.count \in Nat /\ v.applied \in Nat
    <3>1. \A x, y \in Nat : x + y \in Nat
      OBVIOUS
    <3> QED BY <1>6, <1>9, <2>0, <3>1, Zenon
  <2> QED BY <1>1, <1>2, <1>3, <1>8, <1>9, <2>1, NothingTyped DEF Good, Typed
<1>15. Lanes(v)
  BY <1>1, <1>3, <1>13 DEF Good, Lanes, LanesOf
<1>16. Stages(v)
  BY <1>1, <1>9, <1>11 DEF Good, Stages, StagesOf
<1>17. Written(v)
  BY <1>3, <1>13, Zenon DEF Written, WrittenOf
<1>18. Bounded(v.bounds, v.turn, v.sent)
  BY <1>1 DEF Good
<1>19. Placed(v)
  <2>1. PICK a : a = w.applied
    OBVIOUS
  <2>a. a \in Nat /\ FromOf(w.engine.lane, w.applied) = a
    BY <1>12, <2>1, GoodTypes DEF FromOf
  <2>2. /\ \A i \in DOMAIN q : q[i].at = a + i
        /\ w.received = a + Len(q) /\ a \in Nat
        /\ a = w.engine.base + Len(w.engine.screen)
        /\ w.phase # "idle" => w.acked <= a
        /\ w.phase = "committed" => a >= w.target
    BY <1>4, <1>5, <1>12, <2>1, <2>a DEF Good, Placed, PlacedOf
  <2>3. v.applied = a + n /\ n \in DOMAIN q
    BY <1>5, <1>6, <1>9, <2>2
  <2>4. \A i \in DOMAIN p : p[i].at = (a + n) + i
    <3>1. ASSUME NEW i \in DOMAIN p PROVE p[i].at = (a + n) + i
      <4>1. p[i].at = a + (n + i) /\ i \in Nat
        BY <1>10, <2>2
      <4> QED BY <1>6, <2>2, <4>1
    <3> QED BY <3>1
  <2>5. w.received = (a + n) + Len(p)
    BY <1>6, <1>8, <2>2
  <2>6. v.engine.base + Len(v.engine.screen) = a + n
    <3>1. Len(v.engine.screen) = Len(w.engine.screen) + n
      BY <1>2, <1>5
    <3>2. v.engine.base = w.engine.base
      BY <1>3
    <3>3. \A x, y, z \in Nat : x + (y + z) = (x + y) + z
      OBVIOUS
    <3>4. v.engine.base + Len(v.engine.screen) = w.engine.base + (Len(w.engine.screen) + n)
      BY <3>1, <3>2, Zenon
    <3>5. PICK x, y : x = w.engine.base /\ y = Len(w.engine.screen)
      OBVIOUS
    <3>6. x \in Nat /\ y \in Nat /\ n \in Nat
      BY <1>6, <1>9, <3>5
    <3>7. x + (y + n) = (x + y) + n
      BY <3>6
    <3> QED BY <2>2, <3>4, <3>5, <3>7, Zenon
  <2>7. /\ w.phase # "idle" => w.acked <= a + n
        /\ w.phase = "committed" => a + n >= w.target
    BY <1>6, <1>9, <2>2
  <2>8. PICK b : b = a + n
    OBVIOUS
  <2>9. PlacedOf(v.engine, w.phase, p, w.received, b, w.acked, w.target)
    BY <1>3, <1>13, <2>4, <2>5, <2>6, <2>7, <2>8 DEF PlacedOf, FromOf
  <2> QED BY <1>1, <1>9, <2>3, <2>8, <2>9 DEF Placed
<1>20. Gridded(v)
  <2>1. LastOf(w.engine) = w.engine.grid /\ LastOf(v.engine) = w.engine.grid
    BY <1>3, <1>12, <1>13 DEF LastOf
  <2>2. GriddedOf(w.engine.grid, w.fence, w.resizes, q, w.count)
    BY <1>4, <1>5, <2>1 DEF Good, Gridded
  <2>3. GriddedOf(w.engine.grid, w.fence, w.resizes, p, w.count + n)
    <3>1. GriddedOf(w.engine.grid, w.fence, w.resizes, Rest(q, n), w.count + n)
      BY <1>5, <1>6, <1>9, <2>2, GriddedRest
    <3> QED BY <1>7, <3>1, Zenon
  <2> QED BY <1>1, <1>9, <2>1, <2>3 DEF Gridded
<1> QED BY <1>2, <1>14, <1>15, <1>16, <1>17, <1>18, <1>19, <1>20 DEF Good

-----------------------------------------------------------------------------
\* The drain goes on.

\* The states WriteDone passes through: parsed, without the write, without the
\* entries it carried.
WriteParsed(w) ==
    [Answered(w) EXCEPT !.engine.screen =
        @ \o ParsedBytes(w.engine.lane[1].bytes, w.engine.grid)]
Free(w) == [w EXCEPT !.flight = NoFlight]
Pop(w) ==
    LET f == w.flight
        last == w.queue[f.n].at IN
    [w EXCEPT !.queue = SubSeq(@, f.n + 1, Len(@)), !.applied = last, !.count = @ + f.n,
              !.batch = IF last >= w.target THEN "none" ELSE @]

\* Popped is the last of them, with its ack.
LEMMA PoppedIs == \A w : Popped(w) = TrySend(Pop(w))
BY Zenon DEF Popped, Pop

\* What a parsed write changes of the worker.
LEMMA WorkerParsed ==
  ASSUME NEW w, Good(w), IsWrite(w.engine.lane)
  PROVE  LET v == WriteParsed(w) IN
         /\ Kept(w, v, {"engine"}) /\ WorkerMade(v.engine) /\ v.engine.lane = <<>>
         /\ v.engine.failed = w.engine.failed
         /\ v.engine.base = w.engine.base /\ v.engine.grid = w.engine.grid
         /\ v.engine.screen = w.engine.screen \o ParsedBytes(w.engine.lane[1].bytes, w.engine.grid)
<1>1. Made(w) /\ WorkerMade(w.engine) /\ Tail(w.engine.lane) = <<>>
  BY GoodTypes, WriteFacts
<1>2. PICK add : add = ParsedBytes(w.engine.lane[1].bytes, w.engine.grid)
  OBVIOUS
<1>3. PICK v : v = [Answered(w) EXCEPT !.engine.screen = @ \o add]
  OBVIOUS
<1>4. v = WriteParsed(w)
  BY <1>2, <1>3, Zenon DEF WriteParsed
<1>5. PICK s : s = Answered(w).engine.screen \o add
  OBVIOUS
<1>6. v = [Answered(w) EXCEPT !.engine.screen = s]
  BY <1>3, <1>5, Zenon
<1>7. PICK d : d = [w.engine EXCEPT !.lane = Tail(w.engine.lane)]
  OBVIOUS
<1>8. /\ WorkerMade(d) /\ d.lane = <<>> /\ d.failed = w.engine.failed
      /\ d.base = w.engine.base /\ d.grid = w.engine.grid /\ d.screen = w.engine.screen
  BY <1>1, <1>7 DEF WorkerMade
<1>9. Answered(w).engine = d
  BY <1>1, <1>7 DEF Answered, Made, Fields
<1>10. /\ Kept(w, v, {"engine"}) /\ v.engine = [d EXCEPT !.screen = s]
  BY <1>1, <1>6, <1>7 DEF Answered, Made, Fields, Kept
<1>11. PICK u : u = v.engine
  OBVIOUS
<1>12. /\ WorkerMade(u) /\ u.lane = d.lane /\ u.failed = d.failed
       /\ u.base = d.base /\ u.grid = d.grid /\ u.screen = s
  BY <1>8, <1>10, <1>11 DEF WorkerMade
<1>13. s = w.engine.screen \o add
  BY <1>5, <1>8, <1>9, Zenon
<1>14. /\ WorkerMade(u) /\ u.lane = <<>> /\ u.failed = w.engine.failed
       /\ u.base = w.engine.base /\ u.grid = w.engine.grid /\ u.screen = w.engine.screen \o add
  BY <1>8, <1>12, <1>13, Zenon
<1> QED BY <1>2, <1>4, <1>10, <1>11, <1>14, Zenon

\* A drain that no longer waits.
LEMMA KeptFree ==
  ASSUME NEW w, Made(w)
  PROVE  Kept(w, Free(w), {"flight"}) /\ Free(w).flight = NoFlight
<1>1. PICK n : n = NoFlight
  OBVIOUS
<1>2. PICK v : v = [w EXCEPT !.flight = n]
  OBVIOUS
<1>3. Kept(w, v, {"flight"}) /\ v.flight = n
  BY <1>2 DEF Made, Fields, Kept
<1> QED BY <1>1, <1>2, <1>3, Zenon DEF Free

\* Entries that leave the queue.
LEMMA KeptPop ==
  ASSUME NEW w, Made(w)
  PROVE  /\ Kept(w, Pop(w), {"queue", "applied", "count"})
         /\ Pop(w).queue = SubSeq(w.queue, w.flight.n + 1, Len(w.queue))
         /\ Pop(w).applied = w.queue[w.flight.n].at
         /\ Pop(w).count = w.count + w.flight.n
<1>1. PICK q, a, c, b :
        /\ q = SubSeq(w.queue, w.flight.n + 1, Len(w.queue))
        /\ a = w.queue[w.flight.n].at /\ c = w.count + w.flight.n
        /\ b = IF a >= w.target THEN "none" ELSE w.batch
  OBVIOUS
<1>2. PICK v : v = [w EXCEPT !.queue = q, !.applied = a, !.count = c, !.batch = b]
  OBVIOUS
<1>3. /\ Kept(w, v, {"queue", "applied", "count"}) /\ v.queue = q /\ v.applied = a
      /\ v.count = c
  BY <1>2 DEF Made, Fields, Kept
<1>4. v = Pop(w)
  <2>1. Pop(w) = [w EXCEPT !.queue = SubSeq(w.queue, w.flight.n + 1, Len(w.queue)),
                           !.applied = w.queue[w.flight.n].at,
                           !.count = w.count + w.flight.n,
                           !.batch = IF w.queue[w.flight.n].at >= w.target
                                     THEN "none" ELSE w.batch]
    BY DEF Pop, Made, Fields
  <2> QED BY <1>1, <1>2, <2>1, Zenon
<1> QED BY <1>1, <1>3, <1>4, Zenon

\* An ack and the end of a flight do not see each other.
LEMMA SentFree ==
  ASSUME NEW p, Made(p)
  PROVE  TrySend(Free(p)) = Free(TrySend(p))
<1>1. Kept(p, Free(p), {"flight"}) /\ Free(p).flight = NoFlight
  BY KeptFree
<1> DEFINE y == Free(p)
<1>2. y.bounds = p.bounds /\ y.stage = p.stage /\ y.applied = p.applied
  BY <1>1 DEF Kept
<1>3. PICK done : done = {i \in DOMAIN p.bounds : p.bounds[i] <= p.applied}
  OBVIOUS
<1>4. PICK a, b : /\ a = p.bounds[Cardinality(done)]
                  /\ b = SubSeq(p.bounds, Cardinality(done) + 1, Len(p.bounds))
  OBVIOUS
<1>5. TrySend(p) = IF done = {} \/ ~Attached(p) THEN p ELSE [p EXCEPT !.acked = a, !.bounds = b]
  <2>1. [p EXCEPT !.acked = p.bounds[Cardinality(done)],
                  !.bounds = SubSeq(@, Cardinality(done) + 1, Len(@))]
        = [p EXCEPT !.acked = a, !.bounds = b]
    BY <1>4 DEF Made, Fields
  <2> QED BY <1>3, <2>1, Zenon DEF TrySend, AckReached
<1>6. TrySend(y) = IF done = {} \/ ~Attached(p) THEN y ELSE [y EXCEPT !.acked = a, !.bounds = b]
  <2> HIDE DEF y
  <2>0. Made(y)
    BY <1>1 DEF Kept, y
  <2>1. [y EXCEPT !.acked = y.bounds[Cardinality(done)],
                  !.bounds = SubSeq(@, Cardinality(done) + 1, Len(@))]
        = [y EXCEPT !.acked = a, !.bounds = b]
    BY <1>2, <1>4, <2>0 DEF Made, Fields
  <2>2. Attached(y) <=> Attached(p)
    BY <1>2 DEF Attached
  <2> QED BY <1>2, <1>3, <2>1, <2>2, Zenon DEF TrySend, AckReached
<1>7. [y EXCEPT !.acked = a, !.bounds = b] = Free([p EXCEPT !.acked = a, !.bounds = b])
  <2>1. PICK n : n = NoFlight
    OBVIOUS
  <2>2. [[p EXCEPT !.flight = n] EXCEPT !.acked = a, !.bounds = b]
        = [[p EXCEPT !.acked = a, !.bounds = b] EXCEPT !.flight = n]
    BY DEF Made, Fields
  <2> QED BY <2>1, <2>2, Zenon DEF Free
<1> QED BY <1>5, <1>6, <1>7, Zenon

\* A write does not see the one before it.
LEMMA WriteFree ==
  ASSUME NEW p, Made(p), NEW force, NEW left
  PROVE  Write(p, force, left) = Write(Free(p), force, left)
<1> DEFINE y == Free(p)
<1>1. PICK n : n = NoFlight
  OBVIOUS
<1>2. PICK z : z = [p EXCEPT !.flight = n]
  OBVIOUS
<1>3. z = Free(p)
  BY <1>1, <1>2, Zenon DEF Free
<1>4. z.queue = p.queue /\ z.batch = p.batch /\ z.engine = p.engine
  BY <1>2 DEF Made, Fields
<1>5. \A f : [z EXCEPT !.flight = f] = [p EXCEPT !.flight = f]
  <2>1. ASSUME NEW f PROVE [z EXCEPT !.flight = f] = [p EXCEPT !.flight = f]
    BY <1>2 DEF Made, Fields
  <2> QED BY <2>1
<1>6. Sizes(z, left) = Sizes(p, left)
  BY <1>4, Zenon DEF Sizes
<1>7. Write(p, force, left) = Write(z, force, left)
  BY <1>4, <1>5, <1>6, Zenon DEF Write
<1> QED BY <1>3, <1>7, Zenon

\* A flush that is due.
LEMMA KeptSet ==
  ASSUME NEW w, Made(w)
  PROVE  Kept(w, [w EXCEPT !.scheduled = TRUE], {})
<1>1. PICK t : t = TRUE
  OBVIOUS
<1>2. PICK v : v = [w EXCEPT !.scheduled = t]
  OBVIOUS
<1>3. Kept(w, v, {})
  BY <1>2 DEF Made, Fields, Kept
<1> QED BY <1>1, <1>2, <1>3, Zenon

\* The drain is over.
LEMMA GoodDrainEnds ==
  ASSUME NEW z, Made(z), Good(Free(z))
  PROVE  Good(DrainEnds(z)) /\ DrainEnds(z).engine = z.engine
<1> DEFINE x == Free(z)
           a == [x EXCEPT !.scheduled = TRUE]
           b == Finish(x)
<1>1. Kept(z, x, {"flight"})
  BY KeptFree
<1>2. \E c : (c = a \/ c = b) /\ DrainEnds(z) = Reschedule(c)
  <2>1. DrainEnds(z) = Reschedule(IF /\ x.queue # <<>> /\ ~z.flight.force /\ ~Gated(x)
                                  THEN a ELSE b)
    BY Zenon DEF DrainEnds, Free
  <2> QED BY <2>1, Zenon
<1> HIDE DEF x
<1>3. Good(x) /\ Made(x) /\ x.engine = z.engine
  BY <1>1 DEF x, Kept
<1>4. Kept(x, a, {}) /\ Kept(x, b, {"phase"}) /\ Good(b)
  BY <1>3, KeptSet, GoodFinish
<1> HIDE DEF a, b
<1>5. Good(a)
  BY <1>3, <1>4, GoodKept
<1>6. a.engine = z.engine /\ b.engine = z.engine
  BY <1>3, <1>4 DEF Kept
<1>7. PICK c : (c = a \/ c = b) /\ DrainEnds(z) = Reschedule(c)
  BY <1>2
<1>8. Good(c) /\ c.engine = z.engine
  BY <1>4, <1>5, <1>6, <1>7
<1>9. Good(Reschedule(c)) /\ Kept(c, Reschedule(c), {})
  BY <1>8, GoodReschedule
<1>10. Reschedule(c).engine = c.engine
  BY <1>9 DEF Kept
<1> QED BY <1>7, <1>8, <1>9, <1>10

\* The rest of what a drain came for is on the grid of the worker.
OnGrid(q, left, g) == \A i \in 1..left : q[i].grid = g

\* What a drain may take up to the next fence was printed for the worker's grid.
LEMMA GriddedFlight ==
  ASSUME NEW f \in Fence, NEW last \in Nat, NEW r \in Nat, NEW q \in Seq(Byte), NEW c \in Nat,
         GriddedOf(last, f, r, q, c), NEW left \in Nat, left <= Len(q),
         f = NoFence \/ (~f.posted /\ c + left = f.end)
  PROVE  OnGrid(q, left, last)
<1>1. Len(q) \in Nat /\ DOMAIN q = 1..Len(q) /\ \A i \in 1..Len(q) : q[i].grid \in Nat
  BY QueueFacts
<1>2. ASSUME NEW i \in 1..left
      PROVE  q[i].grid = last
  <2>1. i \in DOMAIN q /\ i \in Nat /\ i <= left
    BY <1>1
  <2>2. CASE f = NoFence
    BY <2>1, <2>2 DEF GriddedOf
  <2>3. CASE f # NoFence /\ ~f.posted /\ c + left = f.end
    <3>1. f.grid \in Nat /\ f.end \in Nat
      BY FenceTypes
    <3>2. f.grid = last + 1
      BY <2>3 DEF GriddedOf
    <3>3. c + i <= f.end
      BY <2>1, <2>3, <3>1
    <3>4. f.grid <= q[i].grid + 1 /\ q[i].grid < f.grid
      BY <2>1, <2>3, <3>3 DEF GriddedOf
    <3>5. q[i].grid \in Nat
      BY <1>1, <2>1
    <3> QED BY <3>1, <3>2, <3>4, <3>5, OneBelow
  <2> QED BY <2>2, <2>3
<1> QED BY <1>2 DEF OnGrid

\* The drain goes on with what is left.
LEMMA GoodDrainGoesOn ==
  ASSUME NEW z, Made(z), NEW x, x = Free(z), Good(x), x.engine.lane = <<>>, ~x.engine.failed,
         FreshBytes(x.queue),
         NEW n \in Nat, NEW left \in Nat, z.flight.n = n, z.flight.left = left,
         n <= left, left - n <= Len(x.queue), z.flight.force \in BOOLEAN,
         z.flight.force => x.fence # NoFence /\ ~x.fence.posted
                           /\ x.count + (left - n) = x.fence.end,
         NEW u \in DrainGoesOn(z)
  PROVE  Good(u) /\ ~LaneAsks(u.engine.lane, "grid")
<1>1. PICK force, m : force = z.flight.force /\ m = left - n
  OBVIOUS
<1>2. /\ z.queue # <<>> /\ (force \/ ~Gated(z)) /\ left # n
      /\ \E s \in Write(z, force, m) : u = IF s.flight = NoFlight THEN Reschedule(s) ELSE s
  BY <1>1, Zenon DEF DrainGoesOn
<1>3. Kept(z, x, {"flight"}) /\ x.flight = NoFlight
  BY KeptFree
<1>4. x.queue = z.queue /\ x.fence = z.fence /\ x.geometry = z.geometry
  BY <1>3 DEF Kept
<1>5. PICK s \in Write(x, force, m) : u = IF s.flight = NoFlight THEN Reschedule(s) ELSE s
  <2>1. Write(z, force, m) = Write(x, force, m)
    BY WriteFree
  <2> QED BY <1>2, <2>1, Zenon
<1>6. /\ x.fence \in Fence /\ x.engine.grid \in Nat /\ x.resizes \in Nat /\ x.queue \in Seq(Byte)
      /\ x.count \in Nat
  BY GoodTypes
<1>7. m \in Nat /\ m <= Len(x.queue) /\ m \in 1..Len(x.queue)
  BY <1>1, <1>2, <1>6, QueueFacts
<1>8. LastOf(x.engine) = x.engine.grid
  BY EmptyFacts DEF LastOf
<1>9. Bound(x)
  BY <1>2, <1>4 DEF Bound, BoundTo
<1>10. GriddedOf(x.engine.grid, x.fence, x.resizes, x.queue, x.count)
  BY <1>8, <1>9 DEF Good, Gridded
<1>11. force => x.fence # NoFence /\ ~x.fence.posted /\ x.count + m = x.fence.end
  BY <1>1
<1>12. x.fence = NoFence \/ (~x.fence.posted /\ x.count + m = x.fence.end)
  BY <1>2, <1>4, <1>11 DEF Gated
<1>13. \A i \in 1..m : x.queue[i].grid = x.engine.grid
  <2>1. OnGrid(x.queue, m, x.engine.grid)
    BY <1>6, <1>7, <1>10, <1>12, GriddedFlight
  <2> QED BY <2>1 DEF OnGrid
<1>14. force \in BOOLEAN /\ x.queue # <<>>
  BY <1>1, <1>2, <1>4
<1>15. Good(s) /\ ~LaneAsks(s.engine.lane, "grid")
  BY <1>3, <1>5, <1>7, <1>11, <1>13, <1>14, GoodWrite
<1>16. Good(Reschedule(s)) /\ Kept(s, Reschedule(s), {})
  BY <1>15, GoodReschedule
<1>17. Reschedule(s).engine = s.engine
  BY <1>16 DEF Kept
<1> QED BY <1>5, <1>15, <1>16, <1>17

\* A write is answered.
LEMMA GoodWriteDone ==
  ASSUME NEW w, Good(w), IsWrite(w.engine.lane), ~w.engine.lane[1].old,
         NEW v \in WriteDone(w, w.engine.lane[1])
  PROVE  Good(v)
<1> DEFINE a == WriteParsed(w)
           p == Pop(a)
           z == TrySend(p)
           y == Free(p)
           x == TrySend(y)
           s == Free(a)
<1>1. /\ Kept(w, a, {"engine"}) /\ WorkerMade(a.engine) /\ a.engine.lane = <<>>
      /\ a.engine.failed = w.engine.failed
      /\ a.engine.base = w.engine.base /\ a.engine.grid = w.engine.grid
      /\ a.engine.screen = w.engine.screen \o ParsedBytes(w.engine.lane[1].bytes, w.engine.grid)
  BY WorkerParsed
<1>2. w.flight # NoFlight
  BY DEF Good, Lanes, LanesOf
<1>3. /\ w.flight.stale => v = FenceGoesOn(Reschedule(s))
      /\ ~w.flight.stale => \E u \in {DrainEnds(z)} \cup DrainGoesOn(z) : v = FenceGoesOn(u)
  <2>1. v \in IF w.flight = NoFlight THEN {a}
              ELSE IF w.flight.stale THEN {FenceGoesOn(Reschedule(s))}
              ELSE {FenceGoesOn(u) : u \in {DrainEnds(Popped(a))} \cup DrainGoesOn(Popped(a))}
    BY Zenon DEF WriteDone, WriteParsed, ParsedBytes, Free
  <2>2. Popped(a) = z
    BY PoppedIs, Zenon
  <2> QED BY <1>2, <2>1, <2>2, Zenon
<1> HIDE DEF a
<1>4. Made(a) /\ a.flight = w.flight /\ a.queue = w.queue /\ a.count = w.count
  BY <1>1 DEF Kept
<1>5. Kept(a, s, {"flight"}) /\ s.flight = NoFlight
  BY <1>4, KeptFree
<1>6. CASE w.flight.stale
  <2> HIDE DEF s
  <2>1. s.engine = a.engine
    BY <1>5 DEF Kept
  <2>2. Kept(w, s, {} \cup {"engine", "flight"})
    BY <1>1, <1>5 DEF Kept
  <2>3. Landed(w, s, {})
    BY <1>1, <1>5, <2>1, <2>2 DEF Landed
  <2>4. Good(s)
    BY <1>6, <2>3, GoodStale
  <2>5. Good(Reschedule(s)) /\ Kept(s, Reschedule(s), {})
    BY <2>4, GoodReschedule
  <2>6. Reschedule(s).engine.lane = <<>>
    BY <1>1, <2>1, <2>5 DEF Kept
  <2>7. Good(FenceGoesOn(Reschedule(s)))
    BY <2>5, <2>6, GoodFenceGoesOn, EmptyFacts
  <2> QED BY <1>3, <1>6, <2>7
<1>7. CASE ~w.flight.stale
  <2>1. /\ Kept(a, p, {"queue", "applied", "count"})
        /\ p.queue = SubSeq(a.queue, a.flight.n + 1, Len(a.queue))
        /\ p.applied = a.queue[a.flight.n].at
        /\ p.count = a.count + a.flight.n
    BY <1>4, KeptPop
  <2> HIDE DEF p, s
  <2>2. Made(p) /\ p.flight = w.flight /\ p.engine = a.engine
    BY <1>4, <2>1 DEF Kept
  <2>3. Kept(p, y, {"flight"}) /\ y.flight = NoFlight
    BY <2>2, KeptFree
  <2>4. x = Free(z)
    BY <2>2, SentFree
  <2>5. Kept(p, z, {"acked", "bounds"})
    BY <2>2, KeptAcked DEF TrySend
  <2> HIDE DEF y
  <2>6. y.engine = a.engine /\ y.queue = p.queue /\ y.applied = p.applied /\ y.count = p.count
        /\ Kept(w, y, {"queue", "applied", "count"} \cup {"engine", "flight"})
    BY <1>1, <2>1, <2>3 DEF Kept
  <2>7. Landed(w, y, {"queue", "applied", "count"})
    BY <1>1, <2>3, <2>6 DEF Landed
  <2>8. /\ y.queue = SubSeq(w.queue, w.flight.n + 1, Len(w.queue))
        /\ y.applied = w.queue[w.flight.n].at
        /\ y.count = w.count + w.flight.n
    BY <1>4, <2>1, <2>6
  <2>9. Good(y)
    BY <1>7, <2>7, <2>8, GoodPopped
  <2>10. Good(x) /\ Kept(y, x, {"acked", "bounds"})
    BY <2>9, GoodTrySend
  <2> HIDE DEF x, z
  <2>11. /\ x.engine = a.engine /\ x.queue = y.queue /\ x.count = y.count
         /\ x.fence = w.fence
    BY <2>6, <2>10 DEF Kept
  <2>12. Made(z) /\ z.flight = w.flight /\ z.engine = a.engine
    BY <2>2, <2>5 DEF Kept
  <2>13. PICK u \in {DrainEnds(z)} \cup DrainGoesOn(z) : v = FenceGoesOn(u)
    BY <1>3, <1>7
  <2>14. CASE u = DrainEnds(z)
    <3>1. Good(u) /\ u.engine = z.engine
      BY <2>4, <2>10, <2>12, <2>14, GoodDrainEnds
    <3>2. u.engine.lane = <<>>
      BY <1>1, <2>12, <3>1
    <3> QED BY <2>13, <3>1, <3>2, GoodFenceGoesOn, EmptyFacts
  <2>15. CASE u \in DrainGoesOn(z)
    <3>1. PICK n, left, q : n = w.flight.n /\ left = w.flight.left /\ q = w.queue
      OBVIOUS
    <3>2. /\ q \in Seq(Byte) /\ n \in 1..Len(q) /\ left \in Nat /\ n <= left /\ left <= Len(q)
          /\ FreshBytes(q) /\ ~w.engine.failed
          /\ w.flight.force \in BOOLEAN
          /\ w.flight.force => w.fence # NoFence /\ ~w.fence.posted
                               /\ w.count + left = w.fence.end
      BY <1>7, <3>1, FlightFacts
    <3>3. Len(q) \in Nat /\ n \in Nat /\ n \in 0..Len(q) /\ w.count \in Nat
      BY <3>2, QueueFacts, GoodTypes
    <3>4. x.queue = Rest(q, n) /\ x.count = w.count + n
      BY <2>8, <2>11, <3>1 DEF Rest
    <3>5. IsRest(x.queue, q, n)
      BY <3>2, <3>3, <3>4, RestFacts
    <3>6. FreshBytes(x.queue)
      BY <3>2, <3>5, Zenon DEF IsRest, FreshBytes
    <3>7. left - n <= Len(x.queue)
      <4>1. Len(x.queue) = Len(q) - n
        BY <3>5 DEF IsRest
      <4> QED BY <3>2, <3>3, <4>1
    <3>8. w.count + left = (w.count + n) + (left - n)
      BY <3>2, <3>3
    <3>9. w.flight.force => x.fence # NoFence /\ ~x.fence.posted
                            /\ x.count + (left - n) = x.fence.end
      BY <2>11, <3>2, <3>4, <3>8
    <3>10. x.engine.lane = <<>> /\ ~x.engine.failed
      BY <1>1, <2>11, <3>2
    <3>11. /\ z.flight.n = n /\ z.flight.left = left /\ z.flight.force = w.flight.force
      BY <2>12, <3>1
    <3>12. Good(u) /\ ~LaneAsks(u.engine.lane, "grid")
      BY <2>4, <2>10, <2>12, <2>15, <3>2, <3>3, <3>6, <3>7, <3>9, <3>10, <3>11, GoodDrainGoesOn
    <3> QED BY <2>13, <3>12, GoodFenceGoesOn
  <2> QED BY <2>13, <2>14, <2>15
<1> QED BY <1>6, <1>7

\* The worker answers.
LEMMA GoodReply ==
  ASSUME Good(pane), Reply
  PROVE  Good(pane')
<1>1. PICK l, r, v : l = pane.engine.lane /\ r = pane.engine.lane[1] /\ v = pane'
  OBVIOUS
<1>2. Lane(l) /\ l # <<>>
  BY <1>1, GoodTypes DEF Reply
<1>3. Head(l) = r
  BY <1>1, <1>2, WriteFacts, GridFacts, RestoreFacts DEF Lane
<1>4. v \in CASE r.op = "restore" -> RestoreDone(pane, r)
              [] r.op # "restore" /\ r.old -> EngineFails(pane)
              [] r.op = "grid" /\ ~r.old -> GridDone(pane, r)
              [] r.op = "write" /\ ~r.old -> WriteDone(pane, r)
  BY <1>1, <1>3, Zenon DEF Reply
<1>5. CASE IsRestore(l)
  <2>1. r.op = "restore"
    BY <1>1, <1>5, RestoreFacts
  <2>2. v \in RestoreDone(pane, r)
    BY <1>4, <2>1
  <2> QED BY <1>1, <1>5, <2>2, GoodRestoreDone
<1>6. CASE IsGrid(l)
  <2>1. r.op = "grid" /\ r.old \in BOOLEAN
    BY <1>1, <1>6, GridFacts
  <2>2. v \in EngineFails(pane) \/ v \in GridDone(pane, r)
    BY <1>4, <2>1
  <2> QED BY <1>1, <1>6, <2>2, GoodGridDone, GoodEngineFails
<1>7. CASE IsWrite(l)
  <2>1. r.op = "write" /\ r.old \in BOOLEAN
    BY <1>1, <1>7, WriteFacts
  <2>2. v \in EngineFails(pane) \/ (~r.old /\ v \in WriteDone(pane, r))
    BY <1>4, <2>1
  <2> QED BY <1>1, <1>7, <2>2, GoodWriteDone, GoodEngineFails
<1> QED BY <1>2, <1>5, <1>6, <1>7 DEF Lane

-----------------------------------------------------------------------------
\* The actions that give the stream up.

\* A fault that is counted.
LEMMA KeptBlamed == ASSUME NEW w, Made(w) PROVE Kept(w, Blamed(w), {})
BY DEF Blamed, Made, Fields, Kept

\* A stream that is given up, with the flush that follows it.
LEMMA GoodDetachedFlush ==
  ASSUME NEW w, Good(w), NEW v \in Flush(Detached(w))
  PROVE  Good(v)
<1> DEFINE d == Detached(w)
<1>1. Kept(w, d, {"stage", "phase"}) /\ d.stage = "closed" /\ d.phase = "idle"
  BY GoodTypes, KeptDetached
<1> HIDE DEF d
<1>2. Good(d)
  BY <1>1, GoodDetached
<1> QED BY <1>2, GoodFlush DEF d

\* A pane that prints keeps the invariant.
LEMMA GoodProduce ==
  ASSUME Good(pane), Produce
  PROVE  Good(pane')
<1>1. PICK h, v : h = pane.hist + 1 /\ v = pane'
  OBVIOUS
<1>2. v = [pane EXCEPT !.hist = h]
  BY <1>1, Zenon DEF Produce
<1>3. Made(pane) /\ pane.hist \in Nat
  BY GoodTypes
<1>4. Kept(pane, v, {"hist"}) /\ v.hist = h
  BY <1>2, <1>3 DEF Made, Fields, Kept
<1>5. /\ Made(v) /\ v.stage = pane.stage /\ v.sent = pane.sent
      /\ v.acked = pane.acked /\ v.turn = pane.turn /\ v.resizes = pane.resizes
      /\ v.phase = pane.phase
      /\ v.target = pane.target /\ v.received = pane.received /\ v.applied = pane.applied
      /\ v.queue = pane.queue /\ v.count = pane.count /\ v.bounds = pane.bounds
      /\ v.flight = pane.flight /\ v.failed = pane.failed /\ v.geometry = pane.geometry
      /\ v.fence = pane.fence /\ v.engine = pane.engine
  BY <1>4 DEF Kept
<1>h. v.hist \in Nat
  BY <1>1, <1>3, <1>4
<1>6. Typed(v)
  BY <1>h, <1>5 DEF Good, Typed
<1>7. Lanes(v) /\ Stages(v) /\ Written(v) /\ Parsing(v.engine) /\ Placed(v)
      /\ Bounded(v.bounds, v.turn, v.sent) /\ Gridded(v)
  BY <1>5, Zenon DEF Good, Lanes, Stages, Written, Placed, Gridded, Bound
<1>8. Good(v)
  BY <1>6, <1>7 DEF Good
<1> QED BY <1>1, <1>8

\* So does a worker that fails,
LEMMA GoodWorkerFails ==
  ASSUME Good(pane), WorkerFails
  PROVE  Good(pane')
<1>1. Good(Blamed(pane))
  BY GoodTypes, KeptBlamed, GoodKept
<1> QED BY <1>1, GoodEngineFails DEF WorkerFails

\* a stream that ends,
LEMMA GoodDisconnect ==
  ASSUME Good(pane), Disconnect
  PROVE  Good(pane')
<1>1. Good(Blamed(pane))
  BY GoodTypes, KeptBlamed, GoodKept
<1> QED BY <1>1, GoodDetachedFlush DEF Disconnect

\* one that is closed because its replay does not get on,
LEMMA GoodAttachTimeout ==
  ASSUME Good(pane), AttachTimeout
  PROVE  Good(pane')
BY GoodDetachedFlush DEF AttachTimeout

\* a flush that was scheduled,
LEMMA GoodPump ==
  ASSUME Good(pane), Pump
  PROVE  Good(pane')
<1>1. PICK v : v = [pane EXCEPT !.scheduled = FALSE]
  BY Zenon
<1>2. Kept(pane, v, {})
  BY <1>1, GoodTypes, KeptFlush
<1>3. Good(v)
  BY <1>2, GoodKept
<1>4. pane' \in Flush(v)
  BY <1>1, Zenon DEF Pump
<1> QED BY <1>3, <1>4, GoodFlush

\* a recovery that ends,
LEMMA KeptRecovering ==
  ASSUME NEW w, Made(w)
  PROVE  Kept(w, [w EXCEPT !.recovering = FALSE], {})
<1>1. PICK t : t = FALSE
  BY Zenon
<1>2. PICK v : v = [w EXCEPT !.recovering = t]
  OBVIOUS
<1>3. Kept(w, v, {})
  BY <1>2 DEF Made, Fields, Kept
<1> QED BY <1>1, <1>2, <1>3, Zenon

\* because the pane was presented,
LEMMA GoodPresented ==
  ASSUME Good(pane), Presented
  PROVE  Good(pane')
<1>1. PICK v : v = [pane EXCEPT !.recovering = FALSE]
  BY Zenon
<1>2. Kept(pane, v, {})
  BY <1>1, GoodTypes, KeptRecovering
<1>3. pane' = v
  BY <1>1, Zenon DEF Presented
<1> QED BY <1>2, <1>3, GoodKept

\* or because it stalled.
LEMMA GoodStalled ==
  ASSUME Good(pane), Stalled
  PROVE  Good(pane')
<1>1. PICK v : v = [pane EXCEPT !.recovering = FALSE]
  BY Zenon
<1>2. Kept(pane, v, {})
  BY <1>1, GoodTypes, KeptRecovering
<1>3. Good(v) /\ Made(v)
  BY <1>2, GoodKept DEF Kept
<1>4. Kept(v, HealthFail(v), {})
  BY <1>3, KeptHealthFail
<1>5. pane' = HealthFail(v)
  BY <1>1, Zenon DEF Stalled
<1> QED BY <1>3, <1>4, <1>5, GoodKept

\* A stream that is given up with all its output.
LEMMA GoodIdle ==
  ASSUME NEW v, Typed(v), v.stage = "closed", v.phase = "idle", v.queue = <<>>,
         v.received <= v.sent, Bounded(v.bounds, v.turn, v.sent), Parsing(v.engine),
         Lanes(v), Written(v)
  PROVE  Good(v)
<1>1. ~Bound(v) /\ ~BoundTo(v.phase, v.queue)
  BY DEF Bound, BoundTo
<1>2. Stages(v)
  BY DEF Stages, StagesOf, FreshBytes
<1>3. Placed(v) /\ Gridded(v)
  BY <1>1 DEF Placed, PlacedOf, Gridded
<1> QED BY <1>2, <1>3 DEF Good

\* What Discard makes of the write the drain waits for.
StaleFlight(f) == IF f = NoFlight THEN NoFlight ELSE [f EXCEPT !.stale = TRUE]

\* It waits as before, for a write of the past.
LEMMA StaleFacts ==
  ASSUME NEW f \in Flight
  PROVE  /\ StaleFlight(f) \in Flight
         /\ StaleFlight(f) # NoFlight <=> f # NoFlight
         /\ f # NoFlight => StaleFlight(f).stale
<1>1. CASE f = NoFlight
  BY <1>1, NothingTyped DEF StaleFlight
<1>2. CASE f # NoFlight
  <2>1. PICK t : t = TRUE
    OBVIOUS
  <2>2. PICK g : g = [f EXCEPT !.stale = t]
    OBVIOUS
  <2>3. g \in Flight /\ g.stale = t
    BY <2>1, <2>2 DEF Flight
  <2>4. g = StaleFlight(f)
    BY <1>2, <2>1, <2>2, Zenon DEF StaleFlight
  <2>5. g.stale /\ ~NoFlight.stale
    BY <2>1, <2>3 DEF NoFlight
  <2> QED BY <1>2, <2>3, <2>4, <2>5
<1> QED BY <1>1, <1>2

\* A state in which the stream is given up and its output discarded.
Gone == {"stage", "phase", "queue", "count", "bounds", "failed", "flight"}
Given(w, v, F) ==
    /\ Kept(w, v, Gone \cup F)
    /\ v.stage = "closed" /\ v.phase = "idle" /\ v.queue = <<>> /\ v.count = 0
    /\ v.bounds = <<>> /\ v.failed = FALSE

\* What Discard clears.
LEMMA KeptDiscard ==
  ASSUME NEW w, Made(w)
  PROVE  LET v == Discard(w) IN
         /\ Kept(w, v, {"queue", "count", "bounds", "failed", "flight"})
         /\ v.queue = <<>> /\ v.count = 0 /\ v.bounds = <<>> /\ v.failed = FALSE
         /\ v.flight = StaleFlight(w.flight)
<1>1. PICK l, b, t, f : l = <<>> /\ b = "none" /\ t = FALSE /\ f = StaleFlight(w.flight)
  BY Zenon
<1>c. PICK c : c = 0
  OBVIOUS
<1>u. PICK u : u = [w EXCEPT !.queue = l, !.batch = b, !.count = c, !.bounds = l]
  OBVIOUS
<1>2. PICK v : v = [u EXCEPT !.scheduled = t, !.failed = t, !.flight = f]
  OBVIOUS
<1>k. /\ Kept(w, u, {"queue", "count", "bounds"})
      /\ u.queue = l /\ u.count = c /\ u.bounds = l
  BY <1>u DEF Made, Fields, Kept
<1>m. Made(u)
  BY <1>k DEF Kept
<1>n. Kept(u, v, {"failed", "flight"}) /\ v.failed = t /\ v.flight = f
  BY <1>2, <1>m DEF Made, Fields, Kept
<1>3. /\ Kept(w, v, {"queue", "count", "bounds", "failed", "flight"})
      /\ v.queue = l /\ v.count = c /\ v.bounds = l /\ v.failed = t /\ v.flight = f
  BY <1>k, <1>n DEF Kept
<1>4. v = Discard(w)
  <2>1. [w EXCEPT !.queue = <<>>, !.batch = "none", !.count = 0, !.bounds = <<>>,
                  !.scheduled = FALSE, !.failed = FALSE,
                  !.flight = IF @ = NoFlight THEN NoFlight ELSE [@ EXCEPT !.stale = TRUE]]
        = [w EXCEPT !.queue = <<>>, !.batch = "none", !.count = 0, !.bounds = <<>>,
                  !.scheduled = FALSE, !.failed = FALSE, !.flight = StaleFlight(w.flight)]
    BY DEF Made, Fields, StaleFlight
  <2> QED BY <1>1, <1>2, <1>c, <1>u, <2>1, Zenon DEF Discard
<1> QED BY <1>1, <1>3, <1>4, <1>c, Zenon

\* A fresh worker, field by field.
LEMMA EngineFacts ==
  /\ WorkerMade(Engine) /\ Engine.failed \in BOOLEAN /\ Engine.lane = <<>>
  /\ Engine.base \in Nat /\ Engine.screen = <<>> /\ Engine.grid \in Nat
  /\ Engine.screen \in Seq(Parse) /\ Parsing(Engine) /\ Engine.base = 0 /\ ~Engine.failed
<1>1. PICK l, t : l = <<>> /\ t = FALSE
  BY Zenon
<1>2. Engine = [failed |-> t, lane |-> l, base |-> 0, screen |-> l, grid |-> 0]
  BY <1>1, Zenon DEF Engine
<1>3. /\ WorkerMade(Engine) /\ Engine.failed = t /\ Engine.lane = l
      /\ Engine.base = 0 /\ Engine.screen = l /\ Engine.grid = 0
  BY <1>2 DEF WorkerMade
<1>4. l = <<>> /\ l \in Seq(Parse)
  BY <1>1, NothingTyped
<1>5. Parsing(Engine)
  BY <1>3, <1>4 DEF Parsing
<1>6. Engine.failed \in BOOLEAN /\ ~Engine.failed
  BY <1>1, <1>3, Zenon
<1>7. Engine.lane = <<>> /\ Engine.screen = <<>> /\ Engine.screen \in Seq(Parse)
  BY <1>3, <1>4, Zenon
<1>8. Engine.base \in Nat /\ Engine.grid \in Nat
  BY <1>3
<1> QED BY <1>3, <1>5, <1>6, <1>7, <1>8, Zenon

\* The worker may still be parsing what was given up.
LEMMA GoodGiven ==
  ASSUME NEW w, Good(w), NEW v, Given(w, v, {}), v.flight = StaleFlight(w.flight)
  PROVE  Good(v)
<1>1. /\ Made(v) /\ v.hist = w.hist /\ v.sent = w.sent
      /\ v.acked = w.acked /\ v.turn = w.turn /\ v.resizes = w.resizes
      /\ v.target = w.target /\ v.received = w.received /\ v.applied = w.applied
      /\ v.geometry = w.geometry
      /\ v.fence = w.fence /\ v.engine = w.engine
      /\ v.stage = "closed" /\ v.phase = "idle" /\ v.queue = <<>> /\ v.count = 0
      /\ v.bounds = <<>> /\ v.failed = FALSE
  BY DEF Given, Gone, Kept
<1>2. w.flight \in Flight /\ v.flight \in Flight /\ (v.flight # NoFlight <=> w.flight # NoFlight)
      /\ (w.flight # NoFlight => v.flight.stale)
  BY GoodTypes, StaleFacts
<1>3. Typed(v)
  <2>1. /\ v.queue \in Seq(Byte) /\ v.bounds \in Seq(Nat) /\ v.failed \in BOOLEAN
        /\ v.stage \in {"closed", "attach", "replay", "live"}
        /\ v.phase \in {"idle", "replaying", "awaiting", "committed"}
    BY <1>1, NothingTyped, Zenon
  <2>2. v.count \in Nat
    BY <1>1
  <2>4. v.hist \in Nat /\ v.sent \in Nat /\ v.acked \in Nat /\ v.turn \in Nat
        /\ v.resizes \in Nat /\ v.target \in Nat /\ v.received \in Nat /\ v.applied \in Nat
    BY <1>1, GoodTypes, Zenon
  <2>5. /\ v.fence \in Fence /\ v.geometry \in BOOLEAN
        /\ WorkerMade(v.engine) /\ v.engine.failed \in BOOLEAN /\ v.engine.base \in Nat
        /\ v.engine.screen \in Seq(Parse) /\ v.engine.grid \in Nat
    BY <1>1, Zenon DEF Good, Typed
  <2> QED BY <1>1, <1>2, <2>1, <2>2, <2>4, <2>5, Zenon DEF Typed
<1>4. ~Bound(v)
  BY <1>1 DEF Bound, BoundTo
<1>5. Lanes(v)
  BY <1>1, <1>2, <1>4 DEF Good, Lanes, LanesOf
<1>6. Written(v)
  <2>1. ASSUME IsWrite(w.engine.lane) PROVE v.flight.stale
    BY <1>2, <2>1 DEF Good, Lanes, LanesOf
  <2>2. WrittenOf(w.engine, w.flight, w.queue, w.count, w.fence, Bound(w))
    BY DEF Good, Written
  <2>3. WrittenOf(w.engine, v.flight, v.queue, v.count, v.fence, Bound(v))
    BY <1>4, <2>1, <2>2, Zenon DEF WrittenOf
  <2> QED BY <1>1, <2>3 DEF Written
<1>7. v.received <= v.sent /\ Parsing(v.engine)
  BY <1>1 DEF Good, Stages, StagesOf
<1>8. Bounded(v.bounds, v.turn, v.sent)
  <2>1. v.turn <= v.sent
    BY <1>1 DEF Good, Bounded
  <2> QED BY <1>1, <2>1 DEF Bounded
<1> QED BY <1>1, <1>3, <1>5, <1>6, <1>7, <1>8, GoodIdle

\* A worker that has nothing to do.
LEMMA GoodGivenUp ==
  ASSUME NEW w, Good(w), NEW v, Given(w, v, {"geometry", "fence", "engine"}),
         v.geometry \in BOOLEAN, v.fence = NoFence, v.flight = NoFlight,
         WorkerMade(v.engine), v.engine.failed \in BOOLEAN, v.engine.lane = <<>>,
         v.engine.base \in Nat, v.engine.screen \in Seq(Parse), v.engine.grid \in Nat,
         Parsing(v.engine)
  PROVE  Good(v)
<1>1. /\ Made(v) /\ v.hist = w.hist /\ v.sent = w.sent
      /\ v.acked = w.acked /\ v.turn = w.turn /\ v.resizes = w.resizes
      /\ v.target = w.target /\ v.received = w.received /\ v.applied = w.applied
      /\ v.stage = "closed" /\ v.phase = "idle" /\ v.queue = <<>> /\ v.count = 0
      /\ v.bounds = <<>> /\ v.failed = FALSE
  BY DEF Given, Gone, Kept
<1>2. Lane(<<>>) /\ ~IsWrite(<<>>) /\ ~IsRestore(<<>>) /\ ~LaneAsks(<<>>, "grid")
  BY EmptyFacts DEF Lane
<1>3. Typed(v)
  <2>1. /\ v.queue \in Seq(Byte) /\ v.bounds \in Seq(Nat) /\ v.failed \in BOOLEAN
        /\ v.stage \in {"closed", "attach", "replay", "live"}
        /\ v.phase \in {"idle", "replaying", "awaiting", "committed"}
        /\ v.fence \in Fence /\ v.flight \in Flight
    BY <1>1, NothingTyped, Zenon
  <2>2. v.count \in Nat
    BY <1>1
  <2>3. v.hist \in Nat /\ v.sent \in Nat /\ v.acked \in Nat /\ v.turn \in Nat
        /\ v.resizes \in Nat /\ v.target \in Nat /\ v.received \in Nat /\ v.applied \in Nat
    BY <1>1, GoodTypes, Zenon
  <2> QED BY <1>1, <2>1, <2>2, <2>3, Zenon DEF Typed
<1>4. Lanes(v)
  BY <1>2 DEF Lanes, LanesOf
<1>5. Written(v)
  BY <1>2, Zenon DEF Written, WrittenOf
<1>7. v.received <= v.sent
  BY <1>1 DEF Good, Stages, StagesOf
<1>8. Bounded(v.bounds, v.turn, v.sent)
  <2>1. v.turn <= v.sent
    BY <1>1 DEF Good, Bounded
  <2> QED BY <1>1, <2>1 DEF Bounded
<1> QED BY <1>1, <1>3, <1>4, <1>5, <1>7, <1>8, GoodIdle

\* A message of another stream.
LEMMA GoodMisrouted ==
  ASSUME Good(pane), Misrouted
  PROVE  Good(pane')
<1> DEFINE b == Blamed(pane)
           c == Discard(b)
           d == Detached(c)
<1>1. Kept(pane, b, {})
  BY GoodTypes, KeptBlamed
<1> HIDE DEF b
<1>2. Good(b) /\ Made(b)
  BY <1>1, GoodKept DEF Kept
<1>3. /\ Kept(b, c, {"queue", "count", "bounds", "failed", "flight"})
      /\ c.queue = <<>> /\ c.count = 0 /\ c.bounds = <<>> /\ c.failed = FALSE
      /\ c.flight = StaleFlight(b.flight)
  BY <1>2, KeptDiscard
<1> HIDE DEF c
<1>4. Made(c)
  BY <1>3 DEF Kept
<1>5. Kept(c, d, {"stage", "phase"}) /\ d.stage = "closed" /\ d.phase = "idle"
  BY <1>4, KeptDetached
<1> HIDE DEF d
<1>6. Given(b, d, {}) /\ d.flight = StaleFlight(b.flight)
  BY <1>3, <1>5 DEF Given, Gone, Kept
<1>7. Good(d)
  BY <1>2, <1>6, GoodGiven
<1>8. pane' \in Flush(d)
  BY Zenon DEF Misrouted, b, c, d
<1> QED BY <1>7, <1>8, GoodFlush

\* A worker that is replaced.
LEMMA KeptRestarted ==
  ASSUME NEW w, Made(w)
  PROVE  LET v == Restarted(w) IN
         Kept(w, v, {"engine", "flight"}) /\ v.engine = Engine /\ v.flight = NoFlight
<1>1. PICK e, n : e = Engine /\ n = NoFlight
  OBVIOUS
<1>2. PICK v : v = [w EXCEPT !.engine = e, !.flight = n]
  OBVIOUS
<1>3. Kept(w, v, {"engine", "flight"}) /\ v.engine = e /\ v.flight = n
  BY <1>2 DEF Made, Fields, Kept
<1> QED BY <1>1, <1>2, <1>3, Zenon DEF Restarted

\* The restart that was armed.
LEMMA GoodHealthTimer ==
  ASSUME Good(pane), HealthTimer
  PROVE  Good(pane') /\ pane'.queue = <<>>
<1> DEFINE d == Detached(pane)
           u == [d EXCEPT !.timer = FALSE, !.recovering = TRUE, !.geometry = FALSE,
                          !.broken = FALSE, !.fence = NoFence, !.fenceTask = FALSE]
           w == Discard(u)
           x == Restarted(w)
<1>0. pane' = IF w.engine.failed \/ w.engine.lane # <<>> THEN x ELSE w
  BY Zenon DEF HealthTimer
<1>1. Kept(pane, d, {"stage", "phase"}) /\ d.stage = "closed" /\ d.phase = "idle"
  BY GoodTypes, KeptDetached
<1> HIDE DEF d
<1>2. Made(d)
  BY <1>1 DEF Kept
<1>3. Kept(d, u, {"geometry", "fence"}) /\ u.geometry = FALSE /\ u.fence = NoFence
  <2>1. PICK t, y : t = TRUE /\ y = FALSE
    BY Zenon
  <2>2. PICK n : n = NoFence
    OBVIOUS
  <2>3. PICK a : a = [d EXCEPT !.timer = y, !.recovering = t, !.geometry = y]
    OBVIOUS
  <2>4. PICK b : b = [a EXCEPT !.broken = y, !.fence = n, !.fenceTask = y]
    OBVIOUS
  <2>5. Kept(d, a, {"geometry"}) /\ a.geometry = y
    BY <1>2, <2>3 DEF Made, Fields, Kept
  <2>6. Made(a)
    BY <2>5 DEF Kept
  <2>7. Kept(a, b, {"fence"}) /\ b.fence = n
    BY <2>4, <2>6 DEF Made, Fields, Kept
  <2>8. Kept(d, b, {"geometry", "fence"}) /\ b.geometry = y /\ b.fence = n
    BY <2>5, <2>7 DEF Kept
  <2> QED BY <2>1, <2>2, <2>3, <2>4, <2>8, Zenon
<1> HIDE DEF u
<1>4. Made(u)
  BY <1>3 DEF Kept
<1>5. /\ Kept(u, w, {"queue", "count", "bounds", "failed", "flight"})
      /\ w.queue = <<>> /\ w.count = 0 /\ w.bounds = <<>> /\ w.failed = FALSE
      /\ w.flight = StaleFlight(u.flight)
  BY <1>4, KeptDiscard
<1> HIDE DEF w
<1>6. /\ Made(w) /\ w.engine = pane.engine /\ u.flight = pane.flight
      /\ w.geometry = FALSE /\ w.fence = NoFence
  BY <1>1, <1>3, <1>5 DEF Kept
<1>7. Given(pane, w, {"geometry", "fence", "engine"})
  BY <1>1, <1>3, <1>5 DEF Given, Gone, Kept
<1>8. Kept(w, x, {"engine", "flight"}) /\ x.engine = Engine /\ x.flight = NoFlight
  BY <1>6, KeptRestarted
<1> HIDE DEF x
<1>9. CASE w.engine.failed \/ w.engine.lane # <<>>
  <2>1. Given(pane, x, {"geometry", "fence", "engine"}) /\ x.geometry = FALSE /\ x.fence = NoFence
    BY <1>6, <1>7, <1>8 DEF Given, Gone, Kept
  <2>2. Good(x)
    BY <1>8, <2>1, EngineFacts, GoodGivenUp
  <2>3. x.queue = <<>>
    BY <1>5, <1>8 DEF Kept
  <2> QED BY <1>0, <1>9, <2>2, <2>3
<1>10. CASE ~(w.engine.failed \/ w.engine.lane # <<>>)
  <2>1. w.engine.lane = <<>> /\ pane.engine.lane = <<>>
    BY <1>6, <1>10
  <2>2. pane.flight = NoFlight
    BY <2>1, EmptyFacts DEF Good, Lanes, LanesOf
  <2>3. w.flight = NoFlight
    BY <1>5, <1>6, <2>2 DEF StaleFlight
  <2>4. /\ WorkerMade(pane.engine) /\ pane.engine.failed \in BOOLEAN
        /\ pane.engine.base \in Nat /\ pane.engine.screen \in Seq(Parse)
        /\ pane.engine.grid \in Nat /\ Parsing(pane.engine)
    BY GoodTypes DEF Good
  <2>5. Good(w)
    BY <1>6, <1>7, <2>1, <2>3, <2>4, GoodGivenUp
  <2> QED BY <1>0, <1>5, <1>10, <2>5
<1> QED BY <1>9, <1>10

\* What the new epoch leaves behind is of the past: nothing is bound to it.
LEMMA GoodConnected ==
  ASSUME NEW w, Good(w), NEW v,
         Kept(w, v, {"stage", "phase", "bounds", "queue", "geometry", "fence", "engine"}),
         v.stage = "attach", v.phase = "idle", v.bounds = <<>>, v.queue = Older(w.queue),
         v.geometry \in BOOLEAN, v.fence = NoFence, WorkerMade(v.engine),
         v.engine.failed = w.engine.failed, v.engine.lane = Older(w.engine.lane),
         v.engine.base = w.engine.base, v.engine.screen = w.engine.screen,
         v.engine.grid = w.engine.grid
  PROVE  Good(v)
<1>1. /\ Made(v) /\ v.hist = w.hist /\ v.sent = w.sent
      /\ v.acked = w.acked /\ v.turn = w.turn /\ v.resizes = w.resizes
      /\ v.target = w.target /\ v.received = w.received /\ v.applied = w.applied
      /\ v.count = w.count /\ v.flight = w.flight /\ v.failed = w.failed
  BY DEF Kept
<1>2. v.queue \in Seq(Byte) /\ \A i \in DOMAIN v.queue : v.queue[i].old
  BY GoodTypes, OlderBytes
<1>3. v.queue # <<>> => ~FreshBytes(v.queue)
  <2>1. v.queue # <<>> => 1 \in DOMAIN v.queue
    BY <1>2
  <2> QED BY <1>2, <2>1 DEF FreshBytes
<1>4. ~Bound(v) /\ ~BoundTo(v.phase, v.queue)
  BY <1>3 DEF Bound, BoundTo
<1>5. /\ Lane(w.engine.lane) /\ (w.engine.failed => w.engine.lane = <<>>)
      /\ (w.flight # NoFlight <=> IsWrite(w.engine.lane))
      /\ (IsRestore(w.engine.lane) => w.engine.screen = <<>>)
  BY DEF Good, Lanes, LanesOf
<1>6. /\ Lane(v.engine.lane) /\ (IsWrite(w.engine.lane) <=> IsWrite(v.engine.lane))
      /\ (IsRestore(w.engine.lane) <=> IsRestore(v.engine.lane))
      /\ (v.engine.lane = <<>> <=> w.engine.lane = <<>>)
      /\ (v.engine.lane # <<>> => v.engine.lane[1].old)
  BY <1>5, OlderLane
<1>7. Lanes(v)
  <2>1. LaneAsks(v.engine.lane, "grid") => v.engine.lane # <<>>
    BY EmptyFacts
  <2> QED BY <1>1, <1>4, <1>5, <1>6, <2>1, Zenon DEF Lanes, LanesOf
<1>8. Written(v)
  <2>1. IsWrite(v.engine.lane) => v.engine.lane[1].old
    BY <1>6, EmptyFacts, Zenon
  <2> QED BY <2>1, Zenon DEF Written, WrittenOf
<1>9. Stages(v)
  <2>1. w.received <= w.sent
    BY DEF Good, Stages, StagesOf
  <2> QED BY <1>1, <1>2, <2>1 DEF Stages, StagesOf
<1>10. Parsing(v.engine)
  BY DEF Good, Parsing
<1>11. Bounded(v.bounds, v.turn, v.sent)
  <2>1. v.turn <= v.sent
    BY <1>1 DEF Good, Bounded
  <2> QED BY <1>1, <2>1 DEF Bounded
<1>12. Typed(v)
  <2>1. /\ v.bounds \in Seq(Nat) /\ v.fence \in Fence
        /\ v.stage \in {"closed", "attach", "replay", "live"}
        /\ v.phase \in {"idle", "replaying", "awaiting", "committed"}
    BY <1>1, NothingTyped, Zenon
  <2>2. v.hist \in Nat /\ v.sent \in Nat /\ v.acked \in Nat /\ v.turn \in Nat
        /\ v.resizes \in Nat /\ v.target \in Nat /\ v.received \in Nat /\ v.applied \in Nat
        /\ v.count \in Nat /\ v.flight \in Flight
    BY <1>1, GoodTypes, Zenon
  <2>3. /\ v.failed \in BOOLEAN /\ v.engine.failed \in BOOLEAN /\ v.engine.base \in Nat
        /\ v.engine.screen \in Seq(Parse) /\ v.engine.grid \in Nat
    BY <1>1, Zenon DEF Good, Typed
  <2> QED BY <1>1, <1>2, <2>1, <2>2, <2>3, Zenon DEF Typed
<1>13. Placed(v) /\ Gridded(v)
  BY <1>4 DEF Placed, PlacedOf, Gridded
<1> QED BY <1>7, <1>8, <1>9, <1>10, <1>11, <1>12, <1>13 DEF Good

\* connectSession keeps the invariant.
LEMMA GoodConnect ==
  ASSUME Good(pane), Connect
  PROVE  Good(pane')
<1>1. Made(pane) /\ WorkerMade(pane.engine)
  BY GoodTypes
<1>2. PICK s, p, n, t : s = "attach" /\ p = "idle" /\ n = <<>> /\ t = "none"
  OBVIOUS
<1>3. PICK q, l : q = Older(pane.queue) /\ l = Older(pane.engine.lane)
  OBVIOUS
<1>4. PICK y : y = FALSE
  BY Zenon
<1>5. PICK f : f = NoFence
  OBVIOUS
<1>6. PICK a : a = [pane EXCEPT !.stage = s, !.phase = p, !.bounds = n, !.batch = t]
  OBVIOUS
<1>7. PICK b : b = [a EXCEPT !.queue = q, !.engine.lane = l, !.geometry = y]
  OBVIOUS
<1>8. PICK d : d = [b EXCEPT !.broken = y, !.fence = f, !.fenceTask = y]
  OBVIOUS
<1>9. /\ Kept(pane, a, {"stage", "phase", "bounds"})
      /\ a.stage = s /\ a.phase = p /\ a.bounds = n
  BY <1>1, <1>6 DEF Made, Fields, Kept
<1>10. Made(a) /\ a.engine = pane.engine /\ a.queue = pane.queue
  BY <1>9 DEF Kept
<1>11. PICK e : e = [pane.engine EXCEPT !.lane = l]
  OBVIOUS
<1>12. /\ Kept(a, b, {"queue", "engine", "geometry"})
       /\ b.queue = q /\ b.engine = e /\ b.geometry = y
  BY <1>7, <1>10, <1>11 DEF Made, Fields, Kept
<1>13. Made(b)
  BY <1>12 DEF Kept
<1>14. Kept(b, d, {"fence"}) /\ d.fence = f
  BY <1>8, <1>13 DEF Made, Fields, Kept
<1>15. /\ Kept(pane, d, {"stage", "phase", "bounds", "queue", "geometry", "fence", "engine"})
       /\ d.stage = s /\ d.phase = p /\ d.bounds = n /\ d.queue = q /\ d.geometry = y
       /\ d.fence = f /\ d.engine = e
  BY <1>9, <1>12, <1>14 DEF Kept
<1>16. /\ WorkerMade(e) /\ e.lane = l /\ e.failed = pane.engine.failed
       /\ e.base = pane.engine.base /\ e.screen = pane.engine.screen
       /\ e.grid = pane.engine.grid
  BY <1>1, <1>11 DEF WorkerMade
<1>17. d.geometry \in BOOLEAN
  BY <1>4, <1>15, Zenon
<1>18. Good(d)
  BY <1>2, <1>3, <1>5, <1>15, <1>16, <1>17, GoodConnected
<1>19. pane' = Reschedule(d)
  <2>1. [pane EXCEPT !.stage = "attach", !.phase = "idle", !.bounds = <<>>, !.batch = "none",
                      !.queue = Older(@), !.engine.lane = Older(@),
                      !.geometry = FALSE, !.broken = FALSE, !.fence = NoFence,
                      !.fenceTask = FALSE]
        = [pane EXCEPT !.stage = "attach", !.phase = "idle", !.bounds = <<>>, !.batch = "none",
                      !.queue = Older(pane.queue), !.engine.lane = Older(pane.engine.lane),
                      !.geometry = FALSE, !.broken = FALSE, !.fence = NoFence,
                      !.fenceTask = FALSE]
    BY <1>1 DEF Made, Fields
  <2> QED BY <1>2, <1>3, <1>4, <1>5, <1>6, <1>7, <1>8, <2>1, Zenon DEF Connect
<1> QED BY <1>18, <1>19, GoodReschedule

\* The requests of a replay: the checkpoint, if there is one, and its grid.
ReplayLane(cursor, grid) ==
    IF cursor = 0 THEN <<GridAsk(FALSE, grid)>>
    ELSE <<RestoreAsk(FALSE, cursor), GridAsk(FALSE, grid)>>

\* The lane of a replay, and the cursor and the grid it leads to.
LEMMA ReplayLaneFacts ==
  ASSUME NEW cursor \in Nat, NEW grid \in Nat
  PROVE  LET l == ReplayLane(cursor, grid) IN
         /\ Lane(l) /\ ~IsWrite(l) /\ l # <<>> /\ ~l[1].old
         /\ LaneAsks(l, "grid") /\ l[Len(l)].grid = grid
         /\ FromOf(l, 0) = cursor
<1> DEFINE l == ReplayLane(cursor, grid)
<1>1. CASE cursor = 0
  <2>1. l = <<GridAsk(FALSE, grid)>>
    BY <1>1 DEF ReplayLane
  <2>2. l # <<>> /\ l[1].old = FALSE /\ l[1].grid = grid /\ Len(l) = 1
    <3>1. PICK o : o = FALSE
      BY Zenon
    <3>2. l = <<GridAsk(o, grid)>>
      BY <2>1, <3>1, Zenon
    <3> HIDE DEF l
    <3>3. l # <<>> /\ l[1].old = o /\ l[1].grid = grid /\ Len(l) = 1
      BY <3>2, GridLane
    <3> QED BY <3>1, <3>3, Zenon
  <2>3. IsGrid(l)
    BY <2>1 DEF IsGrid
  <2> HIDE DEF l
  <2>4. ~IsWrite(l) /\ LaneAsks(l, "grid") /\ ~LaneAsks(l, "restore") /\ Lane(l)
    BY <2>3, GridFacts DEF Lane
  <2>5. FromOf(l, 0) = cursor
    BY <1>1, <2>4 DEF FromOf
  <2>6. l[Len(l)].grid = grid
    BY <2>2
  <2> QED BY <2>2, <2>4, <2>5, <2>6 DEF l
<1>2. CASE cursor # 0
  <2>1. l = <<RestoreAsk(FALSE, cursor), GridAsk(FALSE, grid)>>
    BY <1>2 DEF ReplayLane
  <2>2. /\ l # <<>> /\ l[1].old = FALSE /\ l[1].cursor = cursor /\ l[2].grid = grid
        /\ Len(l) = 2
    <3>1. PICK o : o = FALSE
      BY Zenon
    <3>2. l = <<RestoreAsk(o, cursor), GridAsk(o, grid)>>
      BY <2>1, <3>1, Zenon
    <3> HIDE DEF l
    <3>3. PICK r, g : r = RestoreAsk(o, cursor) /\ g = GridAsk(o, grid)
      OBVIOUS
    <3>4. r.old = o /\ r.cursor = cursor /\ g.grid = grid
      BY <3>3 DEF RestoreAsk, GridAsk
    <3>5. l = <<r, g>>
      BY <3>2, <3>3, Zenon
    <3>6. l # <<>> /\ l[1] = r /\ l[2] = g /\ Len(l) = 2
      BY <3>5
    <3>7. /\ l # <<>> /\ l[1].old = o /\ l[1].cursor = cursor /\ l[2].grid = grid
          /\ Len(l) = 2
      BY <3>4, <3>6
    <3> QED BY <3>1, <3>7, Zenon
  <2>3. IsRestore(l)
    BY <2>1 DEF IsRestore
  <2> HIDE DEF l
  <2>4. ~IsWrite(l) /\ LaneAsks(l, "grid") /\ LaneAsks(l, "restore") /\ Lane(l)
    BY <2>3, RestoreFacts DEF Lane
  <2>5. FromOf(l, 0) = cursor
    BY <2>2, <2>4 DEF FromOf
  <2>6. l[Len(l)].grid = grid
    BY <2>2
  <2> QED BY <2>2, <2>4, <2>5, <2>6 DEF l
<1> QED BY <1>1, <1>2

\* Joining short sequences.
LEMMA Paired ==
  ASSUME NEW S, NEW r \in S, NEW g \in S
  PROVE  <<>> \o <<g>> = <<g>> /\ <<r>> \o <<g>> = <<r, g>>
<1>1. PICK s, u, t : s = <<r>> /\ u = <<g>> /\ t = <<r, g>>
  OBVIOUS
<1>2. s \in Seq(S) /\ u \in Seq(S) /\ t \in Seq(S)
  BY <1>1
<1>3. Len(s) = 1 /\ s[1] = r /\ Len(t) = 2 /\ t[1] = r /\ t[2] = g
  BY <1>1
<1>4. Append(s, g) = s \o u /\ <<>> \o u = u
  BY <1>1, <1>2, AppendIsConcat, ConcatEmptySeq, Zenon
<1>5. PICK a : a = Append(s, g)
  OBVIOUS
<1>6. /\ a \in Seq(S) /\ Len(a) = Len(s) + 1
      /\ \A i \in 1..Len(s) : a[i] = s[i]
      /\ a[Len(s) + 1] = g
  BY <1>2, <1>5, AppendProperties, ZenonT(60)
<1>7. Len(a) = 2 /\ a[1] = r /\ a[2] = g
  BY <1>3, <1>6
<1>8. Len(a) = Len(t) /\ \A i \in 1..Len(a) : a[i] = t[i]
  BY <1>3, <1>7
<1>9. a = t
  BY <1>2, <1>6, <1>8, SeqEqual, Zenon
<1> QED BY <1>1, <1>4, <1>5, <1>9, Zenon

\* It is the lane ReplayStart builds.
LEMMA ReplayLaneMade ==
  ASSUME NEW cursor \in Nat, NEW grid \in Nat
  PROVE  (IF cursor = 0 THEN <<>> ELSE <<[op |-> "restore", old |-> FALSE, cursor |-> cursor]>>)
             \o <<[op |-> "grid", old |-> FALSE, grid |-> grid]>>
         = ReplayLane(cursor, grid)
<1>1. PICK r, g : r = RestoreAsk(FALSE, cursor) /\ g = GridAsk(FALSE, grid)
  OBVIOUS
<1>2. <<>> \o <<g>> = <<g>> /\ <<r>> \o <<g>> = <<r, g>>
  <2>1. r \in {r, g} /\ g \in {r, g}
    OBVIOUS
  <2> QED BY <2>1, Paired, Zenon
<1>3. CASE cursor = 0
  BY <1>1, <1>2, <1>3, Zenon DEF ReplayLane, RestoreAsk, GridAsk
<1>4. CASE cursor # 0
  BY <1>1, <1>2, <1>4, Zenon DEF ReplayLane, RestoreAsk, GridAsk
<1> QED BY <1>3, <1>4

\* A fresh worker, a cursor and nothing received yet.
LEMMA GoodReplayed ==
  ASSUME NEW v, Made(v), v.hist \in Nat, v.resizes \in Nat, NEW cursor \in Nat,
         v.stage = "replay", v.phase = "replaying", v.target = v.hist,
         v.sent = cursor, v.acked = cursor, v.turn = cursor, v.received = cursor,
         v.applied = 0, v.queue = <<>>, v.count = 0, v.bounds = <<>>,
         v.flight = NoFlight, v.failed \in BOOLEAN, v.geometry = TRUE, v.fence = NoFence,
         WorkerMade(v.engine), v.engine.failed \in BOOLEAN, ~v.engine.failed,
         v.engine.base = 0, v.engine.screen = <<>>, v.engine.grid \in Nat,
         v.engine.lane = ReplayLane(cursor, v.resizes)
  PROVE  Good(v)
<1> DEFINE l == ReplayLane(cursor, v.resizes)
<1>1. /\ Lane(l) /\ ~IsWrite(l) /\ l # <<>> /\ ~l[1].old
      /\ LaneAsks(l, "grid") /\ l[Len(l)].grid = v.resizes /\ FromOf(l, 0) = cursor
  BY ReplayLaneFacts
<1> HIDE DEF l
<1>2. v.engine.lane = l
  BY DEF l
<1>3. Typed(v)
  <2>1. /\ v.queue \in Seq(Byte) /\ v.bounds \in Seq(Nat) /\ v.fence \in Fence
        /\ v.flight \in Flight /\ v.engine.screen \in Seq(Parse) /\ v.geometry \in BOOLEAN
        /\ v.stage \in {"closed", "attach", "replay", "live"}
        /\ v.phase \in {"idle", "replaying", "awaiting", "committed"}
    BY NothingTyped, Zenon
  <2>2. /\ v.sent \in Nat /\ v.acked \in Nat /\ v.turn \in Nat
        /\ v.target \in Nat /\ v.received \in Nat /\ v.applied \in Nat
        /\ v.count \in Nat /\ v.engine.base \in Nat
    OBVIOUS
  <2> QED BY <2>1, <2>2, Zenon DEF Typed
<1>4. Bound(v) /\ BoundTo(v.phase, v.queue)
  BY DEF Bound, BoundTo
<1>5. Lanes(v)
  BY <1>1, <1>2, Zenon DEF Lanes, LanesOf
<1>6. FreshBytes(v.queue) /\ \A i \in DOMAIN v.queue : FALSE
  BY DEF FreshBytes
<1>7. Stages(v)
  BY <1>6 DEF Stages, StagesOf
<1>8. Written(v)
  BY <1>1, <1>2, Zenon DEF Written, WrittenOf
<1>9. Parsing(v.engine)
  BY DEF Parsing
<1>10. Len(v.queue) = 0 /\ Len(v.engine.screen) = 0
  OBVIOUS
<1>11. Placed(v)
  <2>1. FromOf(v.engine.lane, v.applied) = cursor
    BY <1>1, <1>2
  <2>2. v.applied = IF LaneAsks(v.engine.lane, "restore") THEN 0
                    ELSE v.engine.base + Len(v.engine.screen)
    BY <1>10
  <2>3. v.received = cursor + Len(v.queue) /\ v.acked <= cursor
    BY <1>10
  <2>4. v.phase # "committed"
    OBVIOUS
  <2> QED BY <1>6, <2>1, <2>2, <2>3, <2>4, Zenon DEF Placed, PlacedOf
<1>12. Bounded(v.bounds, v.turn, v.sent)
  BY DEF Bounded
<1>13. Gridded(v)
  <2>1. LastOf(v.engine) = v.resizes
    BY <1>1, <1>2 DEF LastOf
  <2> QED BY <1>6, <2>1, Zenon DEF Gridded, GriddedOf
<1> QED BY <1>3, <1>5, <1>7, <1>8, <1>9, <1>11, <1>12, <1>13 DEF Good

\* history-replay-start keeps the invariant, and starts with no output.
LEMMA GoodReplayStart ==
  ASSUME Good(pane), ReplayStart
  PROVE  Good(pane') /\ pane'.queue = <<>>
<1> DEFINE c == Discard(pane)
           w == Restarted(c)
<1>1. PICK cursor \in 0 .. pane.hist, burst \in BOOLEAN :
        pane' = [w EXCEPT
              !.stage = "replay", !.phase = "replaying", !.target = pane.hist,
              !.sent = cursor, !.acked = cursor, !.turn = cursor,
              !.received = cursor, !.applied = 0,
              !.engine.lane = (IF cursor = 0 THEN <<>>
                        ELSE <<[op |-> "restore", old |-> FALSE, cursor |-> cursor]>>)
                      \o <<[op |-> "grid", old |-> FALSE, grid |-> pane.resizes]>>,
              !.geometry = TRUE, !.broken = FALSE, !.fence = NoFence, !.fenceTask = FALSE,
              !.batch = IF burst THEN "waiting" ELSE "none"]
  BY Zenon DEF ReplayStart
<1>2. Made(pane) /\ pane.hist \in Nat /\ pane.resizes \in Nat
  BY GoodTypes
<1>3. cursor \in Nat
  BY <1>2
<1>4. /\ Kept(pane, c, {"queue", "count", "bounds", "failed", "flight"})
      /\ c.queue = <<>> /\ c.count = 0 /\ c.bounds = <<>> /\ c.failed = FALSE
  BY <1>2, KeptDiscard, Zenon
<1> HIDE DEF c
<1>5. Made(c)
  BY <1>4 DEF Kept
<1>6. Kept(c, w, {"engine", "flight"}) /\ w.engine = Engine /\ w.flight = NoFlight
  BY <1>5, KeptRestarted
<1> HIDE DEF w
<1>7. /\ Made(w) /\ w.hist = pane.hist /\ w.resizes = pane.resizes
      /\ w.queue = <<>> /\ w.count = 0 /\ w.bounds = <<>> /\ w.failed = FALSE
  BY <1>4, <1>6 DEF Kept
<1>8. PICK s, p, h, z : s = "replay" /\ p = "replaying" /\ h = pane.hist /\ z = 0
  OBVIOUS
<1>9. PICK l : l = ReplayLane(cursor, pane.resizes)
  OBVIOUS
<1>10. PICK t, y : t = TRUE /\ y = FALSE
  BY Zenon
<1>11. PICK n : n = NoFence
  OBVIOUS
<1>12. PICK o : o = IF burst THEN "waiting" ELSE "none"
  OBVIOUS
<1>13. PICK a : a = [w EXCEPT !.stage = s, !.phase = p, !.target = h]
  OBVIOUS
<1>14. PICK b : b = [a EXCEPT !.sent = cursor, !.acked = cursor, !.turn = cursor]
  OBVIOUS
<1>15. PICK d : d = [b EXCEPT !.received = cursor, !.applied = z, !.engine.lane = l]
  OBVIOUS
<1>16. PICK f : f = [d EXCEPT !.geometry = t, !.broken = y, !.fence = n]
  OBVIOUS
<1>17. PICK g : g = [f EXCEPT !.fenceTask = y, !.batch = o]
  OBVIOUS
<1>18. g = pane'
  <2>1. ReplayLane(cursor, pane.resizes)
        = (IF cursor = 0 THEN <<>>
           ELSE <<[op |-> "restore", old |-> FALSE, cursor |-> cursor]>>)
              \o <<[op |-> "grid", old |-> FALSE, grid |-> pane.resizes]>>
    BY <1>2, <1>3, ReplayLaneMade
  <2> QED BY <1>1, <1>8, <1>9, <1>10, <1>11, <1>12, <1>13, <1>14, <1>15, <1>16, <1>17, <2>1, Zenon
<1>19. /\ Kept(w, a, {"stage", "phase", "target"}) /\ a.stage = s /\ a.phase = p /\ a.target = h
  BY <1>7, <1>13 DEF Made, Fields, Kept
<1>20. Made(a)
  BY <1>19 DEF Kept
<1>21. /\ Kept(a, b, {"sent", "acked", "turn"})
       /\ b.sent = cursor /\ b.acked = cursor /\ b.turn = cursor
  BY <1>14, <1>20 DEF Made, Fields, Kept
<1>22. Made(b) /\ b.engine = Engine
  BY <1>6, <1>19, <1>21 DEF Kept
<1>e. PICK e : e = [b.engine EXCEPT !.lane = l]
  OBVIOUS
<1>23. /\ Kept(b, d, {"received", "applied", "engine"})
       /\ d.received = cursor /\ d.applied = z /\ d.engine = e
  BY <1>15, <1>22, <1>e DEF Made, Fields, Kept
<1>24. Made(d)
  BY <1>23 DEF Kept
<1>25. Kept(d, f, {"geometry", "fence"}) /\ f.geometry = t /\ f.fence = n
  BY <1>16, <1>24 DEF Made, Fields, Kept
<1>26. Made(f)
  BY <1>25 DEF Kept
<1>27. Kept(f, g, {})
  BY <1>17, <1>26 DEF Made, Fields, Kept
<1>28. /\ Made(g) /\ g.hist = w.hist /\ g.resizes = w.resizes /\ g.queue = w.queue
       /\ g.count = w.count /\ g.bounds = w.bounds /\ g.failed = w.failed
       /\ g.flight = w.flight
       /\ g.stage = s /\ g.phase = p /\ g.target = h /\ g.sent = cursor /\ g.acked = cursor
       /\ g.turn = cursor /\ g.received = cursor /\ g.applied = z /\ g.engine = e
       /\ g.geometry = t /\ g.fence = n
  BY <1>19, <1>21, <1>23, <1>25, <1>27 DEF Kept
<1>29. /\ WorkerMade(e) /\ e.lane = l /\ e.failed = Engine.failed /\ e.base = Engine.base
       /\ e.screen = Engine.screen /\ e.grid = Engine.grid
  <2>1. WorkerMade(b.engine)
    BY <1>22, EngineFacts
  <2>2. /\ WorkerMade(e) /\ e.lane = l /\ e.failed = b.engine.failed /\ e.base = b.engine.base
        /\ e.screen = b.engine.screen /\ e.grid = b.engine.grid
    BY <1>e, <2>1, WorkerLane
  <2> QED BY <1>22, <2>2
<1>30. /\ g.failed \in BOOLEAN /\ g.geometry = TRUE /\ g.engine.failed \in BOOLEAN
       /\ ~g.engine.failed
  BY <1>7, <1>10, <1>28, <1>29, EngineFacts, Zenon
<1>31. /\ g.engine.base = 0 /\ g.engine.screen = <<>> /\ g.engine.grid \in Nat
       /\ WorkerMade(g.engine) /\ g.engine.lane = ReplayLane(cursor, g.resizes)
  BY <1>7, <1>9, <1>28, <1>29, EngineFacts, Zenon
<1>32. /\ g.stage = "replay" /\ g.phase = "replaying" /\ g.target = g.hist
       /\ g.applied = 0 /\ g.queue = <<>> /\ g.count = 0 /\ g.bounds = <<>>
       /\ g.flight = NoFlight /\ g.fence = NoFence
  BY <1>6, <1>7, <1>8, <1>11, <1>28, Zenon
<1>33. g.hist \in Nat /\ g.resizes \in Nat /\ Made(g)
  BY <1>2, <1>7, <1>28
<1>34. Good(g)
  BY <1>3, <1>28, <1>30, <1>31, <1>32, <1>33, GoodReplayed
<1> QED BY <1>18, <1>32, <1>34

\* The bound of a turn lies beyond the bounds of the turns before it.
LEMMA BoundedTurn ==
  ASSUME NEW b \in Seq(Nat), NEW turn \in Nat, NEW sent \in Nat, Bounded(b, turn, sent),
         turn < sent
  PROVE  Append(b, sent) \in Seq(Nat) /\ Bounded(Append(b, sent), sent, sent)
<1>1. PICK a : a = Append(b, sent)
  OBVIOUS
<1>2. /\ a \in Seq(Nat) /\ Len(a) = Len(b) + 1
      /\ \A i \in 1..Len(b) : a[i] = b[i]
      /\ a[Len(b) + 1] = sent
  BY <1>1, AppendProperties, ZenonT(60)
<1>3. /\ Len(b) \in Nat /\ DOMAIN b = 1..Len(b) /\ DOMAIN a = 1..(Len(b) + 1)
      /\ \A i \in 1..Len(b) : b[i] \in Nat
  BY <1>2, LenProperties, ElementOfSeq
<1>4. \A i \in 1..Len(b) : 0 < b[i] /\ b[i] <= turn /\ \A j \in 1..(i - 1) : b[j] < b[i]
  BY <1>3 DEF Bounded
<1>5. ASSUME NEW i \in 1..(Len(b) + 1)
      PROVE  0 < a[i] /\ a[i] <= sent /\ \A j \in 1..(i - 1) : a[j] < a[i]
  <2>1. CASE i \in 1..Len(b)
    <3>1. a[i] = b[i] /\ \A j \in 1..(i - 1) : a[j] = b[j]
      BY <1>2, <1>3, <2>1
    <3>2. 0 < b[i] /\ b[i] <= turn /\ \A j \in 1..(i - 1) : b[j] < b[i]
      BY <1>4, <2>1
    <3>3. b[i] \in Nat /\ b[i] <= sent
      BY <1>3, <2>1, <3>2
    <3>4. \A j \in 1..(i - 1) : a[j] < a[i]
      BY <3>1, <3>2
    <3>5. 0 < a[i] /\ a[i] <= sent
      BY <3>1, <3>2, <3>3
    <3> QED BY <3>4, <3>5
  <2>2. CASE i = Len(b) + 1
    <3>1. a[i] = sent /\ \A j \in 1..(i - 1) : a[j] = b[j] /\ b[j] <= turn /\ b[j] \in Nat
      BY <1>2, <1>3, <1>4, <2>2
    <3>2. ASSUME NEW j \in 1..(i - 1) PROVE a[j] < sent
      <4>1. j \in 1..Len(b)
        BY <1>3, <2>2
      <4>2. a[j] = b[j] /\ b[j] <= turn /\ b[j] \in Nat
        BY <1>2, <1>3, <1>4, <4>1
      <4>3. \A x, y, z \in Nat : x <= y /\ y < z => x < z
        OBVIOUS
      <4> QED BY <4>2, <4>3
    <3>3. \A j \in 1..(i - 1) : a[j] < a[i]
      BY <3>1, <3>2
    <3>4. 0 < a[i] /\ a[i] <= sent
      BY <3>1
    <3> QED BY <3>3, <3>4
  <2>3. i \in 1..Len(b) \/ i = Len(b) + 1
    BY <1>3
  <2> QED BY <2>1, <2>2, <2>3, Zenon
<1> QED BY <1>1, <1>2, <1>3, <1>5 DEF Bounded

\* A turn that ends waits for its ack.
LEMMA GoodTurned ==
  ASSUME NEW w, Good(w), NEW v, Kept(w, v, {"turn", "bounds"}), w.turn < w.sent,
         v.turn = w.sent, v.bounds = Append(w.bounds, w.sent)
  PROVE  Good(v)
<1>1. /\ Made(v) /\ v.hist = w.hist /\ v.stage = w.stage /\ v.sent = w.sent
      /\ v.acked = w.acked /\ v.resizes = w.resizes /\ v.phase = w.phase
      /\ v.target = w.target /\ v.received = w.received /\ v.applied = w.applied
      /\ v.queue = w.queue /\ v.count = w.count
      /\ v.flight = w.flight /\ v.failed = w.failed /\ v.geometry = w.geometry
      /\ v.fence = w.fence /\ v.engine = w.engine
  BY DEF Kept
<1>2. v.bounds \in Seq(Nat) /\ Bounded(v.bounds, v.turn, v.sent)
  BY <1>1, GoodTypes, BoundedTurn DEF Good
<1>3. Typed(v)
  BY <1>1, <1>2 DEF Good, Typed
<1>4. Lanes(v) /\ Stages(v) /\ Written(v) /\ Parsing(v.engine) /\ Placed(v) /\ Gridded(v)
  BY <1>1, Zenon DEF Good, Lanes, Stages, Written, Placed, Gridded, Bound
<1> QED BY <1>2, <1>3, <1>4 DEF Good

\* queue-turn-complete keeps the invariant.
LEMMA GoodTurn ==
  ASSUME Good(pane), Turn
  PROVE  Good(pane')
<1>1. Made(pane) /\ pane.sent \in Nat /\ pane.turn \in Nat
  BY GoodTypes
<1>2. pane.turn < pane.sent
  BY <1>1 DEF Turn, TurnDue
<1>3. PICK s, b : s = pane.sent /\ b = Append(pane.bounds, pane.sent)
  OBVIOUS
<1>4. PICK w : w = [pane EXCEPT !.turn = s, !.bounds = b]
  OBVIOUS
<1>5. Kept(pane, w, {"turn", "bounds"}) /\ w.turn = s /\ w.bounds = b
  BY <1>1, <1>4 DEF Made, Fields, Kept
<1>6. Good(w)
  BY <1>2, <1>3, <1>5, GoodTurned
<1>7. PICK v : v \in Flush(w) /\ pane' = TrySend(v)
  <2>1. [pane EXCEPT !.turn = pane.sent, !.bounds = Append(@, pane.sent)]
        = [pane EXCEPT !.turn = pane.sent, !.bounds = Append(pane.bounds, pane.sent)]
    BY <1>1 DEF Made, Fields
  <2> QED BY <1>3, <1>4, <2>1, Zenon DEF Turn
<1>8. Good(v)
  BY <1>6, <1>7, GoodFlush
<1> QED BY <1>7, <1>8, GoodTrySend

\* The whole replay was received: what is left is to parse it.
LEMMA GoodAwaiting ==
  ASSUME NEW w, Good(w), NEW v, Kept(w, v, {"stage", "phase"}), w.stage = "replay",
         v.stage = "live", v.phase = "awaiting"
  PROVE  Good(v)
<1>1. /\ Made(v) /\ v.hist = w.hist /\ v.sent = w.sent
      /\ v.acked = w.acked /\ v.turn = w.turn /\ v.resizes = w.resizes
      /\ v.target = w.target /\ v.received = w.received /\ v.applied = w.applied
      /\ v.queue = w.queue /\ v.count = w.count /\ v.bounds = w.bounds
      /\ v.flight = w.flight /\ v.failed = w.failed /\ v.geometry = w.geometry
      /\ v.fence = w.fence /\ v.engine = w.engine
  BY DEF Kept
<1>2. w.phase # "idle"
  BY DEF Good, Stages, StagesOf
<1>3. /\ Bound(v) /\ Bound(w) /\ BoundTo(v.phase, v.queue) /\ BoundTo(w.phase, w.queue)
  BY <1>2 DEF Bound, BoundTo
<1>4. Typed(v)
  BY <1>1 DEF Good, Typed
<1>5. Stages(v)
  BY <1>1, <1>2 DEF Good, Stages, StagesOf
<1>6. Lanes(v) /\ Written(v) /\ Parsing(v.engine) /\ Gridded(v)
      /\ Bounded(v.bounds, v.turn, v.sent)
  BY <1>1, <1>3, Zenon DEF Good, Lanes, Written, Gridded
<1>7. Placed(v)
  BY <1>1, <1>2, <1>3 DEF Good, Placed, PlacedOf
<1> QED BY <1>4, <1>5, <1>6, <1>7 DEF Good

\* history-replay-complete keeps the invariant.
LEMMA GoodReplayComplete ==
  ASSUME Good(pane), ReplayComplete
  PROVE  Good(pane')
<1> DEFINE u == NoteFailure(pane)
           w == [pane EXCEPT !.stage = "live", !.phase = "awaiting",
                             !.batch = IF @ = "waiting" THEN "ready" ELSE @]
           x == Finish(w)
<1>1. Made(pane) /\ pane.stage = "replay"
  BY GoodTypes, Zenon DEF ReplayComplete, CompleteDue
<1>2. pane' \in Flush(Detached(u)) \/ pane' = x \/ pane' \in Flush(w)
  BY Zenon DEF ReplayComplete
<1>3. Kept(pane, u, {})
  BY <1>1, KeptNoteFailure
<1> HIDE DEF u
<1>4. Good(u)
  BY <1>3, GoodKept
<1>5. Kept(pane, w, {"stage", "phase"}) /\ w.stage = "live" /\ w.phase = "awaiting"
  <2>1. PICK s, p, b : /\ s = "live" /\ p = "awaiting"
                       /\ b = IF pane.batch = "waiting" THEN "ready" ELSE pane.batch
    OBVIOUS
  <2>2. PICK y : y = [pane EXCEPT !.stage = s, !.phase = p, !.batch = b]
    OBVIOUS
  <2>3. Kept(pane, y, {"stage", "phase"}) /\ y.stage = s /\ y.phase = p
    BY <1>1, <2>2 DEF Made, Fields, Kept
  <2>4. y = w
    <3>1. w = [pane EXCEPT !.stage = "live", !.phase = "awaiting",
                 !.batch = IF pane.batch = "waiting" THEN "ready" ELSE pane.batch]
      BY <1>1 DEF Made, Fields
    <3> QED BY <2>1, <2>2, <3>1, Zenon
  <2> QED BY <2>1, <2>3, <2>4, Zenon
<1> HIDE DEF w
<1>6. Good(w)
  BY <1>1, <1>5, GoodAwaiting
<1>7. CASE pane' \in Flush(Detached(u))
  BY <1>4, <1>7, GoodDetachedFlush
<1>8. CASE pane' = x
  BY <1>6, <1>8, GoodFinish
<1>9. CASE pane' \in Flush(w)
  BY <1>6, <1>9, GoodFlush
<1> QED BY <1>2, <1>7, <1>8, <1>9

\* The grid the worker ends up with.
LEMMA LastTyped ==
  ASSUME NEW e, Lane(e.lane), e.grid \in Nat
  PROVE  LastOf(e) \in Nat
<1>1. PICK l : l = e.lane
  OBVIOUS
<1>2. CASE LaneAsks(l, "grid")
  <2>1. IsGrid(l) \/ IsRestore(l)
    BY <1>1, <1>2, EmptyFacts, WriteFacts, Zenon DEF Lane
  <2>2. l[Len(l)].grid \in Nat
    <3>1. CASE IsGrid(l)
      <4>1. l[1].grid \in Nat /\ Len(l) = 1
        BY <3>1, GridFacts
      <4> QED BY <4>1
    <3>2. CASE IsRestore(l)
      <4>1. l[2].grid \in Nat /\ Len(l) = 2
        BY <3>2, RestoreFacts
      <4> QED BY <4>1
    <3> QED BY <2>1, <3>1, <3>2
  <2> QED BY <1>1, <1>2, <2>2 DEF LastOf
<1>3. CASE ~LaneAsks(l, "grid")
  BY <1>1, <1>3 DEF LastOf
<1> QED BY <1>2, <1>3

\* A sequence that one element was appended to.
Extended(S, s, x, a, n) ==
    /\ n \in Nat /\ a \in Seq(S) /\ Len(a) = n + 1 /\ a[n + 1] = x
    /\ \A j \in 1..n : a[j] = s[j]
    /\ DOMAIN s = 1..n /\ DOMAIN a = 1..(n + 1)

\* Append does that.
LEMMA Appended ==
  ASSUME NEW S, NEW s \in Seq(S), NEW x \in S
  PROVE  Extended(S, s, x, Append(s, x), Len(s))
<1>1. PICK a, n : a = Append(s, x) /\ n = Len(s)
  OBVIOUS
<1>2. /\ a \in Seq(S) /\ Len(a) = n + 1 /\ \A j \in 1..n : a[j] = s[j]
      /\ a[n + 1] = x
  <2>1. /\ Append(s, x) \in Seq(S) /\ Len(Append(s, x)) = Len(s) + 1
        /\ \A j \in 1..Len(s) : Append(s, x)[j] = s[j]
        /\ Append(s, x)[Len(s) + 1] = x
    BY AppendProperties
  <2> QED BY <1>1, <2>1, Zenon
<1>3. n \in Nat /\ DOMAIN s = 1..n
  BY <1>1, LenProperties
<1>4. DOMAIN a = 1..Len(a)
  BY <1>2, LenProperties
<1> QED BY <1>1, <1>2, <1>3, <1>4, Zenon DEF Extended

\* The resizes that wait, one behind the other.
Queue(l, first, grid, last) ==
    \A j \in DOMAIN l : /\ l[j].grid = grid + j
                        /\ first <= l[j].end
                        /\ \A k \in 1..(j - 1) : l[k].end <= l[j].end
                        /\ l[j].end <= last

\* A resize that joins the others keeps their order,
LEMMA QueueLater ==
  ASSUME NEW l \in Seq(Change), NEW first \in Nat, NEW grid \in Nat, NEW last \in Nat,
         Queue(l, first, grid, last), first <= last,
         NEW h \in Change, h.end = last, h.grid = grid + Len(l) + 1,
         NEW m, m = Append(l, h)
  PROVE  Queue(m, first, grid, last)
<1>1. PICK n : n = Len(l)
  OBVIOUS
<1>2. /\ n \in Nat /\ m \in Seq(Change) /\ m[n + 1] = h
      /\ \A j \in 1..n : m[j] = l[j]
      /\ DOMAIN l = 1..n /\ DOMAIN m = 1..(n + 1)
  <2>1. Extended(Change, l, h, Append(l, h), Len(l))
    BY Appended
  <2> QED BY <1>1, <2>1, Zenon DEF Extended
<1>3. ASSUME NEW j \in 1..n
      PROVE  /\ m[j].grid = grid + j /\ first <= m[j].end
             /\ \A k \in 1..(j - 1) : m[k].end <= m[j].end
             /\ m[j].end <= last
  <2>1. m[j] = l[j]
    BY <1>2
  <2>2. /\ l[j].grid = grid + j /\ first <= l[j].end
        /\ \A k \in 1..(j - 1) : l[k].end <= l[j].end
        /\ l[j].end <= last
    BY <1>2 DEF Queue
  <2>3. ASSUME NEW k \in 1..(j - 1) PROVE m[k].end <= m[j].end
    <3>1. k \in 1..n
      BY <1>2
    <3>2. m[k] = l[k]
      BY <1>2, <3>1
    <3> QED BY <2>1, <2>2, <3>2
  <2> QED BY <2>1, <2>2, <2>3
<1>4. /\ h.grid = grid + (n + 1) /\ first <= h.end /\ h.end <= last
      /\ \A k \in 1..((n + 1) - 1) : m[k].end <= h.end
  <2>1. h.grid = grid + (n + 1)
    BY <1>1, <1>2
  <2>2. ASSUME NEW k \in 1..((n + 1) - 1) PROVE m[k].end <= h.end
    <3>1. k \in 1..n
      BY <1>2
    <3>2. m[k].end <= last
      BY <1>3, <3>1
    <3> QED BY <3>2
  <2>3. first <= h.end /\ h.end <= last
    OBVIOUS
  <2> QED BY <2>1, <2>2, <2>3, Zenon
<1>5. \A j \in 1..(n + 1) : j \in 1..n \/ j = n + 1
  BY <1>2
<1>6. ASSUME NEW j \in 1..(n + 1)
      PROVE  /\ m[j].grid = grid + j /\ first <= m[j].end
             /\ \A k \in 1..(j - 1) : m[k].end <= m[j].end
             /\ m[j].end <= last
  <2>1. CASE j \in 1..n
    BY <1>3, <2>1, Zenon
  <2>2. CASE j = n + 1
    BY <1>2, <1>4, <2>2, Zenon
  <2> QED BY <1>5, <2>1, <2>2, Zenon
<1> QED BY <1>2, <1>6, Zenon DEF Queue

\* The bytes of the queue lie before or behind each of them.
Sides(l, q, c) ==
    \A i \in DOMAIN q : \A j \in DOMAIN l : c + i <= l[j].end <=> q[i].grid < l[j].grid

\* and the entries on their sides of it.
LEMMA SidesLater ==
  ASSUME NEW l \in Seq(Change), NEW q \in Seq(Byte), NEW c \in Nat, Sides(l, q, c),
         NEW h \in Change, h.end = c + Len(q), \A i \in DOMAIN q : q[i].grid < h.grid,
         NEW m, m = Append(l, h)
  PROVE  Sides(m, q, c)
<1>1. PICK n : n = Len(l)
  OBVIOUS
<1>2. /\ n \in Nat /\ m[n + 1] = h /\ \A j \in 1..n : m[j] = l[j]
      /\ DOMAIN l = 1..n /\ DOMAIN m = 1..(n + 1)
  <2>1. Extended(Change, l, h, Append(l, h), Len(l))
    BY Appended
  <2> QED BY <1>1, <2>1, Zenon DEF Extended
<1>3. \A j \in 1..(n + 1) : j \in 1..n \/ j = n + 1
  BY <1>2
<1>4. Len(q) \in Nat /\ DOMAIN q = 1..Len(q)
  BY QueueFacts
<1>5. ASSUME NEW i \in DOMAIN q, NEW j \in 1..(n + 1)
      PROVE  c + i <= m[j].end <=> q[i].grid < m[j].grid
  <2>1. CASE j \in 1..n
    <3>1. m[j] = l[j] /\ (c + i <= l[j].end <=> q[i].grid < l[j].grid)
      BY <1>2, <2>1 DEF Sides
    <3> QED BY <3>1
  <2>2. CASE j = n + 1
    <3>1. c + i <= h.end
      BY <1>4
    <3>2. q[i].grid < h.grid
      OBVIOUS
    <3> QED BY <1>2, <2>2, <3>1, <3>2, Zenon
  <2> QED BY <1>3, <2>1, <2>2, Zenon
<1> QED BY <1>2, <1>5, Zenon DEF Sides

\* What holds of the queue while a fence is set, in its parts.
LEMMA GriddedParts ==
  ASSUME NEW last, NEW f, f # NoFence, NEW r, NEW q, NEW c
  PROVE  GriddedOf(last, f, r, q, c) <=>
           /\ f.grid = last + (IF f.posted THEN 0 ELSE 1)
           /\ f.posted => f.end <= c
           /\ r = f.grid + Len(f.later)
           /\ f.end <= c + Len(q)
           /\ Queue(f.later, f.end, f.grid, c + Len(q))
           /\ \A i \in DOMAIN q : /\ f.grid <= q[i].grid + 1 /\ q[i].grid <= r
                                  /\ c + i <= f.end <=> q[i].grid < f.grid
           /\ Sides(f.later, q, c)
BY Zenon DEF GriddedOf, Queue, Sides

\* A resize that comes behind another one waits for it.
LEMMA GriddedLater ==
  ASSUME NEW f \in Fence, f # NoFence, NEW last \in Nat, NEW r \in Nat, NEW q \in Seq(Byte),
         NEW c \in Nat, GriddedOf(last, f, r, q, c),
         NEW h \in Change, h.end = c + Len(q), h.grid = r + 1,
         NEW g, g # NoFence, g.end = f.end, g.grid = f.grid, g.posted = f.posted,
         g.later = Append(f.later, h)
  PROVE  GriddedOf(last, g, r + 1, q, c)
<1>1. PICK l, m : l = f.later /\ m = Append(l, h)
  OBVIOUS
<1>2. f.end \in Nat /\ f.grid \in Nat /\ l \in Seq(Change)
  BY <1>1, FenceTypes
<1>3. Len(q) \in Nat /\ DOMAIN q = 1..Len(q) /\ \A i \in 1..Len(q) : q[i].grid \in Nat
  BY QueueFacts
<1>4. /\ f.grid = last + (IF f.posted THEN 0 ELSE 1)
      /\ f.posted => f.end <= c
      /\ r = f.grid + Len(l)
      /\ f.end <= c + Len(q)
      /\ Queue(l, f.end, f.grid, c + Len(q))
      /\ \A i \in DOMAIN q : /\ f.grid <= q[i].grid + 1 /\ q[i].grid <= r
                             /\ c + i <= f.end <=> q[i].grid < f.grid
      /\ Sides(l, q, c)
  BY <1>1, GriddedParts, Zenon
<1>5. PICK n : n = Len(l)
  OBVIOUS
<1>6. n \in Nat /\ Len(m) = n + 1 /\ m \in Seq(Change)
  <2>1. Extended(Change, l, h, Append(l, h), Len(l))
    BY <1>2, Appended
  <2> QED BY <1>1, <1>5, <2>1, Zenon DEF Extended
<1>7. r + 1 = f.grid + Len(m)
  <2>1. r = f.grid + n
    BY <1>4, <1>5
  <2>2. PICK p, x : p = Len(m) /\ x = f.grid
    OBVIOUS
  <2>3. p = n + 1 /\ r = x + n /\ x \in Nat /\ n \in Nat
    BY <1>2, <1>6, <2>1, <2>2, Zenon
  <2>4. r + 1 = x + p
    BY <2>3
  <2> QED BY <2>2, <2>4, Zenon
<1>8. Queue(m, f.end, f.grid, c + Len(q))
  <2>1. h.grid = f.grid + Len(l) + 1
    BY <1>4
  <2>2. c + Len(q) \in Nat
    BY <1>3
  <2> QED BY <1>1, <1>2, <1>4, <2>1, <2>2, QueueLater, Zenon
<1>9. \A i \in DOMAIN q : q[i].grid \in Nat /\ q[i].grid < r + 1 /\ q[i].grid <= r + 1
  <2>1. \A x, y \in Nat : x <= y => x < y + 1 /\ x <= y + 1
    OBVIOUS
  <2>2. \A i \in DOMAIN q : q[i].grid \in Nat /\ q[i].grid <= r
    BY <1>3, <1>4, Zenon
  <2> QED BY <2>1, <2>2, Zenon
<1>10. Sides(m, q, c)
  <2>1. \A i \in DOMAIN q : q[i].grid < h.grid
    BY <1>9, Zenon
  <2> QED BY <1>1, <1>2, <1>4, <2>1, SidesLater, Zenon
<1>11. g.later = m
  BY <1>1
<1>12. /\ g.grid = last + (IF g.posted THEN 0 ELSE 1)
       /\ g.posted => g.end <= c
       /\ r + 1 = g.grid + Len(g.later)
       /\ g.end <= c + Len(q)
       /\ Queue(g.later, g.end, g.grid, c + Len(q))
       /\ \A i \in DOMAIN q : /\ g.grid <= q[i].grid + 1 /\ q[i].grid <= r + 1
                              /\ c + i <= g.end <=> q[i].grid < g.grid
       /\ Sides(g.later, q, c)
  BY <1>4, <1>7, <1>8, <1>9, <1>10, <1>11, Zenon
<1> QED BY <1>12, GriddedParts, Zenon

\* The first resize: everything that is queued came before it.
LEMMA GriddedFirst ==
  ASSUME NEW last \in Nat, NEW r \in Nat, NEW q \in Seq(Byte),
         NEW c \in Nat, GriddedOf(last, NoFence, r, q, c),
         NEW h \in Change, h.end = c + Len(q), h.grid = r + 1
  PROVE  GriddedOf(last, NewFence(h, <<>>), r + 1, q, c)
<1> DEFINE g == NewFence(h, <<>>)
<1>0. <<>> \in Seq(Change)
  OBVIOUS
<1>1. /\ g # NoFence /\ g.end = h.end /\ g.grid = h.grid /\ g.later = <<>> /\ ~g.posted
  BY <1>0, NewFenceTyped
<1> HIDE DEF g
<1>2. last = r /\ \A i \in DOMAIN q : q[i].grid = r
  BY DEF GriddedOf
<1>3. Len(q) \in Nat /\ DOMAIN q = 1..Len(q)
  BY QueueFacts
<1>4. /\ g.grid = last + 1 /\ r + 1 = g.grid + Len(g.later) /\ g.end <= c + Len(q)
      /\ \A j \in DOMAIN g.later : FALSE
  BY <1>1, <1>2, <1>3
<1>5. ASSUME NEW i \in DOMAIN q
      PROVE  /\ g.grid <= q[i].grid + 1 /\ q[i].grid <= r + 1
             /\ c + i <= g.end <=> q[i].grid < g.grid
  <2>1. i \in Nat /\ i <= Len(q) /\ q[i].grid = r
    BY <1>2, <1>3
  <2>2. c + i <= g.end
    BY <1>1, <1>3, <2>1
  <2> QED BY <1>1, <2>1, <2>2
<1>6. g.grid = last + (IF g.posted THEN 0 ELSE 1)
  BY <1>1, <1>4
<1> QED BY <1>1, <1>4, <1>5, <1>6, Zenon DEF GriddedOf, g

\* A resize that is noted, as the fence or behind it.
LEMMA GoodResized ==
  ASSUME NEW w, Good(w), w.stage = "live", NEW v, Kept(w, v, {"resizes", "fence"}),
         v.resizes = w.resizes + 1, NEW h, h = [end |-> w.count + Len(w.queue),
                                                grid |-> w.resizes + 1],
         \/ /\ w.fence # NoFence
            /\ v.fence = [w.fence EXCEPT !.later = Append(w.fence.later, h)]
         \/ w.fence = NoFence /\ v.fence = NewFence(h, <<>>)
  PROVE  Good(v)
<1>1. /\ Made(v) /\ v.hist = w.hist /\ v.stage = w.stage /\ v.sent = w.sent
      /\ v.acked = w.acked /\ v.turn = w.turn /\ v.phase = w.phase
      /\ v.target = w.target /\ v.received = w.received /\ v.applied = w.applied
      /\ v.queue = w.queue /\ v.count = w.count /\ v.bounds = w.bounds
      /\ v.flight = w.flight /\ v.failed = w.failed /\ v.geometry = w.geometry
      /\ v.engine = w.engine
  BY DEF Kept
<1>2. /\ w.resizes \in Nat /\ w.count \in Nat /\ w.queue \in Seq(Byte) /\ w.fence \in Fence
      /\ WorkerMade(w.engine) /\ w.engine.grid \in Nat /\ Lane(w.engine.lane)
  BY GoodTypes
<1>3. Len(w.queue) \in Nat
  BY <1>2, QueueFacts
<1>4. h \in Change /\ h.end = w.count + Len(w.queue) /\ h.grid = w.resizes + 1
  BY <1>2, <1>3 DEF Change
<1>5. /\ v.fence \in Fence /\ v.fence.set
      /\ w.fence # NoFence => /\ v.fence.end = w.fence.end /\ v.fence.grid = w.fence.grid
                              /\ v.fence.posted = w.fence.posted
                              /\ v.fence.later = Append(w.fence.later, h)
  <2>1. CASE w.fence # NoFence /\ v.fence = [w.fence EXCEPT !.later = Append(w.fence.later, h)]
    <3>1. w.fence.set /\ w.fence.later \in Seq(Change)
      BY <1>2, <2>1, FenceTypes DEF Good, Lanes, LanesOf
    <3>2. PICK m : m = Append(w.fence.later, h)
      OBVIOUS
    <3>3. m \in Seq(Change)
      BY <1>4, <3>1, <3>2, AppendProperties, Zenon
    <3>4. v.fence = [w.fence EXCEPT !.later = m]
      BY <2>1, <3>2
    <3>5. /\ v.fence \in Fence /\ v.fence.set = w.fence.set /\ v.fence.later = m
          /\ v.fence.end = w.fence.end /\ v.fence.grid = w.fence.grid
          /\ v.fence.posted = w.fence.posted
      BY <1>2, <3>3, <3>4 DEF Fence
    <3> QED BY <3>1, <3>2, <3>5
  <2>2. CASE w.fence = NoFence /\ v.fence = NewFence(h, <<>>)
    <3>1. <<>> \in Seq(Change)
      OBVIOUS
    <3>2. NewFence(h, <<>>) \in Fence /\ NewFence(h, <<>>).set
      BY <1>4, <3>1, NewFenceTyped
    <3> QED BY <2>2, <3>2
  <2> QED BY <2>1, <2>2, Zenon
<1>6. v.fence # NoFence
  BY <1>5, FenceTypes
<1>7. Bound(v) /\ Bound(w)
  BY <1>1 DEF Good, Stages, StagesOf, Bound, BoundTo
<1>8. Typed(v)
  <2>1. v.resizes \in Nat
    BY <1>2
  <2> QED BY <1>1, <1>5, <2>1, Zenon DEF Good, Typed
<1>9. Lanes(v)
  BY <1>1, <1>5, <1>6, <1>7, Zenon DEF Good, Lanes, LanesOf
<1>10. Stages(v) /\ Parsing(v.engine) /\ Placed(v) /\ Bounded(v.bounds, v.turn, v.sent)
  BY <1>1, Zenon DEF Good, Stages, Placed
<1>11. Written(v)
  <2>1. WrittenOf(w.engine, w.flight, w.queue, w.count, w.fence, Bound(w))
    BY Zenon DEF Good, Written
  <2>2. WrittenOf(w.engine, w.flight, w.queue, w.count, v.fence, Bound(v))
    BY <1>5, <1>6, <1>7, <2>1, Zenon DEF WrittenOf
  <2> QED BY <1>1, <2>2, Zenon DEF Written
<1>12. Gridded(v)
  <2>1. CASE w.engine.failed
    BY <1>1, <2>1 DEF Gridded
  <2>2. CASE ~w.engine.failed
    <3>1. PICK last : last = LastOf(w.engine)
      OBVIOUS
    <3>2. last \in Nat /\ GriddedOf(last, w.fence, w.resizes, w.queue, w.count)
      <4>1. GriddedOf(last, w.fence, w.resizes, w.queue, w.count)
        BY <1>7, <2>2, <3>1, Zenon DEF Good, Gridded
      <4>2. last \in Nat
        BY <1>2, <3>1, LastTyped
      <4> QED BY <4>1, <4>2
    <3>3. GriddedOf(last, v.fence, w.resizes + 1, w.queue, w.count)
      <4>1. CASE w.fence # NoFence
        BY <1>2, <1>4, <1>5, <1>6, <3>2, <4>1, GriddedLater
      <4>2. CASE w.fence = NoFence
        <5>1. v.fence = NewFence(h, <<>>) /\ GriddedOf(last, NoFence, w.resizes, w.queue, w.count)
          BY <3>2, <4>2
        <5>2. GriddedOf(last, NewFence(h, <<>>), w.resizes + 1, w.queue, w.count)
          BY <1>2, <1>4, <3>2, <5>1, GriddedFirst
        <5> QED BY <5>1, <5>2
      <4> QED BY <4>1, <4>2
    <3> QED BY <1>1, <3>1, <3>3 DEF Gridded
  <2> QED BY <2>1, <2>2
<1> QED BY <1>8, <1>9, <1>10, <1>11, <1>12 DEF Good

\* resize-applied keeps the invariant, and leaves a fence.
LEMMA GoodResize ==
  ASSUME Good(pane), Resize
  PROVE  Good(pane') /\ pane'.fence # NoFence
<1>1. Made(pane) /\ pane.stage = "live"
  BY GoodTypes, Zenon DEF Resize
<1>2. PICK r, h : r = pane.resizes + 1 /\ h = [end |-> pane.count + Len(pane.queue),
                                              grid |-> pane.resizes + 1]
  OBVIOUS
<1>3. PICK w : w = [pane EXCEPT !.resizes = r]
  OBVIOUS
<1>4. Kept(pane, w, {"resizes"}) /\ w.resizes = r
  BY <1>1, <1>3 DEF Made, Fields, Kept
<1>5. Made(w) /\ w.fence = pane.fence
  BY <1>4 DEF Kept
<1>6. [pane EXCEPT !.resizes = @ + 1] = w
  <2>1. [pane EXCEPT !.resizes = @ + 1] = [pane EXCEPT !.resizes = pane.resizes + 1]
    BY <1>1 DEF Made, Fields
  <2> QED BY <1>2, <1>3, <2>1, Zenon
<1>7. [end |-> pane.count + Len(pane.queue), grid |-> w.resizes] = h
  BY <1>2, <1>4, Zenon
<1>8. pane' = IF pane.fence # NoFence THEN [w EXCEPT !.fence.later = Append(@, h)]
              ELSE [w EXCEPT !.fence = NewFence(h, <<>>), !.fenceTask = TRUE]
  <2> DEFINE To(u, x) == IF pane.fence # NoFence THEN [u EXCEPT !.fence.later = Append(@, x)]
                         ELSE [u EXCEPT !.fence = NewFence(x, <<>>), !.fenceTask = TRUE]
             Edge(u) == [end |-> pane.count + Len(pane.queue), grid |-> u.resizes]
  <2>1. pane' = To([pane EXCEPT !.resizes = @ + 1], Edge([pane EXCEPT !.resizes = @ + 1]))
    BY Zenon DEF Resize
  <2>2. Edge(w) = h
    BY <1>7
  <2> HIDE DEF To, Edge
  <2>3. pane' = To(w, h)
    BY <1>6, <2>1, <2>2, Zenon
  <2> QED BY <2>3, Zenon DEF To
<1>9. CASE pane.fence # NoFence
  <2>1. PICK m : m = Append(pane.fence.later, h)
    OBVIOUS
  <2>2. PICK f : f = [pane.fence EXCEPT !.later = m]
    OBVIOUS
  <2>3. PICK v : v = [w EXCEPT !.fence.later = m]
    OBVIOUS
  <2>4. Kept(w, v, {"fence"}) /\ v.fence = f
    BY <1>5, <2>2, <2>3 DEF Made, Fields, Kept
  <2>5. pane' = v
    <3>1. [w EXCEPT !.fence.later = Append(@, h)]
          = [w EXCEPT !.fence.later = Append(w.fence.later, h)]
      BY Zenon
    <3> QED BY <1>5, <1>8, <1>9, <2>1, <2>3, <3>1, Zenon
  <2>6. Kept(pane, v, {"resizes", "fence"}) /\ v.resizes = r
    BY <1>4, <2>4 DEF Kept
  <2>7. v.fence = [pane.fence EXCEPT !.later = Append(pane.fence.later, h)]
    BY <2>1, <2>2, <2>4, Zenon
  <2>8. Good(v)
    BY <1>1, <1>2, <1>9, <2>6, <2>7, GoodResized
  <2>9. v.fence # NoFence
    <3>1. pane.fence \in Fence /\ pane.fence.set /\ pane.fence.set \in BOOLEAN
      BY <1>9, GoodTypes, FenceTypes DEF Good, Lanes, LanesOf
    <3>2. f.set = pane.fence.set
      BY <2>2, <3>1 DEF Fence
    <3>3. NoFence.set = FALSE
      BY DEF NoFence
    <3> QED BY <2>4, <3>1, <3>2, <3>3, Zenon
  <2> QED BY <2>5, <2>8, <2>9
<1>10. CASE pane.fence = NoFence
  <2>1. PICK f, t : f = NewFence(h, <<>>) /\ t = TRUE
    OBVIOUS
  <2>2. PICK v : v = [w EXCEPT !.fence = f, !.fenceTask = t]
    OBVIOUS
  <2>3. Kept(w, v, {"fence"}) /\ v.fence = f
    BY <1>5, <2>2 DEF Made, Fields, Kept
  <2>4. pane' = v
    BY <1>8, <1>10, <2>1, <2>2, Zenon
  <2>5. Kept(pane, v, {"resizes", "fence"}) /\ v.resizes = r
    BY <1>4, <2>3 DEF Kept
  <2>6. Good(v)
    BY <1>1, <1>2, <1>10, <2>1, <2>3, <2>5, GoodResized
  <2>7. f.set = TRUE /\ NoFence.set = FALSE
    BY <2>1 DEF NewFence, NoFence
  <2>8. v.fence # NoFence
    BY <2>3, <2>7, Zenon
  <2> QED BY <2>4, <2>6, <2>8
<1> QED BY <1>9, <1>10

\* A byte that arrives was printed for the grid of the last resize.
LEMMA QueueEntry ==
  ASSUME NEW l \in Seq(Change), NEW first, NEW grid, NEW last \in Nat,
         Queue(l, first, grid, last)
  PROVE  Queue(l, first, grid, last + 1)
<1>1. DOMAIN l = 1..Len(l) /\ \A j \in 1..Len(l) : l[j] \in Change
  BY LenProperties, ElementOfSeq
<1>2. \A x \in Change : x.end \in Nat
  BY DEF Change
<1>3. \A x, y \in Nat : x <= y => x <= y + 1
  OBVIOUS
<1>4. \A j \in DOMAIN l : l[j].end <= last + 1
  BY <1>1, <1>2, <1>3, Zenon DEF Queue
<1> QED BY <1>4, Zenon DEF Queue

\* It lies behind each of them,
LEMMA SidesEntry ==
  ASSUME NEW l \in Seq(Change), NEW q \in Seq(Byte), NEW c \in Nat, Sides(l, q, c),
         NEW first, NEW grid \in Nat, Queue(l, first, grid, c + Len(q)),
         NEW b \in Byte, b.grid = grid + Len(l)
  PROVE  Sides(l, Append(q, b), c)
<1>1. PICK n, p : n = Len(q) /\ p = Append(q, b)
  OBVIOUS
<1>2. /\ n \in Nat /\ p[n + 1] = b /\ \A i \in 1..n : p[i] = q[i]
      /\ DOMAIN q = 1..n /\ DOMAIN p = 1..(n + 1)
  <2>1. Extended(Byte, q, b, Append(q, b), Len(q))
    BY Appended
  <2> QED BY <1>1, <2>1, Zenon DEF Extended
<1>3. /\ Len(l) \in Nat /\ DOMAIN l = 1..Len(l)
      /\ \A j \in 1..Len(l) : l[j].end \in Nat /\ l[j].grid \in Nat
  <2>1. Len(l) \in Nat /\ DOMAIN l = 1..Len(l) /\ \A j \in 1..Len(l) : l[j] \in Change
    BY LenProperties, ElementOfSeq
  <2>2. \A x \in Change : x.end \in Nat /\ x.grid \in Nat
    BY DEF Change
  <2> QED BY <2>1, <2>2, Zenon
<1>4. \A j \in 1..Len(l) : l[j].grid = grid + j /\ l[j].end <= c + n
  BY <1>1, <1>3, Zenon DEF Queue
<1>5. \A i \in 1..(n + 1) : i \in 1..n \/ i = n + 1
  BY <1>2
<1>6. ASSUME NEW i \in 1..(n + 1), NEW j \in 1..Len(l)
      PROVE  c + i <= l[j].end <=> p[i].grid < l[j].grid
  <2>1. CASE i \in 1..n
    <3>1. p[i] = q[i] /\ (c + i <= l[j].end <=> q[i].grid < l[j].grid)
      BY <1>2, <1>3, <2>1, Zenon DEF Sides
    <3> QED BY <3>1
  <2>2. CASE i = n + 1
    <3>1. PICK e, g, k : e = l[j].end /\ g = l[j].grid /\ k = Len(l)
      OBVIOUS
    <3>2. /\ e \in Nat /\ g \in Nat /\ k \in Nat /\ j \in 1..k
          /\ g = grid + j /\ e <= c + n /\ b.grid = grid + k
      BY <1>3, <1>4, <3>1, Zenon
    <3>3. ~(c + (n + 1) <= e) /\ ~(grid + k < g)
      BY <1>2, <3>2
    <3>4. p[i].grid = grid + k
      BY <1>2, <2>2, <3>2, Zenon
    <3> QED BY <2>2, <3>1, <3>3, <3>4, Zenon
  <2> QED BY <1>5, <2>1, <2>2, Zenon
<1> QED BY <1>1, <1>2, <1>3, <1>6, Zenon DEF Sides

\* so the queue stays printed for the grids its fences lead to.
LEMMA GriddedEntry ==
  ASSUME NEW f \in Fence, NEW last \in Nat, NEW r \in Nat, NEW q \in Seq(Byte), NEW c \in Nat,
         GriddedOf(last, f, r, q, c), NEW b \in Byte, b.grid = r
  PROVE  GriddedOf(last, f, r, Append(q, b), c)
<1>1. PICK n, p : n = Len(q) /\ p = Append(q, b)
  OBVIOUS
<1>2. /\ n \in Nat /\ Len(p) = n + 1 /\ p[n + 1] = b /\ \A i \in 1..n : p[i] = q[i]
      /\ DOMAIN q = 1..n /\ DOMAIN p = 1..(n + 1)
  <2>1. Extended(Byte, q, b, Append(q, b), Len(q))
    BY Appended
  <2> QED BY <1>1, <2>1, Zenon DEF Extended
<1>3. \A i \in 1..(n + 1) : i \in 1..n \/ i = n + 1
  BY <1>2
<1>4. CASE f = NoFence
  <2>1. last = r /\ \A i \in 1..n : q[i].grid = r
    BY <1>2, <1>4, Zenon DEF GriddedOf
  <2>2. \A i \in DOMAIN p : p[i].grid = r
    BY <1>2, <1>3, <2>1, Zenon
  <2> QED BY <1>1, <1>4, <2>1, <2>2, Zenon DEF GriddedOf
<1>5. CASE f # NoFence
  <2>1. PICK l : l = f.later
    OBVIOUS
  <2>2. f.end \in Nat /\ f.grid \in Nat /\ l \in Seq(Change) /\ Len(l) \in Nat
    BY <2>1, FenceTypes
  <2>3. /\ f.grid = last + (IF f.posted THEN 0 ELSE 1)
        /\ f.posted => f.end <= c
        /\ r = f.grid + Len(l)
        /\ f.end <= c + Len(q)
        /\ Queue(l, f.end, f.grid, c + Len(q))
        /\ \A i \in DOMAIN q : /\ f.grid <= q[i].grid + 1 /\ q[i].grid <= r
                               /\ c + i <= f.end <=> q[i].grid < f.grid
        /\ Sides(l, q, c)
    BY <1>5, <2>1, GriddedParts, Zenon
  <2>4. c + Len(p) = (c + Len(q)) + 1 /\ c + Len(q) \in Nat
    BY <1>1, <1>2
  <2>5. Queue(l, f.end, f.grid, c + Len(p))
    BY <2>2, <2>3, <2>4, QueueEntry, Zenon
  <2>6. Sides(l, p, c)
    <3>1. b.grid = f.grid + Len(l)
      BY <2>3
    <3> QED BY <1>1, <2>2, <2>3, <3>1, SidesEntry, Zenon
  <2>7. f.end <= c + n /\ f.end <= c + Len(p)
    BY <1>1, <1>2, <2>2, <2>3
  <2>8. ASSUME NEW i \in 1..(n + 1)
        PROVE  /\ f.grid <= p[i].grid + 1 /\ p[i].grid <= r
               /\ c + i <= f.end <=> p[i].grid < f.grid
    <3>1. CASE i \in 1..n
      BY <1>2, <2>3, <3>1, Zenon
    <3>2. CASE i = n + 1
      <4>1. PICK k : k = Len(l)
        OBVIOUS
      <4>2. r = f.grid + k /\ k \in Nat
        BY <2>2, <2>3, <4>1, Zenon
      <4>3. f.grid <= r + 1 /\ r <= r /\ ~(c + (n + 1) <= f.end) /\ ~(r < f.grid)
        <5>1. PICK g, e : g = f.grid /\ e = f.end
          OBVIOUS
        <5>2. /\ g \in Nat /\ e \in Nat /\ r = g + k /\ k \in Nat /\ n \in Nat
              /\ e <= c + n
          BY <1>2, <2>2, <2>7, <4>2, <5>1, Zenon
        <5>3. g <= r + 1 /\ r <= r /\ ~(c + (n + 1) <= e) /\ ~(r < g)
          BY <5>2
        <5> QED BY <5>1, <5>3, Zenon
      <4>4. p[i].grid = r
        BY <1>2, <3>2, Zenon
      <4> QED BY <3>2, <4>3, <4>4, Zenon
    <3> QED BY <1>3, <3>1, <3>2, Zenon
  <2>9. GriddedOf(last, f, r, p, c)
    BY <1>2, <1>5, <2>1, <2>3, <2>5, <2>6, <2>7, <2>8, GriddedParts, Zenon
  <2> QED BY <1>1, <2>9
<1> QED BY <1>4, <1>5

\* Output that is refused counts as sent, not as received.
LEMMA GoodRefused ==
  ASSUME NEW w, Good(w), NEW v, Kept(w, v, {"sent", "failed"}),
         v.sent = w.sent + 1 \/ v.sent = w.sent, v.failed = TRUE
  PROVE  Good(v)
<1>1. /\ Made(v) /\ v.hist = w.hist /\ v.stage = w.stage
      /\ v.acked = w.acked /\ v.turn = w.turn /\ v.resizes = w.resizes /\ v.phase = w.phase
      /\ v.target = w.target /\ v.received = w.received /\ v.applied = w.applied
      /\ v.queue = w.queue /\ v.count = w.count /\ v.bounds = w.bounds
      /\ v.flight = w.flight /\ v.geometry = w.geometry
      /\ v.fence = w.fence /\ v.engine = w.engine
  BY DEF Kept
<1>2. w.sent \in Nat /\ w.received \in Nat /\ w.turn \in Nat
  BY GoodTypes
<1>3. v.sent \in Nat /\ w.sent <= v.sent
  BY <1>2
<1>4. Typed(v)
  <2>1. v.failed \in BOOLEAN
    BY Zenon
  <2> QED BY <1>1, <1>3, <2>1, Zenon DEF Good, Typed
<1>5. Lanes(v) /\ Written(v) /\ Parsing(v.engine) /\ Placed(v) /\ Gridded(v)
  BY <1>1, Zenon DEF Good, Lanes, Written, Placed, Gridded, Bound
<1>6. Stages(v)
  <2>1. w.received <= v.sent
    BY <1>2, <1>3 DEF Good, Stages, StagesOf
  <2> QED BY <1>1, <2>1 DEF Good, Stages, StagesOf
<1>7. Bounded(v.bounds, v.turn, v.sent)
  <2>1. w.turn <= v.sent
    BY <1>2, <1>3 DEF Good, Bounded
  <2> QED BY <1>1, <2>1 DEF Good, Bounded
<1> QED BY <1>4, <1>5, <1>6, <1>7 DEF Good

\* The first entries stay the first ones.
LEMMA FirstStay ==
  ASSUME NEW q \in Seq(Byte), NEW b \in Byte, NEW n \in 1..Len(q)
  PROVE  SubSeq(Append(q, b), 1, n) = SubSeq(q, 1, n)
<1>1. PICK p : p = Append(q, b)
  OBVIOUS
<1>2. /\ Len(q) \in Nat /\ p \in Seq(Byte) /\ Len(p) = Len(q) + 1
      /\ \A i \in 1..Len(q) : p[i] = q[i]
  <2>1. Extended(Byte, q, b, Append(q, b), Len(q))
    BY Appended
  <2> QED BY <1>1, <2>1, Zenon DEF Extended
<1>3. n \in Nat /\ \A i \in 1..n : i \in 1..Len(q)
  BY <1>2
<1>4. \A i \in 1..n : q[i] \in Byte /\ p[i] = q[i] /\ p[i] \in Byte
  BY <1>2, <1>3, QueueFacts
<1>5. /\ SubSeq(q, 1, n) \in Seq(Byte) /\ Len(SubSeq(q, 1, n)) = n
      /\ \A i \in 1..n : SubSeq(q, 1, n)[i] = q[i]
  BY <1>2, <1>3, <1>4, SubSeqProperties
<1>6. /\ SubSeq(p, 1, n) \in Seq(Byte) /\ Len(SubSeq(p, 1, n)) = n
      /\ \A i \in 1..n : SubSeq(p, 1, n)[i] = p[i]
  BY <1>2, <1>3, <1>4, SubSeqProperties
<1>7. SubSeq(p, 1, n) = SubSeq(q, 1, n)
  BY <1>4, <1>5, <1>6, SeqEqual, Zenon
<1> QED BY <1>1, <1>7

\* A byte joins the queue.
LEMMA GoodEntered ==
  ASSUME NEW w, Good(w), ~w.failed, w.phase # "idle",
         NEW v, Kept(w, v, {"sent", "queue", "received"}),
         v.sent = w.sent + 1, v.received = w.sent + 1,
         NEW b \in Byte, b.at = w.sent + 1, ~b.old, b.grid = w.resizes,
         v.queue = Append(w.queue, b)
  PROVE  Good(v)
<1>1. /\ Made(v) /\ v.hist = w.hist /\ v.stage = w.stage
      /\ v.acked = w.acked /\ v.turn = w.turn /\ v.resizes = w.resizes /\ v.phase = w.phase
      /\ v.target = w.target /\ v.applied = w.applied
      /\ v.count = w.count /\ v.bounds = w.bounds
      /\ v.flight = w.flight /\ v.failed = w.failed /\ v.geometry = w.geometry
      /\ v.fence = w.fence /\ v.engine = w.engine
  BY DEF Kept
<1>2. PICK q, p, n : q = w.queue /\ p = v.queue /\ n = Len(w.queue)
  OBVIOUS
<1>3. /\ w.sent \in Nat /\ w.received \in Nat /\ w.turn \in Nat /\ w.resizes \in Nat
      /\ w.count \in Nat /\ w.fence \in Fence /\ q \in Seq(Byte)
      /\ Lane(w.engine.lane) /\ w.engine.grid \in Nat /\ w.applied \in Nat
  BY <1>2, GoodTypes
<1>4. /\ n \in Nat /\ p \in Seq(Byte) /\ Len(p) = n + 1 /\ p[n + 1] = b
      /\ \A i \in 1..n : p[i] = q[i]
      /\ DOMAIN q = 1..n /\ DOMAIN p = 1..(n + 1)
  <2>1. Extended(Byte, q, b, Append(q, b), Len(q))
    BY <1>3, Appended
  <2> QED BY <1>2, <2>1, Zenon DEF Extended
<1>5. \A i \in 1..(n + 1) : i \in 1..n \/ i = n + 1
  BY <1>4
<1>6. FreshBytes(q) /\ FreshBytes(p)
  <2>1. FreshBytes(q)
    BY <1>2 DEF Good, Stages, StagesOf
  <2> QED BY <1>4, <1>5, <2>1, Zenon DEF FreshBytes
<1>7. /\ Bound(v) /\ Bound(w) /\ BoundTo(v.phase, v.queue) /\ BoundTo(w.phase, w.queue)
  BY <1>1 DEF Bound, BoundTo
<1>8. w.received = w.sent
  BY DEF Good, Stages, StagesOf
<1>9. Typed(v)
  <2>1. v.sent \in Nat /\ v.received \in Nat
    <3>1. \A x \in Nat : x + 1 \in Nat
      OBVIOUS
    <3> QED BY <1>3, <3>1, Zenon
  <2> QED BY <1>1, <1>2, <1>4, <2>1, Zenon DEF Good, Typed
<1>10. Lanes(v)
  BY <1>1, <1>7, Zenon DEF Good, Lanes
<1>11. Stages(v)
  <2>1. v.received = v.sent /\ v.received <= v.sent
    BY <1>3
  <2>2. v.phase # "idle" <=> v.stage \in {"replay", "live"}
    BY <1>1 DEF Good, Stages, StagesOf
  <2> QED BY <1>2, <1>6, <2>1, <2>2, Zenon DEF Stages, StagesOf
<1>12. Written(v)
  <2> DEFINE e == w.engine
             f == w.flight
  <2>1. ASSUME IsWrite(e.lane), ~e.lane[1].old, ~f.stale
        PROVE  /\ f.n \in 1..Len(p) /\ e.lane[1].bytes = SubSeq(p, 1, f.n)
               /\ f.left <= Len(p)
    <3>1. /\ f.n \in 1..Len(q) /\ e.lane[1].bytes = SubSeq(q, 1, f.n)
          /\ f.left \in Nat /\ f.left <= Len(q)
      BY <1>2, <2>1, FlightFacts
    <3> HIDE DEF f, e
    <3>2. Len(q) = n
      BY <1>2
    <3>3. PICK k, x : k = f.n /\ x = f.left
      OBVIOUS
    <3>4. k \in 1..(n + 1) /\ x <= n + 1
      BY <1>4, <3>1, <3>2, <3>3
    <3>5. SubSeq(Append(q, b), 1, k) = SubSeq(q, 1, k)
      BY <1>3, <3>1, <3>3, FirstStay
    <3>6. p = Append(q, b)
      BY <1>2
    <3>7. SubSeq(p, 1, k) = SubSeq(q, 1, k)
      BY <3>5, <3>6, Zenon
    <3> QED BY <1>4, <3>1, <3>3, <3>4, <3>7, Zenon
  <2>2. WrittenOf(e, f, q, w.count, w.fence, Bound(w))
    BY <1>2, Zenon DEF Good, Written
  <2>3. WrittenOf(e, f, p, w.count, w.fence, Bound(v))
    BY <1>6, <1>7, <2>1, <2>2, Zenon DEF WrittenOf
  <2> QED BY <1>1, <1>2, <2>3, Zenon DEF Written
<1>13. Placed(v)
  <2>1. CASE w.engine.failed
    BY <1>1, <2>1 DEF Placed, PlacedOf
  <2>2. CASE ~w.engine.failed
    <3>1. PICK from : from = FromOf(w.engine.lane, w.applied)
      OBVIOUS
    <3>2. /\ \A i \in DOMAIN q : q[i].at = from + i
          /\ w.received = from + Len(q)
          /\ w.applied = IF LaneAsks(w.engine.lane, "restore") THEN 0
                         ELSE w.engine.base + Len(w.engine.screen)
          /\ w.phase # "idle" => w.acked <= from
          /\ w.phase = "committed" =>
                w.applied >= w.target /\ ~LaneAsks(w.engine.lane, "restore")
      BY <1>2, <1>7, <2>2, <3>1, Zenon DEF Good, Placed, PlacedOf
    <3>3. from \in Nat
      <4>1. CASE LaneAsks(w.engine.lane, "restore")
        <5>1. IsRestore(w.engine.lane)
          BY <1>3, <4>1, EmptyFacts, WriteFacts, GridFacts, Zenon DEF Lane
        <5>2. w.engine.lane[1].cursor \in Nat
          BY <5>1, RestoreFacts, Zenon
        <5> QED BY <3>1, <4>1, <5>2 DEF FromOf
      <4>2. CASE ~LaneAsks(w.engine.lane, "restore")
        BY <1>3, <3>1, <4>2 DEF FromOf
      <4> QED BY <4>1, <4>2
    <3>4. w.sent + 1 = from + (n + 1)
      <4>1. w.sent = from + n
        BY <1>2, <1>8, <3>2
      <4> QED BY <1>3, <1>4, <3>3, <4>1
    <3>5. v.received = from + Len(p) /\ b.at = from + (n + 1)
      BY <1>4, <3>4, Zenon
    <3>6. \A i \in DOMAIN p : p[i].at = from + i
      BY <1>4, <1>5, <3>2, <3>5, Zenon
    <3> QED BY <1>1, <1>2, <3>1, <3>2, <3>5, <3>6, Zenon DEF Placed, PlacedOf
  <2> QED BY <2>1, <2>2
<1>14. Bounded(v.bounds, v.turn, v.sent)
  <2>1. w.turn <= w.sent + 1
    BY <1>3 DEF Good, Bounded
  <2> QED BY <1>1, <2>1 DEF Good, Bounded
<1>15. Gridded(v)
  <2>1. CASE w.engine.failed
    BY <1>1, <2>1 DEF Gridded
  <2>2. CASE ~w.engine.failed
    <3>1. PICK last : last = LastOf(w.engine)
      OBVIOUS
    <3>2. last \in Nat
      BY <1>3, <3>1, LastTyped
    <3>3. GriddedOf(last, w.fence, w.resizes, q, w.count)
      BY <1>2, <1>7, <2>2, <3>1, Zenon DEF Good, Gridded
    <3>4. GriddedOf(last, w.fence, w.resizes, Append(q, b), w.count)
      BY <1>3, <3>2, <3>3, GriddedEntry
    <3>5. v.queue = Append(q, b)
      BY <1>2
    <3> QED BY <1>1, <3>1, <3>4, <3>5, Zenon DEF Gridded
  <2> QED BY <2>1, <2>2
<1>16. Parsing(v.engine)
  BY <1>1 DEF Good
<1> QED BY <1>9, <1>10, <1>11, <1>12, <1>13, <1>14, <1>15, <1>16 DEF Good

\* A queue that is full fails the drain.
LEMMA KeptOverload ==
  ASSUME NEW w, Made(w)
  PROVE  Kept(w, Overload(w), {"failed"}) /\ Overload(w).failed = TRUE
<1>1. PICK t, y : t = TRUE /\ y = FALSE
  BY Zenon
<1>2. PICK u : u = [w EXCEPT !.failed = t, !.scheduled = y]
  OBVIOUS
<1>3. Kept(w, u, {"failed"}) /\ u.failed = t
  BY <1>2 DEF Made, Fields, Kept
<1>4. Made(u)
  BY <1>3 DEF Kept
<1>5. PICK v : v = HealthFail(u)
  OBVIOUS
<1>6. Kept(u, v, {})
  BY <1>4, <1>5, KeptHealthFail
<1>7. Kept(w, v, {"failed"}) /\ v.failed = t
  BY <1>3, <1>6 DEF Kept
<1> QED BY <1>1, <1>2, <1>5, <1>7, Zenon DEF Overload

\* The entry of a byte.
LEMMA EntryFacts ==
  ASSUME NEW w, w.sent \in Nat, w.resizes \in Nat
  PROVE  LET b == Entry(w) IN
         b \in Byte /\ b.at = w.sent /\ ~b.old /\ b.grid = w.resizes
<1>1. PICK y : y = FALSE
  BY Zenon
<1>2. PICK k : k = CASE w.batch = "waiting" -> "burst"
                     [] w.batch # "waiting" /\ w.phase = "committed" -> "live"
                     [] w.batch # "waiting" /\ w.phase # "committed" -> "replay"
  OBVIOUS
<1>3. k \in {"burst", "live", "replay"}
  BY <1>2
<1>4. PICK b : b = [at |-> w.sent, old |-> y, grid |-> w.resizes, kind |-> k]
  OBVIOUS
<1>5. b = Entry(w)
  BY <1>1, <1>2, <1>4, Zenon DEF Entry
<1>6. y \in BOOLEAN
  BY <1>1, Zenon
<1>7. b \in Byte /\ b.at = w.sent /\ b.old = y /\ b.grid = w.resizes
  BY <1>3, <1>4, <1>6 DEF Byte
<1> QED BY <1>1, <1>5, <1>7, Zenon

\* A byte that arrives keeps the invariant.
LEMMA GoodFrame ==
  ASSUME Good(pane), Frame
  PROVE  Good(pane')
<1>1. /\ Made(pane) /\ pane.sent \in Nat /\ pane.resizes \in Nat /\ pane.queue \in Seq(Byte)
  BY GoodTypes
<1>2. pane.phase # "idle"
  <2>1. pane.stage = "replay" \/ pane.stage = "live"
    BY Zenon DEF Frame, FrameDue
  <2> QED BY <2>1 DEF Good, Stages, StagesOf
<1>3. PICK s : s = pane.sent + 1
  OBVIOUS
<1>4. PICK w : w = [pane EXCEPT !.sent = s]
  OBVIOUS
<1>5. Kept(pane, w, {"sent"}) /\ w.sent = s
  BY <1>1, <1>4 DEF Made, Fields, Kept
<1>6. /\ Made(w) /\ w.failed = pane.failed /\ w.queue = pane.queue /\ w.phase = pane.phase
      /\ w.resizes = pane.resizes
  BY <1>5 DEF Kept
<1>7. pane' = Received(w)
  <2>1. [pane EXCEPT !.sent = @ + 1] = [pane EXCEPT !.sent = pane.sent + 1]
    BY <1>1 DEF Made, Fields
  <2> QED BY <1>3, <1>4, <2>1, Zenon DEF Frame
<1>8. CASE w.failed
  <2>1. pane' = w
    BY <1>7, <1>8, Zenon DEF Received
  <2>2. pane.failed = TRUE
    BY <1>6, <1>8, Zenon DEF Good, Typed
  <2>3. Kept(pane, w, {"sent", "failed"}) /\ w.failed = TRUE /\ w.sent = pane.sent + 1
    BY <1>3, <1>5, <1>6, <2>2 DEF Kept
  <2> QED BY <2>1, <2>3, GoodRefused
<1>9. CASE ~w.failed /\ Len(w.queue) >= QueueLimit
  <2>1. PICK v : v = Overload(w)
    OBVIOUS
  <2>2. pane' = v
    BY <1>7, <1>9, <2>1, Zenon DEF Received
  <2>3. Kept(w, v, {"failed"}) /\ v.failed = TRUE
    BY <1>6, <2>1, KeptOverload
  <2>4. Kept(pane, v, {"sent", "failed"}) /\ v.sent = pane.sent + 1
    BY <1>3, <1>5, <2>3 DEF Kept
  <2> QED BY <2>2, <2>3, <2>4, GoodRefused
<1>10. CASE ~w.failed /\ ~(Len(w.queue) >= QueueLimit)
  <2>1. PICK b : b = Entry(w)
    OBVIOUS
  <2>2. b \in Byte /\ b.at = pane.sent + 1 /\ ~b.old /\ b.grid = pane.resizes
    <3>1. w.sent \in Nat /\ w.resizes \in Nat
      BY <1>1, <1>3, <1>5, <1>6
    <3>2. b \in Byte /\ b.at = w.sent /\ ~b.old /\ b.grid = w.resizes
      BY <2>1, <3>1, EntryFacts
    <3> QED BY <1>3, <1>5, <1>6, <3>2
  <2>3. PICK q : q = Append(pane.queue, b)
    OBVIOUS
  <2>4. PICK v : v = [w EXCEPT !.queue = q, !.received = s]
    OBVIOUS
  <2>5. Kept(w, v, {"queue", "received"}) /\ v.queue = q /\ v.received = s
    BY <1>6, <2>4 DEF Made, Fields, Kept
  <2>6. /\ Kept(pane, v, {"sent", "queue", "received"}) /\ v.sent = pane.sent + 1
        /\ v.received = pane.sent + 1 /\ v.queue = Append(pane.queue, b)
    BY <1>3, <1>5, <2>3, <2>5 DEF Kept
  <2>7. ~pane.failed
    BY <1>6, <1>10
  <2>8. Good(v)
    BY <1>2, <2>2, <2>6, <2>7, GoodEntered
  <2>9. pane' = Overload(v) \/ pane' = v \/ pane' = Scheduled(v)
    <3>1. v = [w EXCEPT !.queue = Append(@, Entry(w)), !.received = w.sent]
      <4>1. [w EXCEPT !.queue = Append(@, Entry(w)), !.received = w.sent]
            = [w EXCEPT !.queue = Append(w.queue, Entry(w)), !.received = w.sent]
        BY Zenon
      <4> QED BY <1>5, <1>6, <2>1, <2>3, <2>4, <4>1, Zenon
    <3> DEFINE To(u) == IF Len(u.queue) = QueueLimit THEN Overload(u)
                        ELSE IF u.batch = "waiting" THEN u ELSE Scheduled(u)
    <3>2. Received(w) = To([w EXCEPT !.queue = Append(@, Entry(w)), !.received = w.sent])
      BY <1>10, Zenon DEF Received
    <3> HIDE DEF To
    <3>3. Received(w) = To(v)
      BY <3>1, <3>2, Zenon
    <3> QED BY <1>7, <3>3, Zenon DEF To
  <2>10. Made(v)
    BY <2>6 DEF Kept
  <2>11. CASE pane' = Overload(v)
    <3>1. PICK u : u = Overload(v)
      OBVIOUS
    <3>2. Kept(v, u, {"failed"}) /\ u.failed = TRUE
      BY <2>10, <3>1, KeptOverload
    <3>3. Kept(v, u, {"sent", "failed"}) /\ u.sent = v.sent
      BY <3>2 DEF Kept
    <3>4. Good(u)
      BY <2>8, <3>2, <3>3, GoodRefused
    <3> QED BY <2>11, <3>1, <3>4
  <2>12. CASE pane' = v
    BY <2>8, <2>12
  <2>13. CASE pane' = Scheduled(v)
    BY <2>8, <2>13, GoodReschedule
  <2> QED BY <2>9, <2>11, <2>12, <2>13
<1> QED BY <1>8, <1>9, <1>10

-----------------------------------------------------------------------------
\* The invariant holds, and what follows from it.

\* The initial state, field by field.
LEMMA StartIs ==
  LET w == Start IN
  /\ Made(w) /\ w.hist = 0 /\ w.sent = 0 /\ w.acked = 0 /\ w.turn = 0 /\ w.resizes = 1
  /\ w.target = 0 /\ w.received = 0 /\ w.applied = 0 /\ w.count = 0
  /\ w.stage = "closed" /\ w.phase = "idle" /\ w.queue = <<>> /\ w.bounds = <<>>
  /\ w.flight = NoFlight /\ w.fence = NoFence /\ w.failed = FALSE /\ w.geometry = FALSE
  /\ w.engine = Engine
<1>1. PICK y, n, f, e : y = FALSE /\ n = NoFlight /\ f = NoFence /\ e = Engine
  BY Zenon
<1>2. PICK l : l = <<>>
  OBVIOUS
<1>3. PICK w :
        w = [hist |-> 0, faults |-> MaxFaults,
             stage |-> "closed", sent |-> 0, acked |-> 0, turn |-> 0, resizes |-> 1,
             phase |-> "idle", fails |-> 0, target |-> 0, received |-> 0, applied |-> 0,
             queue |-> l, batch |-> "none", count |-> 0, bounds |-> l,
             scheduled |-> y, flight |-> n, failed |-> y,
             geometry |-> y, broken |-> y, fence |-> f, fenceTask |-> y,
             engine |-> e, timer |-> y, recovering |-> y, attempts |-> 0,
             exhausted |-> y]
  OBVIOUS
<1>4. w = Start
  BY <1>1, <1>2, <1>3, Zenon DEF Start
<1>5. Made(w)
  BY <1>3 DEF Made, Fields
<1>6. /\ w.hist = 0 /\ w.sent = 0 /\ w.acked = 0 /\ w.turn = 0 /\ w.resizes = 1
      /\ w.target = 0 /\ w.received = 0 /\ w.applied = 0 /\ w.count = 0
      /\ w.stage = "closed" /\ w.phase = "idle" /\ w.queue = l /\ w.bounds = l
      /\ w.flight = n /\ w.fence = f /\ w.failed = y /\ w.geometry = y
      /\ w.engine = e
  BY <1>3
<1> QED BY <1>1, <1>2, <1>4, <1>5, <1>6, Zenon

\* The invariant holds initially.
LEMMA GoodInit == ASSUME Init PROVE Good(pane)
<1> DEFINE w == Start
<1>1. /\ Made(w) /\ w.hist = 0 /\ w.sent = 0 /\ w.acked = 0 /\ w.turn = 0 /\ w.resizes = 1
      /\ w.target = 0 /\ w.received = 0 /\ w.applied = 0 /\ w.count = 0
      /\ w.stage = "closed" /\ w.phase = "idle" /\ w.queue = <<>> /\ w.bounds = <<>>
      /\ w.flight = NoFlight /\ w.fence = NoFence /\ w.failed = FALSE /\ w.geometry = FALSE
      /\ w.engine = Engine
  BY StartIs, Zenon
<1>2. pane = w
  BY DEF Init
<1> HIDE DEF w
<1>3. /\ WorkerMade(Engine) /\ Engine.failed \in BOOLEAN /\ Engine.lane = <<>>
      /\ Engine.base \in Nat /\ Engine.grid \in Nat
      /\ Engine.screen \in Seq(Parse) /\ Parsing(Engine)
  BY EngineFacts, Zenon
<1>4. Typed(w)
  <2>1. /\ w.queue \in Seq(Byte) /\ w.bounds \in Seq(Nat) /\ w.failed \in BOOLEAN
        /\ w.geometry \in BOOLEAN
        /\ w.stage \in {"closed", "attach", "replay", "live"}
        /\ w.phase \in {"idle", "replaying", "awaiting", "committed"}
        /\ w.fence \in Fence /\ w.flight \in Flight
    BY <1>1, NothingTyped, Zenon
  <2>2. w.hist \in Nat /\ w.sent \in Nat /\ w.acked \in Nat /\ w.turn \in Nat
        /\ w.resizes \in Nat /\ w.target \in Nat /\ w.received \in Nat /\ w.applied \in Nat
        /\ w.count \in Nat
    BY <1>1
  <2>3. /\ WorkerMade(w.engine) /\ w.engine.failed \in BOOLEAN
        /\ w.engine.base \in Nat /\ w.engine.grid \in Nat /\ w.engine.screen \in Seq(Parse)
    BY <1>1, <1>3, Zenon
  <2> QED BY <1>1, <2>1, <2>2, <2>3, Zenon DEF Typed
<1>5. Lane(<<>>) /\ ~IsWrite(<<>>) /\ ~IsRestore(<<>>) /\ ~LaneAsks(<<>>, "grid")
  BY EmptyFacts DEF Lane
<1>6. w.engine.lane = <<>> /\ Parsing(w.engine)
  BY <1>1, <1>3, Zenon
<1>7. Lanes(w)
  BY <1>1, <1>5, <1>6, Zenon DEF Lanes, LanesOf
<1>8. Written(w)
  BY <1>5, <1>6, Zenon DEF Written, WrittenOf
<1>9. w.received <= w.sent /\ Bounded(w.bounds, w.turn, w.sent)
  BY <1>1 DEF Bounded
<1>10. Good(w)
  BY <1>1, <1>4, <1>6, <1>7, <1>8, <1>9, GoodIdle
<1> QED BY <1>2, <1>10

\* Every step keeps it.
LEMMA GoodNext == ASSUME Good(pane), [Next]_pane PROVE Good(pane')
<1>1. CASE pane' = pane
  BY <1>1
<1>2. CASE Connect
  BY <1>2, GoodConnect
<1>3. CASE ReplayStart
  BY <1>3, GoodReplayStart
<1>4. CASE Frame
  BY <1>4, GoodFrame
<1>5. CASE Turn
  BY <1>5, GoodTurn
<1>6. CASE ReplayComplete
  BY <1>6, GoodReplayComplete
<1>7. CASE Pump
  BY <1>7, GoodPump
<1>8. CASE FencePump
  BY <1>8, GoodFencePump
<1>9. CASE Reply
  BY <1>9, GoodReply
<1>10. CASE HealthTimer
  BY <1>10, GoodHealthTimer
<1>11. CASE Presented
  BY <1>11, GoodPresented
<1>12. CASE AttachTimeout
  BY <1>12, GoodAttachTimeout
<1>13. CASE Stalled
  BY <1>13, GoodStalled
<1>14. CASE Produce
  BY <1>14, GoodProduce
<1>15. CASE Resize
  BY <1>15, GoodResize
<1>16. CASE Disconnect
  BY <1>16, GoodDisconnect
<1>17. CASE Misrouted
  BY <1>17, GoodMisrouted
<1>18. CASE WorkerFails
  BY <1>18, GoodWorkerFails
<1> QED BY <1>1, <1>2, <1>3, <1>4, <1>5, <1>6, <1>7, <1>8, <1>9, <1>10, <1>11, <1>12,
           <1>13, <1>14, <1>15, <1>16, <1>17, <1>18, Zenon DEF Next, Progress

\* The inductive invariant of the pane's output: in every state the queue, the
\* lane of the worker, its screen, the cursors and the fences fit together, for
\* every bound on bytes, resizes and faults and every limit of the page.
THEOREM OutputInductive == Spec => []Good(pane)
<1>1. Init => Good(pane)
  BY GoodInit
<1>2. Good(pane) /\ [Next]_pane => Good(pane)'
  BY GoodNext
<1> QED BY <1>1, <1>2, PTL DEF Spec

\* The screen shows bytes that fit;
LEMMA GoodBoundary == ASSUME Good(pane) PROVE GridBoundary
BY DEF Good, Parsing, GridBoundary

\* the cursor and the acks are those of the screen once it is restored;
LEMMA GoodCursor ==
  ASSUME NEW w, Good(w), Restored(w)
  PROVE  /\ w.applied = Parsed(w) /\ w.acked <= Parsed(w)
         /\ w.phase = "committed" => Parsed(w) >= w.target
<1>1. BoundTo(w.phase, w.queue) /\ ~w.engine.failed /\ w.phase # "idle"
  BY Zenon DEF Restored, BoundTo
<1>2. ~LaneAsks(w.engine.lane, "restore")
  BY DEF Restored, Asked, LaneAsks
<1>3. FromOf(w.engine.lane, w.applied) = w.applied
  BY <1>2 DEF FromOf
<1>4. /\ w.applied = w.engine.base + Len(w.engine.screen)
      /\ w.acked <= w.applied
      /\ w.phase = "committed" => w.applied >= w.target
  BY <1>1, <1>2, <1>3, Zenon DEF Good, Placed, PlacedOf
<1> QED BY <1>4, Zenon DEF Parsed

\* so the screen matches the history,
LEMMA GoodMatches == ASSUME Good(pane) PROVE ScreenMatches
<1>1. \A i \in DOMAIN pane.engine.screen : pane.engine.screen[i].at = pane.engine.base + i
  BY DEF Good, Parsing
<1> QED BY <1>1, GoodCursor, Zenon DEF ScreenMatches

\* and acks follow it.
LEMMA GoodAcked == ASSUME Good(pane) PROVE AckedParsed
BY GoodCursor, Zenon DEF AckedParsed

\* A byte is parsed on the grid it was printed for, whatever resizes, fences,
\* replays and restarts of the worker came between (resize_controller.js 1084).
THEOREM GridBoundarySafe == Spec => []GridBoundary
BY OutputInductive, GoodBoundary, PTL

\* The worker shows the history without a gap and without a repetition, and the
\* cursor says how far (output_controller.js, terminal_adapter.js).
THEOREM ScreenSafe == Spec => []ScreenMatches
BY OutputInductive, GoodMatches, PTL

\* The broker is told that bytes were consumed only after the worker parsed
\* them (output_controller.js, ack of a queue turn).
THEOREM AckedSafe == Spec => []AckedParsed
BY OutputInductive, GoodAcked, PTL

-----------------------------------------------------------------------------
\* Output that may move has someone who moves it.

\* NoLostFlush of a state; a state is owed a flush when its output may move.
Owed(w) == w.queue # <<>> /\ ~w.failed /\ ~Gated(w) /\ w.batch # "waiting"
\* NoLostFlush, of any state.
Flow(w) == Owed(w) => w.scheduled \/ w.flight # NoFlight

\* A state that agrees on all that Flow reads.
Stays(w, v) ==
    /\ Made(v)
    /\ v.queue = w.queue /\ v.failed = w.failed /\ v.geometry = w.geometry
    /\ v.broken = w.broken /\ v.fence = w.fence /\ v.batch = w.batch
    /\ v.scheduled = w.scheduled /\ v.flight = w.flight

\* Flow is carried over to a state that agrees.
LEMMA FlowStays == ASSUME NEW w, NEW v, Flow(w), Stays(w, v) PROVE Flow(v)
BY DEF Flow, Owed, Gated, Stays

\* Agreement is transitive.
LEMMA StaysTwice == ASSUME NEW w, NEW u, NEW v, Stays(w, u), Stays(u, v) PROVE Stays(w, v)
BY DEF Stays

\* Output that is dropped, refused or held back is owed nothing.
LEMMA FlowIdle ==
  ASSUME NEW w, w.queue = <<>> \/ w.failed \/ w.fence # NoFence \/ w.batch = "waiting"
                \/ w.flight # NoFlight
  PROVE  Flow(w)
BY DEF Flow, Owed, Gated

\* Scheduling a flush, with or without its condition, leaves no output behind.
LEMMA FlowSet == ASSUME NEW w, NEW v, v = Scheduled(w), Made(v) PROVE Flow(v)
<1>1. CASE w.failed
  BY <1>1 DEF Scheduled, Flow, Owed
<1>2. CASE ~w.failed
  <2>1. PICK t : t = TRUE
    OBVIOUS
  <2>2. v = [w EXCEPT !.scheduled = t]
    BY <1>2, <2>1, Zenon DEF Scheduled
  <2>3. v.scheduled = t
    BY <2>2 DEF Made, Fields
  <2> QED BY <2>1, <2>3, Zenon DEF Flow
<1> QED BY <1>1, <1>2

\* With its condition.
LEMMA FlowRescheduled == ASSUME NEW w, NEW v, v = Reschedule(w), Made(v) PROVE Flow(v)
<1>1. CASE w.queue # <<>> /\ ~w.failed /\ w.batch # "waiting" /\ ~Gated(w)
  BY <1>1, FlowSet DEF Reschedule
<1>2. CASE ~(w.queue # <<>> /\ ~w.failed /\ w.batch # "waiting" /\ ~Gated(w))
  <2>1. v = w
    BY <1>2, Zenon DEF Reschedule
  <2> QED BY <1>2, <2>1 DEF Flow, Owed
<1> QED BY <1>1, <1>2

\* Recovery, acks, a commit and a detached stream touch none of it.
LEMMA StaysHealthFail == ASSUME NEW w, Made(w) PROVE Stays(w, HealthFail(w))
<1>1. CASE w.timer \/ w.exhausted \/ (w.recovering /\ ~w.engine.failed)
  BY <1>1 DEF HealthFail, Stays
<1>2. CASE ~(w.timer \/ w.exhausted \/ (w.recovering /\ ~w.engine.failed))
  <2>1. PICK y : y = FALSE
    BY Zenon
  <2>2. PICK a, t, e : /\ a = w.attempts + 1 /\ t = (w.attempts < RetryLimit)
                       /\ e = (w.attempts = RetryLimit)
    OBVIOUS
  <2>3. PICK v : v = [w EXCEPT !.recovering = y, !.attempts = a, !.timer = t, !.exhausted = e]
    OBVIOUS
  <2>4. Stays(w, v)
    BY <2>3 DEF Made, Fields, Stays
  <2>5. v = [w EXCEPT !.recovering = FALSE, !.attempts = w.attempts + 1,
                      !.timer = w.attempts < RetryLimit,
                      !.exhausted = w.attempts = RetryLimit]
    BY <2>1, <2>2, <2>3, Zenon
  <2>6. HealthFail(w) = [w EXCEPT !.recovering = FALSE, !.attempts = w.attempts + 1,
                                  !.timer = w.attempts < RetryLimit,
                                  !.exhausted = w.attempts = RetryLimit]
    BY <1>2, Zenon DEF HealthFail
  <2> QED BY <2>4, <2>5, <2>6, Zenon
<1> QED BY <1>1, <1>2

\* A replay that failed,
LEMMA StaysNoteFailure == ASSUME NEW w, Made(w) PROVE Stays(w, NoteFailure(w))
BY DEF NoteFailure, Made, Fields, Stays

\* a stream that is given up,
LEMMA StaysDetached == ASSUME NEW w, Made(w) PROVE Stays(w, Detached(w))
BY DEF Detached, Made, Fields, Stays

\* an ack,
LEMMA StaysAcked == ASSUME NEW w, Made(w), NEW cursor PROVE Stays(w, AckReached(w, cursor))
BY DEF AckReached, Made, Fields, Stays

\* and a commit.
LEMMA StaysFinish == ASSUME NEW w, Made(w) PROVE Stays(w, Finish(w))
BY DEF Finish, Made, Fields, Stays

\* A write keeps the fence and the shape of the state.
LEMMA MadeWrite ==
  ASSUME NEW w, Made(w), NEW force, NEW left, NEW v \in Write(w, force, left)
  PROVE  Made(v) /\ v.fence = w.fence
<1>1. \/ \E f : v = [w EXCEPT !.flight = f]
      \/ \E f, r : v = Ask([w EXCEPT !.flight = f], r)
  BY Zenon DEF Write
<1>2. CASE \E f : v = [w EXCEPT !.flight = f]
  <2>1. PICK f : v = [w EXCEPT !.flight = f]
    BY <1>2
  <2>2. Kept(w, v, {"flight"})
    BY <2>1, KeptLanded, Zenon
  <2> QED BY <2>2 DEF Kept
<1>3. CASE \E f, r : v = Ask([w EXCEPT !.flight = f], r)
  <2>1. PICK f, r : v = Ask([w EXCEPT !.flight = f], r)
    BY <1>3
  <2>2. Kept(w, v, {"flight", "engine"})
    BY <2>1, KeptAsk, Zenon
  <2> QED BY <2>2 DEF Kept
<1> QED BY <1>1, <1>2, <1>3

\* So does a drain.
LEMMA MadeDrain ==
  ASSUME NEW w, Made(w), NEW force, NEW left, NEW v \in Drain(w, force, left)
  PROVE  Made(v) /\ v.fence = w.fence
<1>1. CASE w.queue = <<>>
  <2>1. v = TrySend(Finish(w))
    BY <1>1, Zenon DEF Drain
  <2>2. Stays(w, Finish(w))
    BY StaysFinish
  <2>3. Made(Finish(w)) /\ Finish(w).fence = w.fence
    BY <2>2 DEF Stays
  <2>4. Stays(Finish(w), v)
    BY <2>1, <2>3, StaysAcked, Zenon DEF TrySend
  <2> QED BY <2>3, <2>4 DEF Stays
<1>2. CASE w.queue # <<>> /\ (~Attached(w) \/ \E i \in DOMAIN w.queue : w.queue[i].old)
  <2>1. v = [w EXCEPT !.queue = <<>>]
    BY <1>2, Zenon DEF Drain
  <2> QED BY <2>1 DEF Made, Fields
<1>3. CASE w.queue # <<>> /\ ~(~Attached(w) \/ \E i \in DOMAIN w.queue : w.queue[i].old)
  <2>1. v \in Write(w, force, left)
    BY <1>3, Zenon DEF Drain
  <2> QED BY <2>1, MadeWrite
<1> QED BY <1>1, <1>2, <1>3

\* A flush leaves no output behind, whatever it found.
LEMMA FlowFlush ==
  ASSUME NEW w, Made(w), NEW v \in Flush(w)
  PROVE  Flow(v) /\ Made(v) /\ v.fence = w.fence
<1>1. CASE w.failed
  <2>1. v = w
    BY <1>1, Zenon DEF Flush
  <2> QED BY <1>1, <2>1, FlowIdle
<1>2. CASE ~w.failed
  <2>1. PICK u : u = [w EXCEPT !.scheduled = FALSE]
    OBVIOUS
  <2>2. Made(u) /\ u.fence = w.fence
    BY <2>1 DEF Made, Fields
  <2>3. \/ v = u /\ (u.flight # NoFlight \/ u.batch = "waiting" \/ Gated(u))
        \/ v = Scheduled(u)
        \/ \E x \in Drain(u, FALSE, Len(u.queue)) :
              v = IF x.flight = NoFlight THEN Reschedule(x) ELSE x
    BY <1>2, <2>1, Zenon DEF Flush
  <2>4. CASE v = u /\ (u.flight # NoFlight \/ u.batch = "waiting" \/ Gated(u))
    BY <2>2, <2>4 DEF Flow, Owed
  <2>5. CASE v = Scheduled(u)
    <3>1. Kept(u, v, {})
      BY <2>2, <2>5, KeptScheduled
    <3>2. Made(v) /\ v.fence = u.fence
      BY <3>1 DEF Kept
    <3> QED BY <2>2, <2>5, <3>2, FlowSet
  <2>6. ASSUME NEW x \in Drain(u, FALSE, Len(u.queue)),
               v = IF x.flight = NoFlight THEN Reschedule(x) ELSE x
        PROVE  Flow(v) /\ Made(v) /\ v.fence = w.fence
    <3>1. Made(x) /\ x.fence = w.fence
      BY <2>2, <2>6, MadeDrain
    <3>2. CASE x.flight = NoFlight
      <4>1. v = Reschedule(x)
        BY <2>6, <3>2, Zenon
      <4>2. Kept(x, v, {})
        BY <3>1, <4>1, KeptReschedule
      <4>3. Made(v) /\ v.fence = x.fence
        BY <4>2 DEF Kept
      <4> QED BY <3>1, <4>1, <4>3, FlowRescheduled
    <3>3. CASE x.flight # NoFlight
      <4>1. v = x
        BY <2>6, <3>3, Zenon
      <4> QED BY <3>1, <3>3, <4>1, FlowIdle
    <3> QED BY <3>2, <3>3
  <2> QED BY <2>3, <2>4, <2>5, <2>6
<1> QED BY <1>1, <1>2

\* A fence holds the output back until it is over, and the fence goes on
\* only while it is set.
LEMMA FlowGoesOn ==
  ASSUME NEW w, Made(w), w.fence \in Fence, w.fence # NoFence => w.fence.set, Flow(w)
  PROVE  Flow(FenceGoesOn(w))
<1> DEFINE v == FenceGoesOn(w)
<1>1. CASE w.fence = NoFence
  <2>1. v = w
    BY <1>1, Zenon DEF FenceGoesOn
  <2> QED BY <2>1
<1>2. CASE w.fence # NoFence
  <2>1. \/ v = w
        \/ v = [w EXCEPT !.fence.busy = FALSE, !.fenceTask = TRUE]
        \/ v = [w EXCEPT !.fence.posted = TRUE]
        \/ \E r : v = Ask([w EXCEPT !.fence.posted = TRUE], r)
    BY Zenon DEF FenceGoesOn
  <2>2. w.fence.set /\ w.fence.set \in BOOLEAN /\ NoFence.set = FALSE
    BY <1>2, FenceTypes DEF NoFence
  <2>3. PICK t, y : t = TRUE /\ y = FALSE
    BY Zenon
  <2>4. CASE v = [w EXCEPT !.fence.busy = FALSE, !.fenceTask = TRUE]
    <3>1. PICK x : x = [w EXCEPT !.fence.busy = y, !.fenceTask = t]
      OBVIOUS
    <3>2. x.fence = [w.fence EXCEPT !.busy = y]
      BY <3>1 DEF Made, Fields
    <3>3. x.fence.set = w.fence.set
      BY <3>2 DEF Fence
    <3>4. x.fence # NoFence
      BY <2>2, <3>3, Zenon
    <3>5. v = x
      BY <2>3, <2>4, <3>1, Zenon
    <3> QED BY <3>4, <3>5, FlowIdle, Zenon
  <2>5. ASSUME NEW x, x = [w EXCEPT !.fence.posted = t]
        PROVE  Made(x) /\ x.fence # NoFence
    <3>2. Made(x) /\ x.fence = [w.fence EXCEPT !.posted = t]
      BY <2>5 DEF Made, Fields
    <3>3. x.fence.set = w.fence.set
      BY <3>2 DEF Fence
    <3> QED BY <2>2, <3>2, <3>3, Zenon
  <2>6. CASE v = [w EXCEPT !.fence.posted = TRUE]
    <3>1. v = [w EXCEPT !.fence.posted = t]
      BY <2>3, <2>6, Zenon
    <3>2. v.fence # NoFence
      BY <2>5, <3>1
    <3> QED BY <3>2, FlowIdle
  <2>7. CASE \E r : v = Ask([w EXCEPT !.fence.posted = TRUE], r)
    <3>1. PICK r : v = Ask([w EXCEPT !.fence.posted = TRUE], r)
      BY <2>7
    <3>2. PICK x : x = [w EXCEPT !.fence.posted = t]
      OBVIOUS
    <3>3. v = Ask(x, r)
      BY <2>3, <3>1, <3>2, Zenon
    <3>4. Made(x) /\ x.fence # NoFence
      BY <2>5, <3>2
    <3> HIDE DEF v
    <3>5. v.fence = x.fence
      BY <3>3, <3>4 DEF Ask, Made, Fields
    <3>6. Flow(v)
      BY <3>4, <3>5, FlowIdle
    <3> QED BY <3>6 DEF v
  <2> QED BY <2>1, <2>4, <2>6, <2>7
<1> QED BY <1>1, <1>2

\* A worker that is lost: its drain is refused, or no one waited for it.
LEMMA FlowLostDrain ==
  ASSUME NEW w, Good(w), Flow(w)
  PROVE  LET v == LostDrain(w) IN Flow(v) /\ Made(v) /\ v.fence = w.fence
<1> DEFINE x == LostWorker(w)
           lost == HealthFail(x)
           v == LostDrain(w)
<1>1. Good(v)
  BY GoodLostDrain
<1>2. Made(w) /\ Made(v)
  BY <1>1, GoodTypes
<1>3. Stays(w, x)
  <2>1. PICK t, l : t = TRUE /\ l = <<>>
    OBVIOUS
  <2>2. PICK y : y = [w EXCEPT !.engine.failed = t, !.engine.lane = l]
    OBVIOUS
  <2>3. Stays(w, y)
    BY <1>2, <2>2 DEF Made, Fields, Stays
  <2>4. y = LostWorker(w)
    BY <2>1, <2>2, Zenon DEF LostWorker
  <2> QED BY <2>3, <2>4
<1>4. v = IF w.flight = NoFlight THEN lost
          ELSE IF w.flight.stale THEN Reschedule([lost EXCEPT !.flight = NoFlight])
          ELSE [lost EXCEPT !.flight = NoFlight, !.failed = TRUE, !.scheduled = FALSE]
  BY Zenon DEF LostDrain
<1> HIDE DEF x, v
<1>5. Stays(x, lost)
  BY <1>3, StaysHealthFail DEF Stays
<1> HIDE DEF lost
<1>6. Stays(w, lost)
  BY <1>3, <1>5, StaysTwice
<1>7. CASE w.flight = NoFlight
  <2>1. v = lost
    BY <1>4, <1>7, Zenon
  <2>2. Flow(v) /\ v.fence = w.fence
    BY <1>6, <2>1, FlowStays DEF Stays
  <2> QED BY <1>2, <2>2 DEF v
<1>8. CASE w.flight # NoFlight /\ w.flight.stale
  <2>1. v = Reschedule([lost EXCEPT !.flight = NoFlight])
    BY <1>4, <1>8, Zenon
  <2>2. PICK y : y = [lost EXCEPT !.flight = NoFlight]
    OBVIOUS
  <2>3. Made(y) /\ y.fence = lost.fence
    BY <1>6, <2>2 DEF Stays, Made, Fields
  <2>4. Kept(y, v, {})
    BY <2>1, <2>2, <2>3, KeptReschedule, Zenon
  <2>5. v.fence = w.fence
    BY <1>6, <2>3, <2>4 DEF Kept, Stays
  <2>6. Flow(v)
    BY <1>2, <2>1, FlowRescheduled
  <2> QED BY <1>2, <2>5, <2>6 DEF v
<1>9. CASE w.flight # NoFlight /\ ~w.flight.stale
  <2>1. PICK t, f : t = TRUE /\ f = FALSE
    BY Zenon
  <2>2. PICK n : n = NoFlight
    OBVIOUS
  <2>3. v = [lost EXCEPT !.flight = n, !.failed = t, !.scheduled = f]
    BY <1>4, <1>9, <2>1, <2>2, Zenon
  <2>4. v.failed = t /\ v.fence = lost.fence
    BY <1>6, <2>3 DEF Stays, Made, Fields
  <2>5. v.fence = w.fence
    BY <1>6, <2>4 DEF Stays
  <2>6. Flow(v)
    BY <2>1, <2>4, FlowIdle, Zenon
  <2> QED BY <1>2, <2>5, <2>6 DEF v
<1> QED BY <1>7, <1>8, <1>9

\* A worker that is lost leaves no output behind.
LEMMA FlowEngineFails ==
  ASSUME NEW w, Good(w), Flow(w), NEW v \in EngineFails(w)
  PROVE  Flow(v)
<1> DEFINE lane == w.engine.lane
           drain == LostDrain(w)
           b == \E i \in DOMAIN lane : lane[i].op = "grid" /\ ~lane[i].old
           grid == [drain EXCEPT !.broken = drain.broken \/ b]
<1>1. Flow(drain) /\ Made(drain) /\ drain.fence = w.fence
  BY FlowLostDrain
<1>2. \E u : /\ v = FenceGoesOn(u)
             /\ u \in Flush(Detached(NoteFailure(grid))) \/ u = NoteFailure(grid) \/ u = grid
  <2>1. [drain EXCEPT !.broken = @ \/ b] = grid
    BY Zenon
  <2> DEFINE To(g) == {FenceGoesOn(z) : z \in
        IF \E i \in DOMAIN lane : lane[i].op = "restore"
        THEN IF \E i \in DOMAIN lane : lane[i].op = "restore" /\ ~lane[i].old
                /\ Attached(w)
             THEN Flush(Detached(NoteFailure(g)))
             ELSE {NoteFailure(g)}
        ELSE {g}}
  <2>2. EngineFails(w) = To([drain EXCEPT !.broken = @ \/ b])
    BY Zenon DEF EngineFails, LostDrain, LostWorker
  <2> HIDE DEF grid, b, drain
  <2>3. EngineFails(w) = To(grid)
    BY <2>1, <2>2, Zenon
  <2> QED BY <2>3, Zenon
<1> HIDE DEF drain, b
<1>3. Flow(grid) /\ Made(grid) /\ grid.fence = w.fence
  <2>1. PICK c : c = (drain.broken \/ b)
    OBVIOUS
  <2>2. PICK y : y = [drain EXCEPT !.broken = c]
    OBVIOUS
  <2>3. y = grid
    BY <2>1, <2>2, Zenon
  <2>4. /\ Made(y) /\ y.fence = drain.fence /\ y.queue = drain.queue /\ y.failed = drain.failed
        /\ y.geometry = drain.geometry /\ y.batch = drain.batch /\ y.scheduled = drain.scheduled
        /\ y.flight = drain.flight /\ y.broken = c
    BY <1>1, <2>2 DEF Made, Fields
  <2>5. Owed(y) => Owed(drain)
    <3>1. drain.broken => y.broken
      BY <2>1, <2>4, Zenon
    <3>2. Gated(drain) => Gated(y)
      BY <2>4, <3>1, Zenon DEF Gated
    <3> QED BY <2>4, <3>2, Zenon DEF Owed
  <2>6. Flow(y)
    BY <1>1, <2>4, <2>5 DEF Flow
  <2> QED BY <1>1, <2>3, <2>4, <2>6
<1> HIDE DEF grid
<1>4. PICK u : /\ v = FenceGoesOn(u)
               /\ u \in Flush(Detached(NoteFailure(grid))) \/ u = NoteFailure(grid) \/ u = grid
  BY <1>2
<1>5. Stays(grid, NoteFailure(grid))
  BY <1>3, StaysNoteFailure
<1>6. Made(NoteFailure(grid)) /\ Flow(NoteFailure(grid)) /\ NoteFailure(grid).fence = w.fence
  BY <1>3, <1>5, FlowStays DEF Stays
<1>7. Stays(NoteFailure(grid), Detached(NoteFailure(grid)))
  BY <1>6, StaysDetached
<1>8. Flow(u) /\ Made(u) /\ u.fence = w.fence
  <2>1. CASE u \in Flush(Detached(NoteFailure(grid)))
    <3>1. Made(Detached(NoteFailure(grid))) /\ Detached(NoteFailure(grid)).fence = w.fence
      BY <1>6, <1>7 DEF Stays
    <3> QED BY <2>1, <3>1, FlowFlush
  <2> QED BY <1>3, <1>4, <1>6, <2>1
<1>9. w.fence \in Fence /\ (w.fence # NoFence => w.fence.set)
  BY GoodTypes DEF Good, Lanes, LanesOf
<1> QED BY <1>4, <1>8, <1>9, FlowGoesOn

\* Whoever reschedules a drain leaves no output behind and the fence alone.
LEMMA FlowLeft ==
  ASSUME NEW w, Made(w), NEW v, v = Reschedule(w)
  PROVE  Flow(v) /\ Made(v) /\ v.fence = w.fence
<1>1. Kept(w, v, {})
  BY KeptReschedule
<1>2. Made(v) /\ v.fence = w.fence
  BY <1>1 DEF Kept
<1> QED BY <1>2, FlowRescheduled

\* The end of a drain, and a drain that goes on.
LEMMA FlowDrainEnds ==
  ASSUME NEW w, Made(w)
  PROVE  LET v == DrainEnds(w) IN Flow(v) /\ Made(v) /\ v.fence = w.fence
<1> DEFINE v == DrainEnds(w)
<1>1. PICK x : x = [w EXCEPT !.flight = NoFlight]
  OBVIOUS
<1>2. Made(x) /\ x.fence = w.fence
  BY <1>1 DEF Made, Fields
<1>3. PICK z : /\ v = Reschedule(z)
               /\ z = [x EXCEPT !.scheduled = TRUE] \/ z = Finish(x)
  BY <1>1, Zenon DEF DrainEnds
<1> HIDE DEF v
<1>4. Made(z) /\ z.fence = x.fence
  <2>1. CASE z = [x EXCEPT !.scheduled = TRUE]
    BY <1>2, <2>1 DEF Made, Fields
  <2>2. CASE z = Finish(x)
    BY <1>2, <2>2, StaysFinish DEF Stays
  <2> QED BY <1>3, <2>1, <2>2
<1>5. Flow(v) /\ Made(v) /\ v.fence = w.fence
  BY <1>2, <1>3, <1>4, FlowLeft
<1> QED BY <1>5 DEF v

\* A drain that goes on waits again, or leaves the rest to a flush.
LEMMA FlowDrainGoesOn ==
  ASSUME NEW w, Made(w), NEW v \in DrainGoesOn(w)
  PROVE  Flow(v) /\ Made(v) /\ v.fence = w.fence
<1>1. PICK x \in Write(w, w.flight.force, w.flight.left - w.flight.n) :
        v = IF x.flight = NoFlight THEN Reschedule(x) ELSE x
  BY Zenon DEF DrainGoesOn
<1>2. Made(x) /\ x.fence = w.fence
  BY MadeWrite
<1>3. CASE x.flight = NoFlight
  <2>1. v = Reschedule(x)
    BY <1>1, <1>3, Zenon
  <2> QED BY <1>2, <2>1, FlowLeft
<1>4. CASE x.flight # NoFlight
  <2>1. v = x
    BY <1>1, <1>4, Zenon
  <2> QED BY <1>2, <1>4, <2>1, FlowIdle
<1> QED BY <1>3, <1>4

\* What the worker answers.
LEMMA StaysAnswered == ASSUME NEW w, Made(w) PROVE Stays(w, Answered(w))
BY DEF Answered, Made, Fields, Stays

\* A checkpoint that is in place,
LEMMA FlowRestoreDone ==
  ASSUME NEW w, Made(w), Flow(w), NEW r, NEW v \in RestoreDone(w, r)
  PROVE  Flow(v)
<1>1. PICK x : x = Answered(w)
  OBVIOUS
<1>2. Stays(w, x)
  BY <1>1, StaysAnswered
<1>3. PICK y : y = [x EXCEPT !.engine.base = r.cursor]
  OBVIOUS
<1>4. Stays(x, y)
  BY <1>2, <1>3 DEF Stays, Made, Fields
<1>5. v = y \/ v = [y EXCEPT !.applied = IF @ < r.cursor THEN r.cursor ELSE @]
  BY <1>1, <1>3, Zenon DEF RestoreDone
<1>6. Stays(w, y)
  BY <1>2, <1>4, StaysTwice
<1>7. CASE v = [y EXCEPT !.applied = IF @ < r.cursor THEN r.cursor ELSE @]
  <2>1. PICK a : a = IF y.applied < r.cursor THEN r.cursor ELSE y.applied
    OBVIOUS
  <2>2. v = [y EXCEPT !.applied = IF y.applied < r.cursor THEN r.cursor ELSE y.applied]
    BY <1>7, Zenon
  <2>3. v = [y EXCEPT !.applied = a]
    BY <2>1, <2>2, Zenon
  <2>4. Stays(y, v)
    BY <1>6, <2>3 DEF Stays, Made, Fields
  <2> QED BY <1>6, <2>4, StaysTwice, FlowStays
<1> QED BY <1>5, <1>6, <1>7, FlowStays

\* a grid that changed, which ends what held the output back,
LEMMA FlowGridDone ==
  ASSUME NEW w, Made(w), Flow(w), NEW r, NEW v \in GridDone(w, r), Made(v)
  PROVE  Flow(v)
<1>1. PICK x : x = Answered(w)
  OBVIOUS
<1>2. Stays(w, x)
  BY <1>1, StaysAnswered
<1>3. PICK y : y = [x EXCEPT !.engine.grid = r.grid]
  OBVIOUS
<1>4. Stays(x, y)
  BY <1>2, <1>3 DEF Stays, Made, Fields
<1>5. v = GeometryDone(y) \/ v = NextFence(y) \/ v = y
  BY <1>1, <1>3, Zenon DEF GridDone
<1>6. Stays(w, y)
  BY <1>2, <1>4, StaysTwice
<1>7. CASE v = GeometryDone(y)
  BY <1>7, FlowSet DEF GeometryDone
<1>8. CASE v = NextFence(y)
  <2>1. CASE y.fence.later = <<>>
    BY <1>8, <2>1, FlowRescheduled DEF NextFence
  <2>2. CASE y.fence.later # <<>>
    <3>1. PICK f, t : f = NewFence(Head(y.fence.later), Tail(y.fence.later)) /\ t = TRUE
      OBVIOUS
    <3>2. v = [y EXCEPT !.fence = f, !.fenceTask = t]
      BY <1>8, <2>2, <3>1, Zenon DEF NextFence
    <3>3. v.fence = f
      BY <1>6, <3>2 DEF Stays, Made, Fields
    <3>4. f.set = TRUE /\ NoFence.set = FALSE
      BY <3>1 DEF NewFence, NoFence
    <3> QED BY <3>3, <3>4, FlowIdle, Zenon
  <2> QED BY <2>1, <2>2
<1> QED BY <1>5, <1>6, <1>7, <1>8, FlowStays

\* and a write that was parsed.
LEMMA FlowWriteDone ==
  ASSUME NEW w, Good(w), Flow(w), NEW r, NEW v \in WriteDone(w, r)
  PROVE  Flow(v)
<1>1. Made(w) /\ w.fence \in Fence /\ (w.fence # NoFence => w.fence.set)
  BY GoodTypes DEF Good, Lanes, LanesOf
<1>2. PICK x : x = Answered(w)
  OBVIOUS
<1>3. Stays(w, x)
  BY <1>1, <1>2, StaysAnswered
<1>4. PICK p : p = [i \in DOMAIN r.bytes |->
                     [at |-> r.bytes[i].at, fits |-> r.bytes[i].grid = w.engine.grid]]
  OBVIOUS
<1>5. PICK y : y = [x EXCEPT !.engine.screen = @ \o p]
  OBVIOUS
<1>6. Stays(w, y)
  <2>1. Stays(x, y)
    BY <1>3, <1>5 DEF Stays, Made, Fields
  <2> QED BY <1>3, <2>1, StaysTwice
<1>7. \/ v = y
      \/ v = FenceGoesOn(Reschedule([y EXCEPT !.flight = NoFlight]))
      \/ v = FenceGoesOn(DrainEnds(Popped(y)))
      \/ \E u \in DrainGoesOn(Popped(y)) : v = FenceGoesOn(u)
  BY <1>2, <1>4, <1>5, Zenon DEF WriteDone
<1>8. Made(y) /\ y.fence = w.fence
  BY <1>6 DEF Stays
<1>9. ASSUME NEW u, Flow(u), Made(u), u.fence = w.fence
      PROVE  Flow(FenceGoesOn(u))
  BY <1>1, <1>9, FlowGoesOn
<1>10. Made(Popped(y)) /\ Popped(y).fence = w.fence
  <2>1. Made(Pop(y)) /\ Pop(y).fence = y.fence
    BY <1>8, KeptPop DEF Kept
  <2>2. Stays(Pop(y), Popped(y))
    BY <2>1, PoppedIs, StaysAcked DEF TrySend
  <2> QED BY <1>8, <2>1, <2>2 DEF Stays
<1>11. CASE v = y
  BY <1>6, <1>11, FlowStays
<1>12. CASE v = FenceGoesOn(Reschedule([y EXCEPT !.flight = NoFlight]))
  <2>1. PICK z : z = [y EXCEPT !.flight = NoFlight]
    OBVIOUS
  <2>2. Made(z) /\ z.fence = w.fence
    BY <1>8, <2>1 DEF Made, Fields
  <2>3. PICK u : u = Reschedule(z)
    OBVIOUS
  <2>4. Flow(u) /\ Made(u) /\ u.fence = w.fence
    BY <2>2, <2>3, FlowLeft
  <2> QED BY <1>9, <1>12, <2>1, <2>3, <2>4
<1>13. CASE v = FenceGoesOn(DrainEnds(Popped(y)))
  BY <1>9, <1>10, <1>13, FlowDrainEnds
<1>14. CASE \E u \in DrainGoesOn(Popped(y)) : v = FenceGoesOn(u)
  <2>1. PICK u \in DrainGoesOn(Popped(y)) : v = FenceGoesOn(u)
    BY <1>14
  <2>2. Flow(u) /\ Made(u) /\ u.fence = w.fence
    BY <1>10, FlowDrainGoesOn
  <2> QED BY <1>9, <2>1, <2>2
<1> QED BY <1>7, <1>11, <1>12, <1>13, <1>14

\* The tasks that only flush, and those that touch none of it.
LEMMA FlowPump == ASSUME Good(pane), Pump PROVE Flow(pane')
<1>0. Made(pane)
  BY GoodTypes
<1>1. PICK w : w = [pane EXCEPT !.scheduled = FALSE]
  OBVIOUS
<1>2. Made(w)
  BY <1>0, <1>1, KeptFlush DEF Kept
<1>3. pane' \in Flush(w)
  BY <1>1, Zenon DEF Pump
<1> QED BY <1>2, <1>3, FlowFlush

\* A stream that is given up, with the flush that follows it;
LEMMA FlowDetached ==
  ASSUME NEW w, Made(w), NEW v \in Flush(Detached(w))
  PROVE  Flow(v)
<1>1. Made(Detached(w))
  BY StaysDetached DEF Stays
<1> QED BY <1>1, FlowFlush

\* because it ended,
LEMMA FlowDisconnect == ASSUME Good(pane), Disconnect PROVE Flow(pane')
<1>1. Made(Blamed(pane))
  BY GoodTypes, KeptBlamed DEF Kept
<1> QED BY <1>1, FlowDetached DEF Disconnect

\* or does not get on,
LEMMA FlowAttachTimeout == ASSUME Good(pane), AttachTimeout PROVE Flow(pane')
BY GoodTypes, FlowDetached DEF AttachTimeout

\* or carried a message of another.
LEMMA FlowMisrouted == ASSUME Good(pane), Misrouted PROVE Flow(pane')
<1>1. Made(Blamed(pane))
  BY GoodTypes, KeptBlamed DEF Kept
<1>2. Made(Discard(Blamed(pane)))
  BY <1>1, KeptDiscard DEF Kept
<1> QED BY <1>2, FlowDetached DEF Misrouted

\* A worker that fails.
LEMMA FlowWorkerFails == ASSUME Good(pane), Flow(pane), WorkerFails PROVE Flow(pane')
<1>1. Made(pane)
  BY GoodTypes
<1>2. Good(Blamed(pane))
  BY <1>1, KeptBlamed, GoodKept
<1>3. Stays(pane, Blamed(pane))
  BY <1>1 DEF Blamed, Stays, Made, Fields
<1>4. Flow(Blamed(pane))
  BY <1>3, FlowStays
<1>5. pane' \in EngineFails(Blamed(pane))
  BY Zenon DEF WorkerFails
<1> QED BY <1>2, <1>4, <1>5, FlowEngineFails

\* A pane that prints.
LEMMA FlowProduce == ASSUME Good(pane), Flow(pane), Produce PROVE Flow(pane')
<1>1. PICK h : h = pane.hist + 1
  OBVIOUS
<1>2. Made(pane)
  BY GoodTypes
<1>3. pane' = [pane EXCEPT !.hist = h]
  <2>1. [pane EXCEPT !.hist = @ + 1] = [pane EXCEPT !.hist = pane.hist + 1]
    BY <1>2 DEF Made, Fields
  <2> QED BY <1>1, <2>1, Zenon DEF Produce
<1>4. Stays(pane, pane')
  BY <1>2, <1>3 DEF Stays, Made, Fields
<1> QED BY <1>4, FlowStays

\* A recovery that ends,
LEMMA StaysRecovering ==
  ASSUME NEW w, Made(w), NEW v, v = [w EXCEPT !.recovering = FALSE]
  PROVE  Stays(w, v)
<1>1. PICK y : y = FALSE
  BY Zenon
<1>2. v = [w EXCEPT !.recovering = y]
  BY <1>1, Zenon
<1> QED BY <1>2 DEF Stays, Made, Fields

\* because the pane was presented,
LEMMA FlowPresented == ASSUME Good(pane), Flow(pane), Presented PROVE Flow(pane')
<1>1. pane' = [pane EXCEPT !.recovering = FALSE]
  BY Zenon DEF Presented
<1> QED BY <1>1, GoodTypes, StaysRecovering, FlowStays

\* or because it stalled.
LEMMA FlowStalled == ASSUME Good(pane), Flow(pane), Stalled PROVE Flow(pane')
<1>1. PICK w : w = [pane EXCEPT !.recovering = FALSE]
  OBVIOUS
<1>2. Stays(pane, w)
  BY <1>1, GoodTypes, StaysRecovering
<1>3. pane' = HealthFail(w)
  BY <1>1, Zenon DEF Stalled
<1>4. Stays(w, pane')
  BY <1>2, <1>3, StaysHealthFail DEF Stays
<1> QED BY <1>2, <1>4, StaysTwice, FlowStays

\* The stream.
LEMMA FlowConnect == ASSUME Good(pane), Connect PROVE Flow(pane')
<1>1. Made(pane')
  BY GoodConnect, GoodTypes
<1>2. \E w : pane' = Reschedule(w)
  BY Zenon DEF Connect
<1> QED BY <1>1, <1>2, FlowRescheduled

\* queue-turn-complete flushes.
LEMMA FlowTurn == ASSUME Good(pane), Turn PROVE Flow(pane')
<1>1. Made(pane)
  BY GoodTypes
<1>2. PICK s, b : s = pane.sent /\ b = Append(pane.bounds, pane.sent)
  OBVIOUS
<1>3. PICK w : w = [pane EXCEPT !.turn = s, !.bounds = b]
  OBVIOUS
<1>4. Made(w)
  BY <1>1, <1>3 DEF Made, Fields
<1>5. PICK v : v \in Flush(w) /\ pane' = TrySend(v)
  <2>1. [pane EXCEPT !.turn = pane.sent, !.bounds = Append(@, pane.sent)]
        = [pane EXCEPT !.turn = pane.sent, !.bounds = Append(pane.bounds, pane.sent)]
    BY <1>1 DEF Made, Fields
  <2> QED BY <1>2, <1>3, <2>1, Zenon DEF Turn
<1>6. Flow(v) /\ Made(v)
  BY <1>4, <1>5, FlowFlush
<1>7. Stays(v, pane')
  BY <1>5, <1>6, StaysAcked DEF TrySend
<1> QED BY <1>6, <1>7, FlowStays

\* history-replay-complete flushes, or has nothing left.
LEMMA FlowReplayComplete == ASSUME Good(pane), ReplayComplete PROVE Flow(pane')
<1>1. Made(pane)
  BY GoodTypes
<1>2. PICK s, p, b : /\ s = "live" /\ p = "awaiting"
                     /\ b = IF pane.batch = "waiting" THEN "ready" ELSE pane.batch
  OBVIOUS
<1>3. PICK w : w = [pane EXCEPT !.stage = s, !.phase = p, !.batch = b]
  OBVIOUS
<1>4. Made(w)
  BY <1>1, <1>3 DEF Made, Fields
<1>5. w = [pane EXCEPT !.stage = "live", !.phase = "awaiting",
                       !.batch = IF @ = "waiting" THEN "ready" ELSE @]
  <2>1. [pane EXCEPT !.stage = "live", !.phase = "awaiting",
                     !.batch = IF @ = "waiting" THEN "ready" ELSE @]
        = [pane EXCEPT !.stage = "live", !.phase = "awaiting",
                       !.batch = IF pane.batch = "waiting" THEN "ready" ELSE pane.batch]
    BY <1>1 DEF Made, Fields
  <2> QED BY <1>2, <1>3, <2>1, Zenon
<1>6. \/ pane' \in Flush(Detached(NoteFailure(pane)))
      \/ pane' = Finish(w) /\ Finish(w) # w
      \/ pane' \in Flush(w)
  <2> DEFINE Of(u) == IF pane.received < pane.target
                      THEN Flush(Detached(NoteFailure(pane)))
                      ELSE IF Finish(u) # u THEN {Finish(u)} ELSE Flush(u)
  <2>1. pane' \in Of([pane EXCEPT !.stage = "live", !.phase = "awaiting",
                                  !.batch = IF @ = "waiting" THEN "ready" ELSE @])
    BY Zenon DEF ReplayComplete
  <2> HIDE DEF Of
  <2>2. pane' \in Of(w)
    BY <1>5, <2>1, Zenon
  <2> QED BY <2>2, Zenon DEF Of
<1>7. CASE pane' \in Flush(Detached(NoteFailure(pane)))
  BY <1>1, <1>7, StaysNoteFailure, FlowDetached DEF Stays
<1>8. CASE pane' = Finish(w) /\ Finish(w) # w
  <2>1. w.queue = <<>>
    BY <1>4, <1>8, KeptFinish
  <2>2. pane'.queue = w.queue
    BY <1>4, <1>8, StaysFinish DEF Stays
  <2> QED BY <2>1, <2>2, FlowIdle
<1>9. CASE pane' \in Flush(w)
  BY <1>4, <1>9, FlowFlush
<1> QED BY <1>6, <1>7, <1>8, <1>9

\* A byte that arrives is refused, held back or has a flush scheduled.
LEMMA FlowFrame == ASSUME Good(pane), Frame PROVE Flow(pane')
<1>1. Made(pane) /\ Made(pane')
  BY GoodTypes, GoodFrame
<1>2. PICK s : s = pane.sent + 1
  OBVIOUS
<1>3. PICK w : w = [pane EXCEPT !.sent = s]
  OBVIOUS
<1>4. Made(w)
  BY <1>1, <1>3 DEF Made, Fields
<1>5. pane' = Received(w)
  <2>1. [pane EXCEPT !.sent = @ + 1] = [pane EXCEPT !.sent = pane.sent + 1]
    BY <1>1 DEF Made, Fields
  <2> QED BY <1>2, <1>3, <2>1, Zenon DEF Frame
<1>6. PICK q, d : q = Append(w.queue, Entry(w)) /\ d = w.sent
  OBVIOUS
<1>7. PICK v : v = [w EXCEPT !.queue = q, !.received = d]
  OBVIOUS
<1>8. Made(v)
  BY <1>4, <1>7 DEF Made, Fields
<1>9. \/ w.failed /\ pane' = w
      \/ pane' = Overload(w) \/ pane' = Overload(v)
      \/ v.batch = "waiting" /\ pane' = v
      \/ pane' = Scheduled(v)
  <2> DEFINE To(u) == IF Len(u.queue) = QueueLimit THEN Overload(u)
                      ELSE IF u.batch = "waiting" THEN u ELSE Scheduled(u)
  <2>1. Received(w) = IF w.failed THEN w ELSE IF Len(w.queue) >= QueueLimit THEN Overload(w)
                      ELSE To([w EXCEPT !.queue = Append(@, Entry(w)), !.received = w.sent])
    BY Zenon DEF Received
  <2>2. [w EXCEPT !.queue = Append(@, Entry(w)), !.received = w.sent] = v
    <3>1. [w EXCEPT !.queue = Append(@, Entry(w)), !.received = w.sent]
          = [w EXCEPT !.queue = Append(w.queue, Entry(w)), !.received = w.sent]
      BY Zenon
    <3> QED BY <1>6, <1>7, <3>1, Zenon
  <2> HIDE DEF To
  <2>3. Received(w) = IF w.failed THEN w ELSE IF Len(w.queue) >= QueueLimit THEN Overload(w)
                      ELSE To(v)
    BY <2>1, <2>2, Zenon
  <2> QED BY <1>5, <2>3, Zenon DEF To
<1>10. ASSUME NEW u, Made(u), pane' = Overload(u) PROVE Flow(pane')
  <2>1. Overload(u).failed = TRUE
    BY <1>10, KeptOverload, Zenon
  <2> QED BY <1>10, <2>1, FlowIdle, Zenon
<1> QED BY <1>1, <1>4, <1>8, <1>9, <1>10, FlowIdle, FlowSet

\* history-replay-start begins with no output,
LEMMA FlowReplayStart == ASSUME Good(pane), ReplayStart PROVE Flow(pane')
BY GoodReplayStart, FlowIdle

\* a restart discards it,
LEMMA FlowHealthTimer == ASSUME Good(pane), HealthTimer PROVE Flow(pane')
BY GoodHealthTimer, FlowIdle

\* and a resize holds it back.
LEMMA FlowResize == ASSUME Good(pane), Resize PROVE Flow(pane')
BY GoodResize, FlowIdle

\* The fence holds the output back while it drains.
LEMMA FlowFencePump == ASSUME Good(pane), Flow(pane), FencePump PROVE Flow(pane')
<1>1. PICK y, t : y = FALSE /\ t = TRUE
  BY Zenon
<1>2. PICK w : w = [pane EXCEPT !.fenceTask = y]
  OBVIOUS
<1>3. Stays(pane, w)
  <2>1. Made(pane)
    BY GoodTypes
  <2> QED BY <1>2, <2>1 DEF Stays, Made, Fields
<1>4. Made(w) /\ w.fence = pane.fence
  BY <1>3 DEF Stays
<1>5. CASE pane.fence = NoFence \/ pane.broken \/ pane.fence.busy
  <2>1. pane' = w
    BY <1>1, <1>2, <1>5, Zenon DEF FencePump
  <2> QED BY <1>3, <2>1, FlowStays
<1>6. CASE ~(pane.fence = NoFence \/ pane.broken \/ pane.fence.busy)
  <2>1. PICK u : u = [w EXCEPT !.fence.busy = t]
    OBVIOUS
  <2>2. PICK v \in FenceDrain(u) : pane' = FenceGoesOn(v)
    BY <1>1, <1>2, <1>6, <2>1, Zenon DEF FencePump
  <2>3. pane.fence \in Fence /\ pane.fence.set /\ pane.fence.set \in BOOLEAN
    BY <1>6, GoodTypes, FenceTypes DEF Good, Lanes, LanesOf
  <2>4. Made(u) /\ u.fence = [pane.fence EXCEPT !.busy = t]
    BY <1>4, <2>1 DEF Made, Fields
  <2>5. u.fence \in Fence /\ u.fence.set = pane.fence.set
    <3>1. t \in BOOLEAN
      BY <1>1, Zenon
    <3> QED BY <2>3, <2>4, <3>1 DEF Fence
  <2>6. u.fence # NoFence
    BY <2>3, <2>5, FenceTypes
  <2>7. Made(v) /\ v.fence = u.fence
    <3>1. PICK a : a = [u EXCEPT !.scheduled = y]
      OBVIOUS
    <3>2. Made(a) /\ a.fence = u.fence
      BY <2>4, <3>1 DEF Made, Fields
    <3>3. PICK n : n = "none"
      OBVIOUS
    <3>4. PICK b : b = [a EXCEPT !.batch = n]
      OBVIOUS
    <3>5. Made(b) /\ b.fence = a.fence
      BY <3>2, <3>4 DEF Made, Fields
    <3>6. v = u \/ v = a \/ v \in Drain(b, TRUE, u.fence.end - u.count)
      BY <1>1, <3>1, <3>3, <3>4, Zenon DEF FenceDrain
    <3>7. CASE v \in Drain(b, TRUE, u.fence.end - u.count)
      <4>1. Made(v) /\ v.fence = b.fence
        BY <3>5, <3>7, MadeDrain, Zenon
      <4> QED BY <3>2, <3>5, <4>1
    <3> QED BY <2>4, <3>2, <3>6, <3>7
  <2>8. Flow(v)
    BY <2>6, <2>7, FlowIdle
  <2> QED BY <2>2, <2>3, <2>5, <2>7, <2>8, FlowGoesOn
<1> QED BY <1>5, <1>6

\* What the worker answers.
LEMMA FlowReply == ASSUME Good(pane), Flow(pane), Reply PROVE Flow(pane')
<1>1. Good(pane') /\ Made(pane') /\ Made(pane)
  BY GoodReply, GoodTypes
<1>2. PICK r : r = Head(pane.engine.lane)
  OBVIOUS
<1>3. \/ pane' \in RestoreDone(pane, r) \/ pane' \in EngineFails(pane)
      \/ pane' \in GridDone(pane, r) \/ pane' \in WriteDone(pane, r)
  <2>1. Lane(pane.engine.lane) /\ pane.engine.lane # <<>>
    BY GoodTypes, Zenon DEF Reply
  <2>2. r.op = "write" \/ r.op = "grid" \/ r.op = "restore"
    <3> DEFINE l == pane.engine.lane
    <3>1. CASE IsWrite(l)
      BY <1>2, <3>1, WriteFacts
    <3>2. CASE IsGrid(l)
      BY <1>2, <3>2, GridFacts
    <3>3. CASE IsRestore(l)
      BY <1>2, <3>3, RestoreFacts
    <3> QED BY <2>1, <3>1, <3>2, <3>3 DEF Lane
  <2>3. pane' \in CASE r.op = "restore" -> RestoreDone(pane, r)
                    [] r.op # "restore" /\ r.old -> EngineFails(pane)
                    [] r.op = "grid" /\ ~r.old -> GridDone(pane, r)
                    [] r.op = "write" /\ ~r.old -> WriteDone(pane, r)
    BY <1>2, Zenon DEF Reply
  <2> QED BY <2>2, <2>3
<1> QED BY <1>1, <1>3, FlowRestoreDone, FlowEngineFails, FlowGridDone, FlowWriteDone

\* Every step of the page.
LEMMA FlowNext == ASSUME Good(pane), Flow(pane), [Next]_pane PROVE Flow(pane')
<1>1. CASE pane' = pane
  BY <1>1
<1>2. CASE Connect
  BY <1>2, FlowConnect
<1>3. CASE ReplayStart
  BY <1>3, FlowReplayStart
<1>4. CASE Frame
  BY <1>4, FlowFrame
<1>5. CASE Turn
  BY <1>5, FlowTurn
<1>6. CASE ReplayComplete
  BY <1>6, FlowReplayComplete
<1>7. CASE Pump
  BY <1>7, FlowPump
<1>8. CASE FencePump
  BY <1>8, FlowFencePump
<1>9. CASE Reply
  BY <1>9, FlowReply
<1>10. CASE HealthTimer
  BY <1>10, FlowHealthTimer
<1>11. CASE Presented
  BY <1>11, FlowPresented
<1>12. CASE AttachTimeout
  BY <1>12, FlowAttachTimeout
<1>13. CASE Stalled
  BY <1>13, FlowStalled
<1>14. CASE Produce
  BY <1>14, FlowProduce
<1>15. CASE Resize
  BY <1>15, FlowResize
<1>16. CASE Disconnect
  BY <1>16, FlowDisconnect
<1>17. CASE Misrouted
  BY <1>17, FlowMisrouted
<1>18. CASE WorkerFails
  BY <1>18, FlowWorkerFails
<1> QED BY <1>1, <1>2, <1>3, <1>4, <1>5, <1>6, <1>7, <1>8, <1>9, <1>10, <1>11, <1>12,
           <1>13, <1>14, <1>15, <1>16, <1>17, <1>18, Zenon DEF Next, Progress

\* Output that may move always has someone who moves it, whatever was put
\* off, cut short, refused or given up before.
THEOREM NoLostFlushSafe == Spec => []NoLostFlush
<1>1. Init => Flow(pane)
  <2>1. ASSUME Init PROVE Flow(pane)
    <3>1. pane = Start /\ Start.queue = <<>>
      BY <2>1, StartIs DEF Init
    <3> QED BY <3>1, FlowIdle
  <2> QED BY <2>1
<1>2. Good(pane) /\ Flow(pane) /\ [Next]_pane => Flow(pane)'
  BY FlowNext
<1>3. Flow(pane) => NoLostFlush
  BY DEF Flow, Owed, NoLostFlush
<1> QED BY <1>1, <1>2, <1>3, OutputInductive, PTL DEF Spec
=============================================================================
