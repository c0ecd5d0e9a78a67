----------------------------- MODULE PaneOutput -----------------------------
(***************************************************************************)
(* One pane of the agent and the attachments of browsers to it             *)
(* (core/pane.go, pane_replay.go, subscriber.go, agent_attach.go and       *)
(* pane_resize.go).  The goroutines that share it:                         *)
(*                                                                         *)
(*   output  terminalPane.readLoop: output to the history and subscribers, *)
(*           then the exit                                                 *)
(*   writer  of each attachment: the replay, then what is queued           *)
(*   reader  of each attachment: resizes, then the detachment              *)
(*   close   whoever removes the pane from its workspace                   *)
(*                                                                         *)
(* A section under the pane's mutex or a subscriber's is one step; outputMu*)
(* and resizeMu are held over several, and who holds them shows in where a *)
(* goroutine is.  Output bytes are their offsets in the history; a size    *)
(* stands for columns, rows and pixels.  Which part of the history a replay*)
(* writes is left out, with its limit and the checkpoints: a replay brings *)
(* the browser to the end that attachClient saw.  So are input, activity   *)
(* and the filters of the output.                                          *)
(***************************************************************************)
EXTENDS Integers, Sequences, FiniteSets

CONSTANTS
    Clients,      \* attachments; a browser that comes back is another one
    MaxOutput,    \* bound: bytes of output
    ChunkMax,     \* historyChunkMaxBytes, which one read does not exceed
    QueueLimit,   \* clientQueueLimit
    SendCap,      \* capacity of paneClient.send
    TextCost,     \* length of a control
    Sizes,        \* dimensions of a terminal
    FirstSize,    \* those the pane is created with
    MaxEpoch,     \* bound: resize epochs
    Free          \* no owner of the size

ASSUME PaneAssumption ==
    /\ {ChunkMax, QueueLimit, SendCap, TextCost} \subseteq Nat \ {0}
    /\ {MaxOutput, MaxEpoch} \subseteq Nat
    /\ FirstSize \in Sizes /\ Free \notin Clients

VARIABLES
    end,      \* paneHistory.end: bytes of output so far
    closing,  \* terminalPane.closing
    size,     \* dimensions, resizeEpoch, resizeOwner
    output,   \* the output goroutine: what it delivers, and to whom yet
    attached, \* terminalPane.clients
    client,   \* the paneClient of each attachment
    conn,     \* the connection of each attachment, its writer and browser
    reader    \* the reader of each attachment

vars == <<end, closing, size, output, attached, client, conn, reader>>
paneVars == <<end, closing, size, output>>

-----------------------------------------------------------------------------
(* Data.                                                                   *)

\* paneOutbound: output bytes from..to, or a control that belongs at offset to.
\* A notice is an error or the release of the size.
Entry == [kind : {"output", "resize", "notice", "exit"},
          from : Nat, to : Nat, epoch : Nat]

Chunk(from, to) == [kind |-> "output", from |-> from, to |-> to, epoch |-> 0]
Control(kind, epoch, at) == [kind |-> kind, from |-> at, to |-> at, epoch |-> epoch]
Notice == Control("notice", 0, 0)

Cost(entry) == IF entry.kind = "output" THEN entry.to - entry.from ELSE TextCost

NewClient == [done |-> FALSE, queued |-> 0, send |-> <<>>, pending |-> <<>>]
\* A closed subscriber.  Its writer may still write some of what is queued, which
\* nobody counts on: that is left out.
Dropped == [NewClient EXCEPT !.done = TRUE]
NoConn == [open |-> FALSE, writer |-> "none", taken |-> Notice, cursor |-> 0,
           epoch |-> 0, exited |-> FALSE]
IdleReader == [pc |-> "idle", at |-> 0, targets |-> {}]

TooMuch(c, entry) == c.queued + Cost(entry) > QueueLimit

HasRoom(c) == Len(c.send) < SendCap
SendsAtOnce(c) == c.pending = <<>> /\ Len(c.send) < SendCap

Coalesces(c, entry) ==
    /\ c.pending # <<>> /\ entry.kind = "output"
    /\ LET last == c.pending[Len(c.pending)]
       IN  last.kind = "output" /\ entry.to - last.from <= ChunkMax

\* paneClient.enqueue
Enqueued(c, entry) ==
    CASE c.done -> c
      [] ~c.done /\ TooMuch(c, entry) -> Dropped
      [] ~c.done /\ ~TooMuch(c, entry) /\ SendsAtOnce(c) ->
            [c EXCEPT !.send = Append(@, entry), !.queued = @ + Cost(entry)]
      [] OTHER ->
            IF Coalesces(c, entry)
            THEN [c EXCEPT !.pending[Len(c.pending)].to = entry.to,
                           !.queued = @ + Cost(entry)]
            ELSE IF Len(c.pending) >= QueueLimit \div ChunkMax
            THEN Dropped
            ELSE [c EXCEPT !.pending = Append(@, entry),
                           !.queued = @ + Cost(entry)]

\* How many of the backlog paneClient.dequeued moves to the channel.
MovesNone(c) == 0
Moves(c) == IF Len(c.pending) < SendCap - Len(c.send) THEN Len(c.pending)
            ELSE SendCap - Len(c.send)

\* paneClient.dequeued
Dequeued(c, entry) ==
    [c EXCEPT !.queued = IF Cost(entry) > @ THEN 0 ELSE @ - Cost(entry),
              !.send = @ \o SubSeq(c.pending, 1, Moves(c)),
              !.pending = SubSeq(@, Moves(c) + 1, Len(@))]

\* To each of them in turn: no subscriber sees another's queue.
Deliver(targets, entry) ==
    client' = [c \in Clients |-> IF c \in targets THEN Enqueued(client[c], entry)
                               ELSE client[c]]

Exited == output.pc \in {"notify", "remove", "done"}

OutputFreeAlways == TRUE
OutputFree ==
    /\ output.pc # "deliver"
    /\ \A c \in Clients : reader[c].pc # "applied"

ResizeFree == \A c \in Clients : reader[c].pc \notin {"applied", "release"}

-----------------------------------------------------------------------------
Init ==
    /\ end = 0 /\ closing = FALSE
    /\ size = [now |-> FirstSize, epoch |-> 0, owner |-> Free]
    /\ output = [pc |-> "read", targets |-> {}, entry |-> Notice]
    /\ attached = {}
    /\ client = [c \in Clients |-> NewClient]
    /\ conn = [c \in Clients |-> NoConn]
    /\ reader = [c \in Clients |-> [IdleReader EXCEPT !.pc = "none"]]

-----------------------------------------------------------------------------
(* The output goroutine.                                                   *)

\* appendOutput up to its release of the pane's mutex; it keeps outputMu.
OutputRead(n) ==
    /\ output.pc = "read" /\ OutputFree
    /\ ~closing /\ end + n <= MaxOutput
    /\ end' = end + n
    /\ output' = [pc |-> "deliver", targets |-> attached, entry |-> Chunk(end, end + n)]
    /\ UNCHANGED <<closing, size, attached, client, conn, reader>>

\* The rest of appendOutput.
OutputDeliver ==
    /\ output.pc = "deliver"
    /\ Deliver(output.targets, output.entry)
    /\ output' = [pc |-> "read", targets |-> {}, entry |-> Notice]
    /\ UNCHANGED <<end, closing, size, attached, conn, reader>>

\* The shell has ended, or close has closed the pseudoterminal: markExited up to
\* its release of the pane's mutex.
OutputExit ==
    /\ output.pc = "read"
    /\ output' = [pc |-> "notify", targets |-> attached,
                  entry |-> Control("exit", 0, end)]
    /\ UNCHANGED <<end, closing, size, attached, client, conn, reader>>

\* The notices of the exit, for which outputMu is not taken.
OutputNotify ==
    /\ output.pc = "notify"
    /\ Deliver(output.targets, output.entry)
    /\ output' = [pc |-> "remove", targets |-> {}, entry |-> Notice]
    /\ UNCHANGED <<end, closing, size, attached, conn, reader>>

\* close: nothing depends on its sections being apart.
Closed ==
    /\ closing' = TRUE
    /\ client' = [c \in Clients |->
                    IF c \in attached THEN Dropped ELSE client[c]]

\* removePaneAfterExit, unless the workspace retains the pane (external here).
OutputFinish ==
    /\ output.pc = "remove"
    /\ output' = [output EXCEPT !.pc = "done"]
    /\ \/ UNCHANGED <<closing, client>>
       \/ ~closing /\ Closed
    /\ UNCHANGED <<end, size, attached, conn, reader>>

\* The pane, its tab or its workspace is closed.
Close ==
    /\ ~closing
    /\ Closed
    /\ UNCHANGED <<end, size, output, attached, conn, reader>>

-----------------------------------------------------------------------------
(* An attachment: attachClient and the writer.                             *)

HasExited == Exited

\* attachClient; cursor is where the replay ends.
Attach(c) ==
    /\ reader[c].pc = "none" /\ ~closing
    /\ attached' = attached \cup {c}
    /\ conn' = [conn EXCEPT ![c] =
                  [open |-> TRUE, writer |-> "replay", taken |-> Notice,
                   cursor |-> end, epoch |-> size.epoch, exited |-> HasExited]]
    /\ reader' = [reader EXCEPT ![c] = IdleReader]
    /\ UNCHANGED <<paneVars, client>>

WriterRest == UNCHANGED <<paneVars, attached, reader>>

\* The writer's defer closes the connection, which wakes the reader.
OpenStill(c) == conn[c].open
OpenAfterWriter(c) == FALSE

WriterReturns(c) ==
    /\ conn' = [conn EXCEPT ![c] = [NoConn EXCEPT !.writer = "ended",
                                                !.open = OpenAfterWriter(c)]]
    /\ client' = [client EXCEPT ![c] = Dropped]

\* writeAgentHistoryReplay, and the exit if the pane had exited
WriterReplay(c) ==
    /\ conn[c].writer = "replay"
    /\ IF conn[c].open /\ ~conn[c].exited
       THEN conn' = [conn EXCEPT ![c].writer = "live"] /\ UNCHANGED client
       ELSE WriterReturns(c)
    /\ WriterRest

\* The writer's select ...
WriterTake(c) ==
    /\ conn[c].writer = "live" /\ client[c].send # <<>>
    /\ conn' = [conn EXCEPT ![c].writer = "taken", ![c].taken = Head(client[c].send)]
    /\ client' = [client EXCEPT ![c].send = Tail(@)]
    /\ WriterRest

\* ... and the rest of its branch.  The offsets of a frame are counted by the
\* writer, not taken from the entry.
WriterWrite(c) ==
    /\ conn[c].writer = "taken"
    /\ LET entry == conn[c].taken
       IN  IF ~conn[c].open \/ entry.kind = "exit" THEN WriterReturns(c)
           ELSE /\ conn' = [conn EXCEPT
                        ![c].writer = "live", ![c].taken = Notice,
                        ![c].cursor = @ + (entry.to - entry.from),
                        ![c].epoch = IF entry.kind = "resize" THEN entry.epoch ELSE @]
                /\ client' = [client EXCEPT ![c] = Dequeued(@, entry)]
    /\ WriterRest

WriterStops(c) ==
    /\ conn[c].writer = "live" /\ client[c].done
    /\ WriterReturns(c)
    /\ WriterRest

-----------------------------------------------------------------------------
(* The reader of an attachment: the end of the connection.                 *)

\* The browser detaches or its connection is lost; or the writer has closed it.
ReaderEnd(c) ==
    /\ reader[c].pc = "idle"
    /\ client' = [client EXCEPT ![c] = Dropped]
    /\ conn' = [conn EXCEPT ![c].open = FALSE]
    /\ reader' = [reader EXCEPT ![c].pc = "wait"]
    /\ UNCHANGED <<paneVars, attached>>

OwnerKept(c) == size.owner
OwnerWithout(c) == IF size.owner = c THEN Free ELSE size.owner

\* detachClient, which tells the others when it gives up the size
ReaderDetach(c) ==
    /\ reader[c].pc = "wait" /\ conn[c].writer = "ended" /\ ResizeFree
    /\ attached' = attached \ {c}
    /\ size' = [size EXCEPT !.owner = OwnerWithout(c)]
    /\ reader' = [reader EXCEPT ![c].pc = "release",
                     ![c].targets = IF size.owner = c THEN attached' ELSE {}]
    /\ UNCHANGED <<end, closing, output, client, conn>>

ReaderRelease(c) ==
    /\ reader[c].pc = "release"
    /\ Deliver(reader[c].targets, Notice)
    /\ reader' = [reader EXCEPT ![c] = [IdleReader EXCEPT !.pc = "gone"]]
    /\ UNCHANGED <<paneVars, attached, conn>>

-----------------------------------------------------------------------------
(* The reader of an attachment: applyResize.  It holds resizeMu and waits  *)
(* for outputMu.  What it reads and writes before it tells the subscribers *)
(* the others write under one of the two only, but for closing and the     *)
(* exit, which make ResizePTY fail: so that much is one step, taken when   *)
(* both mutexes are free.                                                  *)

Refuses(c, epoch, s, claim) ==
    \/ epoch < size.epoch
    \/ epoch = size.epoch /\ s # size.now
    \/ size.owner \notin {Free, c} /\ ~claim /\ epoch # size.epoch

\* resizeWithPixelsUnlocked: the size it leaves, and whether it succeeds.
\* ResizePTY may fail, as it does when the pseudoterminal has been closed.
Resized(s) ==
    IF closing THEN {[now |-> size.now, ok |-> FALSE]}
    ELSE [now : {s}, ok : IF s = size.now \/ Exited THEN {TRUE} ELSE BOOLEAN]

ToldButSource(c) == attached \ {c}
ToldOfResize(c) == attached

ResizeBegin(c, epoch, s, claim) ==
    /\ reader[c].pc = "idle" /\ ResizeFree /\ OutputFree
    /\ ~Refuses(c, epoch, s, claim)
    /\ \E r \in Resized(s) :
          IF r.ok
          THEN /\ size' = [now |-> r.now, epoch |-> epoch, owner |-> c]
               /\ reader' = [reader EXCEPT ![c] =
                     [pc |-> "applied", at |-> end, targets |-> ToldOfResize(c)]]
               /\ UNCHANGED client
          ELSE /\ size' = [size EXCEPT !.now = r.now]
               /\ Deliver({c}, Notice)
               /\ UNCHANGED reader
    /\ UNCHANGED <<end, closing, output, attached, conn>>

Applied(c) == Control("resize", size.epoch, reader[c].at)

\* enqueueResizeApplied and the releases
ResizeApplied(c) ==
    /\ reader[c].pc = "applied"
    /\ Deliver(reader[c].targets, Applied(c))
    /\ reader' = [reader EXCEPT ![c] = IdleReader]
    /\ UNCHANGED <<paneVars, attached, conn>>

\* enqueueResizeError of a request that is refused
ResizeError(c, epoch, s, claim) ==
    /\ reader[c].pc = "idle" /\ ResizeFree /\ OutputFree
    /\ Refuses(c, epoch, s, claim)
    /\ Deliver({c}, Notice)
    /\ UNCHANGED <<paneVars, attached, conn, reader>>

\* applyLegacyInputResize, of a browser that sends no epoch; outputMu is not held.
LegacyResize(c, s) ==
    /\ reader[c].pc = "idle" /\ ResizeFree
    /\ IF size.epoch # 0 /\ size.owner # c /\ s # size.now
       THEN OutputFree /\ Deliver({c}, Notice) /\ UNCHANGED size
       ELSE /\ \E r \in Resized(s) :
                  size' = [size EXCEPT !.now = r.now, !.owner = IF r.ok THEN c ELSE @]
            /\ UNCHANGED client
    /\ UNCHANGED <<end, closing, output, attached, conn, reader>>

-----------------------------------------------------------------------------
Output ==
    \/ OutputDeliver
    \/ OutputNotify
    \/ OutputFinish

Writer(c) ==
    \/ WriterReplay(c)
    \/ WriterTake(c)
    \/ WriterWrite(c)
    \/ WriterStops(c)

Resize(c) ==
    \E s \in Sizes :
       \/ \E epoch \in 1..MaxEpoch, claim \in BOOLEAN :
             ResizeBegin(c, epoch, s, claim) \/ ResizeError(c, epoch, s, claim)
       \/ LegacyResize(c, s)

Next ==
    \/ \E n \in 1..ChunkMax : OutputRead(n)
    \/ Output
    \/ OutputExit
    \/ Close
    \/ \E c \in Clients :
          \/ Attach(c)
          \/ Writer(c)
          \/ ReaderEnd(c)
          \/ ReaderDetach(c)
          \/ ReaderRelease(c)
          \/ ResizeApplied(c)
          \/ Resize(c)

Spec == Init /\ [][Next]_vars

(* The goroutines run, and what is written to a browser is read.  A reader *)
(* sees that its connection is closed; nothing obliges a shell to write or *)
(* to end, a browser to attach or leave, or a user to close the pane, but  *)
(* a closed pseudoterminal ends the output.  Browsers do not resize        *)
(* forever, so that weak fairness is enough for those who wait for resizeMu. *)
Fairness ==
    /\ WF_vars(Output)
    /\ WF_vars(closing /\ OutputExit)
    /\ \A c \in Clients :
          /\ WF_vars(Writer(c))
          /\ WF_vars(~conn[c].open /\ ReaderEnd(c))
          /\ WF_vars(ReaderDetach(c))
          /\ WF_vars(ReaderRelease(c) \/ ResizeApplied(c))

ResizesEnd == <>[][\A c \in Clients : ~Resize(c)]_vars
FairSpec == Spec /\ Fairness /\ ResizesEnd

-----------------------------------------------------------------------------
(* Properties.                                                             *)

PaneType ==
    /\ end \in 0..MaxOutput /\ closing \in BOOLEAN
    /\ size \in [now : Sizes, epoch : 0..MaxEpoch, owner : Clients \cup {Free}]
    /\ output.pc \in {"read", "deliver", "notify", "remove", "done"}
    /\ output.targets \subseteq Clients /\ output.entry \in Entry
ClientType(c) ==
    /\ client[c].done \in BOOLEAN
    /\ client[c].queued \in 0..QueueLimit
    /\ client[c].send \in Seq(Entry) /\ Len(client[c].send) <= SendCap
    /\ client[c].pending \in Seq(Entry)
ConnType(c) ==
    /\ conn[c].open \in BOOLEAN /\ conn[c].exited \in BOOLEAN
    /\ conn[c].writer \in {"none", "replay", "live", "taken", "ended"}
    /\ conn[c].taken \in Entry /\ conn[c].epoch \in 0..MaxEpoch
    /\ conn[c].cursor \in 0..MaxOutput
ReaderType(c) ==
    /\ reader[c].pc \in {"none", "idle", "wait", "release", "gone", "applied"}
    /\ reader[c].at \in 0..MaxOutput /\ reader[c].targets \subseteq Clients

\* Every variable has the type of its Go counterpart.
TypeOK ==
    /\ PaneType
    /\ attached \subseteq Clients
    /\ \A c \in Clients : ClientType(c) /\ ConnType(c) /\ ReaderType(c)

\* An attachment that still gets everything.
Following(c) ==
    /\ c \in attached /\ ~client[c].done
    /\ conn[c].writer # "ended" /\ ~conn[c].exited

\* What its writer has yet to write, with what is about to be queued to it.
Backlog(c) ==
    (IF conn[c].writer = "taken" THEN <<conn[c].taken>> ELSE <<>>)
    \o client[c].send \o client[c].pending
    \o (IF output.pc = "deliver" /\ c \in output.targets THEN <<output.entry>> ELSE <<>>)
    \o (IF \E d \in Clients : reader[d].pc = "applied" /\ c \in reader[d].targets
        THEN <<Applied(CHOOSE d \in Clients : reader[d].pc = "applied")>> ELSE <<>>)

\* Offset reached after the first i of them.
Reached(c, i) ==
    LET before == {j \in 1..i : Backlog(c)[j].kind = "output"}
    IN  IF before = {} THEN conn[c].cursor
        ELSE Backlog(c)[CHOOSE j \in before : \A k \in before : k <= j].to

\* Each byte of output reaches each attachment once and in order, be it in the
\* replay, queued or under way, however attachments, overflows of the channel and
\* coalescing interleave (attachClient, enqueue, dequeued); and the offsets the
\* writer counts are those of the bytes.
EachByteOnce ==
    \A c \in Clients : Following(c) =>
        LET n == Len(Backlog(c))
        IN  /\ \A i \in 1..n : Backlog(c)[i].kind = "output" =>
                    Backlog(c)[i].from = Reached(c, i - 1)
            /\ Reached(c, n) = end

\* A resize is told to each browser after the last byte that came before it and
\* before the first that came after it, and the exit after the last byte: the
\* bytes before the acknowledgement belong to the old grid
\* (runtime/static/terminal/resize/README.md:13).
ControlsInPlace ==
    \A c \in Clients : Following(c) =>
        \A i \in 1..Len(Backlog(c)) :
            Backlog(c)[i].kind \in {"resize", "exit"} =>
                Backlog(c)[i].to = Reached(c, i - 1)

\* Once it has read its backlog a browser knows the pane's resize epoch, be it
\* from the replay's first control or from a later one: without it, its resizes
\* are refused as stale (applyResize).
EpochAgreement ==
    \A c \in Clients : Following(c) =>
        LET told == {i \in 1..Len(Backlog(c)) : Backlog(c)[i].kind = "resize"}
        IN  size.epoch = IF told = {} THEN conn[c].epoch
                         ELSE Backlog(c)[CHOOSE i \in told : \A j \in told : j <= i].epoch

CostOf(entries) ==
    LET sum[i \in 0..Len(entries)] ==
            IF i = 0 THEN 0 ELSE sum[i - 1] + Cost(entries[i])
    IN  sum[Len(entries)]

\* The byte count of a subscriber is that of its queue and keeps within
\* clientQueueLimit, and no backlog is left behind while its writer waits for the
\* channel (enqueue, dequeued).
QueueAccounting ==
    \A c \in Clients : ~client[c].done =>
        /\ client[c].queued = CostOf(client[c].send) + CostOf(client[c].pending)
                + IF conn[c].writer = "taken" THEN Cost(conn[c].taken) ELSE 0
        /\ client[c].queued <= QueueLimit
        /\ conn[c].writer = "live" /\ client[c].pending # <<>> => client[c].send # <<>>

\* The size of a pane is owned by an attachment it has, never by one that is gone
\* (pane_resize.go:165).
OwnerAttached == size.owner # Free => size.owner \in attached

\* An attachment whose subscriber was dropped ends, so that the browser attaches
\* again instead of waiting for output that does not come (agent_attach.go:94),
\* and none outlives the pane's process: it is told of the exit, or closed
\* (markExited, attachClient).
AttachmentsEnd ==
    \A c \in Clients : c \in attached /\ (client[c].done \/ Exited) ~> c \notin attached

\* Output is written to every attachment, or the attachment is dropped: a backlog
\* is not forgotten when the channel has room again (dequeued).
OutputWritten ==
    \A c \in Clients, n \in 1..MaxOutput :
        c \in attached /\ end >= n ~> conn[c].cursor >= n \/ ~Following(c)
=============================================================================
