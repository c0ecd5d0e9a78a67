----------------------------- MODULE Workspace -----------------------------
(***************************************************************************)
(* The workspace of an agent daemon (core/agent_workspace.go, workspace.go,*)
(* workspace_actions.go, workspace_restart.go, workspace_recovery.go and   *)
(* the exit path of pane.go): tabs, their panes and what is active, changed*)
(* by requests, by the goroutine of a pane whose process ends, by a        *)
(* restoration and by the closing of a Local runtime.                      *)
(*                                                                         *)
(* Everything done under the workspace mutex is one step.  The daemon      *)
(* mutex is held over several steps, because what is done under it alone   *)
(* interleaves with the workspace's own steps: ensureWorkspaceLocked and   *)
(* newRecoveredTerminalWorkspace create panes without the workspace mutex. *)
(*                                                                         *)
(* A layout is abstracted to the sequence of its leaves, in the order      *)
(* collectLayoutPaneIDs lists them: directions and sizes only concern how  *)
(* it is drawn.  Labels, working directories and sizes are left out.       *)
(* Panes, the terminalPane objects, are numbered in the order they start;  *)
(* the identity of a pane (pane-N) is a number within its workspace.       *)
(***************************************************************************)
EXTENDS Naturals, Sequences, FiniteSets

CONSTANTS
    Requests,      \* the goroutines that handle a connection each
    MaxPanes,      \* bound: panes ever started
    MaxWorkspaces, \* bound: workspaces ever created
    Mixes,         \* bound: sets of AllKinds; a connection requests those of one
    MaxRestored,   \* bound: panes of a recovery document
    Failures,      \* may a pseudoterminal fail to open?
    EarlyExit      \* may a shell end before its tab is in the workspace in use?

ActionKinds == {"create_tab", "close_tab", "close_other_tabs", "split_pane",
                "close_pane", "restart_pane", "move_pane_to_tab", "move_tab",
                "reorder_tab", "activate_tab", "activate_pane", "update_layout"}
AllKinds == ActionKinds \cup {"state", "attach", "restore", "close"}

ASSUME BoundsAssumption ==
    /\ {MaxPanes, MaxWorkspaces, MaxRestored} \subseteq Nat
    /\ Mixes \subseteq SUBSET AllKinds /\ "free" \notin Requests
    /\ {Failures, EarlyExit} \subseteq BOOLEAN

Panes      == 1..MaxPanes
Workspaces == 1..MaxWorkspaces
None       == 0
Free       == "free"

VARIABLES
    daemonMu,  \* who holds agentDaemon.mu: a request, or Free
    current,   \* agentDaemon.workspace
    closed,    \* agentDaemon.closed
    workspace, \* the terminalWorkspace objects
    pane,      \* the terminalPane objects
    request    \* what each request is doing

vars == <<daemonMu, current, closed, workspace, pane, request>>

-----------------------------------------------------------------------------
(* Data.                                                                   *)

Tab == [id : Nat, panes : SUBSET Nat, layout : Seq(Nat), active : Nat]

EmptyWorkspace == [members |-> {}, tabs |-> <<>>, active |-> None,
                   recent |-> <<>>, nextTab |-> 1, nextPane |-> 1]

Unborn == [phase |-> "unborn", workspace |-> None, id |-> None,
           failed |-> FALSE, retained |-> FALSE, closing |-> FALSE]

Idle(mix) == [pc |-> "idle", kind |-> "state", workspace |-> None, pane |-> None,
              id |-> None, document |-> <<>>, mix |-> mix]

Started == {p \in Panes : pane[p].phase # "unborn"}
FreePanes == Panes \ Started
NextFree == Cardinality(Started) + 1

\* A pseudoterminal does not open; beyond the bound none does.
MayFail == Failures \/ FreePanes = {}

Elements(s) == {s[i] : i \in 1..Len(s)}
IndexIn(s, x) == CHOOSE i \in 1..Len(s) : s[i] = x
InsertAt(s, i, x) == SubSeq(s, 1, i - 1) \o <<x>> \o SubSeq(s, i, Len(s))
DropAt(s, i) == SubSeq(s, 1, i - 1) \o SubSeq(s, i + 1, Len(s))
TabIds(w) == {w.tabs[i].id : i \in 1..Len(w.tabs)}
IndexOf(w, t) == CHOOSE i \in 1..Len(w.tabs) : w.tabs[i].id = t

\* w.panes[id], as the set of at most one pane
Member(w, id) == {p \in w.members : pane[p].id = id}

\* The entry of the map is replaced by a pane of the same identity.
WithMember(w, p, id) == [w EXCEPT !.members = (@ \ Member(w, id)) \cup {p}]

SingleTab(t, id) == [id |-> t, panes |-> {id}, layout |-> <<id>>, active |-> id]

\* setRecentTabsLocked: the first two different tabs that exist
Known(w, candidates) == {i \in 1..Len(candidates) : candidates[i] \in TabIds(w)}
First(S) == CHOOSE i \in S : \A j \in S : i <= j
FirstTwo(w, candidates) ==
    LET known  == Known(w, candidates)
        first  == candidates[First(known)]
        others == {i \in known : candidates[i] # first}
    IN  IF known = {} THEN <<>>
        ELSE IF others = {} THEN <<first>>
        ELSE <<first, candidates[First(others)]>>

Prune(w) == [w EXCEPT !.recent = FirstTwo(w, w.recent)]

SetActive(w, t) ==
    IF t = None THEN Prune([w EXCEPT !.active = None])
    ELSE IF t \notin TabIds(w) THEN Prune(w)
    ELSE [w EXCEPT !.recent = FirstTwo(w, <<t, w.active>> \o w.recent),
                   !.active = t]

\* insertTabAfterSourceLocked
InsertTab(w, tab, source) ==
    LET anchor == IF source \in TabIds(w) THEN source ELSE w.active
        at     == IF anchor \in TabIds(w) THEN IndexOf(w, anchor) + 1
                  ELSE Len(w.tabs) + 1
    IN  [w EXCEPT !.tabs = InsertAt(w.tabs, at, tab)]

\* createTabLocked once its pane runs
AddTab(w, p, id, source) ==
    LET t == w.nextTab
    IN  SetActive(InsertTab([WithMember(w, p, id) EXCEPT !.nextTab = t + 1],
                            SingleTab(t, id), source), t)

\* closeTabLocked
PanesWithout(w, gone) == {p \in w.members : pane[p].id \notin gone}

RemoveTab(w, t) ==
    LET at   == IndexOf(w, t)
        rest == DropAt(w.tabs, at)
        left == [w EXCEPT !.tabs = rest,
                          !.members = PanesWithout(w, w.tabs[at].panes)]
        next == IF rest = <<>> THEN None
                ELSE rest[IF at < Len(rest) THEN at ELSE Len(rest)].id
    IN  IF w.active = t THEN SetActive(left, next) ELSE Prune(left)

\* adjacentPaneID: a neighbour among the leaves; which one the tree decides.
Adjacent(layout, id) ==
    LET near == {layout[i] : i \in {j \in 1..Len(layout) :
                    \/ j > 1 /\ layout[j - 1] = id
                    \/ j < Len(layout) /\ layout[j + 1] = id}}
    IN  IF near = {} THEN {None} ELSE near

DetachedInFocus(tab, id, next) ==
    [tab EXCEPT !.panes = @ \ {id}, !.layout = DropAt(@, IndexIn(@, id))]

\* The pane leaves the tab's list and layout; next is to be active after it.
Detached(tab, id, next) ==
    LET layout == DropAt(tab.layout, IndexIn(tab.layout, id))
        wanted == IF tab.active = id THEN next ELSE tab.active
    IN  [tab EXCEPT
            !.panes = @ \ {id}, !.layout = layout,
            !.active = IF wanted \in Elements(layout) THEN wanted
                       ELSE IF layout # <<>> THEN layout[1] ELSE None]

NeverEmptied(tab) == FALSE
Emptied(tab) == tab.panes = {} \/ tab.layout = <<>>

\* closePaneInTabLocked
RemovePane(w, t, id, next) ==
    LET at   == IndexOf(w, t)
        tab  == Detached(w.tabs[at], id, next)
        left == [w EXCEPT !.tabs[at] = tab, !.members = @ \ Member(w, id)]
    IN  IF Emptied(tab) THEN RemoveTab(left, t) ELSE left

-----------------------------------------------------------------------------
Init ==
    /\ daemonMu = Free /\ current = None /\ closed = FALSE
    /\ workspace = [g \in Workspaces |-> EmptyWorkspace]
    /\ pane = [p \in Panes |-> Unborn]
    /\ \E mixes \in [Requests -> Mixes] : request = [r \in Requests |-> Idle(mixes[r])]

\* newTerminalPane: the process and its reader goroutine run from here on.
StartPane(p, g, id) ==
    pane' = [pane EXCEPT ![p] = [Unborn EXCEPT !.phase = "running",
                                               !.workspace = g, !.id = id]]

\* terminalPane.close of the panes that leave the map
Closing(left) == [p \in Panes |-> IF p \in left THEN [pane[p] EXCEPT !.closing = TRUE]
                                  ELSE pane[p]]

Dropped(w, v) == w.members \ v.members

-----------------------------------------------------------------------------
(* A request first has its workspace ensured, under the daemon mutex.      *)

Receive(r, kind) ==
    /\ request[r].pc = "idle"
    /\ kind \in request[r].mix \ {"close"}
    /\ \A g \in Workspaces : workspace[g].nextPane <= MaxPanes + 1  \* bound
    /\ request' = [request EXCEPT ![r] = [Idle(@.mix) EXCEPT
                      !.pc = IF kind = "restore" THEN "restore" ELSE "ensure",
                      !.kind = kind]]
    /\ UNCHANGED <<daemonMu, current, closed, workspace, pane>>

Finish(r) == request' = [request EXCEPT ![r] = Idle(@.mix)]

RefusedNever == FALSE
Refused == closed

\* A request may also be refused for another reason: its selector, its account,
\* a document that is not valid, an identity that cannot be drawn.

EnsureBegin(r) ==
    /\ request[r].pc = "ensure" /\ daemonMu = Free
    /\ \/ Finish(r) /\ UNCHANGED daemonMu
       \/ /\ ~Refused
          /\ current = None
          /\ \E g \in Workspaces :
                /\ g = 1 + Cardinality({h \in Workspaces : workspace[h] # EmptyWorkspace})
                /\ request' = [request EXCEPT ![r].pc = "create", ![r].workspace = g]
          /\ daemonMu' = r
       \/ /\ ~Refused
          /\ current # None
          /\ request' = [request EXCEPT ![r].pc = "check", ![r].workspace = current]
          /\ daemonMu' = r
    /\ UNCHANGED <<current, closed, workspace, pane>>

AfterEnsure(r) ==
    request' = [request EXCEPT ![r] =
        IF @.kind \in ActionKinds
        THEN [Idle(@.mix) EXCEPT !.pc = "apply", !.kind = request[r].kind,
                                 !.workspace = request[r].workspace]
        ELSE Idle(@.mix)]

\* The one unlock after ensureWorkspaceLocked, however it ended.
MutexKept == daemonMu
MutexAfterEnsure == Free

\* Is there a tab?  Read without the workspace mutex.
EnsureCheck(r) ==
    /\ request[r].pc = "check"
    /\ IF workspace[request[r].workspace].tabs = <<>>
       THEN /\ request' = [request EXCEPT ![r].pc = "create"]
            /\ UNCHANGED daemonMu
       ELSE /\ AfterEnsure(r)
            /\ daemonMu' = MutexAfterEnsure
    /\ UNCHANGED <<current, closed, workspace, pane>>

\* createTabLocked without the workspace mutex: the counter is read, ...
CreateRead(r) ==
    /\ request[r].pc = "create"
    /\ request' = [request EXCEPT ![r].pc = "start",
                                  ![r].id = workspace[request[r].workspace].nextPane]
    /\ UNCHANGED <<daemonMu, current, closed, workspace, pane>>

\* ... advanced, and the shell started (a new workspace whose shell does not
\* start is dropped); ...
CreateStart(r) ==
    /\ request[r].pc = "start"
    /\ LET g    == request[r].workspace
           next == [workspace EXCEPT ![g].nextPane = @ + 1]
       IN  \/ /\ MayFail
              /\ workspace' = IF current = None THEN workspace ELSE next
              /\ Finish(r)
              /\ daemonMu' = MutexAfterEnsure
              /\ UNCHANGED pane
           \/ /\ workspace' = next
              /\ FreePanes # {}
              /\ StartPane(NextFree, g, request[r].id)
              /\ request' = [request EXCEPT ![r].pc = "publish", ![r].pane = NextFree]
              /\ UNCHANGED daemonMu
    /\ UNCHANGED <<current, closed>>

\* ... and the pane and its tab are entered.
CreatePublish(r) ==
    /\ request[r].pc = "publish"
    /\ LET g == request[r].workspace
       IN  /\ workspace' = [workspace EXCEPT
                                ![g] = AddTab(@, request[r].pane, request[r].id, None)]
           /\ current' = IF current = None THEN g ELSE current
    /\ daemonMu' = MutexAfterEnsure
    /\ AfterEnsure(r)
    /\ UNCHANGED <<closed, pane>>

-----------------------------------------------------------------------------
(* applyAction, under the workspace mutex of the workspace ensured before. *)

Applying(r, kind) == request[r].pc = "apply" /\ request[r].kind = kind

\* The request is over; the panes that leave the map are closed.
Change(r, w) ==
    LET g == request[r].workspace
    IN  /\ workspace' = [workspace EXCEPT ![g] = w]
        /\ pane' = Closing(Dropped(workspace[g], workspace'[g]))
        /\ Finish(r)
        /\ UNCHANGED <<daemonMu, current, closed>>

\* An action that is refused: an unknown tab or pane, a last pane, ...
Refuse(r) ==
    /\ request[r].pc = "apply"
    /\ Finish(r)
    /\ UNCHANGED <<daemonMu, current, closed, workspace, pane>>

Ws(r) == workspace[request[r].workspace]
TabOf(r, t) == Ws(r).tabs[IndexOf(Ws(r), t)]

\* newPaneLocked within an action: id is used up even when the start fails.
StartFails(r) ==
    /\ request[r].pc = "apply"
    /\ request[r].kind \in {"create_tab", "split_pane", "restart_pane"}
    /\ MayFail
    /\ workspace' = [workspace EXCEPT ![request[r].workspace].nextPane = @ + 1]
    /\ Finish(r)
    /\ UNCHANGED <<daemonMu, current, closed, pane>>

\* The action started pane p: w is the workspace with it, left the panes closed.
ChangeWith(r, w, left) ==
    LET g == request[r].workspace
    IN  /\ FreePanes # {}
        /\ workspace' = [workspace EXCEPT ![g] = [w EXCEPT !.nextPane = @ + 1]]
        /\ pane' = [Closing(left) EXCEPT
                        ![NextFree] = [Unborn EXCEPT !.phase = "running",
                                          !.workspace = g, !.id = Ws(r).nextPane]]
        /\ Finish(r)
        /\ UNCHANGED <<daemonMu, current, closed>>

CreateTab(r, source) ==
    /\ Applying(r, "create_tab")
    /\ ChangeWith(r, AddTab(Ws(r), NextFree, Ws(r).nextPane, source), {})

\* splitLayoutNode puts the new leaf behind the pane's own.
SplitPane(r, t, id) ==
    /\ Applying(r, "split_pane")
    /\ t \in TabIds(Ws(r)) /\ id \in TabOf(r, t).panes
    /\ LET new    == Ws(r).nextPane
           layout == TabOf(r, t).layout
           after  == IndexIn(layout, id) + 1
           tab    == [TabOf(r, t) EXCEPT !.panes = @ \cup {new}, !.active = new,
                                         !.layout = InsertAt(layout, after, new)]
           w      == WithMember(Ws(r), NextFree, new)
       IN  ChangeWith(r, SetActive([w EXCEPT !.tabs[IndexOf(w, t)] = tab], t), {})

\* restartExitedPaneLocked: a new pane takes the place of an exited one.
RestartPane(r, t, id) ==
    /\ Applying(r, "restart_pane")
    /\ t \in TabIds(Ws(r)) /\ id \in TabOf(r, t).panes
    /\ \E old \in Member(Ws(r), id) :
          /\ pane[old].phase # "running"
          /\ LET new    == Ws(r).nextPane
                 swap(x) == IF x = id THEN new ELSE x
                 tab    == [TabOf(r, t) EXCEPT
                              !.panes = (@ \ {id}) \cup {new},
                              !.layout = [i \in DOMAIN @ |-> swap(@[i])],
                              !.active = swap(@)]
                 w      == [WithMember(Ws(r), NextFree, new) EXCEPT !.members = @ \ {old}]
             IN  ChangeWith(r, SetActive([w EXCEPT !.tabs[IndexOf(w, t)] = tab], t),
                            {old})

CloseTab(r, t) ==
    /\ Applying(r, "close_tab")
    /\ t \in TabIds(Ws(r))
    /\ Change(r, RemoveTab(Ws(r), t))

CloseOtherTabs(r, t) ==
    /\ Applying(r, "close_other_tabs")
    /\ t \in TabIds(Ws(r))
    /\ LET w == [Ws(r) EXCEPT !.tabs = <<TabOf(r, t)>>,
                              !.members = {p \in @ : pane[p].id \in TabOf(r, t).panes}]
       IN  Change(r, SetActive(w, t))

ClosePane(r, t, id) ==
    /\ Applying(r, "close_pane")
    /\ t \in TabIds(Ws(r)) /\ id \in TabOf(r, t).panes
    /\ \E next \in Adjacent(TabOf(r, t).layout, id) :
          Change(r, RemovePane(Ws(r), t, id, next))

MovePaneToTab(r, t, id) ==
    /\ Applying(r, "move_pane_to_tab")
    /\ t \in TabIds(Ws(r)) /\ id \in TabOf(r, t).panes
    /\ Cardinality(TabOf(r, t).panes) > 1
    /\ \E next \in Adjacent(TabOf(r, t).layout, id) :
          LET w   == [Ws(r) EXCEPT
                        !.tabs[IndexOf(Ws(r), t)] = Detached(@, id, next),
                        !.nextTab = @ + 1]
              new == Ws(r).nextTab
          IN  Change(r, SetActive(InsertTab(w, SingleTab(new, id), t), new))

\* moveTabLocked: to another place, which makes the tab active
MoveTab(r, t, to) ==
    /\ Applying(r, "move_tab")
    /\ t \in TabIds(Ws(r)) /\ to \in 1..Len(Ws(r).tabs)
    /\ LET at   == IndexOf(Ws(r), t)
           rest == DropAt(Ws(r).tabs, at)
       IN  /\ to \in {1, at - 1, at + 1, Len(Ws(r).tabs)}
           /\ Change(r, IF to = at THEN Ws(r)
                        ELSE SetActive([Ws(r) EXCEPT
                                !.tabs = InsertAt(rest, to, TabOf(r, t))], t))

\* reorderTabLocked: before another tab or last; what is active stays
ReorderTab(r, t, before) ==
    /\ Applying(r, "reorder_tab")
    /\ t \in TabIds(Ws(r)) /\ before \in (TabIds(Ws(r)) \ {t}) \cup {None}
    /\ LET rest == [Ws(r) EXCEPT !.tabs = DropAt(@, IndexOf(Ws(r), t))]
           to   == IF before = None THEN Len(rest.tabs) + 1 ELSE IndexOf(rest, before)
       IN  Change(r, [rest EXCEPT !.tabs = InsertAt(@, to, TabOf(r, t))])

\* activateTabLocked, without and with the browser's list of recent tabs
ActivateTab(r, t, recent) ==
    /\ Applying(r, "activate_tab")
    /\ t \in TabIds(Ws(r))
    /\ \/ Change(r, SetActive(Ws(r), t))
       \/ Change(r, [Ws(r) EXCEPT !.recent = FirstTwo(Ws(r), <<t, recent>>),
                                  !.active = t])

ActivatePane(r, t, id) ==
    /\ Applying(r, "activate_pane")
    /\ t \in TabIds(Ws(r)) /\ id \in TabOf(r, t).panes
    /\ Change(r, SetActive([Ws(r) EXCEPT !.tabs[IndexOf(Ws(r), t)].active = id], t))

\* updateLayoutLocked: the same panes arranged otherwise.  What is to be active
\* may be left open or, when it is not a pane of the tab, be refused too late.
Arrangements(panes) ==
    {layout \in [1..Cardinality(panes) -> panes] : Elements(layout) = panes}

UpdateLayout(r, t, active) ==
    /\ Applying(r, "update_layout")
    /\ t \in TabIds(Ws(r)) /\ active \in TabOf(r, t).panes \cup {None}
    /\ \E layout \in Arrangements(TabOf(r, t).panes) :
          LET focus == IF active = None THEN TabOf(r, t).active ELSE active
              tab   == [TabOf(r, t) EXCEPT !.layout = layout, !.active = focus]
          IN  Change(r, [Ws(r) EXCEPT !.tabs[IndexOf(Ws(r), t)] = tab])

-----------------------------------------------------------------------------
(* The goroutine of a pane: its process ends, by itself or closed (its exit *)
(* code only matters while it is in a tab), ...                            *)

InTab(p) == \E i \in 1..Len(workspace[pane[p].workspace].tabs) :
                pane[p].id \in workspace[pane[p].workspace].tabs[i].panes

PaneExit(p) ==
    /\ pane[p].phase = "running"
    /\ EarlyExit \/ pane[p].closing \/ (InTab(p) /\ pane[p].workspace = current)
    /\ \E failed \in IF InTab(p) THEN BOOLEAN ELSE {TRUE} :
          pane' = [pane EXCEPT ![p].phase = "exited", ![p].failed = failed]
    /\ UNCHANGED <<daemonMu, current, closed, workspace, request>>

\* ... retainFailedFinalPane is asked whether to keep it, ...
Retains(p) ==
    LET w == workspace[pane[p].workspace]
    IN  /\ pane[p].failed
        /\ InTab(p)
        /\ Len(w.tabs) = 1 /\ w.tabs[1].panes = {pane[p].id}

Asked(p) == pane[p].phase = "exited"

PaneRetain(p) ==
    /\ Asked(p)
    /\ pane' = [q \in Panes |->
                  IF q = p
                  THEN [pane[p] EXCEPT !.phase = IF Retains(p) THEN "done" ELSE "remove",
                                       !.retained = Retains(p)]
                  ELSE pane[q]]
    /\ UNCHANGED <<daemonMu, current, closed, workspace, request>>

\* ... and it is removed otherwise, removePaneAfterExit.
FoundUnlessLast(p) == InTab(p) /\ Len(workspace[pane[p].workspace].tabs) > 1
Found(p) == InTab(p)

PaneRemove(p) ==
    /\ pane[p].phase = "remove"
    /\ LET g == pane[p].workspace
           w == workspace[g]
       IN  \/ /\ ~Found(p)
              /\ pane' = [pane EXCEPT ![p].phase = "done"]
              /\ UNCHANGED workspace
           \/ \E i \in 1..Len(w.tabs) :
                /\ Found(p) /\ pane[p].id \in w.tabs[i].panes
                /\ \E next \in Adjacent(w.tabs[i].layout, pane[p].id) :
                        workspace' = [workspace EXCEPT
                                        ![g] = RemovePane(w, w.tabs[i].id, pane[p].id, next)]
                /\ pane' = [Closing(Dropped(w, workspace'[g])) EXCEPT ![p].phase = "done"]
    /\ UNCHANGED <<daemonMu, current, closed, request>>

-----------------------------------------------------------------------------
(* restoreWorkspace, under the daemon mutex: the document's panes start    *)
(* one by one, a tab is added when all of its panes run.                   *)

\* n panes, in one tab or in a tab each
Documents == {<<>>} \cup
    {IF together THEN <<[i \in 1..n |-> i]>> ELSE [i \in 1..n |-> <<i>>] :
        n \in 1..MaxRestored, together \in BOOLEAN}

RestoreBegin(r, document) ==
    /\ request[r].pc = "restore" /\ daemonMu = Free
    /\ \/ Finish(r) /\ UNCHANGED daemonMu
       \/ /\ ~Refused
          /\ \E g \in Workspaces :
                /\ g = 1 + Cardinality({h \in Workspaces : workspace[h] # EmptyWorkspace})
                /\ request' = [request EXCEPT
                                 ![r].pc = IF document = <<>> THEN "loaded" ELSE "pane",
                                 ![r].workspace = g, ![r].document = document]
          /\ daemonMu' = r
    /\ UNCHANGED <<current, closed, workspace, pane>>

\* The next number to be given, once a pane or a tab has the given one
IdAfterLarger(next, number) == IF number > next THEN number + 1 ELSE next
IdAfter(next, number) == IF number >= next THEN number + 1 ELSE next

\* A pane of the document joins the workspace; with its last one, so does a tab.
RestoredPane(w, p, id) == [WithMember(w, p, id) EXCEPT !.nextPane = IdAfter(@, id)]
RestoredTab(w, p, id, tab) ==
    [RestoredPane(w, p, id) EXCEPT !.tabs = Append(@, tab), !.nextTab = IdAfter(@, tab.id)]

\* One pane of the document; the tab follows its last pane.
RestorePane(r) ==
    /\ request[r].pc = "pane"
    /\ LET g        == request[r].workspace
           document == request[r].document
           id       == request[r].id + 1
           t        == CHOOSE i \in 1..Len(document) : id \in Elements(document[i])
           ids      == document[t]
           last     == id = ids[Len(ids)]
           tab      == [id |-> t, panes |-> Elements(ids), layout |-> ids,
                        active |-> ids[1]]
       IN  /\ FreePanes # {}
           /\ StartPane(NextFree, g, id)
           /\ workspace' = [workspace EXCEPT ![g] =
                 IF last THEN RestoredTab(@, NextFree, id, tab)
                 ELSE RestoredPane(@, NextFree, id)]
           /\ request' = [request EXCEPT
                 ![r].pc = IF last /\ t = Len(document) THEN "loaded" ELSE "pane",
                 ![r].id = id]
    /\ UNCHANGED <<daemonMu, current, closed>>

NoPane(g) == {}
PanesSoFar(g) == workspace[g].members

\* A pane does not start: the ones that run are closed again.
RestoreFails(r) ==
    /\ request[r].pc \in {"pane", "loaded"} /\ MayFail
    /\ request[r].pc = "loaded" => workspace[request[r].workspace].tabs = <<>>
    /\ LET g == request[r].workspace
       IN  /\ pane' = Closing(PanesSoFar(g))
           /\ workspace' = [workspace EXCEPT ![g] =
                 [EmptyWorkspace EXCEPT !.nextPane = workspace[g].nextPane]]
    /\ daemonMu' = Free
    /\ Finish(r)
    /\ UNCHANGED <<current, closed>>

\* A workspace without a tab gets one; otherwise the document names the
\* active and the recent tabs.
RestoreFocus(r, active, recent) ==
    /\ request[r].pc = "loaded"
    /\ LET g == request[r].workspace
           w == workspace[g]
       IN  \/ /\ w.tabs = <<>> /\ FreePanes # {}
              /\ StartPane(NextFree, g, w.nextPane)
              /\ workspace' = [workspace EXCEPT ![g] =
                    AddTab([w EXCEPT !.nextPane = @ + 1], NextFree, w.nextPane, None)]
           \/ /\ w.tabs # <<>>
              /\ {active, recent} \subseteq 1..Len(request[r].document)
              /\ workspace' = [workspace EXCEPT ![g] =
                    [w EXCEPT !.active = active,
                              !.recent = FirstTwo(w, <<active, recent>>)]]
              /\ UNCHANGED pane
    /\ request' = [request EXCEPT ![r].pc = "swap"]
    /\ UNCHANGED <<daemonMu, current, closed>>

\* closeAllPanes
CloseAll(g) ==
    IF g = None THEN UNCHANGED <<workspace, pane>>
    ELSE /\ pane' = Closing(workspace[g].members)
         /\ workspace' = [workspace EXCEPT ![g] =
               [@ EXCEPT !.members = {}, !.tabs = <<>>, !.active = None,
                         !.recent = <<>>]]

\* The restored workspace takes the place of the previous one.
RestoreSwap(r) ==
    /\ request[r].pc = "swap"
    /\ current' = request[r].workspace
    /\ CloseAll(current)
    /\ daemonMu' = Free
    /\ Finish(r)
    /\ UNCHANGED closed

\* Local.Close: no Action or State is under way, an attachment may be.  Its cancel(),
\* on which localPlatform kills every shell and starts no more, is left out: what is
\* shown is what the locks and the flag do without it.
LocalClose ==
    /\ \E r \in Requests : "close" \in request[r].mix
    /\ ~closed /\ daemonMu = Free
    /\ \A r \in Requests : request[r].pc # "idle" => request[r].kind = "attach"
    /\ closed' = TRUE
    /\ CloseAll(current)
    /\ UNCHANGED <<daemonMu, current, request>>

-----------------------------------------------------------------------------
Ids == 1..(MaxPanes + 1)

Apply(r) ==
    \/ \E t \in Ids \cup {None} : CreateTab(r, t)
    \/ \E t \in Ids : \/ CloseTab(r, t)
                      \/ CloseOtherTabs(r, t)
                      \/ \E to \in Ids : MoveTab(r, t, to)
                      \/ \E before \in Ids \cup {None} : ReorderTab(r, t, before)
                      \/ \E recent \in Ids : ActivateTab(r, t, recent)
                      \/ \E active \in Ids \cup {None} : UpdateLayout(r, t, active)
                      \/ \E id \in Ids : \/ SplitPane(r, t, id)
                                         \/ RestartPane(r, t, id)
                                         \/ ClosePane(r, t, id)
                                         \/ MovePaneToTab(r, t, id)
                                         \/ ActivatePane(r, t, id)
    \/ StartFails(r)
    \/ Refuse(r)

Ensure(r) ==
    \/ EnsureBegin(r)
    \/ EnsureCheck(r)
    \/ CreateRead(r)
    \/ CreateStart(r)
    \/ CreatePublish(r)

Restore(r) ==
    \/ \E document \in Documents : RestoreBegin(r, document)
    \/ RestorePane(r)
    \/ RestoreFails(r)
    \/ \E active \in Ids, recent \in Ids : RestoreFocus(r, active, recent)
    \/ RestoreSwap(r)

Exit(p) == PaneExit(p) \/ PaneRetain(p) \/ PaneRemove(p)

Next ==
    \/ \E r \in Requests : \/ \E kind \in AllKinds : Receive(r, kind)
                           \/ Ensure(r)
                           \/ Apply(r)
                           \/ Restore(r)
    \/ \E p \in Panes : Exit(p)
    \/ LocalClose

Spec == Init /\ [][Next]_vars

(* The goroutines run, close makes the process of a pane end, and a        *)
(* sync.Mutex does not starve a goroutine that waits for it.               *)
Fairness ==
    /\ \A r \in Requests :
          /\ WF_vars(request[r].pc # "apply" /\ (Ensure(r) \/ Restore(r)))
          /\ WF_vars(request[r].pc = "apply" /\ Apply(r))
          /\ SF_vars(EnsureBegin(r) \/ \E document \in Documents : RestoreBegin(r, document))
    /\ \A p \in Panes : /\ WF_vars(pane[p].closing /\ PaneExit(p))
                        /\ WF_vars(PaneRetain(p) \/ PaneRemove(p))

FairSpec == Spec /\ Fairness

-----------------------------------------------------------------------------
(* Properties.                                                             *)

\* Every variable has the type its Go counterpart has; at most two tabs are
\* remembered as recent (setRecentTabsLocked).
TypeOK ==
    /\ daemonMu \in Requests \cup {Free}
    /\ current \in Workspaces \cup {None} /\ closed \in BOOLEAN
    /\ workspace \in [Workspaces ->
          [members : SUBSET Panes, tabs : Seq(Tab), active : Nat, recent : Seq(Nat),
           nextTab : Nat, nextPane : Nat]]
    /\ \A g \in Workspaces : Len(workspace[g].recent) <= 2
    /\ pane \in [Panes ->
          [phase : {"unborn", "running", "exited", "remove", "done"},
           workspace : Workspaces \cup {None}, id : Nat, failed : BOOLEAN,
           retained : BOOLEAN, closing : BOOLEAN]]
    /\ request \in [Requests ->
          [pc : {"idle", "ensure", "check", "create", "start", "publish", "apply",
                 "restore", "pane", "loaded", "swap"},
           kind : AllKinds, workspace : Workspaces \cup {None},
           pane : Panes \cup {None}, id : Nat, document : Seq(Seq(Nat)), mix : Mixes]]

\* The workspace in use: its map, its tabs' pane lists and their layouts agree,
\* every pane is in one tab and no tab is empty, whatever actions, exits and
\* restorations follow one another.
TabsPartitionPanes ==
    current # None =>
        LET w == workspace[current]
        IN  /\ \A i \in 1..Len(w.tabs) :
                  /\ w.tabs[i].panes # {}
                  /\ Elements(w.tabs[i].layout) = w.tabs[i].panes
                  /\ Len(w.tabs[i].layout) = Cardinality(w.tabs[i].panes)
                  /\ \A j \in 1..(i - 1) :
                        /\ w.tabs[i].panes \cap w.tabs[j].panes = {}
                        /\ w.tabs[i].id # w.tabs[j].id
            /\ {pane[p].id : p \in w.members} =
                  UNION {w.tabs[i].panes : i \in 1..Len(w.tabs)}

\* What is active exists: the active tab, the active pane of each tab and the
\* recent tabs, of which the active one is the first.
FocusValid ==
    current # None =>
        LET w == workspace[current]
        IN  /\ IF w.tabs = <<>> THEN w.active = None /\ w.recent = <<>>
               ELSE w.active \in TabIds(w) /\ w.recent[1] = w.active
            /\ Elements(w.recent) \subseteq TabIds(w)
            /\ \A i \in 1..Len(w.tabs) : w.tabs[i].active \in w.tabs[i].panes

\* A pane whose exit has been handled has left the workspace, unless it is the
\* failed final pane that was marked as retained.
ExitSettled ==
    \A p \in Panes : pane[p].phase = "done" =>
        p \notin workspace[pane[p].workspace].members \/ pane[p].retained

\* No shell runs on without a place in the workspace in use, or in one that is
\* being made.
LivePanesOwned ==
    \A p \in Panes : pane[p].phase = "running" /\ ~pane[p].closing =>
        \/ pane[p].workspace = current /\ p \in workspace[current].members
        \/ \E r \in Requests : daemonMu = r /\ request[r].workspace = pane[p].workspace

\* Once Local is closed no shell is left open and none is started, already by the
\* locks and the flag, whatever attachments and restorations were about to ensure a
\* workspace (core/README.md:32).  Beside actions that start panes that is not so:
\* there the cancellation is needed.
ClosedStaysEmpty ==
    closed => \A p \in Panes : pane[p].phase = "running" => pane[p].closing

\* Two panes of a workspace never have the same identity: a browser tells
\* panes, and a restarted one from the one it replaces, by it.
FreshIdentities ==
    \A p, q \in Started :
        p # q /\ pane[p].workspace = pane[q].workspace => pane[p].id # pane[q].id

\* A failed pane is not removed when that leaves no tab (workspace.go:214).
FailedFinalPaneKept ==
    [][\A p \in Panes :
          /\ pane[p].phase = "remove" /\ pane'[p].phase = "done"
          /\ pane[p].failed /\ InTab(p)
          => workspace'[pane[p].workspace].tabs # <<>>]_vars

\* Every pane that was closed is done in the end, its exit path having run to its end,
\* and every request is answered: none of them is left waiting for the daemon mutex.
WorkEnds ==
    /\ \A p \in Panes : pane[p].closing ~> pane[p].phase = "done"
    /\ \A r \in Requests : request[r].pc # "idle" ~> request[r].pc = "idle"
=============================================================================
