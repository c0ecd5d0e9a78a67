------------------------- MODULE WorkspaceRecovery -------------------------
(***************************************************************************)
(* How a Provider keeps a workspace across restarts of the agent           *)
(* (provider/workspace_recovery.go, agent_runtime.go, settings.go): the    *)
(* requests of one scope, which a lock serialises while the setting is on, *)
(* the document in the file store, the setting's epoch, and the agent with *)
(* its workspace, which module Workspace describes and which is here its   *)
(* generation and the working directory of each pane.                      *)
(*                                                                         *)
(* Requests to the agent are executed at most twice: an attempt that fails *)
(* or whose reply is lost is repeated once (requestPersistentAgent).  The  *)
(* Provider may stop between any two steps, the agent at any time; a       *)
(* request after that finds a new agent.                                   *)
(***************************************************************************)
EXTENDS Naturals, FiniteSets

CONSTANTS
    Requests,       \* the goroutines that handle a request of the scope each
    Kinds,          \* bound: what is requested, of AllKinds
    Cwds, Home,     \* working directories, and the one a shell starts in
    MaxPanes,       \* bound: identities of panes
    MaxGenerations, \* bound: workspaces ever created
    MaxEpochs,      \* bound: times the setting is switched on
    Faults          \* what may go wrong, of AllFaults

AllKinds == {"state", "split_pane", "close_pane", "activity"}

\* A document that cannot be read, a save that fails, a reply that does not arrive,
\* a stop of the Provider, an agent that cannot restore, a setting changed while
\* requests are under way, and an agent that stops again when it has just restored
\* a workspace for an action.
AllFaults == {"load", "save", "reply", "provider", "version", "setting", "again"}

ASSUME BoundsAssumption ==
    /\ {MaxPanes, MaxGenerations, MaxEpochs} \subseteq Nat \ {0}
    /\ Home \in Cwds /\ "free" \notin Requests
    /\ Kinds \subseteq AllKinds /\ Faults \subseteq AllFaults

Unlocked == "free"
Ids   == 1..MaxPanes
Panes == UNION {[ids -> Cwds] : ids \in SUBSET Ids}

VARIABLES
    epoch,       \* the epoch of the setting, 0 while it is off
    epochs,      \* the last epoch drawn
    document,    \* the scope's file
    agent,       \* the workspace of the agent that runs
    generations, \* the last generation drawn
    lock,        \* who holds workspaceRecoveryOperationLock(scope)
    request,     \* what each request is doing
    shown        \* the workspace last answered to the user, and under which epoch

recoveryVars ==
    <<epoch, epochs, document, agent, generations, lock, request, shown>>

-----------------------------------------------------------------------------
(* The agent.  root is the generation a restored workspace goes back to.   *)

NoPanes     == [id \in {} |-> Home]
NoWorkspace == [gen |-> 0, root |-> 0, panes |-> NoPanes, next |-> 1]

Known == DOMAIN agent.panes

\* A pane of the given identity is added, or takes another directory.
With(panes, id, cwd) ==
    [i \in DOMAIN panes \cup {id} |-> IF i = id THEN cwd ELSE panes[i]]

AddPane(ws, cwd) == [ws EXCEPT !.panes = With(@, ws.next, cwd), !.next = @ + 1]

Fresh == AddPane([NoWorkspace EXCEPT !.gen = generations + 1,
                                     !.root = generations + 1], Home)

\* ensureWorkspaceLocked: a workspace, with a pane
Ensured ==
    IF agent.gen = 0 THEN Fresh
    ELSE IF agent.panes = NoPanes THEN AddPane(agent, Home)
    ELSE agent

\* The workspaces a request of a kind may leave behind.
Results(kind) ==
    CASE kind = "split_pane" -> {AddPane(Ensured, Ensured.panes[id]) : id \in DOMAIN Ensured.panes}
      [] kind = "close_pane" ->
            {[Ensured EXCEPT !.panes = [i \in DOMAIN @ \ {id} |-> @[i]]] :
                id \in DOMAIN Ensured.panes}
      [] OTHER -> {Ensured}

IdAfter(panes) == IF panes = NoPanes THEN 1
                  ELSE 1 + CHOOSE i \in DOMAIN panes : \A j \in DOMAIN panes : j <= i

\* restore_workspace
Restored(doc) ==
    LET ws == [gen |-> generations + 1, root |-> doc.root,
               panes |-> doc.panes, next |-> IdAfter(doc.panes)]
    IN  IF doc.panes = NoPanes THEN AddPane(ws, Home) ELSE ws

NewGenerations(ws) == IF ws.gen > generations THEN ws.gen ELSE generations

-----------------------------------------------------------------------------
(* The store.                                                              *)

NoDocument == [epoch |-> 0, gen |-> 0, root |-> 0, panes |-> NoPanes]

DocumentOf(e, ws) == [epoch |-> e, gen |-> ws.gen, root |-> ws.root, panes |-> ws.panes]

\* Load: the document, if it is of the epoch asked for
LoadedOfAny(e) == document
Loaded(e) == IF document.epoch = e THEN document ELSE NoDocument

\* A load that fails is only logged: the request goes on as if there were no document.
Loads(e) == {Loaded(e)} \cup {doc \in {NoDocument} : "load" \in Faults}

NeverDiffers(doc, ws) == FALSE
Differs(doc, ws) == doc # NoDocument /\ doc.gen # ws.gen

\* MergeActivity: the directories of panes of the same identities
Merged(e, ws) ==
    IF Loaded(e) = NoDocument THEN document
    ELSE [document EXCEPT !.panes = [i \in DOMAIN @ |->
            IF i \in DOMAIN ws.panes THEN ws.panes[i] ELSE @[i]]]

-----------------------------------------------------------------------------
Idle == [pc |-> "idle", kind |-> "state", epoch |-> 0, tries |-> 0,
         doc |-> NoDocument, reply |-> NoWorkspace]

RecoveryInit ==
    /\ epoch \in {0, 1} /\ epochs = epoch
    /\ document = NoDocument /\ agent = NoWorkspace /\ generations = 0
    /\ lock = Unlocked
    /\ request = [r \in Requests |-> Idle]
    /\ shown = [epoch |-> 0, gen |-> 0, root |-> 0]

Recovers(r) == request[r].epoch # 0

\* handleWorkspace and handleWorkspaceActivity read the setting first.
Receive(r, kind) ==
    /\ request[r].pc = "idle" /\ kind \in Kinds
    /\ generations < MaxGenerations - Cardinality(Requests) /\ agent.next <= MaxPanes  \* bounds
    /\ request' = [request EXCEPT ![r] =
          [Idle EXCEPT !.pc = IF epoch = 0 THEN "ask" ELSE "lock",
                       !.kind = kind, !.epoch = epoch]]
    /\ UNCHANGED <<epoch, epochs, document, agent, generations, lock, shown>>

\* An action loads the document before the agent is asked.
Lock(r) ==
    /\ request[r].pc = "lock" /\ lock = Unlocked
    /\ lock' = r
    /\ \E doc \in Loads(request[r].epoch) :
          request' = [request EXCEPT ![r].pc = "ask", ![r].doc = doc]
    /\ UNCHANGED <<epoch, epochs, document, agent, generations, shown>>

Unlock(r) == lock' = IF lock = r THEN Unlocked ELSE lock

\* The request ends without an answer.
Fail(r) ==
    /\ request' = [request EXCEPT ![r] = Idle]
    /\ Unlock(r)

-----------------------------------------------------------------------------
(* One attempt of a request to the agent.                                  *)

Execute(ws) == agent' = ws /\ generations' = NewGenerations(ws)

\* What the agent makes of what request r sends next, and of it when it refuses.
Outcomes(r) == IF request[r].pc = "restore" THEN {Restored(request[r].doc)}
               ELSE Results(request[r].kind)
Refusals(r) == IF request[r].pc = "restore" THEN {agent} ELSE {agent, Ensured}

AfterReply(r) ==
    CASE request[r].pc = "ask" /\ ~Recovers(r)                                -> "answer"
      [] request[r].pc = "ask" /\ Recovers(r) /\ request[r].kind = "activity" -> "merge"
      [] request[r].pc = "ask" /\ Recovers(r) /\ request[r].kind # "activity" -> "compare"
      [] request[r].pc = "restore" /\ request[r].kind # "state"               -> "again"
      [] OTHER                                                                -> "save"

Asking(r) == request[r].pc \in {"ask", "restore", "again"}

Ask(r) ==
    /\ Asking(r)
    /\ \E ws \in Outcomes(r) :
          /\ ws.gen <= MaxGenerations /\ ws.next <= MaxPanes + 1  \* bounds
          /\ Execute(ws)
          /\ request' = [request EXCEPT ![r].pc = AfterReply(r),
                                        ![r].reply = ws, ![r].tries = 0]
    /\ UNCHANGED <<epoch, epochs, document, lock, shown>>

\* The attempt fails, refused, executed or not: it is repeated once.
AskInVain(r) ==
    /\ Asking(r) /\ "reply" \in Faults
    /\ \E ws \in Outcomes(r) \cup Refusals(r) :
          /\ ws.gen <= MaxGenerations /\ ws.next <= MaxPanes + 1  \* bounds
          /\ Execute(ws)
    /\ \/ /\ request[r].tries = 0
          /\ request' = [request EXCEPT ![r].tries = 1]
          /\ UNCHANGED lock
       \/ request[r].tries = 1 /\ Fail(r)
    /\ UNCHANGED <<epoch, epochs, document, shown>>

-----------------------------------------------------------------------------
\* Is the agent's workspace another one than the document's?
Compare(r) ==
    /\ request[r].pc = "compare"
    /\ \E doc \in IF request[r].kind = "state" THEN Loads(request[r].epoch)
                 ELSE {request[r].doc} :
          \/ /\ Differs(doc, request[r].reply)
             /\ request' = [request EXCEPT ![r].pc = "restore", ![r].doc = doc]
             /\ UNCHANGED lock
          \/ /\ Differs(doc, request[r].reply) /\ "version" \in Faults
             /\ Fail(r)
          \/ /\ ~Differs(doc, request[r].reply)
             /\ request' = [request EXCEPT ![r].pc = "save"]
             /\ UNCHANGED lock
    /\ UNCHANGED <<epoch, epochs, document, agent, generations, shown>>

\* A save that fails is only logged.
Save(r) ==
    /\ request[r].pc = "save"
    /\ \/ document' = DocumentOf(request[r].epoch, request[r].reply)
       \/ "save" \in Faults /\ UNCHANGED document
    /\ request' = [request EXCEPT ![r].pc = "answer"]
    /\ UNCHANGED <<epoch, epochs, agent, generations, lock, shown>>

Answer(r) ==
    /\ request[r].pc = "answer"
    /\ shown' = IF request[r].kind = "activity" THEN shown
                ELSE [epoch |-> request[r].epoch, gen |-> request[r].reply.gen,
                      root |-> request[r].reply.root]
    /\ request' = [request EXCEPT ![r] = Idle]
    /\ Unlock(r)
    /\ UNCHANGED <<epoch, epochs, document, agent, generations>>

\* mergeWorkspaceRecoveryActivity: its load and its save may fail
Merge(r) ==
    /\ request[r].pc = "merge"
    /\ \/ document' = Merged(request[r].epoch, request[r].reply)
       \/ Faults \cap {"load", "save"} # {} /\ UNCHANGED document
    /\ request' = [request EXCEPT ![r] = Idle]
    /\ Unlock(r)
    /\ UNCHANGED <<epoch, epochs, agent, generations, shown>>

-----------------------------------------------------------------------------
(* What else happens.                                                      *)

\* The user changes the directory of a shell.
ChangeDirectory(id, cwd) ==
    /\ id \in Known /\ agent.panes[id] # cwd
    /\ agent' = [agent EXCEPT !.panes[id] = cwd]
    /\ UNCHANGED <<epoch, epochs, document, generations, lock, request, shown>>

AgentStops ==
    /\ agent.gen # 0
    /\ "again" \in Faults \/ \A r \in Requests : request[r].pc # "again"
    /\ agent' = NoWorkspace
    /\ UNCHANGED <<epoch, epochs, document, generations, lock, request, shown>>

ProviderStops ==
    /\ "provider" \in Faults
    /\ request' = [r \in Requests |-> Idle]
    /\ lock' = Unlocked
    /\ UNCHANGED <<epoch, epochs, document, agent, generations, shown>>

\* handleSettings: switched on, the setting gets a new epoch.
SetRestore ==
    /\ "setting" \in Faults \/ \A r \in Requests : request[r].pc = "idle"
    /\ \/ epoch # 0 /\ epoch' = 0 /\ UNCHANGED epochs
       \/ /\ epoch = 0 /\ epochs < MaxEpochs
          /\ epoch' = epochs + 1 /\ epochs' = epochs + 1
    /\ UNCHANGED <<document, agent, generations, lock, request, shown>>

RecoveryNext ==
    \/ \E r \in Requests :
          \/ \E kind \in Kinds : Receive(r, kind)
          \/ Lock(r)
          \/ Ask(r)
          \/ AskInVain(r)
          \/ Compare(r)
          \/ Save(r)
          \/ Answer(r)
          \/ Merge(r)
    \/ \E id \in Ids, cwd \in Cwds : ChangeDirectory(id, cwd)
    \/ AgentStops
    \/ ProviderStops
    \/ SetRestore

RecoverySpec == RecoveryInit /\ [][RecoveryNext]_recoveryVars

-----------------------------------------------------------------------------
(* Properties.                                                             *)

Workspaces == [gen : 0..MaxGenerations, root : 0..MaxGenerations, panes : Panes,
               next : 1..(MaxPanes + 1)]
Docs == [epoch : 0..MaxEpochs, gen : 0..MaxGenerations, root : 0..MaxGenerations,
         panes : Panes]

\* Every variable has the type its Go counterpart has, and the next identity of
\* a workspace, restored or not, is one it has not given yet.
RecoveryTypeOK ==
    /\ epoch \in 0..MaxEpochs /\ epochs \in 0..MaxEpochs
    /\ document \in Docs /\ agent \in Workspaces
    /\ \A id \in Known : id < agent.next
    /\ generations \in 0..MaxGenerations
    /\ lock \in Requests \cup {Unlocked}
    /\ request \in [Requests ->
          [pc : {"idle", "lock", "ask", "compare", "restore", "again", "save",
                 "answer", "merge"},
           kind : AllKinds, epoch : 0..MaxEpochs, tries : 0..1, doc : Docs,
           reply : Workspaces]]
    /\ shown \in [epoch : 0..MaxEpochs, gen : 0..MaxGenerations,
                  root : 0..MaxGenerations]

\* Sessions that live on are used further: a workspace that was answered to the
\* user is never replaced by another one while its agent runs
\* (spec/workspace/restart-restore/AC.md, scenario 3).
LiveNotReplaced ==
    [][agent.gen # 0 /\ agent.gen = shown.gen => agent'.gen \in {0, agent.gen}]_recoveryVars

\* While the setting stays on, the workspace the user was shown last can be had
\* again: it is the one of the agent, was restored into it, or is the document's
\* (spec/workspace/restart-restore/REQ.md).
LastShownRecoverable ==
    epoch # 0 /\ shown.epoch = epoch =>
        \/ agent.root = shown.root
        \/ document.epoch = epoch /\ document.root = shown.root

\* The directories a document keeps for a workspace are those of its own
\* sessions: what the shells of another workspace are at never replaces them
\* (spec/workspace/restart-restore/AC.md, scenario 1).
OwnDirectories ==
    [][document'.gen = document.gen /\ document'.panes # document.panes
       => \E r \in Requests : request[r].reply.gen = document.gen]_recoveryVars
=============================================================================
