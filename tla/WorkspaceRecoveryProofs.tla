----------------------- MODULE WorkspaceRecoveryProofs -----------------------
(***************************************************************************)
(* Proofs about WorkspaceRecovery, for any number of requests, panes,      *)
(* generations and epochs: its types, that what the user was shown last    *)
(* can be had again, and that live sessions are not replaced.              *)
(***************************************************************************)
EXTENDS WorkspaceRecovery, NatInduction, TLAPS

-----------------------------------------------------------------------------
(* The constants and the data.                                             *)

LEMMA Bounds ==
    /\ MaxPanes \in Nat \ {0} /\ MaxGenerations \in Nat \ {0}
    /\ MaxEpochs \in Nat \ {0}
    /\ Home \in Cwds /\ Unlocked \notin Requests /\ Kinds \subseteq AllKinds
BY BoundsAssumption DEF BoundsAssumption, Unlocked

LEMMA NoPanesType == NoPanes \in Panes /\ DOMAIN NoPanes = {}
BY DEF NoPanes, Panes

LEMMA PanesType ==
    ASSUME NEW panes \in Panes
    PROVE  /\ DOMAIN panes \subseteq Ids
           /\ \A id \in DOMAIN panes : panes[id] \in Cwds
           /\ panes # NoPanes => DOMAIN panes # {}
<1>1. PICK ids \in SUBSET Ids : panes \in [ids -> Cwds]
  BY DEF Panes
<1>2. DOMAIN panes = {} => panes = NoPanes
  BY <1>1 DEF NoPanes
<1> QED BY <1>1, <1>2

LEMMA PanesForm ==
    ASSUME NEW ids \in SUBSET Ids, NEW panes \in [ids -> Cwds]
    PROVE  panes \in Panes
BY DEF Panes

LEMMA IdAfterType ==
    ASSUME NEW panes \in Panes
    PROVE  /\ IdAfter(panes) \in 1..(MaxPanes + 1)
           /\ \A id \in DOMAIN panes : id < IdAfter(panes)
<1>1. CASE panes = NoPanes
  BY <1>1, NoPanesType, Bounds DEF IdAfter
<1>2. CASE panes # NoPanes
  <2>1. DOMAIN panes \subseteq 0..MaxPanes /\ DOMAIN panes # {} /\ DOMAIN panes \subseteq Ids
    BY <1>2, PanesType, Bounds DEF Ids
  <2>2. \E i \in DOMAIN panes : \A j \in DOMAIN panes : j <= i
    BY <2>1, Bounds, GreatestNat
  <2>3. PICK i \in DOMAIN panes : /\ \A j \in DOMAIN panes : j <= i
                                  /\ IdAfter(panes) = 1 + i
    BY <1>2, <2>2 DEF IdAfter
  <2> QED BY <2>1, <2>3, Bounds DEF Ids
<1> QED BY <1>1, <1>2

\* A workspace whose next identity is one it has not given yet, ...
SoundWorkspace(ws) ==
    /\ ws \in Workspaces
    /\ \A id \in DOMAIN ws.panes : id < ws.next

\* ... and the same before the bounds are applied.
SomePanes == UNION {[ids -> Cwds] : ids \in SUBSET (Nat \ {0})}
Formed(ws) ==
    /\ ws \in [gen : Nat, root : Nat, panes : SomePanes, next : Nat \ {0}]
    /\ ws.gen <= MaxGenerations => ws.root <= MaxGenerations
    /\ \A id \in DOMAIN ws.panes : id \in Nat \ {0} /\ id < ws.next

LEMMA FormedPanes ==
    ASSUME NEW panes \in SomePanes, NEW id \in Nat \ {0}, NEW cwd \in Cwds
    PROVE  /\ \A i \in DOMAIN panes : i \in Nat \ {0} /\ panes[i] \in Cwds
           /\ panes # NoPanes => DOMAIN panes # {}
           /\ With(panes, id, cwd) \in SomePanes
           /\ DOMAIN With(panes, id, cwd) = DOMAIN panes \cup {id}
<1>1. PICK ids \in SUBSET (Nat \ {0}) : panes \in [ids -> Cwds]
  BY DEF SomePanes
<1>2. DOMAIN panes = {} => panes = NoPanes
  BY <1>1 DEF NoPanes
<1>3. With(panes, id, cwd) \in [ids \cup {id} -> Cwds] /\ ids \cup {id} \in SUBSET (Nat \ {0})
  BY <1>1 DEF With
<1>4. With(panes, id, cwd) \in SomePanes
  BY <1>3 DEF SomePanes
<1> QED BY <1>1, <1>2, <1>3, <1>4

LEMMA SoundIsFormed ==
    ASSUME NEW ws
    PROVE  SoundWorkspace(ws) <=>
              Formed(ws) /\ ws.gen <= MaxGenerations /\ ws.next <= MaxPanes + 1
<1>1. ASSUME SoundWorkspace(ws)
      PROVE  Formed(ws) /\ ws.gen <= MaxGenerations /\ ws.next <= MaxPanes + 1
  <2>1. ws \in Workspaces /\ ws.panes \in Panes
    BY <1>1 DEF SoundWorkspace, Workspaces
  <2>2. PICK ids \in SUBSET Ids : ws.panes \in [ids -> Cwds]
    BY <2>1 DEF Panes
  <2>3. ids \in SUBSET (Nat \ {0})
    BY Bounds DEF Ids
  <2>4. ws.panes \in SomePanes
    BY <2>2, <2>3 DEF SomePanes
  <2>5. \A id \in DOMAIN ws.panes : id \in Nat \ {0} /\ id < ws.next
    BY <1>1, <2>2, <2>3 DEF SoundWorkspace
  <2> QED BY <2>1, <2>4, <2>5, Bounds DEF Formed, Workspaces
<1>2. ASSUME Formed(ws), ws.gen <= MaxGenerations, ws.next <= MaxPanes + 1
      PROVE  SoundWorkspace(ws)
  <2>1. PICK ids \in SUBSET (Nat \ {0}) : ws.panes \in [ids -> Cwds]
    BY <1>2 DEF Formed, SomePanes
  <2>2. ids \in SUBSET Ids
    BY <1>2, <2>1, Bounds DEF Formed, Ids
  <2>3. ws.panes \in Panes
    BY <2>1, <2>2 DEF Panes
  <2>4. ws \in Workspaces
    BY <1>2, <2>3, Bounds DEF Formed, Workspaces
  <2> QED BY <1>2, <2>4 DEF Formed, SoundWorkspace
<1> QED BY <1>1, <1>2

LEMMA NoWorkspaceType == SoundWorkspace(NoWorkspace)
BY NoPanesType, Bounds DEF NoWorkspace, Workspaces, SoundWorkspace

LEMMA NoDocumentType == NoDocument \in Docs
BY NoPanesType, Bounds DEF NoDocument, Docs

\* What Load answers is a document, also when it fails.
LEMMA LoadsType ==
    ASSUME document \in Docs, NEW e
    PROVE  \A doc \in Loads(e) : doc \in Docs
BY NoDocumentType DEF Loads, Loaded

LEMMA AddPaneForm ==
    ASSUME NEW ws, Formed(ws), NEW cwd \in Cwds
    PROVE  /\ Formed(AddPane(ws, cwd))
           /\ AddPane(ws, cwd).gen = ws.gen /\ AddPane(ws, cwd).root = ws.root
           /\ AddPane(ws, cwd).next = ws.next + 1
<1> DEFINE panes == With(ws.panes, ws.next, cwd)
           v     == AddPane(ws, cwd)
<1>1. /\ panes \in SomePanes /\ DOMAIN panes = DOMAIN ws.panes \cup {ws.next}
      /\ ws.next \in Nat \ {0}
  BY FormedPanes DEF Formed
<1>2. /\ v \in [gen : Nat, root : Nat, panes : SomePanes, next : Nat \ {0}]
      /\ v.gen = ws.gen /\ v.root = ws.root /\ v.panes = panes /\ v.next = ws.next + 1
  <2>1. ws \in [gen : Nat, root : Nat, panes : SomePanes, next : Nat \ {0}]
    BY DEF Formed
  <2>2. v = [ws EXCEPT !.panes = panes, !.next = ws.next + 1]
    BY <2>1 DEF AddPane
  <2> HIDE DEF v, panes
  <2>3. v = [gen |-> ws.gen, root |-> ws.root, panes |-> panes, next |-> ws.next + 1]
    BY <2>1, <2>2
  <2> QED BY <1>1, <2>1, <2>3
<1>3. ASSUME NEW id \in DOMAIN v.panes PROVE id \in Nat \ {0} /\ id < v.next
  BY <1>1, <1>2 DEF Formed
<1> QED BY <1>2, <1>3 DEF Formed

-----------------------------------------------------------------------------
(* The inductive invariant.                                                *)

\* What this development assumes of the environment: saves succeed and the setting
\* is only changed between requests; and, where it says so, the document can be
\* read and the agent does not stop again before the action it was restored for.
Orderly == Faults \cap {"save", "setting"} = {}
Steady  == Faults \cap {"load", "again"} = {}

\* Generations and epochs are drawn in order; requests are of the epoch that is.
Ordered ==
    /\ agent.gen <= generations /\ document.gen <= generations
    /\ shown.gen <= generations
    /\ epoch \in {0, epochs}
    /\ document.epoch <= epochs /\ shown.epoch <= epochs
    /\ \A r \in Requests : /\ request[r].reply.gen <= generations
                           /\ request[r].pc # "idle" => request[r].epoch = epoch

\* Requests that recover exclude each other.
Holding(r) == request[r].epoch # 0 /\ request[r].pc \notin {"idle", "lock"}
Exclusive ==
    \A r \in Requests :
        /\ request[r].pc \in {"lock", "compare", "restore", "again", "save", "merge"}
              => request[r].epoch # 0
        /\ Holding(r) => lock = r

\* What a request that holds the lock knows of the document and of the agent.
AgentIs(ws) == agent.gen = ws.gen /\ agent.root = ws.root
AgentIsOrStopped(ws) == agent.gen = 0 \/ AgentIs(ws)
DocumentIs(ws) == document.epoch = epoch /\ document.gen = ws.gen /\ document.root = ws.root

Knows(r) ==
    LET q == request[r]
    IN  /\ q.pc \in {"ask", "compare"} => q.doc \in Loads(epoch)
        /\ q.pc = "restore" => /\ q.doc = document /\ document.epoch = epoch
                               /\ agent.gen # 0 => agent.gen # document.gen
        /\ q.pc \in {"compare", "merge", "save"} => AgentIsOrStopped(q.reply)
        /\ q.pc \in {"compare", "merge"} =>
              q.reply.gen # 0 /\ (q.reply.gen = document.gen => q.reply.root = document.root)
        /\ Steady /\ q.pc = "again" => agent.gen # 0 /\ AgentIs(q.reply)
        /\ Steady /\ q.pc \in {"again", "save"} /\ document.epoch = epoch =>
              document.root = q.reply.root
        /\ q.pc = "answer" => DocumentIs(q.reply) /\ AgentIsOrStopped(q.reply)

\* The document against the agent and what was shown.
DocumentKept ==
    /\ agent.gen # 0 /\ agent.gen = document.gen => agent.root = document.root
    /\ Steady /\ epoch # 0 /\ shown.epoch = epoch =>
          document.epoch = epoch /\ document.root = shown.root
    /\ epoch # 0 /\ document.epoch = epoch /\ agent.gen # 0 /\ agent.gen = shown.gen =>
          document.gen = agent.gen

RecoveryInv ==
    /\ RecoveryTypeOK
    /\ Ordered
    /\ Exclusive
    /\ \A r \in Requests : Holding(r) => Knows(r)
    /\ DocumentKept

-----------------------------------------------------------------------------
(* Types.                                                                  *)

Request == [pc : {"idle", "lock", "ask", "compare", "restore", "again", "save",
                  "answer", "merge"},
            kind : AllKinds, epoch : 0..MaxEpochs, tries : 0..1, doc : Docs,
            reply : Workspaces]

LEMMA TypeParts ==
    RecoveryTypeOK <=>
        /\ epoch \in 0..MaxEpochs /\ epochs \in 0..MaxEpochs
        /\ document \in Docs /\ SoundWorkspace(agent)
        /\ generations \in 0..MaxGenerations
        /\ lock \in Requests \cup {Unlocked}
        /\ request \in [Requests -> Request]
        /\ shown \in [epoch : 0..MaxEpochs, gen : 0..MaxGenerations,
                      root : 0..MaxGenerations]
BY DEF RecoveryTypeOK, SoundWorkspace, Request, Known

LEMMA IdleType == Idle \in Request
BY NoDocumentType, NoWorkspaceType, Bounds DEF Idle, Request, AllKinds, SoundWorkspace

\* ensureWorkspaceLocked keeps a workspace, or makes one of a new generation.
KeepsOrDraws(ws) ==
    /\ agent.gen # 0 => ws.gen = agent.gen /\ ws.root = agent.root
    /\ agent.gen = 0 => ws.gen = generations + 1 /\ ws.root = generations + 1

LEMMA EnsuredForm ==
    ASSUME SoundWorkspace(agent), generations \in 0..MaxGenerations
    PROVE  Formed(Ensured) /\ KeepsOrDraws(Ensured)
<1>1. Formed(agent) /\ Home \in Cwds
  BY SoundIsFormed, Bounds
<1>2. CASE agent.gen = 0
  <2> DEFINE ws == [NoWorkspace EXCEPT !.gen = generations + 1, !.root = generations + 1]
  <2>1. Formed(ws) /\ ws.gen = generations + 1 /\ ws.root = generations + 1
    <3>1. NoPanes \in SomePanes /\ DOMAIN NoPanes = {}
      BY NoPanesType DEF SomePanes, NoPanes
    <3>2. ws = [gen |-> generations + 1, root |-> generations + 1,
                panes |-> NoPanes, next |-> 1]
      <4>1. NoWorkspace \in [gen : Nat, root : Nat, panes : SomePanes, next : Nat]
        BY <3>1 DEF NoWorkspace
      <4>2. NoWorkspace.panes = NoPanes /\ NoWorkspace.next = 1
        BY DEF NoWorkspace
      <4>3. ws = [NoWorkspace EXCEPT !.gen = generations + 1, !.root = generations + 1]
        OBVIOUS
      <4> HIDE DEF ws
      <4> QED BY <4>1, <4>2, <4>3
    <3> HIDE DEF ws
    <3> QED BY <3>1, <3>2, Bounds DEF Formed
  <2>2. Ensured = AddPane(ws, Home)
    BY <1>2 DEF Ensured, Fresh
  <2> HIDE DEF ws
  <2> QED BY <1>1, <1>2, <2>1, <2>2, AddPaneForm DEF KeepsOrDraws
<1>3. CASE agent.gen # 0
  <2>1. Ensured = agent \/ Ensured = AddPane(agent, Home)
    BY <1>3 DEF Ensured
  <2> QED BY <1>1, <1>3, <2>1, AddPaneForm DEF KeepsOrDraws
<1> QED BY <1>2, <1>3

\* A state request or an action does the same.
LEMMA ResultsForm ==
    ASSUME SoundWorkspace(agent), generations \in 0..MaxGenerations,
           NEW kind \in AllKinds, NEW ws \in Results(kind)
    PROVE  Formed(ws) /\ KeepsOrDraws(ws)
<1>1. Formed(Ensured) /\ KeepsOrDraws(Ensured)
  BY EnsuredForm
<1>2. CASE kind = "split_pane"
  <2>1. PICK id \in DOMAIN Ensured.panes : ws = AddPane(Ensured, Ensured.panes[id])
    BY <1>2 DEF Results
  <2>2. Ensured.panes[id] \in Cwds
    <3>1. Ensured.panes \in SomePanes
      BY <1>1 DEF Formed
    <3>2. PICK ids \in SUBSET (Nat \ {0}) : Ensured.panes \in [ids -> Cwds]
      BY <3>1 DEF SomePanes
    <3> QED BY <3>2
  <2> QED BY <1>1, <2>1, <2>2, AddPaneForm DEF KeepsOrDraws
<1>3. CASE kind = "close_pane"
  <2>1. PICK id \in DOMAIN Ensured.panes :
            ws = [Ensured EXCEPT !.panes = [i \in DOMAIN @ \ {id} |-> @[i]]]
    BY <1>3 DEF Results
  <2> DEFINE panes == [i \in DOMAIN Ensured.panes \ {id} |-> Ensured.panes[i]]
  <2>2. panes \in SomePanes /\ DOMAIN panes \subseteq DOMAIN Ensured.panes
    <3>1. PICK ids \in SUBSET (Nat \ {0}) : Ensured.panes \in [ids -> Cwds]
      BY <1>1 DEF Formed, SomePanes
    <3>2. panes \in [ids \ {id} -> Cwds]
      BY <3>1
    <3> QED BY <3>1, <3>2 DEF SomePanes
  <2>3. ws = [Ensured EXCEPT !.panes = panes]
    BY <2>1
  <2> HIDE DEF panes
  <2> QED BY <1>1, <2>2, <2>3 DEF Formed, KeepsOrDraws
<1>4. CASE kind \notin {"split_pane", "close_pane"}
  <2>1. ws = Ensured
    BY <1>4 DEF Results
  <2> QED BY <1>1, <2>1
<1> QED BY <1>2, <1>3, <1>4

\* restore_workspace makes one of a new generation, with the document's root.
LEMMA RestoredForm ==
    ASSUME generations \in 0..MaxGenerations, NEW doc \in Docs
    PROVE  /\ Formed(Restored(doc))
           /\ Restored(doc).gen = generations + 1 /\ Restored(doc).root = doc.root
<1> DEFINE ws == [gen |-> generations + 1, root |-> doc.root, panes |-> doc.panes,
                  next |-> IdAfter(doc.panes)]
<1>1. doc.panes \in Panes /\ doc.root \in 0..MaxGenerations
  BY DEF Docs
<1>2. /\ IdAfter(doc.panes) \in Nat \ {0}
      /\ \A id \in DOMAIN doc.panes : id \in Nat \ {0} /\ id < IdAfter(doc.panes)
  BY <1>1, IdAfterType, PanesType, Bounds DEF Ids
<1>3. doc.panes \in SomePanes
  <2>1. PICK ids \in SUBSET Ids : doc.panes \in [ids -> Cwds]
    BY <1>1 DEF Panes
  <2>2. ids \in SUBSET (Nat \ {0})
    BY Bounds DEF Ids
  <2> QED BY <2>1, <2>2 DEF SomePanes
<1>4. Formed(ws) /\ ws.gen = generations + 1 /\ ws.root = doc.root
  BY <1>1, <1>2, <1>3, Bounds DEF Formed
<1>5. Restored(doc) = ws \/ Restored(doc) = AddPane(ws, Home)
  BY DEF Restored
<1> HIDE DEF ws
<1> QED BY <1>4, <1>5, AddPaneForm, Bounds
\* What an attempt leaves behind: the agent's workspace, or one of a new
\* generation, which replaces another one only when a document is restored.
SameAs(ws) == ws.gen = agent.gen /\ ws.root = agent.root
Drawn(ws)  == ws.gen = generations + 1

LEMMA OutcomeForm ==
    ASSUME RecoveryTypeOK, NEW r \in Requests, NEW ws \in Outcomes(r)
    PROVE  /\ Formed(ws)
           /\ request[r].pc = "restore" => Drawn(ws) /\ ws.root = request[r].doc.root
           /\ request[r].pc # "restore" => KeepsOrDraws(ws)
<1>1. /\ SoundWorkspace(agent) /\ generations \in 0..MaxGenerations
      /\ request[r].doc \in Docs /\ request[r].kind \in AllKinds
  BY TypeParts DEF Request
<1>2. CASE request[r].pc = "restore"
  BY <1>1, <1>2, RestoredForm DEF Outcomes, Drawn
<1>3. CASE request[r].pc # "restore"
  BY <1>1, <1>3, ResultsForm DEF Outcomes
<1> QED BY <1>2, <1>3

LEMMA AttemptForm ==
    ASSUME RecoveryTypeOK, NEW r \in Requests, NEW ws \in Outcomes(r) \cup Refusals(r)
    PROVE  /\ Formed(ws)
           /\ SameAs(ws) \/ Drawn(ws)
           /\ SameAs(ws) \/ request[r].pc = "restore" \/ agent.gen = 0
<1>1. SoundWorkspace(agent) /\ Formed(agent) /\ generations \in 0..MaxGenerations
  BY TypeParts, SoundIsFormed
<1>2. CASE ws \in Outcomes(r)
  BY <1>2, OutcomeForm DEF SameAs, Drawn, KeepsOrDraws
<1>3. CASE ws = agent
  BY <1>1, <1>3 DEF SameAs
<1>4. CASE ws = Ensured
  BY <1>1, <1>4, EnsuredForm DEF SameAs, Drawn, KeepsOrDraws
<1> QED BY <1>2, <1>3, <1>4 DEF Refusals

LEMMA ExecuteType ==
    ASSUME RecoveryTypeOK, NEW ws, Formed(ws), ws.gen <= MaxGenerations,
           ws.next <= MaxPanes + 1, Execute(ws)
    PROVE  SoundWorkspace(agent') /\ generations' \in 0..MaxGenerations
BY TypeParts, SoundIsFormed, Bounds DEF Execute, NewGenerations, Formed

LEMMA MergedType ==
    ASSUME NEW e, NEW ws \in Workspaces, document \in Docs
    PROVE  /\ Merged(e, ws) \in Docs
           /\ Merged(e, ws).epoch = document.epoch /\ Merged(e, ws).gen = document.gen
           /\ Merged(e, ws).root = document.root
<1>1. CASE Loaded(e) = NoDocument
  BY <1>1 DEF Merged
<1>2. CASE Loaded(e) # NoDocument
  <2> DEFINE panes == [i \in DOMAIN document.panes |->
                          IF i \in DOMAIN ws.panes THEN ws.panes[i] ELSE document.panes[i]]
  <2>1. PICK ids \in SUBSET Ids : document.panes \in [ids -> Cwds]
    BY DEF Docs, Panes
  <2>2. \A i \in DOMAIN ws.panes : ws.panes[i] \in Cwds
    BY PanesType DEF Workspaces
  <2>3. panes \in [ids -> Cwds]
    BY <2>1, <2>2
  <2>4. panes \in Panes
    BY <2>3 DEF Panes
  <2>5. Merged(e, ws) = [document EXCEPT !.panes = panes]
    BY <1>2 DEF Merged
  <2> HIDE DEF panes
  <2> QED BY <2>4, <2>5 DEF Docs
<1> QED BY <1>1, <1>2

\* One request moves, the others do not.
LEMMA Moves ==
    ASSUME request \in [Requests -> Request], NEW r \in Requests, NEW q \in Request,
           request' = [request EXCEPT ![r] = q]
    PROVE  /\ request' \in [Requests -> Request] /\ request'[r] = q
           /\ \A s \in Requests \ {r} : request'[s] = request[s]
OBVIOUS

LEMMA AskMoves ==
    ASSUME RecoveryTypeOK, NEW r \in Requests, NEW ws, SoundWorkspace(ws),
           request' = [request EXCEPT ![r].pc = AfterReply(r), ![r].reply = ws,
                                      ![r].tries = 0]
    PROVE  /\ request' \in [Requests -> Request]
           /\ \A s \in Requests \ {r} : request'[s] = request[s]
           /\ request'[r].pc = AfterReply(r) /\ request'[r].reply = ws
           /\ request'[r].epoch = request[r].epoch /\ request'[r].doc = request[r].doc
<1> DEFINE q == [request[r] EXCEPT !.pc = AfterReply(r), !.reply = ws, !.tries = 0]
<1>1. request \in [Requests -> Request] /\ request[r] \in Request
  BY TypeParts
<1>2. AfterReply(r) \in {"answer", "merge", "compare", "again", "save"}
  BY DEF AfterReply
<1>3. request' = [request EXCEPT ![r] = q]
  OBVIOUS
<1>4. q = [pc |-> AfterReply(r), kind |-> request[r].kind, epoch |-> request[r].epoch,
           tries |-> 0, doc |-> request[r].doc, reply |-> ws]
  <2>1. q = [request[r] EXCEPT !.pc = AfterReply(r), !.reply = ws, !.tries = 0]
    OBVIOUS
  <2> HIDE DEF q
  <2> QED BY <1>1, <2>1 DEF Request
<1> HIDE DEF q
<1>5. ws \in Workspaces
  BY DEF SoundWorkspace
<1>6. q \in Request
  BY <1>1, <1>2, <1>4, <1>5 DEF Request
<1>7. /\ request' \in [Requests -> Request] /\ request'[r] = q
      /\ \A s \in Requests \ {r} : request'[s] = request[s]
  BY <1>1, <1>3, <1>6, Moves, Zenon
<1> QED BY <1>4, <1>7

\* A request ends, or changes only where it is.
LEMMA IdleMoves ==
    ASSUME RecoveryTypeOK, NEW r \in Requests, request' = [request EXCEPT ![r] = Idle]
    PROVE  /\ request' \in [Requests -> Request]
           /\ \A s \in Requests \ {r} : request'[s] = request[s]
           /\ request'[r].pc = "idle" /\ request'[r].epoch = 0
           /\ request'[r].reply.gen = 0
BY TypeParts, IdleType, Moves, NoWorkspaceType DEF Idle, NoWorkspace

LEMMA PcMoves ==
    ASSUME RecoveryTypeOK, NEW r \in Requests,
           NEW pc \in {"ask", "compare", "restore", "save", "answer"}, NEW doc \in Docs,
           \/ request' = [request EXCEPT ![r].pc = pc] /\ doc = request[r].doc
           \/ request' = [request EXCEPT ![r].pc = pc, ![r].doc = doc]
    PROVE  /\ request' \in [Requests -> Request]
           /\ \A s \in Requests \ {r} : request'[s] = request[s]
           /\ request'[r].pc = pc /\ request'[r].doc = doc
           /\ request'[r].epoch = request[r].epoch /\ request'[r].reply = request[r].reply
<1>1. request \in [Requests -> Request] /\ request[r] \in Request
  BY TypeParts
<1>2. PICK q : /\ \/ q = [request[r] EXCEPT !.pc = pc] /\ doc = request[r].doc
                  \/ q = [request[r] EXCEPT !.pc = pc, !.doc = doc]
               /\ request' = [request EXCEPT ![r] = q]
  OBVIOUS
<1>3. q = [pc |-> pc, kind |-> request[r].kind, epoch |-> request[r].epoch,
           tries |-> request[r].tries, doc |-> doc, reply |-> request[r].reply]
  BY <1>1, <1>2 DEF Request
<1>4. q \in Request
  BY <1>1, <1>3 DEF Request
<1> QED BY <1>1, <1>2, <1>3, <1>4, Moves

LEMMA RetryMoves ==
    ASSUME RecoveryTypeOK, NEW r \in Requests, request' = [request EXCEPT ![r].tries = 1]
    PROVE  /\ request' \in [Requests -> Request]
           /\ \A s \in Requests \ {r} : request'[s] = request[s]
           /\ request'[r].pc = request[r].pc /\ request'[r].doc = request[r].doc
           /\ request'[r].epoch = request[r].epoch /\ request'[r].reply = request[r].reply
<1> DEFINE q == [request[r] EXCEPT !.tries = 1]
<1>1. request \in [Requests -> Request] /\ request[r] \in Request
  BY TypeParts
<1>2. /\ q \in Request /\ q.pc = request[r].pc /\ q.doc = request[r].doc
      /\ q.epoch = request[r].epoch /\ q.reply = request[r].reply
  BY <1>1 DEF Request
<1>3. request' = [request EXCEPT ![r] = q]
  OBVIOUS
<1> HIDE DEF q
<1> QED BY <1>1, <1>2, <1>3, Moves

LEMMA ReceiveMoves ==
    ASSUME RecoveryTypeOK, NEW r \in Requests, NEW kind \in Kinds, Receive(r, kind)
    PROVE  /\ request' \in [Requests -> Request]
           /\ \A s \in Requests \ {r} : request'[s] = request[s]
           /\ request'[r].pc = IF epoch = 0 THEN "ask" ELSE "lock"
           /\ request'[r].epoch = epoch /\ request'[r].reply.gen = 0
<1> DEFINE pc == IF epoch = 0 THEN "ask" ELSE "lock"
           q  == [Idle EXCEPT !.pc = pc, !.kind = kind, !.epoch = epoch]
<1>1. request \in [Requests -> Request] /\ epoch \in 0..MaxEpochs /\ kind \in AllKinds
  BY TypeParts, Bounds
<1>2. pc \in {"ask", "lock"}
  OBVIOUS
<1>3. q = [pc |-> pc, kind |-> kind, epoch |-> epoch, tries |-> 0,
           doc |-> Idle.doc, reply |-> Idle.reply]
  <2>1. Idle \in Request /\ Idle.tries = 0
    BY IdleType DEF Idle
  <2>2. q = [Idle EXCEPT !.pc = pc, !.kind = kind, !.epoch = epoch]
    OBVIOUS
  <2> HIDE DEF q, pc
  <2> QED BY <2>1, <2>2 DEF Request
<1>4. request' = [request EXCEPT ![r] = q]
  BY DEF Receive
<1> HIDE DEF q, pc
<1>5. q \in Request
  BY <1>1, <1>2, <1>3, IdleType DEF Request
<1>6. Idle.reply.gen = 0
  BY DEF Idle, NoWorkspace
<1>7. request'[r] = q /\ request' \in [Requests -> Request]
      /\ \A s \in Requests \ {r} : request'[s] = request[s]
  BY <1>1, <1>4, <1>5, Moves
<1> QED BY <1>3, <1>6, <1>7 DEF pc

LEMMA TypeInit == RecoveryInit => RecoveryTypeOK
<1> SUFFICES ASSUME RecoveryInit PROVE RecoveryTypeOK
  OBVIOUS
<1>1. epoch \in 0..MaxEpochs /\ epochs \in 0..MaxEpochs /\ generations \in 0..MaxGenerations
  BY Bounds DEF RecoveryInit
<1>2. request \in [Requests -> Request]
  BY IdleType DEF RecoveryInit
<1>3. shown \in [epoch : 0..MaxEpochs, gen : 0..MaxGenerations, root : 0..MaxGenerations]
  BY Bounds DEF RecoveryInit
<1> QED BY <1>1, <1>2, <1>3, TypeParts, NoWorkspaceType, NoDocumentType DEF RecoveryInit

LEMMA TypeKept == RecoveryTypeOK /\ [RecoveryNext]_recoveryVars => RecoveryTypeOK'
<1> SUFFICES ASSUME RecoveryTypeOK, [RecoveryNext]_recoveryVars PROVE RecoveryTypeOK'
  OBVIOUS
<1> DEFINE Parts ==
      /\ epoch \in 0..MaxEpochs /\ epochs \in 0..MaxEpochs
      /\ document \in Docs /\ SoundWorkspace(agent)
      /\ generations \in 0..MaxGenerations
      /\ lock \in Requests \cup {Unlocked}
      /\ request \in [Requests -> Request]
      /\ shown \in [epoch : 0..MaxEpochs, gen : 0..MaxGenerations,
                    root : 0..MaxGenerations]
<1> SUFFICES Parts'
  BY TypeParts, PTL
<1>0. Parts
  BY TypeParts
<1>1. \A r \in Requests : /\ request[r].epoch \in 0..MaxEpochs /\ request[r].doc \in Docs
                          /\ request[r].reply \in Workspaces
  BY <1>0 DEF Request
<1>2. ASSUME NEW r \in Requests, NEW kind \in Kinds, Receive(r, kind) PROVE Parts'
  BY <1>0, <1>2, ReceiveMoves DEF Receive
<1>3. ASSUME NEW r \in Requests, Lock(r) PROVE Parts'
  <2>1. \A doc \in Loads(request[r].epoch) : doc \in Docs
    BY <1>0, LoadsType
  <2>2. request' \in [Requests -> Request]
    BY <1>3, <2>1, PcMoves DEF Lock
  <2> QED BY <1>0, <1>3, <2>2 DEF Lock
<1>4. ASSUME NEW r \in Requests, Ask(r) PROVE Parts'
  <2>1. PICK ws \in Outcomes(r) :
            /\ ws.gen <= MaxGenerations /\ ws.next <= MaxPanes + 1 /\ Execute(ws)
            /\ request' = [request EXCEPT ![r].pc = AfterReply(r), ![r].reply = ws,
                                          ![r].tries = 0]
    BY <1>4 DEF Ask
  <2>2. Formed(ws)
    BY <2>1, OutcomeForm
  <2>3. SoundWorkspace(agent') /\ generations' \in 0..MaxGenerations /\ agent' = ws
    BY <2>1, <2>2, ExecuteType DEF Execute
  <2>4. request' \in [Requests -> Request]
    BY <2>1, <2>3, AskMoves
  <2> QED BY <1>0, <1>4, <2>3, <2>4 DEF Ask
<1>5. ASSUME NEW r \in Requests, AskInVain(r) PROVE Parts'
  <2>1. PICK ws \in Outcomes(r) \cup Refusals(r) :
            ws.gen <= MaxGenerations /\ ws.next <= MaxPanes + 1 /\ Execute(ws)
    BY <1>5 DEF AskInVain
  <2>2. SoundWorkspace(agent') /\ generations' \in 0..MaxGenerations
    BY <2>1, AttemptForm, ExecuteType
  <2>3. request' \in [Requests -> Request] /\ lock' \in {lock, Unlocked}
    BY <1>5, RetryMoves, IdleMoves DEF AskInVain, Fail, Unlock
  <2> QED BY <1>0, <1>5, <2>2, <2>3 DEF AskInVain
<1>6. ASSUME NEW r \in Requests, Compare(r) PROVE Parts'
  <2>1. PICK doc \in IF request[r].kind = "state" THEN Loads(request[r].epoch)
                     ELSE {request[r].doc} :
             \/ request' = [request EXCEPT ![r].pc = "restore", ![r].doc = doc]
             \/ request' = [request EXCEPT ![r].pc = "save"]
             \/ request' = [request EXCEPT ![r] = Idle]
    BY <1>6 DEF Compare, Fail
  <2>2. doc \in Docs
    BY <1>0, <1>1, LoadsType
  <2>3. request' \in [Requests -> Request]
    BY <1>1, <2>1, <2>2, PcMoves, IdleMoves
  <2>4. lock' \in {lock, Unlocked}
    BY <1>6 DEF Compare, Fail, Unlock
  <2> QED BY <1>0, <1>6, <2>3, <2>4 DEF Compare
<1>7. ASSUME NEW r \in Requests, Save(r) PROVE Parts'
  <2>1. DocumentOf(request[r].epoch, request[r].reply) \in Docs
    BY <1>1 DEF DocumentOf, Docs, Workspaces
  <2>2. request' \in [Requests -> Request]
    BY <1>1, <1>7, PcMoves DEF Save
  <2> QED BY <1>0, <1>7, <2>1, <2>2 DEF Save
<1>8. ASSUME NEW r \in Requests, Answer(r) PROVE Parts'
  <2>1. request' \in [Requests -> Request] /\ lock' \in {lock, Unlocked}
    BY <1>8, IdleMoves DEF Answer, Unlock
  <2>2. shown' \in [epoch : 0..MaxEpochs, gen : 0..MaxGenerations, root : 0..MaxGenerations]
    BY <1>0, <1>1, <1>8 DEF Answer, Workspaces
  <2> QED BY <1>0, <1>8, <2>1, <2>2 DEF Answer
<1>9. ASSUME NEW r \in Requests, Merge(r) PROVE Parts'
  <2>1. request' \in [Requests -> Request] /\ lock' \in {lock, Unlocked}
    BY <1>9, IdleMoves DEF Merge, Unlock
  <2>2. document' \in Docs
    BY <1>0, <1>1, <1>9, MergedType DEF Merge
  <2> QED BY <1>0, <1>9, <2>1, <2>2 DEF Merge
<1>10. ASSUME NEW id \in Ids, NEW cwd \in Cwds, ChangeDirectory(id, cwd) PROVE Parts'
  <2>1. PICK ids \in SUBSET Ids : agent.panes \in [ids -> Cwds]
    BY <1>0 DEF SoundWorkspace, Workspaces, Panes
  <2>2. [agent.panes EXCEPT ![id] = cwd] \in [ids -> Cwds]
    BY <2>1
  <2>3. [agent.panes EXCEPT ![id] = cwd] \in Panes
    BY <2>2 DEF Panes
  <2>4. agent' = [agent EXCEPT !.panes = [agent.panes EXCEPT ![id] = cwd]]
    BY <1>10 DEF ChangeDirectory
  <2>5. SoundWorkspace(agent')
    BY <1>0, <2>3, <2>4 DEF SoundWorkspace, Workspaces
  <2> QED BY <1>0, <1>10, <2>5 DEF ChangeDirectory
<1>11. CASE AgentStops
  BY <1>0, <1>11, NoWorkspaceType DEF AgentStops
<1>12. CASE ProviderStops
  BY <1>0, <1>12, IdleType DEF ProviderStops
<1>13. CASE SetRestore
  BY <1>0, <1>13, Bounds DEF SetRestore
<1>14. CASE UNCHANGED recoveryVars
  BY <1>0, <1>14 DEF recoveryVars
<1> QED
  BY <1>2, <1>3, <1>4, <1>5, <1>6, <1>7, <1>8, <1>9, <1>10, <1>11, <1>12, <1>13, <1>14
     DEF RecoveryNext

\* RecoveryTypeOK: whatever requests, crashes and settings do, every variable
\* keeps its type, and no identity of a pane is given twice by a workspace, be it
\* restored or not.
THEOREM RecoveryTyped == RecoverySpec => []RecoveryTypeOK
<1> QED BY TypeInit, TypeKept, PTL DEF RecoverySpec

-----------------------------------------------------------------------------
(* The steps.                                                              *)

\* Whoever asks the agent for the setting that is on is alone in doing so.
LEMMA Alone ==
    ASSUME RecoveryInv, NEW r \in Requests, request[r].pc \notin {"idle", "lock"}
    PROVE  /\ request[r].epoch = epoch
           /\ epoch # 0 => Holding(r) /\ lock = r /\ Knows(r)
           /\ \A s \in Requests \ {r} : ~Holding(s)
BY DEF RecoveryInv, Ordered, Exclusive, Holding

\* What a request that is alone moves keeps the others from being disturbed.
LEMMA OthersKept ==
    ASSUME RecoveryInv, NEW r \in Requests,
           \A s \in Requests \ {r} : ~Holding(s) /\ request'[s] = request[s],
           epoch' = epoch, epochs' = epochs, generations <= generations',
           generations \in Nat, generations' \in Nat,
           request' \in [Requests -> Request],
           request'[r].reply.gen <= generations',
           request'[r].pc # "idle" => request'[r].epoch = epoch
    PROVE  \A s \in Requests :
              /\ request'[s].reply.gen <= generations'
              /\ request'[s].pc # "idle" => request'[s].epoch = epoch'
              /\ s # r => ~Holding(s)'
<1>1. \A s \in Requests : request[s].reply.gen \in Nat /\ request[s].reply.gen <= generations
  BY TypeParts, Bounds DEF RecoveryInv, Ordered, Request, Workspaces
<1> QED BY <1>1 DEF RecoveryInv, Ordered, Holding

LEMMA InvInit == RecoveryInit => RecoveryInv
<1> SUFFICES ASSUME RecoveryInit PROVE RecoveryInv
  OBVIOUS
<1>1. \A r \in Requests : /\ request[r].pc = "idle" /\ request[r].epoch = 0
                          /\ request[r].reply.gen = 0
  BY DEF RecoveryInit, Idle, NoWorkspace
<1>2. RecoveryTypeOK
  BY TypeInit
<1>3. Ordered
  BY <1>1 DEF RecoveryInit, Ordered, NoWorkspace, NoDocument
<1>4. Exclusive /\ \A r \in Requests : ~Holding(r)
  BY <1>1 DEF Exclusive, Holding
<1>5. DocumentKept
  BY DEF RecoveryInit, DocumentKept, NoWorkspace
<1> QED BY <1>2, <1>3, <1>4, <1>5 DEF RecoveryInv

LEMMA ReceiveKept ==
    ASSUME RecoveryInv, RecoveryTypeOK', NEW r \in Requests, NEW kind \in Kinds,
           Receive(r, kind)
    PROVE  RecoveryInv'
<1>1. /\ request[r].pc = "idle"
      /\ \A s \in Requests \ {r} : request'[s] = request[s]
      /\ request'[r].pc = IF epoch = 0 THEN "ask" ELSE "lock"
      /\ request'[r].epoch = epoch /\ request'[r].reply.gen = 0
      /\ UNCHANGED <<epoch, epochs, document, agent, generations, lock, shown>>
  BY ReceiveMoves DEF RecoveryInv, Receive
<1>2. generations \in Nat
  BY TypeParts DEF RecoveryInv
<1>3. Ordered'
  BY <1>1, <1>2 DEF RecoveryInv, Ordered
<1>4. ~Holding(r)' /\ \A s \in Requests \ {r} : Holding(s)' <=> Holding(s)
  BY <1>1 DEF Holding
<1>5. Exclusive'
  BY <1>1, <1>4 DEF RecoveryInv, Exclusive
<1>6. \A s \in Requests : Holding(s)' => Knows(s)'
  <2>1. \A s \in Requests \ {r} : Knows(s) => Knows(s)'
    BY <1>1 DEF Knows, AgentIs, AgentIsOrStopped, DocumentIs, Loads, Loaded
  <2> QED BY <1>4, <2>1 DEF RecoveryInv
<1>7. DocumentKept'
  BY <1>1 DEF RecoveryInv, DocumentKept
<1> QED BY <1>3, <1>5, <1>6, <1>7 DEF RecoveryInv

LEMMA LockKept ==
    ASSUME RecoveryInv, RecoveryTypeOK', NEW r \in Requests, Lock(r)
    PROVE  RecoveryInv'
<1>1. /\ request[r].pc = "lock" /\ lock = Unlocked /\ lock' = r
      /\ request[r].epoch = epoch /\ epoch # 0
      /\ UNCHANGED <<epoch, epochs, document, agent, generations, shown>>
  BY DEF RecoveryInv, Ordered, Exclusive, Lock
<1>2. /\ \A s \in Requests \ {r} : request'[s] = request[s]
      /\ request'[r].pc = "ask" /\ request'[r].doc \in Loads(epoch)
      /\ request'[r].epoch = epoch /\ request'[r].reply = request[r].reply
  <2>1. document \in Docs
    BY TypeParts DEF RecoveryInv
  <2>2. PICK doc \in Loads(request[r].epoch) :
             request' = [request EXCEPT ![r].pc = "ask", ![r].doc = doc]
    BY DEF Lock
  <2>3. doc \in Docs
    BY <2>1, LoadsType
  <2>4. RecoveryTypeOK
    BY DEF RecoveryInv
  <2>5. /\ \A s \in Requests \ {r} : request'[s] = request[s]
        /\ request'[r].pc = "ask" /\ request'[r].doc = doc
        /\ request'[r].epoch = request[r].epoch /\ request'[r].reply = request[r].reply
    BY <2>2, <2>3, <2>4, PcMoves
  <2> QED BY <1>1, <2>5
<1>3. Ordered'
  BY <1>1, <1>2 DEF RecoveryInv, Ordered
<1>4. \A s \in Requests \ {r} : ~Holding(s) /\ ~Holding(s)'
  BY <1>1, <1>2, Bounds DEF RecoveryInv, Exclusive, Holding
<1>5. Exclusive'
  BY <1>1, <1>2, <1>4 DEF RecoveryInv, Exclusive
<1>6. Knows(r)'
  BY <1>1, <1>2 DEF Knows, Loads, Loaded
<1>7. DocumentKept'
  BY <1>1 DEF RecoveryInv, DocumentKept
<1> QED BY <1>3, <1>4, <1>5, <1>6, <1>7 DEF RecoveryInv

LEMMA AskKept ==
    ASSUME RecoveryInv, RecoveryTypeOK', NEW r \in Requests, Ask(r)
    PROVE  RecoveryInv'
<1>1. PICK ws \in Outcomes(r) :
          /\ ws.gen <= MaxGenerations /\ ws.next <= MaxPanes + 1 /\ Execute(ws)
          /\ request' = [request EXCEPT ![r].pc = AfterReply(r), ![r].reply = ws,
                                        ![r].tries = 0]
  BY DEF Ask
<1>2. /\ request[r].pc \in {"ask", "restore", "again"}
      /\ UNCHANGED <<epoch, epochs, document, lock, shown>>
  BY DEF Ask, Asking
<1>3. /\ RecoveryTypeOK /\ Ordered /\ Exclusive /\ DocumentKept
      /\ generations \in Nat /\ agent.gen \in Nat
      /\ document.gen \in Nat /\ shown.gen \in Nat
  BY TypeParts, Bounds DEF RecoveryInv, SoundWorkspace, Workspaces, Docs
<1>4. /\ Formed(ws) /\ ws.gen \in Nat
      /\ request[r].pc = "restore" => ws.gen = generations + 1 /\ ws.root = request[r].doc.root
      /\ request[r].pc # "restore" => KeepsOrDraws(ws)
  BY <1>1, <1>3, OutcomeForm DEF Drawn, Formed
<1>5. /\ agent' = ws /\ generations' \in Nat /\ generations <= generations'
      /\ ws.gen <= generations' /\ ws.gen # 0
  BY <1>1, <1>3, <1>4 DEF Execute, NewGenerations, KeepsOrDraws
<1>6. /\ request' \in [Requests -> Request]
      /\ \A s \in Requests \ {r} : request'[s] = request[s]
      /\ request'[r].pc = AfterReply(r) /\ request'[r].reply = ws
      /\ request'[r].epoch = request[r].epoch /\ request'[r].doc = request[r].doc
  <2>1. SoundWorkspace(ws)
    BY <1>1, <1>4, SoundIsFormed
  <2> QED BY <1>1, <1>3, <2>1, AskMoves
<1>7. /\ request[r].epoch = epoch
      /\ epoch # 0 => Holding(r) /\ lock = r /\ Knows(r)
      /\ \A s \in Requests \ {r} : ~Holding(s)
  BY <1>2, Alone
<1>8. \A s \in Requests : /\ request'[s].reply.gen <= generations'
                          /\ request'[s].pc # "idle" => request'[s].epoch = epoch'
                          /\ s # r => ~Holding(s)'
  BY <1>2, <1>3, <1>5, <1>6, <1>7, OthersKept
<1>9. Ordered'
  BY <1>2, <1>3, <1>5, <1>8 DEF Ordered
<1>10. Exclusive'
  <2>1. AfterReply(r) # "answer" => epoch # 0
    <3>1. request[r].pc # "ask" => epoch # 0
      BY <1>2, <1>3, <1>7 DEF Exclusive
    <3>2. request[r].pc = "ask" /\ epoch = 0 => AfterReply(r) = "answer"
      BY <1>7 DEF AfterReply, Recovers
    <3> QED BY <3>1, <3>2
  <2>2. epoch = 0 => ~Holding(r)'
    BY <1>6, <1>7 DEF Holding
  <2> QED BY <1>2, <1>3, <1>6, <1>7, <1>8, <2>1, <2>2 DEF Exclusive, Holding
<1>11. ASSUME epoch # 0 PROVE Knows(r)'
  <2>1. Knows(r) /\ request'[r].reply = agent'
    BY <1>5, <1>6, <1>7, <1>11
  <2>2. CASE request[r].pc = "ask"
    <3>1. request'[r].pc \in {"merge", "compare"} /\ KeepsOrDraws(ws)
      BY <1>4, <1>6, <1>7, <1>11, <2>2 DEF AfterReply, Recovers
    <3>2. ws.gen = document.gen => ws.root = document.root
      BY <1>3, <3>1 DEF KeepsOrDraws, Ordered, DocumentKept
    <3>3. request'[r].doc \in Loads(epoch)
      BY <1>6, <2>1, <2>2 DEF Knows
    <3> QED BY <1>2, <1>5, <1>6, <2>1, <3>1, <3>2, <3>3
            DEF Knows, AgentIsOrStopped, AgentIs, Loads, Loaded
  <2>3. CASE request[r].pc = "restore"
    <3>1. request'[r].pc \in {"again", "save"}
      BY <1>6, <1>7, <1>11, <2>3 DEF AfterReply, Recovers
    <3>2. ws.root = document.root
      BY <1>4, <2>1, <2>3 DEF Knows
    <3> QED BY <1>2, <1>5, <1>6, <2>1, <3>1, <3>2
            DEF Knows, AgentIsOrStopped, AgentIs
  <2>4. CASE request[r].pc = "again"
    <3>1. request'[r].pc = "save"
      BY <1>6, <1>7, <1>11, <2>4 DEF AfterReply, Recovers
    <3>2. Steady /\ document.epoch = epoch => ws.root = document.root
      BY <1>4, <2>1, <2>4 DEF Knows, AgentIs, KeepsOrDraws
    <3> QED BY <1>2, <1>5, <1>6, <2>1, <3>1, <3>2
            DEF Knows, AgentIsOrStopped, AgentIs
  <2> QED BY <1>2, <2>2, <2>3, <2>4
<1>12. DocumentKept'
  <2>1. \/ agent'.gen = agent.gen /\ agent'.root = agent.root
        \/ agent'.gen = generations + 1
    BY <1>4, <1>5 DEF KeepsOrDraws
  <2> QED BY <1>2, <1>3, <2>1 DEF DocumentKept, Ordered
<1> QED BY <1>6, <1>7, <1>8, <1>9, <1>10, <1>11, <1>12 DEF RecoveryInv, Holding

LEMMA AskInVainKept ==
    ASSUME RecoveryInv, RecoveryTypeOK', NEW r \in Requests, AskInVain(r)
    PROVE  RecoveryInv'
<1>1. PICK ws \in Outcomes(r) \cup Refusals(r) : Execute(ws)
  BY DEF AskInVain
<1>2. /\ request[r].pc \in {"ask", "restore", "again"}
      /\ UNCHANGED <<epoch, epochs, document, shown>>
  BY DEF AskInVain, Asking
<1>3. /\ RecoveryTypeOK /\ Ordered /\ Exclusive /\ DocumentKept
      /\ generations \in Nat /\ agent.gen \in Nat
      /\ document.gen \in Nat /\ shown.gen \in Nat
      /\ request[r].reply.gen <= generations /\ request[r].reply.gen \in Nat
  BY TypeParts, Bounds DEF RecoveryInv, SoundWorkspace, Workspaces, Docs, Ordered, Request
<1>4. /\ ws.gen \in Nat
      /\ SameAs(ws) \/ ws.gen = generations + 1
      /\ SameAs(ws) \/ request[r].pc = "restore" \/ agent.gen = 0
  BY <1>1, <1>3, AttemptForm DEF Drawn, Formed
<1>5. /\ agent' = ws /\ generations' \in Nat /\ generations <= generations'
      /\ ws.gen <= generations'
  BY <1>1, <1>3, <1>4 DEF Execute, NewGenerations, SameAs
<1>6. /\ request' \in [Requests -> Request]
      /\ \A s \in Requests \ {r} : request'[s] = request[s]
      /\ \/ /\ request'[r].pc = "idle" /\ request'[r].epoch = 0
            /\ request'[r].reply.gen = 0 /\ lock' \in {lock, Unlocked}
         \/ /\ request'[r].pc = request[r].pc /\ request'[r].doc = request[r].doc
            /\ request'[r].epoch = request[r].epoch
            /\ request'[r].reply = request[r].reply /\ lock' = lock
  BY <1>3, RetryMoves, IdleMoves DEF AskInVain, Fail, Unlock
<1>7. /\ request[r].epoch = epoch
      /\ epoch # 0 => Holding(r) /\ lock = r /\ Knows(r)
      /\ \A s \in Requests \ {r} : ~Holding(s)
  BY <1>2, Alone
<1>8. \A s \in Requests : /\ request'[s].reply.gen <= generations'
                          /\ request'[s].pc # "idle" => request'[s].epoch = epoch'
                          /\ s # r => ~Holding(s)'
  <2>1. request'[r].reply.gen <= generations' /\ (request'[r].pc # "idle" => request'[r].epoch = epoch)
    BY <1>3, <1>5, <1>6, <1>7
  <2> QED BY <1>2, <1>3, <1>5, <1>6, <1>7, <2>1, OthersKept
<1>9. Ordered'
  BY <1>2, <1>3, <1>5, <1>8 DEF Ordered
<1>10. Exclusive'
  BY <1>2, <1>3, <1>6, <1>7, <1>8 DEF Exclusive, Holding
<1>11. ASSUME Holding(r)' PROVE Knows(r)'
  <2>1. /\ request'[r].pc = request[r].pc /\ request'[r].doc = request[r].doc
        /\ request'[r].epoch = request[r].epoch /\ request'[r].reply = request[r].reply
    BY <1>6, <1>11 DEF Holding
  <2>2. epoch # 0 /\ Knows(r)
    BY <1>7, <1>11, <2>1 DEF Holding
  <2>3. CASE request[r].pc = "ask"
    BY <1>2, <2>1, <2>2, <2>3 DEF Knows, Loads, Loaded
  <2>4. CASE request[r].pc = "restore"
    <3>1. ws.gen # 0 => ws.gen # document.gen
      BY <1>3, <1>4, <2>2, <2>4 DEF Knows, SameAs, Ordered
    <3> QED BY <1>2, <1>5, <2>1, <2>2, <2>4, <3>1 DEF Knows
  <2>5. CASE request[r].pc = "again"
    <3>1. Steady => SameAs(ws)
      BY <1>4, <2>2, <2>5 DEF Knows
    <3> QED BY <1>2, <1>5, <2>1, <2>2, <2>5, <3>1 DEF Knows, SameAs, AgentIs
  <2> QED BY <1>2, <2>3, <2>4, <2>5
<1>12. DocumentKept'
  BY <1>2, <1>3, <1>4, <1>5 DEF DocumentKept, Ordered, SameAs
<1> QED BY <1>8, <1>9, <1>10, <1>11, <1>12 DEF RecoveryInv

LEMMA CompareKept ==
    ASSUME RecoveryInv, RecoveryTypeOK', NEW r \in Requests, Compare(r)
    PROVE  RecoveryInv'
<1>0. /\ request[r].pc = "compare"
      /\ UNCHANGED <<epoch, epochs, document, agent, generations, shown>>
  BY DEF Compare
<1>1. PICK doc \in IF request[r].kind = "state" THEN Loads(request[r].epoch)
                   ELSE {request[r].doc} :
           \/ /\ Differs(doc, request[r].reply) /\ lock' = lock
              /\ request' = [request EXCEPT ![r].pc = "restore", ![r].doc = doc]
           \/ /\ request' = [request EXCEPT ![r] = Idle]
              /\ lock' \in {lock, Unlocked}
           \/ /\ ~Differs(doc, request[r].reply) /\ lock' = lock
              /\ request' = [request EXCEPT ![r].pc = "save"]
  BY DEF Compare, Fail, Unlock
<1>2. /\ RecoveryTypeOK /\ Ordered /\ Exclusive /\ DocumentKept
      /\ generations \in Nat /\ document \in Docs /\ request[r].doc \in Docs
      /\ request[r].reply.gen <= generations /\ request[r].reply.gen \in Nat
  BY TypeParts, Bounds DEF RecoveryInv, Ordered, Request, Workspaces
<1>3. /\ request[r].epoch = epoch /\ epoch # 0 /\ lock = r /\ Knows(r)
      /\ \A s \in Requests \ {r} : ~Holding(s)
  BY <1>0, <1>2, Alone DEF Exclusive
<1>4. doc \in Loads(epoch) /\ doc \in Docs
  BY <1>0, <1>2, <1>3, LoadsType DEF Knows
<1>5. /\ request' \in [Requests -> Request]
      /\ \A s \in Requests \ {r} : request'[s] = request[s]
      /\ \/ /\ Differs(doc, request[r].reply)
            /\ request'[r].pc = "restore" /\ request'[r].doc = doc
            /\ request'[r].epoch = epoch /\ request'[r].reply = request[r].reply
            /\ lock' = lock
         \/ /\ request'[r].pc = "idle" /\ request'[r].epoch = 0
            /\ request'[r].reply.gen = 0
         \/ /\ ~Differs(doc, request[r].reply)
            /\ request'[r].pc = "save"
            /\ request'[r].epoch = epoch /\ request'[r].reply = request[r].reply
            /\ lock' = lock
  <2>1. CASE /\ Differs(doc, request[r].reply) /\ lock' = lock
             /\ request' = [request EXCEPT ![r].pc = "restore", ![r].doc = doc]
    BY <1>2, <1>3, <1>4, <2>1, PcMoves
  <2>2. CASE request' = [request EXCEPT ![r] = Idle]
    BY <1>2, <2>2, IdleMoves
  <2>3. CASE /\ ~Differs(doc, request[r].reply) /\ lock' = lock
             /\ request' = [request EXCEPT ![r].pc = "save"]
    BY <1>2, <1>3, <2>3, PcMoves
  <2> QED BY <1>1, <2>1, <2>2, <2>3
<1>6. \A s \in Requests : /\ request'[s].reply.gen <= generations'
                          /\ request'[s].pc # "idle" => request'[s].epoch = epoch'
                          /\ s # r => ~Holding(s)'
  <2>1. request'[r].reply.gen <= generations /\ (request'[r].pc # "idle" => request'[r].epoch = epoch)
    BY <1>2, <1>5
  <2> QED BY <1>0, <1>2, <1>3, <1>5, <2>1, OthersKept
<1>7. Ordered'
  BY <1>0, <1>2, <1>6 DEF Ordered
<1>8. Exclusive'
  BY <1>0, <1>1, <1>2, <1>3, <1>5, <1>6 DEF Exclusive, Holding
<1>9. ASSUME Holding(r)' PROVE Knows(r)'
  <2>1. CASE Differs(doc, request[r].reply) /\ request'[r].pc = "restore" /\ request'[r].doc = doc
    <3>1. doc = document /\ document.epoch = epoch
      BY <1>4, <2>1 DEF Differs, Loads, Loaded
    <3>2. agent.gen # 0 => agent.gen # document.gen
      BY <1>0, <1>3, <2>1, <3>1 DEF Knows, AgentIsOrStopped, AgentIs, Differs
    <3> QED BY <1>0, <2>1, <3>1, <3>2 DEF Knows
  <2>2. CASE ~Differs(doc, request[r].reply) /\ request'[r].pc = "save"
             /\ request'[r].reply = request[r].reply
    <3>1. ASSUME Steady, document.epoch = epoch PROVE document.root = request[r].reply.root
      <4>1. doc = document /\ doc # NoDocument
        BY <1>3, <1>4, <3>1 DEF Loads, Loaded, NoDocument, Steady
      <4> QED BY <1>0, <1>3, <2>2, <4>1 DEF Differs, Knows
    <3> QED BY <1>0, <1>3, <2>2, <3>1 DEF Knows, AgentIsOrStopped, AgentIs
  <2> QED BY <1>5, <1>9, <2>1, <2>2 DEF Holding
<1>10. DocumentKept'
  BY <1>0, <1>2 DEF DocumentKept
<1> QED BY <1>6, <1>7, <1>8, <1>9, <1>10 DEF RecoveryInv

LEMMA SaveKept ==
    ASSUME RecoveryInv, RecoveryTypeOK', Orderly, NEW r \in Requests, Save(r)
    PROVE  RecoveryInv'
<1>1. /\ request[r].pc = "save"
      /\ document' = DocumentOf(request[r].epoch, request[r].reply)
      /\ request' = [request EXCEPT ![r].pc = "answer"]
      /\ UNCHANGED <<epoch, epochs, agent, generations, lock, shown>>
  BY DEF Save, Orderly
<1>2. /\ RecoveryTypeOK /\ Ordered /\ Exclusive /\ DocumentKept
      /\ generations \in Nat /\ request[r].doc \in Docs /\ agent.gen \in Nat
      /\ request[r].reply.gen <= generations /\ request[r].reply.gen \in Nat
      /\ epoch \in Nat /\ epochs \in Nat
  BY TypeParts, Bounds DEF RecoveryInv, Ordered, Request, Workspaces, SoundWorkspace
<1>3. /\ request[r].epoch = epoch /\ epoch # 0 /\ lock = r /\ Knows(r)
      /\ \A s \in Requests \ {r} : ~Holding(s)
  BY <1>1, <1>2, Alone DEF Exclusive
<1>4. /\ request' \in [Requests -> Request]
      /\ \A s \in Requests \ {r} : request'[s] = request[s]
      /\ request'[r].pc = "answer" /\ request'[r].epoch = epoch
      /\ request'[r].reply = request[r].reply
  BY <1>1, <1>2, <1>3, PcMoves
<1>5. /\ document'.epoch = epoch /\ document'.gen = request[r].reply.gen
      /\ document'.root = request[r].reply.root
  BY <1>1, <1>3 DEF DocumentOf
<1>6. \A s \in Requests : /\ request'[s].reply.gen <= generations'
                          /\ request'[s].pc # "idle" => request'[s].epoch = epoch'
                          /\ s # r => ~Holding(s)'
  <2>1. request'[r].reply.gen <= generations /\ (request'[r].pc # "idle" => request'[r].epoch = epoch)
    BY <1>2, <1>4
  <2> QED BY <1>1, <1>2, <1>3, <1>4, <2>1, OthersKept
<1>7. Ordered'
  BY <1>1, <1>2, <1>5, <1>6 DEF Ordered
<1>8. Exclusive'
  BY <1>1, <1>2, <1>3, <1>4, <1>6 DEF Exclusive, Holding
<1>9. Knows(r)'
  BY <1>1, <1>3, <1>4, <1>5 DEF Knows, DocumentIs, AgentIsOrStopped, AgentIs
<1>10. DocumentKept'
  BY <1>1, <1>2, <1>3, <1>5 DEF DocumentKept, Knows, AgentIsOrStopped, AgentIs
<1> QED BY <1>6, <1>7, <1>8, <1>9, <1>10 DEF RecoveryInv

\* A request that ends disturbs no other one.
LEMMA EndKept ==
    ASSUME RecoveryInv, RecoveryTypeOK', NEW r \in Requests,
           request[r].pc \notin {"idle", "lock"},
           request' = [request EXCEPT ![r] = Idle], Unlock(r),
           UNCHANGED <<epoch, epochs, agent, generations>>
    PROVE  /\ \A s \in Requests : ~Holding(s)'
           /\ Exclusive'
           /\ \A s \in Requests : /\ request'[s].reply.gen <= generations'
                                  /\ request'[s].pc # "idle" => request'[s].epoch = epoch'
<1>1. RecoveryTypeOK /\ Exclusive /\ generations \in Nat
  BY TypeParts DEF RecoveryInv
<1>2. /\ request' \in [Requests -> Request]
      /\ \A s \in Requests \ {r} : request'[s] = request[s]
      /\ request'[r].pc = "idle" /\ request'[r].epoch = 0
      /\ request'[r].reply.gen = 0
  BY <1>1, IdleMoves
<1>3. \A s \in Requests \ {r} : ~Holding(s)
  BY Alone
<1>4. \A s \in Requests : /\ request'[s].reply.gen <= generations'
                          /\ request'[s].pc # "idle" => request'[s].epoch = epoch'
                          /\ s # r => ~Holding(s)'
  BY <1>1, <1>2, <1>3, OthersKept
<1>5. ~Holding(r)'
  BY <1>2 DEF Holding
<1>6. Exclusive'
  BY <1>1, <1>2, <1>4, <1>5 DEF Exclusive
<1> QED BY <1>4, <1>5, <1>6

LEMMA AnswerKept ==
    ASSUME RecoveryInv, RecoveryTypeOK', NEW r \in Requests, Answer(r)
    PROVE  RecoveryInv'
<1>1. /\ request[r].pc = "answer" /\ request' = [request EXCEPT ![r] = Idle] /\ Unlock(r)
      /\ UNCHANGED <<epoch, epochs, document, agent, generations>>
      /\ \/ shown' = shown
         \/ /\ shown'.epoch = request[r].epoch /\ shown'.gen = request[r].reply.gen
            /\ shown'.root = request[r].reply.root
  BY DEF Answer
<1>2. /\ RecoveryTypeOK /\ Ordered /\ DocumentKept
      /\ generations \in Nat /\ epoch \in Nat /\ epochs \in Nat
      /\ request[r].reply.gen <= generations
  BY TypeParts DEF RecoveryInv, Ordered
<1>3. /\ request[r].epoch = epoch /\ (epoch # 0 => Knows(r))
  BY <1>1, Alone
<1>4. /\ \A s \in Requests : ~Holding(s)'
      /\ Exclusive'
      /\ \A s \in Requests : /\ request'[s].reply.gen <= generations'
                             /\ request'[s].pc # "idle" => request'[s].epoch = epoch'
  BY <1>1, EndKept
<1>5. Ordered'
  BY <1>1, <1>2, <1>3, <1>4 DEF Ordered
<1>6. DocumentKept'
  BY <1>1, <1>2, <1>3 DEF DocumentKept, Knows, DocumentIs, AgentIsOrStopped, AgentIs
<1> QED BY <1>4, <1>5, <1>6 DEF RecoveryInv

LEMMA MergeKept ==
    ASSUME RecoveryInv, RecoveryTypeOK', NEW r \in Requests, Merge(r)
    PROVE  RecoveryInv'
<1>1. /\ request[r].pc = "merge" /\ request' = [request EXCEPT ![r] = Idle] /\ Unlock(r)
      /\ UNCHANGED <<epoch, epochs, agent, generations, shown>>
      /\ document' = Merged(request[r].epoch, request[r].reply) \/ document' = document
  BY DEF Merge
<1>2. RecoveryTypeOK /\ Ordered /\ DocumentKept
  BY DEF RecoveryInv
<1>3. document'.epoch = document.epoch /\ document'.gen = document.gen
      /\ document'.root = document.root
  <2>1. document \in Docs /\ request[r].reply \in Workspaces
    BY <1>2, TypeParts DEF Request
  <2> QED BY <1>1, <2>1, MergedType
<1>4. /\ \A s \in Requests : ~Holding(s)'
      /\ Exclusive'
      /\ \A s \in Requests : /\ request'[s].reply.gen <= generations'
                             /\ request'[s].pc # "idle" => request'[s].epoch = epoch'
  BY <1>1, EndKept
<1>5. Ordered'
  BY <1>1, <1>2, <1>3, <1>4 DEF Ordered
<1>6. DocumentKept'
  BY <1>1, <1>2, <1>3 DEF DocumentKept
<1> QED BY <1>4, <1>5, <1>6 DEF RecoveryInv

\* Steps of the user, of the agent and of the Provider as a whole.
LEMMA ChangeDirectoryKept ==
    ASSUME RecoveryInv, RecoveryTypeOK', NEW id \in Ids, NEW cwd \in Cwds,
           ChangeDirectory(id, cwd)
    PROVE  RecoveryInv'
<1>1. /\ agent'.gen = agent.gen /\ agent'.root = agent.root
      /\ UNCHANGED <<epoch, epochs, document, generations, lock, request, shown>>
  BY TypeParts DEF RecoveryInv, ChangeDirectory, SoundWorkspace, Workspaces
<1>2. Ordered' /\ Exclusive' /\ DocumentKept'
  BY <1>1 DEF RecoveryInv, Ordered, Exclusive, Holding, DocumentKept
<1>3. \A r \in Requests : Holding(r)' => Knows(r)'
  BY <1>1 DEF RecoveryInv, Knows, Holding, AgentIs, AgentIsOrStopped, DocumentIs, Loads, Loaded
<1> QED BY <1>2, <1>3 DEF RecoveryInv

LEMMA AgentStopsKept ==
    ASSUME RecoveryInv, RecoveryTypeOK', AgentStops
    PROVE  RecoveryInv'
<1>1. /\ agent'.gen = 0 /\ (Steady => \A r \in Requests : request[r].pc # "again")
      /\ UNCHANGED <<epoch, epochs, document, generations, lock, request, shown>>
  BY DEF AgentStops, Steady, NoWorkspace
<1>2. generations \in Nat
  BY TypeParts DEF RecoveryInv
<1>3. Ordered' /\ Exclusive' /\ DocumentKept'
  BY <1>1, <1>2 DEF RecoveryInv, Ordered, Exclusive, Holding, DocumentKept
<1>4. \A r \in Requests : Holding(r)' => Knows(r)'
  BY <1>1 DEF RecoveryInv, Knows, Holding, AgentIs, AgentIsOrStopped, DocumentIs, Loads, Loaded
<1> QED BY <1>3, <1>4 DEF RecoveryInv

LEMMA ProviderStopsKept ==
    ASSUME RecoveryInv, RecoveryTypeOK', ProviderStops
    PROVE  RecoveryInv'
<1>1. UNCHANGED <<epoch, epochs, document, agent, generations, shown>>
  BY DEF ProviderStops
<1>2. \A r \in Requests : /\ request'[r].pc = "idle" /\ request'[r].epoch = 0
                          /\ request'[r].reply.gen = 0
  BY DEF ProviderStops, Idle, NoWorkspace
<1>3. generations \in Nat
  BY TypeParts DEF RecoveryInv
<1>4. Ordered' /\ Exclusive' /\ DocumentKept' /\ \A r \in Requests : ~Holding(r)'
  BY <1>1, <1>2, <1>3 DEF RecoveryInv, Ordered, Exclusive, Holding, DocumentKept
<1> QED BY <1>4 DEF RecoveryInv

LEMMA SetRestoreKept ==
    ASSUME RecoveryInv, RecoveryTypeOK', Orderly, SetRestore
    PROVE  RecoveryInv'
<1>1. /\ \A r \in Requests : request[r].pc = "idle"
      /\ UNCHANGED <<document, agent, generations, lock, request, shown>>
      /\ \/ epoch' = 0 /\ epochs' = epochs
         \/ epoch' = epochs + 1 /\ epochs' = epochs + 1
  BY DEF SetRestore, Orderly
<1>2. /\ generations \in Nat /\ epoch \in Nat /\ epochs \in Nat
      /\ document.epoch \in Nat /\ shown.epoch \in Nat
  BY TypeParts, Bounds DEF RecoveryInv, Docs
<1>3. Ordered' /\ Exclusive' /\ \A r \in Requests : ~Holding(r)'
  BY <1>1, <1>2 DEF RecoveryInv, Ordered, Exclusive, Holding
<1>4. DocumentKept'
  BY <1>1, <1>2 DEF RecoveryInv, Ordered, DocumentKept
<1> QED BY <1>3, <1>4 DEF RecoveryInv

LEMMA InvKept == Orderly /\ RecoveryInv /\ [RecoveryNext]_recoveryVars => RecoveryInv'
<1> SUFFICES ASSUME Orderly, RecoveryInv, [RecoveryNext]_recoveryVars PROVE RecoveryInv'
  OBVIOUS
<1>1. RecoveryTypeOK'
  BY TypeKept DEF RecoveryInv
<1>2. CASE UNCHANGED recoveryVars
  <2>1. Ordered' /\ Exclusive' /\ DocumentKept'
    BY <1>2 DEF RecoveryInv, recoveryVars, Ordered, Exclusive, Holding, DocumentKept
  <2>2. \A r \in Requests : Holding(r)' => Knows(r)'
    BY <1>2 DEF RecoveryInv, recoveryVars, Knows, Holding, AgentIs, AgentIsOrStopped,
                DocumentIs, Loads, Loaded
  <2> QED BY <1>1, <2>1, <2>2 DEF RecoveryInv
<1> QED
  BY <1>1, <1>2, ReceiveKept, LockKept, AskKept, AskInVainKept, CompareKept, SaveKept,
     AnswerKept, MergeKept, ChangeDirectoryKept, AgentStopsKept, ProviderStopsKept,
     SetRestoreKept
     DEF RecoveryNext

-----------------------------------------------------------------------------
(* What users rely on.                                                     *)

\* LastShownRecoverable: as long as the document can be read and saved, nobody turns
\* the setting while requests are under way and no agent stops between being restored and the action
\* it was restored for, the workspace the user was shown last can be had again,
\* however requests interleave and whatever else stops, when and how often.
THEOREM ShownRecoverable == Orderly /\ Steady => (RecoverySpec => []LastShownRecoverable)
<1> SUFFICES ASSUME Orderly, Steady PROVE RecoverySpec => []LastShownRecoverable
  OBVIOUS
<1>1. RecoveryInv /\ [RecoveryNext]_recoveryVars => RecoveryInv'
  BY InvKept
<1>2. RecoveryInv => LastShownRecoverable
  BY DEF RecoveryInv, DocumentKept, LastShownRecoverable
<1> QED BY InvInit, <1>1, <1>2, PTL DEF RecoverySpec

\* LiveNotReplaced: as long as saves succeed and nobody turns the setting while
\* requests are under way, and also when loads fail, no step replaces the workspace that was answered to the
\* user while the agent that has it still runs.
LEMMA LiveKept ==
    ASSUME Orderly, RecoveryInv, RecoveryNext, agent.gen # 0, agent.gen = shown.gen
    PROVE  agent'.gen \in {0, agent.gen}
<1>1. RecoveryTypeOK /\ SoundWorkspace(agent)
  BY TypeParts DEF RecoveryInv
<1>2. ASSUME NEW r \in Requests, request[r].pc = "restore" PROVE FALSE
  <2>1. epoch # 0 /\ Knows(r)
    BY <1>2, Alone DEF RecoveryInv, Exclusive
  <2> QED BY <1>2, <2>1 DEF Knows, RecoveryInv, DocumentKept
<1>3. ASSUME NEW r \in Requests, Ask(r) PROVE agent'.gen = agent.gen
  BY <1>1, <1>2, <1>3, OutcomeForm DEF Ask, Execute, KeepsOrDraws
<1>4. ASSUME NEW r \in Requests, AskInVain(r) PROVE agent'.gen = agent.gen
  BY <1>1, <1>2, <1>4, AttemptForm DEF AskInVain, Execute, SameAs
<1>5. ASSUME NEW id \in Ids, NEW cwd \in Cwds, ChangeDirectory(id, cwd)
      PROVE  agent'.gen = agent.gen
  BY <1>1, <1>5 DEF ChangeDirectory, SoundWorkspace, Workspaces
<1>6. CASE AgentStops
  BY <1>6 DEF AgentStops, NoWorkspace
<1> QED
  BY <1>3, <1>4, <1>5, <1>6
     DEF RecoveryNext, Receive, Lock, Compare, Save, Answer, Merge, ProviderStops, SetRestore

THEOREM LiveWorkspaceKept == Orderly => (RecoverySpec => LiveNotReplaced)
<1> SUFFICES ASSUME Orderly PROVE RecoverySpec => LiveNotReplaced
  OBVIOUS
<1>1. RecoveryInv /\ [RecoveryNext]_recoveryVars => RecoveryInv'
  BY InvKept
<1>2. RecoveryInv /\ [RecoveryNext]_recoveryVars
      => [agent.gen # 0 /\ agent.gen = shown.gen => agent'.gen \in {0, agent.gen}]_recoveryVars
  BY LiveKept
<1> QED BY InvInit, <1>1, <1>2, PTL DEF RecoverySpec, LiveNotReplaced
=============================================================================
