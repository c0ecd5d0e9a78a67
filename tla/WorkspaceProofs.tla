-------------------------- MODULE WorkspaceProofs --------------------------
(***************************************************************************)
(* Proofs of the safety properties of Workspace, for every value of its    *)
(* constants: the tabs of a workspace partition its panes, what is active  *)
(* exists, no identity is given twice, no shell runs without an owner or   *)
(* survives the closing of Local, and a handled exit leaves no pane behind.*)
(***************************************************************************)
EXTENDS Workspace, NatInduction, FiniteSetTheorems, SequenceTheorems

-----------------------------------------------------------------------------
(* The assumption and the inductive invariant.                             *)

Starting == {"create_tab", "split_pane", "restart_pane"}

\* There is one connection, or none asks for an action that starts a pane.
\* With a second one, ensureWorkspaceLocked and such an action may read the same
\* counter (agent_workspace.go:60), and the action may meet a workspace that a
\* restoration has replaced.
Serial ==
    \/ \A r, s \in Requests : r = s
    \/ \A mix \in Mixes : mix \cap Starting = {}

\* No element stands twice.
Once(s) == \A i, j \in 1..Len(s) : s[i] = s[j] => i = j

\* The layout of a tab shows each of its panes once; one of them is active.
GoodTab ==
    {tab \in Tab : /\ tab.panes # {}
                   /\ Elements(tab.layout) = tab.panes
                   /\ Once(tab.layout)
                   /\ tab.active \in tab.panes}

PanesOf(tabs) == UNION {tabs[i].panes : i \in 1..Len(tabs)}

Apart(tabs) ==
    \A i, j \in 1..Len(tabs) :
        i # j => tabs[i].id # tabs[j].id /\ tabs[i].panes \cap tabs[j].panes = {}

WorkspaceRecord ==
    [members : SUBSET Panes, tabs : Seq(GoodTab), active : Nat, recent : Seq(Nat),
     nextTab : Nat \ {0}, nextPane : Nat \ {0}]

WellFormed(w) ==
    /\ w \in WorkspaceRecord
    /\ Apart(w.tabs)
    /\ \A i \in 1..Len(w.tabs) : 0 < w.tabs[i].id /\ w.tabs[i].id < w.nextTab
    /\ Len(w.recent) <= 2

Focused(w) ==
    /\ IF w.tabs = <<>> THEN w.active = None /\ w.recent = <<>>
       ELSE w.active \in TabIds(w) /\ w.recent # <<>> /\ w.recent[1] = w.active
    /\ Elements(w.recent) \subseteq TabIds(w)

PaneRecord ==
    [phase : {"unborn", "running", "exited", "remove", "done"},
     workspace : Workspaces \cup {None}, id : Nat, failed : BOOLEAN,
     retained : BOOLEAN, closing : BOOLEAN]

RequestRecord ==
    [pc : {"idle", "ensure", "check", "create", "start", "publish", "apply",
           "restore", "pane", "loaded", "swap"},
     kind : AllKinds, workspace : Workspaces \cup {None},
     pane : Panes \cup {None}, id : Nat, document : Seq(Seq(Nat)), mix : Mixes]

Typed ==
    /\ daemonMu \in Requests \cup {Free}
    /\ current \in Workspaces \cup {None} /\ closed \in BOOLEAN
    /\ workspace \in [Workspaces -> WorkspaceRecord]
    /\ \A g \in Workspaces : WellFormed(workspace[g])
    /\ pane \in [Panes -> PaneRecord]
    /\ request \in [Requests -> RequestRecord]

-----------------------------------------------------------------------------
(* Who holds the daemon mutex, and for which workspace.                    *)

Making    == {"create", "start", "publish"}
Loading   == {"pane", "loaded"}
Restoring == Loading \cup {"swap"}
Holding   == {"check"} \cup Making \cup Restoring

Mutex == \A r \in Requests : daemonMu = r <=> request[r].pc \in Holding

\* A workspace that was never used, and one that is closed for good.
Blank(g) == workspace[g] = EmptyWorkspace
Used == {g \in Workspaces : ~Blank(g)}

Counting ==
    /\ \E n \in 0..MaxPanes : Started = 1..n
    /\ \E m \in 0..MaxWorkspaces : Used = 1..m
    /\ \A g \in Workspaces : workspace[g].nextPane = 1 => Blank(g)
    /\ current # None => ~Blank(current)

\* What a request that has got so far may ask.
Asks(q) ==
    /\ q.pc # "idle" => q.kind \in q.mix
    /\ q.pc = "apply" => q.kind \in ActionKinds
    /\ q.pc = "restore" => q.kind = "restore" /\ q.id = None
    /\ closed => q.pc \in {"idle", "ensure", "restore"}

\* The workspace it is for: the one in use, or one that nobody knows yet.
Aims(q) ==
    /\ q.pc \in Holding \cup {"apply"} => q.workspace \in Workspaces
    /\ q.pc \in Making \cup Restoring => \A h \in 1..(q.workspace - 1) : ~Blank(h)
    /\ q.pc = "check" => q.workspace = current
    /\ q.pc \in Making /\ current # None => q.workspace = current
    /\ q.pc \in {"create", "start"} /\ current = None => Blank(q.workspace)
    /\ q.pc \in Restoring => q.workspace # current
    /\ q.pc = "swap" => ~Blank(q.workspace)
    /\ q.pc = "apply" =>
          /\ current # None /\ ~Blank(q.workspace)
          /\ q.kind \in Starting => q.workspace = current

\* The identity it has read, and the pane it has started.
Starts(q) ==
    /\ q.pc = "start" => q.id = workspace[q.workspace].nextPane
    /\ q.pc = "publish" =>
          /\ q.pane \in Started \ workspace[q.workspace].members
          /\ pane[q.pane].workspace = q.workspace
          /\ pane[q.pane].id = q.id
          /\ ~pane[q.pane].closing
          /\ EarlyExit \/ pane[q.pane].phase = "running"

\* No action is applied to a workspace that is being restored.
Parted ==
    \A r, s \in Requests :
        request[r].pc = "apply" /\ request[s].pc \in Restoring =>
            request[r].workspace # request[s].workspace

-----------------------------------------------------------------------------
(* Panes and their workspaces.                                             *)

\* The names (pane-N) of panes
Names(S) == {pane[p].id : p \in S}
UniqueNames(S) == \A p, q \in S : pane[p].id = pane[q].id => p = q

Identified ==
    /\ \A p \in Started : /\ pane[p].workspace \in Workspaces
                          /\ 0 < pane[p].id
                          /\ pane[p].id < workspace[pane[p].workspace].nextPane
    /\ FreshIdentities

Gathered ==
    \A g \in Workspaces : \A p \in workspace[g].members :
        p \in Started /\ pane[p].workspace = g /\ ~pane[p].closing

BeingLoaded(g) == \E r \in Requests : request[r].pc \in Loading /\ request[r].workspace = g

Kept ==
    \A g \in Workspaces :
        /\ PanesOf(workspace[g].tabs) \subseteq Names(workspace[g].members)
        /\ ~BeingLoaded(g) => /\ Names(workspace[g].members) \subseteq PanesOf(workspace[g].tabs)
                              /\ Focused(workspace[g]) \/ EarlyExit

\* A document's panes, in one tab or in a tab each.
Together(n) == <<[i \in 1..n |-> i]>>
Separate(n) == [i \in 1..n |-> <<i>>]

\* How far the document n panes long has been followed: to the pane named id.
Followed(w, document, id) ==
    \E n \in 1..MaxRestored :
        /\ id < n
        /\ \/ /\ document = Together(n)
              /\ w.tabs = <<>>
              /\ Names(w.members) = 1..id
           \/ /\ document = Separate(n)
              /\ Names(w.members) \subseteq PanesOf(w.tabs)
              /\ TabIds(w) \subseteq 1..id
              /\ 1..id \subseteq TabIds(w) \/ EarlyExit

Recovers(q) ==
    LET w == workspace[q.workspace]
    IN  /\ q.pc \in Loading => /\ w.nextPane = q.id + 1
                               /\ w.active = None /\ w.recent = <<>>
        /\ q.pc = "pane" => Followed(w, q.document, q.id)
        /\ q.pc = "loaded" =>
              /\ Names(w.members) \subseteq PanesOf(w.tabs)
              /\ 1..Len(q.document) \subseteq TabIds(w) \/ EarlyExit

\* A request is about to enter the pane p; one has the workspace g to itself.
Entering(p) == \E r \in Requests : request[r].pc = "publish" /\ request[r].pane = p
Private(g) == \E r \in Requests : request[r].pc \in Making \cup Restoring
                                  /\ request[r].workspace = g

Owned ==
    \A p \in Panes : pane[p].phase = "running" /\ ~pane[p].closing =>
        /\ p \in workspace[pane[p].workspace].members \/ Entering(p)
        /\ pane[p].workspace = current \/ Private(pane[p].workspace)

Settling ==
    EarlyExit \/
        \A g \in Workspaces : \A p \in workspace[g].members :
            pane[p].phase # "running" =>
                /\ g = current
                /\ pane[p].phase = "done" => pane[p].retained

InStep(q) == Asks(q) /\ Aims(q) /\ Starts(q) /\ Recovers(q)

WorkspaceInv ==
    /\ Typed /\ Mutex /\ Counting /\ Identified /\ Gathered /\ Kept
    /\ \A r \in Requests : InStep(request[r])
    /\ Parted /\ Owned /\ ClosedStaysEmpty /\ Settling

-----------------------------------------------------------------------------
(* Sequences with an element more or less.                                 *)

\* InsertAt makes the sequence one longer and moves what was behind.
LEMMA InsertAtFacts ==
  ASSUME NEW S, NEW s \in Seq(S), NEW i \in 1..(Len(s) + 1), NEW x \in S
  PROVE  /\ InsertAt(s, i, x) \in Seq(S)
         /\ Len(InsertAt(s, i, x)) = Len(s) + 1
         /\ \A k \in 1..(Len(s) + 1) :
               InsertAt(s, i, x)[k] = IF k < i THEN s[k] ELSE IF k = i THEN x ELSE s[k - 1]
<1> DEFINE a == SubSeq(s, 1, i - 1)
           b == SubSeq(s, i, Len(s))
<1>1. Len(s) \in Nat /\ \A k \in 1..Len(s) : s[k] \in S
  OBVIOUS
<1>2. /\ a \in Seq(S) /\ Len(a) = i - 1
      /\ \A k \in 1..(i - 1) : a[k] = s[k]
  BY <1>1
<1>3. /\ b \in Seq(S) /\ Len(b) = Len(s) - i + 1
      /\ \A k \in 1..(Len(s) - i + 1) : b[k] = s[i + k - 1]
  BY <1>1
<1>4. <<x>> \in Seq(S) /\ Len(<<x>>) = 1 /\ <<x>>[1] = x
  OBVIOUS
<1> HIDE DEF a, b
<1>5. /\ a \o <<x>> \in Seq(S) /\ Len(a \o <<x>>) = i
      /\ \A k \in 1..i : (a \o <<x>>)[k] = IF k < i THEN s[k] ELSE x
  BY <1>1, <1>2, <1>4
<1>6. /\ (a \o <<x>>) \o b \in Seq(S) /\ Len((a \o <<x>>) \o b) = Len(s) + 1
      /\ \A k \in 1..(Len(s) + 1) :
            ((a \o <<x>>) \o b)[k] = IF k <= i THEN (a \o <<x>>)[k] ELSE b[k - i]
  BY <1>1, <1>3, <1>5
<1>7. ASSUME NEW k \in 1..(Len(s) + 1)
      PROVE  ((a \o <<x>>) \o b)[k] = IF k < i THEN s[k] ELSE IF k = i THEN x ELSE s[k - 1]
  <2>1. CASE k <= i
    BY <1>5, <1>6, <2>1
  <2>2. CASE k > i
    <3>1. k - i \in 1..(Len(s) - i + 1) /\ i + (k - i) - 1 = k - 1
      BY <1>1, <2>2
    <3>2. b[k - i] = s[k - 1]
      BY <1>3, <3>1
    <3> QED BY <1>1, <1>6, <2>2, <3>2
  <2>3. k <= i \/ k > i
    BY <1>1
  <2> QED BY <2>1, <2>2, <2>3
<1>8. InsertAt(s, i, x) = (a \o <<x>>) \o b
  BY DEF InsertAt, a, b
<1> QED BY <1>6, <1>7, <1>8

\* DropAt makes it one shorter and moves what was behind forward.
LEMMA DropAtFacts ==
  ASSUME NEW S, NEW s \in Seq(S), NEW i \in 1..Len(s)
  PROVE  /\ DropAt(s, i) \in Seq(S)
         /\ Len(DropAt(s, i)) = Len(s) - 1
         /\ \A k \in 1..(Len(s) - 1) :
               DropAt(s, i)[k] = IF k < i THEN s[k] ELSE s[k + 1]
<1> DEFINE a == SubSeq(s, 1, i - 1)
           b == SubSeq(s, i + 1, Len(s))
<1>1. Len(s) \in Nat /\ \A k \in 1..Len(s) : s[k] \in S
  OBVIOUS
<1>2. /\ a \in Seq(S) /\ Len(a) = i - 1
      /\ \A k \in 1..(i - 1) : a[k] = s[k]
  BY <1>1
<1>3. /\ b \in Seq(S) /\ Len(b) = Len(s) - i
      /\ \A k \in 1..(Len(s) - i) : b[k] = s[i + k]
  <2>1. \A k \in (i + 1)..Len(s) : s[k] \in S
    BY <1>1
  <2>2. /\ b \in Seq(S)
        /\ Len(b) = IF i + 1 <= Len(s) THEN Len(s) - (i + 1) + 1 ELSE 0
        /\ \A k \in 1..(Len(s) - (i + 1) + 1) : b[k] = s[(i + 1) + k - 1]
    BY <1>1, <2>1, SubSeqProperties
  <2> HIDE DEF b
  <2> QED BY <1>1, <2>2
<1> HIDE DEF a, b
<1>4. /\ a \o b \in Seq(S) /\ Len(a \o b) = Len(s) - 1
      /\ \A k \in 1..(Len(s) - 1) : (a \o b)[k] = IF k <= i - 1 THEN a[k] ELSE b[k - (i - 1)]
  <2>1. Len(a) + Len(b) = Len(s) - 1
    BY <1>1, <1>2, <1>3
  <2>2. a \in Seq(S) /\ b \in Seq(S) /\ Len(a) = i - 1
    BY <1>2, <1>3
  <2>3. /\ a \o b \in Seq(S) /\ Len(a \o b) = Len(a) + Len(b)
        /\ \A k \in 1..(Len(a) + Len(b)) :
              (a \o b)[k] = IF k <= Len(a) THEN a[k] ELSE b[k - Len(a)]
    BY <2>2, ConcatProperties
  <2> QED BY <2>1, <2>2, <2>3
<1>5. ASSUME NEW k \in 1..(Len(s) - 1)
      PROVE  (a \o b)[k] = IF k < i THEN s[k] ELSE s[k + 1]
  <2>1. CASE k < i
    BY <1>1, <1>2, <1>4, <2>1
  <2>2. CASE k >= i
    <3>1. k - (i - 1) \in 1..(Len(s) - i) /\ i + (k - (i - 1)) = k + 1
      BY <1>1, <2>2
    <3>2. b[k - (i - 1)] = s[k + 1]
      BY <1>3, <3>1
    <3> QED BY <1>1, <1>4, <2>2, <3>2
  <2>3. k < i \/ k >= i
    BY <1>1
  <2> QED BY <2>1, <2>2, <2>3
<1>6. DropAt(s, i) = a \o b
  BY DEF DropAt, a, b
<1> QED BY <1>4, <1>5, <1>6

\* IndexIn finds an element that stands somewhere.
LEMMA IndexInFacts ==
  ASSUME NEW s, NEW x \in Elements(s)
  PROVE  IndexIn(s, x) \in 1..Len(s) /\ s[IndexIn(s, x)] = x
<1>1. \E i \in 1..Len(s) : s[i] = x
  BY DEF Elements
<1> QED BY <1>1 DEF IndexIn

\* Inserted, an element is one more; dropped, it is gone if it stood there once.
LEMMA InsertElements ==
  ASSUME NEW S, NEW s \in Seq(S), NEW i \in 1..(Len(s) + 1), NEW x \in S
  PROVE  Elements(InsertAt(s, i, x)) = Elements(s) \cup {x}
<1> DEFINE v == InsertAt(s, i, x)
<1>1. /\ v \in Seq(S) /\ Len(v) = Len(s) + 1
      /\ \A k \in 1..(Len(s) + 1) :
            v[k] = IF k < i THEN s[k] ELSE IF k = i THEN x ELSE s[k - 1]
  BY InsertAtFacts
<1>2. Len(s) \in Nat
  OBVIOUS
<1> HIDE DEF v
<1>3. ASSUME NEW k \in 1..Len(v) PROVE v[k] \in Elements(s) \cup {x}
  <2>1. CASE k < i
    BY <1>1, <1>2, <2>1 DEF Elements
  <2>2. CASE k = i
    BY <1>1, <1>2, <2>2
  <2>3. CASE k > i
    <3>1. k - 1 \in 1..Len(s) /\ v[k] = s[k - 1]
      BY <1>1, <1>2, <2>3
    <3> QED BY <3>1 DEF Elements
  <2> QED BY <1>1, <1>2, <2>1, <2>2, <2>3
<1>4. ASSUME NEW k \in 1..Len(s) PROVE s[k] \in Elements(v)
  <2>1. CASE k < i
    <3>1. k \in 1..Len(v) /\ v[k] = s[k]
      BY <1>1, <1>2, <2>1
    <3> QED BY <3>1 DEF Elements
  <2>2. CASE k >= i
    <3>1. k + 1 \in 1..Len(v) /\ v[k + 1] = s[k]
      BY <1>1, <1>2, <2>2
    <3> QED BY <3>1 DEF Elements
  <2> QED BY <1>2, <2>1, <2>2
<1>5. x \in Elements(v)
  <2>1. i \in 1..Len(v) /\ v[i] = x
    BY <1>1, <1>2
  <2> QED BY <2>1 DEF Elements
<1>6. Elements(v) = Elements(s) \cup {x}
  <2>1. Elements(v) \subseteq Elements(s) \cup {x}
    BY <1>3 DEF Elements
  <2>2. Elements(s) \subseteq Elements(v)
    <3>1. ASSUME NEW y \in Elements(s) PROVE y \in Elements(v)
      <4>1. PICK k \in 1..Len(s) : y = s[k]
        BY DEF Elements
      <4> QED BY <1>4, <4>1
    <3> QED BY <3>1
  <2> QED BY <1>5, <2>1, <2>2
<1> QED BY <1>6 DEF v

\* What stood there once is gone, and nothing else.
LEMMA DropElements ==
  ASSUME NEW S, NEW s \in Seq(S), Once(s), NEW i \in 1..Len(s)
  PROVE  Elements(DropAt(s, i)) = Elements(s) \ {s[i]}
<1> DEFINE v == DropAt(s, i)
<1>1. /\ v \in Seq(S) /\ Len(v) = Len(s) - 1
      /\ \A k \in 1..(Len(s) - 1) : v[k] = IF k < i THEN s[k] ELSE s[k + 1]
  BY DropAtFacts
<1>2. Len(s) \in Nat
  OBVIOUS
<1> HIDE DEF v
<1>3. ASSUME NEW k \in 1..Len(v) PROVE v[k] \in Elements(s) /\ v[k] # s[i]
  <2>1. CASE k < i
    <3>1. k \in 1..Len(s) /\ k # i /\ v[k] = s[k]
      BY <1>1, <1>2, <2>1
    <3> QED BY <3>1 DEF Elements, Once
  <2>2. CASE k >= i
    <3>1. k + 1 \in 1..Len(s) /\ k + 1 # i /\ v[k] = s[k + 1]
      BY <1>1, <1>2, <2>2
    <3> QED BY <3>1 DEF Elements, Once
  <2> QED BY <1>1, <1>2, <2>1, <2>2
<1>4. ASSUME NEW k \in 1..Len(s), k # i PROVE s[k] \in Elements(v)
  <2>1. CASE k < i
    <3>1. k \in 1..Len(v) /\ v[k] = s[k]
      BY <1>1, <1>2, <2>1
    <3> QED BY <3>1 DEF Elements
  <2>2. CASE k > i
    <3>1. k - 1 \in 1..Len(v) /\ v[k - 1] = s[k]
      BY <1>1, <1>2, <2>2
    <3> QED BY <3>1 DEF Elements
  <2> QED BY <1>2, <1>4, <2>1, <2>2
<1>5. Elements(v) \subseteq Elements(s) \ {s[i]}
  BY <1>3 DEF Elements
<1>6. ASSUME NEW y \in Elements(s), y # s[i] PROVE y \in Elements(v)
  <2>1. PICK k \in 1..Len(s) : y = s[k]
    BY DEF Elements
  <2> QED BY <1>4, <1>6, <2>1
<1>7. Elements(v) = Elements(s) \ {s[i]}
  BY <1>5, <1>6
<1> QED BY <1>7 DEF v

\* A new element leaves every element standing once, ...
LEMMA InsertOnce ==
  ASSUME NEW S, NEW s \in Seq(S), Once(s), NEW i \in 1..(Len(s) + 1), NEW x \in S,
         x \notin Elements(s)
  PROVE  Once(InsertAt(s, i, x))
<1> DEFINE v == InsertAt(s, i, x)
<1>1. /\ v \in Seq(S) /\ Len(v) = Len(s) + 1
      /\ \A k \in 1..(Len(s) + 1) :
            v[k] = IF k < i THEN s[k] ELSE IF k = i THEN x ELSE s[k - 1]
  BY InsertAtFacts
<1>2. Len(s) \in Nat /\ \A k \in 1..Len(s) : s[k] # x
  BY DEF Elements
<1> HIDE DEF v
<1>3. ASSUME NEW j \in 1..Len(v), NEW k \in 1..Len(v), v[j] = v[k] PROVE j = k
  <2> DEFINE Old(n) == IF n < i THEN n ELSE n - 1
  <2>1. \A n \in 1..Len(v) : n # i => Old(n) \in 1..Len(s) /\ v[n] = s[Old(n)]
    BY <1>1, <1>2
  <2>2. v[i] = x
    BY <1>1, <1>2
  <2>3. CASE j = i \/ k = i
    BY <1>2, <1>3, <2>1, <2>2, <2>3
  <2>4. CASE j # i /\ k # i
    <3>1. Old(j) = Old(k)
      BY <1>3, <2>1, <2>4 DEF Once
    <3> QED BY <1>1, <1>2, <2>4, <3>1
  <2> QED BY <2>3, <2>4
<1>4. Once(v)
  BY <1>3 DEF Once
<1> QED BY <1>4 DEF v

\* ... and so does dropping one.
LEMMA DropOnce ==
  ASSUME NEW S, NEW s \in Seq(S), Once(s), NEW i \in 1..Len(s)
  PROVE  Once(DropAt(s, i))
<1> DEFINE v == DropAt(s, i)
           Old(n) == IF n < i THEN n ELSE n + 1
<1>1. /\ v \in Seq(S) /\ Len(v) = Len(s) - 1
      /\ \A k \in 1..(Len(s) - 1) : v[k] = IF k < i THEN s[k] ELSE s[k + 1]
  BY DropAtFacts
<1>2. Len(s) \in Nat
  OBVIOUS
<1> HIDE DEF v
<1>3. \A n \in 1..Len(v) : Old(n) \in 1..Len(s) /\ v[n] = s[Old(n)]
  BY <1>1, <1>2
<1>4. ASSUME NEW j \in 1..Len(v), NEW k \in 1..Len(v), v[j] = v[k] PROVE j = k
  <2>1. Old(j) = Old(k)
    BY <1>3, <1>4 DEF Once
  <2> QED BY <1>1, <1>2, <2>1
<1>5. Once(v)
  BY <1>4 DEF Once
<1> QED BY <1>5 DEF v

-----------------------------------------------------------------------------
(* Lists of tabs.                                                          *)

IdsOf(tabs) == {tabs[i].id : i \in 1..Len(tabs)}

\* The panes and names of a list of tabs do not depend on its order.
LEMMA TabsByElement ==
  ASSUME NEW tabs
  PROVE  /\ PanesOf(tabs) = UNION {tab.panes : tab \in Elements(tabs)}
         /\ IdsOf(tabs) = {tab.id : tab \in Elements(tabs)}
BY DEF PanesOf, IdsOf, Elements

\* No tab is listed twice when no two have the same name.
LEMMA ApartOnce ==
  ASSUME NEW tabs, Apart(tabs)
  PROVE  Once(tabs)
BY DEF Apart, Once

\* Inserted says of a sequence what InsertAtFacts says of InsertAt.
Inserted(v, s, i, x) ==
    /\ Len(v) = Len(s) + 1
    /\ \A k \in 1..(Len(s) + 1) :
          v[k] = IF k < i THEN s[k] ELSE IF k = i THEN x ELSE s[k - 1]

LEMMA InsertAtInserted ==
  ASSUME NEW S, NEW s \in Seq(S), NEW i \in 1..(Len(s) + 1), NEW x \in S
  PROVE  InsertAt(s, i, x) \in Seq(S) /\ Inserted(InsertAt(s, i, x), s, i, x)
BY InsertAtFacts DEF Inserted

\* A tab of a new name and new panes may be put anywhere in the list.
LEMMA InsertTabs ==
  ASSUME NEW S, NEW tabs \in Seq(S), Apart(tabs), NEW i \in 1..(Len(tabs) + 1),
         NEW x \in S, x.id \notin IdsOf(tabs), x.panes \cap PanesOf(tabs) = {}
  PROVE  /\ InsertAt(tabs, i, x) \in Seq(S)
         /\ InsertAt(tabs, i, x) # <<>>
         /\ Apart(InsertAt(tabs, i, x))
         /\ PanesOf(InsertAt(tabs, i, x)) = PanesOf(tabs) \cup x.panes
         /\ IdsOf(InsertAt(tabs, i, x)) = IdsOf(tabs) \cup {x.id}
<1> DEFINE v == InsertAt(tabs, i, x)
           Old(n) == IF n < i THEN n ELSE n - 1
<1>1. /\ v \in Seq(S) /\ Len(v) = Len(tabs) + 1
      /\ \A k \in 1..(Len(tabs) + 1) :
            v[k] = IF k < i THEN tabs[k] ELSE IF k = i THEN x ELSE tabs[k - 1]
  <2>1. v \in Seq(S) /\ Inserted(v, tabs, i, x)
    BY InsertAtInserted
  <2> QED BY <2>1 DEF Inserted
<1>2. Len(tabs) \in Nat
  OBVIOUS
<1>3. Elements(v) = Elements(tabs) \cup {x}
  BY InsertElements
<1> HIDE DEF v
<1>4. \A n \in 1..Len(v) : n # i => Old(n) \in 1..Len(tabs) /\ v[n] = tabs[Old(n)]
  BY <1>1, <1>2
<1>5. v[i] = x
  BY <1>1, <1>2
<1>6. \A n \in 1..Len(tabs) : x.id # tabs[n].id /\ x.panes \cap tabs[n].panes = {}
  BY DEF IdsOf, PanesOf
<1>7. ASSUME NEW j \in 1..Len(v), NEW k \in 1..Len(v), j # k
      PROVE  v[j].id # v[k].id /\ v[j].panes \cap v[k].panes = {}
  <2>1. CASE j = i
    BY <1>4, <1>5, <1>6, <1>7, <2>1
  <2>2. CASE k = i
    BY <1>4, <1>5, <1>6, <1>7, <2>2
  <2>3. CASE j # i /\ k # i
    <3>1. Old(j) # Old(k)
      BY <1>1, <1>2, <1>7, <2>3
    <3> HIDE DEF Old
    <3> QED BY <1>4, <2>3, <3>1 DEF Apart
  <2> QED BY <2>1, <2>2, <2>3
<1>8. Apart(v)
  BY <1>7 DEF Apart
<1>9. PanesOf(v) = PanesOf(tabs) \cup x.panes /\ IdsOf(v) = IdsOf(tabs) \cup {x.id}
  BY <1>3, TabsByElement
<1>10. v # <<>>
  BY <1>1, <1>2
<1> QED BY <1>1, <1>8, <1>9, <1>10 DEF v

\* Without a tab, its name and its panes are gone, and only these.
LEMMA DropTabs ==
  ASSUME NEW S, NEW tabs \in Seq(S), Apart(tabs), NEW i \in 1..Len(tabs)
  PROVE  /\ DropAt(tabs, i) \in Seq(S)
         /\ Len(DropAt(tabs, i)) = Len(tabs) - 1
         /\ Apart(DropAt(tabs, i))
         /\ PanesOf(DropAt(tabs, i)) = PanesOf(tabs) \ tabs[i].panes
         /\ IdsOf(DropAt(tabs, i)) = IdsOf(tabs) \ {tabs[i].id}
         /\ Elements(DropAt(tabs, i)) = Elements(tabs) \ {tabs[i]}
<1> DEFINE v == DropAt(tabs, i)
           Old(n) == IF n < i THEN n ELSE n + 1
<1>1. /\ v \in Seq(S) /\ Len(v) = Len(tabs) - 1
      /\ \A k \in 1..(Len(tabs) - 1) : v[k] = IF k < i THEN tabs[k] ELSE tabs[k + 1]
  BY DropAtFacts
<1>2. Len(tabs) \in Nat
  OBVIOUS
<1>3. Elements(v) = Elements(tabs) \ {tabs[i]}
  BY DropElements, ApartOnce
<1> HIDE DEF v
<1>4. \A n \in 1..Len(v) : Old(n) \in 1..Len(tabs) /\ v[n] = tabs[Old(n)]
  BY <1>1, <1>2
<1>5. ASSUME NEW j \in 1..Len(v), NEW k \in 1..Len(v), j # k
      PROVE  v[j].id # v[k].id /\ v[j].panes \cap v[k].panes = {}
  <2>1. Old(j) # Old(k)
    BY <1>1, <1>2, <1>5
  <2> HIDE DEF Old
  <2> QED BY <1>4, <2>1 DEF Apart
<1>6. Apart(v)
  BY <1>5 DEF Apart
<1>7. \A tab \in Elements(tabs) :
         tab # tabs[i] => tab.id # tabs[i].id /\ tab.panes \cap tabs[i].panes = {}
  <2>1. ASSUME NEW tab \in Elements(tabs), tab # tabs[i]
        PROVE  tab.id # tabs[i].id /\ tab.panes \cap tabs[i].panes = {}
    <3>1. PICK k \in 1..Len(tabs) : tab = tabs[k]
      BY DEF Elements
    <3> QED BY <2>1, <3>1 DEF Apart
  <2> QED BY <2>1
<1>8. tabs[i] \in Elements(tabs)
  BY DEF Elements
<1>9. PanesOf(v) = PanesOf(tabs) \ tabs[i].panes /\ IdsOf(v) = IdsOf(tabs) \ {tabs[i].id}
  BY <1>3, <1>7, <1>8, TabsByElement
<1> QED BY <1>1, <1>3, <1>6, <1>9 DEF v

\* A tab may be changed in place as long as it takes no other tab's panes.
LEMMA ReplaceTabs ==
  ASSUME NEW S, NEW T, S \subseteq T, NEW tabs \in Seq(S), Apart(tabs),
         NEW i \in 1..Len(tabs), NEW x \in T, x.id = tabs[i].id,
         x.panes \cap (PanesOf(tabs) \ tabs[i].panes) = {}
  PROVE  /\ [tabs EXCEPT ![i] = x] \in Seq(T)
         /\ Len([tabs EXCEPT ![i] = x]) = Len(tabs)
         /\ \A k \in 1..Len(tabs) : [tabs EXCEPT ![i] = x][k] = IF k = i THEN x ELSE tabs[k]
         /\ Apart([tabs EXCEPT ![i] = x])
         /\ PanesOf([tabs EXCEPT ![i] = x]) = (PanesOf(tabs) \ tabs[i].panes) \cup x.panes
         /\ IdsOf([tabs EXCEPT ![i] = x]) = IdsOf(tabs)
<1> DEFINE v == [tabs EXCEPT ![i] = x]
<1>0. tabs \in Seq(T)
  BY SeqMonotonic
<1>1. /\ v \in Seq(T) /\ Len(v) = Len(tabs)
      /\ \A k \in 1..Len(tabs) : v[k] = IF k = i THEN x ELSE tabs[k]
  BY <1>0, ExceptSeq
<1> HIDE DEF v
<1>2. \A k \in 1..Len(tabs) :
         k # i => tabs[k].panes \subseteq PanesOf(tabs) \ tabs[i].panes
  BY DEF PanesOf, Apart
<1>3. ASSUME NEW j \in 1..Len(v), NEW k \in 1..Len(v), j # k
      PROVE  v[j].id # v[k].id /\ v[j].panes \cap v[k].panes = {}
  <2>1. v[j].id # v[k].id
    BY <1>1, <1>3 DEF Apart
  <2>2. v[j].panes \cap v[k].panes = {}
    BY <1>1, <1>2, <1>3 DEF Apart
  <2> QED BY <2>1, <2>2
<1>4. Apart(v)
  BY <1>3 DEF Apart
<1>5. PanesOf(v) = (PanesOf(tabs) \ tabs[i].panes) \cup x.panes
  <2>1. PanesOf(v) \subseteq (PanesOf(tabs) \ tabs[i].panes) \cup x.panes
    <3>1. ASSUME NEW k \in 1..Len(v)
          PROVE  v[k].panes \subseteq (PanesOf(tabs) \ tabs[i].panes) \cup x.panes
      BY <1>1, <1>2
    <3> QED BY <3>1 DEF PanesOf
  <2>2. x.panes \subseteq PanesOf(v)
    <3>1. i \in 1..Len(v) /\ v[i] = x
      BY <1>1
    <3> QED BY <3>1 DEF PanesOf
  <2>3. ASSUME NEW p \in PanesOf(tabs) \ tabs[i].panes PROVE p \in PanesOf(v)
    <3>1. PICK k \in 1..Len(tabs) : p \in tabs[k].panes
      BY DEF PanesOf
    <3>2. k \in 1..Len(v) /\ p \in v[k].panes
      BY <1>1, <3>1
    <3> QED BY <3>2 DEF PanesOf
  <2> QED BY <2>1, <2>2, <2>3
<1>6. IdsOf(v) = IdsOf(tabs)
  <2>1. \A k \in 1..Len(tabs) : v[k].id = tabs[k].id
    BY <1>1
  <2> QED BY <1>1, <2>1 DEF IdsOf
<1> QED BY <1>1, <1>4, <1>5, <1>6 DEF v

\* A tab that was changed and is dropped might as well not have been changed.
LEMMA DropReplaced ==
  ASSUME NEW S, NEW T, S \subseteq T, NEW tabs \in Seq(S),
         NEW i \in 1..Len(tabs), NEW x \in T
  PROVE  DropAt([tabs EXCEPT ![i] = x], i) = DropAt(tabs, i)
<1> DEFINE v == [tabs EXCEPT ![i] = x]
<1>0. tabs \in Seq(T)
  BY SeqMonotonic
<1>1. /\ v \in Seq(T) /\ Len(v) = Len(tabs)
      /\ \A k \in 1..Len(tabs) : v[k] = IF k = i THEN x ELSE tabs[k]
  BY <1>0, ExceptSeq
<1> HIDE DEF v
<1>2. /\ DropAt(v, i) \in Seq(T) /\ Len(DropAt(v, i)) = Len(v) - 1
      /\ \A k \in 1..(Len(v) - 1) : DropAt(v, i)[k] = IF k < i THEN v[k] ELSE v[k + 1]
  BY <1>1, DropAtFacts
<1>3. /\ DropAt(tabs, i) \in Seq(T) /\ Len(DropAt(tabs, i)) = Len(tabs) - 1
      /\ \A k \in 1..(Len(tabs) - 1) :
            DropAt(tabs, i)[k] = IF k < i THEN tabs[k] ELSE tabs[k + 1]
  BY <1>0, DropAtFacts
<1>4. Len(tabs) \in Nat
  OBVIOUS
<1>5. \A k \in 1..Len(DropAt(v, i)) : DropAt(v, i)[k] = DropAt(tabs, i)[k]
  BY <1>1, <1>2, <1>3, <1>4
<1>6. Len(DropAt(v, i)) = Len(DropAt(tabs, i))
  BY <1>1, <1>2, <1>3
<1>7. DropAt(v, i) = DropAt(tabs, i)
  BY <1>2, <1>3, <1>5, <1>6, SeqEqual
<1> QED BY <1>7 DEF v

\* IndexOf finds the tab of a name that is listed, ...
LEMMA IndexOfFacts ==
  ASSUME NEW w, NEW t \in TabIds(w)
  PROVE  IndexOf(w, t) \in 1..Len(w.tabs) /\ w.tabs[IndexOf(w, t)].id = t
<1>1. \E i \in 1..Len(w.tabs) : w.tabs[i].id = t
  BY DEF TabIds
<1> QED BY <1>1 DEF IndexOf

\* ... and no other.
LEMMA IndexOfUnique ==
  ASSUME NEW w, Apart(w.tabs), NEW i \in 1..Len(w.tabs), NEW t, t = w.tabs[i].id
  PROVE  IndexOf(w, t) = i
<1>1. t \in TabIds(w)
  BY DEF TabIds
<1>2. IndexOf(w, t) \in 1..Len(w.tabs) /\ w.tabs[IndexOf(w, t)].id = w.tabs[i].id
  BY <1>1, IndexOfFacts
<1> QED BY <1>2 DEF Apart

-----------------------------------------------------------------------------
(* What is remembered as recent.                                           *)

\* A set of positions has a first one.
LEMMA FirstFacts ==
  ASSUME NEW S \in SUBSET Nat, S # {}
  PROVE  First(S) \in S /\ \A j \in S : First(S) <= j
<1>1. \E i \in S : \A j \in S : i <= j
  BY LeastNat
<1> QED BY <1>1 DEF First

\* setRecentTabsLocked: at most two, all of them existing; the first candidate, if it
\* exists, comes first.
LEMMA FirstTwoFacts ==
  ASSUME NEW w, NEW candidates \in Seq(Nat)
  PROVE  /\ FirstTwo(w, candidates) \in Seq(Nat)
         /\ Len(FirstTwo(w, candidates)) <= 2
         /\ Elements(FirstTwo(w, candidates)) \subseteq TabIds(w)
         /\ candidates = <<>> => FirstTwo(w, candidates) = <<>>
         /\ candidates # <<>> /\ candidates[1] \in TabIds(w) =>
               /\ FirstTwo(w, candidates) # <<>>
               /\ FirstTwo(w, candidates)[1] = candidates[1]
<1> DEFINE known == Known(w, candidates)
           first == candidates[First(known)]
           others == {i \in known : candidates[i] # first}
           second == candidates[First(others)]
<1>1. known \in SUBSET Nat /\ \A i \in known : i \in 1..Len(candidates) /\ candidates[i] \in Nat
                                              /\ candidates[i] \in TabIds(w)
  BY DEF Known
<1>2. known # {} => first \in Nat /\ first \in TabIds(w)
  BY <1>1, FirstFacts
<1>3. others # {} => known # {} /\ second \in Nat /\ second \in TabIds(w)
  <2>1. others \in SUBSET Nat /\ others \subseteq known
    BY <1>1
  <2>2. others # {} => First(others) \in others
    BY <2>1, FirstFacts
  <2> QED BY <1>1, <2>1, <2>2
<1>4. candidates # <<>> /\ candidates[1] \in TabIds(w) => known # {} /\ first = candidates[1]
  <2> SUFFICES ASSUME candidates # <<>>, candidates[1] \in TabIds(w)
               PROVE  known # {} /\ first = candidates[1]
    OBVIOUS
  <2>1. 1 \in 1..Len(candidates)
    OBVIOUS
  <2>2. 1 \in known
    BY <2>1 DEF Known
  <2>3. First(known) \in known /\ First(known) <= 1
    BY <1>1, <2>2, FirstFacts
  <2>4. First(known) = 1
    BY <1>1, <2>3
  <2> QED BY <2>2, <2>4
<1>5. candidates = <<>> => known = {}
  BY DEF Known
<1>6. FirstTwo(w, candidates) =
         IF known = {} THEN <<>> ELSE IF others = {} THEN <<first>> ELSE <<first, second>>
  BY DEF FirstTwo
<1> HIDE DEF known, first, others, second
<1>7. CASE known = {}
  <2>1. FirstTwo(w, candidates) = <<>>
    BY <1>6, <1>7
  <2>2. Elements(<<>>) = {}
    BY DEF Elements
  <2> QED BY <1>4, <1>7, <2>1, <2>2
<1>8. CASE known # {} /\ others = {}
  <2>1. FirstTwo(w, candidates) = <<first>>
    BY <1>6, <1>8
  <2>2. Elements(<<first>>) = {first}
    BY DEF Elements
  <2> QED BY <1>2, <1>4, <1>5, <1>8, <2>1, <2>2
<1>9. CASE known # {} /\ others # {}
  <2>1. FirstTwo(w, candidates) = <<first, second>>
    BY <1>6, <1>9
  <2>2. Elements(<<first, second>>) = {first, second}
    BY DEF Elements
  <2> QED BY <1>2, <1>3, <1>4, <1>5, <1>9, <2>1, <2>2
<1> QED BY <1>7, <1>8, <1>9

-----------------------------------------------------------------------------
(* What the operations promise about one workspace.                        *)

LooseRecord ==
    [members : SUBSET Panes, tabs : Seq(Tab), active : Nat, recent : Seq(Nat),
     nextTab : Nat \ {0}, nextPane : Nat \ {0}]

\* Apart from what is in focus the two are the same.
SameTabs(w, v) ==
    /\ v.members = w.members /\ v.tabs = w.tabs
    /\ v.nextTab = w.nextTab /\ v.nextPane = w.nextPane

\* A list of good tabs is a list of tabs.
LEMMA RecordsLoose ==
  /\ GoodTab \subseteq Tab
  /\ WorkspaceRecord \subseteq LooseRecord
<1>1. GoodTab \subseteq Tab
  BY DEF GoodTab
<1>2. Seq(GoodTab) \subseteq Seq(Tab)
  BY <1>1, SeqMonotonic
<1>3. WorkspaceRecord \subseteq LooseRecord
  BY <1>2 DEF WorkspaceRecord, LooseRecord
<1> QED BY <1>1, <1>3

\* Pruned, the recent tabs exist.
LEMMA PruneFacts ==
  ASSUME NEW w \in WorkspaceRecord
  PROVE  /\ Prune(w) \in WorkspaceRecord /\ SameTabs(w, Prune(w))
         /\ Prune(w).active = w.active
         /\ Len(Prune(w).recent) <= 2
         /\ Elements(Prune(w).recent) \subseteq TabIds(w)
         /\ w.recent = <<>> => Prune(w).recent = <<>>
         /\ w.recent # <<>> /\ w.recent[1] \in TabIds(w) =>
               Prune(w).recent # <<>> /\ Prune(w).recent[1] = w.recent[1]
<1> DEFINE r == FirstTwo(w, w.recent)
           v == [w EXCEPT !.recent = r]
<1>1. w.recent \in Seq(Nat)
  BY DEF WorkspaceRecord
<1>2. /\ r \in Seq(Nat) /\ Len(r) <= 2 /\ Elements(r) \subseteq TabIds(w)
      /\ w.recent = <<>> => r = <<>>
      /\ w.recent # <<>> /\ w.recent[1] \in TabIds(w) => r # <<>> /\ r[1] = w.recent[1]
  BY <1>1, FirstTwoFacts
<1> HIDE DEF r
<1>3. /\ v \in WorkspaceRecord /\ v.members = w.members /\ v.tabs = w.tabs
      /\ v.nextTab = w.nextTab /\ v.nextPane = w.nextPane
      /\ v.active = w.active /\ v.recent = r
  BY <1>2 DEF WorkspaceRecord
<1>4. Prune(w) = v
  BY DEF Prune, r
<1> HIDE DEF v
<1> QED BY <1>2, <1>3, <1>4 DEF SameTabs

\* setActiveTabLocked leaves the focus as it ought to be.
LEMMA SetActiveFacts ==
  ASSUME NEW w \in WorkspaceRecord, None \notin TabIds(w), NEW t,
         t \in TabIds(w) \/ (t = None /\ w.tabs = <<>>)
  PROVE  /\ SetActive(w, t) \in WorkspaceRecord /\ SameTabs(w, SetActive(w, t))
         /\ Len(SetActive(w, t).recent) <= 2
         /\ Focused(SetActive(w, t))
<1>0. /\ \A i \in 1..Len(w.tabs) : w.tabs[i] \in GoodTab
      /\ w.active \in Nat /\ w.recent \in Seq(Nat)
  BY DEF WorkspaceRecord
<1>1. TabIds(w) \subseteq Nat
  BY <1>0 DEF TabIds, GoodTab, Tab
<1>2. CASE t = None /\ w.tabs = <<>>
  <2> DEFINE u == [w EXCEPT !.active = None]
  <2>1. /\ u \in WorkspaceRecord /\ SameTabs(w, u) /\ u.active = None
    BY DEF WorkspaceRecord, SameTabs, None
  <2>2. SetActive(w, t) = Prune(u)
    BY <1>2 DEF SetActive
  <2> HIDE DEF u
  <2>3. TabIds(u) = {}
    BY <1>2, <2>1 DEF TabIds, SameTabs
  <2>4. /\ Prune(u) \in WorkspaceRecord /\ SameTabs(u, Prune(u))
        /\ Prune(u).active = None /\ Len(Prune(u).recent) <= 2
        /\ Elements(Prune(u).recent) \subseteq TabIds(u)
    BY <2>1, PruneFacts
  <2>5. Prune(u).recent = <<>>
    <3>1. Prune(u).recent \in Seq(Nat)
      BY <2>4 DEF WorkspaceRecord
    <3>2. \A i \in 1..Len(Prune(u).recent) : FALSE
      BY <2>3, <2>4 DEF Elements
    <3> HIDE DEF WorkspaceRecord
    <3> QED BY <3>1, <3>2, EmptySeq
  <2>6. Focused(Prune(u))
    <3>1. Elements(<<>>) = {}
      BY DEF Elements
    <3> QED BY <1>2, <2>1, <2>4, <2>5, <3>1 DEF Focused, SameTabs
  <2> QED BY <2>1, <2>2, <2>4, <2>6 DEF SameTabs
<1>3. CASE t \in TabIds(w)
  <2> DEFINE c == <<t, w.active>> \o w.recent
             r == FirstTwo(w, c)
             v == [w EXCEPT !.recent = r, !.active = t]
  <2>1. t \in Nat /\ t # None
    BY <1>1, <1>3
  <2>2. c \in Seq(Nat) /\ c # <<>> /\ c[1] = t
    <3>1. <<t, w.active>> \in Seq(Nat) /\ Len(<<t, w.active>>) = 2 /\ <<t, w.active>>[1] = t
      BY <1>0, <2>1
    <3>2. c \in Seq(Nat) /\ Len(c) = 2 + Len(w.recent)
          /\ \A i \in 1..(2 + Len(w.recent)) :
                c[i] = IF i <= 2 THEN <<t, w.active>>[i] ELSE w.recent[i - 2]
      BY <1>0, <3>1, ConcatProperties
    <3>3. Len(w.recent) \in Nat
      BY <1>0
    <3> HIDE DEF c
    <3> QED BY <3>1, <3>2, <3>3
  <2> HIDE DEF c
  <2>3. /\ r \in Seq(Nat) /\ Len(r) <= 2 /\ Elements(r) \subseteq TabIds(w)
        /\ r # <<>> /\ r[1] = t
    BY <1>3, <2>2, FirstTwoFacts
  <2> HIDE DEF r
  <2>4. /\ v \in WorkspaceRecord /\ v.members = w.members /\ v.tabs = w.tabs
        /\ v.nextTab = w.nextTab /\ v.nextPane = w.nextPane
        /\ v.active = t /\ v.recent = r
    BY <2>1, <2>3 DEF WorkspaceRecord
  <2>5. SetActive(w, t) = v
    BY <1>3, <2>1 DEF SetActive, r, c
  <2> HIDE DEF v
  <2>6. v.tabs # <<>> /\ TabIds(v) = TabIds(w)
    BY <1>3, <2>4 DEF TabIds
  <2> QED BY <1>3, <2>3, <2>4, <2>5, <2>6 DEF SameTabs, Focused
<1> QED BY <1>2, <1>3

Numbered(tabs, n) == \A i \in 1..Len(tabs) : 0 < tabs[i].id /\ tabs[i].id < n

\* WellFormed, with the numbering of its tabs as a part of its own.
LEMMA WellFormedNumbered ==
  ASSUME NEW w
  PROVE  WellFormed(w) <=> /\ w \in WorkspaceRecord /\ Apart(w.tabs)
                           /\ Numbered(w.tabs, w.nextTab) /\ Len(w.recent) <= 2
BY DEF WellFormed, Numbered

\* The numbering as a statement about names, ...
LEMMA NumberedIds ==
  ASSUME NEW tabs, NEW n, \A t \in IdsOf(tabs) : 0 < t /\ t < n
  PROVE  Numbered(tabs, n)
BY DEF Numbered, IdsOf

\* ... read the other way.
LEMMA IdsNumbered ==
  ASSUME NEW tabs, NEW n, Numbered(tabs, n)
  PROVE  \A t \in IdsOf(tabs) : 0 < t /\ t < n
BY DEF Numbered, IdsOf

\* TabIds is IdsOf of the tabs.
LEMMA TabIdsOf ==
  ASSUME NEW w
  PROVE  TabIds(w) = IdsOf(w.tabs)
BY DEF TabIds, IdsOf

\* A workspace whose tabs show panes of its map.
Fit(w) ==
    /\ WellFormed(w)
    /\ PanesOf(w.tabs) \subseteq Names(w.members)
    /\ UniqueNames(w.members)

\* What an operation that starts no pane makes of it.
Legal(w, v) ==
    /\ WellFormed(v)
    /\ v.members \subseteq w.members
    /\ v.nextPane = w.nextPane
    /\ PanesOf(v.tabs) \subseteq Names(v.members)
    /\ Names(w.members) \subseteq PanesOf(w.tabs) =>
          Names(v.members) \subseteq PanesOf(v.tabs)
    /\ Focused(w) => Focused(v)

\* What a removal leaves alone besides.
Calm(w, v) ==
    /\ TabIds(v) \subseteq TabIds(w)
    /\ w.active = None /\ w.recent = <<>> => v.active = None /\ v.recent = <<>>

-----------------------------------------------------------------------------
(* Removing a tab or a pane.                                               *)

\* closeTabLocked: the tab and its panes are gone, and the focus goes to one that is left.
LEMMA RemoveTabFacts ==
  ASSUME NEW w \in LooseRecord, Apart(w.tabs), Numbered(w.tabs, w.nextTab),
         NEW i \in 1..Len(w.tabs), NEW t, t = w.tabs[i].id,
         DropAt(w.tabs, i) \in Seq(GoodTab)
  PROVE  /\ RemoveTab(w, t) \in WorkspaceRecord
         /\ RemoveTab(w, t).tabs = DropAt(w.tabs, i)
         /\ RemoveTab(w, t).members = PanesWithout(w, w.tabs[i].panes)
         /\ RemoveTab(w, t).nextTab = w.nextTab /\ RemoveTab(w, t).nextPane = w.nextPane
         /\ Len(RemoveTab(w, t).recent) <= 2
         /\ Focused(w) => Focused(RemoveTab(w, t))
         /\ w.active = None /\ w.recent = <<>> =>
               RemoveTab(w, t).active = None /\ RemoveTab(w, t).recent = <<>>
<1> DEFINE rest == DropAt(w.tabs, i)
           kept == PanesWithout(w, w.tabs[i].panes)
           left == [w EXCEPT !.tabs = rest, !.members = kept]
           next == IF rest = <<>> THEN None
                   ELSE rest[IF i < Len(rest) THEN i ELSE Len(rest)].id
<1>1. IndexOf(w, t) = i
  BY IndexOfUnique
<1>2. RemoveTab(w, t) = IF w.active = t THEN SetActive(left, next) ELSE Prune(left)
  BY <1>1 DEF RemoveTab
<1>3. kept \subseteq w.members
  BY DEF PanesWithout
<1>4. IdsOf(rest) = IdsOf(w.tabs) \ {t}
  <2>1. PICK tabs : tabs = w.tabs
    OBVIOUS
  <2>2. tabs \in Seq(Tab) /\ Apart(tabs) /\ i \in 1..Len(tabs)
    BY <2>1 DEF LooseRecord
  <2>3. IdsOf(DropAt(tabs, i)) = IdsOf(tabs) \ {tabs[i].id}
    BY <2>2, DropTabs, ZenonT(60)
  <2> QED BY <2>1, <2>3
<1>5. rest \in Seq(GoodTab)
  OBVIOUS
<1> HIDE DEF rest, kept
<1>6. /\ left \in WorkspaceRecord /\ left.tabs = rest /\ left.members = kept
      /\ left.nextTab = w.nextTab /\ left.nextPane = w.nextPane
      /\ left.active = w.active /\ left.recent = w.recent
  BY <1>3, <1>5 DEF LooseRecord, WorkspaceRecord
<1> HIDE DEF left
<1>7. TabIds(left) = TabIds(w) \ {t}
  BY <1>4, <1>6, TabIdsOf
<1>8. None \notin TabIds(w) /\ t \in TabIds(w)
  <2>1. \A n \in IdsOf(w.tabs) : 0 < n
    BY IdsNumbered
  <2>2. t \in IdsOf(w.tabs)
    BY DEF IdsOf
  <2> QED BY <2>1, <2>2, TabIdsOf DEF None
<1>9. CASE w.active = t
  <2>1. next \in TabIds(left) \/ (next = None /\ left.tabs = <<>>)
    <3>1. CASE rest = <<>>
      BY <1>6, <3>1
    <3>2. CASE rest # <<>>
      <4> DEFINE k == IF i < Len(rest) THEN i ELSE Len(rest)
      <4>1. k \in 1..Len(rest)
        BY <1>5, <3>2
      <4>2. rest[k].id \in TabIds(left)
        BY <1>6, <4>1 DEF TabIds
      <4> QED BY <3>2, <4>2
    <3> QED BY <3>1, <3>2
  <2> HIDE DEF next
  <2>2. /\ SetActive(left, next) \in WorkspaceRecord
        /\ SameTabs(left, SetActive(left, next))
        /\ Len(SetActive(left, next).recent) <= 2
        /\ Focused(SetActive(left, next))
    BY <1>6, <1>7, <1>8, <2>1, SetActiveFacts
  <2>3. RemoveTab(w, t) = SetActive(left, next)
    BY <1>2, <1>9
  <2>4. w.active # None
    BY <1>8, <1>9
  <2> QED BY <1>6, <2>2, <2>3, <2>4 DEF SameTabs, rest, kept
<1>10. CASE w.active # t
  <2>1. RemoveTab(w, t) = Prune(left)
    BY <1>2, <1>10
  <2>2. /\ Prune(left) \in WorkspaceRecord /\ SameTabs(left, Prune(left))
        /\ Prune(left).active = left.active /\ Len(Prune(left).recent) <= 2
        /\ Elements(Prune(left).recent) \subseteq TabIds(left)
        /\ left.recent = <<>> => Prune(left).recent = <<>>
        /\ left.recent # <<>> /\ left.recent[1] \in TabIds(left) =>
              Prune(left).recent # <<>> /\ Prune(left).recent[1] = left.recent[1]
    BY <1>6, PruneFacts
  <2>3. ASSUME Focused(w) PROVE Focused(Prune(left))
    <3>1. w.tabs # <<>>
      BY <1>8 DEF TabIds
    <3>2. w.active \in TabIds(left) /\ w.recent # <<>> /\ w.recent[1] = w.active
      BY <1>7, <1>10, <2>3, <3>1 DEF Focused
    <3>3. Prune(left).recent # <<>> /\ Prune(left).recent[1] = w.active
      BY <1>6, <2>2, <3>2
    <3>4. TabIds(Prune(left)) = TabIds(left) /\ Prune(left).tabs # <<>>
      <4>1. left.tabs # <<>>
        BY <3>2 DEF TabIds
      <4> QED BY <2>2, <4>1 DEF SameTabs, TabIds
    <3> QED BY <1>6, <2>2, <3>2, <3>3, <3>4 DEF Focused
  <2> QED BY <1>6, <2>1, <2>2, <2>3 DEF SameTabs, rest, kept
<1> QED BY <1>9, <1>10

\* Which names are left when the panes of some names go, ...
LEMMA NamesWithout ==
  ASSUME NEW w, NEW gone
  PROVE  Names(PanesWithout(w, gone)) = Names(w.members) \ gone
BY DEF Names, PanesWithout

\* ... or the pane of one.
LEMMA NamesMember ==
  ASSUME NEW w, NEW id
  PROVE  Names(w.members \ Member(w, id)) = Names(w.members) \ {id}
BY DEF Names, Member

\* close_tab, and the end of a tab's last pane.
LEMMA RemoveTabLegal ==
  ASSUME NEW w, Fit(w), NEW i \in 1..Len(w.tabs), NEW t, t = w.tabs[i].id
  PROVE  Legal(w, RemoveTab(w, t))
<1> DEFINE v == RemoveTab(w, t)
           gone == w.tabs[i].panes
<1>1. /\ w \in WorkspaceRecord /\ Apart(w.tabs) /\ Numbered(w.tabs, w.nextTab)
      /\ PanesOf(w.tabs) \subseteq Names(w.members)
  BY WellFormedNumbered DEF Fit
<1>2. w \in LooseRecord /\ w.tabs \in Seq(GoodTab)
  BY <1>1, RecordsLoose DEF WorkspaceRecord
<1>3. /\ DropAt(w.tabs, i) \in Seq(GoodTab) /\ Apart(DropAt(w.tabs, i))
      /\ PanesOf(DropAt(w.tabs, i)) = PanesOf(w.tabs) \ gone
      /\ IdsOf(DropAt(w.tabs, i)) = IdsOf(w.tabs) \ {t}
  BY <1>1, <1>2, DropTabs, SMTT(30)
<1>4. /\ v \in WorkspaceRecord /\ v.tabs = DropAt(w.tabs, i)
      /\ v.members = PanesWithout(w, gone)
      /\ v.nextTab = w.nextTab /\ v.nextPane = w.nextPane /\ Len(v.recent) <= 2
      /\ Focused(w) => Focused(v)
  BY <1>1, <1>2, <1>3, RemoveTabFacts
<1> HIDE DEF v, gone
<1>5. Numbered(v.tabs, v.nextTab)
  <2>1. \A n \in IdsOf(w.tabs) : 0 < n /\ n < w.nextTab
    BY <1>1, IdsNumbered
  <2>2. \A n \in IdsOf(v.tabs) : 0 < n /\ n < v.nextTab
    BY <1>3, <1>4, <2>1
  <2> QED BY <2>2, NumberedIds
<1>6. WellFormed(v)
  BY <1>3, <1>4, <1>5, WellFormedNumbered
<1>7. v.members \subseteq w.members
  BY <1>4 DEF PanesWithout
<1>8. Names(v.members) = Names(w.members) \ gone
  BY <1>4, NamesWithout
<1>9. PanesOf(v.tabs) \subseteq Names(v.members)
  BY <1>1, <1>3, <1>4, <1>8
<1>10. Names(w.members) \subseteq PanesOf(w.tabs) => Names(v.members) \subseteq PanesOf(v.tabs)
  BY <1>3, <1>4, <1>8
<1>11. Legal(w, v)
  BY <1>4, <1>6, <1>7, <1>9, <1>10 DEF Legal
<1> QED BY <1>11 DEF v

\* A tab without one of its panes
LEMMA DetachedFacts ==
  ASSUME NEW tab \in GoodTab, NEW id \in tab.panes, NEW next
  PROVE  /\ Detached(tab, id, next) \in Tab
         /\ Detached(tab, id, next).id = tab.id
         /\ Detached(tab, id, next).panes = tab.panes \ {id}
         /\ tab.panes \ {id} # {} => Detached(tab, id, next) \in GoodTab
         /\ Emptied(Detached(tab, id, next)) <=> tab.panes \ {id} = {}
<1> DEFINE i == IndexIn(tab.layout, id)
           layout == DropAt(tab.layout, i)
           wanted == IF tab.active = id THEN next ELSE tab.active
           active == IF wanted \in Elements(layout) THEN wanted
                     ELSE IF layout # <<>> THEN layout[1] ELSE None
           rest == tab.panes \ {id}
           d == [tab EXCEPT !.panes = rest, !.layout = layout, !.active = active]
<1>1. /\ tab \in Tab /\ tab.layout \in Seq(Nat) /\ tab.panes \in SUBSET Nat
      /\ Elements(tab.layout) = tab.panes /\ Once(tab.layout)
  BY DEF GoodTab, Tab
<1>2. i \in 1..Len(tab.layout) /\ tab.layout[i] = id
  BY <1>1, IndexInFacts
<1> HIDE DEF i
<1>3. /\ layout \in Seq(Nat) /\ Once(layout)
      /\ Elements(layout) = tab.panes \ {id}
  BY <1>1, <1>2, DropAtFacts, DropElements, DropOnce
<1>4. d = Detached(tab, id, next)
  BY DEF Detached, i
<1> HIDE DEF layout
<1>5. layout = <<>> <=> tab.panes \ {id} = {}
  <2>1. layout = <<>> => Elements(layout) = {}
    BY DEF Elements
  <2>2. layout # <<>> => layout[1] \in Elements(layout)
    BY <1>3 DEF Elements
  <2> QED BY <1>3, <2>1, <2>2
<1>6. active \in Nat /\ (tab.panes \ {id} # {} => active \in tab.panes \ {id})
  <2>1. layout # <<>> => layout[1] \in Elements(layout)
    BY <1>3 DEF Elements
  <2>2. Elements(layout) \subseteq Nat
    BY <1>1, <1>3
  <2> HIDE DEF wanted
  <2> QED BY <1>3, <1>5, <2>1, <2>2 DEF None
<1> HIDE DEF active
<1>7. rest \in SUBSET Nat
  BY <1>1
<1> HIDE DEF rest
<1>8. d \in Tab /\ d.id = tab.id /\ d.panes = rest /\ d.layout = layout /\ d.active = active
  BY <1>1, <1>3, <1>6, <1>7 DEF Tab
<1> HIDE DEF d
<1>9. rest # {} => d \in GoodTab
  BY <1>3, <1>6, <1>8 DEF GoodTab, rest
<1>10. Emptied(d) <=> rest = {}
  BY <1>5, <1>8 DEF Emptied, rest
<1> QED BY <1>4, <1>8, <1>9, <1>10 DEF rest

\* Focus depends on the names of the tabs only.
LEMMA FocusedSame ==
  ASSUME NEW w, NEW v, Len(w.tabs) = Len(v.tabs), IdsOf(v.tabs) = IdsOf(w.tabs),
         w.tabs = <<>> <=> v.tabs = <<>>,
         v.active = w.active, v.recent = w.recent, Focused(w)
  PROVE  Focused(v)
<1>1. TabIds(w) = TabIds(v)
  BY TabIdsOf
<1> QED BY <1>1 DEF Focused

\* One tab is replaced by another with its identity, and panes leave the map.
LEMMA WithTab ==
  ASSUME NEW S, NEW T, S \subseteq T, NEW w, w.tabs \in Seq(S),
         w \in [members : SUBSET Panes, tabs : Seq(S), active : Nat, recent : Seq(Nat),
                nextTab : Nat \ {0}, nextPane : Nat \ {0}],
         NEW i \in 1..Len(w.tabs), NEW x \in T, NEW m \in SUBSET Panes
  PROVE  /\ [w EXCEPT !.tabs[i] = x, !.members = m] \in
               [members : SUBSET Panes, tabs : Seq(T), active : Nat, recent : Seq(Nat),
                nextTab : Nat \ {0}, nextPane : Nat \ {0}]
         /\ [w EXCEPT !.tabs[i] = x, !.members = m].tabs = [w.tabs EXCEPT ![i] = x]
         /\ [w EXCEPT !.tabs[i] = x, !.members = m].members = m
         /\ [w EXCEPT !.tabs[i] = x, !.members = m].active = w.active
         /\ [w EXCEPT !.tabs[i] = x, !.members = m].recent = w.recent
         /\ [w EXCEPT !.tabs[i] = x, !.members = m].nextTab = w.nextTab
         /\ [w EXCEPT !.tabs[i] = x, !.members = m].nextPane = w.nextPane
<1> DEFINE tabs == [w.tabs EXCEPT ![i] = x]
           v == [w EXCEPT !.tabs = tabs, !.members = m]
<1>0. w.tabs \in Seq(T)
  BY SeqMonotonic
<1>1. tabs \in Seq(T)
  BY <1>0, ExceptSeq
<1>2. v = [w EXCEPT !.tabs[i] = x, !.members = m]
  OBVIOUS
<1> HIDE DEF tabs
<1>3. /\ v \in [members : SUBSET Panes, tabs : Seq(T), active : Nat, recent : Seq(Nat),
                nextTab : Nat \ {0}, nextPane : Nat \ {0}]
      /\ v.tabs = tabs /\ v.members = m /\ v.active = w.active /\ v.recent = w.recent
      /\ v.nextTab = w.nextTab /\ v.nextPane = w.nextPane
  BY <1>1
<1> HIDE DEF v
<1> QED BY <1>2, <1>3 DEF tabs

\* The pane of that name is no member any more, the others are.
LostMember(w, v, id) == v.members = w.members \ Member(w, id)

\* closePaneInTabLocked: close_pane, and the exit of a pane.
LEMMA RemovePaneLegal ==
  ASSUME NEW w, Fit(w), NEW i \in 1..Len(w.tabs), NEW t, t = w.tabs[i].id,
         NEW id \in w.tabs[i].panes, NEW next
  PROVE  /\ Legal(w, RemovePane(w, t, id, next))
         /\ Calm(w, RemovePane(w, t, id, next))
         /\ LostMember(w, RemovePane(w, t, id, next), id)
<1> DEFINE v == RemovePane(w, t, id, next)
           tab == Detached(w.tabs[i], id, next)
           m == w.members \ Member(w, id)
           left == [w EXCEPT !.tabs[i] = tab, !.members = m]
           after == [w.tabs EXCEPT ![i] = tab]
<1>1. /\ w \in WorkspaceRecord /\ Apart(w.tabs) /\ Numbered(w.tabs, w.nextTab)
      /\ PanesOf(w.tabs) \subseteq Names(w.members) /\ Len(w.recent) <= 2
  BY WellFormedNumbered DEF Fit
<1>2. w \in LooseRecord /\ w.tabs \in Seq(GoodTab) /\ w.tabs[i] \in GoodTab
      /\ w.members \in SUBSET Panes /\ w.tabs \in Seq(Tab)
  <2>1. w \in LooseRecord /\ w.tabs \in Seq(GoodTab) /\ w.members \in SUBSET Panes
    BY <1>1, RecordsLoose DEF WorkspaceRecord
  <2>2. w.tabs \in Seq(Tab)
    BY <2>1 DEF LooseRecord
  <2>3. w.tabs[i] \in GoodTab
    BY <2>1, ElementOfSeq
  <2> QED BY <2>1, <2>2, <2>3
<1>3. /\ tab \in Tab /\ tab.id = w.tabs[i].id /\ tab.panes = w.tabs[i].panes \ {id}
      /\ w.tabs[i].panes \ {id} # {} => tab \in GoodTab
      /\ Emptied(tab) <=> w.tabs[i].panes \ {id} = {}
  BY <1>2, DetachedFacts
<1>4. v = IF Emptied(tab) THEN RemoveTab(left, t) ELSE left
  <2>1. IndexOf(w, t) = i
    BY <1>1, IndexOfUnique
  <2> QED BY <2>1 DEF RemovePane
<1>5. m \in SUBSET Panes /\ m \subseteq w.members
  BY <1>2
<1>6. Names(m) = Names(w.members) \ {id}
  BY NamesMember
<1>7. w.tabs[i].panes \subseteq PanesOf(w.tabs) /\ t \in IdsOf(w.tabs)
  BY DEF PanesOf, IdsOf
<1> HIDE DEF tab, m
<1>8. /\ after \in Seq(Tab) /\ Len(after) = Len(w.tabs)
      /\ Apart(after)
      /\ PanesOf(after) = (PanesOf(w.tabs) \ w.tabs[i].panes) \cup tab.panes
      /\ IdsOf(after) = IdsOf(w.tabs)
  <2>1. tab.panes \cap (PanesOf(w.tabs) \ w.tabs[i].panes) = {}
    BY <1>3
  <2> QED BY <1>1, <1>2, <1>3, <2>1, ReplaceTabs
<1>9. PanesOf(after) = PanesOf(w.tabs) \ {id}
  <2>1. \A j \in 1..Len(w.tabs) : j # i => id \notin w.tabs[j].panes
    BY <1>1 DEF Apart
  <2> QED BY <1>3, <1>7, <1>8
<1>10. /\ left \in LooseRecord /\ left.tabs = after /\ left.members = m
       /\ left.active = w.active /\ left.recent = w.recent
       /\ left.nextTab = w.nextTab /\ left.nextPane = w.nextPane
  BY <1>2, <1>3, <1>5, WithTab DEF LooseRecord
<1>11. tab \in GoodTab => left \in WorkspaceRecord
  BY <1>1, <1>2, <1>5, WithTab DEF WorkspaceRecord
<1> HIDE DEF left, after
<1>12. Focused(w) => Focused(left)
  <2>1. w.tabs # <<>> /\ after # <<>>
    BY <1>2, <1>8
  <2> QED BY <1>8, <1>10, <2>1, FocusedSame
<1>13. /\ v \in WorkspaceRecord /\ Apart(v.tabs) /\ v.members = m
       /\ v.nextTab = w.nextTab /\ v.nextPane = w.nextPane /\ Len(v.recent) <= 2
       /\ PanesOf(v.tabs) = PanesOf(w.tabs) \ {id}
       /\ IdsOf(v.tabs) \subseteq IdsOf(w.tabs)
       /\ Focused(w) => Focused(v)
       /\ w.active = None /\ w.recent = <<>> => v.active = None /\ v.recent = <<>>
  <2>1. CASE Emptied(tab)
    <3>1. w.tabs[i].panes = {id} /\ tab.panes = {}
      BY <1>3, <2>1
    <3>2. DropAt(left.tabs, i) = DropAt(w.tabs, i)
      BY <1>2, <1>3, <1>10, RecordsLoose, DropReplaced DEF after
    <3>3. /\ DropAt(w.tabs, i) \in Seq(GoodTab) /\ Apart(DropAt(w.tabs, i))
          /\ PanesOf(DropAt(w.tabs, i)) = PanesOf(w.tabs) \ {id}
          /\ IdsOf(DropAt(w.tabs, i)) = IdsOf(w.tabs) \ {t}
      BY <1>1, <1>2, <3>1, DropTabs, SMTT(30)
    <3>4. i \in 1..Len(left.tabs) /\ left.tabs[i] = tab /\ t = left.tabs[i].id
      <4>1. left.tabs[i] = tab
        BY <1>2, <1>10, ExceptSeq DEF after
      <4> QED BY <1>3, <1>8, <1>10, <4>1
    <3>5. Numbered(left.tabs, left.nextTab)
      <4>1. \A n \in IdsOf(w.tabs) : 0 < n /\ n < w.nextTab
        BY <1>1, IdsNumbered
      <4>2. \A n \in IdsOf(left.tabs) : 0 < n /\ n < left.nextTab
        BY <1>8, <1>10, <4>1
      <4> QED BY <4>2, NumberedIds
    <3>6. Apart(left.tabs) /\ DropAt(left.tabs, i) \in Seq(GoodTab)
      BY <1>8, <1>10, <3>2, <3>3
    <3>7. /\ RemoveTab(left, t) \in WorkspaceRecord
          /\ RemoveTab(left, t).tabs = DropAt(left.tabs, i)
          /\ RemoveTab(left, t).members = PanesWithout(left, left.tabs[i].panes)
          /\ RemoveTab(left, t).nextTab = left.nextTab
          /\ RemoveTab(left, t).nextPane = left.nextPane
          /\ Len(RemoveTab(left, t).recent) <= 2
          /\ Focused(left) => Focused(RemoveTab(left, t))
          /\ left.active = None /\ left.recent = <<>> =>
                RemoveTab(left, t).active = None /\ RemoveTab(left, t).recent = <<>>
      BY <1>10, <3>4, <3>5, <3>6, RemoveTabFacts
    <3>8. PanesWithout(left, left.tabs[i].panes) = m
      BY <1>10, <3>1, <3>4 DEF PanesWithout
    <3>9. v = RemoveTab(left, t)
      BY <1>4, <2>1
    <3> HIDE DEF v
    <3> QED BY <1>10, <1>12, <3>2, <3>3, <3>7, <3>8, <3>9
  <2>2. CASE ~Emptied(tab)
    <3>1. v = left
      BY <1>4, <2>2
    <3>2. left \in WorkspaceRecord
      BY <1>3, <1>11, <2>2
    <3> HIDE DEF v
    <3> QED BY <1>1, <1>8, <1>9, <1>10, <1>12, <3>1, <3>2
  <2> QED BY <2>1, <2>2
<1> HIDE DEF v
<1>14. WellFormed(v)
  <2>1. \A n \in IdsOf(w.tabs) : 0 < n /\ n < w.nextTab
    BY <1>1, IdsNumbered
  <2>2. \A n \in IdsOf(v.tabs) : 0 < n /\ n < v.nextTab
    BY <1>13, <2>1
  <2>3. Numbered(v.tabs, v.nextTab)
    BY <2>2, NumberedIds
  <2> QED BY <1>13, <2>3, WellFormedNumbered
<1>15. Legal(w, v)
  BY <1>1, <1>5, <1>6, <1>13, <1>14 DEF Legal
<1>16. Calm(w, v)
  BY <1>13, TabIdsOf DEF Calm
<1>17. LostMember(w, v, id)
  BY <1>13 DEF LostMember, m
<1> QED BY <1>15, <1>16, <1>17 DEF v

-----------------------------------------------------------------------------
(* The actions that start no pane.                                         *)

\* A workspace of which only the focus is to be set.
Arranged(w, u) ==
    /\ u \in WorkspaceRecord /\ Apart(u.tabs) /\ Numbered(u.tabs, u.nextTab)
    /\ u.members \subseteq w.members
    /\ u.nextPane = w.nextPane
    /\ PanesOf(u.tabs) \subseteq Names(u.members)
    /\ Names(w.members) \subseteq PanesOf(w.tabs) =>
          Names(u.members) \subseteq PanesOf(u.tabs)

\* No tab is named by None: tabs are numbered from 1.
LEMMA NoTabZero ==
  ASSUME NEW u, Numbered(u.tabs, u.nextTab)
  PROVE  None \notin TabIds(u)
<1>1. \A n \in IdsOf(u.tabs) : 0 < n
  BY IdsNumbered
<1> QED BY <1>1, TabIdsOf DEF None

\* setActiveTabLocked is legal after an arrangement.
LEMMA ActiveLegal ==
  ASSUME NEW w, NEW u, Arranged(w, u), NEW t \in TabIds(u)
  PROVE  Legal(w, SetActive(u, t))
<1> DEFINE v == SetActive(u, t)
<1>1. None \notin TabIds(u)
  BY NoTabZero DEF Arranged
<1>2. v \in WorkspaceRecord /\ SameTabs(u, v) /\ Len(v.recent) <= 2 /\ Focused(v)
  BY <1>1, SetActiveFacts DEF Arranged
<1> HIDE DEF v
<1>3. WellFormed(v)
  BY <1>2, WellFormedNumbered DEF Arranged, SameTabs
<1>4. Legal(w, v)
  BY <1>2, <1>3 DEF Legal, Arranged, SameTabs
<1> QED BY <1>4 DEF v

\* What Fit says, part by part.
LEMMA FitParts ==
  ASSUME NEW w, Fit(w)
  PROVE  /\ w \in WorkspaceRecord /\ Apart(w.tabs) /\ Numbered(w.tabs, w.nextTab)
         /\ Len(w.recent) <= 2 /\ PanesOf(w.tabs) \subseteq Names(w.members)
         /\ w.tabs \in Seq(GoodTab) /\ \A i \in 1..Len(w.tabs) : w.tabs[i] \in GoodTab
         /\ w.members \in SUBSET Panes /\ w.nextTab \in Nat \ {0} /\ w.nextPane \in Nat \ {0}
         /\ w.active \in Nat /\ w.recent \in Seq(Nat)
<1>1. w \in WorkspaceRecord /\ Apart(w.tabs) /\ Numbered(w.tabs, w.nextTab)
      /\ Len(w.recent) <= 2 /\ PanesOf(w.tabs) \subseteq Names(w.members)
  BY WellFormedNumbered DEF Fit
<1>2. /\ w.tabs \in Seq(GoodTab)
      /\ w.members \in SUBSET Panes /\ w.nextTab \in Nat \ {0} /\ w.nextPane \in Nat \ {0}
      /\ w.active \in Nat /\ w.recent \in Seq(Nat)
  BY <1>1 DEF WorkspaceRecord
<1>3. \A i \in 1..Len(w.tabs) : w.tabs[i] \in GoodTab
  BY <1>2, ElementOfSeq
<1> QED BY <1>1, <1>2, <1>3

\* A request that changes nothing is legal.
LEMMA SameLegal ==
  ASSUME NEW w, Fit(w)
  PROVE  Legal(w, w)
BY DEF Fit, Legal

\* The tabs are listed otherwise.
LEMMA ListArranged ==
  ASSUME NEW w, Fit(w), NEW tabs \in Seq(GoodTab), Apart(tabs),
         PanesOf(tabs) = PanesOf(w.tabs), IdsOf(tabs) = IdsOf(w.tabs)
  PROVE  /\ Arranged(w, [w EXCEPT !.tabs = tabs])
         /\ [w EXCEPT !.tabs = tabs].tabs = tabs
         /\ [w EXCEPT !.tabs = tabs].active = w.active
         /\ [w EXCEPT !.tabs = tabs].recent = w.recent
<1> DEFINE u == [w EXCEPT !.tabs = tabs]
<1>1. /\ w \in WorkspaceRecord /\ Numbered(w.tabs, w.nextTab)
      /\ PanesOf(w.tabs) \subseteq Names(w.members)
  BY FitParts
<1>2. /\ u \in WorkspaceRecord /\ u.tabs = tabs /\ u.members = w.members
      /\ u.nextTab = w.nextTab /\ u.nextPane = w.nextPane
      /\ u.active = w.active /\ u.recent = w.recent
  BY <1>1 DEF WorkspaceRecord
<1> HIDE DEF u
<1>3. Numbered(u.tabs, u.nextTab)
  <2>1. \A n \in IdsOf(w.tabs) : 0 < n /\ n < w.nextTab
    BY <1>1, IdsNumbered
  <2>2. \A n \in IdsOf(u.tabs) : 0 < n /\ n < u.nextTab
    BY <1>2, <2>1
  <2> QED BY <2>2, NumberedIds
<1>4. Arranged(w, u)
  BY <1>1, <1>2, <1>3 DEF Arranged
<1> QED BY <1>2, <1>4 DEF u

\* A tab taken out and put in again elsewhere
LEMMA TabMoved ==
  ASSUME NEW w, Fit(w), NEW i \in 1..Len(w.tabs), NEW to \in 1..Len(w.tabs)
  PROVE  /\ InsertAt(DropAt(w.tabs, i), to, w.tabs[i]) \in Seq(GoodTab)
         /\ InsertAt(DropAt(w.tabs, i), to, w.tabs[i]) # <<>>
         /\ Apart(InsertAt(DropAt(w.tabs, i), to, w.tabs[i]))
         /\ PanesOf(InsertAt(DropAt(w.tabs, i), to, w.tabs[i])) = PanesOf(w.tabs)
         /\ IdsOf(InsertAt(DropAt(w.tabs, i), to, w.tabs[i])) = IdsOf(w.tabs)
<1> DEFINE rest == DropAt(w.tabs, i)
           tab == w.tabs[i]
<1>1. w.tabs \in Seq(GoodTab) /\ Apart(w.tabs) /\ tab \in GoodTab /\ Len(w.tabs) \in Nat
  BY FitParts
<1>2. /\ rest \in Seq(GoodTab) /\ Apart(rest) /\ Len(rest) = Len(w.tabs) - 1
      /\ PanesOf(rest) = PanesOf(w.tabs) \ tab.panes
      /\ IdsOf(rest) = IdsOf(w.tabs) \ {tab.id}
  <2>1. w.tabs \in Seq(GoodTab) /\ Apart(w.tabs)
    BY <1>1
  <2> QED BY <2>1, DropTabs
<1>3. tab.panes \subseteq PanesOf(w.tabs) /\ tab.id \in IdsOf(w.tabs)
  BY DEF PanesOf, IdsOf
<1> HIDE DEF rest, tab
<1>4. /\ InsertAt(rest, to, tab) \in Seq(GoodTab) /\ InsertAt(rest, to, tab) # <<>>
      /\ Apart(InsertAt(rest, to, tab))
      /\ PanesOf(InsertAt(rest, to, tab)) = PanesOf(rest) \cup tab.panes
      /\ IdsOf(InsertAt(rest, to, tab)) = IdsOf(rest) \cup {tab.id}
  <2>1. to \in 1..(Len(rest) + 1)
    BY <1>1, <1>2
  <2>2. tab.id \notin IdsOf(rest) /\ tab.panes \cap PanesOf(rest) = {}
    BY <1>2
  <2> QED BY <1>1, <1>2, <2>1, <2>2, InsertTabs, SMTT(30)
<1>5. /\ PanesOf(InsertAt(rest, to, tab)) = PanesOf(w.tabs)
      /\ IdsOf(InsertAt(rest, to, tab)) = IdsOf(w.tabs)
  BY <1>2, <1>3, <1>4
<1> QED BY <1>4, <1>5 DEF rest, tab

\* move_tab
LEMMA MoveTabLegal ==
  ASSUME NEW w, Fit(w), NEW t \in TabIds(w), NEW to \in 1..Len(w.tabs)
  PROVE  Legal(w, SetActive([w EXCEPT !.tabs =
                     InsertAt(DropAt(w.tabs, IndexOf(w, t)), to, w.tabs[IndexOf(w, t)])], t))
<1> DEFINE i == IndexOf(w, t)
           tabs == InsertAt(DropAt(w.tabs, i), to, w.tabs[i])
           u == [w EXCEPT !.tabs = tabs]
<1>1. i \in 1..Len(w.tabs)
  BY IndexOfFacts
<1> HIDE DEF i
<1>2. /\ tabs \in Seq(GoodTab) /\ Apart(tabs) /\ PanesOf(tabs) = PanesOf(w.tabs)
      /\ IdsOf(tabs) = IdsOf(w.tabs)
  BY <1>1, TabMoved
<1> HIDE DEF tabs
<1>3. Arranged(w, u) /\ u.tabs = tabs
  BY <1>2, ListArranged
<1> HIDE DEF u
<1>4. t \in TabIds(u)
  BY <1>2, <1>3, TabIdsOf
<1>5. Legal(w, SetActive(u, t))
  BY <1>3, <1>4, ActiveLegal
<1> QED BY <1>5 DEF u, tabs, i

Without(w, t) == [w EXCEPT !.tabs = DropAt(@, IndexOf(w, t))]
PlaceBefore(rest, before) ==
    IF before = None THEN Len(rest.tabs) + 1 ELSE IndexOf(rest, before)
Reordered(w, t, before) ==
    [Without(w, t) EXCEPT
        !.tabs = InsertAt(@, PlaceBefore(Without(w, t), before), w.tabs[IndexOf(w, t)])]

\* reorder_tab
LEMMA ReorderTabLegal ==
  ASSUME NEW w, Fit(w), NEW t \in TabIds(w), NEW before \in (TabIds(w) \ {t}) \cup {None}
  PROVE  Legal(w, Reordered(w, t, before))
<1> DEFINE i == IndexOf(w, t)
           rest == Without(w, t)
           to == PlaceBefore(rest, before)
           drop == DropAt(w.tabs, i)
           tabs == InsertAt(drop, to, w.tabs[i])
           u == [w EXCEPT !.tabs = tabs]
<1>0. i \in 1..Len(w.tabs) /\ w.tabs[i].id = t
  BY IndexOfFacts
<1>1. /\ w \in WorkspaceRecord /\ w.tabs \in Seq(GoodTab) /\ Apart(w.tabs)
      /\ Numbered(w.tabs, w.nextTab) /\ Len(w.recent) <= 2
  BY FitParts
<1>2. /\ rest = [w EXCEPT !.tabs = drop]
      /\ to = IF before = None THEN Len(rest.tabs) + 1 ELSE IndexOf(rest, before)
      /\ Reordered(w, t, before) = [rest EXCEPT !.tabs = InsertAt(@, to, w.tabs[i])]
  BY DEF Without, PlaceBefore, Reordered
<1> HIDE DEF i, rest, to
<1>3. /\ drop \in Seq(GoodTab) /\ Len(drop) = Len(w.tabs) - 1
      /\ IdsOf(drop) = IdsOf(w.tabs) \ {t}
  BY <1>0, <1>1, DropTabs, ZenonT(60)
<1> HIDE DEF drop
<1>4. rest.tabs = drop
  BY <1>1, <1>2, <1>3 DEF WorkspaceRecord
<1>5. to \in 1..Len(w.tabs)
  <2>1. Len(w.tabs) \in Nat
    BY <1>1
  <2>2. CASE before = None
    BY <1>0, <1>2, <1>3, <1>4, <2>1, <2>2
  <2>3. CASE before # None
    <3>1. before \in TabIds(rest)
      BY <1>3, <1>4, <2>3, TabIdsOf
    <3>2. IndexOf(rest, before) \in 1..Len(rest.tabs)
      BY <3>1, IndexOfFacts
    <3> QED BY <1>2, <1>3, <1>4, <2>1, <2>3, <3>2
  <2> QED BY <2>2, <2>3
<1>6. /\ tabs \in Seq(GoodTab) /\ tabs # <<>> /\ Apart(tabs)
      /\ PanesOf(tabs) = PanesOf(w.tabs) /\ IdsOf(tabs) = IdsOf(w.tabs)
  BY <1>0, <1>5, TabMoved DEF drop
<1>7. [rest EXCEPT !.tabs = InsertAt(@, to, w.tabs[i])] = u
  <2>1. [rest EXCEPT !.tabs = InsertAt(@, to, w.tabs[i])] = [rest EXCEPT !.tabs = tabs]
    BY <1>4
  <2> HIDE DEF tabs
  <2>2. [rest EXCEPT !.tabs = tabs] = [w EXCEPT !.tabs = tabs]
    BY <1>1, <1>2, <1>3, <1>6 DEF WorkspaceRecord
  <2> QED BY <2>1, <2>2
<1> HIDE DEF tabs
<1>8. Arranged(w, u) /\ u.tabs = tabs /\ u.active = w.active /\ u.recent = w.recent
  BY <1>6, ListArranged
<1> HIDE DEF u
<1>9. Focused(w) => Focused(u)
  <2>1. w.tabs # <<>>
    BY <1>0, <1>1
  <2>2. TabIds(u) = TabIds(w)
    BY <1>6, <1>8, TabIdsOf
  <2> QED BY <1>6, <1>8, <2>1, <2>2 DEF Focused
<1>10. WellFormed(u)
  BY <1>1, <1>8, WellFormedNumbered DEF Arranged
<1>11. Legal(w, u)
  BY <1>8, <1>9, <1>10 DEF Arranged, Legal
<1> QED BY <1>2, <1>7, <1>11

\* activate_tab, with or without the browser's list of recent tabs
LEMMA ActivateTabLegal ==
  ASSUME NEW w, Fit(w), NEW t \in TabIds(w), NEW recent \in Nat
  PROVE  /\ Legal(w, SetActive(w, t))
         /\ Legal(w, [w EXCEPT !.recent = FirstTwo(w, <<t, recent>>), !.active = t])
<1>1. /\ w \in WorkspaceRecord /\ w.tabs \in Seq(GoodTab) /\ Apart(w.tabs)
      /\ Numbered(w.tabs, w.nextTab) /\ PanesOf(w.tabs) \subseteq Names(w.members)
  BY FitParts
<1>2. Arranged(w, w)
  BY <1>1 DEF Arranged
<1>3. Legal(w, SetActive(w, t))
  BY <1>2, ActiveLegal
<1> DEFINE two == FirstTwo(w, <<t, recent>>)
           u == [w EXCEPT !.recent = two, !.active = t]
<1>4. t \in Nat
  <2>1. \A i \in 1..Len(w.tabs) : w.tabs[i] \in GoodTab
    BY FitParts
  <2> QED BY <2>1 DEF TabIds, GoodTab, Tab
<1>5. /\ two \in Seq(Nat) /\ Len(two) <= 2 /\ Elements(two) \subseteq TabIds(w)
      /\ two # <<>> /\ two[1] = t
  <2>1. <<t, recent>> \in Seq(Nat) /\ <<t, recent>> # <<>> /\ <<t, recent>>[1] = t
    BY <1>4
  <2> QED BY <2>1, FirstTwoFacts
<1> HIDE DEF two
<1>6. /\ u \in WorkspaceRecord /\ u.members = w.members /\ u.tabs = w.tabs
      /\ u.nextTab = w.nextTab /\ u.nextPane = w.nextPane
      /\ u.active = t /\ u.recent = two
  BY <1>1, <1>4, <1>5 DEF WorkspaceRecord
<1> HIDE DEF u
<1>7. Focused(u)
  <2>1. w.tabs # <<>>
    BY DEF TabIds
  <2>2. TabIds(u) = TabIds(w)
    BY <1>6 DEF TabIds
  <2> QED BY <1>5, <1>6, <2>1, <2>2 DEF Focused
<1>8. WellFormed(u)
  BY <1>1, <1>5, <1>6, WellFormedNumbered
<1>9. Legal(w, u)
  BY <1>1, <1>6, <1>7, <1>8 DEF Legal
<1> QED BY <1>3, <1>9 DEF u, two

\* A layout shows as many leaves as its tab has panes.
LEMMA OnceCardinality ==
  ASSUME NEW S, NEW s \in Seq(S), Once(s)
  PROVE  IsFiniteSet(Elements(s)) /\ Cardinality(Elements(s)) = Len(s)
<1>1. Len(s) \in Nat /\ s \in [1..Len(s) -> Elements(s)]
  BY DEF Elements
<1>2. s \in Bijection(1..Len(s), Elements(s))
  <2>1. s \in Injection(1..Len(s), Elements(s))
    BY <1>1 DEF Injection, IsInjective, Once
  <2>2. s \in Surjection(1..Len(s), Elements(s))
    BY <1>1 DEF Surjection, Elements
  <2> QED BY <2>1, <2>2 DEF Bijection
<1>3. IsFiniteSet(1..Len(s)) /\ Cardinality(1..Len(s)) = Len(s)
  <2>1. /\ IsFiniteSet(1..Len(s))
        /\ Cardinality(1..Len(s)) = IF 1 > Len(s) THEN 0 ELSE Len(s) - 1 + 1
    BY <1>1, FS_Interval, SMTT(30)
  <2> QED BY <1>1, <2>1
<1>4. ExistsBijection(1..Len(s), Elements(s))
  BY <1>2 DEF ExistsBijection
<1> QED BY <1>3, <1>4, FS_Bijection

\* A layout of as many leaves as panes that shows all of them shows each once.
LEMMA ArrangementOnce ==
  ASSUME NEW panes \in SUBSET Nat, IsFiniteSet(panes), NEW layout \in Arrangements(panes)
  PROVE  layout \in Seq(Nat) /\ Once(layout) /\ Elements(layout) = panes
<1> DEFINE n == Cardinality(panes)
<1>1. n \in Nat
  BY FS_CardinalityType
<1>2. layout \in [1..n -> panes] /\ Elements(layout) = panes
  BY DEF Arrangements
<1> HIDE DEF n
<1>3. layout \in Seq(Nat) /\ Len(layout) = n
  <2>1. layout \in [1..n -> Nat]
    BY <1>2
  <2> QED BY <1>1, <2>1
<1>4. layout \in Surjection(1..n, panes)
  BY <1>2, <1>3 DEF Surjection, Elements
<1>5. IsFiniteSet(1..n) /\ Cardinality(1..n) = Cardinality(panes)
  <2>1. /\ IsFiniteSet(1..n)
        /\ Cardinality(1..n) = IF 1 > n THEN 0 ELSE n - 1 + 1
    BY <1>1, FS_Interval
  <2>2. Cardinality(1..n) = n
    BY <1>1, <2>1
  <2> QED BY <2>1, <2>2 DEF n
<1>6. layout \in Injection(1..n, panes)
  BY <1>4, <1>5, FS_SurjSameCardinalityImpliesInj
<1>7. Once(layout)
  BY <1>3, <1>6 DEF Injection, IsInjective, Once
<1> QED BY <1>2, <1>3, <1>7

\* A tab with the same panes takes the place of one.
LEMMA RetabLegal ==
  ASSUME NEW w, Fit(w), NEW i \in 1..Len(w.tabs), NEW x \in GoodTab,
         x.id = w.tabs[i].id, x.panes = w.tabs[i].panes
  PROVE  /\ Arranged(w, [w EXCEPT !.tabs[i] = x])
         /\ TabIds([w EXCEPT !.tabs[i] = x]) = TabIds(w)
         /\ Legal(w, [w EXCEPT !.tabs[i] = x])
<1> DEFINE tabs == [w.tabs EXCEPT ![i] = x]
           u == [w EXCEPT !.tabs = tabs]
<1>1. /\ w \in WorkspaceRecord /\ w.tabs \in Seq(GoodTab) /\ Apart(w.tabs)
      /\ Len(w.recent) <= 2
  BY FitParts
<1>2. w.tabs[i].panes \subseteq PanesOf(w.tabs)
  BY DEF PanesOf
<1>3. /\ tabs \in Seq(GoodTab) /\ Len(tabs) = Len(w.tabs) /\ Apart(tabs)
      /\ PanesOf(tabs) = (PanesOf(w.tabs) \ w.tabs[i].panes) \cup x.panes
      /\ IdsOf(tabs) = IdsOf(w.tabs)
  <2>1. x.panes \cap (PanesOf(w.tabs) \ w.tabs[i].panes) = {}
    OBVIOUS
  <2> QED BY <1>1, <2>1, ReplaceTabs
<1>4. u = [w EXCEPT !.tabs[i] = x]
  OBVIOUS
<1>5. PanesOf(tabs) = PanesOf(w.tabs)
  BY <1>2, <1>3
<1> HIDE DEF tabs
<1>6. Arranged(w, u) /\ u.tabs = tabs /\ u.active = w.active /\ u.recent = w.recent
  BY <1>3, <1>5, ListArranged
<1> HIDE DEF u
<1>7. TabIds(u) = TabIds(w)
  BY <1>3, <1>6, TabIdsOf
<1>8. Focused(w) => Focused(u)
  <2>1. w.tabs # <<>> /\ tabs # <<>>
    BY <1>1, <1>3
  <2> QED BY <1>6, <1>7, <2>1 DEF Focused
<1>9. WellFormed(u)
  BY <1>1, <1>6, WellFormedNumbered DEF Arranged
<1>10. Legal(w, u)
  BY <1>6, <1>8, <1>9 DEF Arranged, Legal
<1> QED BY <1>4, <1>6, <1>7, <1>10

\* activate_pane
LEMMA ActivatePaneLegal ==
  ASSUME NEW w, Fit(w), NEW t \in TabIds(w), NEW id \in w.tabs[IndexOf(w, t)].panes
  PROVE  Legal(w, SetActive([w EXCEPT !.tabs[IndexOf(w, t)].active = id], t))
<1> DEFINE i == IndexOf(w, t)
           x == [w.tabs[i] EXCEPT !.active = id]
           u == [w EXCEPT !.tabs[i] = x]
<1>1. i \in 1..Len(w.tabs)
  BY IndexOfFacts
<1>2. w.tabs[i] \in GoodTab
  BY <1>1, FitParts
<1>3. u = [w EXCEPT !.tabs[i].active = id]
  OBVIOUS
<1>4. x \in GoodTab /\ x.id = w.tabs[i].id /\ x.panes = w.tabs[i].panes
  BY <1>2 DEF GoodTab, Tab
<1> HIDE DEF i, x
<1>5. Arranged(w, u) /\ TabIds(u) = TabIds(w)
  BY <1>1, <1>4, RetabLegal
<1> HIDE DEF u
<1>6. Legal(w, SetActive(u, t))
  BY <1>5, ActiveLegal
<1> QED BY <1>3, <1>6 DEF i

\* update_layout
LEMMA UpdateLayoutLegal ==
  ASSUME NEW w, Fit(w), NEW t \in TabIds(w),
         NEW active \in w.tabs[IndexOf(w, t)].panes \cup {None},
         NEW layout \in Arrangements(w.tabs[IndexOf(w, t)].panes),
         NEW x, x = [w.tabs[IndexOf(w, t)] EXCEPT
                        !.layout = layout,
                        !.active = IF active = None THEN w.tabs[IndexOf(w, t)].active
                                   ELSE active]
  PROVE  Legal(w, [w EXCEPT !.tabs[IndexOf(w, t)] = x])
<1> DEFINE i == IndexOf(w, t)
           a == IF active = None THEN w.tabs[i].active ELSE active
<1>1. i \in 1..Len(w.tabs)
  BY IndexOfFacts
<1>2. w.tabs[i] \in GoodTab
  BY <1>1, FitParts
<1>3. x = [w.tabs[i] EXCEPT !.layout = layout, !.active = a]
  OBVIOUS
<1>4. layout \in Seq(Nat) /\ Once(layout) /\ Elements(layout) = w.tabs[i].panes
  <2>1. w.tabs[i].panes \in SUBSET Nat /\ w.tabs[i].layout \in Seq(Nat)
        /\ Once(w.tabs[i].layout) /\ Elements(w.tabs[i].layout) = w.tabs[i].panes
    BY <1>2 DEF GoodTab, Tab
  <2>2. IsFiniteSet(w.tabs[i].panes)
    BY <2>1, OnceCardinality
  <2> QED BY <2>1, <2>2, ArrangementOnce
<1>5. a \in w.tabs[i].panes
  BY <1>2 DEF GoodTab
<1> HIDE DEF i, a
<1>6. x \in GoodTab /\ x.id = w.tabs[i].id /\ x.panes = w.tabs[i].panes
  BY <1>2, <1>3, <1>4, <1>5 DEF GoodTab, Tab
<1>7. Legal(w, [w EXCEPT !.tabs[i] = x])
  BY <1>1, <1>6, RetabLegal
<1> QED BY <1>7 DEF i

\* close_other_tabs
LEMMA CloseOtherTabsLegal ==
  ASSUME NEW w, Fit(w), NEW t \in TabIds(w), NEW tab, tab = w.tabs[IndexOf(w, t)]
  PROVE  Legal(w, SetActive([w EXCEPT !.tabs = <<tab>>,
                                !.members = {p \in @ : pane[p].id \in tab.panes}], t))
<1> DEFINE m == {p \in w.members : pane[p].id \in tab.panes}
           u == [w EXCEPT !.tabs = <<tab>>, !.members = m]
<1>1. /\ w \in WorkspaceRecord /\ w.tabs \in Seq(GoodTab)
      /\ Numbered(w.tabs, w.nextTab) /\ PanesOf(w.tabs) \subseteq Names(w.members)
      /\ w.members \in SUBSET Panes
  BY FitParts
<1>2. IndexOf(w, t) \in 1..Len(w.tabs) /\ tab.id = t
  BY IndexOfFacts
<1>3. tab \in GoodTab /\ tab.panes \subseteq PanesOf(w.tabs) /\ t \in IdsOf(w.tabs)
  <2>1. tab \in GoodTab
    BY <1>2, FitParts
  <2> QED BY <1>2, <2>1, TabIdsOf DEF PanesOf
<1>4. m \in SUBSET Panes /\ m \subseteq w.members
  BY <1>1
<1>5. Names(m) = tab.panes
  <2>1. Names(m) = Names(w.members) \cap tab.panes
    BY DEF Names
  <2> QED BY <1>1, <1>3, <2>1
<1> HIDE DEF m
<1>6. <<tab>> \in Seq(GoodTab) /\ Len(<<tab>>) = 1 /\ <<tab>>[1] = tab
  BY <1>3
<1>7. Apart(<<tab>>) /\ PanesOf(<<tab>>) = tab.panes /\ IdsOf(<<tab>>) = {t}
  <2>1. \A i \in 1..Len(<<tab>>) : i = 1
    BY <1>6
  <2>2. 1 \in 1..Len(<<tab>>)
    BY <1>6
  <2> QED BY <1>2, <1>6, <2>1, <2>2 DEF Apart, PanesOf, IdsOf
<1> DEFINE tabs == <<tab>>
<1> HIDE DEF tabs
<1>8. [w EXCEPT !.tabs = <<tab>>, !.members = m] = [w EXCEPT !.tabs = tabs, !.members = m]
  BY DEF tabs
<1>9. /\ u \in WorkspaceRecord /\ u.tabs = tabs /\ u.members = m
      /\ u.nextTab = w.nextTab /\ u.nextPane = w.nextPane
  <2>1. tabs \in Seq(GoodTab)
    BY <1>6 DEF tabs
  <2> QED BY <1>1, <1>4, <1>8, <2>1 DEF WorkspaceRecord
<1> HIDE DEF u
<1>10. Numbered(u.tabs, u.nextTab)
  <2>1. \A n \in IdsOf(w.tabs) : 0 < n /\ n < w.nextTab
    BY <1>1, IdsNumbered
  <2>2. \A n \in IdsOf(u.tabs) : 0 < n /\ n < u.nextTab
    BY <1>3, <1>7, <1>9, <2>1 DEF tabs
  <2> QED BY <2>2, NumberedIds
<1>11. Arranged(w, u) /\ t \in TabIds(u)
  BY <1>4, <1>5, <1>7, <1>9, <1>10, TabIdsOf DEF Arranged, tabs
<1>12. Legal(w, SetActive(u, t))
  BY <1>11, ActiveLegal
<1> QED BY <1>12 DEF u, m

\* A tab that shows no pane of another one
New(tab, tabs) == tab.id \notin IdsOf(tabs) /\ tab.panes \cap PanesOf(tabs) = {}

\* One tab more
Added(u, v, tab) ==
    /\ v \in WorkspaceRecord /\ Apart(v.tabs)
    /\ PanesOf(v.tabs) = PanesOf(u.tabs) \cup tab.panes
    /\ IdsOf(v.tabs) = IdsOf(u.tabs) \cup {tab.id}
    /\ v.members = u.members /\ v.nextTab = u.nextTab /\ v.nextPane = u.nextPane

\* A tab is put behind its source, behind the active one or last.
LEMMA InsertTabFacts ==
  ASSUME NEW u \in WorkspaceRecord, Apart(u.tabs), NEW tab \in GoodTab, New(tab, u.tabs),
         NEW source
  PROVE  Added(u, InsertTab(u, tab, source), tab)
<1> DEFINE anchor == IF source \in TabIds(u) THEN source ELSE u.active
           at     == IF anchor \in TabIds(u) THEN IndexOf(u, anchor) + 1
                     ELSE Len(u.tabs) + 1
           tabs   == InsertAt(u.tabs, at, tab)
           v      == [u EXCEPT !.tabs = tabs]
<1>1. u.tabs \in Seq(GoodTab) /\ Len(u.tabs) \in Nat
  BY DEF WorkspaceRecord
<1>2. InsertTab(u, tab, source) = v
  BY DEF InsertTab
<1>3. anchor \in TabIds(u) => IndexOf(u, anchor) \in 1..Len(u.tabs)
  BY IndexOfFacts
<1> HIDE DEF anchor
<1>4. at \in 1..(Len(u.tabs) + 1)
  BY <1>1, <1>3
<1> HIDE DEF at
<1>5. /\ tabs \in Seq(GoodTab) /\ Apart(tabs)
      /\ PanesOf(tabs) = PanesOf(u.tabs) \cup tab.panes
      /\ IdsOf(tabs) = IdsOf(u.tabs) \cup {tab.id}
  BY <1>1, <1>4, InsertTabs DEF New
<1> HIDE DEF tabs
<1>6. /\ v \in WorkspaceRecord /\ v.tabs = tabs /\ v.members = u.members
      /\ v.nextTab = u.nextTab /\ v.nextPane = u.nextPane
  BY <1>5 DEF WorkspaceRecord
<1> HIDE DEF v
<1> QED BY <1>2, <1>5, <1>6 DEF Added

\* A tab of a single pane
LEMMA SingleTabGood ==
  ASSUME NEW t \in Nat, NEW id \in Nat
  PROVE  /\ SingleTab(t, id) \in GoodTab
         /\ SingleTab(t, id).id = t /\ SingleTab(t, id).panes = {id}
<1> DEFINE layout == <<id>>
<1>1. layout \in Seq(Nat) /\ Elements(layout) = {id} /\ Once(layout)
  <2>1. Len(layout) = 1 /\ layout[1] = id /\ layout \in Seq(Nat)
    OBVIOUS
  <2>2. \A i \in 1..Len(layout) : i = 1
    BY <2>1
  <2>3. 1 \in 1..Len(layout)
    BY <2>1
  <2> HIDE DEF layout
  <2> QED BY <2>1, <2>2, <2>3 DEF Elements, Once
<1>2. SingleTab(t, id) = [id |-> t, panes |-> {id}, layout |-> layout, active |-> id]
  BY DEF SingleTab
<1> HIDE DEF layout
<1> DEFINE tab == [id |-> t, panes |-> {id}, layout |-> layout, active |-> id]
<1>3. tab \in Tab /\ tab.id = t /\ tab.panes = {id} /\ tab.layout = layout /\ tab.active = id
  BY <1>1 DEF Tab
<1> HIDE DEF tab
<1>4. tab \in GoodTab
  BY <1>1, <1>3 DEF GoodTab
<1> QED BY <1>2, <1>3, <1>4 DEF tab

\* The pane has left its tab and the identity of a new one is taken.
SplitOff(w, t, id, next) ==
    [w EXCEPT !.tabs[IndexOf(w, t)] = Detached(@, id, next), !.nextTab = @ + 1]

\* move_pane_to_tab
LEMMA MovePaneLegal ==
  ASSUME NEW w, Fit(w), NEW t \in TabIds(w), NEW id \in w.tabs[IndexOf(w, t)].panes,
         Cardinality(w.tabs[IndexOf(w, t)].panes) > 1, NEW next,
         NEW u, u = SplitOff(w, t, id, next)
  PROVE  Legal(w, SetActive(InsertTab(u, SingleTab(w.nextTab, id), t), w.nextTab))
<1> DEFINE i == IndexOf(w, t)
           x == Detached(w.tabs[i], id, next)
           tabs == [w.tabs EXCEPT ![i] = x]
           n == w.nextTab + 1
<1>1. /\ w \in WorkspaceRecord /\ w.tabs \in Seq(GoodTab) /\ Apart(w.tabs)
      /\ Numbered(w.tabs, w.nextTab) /\ PanesOf(w.tabs) \subseteq Names(w.members)
      /\ w.nextTab \in Nat \ {0}
  BY FitParts
<1>2. i \in 1..Len(w.tabs) /\ w.tabs[i].id = t
  BY IndexOfFacts
<1>3. w.tabs[i] \in GoodTab
  BY <1>2, FitParts
<1>4. w.tabs[i].panes \ {id} # {}
  <2>1. Cardinality({id}) = 1
    BY FS_Singleton
  <2>2. w.tabs[i].panes \ {id} = {} => w.tabs[i].panes = {id}
    OBVIOUS
  <2>3. Cardinality(w.tabs[i].panes) > 1
    OBVIOUS
  <2> QED BY <2>1, <2>2, <2>3
<1>5. u = [w EXCEPT !.tabs = tabs, !.nextTab = n]
  BY DEF SplitOff
<1> HIDE DEF i
<1>6. x \in GoodTab /\ x.id = w.tabs[i].id /\ x.panes = w.tabs[i].panes \ {id}
  BY <1>3, <1>4, DetachedFacts DEF i
<1>7. w.tabs[i].panes \subseteq PanesOf(w.tabs) /\ id \in w.tabs[i].panes
  BY <1>2 DEF PanesOf, i
<1> HIDE DEF x
<1>8. /\ tabs \in Seq(GoodTab) /\ Apart(tabs)
      /\ PanesOf(tabs) = (PanesOf(w.tabs) \ w.tabs[i].panes) \cup x.panes
      /\ IdsOf(tabs) = IdsOf(w.tabs)
  <2>1. x.panes \cap (PanesOf(w.tabs) \ w.tabs[i].panes) = {}
    BY <1>6
  <2> QED BY <1>1, <1>2, <1>6, <2>1, ReplaceTabs, SMTT(30)
<1> HIDE DEF tabs
<1>9. PanesOf(tabs) = PanesOf(w.tabs) \ {id}
  <2>1. \A j \in 1..Len(w.tabs) : j # i => id \notin w.tabs[j].panes
    BY <1>1, <1>2, <1>7 DEF Apart
  <2> QED BY <1>6, <1>7, <1>8
<1>10. n \in Nat \ {0} /\ w.nextTab < n
  BY <1>1
<1> HIDE DEF n
<1>11. /\ u \in WorkspaceRecord /\ u.tabs = tabs /\ u.members = w.members
       /\ u.nextTab = n /\ u.nextPane = w.nextPane
  BY <1>1, <1>5, <1>8, <1>10 DEF WorkspaceRecord
<1>12. \A k \in IdsOf(w.tabs) : 0 < k /\ k < w.nextTab
  BY <1>1, IdsNumbered
<1>13. IdsOf(w.tabs) \subseteq Nat
  BY FitParts DEF IdsOf, GoodTab, Tab
<1> DEFINE tab == SingleTab(w.nextTab, id)
           v == InsertTab(u, tab, t)
<1>14. id \in Nat
  BY <1>3, <1>7 DEF GoodTab, Tab
<1>15. tab \in GoodTab /\ tab.id = w.nextTab /\ tab.panes = {id}
  BY <1>1, <1>14, SingleTabGood
<1> HIDE DEF tab
<1>16. New(tab, u.tabs)
  <2>1. tab.id \notin IdsOf(u.tabs)
    BY <1>1, <1>8, <1>11, <1>12, <1>13, <1>15
  <2>2. tab.panes \cap PanesOf(u.tabs) = {}
    BY <1>9, <1>11, <1>15
  <2> QED BY <2>1, <2>2 DEF New
<1>17. Added(u, v, tab)
  <2>1. Apart(u.tabs)
    BY <1>8, <1>11
  <2> QED BY <1>11, <1>15, <1>16, <2>1, InsertTabFacts
<1> HIDE DEF v
<1>18. PanesOf(v.tabs) = PanesOf(w.tabs)
  BY <1>7, <1>9, <1>11, <1>15, <1>17 DEF Added
<1>19. Numbered(v.tabs, v.nextTab)
  <2>1. \A k \in IdsOf(v.tabs) : 0 < k /\ k < v.nextTab
    <3>1. IdsOf(v.tabs) = IdsOf(w.tabs) \cup {w.nextTab} /\ v.nextTab = n
      BY <1>8, <1>11, <1>15, <1>17 DEF Added
    <3>2. n = w.nextTab + 1
      BY DEF n
    <3> QED BY <1>1, <1>12, <1>13, <3>1, <3>2
  <2> QED BY <2>1, NumberedIds
<1>20. Arranged(w, v)
  BY <1>1, <1>11, <1>17, <1>18, <1>19 DEF Arranged, Added
<1>21. w.nextTab \in TabIds(v)
  BY <1>15, <1>17, TabIdsOf DEF Added
<1>22. Legal(w, SetActive(v, w.nextTab))
  BY <1>20, <1>21, ActiveLegal
<1> QED BY <1>22 DEF v, tab

-----------------------------------------------------------------------------
(* The operations that enter a new pane p, whose name id is not taken.     *)

\* A workspace with the pane, of which only the focus is to be set.
Joined(w, u, p, id) ==
    /\ u \in WorkspaceRecord /\ Apart(u.tabs) /\ Numbered(u.tabs, u.nextTab)
    /\ u.members \subseteq w.members \cup {p} /\ p \in u.members
    /\ u.nextPane = w.nextPane
    /\ PanesOf(u.tabs) \subseteq Names(u.members \ {p}) \cup {id}
    /\ Names(w.members) \subseteq PanesOf(w.tabs) =>
          Names(u.members \ {p}) \subseteq PanesOf(u.tabs)
    /\ id \in PanesOf(u.tabs)

Grown(w, v, p, id) ==
    /\ WellFormed(v)
    /\ Joined(w, v, p, id)
    /\ Focused(v)

\* The tab that took the new pane in is activated.
LEMMA JoinedGrown ==
  ASSUME NEW w, NEW u, NEW p, NEW id, Joined(w, u, p, id), NEW t \in TabIds(u)
  PROVE  Grown(w, SetActive(u, t), p, id) /\ SetActive(u, t).members = u.members
<1> DEFINE v == SetActive(u, t)
<1>1. None \notin TabIds(u)
  BY NoTabZero DEF Joined
<1>2. v \in WorkspaceRecord /\ SameTabs(u, v) /\ Len(v.recent) <= 2 /\ Focused(v)
  BY <1>1, SetActiveFacts DEF Joined
<1> HIDE DEF v
<1>3. Joined(w, v, p, id)
  BY <1>2 DEF Joined, SameTabs
<1>4. WellFormed(v)
  BY <1>2, <1>3, WellFormedNumbered DEF Joined
<1>5. Grown(w, v, p, id) /\ v.members = u.members
  BY <1>2, <1>3, <1>4 DEF Grown, SameTabs
<1> QED BY <1>5 DEF v

\* A pane of a name not taken joins the map.
LEMMA WithMemberFacts ==
  ASSUME NEW w \in WorkspaceRecord, NEW p \in Panes, NEW id, id \notin Names(w.members)
  PROVE  /\ WithMember(w, p, id) = [w EXCEPT !.members = w.members \cup {p}]
         /\ WithMember(w, p, id) \in WorkspaceRecord
         /\ WithMember(w, p, id).members = w.members \cup {p}
         /\ WithMember(w, p, id).tabs = w.tabs
         /\ WithMember(w, p, id).active = w.active
         /\ WithMember(w, p, id).recent = w.recent
         /\ WithMember(w, p, id).nextTab = w.nextTab
         /\ WithMember(w, p, id).nextPane = w.nextPane
<1> DEFINE m == w.members \cup {p}
           v == [w EXCEPT !.members = m]
<1>1. Member(w, id) = {}
  BY DEF Member, Names
<1>2. m = (w.members \ Member(w, id)) \cup {p}
  BY <1>1
<1>3. WithMember(w, p, id) = v
  BY <1>2 DEF WithMember
<1>4. m \in SUBSET Panes
  BY DEF WorkspaceRecord
<1> HIDE DEF m
<1>5. /\ v \in WorkspaceRecord /\ v.members = m /\ v.tabs = w.tabs /\ v.active = w.active
      /\ v.recent = w.recent /\ v.nextTab = w.nextTab /\ v.nextPane = w.nextPane
  BY <1>4 DEF WorkspaceRecord
<1> HIDE DEF v
<1> QED BY <1>3, <1>5 DEF m, v

\* createTabLocked: the pane gets a tab of its own.
LEMMA AddTabGrown ==
  ASSUME NEW w, Fit(w), NEW p \in Panes, p \notin w.members,
         NEW id \in Nat, id \notin Names(w.members), NEW source
  PROVE  /\ Grown(w, AddTab(w, p, id, source), p, id)
         /\ AddTab(w, p, id, source).members = w.members \cup {p}
<1> DEFINE t == w.nextTab
           n == t + 1
           base == WithMember(w, p, id)
           u == [base EXCEPT !.nextTab = n]
           tab == SingleTab(t, id)
           v == InsertTab(u, tab, source)
<1>1. /\ w \in WorkspaceRecord /\ Apart(w.tabs) /\ Numbered(w.tabs, w.nextTab)
      /\ PanesOf(w.tabs) \subseteq Names(w.members) /\ t \in Nat \ {0}
  BY FitParts
<1>2. /\ base \in WorkspaceRecord /\ base.members = w.members \cup {p}
      /\ base.tabs = w.tabs /\ base.nextTab = w.nextTab /\ base.nextPane = w.nextPane
  BY <1>1, WithMemberFacts
<1>3. AddTab(w, p, id, source) = SetActive(v, t)
  BY DEF AddTab
<1>4. n \in Nat \ {0} /\ t < n
  BY <1>1
<1>5. tab \in GoodTab /\ tab.id = t /\ tab.panes = {id}
  BY <1>1, SingleTabGood
<1> HIDE DEF base, n, tab
<1>6. /\ u \in WorkspaceRecord /\ u.members = w.members \cup {p} /\ u.tabs = w.tabs
      /\ u.nextTab = n /\ u.nextPane = w.nextPane
  BY <1>2, <1>4 DEF WorkspaceRecord
<1> HIDE DEF u
<1>7. \A k \in IdsOf(w.tabs) : 0 < k /\ k < t
  BY <1>1, IdsNumbered
<1>8. IdsOf(w.tabs) \subseteq Nat
  BY FitParts DEF IdsOf, GoodTab, Tab
<1>9. New(tab, u.tabs)
  <2>1. tab.id \notin IdsOf(u.tabs)
    BY <1>1, <1>5, <1>6, <1>7, <1>8
  <2>2. tab.panes \cap PanesOf(u.tabs) = {}
    BY <1>1, <1>5, <1>6
  <2> QED BY <2>1, <2>2 DEF New
<1>10. Added(u, v, tab)
  <2>1. Apart(u.tabs)
    BY <1>1, <1>6
  <2> QED BY <1>5, <1>6, <1>9, <2>1, InsertTabFacts
<1> HIDE DEF v
<1>11. /\ v \in WorkspaceRecord /\ Apart(v.tabs)
       /\ PanesOf(v.tabs) = PanesOf(w.tabs) \cup {id}
       /\ IdsOf(v.tabs) = IdsOf(w.tabs) \cup {t}
       /\ v.members = w.members \cup {p} /\ v.nextTab = n /\ v.nextPane = w.nextPane
  BY <1>5, <1>6, <1>10 DEF Added
<1>12. Numbered(v.tabs, v.nextTab)
  <2>1. \A k \in IdsOf(v.tabs) : 0 < k /\ k < v.nextTab
    <3>1. n = t + 1
      BY DEF n
    <3> QED BY <1>1, <1>7, <1>8, <1>11, <3>1
  <2> QED BY <2>1, NumberedIds
<1>13. v.members \ {p} = w.members
  BY <1>11
<1>14. Joined(w, v, p, id)
  BY <1>1, <1>11, <1>12, <1>13 DEF Joined
<1>15. t \in TabIds(v)
  BY <1>11, TabIdsOf
<1>16. Grown(w, SetActive(v, t), p, id) /\ SetActive(v, t).members = v.members
  BY Zenon, <1>14, <1>15, JoinedGrown
<1> QED BY <1>3, <1>11, <1>16

\* A tab x in which the new pane stands, in addition or in place of those that are
\* gone, of which kept remain.
Refilled(w, i, x, gone, kept, id) ==
    /\ x \in GoodTab /\ x.id = w.tabs[i].id
    /\ gone \subseteq w.tabs[i].panes
    /\ x.panes = (w.tabs[i].panes \ gone) \cup {id}
    /\ kept \subseteq w.members /\ Names(kept) = Names(w.members) \ gone

Entered(w, i, x, m) == [w EXCEPT !.tabs[i] = x, !.members = m]

\* A tab is replaced by one that has the new pane besides or instead of some.
LEMMA TabJoined ==
  ASSUME NEW w, Fit(w), NEW p \in Panes, p \notin w.members,
         NEW id \in Nat, id \notin Names(w.members),
         NEW i \in 1..Len(w.tabs), NEW x, NEW gone, NEW kept,
         Refilled(w, i, x, gone, kept, id)
  PROVE  /\ Joined(w, Entered(w, i, x, kept \cup {p}), p, id)
         /\ TabIds(Entered(w, i, x, kept \cup {p})) = TabIds(w)
         /\ Entered(w, i, x, kept \cup {p}).members = kept \cup {p}
<1> DEFINE tabs == [w.tabs EXCEPT ![i] = x]
           m == kept \cup {p}
           u == [w EXCEPT !.tabs[i] = x, !.members = m]
<1>0. /\ x \in GoodTab /\ x.id = w.tabs[i].id /\ gone \subseteq w.tabs[i].panes
      /\ x.panes = (w.tabs[i].panes \ gone) \cup {id}
      /\ kept \in SUBSET w.members /\ Names(kept) = Names(w.members) \ gone
  BY DEF Refilled
<1>1. /\ w \in WorkspaceRecord /\ w.tabs \in Seq(GoodTab) /\ Apart(w.tabs)
      /\ Numbered(w.tabs, w.nextTab) /\ PanesOf(w.tabs) \subseteq Names(w.members)
      /\ w.members \in SUBSET Panes
  BY FitParts
<1>2. w.tabs[i].panes \subseteq PanesOf(w.tabs)
  BY DEF PanesOf
<1>3. m \in SUBSET Panes
  BY <1>0, <1>1
<1>4. /\ tabs \in Seq(GoodTab) /\ Apart(tabs)
      /\ PanesOf(tabs) = (PanesOf(w.tabs) \ w.tabs[i].panes) \cup x.panes
      /\ IdsOf(tabs) = IdsOf(w.tabs)
  <2>1. x.panes \cap (PanesOf(w.tabs) \ w.tabs[i].panes) = {}
    BY <1>0, <1>1
  <2> QED BY <1>0, <1>1, <2>1, ReplaceTabs
<1>5. /\ u \in WorkspaceRecord /\ u.tabs = tabs /\ u.members = m
      /\ u.nextTab = w.nextTab /\ u.nextPane = w.nextPane
  BY <1>0, <1>1, <1>3, WithTab DEF WorkspaceRecord
<1>6. PanesOf(tabs) = (PanesOf(w.tabs) \ gone) \cup {id}
  <2>1. gone \cap (PanesOf(w.tabs) \ w.tabs[i].panes) = {}
    BY <1>0
  <2> HIDE DEF tabs
  <2> QED BY <1>0, <1>2, <1>4, <2>1
<1>7. m \ {p} = kept
  BY <1>0, <1>1
<1>11. m \subseteq w.members \cup {p} /\ p \in m
  BY <1>0
<1> HIDE DEF tabs, u, m
<1>8. Numbered(u.tabs, u.nextTab)
  <2>1. \A n \in IdsOf(w.tabs) : 0 < n /\ n < w.nextTab
    BY <1>1, IdsNumbered
  <2>2. \A n \in IdsOf(u.tabs) : 0 < n /\ n < u.nextTab
    BY <1>4, <1>5, <2>1
  <2> QED BY <2>2, NumberedIds
<1>9. Joined(w, u, p, id)
  BY <1>0, <1>1, <1>4, <1>5, <1>6, <1>7, <1>8, <1>11 DEF Joined
<1>10. TabIds(u) = TabIds(w)
  BY <1>4, <1>5, TabIdsOf
<1> QED BY <1>5, <1>9, <1>10 DEF u, m, Entered

\* The tab of a split, and of a restart
SplitTab(tab, id, new) ==
    [tab EXCEPT !.panes = @ \cup {new}, !.active = new,
                !.layout = InsertAt(tab.layout, IndexIn(tab.layout, id) + 1, new)]

RestartedTab(tab, id, new) ==
    LET swap(x) == IF x = id THEN new ELSE x
    IN  [tab EXCEPT !.panes = (@ \ {id}) \cup {new},
                    !.layout = [i \in DOMAIN @ |-> swap(@[i])],
                    !.active = swap(@)]

\* The tab after a split
LEMMA SplitTabFacts ==
  ASSUME NEW tab \in GoodTab, NEW id \in tab.panes, NEW new \in Nat, new \notin tab.panes
  PROVE  /\ SplitTab(tab, id, new) \in GoodTab /\ SplitTab(tab, id, new).id = tab.id
         /\ SplitTab(tab, id, new).panes = tab.panes \cup {new}
<1> DEFINE at == IndexIn(tab.layout, id) + 1
           layout == InsertAt(tab.layout, at, new)
           panes == tab.panes \cup {new}
           x == [tab EXCEPT !.panes = panes, !.active = new, !.layout = layout]
<1>1. /\ tab \in Tab /\ tab.layout \in Seq(Nat) /\ tab.panes \in SUBSET Nat
      /\ Elements(tab.layout) = tab.panes /\ Once(tab.layout) /\ Len(tab.layout) \in Nat
  BY DEF GoodTab, Tab
<1>2. IndexIn(tab.layout, id) \in 1..Len(tab.layout)
  BY <1>1, IndexInFacts
<1>3. at \in 1..(Len(tab.layout) + 1)
  BY <1>1, <1>2
<1> HIDE DEF at
<1>4. new \notin Elements(tab.layout)
  BY <1>1
<1>5. layout \in Seq(Nat) /\ Once(layout) /\ Elements(layout) = Elements(tab.layout) \cup {new}
  <2>1. layout \in Seq(Nat)
    BY <1>1, <1>3, InsertAtFacts
  <2>2. Elements(layout) = Elements(tab.layout) \cup {new}
    <3> DEFINE old == tab.layout
    <3>1. old \in Seq(Nat) /\ at \in 1..(Len(old) + 1) /\ layout = InsertAt(old, at, new)
      BY <1>1, <1>3
    <3> HIDE DEF old, layout
    <3>2. Elements(InsertAt(old, at, new)) = Elements(old) \cup {new}
      BY <3>1, InsertElements
    <3> QED BY <3>1, <3>2 DEF old
  <2>3. Once(layout)
    BY <1>1, <1>3, <1>4, InsertOnce
  <2> QED BY <2>1, <2>2, <2>3
<1>6. SplitTab(tab, id, new) = x
  BY DEF SplitTab, at
<1>7. panes \in SUBSET Nat /\ panes # {} /\ new \in panes /\ Elements(layout) = panes
  BY <1>1, <1>5
<1>8. panes = tab.panes \cup {new}
  OBVIOUS
<1> HIDE DEF layout, panes
<1>9. x \in Tab /\ x.id = tab.id /\ x.panes = panes /\ x.layout = layout /\ x.active = new
  BY <1>1, <1>5, <1>7 DEF Tab
<1> HIDE DEF x
<1>10. x \in GoodTab
  BY <1>5, <1>7, <1>9 DEF GoodTab
<1> QED BY <1>6, <1>8, <1>9, <1>10

\* The tab after a restart: the new pane has the place of the old one.
LEMMA RestartedTabFacts ==
  ASSUME NEW tab \in GoodTab, NEW id \in tab.panes, NEW new \in Nat, new \notin tab.panes
  PROVE  /\ RestartedTab(tab, id, new) \in GoodTab /\ RestartedTab(tab, id, new).id = tab.id
         /\ RestartedTab(tab, id, new).panes = (tab.panes \ {id}) \cup {new}
<1> DEFINE old == tab.layout
           n == Len(old)
           layout == [i \in 1..n |-> IF old[i] = id THEN new ELSE old[i]]
           panes == (tab.panes \ {id}) \cup {new}
           active == IF tab.active = id THEN new ELSE tab.active
           x == [tab EXCEPT !.panes = panes, !.layout = layout, !.active = active]
<1>1. /\ tab \in Tab /\ old \in Seq(Nat) /\ tab.panes \in SUBSET Nat
      /\ Elements(old) = tab.panes /\ Once(old) /\ n \in Nat
      /\ tab.active \in tab.panes
  BY DEF GoodTab, Tab
<1>2. DOMAIN old = 1..n /\ \A i \in 1..n : old[i] \in Nat
  BY <1>1
<1>3. RestartedTab(tab, id, new) = x
  BY <1>2 DEF RestartedTab
<1>4. layout \in [1..n -> Nat]
  BY <1>2
<1>5. layout \in Seq(Nat) /\ Len(layout) = n
        /\ \A i \in 1..n : layout[i] = IF old[i] = id THEN new ELSE old[i]
  <2>1. \A i \in 1..n : layout[i] = IF old[i] = id THEN new ELSE old[i]
    OBVIOUS
  <2> HIDE DEF layout, n
  <2> QED BY <1>1, <1>4, <2>1
<1>6. \A i \in 1..n : old[i] # new
  BY <1>1 DEF Elements
<1>7. Once(layout)
  <2> HIDE DEF layout
  <2>1. ASSUME NEW i \in 1..n, NEW j \in 1..n, layout[i] = layout[j] PROVE i = j
    <3>1. old[i] = old[j]
      BY <1>5, <1>6, <2>1
    <3> QED BY <1>1, <3>1 DEF Once
  <2> QED BY <1>5, <2>1 DEF Once
<1>8. Elements(layout) = panes
  <2> HIDE DEF layout
  <2>1. PICK k \in 1..n : old[k] = id
    BY <1>1 DEF Elements
  <2>2. layout[k] = new
    BY <1>5, <2>1
  <2>3. \A i \in 1..n : layout[i] = new \/ (layout[i] = old[i] /\ old[i] # id)
    BY <1>5
  <2>4. Elements(layout) \subseteq panes
    BY <1>1, <1>5, <2>3 DEF Elements
  <2>5. ASSUME NEW y \in tab.panes, y # id PROVE y \in Elements(layout)
    <3>1. PICK j \in 1..n : old[j] = y
      BY <1>1 DEF Elements
    <3>2. layout[j] = y
      BY <1>5, <2>5, <3>1
    <3> QED BY <1>5, <3>2 DEF Elements
  <2>6. new \in Elements(layout)
    BY <1>5, <2>1, <2>2 DEF Elements
  <2> QED BY <2>4, <2>5, <2>6
<1>9. panes \in SUBSET Nat /\ panes # {} /\ active \in panes
  BY <1>1
<1>10. panes = (tab.panes \ {id}) \cup {new}
  OBVIOUS
<1> HIDE DEF layout, panes, active, n
<1>11. x \in Tab /\ x.id = tab.id /\ x.panes = panes /\ x.layout = layout /\ x.active = active
  BY <1>1, <1>5, <1>9 DEF Tab
<1> HIDE DEF x
<1>12. x \in GoodTab
  BY <1>7, <1>8, <1>9, <1>11 DEF GoodTab
<1> QED BY <1>3, <1>10, <1>11, <1>12

\* split_pane
LEMMA SplitGrown ==
  ASSUME NEW w, Fit(w), NEW p \in Panes, p \notin w.members,
         NEW new \in Nat, new \notin Names(w.members),
         NEW t \in TabIds(w), NEW id \in w.tabs[IndexOf(w, t)].panes, NEW b, b = WithMember(w, p, new)
  PROVE  /\ Grown(w, SetActive([b EXCEPT !.tabs[IndexOf(b, t)] =
                          SplitTab(w.tabs[IndexOf(w, t)], id, new)], t), p, new)
         /\ SetActive([b EXCEPT !.tabs[IndexOf(b, t)] =
                          SplitTab(w.tabs[IndexOf(w, t)], id, new)], t).members
               = w.members \cup {p}
<1> DEFINE i == IndexOf(w, t)
           tab == w.tabs[i]
           x == SplitTab(tab, id, new)
           kept == w.members
           m == kept \cup {p}
           u == Entered(w, i, x, m)
<1>1. /\ w \in WorkspaceRecord /\ PanesOf(w.tabs) \subseteq Names(w.members)
  BY FitParts
<1>2. i \in 1..Len(w.tabs) /\ tab.id = t
  BY IndexOfFacts
<1>3. tab \in GoodTab /\ tab.panes \subseteq PanesOf(w.tabs)
  <2>1. tab \in GoodTab
    BY <1>2, FitParts
  <2> QED BY <1>2, <2>1 DEF PanesOf
<1>4. x \in GoodTab /\ x.id = tab.id /\ x.panes = tab.panes \cup {new}
  BY <1>1, <1>3, SplitTabFacts
<1>5. [b EXCEPT !.tabs[IndexOf(b, t)] = x] = u
  <2>1. b = [w EXCEPT !.members = m] /\ b.tabs = w.tabs /\ b.members = m
    BY <1>1, WithMemberFacts
  <2>2. IndexOf(b, t) = i
    BY <2>1 DEF IndexOf
  <2> HIDE DEF i, x, m
  <2>3. [b EXCEPT !.tabs[i] = x] = [b EXCEPT !.tabs = [w.tabs EXCEPT ![i] = x]]
    BY <2>1
  <2>4. [[w EXCEPT !.members = m] EXCEPT !.tabs = [w.tabs EXCEPT ![i] = x]] = u
    BY <1>1 DEF WorkspaceRecord, Entered
  <2> QED BY <2>1, <2>2, <2>3, <2>4
<1>6. Refilled(w, i, x, {}, kept, new)
  BY <1>2, <1>4 DEF Refilled
<1> HIDE DEF i, x, kept, tab
<1>7. Joined(w, u, p, new) /\ TabIds(u) = TabIds(w) /\ u.members = m
  BY <1>2, <1>6, TabJoined
<1> HIDE DEF u, m
<1>8. Grown(w, SetActive(u, t), p, new) /\ SetActive(u, t).members = m
  BY <1>7, JoinedGrown
<1> QED BY <1>5, <1>8 DEF i, x, m, tab, kept

\* Pane p, named new, takes the place of the pane old.
Replacing(w, p, new, old) == [WithMember(w, p, new) EXCEPT !.members = @ \ {old}]

\* restart_pane
LEMMA RestartGrown ==
  ASSUME NEW w, Fit(w), NEW p \in Panes, p \notin w.members,
         NEW new \in Nat, new \notin Names(w.members),
         NEW t \in TabIds(w), NEW id \in w.tabs[IndexOf(w, t)].panes,
         NEW old \in Member(w, id),
         NEW b, b = Replacing(w, p, new, old)
  PROVE  /\ Grown(w, SetActive([b EXCEPT !.tabs[IndexOf(b, t)] =
                          RestartedTab(w.tabs[IndexOf(w, t)], id, new)], t), p, new)
         /\ SetActive([b EXCEPT !.tabs[IndexOf(b, t)] =
                          RestartedTab(w.tabs[IndexOf(w, t)], id, new)], t).members
               = (w.members \ {old}) \cup {p}
<1> DEFINE i == IndexOf(w, t)
           tab == w.tabs[i]
           x == RestartedTab(tab, id, new)
           kept == w.members \ {old}
           m == kept \cup {p}
           u == Entered(w, i, x, m)
<1>1. /\ w \in WorkspaceRecord /\ PanesOf(w.tabs) \subseteq Names(w.members)
  BY FitParts
<1>2. i \in 1..Len(w.tabs) /\ tab.id = t
  BY IndexOfFacts
<1>3. tab \in GoodTab /\ tab.panes \subseteq PanesOf(w.tabs)
  <2>1. tab \in GoodTab
    BY <1>2, FitParts
  <2> QED BY <1>2, <2>1 DEF PanesOf
<1>4. x \in GoodTab /\ x.id = tab.id /\ x.panes = (tab.panes \ {id}) \cup {new}
  BY <1>1, <1>3, RestartedTabFacts
<1>5. old \in w.members /\ pane[old].id = id /\ old # p
  BY DEF Member
<1>6. [b EXCEPT !.tabs[IndexOf(b, t)] = x] = u
  <2> DEFINE c == WithMember(w, p, new)
             all == w.members \cup {p}
  <2>1. c = [w EXCEPT !.members = all] /\ c.tabs = w.tabs /\ c.members = all
    BY <1>1, WithMemberFacts
  <2>2. all \ {old} = m
    BY <1>5
  <2> HIDE DEF c, all, m
  <2>3. b = [c EXCEPT !.members = all \ {old}]
    BY <2>1 DEF c, Replacing
  <2>4. b = [w EXCEPT !.members = m]
    BY <1>1, <2>1, <2>2, <2>3 DEF WorkspaceRecord
  <2>5. b.tabs = w.tabs
    BY <1>1, <2>4 DEF WorkspaceRecord
  <2>6. IndexOf(b, t) = i
    BY <2>5 DEF IndexOf
  <2> HIDE DEF i, x
  <2>7. [b EXCEPT !.tabs[i] = x] = [b EXCEPT !.tabs = [w.tabs EXCEPT ![i] = x]]
    BY <2>5
  <2>8. [[w EXCEPT !.members = m] EXCEPT !.tabs = [w.tabs EXCEPT ![i] = x]] = u
    BY <1>1 DEF WorkspaceRecord, Entered
  <2> QED BY <2>4, <2>6, <2>7, <2>8
<1>7. Names(kept) = Names(w.members) \ {id}
  <2>1. \A q \in w.members : pane[q].id = id => q = old
    BY <1>5 DEF Fit, UniqueNames
  <2> QED BY <1>5, <2>1 DEF Names
<1>8. kept \in SUBSET w.members
  OBVIOUS
<1>9. Refilled(w, i, x, {id}, kept, new)
  BY <1>2, <1>4, <1>7, <1>8 DEF Refilled
<1> HIDE DEF i, x, kept, tab
<1>10. Joined(w, u, p, new) /\ TabIds(u) = TabIds(w) /\ u.members = m
  BY <1>2, <1>9, TabJoined
<1> HIDE DEF u, m
<1>11. Grown(w, SetActive(u, t), p, new) /\ SetActive(u, t).members = m
  BY <1>10, JoinedGrown
<1> QED BY <1>6, <1>11 DEF i, x, m, tab, kept

-----------------------------------------------------------------------------
(* Steps in general.                                                       *)

\* The constants, from the assumption about them.
LEMMA Bounded ==
  /\ MaxPanes \in Nat /\ MaxWorkspaces \in Nat /\ MaxRestored \in Nat
  /\ \A mix \in Mixes : mix \subseteq AllKinds
  /\ Free \notin Requests /\ EarlyExit \in BOOLEAN
BY BoundsAssumption DEF BoundsAssumption, Free

\* What the types say of the parts of the state.
LEMMA Records ==
  ASSUME Typed
  PROVE  /\ \A g \in Workspaces :
              /\ workspace[g] \in WorkspaceRecord /\ workspace[g].members \subseteq Panes
              /\ workspace[g].nextPane \in Nat \ {0} /\ workspace[g].nextTab \in Nat \ {0}
              /\ workspace[g].tabs \in Seq(GoodTab) /\ workspace[g].active \in Nat
              /\ workspace[g].recent \in Seq(Nat)
         /\ \A p \in Panes : pane[p] \in PaneRecord /\ pane[p].id \in Nat
         /\ \A r \in Requests : /\ request[r] \in RequestRecord
                                /\ request[r].mix \in Mixes /\ request[r].id \in Nat
                                /\ request[r].document \in Seq(Seq(Nat))
                                /\ request[r].kind \in AllKinds
BY DEF Typed, WorkspaceRecord, PaneRecord, RequestRecord

\* A workspace of the invariant is one the operations are made for.
LEMMA AllFit ==
  ASSUME Typed, Identified, Gathered, Kept, NEW g \in Workspaces
  PROVE  Fit(workspace[g])
<1>1. WellFormed(workspace[g]) /\ PanesOf(workspace[g].tabs) \subseteq Names(workspace[g].members)
  BY DEF Typed, Kept
<1>2. UniqueNames(workspace[g].members)
  BY DEF Identified, Gathered, UniqueNames, FreshIdentities
<1> QED BY <1>1, <1>2 DEF Fit

\* One request moves on, and nothing else does.
Turns(r, q) ==
    /\ request' \in [Requests -> RequestRecord]
    /\ \A s \in Requests : request'[s] = IF s = r THEN q ELSE request[s]

\* Nothing that its progress depends on changes.
LEMMA SameProgress ==
  ASSUME UNCHANGED <<current, closed, workspace, pane>>, NEW s, NEW q, request'[s] = q
  PROVE  InStep(request[s])' <=> InStep(q)
<1>1. Asks(request[s])' <=> Asks(q)
  BY DEF Asks
<1>2. Aims(request[s])' <=> Aims(q)
  BY DEF Aims, Blank
<1>3. Starts(request[s])' <=> Starts(q)
  BY DEF Starts, Started
<1>4. Recovers(request[s])' <=> Recovers(q)
  <2>1. ASSUME NEW S PROVE Names(S)' = Names(S)
    BY DEF Names
  <2>2. ASSUME NEW w, NEW document, NEW id
        PROVE  Followed(w, document, id)' <=> Followed(w, document, id)
    BY DEF Followed, Names
  <2> QED BY <2>2 DEF Recovers, Names, TabIds
<1> QED BY <1>1, <1>2, <1>3, <1>4 DEF InStep

\* A request after a step, as a record.
LEMMA ProgressOf ==
  ASSUME NEW s, NEW x, request'[s] = x, InStep(x)'
  PROVE  InStep(request[s])'
<1>1. Asks(request[s])'
  BY DEF InStep, Asks
<1>2. Aims(request[s])'
  BY DEF InStep, Aims, Blank
<1>3. Starts(request[s])'
  BY DEF InStep, Starts
<1>4. Recovers(request[s])'
  BY DEF InStep, Recovers, Followed, Names, TabIds
<1> QED BY <1>1, <1>2, <1>3, <1>4 DEF InStep

\* A step of a request that changes neither panes nor workspaces.
LEMMA RequestStep ==
  ASSUME WorkspaceInv, NEW r \in Requests, NEW q \in RequestRecord, Turns(r, q),
         UNCHANGED <<current, closed, workspace, pane>>,
         request[r].pc \notin {"publish", "pane", "loaded", "swap"},
         request[r].pc \in Making => q.pc \in Making /\ q.workspace = request[r].workspace,
         daemonMu' \in Requests \cup {Free}, Mutex', InStep(q),
         q.pc = "apply" =>
            \A s \in Requests : request[s].pc \in Restoring => request[s].workspace # q.workspace,
         q.pc \in Restoring =>
            \A s \in Requests : request[s].pc = "apply" => request[s].workspace # q.workspace
  PROVE  WorkspaceInv'
<1>0. /\ Typed /\ Counting /\ Identified /\ Gathered /\ Kept
      /\ \A s \in Requests : InStep(request[s])
      /\ Parted /\ Owned /\ ClosedStaysEmpty /\ Settling
  BY DEF WorkspaceInv
<1>1. \A s \in Requests : request'[s] = IF s = r THEN q ELSE request[s]
  BY DEF Turns
<1>2. ASSUME NEW s \in Requests PROVE InStep(request[s])'
  <2>1. CASE s = r
    <3>1. request'[s] = q
      BY <1>1, <2>1
    <3> QED BY <3>1, SameProgress
  <2>2. CASE s # r
    <3>1. request'[s] = request[s] /\ InStep(request[s])
      BY <1>0, <1>1, <2>2
    <3> QED BY <3>1, SameProgress
  <2> QED BY <2>1, <2>2
<1>3. Typed'
  BY <1>0 DEF Typed, Turns
<1>4. Counting' /\ Identified' /\ Gathered' /\ ClosedStaysEmpty' /\ Settling'
  BY <1>0 DEF Counting, Identified, Gathered, ClosedStaysEmpty, Settling, Used, Blank, Started,
              FreshIdentities
<1>5. Kept'
  <2>1. ASSUME NEW g \in Workspaces, BeingLoaded(g) PROVE BeingLoaded(g)'
    <3>1. PICK s \in Requests : request[s].pc \in Loading /\ request[s].workspace = g
      BY <2>1 DEF BeingLoaded
    <3>2. s # r
      BY <3>1 DEF Loading
    <3> QED BY <1>1, <3>1, <3>2 DEF BeingLoaded
  <2>2. \A g \in Workspaces : Names(workspace[g].members)' = Names(workspace[g].members)
    BY DEF Names
  <2>3. \A g \in Workspaces : Focused(workspace[g])' <=> Focused(workspace[g])
    BY DEF Focused, TabIds
  <2> QED BY <1>0, <2>1, <2>2, <2>3 DEF Kept
<1>6. Parted'
  BY <1>0, <1>1 DEF Parted, Restoring, Loading
<1>7. Owned'
  <2>1. ASSUME NEW p, Entering(p) PROVE Entering(p)'
    BY <1>1, <2>1 DEF Entering
  <2>2. ASSUME NEW g, Private(g) PROVE Private(g)'
    <3>1. PICK s \in Requests : request[s].pc \in Making \cup Restoring /\ request[s].workspace = g
      BY <2>2 DEF Private
    <3>2. CASE s = r
      BY <1>1, <3>1, <3>2 DEF Private, Restoring, Loading
    <3>3. CASE s # r
      BY <1>1, <3>1, <3>3 DEF Private
    <3> QED BY <3>2, <3>3
  <2> QED BY <1>0, <2>1, <2>2 DEF Owned
<1> QED BY <1>2, <1>3, <1>4, <1>5, <1>6, <1>7 DEF WorkspaceInv

\* The processes of panes end, and nothing else happens.
Alike(p) ==
    /\ pane'[p].id = pane[p].id /\ pane'[p].workspace = pane[p].workspace
    /\ pane'[p].closing = pane[p].closing
    /\ pane'[p].phase = "unborn" <=> pane[p].phase = "unborn"
    /\ pane'[p].phase = "running" => pane[p].phase = "running"

\* A step of the goroutine of a pane that changes no workspace.
LEMMA PaneStep ==
  ASSUME WorkspaceInv, UNCHANGED <<daemonMu, current, closed, workspace, request>>,
         pane' \in [Panes -> PaneRecord], \A p \in Panes : Alike(p),
         EarlyExit \/ \A p \in Panes : Entering(p) => pane'[p].phase = pane[p].phase,
         Settling'
  PROVE  WorkspaceInv'
<1>0. /\ Typed /\ Mutex /\ Counting /\ Identified /\ Gathered /\ Kept
      /\ \A s \in Requests : InStep(request[s])
      /\ Parted /\ Owned /\ ClosedStaysEmpty
  BY DEF WorkspaceInv
<1>1. Started' = Started
  BY DEF Started, Alike
<1>2. \A S \in SUBSET Panes : Names(S)' = Names(S)
  BY DEF Names, Alike
<1>3. \A g \in Workspaces : Names(workspace[g].members)' = Names(workspace[g].members)
  <2>1. \A g \in Workspaces : workspace[g].members \in SUBSET Panes
    BY <1>0, Records
  <2> QED BY <2>1 DEF Names, Alike
<1>4. Typed' /\ Mutex' /\ Parted'
  BY <1>0 DEF Typed, Mutex, Parted
<1>5. Counting'
  BY <1>0, <1>1 DEF Counting, Used, Blank
<1>6. Identified' /\ Gathered'
  BY <1>0, <1>1 DEF Identified, Gathered, FreshIdentities, Started, Alike
<1>7. Kept'
  <2>1. \A g \in Workspaces : BeingLoaded(g)' <=> BeingLoaded(g)
    BY DEF BeingLoaded
  <2>2. \A g \in Workspaces : Focused(workspace[g])' <=> Focused(workspace[g])
    BY DEF Focused, TabIds
  <2> QED BY <1>0, <1>3, <2>1, <2>2 DEF Kept
<1>8. ASSUME NEW s \in Requests PROVE InStep(request[s])'
  <2>0. InStep(request[s])
    BY <1>0
  <2>1. Asks(request[s])' /\ Aims(request[s])'
    BY <2>0 DEF InStep, Asks, Aims, Blank
  <2>2. Starts(request[s])'
    <3>1. request[s].pc = "publish" => Entering(request[s].pane)
      BY DEF Entering
    <3>2. request[s].pc = "publish" => request[s].pane \in Panes
      BY <2>0 DEF InStep, Starts, Started
    <3> QED BY <1>1, <2>0, <3>1, <3>2 DEF InStep, Starts, Alike
  <2>3. Recovers(request[s])'
    <3>1. CASE request[s].pc \in Loading
      <4>1. request[s].workspace \in Workspaces
        BY <2>0, <3>1 DEF InStep, Aims, Holding, Restoring
      <4>2. Names(workspace[request[s].workspace].members)' = Names(workspace[request[s].workspace].members)
        BY <1>3, <4>1
      <4> QED BY <2>0, <4>2 DEF InStep, Recovers, Followed, TabIds
    <3>2. CASE request[s].pc \notin Loading
      BY <3>2 DEF Recovers, Loading
    <3> QED BY <3>1, <3>2, SMTT(30)
  <2> QED BY <2>1, <2>2, <2>3 DEF InStep
<1>9. Owned'
  <2>1. \A p : Entering(p)' <=> Entering(p)
    BY DEF Entering
  <2>2. \A g : Private(g)' <=> Private(g)
    BY DEF Private
  <2> QED BY <1>0, <2>1, <2>2 DEF Owned, Alike
<1>10. ClosedStaysEmpty'
  BY <1>0 DEF ClosedStaysEmpty, Alike
<1> QED BY <1>4, <1>5, <1>6, <1>7, <1>8, <1>9, <1>10 DEF WorkspaceInv

\* Panes leave the map of one workspace, or its tabs are arranged otherwise.
Left(p, g, v) ==
    /\ pane'[p].id = pane[p].id /\ pane'[p].workspace = pane[p].workspace
    /\ pane'[p].retained = pane[p].retained
    /\ pane'[p].closing = (pane[p].closing \/ p \in workspace[g].members \ v.members)
    /\ \/ pane'[p].phase = pane[p].phase
       \/ /\ pane[p].phase = "remove" /\ pane'[p].phase = "done"
          /\ pane[p].workspace = g /\ p \notin v.members

\* A request goes on, or has been applied.
Applied(s) ==
    \/ request'[s] = request[s]
    \/ request[s].pc = "apply" /\ request'[s].pc = "idle"

\* What holds of the workspaces and the panes after that.
LEMMA ShrinkFacts ==
  ASSUME Typed, Counting, Identified, Gathered, NEW g \in Workspaces,
         NEW v, Legal(workspace[g], v), Blank(g) => v = EmptyWorkspace,
         workspace' = [workspace EXCEPT ![g] = v],
         pane' \in [Panes -> PaneRecord], \A p \in Panes : Left(p, g, v)
  PROVE  /\ \A h \in Workspaces : workspace'[h] = IF h = g THEN v ELSE workspace[h]
         /\ workspace' \in [Workspaces -> WorkspaceRecord]
         /\ \A h \in Workspaces : WellFormed(workspace[h])'
         /\ \A h \in Workspaces : workspace'[h].nextPane = workspace[h].nextPane
                                  /\ workspace'[h].members \subseteq workspace[h].members
         /\ \A h \in Workspaces : Blank(h)' <=> Blank(h)
         /\ Started' = Started
         /\ \A S \in SUBSET Panes : Names(S)' = Names(S)
         /\ Names(workspace[g].members)' = Names(v.members)
         /\ \A h \in Workspaces : h # g =>
               Names(workspace[h].members)' = Names(workspace[h].members)
         /\ Identified' /\ Gathered'
<1>1. /\ \A h \in Workspaces : workspace'[h] = IF h = g THEN v ELSE workspace[h]
      /\ workspace' \in [Workspaces -> WorkspaceRecord]
  BY DEF Typed, Legal, WellFormed
<1>2. /\ v.members \subseteq workspace[g].members /\ v.nextPane = workspace[g].nextPane
      /\ v.members \subseteq Panes
  BY Records DEF Legal
<1>3. \A h \in Workspaces : workspace'[h].nextPane = workspace[h].nextPane
                            /\ workspace'[h].members \subseteq workspace[h].members
  BY <1>1, <1>2
<1>4. Started' = Started
  BY DEF Started, Left
<1>5. \A S \in SUBSET Panes : Names(S)' = Names(S)
  BY DEF Names, Left
<1>6. \A h \in Workspaces : Blank(h)' <=> Blank(h)
  <2>1. CASE Blank(g)
    BY <1>1, <2>1 DEF Blank
  <2>2. CASE ~Blank(g)
    <3>1. workspace[g].nextPane # 1
      BY <2>2 DEF Counting
    <3>2. v # EmptyWorkspace
      BY <1>2, <3>1 DEF EmptyWorkspace
    <3> QED BY <1>1, <2>2, <3>2 DEF Blank
  <2> QED BY <2>1, <2>2
<1>7. \A h \in Workspaces : WellFormed(workspace[h])'
  <2>1. \A h \in Workspaces : WellFormed(workspace'[h])
    BY <1>1 DEF Typed, Legal
  <2> QED BY <2>1 DEF WellFormed
<1>8. Names(workspace[g].members)' = Names(v.members)
  BY <1>1, <1>2 DEF Names, Left
<1>9. ASSUME NEW h \in Workspaces, h # g
      PROVE  Names(workspace[h].members)' = Names(workspace[h].members)
  <2>1. workspace[h].members \in SUBSET Panes
    BY Records
  <2> QED BY <1>1, <1>9, <2>1 DEF Names, Left
<1>10. Identified'
  BY <1>3, <1>4 DEF Identified, FreshIdentities, Started, Left
<1>11. Gathered'
  <2>1. ASSUME NEW h \in Workspaces, NEW p \in workspace'[h].members
        PROVE  p \in Started' /\ pane'[p].workspace = h /\ ~pane'[p].closing
    <3>1. p \in workspace[h].members /\ p \in Panes
      BY <1>3, Records
    <3>2. p \in Started /\ pane[p].workspace = h /\ ~pane[p].closing
      BY <3>1 DEF Gathered
    <3>3. p \notin workspace[g].members \ v.members
      <4>1. CASE h = g
        BY <1>1, <4>1
      <4>2. CASE h # g
        BY <3>2, <4>2 DEF Gathered
      <4> QED BY <4>1, <4>2
    <3> QED BY <1>4, <3>1, <3>2, <3>3 DEF Left
  <2> QED BY <2>1 DEF Gathered
<1> QED BY <1>1, <1>3, <1>4, <1>5, <1>6, <1>7, <1>8, <1>9, <1>10, <1>11

\* A step that changes one workspace, in which no pane is started.
LEMMA ShrinkStep ==
  ASSUME WorkspaceInv, NEW g \in Workspaces, ~Blank(g), NEW v, Legal(workspace[g], v),
         BeingLoaded(g) => /\ EarlyExit /\ Calm(workspace[g], v)
                           /\ workspace[g].tabs # <<>>,
         workspace' = [workspace EXCEPT ![g] = v],
         UNCHANGED <<daemonMu, current, closed>>,
         pane' \in [Panes -> PaneRecord], \A p \in Panes : Left(p, g, v),
         request' \in [Requests -> RequestRecord], \A s \in Requests : Applied(s)
  PROVE  WorkspaceInv'
<1>0. /\ Typed /\ Mutex /\ Counting /\ Identified /\ Gathered /\ Kept
      /\ \A s \in Requests : InStep(request[s])
      /\ Parted /\ Owned /\ ClosedStaysEmpty /\ Settling
  BY DEF WorkspaceInv
<1>1. /\ \A h \in Workspaces : workspace'[h] = IF h = g THEN v ELSE workspace[h]
      /\ workspace' \in [Workspaces -> WorkspaceRecord]
      /\ \A h \in Workspaces : WellFormed(workspace[h])'
      /\ Identified' /\ Gathered'
  BY <1>0, ShrinkFacts
<1>2. /\ v.members \subseteq workspace[g].members /\ v.nextPane = workspace[g].nextPane
      /\ PanesOf(v.tabs) \subseteq Names(v.members)
  BY DEF Legal
<1>3. \A h \in Workspaces : workspace'[h].nextPane = workspace[h].nextPane
                            /\ workspace'[h].members \subseteq workspace[h].members
  BY <1>0, ShrinkFacts
<1>4. Started' = Started
  BY <1>0, ShrinkFacts
<1>5. /\ Names(workspace[g].members)' = Names(v.members)
      /\ \A h \in Workspaces : h # g =>
            Names(workspace[h].members)' = Names(workspace[h].members)
  BY <1>0, ShrinkFacts
<1>6. \A h \in Workspaces : Blank(h)' <=> Blank(h)
  BY <1>0, ShrinkFacts
<1>7. Typed'
  BY <1>0, <1>1 DEF Typed
<1>8. Mutex'
  BY <1>0 DEF Mutex, Applied, Holding, Making, Restoring, Loading
<1>9. Counting'
  <2>1. Used' = Used
    BY <1>6 DEF Used
  <2>2. (current # None => ~Blank(current))'
    BY <1>0, <1>6 DEF Counting, Typed
  <2>3. \A h \in Workspaces : (workspace[h].nextPane = 1 => Blank(h))'
    BY <1>0, <1>3, <1>6 DEF Counting
  <2> QED BY <1>0, <1>4, <2>1, <2>2, <2>3 DEF Counting
<1>10. Identified' /\ Gathered'
  BY <1>1
<1>11. \A h \in Workspaces : BeingLoaded(h)' <=> BeingLoaded(h)
  BY DEF BeingLoaded, Applied, Loading
<1>12. Kept'
  <2>1. ASSUME NEW h \in Workspaces
        PROVE  /\ PanesOf(workspace'[h].tabs) \subseteq Names(workspace[h].members)'
               /\ ~BeingLoaded(h) => /\ Names(workspace[h].members)' \subseteq PanesOf(workspace'[h].tabs)
                                     /\ Focused(workspace[h])' \/ EarlyExit
    <3>1. CASE h = g
      <4>1. Names(workspace[h].members)' = Names(v.members)
        BY <1>5, <3>1
      <4>2. Focused(workspace[h])' <=> Focused(v)
        BY <1>1, <3>1 DEF Focused, TabIds
      <4> QED BY <1>0, <1>1, <1>2, <3>1, <4>1, <4>2 DEF Kept, Legal
    <3>2. CASE h # g
      <4>2. Names(workspace[h].members)' = Names(workspace[h].members)
        BY <1>5, <3>2
      <4>3. Focused(workspace[h])' <=> Focused(workspace[h])
        BY <1>1, <3>2 DEF Focused, TabIds
      <4> QED BY <1>0, <1>1, <3>2, <4>2, <4>3 DEF Kept
    <3> QED BY <3>1, <3>2
  <2> QED BY <1>11, <2>1 DEF Kept
<1>13. ASSUME NEW s \in Requests PROVE InStep(request[s])'
  <2>1. CASE request'[s].pc = "idle"
    BY <2>1 DEF InStep, Asks, Aims, Starts, Recovers, Holding, Making, Restoring, Loading
  <2>2. CASE request'[s].pc # "idle"
    <3>0. PICK x : x = request[s]
      OBVIOUS
    <3>1. request'[s] = x /\ x \in RequestRecord
      BY <1>0, <2>2, <3>0, Records DEF Applied
    <3>2. InStep(x)
      BY <1>0, <3>0
    <3>3. x.pc \in Holding \cup {"apply"} => x.workspace \in Workspaces
      BY <3>2 DEF InStep, Aims
    <3>4. Asks(x)'
      BY <3>2 DEF InStep, Asks
    <3>5. Aims(x)'
      <4>1. x.workspace \in Workspaces => \A h \in 1..(x.workspace - 1) : h \in Workspaces
        BY Bounded DEF Workspaces
      <4>2. Aims(x)
        BY <3>2 DEF InStep
      <4>3. x.pc \in Holding \cup {"apply"} => (Blank(x.workspace)' <=> Blank(x.workspace))
        BY <1>6, <3>3
      <4>4. x.pc \in Making \cup Restoring => \A h \in 1..(x.workspace - 1) : ~Blank(h)'
        BY <1>6, <3>3, <4>1, <4>2 DEF Aims, Holding
      <4> QED BY <4>2, <4>3, <4>4 DEF Aims, Holding, Making, Restoring
    <3>6. Starts(x)'
      <4>1. CASE x.pc = "publish"
        <5>1. x.workspace \in Workspaces /\ x.pane \in Panes
          BY <3>2, <3>3, <4>1 DEF InStep, Starts, Holding, Making, Started
        <5>2. x.pane \notin workspace[g].members
          <6>1. x.pane \notin workspace[x.workspace].members /\ pane[x.pane].workspace = x.workspace
            BY <3>2, <4>1 DEF InStep, Starts
          <6> QED BY <1>0, <6>1 DEF Gathered
        <5>3. x.pane \notin workspace'[x.workspace].members
          BY <1>3, <3>2, <4>1, <5>1 DEF InStep, Starts
        <5>4. /\ pane'[x.pane].id = pane[x.pane].id
              /\ pane'[x.pane].workspace = pane[x.pane].workspace
              /\ ~pane[x.pane].closing => ~pane'[x.pane].closing
              /\ pane[x.pane].phase = "running" => pane'[x.pane].phase = "running"
          BY <5>1, <5>2 DEF Left
        <5> QED BY <1>4, <3>2, <4>1, <5>3, <5>4 DEF InStep, Starts
      <4>2. CASE x.pc = "start"
        <5>1. x.workspace \in Workspaces
          BY <3>3, <4>2 DEF Holding, Making
        <5> QED BY <1>3, <3>2, <4>2, <5>1 DEF InStep, Starts
      <4> QED BY <4>1, <4>2 DEF Starts
    <3>7. Recovers(x)'
      <4>1. CASE x.pc \notin Loading
        BY <4>1 DEF Recovers, Loading
      <4>2. CASE x.pc \in Loading /\ x.workspace # g
        <5>1. x.workspace \in Workspaces
          BY <3>3, <4>2 DEF Holding, Restoring
        <5>2. workspace'[x.workspace] = workspace[x.workspace]
          BY <1>1, <4>2, <5>1
        <5>4. Names(workspace[x.workspace].members)' = Names(workspace[x.workspace].members)
          BY <1>5, <4>2, <5>1
        <5>5. Recovers(x)
          BY <3>2 DEF InStep
        <5> QED BY <5>2, <5>4, <5>5 DEF Recovers, Followed, TabIds
      <4>3. CASE x.pc \in Loading /\ x.workspace = g
        <5>1. /\ EarlyExit /\ Calm(workspace[g], v) /\ workspace[g].tabs # <<>>
          BY <3>0, <4>3 DEF BeingLoaded
        <5>2. workspace'[g] = v /\ Names(workspace[g].members)' = Names(v.members)
          BY <1>1, <1>5
        <5>3. Recovers(x)
          BY <3>2 DEF InStep
        <5>4. v.nextPane = x.id + 1 /\ v.active = None /\ v.recent = <<>>
          BY <1>2, <4>3, <5>1, <5>3 DEF Recovers, Calm
        <5>5. Names(workspace[g].members) \subseteq PanesOf(workspace[g].tabs) =>
                 Names(v.members) \subseteq PanesOf(v.tabs)
          BY DEF Legal
        <5>6. TabIds(v) \subseteq TabIds(workspace[g])
          BY <5>1 DEF Calm
        <5>7. ASSUME x.pc = "pane" PROVE Followed(v, x.document, x.id)
          <6>1. Followed(workspace[g], x.document, x.id)
            BY <4>3, <5>3, <5>7 DEF Recovers
          <6> QED BY <5>1, <5>5, <5>6, <6>1 DEF Followed
        <5>8. ASSUME x.pc = "loaded" PROVE Names(v.members) \subseteq PanesOf(v.tabs)
          BY <4>3, <5>3, <5>5, <5>8 DEF Recovers
        <5>9. Followed(workspace[g], x.document, x.id)' <=> Followed(v, x.document, x.id)
          BY <5>2 DEF Followed, TabIds
        <5> QED BY <4>3, <5>1, <5>2, <5>4, <5>7, <5>8, <5>9 DEF Recovers
      <4> QED BY <4>1, <4>2, <4>3
    <3>8. InStep(x)'
      BY <3>4, <3>5, <3>6, <3>7 DEF InStep
    <3> QED BY <3>1, <3>8, ProgressOf
  <2> QED BY <2>1, <2>2
<1>14. Parted'
  BY <1>0 DEF Parted, Applied, Restoring, Loading
<1>15. Owned'
  <2>1. \A p : Entering(p) => Entering(p)'
    BY DEF Entering, Applied
  <2>2. \A h : Private(h) => Private(h)'
    BY DEF Private, Applied, Making, Restoring, Loading
  <2>3. ASSUME NEW p \in Panes, pane'[p].phase = "running", ~pane'[p].closing
        PROVE  /\ p \in workspace'[pane'[p].workspace].members \/ Entering(p)
               /\ pane'[p].workspace = current \/ Private(pane'[p].workspace)
    <3>1. pane[p].phase = "running" /\ ~pane[p].closing /\ pane'[p].workspace = pane[p].workspace
          /\ p \notin workspace[g].members \ v.members
      BY <2>3 DEF Left
    <3>2. pane[p].workspace \in Workspaces
      BY <1>0, <3>1 DEF Identified, Started
    <3> QED BY <1>0, <1>1, <3>1, <3>2 DEF Owned
  <2> QED BY <2>1, <2>2, <2>3 DEF Owned
<1>16. ClosedStaysEmpty'
  BY <1>0 DEF ClosedStaysEmpty, Left
<1>17. Settling'
  <2>1. ASSUME ~EarlyExit, NEW h \in Workspaces, NEW p \in workspace'[h].members,
               pane'[p].phase # "running"
        PROVE  h = current /\ (pane'[p].phase = "done" => pane'[p].retained)
    <3>1. p \in workspace[h].members /\ p \in Panes /\ pane[p].workspace = h
      BY <1>0, <1>3, Records DEF Gathered
    <3>2. pane'[p].phase = pane[p].phase /\ pane'[p].retained = pane[p].retained
      BY <1>1, <2>1, <3>1 DEF Left
    <3> QED BY <1>0, <2>1, <3>1, <3>2 DEF Settling
  <2> QED BY <2>1 DEF Settling
<1> QED BY <1>7, <1>8, <1>9, <1>10, <1>12, <1>13, <1>14, <1>15, <1>16, <1>17 DEF WorkspaceInv

-----------------------------------------------------------------------------
(* Steps that start a pane.                                                *)

\* The pane to be started next was never started.
LEMMA NextFreeFacts ==
  ASSUME Counting, FreePanes # {}
  PROVE  /\ NextFree \in Panes /\ NextFree \notin Started
         /\ \E n \in 0..MaxPanes : Started \cup {NextFree} = 1..n
<1>1. PICK n \in 0..MaxPanes : Started = 1..n
  BY DEF Counting
<1>2. Cardinality(1..n) = n
  BY Bounded, FS_Interval
<1>3. NextFree = n + 1
  BY <1>1, <1>2 DEF NextFree
<1>4. n < MaxPanes
  <2>1. n = MaxPanes => FreePanes = {}
    BY <1>1 DEF FreePanes, Panes
  <2> QED BY <2>1, Bounded
<1>5. Started \cup {NextFree} = 1..(n + 1)
  BY <1>1, <1>3, Bounded
<1> QED BY <1>1, <1>3, <1>4, <1>5, Bounded DEF Panes

\* A workspace numbered one more than those in use was never used.
LEMMA NextWorkspace ==
  ASSUME Counting, NEW g \in Workspaces,
         g = 1 + Cardinality({h \in Workspaces : workspace[h] # EmptyWorkspace})
  PROVE  Blank(g) /\ \A h \in 1..(g - 1) : ~Blank(h)
<1>1. PICK m \in 0..MaxWorkspaces : Used = 1..m
  BY DEF Counting
<1> DEFINE S == {h \in Workspaces : workspace[h] # EmptyWorkspace}
<1>2. S = 1..m
  BY <1>1 DEF Used, Blank
<1>3. g = 1 + Cardinality(S)
  OBVIOUS
<1> HIDE DEF S
<1>4. Cardinality(S) = m
  BY <1>2, Bounded, FS_Interval
<1>5. g = m + 1 /\ m \in Nat
  BY <1>3, <1>4
<1>6. g \notin Used
  BY <1>1, <1>5
<1>7. \A h \in 1..(g - 1) : h \in Used
  BY <1>1, <1>5
<1> QED BY <1>6, <1>7 DEF Used

\* Used workspaces stay the first ones when the next of them comes into use.
LEMMA UsedFirst ==
  ASSUME Counting, NEW g \in Workspaces, \A h \in 1..(g - 1) : ~Blank(h),
         Used' = Used \cup {g}
  PROVE  \E m \in 0..MaxWorkspaces : Used' = 1..m
<1>1. PICK m \in 0..MaxWorkspaces : Used = 1..m
  BY DEF Counting
<1>2. CASE g \in 1..m
  BY <1>1, <1>2
<1>3. CASE g \notin 1..m
  <2>1. g = m + 1
    <3>1. ~(m + 1 \in 1..(g - 1))
      <4>1. m + 1 \notin Used
        BY <1>1, Bounded
      <4>2. m + 1 \in 1..(g - 1) => m + 1 \in Workspaces
        BY Bounded DEF Workspaces
      <4> QED BY <4>1, <4>2 DEF Used
    <3> QED BY <1>3, <3>1, Bounded DEF Workspaces
  <2>2. Used' = 1..(m + 1)
    BY <1>1, <2>1, Bounded
  <2> QED BY <2>1, <2>2, Bounded DEF Workspaces
<1> QED BY <1>2, <1>3

\* Pane p is started for workspace g, which becomes v.
Begun(p, g, v) ==
    /\ workspace' = [workspace EXCEPT ![g] = v]
    /\ v.nextPane = workspace[g].nextPane + 1
    /\ v.members \subseteq workspace[g].members \cup {p}
    /\ pane' \in [Panes -> PaneRecord]
    /\ pane'[p].phase = "running" /\ pane'[p].workspace = g
    /\ pane'[p].id = workspace[g].nextPane /\ ~pane'[p].closing
    /\ \A q \in Panes \ {p} :
          /\ pane'[q].id = pane[q].id /\ pane'[q].workspace = pane[q].workspace
          /\ pane'[q].phase = pane[q].phase /\ pane'[q].retained = pane[q].retained
          /\ pane'[q].closing = (pane[q].closing \/ q \in workspace[g].members \ v.members)

\* The set of started panes after a start.
LEMMA StartFacts ==
  ASSUME Typed, Counting, Identified, Gathered, FreePanes # {},
         NEW g \in Workspaces, NEW p, p = NextFree, NEW v \in WorkspaceRecord,
         Begun(p, g, v)
  PROVE  /\ p \in Panes /\ p \notin Started /\ Started' = Started \cup {p}
         /\ \A h \in Workspaces : p \notin workspace[h].members
         /\ Identified' /\ Gathered'
         /\ \A S \in SUBSET Started : Names(S)' = Names(S)
         /\ \A h \in Workspaces : h # g =>
               Names(workspace[h].members)' = Names(workspace[h].members)
         /\ Names(workspace[g].members)' =
               Names(v.members \ {p})
                  \cup IF p \in v.members THEN {workspace[g].nextPane} ELSE {}
         /\ \A h \in Workspaces : ~Blank(h) \/ h = g => ~Blank(h)'
         /\ (\A h \in 1..(g - 1) : ~Blank(h)) /\ current' \in {current, g} => Counting'
<1>1. /\ p \in Panes /\ p \notin Started
      /\ \E n \in 0..MaxPanes : Started \cup {p} = 1..n
  BY NextFreeFacts
<1>2. /\ \A h \in Workspaces : workspace'[h] = IF h = g THEN v ELSE workspace[h]
      /\ workspace[g].nextPane \in Nat \ {0}
  BY Records DEF Begun, Typed
<1>3. Started' = Started \cup {p}
  BY <1>1 DEF Started, Begun
<1>4. \A h \in Workspaces : workspace[h].members \subseteq Started
  BY DEF Gathered
<1>5. \A h \in Workspaces : p \notin workspace[h].members
  BY <1>1, <1>4
<1>6. \A S \in SUBSET Started : Names(S)' = Names(S)
  <2>1. \A q \in Started : q \in Panes \ {p}
    BY <1>1 DEF Started
  <2> QED BY <2>1 DEF Names, Begun
<1>7. Identified'
  <2>1. \A q \in Started : q \in Panes /\ q # p /\ pane'[q].id = pane[q].id
                           /\ pane'[q].workspace = pane[q].workspace
    BY <1>1 DEF Started, Begun
  <2>2. ASSUME NEW q \in Started
        PROVE  /\ pane'[q].workspace \in Workspaces /\ 0 < pane'[q].id
               /\ pane'[q].id < workspace'[pane'[q].workspace].nextPane
    <3>1. pane[q].id \in Nat
      BY <2>1, Records
    <3>2. /\ pane[q].workspace \in Workspaces /\ 0 < pane[q].id
          /\ pane[q].id < workspace[pane[q].workspace].nextPane
      BY DEF Identified
    <3>3. CASE pane[q].workspace = g
      BY <1>2, <2>1, <3>1, <3>2, <3>3 DEF Begun
    <3>4. CASE pane[q].workspace # g
      BY <1>2, <2>1, <3>2, <3>4
    <3> QED BY <3>3, <3>4
  <2>3. /\ pane'[p].workspace = g /\ 0 < pane'[p].id
        /\ pane'[p].id < workspace'[g].nextPane
    BY <1>2 DEF Begun
  <2>4. ASSUME NEW q \in Started, pane'[q].workspace = g PROVE pane'[q].id # pane'[p].id
    <3>1. pane[q].id < workspace[g].nextPane /\ pane[q].id \in Nat
      BY <2>1, <2>4, Records DEF Identified
    <3> QED BY <1>2, <2>1, <3>1 DEF Begun
  <2>5. FreshIdentities'
    <3>1. ASSUME NEW q \in Started, NEW s \in Started, q # s, pane'[q].workspace = pane'[s].workspace
          PROVE  pane'[q].id # pane'[s].id
      BY <2>1, <3>1 DEF Identified, FreshIdentities
    <3> QED BY <1>3, <2>3, <2>4, <3>1 DEF FreshIdentities
  <2> QED BY <1>3, <2>2, <2>3, <2>5 DEF Identified
<1>8. Gathered'
  <2>1. ASSUME NEW h \in Workspaces, NEW q \in workspace'[h].members
        PROVE  q \in Started' /\ pane'[q].workspace = h /\ ~pane'[q].closing
    <3>1. CASE q = p
      <4>1. h = g
        BY <1>2, <1>5, <2>1, <3>1
      <4> QED BY <1>3, <3>1, <4>1 DEF Begun
    <3>2. CASE q # p
      <4>1. q \in workspace[h].members
        BY <1>2, <2>1, <3>2 DEF Begun
      <4>2. q \in Started /\ q \in Panes \ {p} /\ pane[q].workspace = h /\ ~pane[q].closing
        BY <3>2, <4>1 DEF Gathered, Started
      <4>3. q \notin workspace[g].members \ v.members
        <5>1. CASE h = g
          BY <1>2, <2>1, <5>1
        <5>2. CASE h # g
          BY <4>2, <5>2 DEF Gathered
        <5> QED BY <5>1, <5>2
      <4> QED BY <1>3, <4>2, <4>3 DEF Begun
    <3> QED BY <3>1, <3>2
  <2> QED BY <2>1 DEF Gathered
<1>9. \A h \in Workspaces : h # g => Names(workspace[h].members)' = Names(workspace[h].members)
  <2>1. ASSUME NEW h \in Workspaces, h # g
        PROVE  Names(workspace[h].members)' = Names(workspace[h].members)
    <3>1. workspace'[h].members = workspace[h].members
      BY <1>2, <2>1
    <3>2. \A q \in workspace[h].members : pane'[q].id = pane[q].id
      <4>1. \A q \in workspace[h].members : q \in Panes \ {p}
        BY <1>4, <1>5 DEF Started
      <4> QED BY <4>1 DEF Begun
    <3> QED BY <3>1, <3>2 DEF Names
  <2> QED BY <2>1
<1>10. Names(workspace[g].members)' =
          Names(v.members \ {p}) \cup IF p \in v.members THEN {workspace[g].nextPane} ELSE {}
  <2>1. Names(workspace[g].members)' = {pane'[q].id : q \in v.members}
    BY <1>2 DEF Names
  <2>2. \A q \in v.members \ {p} : pane'[q].id = pane[q].id
    <3>1. \A q \in v.members \ {p} : q \in workspace[g].members
      BY DEF Begun
    <3>2. \A q \in v.members \ {p} : q \in Panes \ {p}
      BY <1>4, <3>1 DEF Started
    <3> QED BY <3>2 DEF Begun
  <2>3. pane'[p].id = workspace[g].nextPane
    BY DEF Begun
  <2> QED BY <2>1, <2>2, <2>3 DEF Names
<1>11. \A h \in Workspaces : ~Blank(h) \/ h = g => ~Blank(h)'
  <2>1. v # EmptyWorkspace
    BY <1>2 DEF Begun, EmptyWorkspace
  <2> QED BY <1>2, <2>1 DEF Blank
<1>12. ASSUME \A h \in 1..(g - 1) : ~Blank(h), current' \in {current, g} PROVE Counting'
  <2>1. Used' = Used \cup {g}
    <3>1. \A h \in Workspaces : Blank(h)' <=> Blank(h) /\ h # g
      BY <1>2, <1>11 DEF Blank
    <3> QED BY <3>1 DEF Used
  <2>2. \E m \in 0..MaxWorkspaces : Used' = 1..m
    BY <1>12, <2>1, UsedFirst
  <2>3. \A h \in Workspaces : (workspace[h].nextPane = 1 => Blank(h))'
    <3>1. \A h \in Workspaces : workspace'[h].nextPane = 1 => workspace'[h] = EmptyWorkspace
      <4>1. v.nextPane # 1
        BY <1>2 DEF Begun
      <4> QED BY <1>2, <4>1 DEF Counting, Blank
    <3> QED BY <3>1 DEF Blank
  <2>4. (current # None => ~Blank(current))'
    <3>1. current' # None => current' \in Workspaces
      BY <1>12 DEF Typed
    <3>2. current' # None => ~Blank(current') \/ current' = g
      BY <1>12 DEF Counting
    <3> QED BY <1>11, <3>1, <3>2 DEF Blank
  <2> QED BY <1>1, <1>3, <2>2, <2>3, <2>4 DEF Counting
<1> QED BY <1>1, <1>3, <1>5, <1>6, <1>7, <1>8, <1>9, <1>10, <1>11, <1>12

\* A request that does not hold the daemon mutex is still where it was.
LEMMA Waiting ==
  ASSUME NEW s \in Requests, InStep(request[s]), request'[s] = request[s],
         request[s].pc \notin Holding,
         \A h \in Workspaces : ~Blank(h) => ~Blank(h)',
         closed' => request[s].pc \in {"idle", "ensure", "restore"},
         request[s].pc = "apply" =>
            /\ current' # None
            /\ request[s].kind \in Starting => request[s].workspace = current'
  PROVE  InStep(request[s])'
<1>0. PICK x : x = request[s]
  OBVIOUS
<1>1. /\ request'[s] = x /\ InStep(x) /\ x.pc \notin Holding
      /\ closed' => x.pc \in {"idle", "ensure", "restore"}
      /\ x.pc = "apply" => /\ current' # None
                           /\ x.kind \in Starting => x.workspace = current'
  BY <1>0
<1>2. Asks(x)'
  BY <1>1 DEF InStep, Asks
<1>3. Aims(x)'
  <2>1. Aims(x)
    BY <1>1 DEF InStep
  <2>2. x.pc = "apply" => x.workspace \in Workspaces /\ ~Blank(x.workspace)'
    BY <2>1 DEF Aims
  <2>3. CASE x.pc = "apply"
    <3>1. x.pc \notin Making \cup Restoring
      BY <2>3 DEF Making, Restoring, Loading
    <3> QED BY <1>1, <2>2, <2>3, <3>1 DEF Aims
  <2>4. CASE x.pc # "apply"
    BY <1>1, <2>4 DEF Aims, Holding, Making, Restoring
  <2> QED BY <2>3, <2>4
<1>4. Starts(x)' /\ Recovers(x)'
  BY <1>1 DEF Starts, Recovers, Holding, Making, Restoring, Loading
<1> QED BY <1>1, <1>2, <1>3, <1>4, ProgressOf DEF InStep

\* No request but one whose kind starts a pane.
LEMMA Alone ==
  ASSUME Serial, Typed, NEW r \in Requests, InStep(request[r]), request[r].pc # "idle",
         request[r].kind \in Starting
  PROVE  \A s \in Requests : s = r
<1>1. request[r].mix \in Mixes /\ request[r].kind \in request[r].mix
  BY Records DEF InStep, Asks
<1> QED BY <1>1 DEF Serial

\* Who holds the mutex is the only one that does.
LEMMA OnlyHolder ==
  ASSUME Mutex, NEW r \in Requests, request[r].pc \in Holding
  PROVE  \A s \in Requests : s # r => request[s].pc \notin Holding
BY DEF Mutex

-----------------------------------------------------------------------------
(* Requests that start no pane.                                            *)

\* The record of an idle request
LEMMA IdleFacts ==
  ASSUME NEW mix \in Mixes
  PROVE  /\ Idle(mix) \in RequestRecord /\ Idle(mix).pc = "idle"
         /\ Idle(mix).mix = mix /\ Idle(mix).id = None /\ Idle(mix).kind = "state"
BY DEF Idle, RequestRecord, AllKinds, None

\* Nothing is expected of an idle request.
LEMMA IdleInStep ==
  ASSUME NEW q, q.pc = "idle"
  PROVE  InStep(q)
BY DEF InStep, Asks, Aims, Starts, Recovers, Holding, Making, Restoring, Loading

\* Finish makes the request idle.
LEMMA Finished ==
  ASSUME Typed, NEW r \in Requests, Finish(r)
  PROVE  Turns(r, Idle(request[r].mix)) /\ Idle(request[r].mix) \in RequestRecord
         /\ Idle(request[r].mix).pc = "idle"
<1>1. Idle(request[r].mix) \in RequestRecord /\ Idle(request[r].mix).pc = "idle"
  BY Records, IdleFacts
<1> QED BY <1>1 DEF Finish, Turns, Typed

\* The invariant's parts, for citation.
LEMMA InvParts ==
  ASSUME WorkspaceInv
  PROVE  /\ Typed /\ Mutex /\ Counting /\ Identified /\ Gathered /\ Kept
         /\ \A r \in Requests : InStep(request[r])
         /\ Parted /\ Owned /\ ClosedStaysEmpty /\ Settling
BY DEF WorkspaceInv

\* The daemon starts without a workspace and without a pane.
LEMMA InitInv ==
  Init => WorkspaceInv
<1> SUFFICES ASSUME Init PROVE WorkspaceInv
  OBVIOUS
<1>1. /\ daemonMu = Free /\ current = None /\ closed = FALSE
      /\ \A g \in Workspaces : workspace[g] = EmptyWorkspace
      /\ \A p \in Panes : pane[p] = Unborn
      /\ \A r \in Requests : request[r].pc = "idle" /\ request[r] \in RequestRecord
      /\ request \in [Requests -> RequestRecord]
  <2>1. PICK mixes \in [Requests -> Mixes] : request = [r \in Requests |-> Idle(mixes[r])]
    BY DEF Init
  <2>2. \A r \in Requests : request[r].pc = "idle" /\ request[r] \in RequestRecord
    BY <2>1, IdleFacts
  <2>3. request \in [Requests -> RequestRecord]
    BY <2>1, IdleFacts
  <2> QED BY <2>2, <2>3 DEF Init
<1>2. /\ EmptyWorkspace \in WorkspaceRecord /\ WellFormed(EmptyWorkspace)
      /\ Focused(EmptyWorkspace) /\ PanesOf(EmptyWorkspace.tabs) = {}
      /\ EmptyWorkspace.members = {} /\ EmptyWorkspace.nextPane = 1
  BY DEF EmptyWorkspace, WorkspaceRecord, WellFormed, Focused, PanesOf, Apart, None, Elements
<1>3. Typed
  <2>1. Unborn \in PaneRecord
    BY DEF Unborn, PaneRecord, None
  <2>2. pane \in [Panes -> PaneRecord] /\ workspace \in [Workspaces -> WorkspaceRecord]
    BY <1>2, <2>1 DEF Init
  <2> QED BY <1>1, <1>2, <2>2 DEF Typed
<1>4. Started = {}
  BY <1>1 DEF Started, Unborn
<1>5. Counting
  <2>1. Used = {}
    BY <1>1 DEF Used, Blank
  <2>2. {} = 1..0 /\ 0 \in 0..MaxPanes /\ 0 \in 0..MaxWorkspaces
    BY Bounded
  <2> QED BY <1>1, <1>4, <2>1, <2>2 DEF Counting, Blank, None
<1>6. Mutex /\ Parted
  BY <1>1, Bounded DEF Mutex, Parted, Holding, Making, Restoring, Loading
<1>7. Identified /\ Gathered
  BY <1>1, <1>2, <1>4 DEF Identified, Gathered, FreshIdentities
<1>8. Kept
  BY <1>1, <1>2 DEF Kept, Names
<1>9. \A r \in Requests : InStep(request[r])
  BY <1>1, IdleInStep
<1>10. Owned /\ ClosedStaysEmpty /\ Settling
  BY <1>1, <1>2 DEF Owned, ClosedStaysEmpty, Settling, Unborn
<1> QED BY <1>3, <1>5, <1>6, <1>7, <1>8, <1>9, <1>10 DEF WorkspaceInv

\* A request that has nothing yet is over, or one is applied without effect.
LEMMA FinishKept ==
  ASSUME WorkspaceInv, NEW r \in Requests, Finish(r),
         request[r].pc \in {"ensure", "restore", "apply"},
         UNCHANGED <<daemonMu, current, closed, workspace, pane>>
  PROVE  WorkspaceInv'
<1>1. /\ Typed /\ Mutex /\ Turns(r, Idle(request[r].mix))
      /\ Idle(request[r].mix) \in RequestRecord /\ Idle(request[r].mix).pc = "idle"
  BY InvParts, Finished
<1>2. InStep(Idle(request[r].mix))
  BY <1>1, IdleInStep
<1>3. Mutex'
  BY <1>1 DEF Mutex, Turns, Holding, Making, Restoring, Loading
<1>4. daemonMu' \in Requests \cup {Free}
  BY <1>1 DEF Typed
<1> QED BY <1>1, <1>2, <1>3, <1>4, RequestStep DEF Making, Restoring, Loading

\* A request arrives.
LEMMA ReceiveKept ==
  ASSUME WorkspaceInv, NEW r \in Requests, NEW kind \in AllKinds, Receive(r, kind)
  PROVE  WorkspaceInv'
<1> DEFINE mix == request[r].mix
           pc == IF kind = "restore" THEN "restore" ELSE "ensure"
           q == [Idle(mix) EXCEPT !.pc = pc, !.kind = kind]
<1>1. Typed /\ Mutex /\ mix \in Mixes /\ request[r].pc = "idle" /\ kind \in mix
  BY InvParts, Records DEF Receive
<1>2. /\ q \in RequestRecord /\ q.pc = pc /\ q.kind = kind /\ q.mix = mix /\ q.id = None
  <2> DEFINE idle == Idle(mix)
  <2>1. idle \in RequestRecord /\ idle.mix = mix /\ idle.id = None
    BY <1>1, IdleFacts
  <2> HIDE DEF idle
  <2>2. [idle EXCEPT !.pc = pc, !.kind = kind] \in RequestRecord
    BY <2>1 DEF RequestRecord
  <2>3. /\ [idle EXCEPT !.pc = pc, !.kind = kind].pc = pc
        /\ [idle EXCEPT !.pc = pc, !.kind = kind].kind = kind
        /\ [idle EXCEPT !.pc = pc, !.kind = kind].mix = mix
        /\ [idle EXCEPT !.pc = pc, !.kind = kind].id = None
    BY <2>1 DEF RequestRecord
  <2> QED BY <2>2, <2>3 DEF idle
<1>3. request' = [request EXCEPT ![r] = q]
  BY DEF Receive
<1> HIDE DEF q
<1>4. Turns(r, q)
  BY <1>1, <1>2, <1>3 DEF Turns, Typed
<1>5. InStep(q)
  BY <1>1, <1>2 DEF InStep, Asks, Aims, Starts, Recovers, Holding, Making, Restoring, Loading
<1>6. Mutex' /\ daemonMu' \in Requests \cup {Free}
  BY <1>1, <1>2, <1>4 DEF Receive, Mutex, Turns, Typed, Holding, Making, Restoring, Loading
<1> QED BY <1>1, <1>2, <1>4, <1>5, <1>6, RequestStep DEF Receive, Making, Restoring, Loading

\* ensureWorkspaceLocked takes the daemon's mutex, or the request is refused.
LEMMA EnsureBeginKept ==
  ASSUME WorkspaceInv, NEW r \in Requests, EnsureBegin(r)
  PROVE  WorkspaceInv'
<1>0. /\ Typed /\ Mutex /\ Counting /\ InStep(request[r])
      /\ request[r].pc = "ensure" /\ request[r] \in RequestRecord
  BY InvParts, Records DEF EnsureBegin
<1>1. CASE Finish(r) /\ UNCHANGED daemonMu
  BY <1>0, <1>1, FinishKept DEF EnsureBegin
<1>2. CASE /\ ~closed /\ daemonMu = Free /\ daemonMu' = r
           /\ UNCHANGED <<current, closed, workspace, pane>>
           /\ \E pc \in {"create", "check"}, g \in Workspaces :
                 /\ request' = [request EXCEPT ![r].pc = pc, ![r].workspace = g]
                 /\ pc = "check" => current # None /\ g = current
                 /\ pc = "create" => /\ current = None /\ Blank(g)
                                     /\ \A h \in 1..(g - 1) : ~Blank(h)
  <2>1. PICK pc \in {"create", "check"}, g \in Workspaces :
                 /\ request' = [request EXCEPT ![r].pc = pc, ![r].workspace = g]
                 /\ pc = "check" => current # None /\ g = current
                 /\ pc = "create" => /\ current = None /\ Blank(g)
                                     /\ \A h \in 1..(g - 1) : ~Blank(h)
    BY <1>2
  <2> DEFINE q == [request[r] EXCEPT !.pc = pc, !.workspace = g]
  <2>2. /\ q \in RequestRecord /\ q.pc = pc /\ q.workspace = g
        /\ q.kind = request[r].kind /\ q.mix = request[r].mix
    BY <1>0 DEF RequestRecord
  <2>3. \A s \in Requests : request'[s] = IF s = r THEN q ELSE request[s]
    BY <1>0, <2>1 DEF Typed
  <2>4. request' \in [Requests -> RequestRecord]
    BY <1>0, <2>1, <2>2 DEF Typed
  <2> HIDE DEF q
  <2>5. Turns(r, q)
    BY <2>3, <2>4 DEF Turns
  <2>6. InStep(q)
    BY <1>0, <1>2, <2>1, <2>2 DEF InStep, Asks, Aims, Starts, Recovers, Holding, Making, Restoring, Loading
  <2>7. Mutex' /\ daemonMu' \in Requests \cup {Free}
    <3>1. \A s \in Requests : request[s].pc \notin Holding
      BY <1>0, <1>2, Bounded DEF Mutex
    <3> QED BY <1>2, <2>1, <2>2, <2>5, <3>1 DEF Mutex, Turns, Holding, Making
  <2> QED BY <1>0, <1>2, <2>1, <2>2, <2>5, <2>6, <2>7, RequestStep DEF Making, Restoring, Loading
<1>3. CASE ~Refused /\ current = None /\ daemonMu' = r
           /\ \E g \in Workspaces :
                /\ g = 1 + Cardinality({h \in Workspaces : workspace[h] # EmptyWorkspace})
                /\ request' = [request EXCEPT ![r].pc = "create", ![r].workspace = g]
  <2>1. PICK g \in Workspaces :
                /\ g = 1 + Cardinality({h \in Workspaces : workspace[h] # EmptyWorkspace})
                /\ request' = [request EXCEPT ![r].pc = "create", ![r].workspace = g]
    BY <1>3
  <2>2. Blank(g) /\ \A h \in 1..(g - 1) : ~Blank(h)
    BY <1>0, <2>1, NextWorkspace
  <2> QED BY <1>2, <1>3, <2>1, <2>2 DEF EnsureBegin, Refused
<1>4. CASE ~Refused /\ current # None /\ daemonMu' = r
           /\ request' = [request EXCEPT ![r].pc = "check", ![r].workspace = current]
  <2>1. current \in Workspaces
    BY <1>0, <1>4 DEF Typed
  <2> QED BY <1>2, <1>4, <2>1 DEF EnsureBegin, Refused
<1> QED BY <1>1, <1>3, <1>4 DEF EnsureBegin

\* The request is applied to the workspace it was ensured, or over.
LEMMA AfterEnsureTurns ==
  ASSUME Typed, NEW r \in Requests, AfterEnsure(r)
  PROVE  \E q \in RequestRecord :
            /\ Turns(r, q) /\ q.mix = request[r].mix
            /\ \/ q.pc = "idle"
               \/ /\ q.pc = "apply" /\ q.kind = request[r].kind /\ q.kind \in ActionKinds
                  /\ q.workspace = request[r].workspace
<1> DEFINE q == IF request[r].kind \in ActionKinds
                THEN [Idle(request[r].mix) EXCEPT
                         !.pc = "apply", !.kind = request[r].kind,
                         !.workspace = request[r].workspace]
                ELSE Idle(request[r].mix)
<1>1. request[r] \in RequestRecord /\ request[r].mix \in Mixes
  BY Records
<1>2. Idle(request[r].mix) \in RequestRecord /\ Idle(request[r].mix).pc = "idle"
      /\ Idle(request[r].mix).mix = request[r].mix
  BY <1>1, IdleFacts
<1>3. /\ q \in RequestRecord /\ q.mix = request[r].mix
      /\ \/ q.pc = "idle"
         \/ /\ q.pc = "apply" /\ q.kind = request[r].kind /\ q.kind \in ActionKinds
            /\ q.workspace = request[r].workspace
  BY <1>1, <1>2 DEF RequestRecord
<1>4. request' = [request EXCEPT ![r] = q]
  BY DEF AfterEnsure
<1> HIDE DEF q
<1>5. Turns(r, q)
  BY <1>3, <1>4 DEF Turns, Typed
<1> QED BY <1>3, <1>5

\* Whether there is a tab is read without the workspace's mutex.
LEMMA EnsureCheckKept ==
  ASSUME WorkspaceInv, NEW r \in Requests, EnsureCheck(r)
  PROVE  WorkspaceInv'
<1>0. /\ Typed /\ Mutex /\ Counting /\ InStep(request[r])
      /\ request[r].pc = "check" /\ request[r] \in RequestRecord
  BY InvParts, Records DEF EnsureCheck
<1>1. /\ request[r].workspace = current /\ current \in Workspaces /\ current # None
      /\ ~Blank(current) /\ ~closed /\ request[r].kind \in request[r].mix
  BY <1>0, Bounded DEF InStep, Aims, Asks, Holding, Counting, Workspaces, None
<1>2. \A s \in Requests : s # r => request[s].pc \notin Holding
  BY <1>0, OnlyHolder DEF Holding
<1>3. CASE request' = [request EXCEPT ![r].pc = "create"] /\ UNCHANGED daemonMu
  <2> DEFINE q == [request[r] EXCEPT !.pc = "create"]
  <2>1. /\ q \in RequestRecord /\ q.pc = "create" /\ q.workspace = current
        /\ q.kind = request[r].kind /\ q.mix = request[r].mix
    BY <1>0, <1>1 DEF RequestRecord
  <2>2. \A s \in Requests : request'[s] = IF s = r THEN q ELSE request[s]
    BY <1>0, <1>3 DEF Typed
  <2>3. request' \in [Requests -> RequestRecord]
    BY <1>0, <1>3, <2>1 DEF Typed
  <2> HIDE DEF q
  <2>4. Turns(r, q)
    BY <2>2, <2>3 DEF Turns
  <2>5. \A h \in 1..(current - 1) : ~Blank(h)
    <3>1. PICK m \in 0..MaxWorkspaces : Used = 1..m
      BY <1>0 DEF Counting
    <3>2. current \in 1..m
      BY <1>1, <3>1 DEF Used
    <3>3. \A h \in 1..(current - 1) : h \in 1..m
      BY <3>2, Bounded
    <3> QED BY <3>1, <3>3 DEF Used
  <2>6. InStep(q)
    BY <1>1, <2>1, <2>5 DEF InStep, Asks, Aims, Starts, Recovers, Holding, Making, Restoring, Loading
  <2>7. Mutex' /\ daemonMu' \in Requests \cup {Free}
    BY <1>0, <1>3, <2>1, <2>4 DEF Mutex, Turns, Typed, Holding, Making
  <2> QED BY <1>0, <2>1, <2>4, <2>6, <2>7, RequestStep DEF EnsureCheck, Making, Restoring, Loading
<1>4. CASE AfterEnsure(r) /\ daemonMu' = Free
  <2>1. PICK q \in RequestRecord :
            /\ Turns(r, q) /\ q.mix = request[r].mix
            /\ \/ q.pc = "idle"
               \/ /\ q.pc = "apply" /\ q.kind = request[r].kind /\ q.kind \in ActionKinds
                  /\ q.workspace = request[r].workspace
    BY <1>0, <1>4, AfterEnsureTurns
  <2>2. InStep(q)
    BY <1>1, <2>1 DEF InStep, Asks, Aims, Starts, Recovers, Holding, Making, Restoring, Loading
  <2>3. Mutex' /\ daemonMu' \in Requests \cup {Free}
    BY <1>2, <1>4, <2>1, Bounded DEF Mutex, Turns, Holding, Making, Restoring, Loading
  <2>4. \A s \in Requests : request[s].pc \notin Restoring
    BY <1>0, <1>2 DEF Holding, Restoring, Loading
  <2> QED BY <1>0, <2>1, <2>2, <2>3, <2>4, RequestStep DEF EnsureCheck, Making, Restoring, Loading
<1> QED BY <1>3, <1>4 DEF EnsureCheck, MutexAfterEnsure

\* The counter of identities is read without it too.
LEMMA CreateReadKept ==
  ASSUME WorkspaceInv, NEW r \in Requests, CreateRead(r)
  PROVE  WorkspaceInv'
<1>0. /\ Typed /\ Mutex /\ InStep(request[r])
      /\ request[r].pc = "create" /\ request[r] \in RequestRecord
  BY InvParts, Records DEF CreateRead
<1>1. request[r].workspace \in Workspaces /\ workspace[request[r].workspace].nextPane \in Nat
  BY <1>0, Records DEF InStep, Aims, Holding, Making
<1> DEFINE id == workspace[request[r].workspace].nextPane
           q == [request[r] EXCEPT !.pc = "start", !.id = id]
<1>2. /\ q \in RequestRecord /\ q.pc = "start" /\ q.workspace = request[r].workspace
      /\ q.id = id /\ q.kind = request[r].kind /\ q.mix = request[r].mix
  BY <1>0, <1>1 DEF RequestRecord
<1>3. request' = [request EXCEPT ![r].pc = "start", ![r].id = id]
  BY DEF CreateRead
<1>4. \A s \in Requests : request'[s] = IF s = r THEN q ELSE request[s]
  BY <1>0, <1>3 DEF Typed
<1>5. request' \in [Requests -> RequestRecord]
  BY <1>0, <1>2, <1>3 DEF Typed
<1> HIDE DEF q
<1>6. Turns(r, q)
  BY <1>4, <1>5 DEF Turns
<1>7. InStep(q)
  BY <1>0, <1>2 DEF InStep, Asks, Aims, Starts, Recovers, Holding, Making, Restoring, Loading
<1>8. Mutex' /\ daemonMu' \in Requests \cup {Free}
  BY <1>0, <1>2, <1>6 DEF CreateRead, Mutex, Turns, Typed, Holding, Making
<1> QED BY <1>0, <1>2, <1>6, <1>7, <1>8, RequestStep DEF CreateRead, Making, Restoring, Loading

\* What a request has when it is applied.
LEMMA ApplyFacts ==
  ASSUME WorkspaceInv, NEW r \in Requests, request[r].pc = "apply"
  PROVE  /\ request[r].workspace \in Workspaces /\ ~Blank(request[r].workspace)
         /\ ~BeingLoaded(request[r].workspace) /\ Fit(Ws(r))
<1>1. Typed /\ Identified /\ Gathered /\ Kept /\ InStep(request[r]) /\ Parted
  BY InvParts
<1>2. request[r].workspace \in Workspaces /\ ~Blank(request[r].workspace)
  BY <1>1 DEF InStep, Aims
<1>3. ~BeingLoaded(request[r].workspace)
  BY <1>1 DEF Parted, BeingLoaded, Restoring
<1>4. Fit(workspace[request[r].workspace])
  BY <1>1, <1>2, AllFit
<1> QED BY <1>2, <1>3, <1>4 DEF Ws

\* close is called of some panes.
LEMMA ClosingFacts ==
  ASSUME Typed, NEW S
  PROVE  /\ Closing(S) \in [Panes -> PaneRecord]
         /\ \A p \in Panes :
               /\ Closing(S)[p].id = pane[p].id
               /\ Closing(S)[p].workspace = pane[p].workspace
               /\ Closing(S)[p].phase = pane[p].phase
               /\ Closing(S)[p].retained = pane[p].retained
               /\ Closing(S)[p].closing = (pane[p].closing \/ p \in S)
<1>1. \A p \in Panes : pane[p] \in PaneRecord
  BY Records
<1>2. ASSUME NEW p \in Panes
      PROVE  /\ [pane[p] EXCEPT !.closing = TRUE] \in PaneRecord
             /\ [pane[p] EXCEPT !.closing = TRUE].id = pane[p].id
             /\ [pane[p] EXCEPT !.closing = TRUE].workspace = pane[p].workspace
             /\ [pane[p] EXCEPT !.closing = TRUE].phase = pane[p].phase
             /\ [pane[p] EXCEPT !.closing = TRUE].retained = pane[p].retained
             /\ [pane[p] EXCEPT !.closing = TRUE].closing = TRUE
  BY <1>1 DEF PaneRecord
<1>3. \A p \in Panes : Closing(S)[p] = IF p \in S THEN [pane[p] EXCEPT !.closing = TRUE] ELSE pane[p]
  BY DEF Closing
<1>4. Closing(S) \in [Panes -> PaneRecord]
  BY <1>1, <1>2 DEF Closing
<1>5. \A p \in Panes : pane[p].closing \in BOOLEAN
  BY <1>1 DEF PaneRecord
<1> QED BY <1>2, <1>3, <1>4, <1>5

\* The request was applied, the others stay where they are.
LEMMA FinishApplied ==
  ASSUME Typed, NEW r \in Requests, Finish(r), request[r].pc = "apply"
  PROVE  request' \in [Requests -> RequestRecord] /\ \A s \in Requests : Applied(s)
BY Finished DEF Turns, Applied

\* applyAction of a legal change.
LEMMA ChangeKept ==
  ASSUME WorkspaceInv, NEW r \in Requests, request[r].pc = "apply",
         NEW w, Legal(Ws(r), w), Change(r, w)
  PROVE  WorkspaceInv'
<1>0. Typed
  BY InvParts
<1>1. PICK g \in Workspaces : g = request[r].workspace
  BY ApplyFacts
<1>2. ~Blank(g) /\ ~BeingLoaded(g) /\ Legal(workspace[g], w)
  BY <1>1, ApplyFacts DEF Ws
<1>3. /\ workspace' = [workspace EXCEPT ![g] = w] /\ UNCHANGED <<daemonMu, current, closed>>
      /\ pane' = Closing(Dropped(workspace[g], workspace'[g])) /\ Finish(r)
  BY <1>1 DEF Change
<1>4. pane' = Closing(workspace[g].members \ w.members)
  BY <1>0, <1>3 DEF Typed, Dropped
<1>5. pane' \in [Panes -> PaneRecord] /\ \A p \in Panes : Left(p, g, w)
  BY <1>0, <1>4, ClosingFacts DEF Left
<1>6. request' \in [Requests -> RequestRecord] /\ \A s \in Requests : Applied(s)
  BY <1>0, <1>3, FinishApplied
<1> QED BY <1>2, <1>3, <1>5, <1>6, ShrinkStep

\* close_tab and close_other_tabs
LEMMA CloseKept ==
  ASSUME WorkspaceInv, NEW r \in Requests, NEW t,
         CloseTab(r, t) \/ CloseOtherTabs(r, t)
  PROVE  WorkspaceInv'
<1>1. request[r].pc = "apply" /\ t \in TabIds(Ws(r))
  BY DEF CloseTab, CloseOtherTabs, Applying
<1>2. Fit(Ws(r))
  BY <1>1, ApplyFacts
<1>3. CASE CloseTab(r, t)
  <2>1. IndexOf(Ws(r), t) \in 1..Len(Ws(r).tabs) /\ Ws(r).tabs[IndexOf(Ws(r), t)].id = t
    BY <1>1, IndexOfFacts
  <2>2. Legal(Ws(r), RemoveTab(Ws(r), t))
    BY <1>2, <2>1, RemoveTabLegal
  <2>3. Change(r, RemoveTab(Ws(r), t))
    BY <1>3 DEF CloseTab
  <2> QED BY <1>1, <2>2, <2>3, ChangeKept
<1>4. CASE CloseOtherTabs(r, t)
  <2> DEFINE v == SetActive([Ws(r) EXCEPT !.tabs = <<TabOf(r, t)>>,
                                !.members = {p \in @ : pane[p].id \in TabOf(r, t).panes}], t)
  <2>1. Legal(Ws(r), v)
    BY <1>1, <1>2, CloseOtherTabsLegal DEF TabOf
  <2>2. Change(r, v)
    BY <1>4 DEF CloseOtherTabs
  <2> HIDE DEF v
  <2> QED BY <1>1, <2>1, <2>2, ChangeKept
<1> QED BY <1>3, <1>4

\* close_pane
LEMMA ClosePaneKept ==
  ASSUME WorkspaceInv, NEW r \in Requests, NEW t, NEW id, ClosePane(r, t, id)
  PROVE  WorkspaceInv'
<1>1. /\ request[r].pc = "apply" /\ t \in TabIds(Ws(r))
      /\ id \in Ws(r).tabs[IndexOf(Ws(r), t)].panes
  BY DEF ClosePane, Applying, TabOf
<1>2. Fit(Ws(r))
  BY <1>1, ApplyFacts
<1>3. PICK next : Change(r, RemovePane(Ws(r), t, id, next))
  BY DEF ClosePane
<1>4. IndexOf(Ws(r), t) \in 1..Len(Ws(r).tabs) /\ Ws(r).tabs[IndexOf(Ws(r), t)].id = t
  BY <1>1, IndexOfFacts
<1>5. Legal(Ws(r), RemovePane(Ws(r), t, id, next))
  BY <1>1, <1>2, <1>4, RemovePaneLegal
<1> QED BY <1>1, <1>3, <1>5, ChangeKept

\* move_pane_to_tab
LEMMA MovePaneKept ==
  ASSUME WorkspaceInv, NEW r \in Requests, NEW t, NEW id, MovePaneToTab(r, t, id)
  PROVE  WorkspaceInv'
<1>1. /\ request[r].pc = "apply" /\ t \in TabIds(Ws(r))
      /\ id \in Ws(r).tabs[IndexOf(Ws(r), t)].panes
      /\ Cardinality(Ws(r).tabs[IndexOf(Ws(r), t)].panes) > 1
  BY DEF MovePaneToTab, Applying, TabOf
<1>2. Fit(Ws(r))
  BY <1>1, ApplyFacts
<1>3. PICK next :
         Change(r, SetActive(InsertTab(SplitOff(Ws(r), t, id, next),
                                       SingleTab(Ws(r).nextTab, id), t), Ws(r).nextTab))
  BY DEF MovePaneToTab, SplitOff
<1> DEFINE v == SetActive(InsertTab(SplitOff(Ws(r), t, id, next),
                                    SingleTab(Ws(r).nextTab, id), t), Ws(r).nextTab)
<1>4. Legal(Ws(r), v)
  BY <1>1, <1>2, MovePaneLegal
<1>5. Change(r, v)
  BY <1>3
<1> HIDE DEF v
<1> QED BY <1>1, <1>4, <1>5, ChangeKept

\* move_tab
LEMMA MoveTabKept ==
  ASSUME WorkspaceInv, NEW r \in Requests, NEW t, NEW to, MoveTab(r, t, to)
  PROVE  WorkspaceInv'
<1>1. /\ request[r].pc = "apply" /\ t \in TabIds(Ws(r)) /\ to \in 1..Len(Ws(r).tabs)
  BY DEF MoveTab, Applying
<1>2. Fit(Ws(r))
  BY <1>1, ApplyFacts
<1> DEFINE v == SetActive([Ws(r) EXCEPT !.tabs =
                     InsertAt(DropAt(Ws(r).tabs, IndexOf(Ws(r), t)), to,
                              Ws(r).tabs[IndexOf(Ws(r), t)])], t)
<1>3. Legal(Ws(r), v)
  BY <1>1, <1>2, MoveTabLegal
<1>4. Legal(Ws(r), Ws(r))
  BY <1>2, SameLegal
<1>5. Change(r, Ws(r)) \/ Change(r, v)
  BY DEF MoveTab, TabOf
<1> HIDE DEF v
<1> QED BY <1>1, <1>3, <1>4, <1>5, ChangeKept

\* reorder_tab
LEMMA ReorderTabKept ==
  ASSUME WorkspaceInv, NEW r \in Requests, NEW t, NEW before, ReorderTab(r, t, before)
  PROVE  WorkspaceInv'
<1>1. /\ request[r].pc = "apply" /\ t \in TabIds(Ws(r))
      /\ before \in (TabIds(Ws(r)) \ {t}) \cup {None}
  BY DEF ReorderTab, Applying
<1>2. Fit(Ws(r))
  BY <1>1, ApplyFacts
<1>3. Legal(Ws(r), Reordered(Ws(r), t, before))
  BY <1>1, <1>2, ReorderTabLegal
<1>4. Change(r, Reordered(Ws(r), t, before))
  BY DEF ReorderTab, TabOf, Reordered, Without, PlaceBefore
<1> QED BY <1>1, <1>3, <1>4, ChangeKept

\* activate_tab
LEMMA ActivateTabKept ==
  ASSUME WorkspaceInv, NEW r \in Requests, NEW t, NEW recent \in Nat, ActivateTab(r, t, recent)
  PROVE  WorkspaceInv'
<1>1. request[r].pc = "apply" /\ t \in TabIds(Ws(r))
  BY DEF ActivateTab, Applying
<1>2. Fit(Ws(r))
  BY <1>1, ApplyFacts
<1> DEFINE v == [Ws(r) EXCEPT !.recent = FirstTwo(Ws(r), <<t, recent>>), !.active = t]
<1>3. Legal(Ws(r), SetActive(Ws(r), t)) /\ Legal(Ws(r), v)
  BY <1>1, <1>2, ActivateTabLegal
<1>4. Change(r, SetActive(Ws(r), t)) \/ Change(r, v)
  BY DEF ActivateTab
<1> HIDE DEF v
<1> QED BY <1>1, <1>3, <1>4, ChangeKept

\* activate_pane
LEMMA ActivatePaneKept ==
  ASSUME WorkspaceInv, NEW r \in Requests, NEW t, NEW id, ActivatePane(r, t, id)
  PROVE  WorkspaceInv'
<1>1. /\ request[r].pc = "apply" /\ t \in TabIds(Ws(r))
      /\ id \in Ws(r).tabs[IndexOf(Ws(r), t)].panes
  BY DEF ActivatePane, Applying, TabOf
<1>2. Fit(Ws(r))
  BY <1>1, ApplyFacts
<1> DEFINE v == SetActive([Ws(r) EXCEPT !.tabs[IndexOf(Ws(r), t)].active = id], t)
<1>3. Legal(Ws(r), v)
  BY <1>1, <1>2, ActivatePaneLegal
<1>4. Change(r, v)
  BY DEF ActivatePane
<1> HIDE DEF v
<1> QED BY <1>1, <1>3, <1>4, ChangeKept

\* update_layout
LEMMA UpdateLayoutKept ==
  ASSUME WorkspaceInv, NEW r \in Requests, NEW t, NEW active, UpdateLayout(r, t, active)
  PROVE  WorkspaceInv'
<1>1. /\ request[r].pc = "apply" /\ t \in TabIds(Ws(r))
      /\ active \in Ws(r).tabs[IndexOf(Ws(r), t)].panes \cup {None}
  BY DEF UpdateLayout, Applying, TabOf
<1>2. Fit(Ws(r))
  BY <1>1, ApplyFacts
<1>3. PICK layout \in Arrangements(Ws(r).tabs[IndexOf(Ws(r), t)].panes) :
         Change(r, [Ws(r) EXCEPT !.tabs[IndexOf(Ws(r), t)] =
                      [TabOf(r, t) EXCEPT !.layout = layout,
                         !.active = IF active = None THEN TabOf(r, t).active ELSE active]])
  BY DEF UpdateLayout, TabOf
<1> DEFINE x == [Ws(r).tabs[IndexOf(Ws(r), t)] EXCEPT
                    !.layout = layout,
                    !.active = IF active = None THEN Ws(r).tabs[IndexOf(Ws(r), t)].active
                               ELSE active]
           v == [Ws(r) EXCEPT !.tabs[IndexOf(Ws(r), t)] = x]
<1>4. x = [Ws(r).tabs[IndexOf(Ws(r), t)] EXCEPT
              !.layout = layout,
              !.active = IF active = None THEN Ws(r).tabs[IndexOf(Ws(r), t)].active
                         ELSE active]
  OBVIOUS
<1>5. Change(r, v)
  BY <1>3 DEF TabOf
<1> HIDE DEF x
<1>6. Legal(Ws(r), v)
  BY <1>1, <1>2, <1>4, UpdateLayoutLegal
<1> HIDE DEF v
<1> QED BY <1>1, <1>5, <1>6, ChangeKept

\* An action that is refused changes nothing.
LEMMA RefuseKept ==
  ASSUME WorkspaceInv, NEW r \in Requests, Refuse(r)
  PROVE  WorkspaceInv'
BY FinishKept DEF Refuse

\* The documents are Together and Separate, for some number of panes.
LEMMA DocumentFacts ==
  ASSUME NEW document \in Documents
  PROVE  /\ document \in Seq(Seq(Nat))
         /\ \/ document = <<>>
            \/ \E n \in 1..MaxRestored : document \in {Together(n), Separate(n)}
<1>1. CASE document = <<>>
  BY <1>1
<1>2. CASE document # <<>>
  <2>1. PICK n \in 1..MaxRestored : document \in {Together(n), Separate(n)}
    BY <1>2 DEF Documents, Together, Separate
  <2>2. [i \in 1..n |-> i] \in Seq(Nat) /\ \A i \in 1..n : <<i>> \in Seq(Nat)
    BY Bounded
  <2>3. Together(n) \in Seq(Seq(Nat)) /\ Separate(n) \in Seq(Seq(Nat))
    BY <2>2, Bounded DEF Together, Separate
  <2> QED BY <2>1, <2>3
<1> QED BY <1>1, <1>2

\* A workspace that was never used
LEMMA EmptyFacts ==
  /\ EmptyWorkspace \in WorkspaceRecord /\ WellFormed(EmptyWorkspace)
  /\ Focused(EmptyWorkspace) /\ TabIds(EmptyWorkspace) = {}
  /\ EmptyWorkspace.members = {} /\ EmptyWorkspace.tabs = <<>>
  /\ EmptyWorkspace.active = None /\ EmptyWorkspace.recent = <<>>
  /\ EmptyWorkspace.nextPane = 1 /\ PanesOf(<<>>) = {} /\ Names({}) = {}
BY DEF EmptyWorkspace, WorkspaceRecord, WellFormed, Focused, PanesOf, Apart, None, Elements,
       TabIds, Names

\* restoreWorkspace takes the daemon's mutex and makes a workspace nobody knows.
LEMMA RestoreBeginKept ==
  ASSUME WorkspaceInv, NEW r \in Requests, NEW document \in Documents, RestoreBegin(r, document)
  PROVE  WorkspaceInv'
<1>0. /\ Typed /\ Mutex /\ Counting /\ InStep(request[r])
      /\ request[r].pc = "restore" /\ request[r] \in RequestRecord /\ daemonMu = Free
      /\ \A s \in Requests : InStep(request[s])
  BY InvParts, Records DEF RestoreBegin
<1>1. CASE Finish(r) /\ UNCHANGED daemonMu
  BY <1>0, <1>1, FinishKept DEF RestoreBegin
<1>2. CASE /\ ~Refused /\ daemonMu' = r
           /\ \E g \in Workspaces :
                /\ g = 1 + Cardinality({h \in Workspaces : workspace[h] # EmptyWorkspace})
                /\ request' = [request EXCEPT
                                 ![r].pc = IF document = <<>> THEN "loaded" ELSE "pane",
                                 ![r].workspace = g, ![r].document = document]
  <2> DEFINE pc == IF document = <<>> THEN "loaded" ELSE "pane"
  <2>1. PICK g \in Workspaces :
                /\ g = 1 + Cardinality({h \in Workspaces : workspace[h] # EmptyWorkspace})
                /\ request' = [request EXCEPT ![r].pc = pc, ![r].workspace = g,
                                              ![r].document = document]
    BY <1>2
  <2>2. Blank(g) /\ \A h \in 1..(g - 1) : ~Blank(h)
    BY <1>0, <2>1, NextWorkspace
  <2>3. document \in Seq(Seq(Nat))
    BY DocumentFacts
  <2>4. pc \in {"loaded", "pane"}
    OBVIOUS
  <2> DEFINE q == [request[r] EXCEPT !.pc = pc, !.workspace = g, !.document = document]
  <2>5. /\ q \in RequestRecord /\ q.pc = pc /\ q.workspace = g /\ q.document = document
        /\ q.kind = request[r].kind /\ q.mix = request[r].mix /\ q.id = request[r].id
    <3> HIDE DEF pc
    <3> QED BY <1>0, <2>3, <2>4 DEF RequestRecord
  <2>6. \A s \in Requests : request'[s] = IF s = r THEN q ELSE request[s]
    <3> HIDE DEF pc
    <3> QED BY <1>0, <2>1 DEF Typed
  <2>7. request' \in [Requests -> RequestRecord]
    BY <1>0, <2>1, <2>5 DEF Typed
  <2> HIDE DEF q
  <2>8. Turns(r, q)
    BY <2>6, <2>7 DEF Turns
  <2>9. InStep(q)
    <3>1. Asks(q)
      BY <1>0, <1>2, <2>4, <2>5 DEF InStep, Asks, Refused
    <3>2. Aims(q)
      <4>1. g # current
        BY <1>0, <2>2, Bounded DEF Counting, Workspaces, None
      <4>2. q.pc \in Loading /\ q.pc \notin Making /\ q.pc # "check" /\ q.pc # "apply" /\ q.pc # "swap"
        BY <2>4, <2>5 DEF Loading, Making
      <4> QED BY <2>2, <2>5, <4>1, <4>2 DEF Aims, Restoring, Loading
    <3>3. Starts(q)
      BY <2>4, <2>5 DEF Starts
    <3>4. Recovers(q)
      <4>1. workspace[g] = EmptyWorkspace
        BY <2>2 DEF Blank
      <4>2. q.id = 0
        BY <1>0, <2>5 DEF InStep, Asks, None
      <4>3. ASSUME document # <<>> PROVE Followed(EmptyWorkspace, document, 0)
        <5>1. PICK n \in 1..MaxRestored : document \in {Together(n), Separate(n)}
          BY <4>3, DocumentFacts
        <5>2. 0 < n /\ 1..0 = {}
          BY <5>1, Bounded
        <5> QED BY <5>1, <5>2, EmptyFacts DEF Followed
      <4>4. document = <<>> => 1..Len(document) = {}
        BY SMTT(30)
      <4> QED BY <2>4, <2>5, <4>1, <4>2, <4>3, <4>4, EmptyFacts DEF Recovers, Loading
    <3> QED BY <3>1, <3>2, <3>3, <3>4 DEF InStep
  <2>10. Mutex' /\ daemonMu' \in Requests \cup {Free}
    <3>1. \A s \in Requests : request[s].pc \notin Holding
      BY <1>0, Bounded DEF Mutex
    <3> QED BY <1>2, <2>4, <2>5, <2>8, <3>1 DEF Mutex, Turns, Holding, Restoring, Loading
  <2>11. \A s \in Requests : request[s].pc = "apply" => request[s].workspace # q.workspace
    BY <1>0, <2>2, <2>5 DEF InStep, Aims
  <2>12. q.pc # "apply"
    BY <2>4, <2>5
  <2> QED BY <1>0, <2>5, <2>8, <2>9, <2>10, <2>11, <2>12, RequestStep DEF RestoreBegin, Making
<1> QED BY <1>1, <1>2 DEF RestoreBegin

\* A shell does not start: its identity is used up, or its workspace dropped.
LEMMA StartFailed ==
  ASSUME WorkspaceInv, NEW r \in Requests, Finish(r), request[r].pc \in {"start", "apply"},
         \A s \in Requests : s # r => request[s].pc \notin Holding,
         NEW g \in Workspaces, g = request[r].workspace,
         \/ workspace' = workspace
         \/ workspace' = [workspace EXCEPT ![g].nextPane = @ + 1] /\ ~Blank(g),
         UNCHANGED <<current, closed, pane>>, daemonMu' = Free
  PROVE  WorkspaceInv'
<1>0. /\ Typed /\ Mutex /\ Counting /\ Identified /\ Gathered /\ Kept
      /\ \A s \in Requests : InStep(request[s])
      /\ Parted /\ Owned /\ ClosedStaysEmpty /\ Settling
  BY InvParts
<1>1. /\ request' \in [Requests -> RequestRecord] /\ request'[r].pc = "idle"
      /\ \A s \in Requests : s # r => request'[s] = request[s]
  BY <1>0, Finished DEF Turns
<1>2. /\ workspace' \in [Workspaces -> WorkspaceRecord]
      /\ \A h \in Workspaces :
            /\ workspace'[h].members = workspace[h].members
            /\ workspace'[h].tabs = workspace[h].tabs
            /\ workspace'[h].active = workspace[h].active
            /\ workspace'[h].recent = workspace[h].recent
            /\ workspace'[h].nextTab = workspace[h].nextTab
            /\ workspace[h].nextPane \in Nat /\ workspace'[h].nextPane \in Nat
            /\ workspace[h].nextPane <= workspace'[h].nextPane
            /\ Blank(h)' <=> Blank(h)
  <2>1. CASE workspace' = workspace
    BY <1>0, <2>1, Records DEF Typed, Blank
  <2>2. CASE workspace' = [workspace EXCEPT ![g].nextPane = @ + 1] /\ ~Blank(g)
    <3> DEFINE w == workspace[g]
               v == [w EXCEPT !.nextPane = w.nextPane + 1]
    <3>1. w \in WorkspaceRecord /\ w.nextPane \in Nat \ {0}
      BY <1>0, Records
    <3>2. /\ v \in WorkspaceRecord /\ v.members = w.members /\ v.tabs = w.tabs
          /\ v.active = w.active /\ v.recent = w.recent /\ v.nextTab = w.nextTab
          /\ v.nextPane = w.nextPane + 1
      <4> HIDE DEF w
      <4> QED BY <3>1 DEF WorkspaceRecord
    <3>3. \A h \in Workspaces : workspace'[h] = IF h = g THEN v ELSE workspace[h]
      BY <1>0, <2>2 DEF Typed
    <3>4. workspace' \in [Workspaces -> WorkspaceRecord]
      BY <1>0, <2>2, <3>2 DEF Typed
    <3> HIDE DEF v
    <3>5. v # EmptyWorkspace
      BY <3>1, <3>2 DEF EmptyWorkspace
    <3>6. \A h \in Workspaces : Blank(h)' <=> Blank(h)
      BY <2>2, <3>3, <3>5 DEF Blank
    <3>7. \A h \in Workspaces : workspace[h].nextPane \in Nat
      BY <1>0, Records
    <3> QED BY <3>1, <3>2, <3>3, <3>4, <3>6, <3>7
  <2> QED BY <2>1, <2>2
<1>3. Typed'
  <2>1. \A h \in Workspaces : WellFormed(workspace[h])'
    BY <1>0, <1>2 DEF Typed, WellFormed
  <2> QED BY <1>0, <1>1, <1>2, <2>1 DEF Typed
<1>4. Mutex'
  BY <1>1, Bounded DEF Mutex, Holding, Making, Restoring, Loading
<1>5. Started' = Started /\ \A S : Names(S)' = Names(S)
  BY DEF Started, Names
<1>6. Counting'
  <2>1. Used' = Used
    BY <1>2 DEF Used
  <2>2. \A h \in Workspaces : (workspace[h].nextPane = 1 => Blank(h))'
    <3>1. ASSUME NEW h \in Workspaces, workspace'[h].nextPane = 1 PROVE Blank(h)'
      <4>1. workspace[h].nextPane = 1
        BY <1>0, <1>2, <3>1, Records
      <4> QED BY <1>0, <1>2, <4>1 DEF Counting
    <3> QED BY <3>1
  <2>3. (current # None => ~Blank(current))'
    BY <1>0, <1>2 DEF Counting, Typed
  <2> QED BY <1>0, <1>5, <2>1, <2>2, <2>3 DEF Counting
<1>7. Identified' /\ Gathered'
  <2>1. Identified'
    <3>1. ASSUME NEW p \in Started
          PROVE  /\ pane'[p].workspace \in Workspaces /\ 0 < pane'[p].id
                 /\ pane'[p].id < workspace'[pane'[p].workspace].nextPane
      <4>1. /\ pane[p].workspace \in Workspaces /\ 0 < pane[p].id
            /\ pane[p].id < workspace[pane[p].workspace].nextPane
            /\ pane[p].id \in Nat
        BY <1>0, Records DEF Identified, Started
      <4> QED BY <1>2, <4>1
    <3>2. FreshIdentities'
      BY <1>0, <1>5 DEF Identified, FreshIdentities
    <3> QED BY <1>5, <3>1, <3>2 DEF Identified
  <2>2. Gathered'
    BY <1>0, <1>2, <1>5 DEF Gathered
  <2> QED BY <2>1, <2>2
<1>8. Kept'
  <2>1. \A h : ~BeingLoaded(h)
    BY DEF BeingLoaded, Holding, Restoring, Loading
  <2>2. \A h \in Workspaces : Focused(workspace[h])' <=> Focused(workspace[h])
    BY <1>2 DEF Focused, TabIds
  <2>3. \A h \in Workspaces : Names(workspace[h].members)' = Names(workspace[h].members)
    BY <1>2 DEF Names
  <2> QED BY <1>0, <1>2, <2>1, <2>2, <2>3 DEF Kept
<1>9. ASSUME NEW s \in Requests PROVE InStep(request[s])'
  <2>1. CASE s = r
    BY <1>1, <2>1 DEF InStep, Asks, Aims, Starts, Recovers, Holding, Making, Restoring, Loading
  <2>2. CASE s # r
    <3>1. InStep(request[s])
      BY <1>0
    <3>2. /\ closed' => request[s].pc \in {"idle", "ensure", "restore"}
          /\ request[s].pc = "apply" =>
                /\ current' # None
                /\ request[s].kind \in Starting => request[s].workspace = current'
      BY <3>1 DEF InStep, Asks, Aims
    <3> QED BY <1>1, <1>2, <2>2, <3>1, <3>2, Waiting
  <2> QED BY <2>1, <2>2
<1>10. Parted'
  <2>1. \A s \in Requests : request'[s].pc \notin Restoring
    BY <1>1 DEF Holding, Restoring, Loading
  <2> QED BY <2>1 DEF Parted
<1>11. Owned'
  <2>1. ASSUME NEW p \in Panes, pane[p].phase = "running", ~pane[p].closing
        PROVE  p \in workspace'[pane[p].workspace].members /\ pane[p].workspace = current
    <3>1. pane[p].workspace \in Workspaces /\ p \in Started
      BY <1>0, <2>1 DEF Identified, Started
    <3>2. ~Entering(p)
      BY DEF Entering, Holding, Making
    <3>3. CASE pane[p].workspace = current
      BY <1>0, <1>2, <2>1, <3>1, <3>2, <3>3 DEF Owned
    <3>4. CASE pane[p].workspace # current
      <4>1. Private(pane[p].workspace)
        BY <1>0, <2>1, <3>4 DEF Owned
      <4>2. request[r].pc = "start" /\ pane[p].workspace = g
        BY <4>1 DEF Private, Holding, Making, Restoring, Loading
      <4>3. InStep(request[r])
        BY <1>0
      <4>4. current = None /\ Blank(g)
        BY <3>4, <4>2, <4>3 DEF InStep, Aims, Making
      <4>5. workspace[g].nextPane = 1
        BY <4>4, EmptyFacts DEF Blank
      <4>6. 0 < pane[p].id /\ pane[p].id < 1 /\ pane[p].id \in Nat
        BY <1>0, <3>1, <4>2, <4>5, Records DEF Identified
      <4> QED BY <4>6
    <3> QED BY <3>3, <3>4
  <2> QED BY <2>1 DEF Owned
<1>12. ClosedStaysEmpty' /\ Settling'
  BY <1>0, <1>2 DEF ClosedStaysEmpty, Settling
<1> QED BY <1>3, <1>4, <1>6, <1>7, <1>8, <1>9, <1>10, <1>11, <1>12 DEF WorkspaceInv

\* newPaneLocked fails within an action: the identity is used up.
LEMMA StartFailsKept ==
  ASSUME Serial, WorkspaceInv, NEW r \in Requests, StartFails(r)
  PROVE  WorkspaceInv'
<1>0. /\ Typed /\ Mutex /\ InStep(request[r]) /\ request[r].pc = "apply"
      /\ request[r].kind \in Starting
  BY InvParts DEF StartFails, Starting
<1>1. \A s \in Requests : s = r
  BY <1>0, Alone
<1>2. daemonMu = Free
  BY <1>0, <1>1 DEF Typed, Mutex, Holding, Making, Restoring, Loading
<1>3. request[r].workspace \in Workspaces /\ ~Blank(request[r].workspace)
  BY <1>0, ApplyFacts
<1> QED BY <1>0, <1>1, <1>2, <1>3, StartFailed DEF StartFails

\* newPaneLocked fails while a workspace is ensured: a new one is dropped.
LEMMA CreateFailsKept ==
  ASSUME WorkspaceInv, NEW r \in Requests, request[r].pc = "start",
         workspace' = IF current = None THEN workspace
                      ELSE [workspace EXCEPT ![request[r].workspace].nextPane = @ + 1],
         Finish(r), daemonMu' = Free, UNCHANGED <<current, closed, pane>>
  PROVE  WorkspaceInv'
<1>0. /\ Mutex /\ Counting /\ InStep(request[r])
  BY InvParts
<1>1. \A s \in Requests : s # r => request[s].pc \notin Holding
  BY <1>0, OnlyHolder DEF Holding, Making
<1>2. /\ request[r].workspace \in Workspaces
      /\ current # None => ~Blank(request[r].workspace)
  BY <1>0 DEF InStep, Aims, Holding, Making, Counting
<1> QED BY <1>1, <1>2, StartFailed

\* The focus of a workspace after a step is that of its new value.
LEMMA FocusedNext ==
  ASSUME NEW h, NEW v, workspace'[h] = v
  PROVE  Focused(workspace[h])' <=> Focused(v)
BY DEF Focused, TabIds

\* Workspaces are used in the order of their numbers.
LEMMA EarlierUsed ==
  ASSUME Counting, NEW g \in Workspaces, ~Blank(g)
  PROVE  \A h \in 1..(g - 1) : ~Blank(h)
<1>1. PICK m \in 0..MaxWorkspaces : Used = 1..m
  BY DEF Counting
<1>2. g \in 1..m
  BY <1>1 DEF Used
<1>3. \A h \in 1..(g - 1) : h \in Used
  BY <1>1, <1>2, Bounded
<1> QED BY <1>3 DEF Used

\* The request r goes on with workspace g, or has been applied to it.
Proceeds(r, g) ==
    /\ request' \in [Requests -> RequestRecord]
    /\ \A s \in Requests : s # r => request'[s] = request[s]
    /\ request'[r].pc \notin {"check", "apply"}
    /\ request[r].pc \in Making <=> request'[r].pc \in Making
    /\ request[r].pc \in Restoring <=> request'[r].pc \in Restoring
    /\ request'[r].pc \in Making \cup Restoring => request'[r].workspace = g

\* Pane p, named id, and the others of the workspace are those of its tabs.
Covered(v, p, id) ==
    PanesOf(v.tabs) \subseteq Names(v.members \ {p}) \cup IF p \in v.members THEN {id} ELSE {}
Covering(v, p, id) ==
    Names(v.members \ {p}) \cup (IF p \in v.members THEN {id} ELSE {}) \subseteq PanesOf(v.tabs)

\* A step that starts a pane for a workspace, for every action that does.
LEMMA GrowStep ==
  ASSUME WorkspaceInv, NEW r \in Requests, NEW g \in Workspaces, g = request[r].workspace,
         request[r].pc \in {"start", "pane", "loaded", "apply"},
         request[r].pc = "apply" => g = current,
         \A s \in Requests : s # r => request[s].pc \notin Holding,
         FreePanes # {}, NEW p, p = NextFree, NEW v, WellFormed(v), Begun(p, g, v),
         UNCHANGED <<daemonMu, current, closed>>, Proceeds(r, g), InStep(request[r])',
         Covered(v, p, workspace[g].nextPane),
         request'[r].pc \notin Loading => /\ Covering(v, p, workspace[g].nextPane)
                                          /\ Focused(v) \/ EarlyExit,
         p \in v.members \/ (request'[r].pc = "publish" /\ request'[r].pane = p)
  PROVE  WorkspaceInv'
<1>0. /\ Typed /\ Mutex /\ Counting /\ Identified /\ Gathered /\ Kept
      /\ \A s \in Requests : InStep(request[s])
      /\ Parted /\ Owned /\ ClosedStaysEmpty /\ Settling
  BY InvParts
<1>1. \A h \in 1..(g - 1) : ~Blank(h)
  <2>1. InStep(request[r])
    BY <1>0
  <2>2. CASE request[r].pc = "apply"
    <3>1. ~Blank(g)
      BY <2>1, <2>2 DEF InStep, Aims
    <3> QED BY <1>0, <3>1, EarlierUsed
  <2>3. CASE request[r].pc # "apply"
    BY <2>1, <2>3 DEF InStep, Aims, Making, Restoring, Loading
  <2> QED BY <2>2, <2>3
<1>2. v \in WorkspaceRecord
  BY DEF WellFormed
<1>3. /\ \A h \in Workspaces : workspace'[h] = IF h = g THEN v ELSE workspace[h]
      /\ workspace' \in [Workspaces -> WorkspaceRecord]
      /\ v.members \subseteq workspace[g].members \cup {p}
  BY <1>0, <1>2 DEF Begun, Typed
<1>4. /\ p \in Panes /\ p \notin Started /\ Started' = Started \cup {p}
      /\ \A h \in Workspaces : p \notin workspace[h].members
      /\ Identified' /\ Gathered'
      /\ \A h \in Workspaces : ~Blank(h) => ~Blank(h)'
      /\ Counting'
  BY <1>0, <1>1, <1>2, StartFacts
<1>5. /\ \A h \in Workspaces : h # g =>
            Names(workspace[h].members)' = Names(workspace[h].members)
      /\ Names(workspace[g].members)' =
            Names(v.members \ {p}) \cup IF p \in v.members THEN {workspace[g].nextPane} ELSE {}
  BY <1>0, <1>2, StartFacts
<1>6. /\ pane'[p].phase = "running" /\ pane'[p].workspace = g /\ ~pane'[p].closing
      /\ \A q \in Panes \ {p} :
            /\ pane'[q].workspace = pane[q].workspace
            /\ pane'[q].phase = pane[q].phase /\ pane'[q].retained = pane[q].retained
            /\ pane'[q].closing = (pane[q].closing \/ q \in workspace[g].members \ v.members)
  BY DEF Begun
<1>7. ~closed
  BY <1>0 DEF InStep, Asks
<1>8. Typed'
  <2>1. \A h \in Workspaces : WellFormed(workspace'[h])
    BY <1>0, <1>3 DEF Typed
  <2>2. \A h \in Workspaces : WellFormed(workspace[h])'
    BY <2>1 DEF WellFormed
  <2>3. pane' \in [Panes -> PaneRecord] /\ request' \in [Requests -> RequestRecord]
    BY DEF Begun, Proceeds
  <2> QED BY <1>0, <1>3, <2>2, <2>3 DEF Typed
<1>9. Mutex'
  BY <1>0 DEF Mutex, Proceeds, Holding
<1>10. Kept'
  <2>1. \A h \in Workspaces : BeingLoaded(h)' <=> h = g /\ request'[r].pc \in Loading
    BY DEF BeingLoaded, Proceeds, Holding, Restoring
  <2>2. \A h \in Workspaces : h # g => ~BeingLoaded(h)
    BY DEF BeingLoaded, Holding, Restoring
  <2>3. ASSUME NEW h \in Workspaces
        PROVE  /\ PanesOf(workspace'[h].tabs) \subseteq Names(workspace[h].members)'
               /\ ~BeingLoaded(h)' => /\ Names(workspace[h].members)' \subseteq PanesOf(workspace'[h].tabs)
                                      /\ Focused(workspace[h])' \/ EarlyExit
    <3>1. CASE h = g
      <4>1. workspace'[h] = v
        BY <1>3, <3>1
      <4>2. Focused(workspace[h])' <=> Focused(v)
        BY <4>1, FocusedNext
      <4> QED BY <1>5, <2>1, <3>1, <4>1, <4>2 DEF Covered, Covering
    <3>2. CASE h # g
      <4>1. workspace'[h] = workspace[h]
        BY <1>3, <3>2
      <4>2. Focused(workspace[h])' <=> Focused(workspace[h])
        BY <4>1, FocusedNext
      <4> QED BY <1>0, <1>5, <2>2, <3>2, <4>1, <4>2 DEF Kept
    <3> QED BY <3>1, <3>2
  <2> QED BY <2>3 DEF Kept
<1>11. ASSUME NEW s \in Requests PROVE InStep(request[s])'
  <2>1. CASE s = r
    BY <2>1
  <2>2. CASE s # r
    <3>1. InStep(request[s])
      BY <1>0
    <3>2. /\ closed' => request[s].pc \in {"idle", "ensure", "restore"}
          /\ request[s].pc = "apply" =>
                /\ current' # None
                /\ request[s].kind \in Starting => request[s].workspace = current'
      BY <3>1 DEF InStep, Asks, Aims
    <3>3. request'[s] = request[s]
      BY <2>2 DEF Proceeds
    <3> QED BY <1>4, <2>2, <3>1, <3>2, <3>3, Waiting
  <2> QED BY <2>1, <2>2
<1>12. Parted'
  <2>1. ASSUME NEW s \in Requests, NEW x \in Requests,
               request'[s].pc = "apply", request'[x].pc \in Restoring
        PROVE  request'[s].workspace # request'[x].workspace
    <3>1. s # r /\ request'[s] = request[s]
      BY <2>1 DEF Proceeds
    <3>2. x = r
      BY <2>1 DEF Proceeds, Holding
    <3>3. request[r].pc \in Restoring /\ request'[r].workspace = g
      BY <2>1, <3>2 DEF Proceeds
    <3> QED BY <1>0, <2>1, <3>1, <3>2, <3>3 DEF Parted
  <2> QED BY <2>1 DEF Parted
<1>13. Owned'
  <2>1. p \in v.members \/ Entering(p)'
    BY DEF Entering
  <2>2. g = current \/ (request'[r].pc \in Making \cup Restoring /\ request'[r].workspace = g)
    BY DEF Proceeds, Making, Restoring, Loading
  <2>3. ASSUME NEW q \in Panes, q # p, pane'[q].phase = "running", ~pane'[q].closing
        PROVE  /\ q \in workspace'[pane'[q].workspace].members
               /\ pane'[q].workspace \in {current, g}
    <3>1. /\ pane[q].phase = "running" /\ ~pane[q].closing
          /\ pane'[q].workspace = pane[q].workspace
          /\ q \notin workspace[g].members \ v.members
      BY <1>6, <2>3
    <3>2. pane[q].workspace \in Workspaces
      BY <1>0, <3>1 DEF Identified, Started
    <3>3. ~Entering(q)
      BY DEF Entering, Holding, Making
    <3>4. q \in workspace[pane[q].workspace].members
          /\ (pane[q].workspace = current \/ Private(pane[q].workspace))
      BY <1>0, <3>1, <3>3 DEF Owned
    <3>5. q \in workspace'[pane[q].workspace].members
      BY <1>3, <3>1, <3>2, <3>4
    <3>6. Private(pane[q].workspace) => pane[q].workspace = g
      BY DEF Private, Holding
    <3> QED BY <3>1, <3>4, <3>5, <3>6
  <2>4. pane'[p].workspace = g /\ workspace'[g] = v
    BY <1>3, <1>6
  <2>5. ASSUME NEW q \in Panes, pane'[q].phase = "running", ~pane'[q].closing
        PROVE  /\ q \in workspace'[pane'[q].workspace].members \/ Entering(q)'
               /\ pane'[q].workspace \in {current, g}
    <3>1. CASE q = p
      BY <2>1, <2>4, <3>1
    <3>2. CASE q # p
      BY <2>3, <2>5, <3>2
    <3> QED BY <3>1, <3>2
  <2> QED BY <2>2, <2>5 DEF Owned, Private
<1>14. ClosedStaysEmpty'
  BY <1>7 DEF ClosedStaysEmpty
<1>15. Settling'
  <2>1. ASSUME ~EarlyExit, NEW h \in Workspaces, NEW q \in workspace'[h].members,
               pane'[q].phase # "running"
        PROVE  h = current /\ (pane'[q].phase = "done" => pane'[q].retained)
    <3>1. q # p
      BY <1>6, <2>1
    <3>2. q \in workspace[h].members
      BY <1>3, <2>1, <3>1
    <3>3. q \in Panes \ {p}
      BY <1>0, <3>1, <3>2, Records
    <3> QED BY <1>0, <1>6, <2>1, <3>2, <3>3 DEF Settling
  <2> QED BY <2>1 DEF Settling
<1> QED BY <1>4, <1>8, <1>9, <1>10, <1>11, <1>12, <1>13, <1>14, <1>15 DEF WorkspaceInv

\* A pane that has just been started.
Newborn(g, id) == [Unborn EXCEPT !.phase = "running", !.workspace = g, !.id = id]

\* A pane that was just started
LEMMA NewbornFacts ==
  ASSUME NEW g \in Workspaces, NEW id \in Nat
  PROVE  /\ Newborn(g, id) \in PaneRecord /\ Newborn(g, id).phase = "running"
         /\ Newborn(g, id).workspace = g /\ Newborn(g, id).id = id
         /\ Newborn(g, id).closing = FALSE
BY DEF Newborn, Unborn, PaneRecord

\* newTerminalPane, with close of the panes that leave, ...
LEMMA BegunBy ==
  ASSUME Typed, Counting, FreePanes # {}, NEW g \in Workspaces, NEW v,
         workspace' = [workspace EXCEPT ![g] = v],
         v.nextPane = workspace[g].nextPane + 1,
         v.members \subseteq workspace[g].members \cup {NextFree},
         NEW left, left = workspace[g].members \ v.members,
         pane' = [Closing(left) EXCEPT ![NextFree] = Newborn(g, workspace[g].nextPane)]
  PROVE  Begun(NextFree, g, v)
<1>1. NextFree \in Panes
  BY NextFreeFacts
<1>2. workspace[g].nextPane \in Nat
  BY Records
<1> DEFINE base == Closing(left)
           new == Newborn(g, workspace[g].nextPane)
<1>3. /\ base \in [Panes -> PaneRecord]
      /\ \A q \in Panes :
            /\ base[q].id = pane[q].id /\ base[q].workspace = pane[q].workspace
            /\ base[q].phase = pane[q].phase /\ base[q].retained = pane[q].retained
            /\ base[q].closing = (pane[q].closing \/ q \in left)
  BY ClosingFacts
<1>4. /\ new \in PaneRecord /\ new.phase = "running" /\ new.workspace = g
      /\ new.id = workspace[g].nextPane /\ new.closing = FALSE
  BY <1>2, NewbornFacts, ZenonT(60)
<1>5. pane' = [base EXCEPT ![NextFree] = new]
  OBVIOUS
<1> HIDE DEF base, new
<1>6. pane' \in [Panes -> PaneRecord] /\ pane'[NextFree] = new
      /\ \A q \in Panes \ {NextFree} : pane'[q] = base[q]
  BY <1>1, <1>3, <1>4, <1>5, ZenonT(60)
<1>7. /\ pane'[NextFree].phase = "running" /\ pane'[NextFree].workspace = g
      /\ pane'[NextFree].id = workspace[g].nextPane /\ ~pane'[NextFree].closing
  BY <1>4, <1>6
<1>8. \A q \in Panes \ {NextFree} :
          /\ pane'[q].id = pane[q].id /\ pane'[q].workspace = pane[q].workspace
          /\ pane'[q].phase = pane[q].phase /\ pane'[q].retained = pane[q].retained
          /\ pane'[q].closing = (pane[q].closing \/ q \in workspace[g].members \ v.members)
  BY <1>3, <1>6, ZenonT(60)
<1> QED BY <1>6, <1>7, <1>8 DEF Begun

\* ... and without.
LEMMA BegunAlone ==
  ASSUME Typed, Counting, FreePanes # {}, NEW g \in Workspaces, NEW v,
         workspace' = [workspace EXCEPT ![g] = v],
         v.nextPane = workspace[g].nextPane + 1,
         workspace[g].members \subseteq v.members,
         v.members \subseteq workspace[g].members \cup {NextFree},
         StartPane(NextFree, g, workspace[g].nextPane)
  PROVE  Begun(NextFree, g, v)
<1>1. Closing({}) = pane
  BY DEF Closing, Typed
<1>2. pane' = [Closing({}) EXCEPT ![NextFree] = Newborn(g, workspace[g].nextPane)]
  BY <1>1 DEF StartPane, Newborn
<1>3. {} = workspace[g].members \ v.members
  OBVIOUS
<1> QED BY <1>2, <1>3, BegunBy

\* One pane more to name.
LEMMA Numbering ==
  ASSUME NEW w \in WorkspaceRecord, WellFormed(w), NEW v, v = [w EXCEPT !.nextPane = @ + 1]
  PROVE  /\ v \in WorkspaceRecord /\ WellFormed(v)
         /\ v.members = w.members /\ v.tabs = w.tabs /\ v.active = w.active
         /\ v.recent = w.recent /\ v.nextTab = w.nextTab /\ v.nextPane = w.nextPane + 1
         /\ Focused(v) <=> Focused(w)
<1>1. w.nextPane \in Nat \ {0}
  BY DEF WorkspaceRecord
<1>2. /\ v \in WorkspaceRecord
      /\ v.members = w.members /\ v.tabs = w.tabs /\ v.active = w.active
      /\ v.recent = w.recent /\ v.nextTab = w.nextTab /\ v.nextPane = w.nextPane + 1
  <2> DEFINE n == w.nextPane + 1
             u == [w EXCEPT !.nextPane = n]
  <2>1. n \in Nat \ {0} /\ v = u
    BY <1>1
  <2> HIDE DEF n
  <2>2. /\ u \in WorkspaceRecord
        /\ u.members = w.members /\ u.tabs = w.tabs /\ u.active = w.active
        /\ u.recent = w.recent /\ u.nextTab = w.nextTab /\ u.nextPane = n
    BY <2>1 DEF WorkspaceRecord
  <2> HIDE DEF u
  <2> QED BY <2>1, <2>2 DEF n
<1>3. WellFormed(v)
  BY <1>2 DEF WellFormed
<1>4. Focused(v) <=> Focused(w)
  BY <1>2 DEF Focused, TabIds
<1> QED BY <1>2, <1>3, <1>4

\* newPaneLocked starts the first tab's shell, whose identity was read before.
LEMMA CreateStartsKept ==
  ASSUME WorkspaceInv, NEW r \in Requests, request[r].pc = "start", FreePanes # {},
         workspace' = [workspace EXCEPT ![request[r].workspace].nextPane = @ + 1],
         StartPane(NextFree, request[r].workspace, request[r].id),
         request' = [request EXCEPT ![r].pc = "publish", ![r].pane = NextFree],
         UNCHANGED <<daemonMu, current, closed>>
  PROVE  WorkspaceInv'
<1>0. /\ Typed /\ Mutex /\ Counting /\ Identified /\ Gathered /\ Kept /\ InStep(request[r])
      /\ request[r] \in RequestRecord
  BY InvParts, Records
<1>1. PICK g \in Workspaces : g = request[r].workspace
  BY <1>0 DEF InStep, Aims, Holding, Making
<1>2. \A s \in Requests : s # r => request[s].pc \notin Holding
  BY <1>0, OnlyHolder DEF Holding, Making
<1>3. request[r].id = workspace[g].nextPane
  BY <1>0, <1>1 DEF InStep, Starts
<1> DEFINE w == workspace[g]
           v == [w EXCEPT !.nextPane = @ + 1]
<1>4. w \in WorkspaceRecord /\ WellFormed(w)
  BY <1>0 DEF Typed
<1>5. /\ v \in WorkspaceRecord /\ WellFormed(v)
      /\ v.members = w.members /\ v.tabs = w.tabs /\ v.nextPane = w.nextPane + 1
      /\ Focused(v) <=> Focused(w)
  BY <1>4, Numbering
<1>6. workspace' = [workspace EXCEPT ![g] = v]
  BY <1>1
<1> HIDE DEF v
<1>7. Begun(NextFree, g, v)
  BY <1>0, <1>1, <1>3, <1>5, <1>6, BegunAlone
<1>8. /\ NextFree \in Panes /\ NextFree \notin Started /\ Started' = Started \cup {NextFree}
      /\ NextFree \notin workspace[g].members
      /\ \A h \in Workspaces : ~Blank(h) \/ h = g => ~Blank(h)'
  BY <1>0, <1>5, <1>7, StartFacts
<1> DEFINE p == NextFree
           q == [request[r] EXCEPT !.pc = "publish", !.pane = p]
<1>9. p \in Panes
  BY <1>8
<1> HIDE DEF p
<1>10. /\ q \in RequestRecord /\ q.pc = "publish" /\ q.pane = p /\ q.id = request[r].id
       /\ q.workspace = g /\ q.kind = request[r].kind /\ q.mix = request[r].mix
  BY <1>0, <1>1, <1>9 DEF RequestRecord
<1>11. request' = [request EXCEPT ![r] = q]
  BY DEF p
<1> HIDE DEF q
<1>12. /\ request' \in [Requests -> RequestRecord] /\ request'[r] = q
       /\ \A s \in Requests : s # r => request'[s] = request[s]
  BY <1>0, <1>10, <1>11 DEF Typed
<1>13. InStep(request[r])'
  <2>0. PICK x : x = q
    OBVIOUS
  <2>1. Asks(x)'
    BY <1>0, <1>10, <2>0 DEF InStep, Asks
  <2>2. Aims(x)'
    <3>1. \A h \in 1..(g - 1) : ~Blank(h)'
      <4>1. \A h \in 1..(g - 1) : ~Blank(h) /\ h \in Workspaces
        BY <1>0, <1>1, Bounded DEF InStep, Aims, Making, Workspaces
      <4> QED BY <1>8, <4>1
    <3>2. current' # None => g = current'
      BY <1>0, <1>1 DEF InStep, Aims, Making
    <3> QED BY <1>10, <2>0, <3>1, <3>2 DEF Aims, Restoring, Loading
  <2>3. Starts(x)'
    <3>1. p \in Started' \ workspace'[g].members
      BY <1>0, <1>5, <1>6, <1>8 DEF p, Typed
    <3>2. /\ pane'[p].phase = "running" /\ pane'[p].workspace = g
          /\ pane'[p].id = x.id /\ ~pane'[p].closing
      BY <1>3, <1>7, <1>10, <2>0 DEF Begun, p
    <3> QED BY <1>10, <2>0, <3>1, <3>2 DEF Starts
  <2>4. Recovers(x)'
    BY <1>10, <2>0 DEF Recovers, Loading
  <2> QED BY <1>12, <2>0, <2>1, <2>2, <2>3, <2>4, ProgressOf DEF InStep
<1>14. Proceeds(r, g)
  BY <1>10, <1>12 DEF Proceeds, Making, Restoring, Loading
<1>15. /\ PanesOf(w.tabs) \subseteq Names(w.members) /\ Names(w.members) \subseteq PanesOf(w.tabs)
       /\ Focused(w) \/ EarlyExit
  <2>1. ~BeingLoaded(g)
    BY <1>2 DEF BeingLoaded, Holding, Restoring, Loading
  <2> QED BY <1>0, <2>1 DEF Kept
<1>16. Covered(v, p, w.nextPane) /\ Covering(v, p, w.nextPane) /\ (Focused(v) \/ EarlyExit)
  <2>1. v.members \ {p} = w.members /\ p \notin v.members
    BY <1>5, <1>8 DEF p
  <2> QED BY <1>5, <1>15, <2>1 DEF Covered, Covering
<1>17. request'[r].pc = "publish" /\ request'[r].pane = p
  BY <1>10, <1>12
<1> QED BY <1>1, <1>2, <1>5, <1>7, <1>13, <1>14, <1>16, <1>17, GrowStep DEF p

\* Either way.
LEMMA CreateStartKept ==
  ASSUME WorkspaceInv, NEW r \in Requests, CreateStart(r)
  PROVE  WorkspaceInv'
<1>1. request[r].pc = "start" /\ UNCHANGED <<current, closed>>
  BY DEF CreateStart
<1> DEFINE next == [workspace EXCEPT ![request[r].workspace].nextPane = @ + 1]
<1>2. CASE /\ workspace' = IF current = None THEN workspace ELSE next
           /\ Finish(r) /\ daemonMu' = Free /\ UNCHANGED pane
  BY <1>1, <1>2, CreateFailsKept
<1>3. CASE /\ workspace' = next /\ FreePanes # {}
           /\ StartPane(NextFree, request[r].workspace, request[r].id)
           /\ request' = [request EXCEPT ![r].pc = "publish", ![r].pane = NextFree]
           /\ UNCHANGED daemonMu
  BY <1>1, <1>3, CreateStartsKept
<1> QED BY <1>2, <1>3 DEF CreateStart, MutexAfterEnsure

\* The next pane is new to a workspace, and so is the next identity.
LEMMA FreshFacts ==
  ASSUME Typed, Counting, Identified, Gathered, FreePanes # {}, NEW g \in Workspaces
  PROVE  /\ NextFree \in Panes /\ NextFree \notin workspace[g].members
         /\ workspace[g].nextPane \in Nat
         /\ workspace[g].nextPane \notin Names(workspace[g].members)
<1>1. NextFree \in Panes /\ NextFree \notin Started
  BY NextFreeFacts
<1>2. \A p \in workspace[g].members : p \in Started /\ pane[p].workspace = g
  BY DEF Gathered
<1>3. /\ workspace[g].nextPane \in Nat
      /\ \A p \in workspace[g].members : pane[p].id < workspace[g].nextPane /\ pane[p].id \in Nat
  BY <1>2, Records DEF Identified, Started
<1> QED BY <1>1, <1>2, <1>3 DEF Names


\* The next pane is new to the workspace, and so is the next identity.
LEMMA NewPaneFacts ==
  ASSUME WorkspaceInv, NEW r \in Requests, request[r].pc = "apply", FreePanes # {}
  PROVE  /\ Fit(Ws(r)) /\ NextFree \in Panes /\ NextFree \notin Ws(r).members
         /\ Ws(r).nextPane \in Nat /\ Ws(r).nextPane \notin Names(Ws(r).members)
<1>0. /\ Typed /\ Counting /\ Identified /\ Gathered
  BY InvParts
<1>1. PICK g \in Workspaces : g = request[r].workspace /\ Fit(Ws(r))
  BY ApplyFacts
<1> QED BY <1>0, <1>1, FreshFacts DEF Ws


-----------------------------------------------------------------------------
(* The actions that start a pane.                                          *)

\* The workspace that an action leaves, as far as the step is concerned.
LEMMA ChangeWithKept ==
  ASSUME Serial, WorkspaceInv, NEW r \in Requests, request[r].pc = "apply",
         request[r].kind \in Starting, NEW w, NEW left,
         Grown(Ws(r), w, NextFree, Ws(r).nextPane),
         left = Ws(r).members \ w.members, ChangeWith(r, w, left)
  PROVE  WorkspaceInv'
<1>0. /\ Typed /\ Mutex /\ Counting /\ Identified /\ Gathered /\ Kept /\ InStep(request[r])
  BY InvParts
<1>1. \A s \in Requests : s = r
  BY <1>0, Alone
<1>2. PICK g \in Workspaces : g = request[r].workspace /\ g = current /\ ~BeingLoaded(g)
  BY <1>0, ApplyFacts DEF InStep, Aims
<1> DEFINE old == workspace[g]
           v == [w EXCEPT !.nextPane = @ + 1]
           p == NextFree
<1>3. Ws(r) = old /\ FreePanes # {}
  BY <1>2 DEF Ws, ChangeWith
<1>4. /\ w \in WorkspaceRecord /\ WellFormed(w) /\ Focused(w)
      /\ w.members \subseteq old.members \cup {p} /\ p \in w.members
      /\ w.nextPane = old.nextPane
      /\ PanesOf(w.tabs) \subseteq Names(w.members \ {p}) \cup {old.nextPane}
      /\ Names(old.members) \subseteq PanesOf(old.tabs) =>
            Names(w.members \ {p}) \subseteq PanesOf(w.tabs)
      /\ old.nextPane \in PanesOf(w.tabs)
  BY <1>3 DEF Grown, Joined
<1>5. /\ v \in WorkspaceRecord /\ WellFormed(v)
      /\ v.members = w.members /\ v.tabs = w.tabs /\ v.nextPane = old.nextPane + 1
      /\ Focused(v)
  BY <1>4, Numbering
<1>6. workspace' = [workspace EXCEPT ![g] = v]
  BY <1>2 DEF ChangeWith
<1>7. pane' = [Closing(left) EXCEPT ![NextFree] = Newborn(g, old.nextPane)]
  BY <1>2, <1>3 DEF ChangeWith, Newborn
<1> HIDE DEF v
<1>8. Begun(NextFree, g, v)
  BY <1>0, <1>3, <1>4, <1>5, <1>6, <1>7, BegunBy
<1>9. Names(old.members) \subseteq PanesOf(old.tabs)
  BY <1>0, <1>2 DEF Kept
<1>10. Covered(v, p, old.nextPane) /\ Covering(v, p, old.nextPane)
  BY <1>4, <1>5, <1>9 DEF Covered, Covering
<1> DEFINE q == Idle(request[r].mix)
<1>11. Turns(r, q) /\ q \in RequestRecord /\ q.pc = "idle"
  BY <1>0, Finished DEF ChangeWith
<1> HIDE DEF q
<1>12. request'[r] = q
  BY <1>11 DEF Turns
<1>13. InStep(request[r])'
  <2>1. PICK x : x = q
    OBVIOUS
  <2>2. InStep(x)'
    BY <1>11, <2>1 DEF InStep, Asks, Aims, Starts, Recovers, Holding, Making, Restoring, Loading
  <2> QED BY <1>12, <2>1, <2>2, ProgressOf
<1>14. Proceeds(r, g)
  BY <1>11, <1>12 DEF Proceeds, Turns, Making, Restoring, Loading
<1>15. \A s \in Requests : s # r => request[s].pc \notin Holding
  BY <1>1
<1>16. UNCHANGED <<daemonMu, current, closed>>
  BY DEF ChangeWith
<1>17. request'[r].pc \notin Making
  BY <1>11, <1>12 DEF Making
<1> QED BY <1>2, <1>3, <1>4, <1>5, <1>8, <1>10, <1>13, <1>14, <1>15, <1>16, GrowStep

\* createTabLocked within an action
LEMMA CreateTabKept ==
  ASSUME Serial, WorkspaceInv, NEW r \in Requests, NEW source, CreateTab(r, source)
  PROVE  WorkspaceInv'
<1>1. /\ request[r].pc = "apply" /\ request[r].kind \in Starting
      /\ ChangeWith(r, AddTab(Ws(r), NextFree, Ws(r).nextPane, source), {})
  BY DEF CreateTab, Applying, Starting
<1>2. Fit(Ws(r)) /\ NextFree \in Panes /\ NextFree \notin Ws(r).members
      /\ Ws(r).nextPane \in Nat /\ Ws(r).nextPane \notin Names(Ws(r).members)
  BY <1>1, NewPaneFacts DEF ChangeWith
<1> DEFINE w == AddTab(Ws(r), NextFree, Ws(r).nextPane, source)
<1>3. Grown(Ws(r), w, NextFree, Ws(r).nextPane) /\ w.members = Ws(r).members \cup {NextFree}
  BY <1>2, AddTabGrown
<1> HIDE DEF w
<1>4. {} = Ws(r).members \ w.members
  BY <1>3
<1> QED BY <1>1, <1>3, <1>4, ChangeWithKept DEF w

\* splitPaneLocked
LEMMA SplitPaneKept ==
  ASSUME Serial, WorkspaceInv, NEW r \in Requests, NEW t, NEW id, SplitPane(r, t, id)
  PROVE  WorkspaceInv'
<1> DEFINE old == Ws(r)
           new == old.nextPane
           b == WithMember(old, NextFree, new)
           x == SplitTab(old.tabs[IndexOf(old, t)], id, new)
           w == SetActive([b EXCEPT !.tabs[IndexOf(b, t)] = x], t)
<1>1. /\ request[r].pc = "apply" /\ request[r].kind \in Starting
      /\ t \in TabIds(old) /\ id \in old.tabs[IndexOf(old, t)].panes
  BY DEF SplitPane, Applying, Starting, TabOf
<1>2. ChangeWith(r, w, {})
  BY DEF SplitPane, TabOf, SplitTab
<1>3. Fit(old) /\ NextFree \in Panes /\ NextFree \notin old.members
      /\ new \in Nat /\ new \notin Names(old.members)
  BY <1>1, <1>2, NewPaneFacts DEF ChangeWith
<1> HIDE DEF new, b, old
<1>4. Grown(old, w, NextFree, new) /\ w.members = old.members \cup {NextFree}
  BY <1>1, <1>3, SplitGrown DEF b
<1> HIDE DEF w
<1>5. {} = old.members \ w.members
  BY <1>4
<1> QED BY <1>1, <1>2, <1>4, <1>5, ChangeWithKept DEF old, new

\* restartExitedPaneLocked
LEMMA RestartPaneKept ==
  ASSUME Serial, WorkspaceInv, NEW r \in Requests, NEW t, NEW id, RestartPane(r, t, id)
  PROVE  WorkspaceInv'
<1> DEFINE old == Ws(r)
           new == old.nextPane
           x == RestartedTab(old.tabs[IndexOf(old, t)], id, new)
           B(q) == Replacing(old, NextFree, new, q)
           W(q) == SetActive([B(q) EXCEPT !.tabs[IndexOf(B(q), t)] = x], t)
<1>1. /\ request[r].pc = "apply" /\ request[r].kind \in Starting
      /\ t \in TabIds(old) /\ id \in old.tabs[IndexOf(old, t)].panes
  BY SMTT(30) DEF RestartPane, Applying, Starting, TabOf
<1>2. PICK q \in Member(old, id) : ChangeWith(r, W(q), {q})
  BY DEF RestartPane, TabOf, RestartedTab, Replacing
<1>3. Fit(old) /\ NextFree \in Panes /\ NextFree \notin old.members
      /\ new \in Nat /\ new \notin Names(old.members)
  BY <1>1, <1>2, NewPaneFacts DEF ChangeWith
<1>4. PICK b : b = B(q)
  OBVIOUS
<1> DEFINE w == SetActive([b EXCEPT !.tabs[IndexOf(b, t)] = x], t)
<1>5. w = W(q)
  BY <1>4
<1>6. b = Replacing(old, NextFree, new, q)
  BY <1>4
<1> HIDE DEF old, new, B, W
<1>7. Grown(old, w, NextFree, new) /\ w.members = (old.members \ {q}) \cup {NextFree}
  BY <1>1, <1>3, <1>6, RestartGrown
<1> HIDE DEF w
<1>8. q \in old.members
  BY DEF Member
<1>9. {q} = old.members \ w.members
  BY <1>3, <1>7, <1>8
<1> QED BY <1>1, <1>2, <1>5, <1>7, <1>9, ChangeWithKept DEF old, new

-----------------------------------------------------------------------------
(* A restoration, pane by pane.                                            *)

\* A tab is added behind the others.
LEMMA AppendTabs ==
  ASSUME NEW S, NEW tabs \in Seq(S), Apart(tabs), NEW x \in S, New(x, tabs)
  PROVE  /\ Append(tabs, x) \in Seq(S) /\ Append(tabs, x) # <<>>
         /\ Apart(Append(tabs, x))
         /\ PanesOf(Append(tabs, x)) = PanesOf(tabs) \cup x.panes
         /\ IdsOf(Append(tabs, x)) = IdsOf(tabs) \cup {x.id}
<1> DEFINE n == Len(tabs)
           v == Append(tabs, x)
           u == InsertAt(tabs, n + 1, x)
<1>1. n \in Nat /\ n + 1 \in 1..(n + 1)
  OBVIOUS
<1>2. /\ v \in Seq(S) /\ Len(v) = n + 1 /\ v # <<>>
      /\ \A k \in 1..(n + 1) : v[k] = IF k < n + 1 THEN tabs[k] ELSE x
  BY <1>1
<1> HIDE DEF v
<1>3. /\ u \in Seq(S) /\ Len(u) = n + 1
      /\ \A k \in 1..(n + 1) :
            u[k] = IF k < n + 1 THEN tabs[k] ELSE IF k = n + 1 THEN x ELSE tabs[k - 1]
  BY <1>1, InsertAtFacts, SMTT(30)
<1>4. /\ Apart(u) /\ PanesOf(u) = PanesOf(tabs) \cup x.panes
      /\ IdsOf(u) = IdsOf(tabs) \cup {x.id}
  BY <1>1, InsertTabs DEF New
<1> HIDE DEF u
<1>5. Len(u) = Len(v) /\ \A k \in 1..Len(u) : u[k] = v[k]
  BY <1>1, <1>2, <1>3
<1>6. u = v
  BY <1>2, <1>3, <1>5, SeqEqual
<1> QED BY <1>2, <1>4, <1>6 DEF v

\* The map has the restored pane; the tab is not complete.
LEMMA PaneRestored ==
  ASSUME NEW w \in WorkspaceRecord, WellFormed(w), NEW p \in Panes,
         NEW id \in Nat, id \notin Names(w.members), w.nextPane <= id,
         NEW v, v = RestoredPane(w, p, id)
  PROVE  /\ v \in WorkspaceRecord /\ WellFormed(v)
         /\ v.members = w.members \cup {p} /\ v.tabs = w.tabs /\ v.active = w.active
         /\ v.recent = w.recent /\ v.nextTab = w.nextTab /\ v.nextPane = id + 1
<1> DEFINE b == WithMember(w, p, id)
           n == IdAfter(w.nextPane, id)
           u == [b EXCEPT !.nextPane = n]
<1>1. /\ b \in WorkspaceRecord /\ b.members = w.members \cup {p} /\ b.tabs = w.tabs
      /\ b.active = w.active /\ b.recent = w.recent /\ b.nextTab = w.nextTab
      /\ b.nextPane = w.nextPane
  BY WithMemberFacts
<1>2. n = id + 1 /\ n \in Nat \ {0}
  BY DEF IdAfter, WorkspaceRecord
<1>3. v = u
  BY <1>1 DEF RestoredPane
<1> HIDE DEF b, n
<1>4. /\ u \in WorkspaceRecord /\ u.members = b.members /\ u.tabs = b.tabs
      /\ u.active = b.active /\ u.recent = b.recent /\ u.nextTab = b.nextTab /\ u.nextPane = n
  BY <1>1, <1>2 DEF WorkspaceRecord
<1> HIDE DEF u
<1>5. WellFormed(v)
  BY <1>1, <1>3, <1>4 DEF WellFormed
<1> QED BY <1>1, <1>2, <1>3, <1>4, <1>5

\* The tab's last pane runs, and the tab is added.
LEMMA TabRestored ==
  ASSUME NEW w \in WorkspaceRecord, WellFormed(w), NEW p \in Panes,
         NEW id \in Nat, id \notin Names(w.members), w.nextPane <= id,
         NEW tab \in GoodTab, New(tab, w.tabs), 0 < tab.id,
         \A t \in TabIds(w) : t \in Nat /\ t < tab.id,
         NEW v, v = RestoredTab(w, p, id, tab)
  PROVE  /\ v \in WorkspaceRecord /\ WellFormed(v)
         /\ v.members = w.members \cup {p} /\ v.active = w.active
         /\ v.recent = w.recent /\ v.nextPane = id + 1
         /\ PanesOf(v.tabs) = PanesOf(w.tabs) \cup tab.panes
         /\ TabIds(v) = TabIds(w) \cup {tab.id}
<1> DEFINE b == RestoredPane(w, p, id)
           n == IdAfter(w.nextTab, tab.id)
           tabs == Append(w.tabs, tab)
           u == [b EXCEPT !.tabs = tabs, !.nextTab = n]
<1>1. /\ b \in WorkspaceRecord /\ WellFormed(b) /\ b.members = w.members \cup {p}
      /\ b.tabs = w.tabs /\ b.active = w.active /\ b.recent = w.recent /\ b.nextPane = id + 1
      /\ b.nextTab = w.nextTab
  BY PaneRestored
<1>2. tab.id \in Nat /\ n \in Nat \ {0} /\ tab.id < n
  <2>1. tab.id \in Nat /\ w.nextTab \in Nat \ {0}
    BY DEF GoodTab, Tab, WorkspaceRecord
  <2> QED BY <2>1 DEF IdAfter
<1>3. v = u
  BY <1>1 DEF RestoredTab
<1>4. /\ tabs \in Seq(GoodTab) /\ Apart(tabs)
      /\ PanesOf(tabs) = PanesOf(w.tabs) \cup tab.panes
      /\ IdsOf(tabs) = IdsOf(w.tabs) \cup {tab.id}
  <2>1. w.tabs \in Seq(GoodTab) /\ Apart(w.tabs)
    BY DEF WellFormed, WorkspaceRecord
  <2> QED BY <2>1, AppendTabs
<1>5. IdsOf(tabs) \subseteq Nat /\ \A t \in IdsOf(tabs) : 0 < t /\ t < n
  <2>1. Numbered(w.tabs, w.nextTab)
    BY WellFormedNumbered
  <2>2. \A t \in IdsOf(w.tabs) : 0 < t
    BY <2>1, IdsNumbered
  <2>3. \A t \in IdsOf(w.tabs) : t \in Nat /\ t < tab.id
    BY TabIdsOf
  <2> QED BY <1>2, <1>4, <2>2, <2>3
<1> HIDE DEF b, n, tabs
<1>6. /\ u \in WorkspaceRecord /\ u.members = b.members /\ u.tabs = tabs
      /\ u.active = b.active /\ u.recent = b.recent /\ u.nextTab = n /\ u.nextPane = b.nextPane
  BY <1>1, <1>2, <1>4 DEF WorkspaceRecord
<1> HIDE DEF u
<1>7. WellFormed(v)
  <2>1. Numbered(tabs, n)
    BY <1>5, NumberedIds
  <2>2. Len(b.recent) <= 2
    BY <1>1 DEF WellFormed
  <2> QED BY <1>3, <1>4, <1>6, <2>1, <2>2, WellFormedNumbered
<1>8. TabIds(v) = TabIds(w) \cup {tab.id}
  BY <1>3, <1>4, <1>6, TabIdsOf
<1> QED BY <1>1, <1>3, <1>4, <1>6, <1>7, <1>8

\* How far a document has been followed, given the names of the panes.
FollowedBy(v, names, document, id) ==
    \E n \in 1..MaxRestored :
        /\ id < n
        /\ \/ document = Together(n) /\ v.tabs = <<>> /\ names = 1..id
           \/ /\ document = Separate(n)
              /\ names \subseteq PanesOf(v.tabs)
              /\ TabIds(v) \subseteq 1..id
              /\ 1..id \subseteq TabIds(v) \/ EarlyExit

RecoveredBy(v, names, q) ==
    /\ q.pc = "pane" => FollowedBy(v, names, q.document, q.id)
    /\ q.pc = "loaded" => /\ names \subseteq PanesOf(v.tabs)
                          /\ 1..Len(q.document) \subseteq TabIds(v) \/ EarlyExit

\* Followed depends on a workspace's panes only by their names.
LEMMA FollowedNames ==
  ASSUME NEW w, NEW document, NEW id
  PROVE  Followed(w, document, id) <=> FollowedBy(w, Names(w.members), document, id)
BY DEF Followed, FollowedBy

\* How far the document has been followed after a step
LEMMA FollowedNext ==
  ASSUME NEW h, NEW v, workspace'[h] = v, NEW names, Names(workspace[h].members)' = names,
         NEW document, NEW id, FollowedBy(v, names, document, id)
  PROVE  Followed(workspace[h], document, id)'
<1>1. PICK n \in 1..MaxRestored :
          /\ id < n
          /\ \/ document = Together(n) /\ v.tabs = <<>> /\ names = 1..id
             \/ /\ document = Separate(n)
                /\ names \subseteq PanesOf(v.tabs)
                /\ TabIds(v) \subseteq 1..id
                /\ 1..id \subseteq TabIds(v) \/ EarlyExit
  BY DEF FollowedBy
<1>2. /\ workspace'[h].tabs = v.tabs
      /\ TabIds(workspace[h])' = TabIds(v)
  BY DEF TabIds
<1> QED BY <1>1, <1>2 DEF Followed

\* A pane of the document has been started; its tab may have followed.
LEMMA RestoreStep ==
  ASSUME WorkspaceInv, NEW r \in Requests, request[r].pc = "pane", FreePanes # {},
         NEW g \in Workspaces, g = request[r].workspace,
         NEW id, id = workspace[g].nextPane,
         NEW v, WellFormed(v), v.members = workspace[g].members \cup {NextFree},
         v.nextPane = id + 1, v.active = None, v.recent = <<>>,
         StartPane(NextFree, g, id), workspace' = [workspace EXCEPT ![g] = v],
         UNCHANGED <<daemonMu, current, closed>>,
         NEW q \in RequestRecord, Turns(r, q), q.pc \in Loading, q.id = id, q.workspace = g,
         q.kind = request[r].kind, q.mix = request[r].mix,
         NEW names, names = Names(workspace[g].members) \cup {id},
         PanesOf(v.tabs) \subseteq names, RecoveredBy(v, names, q)
  PROVE  WorkspaceInv'
<1>0. /\ Typed /\ Mutex /\ Counting /\ Identified /\ Gathered /\ Kept /\ InStep(request[r])
      /\ v \in WorkspaceRecord
  BY InvParts DEF WellFormed
<1>1. \A s \in Requests : s # r => request[s].pc \notin Holding
  BY <1>0, OnlyHolder DEF Holding, Restoring, Loading
<1>2. Begun(NextFree, g, v)
  BY <1>0, BegunAlone
<1>3. /\ NextFree \in Panes /\ NextFree \notin workspace[g].members
      /\ \A h \in Workspaces : ~Blank(h) \/ h = g => ~Blank(h)'
      /\ \A S \in SUBSET Started : Names(S)' = Names(S)
      /\ Names(workspace[g].members)' =
            Names(v.members \ {NextFree})
               \cup IF NextFree \in v.members THEN {workspace[g].nextPane} ELSE {}
  BY <1>0, <1>2, StartFacts
<1>4. v.members \ {NextFree} = workspace[g].members
  BY <1>3
<1>5. Names(workspace[g].members)' = names /\ workspace'[g] = v
  BY <1>0, <1>3, <1>4 DEF Typed
<1>6. request'[r] = q
  BY DEF Turns
<1>7. InStep(request[r])'
  <2>0. PICK x : x = q
    OBVIOUS
  <2>1. Asks(x)'
    BY <1>0, <2>0 DEF InStep, Asks, Loading
  <2>2. Aims(x)'
    <3>1. \A h \in 1..(g - 1) : ~Blank(h)'
      <4>1. \A h \in 1..(g - 1) : ~Blank(h) /\ h \in Workspaces
        BY <1>0, Bounded DEF InStep, Aims, Restoring, Loading, Workspaces
      <4> QED BY <1>3, <4>1
    <3>2. g # current'
      BY <1>0 DEF InStep, Aims, Restoring, Loading
    <3>3. x.pc \in {"pane", "loaded"} /\ x.workspace = g
      BY <2>0 DEF Loading
    <3> QED BY <3>1, <3>2, <3>3 DEF Aims, Making
  <2>3. Starts(x)'
    BY <2>0 DEF Starts, Loading
  <2>4. Recovers(x)'
    <3>1. workspace'[x.workspace] = v /\ Names(workspace[x.workspace].members)' = names
      <4>1. x.workspace = g
        BY <2>0
      <4> QED BY <1>5, <4>1 DEF Names
    <3>2. x.pc = "pane" => Followed(workspace[x.workspace], x.document, x.id)'
      BY <2>0, <3>1, FollowedNext DEF RecoveredBy
    <3>3. x.pc = "loaded" =>
              /\ Names(workspace[x.workspace].members)' \subseteq PanesOf(workspace'[x.workspace].tabs)
              /\ 1..Len(x.document) \subseteq TabIds(workspace'[x.workspace]) \/ EarlyExit
      BY <2>0, <3>1 DEF RecoveredBy
    <3> QED BY <2>0, <3>1, <3>2, <3>3 DEF Recovers, Names, TabIds
  <2> QED BY <1>6, <2>0, <2>1, <2>2, <2>3, <2>4, ProgressOf DEF InStep
<1>8. Proceeds(r, g)
  BY <1>6 DEF Proceeds, Turns, Making, Restoring, Loading
<1>9. Covered(v, NextFree, workspace[g].nextPane)
  BY <1>4 DEF Covered
<1>10. request'[r].pc \in Loading /\ NextFree \in v.members
  BY <1>6
<1> QED BY <1>1, <1>2, <1>7, <1>8, <1>9, <1>10, GrowStep

\* The tab of a document that shows pane id, and that tab made from its panes.
PlaceOf(document, id) == CHOOSE i \in 1..Len(document) : id \in Elements(document[i])
RecoveredTab(t, ids) ==
    [id |-> t, panes |-> Elements(ids), layout |-> ids, active |-> ids[1]]

\* A document's panes in one tab ...
LEMMA TogetherFacts ==
  ASSUME NEW n \in Nat \ {0}, NEW document, document = Together(n)
  PROVE  /\ Len(document) = 1 /\ Len(document[1]) = n /\ document[1][n] = n
         /\ Elements(document[1]) = 1..n
         /\ \A id \in 1..n : PlaceOf(document, id) = 1
         /\ RecoveredTab(1, document[1]) \in GoodTab
<1> DEFINE ids == [i \in 1..n |-> i]
<1>1. ids \in Seq(Nat) /\ Len(ids) = n /\ \A i \in 1..n : ids[i] = i
  OBVIOUS
<1>2. Len(document) = 1 /\ document[1] = ids
  BY DEF Together
<1> HIDE DEF ids
<1>3. Elements(ids) = 1..n
  BY <1>1 DEF Elements
<1>4. \A id \in 1..n : PlaceOf(document, id) = 1
  BY <1>2, <1>3 DEF PlaceOf
<1> DEFINE tab == RecoveredTab(1, ids)
<1>5. /\ tab \in Tab /\ tab.panes = Elements(ids) /\ tab.layout = ids /\ tab.active = ids[1]
  BY <1>1, <1>3 DEF RecoveredTab, Tab
<1> HIDE DEF tab
<1>6. tab \in GoodTab
  BY <1>1, <1>3, <1>5 DEF GoodTab, Once
<1> QED BY <1>1, <1>2, <1>3, <1>4, <1>6 DEF tab

\* ... or in a tab each
LEMMA SeparateFacts ==
  ASSUME NEW n \in Nat \ {0}, NEW document, document = Separate(n), NEW id \in 1..n
  PROVE  /\ Len(document) = n /\ document[id] = <<id>> /\ PlaceOf(document, id) = id
         /\ RecoveredTab(id, <<id>>) \in GoodTab
         /\ RecoveredTab(id, <<id>>).panes = {id}
<1>1. Len(document) = n /\ \A i \in 1..n : document[i] = <<i>>
  BY DEF Separate
<1>2. \A i \in 1..n : Elements(<<i>>) = {i}
  BY DEF Elements
<1>3. PlaceOf(document, id) = id
  <2>1. \A i \in 1..n : id \in Elements(document[i]) <=> i = id
    BY <1>1, <1>2
  <2> QED BY <1>1, <2>1 DEF PlaceOf
<1>4. RecoveredTab(id, <<id>>) = SingleTab(id, id)
  BY <1>2 DEF RecoveredTab, SingleTab
<1>5. id \in Nat
  OBVIOUS
<1> QED BY <1>1, <1>3, <1>4, <1>5, SingleTabGood

\* newRecoveredTerminalWorkspace starts a pane of the document.
LEMMA RestorePaneKept ==
  ASSUME WorkspaceInv, NEW r \in Requests, RestorePane(r)
  PROVE  WorkspaceInv'
<1>0. /\ Typed /\ Mutex /\ Counting /\ Identified /\ Gathered /\ Kept /\ InStep(request[r])
      /\ request[r] \in RequestRecord /\ request[r].pc = "pane" /\ request[r].id \in Nat
      /\ FreePanes # {}
  BY InvParts, Records DEF RestorePane
<1>1. PICK g \in Workspaces : g = request[r].workspace
  BY <1>0 DEF InStep, Aims, Holding, Restoring, Loading
<1>2. PICK document : document = request[r].document
  OBVIOUS
<1> DEFINE w == workspace[g]
           id == request[r].id + 1
           t == PlaceOf(document, id)
           ids == document[t]
           last == id = ids[Len(ids)]
           tab == RecoveredTab(t, ids)
           p == NextFree
           pc == IF last /\ t = Len(document) THEN "loaded" ELSE "pane"
           q == [request[r] EXCEPT !.pc = pc, !.id = id]
           v == IF last THEN RestoredTab(w, p, id, tab) ELSE RestoredPane(w, p, id)
           names == Names(w.members) \cup {id}
<1>3. /\ StartPane(NextFree, g, id)
      /\ request' = [request EXCEPT ![r] = q]
      /\ UNCHANGED <<daemonMu, current, closed>>
  <2>1. StartPane(NextFree, g, id) /\ UNCHANGED <<daemonMu, current, closed>>
    BY <1>1 DEF RestorePane
  <2>2. request' = [request EXCEPT ![r].pc = pc, ![r].id = id]
    BY <1>1, <1>2, SMTT(30) DEF RestorePane, PlaceOf
  <2> HIDE DEF pc, id
  <2> QED BY <2>1, <2>2
<1>4. workspace' = [workspace EXCEPT ![g] = v]
  BY <1>1, <1>2 DEF RestorePane, PlaceOf, RecoveredTab
<1>5. /\ w \in WorkspaceRecord /\ WellFormed(w) /\ id \in Nat \ {0} /\ id = w.nextPane
      /\ w.active = None /\ w.recent = <<>> /\ Followed(w, document, request[r].id)
      /\ PanesOf(w.tabs) \subseteq Names(w.members)
  <2>1. w \in WorkspaceRecord /\ WellFormed(w) /\ PanesOf(w.tabs) \subseteq Names(w.members)
    BY <1>0 DEF Typed, Kept
  <2> QED BY <1>0, <1>1, <1>2, <2>1 DEF InStep, Recovers, Loading
<1>6. p \in Panes /\ id \notin Names(w.members) /\ w.nextPane <= id
  BY <1>0, <1>5, FreshFacts
<1>7. PICK n \in 1..MaxRestored :
          /\ request[r].id < n
          /\ \/ document = Together(n) /\ w.tabs = <<>> /\ Names(w.members) = 1..request[r].id
             \/ /\ document = Separate(n)
                /\ Names(w.members) \subseteq PanesOf(w.tabs)
                /\ TabIds(w) \subseteq 1..request[r].id
                /\ 1..request[r].id \subseteq TabIds(w) \/ EarlyExit
  BY <1>5 DEF Followed
<1>8. n \in Nat \ {0} /\ id \in 1..n /\ request[r].id = id - 1
  BY <1>0, <1>5, <1>7, Bounded
<1>9. pc \in {"pane", "loaded"} /\ (pc = "loaded" <=> last /\ t = Len(document))
  OBVIOUS
<1> HIDE DEF pc
<1>10. /\ q \in RequestRecord /\ q.pc = pc /\ q.id = id /\ q.workspace = g
       /\ q.kind = request[r].kind /\ q.mix = request[r].mix /\ q.document = document
  BY <1>0, <1>1, <1>2, <1>5, <1>9 DEF RequestRecord
<1> HIDE DEF q
<1>11. Turns(r, q)
  BY <1>0, <1>3, <1>10 DEF Turns, Typed
<1>12. /\ WellFormed(v) /\ v.members = w.members \cup {p} /\ v.nextPane = id + 1
       /\ v.active = None /\ v.recent = <<>> /\ PanesOf(v.tabs) \subseteq names
       /\ RecoveredBy(v, names, q)
  <2>1. CASE document = Together(n) /\ w.tabs = <<>> /\ Names(w.members) = 1..request[r].id
    <3>1. /\ Len(document) = 1 /\ t = 1 /\ Len(ids) = n /\ ids[n] = n
          /\ Elements(ids) = 1..n /\ tab \in GoodTab
      BY <1>8, <2>1, TogetherFacts
    <3>2. names = 1..id
      BY <1>5, <1>8, <2>1
    <3>3. tab.id = 1 /\ tab.panes = 1..n
      BY <3>1 DEF RecoveredTab
    <3>4. PanesOf(w.tabs) = {} /\ TabIds(w) = {}
      BY <2>1 DEF PanesOf, TabIds
    <3> HIDE DEF t, ids, tab, names
    <3>5. CASE last
      <4>1. v = RestoredTab(w, p, id, tab) /\ id = n
        BY <3>1, <3>5
      <4>2. New(tab, w.tabs)
        BY <3>4, TabIdsOf DEF New
      <4> HIDE DEF v, last
      <4>3. /\ WellFormed(v) /\ v.members = w.members \cup {p} /\ v.active = w.active
            /\ v.recent = w.recent /\ v.nextPane = id + 1
            /\ PanesOf(v.tabs) = PanesOf(w.tabs) \cup tab.panes
            /\ TabIds(v) = TabIds(w) \cup {tab.id}
        <5>1. 0 < tab.id /\ \A k \in TabIds(w) : k \in Nat /\ k < tab.id
          BY <3>3, <3>4
        <5>2. w \in WorkspaceRecord /\ WellFormed(w) /\ id \in Nat /\ tab \in GoodTab
          BY <1>5, <3>1
        <5>3. p \in Panes /\ id \notin Names(w.members) /\ w.nextPane <= id
          BY <1>6
        <5>4. v = RestoredTab(w, p, id, tab)
          BY <4>1
        <5> HIDE DEF w, id, p
        <5> QED BY <4>2, <5>1, <5>2, <5>3, <5>4, TabRestored
      <4>4. PanesOf(v.tabs) = names /\ TabIds(v) = {1}
        BY <3>2, <3>3, <3>4, <4>1, <4>3
      <4>5. q.pc = "loaded"
        BY <1>9, <1>10, <3>1, <3>5
      <4>6. 1..Len(document) \subseteq TabIds(v)
        BY <3>1, <4>4
      <4>7. RecoveredBy(v, names, q)
        BY <1>10, <4>4, <4>5, <4>6 DEF RecoveredBy
      <4> QED BY <1>5, <4>3, <4>4, <4>7
    <3>6. CASE ~last
      <4>1. v = RestoredPane(w, p, id) /\ id # n
        BY <3>1, <3>6
      <4>2. q.pc = "pane"
        BY <1>9, <1>10, <3>6
      <4> HIDE DEF v, last
      <4>3. /\ WellFormed(v) /\ v.members = w.members \cup {p} /\ v.active = w.active
            /\ v.recent = w.recent /\ v.nextPane = id + 1 /\ v.tabs = w.tabs
        BY <1>5, <1>6, <4>1, PaneRestored
      <4>4. id < n
        BY <1>8, <4>1
      <4>5. FollowedBy(v, names, document, id)
        BY <2>1, <3>2, <4>3, <4>4 DEF FollowedBy
      <4>6. RecoveredBy(v, names, q)
        BY <1>10, <4>2, <4>5 DEF RecoveredBy
      <4> QED BY <1>5, <3>4, <4>3, <4>6
    <3> QED BY <3>5, <3>6
  <2>2. CASE /\ document = Separate(n)
             /\ Names(w.members) \subseteq PanesOf(w.tabs)
             /\ TabIds(w) \subseteq 1..request[r].id
             /\ 1..request[r].id \subseteq TabIds(w) \/ EarlyExit
    <3>1. /\ Len(document) = n /\ t = id /\ ids = <<id>>
          /\ tab \in GoodTab /\ tab.panes = {id}
      <4>1. /\ Len(document) = n /\ document[id] = <<id>> /\ t = id
            /\ RecoveredTab(id, <<id>>) \in GoodTab
            /\ RecoveredTab(id, <<id>>).panes = {id}
        <5> HIDE DEF id
        <5> QED BY <1>8, <2>2, SeparateFacts
      <4>2. ids = <<id>>
        BY <4>1
      <4> QED BY <4>1, <4>2
    <3>2. last
      BY <3>1
    <3>3. tab.id = id
      BY <3>1 DEF RecoveredTab
    <3>4. \A k \in TabIds(w) : k \in Nat /\ k < tab.id
      BY <1>5, <1>8, <2>2, <3>3
    <3>5. New(tab, w.tabs)
      <4>1. tab.id \notin IdsOf(w.tabs)
        BY <1>5, <3>3, <3>4, TabIdsOf
      <4>2. tab.panes \cap PanesOf(w.tabs) = {}
        BY <1>5, <1>6, <3>1
      <4> QED BY <4>1, <4>2 DEF New
    <3>6. v = RestoredTab(w, p, id, tab)
      BY <3>2
    <3>7. q.pc = "loaded" <=> id = n
      BY <1>9, <1>10, <3>1, <3>2
    <3> HIDE DEF t, ids, tab, names, v, last
    <3>8. /\ WellFormed(v) /\ v.members = w.members \cup {p} /\ v.active = w.active
          /\ v.recent = w.recent /\ v.nextPane = id + 1
          /\ PanesOf(v.tabs) = PanesOf(w.tabs) \cup tab.panes
          /\ TabIds(v) = TabIds(w) \cup {tab.id}
      <4>1. 0 < tab.id /\ id \in Nat
        BY <1>5, <1>8, <3>3
      <4>2. tab \in GoodTab
        BY <3>1
      <4>3. w \in WorkspaceRecord /\ WellFormed(w)
        BY <1>5
      <4> HIDE DEF w, id, p
      <4> QED BY <1>6, <3>4, <3>5, <3>6, <4>1, <4>2, <4>3, TabRestored
    <3>9. names = Names(w.members) \cup {id}
      BY DEF names
    <3>10. names \subseteq PanesOf(v.tabs) /\ PanesOf(v.tabs) \subseteq names
      BY <1>5, <2>2, <3>1, <3>8, <3>9
    <3>11. /\ TabIds(v) \subseteq 1..id
           /\ 1..id \subseteq TabIds(v) \/ EarlyExit
      <4>1. 1..id = 1..request[r].id \cup {id}
        BY <1>5, <1>8
      <4> QED BY <2>2, <3>3, <3>8, <4>1
    <3>12. q.pc = "pane" => FollowedBy(v, names, document, id)
      <4>1. q.pc = "pane" => id < n
        BY <1>8, <1>9, <1>10, <3>7
      <4> QED BY <2>2, <3>10, <3>11, <4>1 DEF FollowedBy
    <3>13. q.pc = "loaded" => 1..Len(document) \subseteq TabIds(v) \/ EarlyExit
      BY <3>1, <3>7, <3>11
    <3>14. RecoveredBy(v, names, q)
      BY <1>10, <3>10, <3>12, <3>13 DEF RecoveredBy
    <3> QED BY <1>5, <3>8, <3>10, <3>14
  <2> QED BY <1>7, <2>1, <2>2
<1>13. q.pc \in Loading
  BY <1>9, <1>10 DEF Loading
<1> HIDE DEF v, names, id
<1>14. names = Names(workspace[g].members) \cup {id} /\ id = workspace[g].nextPane
  BY <1>5 DEF names
<1> QED BY <1>0, <1>1, <1>3, <1>4, <1>10, <1>11, <1>12, <1>13, <1>14, RestoreStep

\* What remains of the invariant when a workspace is left with less.
LEMMA ConcludeStep ==
  ASSUME WorkspaceInv, NEW g \in Workspaces, NEW v, Legal(workspace[g], v),
         Blank(g) => v = EmptyWorkspace,
         workspace' = [workspace EXCEPT ![g] = v],
         pane' \in [Panes -> PaneRecord], \A p \in Panes : Left(p, g, v),
         request' \in [Requests -> RequestRecord],
         daemonMu' \in Requests \cup {Free}, Mutex',
         current' \in Workspaces \cup {None}, closed' \in BOOLEAN,
         current' # None => ~Blank(current'),
         \A s \in Requests : InStep(request[s])', Parted',
         ~BeingLoaded(g)' => /\ Names(v.members) \subseteq PanesOf(v.tabs)
                             /\ Focused(v) \/ EarlyExit,
         \A h \in Workspaces : h # g /\ ~BeingLoaded(h)' => ~BeingLoaded(h),
         Owned', ClosedStaysEmpty', Settling'
  PROVE  WorkspaceInv'
<1>0. /\ Typed /\ Mutex /\ Counting /\ Identified /\ Gathered /\ Kept
  BY InvParts
<1>1. /\ \A h \in Workspaces : workspace'[h] = IF h = g THEN v ELSE workspace[h]
      /\ workspace' \in [Workspaces -> WorkspaceRecord]
      /\ \A h \in Workspaces : WellFormed(workspace[h])'
      /\ Started' = Started
      /\ Identified' /\ Gathered'
  BY <1>0, ShrinkFacts
<1>2. \A h \in Workspaces : Blank(h)' <=> Blank(h)
  BY <1>0, ShrinkFacts
<1>3. \A h \in Workspaces : workspace'[h].nextPane = workspace[h].nextPane
  BY <1>0, ShrinkFacts
<1>4. /\ Names(workspace[g].members)' = Names(v.members)
      /\ \A h \in Workspaces : h # g =>
            Names(workspace[h].members)' = Names(workspace[h].members)
  BY <1>0, ShrinkFacts
<1>5. Typed'
  BY <1>0, <1>1 DEF Typed
<1>6. Counting'
  <2>1. Used' = Used
    BY <1>2 DEF Used
  <2>2. (current # None => ~Blank(current))'
    <3>1. PICK c \in Workspaces \cup {None} : c = current'
      OBVIOUS
    <3>2. c # None => ~Blank(c)'
      BY <1>2, <3>1
    <3> QED BY <3>1, <3>2 DEF Blank
  <2>3. \A h \in Workspaces : (workspace[h].nextPane = 1 => Blank(h))'
    BY <1>0, <1>2, <1>3 DEF Counting
  <2> QED BY <1>0, <1>1, <2>1, <2>2, <2>3 DEF Counting
<1>7. Kept'
  <2>1. PanesOf(v.tabs) \subseteq Names(v.members)
    BY DEF Legal
  <2>2. ASSUME NEW h \in Workspaces
        PROVE  /\ PanesOf(workspace'[h].tabs) \subseteq Names(workspace[h].members)'
               /\ ~BeingLoaded(h)' => /\ Names(workspace[h].members)' \subseteq PanesOf(workspace'[h].tabs)
                                      /\ Focused(workspace[h])' \/ EarlyExit
    <3>1. CASE h = g
      <4>1. workspace'[h] = v
        BY <1>1, <3>1
      <4>2. Focused(workspace[h])' <=> Focused(v)
        BY <4>1, FocusedNext
      <4> QED BY <1>4, <2>1, <3>1, <4>1, <4>2
    <3>2. CASE h # g
      <4>1. workspace'[h] = workspace[h]
        BY <1>1, <3>2
      <4>2. Focused(workspace[h])' <=> Focused(workspace[h])
        BY <4>1, FocusedNext
      <4> QED BY <1>0, <1>4, <3>2, <4>1, <4>2 DEF Kept
    <3> QED BY <3>1, <3>2
  <2> QED BY <2>2 DEF Kept
<1> QED BY <1>1, <1>5, <1>6, <1>7 DEF WorkspaceInv

\* A workspace without a tab gets one.
LEMMA FirstTabKept ==
  ASSUME WorkspaceInv, NEW r \in Requests, request[r].pc = "loaded", FreePanes # {},
         NEW g, g = request[r].workspace, NEW n, n = workspace[g].nextPane,
         StartPane(NextFree, g, n),
         workspace' = [workspace EXCEPT
                          ![g] = AddTab([workspace[g] EXCEPT !.nextPane = @ + 1],
                                        NextFree, n, None)],
         request' = [request EXCEPT ![r].pc = "swap"],
         UNCHANGED <<daemonMu, current, closed>>
  PROVE  WorkspaceInv'
<1>0. /\ Typed /\ Mutex /\ Counting /\ Identified /\ Gathered /\ Kept /\ InStep(request[r])
      /\ request[r] \in RequestRecord
  BY InvParts, Records
<1>1. g \in Workspaces /\ g # current
  BY <1>0, SMTT(30) DEF InStep, Aims, Holding, Restoring, Loading
<1> DEFINE w == workspace[g]
           u == [w EXCEPT !.nextPane = @ + 1]
           p == NextFree
           v == AddTab(u, p, n, None)
           q == [request[r] EXCEPT !.pc = "swap"]
<1>2. Fit(w) /\ w \in WorkspaceRecord /\ WellFormed(w)
  <2>1. Fit(w)
    BY <1>0, <1>1, AllFit
  <2> QED BY <2>1 DEF Fit, WellFormed
<1>3. /\ p \in Panes /\ p \notin w.members /\ n \in Nat /\ n \notin Names(w.members)
  BY <1>0, <1>1, FreshFacts
<1>4. /\ u \in WorkspaceRecord /\ WellFormed(u) /\ u.members = w.members /\ u.tabs = w.tabs
      /\ u.nextPane = n + 1
  BY <1>2, Numbering
<1> HIDE DEF u
<1>5. Fit(u)
  BY <1>2, <1>4 DEF Fit
<1>6. Grown(u, v, p, n) /\ v.members = u.members \cup {p}
  BY <1>3, <1>4, <1>5, AddTabGrown
<1>7. workspace' = [workspace EXCEPT ![g] = v]
  BY SMTT(30) DEF u
<1> HIDE DEF v
<1>8. /\ WellFormed(v) /\ v \in WorkspaceRecord /\ Focused(v)
      /\ v.members = w.members \cup {p} /\ v.nextPane = n + 1 /\ v.members \ {p} = w.members
      /\ PanesOf(v.tabs) \subseteq Names(w.members) \cup {n}
      /\ Names(w.members) \subseteq PanesOf(w.tabs) => Names(w.members) \subseteq PanesOf(v.tabs)
      /\ n \in PanesOf(v.tabs)
  <2>1. v.members = w.members \cup {p} /\ v.members \ {p} = w.members
    BY <1>3, <1>4, <1>6
  <2> QED BY <1>4, <1>6, <2>1 DEF Grown, Joined, WellFormed
<1>9. Names(w.members) \subseteq PanesOf(w.tabs)
  BY <1>0 DEF InStep, Recovers
<1>10. Covered(v, p, n) /\ Covering(v, p, n)
  BY <1>8, <1>9 DEF Covered, Covering
<1>11. Begun(p, g, v)
  BY <1>0, <1>1, <1>7, <1>8, BegunAlone
<1>12. \A h \in Workspaces : ~Blank(h) \/ h = g => ~Blank(h)'
  BY <1>0, <1>1, <1>8, <1>11, StartFacts
<1>13. /\ q \in RequestRecord /\ q.pc = "swap" /\ q.workspace = g
       /\ q.kind = request[r].kind /\ q.mix = request[r].mix
  BY <1>0 DEF RequestRecord
<1>14. request' = [request EXCEPT ![r] = q]
  OBVIOUS
<1> HIDE DEF q
<1>15. Turns(r, q) /\ request'[r] = q
  BY <1>0, <1>13, <1>14 DEF Turns, Typed
<1>16. InStep(request[r])'
  <2>0. PICK x : x = q
    OBVIOUS
  <2>1. Asks(x)'
    BY <1>0, <1>13, <2>0 DEF InStep, Asks
  <2>2. Aims(x)'
    <3>1. \A h \in 1..(g - 1) : ~Blank(h)'
      <4>1. \A h \in 1..(g - 1) : ~Blank(h) /\ h \in Workspaces
        BY <1>0, <1>1, Bounded DEF InStep, Aims, Restoring, Loading, Workspaces
      <4> QED BY <1>12, <4>1
    <3>2. ~Blank(g)' /\ g # current'
      BY <1>1, <1>12, SMTT(30)
    <3> QED BY <1>1, <1>13, <2>0, <3>1, <3>2 DEF Aims, Making
  <2>3. Starts(x)' /\ Recovers(x)'
    BY <1>13, <2>0 DEF Starts, Recovers, Loading
  <2> QED BY <1>15, <2>0, <2>1, <2>2, <2>3, ProgressOf DEF InStep
<1>17. Proceeds(r, g)
  BY <1>13, <1>15 DEF Proceeds, Turns, Making, Restoring, Loading
<1>18. \A s \in Requests : s # r => request[s].pc \notin Holding
  BY <1>0, OnlyHolder DEF Holding, Restoring, Loading
<1>19. p \in v.members
  BY <1>8
<1> HIDE DEF p
<1>20. p = NextFree /\ workspace[g].nextPane = n
  BY DEF p
<1> QED BY <1>1, <1>8, <1>10, <1>11, <1>16, <1>17, <1>18, <1>19, <1>20, GrowStep

\* A request that is passed by while another one has the daemon mutex.
LEMMA RestWaits ==
  ASSUME WorkspaceInv, NEW r \in Requests, request[r].pc \in Holding,
         NEW s \in Requests, s # r, request'[s] = request[s],
         \A h \in Workspaces : ~Blank(h) => ~Blank(h)',
         closed' = closed, current' = current \/ current' # None,
         request[s].pc = "apply" /\ request[s].kind \in Starting => current' = current
  PROVE  InStep(request[s])'
<1>1. InStep(request[s]) /\ request[s].pc \notin Holding
  BY InvParts, OnlyHolder
<1>2. /\ closed' => request[s].pc \in {"idle", "ensure", "restore"}
      /\ request[s].pc = "apply" =>
            /\ current' # None
            /\ request[s].kind \in Starting => request[s].workspace = current'
  BY <1>1 DEF InStep, Asks, Aims
<1> QED BY <1>1, <1>2, Waiting

\* The document says which tabs are active and recent.
Refocused(w, active, recent) ==
    [w EXCEPT !.active = active, !.recent = FirstTwo(w, <<active, recent>>)]

\* The document names what is active: tabs that were restored.
LEMMA FocusRestored ==
  ASSUME WorkspaceInv, NEW r \in Requests, request[r].pc = "loaded",
         Ws(r).tabs # <<>>, NEW active \in 1..Len(request[r].document), NEW recent \in Nat,
         NEW v, v = Refocused(Ws(r), active, recent)
  PROVE  /\ Legal(Ws(r), v) /\ v.members = Ws(r).members /\ v.tabs = Ws(r).tabs
         /\ Focused(v) \/ EarlyExit
         /\ Names(Ws(r).members) \subseteq PanesOf(Ws(r).tabs)
<1>w. PICK w : w = Ws(r)
  OBVIOUS
<1>g. PICK g : g = request[r].workspace /\ w = workspace[g]
  BY <1>w DEF Ws
<1>0. /\ Typed /\ Identified /\ Gathered /\ Kept /\ InStep(request[r])
  BY InvParts
<1>1. g \in Workspaces
  BY <1>0, <1>g DEF InStep, Aims, Holding, Restoring, Loading
<1>2. Fit(w)
  BY <1>0, <1>1, <1>g, AllFit
<1>3. w \in WorkspaceRecord /\ WellFormed(w) /\ Numbered(w.tabs, w.nextTab)
      /\ PanesOf(w.tabs) \subseteq Names(w.members)
  BY <1>2, FitParts DEF Fit
<1>4. /\ w.active = None /\ Names(w.members) \subseteq PanesOf(w.tabs)
      /\ 1..Len(request[r].document) \subseteq TabIds(w) \/ EarlyExit
  BY <1>0, <1>g DEF InStep, Recovers, Loading
<1>5. Len(request[r].document) \in Nat
  BY <1>0, Records
<1> DEFINE candidates == <<active, recent>>
           two == FirstTwo(w, candidates)
<1>6. candidates \in Seq(Nat) /\ candidates # <<>> /\ candidates[1] = active /\ active \in Nat
  BY <1>5
<1> HIDE DEF candidates
<1>7. /\ two \in Seq(Nat) /\ Len(two) <= 2 /\ Elements(two) \subseteq TabIds(w)
      /\ active \in TabIds(w) => two # <<>> /\ two[1] = active
  BY <1>6, FirstTwoFacts
<1>8. v = [w EXCEPT !.active = active, !.recent = two]
  BY <1>w DEF candidates, Refocused
<1> HIDE DEF two
<1>9. /\ v \in WorkspaceRecord /\ v.members = w.members /\ v.tabs = w.tabs
      /\ v.active = active /\ v.recent = two /\ v.nextTab = w.nextTab /\ v.nextPane = w.nextPane
  BY <1>3, <1>6, <1>7, <1>8 DEF WorkspaceRecord
<1>10. WellFormed(v) /\ TabIds(v) = TabIds(w)
  <2>1. TabIds(v) = TabIds(w)
    BY <1>9 DEF TabIds
  <2>2. Apart(w.tabs)
    BY <1>3 DEF WellFormed
  <2> QED BY <1>3, <1>7, <1>9, <2>1, <2>2, WellFormedNumbered
<1>11. ~Focused(w)
  <2>1. None \notin TabIds(w)
    BY <1>3, NoTabZero
  <2> QED BY <1>w, <1>4, <2>1 DEF Focused
<1>12. Legal(w, v)
  BY <1>3, <1>9, <1>10, <1>11 DEF Legal
<1>13. Focused(v) \/ EarlyExit
  BY <1>w, <1>4, <1>7, <1>9, <1>10 DEF Focused
<1> QED BY <1>w, <1>4, <1>9, <1>12, <1>13

\* It is set after the last pane.
LEMMA FocusKept ==
  ASSUME WorkspaceInv, NEW r \in Requests, request[r].pc = "loaded",
         NEW g, g = request[r].workspace, NEW w, w = workspace[g], w.tabs # <<>>,
         NEW active \in 1..Len(request[r].document), NEW recent \in Nat,
         workspace' = [workspace EXCEPT ![g] = Refocused(w, active, recent)],
         request' = [request EXCEPT ![r].pc = "swap"],
         UNCHANGED <<daemonMu, current, closed, pane>>
  PROVE  WorkspaceInv'
<1>0. /\ Typed /\ Mutex /\ Counting /\ Identified /\ Gathered /\ Kept /\ InStep(request[r])
      /\ request[r] \in RequestRecord /\ Parted /\ Owned /\ ClosedStaysEmpty /\ Settling
  BY InvParts, Records
<1>1. g \in Workspaces /\ g # current
  BY <1>0 DEF InStep, Aims, Holding, Restoring, Loading
<1> DEFINE v == Refocused(w, active, recent)
           q == [request[r] EXCEPT !.pc = "swap"]
<1>2. /\ Legal(w, v) /\ v.members = w.members /\ v.tabs = w.tabs
      /\ Focused(v) \/ EarlyExit
      /\ Names(w.members) \subseteq PanesOf(w.tabs)
  <2>1. v = Refocused(Ws(r), active, recent) /\ Ws(r) = w
    BY DEF Ws
  <2>2. Ws(r).tabs # <<>>
    BY <2>1
  <2> HIDE DEF v
  <2>3. /\ Legal(Ws(r), v) /\ v.members = Ws(r).members /\ v.tabs = Ws(r).tabs
        /\ Focused(v) \/ EarlyExit
        /\ Names(Ws(r).members) \subseteq PanesOf(Ws(r).tabs)
    BY <2>1, <2>2, FocusRestored
  <2> QED BY <2>1, <2>3
<1>3. workspace' = [workspace EXCEPT ![g] = v]
  OBVIOUS
<1> HIDE DEF v
<1>4. ~Blank(g)
  BY DEF Blank, EmptyWorkspace
<1>5. pane' \in [Panes -> PaneRecord] /\ \A p \in Panes : Left(p, g, v)
  <2>1. \A p \in Panes : pane[p].closing \in BOOLEAN
    BY <1>0, Records DEF PaneRecord
  <2>2. workspace[g].members \ v.members = {}
    BY <1>2
  <2>3. \A p \in Panes : pane[p].closing = (pane[p].closing \/ p \in {})
    BY <2>1
  <2>4. \A p \in Panes : Left(p, g, v)
    BY <2>2, <2>3 DEF Left
  <2> QED BY <1>0, <2>4 DEF Typed
<1>6. /\ \A h \in Workspaces : workspace'[h] = IF h = g THEN v ELSE workspace[h]
      /\ \A h \in Workspaces : Blank(h)' <=> Blank(h)
  BY <1>0, <1>1, <1>2, <1>3, <1>4, <1>5, ShrinkFacts
<1>7. \A h \in Workspaces : workspace'[h].members = workspace[h].members
  BY <1>2, <1>6
<1>8. /\ q \in RequestRecord /\ q.pc = "swap" /\ q.workspace = g
      /\ q.kind = request[r].kind /\ q.mix = request[r].mix
  BY <1>0 DEF RequestRecord
<1>9. request' = [request EXCEPT ![r] = q]
  OBVIOUS
<1> HIDE DEF q
<1>10. /\ Turns(r, q) /\ request'[r] = q /\ request' \in [Requests -> RequestRecord]
       /\ \A s \in Requests : s # r => request'[s] = request[s]
  BY <1>0, <1>8, <1>9 DEF Turns, Typed
<1>11. ASSUME NEW s \in Requests PROVE InStep(request[s])'
  <2>1. CASE s = r
    <3>0. PICK x : x = q
      OBVIOUS
    <3>1. Asks(x)'
      BY <1>0, <1>8, <3>0 DEF InStep, Asks
    <3>2. Aims(x)'
      <4>1. \A h \in 1..(g - 1) : ~Blank(h)'
        <5>1. \A h \in 1..(g - 1) : ~Blank(h) /\ h \in Workspaces
          BY <1>0, <1>1, Bounded DEF InStep, Aims, Restoring, Loading, Workspaces
        <5> QED BY <1>6, <5>1
      <4>2. ~Blank(g)' /\ g # current'
        BY <1>1, <1>4, <1>6
      <4> QED BY <1>1, <1>8, <3>0, <4>1, <4>2 DEF Aims, Making
    <3>3. Starts(x)' /\ Recovers(x)'
      BY <1>8, <3>0 DEF Starts, Recovers, Loading
    <3> QED BY <1>10, <2>1, <3>0, <3>1, <3>2, <3>3, ProgressOf DEF InStep
  <2>2. CASE s # r
    <3>1. request[r].pc \in Holding
      BY DEF Holding, Restoring, Loading
    <3> QED BY <1>6, <1>10, <2>2, <3>1, RestWaits
  <2> QED BY <2>1, <2>2
<1>12. Mutex'
  BY <1>0, <1>8, <1>10 DEF Mutex, Holding, Restoring, Loading
<1>13. Parted'
  BY <1>0, <1>8, <1>10 DEF Parted, Restoring, Loading
<1>14. \A h \in Workspaces : h # g /\ ~BeingLoaded(h)' => ~BeingLoaded(h)
  BY <1>10 DEF BeingLoaded
<1>15. Owned'
  <2>1. \A p : Entering(p) => Entering(p)'
    BY <1>10 DEF Entering
  <2>2. \A h : Private(h) => Private(h)'
    BY <1>8, <1>10 DEF Private, Restoring
  <2>3. ASSUME NEW p \in Panes, pane[p].phase = "running", ~pane[p].closing
        PROVE  /\ p \in workspace'[pane[p].workspace].members \/ Entering(p)
               /\ pane[p].workspace = current \/ Private(pane[p].workspace)
    <3>1. pane[p].workspace \in Workspaces
      BY <1>0, <2>3 DEF Identified, Started
    <3> QED BY <1>0, <1>7, <2>3, <3>1 DEF Owned
  <2> QED BY <2>1, <2>2, <2>3 DEF Owned
<1>16. ClosedStaysEmpty' /\ Settling'
  BY <1>0, <1>7 DEF ClosedStaysEmpty, Settling
<1>17. /\ daemonMu' \in Requests \cup {Free} /\ current' \in Workspaces \cup {None}
       /\ closed' \in BOOLEAN /\ (current' # None => ~Blank(current'))
  BY <1>0 DEF Typed, Counting
<1>18. /\ Legal(workspace[g], v)
       /\ Names(v.members) \subseteq PanesOf(v.tabs)
  BY <1>2
<1> QED BY <1>1, <1>2, <1>3, <1>4, <1>5, <1>10, <1>11, <1>12, <1>13, <1>14, <1>15, <1>16,
           <1>17, <1>18, ConcludeStep

\* The focus, or the first tab of a document without any.
LEMMA RestoreFocusKept ==
  ASSUME WorkspaceInv, NEW r \in Requests, NEW active \in Nat, NEW recent \in Nat,
         RestoreFocus(r, active, recent)
  PROVE  WorkspaceInv'
<1> DEFINE g == request[r].workspace
           w == workspace[g]
<1>1. /\ request[r].pc = "loaded" /\ UNCHANGED <<daemonMu, current, closed>>
      /\ request' = [request EXCEPT ![r].pc = "swap"]
  BY DEF RestoreFocus
<1>2. CASE /\ w.tabs = <<>> /\ FreePanes # {}
           /\ StartPane(NextFree, g, w.nextPane)
           /\ workspace' = [workspace EXCEPT ![g] =
                 AddTab([w EXCEPT !.nextPane = @ + 1], NextFree, w.nextPane, None)]
  BY <1>1, <1>2, FirstTabKept
<1>3. CASE /\ w.tabs # <<>>
           /\ {active, recent} \subseteq 1..Len(request[r].document)
           /\ workspace' = [workspace EXCEPT ![g] =
                 [w EXCEPT !.active = active, !.recent = FirstTwo(w, <<active, recent>>)]]
           /\ UNCHANGED pane
  <2>1. workspace' = [workspace EXCEPT ![g] = Refocused(w, active, recent)]
    BY <1>3 DEF Refocused
  <2>2. active \in 1..Len(request[r].document)
    BY <1>3
  <2>3. w.tabs # <<>> /\ UNCHANGED pane
    BY <1>3
  <2> HIDE DEF g, w
  <2>4. g = request[r].workspace /\ w = workspace[g]
    BY DEF g, w
  <2> QED BY <1>1, <2>1, <2>2, <2>3, <2>4, FocusKept
<1> QED BY <1>2, <1>3 DEF RestoreFocus

-----------------------------------------------------------------------------
(* A workspace is cleared: its panes are closed.                           *)

\* closeAllPanes, and a restoration given up
Cleared(w) == [w EXCEPT !.members = {}, !.tabs = <<>>, !.active = None, !.recent = <<>>]
Afresh(w) == [EmptyWorkspace EXCEPT !.nextPane = w.nextPane]

\* A workspace without tabs and panes is legal after any.
LEMMA ClearedFacts ==
  ASSUME NEW w, Fit(w), NEW v, v = Cleared(w) \/ v = Afresh(w)
  PROVE  /\ Legal(w, v) /\ v.members = {} /\ v.tabs = <<>>
         /\ Focused(v) /\ Names(v.members) \subseteq PanesOf(v.tabs)
<1>1. w \in WorkspaceRecord /\ w.nextPane \in Nat \ {0} /\ w.nextTab \in Nat \ {0}
  BY FitParts
<1>2. <<>> \in Seq(GoodTab) /\ <<>> \in Seq(Nat) /\ {} \in SUBSET Panes /\ None \in Nat
  BY DEF None
<1>3. /\ v \in WorkspaceRecord /\ v.members = {} /\ v.tabs = <<>> /\ v.active = None
      /\ v.recent = <<>> /\ v.nextPane = w.nextPane
  <2>1. CASE v = Cleared(w)
    <3>1. /\ Cleared(w) \in WorkspaceRecord /\ Cleared(w).members = {} /\ Cleared(w).tabs = <<>>
          /\ Cleared(w).active = None /\ Cleared(w).recent = <<>>
          /\ Cleared(w).nextPane = w.nextPane
      BY <1>1, <1>2 DEF Cleared, WorkspaceRecord
    <3> QED BY <2>1, <3>1
  <2>2. CASE v = Afresh(w)
    <3> DEFINE n == w.nextPane
    <3>1. n \in Nat \ {0}
      BY <1>1
    <3>2. Afresh(w) = [EmptyWorkspace EXCEPT !.nextPane = n]
      BY DEF Afresh
    <3> HIDE DEF n
    <3>3. Afresh(w) = [members |-> {}, tabs |-> <<>>, active |-> None,
                       recent |-> <<>>, nextTab |-> 1, nextPane |-> n]
      BY <3>2 DEF EmptyWorkspace
    <3>4. /\ Afresh(w) \in WorkspaceRecord /\ Afresh(w).members = {} /\ Afresh(w).tabs = <<>>
          /\ Afresh(w).active = None /\ Afresh(w).recent = <<>>
          /\ Afresh(w).nextPane = n
      BY <1>2, <3>1, <3>3 DEF WorkspaceRecord
    <3> QED BY <2>2, <3>4 DEF n
  <2> QED BY <2>1, <2>2
<1>4. PanesOf(<<>>) = {} /\ Names({}) = {}
  BY EmptyFacts
<1>5. Apart(v.tabs) /\ Len(v.recent) <= 2
      /\ \A i \in 1..Len(v.tabs) : 0 < v.tabs[i].id /\ v.tabs[i].id < v.nextTab
  BY <1>3 DEF Apart
<1>6. WellFormed(v)
  BY <1>3, <1>5 DEF WellFormed
<1>7. Focused(v)
  BY <1>3 DEF Focused, Elements
<1> QED BY <1>3, <1>4, <1>6, <1>7 DEF Legal

\* close is called of all its panes.
LEMMA ClearedPanes ==
  ASSUME Typed, NEW g \in Workspaces, NEW v, v.members = {},
         pane' = Closing(workspace[g].members)
  PROVE  /\ pane' \in [Panes -> PaneRecord] /\ \A p \in Panes : Left(p, g, v)
BY ClosingFacts DEF Left

\* closeAllPanes, and a restoration that is given up.
LEMMA ClearStep ==
  ASSUME WorkspaceInv, NEW g \in Workspaces, NEW v,
         v = Cleared(workspace[g]) \/ v = Afresh(workspace[g]),
         Blank(g) => v = EmptyWorkspace,
         workspace' = [workspace EXCEPT ![g] = v],
         pane' = Closing(workspace[g].members),
         request' \in [Requests -> RequestRecord],
         daemonMu' \in Requests \cup {Free}, Mutex',
         current' \in Workspaces \cup {None}, closed' \in BOOLEAN,
         current' # None => ~Blank(current'),
         \A s \in Requests : InStep(request[s])', Parted',
         \A h \in Workspaces : h # g /\ ~BeingLoaded(h)' => ~BeingLoaded(h),
         \A p : ~Entering(p),
         \A h \in Workspaces : h # g /\ (h = current \/ Private(h)) => h = current' /\ ~closed'
  PROVE  WorkspaceInv'
<1>0. /\ Typed /\ Mutex /\ Counting /\ Identified /\ Gathered /\ Kept
      /\ Owned /\ ClosedStaysEmpty /\ Settling
  BY InvParts
<1>1. Fit(workspace[g])
  BY <1>0, AllFit
<1>2. /\ Legal(workspace[g], v) /\ v.members = {} /\ v.tabs = <<>>
      /\ Focused(v) /\ Names(v.members) \subseteq PanesOf(v.tabs)
  BY <1>1, ClearedFacts
<1>3. pane' \in [Panes -> PaneRecord] /\ \A p \in Panes : Left(p, g, v)
  BY <1>0, <1>2, ClearedPanes
<1>4. \A h \in Workspaces : workspace'[h] = IF h = g THEN v ELSE workspace[h]
  BY <1>0, <1>2, <1>3, ShrinkFacts
<1>5. ASSUME NEW p \in Panes, pane'[p].phase = "running", ~pane'[p].closing
      PROVE  /\ p \in workspace'[pane'[p].workspace].members
             /\ pane'[p].workspace = current' /\ ~closed'
  <2>1. /\ pane[p].phase = "running" /\ ~pane[p].closing /\ pane'[p].workspace = pane[p].workspace
        /\ p \notin workspace[g].members
    BY <1>2, <1>3, <1>5 DEF Left
  <2>2. pane[p].workspace \in Workspaces
    BY <1>0, <2>1 DEF Identified, Started
  <2>3. /\ p \in workspace[pane[p].workspace].members
        /\ pane[p].workspace = current \/ Private(pane[p].workspace)
    BY <1>0, <2>1 DEF Owned
  <2>4. pane[p].workspace # g
    BY <2>1, <2>3
  <2> QED BY <1>4, <2>1, <2>2, <2>3, <2>4
<1>6. Owned'
  BY <1>5 DEF Owned
<1>7. ClosedStaysEmpty'
  BY <1>5 DEF ClosedStaysEmpty
<1>8. Settling'
  <2>1. ASSUME ~EarlyExit, NEW h \in Workspaces, NEW p \in workspace'[h].members,
               pane'[p].phase # "running"
        PROVE  h = current' /\ (pane'[p].phase = "done" => pane'[p].retained)
    <3>1. h # g /\ p \in workspace[h].members
      BY <1>2, <1>4, <2>1
    <3>2. p \in Panes /\ pane[p].workspace = h
      BY <1>0, <3>1, Records DEF Gathered
    <3>3. pane'[p].phase = pane[p].phase /\ pane'[p].retained = pane[p].retained
      BY <1>3, <3>1, <3>2 DEF Left
    <3> QED BY <1>0, <2>1, <3>1, <3>3 DEF Settling
  <2> QED BY <2>1 DEF Settling
<1>9. ~BeingLoaded(g)' => /\ Names(v.members) \subseteq PanesOf(v.tabs)
                          /\ Focused(v) \/ EarlyExit
  BY <1>2
<1> QED BY <1>2, <1>3, <1>6, <1>7, <1>8, <1>9, ConcludeStep

\* The restoration is over; whoever waits, waits on.
LEMMA GivenUp ==
  ASSUME WorkspaceInv, NEW r \in Requests, request[r].pc \in Restoring, Finish(r),
         daemonMu' = Free, closed' = closed,
         current' = current \/ current' \in Workspaces,
         \A h \in Workspaces : ~Blank(h) => ~Blank(h)',
         \A s \in Requests : s # r /\ request[s].pc = "apply" /\ request[s].kind \in Starting =>
            current' = current
  PROVE  /\ request' \in [Requests -> RequestRecord] /\ request'[r].pc = "idle"
         /\ \A s \in Requests : s # r => request'[s] = request[s] /\ request[s].pc \notin Holding
         /\ daemonMu' \in Requests \cup {Free} /\ Mutex'
         /\ \A s \in Requests : InStep(request[s])'
         /\ Parted' /\ \A h : ~BeingLoaded(h)'
         /\ \A p : ~Entering(p)
         /\ \A h : Private(h) => h = request[r].workspace
         /\ closed' = FALSE /\ closed' \in BOOLEAN
<1>0. /\ Typed /\ Mutex /\ \A s \in Requests : InStep(request[s])
  BY InvParts
<1>1. request[r].pc \in Holding
  BY DEF Holding
<1> DEFINE q == Idle(request[r].mix)
<1>2. Turns(r, q) /\ q \in RequestRecord /\ q.pc = "idle"
  BY <1>0, Finished
<1> HIDE DEF q
<1>3. \A s \in Requests : s # r => request'[s] = request[s] /\ request[s].pc \notin Holding
  BY <1>0, <1>1, <1>2, OnlyHolder DEF Turns
<1>4. request' \in [Requests -> RequestRecord] /\ request'[r] = q /\ request'[r].pc = "idle"
  BY <1>2 DEF Turns
<1>5. Mutex'
  BY <1>3, <1>4, Bounded DEF Mutex, Holding, Making, Restoring, Loading
<1>6. ASSUME NEW s \in Requests PROVE InStep(request[s])'
  <2>1. CASE s = r
    <3>1. PICK x : x = q
      OBVIOUS
    <3>2. InStep(x)'
      BY <1>2, <3>1 DEF InStep, Asks, Aims, Starts, Recovers, Holding, Making, Restoring, Loading
    <3> QED BY <1>4, <2>1, <3>1, <3>2, ProgressOf
  <2>2. CASE s # r
    <3>1. current' = current \/ current' # None
      BY DEF Workspaces, None
    <3> QED BY <1>1, <1>3, <2>2, <3>1, RestWaits
  <2> QED BY <2>1, <2>2
<1>7. \A s \in Requests : request'[s].pc \notin Restoring
  BY <1>3, <1>4 DEF Holding, Restoring, Loading
<1>8. Parted' /\ \A h : ~BeingLoaded(h)'
  BY <1>7 DEF Parted, BeingLoaded, Restoring
<1>9. \A p : ~Entering(p)
  BY <1>3 DEF Entering, Holding, Making, Restoring, Loading
<1>10. \A h : Private(h) => h = request[r].workspace
  BY <1>3 DEF Private, Holding
<1>11. closed = FALSE
  BY <1>0 DEF InStep, Asks, Restoring, Loading, Typed
<1>12. daemonMu' \in Requests \cup {Free}
  OBVIOUS
<1> QED BY <1>3, <1>4, <1>5, <1>6, <1>8, <1>9, <1>10, <1>11, <1>12

\* A workspace that was used counts as used when it is cleared.
LEMMA ClearedBlank ==
  ASSUME WorkspaceInv, NEW g \in Workspaces, NEW v,
         v = Cleared(workspace[g]) \/ v = Afresh(workspace[g]),
         Blank(g) => v = EmptyWorkspace,
         workspace' = [workspace EXCEPT ![g] = v], pane' = Closing(workspace[g].members)
  PROVE  \A h \in Workspaces : Blank(h)' <=> Blank(h)
<1>0. Typed /\ Counting /\ Identified /\ Gathered /\ Kept
  BY InvParts
<1>1. Fit(workspace[g])
  BY <1>0, AllFit
<1>2. Legal(workspace[g], v) /\ v.members = {}
  BY <1>1, ClearedFacts
<1>3. pane' \in [Panes -> PaneRecord] /\ \A p \in Panes : Left(p, g, v)
  BY <1>0, <1>2, ClearedPanes
<1> QED BY <1>0, <1>2, <1>3, ShrinkFacts

\* A pane of the document does not start: those that run are closed.
LEMMA RestoreFailsKept ==
  ASSUME WorkspaceInv, NEW r \in Requests, RestoreFails(r)
  PROVE  WorkspaceInv'
<1>0. /\ Typed /\ Mutex /\ Counting /\ InStep(request[r])
      /\ request[r].pc \in Restoring /\ Finish(r) /\ daemonMu' = Free
      /\ UNCHANGED <<current, closed>>
  BY InvParts DEF RestoreFails, Restoring, Loading
<1>1. PICK g \in Workspaces : g = request[r].workspace
  BY <1>0 DEF InStep, Aims, Holding
<1>2. PICK v : v = Afresh(workspace[g])
  OBVIOUS
<1>3. /\ workspace' = [workspace EXCEPT ![g] = v]
      /\ pane' = Closing(workspace[g].members)
  BY <1>1, <1>2 DEF RestoreFails, Afresh, PanesSoFar
<1>4. Blank(g) => v = EmptyWorkspace
  BY <1>2 DEF Blank, Afresh, EmptyWorkspace
<1>5. \A h \in Workspaces : Blank(h)' <=> Blank(h)
  BY <1>2, <1>3, <1>4, ClearedBlank
<1>6. /\ request' \in [Requests -> RequestRecord]
      /\ daemonMu' \in Requests \cup {Free} /\ Mutex'
      /\ \A s \in Requests : InStep(request[s])'
      /\ Parted' /\ \A h : ~BeingLoaded(h)'
      /\ \A p : ~Entering(p)
      /\ \A h : Private(h) => h = request[r].workspace
      /\ closed' = FALSE
  BY <1>0, <1>5, GivenUp
<1>7. current' \in Workspaces \cup {None} /\ (current' # None => ~Blank(current'))
  BY <1>0 DEF Typed, Counting
<1>8. request[r].pc \in Loading
  BY DEF RestoreFails, Loading
<1>9. \A h \in Workspaces : h # g => ~BeingLoaded(h)
  BY <1>0, <1>1, OnlyHolder DEF BeingLoaded, Holding, Restoring
<1>10. \A h \in Workspaces : h # g /\ (h = current \/ Private(h)) => h = current' /\ ~closed'
  BY <1>0, <1>1, <1>6
<1>11. closed' \in BOOLEAN
  BY <1>6
<1> QED BY <1>2, <1>3, <1>4, <1>6, <1>7, <1>9, <1>10, <1>11, ClearStep

\* The restored workspace takes the place of one that is closed, ...
LEMMA SwapKept ==
  ASSUME Serial, WorkspaceInv, NEW r \in Requests, RestoreSwap(r), current # None
  PROVE  WorkspaceInv'
<1>0. /\ Typed /\ Mutex /\ Counting /\ InStep(request[r])
      /\ request[r].pc = "swap" /\ request[r].pc \in Restoring
      /\ Finish(r) /\ daemonMu' = Free /\ closed' = closed
  BY InvParts DEF RestoreSwap, Restoring, Loading
<1>1. PICK g \in Workspaces : g = current /\ ~Blank(g)
  BY <1>0 DEF Typed, Counting
<1>2. PICK v : v = Cleared(workspace[g])
  OBVIOUS
<1>3. /\ workspace' = [workspace EXCEPT ![g] = v]
      /\ pane' = Closing(workspace[g].members)
  BY <1>1, <1>2 DEF RestoreSwap, CloseAll, Cleared
<1>4. \A h \in Workspaces : Blank(h)' <=> Blank(h)
  BY <1>1, <1>2, <1>3, ClearedBlank
<1>5. current' = request[r].workspace /\ current' \in Workspaces /\ ~Blank(current')
  <2>1. /\ request[r].workspace \in Workspaces /\ ~Blank(request[r].workspace)
    BY <1>0 DEF InStep, Aims, Holding
  <2> QED BY <2>1 DEF RestoreSwap
<1>6. \A s \in Requests : s # r /\ request[s].pc = "apply" => request[s].kind \notin Starting
  BY InvParts, Alone
<1>7. /\ request' \in [Requests -> RequestRecord]
      /\ daemonMu' \in Requests \cup {Free} /\ Mutex'
      /\ \A s \in Requests : InStep(request[s])'
      /\ Parted' /\ \A h : ~BeingLoaded(h)'
      /\ \A p : ~Entering(p)
      /\ \A h : Private(h) => h = request[r].workspace
      /\ closed' = FALSE
  BY <1>0, <1>4, <1>5, <1>6, GivenUp
<1>8. \A h \in Workspaces : ~BeingLoaded(h)
  BY <1>0, OnlyHolder DEF BeingLoaded, Holding, Restoring, Loading
<1>9. \A h \in Workspaces : h # g /\ (h = current \/ Private(h)) => h = current' /\ ~closed'
  BY <1>1, <1>5, <1>7
<1>10. closed' \in BOOLEAN
  BY <1>7
<1> QED BY <1>1, <1>2, <1>3, <1>5, <1>7, <1>8, <1>9, <1>10, ClearStep

\* ... or is the first.
LEMMA FirstSwapKept ==
  ASSUME Serial, WorkspaceInv, NEW r \in Requests, RestoreSwap(r), current = None
  PROVE  WorkspaceInv'
<1>0. /\ Typed /\ Mutex /\ Counting /\ Identified /\ Gathered /\ Kept /\ Owned /\ Settling
      /\ InStep(request[r]) /\ request[r].pc = "swap" /\ request[r].pc \in Restoring
      /\ Finish(r) /\ daemonMu' = Free /\ closed' = closed
      /\ UNCHANGED <<workspace, pane>>
  BY InvParts DEF RestoreSwap, Restoring, Loading, CloseAll
<1>1. PICK g \in Workspaces : g = request[r].workspace /\ ~Blank(g)
  BY <1>0 DEF InStep, Aims, Holding
<1>2. current' = g
  BY <1>1 DEF RestoreSwap
<1>3. PICK v : v = workspace[g]
  OBVIOUS
<1>4. Fit(v)
  BY <1>0, <1>3, AllFit
<1>5. Legal(workspace[g], v)
  BY <1>3, <1>4, SameLegal
<1>6. workspace' = [workspace EXCEPT ![g] = v]
  BY <1>0, <1>3 DEF Typed
<1>7. \A h \in Workspaces : Blank(h)' <=> Blank(h)
  BY <1>0 DEF Blank
<1>8. \A s \in Requests : s # r /\ request[s].pc = "apply" => request[s].kind \notin Starting
  BY InvParts, Alone
<1>9. /\ request' \in [Requests -> RequestRecord]
      /\ daemonMu' \in Requests \cup {Free} /\ Mutex'
      /\ \A s \in Requests : InStep(request[s])'
      /\ Parted' /\ \A h : ~BeingLoaded(h)'
      /\ \A p : ~Entering(p)
      /\ \A h : Private(h) => h = g
      /\ closed' = FALSE /\ closed' \in BOOLEAN
  BY <1>0, <1>1, <1>2, <1>7, <1>8, GivenUp
<1>10. \A h \in Workspaces : ~BeingLoaded(h)
  BY <1>0, OnlyHolder DEF BeingLoaded, Holding, Restoring, Loading
<1>11. pane' \in [Panes -> PaneRecord] /\ \A p \in Panes : Left(p, g, v)
  <2>1. \A p \in Panes : pane[p].closing \in BOOLEAN
    BY <1>0, Records DEF PaneRecord
  <2>2. workspace[g].members \ v.members = {}
    BY <1>3
  <2>3. \A p \in Panes : pane[p].closing = (pane[p].closing \/ p \in {})
    BY <2>1
  <2>4. \A p \in Panes : Left(p, g, v)
    BY <1>0, <2>2, <2>3 DEF Left
  <2> QED BY <1>0, <2>4 DEF Typed
<1>12. Owned'
  <2>1. ASSUME NEW p \in Panes, pane[p].phase = "running", ~pane[p].closing
        PROVE  p \in workspace[pane[p].workspace].members /\ pane[p].workspace = g
    <3>1. pane[p].workspace # current
      BY <1>0, <2>1 DEF Identified, Started, Workspaces, None
    <3> QED BY <1>0, <1>9, <2>1, <3>1 DEF Owned
  <2> QED BY <1>0, <1>2, <2>1 DEF Owned
<1>13. ClosedStaysEmpty'
  BY <1>9 DEF ClosedStaysEmpty
<1>14. Settling'
  <2>1. \A h \in Workspaces : h # current
    BY DEF Workspaces, None
  <2> QED BY <1>0, <2>1 DEF Settling
<1>15. current' \in Workspaces \cup {None} /\ (current' # None => ~Blank(current'))
  BY <1>1, <1>2
<1>16. /\ Names(v.members) \subseteq PanesOf(v.tabs)
       /\ Focused(v) \/ EarlyExit
  BY <1>0, <1>3, <1>10 DEF Kept
<1> QED BY <1>1, <1>5, <1>6, <1>9, <1>10, <1>11, <1>12, <1>13, <1>14, <1>15, <1>16, ConcludeStep

\* The restored workspace takes the place of the previous one, or of none.
LEMMA RestoreSwapKept ==
  ASSUME Serial, WorkspaceInv, NEW r \in Requests, RestoreSwap(r)
  PROVE  WorkspaceInv'
BY SwapKept, FirstSwapKept

\* Local.Close: whoever has come as far as the mutex is refused.
LEMMA ClosingWaits ==
  ASSUME WorkspaceInv, LocalClose, \A h \in Workspaces : ~Blank(h) => ~Blank(h)'
  PROVE  /\ \A s \in Requests : request[s].pc \in {"idle", "ensure", "restore"}
         /\ \A s \in Requests : InStep(request[s])'
<1>0. /\ Typed /\ Mutex /\ \A s \in Requests : InStep(request[s])
      /\ daemonMu = Free /\ request' = request
      /\ \A s \in Requests : request[s].pc # "idle" => request[s].kind = "attach"
  BY InvParts DEF LocalClose
<1>1. ASSUME NEW s \in Requests
      PROVE  request[s].pc \in {"idle", "ensure", "restore"} /\ request[s].pc \notin Holding
  <2>1. request[s].pc \notin Holding
    BY <1>0, Bounded DEF Mutex
  <2>2. request[s].pc # "apply"
    BY <1>0 DEF InStep, Asks, ActionKinds
  <2>3. request[s].pc \in {"idle", "ensure", "check", "create", "start", "publish", "apply",
                           "restore", "pane", "loaded", "swap"}
    BY <1>0, Records DEF RequestRecord
  <2> QED BY <2>1, <2>2, <2>3 DEF Holding, Making, Restoring, Loading
<1>2. ASSUME NEW s \in Requests PROVE InStep(request[s])'
  BY <1>0, <1>1, Waiting
<1> QED BY <1>1, <1>2

\* Local.Close closes all panes of the workspace in use; no request can start another.
LEMMA LocalCloseKept ==
  ASSUME WorkspaceInv, LocalClose
  PROVE  WorkspaceInv'
<1>0. /\ Typed /\ Mutex /\ Counting /\ Identified /\ Gathered /\ Kept
      /\ Parted /\ Owned /\ Settling
      /\ closed' = TRUE /\ UNCHANGED <<daemonMu, current, request>> /\ CloseAll(current)
  BY InvParts DEF LocalClose
<1>1. Mutex' /\ Parted'
  BY <1>0 DEF Mutex, Parted
<1>2. CASE current = None
  <2>0. UNCHANGED <<workspace, pane>>
    BY <1>0, <1>2 DEF CloseAll
  <2>1. \A h \in Workspaces : Blank(h)' <=> Blank(h)
    BY <2>0 DEF Blank
  <2>2. /\ \A s \in Requests : request[s].pc \in {"idle", "ensure", "restore"}
        /\ \A s \in Requests : InStep(request[s])'
    BY <2>1, ClosingWaits
  <2>3. Typed'
    <3>1. \A h \in Workspaces : WellFormed(workspace[h])'
      BY <1>0, <2>0 DEF Typed, WellFormed
    <3> QED BY <1>0, <2>0, <3>1 DEF Typed
  <2>4. Counting' /\ Identified' /\ Gathered' /\ Settling'
    BY <1>0, <2>0 DEF Counting, Identified, Gathered, Settling, Used, Blank, Started,
                      FreshIdentities
  <2>5. Kept'
    <3>1. \A h \in Workspaces : Names(workspace[h].members)' = Names(workspace[h].members)
      BY <2>0 DEF Names
    <3>2. \A h \in Workspaces : Focused(workspace[h])' <=> Focused(workspace[h])
      BY <2>0 DEF Focused, TabIds
    <3>3. \A h \in Workspaces : BeingLoaded(h)' <=> BeingLoaded(h)
      BY <1>0 DEF BeingLoaded
    <3> QED BY <1>0, <2>0, <3>1, <3>2, <3>3 DEF Kept
  <2>6. ASSUME NEW p \in Panes, pane[p].phase = "running" PROVE pane[p].closing
    <3>1. pane[p].workspace \in Workspaces
      BY <1>0, <2>6 DEF Identified, Started
    <3>2. pane[p].workspace # current
      BY <1>2, <3>1 DEF Workspaces, None
    <3>3. ~Private(pane[p].workspace)
      BY <2>2 DEF Private, Making, Restoring, Loading
    <3> QED BY <1>0, <2>6, <3>2, <3>3 DEF Owned
  <2>7. Owned' /\ ClosedStaysEmpty'
    BY <2>0, <2>6 DEF Owned, ClosedStaysEmpty
  <2> QED BY <1>1, <2>2, <2>3, <2>4, <2>5, <2>7 DEF WorkspaceInv
<1>3. CASE current # None
  <2>1. PICK g \in Workspaces : g = current /\ ~Blank(g)
    BY <1>0, <1>3 DEF Typed, Counting
  <2>2. PICK v : v = Cleared(workspace[g])
    OBVIOUS
  <2>3. /\ workspace' = [workspace EXCEPT ![g] = v]
        /\ pane' = Closing(workspace[g].members)
    BY <1>0, <1>3, <2>1, <2>2 DEF CloseAll, Cleared
  <2>4. \A h \in Workspaces : Blank(h)' <=> Blank(h)
    BY <2>1, <2>2, <2>3, ClearedBlank
  <2>5. /\ \A s \in Requests : request[s].pc \in {"idle", "ensure", "restore"}
        /\ \A s \in Requests : InStep(request[s])'
    BY <2>4, ClosingWaits
  <2>6. /\ request' \in [Requests -> RequestRecord] /\ daemonMu' \in Requests \cup {Free}
        /\ current' \in Workspaces \cup {None} /\ closed' \in BOOLEAN
        /\ (current' # None => ~Blank(current'))
    BY <1>0 DEF Typed, Counting
  <2>7. /\ \A p : ~Entering(p)
        /\ \A h : ~Private(h)
        /\ \A h : ~BeingLoaded(h)
    BY <2>5 DEF Entering, Private, BeingLoaded, Making, Restoring, Loading
  <2>8. \A h \in Workspaces : h # g /\ (h = current \/ Private(h)) => h = current' /\ ~closed'
    BY <2>1, <2>7
  <2>9. \A h \in Workspaces : h # g /\ ~BeingLoaded(h)' => ~BeingLoaded(h)
    BY <2>7, SMTT(30)
  <2> QED BY <1>1, <2>1, <2>2, <2>3, <2>5, <2>6, <2>7, <2>8, <2>9, ClearStep
<1> QED BY <1>2, <1>3

-----------------------------------------------------------------------------
(* The pane of a request that has ensured its workspace enters it.         *)

\* What a request that enters its first tab knows: the pane it started is still its own.
LEMMA PublishFacts ==
  ASSUME WorkspaceInv, NEW r \in Requests, request[r].pc = "publish",
         NEW g, g = request[r].workspace, NEW p, p = request[r].pane,
         NEW v, v = AddTab(workspace[g], p, request[r].id, None)
  PROVE  /\ g \in Workspaces /\ ~Blank(g) /\ current \in {None, g}
         /\ p \in Started \ workspace[g].members /\ pane[p].workspace = g
         /\ ~pane[p].closing /\ (EarlyExit \/ pane[p].phase = "running")
         /\ v \in WorkspaceRecord /\ WellFormed(v) /\ Focused(v)
         /\ v.members = workspace[g].members \cup {p} /\ v.nextPane = workspace[g].nextPane
         /\ PanesOf(v.tabs) = Names(v.members)
<1>0. /\ Typed /\ Mutex /\ Counting /\ Identified /\ Gathered /\ Kept /\ InStep(request[r])
      /\ request[r].id \in Nat
  BY InvParts, Records
<1>1. g \in Workspaces /\ current \in {None, g}
  BY <1>0 DEF InStep, Aims, Holding, Making, Typed
<1>2. /\ p \in Started \ workspace[g].members /\ pane[p].workspace = g
      /\ pane[p].id = request[r].id /\ ~pane[p].closing
      /\ EarlyExit \/ pane[p].phase = "running"
  BY <1>0 DEF InStep, Starts
<1> DEFINE w == workspace[g]
           id == request[r].id
<1>3. ~Blank(g)
  <2>1. 0 < pane[p].id /\ pane[p].id < w.nextPane
    BY <1>0, <1>2 DEF Identified
  <2>2. Blank(g) => w.nextPane = 1
    BY EmptyFacts DEF Blank
  <2> QED BY <1>0, <1>2, <2>1, <2>2
<1>4. Fit(w)
  BY <1>0, <1>1, AllFit
<1>5. id \notin Names(w.members)
  <2>1. ASSUME NEW q \in w.members PROVE pane[q].id # id
    <3>1. q \in Started /\ pane[q].workspace = g /\ q # p
      BY <1>0, <1>1, <1>2 DEF Gathered
    <3> QED BY <1>0, <1>2, <3>1 DEF Identified, FreshIdentities
  <2> QED BY <2>1 DEF Names
<1>6. p \in Panes /\ p \notin w.members /\ id \in Nat
  BY <1>0, <1>2 DEF Started
<1> HIDE DEF w, id
<1>7. v = AddTab(w, p, id, None)
  BY DEF w, id
<1>8. Grown(w, v, p, id) /\ v.members = w.members \cup {p}
  BY <1>4, <1>5, <1>6, <1>7, AddTabGrown, SMTT(30)
<1>9. /\ v \in WorkspaceRecord /\ WellFormed(v) /\ Focused(v)
      /\ v.nextPane = w.nextPane /\ v.members \ {p} = w.members
      /\ PanesOf(v.tabs) \subseteq Names(w.members) \cup {id}
      /\ Names(w.members) \subseteq PanesOf(w.tabs) => Names(w.members) \subseteq PanesOf(v.tabs)
      /\ id \in PanesOf(v.tabs)
  <2>1. v.members \ {p} = w.members
    BY <1>6, <1>8
  <2> QED BY <1>8, <2>1 DEF Grown, Joined, WellFormed
<1>10. ~BeingLoaded(g)
  BY <1>0, OnlyHolder DEF BeingLoaded, Holding, Making, Restoring, Loading
<1>11. Names(w.members) \subseteq PanesOf(w.tabs)
  BY <1>0, <1>1, <1>10 DEF Kept, w
<1>12. Names(v.members) = Names(w.members) \cup {id}
  BY <1>2, <1>8 DEF Names, id
<1>13. PanesOf(v.tabs) = Names(v.members)
  BY <1>9, <1>11, <1>12
<1> QED BY <1>1, <1>2, <1>3, <1>8, <1>9, <1>13 DEF w

\* The first pane and its tab are entered.
LEMMA CreatePublishKept ==
  ASSUME WorkspaceInv, NEW r \in Requests, CreatePublish(r)
  PROVE  WorkspaceInv'
<1>0. /\ Typed /\ Mutex /\ Counting /\ Identified /\ Gathered /\ Kept /\ InStep(request[r])
      /\ Parted /\ Owned /\ ClosedStaysEmpty /\ Settling
      /\ request[r].pc = "publish" /\ AfterEnsure(r) /\ daemonMu' = Free
      /\ UNCHANGED <<closed, pane>>
  BY InvParts DEF CreatePublish, MutexAfterEnsure
<1>1. PICK g : g = request[r].workspace
  OBVIOUS
<1>2. PICK p : p = request[r].pane
  OBVIOUS
<1>3. PICK v : v = AddTab(workspace[g], p, request[r].id, None)
  OBVIOUS
<1>4. /\ g \in Workspaces /\ ~Blank(g) /\ current \in {None, g}
      /\ p \in Started \ workspace[g].members /\ pane[p].workspace = g
      /\ ~pane[p].closing /\ (EarlyExit \/ pane[p].phase = "running")
      /\ v \in WorkspaceRecord /\ WellFormed(v) /\ Focused(v)
      /\ v.members = workspace[g].members \cup {p} /\ v.nextPane = workspace[g].nextPane
      /\ PanesOf(v.tabs) = Names(v.members)
  BY <1>0, <1>1, <1>2, <1>3, PublishFacts
<1>5. workspace' = [workspace EXCEPT ![g] = v] /\ current' = g
  <2>1. workspace' = [workspace EXCEPT ![g] = v]
    BY <1>1, <1>2, <1>3 DEF CreatePublish
  <2> QED BY <1>1, <1>4, <2>1 DEF CreatePublish
<1>6. /\ \A h \in Workspaces : workspace'[h] = IF h = g THEN v ELSE workspace[h]
      /\ workspace' \in [Workspaces -> WorkspaceRecord]
  BY <1>0, <1>4, <1>5 DEF Typed
<1>7. PICK q \in RequestRecord :
            /\ Turns(r, q) /\ q.mix = request[r].mix
            /\ \/ q.pc = "idle"
               \/ /\ q.pc = "apply" /\ q.kind = request[r].kind /\ q.kind \in ActionKinds
                  /\ q.workspace = g
  BY <1>0, <1>1, AfterEnsureTurns
<1>8. /\ request' \in [Requests -> RequestRecord] /\ request'[r] = q
      /\ \A s \in Requests : s # r => request'[s] = request[s]
  BY <1>7 DEF Turns
<1>9. \A s \in Requests : s # r => request[s].pc \notin Holding
  BY <1>0, OnlyHolder DEF Holding, Making
<1>10. \A h \in Workspaces : Blank(h)' <=> Blank(h)
  <2>1. workspace[g].nextPane # 1
    BY <1>0, <1>4 DEF Counting
  <2>2. v # EmptyWorkspace
    BY <1>4, <2>1, EmptyFacts
  <2> QED BY <1>4, <1>6, <2>2 DEF Blank
<1>11. ~closed
  BY <1>0 DEF InStep, Asks
<1>12. Typed'
  <2>1. \A h \in Workspaces : WellFormed(workspace'[h])
    BY <1>0, <1>4, <1>6 DEF Typed
  <2>2. \A h \in Workspaces : WellFormed(workspace[h])'
    BY <2>1 DEF WellFormed
  <2> QED BY <1>0, <1>4, <1>5, <1>6, <1>8, <2>2 DEF Typed
<1>13. Mutex'
  BY <1>0, <1>7, <1>8, <1>9, Bounded DEF Mutex, Holding, Making, Restoring, Loading
<1>14. Started' = Started /\ \A S : Names(S)' = Names(S)
  BY <1>0 DEF Started, Names
<1>15. Counting'
  <2>1. Used' = Used
    BY <1>10 DEF Used
  <2>2. (current # None => ~Blank(current))'
    BY <1>4, <1>5, <1>10 DEF Blank
  <2>3. \A h \in Workspaces : (workspace[h].nextPane = 1 => Blank(h))'
    <3>1. ASSUME NEW h \in Workspaces, workspace'[h].nextPane = 1 PROVE Blank(h)'
      <4>1. workspace[h].nextPane = 1
        BY <1>4, <1>6, <3>1
      <4> QED BY <1>0, <1>10, <4>1 DEF Counting
    <3> QED BY <3>1
  <2> QED BY <1>0, <1>14, <2>1, <2>2, <2>3 DEF Counting
<1>16. Identified'
  <2>1. ASSUME NEW x \in Started
        PROVE  /\ pane[x].workspace \in Workspaces /\ 0 < pane[x].id
               /\ pane[x].id < workspace'[pane[x].workspace].nextPane
    <3>1. /\ pane[x].workspace \in Workspaces /\ 0 < pane[x].id
          /\ pane[x].id < workspace[pane[x].workspace].nextPane
      BY <1>0 DEF Identified
    <3> QED BY <1>4, <1>6, <3>1
  <2>2. FreshIdentities'
    BY <1>0, <1>14 DEF Identified, FreshIdentities
  <2> QED BY <1>0, <1>14, <2>1, <2>2 DEF Identified
<1>17. Gathered'
  <2>1. ASSUME NEW h \in Workspaces, NEW x \in workspace'[h].members
        PROVE  x \in Started /\ pane[x].workspace = h /\ ~pane[x].closing
    <3>1. CASE h = g /\ x = p
      BY <1>4, <3>1
    <3>2. CASE ~(h = g /\ x = p)
      <4>1. x \in workspace[h].members
        BY <1>4, <1>6, <3>2
      <4> QED BY <1>0, <4>1 DEF Gathered
    <3> QED BY <3>1, <3>2
  <2> QED BY <1>0, <1>14, <2>1 DEF Gathered
<1>18. Kept'
  <2>1. \A h \in Workspaces : ~BeingLoaded(h)
    BY <1>0, <1>9 DEF BeingLoaded, Holding, Restoring, Loading
  <2>2. ASSUME NEW h \in Workspaces
        PROVE  /\ PanesOf(workspace'[h].tabs) \subseteq Names(workspace[h].members)'
               /\ Names(workspace[h].members)' \subseteq PanesOf(workspace'[h].tabs)
               /\ Focused(workspace[h])' \/ EarlyExit
    <3>1. CASE h = g
      <4>1. workspace'[h] = v
        BY <1>6, <3>1
      <4>2. Focused(workspace[h])' <=> Focused(v)
        BY <4>1, FocusedNext
      <4>3. Names(workspace[h].members)' = Names(v.members)
        BY <1>0, <4>1 DEF Names
      <4> QED BY <1>4, <4>1, <4>2, <4>3
    <3>2. CASE h # g
      <4>1. workspace'[h] = workspace[h]
        BY <1>6, <3>2
      <4>2. Focused(workspace[h])' <=> Focused(workspace[h])
        BY <4>1, FocusedNext
      <4>3. Names(workspace[h].members)' = Names(workspace[h].members)
        BY <1>0, <4>1 DEF Names
      <4> QED BY <1>0, <2>1, <4>1, <4>2, <4>3 DEF Kept
    <3> QED BY <3>1, <3>2
  <2> QED BY <2>2 DEF Kept
<1>19. ASSUME NEW s \in Requests PROVE InStep(request[s])'
  <2>1. CASE s = r
    <3>0. PICK x : x = q
      OBVIOUS
    <3>1. Asks(x)'
      BY <1>0, <1>7, <1>11, <3>0 DEF InStep, Asks
    <3>2. Aims(x)'
      <4>1. current' # None /\ ~Blank(g)'
        BY <1>4, <1>5, <1>10 DEF Workspaces, None
      <4> QED BY <1>4, <1>5, <1>7, <3>0, <4>1 DEF Aims, Holding, Making, Restoring, Loading
    <3>3. Starts(x)' /\ Recovers(x)'
      BY <1>7, <3>0 DEF Starts, Recovers, Loading
    <3> QED BY <1>8, <2>1, <3>0, <3>1, <3>2, <3>3, ProgressOf DEF InStep
  <2>2. CASE s # r
    <3>1. request[r].pc \in Holding
      BY <1>0 DEF Holding, Making
    <3>2. InStep(request[s])
      BY InvParts
    <3>3. request[s].pc = "apply" => current' = current
      BY <1>4, <1>5, <3>2 DEF InStep, Aims
    <3>4. current' = current \/ current' # None
      BY <1>4, <1>5 DEF Workspaces, None
    <3> QED BY <1>0, <1>8, <1>10, <2>2, <3>1, <3>3, <3>4, RestWaits
  <2> QED BY <2>1, <2>2
<1>20. Parted'
  <2>1. \A s \in Requests : request'[s].pc \notin Restoring
    BY <1>7, <1>8, <1>9 DEF Holding, Restoring, Loading
  <2> QED BY <2>1 DEF Parted
<1>21. Owned'
  <2>1. ASSUME NEW x \in Panes, pane[x].phase = "running", ~pane[x].closing
        PROVE  x \in workspace'[pane[x].workspace].members /\ pane[x].workspace = g
    <3>1. pane[x].workspace \in Workspaces
      BY <1>0, <2>1 DEF Identified, Started
    <3>2. x \in workspace[pane[x].workspace].members \/ x = p
      BY <1>0, <1>2, <1>9, <2>1 DEF Owned, Entering, Holding, Making
    <3>3. pane[x].workspace = g
      <4>1. CASE pane[x].workspace = current
        BY <1>4, <3>1, <4>1 DEF Workspaces, None
      <4>2. CASE pane[x].workspace # current
        <5>1. Private(pane[x].workspace)
          BY <1>0, <2>1, <4>2 DEF Owned
        <5> QED BY <1>1, <1>9, <5>1 DEF Private, Holding
      <4> QED BY <4>1, <4>2
    <3> QED BY <1>4, <1>6, <3>2, <3>3
  <2> QED BY <1>0, <1>5, <2>1 DEF Owned
<1>22. ClosedStaysEmpty'
  BY <1>0, <1>11 DEF ClosedStaysEmpty
<1>23. Settling'
  <2>1. ASSUME ~EarlyExit, NEW h \in Workspaces, NEW x \in workspace'[h].members,
               pane[x].phase # "running"
        PROVE  h = current' /\ (pane[x].phase = "done" => pane[x].retained)
    <3>1. ~(h = g /\ x = p)
      BY <1>4, <2>1
    <3>2. x \in workspace[h].members
      BY <1>4, <1>6, <3>1
    <3>3. h = current /\ (pane[x].phase = "done" => pane[x].retained)
      BY <1>0, <2>1, <3>2 DEF Settling
    <3> QED BY <1>4, <1>5, <3>3 DEF Workspaces, None
  <2> QED BY <1>0, <2>1 DEF Settling
<1> QED BY <1>12, <1>13, <1>15, <1>16, <1>17, <1>18, <1>19, <1>20, <1>21, <1>22, <1>23
        DEF WorkspaceInv

-----------------------------------------------------------------------------
(* The goroutine of a pane.                                                *)

\* A pane whose name is in a tab of its workspace is the one in its map.
LEMMA InTabMember ==
  ASSUME WorkspaceInv, NEW p \in Started, InTab(p)
  PROVE  p \in workspace[pane[p].workspace].members
<1>0. Typed /\ Identified /\ Gathered /\ Kept
  BY InvParts
<1>1. PICK g \in Workspaces : g = pane[p].workspace
  BY <1>0 DEF Identified
<1>2. pane[p].id \in PanesOf(workspace[g].tabs)
  BY <1>1 DEF InTab, PanesOf
<1>3. PICK q \in workspace[g].members : pane[q].id = pane[p].id
  BY <1>0, <1>2 DEF Kept, Names
<1>4. q \in Started /\ pane[q].workspace = g
  BY <1>0 DEF Gathered
<1>5. q = p
  BY <1>0, <1>1, <1>3, <1>4 DEF Identified, FreshIdentities
<1> QED BY <1>1, <1>5

\* A pane that is about to be entered has no tab yet.
LEMMA EnteringFacts ==
  ASSUME WorkspaceInv, NEW p, Entering(p)
  PROVE  /\ p \in Started /\ ~pane[p].closing /\ ~InTab(p)
         /\ EarlyExit \/ pane[p].phase = "running"
<1>1. PICK r \in Requests : request[r].pc = "publish" /\ request[r].pane = p
  BY DEF Entering
<1>2. /\ p \in Started \ workspace[request[r].workspace].members
      /\ pane[p].workspace = request[r].workspace
      /\ ~pane[p].closing /\ (EarlyExit \/ pane[p].phase = "running")
  BY <1>1, InvParts DEF InStep, Starts
<1> QED BY <1>2, InTabMember

\* The workspace in use is not being restored.
LEMMA CurrentWhole ==
  ASSUME WorkspaceInv, current # None
  PROVE  current \in Workspaces /\ ~BeingLoaded(current)
<1>1. current \in Workspaces
  BY InvParts DEF Typed
<1>2. ASSUME NEW r \in Requests, request[r].pc \in Loading PROVE request[r].workspace # current
  BY <1>2, InvParts DEF InStep, Aims, Restoring
<1> QED BY <1>1, <1>2 DEF BeingLoaded

\* One record of a function is replaced.
LEMMA OnePane ==
  ASSUME Typed, NEW p \in Panes, NEW x \in PaneRecord, pane' = [pane EXCEPT ![p] = x],
         x.id = pane[p].id, x.workspace = pane[p].workspace, x.closing = pane[p].closing,
         x.phase # "unborn", pane[p].phase # "unborn", x.phase # "running"
  PROVE  /\ pane' \in [Panes -> PaneRecord] /\ pane'[p] = x
         /\ \A q \in Panes : q # p => pane'[q] = pane[q]
         /\ \A q \in Panes : Alike(q)
<1>1. /\ pane' \in [Panes -> PaneRecord] /\ pane'[p] = x
      /\ \A q \in Panes : q # p => pane'[q] = pane[q]
  BY DEF Typed
<1>2. ASSUME NEW q \in Panes PROVE Alike(q)
  <2>1. CASE q = p
    BY <1>1, <2>1 DEF Alike
  <2>2. CASE q # p
    BY <1>1, <2>2 DEF Alike
  <2> QED BY <2>1, <2>2
<1> QED BY <1>1, <1>2

\* markExited
LEMMA PaneExitKept ==
  ASSUME WorkspaceInv, NEW p \in Panes, PaneExit(p)
  PROVE  WorkspaceInv'
<1>0. /\ Typed /\ Gathered /\ Settling /\ pane[p] \in PaneRecord
      /\ pane[p].phase = "running"
      /\ EarlyExit \/ pane[p].closing \/ (InTab(p) /\ pane[p].workspace = current)
      /\ UNCHANGED <<daemonMu, current, closed, workspace, request>>
  BY InvParts, Records DEF PaneExit
<1>1. PICK failed \in BOOLEAN :
          pane' = [pane EXCEPT ![p].phase = "exited", ![p].failed = failed]
  BY DEF PaneExit
<1> DEFINE x == [pane[p] EXCEPT !.phase = "exited", !.failed = failed]
<1>2. /\ x \in PaneRecord /\ x.phase = "exited" /\ x.id = pane[p].id
      /\ x.workspace = pane[p].workspace /\ x.closing = pane[p].closing
  BY <1>0 DEF PaneRecord
<1>3. pane' = [pane EXCEPT ![p] = x]
  BY <1>1
<1> HIDE DEF x
<1>4. /\ pane' \in [Panes -> PaneRecord] /\ pane'[p] = x
      /\ \A q \in Panes : q # p => pane'[q] = pane[q]
      /\ \A q \in Panes : Alike(q)
  BY <1>0, <1>2, <1>3, OnePane
<1>5. EarlyExit \/ ~Entering(p)
  BY <1>0, EnteringFacts
<1>6. EarlyExit \/ \A q \in Panes : Entering(q) => pane'[q].phase = pane[q].phase
  BY <1>4, <1>5
<1>7. Settling'
  <2>1. ASSUME ~EarlyExit, NEW h \in Workspaces, NEW q \in workspace[h].members,
               pane'[q].phase # "running"
        PROVE  h = current /\ (pane'[q].phase = "done" => pane'[q].retained)
    <3>1. q \in Panes /\ pane[q].workspace = h /\ ~pane[q].closing
      BY <1>0, Records DEF Gathered
    <3>2. CASE q = p
      BY <1>0, <1>2, <1>4, <2>1, <3>1, <3>2
    <3>3. CASE q # p
      BY <1>0, <1>4, <2>1, <3>1, <3>3 DEF Settling
    <3> QED BY <3>2, <3>3
  <2> QED BY <1>0, <2>1 DEF Settling
<1> QED BY <1>0, <1>4, <1>6, <1>7, PaneStep

\* retainFailedFinalPane
LEMMA PaneRetainKept ==
  ASSUME WorkspaceInv, NEW p \in Panes, PaneRetain(p)
  PROVE  WorkspaceInv'
<1>0. /\ Typed /\ Gathered /\ Settling /\ pane[p] \in PaneRecord
      /\ pane[p].phase = "exited"
      /\ UNCHANGED <<daemonMu, current, closed, workspace, request>>
  BY InvParts, Records DEF PaneRetain, Asked
<1> DEFINE phase == IF Retains(p) THEN "done" ELSE "remove"
           x == [pane[p] EXCEPT !.phase = phase, !.retained = Retains(p)]
<1>1. pane' = [q \in Panes |-> IF q = p THEN x ELSE pane[q]]
  BY DEF PaneRetain
<1>2. Retains(p) \in BOOLEAN /\ phase \in {"done", "remove"} /\ (phase = "done" => Retains(p))
  BY DEF Retains
<1> HIDE DEF phase
<1>3. /\ x \in PaneRecord /\ x.phase = phase /\ x.id = pane[p].id
      /\ x.workspace = pane[p].workspace /\ x.closing = pane[p].closing
      /\ x.retained = Retains(p)
  <2>1. PICK b \in BOOLEAN : b = Retains(p)
    BY <1>2
  <2>2. x = [pane[p] EXCEPT !.phase = phase, !.retained = b]
    BY <2>1
  <2> HIDE DEF x
  <2>3. /\ x \in PaneRecord /\ x.phase = phase /\ x.id = pane[p].id
        /\ x.workspace = pane[p].workspace /\ x.closing = pane[p].closing
        /\ x.retained = b
    BY <1>0, <1>2, <2>2 DEF PaneRecord
  <2> QED BY <2>1, <2>3
<1> HIDE DEF x
<1>4. pane' = [pane EXCEPT ![p] = x]
  BY <1>0, <1>1 DEF Typed
<1>5. /\ pane' \in [Panes -> PaneRecord] /\ pane'[p] = x
      /\ \A q \in Panes : q # p => pane'[q] = pane[q]
      /\ \A q \in Panes : Alike(q)
  BY <1>0, <1>2, <1>3, <1>4, OnePane
<1>6. EarlyExit \/ ~Entering(p)
  BY <1>0, EnteringFacts
<1>7. EarlyExit \/ \A q \in Panes : Entering(q) => pane'[q].phase = pane[q].phase
  BY <1>5, <1>6
<1>8. Settling'
  <2>1. ASSUME ~EarlyExit, NEW h \in Workspaces, NEW q \in workspace[h].members,
               pane'[q].phase # "running"
        PROVE  h = current /\ (pane'[q].phase = "done" => pane'[q].retained)
    <3>1. q \in Panes
      BY <1>0, Records
    <3>2. CASE q = p
      <4>1. h = current
        BY <1>0, <2>1, <3>2 DEF Settling
      <4>2. x.phase = "done" => x.retained
        BY <1>2, <1>3
      <4> QED BY <1>5, <3>2, <4>1, <4>2
    <3>3. CASE q # p
      BY <1>0, <1>5, <2>1, <3>1, <3>3 DEF Settling
    <3> QED BY <3>2, <3>3
  <2> QED BY <1>0, <2>1 DEF Settling
<1> QED BY <1>0, <1>5, <1>7, <1>8, PaneStep

\* removePaneAfterExit does not find the pane, ...
LEMMA PaneGoneKept ==
  ASSUME WorkspaceInv, NEW p \in Panes, pane[p].phase = "remove", ~InTab(p),
         pane' = [pane EXCEPT ![p].phase = "done"],
         UNCHANGED <<daemonMu, current, closed, workspace, request>>
  PROVE  WorkspaceInv'
<1>0. /\ Typed /\ Identified /\ Gathered /\ Kept /\ Settling /\ pane[p] \in PaneRecord
  BY InvParts, Records
<1> DEFINE x == [pane[p] EXCEPT !.phase = "done"]
<1>1. /\ x \in PaneRecord /\ x.phase = "done" /\ x.id = pane[p].id
      /\ x.workspace = pane[p].workspace /\ x.closing = pane[p].closing
  BY <1>0 DEF PaneRecord
<1>2. pane' = [pane EXCEPT ![p] = x]
  OBVIOUS
<1> HIDE DEF x
<1>3. /\ pane' \in [Panes -> PaneRecord] /\ pane'[p] = x
      /\ \A q \in Panes : q # p => pane'[q] = pane[q]
      /\ \A q \in Panes : Alike(q)
  BY <1>0, <1>1, <1>2, OnePane
<1>4. EarlyExit \/ ~Entering(p)
  BY EnteringFacts
<1>5. EarlyExit \/ \A q \in Panes : Entering(q) => pane'[q].phase = pane[q].phase
  BY <1>3, <1>4
<1>6. ASSUME ~EarlyExit, NEW h \in Workspaces PROVE p \notin workspace[h].members
  <2>1. SUFFICES ASSUME p \in workspace[h].members PROVE FALSE
    OBVIOUS
  <2>2. h = current /\ pane[p].workspace = h
    BY <1>0, <1>6, <2>1 DEF Settling, Gathered
  <2>3. current # None
    BY <2>2 DEF Workspaces, None
  <2>4. Names(workspace[h].members) \subseteq PanesOf(workspace[h].tabs)
    BY <1>0, <2>2, <2>3, CurrentWhole DEF Kept
  <2>5. pane[p].id \in PanesOf(workspace[h].tabs)
    BY <2>1, <2>4 DEF Names
  <2> QED BY <2>2, <2>5 DEF PanesOf, InTab
<1>7. Settling'
  <2>1. ASSUME ~EarlyExit, NEW h \in Workspaces, NEW q \in workspace[h].members,
               pane'[q].phase # "running"
        PROVE  h = current /\ (pane'[q].phase = "done" => pane'[q].retained)
    <3>1. q \in Panes /\ q # p
      BY <1>0, <1>6, <2>1, Records
    <3> QED BY <1>0, <1>3, <2>1, <3>1 DEF Settling
  <2> QED BY <2>1 DEF Settling
<1> QED BY <1>3, <1>5, <1>7, PaneStep

\* ... or takes it out of its tab and of the workspace: it is done, and close is
\* called of the panes that left.
Ended(p, left) == [Closing(left) EXCEPT ![p].phase = "done"]

\* The panes after that, one by one.
LEMMA EndedFacts ==
  ASSUME Typed, NEW p \in Panes, NEW left
  PROVE  /\ Ended(p, left) \in [Panes -> PaneRecord]
         /\ \A q \in Panes :
               /\ Ended(p, left)[q].id = pane[q].id
               /\ Ended(p, left)[q].workspace = pane[q].workspace
               /\ Ended(p, left)[q].retained = pane[q].retained
               /\ Ended(p, left)[q].closing = (pane[q].closing \/ q \in left)
               /\ Ended(p, left)[q].phase = IF q = p THEN "done" ELSE pane[q].phase
<1> DEFINE base == Closing(left)
<1>1. /\ base \in [Panes -> PaneRecord]
      /\ \A q \in Panes :
            /\ base[q].id = pane[q].id /\ base[q].workspace = pane[q].workspace
            /\ base[q].phase = pane[q].phase /\ base[q].retained = pane[q].retained
            /\ base[q].closing = (pane[q].closing \/ q \in left)
  BY ClosingFacts
<1>2. Ended(p, left) = [base EXCEPT ![p].phase = "done"]
  BY DEF Ended
<1> HIDE DEF base
<1> DEFINE x == [base[p] EXCEPT !.phase = "done"]
<1>3. base[p] \in PaneRecord
  BY <1>1
<1>4. /\ x \in PaneRecord /\ x.phase = "done" /\ x.id = base[p].id
      /\ x.workspace = base[p].workspace /\ x.closing = base[p].closing
      /\ x.retained = base[p].retained
  BY <1>3 DEF PaneRecord
<1>5. Ended(p, left) = [base EXCEPT ![p] = x]
  BY <1>2
<1> HIDE DEF x
<1>6. Ended(p, left) \in [Panes -> PaneRecord] /\ Ended(p, left)[p] = x
      /\ \A q \in Panes \ {p} : Ended(p, left)[q] = base[q]
  BY <1>1, <1>4, <1>5
<1>7. /\ Ended(p, left)[p].id = pane[p].id
      /\ Ended(p, left)[p].workspace = pane[p].workspace
      /\ Ended(p, left)[p].retained = pane[p].retained
      /\ Ended(p, left)[p].closing = (pane[p].closing \/ p \in left)
      /\ Ended(p, left)[p].phase = "done"
  BY <1>1, <1>4, <1>6
<1>8. \A q \in Panes \ {p} :
         /\ Ended(p, left)[q].id = pane[q].id
         /\ Ended(p, left)[q].workspace = pane[q].workspace
         /\ Ended(p, left)[q].retained = pane[q].retained
         /\ Ended(p, left)[q].closing = (pane[q].closing \/ q \in left)
         /\ Ended(p, left)[q].phase = pane[q].phase
  BY <1>1, <1>6
<1> QED BY <1>6, <1>7, <1>8

\* What is left of the workspace: the pane is no member any more.
LEMMA RemovePaneFound ==
  ASSUME NEW w, Fit(w), NEW i \in 1..Len(w.tabs), NEW id \in w.tabs[i].panes, NEW next
  PROVE  /\ Legal(w, RemovePane(w, w.tabs[i].id, id, next))
         /\ Calm(w, RemovePane(w, w.tabs[i].id, id, next))
         /\ LostMember(w, RemovePane(w, w.tabs[i].id, id, next), id)
         /\ w.tabs # <<>>
<1>1. PICK t : w.tabs[i].id = t
  OBVIOUS
<1>2. Legal(w, RemovePane(w, t, id, next))
  BY <1>1, RemovePaneLegal
<1>3. Calm(w, RemovePane(w, t, id, next))
  BY <1>1, RemovePaneLegal
<1>4. LostMember(w, RemovePane(w, t, id, next), id)
  BY <1>1, RemovePaneLegal
<1>5. w.tabs \in Seq(GoodTab)
  BY FitParts
<1>6. w.tabs # <<>>
  BY <1>5
<1> QED BY <1>1, <1>2, <1>3, <1>4, <1>6

\* The step keeps the invariant when the pane is found, ...
LEMMA PaneFoundKept ==
  ASSUME WorkspaceInv, NEW p \in Panes, pane[p].phase = "remove",
         NEW g \in Workspaces, pane[p].workspace = g, p \in workspace[g].members,
         NEW v, Legal(workspace[g], v), Calm(workspace[g], v), p \notin v.members,
         workspace[g].tabs # <<>>, workspace' = [workspace EXCEPT ![g] = v],
         NEW left, left = workspace[g].members \ v.members, pane' = Ended(p, left),
         UNCHANGED <<daemonMu, current, closed, request>>
  PROVE  WorkspaceInv'
<1>1. /\ Typed /\ Settling /\ \A r \in Requests : InStep(request[r])
  BY InvParts
<1>2. ~Blank(g)
  BY EmptyFacts DEF Blank
<1>3. BeingLoaded(g) => EarlyExit
  <2>1. ~EarlyExit => g = current
    BY <1>1 DEF Settling
  <2>2. BeingLoaded(g) => g # current
    BY <1>1 DEF BeingLoaded, InStep, Aims, Restoring
  <2> QED BY <2>1, <2>2
<1>4. /\ pane' \in [Panes -> PaneRecord]
      /\ \A q \in Panes :
            /\ pane'[q].id = pane[q].id /\ pane'[q].workspace = pane[q].workspace
            /\ pane'[q].retained = pane[q].retained
            /\ pane'[q].closing = (pane[q].closing \/ q \in left)
            /\ pane'[q].phase = IF q = p THEN "done" ELSE pane[q].phase
  BY <1>1, EndedFacts
<1>5. ASSUME NEW q \in Panes PROVE Left(q, g, v)
  BY <1>4 DEF Left
<1>6. request' \in [Requests -> RequestRecord] /\ \A s \in Requests : Applied(s)
  BY <1>1 DEF Applied, Typed
<1>7. BeingLoaded(g) => /\ EarlyExit /\ Calm(workspace[g], v)
                        /\ workspace[g].tabs # <<>>
  BY <1>3
<1> QED BY <1>2, <1>4, <1>5, <1>6, <1>7, ShrinkStep

\* ... and so removePaneAfterExit keeps it either way.
LEMMA PaneRemoveKept ==
  ASSUME WorkspaceInv, NEW p \in Panes, PaneRemove(p)
  PROVE  WorkspaceInv'
<1>0. /\ Typed /\ Identified /\ Gathered /\ Kept /\ pane[p].phase = "remove"
      /\ UNCHANGED <<daemonMu, current, closed, request>>
  BY InvParts DEF PaneRemove
<1>1. p \in Started
  BY <1>0 DEF Started
<1>2. PICK g \in Workspaces : g = pane[p].workspace
  BY <1>0, <1>1 DEF Identified
<1>3. PICK w : w = workspace[g]
  OBVIOUS
<1>4. PICK id : id = pane[p].id
  OBVIOUS
<1>5. CASE /\ ~InTab(p) /\ pane' = [pane EXCEPT ![p].phase = "done"]
           /\ UNCHANGED workspace
  BY <1>0, <1>5, PaneGoneKept
<1>6. CASE \E i \in 1..Len(w.tabs) :
              /\ InTab(p) /\ id \in w.tabs[i].panes
              /\ \E next \in Adjacent(w.tabs[i].layout, id) :
                    workspace' = [workspace EXCEPT
                                    ![g] = RemovePane(w, w.tabs[i].id, id, next)]
              /\ pane' = Ended(p, Dropped(w, workspace'[g]))
  <2>1. PICK i \in 1..Len(w.tabs) :
              /\ InTab(p) /\ id \in w.tabs[i].panes
              /\ \E next \in Adjacent(w.tabs[i].layout, id) :
                    workspace' = [workspace EXCEPT
                                    ![g] = RemovePane(w, w.tabs[i].id, id, next)]
              /\ pane' = Ended(p, Dropped(w, workspace'[g]))
    BY <1>6
  <2>2. PICK next : workspace' = [workspace EXCEPT
                                    ![g] = RemovePane(w, w.tabs[i].id, id, next)]
    BY <2>1
  <2>3. PICK v : v = RemovePane(w, w.tabs[i].id, id, next)
    OBVIOUS
  <2>4. workspace' = [workspace EXCEPT ![g] = v] /\ workspace'[g] = v
    BY <1>0, <2>2, <2>3 DEF Typed
  <2>5. PICK left : left = w.members \ v.members
    OBVIOUS
  <2>6. pane' = Ended(p, left)
    BY <2>1, <2>4, <2>5 DEF Dropped
  <2>7. Fit(w)
    BY <1>0, <1>3, AllFit
  <2>8. /\ Legal(w, v) /\ Calm(w, v) /\ LostMember(w, v, id)
        /\ w.tabs # <<>>
    <3>1. id \in w.tabs[i].panes
      BY <2>1
    <3> QED BY <2>3, <2>7, <3>1, RemovePaneFound
  <2>9. p \in workspace[g].members
    BY <1>1, <1>2, <2>1, InTabMember
  <2>10. p \notin v.members
    BY <1>3, <1>4, <2>8, <2>9 DEF LostMember, Member
  <2> QED BY <1>0, <1>2, <1>3, <2>4, <2>5, <2>6, <2>8, <2>9, <2>10, PaneFoundKept
<1> QED BY <1>2, <1>3, <1>4, <1>5, <1>6, ZenonT(60) DEF PaneRemove, Found, Ended

-----------------------------------------------------------------------------
(* Every step keeps the invariant.                                         *)

\* What requests name are numbers.
LEMMA IdsNat == Ids \subseteq Nat
BY BoundsAssumption DEF Ids

\* applyAction, whatever it is asked for
LEMMA ApplyKept ==
  ASSUME Serial, WorkspaceInv, NEW r \in Requests, Apply(r)
  PROVE  WorkspaceInv'
<1>1. CASE \E t \in Ids \cup {None} : CreateTab(r, t)
  BY <1>1, CreateTabKept
<1>2. CASE \E t \in Ids : CloseTab(r, t) \/ CloseOtherTabs(r, t)
  BY <1>2, CloseKept
<1>3. CASE \E t \in Ids, to \in Ids : MoveTab(r, t, to)
  BY <1>3, MoveTabKept
<1>4. CASE \E t \in Ids, before \in Ids \cup {None} : ReorderTab(r, t, before)
  BY <1>4, ReorderTabKept
<1>5. CASE \E t \in Ids, recent \in Ids : ActivateTab(r, t, recent)
  BY <1>5, IdsNat, ActivateTabKept
<1>6. CASE \E t \in Ids, active \in Ids \cup {None} : UpdateLayout(r, t, active)
  BY <1>6, UpdateLayoutKept
<1>7. CASE \E t \in Ids, id \in Ids : SplitPane(r, t, id)
  BY <1>7, SplitPaneKept
<1>8. CASE \E t \in Ids, id \in Ids : RestartPane(r, t, id)
  BY <1>8, RestartPaneKept
<1>9. CASE \E t \in Ids, id \in Ids : ClosePane(r, t, id)
  BY <1>9, ClosePaneKept
<1>10. CASE \E t \in Ids, id \in Ids : MovePaneToTab(r, t, id)
  BY <1>10, MovePaneKept
<1>11. CASE \E t \in Ids, id \in Ids : ActivatePane(r, t, id)
  BY <1>11, ActivatePaneKept
<1>12. CASE StartFails(r)
  BY <1>12, StartFailsKept
<1>13. CASE Refuse(r)
  BY <1>13, RefuseKept
<1> QED
  BY <1>1, <1>2, <1>3, <1>4, <1>5, <1>6, <1>7, <1>8, <1>9, <1>10, <1>11, <1>12, <1>13
  DEF Apply

\* ensureWorkspaceLocked
LEMMA EnsureKept ==
  ASSUME WorkspaceInv, NEW r \in Requests, Ensure(r)
  PROVE  WorkspaceInv'
BY EnsureBeginKept, EnsureCheckKept, CreateReadKept, CreateStartKept, CreatePublishKept
DEF Ensure

\* restoreWorkspace
LEMMA RestoreKept ==
  ASSUME Serial, WorkspaceInv, NEW r \in Requests, Restore(r)
  PROVE  WorkspaceInv'
<1>1. CASE \E document \in Documents : RestoreBegin(r, document)
  BY <1>1, RestoreBeginKept
<1>2. CASE RestorePane(r)
  BY <1>2, RestorePaneKept
<1>3. CASE RestoreFails(r)
  BY <1>3, RestoreFailsKept
<1>4. CASE \E active \in Ids, recent \in Ids : RestoreFocus(r, active, recent)
  BY <1>4, IdsNat, RestoreFocusKept
<1>5. CASE RestoreSwap(r)
  BY <1>5, RestoreSwapKept
<1> QED BY <1>1, <1>2, <1>3, <1>4, <1>5 DEF Restore

\* The goroutine of a pane whose process ends
LEMMA ExitKept ==
  ASSUME WorkspaceInv, NEW p \in Panes, Exit(p)
  PROVE  WorkspaceInv'
BY PaneExitKept, PaneRetainKept, PaneRemoveKept DEF Exit

\* Nothing the invariant speaks of changes.
LEMMA StutterKept ==
  ASSUME WorkspaceInv, UNCHANGED vars
  PROVE  WorkspaceInv'
<1>1. UNCHANGED <<daemonMu, current, closed, workspace, pane, request>>
  BY DEF vars
<1>2. Typed /\ Settling
  BY InvParts
<1>3. pane \in [Panes -> PaneRecord]
  BY <1>2 DEF Typed
<1>4. ASSUME NEW q \in Panes PROVE Alike(q)
  BY <1>1 DEF Alike
<1>5. \A q \in Panes : Entering(q) => pane'[q].phase = pane[q].phase
  BY <1>1
<1>6. Settling'
  BY <1>1, <1>2 DEF Settling
<1> QED BY <1>1, <1>3, <1>4, <1>5, <1>6, PaneStep

\* Every step of the specification keeps the invariant.
LEMMA NextKept ==
  ASSUME Serial, WorkspaceInv, [Next]_vars
  PROVE  WorkspaceInv'
<1>1. ASSUME NEW r \in Requests, NEW kind \in AllKinds, Receive(r, kind)
      PROVE  WorkspaceInv'
  BY <1>1, ReceiveKept
<1>2. ASSUME NEW r \in Requests, Ensure(r) \/ Apply(r) \/ Restore(r)
      PROVE  WorkspaceInv'
  BY <1>2, EnsureKept, ApplyKept, RestoreKept
<1>3. ASSUME NEW p \in Panes, Exit(p) PROVE WorkspaceInv'
  BY <1>3, ExitKept
<1>4. CASE LocalClose
  BY <1>4, LocalCloseKept
<1>5. CASE UNCHANGED vars
  BY <1>5, StutterKept
<1> QED BY <1>1, <1>2, <1>3, <1>4, <1>5 DEF Next

-----------------------------------------------------------------------------
(* The theorems.                                                           *)

\* What the invariant implies: the types, ...
LEMMA InvTypeOK == WorkspaceInv => TypeOK
<1> SUFFICES ASSUME WorkspaceInv PROVE TypeOK
  OBVIOUS
<1>1. Typed
  BY InvParts
<1>2. ASSUME NEW g \in Workspaces
      PROVE  /\ workspace[g] \in [members : SUBSET Panes, tabs : Seq(Tab), active : Nat,
                                  recent : Seq(Nat), nextTab : Nat, nextPane : Nat]
             /\ Len(workspace[g].recent) <= 2
  <2>1. workspace[g] \in WorkspaceRecord /\ Len(workspace[g].recent) <= 2
    BY <1>1 DEF Typed, WellFormed
  <2>2. workspace[g] \in LooseRecord
    BY <2>1, RecordsLoose
  <2>3. \A n : n \in Nat \ {0} => n \in Nat
    OBVIOUS
  <2> QED BY <2>1, <2>2, <2>3 DEF LooseRecord
<1>3. workspace \in [Workspaces ->
         [members : SUBSET Panes, tabs : Seq(Tab), active : Nat, recent : Seq(Nat),
          nextTab : Nat, nextPane : Nat]]
  BY <1>1, <1>2 DEF Typed
<1>4. \A g \in Workspaces : Len(workspace[g].recent) <= 2
  BY <1>2
<1> QED BY <1>1, <1>3, <1>4 DEF Typed, TypeOK, PaneRecord, RequestRecord

\* ... that tabs and panes agree in the workspace in use, which no request is loading, ...
LEMMA InvPartition == WorkspaceInv => TabsPartitionPanes
<1> DEFINE Partition(w) ==
              /\ \A i \in 1..Len(w.tabs) :
                    /\ w.tabs[i].panes # {}
                    /\ Elements(w.tabs[i].layout) = w.tabs[i].panes
                    /\ Len(w.tabs[i].layout) = Cardinality(w.tabs[i].panes)
                    /\ \A j \in 1..(i - 1) :
                          /\ w.tabs[i].panes \cap w.tabs[j].panes = {}
                          /\ w.tabs[i].id # w.tabs[j].id
              /\ {pane[p].id : p \in w.members} =
                    UNION {w.tabs[i].panes : i \in 1..Len(w.tabs)}
<1> SUFFICES ASSUME WorkspaceInv, current # None PROVE Partition(workspace[current])
  BY Zenon DEF TabsPartitionPanes
<1>1. /\ Typed /\ Identified /\ Gathered /\ Kept
      /\ current \in Workspaces /\ ~BeingLoaded(current)
  BY InvParts, CurrentWhole
<1>2. PICK w : w = workspace[current]
  OBVIOUS
<1>3. Fit(w)
  BY <1>1, <1>2, AllFit
<1>4. /\ w.tabs \in Seq(GoodTab) /\ Apart(w.tabs)
      /\ \A i \in 1..Len(w.tabs) : w.tabs[i] \in GoodTab
  BY <1>3, FitParts
<1>5. Names(w.members) = PanesOf(w.tabs)
  BY <1>1, <1>2 DEF Kept
<1>6. ASSUME NEW i \in 1..Len(w.tabs)
      PROVE  /\ w.tabs[i].panes # {}
             /\ Elements(w.tabs[i].layout) = w.tabs[i].panes
             /\ Len(w.tabs[i].layout) = Cardinality(w.tabs[i].panes)
             /\ \A j \in 1..(i - 1) :
                   /\ w.tabs[i].panes \cap w.tabs[j].panes = {}
                   /\ w.tabs[i].id # w.tabs[j].id
  <2>1. PICK tab \in GoodTab : tab = w.tabs[i]
    BY <1>4
  <2>2. /\ tab.panes # {} /\ Elements(tab.layout) = tab.panes /\ Once(tab.layout)
        /\ tab.layout \in Seq(Nat)
    BY DEF GoodTab, Tab
  <2>3. Len(tab.layout) = Cardinality(tab.panes)
    BY <2>2, OnceCardinality
  <2>4. \A j \in 1..(i - 1) : j \in 1..Len(w.tabs) /\ j # i
    BY <1>4
  <2>5. \A j \in 1..(i - 1) : /\ w.tabs[i].panes \cap w.tabs[j].panes = {}
                              /\ w.tabs[i].id # w.tabs[j].id
    BY <1>4, <2>4 DEF Apart
  <2> QED BY <2>1, <2>2, <2>3, <2>5
<1>7. {pane[p].id : p \in w.members} = UNION {w.tabs[i].panes : i \in 1..Len(w.tabs)}
  BY <1>5 DEF Names, PanesOf
<1>8. Partition(w)
  BY <1>6, <1>7, Zenon
<1> HIDE DEF Partition
<1> QED BY <1>2, <1>8

\* ... that what is active there exists, ...
LEMMA InvFocus == WorkspaceInv /\ ~EarlyExit => FocusValid
<1> SUFFICES ASSUME WorkspaceInv, ~EarlyExit, current # None
             PROVE  LET w == workspace[current]
                    IN  /\ IF w.tabs = <<>> THEN w.active = None /\ w.recent = <<>>
                           ELSE w.active \in TabIds(w) /\ w.recent[1] = w.active
                        /\ Elements(w.recent) \subseteq TabIds(w)
                        /\ \A i \in 1..Len(w.tabs) : w.tabs[i].active \in w.tabs[i].panes
  BY DEF FocusValid
<1>1. /\ Typed /\ Identified /\ Gathered /\ Kept
      /\ current \in Workspaces /\ ~BeingLoaded(current)
  BY InvParts, CurrentWhole
<1>2. PICK w : w = workspace[current]
  OBVIOUS
<1>3. Fit(w)
  BY <1>1, <1>2, AllFit
<1>4. \A i \in 1..Len(w.tabs) : w.tabs[i] \in GoodTab
  BY <1>3, FitParts
<1>5. \A i \in 1..Len(w.tabs) : w.tabs[i].active \in w.tabs[i].panes
  BY <1>4 DEF GoodTab
<1>6. Focused(w)
  BY <1>1, <1>2 DEF Kept
<1> QED BY <1>2, <1>5, <1>6 DEF Focused

\* ... that an exit is settled, ...
LEMMA InvSettled == WorkspaceInv /\ ~EarlyExit => ExitSettled
<1> SUFFICES ASSUME WorkspaceInv, ~EarlyExit, NEW p \in Panes, pane[p].phase = "done",
                    p \in workspace[pane[p].workspace].members
             PROVE  pane[p].retained
  BY DEF ExitSettled
<1>1. Identified /\ Settling
  BY InvParts
<1>2. p \in Started
  BY DEF Started
<1>3. pane[p].workspace \in Workspaces
  BY <1>1, <1>2 DEF Identified
<1> QED BY <1>1, <1>3 DEF Settling

\* ... and that a live pane is in the workspace in use or in one whose maker holds the
\* daemon's mutex.
LEMMA InvOwned == WorkspaceInv => LivePanesOwned
<1> SUFFICES ASSUME WorkspaceInv, NEW p \in Panes, pane[p].phase = "running",
                    ~pane[p].closing
             PROVE  \/ pane[p].workspace = current /\ p \in workspace[current].members
                    \/ \E r \in Requests : /\ daemonMu = r
                                           /\ request[r].workspace = pane[p].workspace
  BY DEF LivePanesOwned
<1>1. Mutex /\ Owned /\ \A r \in Requests : InStep(request[r])
  BY InvParts
<1>2. /\ p \in workspace[pane[p].workspace].members \/ Entering(p)
      /\ pane[p].workspace = current \/ Private(pane[p].workspace)
  BY <1>1 DEF Owned
<1>3. CASE Entering(p)
  <2>1. PICK r \in Requests : request[r].pc = "publish" /\ request[r].pane = p
    BY <1>3 DEF Entering
  <2>2. pane[p].workspace = request[r].workspace
    BY <1>1, <2>1 DEF InStep, Starts
  <2>3. daemonMu = r
    BY <1>1, <2>1 DEF Mutex, Holding, Making
  <2> QED BY <2>2, <2>3
<1>4. CASE Private(pane[p].workspace)
  <2>1. PICK r \in Requests : /\ request[r].pc \in Making \cup Restoring
                              /\ request[r].workspace = pane[p].workspace
    BY <1>4 DEF Private
  <2>2. daemonMu = r
    BY <1>1, <2>1 DEF Mutex, Holding
  <2> QED BY <2>1, <2>2
<1> QED BY <1>2, <1>3, <1>4

\* Behind the theorems below: WorkspaceInv holds in every reachable state.
THEOREM Invariance == Serial => (Spec => []WorkspaceInv)
<1> SUFFICES ASSUME Serial PROVE Spec => []WorkspaceInv
  OBVIOUS
<1>1. Init => WorkspaceInv
  BY InitInv
<1>2. WorkspaceInv /\ [Next]_vars => WorkspaceInv'
  BY NextKept
<1> QED BY <1>1, <1>2, PTL DEF Spec

\* Every variable keeps the type its Go counterpart has (agentDaemon,
\* terminalWorkspace, terminalTab, terminalPane), and setRecentTabsLocked never
\* remembers more than two tabs.
THEOREM WorkspaceTyped == Serial => (Spec => []TypeOK)
<1>1. WorkspaceInv => TypeOK
  BY InvTypeOK
<1> QED BY <1>1, Invariance, PTL

\* Whatever actions, exits of panes and restorations follow one another, the map of
\* panes, the tabs' pane lists and the layouts of the workspace in use agree.
THEOREM PartitionSafe == Serial => (Spec => []TabsPartitionPanes)
<1>1. WorkspaceInv => TabsPartitionPanes
  BY InvPartition
<1> QED BY <1>1, Invariance, PTL

\* newPaneLocked, createTabLocked and newRecoveredTerminalWorkspace never give two
\* panes of a workspace the same identity, although one of them advances the
\* counter without the workspace mutex.
THEOREM IdentitiesFresh == Serial => (Spec => []FreshIdentities)
<1>1. WorkspaceInv => FreshIdentities
  BY InvParts DEF Identified
<1> QED BY <1>1, Invariance, PTL

\* No failure of a start, no restoration and no action leaves a shell running
\* that is neither in the workspace in use nor in one being made.
THEOREM PanesOwned == Serial => (Spec => []LivePanesOwned)
<1>1. WorkspaceInv => LivePanesOwned
  BY InvOwned
<1> QED BY <1>1, Invariance, PTL

\* With one connection, or with any number of which none starts panes by an action,
\* every shell that runs after Local.Close has been closed, whichever attachments,
\* restorations and states were about to ensure a workspace, and none is started.  The
\* mutexes and closed are enough for it, without the cancellation.
THEOREM ClosedEmpty == Serial => (Spec => []ClosedStaysEmpty)
<1>1. WorkspaceInv => ClosedStaysEmpty
  BY InvParts
<1> QED BY <1>1, Invariance, PTL

\* When no shell ends before its tab is in the workspace in use, closing, moving
\* and removing tabs and panes leave the active tab, each tab's active pane and the
\* recent tabs among those that exist.
THEOREM FocusSafe == Serial /\ ~EarlyExit => (Spec => []FocusValid)
<1> SUFFICES ASSUME Serial, ~EarlyExit PROVE Spec => []FocusValid
  OBVIOUS
<1>1. WorkspaceInv => FocusValid
  BY InvFocus
<1> QED BY <1>1, Invariance, PTL

\* When no shell ends before its tab is in the workspace in use, a pane whose exit
\* was handled (retainFailedFinalPane, removePaneAfterExit) has left the workspace
\* or was marked as retained.
THEOREM ExitsSettle == Serial /\ ~EarlyExit => (Spec => []ExitSettled)
<1> SUFFICES ASSUME Serial, ~EarlyExit PROVE Spec => []ExitSettled
  OBVIOUS
<1>1. WorkspaceInv => ExitSettled
  BY InvSettled
<1> QED BY <1>1, Invariance, PTL
=============================================================================
