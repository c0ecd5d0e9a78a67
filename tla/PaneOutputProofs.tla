-------------------------- MODULE PaneOutputProofs --------------------------
(***************************************************************************)
(* Proofs about PaneOutput, for any number of attachments, any amount of   *)
(* output and any capacities: its types, that output and controls reach    *)
(* each attachment once, in order and in their place, and that the queues  *)
(* are accounted for.                                                      *)
(***************************************************************************)
EXTENDS PaneOutput, NatInduction, SequenceTheorems, TLAPS

-----------------------------------------------------------------------------
(* The constants and the data.                                             *)

LEMMA PaneConstants ==
    /\ ChunkMax \in Nat \ {0} /\ QueueLimit \in Nat \ {0} /\ SendCap \in Nat \ {0}
    /\ TextCost \in Nat \ {0} /\ MaxOutput \in Nat /\ MaxEpoch \in Nat
    /\ FirstSize \in Sizes /\ Free \notin Clients
BY PaneAssumption DEF PaneAssumption

\* What is ever queued.
Outbound == {e \in Entry : /\ e.from <= e.to /\ e.to <= MaxOutput
                           /\ e.kind # "output" => e.from = e.to
                           /\ e.epoch <= MaxEpoch}

LEMMA OutboundType ==
    ASSUME NEW e \in Outbound
    PROVE  /\ e \in Entry /\ e.kind \in {"output", "resize", "notice", "exit"}
           /\ e.from \in Nat /\ e.to \in Nat /\ e.epoch \in 0..MaxEpoch
           /\ e.from <= e.to /\ e.to <= MaxOutput
           /\ e.kind # "output" => e.from = e.to
           /\ Cost(e) \in Nat
BY PaneConstants DEF Outbound, Entry, Cost

LEMMA ChunkType ==
    ASSUME NEW from \in Nat, NEW to \in Nat, from <= to, to <= MaxOutput
    PROVE  Chunk(from, to) \in Outbound
BY PaneConstants DEF Chunk, Outbound, Entry

LEMMA ControlType ==
    ASSUME NEW kind \in {"resize", "notice", "exit"}, NEW n \in 0..MaxEpoch,
           NEW at \in 0..MaxOutput
    PROVE  Control(kind, n, at) \in Outbound
BY PaneConstants DEF Control, Outbound, Entry

LEMMA NoticeType == Notice \in Outbound /\ Notice.kind = "notice"
<1>1. Notice \in Outbound
  BY PaneConstants, ControlType DEF Notice
<1> QED BY <1>1 DEF Notice, Control

\* A chunk and the next one in one.
Extended(last, entry) == [last EXCEPT !.to = entry.to]

LEMMA ExtendedType ==
    ASSUME NEW last \in Outbound, NEW entry \in Outbound,
           last.kind = "output", last.to = entry.from
    PROVE  /\ Extended(last, entry) \in Outbound
           /\ Extended(last, entry).kind = "output"
           /\ Extended(last, entry).from = last.from
           /\ Extended(last, entry).to = entry.to
<1> DEFINE e == Extended(last, entry)
<1>1. last \in Entry /\ entry \in Entry /\ last.from <= entry.to
  BY OutboundType
<1>2. e \in Entry /\ e.kind = "output" /\ e.from = last.from /\ e.to = entry.to
      /\ e.epoch = last.epoch
  BY <1>1 DEF Extended, Entry
<1> QED BY <1>1, <1>2, OutboundType DEF Outbound

\* A sequence that is not empty ends with its last element.
LEMMA FrontLast ==
    ASSUME NEW S, NEW s \in Seq(S), s # <<>>
    PROVE  /\ Len(s) \in 1..Len(s) /\ s[Len(s)] \in S
           /\ SubSeq(s, 1, Len(s) - 1) \in Seq(S)
           /\ s = SubSeq(s, 1, Len(s) - 1) \o <<s[Len(s)]>>
           /\ \A e \in S : [s EXCEPT ![Len(s)] = e] = SubSeq(s, 1, Len(s) - 1) \o <<e>>
<1>0. PICK n \in Nat \ {0} : n = Len(s)
  BY EmptySeq
<1> DEFINE front == SubSeq(s, 1, n - 1)
<1>1. \A i \in 1..n : s[i] \in S
  BY <1>0, ElementOfSeq
<1>2. front \in Seq(S) /\ Len(front) = n - 1 /\ \A i \in 1..(n - 1) : front[i] = s[i]
  <2>1. \A i \in 1..(n - 1) : s[i] \in S
    BY <1>1
  <2>2. /\ front \in Seq(S) /\ Len(front) = IF 1 <= n - 1 THEN (n - 1) - 1 + 1 ELSE 0
        /\ \A i \in 1..((n - 1) - 1 + 1) : front[i] = s[1 + i - 1]
    BY <2>1, SubSeqProperties
  <2> QED BY <2>2
<1> HIDE DEF front
<1>3. ASSUME NEW e \in S, NEW t \in Seq(S), Len(t) = n,
             \A i \in 1..n : t[i] = IF i = n THEN e ELSE s[i]
      PROVE  t = front \o <<e>>
  <2> DEFINE u == <<e>>
             v == front \o u
  <2>1. u \in Seq(S) /\ Len(u) = 1 /\ u[1] = e
    OBVIOUS
  <2>2. /\ v \in Seq(S) /\ Len(v) = n
        /\ \A i \in 1..n : v[i] = IF i <= n - 1 THEN front[i] ELSE u[i - (n - 1)]
    <3> HIDE DEF u
    <3>1. /\ front \o u \in Seq(S) /\ Len(front \o u) = Len(front) + Len(u)
          /\ \A i \in 1..(Len(front) + Len(u)) : (front \o u)[i] =
                IF i <= Len(front) THEN front[i] ELSE u[i - Len(front)]
      BY <1>2, <2>1, ConcatProperties
    <3>2. Len(front) = n - 1 /\ Len(u) = 1 /\ (n - 1) + 1 = n
      BY <1>0, <1>2, <2>1
    <3> QED BY <3>1, <3>2
  <2>3. \A i \in 1..n : v[i] = t[i]
    <3> HIDE DEF u, v
    <3> QED BY <1>0, <1>2, <1>3, <2>1, <2>2
  <2>4. t = v
    <3> HIDE DEF v
    <3> QED BY <1>3, <2>2, <2>3, SeqEqual
  <2> QED BY <2>4
<1>4. s = front \o <<s[n]>>
  BY <1>0, <1>1, <1>3
<1>5. ASSUME NEW e \in S PROVE [s EXCEPT ![n] = e] = front \o <<e>>
  <2> DEFINE t == [s EXCEPT ![n] = e]
  <2>1. t \in Seq(S) /\ Len(t) = n /\ \A i \in 1..n : t[i] = IF i = n THEN e ELSE s[i]
    BY <1>0, ExceptSeq
  <2>2. t = front \o <<e>>
    <3> HIDE DEF t
    <3> QED BY <1>3, <2>1
  <2> QED BY <2>2
<1>6. n \in 1..n /\ s[n] \in S
  BY <1>1
<1> QED BY <1>0, <1>2, <1>4, <1>5, <1>6 DEF front

LEMMA HeadFirst ==
    ASSUME NEW S, NEW s \in Seq(S), s # <<>>
    PROVE  /\ Head(s) \in S /\ Tail(s) \in Seq(S) /\ Len(Tail(s)) = Len(s) - 1
           /\ s = <<Head(s)>> \o Tail(s)
<1>1. Len(s) \in Nat \ {0} /\ Head(s) = s[1]
  BY EmptySeq
<1>2. /\ Head(s) \in S /\ Tail(s) \in Seq(S) /\ Len(Tail(s)) = Len(s) - 1
      /\ \A i \in 1..(Len(s) - 1) : Tail(s)[i] = s[i + 1]
  BY HeadTailProperties
<1> DEFINE t == <<Head(s)>> \o Tail(s)
<1>3. <<Head(s)>> \in Seq(S) /\ Len(<<Head(s)>>) = 1 /\ <<Head(s)>>[1] = Head(s)
  BY <1>2
<1>4. t \in Seq(S) /\ Len(t) = Len(s)
      /\ \A i \in 1..Len(s) : t[i] = IF i <= 1 THEN <<Head(s)>>[i] ELSE Tail(s)[i - 1]
  BY <1>1, <1>2, <1>3, ConcatProperties
<1>5. \A i \in 1..Len(s) : t[i] = s[i]
  <2> HIDE DEF t
  <2> QED BY <1>1, <1>2, <1>3, <1>4
<1>6. s = t
  <2> HIDE DEF t
  <2> QED BY <1>4, <1>5, SeqEqual
<1> QED BY <1>2, <1>6

-----------------------------------------------------------------------------
(* What a queue costs.                                                     *)

\* The running sums of the costs.
Ledger(s, f) ==
    /\ f \in [0..Len(s) -> Int] /\ f[0] = 0
    /\ \A i \in 1..Len(s) : f[i] = f[i - 1] + Cost(s[i])

LEMMA LedgerExists ==
    ASSUME NEW s \in Seq(Outbound)
    PROVE  \E f : Ledger(s, f)
<1>1. Len(s) \in Nat /\ \A i \in 1..Len(s) : Cost(s[i]) \in Int
  BY ElementOfSeq, LenProperties, OutboundType
<1> DEFINE v == [i \in 1..Len(s) |-> Cost(s[i])]
<1>2. v \in [1..Len(s) -> Int]
  BY <1>1
<1>3. PICK f \in [0..Len(s) -> Int] :
          f = [i \in 0..Len(s) |-> IF i = 0 THEN 0 ELSE f[i - 1] + v[i]]
  <2> HIDE DEF v
  <2> QED BY <1>1, <1>2, RunningSum
<1>4. f[0] = 0 /\ \A i \in 1..Len(s) : f[i] = f[i - 1] + v[i]
  <2> HIDE DEF v
  <2> QED BY <1>1, <1>3
<1>5. Ledger(s, f)
  BY <1>1, <1>3, <1>4 DEF Ledger
<1> QED BY <1>5

\* Sums over the same entries are the same.
LEMMA LedgerUnique ==
    ASSUME NEW s \in Seq(Outbound), NEW f, NEW t \in Seq(Outbound), NEW g,
           Ledger(s, f), Ledger(t, g), NEW k \in Nat, k <= Len(s), k <= Len(t),
           \A i \in 1..k : s[i] = t[i]
    PROVE  f[k] = g[k]
<1> DEFINE S == {n \in Nat : n <= k => f[n] = g[n]}
<1>0. Len(s) \in Nat /\ Len(t) \in Nat
  BY LenProperties
<1>1. 0 \in S
  BY DEF Ledger
<1>2. ASSUME NEW n \in S PROVE n + 1 \in S
  <2>1. ASSUME n + 1 <= k PROVE f[n + 1] = g[n + 1]
    <3>1. /\ n \in Nat /\ f[n] = g[n] /\ s[n + 1] = t[n + 1] /\ (n + 1) - 1 = n
          /\ n + 1 \in 1..Len(s) /\ n + 1 \in 1..Len(t)
      BY <1>0, <2>1
    <3>2. f[n + 1] = f[n] + Cost(s[n + 1]) /\ g[n + 1] = g[n] + Cost(t[n + 1])
      BY <3>1 DEF Ledger
    <3> QED BY <3>1, <3>2
  <2> QED BY <2>1
<1>3. S = Nat
  <2>1. S \in SUBSET Nat
    OBVIOUS
  <2> HIDE DEF S
  <2> QED BY <1>1, <1>2, <2>1, SetInduction
<1> QED BY <1>3

LEMMA CostIsLedger ==
    ASSUME NEW s \in Seq(Outbound), NEW f, Ledger(s, f)
    PROVE  CostOf(s) = f[Len(s)]
<1> DEFINE n == Len(s)
           Sums(g) == g = [i \in 0..n |-> IF i = 0 THEN 0 ELSE g[i - 1] + Cost(s[i])]
<1>1. n \in Nat /\ \A i \in 1..n : Cost(s[i]) \in Int
  BY ElementOfSeq, LenProperties, OutboundType
<1>2. Sums(f)
  BY <1>1 DEF Ledger
<1>3. ASSUME NEW g, Sums(g) PROVE g[n] = f[n]
  <2> DEFINE S == {k \in Nat : k <= n => g[k] = f[k]}
  <2>1. 0 \in S
    BY <1>1, <1>2, <1>3
  <2>2. ASSUME NEW k \in S PROVE k + 1 \in S
    <3>1. ASSUME k + 1 <= n PROVE g[k + 1] = f[k + 1]
      <4>1. k \in Nat /\ k + 1 \in 0..n /\ k + 1 # 0 /\ (k + 1) - 1 = k /\ g[k] = f[k]
        BY <1>1, <3>1
      <4>2. g[k + 1] = g[k] + Cost(s[k + 1])
        BY <1>3, <4>1
      <4>3. f[k + 1] = f[k] + Cost(s[k + 1])
        BY <1>2, <4>1
      <4> QED BY <4>1, <4>2, <4>3
    <3> QED BY <3>1
  <2>3. S = Nat
    <3>1. S \in SUBSET Nat
      OBVIOUS
    <3> HIDE DEF S
    <3> QED BY <2>1, <2>2, <3>1, SetInduction
  <2> QED BY <1>1, <2>3
<1>4. CostOf(s) = (CHOOSE g : Sums(g))[n]
  BY DEF CostOf
<1>5. Sums(CHOOSE g : Sums(g))
  <2> HIDE DEF Sums
  <2> QED BY <1>2
<1> QED
  <2> HIDE DEF Sums, n
  <2>1. CostOf(s) = f[n]
    BY <1>3, <1>4, <1>5
  <2> QED BY <2>1 DEF n

LEMMA CostNone == CostOf(<<>>) = 0
<1>1. <<>> \in Seq(Outbound) /\ Len(<<>>) = 0
  BY EmptySeq
<1>2. PICK f : Ledger(<<>>, f)
  BY <1>1, LedgerExists
<1> QED BY <1>1, <1>2, CostIsLedger DEF Ledger

LEMMA CostOne ==
    ASSUME NEW e \in Outbound
    PROVE  CostOf(<<e>>) = Cost(e)
<1> DEFINE s == <<e>>
<1>1. s \in Seq(Outbound) /\ Len(s) = 1 /\ s[1] = e /\ Cost(e) \in Nat
  BY OutboundType
<1> HIDE DEF s
<1>2. PICK f : Ledger(s, f)
  BY <1>1, LedgerExists
<1>3. f[1] = f[0] + Cost(s[1]) /\ f[0] = 0
  BY <1>1, <1>2 DEF Ledger
<1>4. CostOf(s) = f[Len(s)]
  BY <1>1, <1>2, CostIsLedger
<1>5. CostOf(s) = Cost(e)
  BY <1>1, <1>3, <1>4
<1> QED BY <1>5 DEF s

LEMMA CostConcat ==
    ASSUME NEW s \in Seq(Outbound), NEW t \in Seq(Outbound)
    PROVE  CostOf(s \o t) = CostOf(s) + CostOf(t)
<1> DEFINE st == s \o t
           m == Len(s)
           n == Len(t)
<1>1. /\ m \in Nat /\ n \in Nat /\ st \in Seq(Outbound) /\ Len(st) = m + n
      /\ \A i \in 1..(m + n) : st[i] = IF i <= m THEN s[i] ELSE t[i - m]
      /\ \A i \in 1..m : Cost(s[i]) \in Int
      /\ \A i \in 1..n : Cost(t[i]) \in Int
  BY ConcatProperties, LenProperties, ElementOfSeq, OutboundType
<1>2. PICK f : Ledger(s, f)
  BY LedgerExists
<1>3. PICK g : Ledger(t, g)
  BY LedgerExists
<1> DEFINE h == [i \in 0..(m + n) |-> IF i <= m THEN f[i] ELSE f[m] + g[i - m]]
<1> HIDE DEF st, m, n
<1>4. /\ f \in [0..m -> Int] /\ f[0] = 0 /\ \A i \in 1..m : f[i] = f[i - 1] + Cost(s[i])
      /\ g \in [0..n -> Int] /\ g[0] = 0 /\ \A i \in 1..n : g[i] = g[i - 1] + Cost(t[i])
  BY <1>2, <1>3 DEF Ledger, m, n
<1>5. h \in [0..(m + n) -> Int] /\ h[0] = 0
  <2>1. ASSUME NEW i \in 0..(m + n)
        PROVE  (IF i <= m THEN f[i] ELSE f[m] + g[i - m]) \in Int
    <3>1. CASE i <= m
      BY <1>1, <1>4, <3>1
    <3>2. CASE i > m
      <4>1. i - m \in 0..n /\ m \in 0..m
        BY <1>1, <3>2
      <4>2. f[m] \in Int /\ g[i - m] \in Int
        BY <1>4, <4>1
      <4> QED BY <1>1, <3>2, <4>2
    <3> QED BY <1>1, <3>1, <3>2
  <2>2. 0 \in 0..(m + n) /\ 0 <= m
    BY <1>1
  <2> QED BY <1>4, <2>1, <2>2
<1>6. ASSUME NEW i \in 1..(m + n) PROVE h[i] = h[i - 1] + Cost(st[i])
  <2>1. CASE i <= m
    <3>1. i \in 1..m /\ i - 1 <= m /\ i \in 0..(m + n) /\ i - 1 \in 0..(m + n)
      BY <1>1, <2>1
    <3>2. h[i] = f[i] /\ h[i - 1] = f[i - 1] /\ st[i] = s[i]
      BY <1>1, <2>1, <3>1
    <3> HIDE DEF h
    <3> QED BY <1>4, <3>1, <3>2
  <2>2. CASE i > m
    <3>1. /\ i - m \in 1..n /\ (i - m) - 1 = (i - 1) - m /\ i - m \in 0..n
          /\ i - 1 \in 0..(m + n) /\ i \in 0..(m + n) /\ (i - 1) - m \in 0..n
      BY <1>1, <2>2
    <3>2. g[i - m] = g[(i - 1) - m] + Cost(t[i - m])
      BY <1>4, <3>1
    <3>3. h[i] = f[m] + g[i - m] /\ st[i] = t[i - m]
      BY <1>1, <2>2, <3>1
    <3>4. h[i - 1] = f[m] + g[(i - 1) - m]
      <4>1. CASE i - 1 <= m
        <5>1. i - 1 = m /\ (i - 1) - m = 0
          BY <1>1, <2>2, <4>1
        <5> QED BY <1>1, <1>4, <3>1, <5>1
      <4>2. CASE i - 1 > m
        BY <1>1, <3>1, <4>2
      <4> QED BY <1>1, <4>1, <4>2
    <3>5. f[m] \in Int /\ g[(i - 1) - m] \in Int /\ Cost(t[i - m]) \in Int
      BY <1>1, <1>4, <3>1
    <3> HIDE DEF h
    <3> QED BY <3>2, <3>3, <3>4, <3>5
  <2> QED BY <1>1, <2>1, <2>2
<1>7. h[m + n] = f[m] + g[n]
  <2>1. CASE n = 0
    BY <1>1, <1>4, <2>1
  <2>2. CASE n # 0
    BY <1>1, <1>4, <2>2
  <2> QED BY <2>1, <2>2
<1> HIDE DEF h
<1>8. Ledger(st, h)
  BY <1>1, <1>5, <1>6 DEF Ledger
<1>9. CostOf(st) = h[m + n] /\ CostOf(s) = f[m] /\ CostOf(t) = g[n]
  BY <1>1, <1>2, <1>3, <1>8, CostIsLedger DEF m, n
<1> QED BY <1>7, <1>9 DEF st

LEMMA CostNat ==
    ASSUME NEW s \in Seq(Outbound)
    PROVE  CostOf(s) \in Nat
<1>1. PICK f : Ledger(s, f)
  BY LedgerExists
<1>2. Len(s) \in Nat /\ \A i \in 1..Len(s) : Cost(s[i]) \in Nat
  BY ElementOfSeq, LenProperties, OutboundType
<1> DEFINE S == {n \in Nat : n <= Len(s) => f[n] \in Nat}
<1>3. 0 \in S
  BY <1>1 DEF Ledger
<1>4. ASSUME NEW n \in S PROVE n + 1 \in S
  <2>1. ASSUME n + 1 <= Len(s) PROVE f[n + 1] \in Nat
    <3>1. n \in Nat /\ f[n] \in Nat /\ n + 1 \in 1..Len(s) /\ (n + 1) - 1 = n
      BY <1>2, <2>1
    <3>2. f[n + 1] = f[n] + Cost(s[n + 1]) /\ Cost(s[n + 1]) \in Nat
      BY <1>1, <1>2, <3>1 DEF Ledger
    <3> QED BY <3>1, <3>2
  <2> QED BY <2>1
<1>5. S = Nat
  <2>1. S \in SUBSET Nat
    OBVIOUS
  <2> HIDE DEF S
  <2> QED BY <1>3, <1>4, <2>1, SetInduction
<1> QED BY <1>1, <1>2, <1>5, CostIsLedger

-----------------------------------------------------------------------------
(* What a queue brings a browser to: the offset of the output and the      *)
(* resize epoch it knows.                                                  *)

Known == [cursor : 0..MaxOutput, epoch : 0..MaxEpoch]

\* An entry in its place takes a browser from a to b.
Brings(e, a, b) ==
    /\ e.kind = "output" => /\ e.from = a.cursor
                            /\ b.cursor = e.to /\ b.epoch = a.epoch
    /\ e.kind = "resize" => e.to = a.cursor /\ b.cursor = a.cursor /\ b.epoch = e.epoch
    /\ e.kind = "exit"   => e.to = a.cursor /\ b = a
    /\ e.kind = "notice" => b = a

\* So do entries one after the other, by way of the states f.
BringsBy(s, a, b, f) ==
    /\ f \in [0..Len(s) -> Known] /\ f[0] = a /\ f[Len(s)] = b
    /\ \A i \in 1..Len(s) : Brings(s[i], f[i - 1], f[i])

InPlace(s, a, b) == \E f : BringsBy(s, a, b, f)

LEMMA InPlaceNone ==
    ASSUME NEW a \in Known
    PROVE  InPlace(<<>>, a, a)
<1> DEFINE f == [i \in 0..0 |-> a]
<1>1. Len(<<>>) = 0
  BY EmptySeq
<1>2. BringsBy(<<>>, a, a, f)
  BY <1>1 DEF BringsBy
<1> QED BY <1>2 DEF InPlace

LEMMA InPlaceNoneOnly ==
    ASSUME NEW a, NEW b, InPlace(<<>>, a, b)
    PROVE  a = b /\ a \in Known
<1>1. Len(<<>>) = 0
  BY EmptySeq
<1> QED BY <1>1 DEF InPlace, BringsBy

LEMMA InPlaceOne ==
    ASSUME NEW e \in Outbound, NEW a, NEW b
    PROVE  InPlace(<<e>>, a, b) <=> a \in Known /\ b \in Known /\ Brings(e, a, b)
<1> DEFINE s == <<e>>
<1>1. s \in Seq(Outbound) /\ Len(s) = 1 /\ s[1] = e
  OBVIOUS
<1> HIDE DEF s
<1>2. ASSUME InPlace(s, a, b) PROVE a \in Known /\ b \in Known /\ Brings(e, a, b)
  <2>1. PICK f : BringsBy(s, a, b, f)
    BY <1>2 DEF InPlace
  <2> QED BY <1>1, <2>1 DEF BringsBy
<1>3. ASSUME a \in Known, b \in Known, Brings(e, a, b) PROVE InPlace(s, a, b)
  <2> DEFINE f == [i \in 0..1 |-> IF i = 0 THEN a ELSE b]
  <2>1. f \in [0..1 -> Known] /\ f[0] = a /\ f[1] = b
    BY <1>3
  <2> HIDE DEF f
  <2>2. BringsBy(s, a, b, f)
    BY <1>1, <1>3, <2>1 DEF BringsBy
  <2> QED BY <2>2 DEF InPlace
<1> QED BY <1>2, <1>3 DEF s

LEMMA InPlaceJoin ==
    ASSUME NEW s \in Seq(Outbound), NEW t \in Seq(Outbound),
           NEW a, NEW b, NEW c, InPlace(s, a, b), InPlace(t, b, c)
    PROVE  InPlace(s \o t, a, c)
<1>1. PICK f : BringsBy(s, a, b, f)
  BY DEF InPlace
<1>2. PICK g : BringsBy(t, b, c, g)
  BY DEF InPlace
<1> DEFINE st == s \o t
           m == Len(s)
           n == Len(t)
           h == [i \in 0..(m + n) |-> IF i <= m THEN f[i] ELSE g[i - m]]
<1>3. /\ m \in Nat /\ n \in Nat /\ st \in Seq(Outbound) /\ Len(st) = m + n
      /\ \A i \in 1..(m + n) : st[i] = IF i <= m THEN s[i] ELSE t[i - m]
  BY ConcatProperties, LenProperties
<1> HIDE DEF st, m, n, h
<1>4. /\ f \in [0..m -> Known] /\ f[0] = a /\ f[m] = b
      /\ \A i \in 1..m : Brings(s[i], f[i - 1], f[i])
      /\ g \in [0..n -> Known] /\ g[0] = b /\ g[n] = c
      /\ \A i \in 1..n : Brings(t[i], g[i - 1], g[i])
  BY <1>1, <1>2 DEF BringsBy, m, n
<1>5. h \in [0..(m + n) -> Known]
  <2>1. ASSUME NEW i \in 0..(m + n) PROVE (IF i <= m THEN f[i] ELSE g[i - m]) \in Known
    <3>1. i <= m => i \in 0..m
      BY <1>3
    <3>2. ~(i <= m) => i - m \in 0..n
      BY <1>3
    <3> QED BY <1>4, <3>1, <3>2
  <2> QED BY <2>1 DEF h
<1>6. /\ \A i \in 0..m : h[i] = f[i]
      /\ \A i \in 0..n : h[m + i] = g[i]
  <2>1. ASSUME NEW i \in 0..m PROVE h[i] = f[i]
    BY <1>3 DEF h
  <2>2. ASSUME NEW i \in 0..n PROVE h[m + i] = g[i]
    <3>1. CASE i = 0
      BY <1>3, <1>4, <3>1 DEF h
    <3>2. CASE i # 0
      <4>1. m + i \in 0..(m + n) /\ ~(m + i <= m) /\ (m + i) - m = i
        BY <1>3, <3>2
      <4> QED BY <4>1 DEF h
    <3> QED BY <3>1, <3>2
  <2> QED BY <2>1, <2>2
<1>7. ASSUME NEW i \in 1..(m + n) PROVE Brings(st[i], h[i - 1], h[i])
  <2>1. CASE i <= m
    <3>1. i \in 1..m /\ i \in 0..m /\ i - 1 \in 0..m
      BY <1>3, <2>1
    <3> QED BY <1>3, <1>4, <1>6, <2>1, <3>1
  <2>2. CASE ~(i <= m)
    <3>1. PICK j \in 1..n : i = m + j
      BY <1>3, <2>2
    <3>2. j \in 0..n /\ j - 1 \in 0..n /\ m + (j - 1) = i - 1 /\ i - m = j
      BY <1>3, <3>1
    <3>3. st[i] = t[j] /\ h[i] = g[j] /\ h[i - 1] = g[j - 1]
      BY <1>3, <1>6, <2>2, <3>1, <3>2
    <3> QED BY <1>4, <3>1, <3>3
  <2> QED BY <2>1, <2>2
<1>8. h[0] = a /\ h[m + n] = c
  <2>1. 0 \in 0..m /\ n \in 0..n
    BY <1>3
  <2> QED BY <1>4, <1>6, <2>1
<1>9. BringsBy(st, a, c, h)
  BY <1>3, <1>5, <1>7, <1>8 DEF BringsBy
<1> QED BY <1>9 DEF InPlace, st

LEMMA InPlaceSplit ==
    ASSUME NEW s \in Seq(Outbound), NEW t \in Seq(Outbound),
           NEW a, NEW c, InPlace(s \o t, a, c)
    PROVE  \E b \in Known : InPlace(s, a, b) /\ InPlace(t, b, c)
<1>1. PICK h : BringsBy(s \o t, a, c, h)
  BY DEF InPlace
<1> DEFINE st == s \o t
           m == Len(s)
           n == Len(t)
           f == [i \in 0..m |-> h[i]]
           g == [i \in 0..n |-> h[m + i]]
<1>2. /\ m \in Nat /\ n \in Nat /\ st \in Seq(Outbound) /\ Len(st) = m + n
      /\ \A i \in 1..(m + n) : st[i] = IF i <= m THEN s[i] ELSE t[i - m]
  BY ConcatProperties, LenProperties
<1>3. /\ h \in [0..(m + n) -> Known] /\ h[0] = a /\ h[m + n] = c
      /\ \A i \in 1..(m + n) : Brings(st[i], h[i - 1], h[i])
  <2> HIDE DEF m, n
  <2> QED BY <1>1, <1>2 DEF BringsBy
<1> HIDE DEF st, m, n
<1>4. BringsBy(s, a, h[m], f)
  <2>1. f \in [0..m -> Known] /\ f[0] = a /\ f[m] = h[m]
    BY <1>2, <1>3
  <2>2. ASSUME NEW i \in 1..m PROVE Brings(s[i], f[i - 1], f[i])
    <3>1. /\ i \in 1..(m + n) /\ i <= m /\ st[i] = s[i]
          /\ f[i] = h[i] /\ f[i - 1] = h[i - 1]
      BY <1>2
    <3> HIDE DEF f
    <3> QED BY <1>3, <3>1
  <2> HIDE DEF f
  <2> QED BY <2>1, <2>2 DEF BringsBy, m
<1>5. BringsBy(t, h[m], c, g)
  <2>1. g \in [0..n -> Known] /\ g[0] = h[m] /\ g[n] = c
    BY <1>2, <1>3
  <2>2. ASSUME NEW i \in 1..n PROVE Brings(t[i], g[i - 1], g[i])
    <3>1. /\ m + i \in 1..(m + n) /\ ~(m + i <= m) /\ (m + i) - m = i
          /\ g[i] = h[m + i] /\ g[i - 1] = h[(m + i) - 1]
      BY <1>2
    <3> HIDE DEF g
    <3> QED BY <1>2, <1>3, <3>1
  <2> HIDE DEF g
  <2> QED BY <2>1, <2>2 DEF BringsBy, n
<1>6. h[m] \in Known
  BY <1>2, <1>3
<1> QED BY <1>4, <1>5, <1>6 DEF InPlace

\* The last of the first i entries of a kind, and what is before it does not count.
OfKind(s, i, kind) == {j \in 1..i : s[j].kind = kind}
Last(T) == CHOOSE j \in T : \A k \in T : k <= j

LEMMA OfKindNext ==
    ASSUME NEW s, NEW i \in Nat, NEW kind
    PROVE  /\ s[i + 1].kind = kind =>
                 /\ OfKind(s, i + 1, kind) # {}
                 /\ Last(OfKind(s, i + 1, kind)) = i + 1
           /\ s[i + 1].kind # kind => OfKind(s, i + 1, kind) = OfKind(s, i, kind)
           /\ OfKind(s, 0, kind) = {}
<1>1. ASSUME s[i + 1].kind = kind
      PROVE  OfKind(s, i + 1, kind) # {} /\ Last(OfKind(s, i + 1, kind)) = i + 1
  <2>1. i + 1 \in OfKind(s, i + 1, kind) /\ \A k \in OfKind(s, i + 1, kind) : k \in Nat /\ k <= i + 1
    BY <1>1 DEF OfKind
  <2>2. /\ Last(OfKind(s, i + 1, kind)) \in OfKind(s, i + 1, kind)
        /\ i + 1 <= Last(OfKind(s, i + 1, kind))
    BY <2>1 DEF Last
  <2> QED BY <2>1, <2>2
<1>2. ASSUME s[i + 1].kind # kind PROVE OfKind(s, i + 1, kind) = OfKind(s, i, kind)
  BY <1>2 DEF OfKind
<1> QED BY <1>1, <1>2 DEF OfKind

\* Where a browser is after the first i entries.
CursorAfter(s, i, a) ==
    IF OfKind(s, i, "output") = {} THEN a.cursor ELSE s[Last(OfKind(s, i, "output"))].to
EpochAfter(s, i, a) ==
    IF OfKind(s, i, "resize") = {} THEN a.epoch ELSE s[Last(OfKind(s, i, "resize"))].epoch

LEMMA InPlaceStates ==
    ASSUME NEW s \in Seq(Outbound), NEW a, NEW b, NEW f, BringsBy(s, a, b, f),
           NEW k \in 0..Len(s)
    PROVE  f[k].cursor = CursorAfter(s, k, a) /\ f[k].epoch = EpochAfter(s, k, a)
<1>1. /\ Len(s) \in Nat /\ \A i \in 1..Len(s) : s[i] \in Outbound
      /\ f[0] = a /\ \A i \in 1..Len(s) : Brings(s[i], f[i - 1], f[i])
  BY LenProperties, ElementOfSeq DEF BringsBy
<1> DEFINE S == {i \in Nat : i <= Len(s) => /\ f[i].cursor = CursorAfter(s, i, a)
                                            /\ f[i].epoch = EpochAfter(s, i, a)}
<1>2. 0 \in S
  BY <1>1, OfKindNext DEF CursorAfter, EpochAfter
<1>3. ASSUME NEW i \in S PROVE i + 1 \in S
  <2>1. ASSUME i + 1 <= Len(s)
        PROVE  /\ f[i + 1].cursor = CursorAfter(s, i + 1, a)
               /\ f[i + 1].epoch = EpochAfter(s, i + 1, a)
    <3>1. /\ i \in Nat /\ i + 1 \in 1..Len(s) /\ (i + 1) - 1 = i
          /\ f[i].cursor = CursorAfter(s, i, a) /\ f[i].epoch = EpochAfter(s, i, a)
      BY <1>1, <2>1
    <3>2. Brings(s[i + 1], f[i], f[i + 1]) /\ s[i + 1] \in Outbound
      BY <1>1, <3>1
    <3>3. s[i + 1].kind \in {"output", "resize", "notice", "exit"}
      BY <3>2, OutboundType
    <3>a. /\ s[i + 1].kind = "output" => CursorAfter(s, i + 1, a) = s[i + 1].to
          /\ s[i + 1].kind # "output" => CursorAfter(s, i + 1, a) = CursorAfter(s, i, a)
      BY <3>1, OfKindNext DEF CursorAfter
    <3>b. /\ s[i + 1].kind = "resize" => EpochAfter(s, i + 1, a) = s[i + 1].epoch
          /\ s[i + 1].kind # "resize" => EpochAfter(s, i + 1, a) = EpochAfter(s, i, a)
      <4>1. /\ s[i + 1].kind = "resize" =>
                  /\ OfKind(s, i + 1, "resize") # {}
                  /\ Last(OfKind(s, i + 1, "resize")) = i + 1
            /\ s[i + 1].kind # "resize" => OfKind(s, i + 1, "resize") = OfKind(s, i, "resize")
        BY <3>1, OfKindNext
      <4> QED BY <4>1 DEF EpochAfter
    <3> HIDE DEF S
    <3>4. CASE s[i + 1].kind = "output"
      BY <3>1, <3>2, <3>a, <3>b, <3>4 DEF Brings
    <3>5. CASE s[i + 1].kind = "resize"
      BY <3>1, <3>2, <3>a, <3>b, <3>5 DEF Brings
    <3>6. CASE s[i + 1].kind \in {"notice", "exit"}
      BY <3>1, <3>2, <3>a, <3>b, <3>6 DEF Brings
    <3> QED BY <3>3, <3>4, <3>5, <3>6
  <2> QED BY <2>1
<1>4. S = Nat
  <2>1. S \in SUBSET Nat
    OBVIOUS
  <2> HIDE DEF S
  <2> QED BY <1>2, <1>3, <2>1, SetInduction
<1> QED BY <1>1, <1>4

-----------------------------------------------------------------------------
(* One subscriber's queue.                                                 *)

Subscriber == [done : BOOLEAN, queued : 0..QueueLimit, send : Seq(Outbound),
               pending : Seq(Outbound)]

\* An open subscriber whose writer has taken entries of the given cost from it.
Counted(c, taken) ==
    /\ c \in Subscriber /\ ~c.done /\ Len(c.send) <= SendCap
    /\ c.queued = CostOf(c.send) + CostOf(c.pending) + taken

LEMMA SubscriberType ==
    /\ NewClient \in Subscriber /\ Dropped \in Subscriber
    /\ Counted(NewClient, 0)
    /\ Dropped = [done |-> TRUE, queued |-> 0, send |-> <<>>, pending |-> <<>>]
<1>1. NewClient \in Subscriber /\ Len(NewClient.send) = 0
  BY PaneConstants, EmptySeq DEF NewClient, Subscriber
<1>2. Dropped = [done |-> TRUE, queued |-> 0, send |-> <<>>, pending |-> <<>>]
  <2>1. Dropped = [NewClient EXCEPT !.done = TRUE]
    BY DEF Dropped
  <2>2. NewClient.queued = 0 /\ NewClient.send = <<>> /\ NewClient.pending = <<>>
    BY DEF NewClient
  <2> QED BY <1>1, <2>1, <2>2 DEF Subscriber
<1>3. Dropped \in Subscriber
  BY <1>2, PaneConstants, EmptySeq DEF Subscriber
<1>4. Counted(NewClient, 0)
  BY <1>1, PaneConstants, CostNone DEF Counted, NewClient
<1> QED BY <1>1, <1>2, <1>3, <1>4

\* enqueue drops the subscriber, or adds the entry to the channel, to the last
\* entry of the backlog or to the backlog.
Added(c, e, send, pending) ==
    [done |-> FALSE, queued |-> c.queued + Cost(e), send |-> send, pending |-> pending]

LEMMA EnqueuedForm ==
    ASSUME NEW c \in Subscriber, ~c.done, NEW e \in Outbound
    PROVE  \/ Enqueued(c, e) = Dropped
           \/ /\ c.queued + Cost(e) <= QueueLimit
              /\ \/ /\ c.pending = <<>> /\ Len(c.send) < SendCap
                    /\ Enqueued(c, e) = Added(c, e, Append(c.send, e), c.pending)
                 \/ /\ c.pending # <<>> /\ e.kind = "output"
                    /\ c.pending[Len(c.pending)].kind = "output"
                    /\ Enqueued(c, e) = Added(c, e, c.send,
                          [c.pending EXCEPT ![Len(c.pending)] =
                              Extended(c.pending[Len(c.pending)], e)])
                 \/ /\ c.pending # <<>> \/ ~(Len(c.send) < SendCap)
                    /\ Enqueued(c, e) = Added(c, e, c.send, Append(c.pending, e))
<1>1. /\ c.queued \in Nat /\ Cost(e) \in Nat /\ c.done = FALSE
      /\ c.send \in Seq(Outbound) /\ c.pending \in Seq(Outbound)
  BY OutboundType DEF Subscriber
<1>2. CASE TooMuch(c, e)
  <2>1. Enqueued(c, e) = Dropped
    BY <1>2 DEF Enqueued
  <2> QED BY <2>1
<1>3. CASE ~TooMuch(c, e) /\ SendsAtOnce(c)
  <2>1. Enqueued(c, e) = [c EXCEPT !.send = Append(c.send, e), !.queued = c.queued + Cost(e)]
    BY <1>3 DEF Enqueued
  <2>2. Enqueued(c, e) = Added(c, e, Append(c.send, e), c.pending)
    BY <1>1, <2>1 DEF Added, Subscriber
  <2>3. c.pending = <<>> /\ Len(c.send) < SendCap /\ c.queued + Cost(e) <= QueueLimit
    BY <1>1, <1>3, PaneConstants DEF SendsAtOnce, TooMuch
  <2> QED BY <2>2, <2>3
<1>4. CASE ~TooMuch(c, e) /\ ~SendsAtOnce(c)
  <2>1. /\ c.pending # <<>> \/ ~(Len(c.send) < SendCap)
        /\ c.queued + Cost(e) <= QueueLimit
    BY <1>1, <1>4, PaneConstants DEF SendsAtOnce, TooMuch
  <2>2. Enqueued(c, e) =
            IF Coalesces(c, e)
            THEN [c EXCEPT !.pending[Len(c.pending)].to = e.to, !.queued = @ + Cost(e)]
            ELSE IF Len(c.pending) >= QueueLimit \div ChunkMax
            THEN Dropped
            ELSE [c EXCEPT !.pending = Append(@, e), !.queued = @ + Cost(e)]
    BY <1>4 DEF Enqueued
  <2>3. CASE Coalesces(c, e)
    <3> DEFINE pending == [c.pending EXCEPT ![Len(c.pending)] =
                              Extended(c.pending[Len(c.pending)], e)]
    <3>1. Enqueued(c, e) = [c EXCEPT !.pending = pending, !.queued = c.queued + Cost(e)]
      BY <2>2, <2>3 DEF Extended
    <3> HIDE DEF pending
    <3>2. Enqueued(c, e) = Added(c, e, c.send, pending)
      BY <1>1, <3>1 DEF Added, Subscriber
    <3>3. /\ c.pending # <<>> /\ e.kind = "output"
          /\ c.pending[Len(c.pending)].kind = "output"
      BY <2>3 DEF Coalesces
    <3> QED BY <2>1, <3>2, <3>3 DEF pending
  <2>4. CASE ~Coalesces(c, e) /\ Enqueued(c, e) # Dropped
    <3>1. Enqueued(c, e) = [c EXCEPT !.pending = Append(c.pending, e),
                                     !.queued = c.queued + Cost(e)]
      BY <2>2, <2>4
    <3>2. Enqueued(c, e) = Added(c, e, c.send, Append(c.pending, e))
      BY <1>1, <3>1 DEF Added, Subscriber
    <3> QED BY <2>1, <3>2
  <2> QED BY <2>3, <2>4
<1> QED BY <1>2, <1>3, <1>4

LEMMA Single ==
    ASSUME NEW e \in Outbound
    PROVE  \E one \in Seq(Outbound) :
              /\ one = <<e>> /\ CostOf(one) = Cost(e)
              /\ \A a, b : InPlace(one, a, b) <=> a \in Known /\ b \in Known /\ Brings(e, a, b)
              /\ \A s \in Seq(Outbound) :
                    Append(s, e) = s \o one /\ Len(s \o one) = Len(s) + 1
<1>1. <<e>> \in Seq(Outbound)
  OBVIOUS
<1>2. \A s \in Seq(Outbound) : Append(s, e) = s \o <<e>> /\ Len(Append(s, e)) = Len(s) + 1
  BY AppendProperties, AppendIsConcat
<1> QED BY <1>1, <1>2, CostOne, InPlaceOne

LEMMA Joined ==
    ASSUME NEW s \in Seq(Outbound), NEW t \in Seq(Outbound)
    PROVE  /\ s \o t \in Seq(Outbound)
           /\ s \o <<>> = s /\ <<>> \o s = s /\ <<>> \in Seq(Outbound)
BY ConcatProperties, ConcatEmptySeq, EmptySeq

LEMMA Regrouped ==
    \A s, t, u \in Seq(Outbound) : s \o (t \o u) = (s \o t) \o u
BY ConcatAssociative

\* Queueing an entry keeps the count, and what the queue, behind what the writer
\* has taken, brings the browser to is where the entry brings it.
LEMMA EnqueuedKeeps ==
    ASSUME NEW taken \in Nat, NEW c, Counted(c, taken), NEW e \in Outbound,
           NEW front \in Seq(Outbound), NEW a \in Known, NEW b \in Known, NEW d \in Known,
           InPlace(front \o c.send \o c.pending, a, b), Brings(e, b, d),
           ~Enqueued(c, e).done
    PROVE  LET n == Enqueued(c, e)
           IN  /\ Counted(n, taken)
               /\ InPlace(front \o n.send \o n.pending, a, d)
               /\ n.pending # <<>> /\ n.send = <<>> => c.pending # <<>> /\ c.send = <<>>
<1> DEFINE n == Enqueued(c, e)
<1>1. /\ c \in Subscriber /\ ~c.done /\ c.send \in Seq(Outbound)
      /\ c.pending \in Seq(Outbound) /\ c.queued \in Nat /\ Len(c.send) <= SendCap
      /\ c.queued = CostOf(c.send) + CostOf(c.pending) + taken
      /\ Cost(e) \in Nat /\ CostOf(c.send) \in Nat /\ CostOf(c.pending) \in Nat
      /\ Len(c.send) \in Nat /\ SendCap \in Nat \ {0} /\ QueueLimit \in Nat
  BY OutboundType, CostNat, PaneConstants DEF Counted, Subscriber
<1>s. c.send \in Seq(Outbound) /\ c.pending \in Seq(Outbound)
  BY <1>1
<1>2. front \o c.send \in Seq(Outbound) /\ front \o c.send \o c.pending \in Seq(Outbound)
  BY <1>s, Joined
<1>3. n # Dropped
  BY SubscriberType
<1>4. PICK one \in Seq(Outbound) :
          /\ InPlace(one, b, d) /\ CostOf(one) = Cost(e)
          /\ \A s \in Seq(Outbound) : Append(s, e) = s \o one /\ Len(s \o one) = Len(s) + 1
  BY Single
<1>o. one \in Seq(Outbound)
  BY <1>4
<1>5. c.queued + Cost(e) <= QueueLimit
  BY <1>1, <1>3, EnqueuedForm
<1>6. CASE /\ c.pending = <<>> /\ Len(c.send) < SendCap
           /\ n = Added(c, e, Append(c.send, e), c.pending)
  <2>1. /\ Append(c.send, e) = c.send \o one /\ c.send \o one \in Seq(Outbound)
        /\ Len(c.send \o one) = Len(c.send) + 1
    BY <1>1, <1>4, Joined
  <2>2. n.send = c.send \o one /\ n.pending = <<>> /\ n.queued = c.queued + Cost(e)
        /\ ~n.done
    BY <1>6, <2>1 DEF Added
  <2>3. CostOf(n.send) = CostOf(c.send) + Cost(e)
    BY <1>1, <1>4, <2>2, CostConcat
  <2>4. Counted(n, taken)
    <3>1. n \in Subscriber
      BY <1>1, <1>5, <1>6, <2>1 DEF Added, Subscriber
    <3>2. Len(n.send) <= SendCap
      <4>1. Len(n.send) = Len(c.send) + 1
        BY <2>1, <2>2
      <4>2. Len(c.send) < SendCap
        BY <1>6
      <4> HIDE DEF n
      <4> QED BY <1>1, <4>1, <4>2
    <3>3. n.queued = CostOf(n.send) + CostOf(n.pending) + taken
      BY <1>1, <1>6, <2>2, <2>3, CostNone
    <3> QED BY <2>2, <3>1, <3>2, <3>3 DEF Counted
  <2>5. front \o n.send \o n.pending = (front \o c.send \o c.pending) \o one
    <3>1. front \o n.send = (front \o c.send) \o one
      <4>1. n.send = c.send \o one
        BY <2>2
      <4>2. front \o (c.send \o one) = (front \o c.send) \o one
        BY <1>s, <1>o, Regrouped, Zenon
      <4> QED BY <4>1, <4>2
    <3>2. (front \o c.send) \o one \in Seq(Outbound)
      BY <1>2, <1>4, Joined
    <3>3. front \o n.send \o n.pending = front \o n.send
      BY <2>2, <3>1, <3>2, Joined
    <3>4. front \o c.send \o c.pending = front \o c.send
      BY <1>2, <1>6, Joined
    <3> QED BY <3>1, <3>3, <3>4
  <2>6. InPlace(front \o n.send \o n.pending, a, d)
    BY <1>2, <1>4, <2>5, InPlaceJoin
  <2> QED BY <2>2, <2>4, <2>6
<1>7. CASE /\ c.pending # <<>> /\ e.kind = "output"
           /\ c.pending[Len(c.pending)].kind = "output"
           /\ n = Added(c, e, c.send, [c.pending EXCEPT ![Len(c.pending)] =
                           Extended(c.pending[Len(c.pending)], e)])
  <2> DEFINE last == c.pending[Len(c.pending)]
             init == SubSeq(c.pending, 1, Len(c.pending) - 1)
             more == Extended(last, e)
  <2>1. /\ last \in Outbound /\ init \in Seq(Outbound) /\ c.pending = init \o <<last>>
        /\ \A x \in Outbound : [c.pending EXCEPT ![Len(c.pending)] = x] = init \o <<x>>
    BY <1>1, <1>7, FrontLast
  <2>2. last.kind = "output"
    BY <1>7
  <2> HIDE DEF last, init
  <2>a. PICK old \in Seq(Outbound) :
            /\ old = <<last>> /\ CostOf(old) = Cost(last)
            /\ \A x, y : InPlace(old, x, y) <=> x \in Known /\ y \in Known /\ Brings(last, x, y)
    BY <2>1, Single
  <2>3. /\ front \o c.send \o init \in Seq(Outbound)
        /\ front \o c.send \o c.pending = (front \o c.send \o init) \o old
    <3>1. c.pending = init \o old
      BY <2>1, <2>a
    <3>2. /\ front \o c.send \o init \in Seq(Outbound)
          /\ (front \o c.send) \o (init \o old) = (front \o c.send \o init) \o old
      <4>1. init \in Seq(Outbound) /\ old \in Seq(Outbound)
            /\ front \o c.send \in Seq(Outbound)
        BY <1>2, <2>1, <2>a
      <4>2. (front \o c.send) \o (init \o old) = (front \o c.send \o init) \o old
        BY <4>1, Regrouped, ZenonT(60)
      <4>3. front \o c.send \o init \in Seq(Outbound)
        BY <4>1, Joined
      <4> QED BY <4>2, <4>3
    <3> QED BY <3>1, <3>2
  <2>4. PICK m \in Known : InPlace(front \o c.send \o init, a, m) /\ Brings(last, m, b)
    <3>1. PICK m \in Known : InPlace(front \o c.send \o init, a, m) /\ InPlace(old, m, b)
      BY <2>3, <2>a, InPlaceSplit
    <3> QED BY <2>a, <3>1
  <2>5. /\ last.from = m.cursor /\ b.cursor = last.to /\ b.epoch = m.epoch
        /\ e.from = b.cursor /\ d.cursor = e.to /\ d.epoch = b.epoch
    BY <1>7, <2>2, <2>4 DEF Brings
  <2>6. /\ more \in Outbound /\ more.kind = "output" /\ more.from = last.from
        /\ more.to = e.to
    BY <1>7, <2>1, <2>2, <2>5, ExtendedType
  <2> HIDE DEF more
  <2>b. PICK new \in Seq(Outbound) :
            /\ new = <<more>> /\ CostOf(new) = Cost(more)
            /\ \A x, y : InPlace(new, x, y) <=> x \in Known /\ y \in Known /\ Brings(more, x, y)
    BY <2>6, Single
  <2>7. InPlace(new, m, d)
    <3>1. Brings(more, m, d)
      BY <2>5, <2>6 DEF Brings
    <3> QED BY <2>4, <2>b, <3>1
  <2>8. n = Added(c, e, c.send, init \o new)
    BY <1>7, <2>1, <2>6, <2>b DEF last, more
  <2>9. init \o new \in Seq(Outbound)
    BY <2>1, <2>b, Joined
  <2>10. CostOf(init \o new) = CostOf(c.pending) + Cost(e)
    <3>1. Cost(more) = Cost(last) + Cost(e) /\ Cost(last) \in Nat
      <4>1. /\ Cost(more) = more.to - more.from /\ Cost(last) = last.to - last.from
            /\ Cost(e) = e.to - e.from
        BY <1>7, <2>2, <2>6 DEF Cost
      <4>2. /\ last.from \in Nat /\ last.to \in Nat /\ e.to \in Nat /\ Cost(last) \in Nat
        BY <2>1, OutboundType
      <4>3. more.from = last.from /\ more.to = e.to /\ e.from = last.to
        BY <2>5, <2>6
      <4> QED BY <4>1, <4>2, <4>3
    <3>2. CostOf(init) \in Nat /\ c.pending = init \o old
      BY <2>1, <2>a, CostNat
    <3>3. /\ CostOf(init \o new) = CostOf(init) + Cost(more)
          /\ CostOf(c.pending) = CostOf(init) + Cost(last)
      <4>1. init \in Seq(Outbound) /\ CostOf(old) = Cost(last) /\ CostOf(new) = Cost(more)
        BY <2>1, <2>a, <2>b
      <4>2. /\ CostOf(init \o new) = CostOf(init) + CostOf(new)
            /\ CostOf(init \o old) = CostOf(init) + CostOf(old)
        BY <4>1, CostConcat
      <4> QED BY <3>2, <4>1, <4>2
    <3> QED BY <1>1, <3>1, <3>2, <3>3
  <2>12. /\ n.send = c.send /\ n.pending = init \o new /\ n.queued = c.queued + Cost(e)
         /\ ~n.done
    BY <2>8 DEF Added
  <2>11. Counted(n, taken)
    <3>1. n \in Subscriber
      <4>1. c.queued + Cost(e) \in 0..QueueLimit
        BY <1>1, <1>5
      <4>2. n = [done |-> FALSE, queued |-> c.queued + Cost(e), send |-> c.send,
                 pending |-> init \o new]
        BY <2>8 DEF Added
      <4> HIDE DEF n
      <4> QED BY <1>s, <2>9, <4>1, <4>2 DEF Subscriber
    <3>3. n.queued = CostOf(n.send) + CostOf(n.pending) + taken
      BY <1>1, <2>10, <2>12
    <3> QED BY <1>1, <2>12, <3>1, <3>3 DEF Counted
  <2>13. front \o n.send \o n.pending = (front \o c.send \o init) \o new
    <3>1. init \in Seq(Outbound) /\ n.send = c.send /\ n.pending = init \o new
      BY <2>1, <2>12
    <3>2. (front \o c.send) \o (init \o new) = (front \o c.send \o init) \o new
      <4>1. init \in Seq(Outbound) /\ new \in Seq(Outbound)
            /\ front \o c.send \in Seq(Outbound)
        BY <1>2, <2>1, <2>b
      <4>2. \A t \in Seq(Outbound) :
               (front \o c.send) \o (init \o t) = (front \o c.send \o init) \o t
        BY <4>1, Regrouped, Zenon
      <4> QED BY <4>1, <4>2, Zenon
    <3> QED BY <3>1, <3>2
  <2>14. InPlace(front \o n.send \o n.pending, a, d)
    BY <2>3, <2>4, <2>7, <2>b, <2>13, InPlaceJoin
  <2> QED BY <1>7, <2>11, <2>12, <2>14
<1>8. CASE /\ c.pending # <<>> \/ ~(Len(c.send) < SendCap)
           /\ n = Added(c, e, c.send, Append(c.pending, e))
  <2>1. Append(c.pending, e) = c.pending \o one /\ c.pending \o one \in Seq(Outbound)
    BY <1>1, <1>4, Joined
  <2>2. n.send = c.send /\ n.pending = c.pending \o one /\ n.queued = c.queued + Cost(e)
        /\ ~n.done
    BY <1>8, <2>1 DEF Added
  <2>3. CostOf(n.pending) = CostOf(c.pending) + Cost(e)
    BY <1>1, <1>4, <2>2, CostConcat
  <2>4. Counted(n, taken)
    <3>1. n \in Subscriber
      BY <1>1, <1>5, <1>8, <2>1 DEF Added, Subscriber
    <3>3. n.queued = CostOf(n.send) + CostOf(n.pending) + taken
      BY <1>1, <2>2, <2>3
    <3> QED BY <1>1, <2>2, <3>1, <3>3 DEF Counted
  <2>5. front \o n.send \o n.pending = (front \o c.send \o c.pending) \o one
    <3>1. (front \o c.send) \o (c.pending \o one) = (front \o c.send \o c.pending) \o one
      <4>1. front \o c.send \in Seq(Outbound)
        BY <1>2
      <4> QED BY <1>s, <1>o, <4>1, Regrouped, ZenonT(60)
    <3> QED BY <2>2, <3>1
  <2>6. InPlace(front \o n.send \o n.pending, a, d)
    BY <1>2, <1>4, <2>5, InPlaceJoin
  <2>7. c.send # <<>> \/ c.pending # <<>>
    BY <1>1, <1>8, EmptySeq
  <2> QED BY <2>2, <2>4, <2>6, <2>7
<1> QED BY <1>1, <1>3, <1>6, <1>7, <1>8, EnqueuedForm

LEMMA Cut ==
    ASSUME NEW s \in Seq(Outbound), NEW k \in 0..Len(s)
    PROVE  /\ SubSeq(s, 1, k) \in Seq(Outbound) /\ SubSeq(s, k + 1, Len(s)) \in Seq(Outbound)
           /\ Len(SubSeq(s, 1, k)) = k /\ Len(SubSeq(s, k + 1, Len(s))) = Len(s) - k
           /\ SubSeq(s, 1, k) \o SubSeq(s, k + 1, Len(s)) = s
<1>1. Len(s) \in Nat /\ \A i \in 1..Len(s) : s[i] \in Outbound
  BY LenProperties, ElementOfSeq
<1>2. SubSeq(s, 1, k) \o SubSeq(s, k + 1, Len(s)) = SubSeq(s, 1, Len(s))
  <2>1. 1 \in 1..(Len(s) + 1) /\ k \in (1 - 1)..Len(s) /\ Len(s) \in k..Len(s)
    BY <1>1
  <2> QED BY <2>1, ConcatAdjacentSubSeq
<1>3. SubSeq(s, 1, Len(s)) = s
  BY SubSeqFull
<1>4. /\ SubSeq(s, 1, k) \in Seq(Outbound)
      /\ Len(SubSeq(s, 1, k)) = IF 1 <= k THEN k - 1 + 1 ELSE 0
  <2>1. \A i \in 1..k : s[i] \in Outbound
    BY <1>1
  <2> QED BY <1>1, <2>1, SubSeqProperties
<1>5. /\ SubSeq(s, k + 1, Len(s)) \in Seq(Outbound)
      /\ Len(SubSeq(s, k + 1, Len(s))) =
            IF k + 1 <= Len(s) THEN Len(s) - (k + 1) + 1 ELSE 0
  <2>1. k + 1 \in Int /\ \A i \in (k + 1)..Len(s) : s[i] \in Outbound
    BY <1>1
  <2> QED BY <1>1, <2>1, SubSeqProperties
<1>6. Len(SubSeq(s, 1, k)) = k
  BY <1>1, <1>4
<1>7. Len(SubSeq(s, k + 1, Len(s))) = Len(s) - k
  <2>1. CASE k = Len(s)
    BY <1>1, <1>5, <2>1
  <2>2. CASE k # Len(s)
    <3>1. k + 1 <= Len(s)
      BY <1>1, <2>2
    <3> QED BY <1>1, <1>5, <3>1
  <2> QED BY <2>1, <2>2
<1> QED BY <1>2, <1>3, <1>4, <1>5, <1>6, <1>7

\* dequeued gives back what the entry cost and refills the channel in order, so
\* that no backlog is left while the channel is empty.
LEMMA DequeuedKeeps ==
    ASSUME NEW e \in Outbound, NEW c, Counted(c, Cost(e))
    PROVE  LET n == Dequeued(c, e)
           IN  /\ Counted(n, 0)
               /\ n.send \o n.pending = c.send \o c.pending
               /\ n.pending # <<>> => n.send # <<>>
<1> DEFINE n    == Dequeued(c, e)
           k    == Moves(c)
           more == SubSeq(c.pending, 1, k)
           rest == SubSeq(c.pending, k + 1, Len(c.pending))
<1>s. c.send \in Seq(Outbound) /\ c.pending \in Seq(Outbound)
  BY DEF Counted, Subscriber
<1>1. /\ c \in Subscriber /\ ~c.done /\ c.queued \in Nat /\ c.queued <= QueueLimit
      /\ c.queued = CostOf(c.send) + CostOf(c.pending) + Cost(e)
      /\ Cost(e) \in Nat /\ CostOf(c.send) \in Nat /\ CostOf(c.pending) \in Nat
      /\ Len(c.send) \in Nat /\ Len(c.send) <= SendCap /\ Len(c.pending) \in Nat
      /\ SendCap \in Nat \ {0} /\ QueueLimit \in Nat
  BY OutboundType, CostNat, PaneConstants DEF Counted, Subscriber
<1>2. k \in 0..Len(c.pending) /\ Len(c.send) + k <= SendCap
      /\ (k = Len(c.pending) \/ Len(c.send) + k = SendCap)
  <2>1. k = IF Len(c.pending) < SendCap - Len(c.send) THEN Len(c.pending)
            ELSE SendCap - Len(c.send)
    BY DEF Moves
  <2> DEFINE p == Len(c.pending)
             q == Len(c.send)
  <2>2. p \in Nat /\ q \in Nat /\ q <= SendCap /\ SendCap \in Nat
    BY <1>1
  <2> HIDE DEF k, p, q
  <2>3. k = IF p < SendCap - q THEN p ELSE SendCap - q
    BY <2>1 DEF p, q
  <2>4. k \in 0..p /\ q + k <= SendCap /\ (k = p \/ q + k = SendCap)
    <3>1. CASE p < SendCap - q
      <4>1. k = p
        BY <2>3, <3>1
      <4> QED BY <2>2, <3>1, <4>1
    <3>2. CASE ~(p < SendCap - q)
      <4>1. k = SendCap - q
        BY <2>3, <3>2
      <4>2. k \in Nat /\ k <= p
        BY <2>2, <3>2, <4>1
      <4> QED BY <2>2, <4>1, <4>2
    <3> QED BY <3>1, <3>2
  <2> QED BY <2>4 DEF p, q
<1>3. /\ more \in Seq(Outbound) /\ rest \in Seq(Outbound)
      /\ Len(more) = k /\ Len(rest) = Len(c.pending) - k
      /\ more \o rest = c.pending
  <2> HIDE DEF k
  <2> QED BY <1>s, <1>2, Cut
<1>4. n = [done |-> FALSE, queued |-> c.queued - Cost(e), send |-> c.send \o more,
           pending |-> rest]
  <2>1. n = [c EXCEPT !.queued = IF Cost(e) > @ THEN 0 ELSE @ - Cost(e),
                      !.send = @ \o SubSeq(c.pending, 1, k),
                      !.pending = SubSeq(@, k + 1, Len(@))]
    BY DEF Dequeued
  <2>2. n = [c EXCEPT !.queued = IF Cost(e) > c.queued THEN 0 ELSE c.queued - Cost(e),
                      !.send = c.send \o more, !.pending = rest]
    BY <2>1
  <2>3. (IF Cost(e) > c.queued THEN 0 ELSE c.queued - Cost(e)) = c.queued - Cost(e)
    BY <1>1
  <2>4. n = [c EXCEPT !.queued = c.queued - Cost(e), !.send = c.send \o more, !.pending = rest]
    <3> HIDE DEF n, more, rest
    <3> QED BY <2>2, <2>3
  <2> HIDE DEF n, more, rest
  <2> QED BY <1>1, <2>4 DEF Subscriber
<1> HIDE DEF n, more, rest, k
<1>5. /\ n.send = c.send \o more /\ n.pending = rest /\ n.queued = c.queued - Cost(e)
      /\ ~n.done
  BY <1>4
<1>6. c.send \o more \in Seq(Outbound) /\ Len(c.send \o more) = Len(c.send) + k
  BY <1>s, <1>3, ConcatProperties
<1>7. n \in Subscriber
  <2>1. c.queued - Cost(e) \in 0..QueueLimit
    BY <1>1
  <2> QED BY <1>3, <1>4, <1>6, <2>1 DEF Subscriber
<1>8. CostOf(n.send) + CostOf(n.pending) = CostOf(c.send) + CostOf(c.pending)
  <2>1. /\ CostOf(c.send \o more) = CostOf(c.send) + CostOf(more)
        /\ CostOf(more \o rest) = CostOf(more) + CostOf(rest)
        /\ CostOf(more) \in Nat /\ CostOf(rest) \in Nat
    BY <1>s, <1>3, CostConcat, CostNat
  <2> QED BY <1>1, <1>3, <1>5, <2>1
<1>9. Counted(n, 0)
  <2>1. n.queued = CostOf(n.send) + CostOf(n.pending) + 0
    BY <1>1, <1>5, <1>8
  <2> QED BY <1>2, <1>5, <1>6, <1>7, <2>1 DEF Counted
<1>10. n.send \o n.pending = c.send \o c.pending
  <2>1. more \in Seq(Outbound) /\ rest \in Seq(Outbound)
    BY <1>3
  <2>2. c.send \o (more \o rest) = (c.send \o more) \o rest
    BY <1>s, <2>1, Regrouped, Zenon
  <2> QED BY <1>3, <1>5, <2>2
<1>11. n.pending # <<>> => n.send # <<>>
  <2>1. ASSUME n.pending # <<>> PROVE n.send # <<>>
    <3>1. Len(rest) # 0
      BY <1>3, <1>5, <2>1, EmptySeq
    <3>2. Len(n.send) = SendCap
      BY <1>1, <1>2, <1>3, <1>5, <1>6, <3>1
    <3> QED BY <1>1, <3>2, EmptySeq
  <2> QED BY <2>1
<1> QED BY <1>9, <1>10, <1>11 DEF n

LEMMA DequeuedDropped ==
    ASSUME NEW e \in Outbound
    PROVE  Dequeued(Dropped, e) = Dropped
<1> DEFINE n == Dequeued(Dropped, e)
<1>1. /\ Dropped \in Subscriber /\ Dropped.done = TRUE /\ Dropped.queued = 0
      /\ Dropped.send = <<>> /\ Dropped.pending = <<>> /\ <<>> \in Seq(Outbound)
  BY SubscriberType, EmptySeq
<1>2. Moves(Dropped) = 0
  BY <1>1, PaneConstants, EmptySeq DEF Moves
<1>3. /\ SubSeq(Dropped.pending, 1, 0) = <<>>
      /\ SubSeq(Dropped.pending, 1, Len(Dropped.pending)) = <<>>
      /\ <<>> \o <<>> = <<>>
  BY <1>1, Joined, SubSeqEmpty, SubSeqFull
<1>4. (IF Cost(e) > 0 THEN 0 ELSE 0 - Cost(e)) = 0
  BY OutboundType
<1>5. n = [Dropped EXCEPT !.queued = 0, !.send = <<>>, !.pending = <<>>]
  <2>1. n = [Dropped EXCEPT !.queued = IF Cost(e) > @ THEN 0 ELSE @ - Cost(e),
                 !.send = @ \o SubSeq(Dropped.pending, 1, Moves(Dropped)),
                 !.pending = SubSeq(@, Moves(Dropped) + 1, Len(@))]
    BY DEF Dequeued
  <2>2. 0 + 1 = 1
    OBVIOUS
  <2>3. n = [Dropped EXCEPT
                 !.queued = IF Cost(e) > Dropped.queued THEN 0 ELSE Dropped.queued - Cost(e),
                 !.send = Dropped.send \o SubSeq(Dropped.pending, 1, Moves(Dropped)),
                 !.pending = SubSeq(Dropped.pending, Moves(Dropped) + 1, Len(Dropped.pending))]
    BY <2>1
  <2> HIDE DEF n
  <2> QED BY <1>1, <1>2, <1>3, <1>4, <2>2, <2>3
<1> HIDE DEF n
<1>6. n = [done |-> TRUE, queued |-> 0, send |-> <<>>, pending |-> <<>>]
  BY <1>1, <1>5 DEF Subscriber
<1> QED BY <1>6, SubscriberType DEF n

-----------------------------------------------------------------------------
(* The inductive invariant.                                                *)

Connection == [open : BOOLEAN, writer : {"none", "replay", "live", "taken", "ended"},
               taken : Outbound, cursor : 0..MaxOutput, epoch : 0..MaxEpoch,
               exited : BOOLEAN]
Attachment == [pc : {"none", "idle", "wait", "release", "gone", "applied"},
               at : 0..MaxOutput, targets : SUBSET Clients]

PaneTypes ==
    /\ end \in 0..MaxOutput /\ closing \in BOOLEAN
    /\ size \in [now : Sizes, epoch : 0..MaxEpoch, owner : Clients \cup {Free}]
    /\ output \in [pc : {"read", "deliver", "notify", "remove", "done"},
                   targets : SUBSET Clients, entry : Outbound]
    /\ attached \in SUBSET Clients
    /\ client \in [Clients -> Subscriber]
    /\ conn \in [Clients -> Connection]
    /\ reader \in [Clients -> Attachment]

\* What is being delivered ends where the output does, and nobody delivers output
\* while a resize is being told, nor tells another.
UnderWay ==
    /\ output.pc = "deliver" => output.entry.kind = "output" /\ output.entry.to = end
    /\ output.pc = "notify" => output.entry = Control("exit", 0, end)
    /\ \A d \in Clients : reader[d].pc = "applied" =>
          /\ output.pc # "deliver" /\ reader[d].at = end
          /\ \A e \in Clients : reader[e].pc \in {"applied", "release"} => e = d

\* Nothing is delivered to a browser that has not come.
Come ==
    \A c \in Clients :
       (c \in attached \cup output.targets \/ \E d \in Clients : c \in reader[d].targets)
          => reader[c].pc # "none"

\* Where an attachment and its goroutines are.
Placed(c) ==
    /\ reader[c].pc = "none" => client[c] = NewClient /\ conn[c] = NoConn
    /\ client[c].done => client[c] = Dropped
    /\ reader[c].pc \in {"idle", "wait", "applied"} => c \in attached
    /\ conn[c].writer = "taken" /\ conn[c].taken.kind = "output" =>
          conn[c].taken.from = conn[c].cursor

\* The queue of an open subscriber, behind what its writer has taken, brings its
\* browser to b.
Ahead(k) == IF k.writer = "taken" THEN <<k.taken>> ELSE <<>>
AheadCost(k) == IF k.writer = "taken" THEN Cost(k.taken) ELSE 0
At(k) == [cursor |-> k.cursor, epoch |-> k.epoch]

Serves(s, k, b) ==
    /\ Counted(s, AheadCost(k)) /\ b \in Known
    /\ k.writer \in {"replay", "live", "taken"}
    /\ k.writer # "taken" /\ s.pending # <<>> => s.send # <<>>
    /\ InPlace(Ahead(k) \o s.send \o s.pending, At(k), b)

\* That is the end of the output, but for what is about to be queued, and the
\* resize epoch of the pane, unless it is about to be told.
UpTo(c) ==
    IF output.pc = "deliver" /\ c \in output.targets THEN output.entry.from ELSE end
Telling(c) == \E d \in Clients : reader[d].pc = "applied" /\ c \in reader[d].targets

Served(c) ==
    reader[c].pc # "none" /\ ~client[c].done =>
       /\ reader[c].pc \in {"idle", "applied"}
       /\ \E b \in Known : /\ Serves(client[c], conn[c], b)
                           /\ b.cursor = UpTo(c)
                           /\ ~Telling(c) => b.epoch = size.epoch

PaneInv ==
    /\ PaneTypes /\ UnderWay /\ Come /\ OwnerAttached
    /\ \A c \in Clients : Placed(c) /\ Served(c)

LEMMA InvFacts ==
    ASSUME PaneInv, NEW c \in Clients
    PROVE  /\ client[c] \in Subscriber /\ conn[c] \in Connection /\ reader[c] \in Attachment
           /\ Placed(c) /\ Served(c)
           /\ reader[c].pc # "none" /\ ~client[c].done =>
                 reader[c].pc \in {"idle", "applied"} /\ c \in attached
           /\ end \in Nat /\ end <= MaxOutput /\ size.epoch \in 0..MaxEpoch
           /\ output.entry \in Outbound /\ output.targets \in SUBSET Clients
           /\ reader[c].targets \in SUBSET Clients
BY PaneConstants DEF PaneInv, PaneTypes, Placed, Served, Attachment

LEMMA KnownType ==
    /\ \A x \in 0..MaxOutput, n \in 0..MaxEpoch : [cursor |-> x, epoch |-> n] \in Known
    /\ \A b \in Known : b.cursor \in 0..MaxOutput /\ b.epoch \in 0..MaxEpoch
    /\ \A k \in Connection : At(k) \in Known /\ Ahead(k) \in Seq(Outbound)
                             /\ AheadCost(k) \in Nat
<1>1. ASSUME NEW k \in Connection
      PROVE  At(k) \in Known /\ Ahead(k) \in Seq(Outbound) /\ AheadCost(k) \in Nat
  <2>1. k.taken \in Outbound /\ k.cursor \in 0..MaxOutput /\ k.epoch \in 0..MaxEpoch
    BY DEF Connection
  <2>2. <<k.taken>> \in Seq(Outbound) /\ <<>> \in Seq(Outbound) /\ Cost(k.taken) \in Nat
    BY <2>1, EmptySeq, OutboundType
  <2> QED BY <2>1, <2>2 DEF At, Ahead, AheadCost, Known
<1> QED BY <1>1 DEF Known

\* What is queued to a subscriber in its place brings its browser further, or the
\* subscriber is dropped.
LEMMA DeliveredTo ==
    ASSUME NEW s \in Subscriber, s.done => s = Dropped, NEW k \in Connection,
           NEW e \in Outbound, NEW b \in Known, NEW d \in Known,
           ~s.done => Serves(s, k, b) /\ Brings(e, b, d)
    PROVE  LET n == Enqueued(s, e)
           IN  /\ n \in Subscriber /\ (n.done => n = Dropped)
               /\ ~n.done => ~s.done /\ Serves(n, k, d)
<1> DEFINE n == Enqueued(s, e)
<1>1. CASE s.done
  <2>1. n = s
    BY <1>1 DEF Enqueued
  <2> QED BY <1>1, <2>1
<1>2. CASE ~s.done /\ n.done
  <2>1. n = Dropped
    BY <1>2, EnqueuedForm DEF Added
  <2> QED BY <1>2, <2>1, SubscriberType
<1>3. CASE ~s.done /\ ~n.done
  <2>1. /\ Counted(s, AheadCost(k)) /\ Brings(e, b, d)
        /\ k.writer \in {"replay", "live", "taken"}
        /\ k.writer # "taken" /\ s.pending # <<>> => s.send # <<>>
        /\ InPlace(Ahead(k) \o s.send \o s.pending, At(k), b)
    BY <1>3 DEF Serves
  <2>2. At(k) \in Known /\ Ahead(k) \in Seq(Outbound) /\ AheadCost(k) \in Nat
    BY KnownType
  <2>3. /\ Counted(n, AheadCost(k))
        /\ InPlace(Ahead(k) \o n.send \o n.pending, At(k), d)
        /\ n.pending # <<>> /\ n.send = <<>> => s.pending # <<>> /\ s.send = <<>>
    BY <1>3, <2>1, <2>2, EnqueuedKeeps
  <2>4. n \in Subscriber
    BY <2>3 DEF Counted
  <2> HIDE DEF n
  <2>5. Serves(n, k, d)
    BY <2>1, <2>3 DEF Serves
  <2> QED BY <1>3, <2>4, <2>5 DEF n
<1> QED BY <1>1, <1>2, <1>3

-----------------------------------------------------------------------------
(* It holds at first.                                                      *)

LEMMA NoConnType ==
    /\ NoConn \in Connection
    /\ NoConn = [open |-> FALSE, writer |-> "none", taken |-> Notice, cursor |-> 0,
                 epoch |-> 0, exited |-> FALSE]
BY PaneConstants, NoticeType DEF NoConn, Connection

LEMMA IdleType ==
    /\ IdleReader \in Attachment /\ IdleReader.pc = "idle" /\ IdleReader.targets = {}
    /\ \A pc \in {"none", "idle", "wait", "release", "gone", "applied"} :
          /\ [IdleReader EXCEPT !.pc = pc] \in Attachment
          /\ [IdleReader EXCEPT !.pc = pc].pc = pc
          /\ [IdleReader EXCEPT !.pc = pc].targets = {}
BY PaneConstants DEF IdleReader, Attachment

LEMMA PaneInitial == Init => PaneInv
<1> SUFFICES ASSUME Init PROVE PaneInv
  OBVIOUS
<1>1. PaneTypes
  <2>1. Notice \in Outbound
    BY NoticeType
  <2>2. output \in [pc : {"read", "deliver", "notify", "remove", "done"},
                    targets : SUBSET Clients, entry : Outbound]
    BY <2>1 DEF Init
  <2>3. size \in [now : Sizes, epoch : 0..MaxEpoch, owner : Clients \cup {Free}]
    BY PaneConstants DEF Init
  <2>4. /\ client \in [Clients -> Subscriber] /\ conn \in [Clients -> Connection]
        /\ reader \in [Clients -> Attachment]
    BY SubscriberType, NoConnType, IdleType DEF Init
  <2>5. end \in 0..MaxOutput
    BY PaneConstants DEF Init
  <2>6. closing \in BOOLEAN /\ attached \in SUBSET Clients
    BY DEF Init
  <2> QED BY <2>2, <2>3, <2>4, <2>5, <2>6 DEF PaneTypes
<1>2. UnderWay /\ Come /\ OwnerAttached
  BY IdleType DEF Init, UnderWay, Come, OwnerAttached
<1>3. ASSUME NEW c \in Clients PROVE Placed(c) /\ Served(c)
  <2>1. /\ reader[c].pc = "none" /\ client[c] = NewClient /\ conn[c] = NoConn
    BY IdleType DEF Init
  <2>2. ~client[c].done /\ conn[c].writer = "none"
    BY <2>1 DEF NewClient, NoConn
  <2> QED BY <2>1, <2>2 DEF Placed, Served
<1> QED BY <1>1, <1>2, <1>3 DEF PaneInv

-----------------------------------------------------------------------------
(* The output goroutine keeps it.                                          *)

\* Nothing changes for an attachment.
LEMMA StillServed ==
    ASSUME NEW c \in Clients, Served(c),
           client'[c] = client[c], conn'[c] = conn[c],
           reader'[c].pc = reader[c].pc,
           reader[c].pc # "none" /\ ~client[c].done => UpTo(c)' = UpTo(c),
           ~Telling(c)' => ~Telling(c), size'.epoch = size.epoch
    PROVE  Served(c)'
BY DEF Served

LEMMA StillPlaced ==
    ASSUME NEW c \in Clients, Placed(c),
           client'[c] = client[c], conn'[c] = conn[c],
           reader'[c].pc = reader[c].pc, c \in attached => c \in attached'
    PROVE  Placed(c)'
BY DEF Placed

LEMMA OutputReadKeeps ==
    ASSUME PaneInv, NEW n \in 1..ChunkMax, OutputRead(n)
    PROVE  PaneInv'
<1>1. /\ output.pc = "read" /\ end + n <= MaxOutput /\ end' = end + n
      /\ \A d \in Clients : reader[d].pc # "applied"
      /\ output' = [pc |-> "deliver", targets |-> attached, entry |-> Chunk(end, end + n)]
      /\ UNCHANGED <<closing, size, attached, client, conn, reader>>
  BY DEF OutputRead, OutputFree
<1>2. PaneTypes /\ UnderWay /\ Come /\ OwnerAttached
  BY DEF PaneInv
<1>3. end \in Nat /\ end + n \in 0..MaxOutput /\ end <= end + n /\ attached \in SUBSET Clients
  BY <1>1, <1>2, PaneConstants DEF PaneTypes
<1>4. /\ Chunk(end, end + n) \in Outbound /\ Chunk(end, end + n).kind = "output"
      /\ Chunk(end, end + n).to = end + n /\ Chunk(end, end + n).from = end
  BY <1>3, ChunkType DEF Chunk
<1>5. PaneTypes'
  <2>1. output' \in [pc : {"read", "deliver", "notify", "remove", "done"},
                     targets : SUBSET Clients, entry : Outbound]
    BY <1>1, <1>3, <1>4
  <2> QED BY <1>1, <1>2, <1>3, <2>1 DEF PaneTypes
<1>6. UnderWay'
  BY <1>1, <1>4 DEF UnderWay
<1>7. Come' /\ OwnerAttached'
  BY <1>1, <1>2 DEF Come, OwnerAttached
<1>8. ASSUME NEW c \in Clients PROVE Placed(c)' /\ Served(c)'
  <2>1. Placed(c) /\ Served(c) /\ (reader[c].pc # "none" /\ ~client[c].done => c \in attached)
    BY InvFacts
  <2>2. UpTo(c) = end /\ (c \in attached => UpTo(c)' = end)
    BY <1>1, <1>4 DEF UpTo
  <2>3. Telling(c)' = Telling(c)
    BY <1>1 DEF Telling
  <2> QED BY <1>1, <2>1, <2>2, <2>3, StillServed, StillPlaced
<1> QED BY <1>5, <1>6, <1>7, <1>8 DEF PaneInv

\* An entry is queued to some of the attachments and takes them from b to To(b).
LEMMA DeliverKeeps ==
    ASSUME NEW c \in Clients, NEW T, NEW e \in Outbound, Deliver(T, e),
           client \in [Clients -> Subscriber], conn \in [Clients -> Connection],
           Placed(c), Served(c), c \in T => reader[c].pc # "none",
           conn'[c] = conn[c], reader'[c].pc # "none" <=> reader[c].pc # "none",
           reader'[c].pc \in {"idle", "wait", "applied"} => c \in attached',
           reader[c].pc \in {"idle", "applied"} => reader'[c].pc \in {"idle", "applied"},
           \A b \in Known :
              reader[c].pc # "none" /\ ~client[c].done
              /\ b.cursor = UpTo(c) /\ (~Telling(c) => b.epoch = size.epoch)
              => \E d \in Known :
                    /\ c \in T => Brings(e, b, d)
                    /\ c \notin T => d = b
                    /\ d.cursor = UpTo(c)'
                    /\ ~Telling(c)' => d.epoch = size'.epoch
    PROVE  client'[c] \in Subscriber /\ Placed(c)' /\ Served(c)'
<1>1. /\ client[c] \in Subscriber /\ conn[c] \in Connection
      /\ client'[c] = IF c \in T THEN Enqueued(client[c], e) ELSE client[c]
      /\ client[c].done => client[c] = Dropped
  BY DEF Deliver, Placed
<1>2. CASE reader[c].pc = "none"
  BY <1>1, <1>2 DEF Placed, Served
<1>3. CASE reader[c].pc # "none" /\ client[c].done
  <2>1. client'[c] = Dropped
    BY <1>1, <1>3 DEF Enqueued
  <2> QED BY <1>1, <1>3, <2>1, SubscriberType DEF Placed, Served
<1>4. CASE reader[c].pc # "none" /\ ~client[c].done
  <2>1. PICK b \in Known : /\ Serves(client[c], conn[c], b) /\ b.cursor = UpTo(c)
                           /\ ~Telling(c) => b.epoch = size.epoch
    BY <1>4 DEF Served
  <2>2. PICK d \in Known : /\ c \in T => Brings(e, b, d)
                           /\ c \notin T => d = b
                           /\ d.cursor = UpTo(c)'
                           /\ ~Telling(c)' => d.epoch = size'.epoch
    BY <1>4, <2>1
  <2>3. /\ client'[c] \in Subscriber /\ (client'[c].done => client'[c] = Dropped)
        /\ ~client'[c].done => Serves(client'[c], conn[c], d)
    <3>1. CASE c \in T
      <4>1. Brings(e, b, d) /\ client'[c] = Enqueued(client[c], e)
        BY <1>1, <2>2, <3>1
      <4> QED BY <1>1, <1>4, <2>1, <2>2, <4>1, DeliveredTo
    <3>2. CASE c \notin T
      BY <1>1, <1>4, <2>1, <2>2, <3>2
    <3> QED BY <3>1, <3>2
  <2>4. reader[c].pc \in {"idle", "applied"}
    BY <1>4 DEF Served
  <2>5. Placed(c)'
    BY <1>4, <2>3 DEF Placed
  <2>6. Served(c)'
    BY <1>4, <2>2, <2>3, <2>4 DEF Served
  <2> QED BY <2>3, <2>5, <2>6
<1> QED BY <1>2, <1>3, <1>4

LEMMA ClientsTyped ==
    ASSUME NEW T, NEW e, Deliver(T, e), \A c \in Clients : client'[c] \in Subscriber
    PROVE  client' \in [Clients -> Subscriber]
BY DEF Deliver

LEMMA OutputDeliverKeeps ==
    ASSUME PaneInv, OutputDeliver
    PROVE  PaneInv'
<1>1. /\ output.pc = "deliver" /\ Deliver(output.targets, output.entry)
      /\ output' = [pc |-> "read", targets |-> {}, entry |-> Notice]
      /\ UNCHANGED <<end, closing, size, attached, conn, reader>>
  BY DEF OutputDeliver
<1>2. /\ PaneTypes /\ UnderWay /\ Come /\ OwnerAttached
      /\ output.entry.kind = "output" /\ output.entry.to = end
      /\ output.entry \in Outbound /\ end \in 0..MaxOutput
  BY <1>1 DEF PaneInv, UnderWay, PaneTypes
<1>3. ASSUME NEW c \in Clients PROVE client'[c] \in Subscriber /\ Placed(c)' /\ Served(c)'
  <2>1. Placed(c) /\ Served(c)
    BY InvFacts
  <2>2. c \in output.targets => reader[c].pc # "none"
    BY <1>2 DEF Come
  <2>3. UpTo(c)' = end /\ Telling(c)' = Telling(c)
    BY <1>1 DEF UpTo, Telling
  <2>4. ASSUME NEW b \in Known, b.cursor = UpTo(c), ~Telling(c) => b.epoch = size.epoch
        PROVE  \E d \in Known :
                  /\ c \in output.targets => Brings(output.entry, b, d)
                  /\ c \notin output.targets => d = b
                  /\ d.cursor = UpTo(c)'
                  /\ ~Telling(c)' => d.epoch = size'.epoch
    <3>1. CASE c \in output.targets
      <4> DEFINE d == [cursor |-> end, epoch |-> b.epoch]
      <4>1. d \in Known /\ d.cursor = end /\ d.epoch = b.epoch
        BY <1>2, KnownType
      <4>2. b.cursor = output.entry.from
        BY <1>1, <2>4, <3>1 DEF UpTo
      <4> HIDE DEF d
      <4>3. Brings(output.entry, b, d)
        BY <1>2, <4>1, <4>2 DEF Brings
      <4> QED BY <1>1, <2>3, <2>4, <3>1, <4>1, <4>3
    <3>2. CASE c \notin output.targets
      <4>1. UpTo(c) = end
        BY <3>2 DEF UpTo
      <4> QED BY <1>1, <2>3, <2>4, <3>2, <4>1
    <3> QED BY <3>1, <3>2
  <2>5. /\ client \in [Clients -> Subscriber] /\ conn \in [Clients -> Connection]
        /\ reader'[c].pc \in {"idle", "wait", "applied"} => c \in attached'
    BY <1>1, <1>2, <2>1 DEF PaneTypes, Placed
  <2> QED BY <1>1, <1>2, <2>1, <2>2, <2>4, <2>5, DeliverKeeps
<1>4. PaneTypes'
  <2>1. client' \in [Clients -> Subscriber]
    BY <1>1, <1>3, ClientsTyped
  <2>2. output' \in [pc : {"read", "deliver", "notify", "remove", "done"},
                     targets : SUBSET Clients, entry : Outbound]
    BY <1>1, NoticeType
  <2> QED BY <1>1, <1>2, <2>1, <2>2 DEF PaneTypes
<1>5. UnderWay' /\ Come' /\ OwnerAttached'
  BY <1>1, <1>2 DEF UnderWay, Come, OwnerAttached
<1> QED BY <1>3, <1>4, <1>5 DEF PaneInv

LEMMA OutputExitKeeps ==
    ASSUME PaneInv, OutputExit
    PROVE  PaneInv'
<1>1. /\ output.pc = "read"
      /\ output' = [pc |-> "notify", targets |-> attached, entry |-> Control("exit", 0, end)]
      /\ UNCHANGED <<end, closing, size, attached, client, conn, reader>>
  BY DEF OutputExit
<1>2. PaneTypes /\ UnderWay /\ Come /\ OwnerAttached
  BY DEF PaneInv
<1>3. PaneTypes'
  <2>1. Control("exit", 0, end) \in Outbound /\ attached \in SUBSET Clients
    BY <1>2, PaneConstants, ControlType DEF PaneTypes
  <2>2. output' \in [pc : {"read", "deliver", "notify", "remove", "done"},
                     targets : SUBSET Clients, entry : Outbound]
    BY <1>1, <2>1
  <2> QED BY <1>1, <1>2, <2>2 DEF PaneTypes
<1>4. UnderWay' /\ Come' /\ OwnerAttached'
  BY <1>1, <1>2 DEF UnderWay, Come, OwnerAttached
<1>5. ASSUME NEW c \in Clients PROVE Placed(c)' /\ Served(c)'
  <2>1. Placed(c) /\ Served(c)
    BY InvFacts
  <2>2. UpTo(c)' = UpTo(c) /\ Telling(c)' = Telling(c)
    BY <1>1 DEF UpTo, Telling
  <2> QED BY <1>1, <2>1, <2>2, StillServed, StillPlaced
<1> QED BY <1>3, <1>4, <1>5 DEF PaneInv

LEMMA OutputNotifyKeeps ==
    ASSUME PaneInv, OutputNotify
    PROVE  PaneInv'
<1>1. /\ output.pc = "notify" /\ Deliver(output.targets, output.entry)
      /\ output' = [pc |-> "remove", targets |-> {}, entry |-> Notice]
      /\ UNCHANGED <<end, closing, size, attached, conn, reader>>
  BY DEF OutputNotify
<1>2. /\ PaneTypes /\ UnderWay /\ Come /\ OwnerAttached
      /\ output.entry.kind = "exit" /\ output.entry.to = end
      /\ output.entry \in Outbound /\ end \in 0..MaxOutput
  BY <1>1 DEF PaneInv, UnderWay, PaneTypes, Control
<1>3. ASSUME NEW c \in Clients PROVE client'[c] \in Subscriber /\ Placed(c)' /\ Served(c)'
  <2>1. Placed(c) /\ Served(c)
    BY InvFacts
  <2>2. c \in output.targets => reader[c].pc # "none"
    BY <1>2 DEF Come
  <2>3. UpTo(c) = end /\ UpTo(c)' = end /\ Telling(c)' = Telling(c)
    BY <1>1 DEF UpTo, Telling
  <2>4. ASSUME NEW b \in Known, b.cursor = UpTo(c), ~Telling(c) => b.epoch = size.epoch
        PROVE  \E d \in Known :
                  /\ c \in output.targets => Brings(output.entry, b, d)
                  /\ c \notin output.targets => d = b
                  /\ d.cursor = UpTo(c)'
                  /\ ~Telling(c)' => d.epoch = size'.epoch
    <3>1. Brings(output.entry, b, b)
      BY <1>2, <2>3, <2>4 DEF Brings
    <3> QED BY <1>1, <2>3, <2>4, <3>1
  <2>5. /\ client \in [Clients -> Subscriber] /\ conn \in [Clients -> Connection]
        /\ reader'[c].pc \in {"idle", "wait", "applied"} => c \in attached'
    BY <1>1, <1>2, <2>1 DEF PaneTypes, Placed
  <2> QED BY <1>1, <1>2, <2>1, <2>2, <2>4, <2>5, DeliverKeeps
<1>4. PaneTypes'
  <2>1. client' \in [Clients -> Subscriber]
    BY <1>1, <1>3, ClientsTyped
  <2>2. output' \in [pc : {"read", "deliver", "notify", "remove", "done"},
                     targets : SUBSET Clients, entry : Outbound]
    BY <1>1, NoticeType
  <2> QED BY <1>1, <1>2, <2>1, <2>2 DEF PaneTypes
<1>5. UnderWay' /\ Come' /\ OwnerAttached'
  BY <1>1, <1>2 DEF UnderWay, Come, OwnerAttached
<1> QED BY <1>3, <1>4, <1>5 DEF PaneInv

\* Attachments whose subscriber is dropped, or kept as it is.
LEMMA DroppedKeeps ==
    ASSUME NEW c \in Clients, Placed(c), Served(c), client[c] \in Subscriber,
           \/ client'[c] = client[c] /\ conn'[c] = conn[c] /\ reader'[c].pc = reader[c].pc
           \/ client'[c] = Dropped /\ reader[c].pc # "none",
           reader'[c].pc # "none" <=> reader[c].pc # "none",
           reader'[c].pc \in {"idle", "wait", "applied"} => c \in attached',
           conn'[c].writer = "taken" =>
              conn[c].writer = "taken" /\ conn'[c].taken = conn[c].taken
              /\ conn'[c].cursor = conn[c].cursor,
           ~client'[c].done => UpTo(c)' = UpTo(c) /\ (~Telling(c)' => ~Telling(c))
                               /\ size'.epoch = size.epoch
    PROVE  client'[c] \in Subscriber /\ Placed(c)' /\ Served(c)'
<1>1. CASE client'[c] = Dropped /\ reader[c].pc # "none"
  <2>1. client'[c].done /\ client'[c] \in Subscriber /\ reader'[c].pc # "none"
    BY <1>1, SubscriberType
  <2> QED BY <1>1, <2>1 DEF Placed, Served
<1>2. CASE client'[c] = client[c] /\ conn'[c] = conn[c] /\ reader'[c].pc = reader[c].pc
  <2>1. Placed(c)'
    BY <1>2 DEF Placed
  <2>2. Served(c)'
    BY <1>2 DEF Served
  <2> QED BY <1>2, <2>1, <2>2
<1> QED BY <1>1, <1>2

LEMMA ClosedKeeps ==
    ASSUME PaneInv, Closed, UNCHANGED <<end, size, attached, conn, reader>>,
           \/ output' = output
           \/ output' = [output EXCEPT !.pc = "done"] /\ output.pc = "remove"
    PROVE  PaneInv'
<1>1. /\ PaneTypes /\ UnderWay /\ Come /\ OwnerAttached
      /\ closing' = TRUE
      /\ client' = [c \in Clients |-> IF c \in attached THEN Dropped ELSE client[c]]
  BY DEF PaneInv, Closed
<1>2. /\ output' \in [pc : {"read", "deliver", "notify", "remove", "done"},
                      targets : SUBSET Clients, entry : Outbound]
      /\ output'.targets = output.targets /\ output'.entry = output.entry
      /\ output'.pc = output.pc \/ (output.pc = "remove" /\ output'.pc = "done")
  BY <1>1 DEF PaneTypes
<1>3. PaneTypes'
  <2>1. client' \in [Clients -> Subscriber]
    BY <1>1, SubscriberType DEF PaneTypes
  <2> QED BY <1>1, <1>2, <2>1 DEF PaneTypes
<1>4. UnderWay' /\ Come' /\ OwnerAttached'
  BY <1>1, <1>2 DEF UnderWay, Come, OwnerAttached
<1>5. ASSUME NEW c \in Clients PROVE Placed(c)' /\ Served(c)'
  <2>1. /\ Placed(c) /\ Served(c) /\ client[c] \in Subscriber
        /\ c \in attached => reader[c].pc # "none"
    BY <1>1, InvFacts DEF Come
  <2>2. UpTo(c)' = UpTo(c) /\ Telling(c)' = Telling(c)
    BY <1>2 DEF UpTo, Telling
  <2>3. reader'[c].pc \in {"idle", "wait", "applied"} => c \in attached'
    BY <2>1 DEF Placed
  <2> QED BY <1>1, <2>1, <2>2, <2>3, DroppedKeeps
<1> QED BY <1>3, <1>4, <1>5 DEF PaneInv

LEMMA OutputFinishKeeps ==
    ASSUME PaneInv, OutputFinish
    PROVE  PaneInv'
<1>1. /\ output.pc = "remove" /\ output' = [output EXCEPT !.pc = "done"]
      /\ UNCHANGED <<end, size, attached, conn, reader>>
      /\ UNCHANGED <<closing, client>> \/ Closed
  BY DEF OutputFinish
<1>2. CASE Closed
  BY <1>1, <1>2, ClosedKeeps
<1>3. CASE UNCHANGED <<closing, client>>
  <2>1. PaneTypes /\ UnderWay /\ Come /\ OwnerAttached
    BY DEF PaneInv
  <2>2. /\ output' \in [pc : {"read", "deliver", "notify", "remove", "done"},
                        targets : SUBSET Clients, entry : Outbound]
        /\ output'.targets = output.targets /\ output'.pc = "done"
    BY <1>1, <2>1 DEF PaneTypes
  <2>3. PaneTypes'
    BY <1>1, <1>3, <2>1, <2>2 DEF PaneTypes
  <2>4. UnderWay' /\ Come' /\ OwnerAttached'
    BY <1>1, <1>3, <2>1, <2>2 DEF UnderWay, Come, OwnerAttached
  <2>5. ASSUME NEW c \in Clients PROVE Placed(c)' /\ Served(c)'
    <3>1. Placed(c) /\ Served(c)
      BY InvFacts
    <3>2. UpTo(c)' = UpTo(c) /\ Telling(c)' = Telling(c)
      BY <1>1, <2>2 DEF UpTo, Telling
    <3> QED BY <1>1, <1>3, <3>1, <3>2, StillServed, StillPlaced
  <2> QED BY <2>3, <2>4, <2>5 DEF PaneInv
<1> QED BY <1>1, <1>2, <1>3

LEMMA CloseKeeps ==
    ASSUME PaneInv, Close
    PROVE  PaneInv'
BY ClosedKeeps DEF Close

-----------------------------------------------------------------------------
(* An attachment and its writer keep it.                                   *)

LEMMA AttachKeeps ==
    ASSUME PaneInv, NEW c \in Clients, Attach(c)
    PROVE  PaneInv'
<1> DEFINE k == [open |-> TRUE, writer |-> "replay", taken |-> Notice,
                 cursor |-> end, epoch |-> size.epoch, exited |-> HasExited]
<1>1. /\ reader[c].pc = "none" /\ attached' = attached \cup {c}
      /\ conn' = [conn EXCEPT ![c] = k] /\ reader' = [reader EXCEPT ![c] = IdleReader]
      /\ UNCHANGED <<end, closing, size, output, client>>
  BY DEF Attach, paneVars
<1>2. /\ PaneTypes /\ UnderWay /\ Come /\ OwnerAttached
      /\ conn \in [Clients -> Connection] /\ reader \in [Clients -> Attachment]
  BY DEF PaneInv, PaneTypes
<1>3. /\ k \in Connection /\ k.writer = "replay" /\ k.cursor = end
      /\ k.epoch = size.epoch
  <2>1. /\ Notice \in Outbound /\ end \in 0..MaxOutput /\ size.epoch \in 0..MaxEpoch
        /\ HasExited \in BOOLEAN
    BY <1>2, NoticeType DEF PaneTypes, HasExited, Exited
  <2> QED BY <2>1 DEF Connection
<1> HIDE DEF k
<1>4. /\ conn'[c] = k /\ reader'[c].pc = "idle" /\ reader'[c].targets = {}
      /\ \A d \in Clients \ {c} : conn'[d] = conn[d] /\ reader'[d] = reader[d]
  BY <1>1, <1>2, IdleType
<1>5. PaneTypes'
  BY <1>1, <1>2, <1>3, IdleType DEF PaneTypes
<1>6. UnderWay'
  BY <1>1, <1>2, <1>4 DEF UnderWay
<1>7. Come' /\ OwnerAttached'
  BY <1>1, <1>2, <1>4 DEF Come, OwnerAttached
<1>8. ASSUME NEW d \in Clients PROVE UpTo(d)' = UpTo(d) /\ (~Telling(d)' => ~Telling(d))
  BY <1>1, <1>4 DEF UpTo, Telling
<1>9. Placed(c)' /\ Served(c)'
  <2>1. /\ client'[c] = NewClient /\ ~NewClient.done /\ NewClient.send = <<>>
        /\ NewClient.pending = <<>> /\ Counted(NewClient, 0)
    BY <1>1, InvFacts, SubscriberType DEF Placed, NewClient
  <2> DEFINE b == [cursor |-> end, epoch |-> size.epoch]
  <2>2. b \in Known /\ At(k) = b /\ b.cursor = end /\ b.epoch = size.epoch
    BY <1>2, <1>3, KnownType DEF PaneTypes, At
  <2> HIDE DEF b
  <2>3. Serves(NewClient, k, b)
    <3>1. Ahead(k) \o <<>> \o <<>> = <<>> /\ AheadCost(k) = 0
      BY <1>3, Joined, EmptySeq DEF Ahead, AheadCost
    <3>2. InPlace(<<>>, b, b)
      BY <2>2, InPlaceNone
    <3> QED BY <1>3, <2>1, <2>2, <3>1, <3>2 DEF Serves
  <2>4. UpTo(c)' = end
    BY <1>1, <1>2, <1>8 DEF UpTo, Come
  <2>5. Served(c)'
    BY <1>1, <1>4, <2>1, <2>2, <2>3, <2>4 DEF Served
  <2>6. Placed(c)'
    BY <1>1, <1>3, <1>4, <2>1 DEF Placed
  <2> QED BY <2>5, <2>6
<1>10. ASSUME NEW d \in Clients, d # c PROVE Placed(d)' /\ Served(d)'
  <2>1. Placed(d) /\ Served(d)
    BY InvFacts
  <2> QED BY <1>1, <1>4, <1>8, <1>10, <2>1, StillServed, StillPlaced
<1> QED BY <1>5, <1>6, <1>7, <1>9, <1>10 DEF PaneInv

\* A writer's step changes its subscriber and its connection alone.
LEMMA WriterKeeps ==
    ASSUME PaneInv, NEW c \in Clients, UNCHANGED <<paneVars, attached, reader>>,
           NEW s \in Subscriber, NEW k \in Connection,
           client' = [client EXCEPT ![c] = s], conn' = [conn EXCEPT ![c] = k],
           reader[c].pc # "none", s.done => s = Dropped,
           ~s.done => /\ ~client[c].done
                      /\ \A b \in Known : Serves(client[c], conn[c], b) => Serves(s, k, b),
           k.writer = "taken" /\ k.taken.kind = "output" => k.taken.from = k.cursor
    PROVE  PaneInv'
<1>1. /\ PaneTypes /\ UnderWay /\ Come /\ OwnerAttached
      /\ client \in [Clients -> Subscriber] /\ conn \in [Clients -> Connection]
      /\ UNCHANGED <<end, closing, size, output, attached, reader>>
  BY DEF PaneInv, PaneTypes, paneVars
<1>2. /\ client'[c] = s /\ conn'[c] = k
      /\ \A d \in Clients \ {c} : client'[d] = client[d] /\ conn'[d] = conn[d]
  BY <1>1
<1>3. PaneTypes' /\ UnderWay' /\ Come' /\ OwnerAttached'
  BY <1>1 DEF PaneTypes, UnderWay, Come, OwnerAttached
<1>4. ASSUME NEW d \in Clients PROVE UpTo(d)' = UpTo(d) /\ Telling(d)' = Telling(d)
  BY <1>1 DEF UpTo, Telling
<1>5. Placed(c)' /\ Served(c)'
  <2>1. Placed(c) /\ Served(c)
    BY InvFacts
  <2>2. Placed(c)'
    BY <1>1, <1>2, <2>1 DEF Placed
  <2>3. Served(c)'
    BY <1>1, <1>2, <1>4, <2>1 DEF Served
  <2> QED BY <2>2, <2>3
<1>6. ASSUME NEW d \in Clients, d # c PROVE Placed(d)' /\ Served(d)'
  <2>1. Placed(d) /\ Served(d)
    BY InvFacts
  <2> QED BY <1>1, <1>2, <1>4, <1>6, <2>1, StillServed, StillPlaced
<1> QED BY <1>3, <1>5, <1>6 DEF PaneInv

LEMMA WriterReturnsKeeps ==
    ASSUME PaneInv, NEW c \in Clients, conn[c].writer # "none", WriterReturns(c), WriterRest
    PROVE  PaneInv'
<1> DEFINE k == [NoConn EXCEPT !.writer = "ended", !.open = FALSE]
<1>1. /\ client' = [client EXCEPT ![c] = Dropped] /\ conn' = [conn EXCEPT ![c] = k]
      /\ UNCHANGED <<paneVars, attached, reader>>
  BY DEF WriterReturns, OpenAfterWriter, WriterRest
<1>2. k \in Connection /\ k.writer = "ended"
  BY NoConnType DEF Connection
<1>3. reader[c].pc # "none"
  BY InvFacts, NoConnType DEF Placed
<1>4. Dropped \in Subscriber /\ Dropped.done
  BY SubscriberType
<1> HIDE DEF k
<1> QED BY <1>1, <1>2, <1>3, <1>4, WriterKeeps

LEMMA WriterReplayKeeps ==
    ASSUME PaneInv, NEW c \in Clients, WriterReplay(c)
    PROVE  PaneInv'
<1>1. conn[c].writer = "replay" /\ WriterRest
  BY DEF WriterReplay
<1>2. CASE WriterReturns(c)
  BY <1>1, <1>2, WriterReturnsKeeps
<1>3. CASE conn' = [conn EXCEPT ![c].writer = "live"] /\ UNCHANGED client
  <2> DEFINE k == [conn[c] EXCEPT !.writer = "live"]
             s == client[c]
  <2>1. s \in Subscriber /\ conn[c] \in Connection /\ Placed(c)
    BY InvFacts
  <2>2. /\ k \in Connection /\ k.writer = "live" /\ k.taken = conn[c].taken
        /\ k.cursor = conn[c].cursor /\ k.epoch = conn[c].epoch
    BY <2>1 DEF Connection
  <2>3. client' = [client EXCEPT ![c] = s] /\ conn' = [conn EXCEPT ![c] = k]
    BY <1>3 DEF PaneInv, PaneTypes
  <2>4. reader[c].pc # "none" /\ (s.done => s = Dropped)
    BY <1>1, <2>1, NoConnType DEF Placed
  <2> HIDE DEF k
  <2>5. ASSUME NEW b \in Known, Serves(client[c], conn[c], b) PROVE Serves(s, k, b)
    <3>1. Ahead(k) = Ahead(conn[c]) /\ AheadCost(k) = AheadCost(conn[c]) /\ At(k) = At(conn[c])
      BY <1>1, <2>2 DEF Ahead, AheadCost, At
    <3> QED BY <1>1, <2>2, <2>5, <3>1 DEF Serves
  <2> QED BY <1>1, <2>1, <2>2, <2>3, <2>4, <2>5, WriterKeeps DEF WriterRest
<1> QED BY <1>2, <1>3 DEF WriterReplay

LEMMA WriterStopsKeeps ==
    ASSUME PaneInv, NEW c \in Clients, WriterStops(c)
    PROVE  PaneInv'
BY WriterReturnsKeeps DEF WriterStops

\* Taking the head of the channel changes nothing of what is ahead of the browser.
LEMMA TakenServes ==
    ASSUME NEW s, NEW k \in Connection, NEW b \in Known, Serves(s, k, b),
           k.writer = "live", s.send # <<>>
    PROVE  LET n == [s EXCEPT !.send = Tail(s.send)]
               m == [k EXCEPT !.writer = "taken", !.taken = Head(s.send)]
           IN  /\ n \in Subscriber /\ ~n.done /\ m \in Connection
               /\ Serves(n, m, b)
               /\ m.taken.kind = "output" => m.taken.from = m.cursor
<1> DEFINE n == [s EXCEPT !.send = Tail(s.send)]
           m == [k EXCEPT !.writer = "taken", !.taken = Head(s.send)]
<1>1. /\ s \in Subscriber /\ ~s.done /\ Len(s.send) <= SendCap
      /\ s.queued = CostOf(s.send) + CostOf(s.pending) + 0
      /\ InPlace(<<>> \o s.send \o s.pending, At(k), b)
      /\ s.send \in Seq(Outbound) /\ s.pending \in Seq(Outbound)
  BY DEF Serves, Counted, AheadCost, Ahead, Subscriber
<1>2. /\ Head(s.send) \in Outbound /\ Tail(s.send) \in Seq(Outbound)
      /\ Len(Tail(s.send)) = Len(s.send) - 1
      /\ s.send = <<Head(s.send)>> \o Tail(s.send)
  BY <1>1, HeadFirst
<1>3. PICK one \in Seq(Outbound) :
          /\ one = <<Head(s.send)>> /\ CostOf(one) = Cost(Head(s.send))
          /\ \A x, y : InPlace(one, x, y) <=> x \in Known /\ y \in Known
                                             /\ Brings(Head(s.send), x, y)
  BY <1>2, Single
<1>4. /\ n = [done |-> FALSE, queued |-> s.queued, send |-> Tail(s.send),
              pending |-> s.pending]
      /\ n \in Subscriber
  <2>1. \A x \in Seq(Outbound) : [s EXCEPT !.send = x] =
           [done |-> FALSE, queued |-> s.queued, send |-> x, pending |-> s.pending]
    <3> SUFFICES ASSUME NEW x \in Seq(Outbound)
                 PROVE  [s EXCEPT !.send = x] =
           [done |-> FALSE, queued |-> s.queued, send |-> x, pending |-> s.pending]
      OBVIOUS
    <3>1. s.done = FALSE
      BY <1>1 DEF Subscriber
    <3>2. s \in Subscriber
      BY <1>1
    <3> DEFINE v == [s EXCEPT !.send = x]
    <3>3. v = [s EXCEPT !.send = x]
      OBVIOUS
    <3> HIDE DEF v
    <3>4. v = [done |-> FALSE, queued |-> s.queued, send |-> x, pending |-> s.pending]
      BY <3>1, <3>2, <3>3 DEF Subscriber
    <3> QED BY <3>3, <3>4
  <2>2. n = [done |-> FALSE, queued |-> s.queued, send |-> Tail(s.send),
             pending |-> s.pending]
    BY <1>2, <2>1
  <2>3. s.queued \in 0..QueueLimit
    BY <1>1 DEF Subscriber
  <2> HIDE DEF n
  <2> QED BY <1>1, <1>2, <2>2, <2>3 DEF Subscriber
<1>5. /\ m \in Connection /\ m.writer = "taken" /\ m.taken = Head(s.send)
      /\ m.cursor = k.cursor /\ m.epoch = k.epoch
  BY <1>2 DEF Connection
<1>6. CostOf(s.send) = Cost(Head(s.send)) + CostOf(Tail(s.send))
  <2>1. CostOf(one \o Tail(s.send)) = CostOf(one) + CostOf(Tail(s.send))
    BY <1>2, <1>3, CostConcat
  <2> QED BY <1>2, <1>3, <2>1
<1>7. InPlace(one \o Tail(s.send) \o s.pending, At(k), b)
  <2>1. <<>> \o s.send = s.send
    BY <1>1, Joined
  <2> QED BY <1>1, <1>2, <1>3, <2>1
<1>8. Counted(n, AheadCost(m))
  <2>1. Cost(Head(s.send)) \in Nat /\ CostOf(Tail(s.send)) \in Nat /\ CostOf(s.pending) \in Nat
    BY <1>1, <1>2, OutboundType, CostNat
  <2>2. n.queued = CostOf(n.send) + CostOf(n.pending) + Cost(Head(s.send))
    <3> HIDE DEF n
    <3> QED BY <1>1, <1>4, <1>6, <2>1
  <2>3. Len(n.send) <= SendCap
    <3>1. Len(s.send) \in Nat
      BY <1>1, LenProperties
    <3>2. Len(n.send) = Len(s.send) - 1
      BY <1>2, <1>4
    <3> HIDE DEF n
    <3> QED BY <1>1, <3>1, <3>2, PaneConstants
  <2> HIDE DEF n, m
  <2> QED BY <1>4, <1>5, <2>2, <2>3 DEF Counted, AheadCost
<1>9. Head(s.send).kind = "output" => Head(s.send).from = k.cursor
  <2>1. Tail(s.send) \o s.pending \in Seq(Outbound)
        /\ one \o (Tail(s.send) \o s.pending) = one \o Tail(s.send) \o s.pending
    <3>1. one \in Seq(Outbound) /\ Tail(s.send) \in Seq(Outbound)
          /\ s.pending \in Seq(Outbound)
      BY <1>1, <1>2, <1>3
    <3>2. one \o (Tail(s.send) \o s.pending) = one \o Tail(s.send) \o s.pending
      BY <3>1, Regrouped, Zenon
    <3>3. Tail(s.send) \o s.pending \in Seq(Outbound)
      BY <3>1, Joined
    <3> QED BY <3>2, <3>3
  <2>2. InPlace(one \o (Tail(s.send) \o s.pending), At(k), b)
    BY <1>7, <2>1
  <2>3. PICK x \in Known : InPlace(one, At(k), x)
    BY <1>3, <2>1, <2>2, InPlaceSplit
  <2> QED BY <1>3, <2>3 DEF Brings, At
<1>10. Serves(n, m, b)
  <2>1. Ahead(m) = one /\ At(m) = At(k)
    BY <1>3, <1>5 DEF Ahead, At
  <2>2. n.send = Tail(s.send) /\ n.pending = s.pending
    BY <1>4
  <2>3. Ahead(m) \o n.send \o n.pending = one \o Tail(s.send) \o s.pending
    BY <2>1, <2>2
  <2> HIDE DEF n, m
  <2> QED BY <1>5, <1>7, <1>8, <2>1, <2>3 DEF Serves
<1> HIDE DEF n, m
<1> QED BY <1>4, <1>5, <1>9, <1>10 DEF n, m

WriterTaken(c) == [conn[c] EXCEPT !.writer = "taken", !.taken = Head(client[c].send)]

LEMMA WriterTakeKeeps ==
    ASSUME PaneInv, NEW c \in Clients, WriterTake(c)
    PROVE  PaneInv'
<1> DEFINE s == [client[c] EXCEPT !.send = Tail(client[c].send)]
           k == WriterTaken(c)
<1>1. /\ conn[c].writer = "live" /\ client[c].send # <<>>
      /\ UNCHANGED <<paneVars, attached, reader>>
  BY DEF WriterTake, WriterRest
<1>2. /\ client[c] \in Subscriber /\ conn[c] \in Connection /\ Placed(c) /\ Served(c)
  BY InvFacts
<1>3. ~client[c].done /\ reader[c].pc # "none"
  BY <1>1, <1>2, SubscriberType, NoConnType DEF Placed
<1>4. client' = [client EXCEPT ![c] = s] /\ conn' = [conn EXCEPT ![c] = k]
  BY DEF WriterTake, WriterTaken, PaneInv, PaneTypes
<1>5. \E b \in Known : Serves(client[c], conn[c], b)
  BY <1>2, <1>3 DEF Served
<1>6. /\ s \in Subscriber /\ ~s.done /\ k \in Connection
      /\ k.taken.kind = "output" => k.taken.from = k.cursor
      /\ \A b \in Known : Serves(client[c], conn[c], b) => Serves(s, k, b)
  BY <1>1, <1>2, <1>5, TakenServes DEF WriterTaken
<1> HIDE DEF s, k
<1> QED BY <1>1, <1>3, <1>4, <1>6, WriterKeeps

\* What writing the taken entry leaves of a connection.
Written(k) ==
    [k EXCEPT !.writer = "live", !.taken = Notice,
              !.cursor = k.cursor + (k.taken.to - k.taken.from),
              !.epoch = IF k.taken.kind = "resize" THEN k.taken.epoch ELSE k.epoch]

LEMMA WrittenType ==
    ASSUME NEW k \in Connection,
           k.taken.kind = "output" => k.taken.from = k.cursor
    PROVE  /\ Written(k) \in Connection /\ Written(k).writer = "live"
           /\ Written(k).cursor = IF k.taken.kind = "output" THEN k.taken.to ELSE k.cursor
           /\ Written(k).epoch = IF k.taken.kind = "resize" THEN k.taken.epoch ELSE k.epoch
<1>1. /\ k.taken \in Outbound /\ k.cursor \in 0..MaxOutput /\ k.epoch \in 0..MaxEpoch
      /\ Notice \in Outbound
  BY NoticeType DEF Connection
<1>2. /\ k.taken.from \in Nat /\ k.taken.to \in Nat /\ k.taken.epoch \in 0..MaxEpoch
      /\ k.taken.from <= k.taken.to /\ k.taken.to <= MaxOutput
      /\ k.taken.kind # "output" => k.taken.from = k.taken.to
  BY <1>1, OutboundType
<1> DEFINE cursor == k.cursor + (k.taken.to - k.taken.from)
           epoch  == IF k.taken.kind = "resize" THEN k.taken.epoch ELSE k.epoch
<1>3. /\ cursor = IF k.taken.kind = "output" THEN k.taken.to ELSE k.cursor
      /\ cursor \in 0..MaxOutput
  BY <1>1, <1>2, PaneConstants
<1>4. epoch \in 0..MaxEpoch
  BY <1>1, <1>2
<1>5. Written(k) = [k EXCEPT !.writer = "live", !.taken = Notice, !.cursor = cursor,
                             !.epoch = epoch]
  BY DEF Written
<1> HIDE DEF cursor, epoch
<1>6. /\ Written(k) \in Connection /\ Written(k).writer = "live"
      /\ Written(k).cursor = cursor /\ Written(k).epoch = epoch
  BY <1>1, <1>3, <1>4, <1>5 DEF Connection
<1> QED BY <1>3, <1>6 DEF epoch

LEMMA WrittenServes ==
    ASSUME NEW s, NEW k \in Connection, NEW b \in Known, Serves(s, k, b),
           k.writer = "taken", k.taken.kind # "exit",
           k.taken.kind = "output" => k.taken.from = k.cursor
    PROVE  LET n == Dequeued(s, k.taken)
           IN  n \in Subscriber /\ ~n.done /\ Serves(n, Written(k), b)
<1> DEFINE n == Dequeued(s, k.taken)
           m == Written(k)
<1>1. /\ k.taken \in Outbound /\ Counted(s, Cost(k.taken))
      /\ s.send \in Seq(Outbound) /\ s.pending \in Seq(Outbound)
      /\ InPlace(<<k.taken>> \o s.send \o s.pending, At(k), b)
  BY DEF Serves, Counted, AheadCost, Ahead, Subscriber, Connection
<1>2. /\ Counted(n, 0) /\ n.send \o n.pending = s.send \o s.pending
      /\ n.pending # <<>> => n.send # <<>>
      /\ n \in Subscriber /\ ~n.done
  BY <1>1, DequeuedKeeps DEF Counted
<1>3. /\ m \in Connection /\ m.writer = "live"
      /\ m.cursor = IF k.taken.kind = "output" THEN k.taken.to ELSE k.cursor
      /\ m.epoch = IF k.taken.kind = "resize" THEN k.taken.epoch ELSE k.epoch
  BY WrittenType
<1>4. PICK one \in Seq(Outbound) :
          /\ one = <<k.taken>>
          /\ \A x, y : InPlace(one, x, y) <=> x \in Known /\ y \in Known
                                             /\ Brings(k.taken, x, y)
  BY <1>1, Single
<1>5. s.send \o s.pending \in Seq(Outbound)
      /\ one \o (s.send \o s.pending) = one \o s.send \o s.pending
  <2>1. s.send \in Seq(Outbound) /\ s.pending \in Seq(Outbound) /\ one \in Seq(Outbound)
    BY <1>1, <1>4
  <2>2. one \o (s.send \o s.pending) = one \o s.send \o s.pending
    BY <2>1, Regrouped, Zenon
  <2>3. s.send \o s.pending \in Seq(Outbound)
    BY <2>1, Joined
  <2> QED BY <2>2, <2>3
<1>6. PICK x \in Known : InPlace(one, At(k), x) /\ InPlace(s.send \o s.pending, x, b)
  <2>1. InPlace(one \o (s.send \o s.pending), At(k), b)
    BY <1>1, <1>4, <1>5
  <2> QED BY <1>4, <1>5, <2>1, InPlaceSplit
<1>7. x = At(m)
  <2>1. Brings(k.taken, At(k), x)
    BY <1>4, <1>6
  <2>2. k.taken.kind \in {"output", "resize", "notice", "exit"}
    BY <1>1, OutboundType
  <2>3. x.cursor = m.cursor /\ x.epoch = m.epoch
    <3> HIDE DEF m
    <3> QED BY <1>3, <2>1, <2>2 DEF Brings, At
  <2> QED BY <1>6, <2>3 DEF At, Known
<1>8. Ahead(m) \o n.send \o n.pending = s.send \o s.pending
  <2>1. Ahead(m) = <<>> /\ n.send \in Seq(Outbound)
    BY <1>2, <1>3 DEF Ahead, Subscriber
  <2>2. <<>> \o n.send = n.send
    BY <2>1, Joined
  <2> HIDE DEF n, m
  <2> QED BY <1>2, <2>1, <2>2
<1>9. Serves(n, m, b)
  <2>1. AheadCost(m) = 0
    BY <1>3 DEF AheadCost
  <2> HIDE DEF n, m
  <2> QED BY <1>2, <1>3, <1>6, <1>7, <1>8, <2>1 DEF Serves
<1> HIDE DEF n, m
<1> QED BY <1>2, <1>9 DEF n, m

LEMMA WriterWriteKeeps ==
    ASSUME PaneInv, NEW c \in Clients, WriterWrite(c)
    PROVE  PaneInv'
<1>1. conn[c].writer = "taken" /\ WriterRest
  BY DEF WriterWrite
<1>2. CASE WriterReturns(c)
  BY <1>1, <1>2, WriterReturnsKeeps
<1>3. CASE ~WriterReturns(c)
  <2> DEFINE s == Dequeued(client[c], conn[c].taken)
             k == Written(conn[c])
  <2>1. /\ client[c] \in Subscriber /\ conn[c] \in Connection /\ Placed(c) /\ Served(c)
    BY InvFacts
  <2>2. /\ conn[c].taken.kind # "exit"
        /\ client' = [client EXCEPT ![c] = s] /\ conn' = [conn EXCEPT ![c] = k]
    BY <1>3 DEF WriterWrite, Written, PaneInv, PaneTypes
  <2>3. reader[c].pc # "none" /\ (client[c].done => client[c] = Dropped)
    BY <1>1, <2>1, NoConnType DEF Placed
  <2>4. conn[c].taken \in Outbound
        /\ (conn[c].taken.kind = "output" => conn[c].taken.from = conn[c].cursor)
    BY <1>1, <2>1 DEF Placed, Connection
  <2>5. k \in Connection /\ k.writer = "live"
    BY <2>1, <2>4, WrittenType
  <2>6. CASE client[c].done
    <3>1. s = Dropped /\ s \in Subscriber /\ s.done
      BY <2>3, <2>4, <2>6, DequeuedDropped, SubscriberType
    <3> HIDE DEF s, k
    <3> QED BY <1>1, <2>2, <2>3, <2>5, <3>1, WriterKeeps DEF WriterRest
  <2>7. CASE ~client[c].done
    <3>1. \E b \in Known : Serves(client[c], conn[c], b)
      BY <2>1, <2>3, <2>7 DEF Served
    <3>2. /\ s \in Subscriber /\ ~s.done
          /\ \A b \in Known : Serves(client[c], conn[c], b) => Serves(s, k, b)
      BY <1>1, <2>1, <2>2, <2>4, <3>1, WrittenServes
    <3> HIDE DEF s, k
    <3> QED BY <1>1, <2>2, <2>3, <2>5, <2>7, <3>2, WriterKeeps DEF WriterRest
  <2> QED BY <2>6, <2>7
<1> QED BY <1>2, <1>3

-----------------------------------------------------------------------------
(* The readers keep it: the end of a connection.                           *)

LEMMA ReaderEndKeeps ==
    ASSUME PaneInv, NEW c \in Clients, ReaderEnd(c)
    PROVE  PaneInv'
<1>1. /\ reader[c].pc = "idle" /\ client' = [client EXCEPT ![c] = Dropped]
      /\ conn' = [conn EXCEPT ![c].open = FALSE]
      /\ reader' = [reader EXCEPT ![c].pc = "wait"]
      /\ UNCHANGED <<end, closing, size, output, attached>>
  BY DEF ReaderEnd, paneVars
<1>2. /\ PaneTypes /\ UnderWay /\ Come /\ OwnerAttached
      /\ client \in [Clients -> Subscriber] /\ conn \in [Clients -> Connection]
      /\ reader \in [Clients -> Attachment]
  BY DEF PaneInv, PaneTypes
<1>3. /\ client'[c] = Dropped /\ conn'[c] = [conn[c] EXCEPT !.open = FALSE]
      /\ reader'[c] = [reader[c] EXCEPT !.pc = "wait"]
      /\ \A d \in Clients \ {c} : client'[d] = client[d] /\ conn'[d] = conn[d]
                                  /\ reader'[d] = reader[d]
  BY <1>1, <1>2
<1>4. /\ conn'[c] \in Connection /\ conn'[c].writer = conn[c].writer
      /\ conn'[c].taken = conn[c].taken /\ conn'[c].cursor = conn[c].cursor
      /\ reader'[c] \in Attachment /\ reader'[c].pc = "wait"
      /\ reader'[c].targets = reader[c].targets
  <2>1. conn[c] \in Connection /\ reader[c] \in Attachment
    BY <1>2
  <2>2. /\ conn'[c] \in Connection /\ conn'[c].writer = conn[c].writer
        /\ conn'[c].taken = conn[c].taken /\ conn'[c].cursor = conn[c].cursor
    BY <1>3, <2>1 DEF Connection
  <2>3. /\ reader'[c] \in Attachment /\ reader'[c].pc = "wait"
        /\ reader'[c].targets = reader[c].targets
    BY <1>3, <2>1 DEF Attachment
  <2> QED BY <2>2, <2>3
<1>5. PaneTypes'
  <2>1. /\ client' \in [Clients -> Subscriber] /\ conn' \in [Clients -> Connection]
        /\ reader' \in [Clients -> Attachment]
    BY <1>1, <1>2, <1>3, <1>4, SubscriberType
  <2> QED BY <1>1, <1>2, <2>1 DEF PaneTypes
<1>6. UnderWay'
  BY <1>1, <1>2, <1>3, <1>4 DEF UnderWay
<1>7. Come' /\ OwnerAttached'
  BY <1>1, <1>2, <1>3, <1>4 DEF Come, OwnerAttached
<1>8. ASSUME NEW d \in Clients PROVE Placed(d)' /\ Served(d)'
  <2>1. Placed(d) /\ Served(d) /\ client[d] \in Subscriber
    BY InvFacts
  <2>2. UpTo(d)' = UpTo(d) /\ (~Telling(d)' => ~Telling(d))
    BY <1>1, <1>3, <1>4 DEF UpTo, Telling
  <2>3. CASE d = c
    <3>1. reader'[d].pc \in {"idle", "wait", "applied"} => d \in attached'
      BY <1>1, <2>1, <2>3 DEF Placed
    <3>2. client'[d] = Dropped /\ client'[d].done
      BY <1>3, <2>3, SubscriberType
    <3> QED BY <1>1, <1>3, <1>4, <2>1, <2>3, <3>1, <3>2, DroppedKeeps
  <2>4. CASE d # c
    BY <1>1, <1>3, <2>1, <2>2, <2>4, StillServed, StillPlaced
  <2> QED BY <2>3, <2>4
<1> QED BY <1>5, <1>6, <1>7, <1>8 DEF PaneInv

LEMMA ReaderDetachKeeps ==
    ASSUME PaneInv, NEW c \in Clients, ReaderDetach(c)
    PROVE  PaneInv'
<1> DEFINE told == IF size.owner = c THEN attached' ELSE {}
<1>1. /\ reader[c].pc = "wait" /\ attached' = attached \ {c}
      /\ \A d \in Clients : reader[d].pc \notin {"applied", "release"}
      /\ size' = [size EXCEPT !.owner = IF size.owner = c THEN Free ELSE size.owner]
      /\ reader' = [reader EXCEPT ![c].pc = "release", ![c].targets = told]
      /\ UNCHANGED <<end, closing, output, client, conn>>
  BY DEF ReaderDetach, ResizeFree, OwnerWithout
<1>2. /\ PaneTypes /\ UnderWay /\ Come /\ OwnerAttached
      /\ reader \in [Clients -> Attachment] /\ attached \in SUBSET Clients
  BY DEF PaneInv, PaneTypes
<1>3. told \in SUBSET attached'
  OBVIOUS
<1> HIDE DEF told
<1>4. /\ reader'[c] = [reader[c] EXCEPT !.pc = "release", !.targets = told]
      /\ \A d \in Clients \ {c} : reader'[d] = reader[d]
  BY <1>1, <1>2
<1>5. reader'[c] \in Attachment /\ reader'[c].pc = "release" /\ reader'[c].targets = told
  <2>1. reader[c] \in Attachment /\ told \in SUBSET Clients
    BY <1>1, <1>2, <1>3
  <2> QED BY <1>4, <2>1 DEF Attachment
<1>6. PaneTypes'
  <2>1. reader' \in [Clients -> Attachment]
    BY <1>1, <1>2, <1>4, <1>5
  <2>2. size' \in [now : Sizes, epoch : 0..MaxEpoch, owner : Clients \cup {Free}]
    BY <1>1, <1>2 DEF PaneTypes
  <2>3. attached' \in SUBSET Clients
    BY <1>1, <1>2
  <2> QED BY <1>1, <1>2, <2>1, <2>2, <2>3 DEF PaneTypes
<1>7. UnderWay'
  BY <1>1, <1>2, <1>4, <1>5 DEF UnderWay
<1>8. Come'
  BY <1>1, <1>2, <1>3, <1>4, <1>5 DEF Come
<1>9. OwnerAttached' /\ size'.epoch = size.epoch
  BY <1>1, <1>2 DEF OwnerAttached, PaneTypes
<1>10. ASSUME NEW d \in Clients PROVE Placed(d)' /\ Served(d)'
  <2>1. /\ Placed(d) /\ Served(d)
        /\ reader[d].pc # "none" /\ ~client[d].done => reader[d].pc \in {"idle", "applied"}
    BY InvFacts
  <2>2. UpTo(d)' = UpTo(d) /\ ~Telling(d)
    BY <1>1 DEF UpTo, Telling
  <2>3. CASE d = c
    BY <1>1, <1>5, <2>1, <2>3 DEF Placed, Served
  <2>4. CASE d # c
    BY <1>1, <1>4, <1>9, <2>1, <2>2, <2>4, StillServed, StillPlaced
  <2> QED BY <2>3, <2>4
<1> QED BY <1>6, <1>7, <1>8, <1>9, <1>10 DEF PaneInv

\* Notices bring a browser nowhere else.
LEMMA NoticeKeeps ==
    ASSUME PaneInv, NEW T, Deliver(T, Notice),
           \A c \in T : c \in Clients => reader[c].pc # "none",
           UNCHANGED <<end, closing, output, attached, conn>>,
           size' \in [now : Sizes, epoch : 0..MaxEpoch, owner : Clients \cup {Free}],
           size'.epoch = size.epoch, size'.owner # Free => size'.owner \in attached,
           reader' \in [Clients -> Attachment],
           \A c \in Clients :
              \/ reader'[c] = reader[c]
              \/ reader[c].pc = "release" /\ reader'[c].pc = "gone" /\ reader'[c].targets = {}
    PROVE  PaneInv'
<1>1. PaneTypes /\ UnderWay /\ Come
  BY DEF PaneInv
<1>2. ASSUME NEW c \in Clients PROVE client'[c] \in Subscriber /\ Placed(c)' /\ Served(c)'
  <2>1. /\ Placed(c) /\ Served(c)
        /\ client \in [Clients -> Subscriber] /\ conn \in [Clients -> Connection]
    BY <1>1, InvFacts DEF PaneTypes
  <2>2. UpTo(c)' = UpTo(c) /\ (~Telling(c)' => ~Telling(c))
    BY DEF UpTo, Telling
  <2>3. \A b \in Known : Brings(Notice, b, b)
    BY NoticeType DEF Brings
  <2>4. Notice \in Outbound
    BY NoticeType
  <2>5. /\ reader'[c].pc # "none" <=> reader[c].pc # "none"
        /\ reader'[c].pc \in {"idle", "wait", "applied"} => c \in attached'
        /\ reader[c].pc \in {"idle", "applied"} => reader'[c].pc \in {"idle", "applied"}
    BY <2>1 DEF Placed
  <2>6. ASSUME NEW b \in Known, b.cursor = UpTo(c), ~Telling(c) => b.epoch = size.epoch
        PROVE  \E d \in Known :
                  /\ c \in T => Brings(Notice, b, d)
                  /\ c \notin T => d = b
                  /\ d.cursor = UpTo(c)'
                  /\ ~Telling(c)' => d.epoch = size'.epoch
    BY <2>2, <2>3, <2>6
  <2> QED BY <2>1, <2>4, <2>5, <2>6, DeliverKeeps
<1>3. PaneTypes'
  <2>1. client' \in [Clients -> Subscriber]
    BY <1>2, ClientsTyped
  <2> QED BY <1>1, <2>1 DEF PaneTypes
<1>4. UnderWay'
  BY <1>1 DEF UnderWay
<1>5. Come' /\ OwnerAttached'
  BY <1>1 DEF Come, OwnerAttached
<1> QED BY <1>2, <1>3, <1>4, <1>5 DEF PaneInv

LEMMA ReaderReleaseKeeps ==
    ASSUME PaneInv, NEW c \in Clients, ReaderRelease(c)
    PROVE  PaneInv'
<1>1. /\ reader[c].pc = "release" /\ Deliver(reader[c].targets, Notice)
      /\ reader' = [reader EXCEPT ![c] = [IdleReader EXCEPT !.pc = "gone"]]
      /\ UNCHANGED <<end, closing, size, output, attached, conn>>
  BY DEF ReaderRelease, paneVars
<1>2. /\ PaneTypes /\ Come /\ OwnerAttached /\ reader \in [Clients -> Attachment]
      /\ size \in [now : Sizes, epoch : 0..MaxEpoch, owner : Clients \cup {Free}]
  BY DEF PaneInv, PaneTypes
<1>3. /\ reader' \in [Clients -> Attachment]
      /\ reader'[c].pc = "gone" /\ reader'[c].targets = {}
      /\ \A d \in Clients \ {c} : reader'[d] = reader[d]
  BY <1>1, <1>2, IdleType
<1>4. \A d \in reader[c].targets : d \in Clients => reader[d].pc # "none"
  BY <1>2 DEF Come
<1> QED BY <1>1, <1>2, <1>3, <1>4, NoticeKeeps DEF OwnerAttached

-----------------------------------------------------------------------------
(* The readers keep it: resizes.                                           *)

LEMMA ResizedType ==
    ASSUME PaneInv, NEW s \in Sizes, NEW r \in Resized(s)
    PROVE  r.now \in Sizes
<1>1. size.now \in Sizes
  BY DEF PaneInv, PaneTypes
<1>2. CASE closing
  BY <1>1, <1>2 DEF Resized
<1>3. CASE ~closing
  <2> DEFINE oks == IF s = size.now \/ Exited THEN {TRUE} ELSE BOOLEAN
  <2>1. r \in [now : {s}, ok : oks]
    BY <1>3 DEF Resized
  <2> HIDE DEF oks
  <2> QED BY <2>1
<1> QED BY <1>2, <1>3

\* A browser that is told that its resize failed, or nothing.
LEMMA ResizeTold ==
    ASSUME PaneInv, NEW c \in Clients, reader[c].pc = "idle",
           Deliver({c}, Notice) \/ UNCHANGED client,
           NEW now \in Sizes, NEW owner \in {size.owner, c},
           size' = [size EXCEPT !.now = now, !.owner = owner],
           UNCHANGED <<end, closing, output, attached, conn, reader>>
    PROVE  PaneInv'
<1>1. /\ PaneTypes /\ OwnerAttached /\ client \in [Clients -> Subscriber]
      /\ reader \in [Clients -> Attachment]
      /\ size \in [now : Sizes, epoch : 0..MaxEpoch, owner : Clients \cup {Free}]
  BY DEF PaneInv, PaneTypes
<1>2. \E T \in SUBSET {c} : Deliver(T, Notice)
  <2>1. CASE UNCHANGED client
    <3>1. Deliver({}, Notice)
      BY <1>1, <2>1 DEF Deliver
    <3> QED BY <3>1
  <2> QED BY <2>1
<1>3. /\ size' \in [now : Sizes, epoch : 0..MaxEpoch, owner : Clients \cup {Free}]
      /\ size'.epoch = size.epoch /\ size'.owner = owner
  BY <1>1
<1>4. size'.owner # Free => size'.owner \in attached
  <2>1. c \in attached
    BY InvFacts DEF Placed
  <2> QED BY <1>1, <1>3, <2>1 DEF OwnerAttached
<1> QED BY <1>1, <1>2, <1>3, <1>4, NoticeKeeps

LEMMA ResizeErrorKeeps ==
    ASSUME PaneInv, NEW c \in Clients, NEW epoch, NEW s, NEW claim,
           ResizeError(c, epoch, s, claim)
    PROVE  PaneInv'
<1>1. /\ reader[c].pc = "idle" /\ Deliver({c}, Notice)
      /\ UNCHANGED <<end, closing, size, output, attached, conn, reader>>
  BY DEF ResizeError, paneVars
<1>2. /\ size.now \in Sizes /\ size.owner \in {size.owner, c}
      /\ size' = [size EXCEPT !.now = size.now, !.owner = size.owner]
  BY <1>1 DEF PaneInv, PaneTypes
<1> QED BY <1>1, <1>2, ResizeTold

LEMMA LegacyResizeKeeps ==
    ASSUME PaneInv, NEW c \in Clients, NEW s \in Sizes, LegacyResize(c, s)
    PROVE  PaneInv'
<1>1. /\ reader[c].pc = "idle"
      /\ UNCHANGED <<end, closing, output, attached, conn, reader>>
  BY DEF LegacyResize
<1>2. CASE Deliver({c}, Notice) /\ UNCHANGED size
  <2>1. /\ size.now \in Sizes /\ size.owner \in {size.owner, c}
        /\ size' = [size EXCEPT !.now = size.now, !.owner = size.owner]
    BY <1>2 DEF PaneInv, PaneTypes
  <2> QED BY <1>1, <1>2, <2>1, ResizeTold
<1>3. CASE /\ \E r \in Resized(s) :
                 size' = [size EXCEPT !.now = r.now, !.owner = IF r.ok THEN c ELSE @]
           /\ UNCHANGED client
  <2>1. PICK r \in Resized(s) :
            size' = [size EXCEPT !.now = r.now, !.owner = IF r.ok THEN c ELSE @]
    BY <1>3
  <2>2. r.now \in Sizes
    BY ResizedType
  <2>3. \E owner \in {size.owner, c} : size' = [size EXCEPT !.now = r.now, !.owner = owner]
    BY <2>1
  <2> QED BY <1>1, <1>3, <2>2, <2>3, ResizeTold
<1> QED BY <1>2, <1>3 DEF LegacyResize

LEMMA ResizeBeginKeeps ==
    ASSUME PaneInv, NEW c \in Clients, NEW epoch \in 1..MaxEpoch, NEW s \in Sizes, NEW claim,
           ResizeBegin(c, epoch, s, claim)
    PROVE  PaneInv'
<1>1. /\ reader[c].pc = "idle" /\ output.pc # "deliver"
      /\ \A d \in Clients : reader[d].pc \notin {"applied", "release"}
      /\ UNCHANGED <<end, closing, output, attached, conn>>
  BY DEF ResizeBegin, ResizeFree, OutputFree
<1>2. PICK r \in Resized(s) :
          IF r.ok
          THEN /\ size' = [now |-> r.now, epoch |-> epoch, owner |-> c]
               /\ reader' = [reader EXCEPT ![c] =
                     [pc |-> "applied", at |-> end, targets |-> attached]]
               /\ UNCHANGED client
          ELSE /\ size' = [size EXCEPT !.now = r.now]
               /\ Deliver({c}, Notice)
               /\ UNCHANGED reader
  BY DEF ResizeBegin, ToldOfResize
<1>3. r.now \in Sizes
  BY <1>2, ResizedType
<1>4. CASE ~r.ok
  <2>1. /\ size' = [size EXCEPT !.now = r.now, !.owner = size.owner]
        /\ size.owner \in {size.owner, c}
    BY <1>2, <1>4 DEF PaneInv, PaneTypes
  <2> QED BY <1>1, <1>2, <1>3, <1>4, <2>1, ResizeTold
<1>5. CASE r.ok
  <2>1. /\ size' = [now |-> r.now, epoch |-> epoch, owner |-> c]
        /\ reader' = [reader EXCEPT ![c] =
              [pc |-> "applied", at |-> end, targets |-> attached]]
        /\ UNCHANGED client
    BY <1>2, <1>5
  <2>2. /\ PaneTypes /\ UnderWay /\ Come /\ reader \in [Clients -> Attachment]
        /\ attached \in SUBSET Clients /\ end \in 0..MaxOutput /\ c \in attached
    BY <1>1, InvFacts DEF PaneInv, PaneTypes, Placed
  <2>3. /\ reader'[c] = [pc |-> "applied", at |-> end, targets |-> attached]
        /\ reader'[c] \in Attachment
        /\ \A d \in Clients \ {c} : reader'[d] = reader[d]
    BY <2>1, <2>2 DEF Attachment
  <2>4. PaneTypes'
    <3>1. size' \in [now : Sizes, epoch : 0..MaxEpoch, owner : Clients \cup {Free}]
      BY <1>3, <2>1, PaneConstants
    <3>2. reader' \in [Clients -> Attachment]
      BY <2>1, <2>2, <2>3
    <3> QED BY <1>1, <2>1, <2>2, <3>1, <3>2 DEF PaneTypes
  <2>5. UnderWay'
    BY <1>1, <2>2, <2>3 DEF UnderWay
  <2>6. Come' /\ OwnerAttached'
    BY <1>1, <2>1, <2>2, <2>3 DEF Come, OwnerAttached
  <2>7. ASSUME NEW d \in Clients PROVE Placed(d)' /\ Served(d)'
    <3>1. /\ Placed(d) /\ Served(d)
          /\ reader[d].pc # "none" /\ ~client[d].done => d \in attached
      BY InvFacts
    <3>2. /\ reader'[d].pc # "none" <=> reader[d].pc # "none"
          /\ reader[d].pc \in {"idle", "applied"} => reader'[d].pc \in {"idle", "applied"}
          /\ reader'[d].pc \in {"idle", "wait", "applied"} => d \in attached'
      BY <1>1, <2>2, <2>3, <3>1 DEF Placed
    <3>3. UpTo(d)' = UpTo(d) /\ (d \in attached => Telling(d)')
      BY <1>1, <2>3 DEF UpTo, Telling
    <3>4. Placed(d)'
      BY <1>1, <2>1, <3>1, <3>2 DEF Placed
    <3>5. Served(d)'
      BY <1>1, <2>1, <3>1, <3>2, <3>3 DEF Served
    <3> QED BY <3>4, <3>5
  <2> QED BY <2>4, <2>5, <2>6, <2>7 DEF PaneInv
<1> QED BY <1>4, <1>5

LEMMA ResizeAppliedKeeps ==
    ASSUME PaneInv, NEW c \in Clients, ResizeApplied(c)
    PROVE  PaneInv'
<1> DEFINE T == reader[c].targets
           e == Control("resize", size.epoch, end)
<1>1. /\ PaneTypes /\ UnderWay /\ Come /\ OwnerAttached
      /\ reader \in [Clients -> Attachment] /\ size.epoch \in 0..MaxEpoch
      /\ end \in 0..MaxOutput
  BY DEF PaneInv, PaneTypes
<1>2. /\ reader[c].pc = "applied" /\ reader[c].at = end /\ output.pc # "deliver"
      /\ \A d \in Clients : reader[d].pc \in {"applied", "release"} => d = c
      /\ Deliver(T, e) /\ reader' = [reader EXCEPT ![c] = IdleReader]
      /\ UNCHANGED <<end, closing, size, output, attached, conn>>
  BY <1>1 DEF ResizeApplied, UnderWay, Applied, paneVars
<1>3. /\ reader' \in [Clients -> Attachment]
      /\ reader'[c].pc = "idle" /\ reader'[c].targets = {}
      /\ \A d \in Clients \ {c} : reader'[d] = reader[d]
  BY <1>1, <1>2, IdleType
<1>4. e \in Outbound /\ e.kind = "resize" /\ e.to = end /\ e.epoch = size.epoch
  BY <1>1, ControlType DEF Control
<1> HIDE DEF e
<1>5. ASSUME NEW d \in Clients PROVE client'[d] \in Subscriber /\ Placed(d)' /\ Served(d)'
  <2>1. /\ Placed(d) /\ Served(d)
        /\ client \in [Clients -> Subscriber] /\ conn \in [Clients -> Connection]
    BY <1>1, InvFacts DEF PaneTypes
  <2>2. d \in T => reader[d].pc # "none"
    BY <1>1 DEF Come
  <2>3. UpTo(d) = end /\ UpTo(d)' = end /\ (Telling(d) => d \in T)
    BY <1>2 DEF UpTo, Telling
  <2>4. /\ reader'[d].pc # "none" <=> reader[d].pc # "none"
        /\ reader'[d].pc \in {"idle", "wait", "applied"} => d \in attached'
        /\ reader[d].pc \in {"idle", "applied"} => reader'[d].pc \in {"idle", "applied"}
    BY <1>2, <1>3, <2>1 DEF Placed
  <2>5. ASSUME NEW b \in Known, b.cursor = UpTo(d), ~Telling(d) => b.epoch = size.epoch
        PROVE  \E k \in Known :
                  /\ d \in T => Brings(e, b, k)
                  /\ d \notin T => k = b
                  /\ k.cursor = UpTo(d)'
                  /\ ~Telling(d)' => k.epoch = size'.epoch
    <3>1. CASE d \in T
      <4> DEFINE k == [cursor |-> end, epoch |-> size.epoch]
      <4>1. k \in Known /\ k.cursor = end /\ k.epoch = size.epoch
        BY <1>1, KnownType
      <4> HIDE DEF k
      <4>2. Brings(e, b, k)
        BY <1>4, <2>3, <2>5, <4>1 DEF Brings
      <4> QED BY <1>2, <2>3, <3>1, <4>1, <4>2
    <3>2. CASE d \notin T
      BY <1>2, <2>3, <2>5, <3>2
    <3> QED BY <3>1, <3>2
  <2> QED BY <1>2, <1>4, <2>1, <2>2, <2>4, <2>5, DeliverKeeps
<1>6. PaneTypes'
  <2>1. client' \in [Clients -> Subscriber]
    BY <1>2, <1>5, ClientsTyped
  <2> QED BY <1>1, <1>2, <1>3, <2>1 DEF PaneTypes
<1>7. UnderWay'
  BY <1>1, <1>2, <1>3 DEF UnderWay
<1>8. Come' /\ OwnerAttached'
  BY <1>1, <1>2, <1>3 DEF Come, OwnerAttached
<1> QED BY <1>5, <1>6, <1>7, <1>8 DEF PaneInv

-----------------------------------------------------------------------------
(* Every step keeps it.                                                    *)

LEMMA StutterKeeps ==
    ASSUME PaneInv, UNCHANGED vars
    PROVE  PaneInv'
<1>1. UNCHANGED <<end, closing, size, output, attached, client, conn, reader>>
  BY DEF vars
<1>2. PaneTypes' /\ UnderWay' /\ Come' /\ OwnerAttached'
  BY <1>1 DEF PaneInv, PaneTypes, UnderWay, Come, OwnerAttached
<1>3. ASSUME NEW c \in Clients PROVE Placed(c)' /\ Served(c)'
  <2>1. UpTo(c)' = UpTo(c) /\ Telling(c)' = Telling(c)
    BY <1>1 DEF UpTo, Telling
  <2> QED BY <1>1, <2>1, InvFacts, StillServed, StillPlaced
<1> QED BY <1>2, <1>3 DEF PaneInv

LEMMA AttachmentKeeps ==
    ASSUME PaneInv, NEW c \in Clients,
           \/ Attach(c) \/ Writer(c) \/ ReaderEnd(c) \/ ReaderDetach(c)
           \/ ReaderRelease(c) \/ ResizeApplied(c) \/ Resize(c)
    PROVE  PaneInv'
<1>1. CASE Attach(c)
  BY <1>1, AttachKeeps
<1>2. CASE Writer(c)
  BY <1>2, WriterReplayKeeps, WriterTakeKeeps, WriterWriteKeeps, WriterStopsKeeps DEF Writer
<1>3. CASE ReaderEnd(c)
  BY <1>3, ReaderEndKeeps
<1>4. CASE ReaderDetach(c)
  BY <1>4, ReaderDetachKeeps
<1>5. CASE ReaderRelease(c)
  BY <1>5, ReaderReleaseKeeps
<1>6. CASE ResizeApplied(c)
  BY <1>6, ResizeAppliedKeeps
<1>7. CASE Resize(c)
  <2>1. PICK s \in Sizes :
           \/ \E epoch \in 1..MaxEpoch, claim \in BOOLEAN :
                 ResizeBegin(c, epoch, s, claim) \/ ResizeError(c, epoch, s, claim)
           \/ LegacyResize(c, s)
    BY <1>7 DEF Resize
  <2> QED BY <2>1, ResizeBeginKeeps, ResizeErrorKeeps, LegacyResizeKeeps
<1> QED BY <1>1, <1>2, <1>3, <1>4, <1>5, <1>6, <1>7

LEMMA PaneStep == PaneInv /\ [Next]_vars => PaneInv'
<1> SUFFICES ASSUME PaneInv, [Next]_vars PROVE PaneInv'
  OBVIOUS
<1>1. CASE \E n \in 1..ChunkMax : OutputRead(n)
  BY <1>1, OutputReadKeeps
<1>2. CASE Output
  BY <1>2, OutputDeliverKeeps, OutputNotifyKeeps, OutputFinishKeeps DEF Output
<1>3. CASE OutputExit
  BY <1>3, OutputExitKeeps
<1>4. CASE Close
  BY <1>4, CloseKeeps
<1>5. CASE \E c \in Clients :
             \/ Attach(c) \/ Writer(c) \/ ReaderEnd(c) \/ ReaderDetach(c)
             \/ ReaderRelease(c) \/ ResizeApplied(c) \/ Resize(c)
  BY <1>5, AttachmentKeeps
<1>6. CASE UNCHANGED vars
  BY <1>6, StutterKeeps
<1> QED BY <1>1, <1>2, <1>3, <1>4, <1>5, <1>6 DEF Next

LEMMA PaneInvariant == Spec => []PaneInv
BY PaneInitial, PaneStep, PTL DEF Spec

-----------------------------------------------------------------------------
(* What follows from it.                                                   *)

LEMMA QueueLength ==
    ASSUME PaneInv, NEW c \in Clients
    PROVE  Len(client[c].send) <= SendCap
<1>1. CASE reader[c].pc = "none"
  <2>1. client[c] = NewClient
    BY <1>1, InvFacts DEF Placed
  <2> QED BY <2>1, SubscriberType DEF Counted
<1>2. CASE client[c].done
  <2>1. client[c].send = <<>>
    BY <1>2, InvFacts, SubscriberType DEF Placed
  <2> QED BY <2>1, PaneConstants, EmptySeq
<1>3. CASE reader[c].pc # "none" /\ ~client[c].done
  BY <1>3, InvFacts DEF Served, Serves, Counted
<1> QED BY <1>1, <1>2, <1>3

LEMMA PaneInvTyped == PaneInv => TypeOK
<1> SUFFICES ASSUME PaneInv PROVE TypeOK
  OBVIOUS
<1>1. PaneTypes /\ Outbound \subseteq Entry
  BY DEF PaneInv, Outbound
<1>2. PaneType /\ attached \subseteq Clients
  BY <1>1 DEF PaneTypes, PaneType
<1>3. ASSUME NEW c \in Clients PROVE ClientType(c) /\ ConnType(c) /\ ReaderType(c)
  <2>1. /\ client[c] \in Subscriber /\ conn[c] \in Connection /\ reader[c] \in Attachment
    BY InvFacts
  <2>2. ClientType(c)
    <3>1. /\ client[c].done \in BOOLEAN /\ client[c].queued \in 0..QueueLimit
          /\ client[c].send \in Seq(Outbound) /\ client[c].pending \in Seq(Outbound)
      BY <2>1 DEF Subscriber
    <3>2. client[c].send \in Seq(Entry) /\ client[c].pending \in Seq(Entry)
      BY <1>1, <3>1
    <3> QED BY <3>1, <3>2, QueueLength DEF ClientType
  <2>3. ConnType(c)
    BY <1>1, <2>1 DEF ConnType, Connection
  <2>4. ReaderType(c)
    BY <2>1 DEF ReaderType, Attachment
  <2> QED BY <2>2, <2>3, <2>4
<1> QED BY <1>2, <1>3 DEF TypeOK

\* Every variable of a pane and of its attachments has the type of its Go
\* counterpart, and no subscriber's channel exceeds its capacity (newPaneClient).
THEOREM PaneTyped == Spec => []TypeOK
BY PaneInvariant, PaneInvTyped, PTL

\* The size of a pane is owned by an attachment it has, however attachments end
\* while others resize (detachClient, applyResize, applyLegacyInputResize).
THEOREM SizeOwnerAttached == Spec => []OwnerAttached
<1>1. PaneInv => OwnerAttached
  BY DEF PaneInv
<1> QED BY <1>1, PaneInvariant, PTL

\* The byte count of each open subscriber is that of what is queued to it, within
\* the limit, and no backlog waits for a writer that waits for the channel.
THEOREM QueuesAccounted == Spec => []QueueAccounting
<1>1. ASSUME PaneInv PROVE QueueAccounting
  <2> SUFFICES ASSUME NEW c \in Clients, ~client[c].done
               PROVE  /\ client[c].queued = CostOf(client[c].send) + CostOf(client[c].pending)
                            + IF conn[c].writer = "taken" THEN Cost(conn[c].taken) ELSE 0
                      /\ client[c].queued <= QueueLimit
                      /\ conn[c].writer = "live" /\ client[c].pending # <<>> =>
                            client[c].send # <<>>
    BY DEF QueueAccounting
  <2>1. client[c].queued <= QueueLimit
    BY <1>1, InvFacts, PaneConstants DEF Subscriber
  <2>2. CASE reader[c].pc = "none"
    <3>1. client[c] = NewClient /\ conn[c].writer = "none"
      BY <1>1, <2>2, InvFacts, NoConnType DEF Placed
    <3>2. client[c].queued = CostOf(client[c].send) + CostOf(client[c].pending) + 0
      BY <3>1, SubscriberType DEF Counted
    <3> QED BY <2>1, <3>1, <3>2
  <2>3. CASE reader[c].pc # "none"
    <3>1. PICK b \in Known : Serves(client[c], conn[c], b)
      BY <1>1, <2>3, InvFacts DEF Served
    <3> QED BY <2>1, <3>1 DEF Serves, Counted, AheadCost
  <2> QED BY <2>2, <2>3
<1> QED BY <1>1, PaneInvariant, PTL

\* The whole backlog of an attachment that still gets everything brings its browser
\* to the end of the output and to the resize epoch of the pane.
LEMMA BacklogInPlace ==
    ASSUME PaneInv, NEW c \in Clients, Following(c)
    PROVE  /\ Backlog(c) \in Seq(Outbound)
           /\ \E b \in Known : /\ InPlace(Backlog(c), At(conn[c]), b)
                               /\ b.cursor = end /\ b.epoch = size.epoch
<1> DEFINE queue   == Ahead(conn[c]) \o client[c].send \o client[c].pending
           deliver == IF output.pc = "deliver" /\ c \in output.targets
                      THEN <<output.entry>> ELSE <<>>
           applied == IF \E d \in Clients : reader[d].pc = "applied" /\ c \in reader[d].targets
                      THEN <<Applied(CHOOSE d \in Clients : reader[d].pc = "applied")>> ELSE <<>>
<1>1. Backlog(c) = queue \o deliver \o applied
  BY DEF Backlog, Ahead
<1>2. /\ PaneTypes /\ UnderWay /\ Come
      /\ end \in 0..MaxOutput /\ size.epoch \in 0..MaxEpoch /\ output.entry \in Outbound
  BY DEF PaneInv, PaneTypes
<1>3. reader[c].pc # "none" /\ ~client[c].done
  BY <1>2 DEF Following, Come
<1>4. PICK b \in Known : /\ Serves(client[c], conn[c], b) /\ b.cursor = UpTo(c)
                         /\ ~Telling(c) => b.epoch = size.epoch
  BY <1>3, InvFacts DEF Served
<1>5. queue \in Seq(Outbound) /\ InPlace(queue, At(conn[c]), b)
  <2>1. /\ Ahead(conn[c]) \in Seq(Outbound) /\ client[c].send \in Seq(Outbound)
        /\ client[c].pending \in Seq(Outbound)
    BY InvFacts, KnownType DEF Subscriber
  <2>2. Ahead(conn[c]) \o client[c].send \in Seq(Outbound)
    BY <2>1, Joined
  <2>3. queue \in Seq(Outbound)
    BY <2>1, <2>2, Joined
  <2> QED BY <1>4, <2>3 DEF Serves
<1> HIDE DEF queue
<1>6. queue \o <<>> = queue
  BY <1>5, Joined
<1>7. CASE output.pc = "deliver" /\ c \in output.targets
  <2>1. /\ output.entry.kind = "output" /\ output.entry.to = end
        /\ \A d \in Clients : reader[d].pc # "applied"
    BY <1>2, <1>7 DEF UnderWay
  <2>2. PICK one \in Seq(Outbound) :
            /\ one = <<output.entry>>
            /\ \A x, y : InPlace(one, x, y) <=> x \in Known /\ y \in Known
                                               /\ Brings(output.entry, x, y)
    BY <1>2, Single
  <2>3. deliver = one /\ applied = <<>>
    BY <1>7, <2>1, <2>2
  <2> DEFINE e == [cursor |-> end, epoch |-> b.epoch]
  <2>4. e \in Known /\ e.cursor = end /\ e.epoch = b.epoch /\ b.epoch = size.epoch
    BY <1>2, <1>4, <2>1, KnownType DEF Telling
  <2>5. b.cursor = output.entry.from
    BY <1>4, <1>7 DEF UpTo
  <2> HIDE DEF e
  <2>6. InPlace(one, b, e)
    <3>1. Brings(output.entry, b, e)
      BY <2>1, <2>4, <2>5 DEF Brings
    <3> QED BY <2>2, <2>4, <3>1
  <2>7. queue \o one \in Seq(Outbound) /\ InPlace(queue \o one, At(conn[c]), e)
    BY <1>5, <2>2, <2>6, InPlaceJoin, Joined
  <2>8. Backlog(c) = queue \o one
    BY <1>1, <2>3, <2>7, Joined
  <2> QED BY <2>4, <2>7, <2>8
<1>8. CASE ~(output.pc = "deliver" /\ c \in output.targets) /\ Telling(c)
  <2>1. deliver = <<>> /\ b.cursor = end
    BY <1>4, <1>8 DEF UpTo
  <2> DEFINE d == CHOOSE d \in Clients : reader[d].pc = "applied"
  <2>2. d \in Clients /\ reader[d].pc = "applied"
    BY <1>8 DEF Telling
  <2>3. applied = <<Applied(d)>>
    BY <1>8 DEF Telling
  <2> HIDE DEF d
  <2>4. reader[d].at = end
    BY <1>2, <2>2 DEF UnderWay
  <2>5. /\ Applied(d) \in Outbound /\ Applied(d).kind = "resize"
        /\ Applied(d).to = end /\ Applied(d).epoch = size.epoch
    BY <1>2, <2>4, ControlType DEF Applied, Control
  <2>6. PICK one \in Seq(Outbound) :
            /\ one = <<Applied(d)>>
            /\ \A x, y : InPlace(one, x, y) <=> x \in Known /\ y \in Known
                                               /\ Brings(Applied(d), x, y)
    BY <2>5, Single
  <2> DEFINE e == [cursor |-> end, epoch |-> size.epoch]
  <2>7. e \in Known /\ e.cursor = end /\ e.epoch = size.epoch
    BY <1>2, KnownType
  <2> HIDE DEF e
  <2>8. InPlace(one, b, e)
    <3>1. Brings(Applied(d), b, e)
      BY <2>1, <2>5, <2>7 DEF Brings
    <3> QED BY <2>6, <2>7, <3>1
  <2>9. queue \o one \in Seq(Outbound) /\ InPlace(queue \o one, At(conn[c]), e)
    BY <1>5, <2>6, <2>8, InPlaceJoin, Joined
  <2>10. Backlog(c) = queue \o one
    BY <1>1, <1>6, <2>1, <2>3, <2>6
  <2> QED BY <2>7, <2>9, <2>10
<1>9. CASE ~(output.pc = "deliver" /\ c \in output.targets) /\ ~Telling(c)
  <2>1. deliver = <<>> /\ applied = <<>> /\ b.cursor = end /\ b.epoch = size.epoch
    BY <1>4, <1>9 DEF UpTo, Telling
  <2>2. Backlog(c) = queue
    BY <1>1, <1>6, <2>1
  <2> QED BY <1>4, <1>5, <2>1, <2>2
<1> QED BY <1>7, <1>8, <1>9

\* So where the browser is after each entry of it is where the entry belongs.
LEMMA BacklogStates ==
    ASSUME PaneInv, NEW c \in Clients, Following(c)
    PROVE  LET s == Backlog(c)
               a == At(conn[c])
           IN  /\ Len(s) \in Nat
               /\ \A i \in 1..Len(s) :
                     /\ s[i].kind = "output" => s[i].from = CursorAfter(s, i - 1, a)
                     /\ s[i].kind \in {"resize", "exit"} => s[i].to = CursorAfter(s, i - 1, a)
               /\ CursorAfter(s, Len(s), a) = end
               /\ EpochAfter(s, Len(s), a) = size.epoch
<1> DEFINE s == Backlog(c)
           a == At(conn[c])
<1>1. s \in Seq(Outbound)
  BY BacklogInPlace
<1>2. PICK b \in Known : InPlace(s, a, b) /\ b.cursor = end /\ b.epoch = size.epoch
  BY BacklogInPlace
<1> HIDE DEF s, a
<1>3. PICK f : BringsBy(s, a, b, f)
  BY <1>2 DEF InPlace
<1>4. /\ Len(s) \in Nat /\ f[Len(s)] = b
      /\ \A i \in 1..Len(s) : Brings(s[i], f[i - 1], f[i])
  BY <1>1, <1>3, LenProperties DEF BringsBy
<1>5. \A k \in 0..Len(s) : f[k].cursor = CursorAfter(s, k, a) /\ f[k].epoch = EpochAfter(s, k, a)
  BY <1>1, <1>3, InPlaceStates
<1>6. ASSUME NEW i \in 1..Len(s)
      PROVE  /\ s[i].kind = "output" => s[i].from = CursorAfter(s, i - 1, a)
             /\ s[i].kind \in {"resize", "exit"} => s[i].to = CursorAfter(s, i - 1, a)
  <2>1. i - 1 \in 0..Len(s)
    BY <1>4
  <2>2. f[i - 1].cursor = CursorAfter(s, i - 1, a) /\ Brings(s[i], f[i - 1], f[i])
    BY <1>4, <1>5, <2>1
  <2> QED BY <2>2 DEF Brings
<1>7. Len(s) \in 0..Len(s)
  BY <1>4
<1>8. CursorAfter(s, Len(s), a) = end /\ EpochAfter(s, Len(s), a) = size.epoch
  BY <1>2, <1>4, <1>5, <1>7
<1> QED BY <1>4, <1>6, <1>8 DEF s, a

LEMMA ReachedIs ==
    ASSUME NEW c, NEW i
    PROVE  Reached(c, i) = CursorAfter(Backlog(c), i, At(conn[c]))
BY DEF Reached, CursorAfter, OfKind, Last, At

\* Each byte of output reaches each attachment once and in order, whatever the
\* limits of the queues: in the replay, queued, coalesced or under way
\* (attachClient, enqueue, dequeued).
THEOREM BytesOnce == Spec => []EachByteOnce
<1>1. ASSUME PaneInv PROVE EachByteOnce
  BY <1>1, BacklogStates, ReachedIs DEF EachByteOnce
<1> QED BY <1>1, PaneInvariant, PTL

\* A resize is told between the last byte before it and the first after it, and the
\* exit after the last byte (applyResize holds outputMu; markExited).
THEOREM ControlsPlaced == Spec => []ControlsInPlace
<1>1. ASSUME PaneInv PROVE ControlsInPlace
  BY <1>1, BacklogStates, ReachedIs DEF ControlsInPlace
<1> QED BY <1>1, PaneInvariant, PTL

\* What is queued to a browser brings it to the resize epoch of the pane, so that
\* its next resize is not refused as stale (attachClient, applyResize).
THEOREM EpochsAgree == Spec => []EpochAgreement
<1>1. ASSUME PaneInv PROVE EpochAgreement
  <2> SUFFICES ASSUME NEW c \in Clients, Following(c)
               PROVE  size.epoch = EpochAfter(Backlog(c), Len(Backlog(c)), At(conn[c]))
    BY DEF EpochAgreement, EpochAfter, OfKind, Last, At
  <2> QED BY <1>1, BacklogStates
<1> QED BY <1>1, PaneInvariant, PTL
=============================================================================
