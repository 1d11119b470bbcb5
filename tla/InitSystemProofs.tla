-------------------------- MODULE InitSystemProofs --------------------------
(***************************************************************************)
(* Proofs about init_system, for every set of models and every build: what *)
(* the threads, interrupts, CSpaces and address spaces are when the new    *)
(* system gets control, and that they stay that.                           *)
(***************************************************************************)
EXTENDS InitSystem, ProofLemmas

-----------------------------------------------------------------------------
(* The loops: FlattenSeq lists what its parts list. *)

LEMMA Concatenated ==
    ASSUME NEW A, NEW s \in Seq(A), NEW t \in Seq(A)
    PROVE  s \o t \in Seq(A) /\ Elements(s \o t) = Elements(s) \cup Elements(t)
<1>1. /\ s \o t \in Seq(A) /\ DOMAIN s = 1 .. Len(s) /\ DOMAIN t = 1 .. Len(t)
      /\ DOMAIN (s \o t) = 1 .. Len(s) + Len(t) /\ Len(s) \in Nat /\ Len(t) \in Nat
  OBVIOUS
<1>2. \A k \in 1 .. Len(s) : (s \o t)[k] = s[k] /\ k \in 1 .. Len(s) + Len(t)
  OBVIOUS
<1>3. \A k \in 1 .. Len(t) : (s \o t)[Len(s) + k] = t[k] /\ Len(s) + k \in 1 .. Len(s) + Len(t)
  OBVIOUS
<1>4. ASSUME NEW k \in 1 .. Len(s) + Len(t) PROVE (s \o t)[k] \in Elements(s) \cup Elements(t)
  <2>1. CASE k <= Len(s)
    <3>1. k \in 1 .. Len(s)
      BY <2>1, <1>1
    <3>. QED
      BY <1>1, <1>2, <3>1 DEF Elements
  <2>2. CASE k > Len(s)
    <3>1. k - Len(s) \in 1 .. Len(t) /\ Len(s) + (k - Len(s)) = k
      BY <1>1, <2>2
    <3>2. (s \o t)[k] = t[k - Len(s)]
      BY <1>3, <3>1
    <3>. QED
      BY <1>1, <3>1, <3>2 DEF Elements
  <2>. QED
    BY <1>1, <2>1, <2>2
<1>5. Elements(s) \subseteq Elements(s \o t)
  BY <1>1, <1>2 DEF Elements
<1>6. Elements(t) \subseteq Elements(s \o t)
  BY <1>1, <1>3 DEF Elements
<1>7. Elements(s \o t) \subseteq Elements(s) \cup Elements(t)
  BY <1>1, <1>4 DEF Elements
<1>. QED
  BY <1>1, <1>5, <1>6, <1>7

LEMMA FlattenFacts ==
    ASSUME NEW A, NEW ss \in Seq(Seq(A))
    PROVE  /\ FlattenSeq(ss) \in Seq(A)
           /\ Elements(FlattenSeq(ss)) = UNION {Elements(ss[k]) : k \in DOMAIN ss}
<1>. DEFINE n == Len(ss)
            Part(k) == IF k \in 1 .. n THEN ss[k] ELSE <<>>
            step == [k \in Nat |-> [v \in Seq(A) |-> v \o Part(k + 1)]]
<1>1. n \in Nat /\ DOMAIN ss = 1 .. n /\ \A k \in 1 .. n : ss[k] \in Seq(A)
  OBVIOUS
<1>2. CASE n = 0
  <2>1. FlattenSeq(ss) = ss /\ ss = <<>>
    BY <1>2 DEF FlattenSeq
  <2>2. DOMAIN ss = {}
    BY <1>1, <1>2
  <2>. QED
    BY <2>1, <2>2 DEF Elements
<1>3. CASE n # 0
  <2>1. step \in [Nat -> [Seq(A) -> Seq(A)]]
    <3>1. ASSUME NEW k \in Nat, NEW v \in Seq(A) PROVE v \o Part(k + 1) \in Seq(A)
      <4>1. Part(k + 1) \in Seq(A)
        BY <1>1
      <4>. HIDE DEF Part
      <4>. QED
        BY <4>1, Concatenated
    <3>. HIDE DEF Part
    <3>. QED
      BY <3>1
  <2>2. PICK f : Iterates(f, Seq(A), <<>>, step)
    <3>1. <<>> \in Seq(A)
      OBVIOUS
    <3>. HIDE DEF step
    <3>. QED
      BY <2>1, <3>1, PrimitiveRecursion
  <2>3. f \in [Nat -> Seq(A)] /\ f[0] = <<>>
    BY <2>2 DEF Iterates
  <2>4. ASSUME NEW k \in 0 .. n - 1 PROVE f[k + 1] = f[k] \o ss[k + 1]
    <3>1. k \in Nat /\ k + 1 \in 1 .. n /\ f[k] \in Seq(A)
      BY <1>1, <2>3
    <3>2. f[k + 1] = step[k][f[k]]
      BY <2>2, <3>1 DEF Iterates
    <3>. QED
      BY <3>1, <3>2
  <2>. DEFINE Def(g) == [j \in 1 .. n |-> IF j = 1 THEN ss[j] ELSE g[j - 1] \o ss[j]]
              s == CHOOSE g : g = Def(g)
              h == [j \in 1 .. n |-> f[j]]
              E == {j \in 0 .. n : j # 0 => s[j] = f[j]}
  <2>5. f[1] = ss[1]
    <3>1. 0 \in 0 .. n - 1 /\ 1 \in 1 .. n /\ 0 + 1 = 1
      BY <1>1, <1>3
    <3>2. f[1] = <<>> \o ss[1]
      BY <2>3, <2>4, <3>1
    <3>3. ss[1] \in Seq(A)
      BY <1>1, <3>1
    <3>. QED
      BY <3>2, <3>3
  <2>6. h = Def(h)
    <3>1. ASSUME NEW j \in 1 .. n, j # 1 PROVE h[j] = h[j - 1] \o ss[j]
      <4>1. j - 1 \in 0 .. n - 1 /\ (j - 1) + 1 = j /\ j - 1 \in 1 .. n
        BY <1>1, <3>1
      <4>. QED
        BY <2>4, <4>1
    <3>. QED
      BY <2>5, <3>1
  <2>7. s = Def(s)
    BY <2>6
  <2>. HIDE DEF s, h
  <2>8. \A j \in 1 .. n : s[j] = IF j = 1 THEN ss[j] ELSE s[j - 1] \o ss[j]
    BY <2>7
  <2>9. 0 \in E
    BY <1>1
  <2>10. ASSUME NEW j \in 0 .. n - 1, j \in E PROVE j + 1 \in E
    <3>1. j + 1 \in 1 .. n /\ j + 1 \in 0 .. n /\ (j + 1) - 1 = j /\ j \in Nat
      BY <1>1
    <3>2. CASE j = 0
      BY <2>5, <2>8, <3>1, <3>2
    <3>3. CASE j # 0
      <4>1. s[j + 1] = s[j] \o ss[j + 1]
        <5>1. j + 1 # 1
          BY <3>1, <3>3
        <5>. QED
          BY <2>8, <3>1, <5>1
      <4>. QED
        BY <2>4, <2>10, <3>1, <3>3, <4>1
    <3>. QED
      BY <3>2, <3>3
  <2>11. 0 .. n \subseteq E
    <3>. HIDE DEF E
    <3>. QED
      BY <1>1, <2>9, <2>10, IntervalInduction
  <2>12. FlattenSeq(ss) = f[n]
    <3>1. FlattenSeq(ss) = s[n]
      BY <1>3 DEF FlattenSeq, s
    <3>. QED
      BY <1>1, <1>3, <2>11, <3>1
  <2>. DEFINE P == {j \in 0 .. n : Elements(f[j]) = UNION {Elements(ss[k]) : k \in 1 .. j}}
  <2>13. 0 \in P
    <3>1. DOMAIN <<>> = {} /\ 1 .. 0 = {}
      OBVIOUS
    <3>. QED
      BY <1>1, <2>3, <3>1 DEF Elements
  <2>14. ASSUME NEW j \in 0 .. n - 1, j \in P PROVE j + 1 \in P
    <3>1. j \in Nat /\ j + 1 \in 1 .. n /\ j + 1 \in 0 .. n
      BY <1>1
    <3>2. f[j] \in Seq(A) /\ ss[j + 1] \in Seq(A)
      BY <1>1, <2>3, <3>1
    <3>3. Elements(f[j + 1]) = Elements(f[j]) \cup Elements(ss[j + 1])
      <4>1. f[j + 1] = f[j] \o ss[j + 1]
        BY <2>4
      <4>2. Elements(f[j] \o ss[j + 1]) = Elements(f[j]) \cup Elements(ss[j + 1])
        BY <3>2, Concatenated
      <4>. QED
        BY <4>1, <4>2
    <3>4. \A k : k \in 1 .. j + 1 <=> k \in 1 .. j \/ k = j + 1
      BY <3>1
    <3>5. UNION {Elements(ss[k]) : k \in 1 .. j + 1}
             = (UNION {Elements(ss[k]) : k \in 1 .. j}) \cup Elements(ss[j + 1])
      BY <3>4
    <3>. QED
      BY <2>14, <3>1, <3>3, <3>5
  <2>15. 0 .. n \subseteq P
    <3>. HIDE DEF P
    <3>. QED
      BY <1>1, <2>13, <2>14, IntervalInduction
  <2>16. n \in P
    <3>1. n \in 0 .. n
      BY <1>1
    <3>. HIDE DEF P
    <3>. QED
      BY <2>15, <3>1
  <2>. QED
    BY <1>1, <2>3, <2>12, <2>16
<1>. QED
  BY <1>2, <1>3
-----------------------------------------------------------------------------
(* The phases.  The elements of the work of phase q that have been handled *)
(* are all of them once the phase is over, and those before i during it.   *)

PhaseNames == {"mark_roots", "irq_caps", "sched_ctrl", "duplicate_caps", "irqs", "asids",
               "frames", "vspace", "scs", "tcbs", "copy", "move", "start", "done"}
Stage(p) ==
    CASE p = "mark_roots" -> 1 [] p = "irq_caps" -> 2 [] p = "sched_ctrl" -> 3
      [] p = "duplicate_caps" -> 4 [] p = "irqs" -> 5 [] p = "asids" -> 6 [] p = "frames" -> 7
      [] p = "vspace" -> 8 [] p = "scs" -> 9 [] p = "tcbs" -> 10 [] p = "copy" -> 11
      [] p = "move" -> 12 [] p = "start" -> 13 [] p = "done" -> 14 [] OTHER -> 0
Passed(q, j) == Stage(pc) > Stage(q) \/ (pc = q /\ j < i)
Handled(q) == {Work(q)[j] : j \in {k \in DOMAIN Work(q) : Passed(q, k)}}

LEMMA PhaseList ==
    /\ DOMAIN Phases = 1 .. 14 /\ Len(Phases) = 14
    /\ {Phases[n] : n \in 1 .. Len(Phases) - 1} = PhaseNames \ {"done"}
    /\ \A n \in 1 .. 14 : Stage(Phases[n]) = n
<1>1. DOMAIN Phases = 1 .. 14 /\ Len(Phases) = 14
  BY DEF Phases
<1>2. /\ Phases[1] = "mark_roots" /\ Phases[2] = "irq_caps" /\ Phases[3] = "sched_ctrl"
      /\ Phases[4] = "duplicate_caps" /\ Phases[5] = "irqs" /\ Phases[6] = "asids"
      /\ Phases[7] = "frames" /\ Phases[8] = "vspace" /\ Phases[9] = "scs"
      /\ Phases[10] = "tcbs" /\ Phases[11] = "copy" /\ Phases[12] = "move"
      /\ Phases[13] = "start" /\ Phases[14] = "done"
  BY DEF Phases
<1>3. \A n \in 1 .. 14 : n \in {1, 2, 3, 4, 5, 6, 7, 8, 9, 10, 11, 12, 13, 14}
  OBVIOUS
<1>4. ASSUME NEW n \in 1 .. 14 PROVE Stage(Phases[n]) = n
  <2>1. CASE n \in {1, 2, 3, 4, 5}
    BY <1>2, <2>1 DEF Stage
  <2>2. CASE n \in {6, 7, 8, 9, 10}
    BY <1>2, <2>2 DEF Stage
  <2>3. CASE n \in {11, 12, 13, 14}
    BY <1>2, <2>3 DEF Stage
  <2>. QED
    BY <1>3, <2>1, <2>2, <2>3
<1>5. {Phases[n] : n \in 1 .. 13} = PhaseNames \ {"done"}
  <2>1. \A n : n \in 1 .. 13 <=> n \in {1, 2, 3, 4, 5, 6, 7, 8, 9, 10, 11, 12, 13}
    OBVIOUS
  <2>2. {Phases[n] : n \in 1 .. 13} =
          {Phases[1], Phases[2], Phases[3], Phases[4], Phases[5], Phases[6], Phases[7], Phases[8],
           Phases[9], Phases[10], Phases[11], Phases[12], Phases[13]}
    BY <2>1
  <2>. QED
    BY <1>2, <2>2 DEF PhaseNames
<1>6. Len(Phases) - 1 = 13
  BY <1>1
<1>. QED
  BY <1>1, <1>4, <1>5, <1>6

LEMMA StageFacts ==
    /\ \A p : Stage(p) \in 0 .. 14
    /\ \A p \in PhaseNames : Stage(p) \in 1 .. 14
    /\ \A p, q \in PhaseNames : Stage(p) = Stage(q) => p = q
    /\ Stage("fatal") = 0 /\ Stage("fault") = 0
<1>1. \A p : Stage(p) \in 0 .. 14
  BY DEF Stage
<1>2. \A p \in PhaseNames : \E n \in 1 .. 14 : p = Phases[n]
  <2>1. \A p \in PhaseNames \ {"done"} : \E n \in 1 .. 13 : p = Phases[n]
    BY PhaseList
  <2>2. Phases[14] = "done"
    BY DEF Phases
  <2>. QED
    BY <2>1, <2>2
<1>3. Stage("fatal") = 0 /\ Stage("fault") = 0
  BY DEF Stage
<1>. QED
  BY <1>1, <1>2, <1>3, PhaseList

LEMMA StageValues ==
    /\ Stage("mark_roots") = 1 /\ Stage("irq_caps") = 2 /\ Stage("sched_ctrl") = 3
    /\ Stage("irqs") = 5 /\ Stage("asids") = 6 /\ Stage("vspace") = 8 /\ Stage("scs") = 9
    /\ Stage("tcbs") = 10 /\ Stage("copy") = 11 /\ Stage("move") = 12 /\ Stage("start") = 13
    /\ Stage("done") = 14
BY DEF Stage

LEMMA AfterFacts ==
    ASSUME Running
    PROVE  pc \in PhaseNames /\ pc # "done" /\ After(pc) \in PhaseNames /\ Stage(After(pc)) = Stage(pc) + 1
<1>1. pc \in PhaseNames \ {"done"}
  BY PhaseList DEF Running
<1>2. PICK n \in 1 .. 13 : pc = Phases[n]
  BY <1>1, PhaseList
<1>3. n \in DOMAIN Phases /\ n \in 1 .. 14 /\ n + 1 \in 1 .. 14
  BY PhaseList
<1>4. \A k \in DOMAIN Phases : Phases[k] = pc => k = n
  BY <1>2, <1>3, PhaseList
<1>5. After(pc) = Phases[1 + n]
  BY <1>2, <1>3, <1>4 DEF After
<1>6. Phases[n + 1] \in PhaseNames
  <2>1. n + 1 \in 1 .. 13 \/ n + 1 = 14
    OBVIOUS
  <2>2. Phases[14] = "done"
    BY DEF Phases
  <2>3. 1 .. Len(Phases) - 1 = 1 .. 13
    BY PhaseList
  <2>4. \A k \in 1 .. 13 : Phases[k] \in PhaseNames
    BY <2>3, PhaseList
  <2>5. "done" \in PhaseNames
    BY DEF PhaseNames
  <2>. QED
    BY <2>1, <2>2, <2>4, <2>5
<1>7. 1 + n = n + 1
  OBVIOUS
<1>. QED
  BY <1>1, <1>2, <1>3, <1>5, <1>6, <1>7, PhaseList
-----------------------------------------------------------------------------
(* How a step moves on, and what it changes. *)

Moves ==
    \/ pc' \in {"fatal", "fault"} /\ i' \in {i, i + 1}
    \/ Running /\ Current = {} /\ pc' = After(pc) /\ i' = 1
    \/ Current # {} /\ pc' = pc /\ i' = i + 1
    \/ pc' = pc /\ i' = i

SlotTaken == /\ SlotReady(free_slot_start) /\ free_slot_start' = free_slot_start + 1
             /\ \E c : root' = [root EXCEPT ![free_slot_start] = c]
Moved(e) == MoveMappedCap(e) \/ MoveOrigCap(e)

(* Which action may have changed what. *)
Frame ==
    /\ m' = m
    /\ Moves
    /\ \/ UNCHANGED roots
       \/ \E x \in Current : MarkRoot(x)
    /\ \/ UNCHANGED irq_caps
       \/ \E x \in Current : CreateIrqCap(x)
    /\ \/ UNCHANGED sched_ctrl
       \/ \E x \in Current : CreateSchedCtrlCap(x)
    /\ \/ UNCHANGED <<mapped, vspace>>
       \/ \E x \in Current : MapFrame(x)
    /\ \/ UNCHANGED cnode
       \/ \E x \in Current : CopyCap(x) \/ Moved(x)
    /\ \/ UNCHANGED asids
       \/ \E x \in Current : SetAsid(x)
    /\ \/ UNCHANGED pt_at
       \/ \E x \in Current : MapTable(x)
    /\ \/ UNCHANGED irq_ntfn
       \/ \E x \in Current : InitIrq(x)
    /\ \/ UNCHANGED <<tcb, sc_core>>
       \/ \E x \in Current : InitTcb(x) \/ InitSc(x)
    /\ \/ UNCHANGED running
       \/ \E x \in Current : StartThread(x)
    /\ \/ UNCHANGED <<root, free_slot_start>>
       \/ SlotTaken
       \/ \E x \in Current : Moved(x)

LEMMA SameFrame ==
    ASSUME UNCHANGED <<free_slot_start, tables, root, kernel>>, m' = m, Moves
    PROVE  Frame
BY DEF Frame, tables, kernel

LEMMA AbortFrame ==
    ASSUME NEW how \in {"fatal", "fault"}, Stop(how)
    PROVE  Frame
<1>1. UNCHANGED <<free_slot_start, tables, root, kernel>> /\ m' = m /\ Moves
  BY DEF Stop, Moves
<1>. QED
  BY <1>1, SameFrame

LEMMA TakeFrame ==
    ASSUME Current # {}, SlotReady(free_slot_start), NEW c, TakeSlot(c)
    PROVE  m' = m /\ Moves /\ SlotTaken
BY DEF TakeSlot, Moves, SlotTaken

LEMMA ContinueFrame ==
    ASSUME Current # {}, Continue
    PROVE  m' = m /\ Moves
BY DEF Continue, Moves

LEMMA NextFrame ==
    ASSUME [Next]_vars
    PROVE  Frame
<1>1. CASE UNCHANGED vars
  <2>1. UNCHANGED <<free_slot_start, tables, root, kernel>> /\ m' = m /\ Moves
    BY <1>1 DEF vars, Moves
  <2>. QED
    BY <2>1, SameFrame
<1>2. CASE NextPhase
  <2>1. UNCHANGED <<free_slot_start, tables, root, kernel>> /\ m' = m /\ Moves
    BY <1>2 DEF NextPhase, Moves
  <2>. QED
    BY <2>1, SameFrame
<1>3. ASSUME NEW x \in Current, MarkRoot(x) PROVE Frame
  <2>1. CASE Stop("fault")
    BY <2>1, AbortFrame
  <2>2. CASE Continue /\ UNCHANGED <<free_slot_start, irq_caps, dup, sched_ctrl, oob, mapped, root, kernel>>
    BY <1>3, <2>2, ContinueFrame DEF Frame, kernel
  <2>. QED
    BY <1>3, <2>1, <2>2 DEF MarkRoot
<1>4. ASSUME NEW x \in Current, CreateIrqCap(x) PROVE Frame
  <2>1. CASE Abort
    BY <2>1, AbortFrame DEF Abort
  <2>2. CASE /\ SlotReady(free_slot_start)
             /\ TakeSlot(Cap("irqhandler", x, AllRights, 0))
             /\ UNCHANGED <<roots, dup, sched_ctrl, oob, mapped, kernel>>
    BY <1>4, <2>2, TakeFrame DEF Frame, kernel
  <2>. QED
    BY <1>4, <2>1, <2>2 DEF CreateIrqCap
<1>5. ASSUME NEW x \in Current, CreateSchedCtrlCap(x) PROVE Frame
  <2>1. Continue /\ UNCHANGED <<free_slot_start, roots, irq_caps, dup, mapped, root, kernel>>
    BY <1>5 DEF CreateSchedCtrlCap
  <2>. QED
    BY <1>5, <2>1, ContinueFrame DEF Frame, kernel
<1>6. ASSUME NEW x \in Current, DuplicateCap(x) PROVE Frame
  <2>1. CASE Abort
    BY <2>1, AbortFrame DEF Abort
  <2>2. CASE /\ SlotReady(free_slot_start)
             /\ TakeSlot(Derived(OrigSlot(x), AllRights, 0))
             /\ UNCHANGED <<roots, irq_caps, sched_ctrl, oob, mapped, kernel>>
    BY <1>6, <2>2, TakeFrame DEF Frame, kernel
  <2>. QED
    BY <1>6, <2>1, <2>2 DEF DuplicateCap
<1>7. ASSUME NEW x \in Current, InitIrq(x) PROVE Frame
  <2>1. CASE Abort
    BY <2>1, AbortFrame DEF Abort
  <2>2. CASE Continue /\ UNCHANGED <<free_slot_start, tables, root, kernel>>
    BY <1>7, <2>2, ContinueFrame, SameFrame
  <2>3. CASE Continue /\ UNCHANGED <<free_slot_start, tables, root, cnode, asids, pt_at, vspace,
                                     sc_core, tcb, filled, running>>
    BY <1>7, <2>3, ContinueFrame DEF Frame, tables
  <2>4. CASE \E c : /\ SlotReady(free_slot_start) /\ TakeSlot(c)
                    /\ UNCHANGED <<tables, cnode, asids, pt_at, vspace, sc_core, tcb, filled, running>>
    BY <1>7, <2>4, TakeFrame DEF Frame, tables
  <2>. DEFINE es == m.objects[m.irqs[x]].slots
              c == es[1].cap
  <2>5. \/ Abort
        \/ Continue /\ UNCHANGED <<free_slot_start, tables, root, kernel>>
        \/ Continue /\ UNCHANGED <<free_slot_start, tables, root, cnode, asids, pt_at, vspace,
                                   sc_core, tcb, filled, running>>
        \/ /\ Len(es) = 1 => Bindable(c)
           /\ Len(es) = 1 /\ c.data # 0
           /\ TakeSlot(Derived(OrigSlot(c.obj), AllRights, c.data))
           /\ UNCHANGED <<tables, cnode, asids, pt_at, vspace, sc_core, tcb, filled, running>>
    BY <1>7, Zenon DEF InitIrq
  <2>6. (Len(es) = 1 => Bindable(c)) /\ Len(es) = 1 /\ c.data # 0 => SlotReady(free_slot_start)
    BY Zenon DEF Bindable
  <2>. QED
    BY <2>1, <2>2, <2>3, <2>4, <2>5, <2>6, Zenon
<1>8. ASSUME NEW x \in Current, SetAsid(x) PROVE Frame
  <2>1. CASE Abort
    BY <2>1, AbortFrame DEF Abort
  <2>2. CASE Continue /\ UNCHANGED <<free_slot_start, tables, root, cnode, pt_at, vspace, irq_ntfn,
                                     sc_core, tcb, filled, running>>
    BY <1>8, <2>2, ContinueFrame DEF Frame, tables
  <2>. QED
    BY <1>8, <2>1, <2>2 DEF SetAsid
<1>9. ASSUME NEW x \in Current, InitFrame(x) PROVE Frame
  <2>1. CASE Abort
    BY <2>1, AbortFrame DEF Abort
  <2>2. CASE Continue /\ UNCHANGED <<free_slot_start, tables, root, cnode, asids, pt_at, vspace,
                                     irq_ntfn, sc_core, tcb, running>>
    BY <1>9, <2>2, ContinueFrame DEF Frame, tables
  <2>. QED
    BY <1>9, <2>1, <2>2 DEF InitFrame
<1>10. ASSUME NEW x \in Current, MapTable(x) PROVE Frame
  <2>1. CASE Abort
    BY <2>1, AbortFrame DEF Abort
  <2>2. CASE Continue /\ UNCHANGED <<free_slot_start, tables, root, kernel>>
    BY <1>10, <2>2, ContinueFrame, SameFrame
  <2>3. CASE Continue /\ UNCHANGED <<free_slot_start, tables, root, cnode, asids, vspace, irq_ntfn,
                                     sc_core, tcb, filled, running>>
    BY <1>10, <2>3, ContinueFrame DEF Frame, tables
  <2>. QED
    BY <1>10, <2>1, <2>2, <2>3 DEF MapTable
<1>11. ASSUME NEW x \in Current, MapFrame(x) PROVE Frame
  <2>1. CASE Abort
    BY <2>1, AbortFrame DEF Abort
  <2>2. CASE \E c : /\ SlotReady(free_slot_start) /\ TakeSlot(c)
                    /\ UNCHANGED <<roots, irq_caps, dup, sched_ctrl, oob, cnode, asids, pt_at,
                                   irq_ntfn, sc_core, tcb, filled, running>>
    BY <1>11, <2>2, TakeFrame DEF Frame
  <2>. QED
    BY <1>11, <2>1, <2>2 DEF MapFrame
<1>12. ASSUME NEW x \in Current, MapOther(x) PROVE Frame
  BY <1>12, AbortFrame DEF MapOther, Abort
<1>13. ASSUME NEW x \in Current, InitSc(x) PROVE Frame
  <2>1. CASE Abort
    BY <2>1, AbortFrame DEF Abort
  <2>2. CASE Continue /\ UNCHANGED <<free_slot_start, tables, root, cnode, asids, pt_at, vspace,
                                     irq_ntfn, tcb, filled, running>>
    BY <1>13, <2>2, ContinueFrame DEF Frame, tables
  <2>. QED
    BY <1>13, <2>1, <2>2 DEF InitSc
<1>14. ASSUME NEW x \in Current, InitTcb(x) PROVE Frame
  <2>1. CASE Abort
    BY <2>1, AbortFrame DEF Abort
  <2>2. CASE /\ Continue
             /\ UNCHANGED <<root, free_slot_start>>
             /\ UNCHANGED <<tables, cnode, asids, pt_at, vspace, irq_ntfn, filled, running>>
    BY <1>14, <2>2, ContinueFrame DEF Frame, tables
  <2>3. CASE \E c : /\ SlotReady(free_slot_start) /\ TakeSlot(c)
                    /\ UNCHANGED <<tables, cnode, asids, pt_at, vspace, irq_ntfn, filled, running>>
    BY <1>14, <2>3, TakeFrame DEF Frame, tables
  <2>. QED
    BY <1>14, <2>1, <2>2, <2>3 DEF InitTcb, TcbAccepted
<1>15. ASSUME NEW x \in Current, CopyCap(x) PROVE Frame
  <2>1. CASE Abort
    BY <2>1, AbortFrame DEF Abort
  <2>2. CASE Continue /\ UNCHANGED <<free_slot_start, tables, root, asids, pt_at, vspace, irq_ntfn,
                                     sc_core, tcb, filled, running>>
    BY <1>15, <2>2, ContinueFrame DEF Frame, tables
  <2>. QED
    BY <1>15, <2>1, <2>2 DEF CopyCap
<1>16. ASSUME NEW x \in Current, Moved(x) PROVE Frame
  <2>1. CASE Abort
    BY <2>1, AbortFrame DEF Abort
  <2>2. CASE Continue /\ UNCHANGED <<free_slot_start, tables, asids, pt_at, vspace, irq_ntfn,
                                     sc_core, tcb, filled, running>>
    BY <1>16, <2>2, ContinueFrame DEF Frame, tables
  <2>. QED
    BY <1>16, <2>1, <2>2 DEF Moved, MoveMappedCap, MoveOrigCap, MoveFrom
<1>17. ASSUME NEW x \in Current, SkipCap(x) PROVE Frame
  <2>1. Continue /\ UNCHANGED <<free_slot_start, tables, root, kernel>>
    BY <1>17 DEF SkipCap
  <2>. QED
    BY <2>1, ContinueFrame, SameFrame
<1>18. ASSUME NEW x \in Current, StartThread(x) PROVE Frame
  <2>1. Continue /\ UNCHANGED <<free_slot_start, tables, root, cnode, asids, pt_at, vspace,
                                irq_ntfn, sc_core, tcb, filled>>
    BY <1>18 DEF StartThread
  <2>. QED
    BY <1>18, <2>1, ContinueFrame DEF Frame, tables
<1>. QED
  BY <1>1, <1>2, <1>3, <1>4, <1>5, <1>6, <1>7, <1>8, <1>9, <1>10, <1>11, <1>12, <1>13, <1>14, <1>15,
     <1>16, <1>17, <1>18 DEF Next, Step, Halt, Moved
-----------------------------------------------------------------------------
(* The invariant. *)

SlotsIn(o) == DOMAIN m.objects[o].slots
Typed ==
    /\ m \in Specs
    /\ pc \in PhaseNames \cup {"fatal", "fault"} /\ i \in Nat \ {0}
    /\ free_slot_start \in Nat /\ FirstFree <= free_slot_start
    /\ DOMAIN root = 1 .. SlotEnd - 1
    /\ DOMAIN irq_caps = DOMAIN m.irqs /\ DOMAIN irq_ntfn = DOMAIN m.irqs
    /\ DOMAIN sched_ctrl = 0 .. MaxNumNodes - 1
    /\ DOMAIN mapped = Objects /\ \A o \in Objects : DOMAIN mapped[o] = SlotsIn(o)
    /\ DOMAIN cnode = Objects /\ DOMAIN pt_at = Objects
    /\ DOMAIN sc_core = Objects /\ DOMAIN tcb = Objects

(* mark_vspace_roots finds the address spaces. *)
RootsInv ==
    /\ roots \subseteq Directories /\ (~RiscV => roots = {})
    /\ \A t \in Handled("mark_roots") : HasCap(t, "vspace") /\ CapAt(t, "vspace").obj \in roots

(* The loader's slots: the boot caps stay where they are, but for the IRQ  *)
(* control cap; the tables point to interrupt handlers and mapped frames.  *)
MappedFrom(o, k, c) ==
    /\ c.type = "obj" /\ c.obj = m.objects[o].slots[k].cap.obj /\ c.badge = 0
    /\ c.rights = AllRights /\ c.map \in Places(<<o, k>>)
Taken(s) == s \in FirstFree .. free_slot_start - 1
SlotsInv ==
    /\ \A s \in 1 .. FirstFree - 1 : s # IRQControlSlot => root[s] = BootCap(s)
    /\ root[IRQControlSlot] \in {BootCap(IRQControlSlot), NullCap}
    /\ \A n \in DOMAIN m.irqs : irq_caps[n] # 0 =>
          Taken(irq_caps[n]) /\ root[irq_caps[n]] = Cap("irqhandler", n, AllRights, 0)
    /\ \A o \in Objects : \A k \in SlotsIn(o) : mapped[o][k] # 0 =>
          Taken(mapped[o][k])
          /\ (root[mapped[o][k]] = NullCap \/ MappedFrom(o, k, root[mapped[o][k]]))
    /\ \A n \in 0 .. MaxNumNodes - 1 : sched_ctrl[n] \in {0, SchedStart + n}

IrqBound(n) ==
    \A k \in SlotsIn(m.irqs[n]) : BoundConforms(m.objects[m.irqs[n]].slots[k].cap, irq_ntfn[n])
IrqInv ==
    /\ \A n \in Handled("irq_caps") : irq_caps[n] # 0
    /\ \A n \in Handled("irqs") : IrqBound(n)

(* The steps of init_vspace, independently of the order. *)
CapIn(o, k) == m.objects[o].slots[k].cap
SlotOf(o, k) == m.objects[o].slots[k].slot
IsStep(w) ==
    \E p \in Directories : \E k \in SlotsIn(p) :
        \/ w = MapStep(p, p, k, <<SlotOf(p, k)>>)
        \/ /\ CapIn(p, k).type = "PT"
           /\ \E l \in SlotsIn(CapIn(p, k).obj) :
                 w = MapStep(p, CapIn(p, k).obj, l, <<SlotOf(p, k), SlotOf(CapIn(p, k).obj, l)>>)
PageOf(w) == [pd |-> w.pd, va |-> w.va, obj |-> MapCap(w).obj, rights |-> MapRights(MapCap(w).rights)]

VSpaceInv ==
    /\ asids \subseteq Directories
    /\ Handled("asids") \subseteq asids
    /\ \A x \in vspace : \E w : /\ IsStep(w) /\ MapCap(w).type = "Frame" /\ x = PageOf(w)
                                /\ <<w.pd, w.va>> \in Places(<<w.cont, w.k>>)
    /\ \A o \in Objects : pt_at[o] # <<>> =>
          /\ o \notin asids /\ Stage(pc) \in {0} \cup 8 .. 14
          /\ \E w : /\ IsStep(w) /\ MapCap(w).type = "PT" /\ MapCap(w).obj = o
                    /\ pt_at[o] = <<w.pd, w.va>>
    /\ \A w \in Handled("vspace") :
          /\ MapCap(w).type = "Frame" => PageOf(w) \in vspace
          /\ MapCap(w).type = "PT" /\ w.cont = w.pd /\ WellFormed =>
                pt_at[MapCap(w).obj] = <<w.pd, w.va>>

TcbBound(t) ==
    /\ tcb[t] # <<>>
    /\ Complete(t) => /\ BoundConforms(CapAt(t, "cspace"), tcb[t].cspace)
                      /\ tcb[t].vspace = CapAt(t, "vspace").obj
    /\ HasCap(t, "ipcbuffer") => tcb[t].ipcbuffer = CapAt(t, "ipcbuffer").obj
    /\ HasSc(t) => /\ tcb[t].sc = CapAt(t, "sc").obj
                   /\ sc_core[tcb[t].sc] = m.objects[t].core
    /\ MCS /\ HasCap(t, "fault_ep") => BoundConforms(CapAt(t, "fault_ep"), tcb[t].fault_ep)
    /\ MCS /\ HasCap(t, "temp_fault_ep") =>
          BoundConforms(Unbadged(CapAt(t, "temp_fault_ep")), tcb[t].temp_fault_ep)
TcbInv == \A t \in Handled("tcbs") : TcbBound(t)

CapPut(e) ==
    /\ SpecSlot(e) \in DOMAIN cnode[e[1]]
    /\ WellFormed => CapConforms(SpecCap(e), cnode[e[1]][SpecSlot(e)])
CNodeInv ==
    /\ \A o \in Objects : \A s \in DOMAIN cnode[o] : \E k \in SlotsIn(o) : s = SlotOf(o, k)
    /\ \A e \in Handled("copy") : ~MoveCap(SpecCap(e)) => CapPut(e)
    /\ \A e \in Handled("move") : MoveCap(SpecCap(e)) => CapPut(e)

RunInv == running # {} => pc \in {"start", "done"}

Inv == Typed /\ RootsInv /\ SlotsInv /\ IrqInv /\ VSpaceInv /\ TcbInv /\ CNodeInv /\ RunInv
-----------------------------------------------------------------------------
(* The models: what SpecsAssumption says of m. *)

LEMMA ModelFacts ==
    ASSUME m \in Specs
    PROVE  /\ NumObj \in Nat /\ Objects = 1 .. NumObj
           /\ IsFiniteSet(Objects) /\ Objects \subseteq Nat /\ 0 \notin Objects
           /\ IsFiniteSet(DOMAIN m.irqs) /\ DOMAIN m.irqs \subseteq Nat /\ 0 \notin DOMAIN m.irqs
           /\ m.slots \in Nat /\ NumNodes \in Nat /\ MaxNumNodes \in Nat /\ NumNodes <= MaxNumNodes
           /\ \A o \in Objects : GoodObject(m, m.objects[o])
           /\ \A n \in DOMAIN m.irqs : m.irqs[n] # 0 =>
                 m.irqs[n] \in Objects /\ m.objects[m.irqs[n]].type = "IRQ"
<1>1. /\ IsList(m.objects) /\ IsList(m.irqs) /\ m.slots \in Nat
      /\ \A o \in Objects : GoodObject(m, m.objects[o])
      /\ \A n \in DOMAIN m.irqs : m.irqs[n] # 0 =>
            m.irqs[n] \in Objects /\ m.objects[m.irqs[n]].type = "IRQ"
  BY SpecsAssumption DEF Objects
<1>2. NumObj \in Nat /\ Objects = 1 .. NumObj
  BY <1>1 DEF IsList, NumObj, Objects
<1>3. Len(m.irqs) \in Nat /\ DOMAIN m.irqs = 1 .. Len(m.irqs)
  BY <1>1 DEF IsList
<1>4. ASSUME NEW n \in Nat
      PROVE  IsFiniteSet(1 .. n) /\ 1 .. n \subseteq Nat /\ 0 \notin 1 .. n
  BY FS_Interval
<1>. QED
  BY <1>1, <1>2, <1>3, <1>4, NodesAssumption

LEMMA SlotFacts ==
    ASSUME m \in Specs, NEW o \in Objects
    PROVE  /\ Len(m.objects[o].slots) \in Nat /\ SlotsIn(o) = 1 .. Len(m.objects[o].slots)
           /\ m.objects[o].core \in Nat /\ (RiscV => m.objects[o].type # "PD")
           /\ \A k \in SlotsIn(o) :
                 /\ GoodCap(m, CapIn(o, k))
                 /\ m.objects[o].type = "IRQ" =>
                       CapIn(o, k).type \in {"EP", "Frame"} /\ ~IsMapped(CapIn(o, k))
                 /\ m.objects[o].type = "TCB" =>
                       /\ SlotOf(o, k) \in {"fault_ep", "temp_fault_ep"} => CapIn(o, k).type = "EP"
                       /\ SlotOf(o, k) = "cspace" =>
                             CapIn(o, k).type = "Obj" /\ m.objects[CapIn(o, k).obj].type = "CNode"
                       /\ SlotOf(o, k) = "sc" => CapIn(o, k).obj \in Objects
                       /\ SlotOf(o, k) = "vspace" =>
                             /\ CapIn(o, k).obj \in Objects
                             /\ m.objects[CapIn(o, k).obj].type \in {"PD", "PT"}
                 /\ m.objects[o].type \in {"PD", "PT"} =>
                       /\ \A l \in SlotsIn(o) : SlotOf(o, l) = SlotOf(o, k) => l = k
                       /\ Recursive => CapIn(o, k).type \in {"Frame", "PT"}
<1>1. GoodObject(m, m.objects[o])
  BY ModelFacts
<1>. QED
  BY <1>1 DEF GoodObject, IsList, SlotsIn, CapIn, SlotOf, Objects, RiscV, Recursive

LEMMA EntryFacts ==
    ASSUME m \in Specs, NEW o \in Objects, NEW slot
    PROVE  /\ EntryAt(o, slot) # 0 =>
                 EntryAt(o, slot) \in SlotsIn(o) /\ SlotOf(o, EntryAt(o, slot)) = slot
           /\ \A k \in SlotsIn(o) : SlotOf(o, k) = slot => EntryAt(o, slot) # 0
<1>. DEFINE I == {k \in 1 .. Len(m.objects[o].slots) : m.objects[o].slots[k].slot = slot}
<1>1. Len(m.objects[o].slots) \in Nat /\ SlotsIn(o) = 1 .. Len(m.objects[o].slots)
  BY SlotFacts
<1>2. EntryAt(o, slot) = IF I # {} THEN Min(I) ELSE 0
  BY DEF EntryAt, SelectInSeq
<1>3. I \in SUBSET Nat /\ 0 \notin I
  BY <1>1
<1>4. I # {} => Min(I) \in I
  <2>1. ASSUME I # {} PROVE \E x \in I : \A y \in I : x <= y
    <3>. HIDE DEF I
    <3>. QED
      BY <1>3, <2>1, LeastElement
  <2>. HIDE DEF I
  <2>. QED
    BY <2>1 DEF Min
<1>. QED
  BY <1>1, <1>2, <1>3, <1>4 DEF SlotOf

LEMMA CapFacts ==
    ASSUME m \in Specs, NEW o \in Objects, NEW slot, HasCap(o, slot)
    PROVE  \E k \in SlotsIn(o) : SlotOf(o, k) = slot /\ CapAt(o, slot) = CapIn(o, k)
BY EntryFacts DEF HasCap, CapAt, CapIn

LEMMA DirectoryFacts ==
    ASSUME m \in Specs
    PROVE  /\ Directories \subseteq Objects
           /\ \A p \in Directories : m.objects[p].type = IF RiscV THEN "PT" ELSE "PD"
<1>1. CASE RiscV
  <2>1. ASSUME NEW t \in Tcbs, HasCap(t, "vspace")
        PROVE  CapAt(t, "vspace").obj \in Objects /\ m.objects[CapAt(t, "vspace").obj].type = "PT"
    <3>1. t \in Objects /\ m.objects[t].type = "TCB"
      BY DEF Tcbs
    <3>2. PICK k \in SlotsIn(t) : SlotOf(t, k) = "vspace" /\ CapAt(t, "vspace") = CapIn(t, k)
      BY <2>1, <3>1, CapFacts
    <3>3. CapIn(t, k).obj \in Objects /\ m.objects[CapIn(t, k).obj].type \in {"PD", "PT"}
      BY <3>1, <3>2, SlotFacts
    <3>4. m.objects[CapIn(t, k).obj].type # "PD"
      BY <1>1, <3>3, SlotFacts
    <3>. QED
      BY <3>2, <3>3, <3>4
  <2>. QED
    BY <1>1, <2>1 DEF Directories
<1>2. CASE ~RiscV
  BY <1>2 DEF Directories
<1>. QED
  BY <1>1, <1>2

(* Marking a root never turns anything but a page table into a directory. *)
LEMMA TypeFacts ==
    ASSUME m \in Specs, roots \subseteq Directories, ~RiscV => roots = {}, NEW o \in Objects
    PROVE  /\ \A t \in {"TCB", "CNode", "EP", "Frame", "IRQ", "SC"} :
                 Type(o) = t <=> m.objects[o].type = t
           /\ Type(o) = "PD" <=> IF RiscV THEN o \in roots ELSE m.objects[o].type = "PD"
           /\ Type(o) \in {"PD", "PT"} <=> m.objects[o].type \in {"PD", "PT"}
<1>1. o \in roots => RiscV /\ m.objects[o].type = "PT"
  BY DirectoryFacts
<1>2. RiscV => m.objects[o].type # "PD"
  BY SlotFacts
<1>. QED
  BY <1>1, <1>2 DEF Type
-----------------------------------------------------------------------------
(* What the loops go over. *)

Walk(S, g) == FlattenSeq([n \in DOMAIN InOrder(S) |-> g[InOrder(S)[n]]])

LEMMA WalkFacts ==
    ASSUME NEW A, NEW S, IsFiniteSet(S), S \subseteq Nat, NEW g \in [S -> Seq(A)]
    PROVE  /\ Walk(S, g) \in Seq(A)
           /\ Elements(Walk(S, g)) = UNION {Elements(g[x]) : x \in S}
<1>. DEFINE pds == InOrder(S)
            ss == [n \in DOMAIN InOrder(S) |-> g[InOrder(S)[n]]]
<1>1. pds \in Seq(S) /\ Elements(pds) = S
  BY InOrderFacts
<1>2. DOMAIN pds = 1 .. Len(pds) /\ Len(pds) \in Nat /\ \A n \in DOMAIN pds : pds[n] \in S
  BY <1>1
<1>3. DOMAIN ss = DOMAIN pds /\ \A n \in DOMAIN pds : ss[n] = g[pds[n]] /\ ss[n] \in Seq(A)
  BY <1>2
<1>4. ss \in [1 .. Len(pds) -> Seq(A)]
  BY <1>2, <1>3
<1>5. ss \in Seq(Seq(A))
  <2>. HIDE DEF ss, pds
  <2>. QED
    BY <1>2, <1>4
<1>6. /\ FlattenSeq(ss) \in Seq(A)
      /\ Elements(FlattenSeq(ss)) = UNION {Elements(ss[k]) : k \in DOMAIN ss}
  <2>. HIDE DEF ss
  <2>. QED
    BY <1>5, FlattenFacts
<1>7. UNION {Elements(ss[k]) : k \in DOMAIN ss} = UNION {Elements(g[x]) : x \in S}
  <2>1. \A x \in S : \E n \in DOMAIN pds : pds[n] = x
    BY <1>1 DEF Elements
  <2>. HIDE DEF ss, pds
  <2>. QED
    BY <1>2, <1>3, <2>1, SMTT(60)
<1>. QED
  BY <1>6, <1>7 DEF Walk

LEMMA OfTypeFacts ==
    ASSUME m \in Specs, NEW T
    PROVE  OfType(T) \in Seq(Objects) /\ Elements(OfType(T)) = {o \in Objects : Type(o) \in T}
<1>. DEFINE S == {o \in Objects : Type(o) \in T}
<1>1. IsFiniteSet(S) /\ S \subseteq Nat
  BY ModelFacts, FS_Subset
<1>2. InOrder(S) \in Seq(S) /\ Elements(InOrder(S)) = S
  <2>. HIDE DEF S
  <2>. QED
    BY <1>1, InOrderFacts
<1>3. \A s \in Seq(S) : s \in Seq(Objects)
  OBVIOUS
<1>. QED
  BY <1>2, <1>3 DEF OfType

(* The steps of init_vspace for the entry k of the directory p: the entry, *)
(* and the entries of the page table that it holds.                        *)
OwnStep(p, k) == {MapStep(p, p, k, <<SlotOf(p, k)>>)}
TableSteps(p, k) ==
    IF CapIn(p, k).type # "PT" THEN {}
    ELSE {MapStep(p, CapIn(p, k).obj, l, <<SlotOf(p, k), SlotOf(CapIn(p, k).obj, l)>>) :
            l \in SlotsIn(CapIn(p, k).obj)}
AllSteps == UNION {UNION {OwnStep(p, k) \cup TableSteps(p, k) : k \in SlotsIn(p)} : p \in Directories}

LEMMA AllStepsFacts ==
    \A w : w \in AllSteps <=> IsStep(w)
<1>1. ASSUME NEW w, w \in AllSteps PROVE IsStep(w)
  <2>1. PICK p \in Directories : \E k \in SlotsIn(p) : w \in OwnStep(p, k) \cup TableSteps(p, k)
    BY <1>1 DEF AllSteps
  <2>2. PICK k \in SlotsIn(p) : w \in OwnStep(p, k) \cup TableSteps(p, k)
    BY <2>1
  <2>. QED
    BY <2>2 DEF OwnStep, TableSteps, IsStep
<1>2. ASSUME NEW w, IsStep(w) PROVE w \in AllSteps
  <2>1. PICK p \in Directories : \E k \in SlotsIn(p) : w \in OwnStep(p, k) \cup TableSteps(p, k)
    BY <1>2 DEF OwnStep, TableSteps, IsStep
  <2>2. PICK k \in SlotsIn(p) : w \in OwnStep(p, k) \cup TableSteps(p, k)
    BY <2>1
  <2>. QED
    BY <2>2 DEF AllSteps
<1>. QED
  BY <1>1, <1>2

LEMMA TableOfDirectory ==
    ASSUME m \in Specs, NEW p \in Directories, NEW k \in SlotsIn(p), CapIn(p, k).type = "PT"
    PROVE  CapIn(p, k).obj \in Objects /\ m.objects[CapIn(p, k).obj].type = "PT"
<1>1. p \in Objects
  BY DirectoryFacts
<1>2. GoodCap(m, CapIn(p, k))
  BY <1>1, SlotFacts
<1>. QED
  BY <1>2 DEF GoodCap, NoObjectTypes, Objects

LEMMA StepLists ==
    ASSUME m \in Specs, NEW p \in Directories
    PROVE  /\ FlattenSeq(PDSteps(p)) \in Seq(AllSteps)
           /\ FlattenSeq(PTSteps(p)) \in Seq(AllSteps)
           /\ FlattenSeq(BothSteps(p)) \in Seq(AllSteps)
           /\ Elements(FlattenSeq(PDSteps(p))) = UNION {OwnStep(p, k) : k \in SlotsIn(p)}
           /\ Elements(FlattenSeq(PTSteps(p))) = UNION {TableSteps(p, k) : k \in SlotsIn(p)}
           /\ Elements(FlattenSeq(BothSteps(p)))
                 = UNION {OwnStep(p, k) \cup TableSteps(p, k) : k \in SlotsIn(p)}
<1>. DEFINE n == Len(m.objects[p].slots)
<1>1. p \in Objects
  BY DirectoryFacts
<1>2. n \in Nat /\ SlotsIn(p) = 1 .. n
  BY <1>1, SlotFacts
<1>3. \A k \in SlotsIn(p) : OwnStep(p, k) \subseteq AllSteps /\ TableSteps(p, k) \subseteq AllSteps
  BY DEF AllSteps
<1>4. DOMAIN PDSteps(p) = 1 .. n /\ DOMAIN PTSteps(p) = 1 .. n /\ DOMAIN BothSteps(p) = 1 .. n
  BY <1>2 DEF PDSteps, PTSteps, BothSteps, SlotsIn
<1>5. ASSUME NEW k \in 1 .. n
      PROVE  PDSteps(p)[k] \in Seq(AllSteps) /\ Elements(PDSteps(p)[k]) = OwnStep(p, k)
  <2>1. PDSteps(p)[k] = <<MapStep(p, p, k, <<SlotOf(p, k)>>)>>
    BY <1>2 DEF PDSteps, SlotsIn, SlotOf
  <2>2. MapStep(p, p, k, <<SlotOf(p, k)>>) \in AllSteps
    BY <1>2, <1>3 DEF OwnStep
  <2>3. ASSUME NEW x PROVE Elements(<<x>>) = {x}
    BY DEF Elements
  <2>. QED
    BY <2>1, <2>2, <2>3 DEF OwnStep
<1>6. ASSUME NEW k \in 1 .. n
      PROVE  PTSteps(p)[k] \in Seq(AllSteps) /\ Elements(PTSteps(p)[k]) = TableSteps(p, k)
  <2>1. k \in SlotsIn(p)
    BY <1>2
  <2>2. CASE CapIn(p, k).type # "PT"
    <3>1. PTSteps(p)[k] = <<>>
      BY <2>1, <2>2 DEF PTSteps, SlotsIn, CapIn
    <3>2. TableSteps(p, k) = {} /\ Elements(<<>>) = {}
      BY <2>2 DEF TableSteps, Elements
    <3>. QED
      BY <3>1, <3>2
  <2>3. CASE CapIn(p, k).type = "PT"
    <3>. DEFINE o == CapIn(p, k).obj
                step(l) == MapStep(p, o, l, <<SlotOf(p, k), SlotOf(o, l)>>)
    <3>1. o \in Objects
      BY <2>1, <2>3, TableOfDirectory
    <3>2. Len(m.objects[o].slots) \in Nat /\ SlotsIn(o) = 1 .. Len(m.objects[o].slots)
      BY <3>1, SlotFacts
    <3>3. PTSteps(p)[k] = [l \in SlotsIn(o) |-> step(l)]
      BY <2>1, <2>3 DEF PTSteps, SlotsIn, CapIn, SlotOf
    <3>4. TableSteps(p, k) = {step(l) : l \in SlotsIn(o)}
      BY <2>3 DEF TableSteps
    <3>5. \A l \in SlotsIn(o) : step(l) \in AllSteps
      BY <1>3, <2>1, <3>4
    <3>. HIDE DEF step, o
    <3>6. PTSteps(p)[k] \in [1 .. Len(m.objects[o].slots) -> AllSteps]
      BY <3>2, <3>3, <3>5
    <3>7. PTSteps(p)[k] \in Seq(AllSteps)
      BY <3>2, <3>6
    <3>. QED
      BY <3>3, <3>4, <3>7 DEF Elements
  <2>. QED
    BY <2>2, <2>3
<1>7. ASSUME NEW k \in 1 .. n
      PROVE  /\ BothSteps(p)[k] \in Seq(AllSteps)
             /\ Elements(BothSteps(p)[k]) = OwnStep(p, k) \cup TableSteps(p, k)
  <2>1. BothSteps(p)[k] = PDSteps(p)[k] \o PTSteps(p)[k]
    BY <1>4 DEF BothSteps
  <2>. QED
    BY <1>5, <1>6, <2>1, Concatenated
<1>. HIDE DEF n
<1>8. PDSteps(p) \in [1 .. n -> Seq(AllSteps)] /\ PTSteps(p) \in [1 .. n -> Seq(AllSteps)]
      /\ BothSteps(p) \in [1 .. n -> Seq(AllSteps)]
  <2>1. PDSteps(p) = [k \in DOMAIN PDSteps(p) |-> PDSteps(p)[k]]
    BY DEF PDSteps
  <2>2. PTSteps(p) = [k \in DOMAIN PTSteps(p) |-> PTSteps(p)[k]]
    BY DEF PTSteps
  <2>3. BothSteps(p) = [k \in DOMAIN BothSteps(p) |-> BothSteps(p)[k]]
    BY DEF BothSteps
  <2>. QED
    BY <1>4, <1>5, <1>6, <1>7, <2>1, <2>2, <2>3
<1>9. PDSteps(p) \in Seq(Seq(AllSteps)) /\ PTSteps(p) \in Seq(Seq(AllSteps))
      /\ BothSteps(p) \in Seq(Seq(AllSteps))
  BY <1>2, <1>8
<1>10. /\ FlattenSeq(PDSteps(p)) \in Seq(AllSteps)
       /\ Elements(FlattenSeq(PDSteps(p))) = UNION {Elements(PDSteps(p)[k]) : k \in DOMAIN PDSteps(p)}
  BY <1>9, FlattenFacts
<1>11. /\ FlattenSeq(PTSteps(p)) \in Seq(AllSteps)
       /\ Elements(FlattenSeq(PTSteps(p))) = UNION {Elements(PTSteps(p)[k]) : k \in DOMAIN PTSteps(p)}
  BY <1>9, FlattenFacts
<1>12. /\ FlattenSeq(BothSteps(p)) \in Seq(AllSteps)
       /\ Elements(FlattenSeq(BothSteps(p)))
             = UNION {Elements(BothSteps(p)[k]) : k \in DOMAIN BothSteps(p)}
  BY <1>9, FlattenFacts
<1>. QED
  BY <1>2, <1>4, <1>5, <1>6, <1>7, <1>10, <1>11, <1>12

(* The phases whose loops the invariant speaks of. *)
LoopPhases == {"mark_roots", "irq_caps", "sched_ctrl", "irqs", "asids", "vspace", "tcbs", "copy", "move"}
UsedIrqs == {n \in DOMAIN m.irqs : m.irqs[n] # 0}
CNodeEntries == UNION {{o} \X SlotsIn(o) : o \in CNodes}
IsWork(q) == Len(Work(q)) \in Nat /\ DOMAIN Work(q) = 1 .. Len(Work(q))

LEMMA Completed ==
    ASSUME NEW q, Stage(pc) > Stage(q)
    PROVE  Handled(q) = Elements(Work(q))
BY DEF Handled, Passed, Elements

LEMMA TcbWork ==
    ASSUME m \in Specs, roots \subseteq Directories, ~RiscV => roots = {}
    PROVE  /\ OfType({"TCB"}) = InOrder(Tcbs) /\ OfType({"CNode"}) = InOrder(CNodes)
           /\ Tcbs \subseteq Objects /\ CNodes \subseteq Objects
           /\ InOrder(Tcbs) \in Seq(Tcbs) /\ Elements(InOrder(Tcbs)) = Tcbs
<1>1. \A o \in Objects : /\ Type(o) \in {"TCB"} <=> m.objects[o].type = "TCB"
                         /\ Type(o) \in {"CNode"} <=> m.objects[o].type = "CNode"
  BY TypeFacts
<1>2. {o \in Objects : Type(o) \in {"TCB"}} = Tcbs /\ {o \in Objects : Type(o) \in {"CNode"}} = CNodes
  BY <1>1 DEF Tcbs, CNodes
<1>3. Tcbs \subseteq Objects /\ CNodes \subseteq Objects
  BY DEF Tcbs, CNodes
<1>4. IsFiniteSet(Tcbs) /\ Tcbs \subseteq Nat
  BY <1>3, ModelFacts, FS_Subset
<1>. QED
  BY <1>2, <1>3, <1>4, InOrderFacts DEF OfType

LEMMA RootsWork ==
    ASSUME m \in Specs, roots \subseteq Directories, ~RiscV => roots = {}
    PROVE  /\ IsWork("mark_roots")
           /\ Work("mark_roots") = IF RiscV THEN InOrder(Tcbs) ELSE <<>>
           /\ Elements(Work("mark_roots")) = IF RiscV THEN Tcbs ELSE {}
<1>1. Work("mark_roots") = IF RiscV THEN OfType({"TCB"}) ELSE <<>>
  BY DEF Work
<1>2. Elements(<<>>) = {} /\ <<>> \in Seq(Tcbs)
  BY DEF Elements
<1>3. Work("mark_roots") \in Seq(Tcbs)
  BY <1>1, <1>2, TcbWork
<1>. QED
  BY <1>1, <1>2, <1>3, TcbWork DEF IsWork

(* After mark_vspace_roots the objects of type PD are the address spaces. *)
LEMMA RootsMarked ==
    ASSUME m \in Specs, RootsInv, Stage(pc) > 1
    PROVE  {o \in Objects : Type(o) = "PD"} = Directories
<1>1. roots \subseteq Directories /\ (~RiscV => roots = {})
  BY DEF RootsInv
<1>2. CASE RiscV
  <2>1. Stage("mark_roots") = 1
    BY DEF Stage
  <2>2. Handled("mark_roots") = Tcbs
    BY <1>1, <1>2, <2>1, Completed, RootsWork
  <2>3. Directories \subseteq roots
    BY <1>2, <2>2 DEF RootsInv, Directories
  <2>. QED
    BY <1>1, <1>2, <2>3, TypeFacts, DirectoryFacts
<1>3. CASE ~RiscV
  BY <1>1, <1>3, TypeFacts DEF Directories
<1>. QED
  BY <1>2, <1>3

LEMMA IrqWork ==
    ASSUME m \in Specs
    PROVE  /\ IsWork("irq_caps") /\ IsWork("irqs")
           /\ Elements(Work("irq_caps")) = UsedIrqs /\ Elements(Work("irqs")) = UsedIrqs
<1>1. Work("irq_caps") = InOrder(UsedIrqs) /\ Work("irqs") = InOrder(UsedIrqs)
  BY DEF Work, Irqs, UsedIrqs
<1>2. UsedIrqs \subseteq DOMAIN m.irqs
  BY DEF UsedIrqs
<1>3. IsFiniteSet(UsedIrqs) /\ UsedIrqs \subseteq Nat
  BY <1>2, ModelFacts, FS_Subset
<1>4. InOrder(UsedIrqs) \in Seq(UsedIrqs) /\ Elements(InOrder(UsedIrqs)) = UsedIrqs
  BY <1>3, InOrderFacts
<1>. QED
  BY <1>1, <1>4 DEF IsWork

LEMMA SchedWork ==
    ASSUME m \in Specs
    PROVE  IsWork("sched_ctrl") /\ Elements(Work("sched_ctrl")) \subseteq 0 .. NumNodes
<1>1. Work("sched_ctrl") = IF MCS THEN [n \in 1 .. NumNodes + 1 |-> n - 1] ELSE <<>>
  BY DEF Work
<1>2. NumNodes \in Nat
  BY ModelFacts
<1>3. CASE MCS
  <2>1. Work("sched_ctrl") \in [1 .. NumNodes + 1 -> 0 .. NumNodes]
    BY <1>1, <1>2, <1>3
  <2>2. Work("sched_ctrl") \in Seq(0 .. NumNodes)
    BY <1>2, <2>1
  <2>3. IsWork("sched_ctrl")
    BY <2>2 DEF IsWork
  <2>4. \A k \in DOMAIN Work("sched_ctrl") : Work("sched_ctrl")[k] \in 0 .. NumNodes
    BY <2>1
  <2>. QED
    BY <2>3, <2>4 DEF Elements
<1>4. CASE ~MCS
  BY <1>1, <1>4 DEF IsWork, Elements
<1>. QED
  BY <1>3, <1>4

LEMMA AsidWork ==
    ASSUME m \in Specs, RootsInv, Stage(pc) > 1
    PROVE  IsWork("asids") /\ Elements(Work("asids")) = Directories
<1>1. Work("asids") = OfType({"PD"})
  BY DEF Work
<1>2. {o \in Objects : Type(o) \in {"PD"}} = Directories
  BY RootsMarked
<1>3. OfType({"PD"}) \in Seq(Objects) /\ Elements(OfType({"PD"})) = Directories
  BY <1>2, OfTypeFacts
<1>. QED
  BY <1>1, <1>3 DEF IsWork

LEMMA TcbsWork ==
    ASSUME m \in Specs, RootsInv
    PROVE  IsWork("tcbs") /\ Elements(Work("tcbs")) = Tcbs
<1>1. Work("tcbs") = OfType({"TCB"})
  BY DEF Work
<1>. QED
  BY <1>1, TcbWork DEF IsWork, RootsInv

LEMMA CNodeWork ==
    ASSUME m \in Specs, RootsInv, NEW q \in {"copy", "move"}
    PROVE  IsWork(q) /\ Elements(Work(q)) = CNodeEntries
<1>. DEFINE cs == InOrder(CNodes)
            g == [o \in CNodes |-> Entries(o)]
            ss == [n \in DOMAIN cs |-> g[cs[n]]]
<1>1. OfType({"CNode"}) = cs /\ CNodes \subseteq Objects
  BY TcbWork DEF RootsInv
<1>2. IsFiniteSet(CNodes) /\ CNodes \subseteq Nat
  BY <1>1, ModelFacts, FS_Subset
<1>3. cs \in Seq(CNodes)
  BY <1>2, InOrderFacts
<1>4. ss = [n \in DOMAIN cs |-> Entries(cs[n])]
  BY <1>3
<1>5. Work(q) = Walk(CNodes, g)
  BY <1>1, <1>4 DEF Work, Walk
<1>6. ASSUME NEW o \in CNodes
      PROVE  g[o] \in Seq(CNodeEntries) /\ Elements(g[o]) = {o} \X SlotsIn(o)
  <2>1. g[o] = [k \in SlotsIn(o) |-> <<o, k>>]
    BY DEF Entries, SlotsIn
  <2>2. Len(m.objects[o].slots) \in Nat /\ SlotsIn(o) = 1 .. Len(m.objects[o].slots)
    BY <1>1, SlotFacts
  <2>3. \A k \in SlotsIn(o) : <<o, k>> \in CNodeEntries
    BY DEF CNodeEntries
  <2>. HIDE DEF g
  <2>4. g[o] \in [1 .. Len(m.objects[o].slots) -> CNodeEntries]
    BY <2>1, <2>2, <2>3
  <2>5. g[o] \in Seq(CNodeEntries)
    BY <2>2, <2>4
  <2>6. Elements(g[o]) = {<<o, k>> : k \in SlotsIn(o)}
    BY <2>1 DEF Elements
  <2>7. {<<o, k>> : k \in SlotsIn(o)} = {o} \X SlotsIn(o)
    OBVIOUS
  <2>. QED
    BY <2>5, <2>6, <2>7
<1>7. g \in [CNodes -> Seq(CNodeEntries)]
  BY <1>6
<1>8. Walk(CNodes, g) \in Seq(CNodeEntries)
      /\ Elements(Walk(CNodes, g)) = UNION {Elements(g[x]) : x \in CNodes}
  <2>. HIDE DEF g
  <2>. QED
    BY <1>2, <1>7, WalkFacts
<1>9. UNION {Elements(g[x]) : x \in CNodes} = CNodeEntries
  <2>. HIDE DEF g
  <2>. QED
    BY <1>6 DEF CNodeEntries
<1>. HIDE DEF g
<1>. QED
  BY <1>5, <1>8, <1>9 DEF IsWork

LEMMA VSpaceWork ==
    ASSUME m \in Specs, RootsInv, Stage(pc) > 1
    PROVE  IsWork("vspace") /\ Elements(Work("vspace")) = AllSteps
<1>. DEFINE both == [p \in Directories |-> FlattenSeq(BothSteps(p))]
            pd == [p \in Directories |-> FlattenSeq(PDSteps(p))]
            pt == [p \in Directories |-> FlattenSeq(PTSteps(p))]
<1>1. {o \in Objects : Type(o) = "PD"} = Directories /\ {o \in Objects : Type(o) \in {"PD"}} = Directories
  BY RootsMarked
<1>2. OfType({"PD"}) = InOrder(Directories)
  BY <1>1 DEF OfType
<1>3. Work("vspace") = IF Recursive THEN Walk(Directories, both) ELSE Walk(Directories, pd) \o Walk(Directories, pt)
  <2>. DEFINE dirs == {o \in Objects : Type(o) = "PD"}
              run(g) == FlattenSeq([n \in DOMAIN OfType({"PD"}) |-> g[OfType({"PD"})[n]]])
  <2>1. Work("vspace") = MapSteps
    BY DEF Work
  <2>2. MapSteps = IF Recursive THEN run([p \in dirs |-> FlattenSeq(BothSteps(p))])
                   ELSE run([p \in dirs |-> FlattenSeq(PDSteps(p))])
                        \o run([p \in dirs |-> FlattenSeq(PTSteps(p))])
    BY DEF MapSteps
  <2>3. [p \in dirs |-> FlattenSeq(BothSteps(p))] = both /\ [p \in dirs |-> FlattenSeq(PDSteps(p))] = pd
        /\ [p \in dirs |-> FlattenSeq(PTSteps(p))] = pt
    BY <1>1
  <2>4. ASSUME NEW g PROVE run(g) = Walk(Directories, g)
    BY <1>2 DEF Walk
  <2>. HIDE DEF run, dirs, both, pd, pt
  <2>. QED
    BY <2>1, <2>2, <2>3, <2>4
<1>4. IsFiniteSet(Directories) /\ Directories \subseteq Nat
  BY DirectoryFacts, ModelFacts, FS_Subset
<1>5. both \in [Directories -> Seq(AllSteps)] /\ pd \in [Directories -> Seq(AllSteps)]
      /\ pt \in [Directories -> Seq(AllSteps)]
  BY StepLists
<1>6. Walk(Directories, both) \in Seq(AllSteps) /\ Elements(Walk(Directories, both)) = UNION {Elements(both[x]) : x \in Directories}
  <2>. HIDE DEF both
  <2>. QED
    BY <1>4, <1>5, WalkFacts
<1>7. Walk(Directories, pd) \in Seq(AllSteps) /\ Elements(Walk(Directories, pd)) = UNION {Elements(pd[x]) : x \in Directories}
  <2>. HIDE DEF pd
  <2>. QED
    BY <1>4, <1>5, WalkFacts
<1>8. Walk(Directories, pt) \in Seq(AllSteps) /\ Elements(Walk(Directories, pt)) = UNION {Elements(pt[x]) : x \in Directories}
  <2>. HIDE DEF pt
  <2>. QED
    BY <1>4, <1>5, WalkFacts
<1>9. /\ \A p \in Directories : Elements(both[p]) = UNION {OwnStep(p, k) \cup TableSteps(p, k) : k \in SlotsIn(p)}
      /\ \A p \in Directories : Elements(pd[p]) = UNION {OwnStep(p, k) : k \in SlotsIn(p)}
      /\ \A p \in Directories : Elements(pt[p]) = UNION {TableSteps(p, k) : k \in SlotsIn(p)}
  BY StepLists
<1>. HIDE DEF both, pd, pt
<1>10. ASSUME NEW w
       PROVE  w \in AllSteps <=> \E p \in Directories : \E k \in SlotsIn(p) :
                                    w \in OwnStep(p, k) \cup TableSteps(p, k)
  BY DEF AllSteps
<1>11. Elements(Walk(Directories, both)) = AllSteps
  <2>1. ASSUME NEW w
        PROVE  w \in Elements(Walk(Directories, both)) <=> \E p \in Directories : w \in Elements(both[p])
    BY <1>6
  <2>2. ASSUME NEW w, NEW p \in Directories
        PROVE  w \in Elements(both[p]) <=> \E k \in SlotsIn(p) : w \in OwnStep(p, k) \cup TableSteps(p, k)
    BY <1>9
  <2>. QED
    BY <1>10, <2>1, <2>2
<1>12. /\ Walk(Directories, pd) \o Walk(Directories, pt) \in Seq(AllSteps)
       /\ Elements(Walk(Directories, pd) \o Walk(Directories, pt)) = AllSteps
  <2>1. /\ Walk(Directories, pd) \o Walk(Directories, pt) \in Seq(AllSteps)
        /\ Elements(Walk(Directories, pd) \o Walk(Directories, pt))
              = Elements(Walk(Directories, pd)) \cup Elements(Walk(Directories, pt))
    BY <1>7, <1>8, Concatenated
  <2>2. ASSUME NEW w
        PROVE  /\ w \in Elements(Walk(Directories, pd)) <=> \E p \in Directories : w \in Elements(pd[p])
               /\ w \in Elements(Walk(Directories, pt)) <=> \E p \in Directories : w \in Elements(pt[p])
    BY <1>7, <1>8
  <2>3. ASSUME NEW w, NEW p \in Directories
        PROVE  /\ w \in Elements(pd[p]) <=> \E k \in SlotsIn(p) : w \in OwnStep(p, k)
               /\ w \in Elements(pt[p]) <=> \E k \in SlotsIn(p) : w \in TableSteps(p, k)
    BY <1>9
  <2>4. Elements(Walk(Directories, pd)) \cup Elements(Walk(Directories, pt)) = AllSteps
    BY <1>10, <2>2, <2>3
  <2>. QED
    BY <2>1, <2>4
<1>13. Work("vspace") \in Seq(AllSteps) /\ Elements(Work("vspace")) = AllSteps
  BY <1>3, <1>6, <1>11, <1>12
<1>. QED
  BY <1>13 DEF IsWork
-----------------------------------------------------------------------------
(* The model does not change, and with it what only depends on it. *)

LEMMA EntrySame ==
    ASSUME m' = m, NEW o, NEW s
    PROVE  EntryAt(o, s)' = EntryAt(o, s)
BY DEF EntryAt, SelectInSeq

LEMMA ModelSame ==
    ASSUME m' = m
    PROVE  /\ Objects' = Objects /\ NumObj' = NumObj /\ SchedStart' = SchedStart
           /\ IRQControlSlot' = IRQControlSlot /\ ControlSlot' = ControlSlot
           /\ FirstFree' = FirstFree /\ SlotEnd' = SlotEnd
           /\ MCS' = MCS /\ RiscV' = RiscV /\ Recursive' = Recursive
           /\ Tcbs' = Tcbs /\ CNodes' = CNodes /\ UsedIrqs' = UsedIrqs
           /\ \A o : SlotsIn(o)' = SlotsIn(o)
           /\ \A o, k : CapIn(o, k)' = CapIn(o, k) /\ SlotOf(o, k)' = SlotOf(o, k)
           /\ \A o, s : HasCap(o, s)' = HasCap(o, s) /\ CapAt(o, s)' = CapAt(o, s)
           /\ \A s : BootCap(s)' = BootCap(s)
           /\ \A o : OrigSlot(o)' = OrigSlot(o)
<1>1. Objects' = Objects /\ NumObj' = NumObj /\ SchedStart' = SchedStart
      /\ IRQControlSlot' = IRQControlSlot /\ ControlSlot' = ControlSlot
      /\ FirstFree' = FirstFree /\ SlotEnd' = SlotEnd
  BY DEF Objects, NumObj, SchedStart, IRQControlSlot, ControlSlot, FirstFree, SlotEnd
<1>2. MCS' = MCS /\ RiscV' = RiscV /\ Recursive' = Recursive
  BY DEF MCS, RiscV, Recursive
<1>3. Tcbs' = Tcbs /\ CNodes' = CNodes /\ UsedIrqs' = UsedIrqs
  BY DEF Tcbs, CNodes, UsedIrqs, Objects
<1>4. \A o : SlotsIn(o)' = SlotsIn(o)
  BY DEF SlotsIn
<1>5. \A o, k : CapIn(o, k)' = CapIn(o, k) /\ SlotOf(o, k)' = SlotOf(o, k)
  BY DEF CapIn, SlotOf
<1>6. \A o, s : HasCap(o, s)' = HasCap(o, s) /\ CapAt(o, s)' = CapAt(o, s)
  BY EntrySame DEF HasCap, CapAt
<1>7. \A s : BootCap(s)' = BootCap(s)
  BY DEF BootCap, Objects, NumObj, IRQControlSlot, ControlSlot, SchedStart, Created
<1>8. \A o : OrigSlot(o)' = OrigSlot(o)
  BY DEF OrigSlot, Created
<1>. QED
  BY <1>1, <1>2, <1>3, <1>4, <1>5, <1>6, <1>7, <1>8

LEMMA PlacesSame ==
    ASSUME m' = m
    PROVE  /\ Directories' = Directories /\ CNodeEntries' = CNodeEntries
           /\ AllSteps' = AllSteps /\ SpecPages' = SpecPages
           /\ \A e : Places(e)' = Places(e)
           /\ \A w : MapCap(w)' = MapCap(w) /\ PageOf(w)' = PageOf(w)
           /\ \A e : SpecCap(e)' = SpecCap(e) /\ SpecSlot(e)' = SpecSlot(e)
           /\ \A c : MappingEntry(c)' = MappingEntry(c)
<1>1. Directories' = Directories
  BY ModelSame DEF Directories, Objects
<1>2. CNodeEntries' = CNodeEntries
  BY DEF CNodeEntries, CNodes, SlotsIn, Objects
<1>3. AllSteps' = AllSteps
  BY <1>1 DEF AllSteps, OwnStep, TableSteps, SlotsIn, CapIn, SlotOf
<1>4. \A e : SpecCap(e)' = SpecCap(e) /\ SpecSlot(e)' = SpecSlot(e)
  BY DEF SpecCap, SpecSlot
<1>5. \A e : Places(e)' = Places(e)
  BY <1>1 DEF Places, EntriesOf, SpecCap, SpecSlot
<1>6. \A w : MapCap(w)' = MapCap(w) /\ PageOf(w)' = PageOf(w)
  BY DEF MapCap, PageOf, MapRights, Writeable
<1>7. SpecPages' = SpecPages
  <2>1. (Objects \ (CNodes \cup Tcbs))' = Objects \ (CNodes \cup Tcbs)
    BY DEF Objects, CNodes, Tcbs
  <2>2. PICK es : es = EntriesOf(Objects \ (CNodes \cup Tcbs), {"Frame"})
    OBVIOUS
  <2>3. es = EntriesOf(Objects \ (CNodes \cup Tcbs), {"Frame"})'
    BY <2>1, <2>2 DEF EntriesOf
  <2>4. ASSUME NEW x PROVE x \in SpecPages' <=> x \in SpecPages
    BY <1>4, <1>5, <2>2, <2>3 DEF SpecPages, PageRights, Writeable
  <2>. QED
    BY <2>4
<1>8. \A c : MappingEntry(c)' = MappingEntry(c)
  BY EntrySame DEF MappingEntry
<1>. QED
  BY <1>1, <1>2, <1>3, <1>4, <1>5, <1>6, <1>7, <1>8

LEMMA WellFormedSame ==
    ASSUME m' = m
    PROVE  WellFormed' = WellFormed
<1>1. IrqsWellFormed' = IrqsWellFormed
  BY DEF IrqsWellFormed
<1>2. ThreadsWellFormed' = ThreadsWellFormed
  BY ModelSame DEF ThreadsWellFormed, Tcbs, Objects, RiscV, HasSc, FaultSlots
<1>. QED
  BY <1>1, <1>2, SMTT(60) DEF WellFormed, EntriesOf, CNodes, Objects, SpecCap, MappingEntry, EntryAt,
     Directories, RiscV, Tcbs, HasCap, CapAt, MCS, Places, SpecSlot, SelectInSeq

LEMMA WorkSame ==
    ASSUME m' = m, roots' = roots, NEW q
    PROVE  Work(q)' = Work(q)
<1>1. ASSUME NEW T PROVE OfType(T)' = OfType(T)
  BY DEF OfType, Type, Objects
<1>2. MapSteps' = MapSteps
  BY <1>1 DEF MapSteps, OfType, Type, Objects, Recursive, BothSteps, PDSteps, PTSteps
<1>. QED
  BY <1>1, <1>2 DEF Work, RiscV, MCS, Irqs, Objects, Entries, Type

(* The loop goes on when the action of its phase has been taken. *)
Did(x) ==
    /\ pc = "mark_roots" => MarkRoot(x)
    /\ pc = "irq_caps" => CreateIrqCap(x)
    /\ pc = "irqs" => InitIrq(x)
    /\ pc = "asids" => SetAsid(x)
    /\ pc = "vspace" => MapTable(x) \/ MapFrame(x)
    /\ pc = "tcbs" => InitTcb(x)
    /\ pc = "copy" => CopyCap(x) \/ MoveMappedCap(x) \/ SkipCap(x)
    /\ pc = "move" => MoveOrigCap(x) \/ SkipCap(x)
Advance == \A x \in Current : pc' = pc /\ i' = i + 1 => Did(x)

LEMMA NextAdvance ==
    ASSUME Typed, [Next]_vars
    PROVE  Advance
<1>. SUFFICES ASSUME NEW x \in Current, pc' = pc, i' = i + 1 PROVE Did(x)
  BY DEF Advance
<1>1. ~UNCHANGED vars /\ ~NextPhase
  BY DEF Typed, vars, NextPhase
<1>2. \A y \in Current : y = x
  BY DEF Current
<1>3. \/ MarkRoot(x) \/ CreateIrqCap(x) \/ CreateSchedCtrlCap(x) \/ DuplicateCap(x)
      \/ InitIrq(x) \/ SetAsid(x) \/ InitFrame(x)
      \/ MapTable(x) \/ MapFrame(x) \/ MapOther(x)
      \/ InitSc(x) \/ InitTcb(x)
      \/ CopyCap(x) \/ MoveMappedCap(x) \/ MoveOrigCap(x) \/ SkipCap(x)
      \/ StartThread(x)
  BY <1>1, <1>2 DEF Next, Halt, Step
<1>4. ~MapOther(x)
  BY DEF MapOther, Abort, Stop
<1>5. /\ MarkRoot(x) => pc = "mark_roots"
      /\ CreateIrqCap(x) => pc = "irq_caps"
      /\ CreateSchedCtrlCap(x) => pc = "sched_ctrl"
      /\ DuplicateCap(x) => pc = "duplicate_caps"
      /\ InitIrq(x) => pc = "irqs"
      /\ SetAsid(x) => pc = "asids"
      /\ InitFrame(x) => pc = "frames"
      /\ MapTable(x) \/ MapFrame(x) => pc = "vspace"
      /\ InitSc(x) => pc = "scs"
      /\ InitTcb(x) => pc = "tcbs"
      /\ CopyCap(x) \/ MoveMappedCap(x) => pc = "copy"
      /\ MoveOrigCap(x) => pc = "move"
      /\ SkipCap(x) => pc \in {"copy", "move"}
      /\ StartThread(x) => pc = "start"
  BY DEF MarkRoot, CreateIrqCap, CreateSchedCtrlCap, DuplicateCap, InitIrq, SetAsid, InitFrame, MapTable,
         MapFrame, InitSc, InitTcb, CopyCap, MoveMappedCap, MoveOrigCap, SkipCap, StartThread
<1>. QED
  BY <1>3, <1>4, <1>5 DEF Did

(* An element of a loop has been handled before the step, or by it. *)
LEMMA HandledStep ==
    ASSUME Typed, Moves, Advance, NEW q \in PhaseNames, IsWork(q), Work(q)' = Work(q)
    PROVE  \A x \in Handled(q)' : x \in Handled(q) \/ (pc = q /\ pc' = pc /\ x \in Current /\ Did(x))
<1>. SUFFICES ASSUME NEW j \in DOMAIN Work(q), Passed(q, j)'
              PROVE  \/ Passed(q, j)
                     \/ pc = q /\ pc' = pc /\ Work(q)[j] \in Current /\ Did(Work(q)[j])
  BY DEF Handled
<1>1. j \in Nat \ {0} /\ j <= Len(Work(q)) /\ i \in Nat \ {0} /\ Stage(q) \in 1 .. 14
  BY StageFacts DEF Typed, IsWork
<1>2. CASE pc' \in {"fatal", "fault"}
  BY <1>1, <1>2, StageFacts DEF Passed
<1>3. CASE Running /\ Current = {} /\ pc' = After(pc) /\ i' = 1
  <2>1. pc \in PhaseNames /\ Stage(pc') = Stage(pc) + 1 /\ Stage(pc) \in 1 .. 14
    BY <1>3, AfterFacts, StageFacts
  <2>2. Stage(pc)' > Stage(q)
    BY <1>1, <1>3 DEF Passed
  <2>3. Stage(pc) > Stage(q) \/ Stage(pc) = Stage(q)
    BY <1>1, <2>1, <2>2, SMTT(60)
  <2>4. CASE pc = q
    <3>1. ~(i <= Len(Work(pc)))
      BY <1>3, <2>4 DEF Current
    <3>. QED
      BY <1>1, <2>4, <3>1 DEF Passed, IsWork
  <2>. QED
    BY <2>1, <2>3, <2>4, StageFacts DEF Passed
<1>4. CASE Current # {} /\ pc' = pc /\ i' = i + 1
  <2>1. CASE Stage(pc) > Stage(q)
    BY <2>1 DEF Passed
  <2>2. CASE pc = q /\ j < i
    BY <2>2 DEF Passed
  <2>3. CASE pc = q /\ j = i
    <3>1. Work(q)[j] \in Current
      BY <1>4, <2>3 DEF Current
    <3>. QED
      BY <1>4, <2>3, <3>1 DEF Advance
  <2>. QED
    BY <1>1, <1>4, <2>1, <2>2, <2>3 DEF Passed
<1>5. CASE pc' = pc /\ i' = i
  BY <1>5 DEF Passed
<1>. QED
  BY <1>2, <1>3, <1>4, <1>5 DEF Moves

LEMMA CurrentFacts ==
    ASSUME Typed, NEW x \in Current, IsWork(pc)
    PROVE  Running /\ pc \in PhaseNames /\ pc # "done" /\ x \in Elements(Work(pc))
<1>1. i \in Nat \ {0}
  BY DEF Typed
<1>2. Running
  BY <1>1 DEF Current
<1>3. x = Work(pc)[i] /\ i <= Len(Work(pc))
  BY <1>2 DEF Current
<1>4. i \in DOMAIN Work(pc)
  BY <1>1, <1>3 DEF IsWork
<1>. QED
  BY <1>2, <1>3, <1>4, AfterFacts DEF Elements
-----------------------------------------------------------------------------
(* Every step keeps the parts of the invariant. *)

LEMMA TypedStep ==
    ASSUME Typed, Frame
    PROVE  Typed'
<1>1. m' = m /\ m' \in Specs
  BY DEF Frame, Typed
<1>2. pc' \in PhaseNames \cup {"fatal", "fault"}
  BY AfterFacts DEF Frame, Moves, Typed
<1>3. i' \in Nat \ {0}
  BY DEF Frame, Moves, Typed
<1>4. free_slot_start' \in Nat /\ FirstFree' <= free_slot_start' /\ DOMAIN root' = (1 .. SlotEnd - 1)'
  <2>1. FirstFree' = FirstFree /\ SlotEnd' = SlotEnd /\ FirstFree \in Nat
    BY <1>1, ModelSame, ModelFacts DEF Typed, FirstFree, SchedStart
  <2>2. CASE UNCHANGED <<root, free_slot_start>>
    BY <2>1, <2>2 DEF Typed
  <2>3. CASE SlotTaken
    BY <2>1, <2>3 DEF Typed, SlotTaken
  <2>4. ASSUME NEW x, Moved(x)
        PROVE  free_slot_start' = free_slot_start /\ DOMAIN root' = DOMAIN root
    BY <2>4 DEF Moved, MoveMappedCap, MoveOrigCap, MoveFrom, Abort, Stop
  <2>. QED
    BY <2>1, <2>2, <2>3, <2>4 DEF Frame, Typed
<1>5. DOMAIN irq_caps' = DOMAIN m'.irqs
  <2>1. ASSUME NEW x, CreateIrqCap(x) PROVE DOMAIN irq_caps' = DOMAIN irq_caps
    BY <2>1 DEF CreateIrqCap, Abort, Stop, tables
  <2>. QED
    BY <1>1, <2>1 DEF Frame, Typed
<1>6. DOMAIN irq_ntfn' = DOMAIN m'.irqs
  <2>1. ASSUME NEW x, InitIrq(x) PROVE DOMAIN irq_ntfn' = DOMAIN irq_ntfn
    BY <2>1 DEF InitIrq, Abort, Stop, kernel
  <2>. QED
    BY <1>1, <2>1 DEF Frame, Typed
<1>7. DOMAIN sched_ctrl' = 0 .. MaxNumNodes - 1
  <2>1. ASSUME NEW x, CreateSchedCtrlCap(x) PROVE DOMAIN sched_ctrl' = DOMAIN sched_ctrl
    BY <2>1 DEF CreateSchedCtrlCap
  <2>. QED
    BY <2>1 DEF Frame, Typed
<1>8. DOMAIN mapped' = Objects' /\ \A o \in Objects' : DOMAIN mapped'[o] = SlotsIn(o)'
  <2>1. Objects' = Objects /\ \A o : SlotsIn(o)' = SlotsIn(o)
    BY <1>1, ModelSame
  <2>2. ASSUME NEW x, MapFrame(x)
        PROVE  DOMAIN mapped' = DOMAIN mapped /\ \A o \in DOMAIN mapped : DOMAIN mapped'[o] = DOMAIN mapped[o]
    BY <2>2 DEF MapFrame, Abort, Stop, tables
  <2>. QED
    BY <2>1, <2>2 DEF Frame, Typed
<1>9. DOMAIN cnode' = Objects'
  <2>1. Objects' = Objects
    BY <1>1, ModelSame
  <2>2. ASSUME NEW x, CopyCap(x) \/ Moved(x) PROVE DOMAIN cnode' = DOMAIN cnode
    BY <2>2 DEF CopyCap, Moved, MoveMappedCap, MoveOrigCap, MoveFrom, PutCap, Abort, Stop, kernel
  <2>. QED
    BY <2>1, <2>2 DEF Frame, Typed
<1>10. DOMAIN pt_at' = Objects'
  <2>1. Objects' = Objects
    BY <1>1, ModelSame
  <2>2. ASSUME NEW x, MapTable(x) PROVE DOMAIN pt_at' = DOMAIN pt_at
    BY <2>2 DEF MapTable, Abort, Stop, kernel
  <2>. QED
    BY <2>1, <2>2 DEF Frame, Typed
<1>11. DOMAIN sc_core' = Objects' /\ DOMAIN tcb' = Objects'
  <2>1. Objects' = Objects
    BY <1>1, ModelSame
  <2>2. ASSUME NEW x, InitTcb(x) \/ InitSc(x)
        PROVE  DOMAIN sc_core' = DOMAIN sc_core /\ DOMAIN tcb' = DOMAIN tcb
    BY <2>2 DEF InitTcb, InitSc, Abort, Stop, kernel
  <2>. QED
    BY <2>1, <2>2 DEF Frame, Typed
<1>. QED
  BY <1>1, <1>2, <1>3, <1>4, <1>5, <1>6, <1>7, <1>8, <1>9, <1>10, <1>11 DEF Typed

LEMMA RootsStep ==
    ASSUME Typed, RootsInv, Frame, Advance
    PROVE  RootsInv'
<1>1. m' = m /\ m \in Specs
  BY DEF Frame, Typed
<1>2. Directories' = Directories /\ RiscV' = RiscV /\ Tcbs' = Tcbs
      /\ \A t, s : HasCap(t, s)' = HasCap(t, s) /\ CapAt(t, s)' = CapAt(t, s)
  BY <1>1, ModelSame, PlacesSame
<1>3. roots \subseteq Directories /\ (~RiscV => roots = {})
  BY DEF RootsInv
<1>4. IsWork("mark_roots") /\ Work("mark_roots") = (IF RiscV THEN InOrder(Tcbs) ELSE <<>>)
      /\ Elements(Work("mark_roots")) = IF RiscV THEN Tcbs ELSE {}
  BY <1>1, <1>3, RootsWork
<1>5. ASSUME NEW x \in Current, MarkRoot(x)
      PROVE  /\ pc = "mark_roots" /\ x \in Tcbs /\ RiscV
             /\ \/ pc' = "fault" /\ roots' = roots
                \/ HasCap(x, "vspace") /\ roots' = roots \cup {CapAt(x, "vspace").obj}
  <2>1. pc = "mark_roots"
    BY <1>5 DEF MarkRoot
  <2>2. x \in Elements(Work(pc))
    BY <1>4, <2>1, CurrentFacts
  <2>. QED
    BY <1>4, <1>5, <2>1, <2>2 DEF MarkRoot, Stop, tables
<1>6. roots' \subseteq Directories' /\ (~RiscV' => roots' = {}) /\ roots \subseteq roots'
  <2>1. ASSUME NEW x \in Current, MarkRoot(x), HasCap(x, "vspace") PROVE CapAt(x, "vspace").obj \in Directories
    BY <1>5, <2>1 DEF Directories
  <2>2. UNCHANGED roots \/ \E x \in Current : MarkRoot(x)
    BY DEF Frame
  <2>. QED
    BY <1>2, <1>3, <1>5, <2>1, <2>2
<1>7. Work("mark_roots")' = IF RiscV' THEN InOrder(Tcbs') ELSE <<>>
  <2>1. m' \in Specs
    BY <1>1
  <2>2. /\ OfType({"TCB"})' = InOrder({o \in Objects' : Type(o)' \in {"TCB"}})
    BY DEF OfType
  <2>3. ASSUME NEW o \in Objects PROVE Type(o)' = "TCB" <=> m.objects[o].type = "TCB"
    <3>1. o \in roots' => m.objects[o].type = "PT"
      BY <1>1, <1>2, <1>6, DirectoryFacts
    <3>. QED
      BY <1>1, <3>1 DEF Type
  <2>4. {o \in Objects' : Type(o)' \in {"TCB"}} = Tcbs
    BY <1>1, <2>3, ModelSame DEF Tcbs
  <2>. QED
    BY <1>2, <2>2, <2>4 DEF Work
<1>8. Work("mark_roots")' = Work("mark_roots")
  BY <1>2, <1>4, <1>7
<1>9. ASSUME NEW x \in Handled("mark_roots")', x \notin Handled("mark_roots")
      PROVE  x \in Current /\ pc' = "mark_roots" /\ MarkRoot(x)
  <2>1. Moves /\ "mark_roots" \in PhaseNames
    BY DEF Frame, PhaseNames
  <2>. QED
    BY <1>4, <1>8, <1>9, <2>1, HandledStep DEF Did
<1>10. ASSUME NEW x \in Handled("mark_roots")'
       PROVE  HasCap(x, "vspace") /\ CapAt(x, "vspace").obj \in roots'
  <2>1. CASE x \in Handled("mark_roots")
    BY <1>6, <2>1 DEF RootsInv
  <2>2. CASE x \notin Handled("mark_roots")
    BY <1>5, <1>9, <2>2
  <2>. QED
    BY <2>1, <2>2
<1>. QED
  BY <1>2, <1>6, <1>10 DEF RootsInv

LEMMA WorkFacts ==
    ASSUME Typed, RootsInv
    PROVE  /\ \A q \in LoopPhases : Stage(pc) > 1 \/ q \notin {"asids", "vspace"} => IsWork(q)
           /\ Elements(Work("irq_caps")) = UsedIrqs /\ Elements(Work("irqs")) = UsedIrqs
           /\ Elements(Work("sched_ctrl")) \subseteq 0 .. NumNodes
           /\ Stage(pc) > 1 => /\ Elements(Work("asids")) = Directories
                               /\ Elements(Work("vspace")) = AllSteps
           /\ Elements(Work("tcbs")) = Tcbs
           /\ Elements(Work("copy")) = CNodeEntries /\ Elements(Work("move")) = CNodeEntries
<1>1. m \in Specs
  BY DEF Typed
<1>2. IsWork("mark_roots")
  BY <1>1, RootsWork DEF RootsInv
<1>3. IsWork("irq_caps") /\ IsWork("irqs") /\ IsWork("sched_ctrl") /\ IsWork("tcbs")
      /\ Elements(Work("irq_caps")) = UsedIrqs /\ Elements(Work("irqs")) = UsedIrqs
      /\ Elements(Work("sched_ctrl")) \subseteq 0 .. NumNodes /\ Elements(Work("tcbs")) = Tcbs
  BY <1>1, IrqWork, SchedWork, TcbsWork
<1>4. /\ IsWork("copy") /\ Elements(Work("copy")) = CNodeEntries
      /\ IsWork("move") /\ Elements(Work("move")) = CNodeEntries
  BY <1>1, CNodeWork
<1>5. Stage(pc) > 1 => /\ IsWork("asids") /\ Elements(Work("asids")) = Directories
                       /\ IsWork("vspace") /\ Elements(Work("vspace")) = AllSteps
  BY <1>1, AsidWork, VSpaceWork
<1>. QED
  BY <1>2, <1>3, <1>4, <1>5 DEF LoopPhases

(* What the element at hand is. *)
LEMMA CurrentWork ==
    ASSUME Typed, RootsInv, NEW x \in Current
    PROVE  /\ pc \in {"irq_caps", "irqs"} => x \in UsedIrqs
           /\ pc = "sched_ctrl" => x \in 0 .. NumNodes
           /\ pc = "asids" => x \in Directories
           /\ pc = "vspace" => IsStep(x)
           /\ pc = "tcbs" => x \in Tcbs
           /\ pc \in {"copy", "move"} => x \in CNodeEntries
<1>1. pc \in LoopPhases \ {"mark_roots"} => Stage(pc) > 1
  BY DEF LoopPhases, Stage
<1>2. pc \in LoopPhases \ {"mark_roots"} => x \in Elements(Work(pc))
  BY <1>1, WorkFacts, CurrentFacts
<1>. QED
  BY <1>1, <1>2, WorkFacts, AllStepsFacts DEF LoopPhases

LEMMA LoopStep ==
    ASSUME Typed, RootsInv, Frame, Advance, NEW q \in LoopPhases \ {"mark_roots"}, NEW x \in Handled(q)',
           x \notin Handled(q)
    PROVE  pc = q /\ pc' = pc /\ x \in Current /\ Did(x)
<1>1. q \in PhaseNames /\ Stage(q) \in 2 .. 14 /\ (q \in {"asids", "vspace"} => Stage(q) > 2) /\ m' = m /\ Moves
  <2>1. q \in PhaseNames
    BY DEF LoopPhases, PhaseNames
  <2>2. Stage(q) \in 2 .. 14 /\ (q \in {"asids", "vspace"} => Stage(q) > 2)
    BY StageValues DEF LoopPhases
  <2>. QED
    BY <2>1, <2>2 DEF Frame
<1>2. \E j : Passed(q, j)'
  BY DEF Handled
<1>3. Stage(pc') >= Stage(q)
  <2>1. Stage(pc') \in 0 .. 14
    BY StageFacts
  <2>. QED
    BY <1>1, <1>2, <2>1 DEF Passed
<1>4. Stage(pc') <= Stage(pc) + 1 /\ Stage(pc) \in 0 .. 14
  BY AfterFacts, StageFacts DEF Frame, Moves
<1>5. Stage(pc) >= 1 /\ (q \in {"asids", "vspace"} => Stage(pc) > 1)
  <2>1. Stage(pc') \in 0 .. 14
    BY StageFacts
  <2>. QED
    BY <1>1, <1>3, <1>4, <2>1
<1>6. roots' = roots
  <2>1. ASSUME NEW y, MarkRoot(y) PROVE Stage(pc') <= 1
    BY <2>1 DEF MarkRoot, Continue, Stop, Stage
  <2>2. Stage(pc') \in 0 .. 14
    BY StageFacts
  <2>. QED
    BY <1>1, <1>3, <2>1, <2>2 DEF Frame
<1>7. Work(q)' = Work(q)
  BY <1>1, <1>6, WorkSame
<1>8. IsWork(q)
  BY <1>5, WorkFacts
<1>. QED
  BY <1>1, <1>7, <1>8, HandledStep

(* The slots of the boot caps, and the caps made from the cap of an object. *)
LEMMA SlotNumbers ==
    ASSUME m \in Specs
    PROVE  /\ FirstFree \in Nat /\ SchedStart \in Nat /\ IRQControlSlot \in Nat
           /\ IRQControlSlot \in 1 .. FirstFree - 1 /\ ControlSlot \in 1 .. FirstFree - 1
           /\ \A n \in 0 .. NumNodes : SchedStart + n \in 1 .. FirstFree - 1
                                       /\ SchedStart + n # IRQControlSlot
           /\ Objects \subseteq 1 .. FirstFree - 1 /\ IRQControlSlot \notin Objects
           /\ ControlSlot # IRQControlSlot /\ FirstFree <= SlotEnd /\ SlotEnd \in Nat
<1>1. NumObj \in Nat /\ NumNodes \in Nat /\ m.slots \in Nat /\ Objects = 1 .. NumObj
  BY ModelFacts
<1>2. /\ IRQControlSlot = NumObj + 1 /\ ControlSlot = NumObj + 2 /\ SchedStart = NumObj + 3
      /\ FirstFree = NumObj + NumNodes + 4 /\ SlotEnd = NumObj + NumNodes + 4 + m.slots
  BY <1>1 DEF FirstFree, SchedStart, IRQControlSlot, ControlSlot, SlotEnd
<1>. QED
  BY <1>1, <1>2

(* The cases of BootCap exclude each other. *)
LEMMA BootCaps ==
    ASSUME m \in Specs
    PROVE  /\ \A o \in Objects : Created(o) => BootCap(o) = Cap("obj", o, AllRights, 0)
           /\ BootCap(IRQControlSlot) = Cap("irqcontrol", 0, AllRights, 0)
           /\ BootCap(ControlSlot) = Cap("control", 0, AllRights, 0)
           /\ \A n \in 0 .. NumNodes - 1 : BootCap(SchedStart + n) = Cap("schedcontrol", n, AllRights, 0)
<1>1. NumObj \in Nat /\ NumNodes \in Nat /\ Objects = 1 .. NumObj
  BY ModelFacts
<1>2. /\ IRQControlSlot = NumObj + 1 /\ ControlSlot = NumObj + 2 /\ SchedStart = NumObj + 3
  BY DEF SchedStart, IRQControlSlot, ControlSlot
<1>3. ASSUME NEW o \in Objects, Created(o) PROVE BootCap(o) = Cap("obj", o, AllRights, 0)
  <2>1. o # IRQControlSlot /\ o # ControlSlot /\ o \notin SchedStart .. SchedStart + NumNodes - 1
        /\ o # SchedStart + NumNodes
    BY <1>1, <1>2
  <2>. QED
    BY <1>3, <2>1 DEF BootCap
<1>4. BootCap(IRQControlSlot) = Cap("irqcontrol", 0, AllRights, 0)
  <2>1. IRQControlSlot \notin Objects /\ IRQControlSlot # ControlSlot
        /\ IRQControlSlot \notin SchedStart .. SchedStart + NumNodes - 1
        /\ IRQControlSlot # SchedStart + NumNodes
    BY <1>1, <1>2
  <2>. QED
    BY <2>1 DEF BootCap
<1>5. BootCap(ControlSlot) = Cap("control", 0, AllRights, 0)
  <2>1. ControlSlot \notin Objects /\ IRQControlSlot # ControlSlot
        /\ ControlSlot \notin SchedStart .. SchedStart + NumNodes - 1
        /\ ControlSlot # SchedStart + NumNodes
    BY <1>1, <1>2
  <2>. QED
    BY <2>1 DEF BootCap
<1>6. ASSUME NEW n \in 0 .. NumNodes - 1
      PROVE  BootCap(SchedStart + n) = Cap("schedcontrol", n, AllRights, 0)
  <2>1. SchedStart + n \notin Objects /\ SchedStart + n # ControlSlot /\ SchedStart + n # IRQControlSlot
        /\ SchedStart + n \in SchedStart .. SchedStart + NumNodes - 1
        /\ SchedStart + n # SchedStart + NumNodes /\ (SchedStart + n) - SchedStart = n
    BY <1>1, <1>2
  <2>. QED
    BY <2>1 DEF BootCap
<1>. QED
  BY <1>3, <1>4, <1>5, <1>6

LEMMA OriginalCap ==
    ASSUME Typed, SlotsInv, NEW o \in Objects, Holds(OrigSlot(o)) \/ Created(o)
    PROVE  Created(o) /\ OrigSlot(o) = o /\ root[OrigSlot(o)] = Cap("obj", o, AllRights, 0)
<1>1. m \in Specs /\ DOMAIN root = 1 .. SlotEnd - 1
  BY DEF Typed
<1>2. Created(o) \/ OrigSlot(o) # 0
  BY <1>1 DEF Holds
<1>3. Created(o) /\ OrigSlot(o) = o
  BY <1>2 DEF OrigSlot
<1>4. o \in 1 .. FirstFree - 1 /\ o # IRQControlSlot
  BY <1>1, SlotNumbers
<1>5. root[o] = BootCap(o)
  BY <1>4 DEF SlotsInv
<1>6. BootCap(o) = Cap("obj", o, AllRights, 0)
  BY <1>1, <1>3, BootCaps
<1>. QED
  BY <1>3, <1>5, <1>6

LEMMA DerivedCap ==
    ASSUME NEW s, NEW t, NEW o, NEW r, NEW b, root[s] = Cap(t, o, AllRights, 0)
    PROVE  /\ Derived(s, r, b).type = t /\ Derived(s, r, b).obj = o
           /\ Derived(s, r, b).badge = b /\ Derived(s, r, b).map = <<>>
<1>1. /\ root[s].type = t /\ root[s].obj = o /\ root[s].badge = 0
      /\ DOMAIN root[s] = {"type", "obj", "rights", "badge", "map"}
  BY DEF Cap
<1>. QED
  BY <1>1 DEF Derived

LEMMA DerivedRights ==
    ASSUME NEW s, NEW t, NEW o, NEW r \in SUBSET AllRights, NEW b, root[s] = Cap(t, o, AllRights, 0)
    PROVE  /\ t = "obj" /\ Type(o) \in {"EP", "Frame"} => Derived(s, r, b).rights = r
           /\ r = AllRights => Derived(s, r, b).rights = r
<1>1. /\ root[s].type = t /\ root[s].obj = o /\ root[s].rights = AllRights
      /\ DOMAIN root[s] = {"type", "obj", "rights", "badge", "map"}
  BY DEF Cap
<1>2. AllRights \cap r = r
  OBVIOUS
<1>. QED
  BY <1>1, <1>2 DEF Derived, HasRights

(* A step leaves the boot caps but for the IRQ control cap, writes to the  *)
(* free slot, and takes only caps of objects out of a taken one.           *)
LEMMA RootStep ==
    ASSUME Typed, RootsInv, SlotsInv, Frame
    PROVE  \/ root' = root /\ free_slot_start' = free_slot_start
           \/ SlotTaken
           \/ /\ free_slot_start' = free_slot_start
              /\ \E s \in DOMAIN root : /\ root' = [root EXCEPT ![s] = NullCap]
                                        /\ s = IRQControlSlot \/ (Taken(s) /\ root[s].type = "obj")
<1>1. m \in Specs /\ DOMAIN root = 1 .. SlotEnd - 1
  BY DEF Typed
<1>2. ASSUME NEW e \in Current, Moved(e)
      PROVE  /\ free_slot_start' = free_slot_start
             /\ \/ root' = root
                \/ \E s \in DOMAIN root : /\ root' = [root EXCEPT ![s] = NullCap]
                                          /\ s = IRQControlSlot \/ (Taken(s) /\ root[s].type = "obj")
  <2>1. pc \in {"copy", "move"}
    BY <1>2 DEF Moved, MoveMappedCap, MoveOrigCap
  <2>2. e \in CNodeEntries
    BY <2>1, CurrentWork
  <2>3. PICK o \in CNodes : \E k \in SlotsIn(o) : e = <<o, k>>
    BY <2>2 DEF CNodeEntries
  <2>4. PICK k \in SlotsIn(o) : e = <<o, k>>
    BY <2>3
  <2>5. GoodCap(m, SpecCap(e))
    BY <1>1, <2>4, SlotFacts DEF CNodes, SpecCap, CapIn
  <2>6. CASE MoveMappedCap(e)
    <3>. DEFINE c == SpecCap(e)
                s == MappedSlot(c)
    <3>1. MoveFrom(e, s) /\ IsMapped(c)
      BY <2>6 DEF MoveMappedCap
    <3>2. CASE Holds(s) /\ root' = [root EXCEPT ![s] = NullCap]
      <4>1. s \in DOMAIN root /\ root[s] # NullCap /\ s # 0
        BY <1>1, <3>2 DEF Holds
      <4>2. c.cont \in Objects
        BY <2>5, <3>1 DEF GoodCap, Objects
      <4>3. PICK l \in SlotsIn(c.cont) : s = mapped[c.cont][l]
        BY <1>1, <4>1, <4>2, EntryFacts DEF MappedSlot
      <4>4. Taken(s) /\ root[s].type = "obj"
        BY <4>1, <4>2, <4>3 DEF SlotsInv, MappedFrom
      <4>. HIDE DEF s
      <4>. QED
        BY <3>1, <3>2, <4>1, <4>4 DEF MoveFrom, Abort, Stop
    <3>. HIDE DEF s
    <3>. QED
      BY <3>1, <3>2 DEF MoveFrom, Abort, Stop
  <2>7. CASE MoveOrigCap(e)
    <3>1. MoveFrom(e, IRQControlSlot)
      BY <2>7 DEF MoveOrigCap, MoveCap, SrcSlot
    <3>2. IRQControlSlot \in DOMAIN root
      BY <1>1, SlotNumbers
    <3>. QED
      BY <3>1, <3>2 DEF MoveFrom, Abort, Stop
  <2>. QED
    BY <1>2, <2>6, <2>7 DEF Moved
<1>. QED
  BY <1>2 DEF Frame

LEMMA SlotsKept ==
    ASSUME Typed, RootsInv, SlotsInv, Frame
    PROVE  /\ \A s \in 1 .. FirstFree - 1 : s # IRQControlSlot => root'[s] = root[s]
           /\ root'[IRQControlSlot] \in {root[IRQControlSlot], NullCap}
           /\ free_slot_start <= free_slot_start'
           /\ \A s : Taken(s) => /\ Taken(s)'
                                 /\ \/ root'[s] = root[s]
                                    \/ root'[s] = NullCap /\ root[s].type = "obj"
<1>1. m \in Specs /\ m' = m /\ DOMAIN root = 1 .. SlotEnd - 1 /\ free_slot_start \in Nat
      /\ FirstFree <= free_slot_start
  BY DEF Typed, Frame
<1>2. FirstFree' = FirstFree /\ FirstFree \in Nat /\ IRQControlSlot \in 1 .. FirstFree - 1
  BY <1>1, ModelSame, SlotNumbers
<1>3. CASE root' = root /\ free_slot_start' = free_slot_start
  BY <1>1, <1>2, <1>3 DEF Taken
<1>4. CASE SlotTaken
  BY <1>1, <1>2, <1>4 DEF Taken, SlotTaken
<1>5. CASE /\ free_slot_start' = free_slot_start
           /\ \E s \in DOMAIN root : /\ root' = [root EXCEPT ![s] = NullCap]
                                     /\ s = IRQControlSlot \/ (Taken(s) /\ root[s].type = "obj")
  BY <1>1, <1>2, <1>5 DEF Taken
<1>. QED
  BY <1>3, <1>4, <1>5, RootStep

(* A step of init_vspace maps an entry of a directory, or one of a page    *)
(* table that a directory holds.                                           *)
InTable(w, k) ==
    /\ CapIn(w.pd, k).type = "PT" /\ w.cont = CapIn(w.pd, k).obj
    /\ w.va = <<SlotOf(w.pd, k), SlotOf(w.cont, w.k)>>
LEMMA MapStepFacts ==
    ASSUME m \in Specs, NEW w, IsStep(w)
    PROVE  /\ w.pd \in Directories /\ w.cont \in Objects /\ w.k \in SlotsIn(w.cont)
           /\ MapCap(w) = CapIn(w.cont, w.k) /\ GoodCap(m, MapCap(w))
           /\ \/ w.cont = w.pd /\ w.va = <<SlotOf(w.pd, w.k)>>
              \/ \E k \in SlotsIn(w.pd) : InTable(w, k)
<1>1. PICK p \in Directories : \E k \in SlotsIn(p) :
        \/ w = MapStep(p, p, k, <<SlotOf(p, k)>>)
        \/ /\ CapIn(p, k).type = "PT"
           /\ \E l \in SlotsIn(CapIn(p, k).obj) :
                 w = MapStep(p, CapIn(p, k).obj, l, <<SlotOf(p, k), SlotOf(CapIn(p, k).obj, l)>>)
  BY DEF IsStep
<1>2. PICK k \in SlotsIn(p) :
        \/ w = MapStep(p, p, k, <<SlotOf(p, k)>>)
        \/ /\ CapIn(p, k).type = "PT"
           /\ \E l \in SlotsIn(CapIn(p, k).obj) :
                 w = MapStep(p, CapIn(p, k).obj, l, <<SlotOf(p, k), SlotOf(CapIn(p, k).obj, l)>>)
  BY <1>1
<1>3. w.pd \in Directories /\ w.cont \in Objects /\ w.k \in SlotsIn(w.cont)
      /\ \/ w.cont = w.pd /\ w.va = <<SlotOf(w.pd, w.k)>>
         \/ \E j \in SlotsIn(w.pd) : InTable(w, j)
  <2>1. CASE w = MapStep(p, p, k, <<SlotOf(p, k)>>)
    BY <2>1, DirectoryFacts DEF MapStep
  <2>2. ASSUME CapIn(p, k).type = "PT", NEW l \in SlotsIn(CapIn(p, k).obj),
               w = MapStep(p, CapIn(p, k).obj, l, <<SlotOf(p, k), SlotOf(CapIn(p, k).obj, l)>>)
        PROVE  /\ w.pd \in Directories /\ w.cont \in Objects /\ w.k \in SlotsIn(w.cont)
               /\ InTable(w, k) /\ k \in SlotsIn(w.pd)
    <3>1. w.pd = p /\ w.cont = CapIn(p, k).obj /\ w.k = l
          /\ w.va = <<SlotOf(p, k), SlotOf(CapIn(p, k).obj, l)>>
      BY <2>2 DEF MapStep
    <3>2. CapIn(p, k).obj \in Objects
      BY <2>2, TableOfDirectory
    <3>. QED
      BY <2>2, <3>1, <3>2 DEF InTable
  <2>. QED
    BY <1>2, <2>1, <2>2
<1>4. MapCap(w) = CapIn(w.cont, w.k)
  BY DEF MapCap, CapIn
<1>. QED
  BY <1>3, <1>4, SlotFacts

LEMMA TablePlaced ==
    ASSUME Typed, VSpaceInv, NEW o \in Objects, NEW p, NEW a, pt_at[o] = <<p, <<a>>>>
    PROVE  /\ o \notin asids /\ p \in Directories
           /\ \E k \in SlotsIn(p) : CapIn(p, k).type = "PT" /\ CapIn(p, k).obj = o /\ SlotOf(p, k) = a
<1>1. pt_at[o] # <<>>
  OBVIOUS
<1>2. o \notin asids
  BY <1>1 DEF VSpaceInv
<1>3. PICK w : IsStep(w) /\ MapCap(w).type = "PT" /\ MapCap(w).obj = o /\ pt_at[o] = <<w.pd, w.va>>
  BY <1>1 DEF VSpaceInv
<1>4. w.pd = p /\ w.va = <<a>>
  BY <1>3
<1>5. w.pd \in Directories /\ w.k \in SlotsIn(w.cont) /\ MapCap(w) = CapIn(w.cont, w.k)
      /\ \/ w.cont = w.pd /\ w.va = <<SlotOf(w.pd, w.k)>>
         \/ \E k \in SlotsIn(w.pd) : InTable(w, k)
  BY <1>3, MapStepFacts DEF Typed
<1>6. ASSUME NEW x, NEW y PROVE <<a>> # <<x, y>>
  <2>1. Len(<<a>>) = 1 /\ Len(<<x, y>>) = 2
    OBVIOUS
  <2>. QED
    BY <2>1
<1>7. w.cont = w.pd /\ w.va = <<SlotOf(w.pd, w.k)>>
  BY <1>4, <1>5, <1>6 DEF InTable
<1>8. SlotOf(p, w.k) = a
  BY <1>4, <1>7
<1>. QED
  BY <1>2, <1>3, <1>4, <1>5, <1>7, <1>8

(* A page is mapped at a place of its entry: a page table that is mapped   *)
(* is not an address space itself.                                         *)
LEMMA StepPlace ==
    ASSUME Typed, RootsInv, VSpaceInv, pc = "vspace", NEW w, IsStep(w), PageMappable(w.pd, w.va)
    PROVE  <<w.pd, w.va>> \in Places(<<w.cont, w.k>>)
<1>1. m \in Specs
  BY DEF Typed
<1>2. w.pd \in Directories /\ w.cont \in Objects /\ w.k \in SlotsIn(w.cont)
      /\ \/ w.cont = w.pd /\ w.va = <<SlotOf(w.pd, w.k)>>
         \/ \E k \in SlotsIn(w.pd) : InTable(w, k)
  BY <1>1, MapStepFacts
<1>3. \A e1, e2 : SpecSlot(<<e1, e2>>) = SlotOf(e1, e2) /\ SpecCap(<<e1, e2>>) = CapIn(e1, e2)
  BY DEF SpecSlot, SpecCap, SlotOf, CapIn
<1>4. CASE w.cont = w.pd /\ w.va = <<SlotOf(w.pd, w.k)>>
  BY <1>2, <1>3, <1>4 DEF Places
<1>5. ASSUME NEW k \in SlotsIn(w.pd), InTable(w, k)
      PROVE  <<w.pd, w.va>> \in Places(<<w.cont, w.k>>)
  <2>1. w.va = <<SlotOf(w.pd, k), SlotOf(w.cont, w.k)>> /\ CapIn(w.pd, k).type = "PT"
        /\ w.cont = CapIn(w.pd, k).obj
    BY <1>5 DEF InTable
  <2>2. Len(w.va) = 2 /\ w.va[1] = SlotOf(w.pd, k)
    BY <2>1
  <2>3. PICK o \in Objects : pt_at[o] = <<w.pd, <<SlotOf(w.pd, k)>>>>
    BY <2>2 DEF PageMappable
  <2>4. o \notin asids
        /\ \E l \in SlotsIn(w.pd) : /\ CapIn(w.pd, l).type = "PT" /\ CapIn(w.pd, l).obj = o
                                    /\ SlotOf(w.pd, l) = SlotOf(w.pd, k)
    BY <2>3, TablePlaced
  <2>5. o = w.cont
    <3>1. w.pd \in Objects /\ m.objects[w.pd].type \in {"PD", "PT"}
      BY <1>1, <1>2, DirectoryFacts
    <3>2. \A l \in SlotsIn(w.pd) : SlotOf(w.pd, l) = SlotOf(w.pd, k) => l = k
      BY <1>1, <3>1, SlotFacts
    <3>. QED
      BY <2>1, <2>4, <3>2
  <2>6. asids = Directories
    <3>1. Stage(pc) > Stage("asids") /\ Stage(pc) > 1
      BY StageValues
    <3>2. Handled("asids") = Directories
      BY <3>1, Completed, WorkFacts
    <3>. QED
      BY <3>2 DEF VSpaceInv
  <2>7. w.cont \notin Directories
    BY <2>4, <2>5, <2>6
  <2>8. <<w.pd, k>> \in EntriesOf(Directories, {"PT"})
    <3>1. <<w.pd, k>> \in {w.pd} \X DOMAIN m.objects[w.pd].slots
      BY DEF SlotsIn
    <3>. QED
      BY <1>2, <2>1, <3>1 DEF EntriesOf, CapIn
  <2>. DEFINE D == {x \in EntriesOf(Directories, {"PT"}) : SpecCap(x).obj = w.cont}
              place(d) == <<d[1], <<SpecSlot(d), SpecSlot(<<w.cont, w.k>>)>>>>
  <2>9. Places(<<w.cont, w.k>>) = {place(d) : d \in D}
    BY <2>7 DEF Places
  <2>10. <<w.pd, k>> \in D /\ place(<<w.pd, k>>) = <<w.pd, w.va>>
    BY <1>3, <2>1, <2>8
  <2>. HIDE DEF D
  <2>. QED
    BY <2>9, <2>10
<1>. QED
  BY <1>2, <1>4, <1>5

LEMMA SlotsStep ==
    ASSUME Typed, RootsInv, SlotsInv, VSpaceInv, Frame
    PROVE  SlotsInv'
<1>1. m \in Specs /\ m' = m /\ DOMAIN root = 1 .. SlotEnd - 1 /\ free_slot_start \in Nat
      /\ FirstFree <= free_slot_start
  BY DEF Typed, Frame
<1>2. /\ FirstFree' = FirstFree /\ IRQControlSlot' = IRQControlSlot /\ SchedStart' = SchedStart
      /\ Objects' = Objects /\ (\A o : SlotsIn(o)' = SlotsIn(o)) /\ (\A s : BootCap(s)' = BootCap(s))
      /\ (\A o, k : CapIn(o, k)' = CapIn(o, k)) /\ (\A e : Places(e)' = Places(e))
  BY <1>1, ModelSame, PlacesSame
<1>3. FirstFree \in Nat
  BY <1>1, SlotNumbers
<1>4. /\ \A s \in 1 .. FirstFree - 1 : s # IRQControlSlot => root'[s] = root[s]
      /\ root'[IRQControlSlot] \in {root[IRQControlSlot], NullCap}
      /\ \A s : Taken(s) => /\ Taken(s)'
                            /\ \/ root'[s] = root[s]
                               \/ root'[s] = NullCap /\ root[s].type = "obj"
  BY SlotsKept
<1>5. /\ \A s \in (1 .. FirstFree - 1)' : s # IRQControlSlot' => root'[s] = BootCap(s)'
      /\ root'[IRQControlSlot'] \in {BootCap(IRQControlSlot)', NullCap}
  <2>1. BootCap(IRQControlSlot)' = BootCap(IRQControlSlot)
    <3>1. PICK s : s = IRQControlSlot
      OBVIOUS
    <3>2. BootCap(IRQControlSlot)' = BootCap(s)'
      BY <1>2, <3>1 DEF BootCap
    <3>. QED
      BY <1>2, <3>1, <3>2
  <2>. QED
    BY <1>2, <1>4, <2>1 DEF SlotsInv
<1>6. ASSUME NEW n \in DOMAIN m.irqs, irq_caps'[n] # 0
      PROVE  Taken(irq_caps[n])' /\ root'[irq_caps'[n]] = Cap("irqhandler", n, AllRights, 0)
  <2>1. ASSUME NEW s, s = irq_caps[n], s # 0
        PROVE  Taken(s)' /\ root'[s] = Cap("irqhandler", n, AllRights, 0)
    <3>1. Taken(s) /\ root[s] = Cap("irqhandler", n, AllRights, 0)
      BY <2>1 DEF SlotsInv
    <3>2. root[s].type # "obj"
      BY <3>1 DEF Cap
    <3>. QED
      BY <1>4, <3>1, <3>2
  <2>2. ASSUME irq_caps'[n] = irq_caps[n]
        PROVE  Taken(irq_caps[n])' /\ root'[irq_caps'[n]] = Cap("irqhandler", n, AllRights, 0)
    BY <1>6, <2>1, <2>2 DEF Taken
  <2>3. ASSUME NEW x \in Current, CreateIrqCap(x), irq_caps'[n] # irq_caps[n]
        PROVE  Taken(irq_caps[n])' /\ root'[irq_caps'[n]] = Cap("irqhandler", n, AllRights, 0)
    <3>1. ~Abort
      BY <2>3 DEF Abort, Stop, tables
    <3>2. /\ irq_caps' = [irq_caps EXCEPT ![x] = free_slot_start]
          /\ TakeSlot(Cap("irqhandler", x, AllRights, 0)) /\ free_slot_start \in DOMAIN root
      BY <2>3, <3>1 DEF CreateIrqCap, SlotReady
    <3>3. n = x /\ irq_caps'[n] = free_slot_start
      BY <2>3, <3>2 DEF Typed
    <3>4. root'[free_slot_start] = Cap("irqhandler", x, AllRights, 0)
          /\ free_slot_start' = free_slot_start + 1
      BY <3>2 DEF TakeSlot
    <3>. QED
      BY <1>1, <1>2, <1>3, <3>3, <3>4 DEF Taken
  <2>. QED
    BY <2>2, <2>3 DEF Frame
<1>7. ASSUME NEW o \in Objects, NEW k \in SlotsIn(o), mapped'[o][k] # 0
      PROVE  Taken(mapped[o][k])'
             /\ (root'[mapped'[o][k]] = NullCap \/ MappedFrom(o, k, root'[mapped'[o][k]]))
  <2>1. ASSUME NEW s, s = mapped[o][k], s # 0
        PROVE  Taken(s)' /\ (root'[s] = NullCap \/ MappedFrom(o, k, root'[s]))
    <3>1. Taken(s) /\ (root[s] = NullCap \/ MappedFrom(o, k, root[s]))
      BY <2>1 DEF SlotsInv
    <3>. QED
      BY <1>4, <3>1
  <2>2. ASSUME mapped'[o][k] = mapped[o][k]
        PROVE  Taken(mapped[o][k])'
               /\ (root'[mapped'[o][k]] = NullCap \/ MappedFrom(o, k, root'[mapped'[o][k]]))
    BY <1>7, <2>1, <2>2 DEF Taken
  <2>3. ASSUME NEW w \in Current, MapFrame(w), mapped'[o][k] # mapped[o][k]
        PROVE  Taken(mapped[o][k])'
               /\ (root'[mapped'[o][k]] = NullCap \/ MappedFrom(o, k, root'[mapped'[o][k]]))
    <3>. DEFINE f == MapCap(w).obj
                c == [Derived(OrigSlot(f), AllRights, 0) EXCEPT !.map = <<w.pd, w.va>>]
    <3>1. ~Abort /\ pc = "vspace" /\ MapCap(w).type = "Frame"
      BY <2>3 DEF Abort, Stop, tables, MapFrame
    <3>2. IsStep(w)
      BY <3>1, CurrentWork
    <3>3. w.cont \in Objects /\ w.k \in SlotsIn(w.cont) /\ MapCap(w) = CapIn(w.cont, w.k)
          /\ GoodCap(m, MapCap(w))
      BY <1>1, <3>2, MapStepFacts
    <3>4. /\ Derivable(OrigSlot(f)) /\ free_slot_start \in DOMAIN root /\ PageMappable(w.pd, w.va)
          /\ TakeSlot(c) /\ mapped' = [mapped EXCEPT ![w.cont][w.k] = free_slot_start]
      BY <2>3, <3>1 DEF MapFrame, SlotReady
    <3>5. o = w.cont /\ k = w.k /\ mapped'[o][k] = free_slot_start
      BY <2>3, <3>3, <3>4 DEF Typed
    <3>6. f \in Objects
      BY <3>1, <3>3 DEF GoodCap, NoObjectTypes, Objects
    <3>7. root[OrigSlot(f)] = Cap("obj", f, AllRights, 0)
      BY <3>4, <3>6, OriginalCap DEF Derivable
    <3>8. /\ Derived(OrigSlot(f), AllRights, 0).type = "obj" /\ Derived(OrigSlot(f), AllRights, 0).obj = f
          /\ Derived(OrigSlot(f), AllRights, 0).badge = 0
      BY <3>7, DerivedCap
    <3>9. c.type = "obj" /\ c.obj = f /\ c.badge = 0 /\ c.rights = AllRights /\ c.map = <<w.pd, w.va>>
      <4>1. "map" \in DOMAIN Derived(OrigSlot(f), AllRights, 0)
        BY <3>7 DEF Derived, Cap
      <4>2. Derived(OrigSlot(f), AllRights, 0).rights = AllRights
        BY <3>7, DerivedRights
      <4>. QED
        BY <3>8, <4>1, <4>2
    <3>10. <<w.pd, w.va>> \in Places(<<o, k>>)
      BY <3>1, <3>2, <3>4, <3>5, StepPlace
    <3>. HIDE DEF c
    <3>11. root'[free_slot_start] = c /\ free_slot_start' = free_slot_start + 1
      BY <3>4 DEF TakeSlot
    <3>12. MappedFrom(o, k, c)
      BY <3>3, <3>5, <3>9, <3>10 DEF MappedFrom, CapIn
    <3>13. Taken(mapped[o][k])'
      BY <1>1, <1>2, <1>3, <3>5, <3>11 DEF Taken
    <3>. QED
      BY <3>5, <3>11, <3>12, <3>13
  <2>. QED
    BY <2>2, <2>3 DEF Frame
<1>8. ASSUME NEW n \in 0 .. MaxNumNodes - 1
      PROVE  sched_ctrl'[n] \in {0, SchedStart + n}
  <2>1. ASSUME NEW x \in Current, CreateSchedCtrlCap(x)
        PROVE  sched_ctrl'[n] \in {0, SchedStart + n}
    <3>1. sched_ctrl[n] \in {0, SchedStart + n} /\ n \in DOMAIN sched_ctrl
      BY DEF SlotsInv, Typed
    <3>2. sched_ctrl' = sched_ctrl \/ sched_ctrl' = [sched_ctrl EXCEPT ![x] = SchedStart + x]
      BY <2>1 DEF CreateSchedCtrlCap
    <3>. QED
      BY <3>1, <3>2
  <2>. QED
    BY <2>1 DEF Frame, SlotsInv
<1>9. \A o \in Objects : \A k \in SlotsIn(o) : mapped'[o][k] # 0 =>
          Taken(mapped[o][k])'
          /\ (root'[mapped'[o][k]] = NullCap \/ MappedFrom(o, k, root[mapped[o][k]])')
  <2>1. ASSUME NEW o \in Objects, NEW k \in SlotsIn(o), MappedFrom(o, k, root'[mapped'[o][k]])
        PROVE  MappedFrom(o, k, root[mapped[o][k]])'
    BY <1>1, <1>2, <2>1 DEF MappedFrom
  <2>. QED
    BY <1>7, <2>1
<1>. QED
  BY <1>1, <1>2, <1>5, <1>6, <1>8, <1>9 DEF SlotsInv

LEMMA ConformsSame ==
    ASSUME m' = m, NEW c, NEW k
    PROVE  /\ SameCap(c, k)' = SameCap(c, k)
           /\ BoundConforms(c, k)' = BoundConforms(c, k) /\ CapConforms(c, k)' = CapConforms(c, k)
<1>1. Places(MappingEntry(c))' = Places(MappingEntry(c))
  <2>1. PICK e : e = MappingEntry(c)
    OBVIOUS
  <2>2. MappingEntry(c)' = e
    BY <2>1, PlacesSame
  <2>3. Places(MappingEntry(c))' = Places(e)'
    BY <2>2 DEF Places
  <2>. QED
    BY <2>1, <2>3, PlacesSame
<1>2. SameCap(c, k)' = SameCap(c, k)
  BY <1>1 DEF SameCap
<1>. QED
  BY <1>2 DEF BoundConforms, CapConforms

(* A notification bound to an interrupt, and a fault endpoint of a thread. *)
LEMMA ObjectConforms ==
    ASSUME NEW c, NEW k, c.type \notin NoObjectTypes, ~IsMapped(c),
           k.type = "obj", k.obj = c.obj, k.badge = c.data
    PROVE  SameCap(c, k)
BY DEF SameCap, NoObjectTypes

LEMMA BoundCap ==
    ASSUME Typed, RootsInv, SlotsInv, NEW c, GoodCap(m, c), c.type \in {"EP", "Frame"}, ~IsMapped(c)
    PROVE  /\ c.data = 0 => BoundConforms(c, root[OrigSlot(c.obj)])
           /\ c.data # 0 => BoundConforms(c, Derived(OrigSlot(c.obj), AllRights, c.data))
<1>1. c.obj \in Objects /\ Created(c.obj) /\ c.type \notin NoObjectTypes
  BY DEF GoodCap, NoObjectTypes, Objects, Created
<1>2. root[OrigSlot(c.obj)] = Cap("obj", c.obj, AllRights, 0)
  BY <1>1, OriginalCap
<1>3. c.data = 0 => BoundConforms(c, Cap("obj", c.obj, AllRights, 0))
  <2>1. /\ Cap("obj", c.obj, AllRights, 0).type = "obj" /\ Cap("obj", c.obj, AllRights, 0).obj = c.obj
        /\ Cap("obj", c.obj, AllRights, 0).badge = 0 /\ Cap("obj", c.obj, AllRights, 0).rights = AllRights
    BY DEF Cap
  <2>. QED
    BY <1>1, <2>1, ObjectConforms DEF BoundConforms
<1>4. c.data # 0 => BoundConforms(c, Derived(OrigSlot(c.obj), AllRights, c.data))
  <2>1. /\ Derived(OrigSlot(c.obj), AllRights, c.data).type = "obj"
        /\ Derived(OrigSlot(c.obj), AllRights, c.data).obj = c.obj
        /\ Derived(OrigSlot(c.obj), AllRights, c.data).badge = c.data
    BY <1>2, DerivedCap
  <2>2. Derived(OrigSlot(c.obj), AllRights, c.data).rights = AllRights
    BY <1>2, DerivedRights
  <2>. QED
    BY <1>1, <2>1, <2>2, ObjectConforms DEF BoundConforms
<1>. QED
  BY <1>2, <1>3, <1>4

(* The CSpace root of a thread, which gets its guard. *)
LEMMA RootCap ==
    ASSUME Typed, RootsInv, SlotsInv, NEW c, GoodCap(m, c), c.type = "Obj",
           m.objects[c.obj].type = "CNode"
    PROVE  BoundConforms(c, Derived(OrigSlot(c.obj), AllRights, c.data))
<1>1. c.obj \in Objects /\ Created(c.obj) /\ c.type \notin NoObjectTypes /\ ~IsMapped(c)
  BY DEF GoodCap, NoObjectTypes, Objects, Created, IsMapped
<1>2. root[OrigSlot(c.obj)] = Cap("obj", c.obj, AllRights, 0)
  BY <1>1, OriginalCap
<1>3. PICK s, o, b : s = OrigSlot(c.obj) /\ o = c.obj /\ b = c.data
  OBVIOUS
<1>4. /\ Derived(s, AllRights, b).type = "obj" /\ Derived(s, AllRights, b).obj = o
      /\ Derived(s, AllRights, b).badge = b
  BY <1>2, <1>3, DerivedCap
<1>5. Derived(s, AllRights, b).rights = AllRights
  BY <1>2, <1>3, DerivedRights
<1>. QED
  BY <1>1, <1>3, <1>4, <1>5, ObjectConforms DEF BoundConforms

(* An endpoint that is bound with its original cap, whatever its badge. *)
LEMMA UnbadgedCap ==
    ASSUME Typed, RootsInv, SlotsInv, NEW c, GoodCap(m, c), c.type = "EP"
    PROVE  BoundConforms(Unbadged(c), root[OrigSlot(c.obj)])
<1>1. /\ c.obj \in Objects /\ Created(c.obj)
      /\ c.type \notin NoObjectTypes /\ c.type # "Frame"
  BY DEF GoodCap, NoObjectTypes, Objects, Created
<1>2. root[OrigSlot(c.obj)] = Cap("obj", c.obj, AllRights, 0)
  BY <1>1, OriginalCap
<1>. QED
  BY <1>2 DEF BoundConforms, Unbadged, Cap, SameCap, IsMapped

(* The interrupt object o, when the notification cap k is bound to its interrupt. *)
BoundTo(o, k) == \A l \in SlotsIn(o) : BoundConforms(CapIn(o, l), k)

LEMMA InitIrqBinds ==
    ASSUME Typed, RootsInv, SlotsInv, NEW n \in UsedIrqs, InitIrq(n), ~Abort, m' = m
    PROVE  /\ BoundTo(m.irqs[n], irq_ntfn'[n])
           /\ \A x \in DOMAIN m.irqs : x # n => irq_ntfn'[x] = irq_ntfn[x]
<1>. DEFINE o == m.irqs[n]
            es == m.objects[o].slots
            c == es[1].cap
<1>1. m \in Specs /\ n \in DOMAIN m.irqs /\ n \in DOMAIN irq_ntfn
  BY DEF Typed, UsedIrqs
<1>2. o \in Objects /\ m.objects[o].type = "IRQ"
  BY <1>1, ModelFacts DEF UsedIrqs
<1>3. SlotsIn(o) = 1 .. Len(es) /\ Len(es) \in Nat
  BY <1>1, <1>2, SlotFacts
<1>4. CASE Len(es) = 0
  <2>1. SlotsIn(o) = {}
    BY <1>3, <1>4
  <2>2. irq_ntfn' = irq_ntfn
    BY <1>4 DEF InitIrq, kernel
  <2>. QED
    BY <2>1, <2>2 DEF BoundTo
<1>5. CASE Len(es) = 1
  <2>1. irq_ntfn' = [irq_ntfn EXCEPT ![n] = BoundNotification(c)]
    <3>1. Len(es) # 0
      BY <1>5
    <3>. QED
      BY <3>1, Zenon DEF InitIrq
  <2>2. SlotsIn(o) = {1} /\ c = CapIn(o, 1)
    BY <1>3, <1>5 DEF CapIn
  <2>3. GoodCap(m, c) /\ c.type \in {"EP", "Frame"} /\ ~IsMapped(c)
    BY <1>1, <1>2, <2>2, SlotFacts
  <2>4. BoundConforms(c, BoundNotification(c))
    <3>. HIDE DEF c, o
    <3>. QED
      BY <2>3, BoundCap DEF BoundNotification
  <2>5. BoundTo(o, BoundNotification(c))
    <3>. HIDE DEF c, o
    <3>. QED
      BY <2>2, <2>4 DEF BoundTo
  <2>6. irq_ntfn'[n] = BoundNotification(c) /\ \A x \in DOMAIN m.irqs : x # n => irq_ntfn'[x] = irq_ntfn[x]
    <3>. HIDE DEF c
    <3>. QED
      BY <1>1, <2>1 DEF Typed
  <2>. QED
    BY <2>5, <2>6
<1>6. Len(es) \in {0, 1}
  BY <1>3 DEF InitIrq
<1>. QED
  BY <1>4, <1>5, <1>6

LEMMA IrqStep ==
    ASSUME Typed, RootsInv, SlotsInv, IrqInv, Frame, Advance
    PROVE  IrqInv'
<1>1. m \in Specs /\ m' = m /\ UsedIrqs' = UsedIrqs
  BY ModelSame DEF Typed, Frame
<1>2. ASSUME NEW n \in Handled("irq_caps")' PROVE irq_caps'[n] # 0
  <2>1. ASSUME NEW x \in Current, CreateIrqCap(x), ~Abort
        PROVE  irq_caps' = [irq_caps EXCEPT ![x] = free_slot_start] /\ x \in DOMAIN irq_caps
    <3>1. pc = "irq_caps"
      BY <2>1 DEF CreateIrqCap
    <3>2. x \in UsedIrqs
      BY <3>1, CurrentWork
    <3>. QED
      BY <2>1, <3>2 DEF CreateIrqCap, UsedIrqs, Typed
  <2>2. free_slot_start # 0
    BY <1>1, SlotNumbers DEF Typed
  <2>3. CASE n \in Handled("irq_caps")
    <3>1. irq_caps[n] # 0
      BY <2>3 DEF IrqInv
    <3>2. Abort => irq_caps' = irq_caps
      BY DEF Abort, Stop, tables
    <3>3. irq_caps' = irq_caps \/ \E x \in Current : CreateIrqCap(x)
      BY DEF Frame
    <3>4. n \in DOMAIN irq_caps
      <4>1. Handled("irq_caps") \subseteq Elements(Work("irq_caps"))
        BY DEF Handled, Elements
      <4>. QED
        BY <2>3, <4>1, WorkFacts DEF UsedIrqs, Typed
    <3>. QED
      BY <2>1, <2>2, <3>1, <3>2, <3>3, <3>4
  <2>4. CASE n \notin Handled("irq_caps")
    <3>1. pc = "irq_caps" /\ pc' = pc /\ n \in Current /\ Did(n)
      BY <2>4, LoopStep DEF LoopPhases
    <3>2. CreateIrqCap(n) /\ ~Abort
      BY <3>1 DEF Did, Abort, Stop
    <3>. QED
      BY <2>1, <2>2, <3>1, <3>2
  <2>. QED
    BY <2>3, <2>4
<1>3. ASSUME NEW n \in Handled("irqs")' PROVE BoundTo(m.irqs[n], irq_ntfn'[n])
  <2>1. ASSUME NEW x \in Current, InitIrq(x)
        PROVE  x \in UsedIrqs
    <3>1. pc = "irqs"
      BY <2>1 DEF InitIrq
    <3>. QED
      BY <3>1, CurrentWork
  <2>2. CASE n \in Handled("irqs")
    <3>1. BoundTo(m.irqs[n], irq_ntfn[n])
      BY <2>2 DEF IrqInv, IrqBound, BoundTo, CapIn
    <3>2. n \in DOMAIN m.irqs
      <4>1. Handled("irqs") \subseteq Elements(Work("irqs"))
        BY DEF Handled, Elements
      <4>. QED
        BY <2>2, <4>1, WorkFacts DEF UsedIrqs
    <3>3. ASSUME NEW x \in Current, InitIrq(x), ~Abort PROVE BoundTo(m.irqs[n], irq_ntfn'[n])
      BY <1>1, <2>1, <3>1, <3>2, <3>3, InitIrqBinds
    <3>4. Abort => irq_ntfn' = irq_ntfn
      BY DEF Abort, Stop, kernel
    <3>. QED
      BY <3>1, <3>3, <3>4 DEF Frame
  <2>3. CASE n \notin Handled("irqs")
    <3>1. pc = "irqs" /\ pc' = pc /\ n \in Current /\ Did(n)
      BY <2>3, LoopStep DEF LoopPhases
    <3>2. InitIrq(n) /\ ~Abort
      BY <3>1 DEF Did, Abort, Stop
    <3>. QED
      BY <1>1, <2>1, <3>1, <3>2, InitIrqBinds
  <2>. QED
    BY <2>2, <2>3
<1>4. ASSUME NEW n \in Handled("irqs")' PROVE IrqBound(n)'
  <2>1. PICK o, k : o = m.irqs[n] /\ k = irq_ntfn'[n]
    OBVIOUS
  <2>2. BoundTo(o, k)
    BY <1>3, <2>1
  <2>3. m'.irqs[n] = o /\ irq_ntfn'[n] = k
    BY <1>1, <2>1
  <2>4. ASSUME NEW l \in SlotsIn(o) PROVE BoundConforms(m.objects[m.irqs[n]].slots[l].cap, irq_ntfn[n])'
    <3>1. PICK c : c = CapIn(o, l)
      OBVIOUS
    <3>2. BoundConforms(c, k)'
      BY <1>1, <1>3, <2>1, <3>1, ConformsSame DEF BoundTo
    <3>3. m'.objects[m'.irqs[n]].slots[l].cap = c
      BY <1>1, <2>1, <3>1 DEF CapIn
    <3>. QED
      BY <2>3, <3>2, <3>3 DEF BoundConforms, SameCap, MappingEntry, Places
  <2>. QED
    BY <1>1, <2>3, <2>4 DEF IrqBound, SlotsIn
<1>. QED
  BY <1>2, <1>4 DEF IrqInv

LEMMA ThreadSame ==
    ASSUME m' = m, NEW t
    PROVE  /\ Complete(t)' = Complete(t) /\ HasSc(t)' = HasSc(t) /\ MCS' = MCS
           /\ \A s : HasCap(t, s)' = HasCap(t, s) /\ CapAt(t, s)' = CapAt(t, s)
<1>1. MCS' = MCS /\ \A s : HasCap(t, s)' = HasCap(t, s) /\ CapAt(t, s)' = CapAt(t, s)
  BY ModelSame
<1>. QED
  BY <1>1 DEF Complete, HasSc

(* The thread t when the kernel has the configuration x for it and its SC  *)
(* is on core c.                                                           *)
BoundAs(t, x, c) ==
    /\ x # <<>>
    /\ Complete(t) => /\ BoundConforms(CapAt(t, "cspace"), x.cspace)
                      /\ x.vspace = CapAt(t, "vspace").obj
    /\ HasCap(t, "ipcbuffer") => x.ipcbuffer = CapAt(t, "ipcbuffer").obj
    /\ HasSc(t) => x.sc = CapAt(t, "sc").obj /\ c = m.objects[t].core
    /\ MCS /\ HasCap(t, "fault_ep") => BoundConforms(CapAt(t, "fault_ep"), x.fault_ep)
    /\ MCS /\ HasCap(t, "temp_fault_ep") =>
          BoundConforms(Unbadged(CapAt(t, "temp_fault_ep")), x.temp_fault_ep)

LEMMA BoundAsNext ==
    ASSUME m' = m, NEW t, NEW x, NEW c, tcb'[t] = x, HasSc(t) => sc_core'[x.sc] = c, BoundAs(t, x, c)
    PROVE  TcbBound(t)'
<1>1. /\ Complete(t)' = Complete(t) /\ HasSc(t)' = HasSc(t) /\ MCS' = MCS
      /\ \A s : HasCap(t, s)' = HasCap(t, s) /\ CapAt(t, s)' = CapAt(t, s)
  BY ThreadSame
<1>2. ASSUME MCS, HasCap(t, "fault_ep")
      PROVE  BoundConforms(CapAt(t, "fault_ep"), tcb[t].fault_ep)'
  <2>1. PICK d, k : d = CapAt(t, "fault_ep") /\ k = x.fault_ep
    OBVIOUS
  <2>2. BoundConforms(d, k)'
    BY <1>2, <2>1, ConformsSame DEF BoundAs
  <2>3. CapAt(t, "fault_ep")' = d /\ tcb'[t].fault_ep = k
    BY <1>1, <2>1
  <2>. QED
    BY <2>2, <2>3 DEF BoundConforms, SameCap, MappingEntry, Places
<1>3. ASSUME Complete(t)
      PROVE  BoundConforms(CapAt(t, "cspace"), tcb[t].cspace)'
  <2>1. PICK d, k : d = CapAt(t, "cspace") /\ k = x.cspace
    OBVIOUS
  <2>2. BoundConforms(d, k)'
    BY <1>3, <2>1, ConformsSame DEF BoundAs
  <2>3. CapAt(t, "cspace")' = d /\ tcb'[t].cspace = k
    BY <1>1, <2>1
  <2>. QED
    BY <2>2, <2>3 DEF BoundConforms, SameCap, MappingEntry, Places
<1>4. ASSUME MCS, HasCap(t, "temp_fault_ep")
      PROVE  BoundConforms(Unbadged(CapAt(t, "temp_fault_ep")), tcb[t].temp_fault_ep)'
  <2>1. PICK d, k : d = Unbadged(CapAt(t, "temp_fault_ep")) /\ k = x.temp_fault_ep
    OBVIOUS
  <2>2. BoundConforms(d, k)'
    BY <1>4, <2>1, ConformsSame DEF BoundAs
  <2>3. Unbadged(CapAt(t, "temp_fault_ep"))' = d /\ tcb'[t].temp_fault_ep = k
    BY <1>1, <2>1 DEF Unbadged
  <2>. QED
    BY <2>2, <2>3 DEF BoundConforms, SameCap, MappingEntry, Places
<1>. QED
  BY <1>1, <1>2, <1>3, <1>4 DEF TcbBound, BoundAs

LEMMA TcbBoundAs ==
    ASSUME NEW t, TcbBound(t)
    PROVE  BoundAs(t, tcb[t], sc_core[tcb[t].sc])
BY DEF TcbBound, BoundAs

LEMMA ConfiguredThread ==
    ASSUME Typed, RootsInv, SlotsInv, NEW t \in Tcbs
    PROVE  BoundAs(t, TcbConfig(t), m.objects[t].core)
<1>1. m \in Specs /\ t \in Objects /\ m.objects[t].type = "TCB"
  BY DEF Typed, Tcbs
<1>2. TcbConfig(t) # <<>>
  <2>1. DOMAIN TcbConfig(t) = {"cspace", "vspace", "ipcbuffer", "sc", "fault_ep", "temp_fault_ep"}
    BY DEF TcbConfig
  <2>2. DOMAIN <<>> = {}
    OBVIOUS
  <2>. QED
    BY <2>1, <2>2
<1>3. Complete(t) => TcbConfig(t).vspace = CapAt(t, "vspace").obj
  BY DEF TcbConfig, TcbObj, Complete
<1>4. HasCap(t, "ipcbuffer") => TcbConfig(t).ipcbuffer = CapAt(t, "ipcbuffer").obj
  BY DEF TcbConfig, TcbObj
<1>5. HasSc(t) => TcbConfig(t).sc = CapAt(t, "sc").obj
  BY DEF TcbConfig, TcbObj, HasSc
<1>6. ASSUME MCS, HasCap(t, "fault_ep")
      PROVE  BoundConforms(CapAt(t, "fault_ep"), TcbConfig(t).fault_ep)
  <2>. DEFINE c == CapAt(t, "fault_ep")
  <2>1. PICK k \in SlotsIn(t) : SlotOf(t, k) = "fault_ep" /\ c = CapIn(t, k)
    BY <1>1, <1>6, CapFacts
  <2>2. c.type = "EP" /\ GoodCap(m, c)
    BY <1>1, <2>1, SlotFacts
  <2>3. ~IsMapped(c)
    BY <2>2 DEF IsMapped
  <2>4. TcbConfig(t).fault_ep = IF c.data # 0 THEN Derived(OrigSlot(c.obj), AllRights, c.data)
                                ELSE root[OrigSlot(c.obj)]
    BY <1>6 DEF TcbConfig, TcbObj, BadgedFault
  <2>. HIDE DEF c
  <2>. QED
    BY <2>2, <2>3, <2>4, BoundCap DEF c
<1>7. ASSUME Complete(t)
      PROVE  BoundConforms(CapAt(t, "cspace"), TcbConfig(t).cspace)
  <2>. DEFINE c == CapAt(t, "cspace")
  <2>1. HasCap(t, "cspace")
    BY <1>7 DEF Complete
  <2>2. PICK k \in SlotsIn(t) : SlotOf(t, k) = "cspace" /\ c = CapIn(t, k)
    BY <1>1, <2>1, CapFacts
  <2>3. c.type = "Obj" /\ GoodCap(m, c) /\ m.objects[c.obj].type = "CNode"
    BY <1>1, <2>2, SlotFacts
  <2>4. TcbConfig(t).cspace = Derived(OrigSlot(c.obj), AllRights, c.data)
    BY <1>7, <2>1 DEF TcbConfig, TcbObj
  <2>. HIDE DEF c
  <2>. QED
    BY <2>3, <2>4, RootCap DEF c
<1>8. ASSUME MCS, HasCap(t, "temp_fault_ep")
      PROVE  BoundConforms(Unbadged(CapAt(t, "temp_fault_ep")), TcbConfig(t).temp_fault_ep)
  <2>. DEFINE c == CapAt(t, "temp_fault_ep")
  <2>1. PICK k \in SlotsIn(t) : SlotOf(t, k) = "temp_fault_ep" /\ c = CapIn(t, k)
    BY <1>1, <1>8, CapFacts
  <2>2. c.type = "EP" /\ GoodCap(m, c)
    BY <1>1, <2>1, SlotFacts
  <2>3. TcbConfig(t).temp_fault_ep = root[OrigSlot(c.obj)]
    BY <1>8 DEF TcbConfig, TcbObj
  <2>. HIDE DEF c
  <2>. QED
    BY <2>2, <2>3, UnbadgedCap DEF c
<1>. HIDE DEF TcbConfig
<1>. QED
  BY <1>2, <1>3, <1>4, <1>5, <1>6, <1>7, <1>8 DEF BoundAs

LEMMA TcbStep ==
    ASSUME Typed, RootsInv, SlotsInv, TcbInv, Frame, Advance
    PROVE  TcbInv'
<1>1. m \in Specs /\ m' = m
  BY DEF Typed, Frame
<1>2. ASSUME NEW t \in Current, InitTcb(t), ~Abort
      PROVE  TcbBound(t)'
  <2>1. t \in Tcbs /\ t \in Objects /\ t \in DOMAIN tcb
    <3>1. pc = "tcbs"
      BY <1>2 DEF InitTcb
    <3>. QED
      BY <3>1, CurrentWork DEF Tcbs, Typed
  <2>2. tcb' = [tcb EXCEPT ![t] = TcbConfig(t)]
        /\ (HasSc(t) => sc_core' = [sc_core EXCEPT ![CapAt(t, "sc").obj] = m.objects[t].core])
    BY <1>2 DEF InitTcb
  <2>3. BoundAs(t, TcbConfig(t), m.objects[t].core)
    BY <2>1, ConfiguredThread
  <2>4. PICK x, c : x = TcbConfig(t) /\ c = m.objects[t].core
    OBVIOUS
  <2>5. tcb'[t] = x
    BY <2>1, <2>2, <2>4
  <2>6. ASSUME HasSc(t) PROVE sc_core'[x.sc] = c
    <3>1. x.sc = CapAt(t, "sc").obj
      BY <2>3, <2>4, <2>6 DEF BoundAs
    <3>2. CapAt(t, "sc").obj \in Objects
      <4>1. PICK k \in SlotsIn(t) : SlotOf(t, k) = "sc" /\ CapAt(t, "sc") = CapIn(t, k)
        BY <1>1, <2>1, <2>6, CapFacts DEF HasSc
      <4>. QED
        BY <1>1, <2>1, <4>1, SlotFacts DEF Tcbs
    <3>3. CapAt(t, "sc").obj \in DOMAIN sc_core
      BY <3>2 DEF Typed
    <3>. QED
      BY <2>2, <2>4, <2>6, <3>1, <3>3
  <2>7. BoundAs(t, x, c)
    BY <2>3, <2>4
  <2>. QED
    BY <1>1, <2>5, <2>6, <2>7, BoundAsNext
<1>3. ASSUME NEW u \in Handled("tcbs"), NEW t \in Current, InitTcb(t), ~Abort, u # t
      PROVE  TcbBound(u)'
  <2>1. TcbBound(u) /\ u \in Tcbs
    <3>1. Handled("tcbs") \subseteq Elements(Work("tcbs"))
      BY DEF Handled, Elements
    <3>. QED
      BY <3>1, WorkFacts DEF TcbInv
  <2>2. u \in Objects /\ u \in DOMAIN tcb
    BY <2>1 DEF Tcbs, Typed
  <2>3. TcbAccepted(t) /\ tcb' = [tcb EXCEPT ![t] = TcbConfig(t)]
        /\ sc_core' = IF HasSc(t) THEN [sc_core EXCEPT ![CapAt(t, "sc").obj] = m.objects[t].core]
                      ELSE sc_core
    BY <1>3 DEF InitTcb
  <2>4. PICK x, c : x = tcb[u] /\ c = sc_core[tcb[u].sc]
    OBVIOUS
  <2>5. tcb'[u] = x
    BY <1>3, <2>2, <2>3, <2>4
  <2>6. ASSUME HasSc(u) PROVE sc_core'[x.sc] = c
    <3>1. x.sc = CapAt(u, "sc").obj /\ x # <<>>
      BY <2>1, <2>4, <2>6 DEF TcbBound
    <3>2. CapAt(u, "sc").obj \in Objects
      <4>1. PICK k \in SlotsIn(u) : SlotOf(u, k) = "sc" /\ CapAt(u, "sc") = CapIn(u, k)
        BY <1>1, <2>2, <2>6, CapFacts DEF HasSc
      <4>. QED
        BY <1>1, <2>1, <2>2, <4>1, SlotFacts DEF Tcbs
    <3>3. x.sc \in DOMAIN sc_core
      BY <3>1, <3>2 DEF Typed
    <3>4. HasSc(t) => x.sc # CapAt(t, "sc").obj
      BY <2>2, <2>3, <2>4, <3>1 DEF TcbAccepted
    <3>. QED
      BY <2>3, <2>4, <3>3, <3>4
  <2>7. BoundAs(u, x, c)
    BY <2>1, <2>4, TcbBoundAs
  <2>. QED
    BY <1>1, <2>5, <2>6, <2>7, BoundAsNext
<1>4. ASSUME NEW u \in Handled("tcbs"), UNCHANGED <<tcb, sc_core>> PROVE TcbBound(u)'
  <2>1. PICK x, c : x = tcb[u] /\ c = sc_core[tcb[u].sc]
    OBVIOUS
  <2>2. BoundAs(u, x, c)
    BY <2>1, TcbBoundAs DEF TcbInv
  <2>3. tcb'[u] = x /\ sc_core'[x.sc] = c
    BY <1>4, <2>1
  <2>. QED
    BY <1>1, <2>2, <2>3, BoundAsNext
<1>5. ASSUME NEW u \in Handled("tcbs")', u \in Handled("tcbs") PROVE TcbBound(u)'
  <2>1. ASSUME NEW t \in Current, InitSc(t) PROVE FALSE
    <3>1. pc = "scs"
      BY <2>1 DEF InitSc
    <3>. QED
      BY <1>5, <3>1, StageValues DEF Handled, Passed
  <2>2. Abort => UNCHANGED <<tcb, sc_core>>
    BY DEF Abort, Stop, kernel
  <2>3. UNCHANGED <<tcb, sc_core>> \/ \E x \in Current : InitTcb(x) \/ InitSc(x)
    BY DEF Frame
  <2>. QED
    BY <1>2, <1>3, <1>4, <1>5, <2>1, <2>2, <2>3
<1>6. ASSUME NEW u \in Handled("tcbs")', u \notin Handled("tcbs") PROVE TcbBound(u)'
  <2>1. pc = "tcbs" /\ pc' = pc /\ u \in Current /\ Did(u)
    BY <1>6, LoopStep DEF LoopPhases
  <2>2. InitTcb(u) /\ ~Abort
    BY <2>1 DEF Did, Abort, Stop
  <2>. QED
    BY <1>2, <2>1, <2>2
<1>. QED
  BY <1>5, <1>6 DEF TcbInv

(* Once the threads are being started nothing else happens any more. *)
LEMMA QuietStep ==
    ASSUME pc \in {"start", "done"}, [Next]_vars
    PROVE  /\ pc' \in {"start", "done"}
           /\ UNCHANGED <<cnode, asids, pt_at, vspace, irq_ntfn, sc_core, tcb, filled>> /\ UNCHANGED root
<1>1. CASE UNCHANGED vars
  BY <1>1 DEF vars, kernel
<1>2. CASE NextPhase
  <2>1. pc = "start" /\ Stage(After(pc)) = 14 /\ After(pc) \in PhaseNames
    BY <1>2, AfterFacts, StageValues DEF NextPhase
  <2>2. After(pc) = "done"
    BY <2>1, StageFacts, StageValues DEF PhaseNames
  <2>. QED
    BY <1>2, <2>2 DEF NextPhase, kernel
<1>3. ASSUME NEW x, StartThread(x)
      PROVE  /\ pc' \in {"start", "done"}
             /\ UNCHANGED <<cnode, asids, pt_at, vspace, irq_ntfn, sc_core, tcb, filled>> /\ UNCHANGED root
  BY <1>3 DEF StartThread, Continue
<1>4. ASSUME NEW x
      PROVE  ~(\/ MarkRoot(x) \/ CreateIrqCap(x) \/ CreateSchedCtrlCap(x) \/ DuplicateCap(x)
               \/ InitIrq(x) \/ SetAsid(x) \/ InitFrame(x)
               \/ MapTable(x) \/ MapFrame(x) \/ MapOther(x)
               \/ InitSc(x) \/ InitTcb(x)
               \/ CopyCap(x) \/ MoveMappedCap(x) \/ MoveOrigCap(x) \/ SkipCap(x))
  BY DEF MarkRoot, CreateIrqCap, CreateSchedCtrlCap, DuplicateCap, InitIrq, SetAsid, InitFrame, MapTable,
         MapFrame, MapOther, InitSc, InitTcb, CopyCap, MoveMappedCap, MoveOrigCap, SkipCap
<1>. QED
  BY <1>1, <1>2, <1>3, <1>4 DEF Next, Step, Halt

LEMMA RunStep ==
    ASSUME RunInv, Frame, [Next]_vars
    PROVE  RunInv'
<1>1. ASSUME NEW x, StartThread(x) PROVE pc \in {"start", "done"}
  BY <1>1 DEF StartThread
<1>2. running' = running \/ pc \in {"start", "done"}
  BY <1>1 DEF Frame
<1>. QED
  BY <1>2, QuietStep DEF RunInv

LEMMA StepSame ==
    ASSUME m' = m, NEW w
    PROVE  IsStep(w)' = IsStep(w)
<1>1. Directories' = Directories
  BY PlacesSame
<1>. QED
  BY <1>1 DEF IsStep, SlotsIn, CapIn, SlotOf

(* At a place of a directory there is the step of one entry only. *)
LEMMA OneEntry ==
    ASSUME m \in Specs, NEW v, NEW w, IsStep(v), IsStep(w), w.cont = w.pd, w.va = <<SlotOf(w.pd, w.k)>>,
           v.pd = w.pd, v.va = w.va
    PROVE  v.cont = w.cont /\ v.k = w.k
<1>1. v.pd \in Directories /\ v.k \in SlotsIn(v.cont)
      /\ \/ v.cont = v.pd /\ v.va = <<SlotOf(v.pd, v.k)>>
         \/ \E k \in SlotsIn(v.pd) : InTable(v, k)
  BY MapStepFacts
<1>2. ASSUME NEW a, NEW x, NEW y PROVE <<a>> # <<x, y>>
  <2>1. Len(<<a>>) = 1 /\ Len(<<x, y>>) = 2
    OBVIOUS
  <2>. QED
    BY <2>1
<1>3. v.cont = v.pd /\ v.va = <<SlotOf(v.pd, v.k)>>
  BY <1>1, <1>2 DEF InTable
<1>4. SlotOf(w.pd, v.k) = SlotOf(w.pd, w.k)
  BY <1>3
<1>5. w.pd \in Objects /\ m.objects[w.pd].type \in {"PD", "PT"} /\ w.k \in SlotsIn(w.pd)
  BY <1>1, DirectoryFacts, MapStepFacts
<1>. QED
  BY <1>1, <1>3, <1>4, <1>5, SlotFacts

LEMMA AsidsGiven ==
    ASSUME Typed, RootsInv, VSpaceInv, Stage(pc) > 6
    PROVE  asids = Directories
<1>1. Stage(pc) > Stage("asids") /\ Stage(pc) > 1
  <2>1. Stage(pc) \in 0 .. 14
    BY StageFacts
  <2>. QED
    BY <2>1, StageValues
<1>2. Handled("asids") = Directories
  BY <1>1, Completed, WorkFacts
<1>. QED
  BY <1>2 DEF VSpaceInv

(* init_level_2 ignores that a page table cannot be mapped.  In a well     *)
(* formed model that only happens to a page table that is where it belongs. *)
LEMMA IgnoredTable ==
    ASSUME Typed, RootsInv, VSpaceInv, WellFormed, pc = "vspace", NEW w, IsStep(w), w.cont = w.pd,
           MapCap(w).type = "PT", ~TableMappable(MapCap(w).obj, w.pd, w.va)
    PROVE  pt_at[MapCap(w).obj] = <<w.pd, w.va>>
<1>. DEFINE o == MapCap(w).obj
            pts == EntriesOf(Directories, {"PT"})
<1>1. m \in Specs
  BY DEF Typed
<1>2. w.pd \in Directories /\ w.k \in SlotsIn(w.pd) /\ MapCap(w) = CapIn(w.pd, w.k)
      /\ \/ w.va = <<SlotOf(w.pd, w.k)>>
         \/ \E k \in SlotsIn(w.pd) : InTable(w, k)
  BY <1>1, MapStepFacts
<1>3. asids = Directories
  BY StageValues, AsidsGiven
<1>4. \A p \in Directories : \A k \in SlotsIn(p) : CapIn(p, k).type = "PT" =>
         <<p, k>> \in pts /\ SpecCap(<<p, k>>) = CapIn(p, k)
  BY DEF EntriesOf, SlotsIn, CapIn, SpecCap
<1>5. /\ \A x \in pts : SpecCap(x).obj \notin Directories
      /\ \A x, y \in pts : SpecCap(x).obj = SpecCap(y).obj /\ SpecCap(x).obj \in Objects => x = y
      /\ \A p \in {SpecCap(x).obj : x \in pts} : \A k \in SlotsIn(p) : CapIn(p, k).type # "PT"
  <2>1. \A x \in pts : SpecCap(x).obj \notin Directories
    BY DEF WellFormed
  <2>2. \A y \in Objects : AtMostOne({e \in pts : SpecCap(e).obj = y})
    BY DEF WellFormed
  <2>3. EntriesOf({SpecCap(x).obj : x \in pts}, {"EP", "PT"}) = {}
    BY DEF WellFormed
  <2>4. ASSUME NEW p \in {SpecCap(x).obj : x \in pts}, NEW k \in SlotsIn(p), CapIn(p, k).type = "PT"
        PROVE  FALSE
    <3>1. <<p, k>> \in EntriesOf({SpecCap(x).obj : x \in pts}, {"EP", "PT"})
      BY <2>4, SMTT(60) DEF EntriesOf, SlotsIn, CapIn
    <3>. QED
      BY <2>3, <3>1
  <2>. HIDE DEF pts
  <2>5. ASSUME NEW x \in pts, NEW y \in pts, SpecCap(x).obj = SpecCap(y).obj, SpecCap(x).obj \in Objects
        PROVE  x = y
    BY <2>2, <2>5 DEF AtMostOne
  <2>. QED
    BY <2>1, <2>4, <2>5
<1>. HIDE DEF pts
<1>6. o \in Objects
  BY <1>1, <1>2, TableOfDirectory
<1>7. <<w.pd, w.k>> \in pts /\ SpecCap(<<w.pd, w.k>>).obj = o /\ o \notin Directories
  BY <1>2, <1>4, <1>5
<1>8. w.va = <<SlotOf(w.pd, w.k)>>
  <2>1. ASSUME NEW k \in SlotsIn(w.pd), InTable(w, k) PROVE FALSE
    <3>1. CapIn(w.pd, k).type = "PT" /\ w.pd = CapIn(w.pd, k).obj
      BY <2>1 DEF InTable
    <3>. QED
      BY <1>2, <1>4, <1>5, <3>1
  <2>. QED
    BY <1>2, <2>1
<1>9. ASSUME pt_at[o] # <<>> PROVE pt_at[o] = <<w.pd, w.va>>
  <2>1. PICK v : IsStep(v) /\ MapCap(v).type = "PT" /\ MapCap(v).obj = o /\ pt_at[o] = <<v.pd, v.va>>
    BY <1>6, <1>9 DEF VSpaceInv
  <2>2. /\ v.pd \in Directories /\ v.k \in SlotsIn(v.cont) /\ MapCap(v) = CapIn(v.cont, v.k)
        /\ \/ v.cont = v.pd /\ v.va = <<SlotOf(v.pd, v.k)>>
           \/ \E k \in SlotsIn(v.pd) : InTable(v, k)
    BY <1>1, <2>1, MapStepFacts
  <2>3. ASSUME NEW k \in SlotsIn(v.pd), InTable(v, k) PROVE FALSE
    <3>1. CapIn(v.pd, k).type = "PT" /\ v.cont = CapIn(v.pd, k).obj
      BY <2>3 DEF InTable
    <3>2. v.cont \in {SpecCap(x).obj : x \in pts}
      BY <1>4, <2>2, <3>1
    <3>. QED
      BY <1>5, <2>1, <2>2, <3>2
  <2>4. v.cont = v.pd /\ v.va = <<SlotOf(v.pd, v.k)>>
    BY <2>2, <2>3
  <2>5. <<v.pd, v.k>> \in pts /\ SpecCap(<<v.pd, v.k>>).obj = o
    BY <1>4, <2>1, <2>2, <2>4
  <2>6. <<v.pd, v.k>> = <<w.pd, w.k>>
    BY <1>5, <1>6, <1>7, <2>5
  <2>7. v.pd = w.pd /\ v.k = w.k
    BY <2>6
  <2>. QED
    BY <1>8, <2>1, <2>4, <2>7
<1>10. ASSUME NEW x \in vspace, x.pd = w.pd, x.va = w.va PROVE FALSE
  <2>1. PICK v : IsStep(v) /\ MapCap(v).type = "Frame" /\ x = PageOf(v)
    <3>1. \A y \in vspace : \E v : /\ IsStep(v) /\ MapCap(v).type = "Frame" /\ y = PageOf(v)
                                   /\ <<v.pd, v.va>> \in Places(<<v.cont, v.k>>)
      BY DEF VSpaceInv
    <3>. QED
      BY <3>1
  <2>2. v.pd = w.pd /\ v.va = w.va
    BY <1>10, <2>1 DEF PageOf
  <2>3. v.cont = w.cont /\ v.k = w.k
    BY <1>1, <1>8, <2>1, <2>2, OneEntry
  <2>. QED
    BY <2>1, <2>3 DEF MapCap
<1>11. ASSUME NEW t \in Objects, pt_at[t] = <<w.pd, w.va>> PROVE t = o
  <2>1. PICK v : IsStep(v) /\ MapCap(v).type = "PT" /\ MapCap(v).obj = t /\ pt_at[t] = <<v.pd, v.va>>
    BY <1>11 DEF VSpaceInv
  <2>2. v.pd = w.pd /\ v.va = w.va
    BY <1>11, <2>1
  <2>3. v.cont = w.cont /\ v.k = w.k
    BY <1>1, <1>8, <2>1, <2>2, OneEntry
  <2>. QED
    BY <2>1, <2>3 DEF MapCap
<1>. HIDE DEF o
<1>12. pt_at[o] # <<>> \/ Occupied(w.pd, w.va)
  BY <1>2, <1>3, <1>7 DEF TableMappable, o
<1>13. pt_at[o] = <<w.pd, w.va>>
  BY <1>9, <1>10, <1>11, <1>12 DEF Occupied
<1>. QED
  BY <1>13 DEF o

(* What an iteration of init_vspace does when it goes on. *)
LEMMA FrameMapped ==
    ASSUME Typed, RootsInv, VSpaceInv, NEW w \in Current, MapFrame(w), ~Abort
    PROVE  /\ pc = "vspace" /\ IsStep(w) /\ MapCap(w).type = "Frame"
           /\ vspace' = vspace \cup {PageOf(w)}
           /\ <<w.pd, w.va>> \in Places(<<w.cont, w.k>>)
<1>1. pc = "vspace" /\ MapCap(w).type = "Frame"
  BY DEF MapFrame
<1>2. IsStep(w)
  BY <1>1, CurrentWork
<1>3. PageMappable(w.pd, w.va) /\ vspace' = vspace \cup {PageOf(w)}
  BY DEF MapFrame, PageOf
<1>. QED
  BY <1>1, <1>2, <1>3, StepPlace

LEMMA TableMapped ==
    ASSUME Typed, RootsInv, VSpaceInv, NEW w \in Current, MapTable(w), ~Abort
    PROVE  /\ pc = "vspace" /\ IsStep(w) /\ MapCap(w).type = "PT" /\ MapCap(w).obj \in Objects
           /\ \/ /\ TableMappable(MapCap(w).obj, w.pd, w.va)
                 /\ pt_at' = [pt_at EXCEPT ![MapCap(w).obj] = <<w.pd, w.va>>] /\ pc' = pc
              \/ ~TableMappable(MapCap(w).obj, w.pd, w.va) /\ pt_at' = pt_at
<1>1. pc = "vspace" /\ MapCap(w).type = "PT"
  BY DEF MapTable
<1>2. IsStep(w)
  BY <1>1, CurrentWork
<1>3. MapCap(w).obj \in Objects
  <2>1. GoodCap(m, MapCap(w))
    BY <1>2, MapStepFacts DEF Typed
  <2>. QED
    BY <1>1, <2>1 DEF GoodCap, NoObjectTypes, Objects
<1>. QED
  BY <1>1, <1>2, <1>3 DEF MapTable, Continue, kernel

LEMMA AsidsStep ==
    ASSUME Typed, RootsInv, VSpaceInv, Frame, Advance
    PROVE  /\ asids' \subseteq Directories' /\ asids \subseteq asids'
           /\ Handled("asids")' \subseteq asids'
           /\ asids' # asids => pc = "asids"
<1>1. m' = m /\ Directories' = Directories
  BY PlacesSame DEF Frame
<1>2. ASSUME NEW x \in Current, SetAsid(x)
      PROVE  pc = "asids" /\ x \in Directories /\ (asids' = asids \cup {x} \/ (Abort /\ asids' = asids))
  <2>1. pc = "asids"
    BY <1>2 DEF SetAsid
  <2>2. x \in Directories
    BY <2>1, CurrentWork
  <2>. QED
    BY <1>2, <2>1, <2>2 DEF SetAsid, Abort, Stop, kernel
<1>3. asids' = asids \/ \E x \in Current : SetAsid(x)
  BY DEF Frame
<1>4. asids' \subseteq Directories' /\ asids \subseteq asids' /\ (asids' # asids => pc = "asids")
  BY <1>1, <1>2, <1>3 DEF VSpaceInv
<1>5. ASSUME NEW x \in Handled("asids")' PROVE x \in asids'
  <2>1. CASE x \in Handled("asids")
    BY <1>4, <2>1 DEF VSpaceInv
  <2>2. CASE x \notin Handled("asids")
    <3>1. pc = "asids" /\ pc' = pc /\ x \in Current /\ Did(x)
      BY <2>2, LoopStep DEF LoopPhases
    <3>2. SetAsid(x) /\ ~Abort
      BY <3>1 DEF Did, Abort, Stop
    <3>. QED
      BY <1>2, <3>1, <3>2
  <2>. QED
    BY <2>1, <2>2
<1>. QED
  BY <1>4, <1>5

LEMMA PagesStep ==
    ASSUME Typed, RootsInv, VSpaceInv, Frame
    PROVE  /\ vspace \subseteq vspace'
           /\ \A x \in vspace' : \E w : /\ IsStep(w) /\ MapCap(w).type = "Frame" /\ x = PageOf(w)
                                        /\ <<w.pd, w.va>> \in Places(<<w.cont, w.k>>)
<1>1. \A x \in vspace : \E w : /\ IsStep(w) /\ MapCap(w).type = "Frame" /\ x = PageOf(w)
                               /\ <<w.pd, w.va>> \in Places(<<w.cont, w.k>>)
  BY DEF VSpaceInv
<1>2. CASE vspace' = vspace
  BY <1>1, <1>2
<1>3. ASSUME NEW w \in Current, MapFrame(w), ~Abort
      PROVE  /\ vspace' = vspace \cup {PageOf(w)} /\ IsStep(w) /\ MapCap(w).type = "Frame"
             /\ <<w.pd, w.va>> \in Places(<<w.cont, w.k>>)
  BY <1>3, FrameMapped
<1>4. Abort => vspace' = vspace
  BY DEF Abort, Stop, kernel
<1>5. vspace' = vspace \/ \E x \in Current : MapFrame(x)
  BY DEF Frame
<1>. QED
  BY <1>1, <1>2, <1>3, <1>4, <1>5

LEMMA StageStep ==
    ASSUME Typed, Moves, Stage(pc) \in {0} \cup 8 .. 14
    PROVE  Stage(pc)' \in {0} \cup 8 .. 14
<1>1. Stage(pc') \in 0 .. 14
  BY StageFacts
<1>2. CASE Running /\ pc' = After(pc)
  <2>1. Stage(pc') = Stage(pc) + 1 /\ Stage(pc) \in 1 .. 14
    BY <1>2, AfterFacts, StageFacts
  <2>. QED
    BY <1>1, <2>1
<1>3. CASE pc' \in {"fatal", "fault"}
  BY <1>3, StageFacts
<1>4. CASE pc' = pc
  BY <1>4
<1>. QED
  BY <1>2, <1>3, <1>4 DEF Moves

LEMMA TablesStep ==
    ASSUME Typed, RootsInv, VSpaceInv, Frame, Advance, NEW o \in Objects, pt_at'[o] # <<>>
    PROVE  /\ o \notin asids' /\ Stage(pc)' \in {0} \cup 8 .. 14
           /\ \E w : /\ IsStep(w) /\ MapCap(w).type = "PT" /\ MapCap(w).obj = o
                     /\ pt_at'[o] = <<w.pd, w.va>>
<1>1. pt_at' = pt_at \/ \E x \in Current : MapTable(x)
  BY DEF Frame
<1>2. ASSUME pt_at[o] # <<>>, pt_at'[o] = pt_at[o]
      PROVE  /\ o \notin asids' /\ Stage(pc)' \in {0} \cup 8 .. 14
             /\ \E w : /\ IsStep(w) /\ MapCap(w).type = "PT" /\ MapCap(w).obj = o
                       /\ pt_at'[o] = <<w.pd, w.va>>
  <2>1. /\ o \notin asids /\ Stage(pc) \in {0} \cup 8 .. 14
        /\ \E w : /\ IsStep(w) /\ MapCap(w).type = "PT" /\ MapCap(w).obj = o
                  /\ pt_at[o] = <<w.pd, w.va>>
    BY <1>2 DEF VSpaceInv
  <2>2. pc # "asids"
    BY <2>1, StageValues
  <2>3. asids' = asids
    BY <2>2, AsidsStep
  <2>4. Stage(pc)' \in {0} \cup 8 .. 14
    BY <2>1, StageStep DEF Frame
  <2>. QED
    BY <1>2, <2>1, <2>3, <2>4
<1>3. ASSUME NEW w \in Current, MapTable(w), pt_at'[o] # pt_at[o]
      PROVE  /\ o \notin asids' /\ Stage(pc)' \in {0} \cup 8 .. 14
             /\ IsStep(w) /\ MapCap(w).type = "PT" /\ MapCap(w).obj = o
             /\ pt_at'[o] = <<w.pd, w.va>>
  <2>1. ~Abort
    BY <1>3 DEF Abort, Stop, kernel
  <2>2. /\ pc = "vspace" /\ IsStep(w) /\ MapCap(w).type = "PT"
        /\ TableMappable(MapCap(w).obj, w.pd, w.va)
        /\ pt_at' = [pt_at EXCEPT ![MapCap(w).obj] = <<w.pd, w.va>>] /\ pc' = pc
    BY <1>3, <2>1, TableMapped
  <2>3. MapCap(w).obj = o /\ pt_at'[o] = <<w.pd, w.va>>
    BY <1>3, <2>2 DEF Typed
  <2>4. o \notin asids /\ asids' = asids
    BY <2>2, <2>3, AsidsStep DEF TableMappable
  <2>5. Stage(pc)' = 8
    BY <2>2, StageValues
  <2>. QED
    BY <2>2, <2>3, <2>4, <2>5
<1>. QED
  BY <1>1, <1>2, <1>3

LEMMA HandledVSpaceStep ==
    ASSUME Typed, RootsInv, VSpaceInv, Frame, Advance, NEW w \in Handled("vspace")'
    PROVE  /\ MapCap(w).type = "Frame" => PageOf(w) \in vspace'
           /\ MapCap(w).type = "PT" /\ w.cont = w.pd /\ WellFormed => pt_at'[MapCap(w).obj] = <<w.pd, w.va>>
<1>1. CASE w \in Handled("vspace")
  <2>1. /\ MapCap(w).type = "Frame" => PageOf(w) \in vspace
        /\ MapCap(w).type = "PT" /\ w.cont = w.pd /\ WellFormed => pt_at[MapCap(w).obj] = <<w.pd, w.va>>
    BY <1>1 DEF VSpaceInv
  <2>2. vspace \subseteq vspace'
    BY PagesStep
  <2>3. ASSUME MapCap(w).type = "PT", w.cont = w.pd, WellFormed
        PROVE  pt_at'[MapCap(w).obj] = <<w.pd, w.va>>
    <3>. DEFINE o == MapCap(w).obj
    <3>1. pt_at[o] = <<w.pd, w.va>> /\ pt_at[o] # <<>>
      <4>1. pt_at[o] = <<w.pd, w.va>>
        BY <2>1, <2>3, Zenon
      <4>2. \A x, y : <<x, y>> # <<>>
        OBVIOUS
      <4>. QED
        BY ONLY <4>1, <4>2, Zenon
    <3>2. ASSUME NEW v \in Current, MapTable(v) PROVE pt_at'[o] = pt_at[o]
      <4>1. CASE Abort
        BY <4>1 DEF Abort, Stop, kernel
      <4>2. CASE ~Abort
        <5>1. pt_at' = pt_at \/ (pt_at' = [pt_at EXCEPT ![MapCap(v).obj] = <<v.pd, v.va>>]
                                 /\ pt_at[MapCap(v).obj] = <<>>)
          BY <3>2, <4>2, TableMapped DEF TableMappable
        <5>2. o \in DOMAIN pt_at
          <6>1. IsStep(w)
            <7>1. Stage(pc) > 1
              <8>1. \E j : Passed("vspace", j)
                BY <1>1 DEF Handled
              <8>2. Stage(pc) \in 0 .. 14
                BY StageFacts
              <8>. QED
                BY <8>1, <8>2, StageValues DEF Passed
            <7>2. w \in Elements(Work("vspace"))
              BY <1>1 DEF Handled, Elements
            <7>. QED
              BY <7>1, <7>2, WorkFacts, AllStepsFacts
          <6>2. GoodCap(m, MapCap(w))
            BY <6>1, MapStepFacts DEF Typed
          <6>. QED
            BY <2>3, <6>2 DEF GoodCap, NoObjectTypes, Objects, Typed
        <5>. HIDE DEF o
        <5>. QED
          BY <3>1, <5>1, <5>2
      <4>. QED
        BY <4>1, <4>2
    <3>3. pt_at' = pt_at \/ \E x \in Current : MapTable(x)
      BY DEF Frame
    <3>. QED
      BY <3>1, <3>2, <3>3
  <2>. QED
    BY <2>1, <2>2, <2>3
<1>2. CASE w \notin Handled("vspace")
  <2>1. pc = "vspace" /\ pc' = pc /\ w \in Current /\ Did(w)
    BY <1>2, LoopStep DEF LoopPhases
  <2>2. ~Abort /\ (MapTable(w) \/ MapFrame(w))
    BY <2>1 DEF Did, Abort, Stop
  <2>3. CASE MapFrame(w)
    <3>1. MapCap(w).type = "Frame" /\ vspace' = vspace \cup {PageOf(w)}
      BY <2>1, <2>2, <2>3, FrameMapped
    <3>. QED
      BY <3>1
  <2>4. CASE MapTable(w)
    <3>1. /\ IsStep(w) /\ MapCap(w).type = "PT" /\ MapCap(w).obj \in Objects
          /\ \/ /\ TableMappable(MapCap(w).obj, w.pd, w.va)
                /\ pt_at' = [pt_at EXCEPT ![MapCap(w).obj] = <<w.pd, w.va>>]
             \/ ~TableMappable(MapCap(w).obj, w.pd, w.va) /\ pt_at' = pt_at
      BY <2>1, <2>2, <2>4, TableMapped
    <3>2. MapCap(w).obj \in DOMAIN pt_at
      BY <3>1 DEF Typed
    <3>. QED
      BY <2>1, <3>1, <3>2, IgnoredTable
  <2>. QED
    BY <2>2, <2>3, <2>4
<1>. QED
  BY <1>1, <1>2

LEMMA VSpaceStep ==
    ASSUME Typed, RootsInv, VSpaceInv, Frame, Advance
    PROVE  VSpaceInv'
<1>1. m' = m /\ Objects' = Objects
  BY ModelSame DEF Frame
<1>2. /\ \A w : MapCap(w)' = MapCap(w) /\ PageOf(w)' = PageOf(w)
      /\ \A e : Places(e)' = Places(e)
      /\ \A w : IsStep(w)' = IsStep(w)
      /\ WellFormed' = WellFormed
  BY <1>1, PlacesSame, StepSame, WellFormedSame
<1>3. /\ asids' \subseteq Directories' /\ Handled("asids")' \subseteq asids'
  BY AsidsStep
<1>4. \A x \in vspace' : \E w : /\ IsStep(w)' /\ MapCap(w)'.type = "Frame" /\ x = PageOf(w)'
                                /\ <<w.pd, w.va>> \in Places(<<w.cont, w.k>>)'
  <2>1. ASSUME NEW x \in vspace'
        PROVE  \E w : /\ IsStep(w)' /\ MapCap(w)'.type = "Frame" /\ x = PageOf(w)'
                      /\ <<w.pd, w.va>> \in Places(<<w.cont, w.k>>)'
    <3>1. PICK w : /\ IsStep(w) /\ MapCap(w).type = "Frame" /\ x = PageOf(w)
                   /\ <<w.pd, w.va>> \in Places(<<w.cont, w.k>>)
      BY PagesStep
    <3>2. Places(<<w.cont, w.k>>)' = Places(<<w.cont, w.k>>)
      BY <1>2
    <3>. QED
      BY <1>2, <3>1, <3>2
  <2>. QED
    BY <2>1
<1>5. ASSUME NEW o \in Objects, pt_at'[o] # <<>>
      PROVE  /\ o \notin asids' /\ Stage(pc)' \in {0} \cup 8 .. 14
             /\ \E w : /\ IsStep(w)' /\ MapCap(w)'.type = "PT" /\ MapCap(w)'.obj = o
                       /\ pt_at'[o] = <<w.pd, w.va>>
  BY <1>2, <1>5, TablesStep
<1>6. ASSUME NEW w \in Handled("vspace")'
      PROVE  /\ MapCap(w)'.type = "Frame" => PageOf(w)' \in vspace'
             /\ MapCap(w)'.type = "PT" /\ w.cont = w.pd /\ WellFormed' =>
                   pt_at'[MapCap(w)'.obj] = <<w.pd, w.va>>
  BY <1>2, HandledVSpaceStep
<1>. QED
  BY <1>1, <1>3, <1>4, <1>5, <1>6 DEF VSpaceInv

LEMMA EntryFactsOf ==
    ASSUME m \in Specs, NEW e \in CNodeEntries
    PROVE  /\ e[1] \in CNodes /\ e[1] \in Objects /\ e[2] \in SlotsIn(e[1])
           /\ SpecCap(e) = CapIn(e[1], e[2]) /\ SpecSlot(e) = SlotOf(e[1], e[2])
           /\ GoodCap(m, SpecCap(e))
<1>1. PICK o \in CNodes : e \in {o} \X SlotsIn(o)
  BY DEF CNodeEntries
<1>2. e[1] = o /\ e[2] \in SlotsIn(o) /\ o \in Objects
  BY <1>1 DEF CNodes
<1>. QED
  BY <1>2, SlotFacts DEF SpecCap, SpecSlot, CapIn, SlotOf

(* What a well-formed model says of the caps in CNodes. *)
LEMMA HeldCaps ==
    ASSUME m \in Specs, WellFormed, NEW e \in CNodeEntries
    PROVE  /\ SpecCap(e).type = "SchedControl" => SpecCap(e).obj < NumNodes
           /\ IsMapped(SpecCap(e)) => SpecCap(MappingEntry(SpecCap(e))).obj = SpecCap(e).obj
<1>. DEFINE held == EntriesOf(CNodes, {"Frame", "PT", "IRQControl", "IRQHandler", "SchedControl"})
<1>1. e \in UNION {{o} \X DOMAIN m.objects[o].slots : o \in CNodes}
  BY DEF CNodeEntries, SlotsIn
<1>2. SpecCap(e).type \in {"Frame", "SchedControl"} => e \in held
  BY <1>1 DEF EntriesOf, SpecCap
<1>3. \A x \in {y \in held : SpecCap(y).type = "SchedControl"} : SpecCap(x).obj < NumNodes
  BY DEF WellFormed
<1>4. \A x \in {y \in held : SpecCap(y).type = "Frame"} : IsMapped(SpecCap(x)) =>
         SpecCap(MappingEntry(SpecCap(x))).obj = SpecCap(x).obj
  BY DEF WellFormed
<1>. HIDE DEF held
<1>. QED
  BY <1>2, <1>3, <1>4 DEF IsMapped

(* A copy of the cap in a slot that is not a mapped frame's. *)
LEMMA CopyConforms ==
    ASSUME Typed, RootsInv, SlotsInv, WellFormed, NEW e \in CNodeEntries,
           ~MoveCap(SpecCap(e)), ~IsMapped(SpecCap(e)), Holds(SrcSlot(SpecCap(e)))
    PROVE  CapConforms(SpecCap(e), Derived(SrcSlot(SpecCap(e)), SpecCap(e).rights, SpecCap(e).data))
<1>. DEFINE c == SpecCap(e)
            s == SrcSlot(c)
<1>1. m \in Specs /\ GoodCap(m, c) /\ s \in DOMAIN root /\ s # 0
  BY EntryFactsOf DEF Typed, Holds
<1>2. c.rights \in SUBSET AllRights
  BY <1>1 DEF GoodCap
<1>3. ASSUME NEW t, root[s] = Cap(t, c.obj, AllRights, 0)
      PROVE  /\ Derived(s, c.rights, c.data).type = t /\ Derived(s, c.rights, c.data).obj = c.obj
             /\ Derived(s, c.rights, c.data).badge = c.data
             /\ t = "obj" /\ Type(c.obj) \in {"EP", "Frame"} => Derived(s, c.rights, c.data).rights = c.rights
  <2>1. PICK z, o, r, b : z = s /\ o = c.obj /\ r = c.rights /\ b = c.data
    OBVIOUS
  <2>2. r \in SUBSET AllRights /\ root[z] = Cap(t, o, AllRights, 0)
    BY <1>2, <1>3, <2>1
  <2>3. /\ Derived(z, r, b).type = t /\ Derived(z, r, b).obj = o /\ Derived(z, r, b).badge = b
    BY <2>2, DerivedCap
  <2>4. t = "obj" /\ Type(o) \in {"EP", "Frame"} => Derived(z, r, b).rights = r
    BY <2>2, DerivedRights
  <2>. HIDE DEF s, c
  <2>. QED
    BY <2>1, <2>3, <2>4
<1>4. CASE c.type = "IRQHandler"
  <2>1. s = irq_caps[c.obj] /\ c.obj \in DOMAIN m.irqs
    BY <1>1, <1>4 DEF SrcSlot, GoodCap
  <2>2. root[s] = Cap("irqhandler", c.obj, AllRights, 0)
    BY <1>1, <2>1 DEF SlotsInv
  <2>. HIDE DEF s, c
  <2>3. SameCap(c, Derived(s, c.rights, c.data))
    BY <1>3, <1>4, <2>2 DEF SameCap, IsMapped
  <2>. QED
    BY <1>4, <2>3 DEF CapConforms, c, s
<1>5. CASE c.type = "SchedControl"
  <2>1. c.obj \in Nat /\ c.obj < NumNodes
    BY <1>1, <1>5, HeldCaps DEF GoodCap
  <2>2. c.obj \in 0 .. NumNodes - 1 /\ c.obj \in 0 .. MaxNumNodes - 1 /\ c.obj < MaxNumNodes
        /\ c.obj \in 0 .. NumNodes
    BY <1>1, <2>1, ModelFacts
  <2>3. s = sched_ctrl[c.obj]
    BY <1>5, <2>2 DEF SrcSlot
  <2>4. s = SchedStart + c.obj
    BY <1>1, <2>2, <2>3 DEF SlotsInv
  <2>5. SchedStart + c.obj \in 1 .. FirstFree - 1 /\ SchedStart + c.obj # IRQControlSlot
    BY <1>1, <2>2, SlotNumbers
  <2>6. root[s] = BootCap(SchedStart + c.obj)
    BY <2>4, <2>5 DEF SlotsInv
  <2>7. root[s] = Cap("schedcontrol", c.obj, AllRights, 0)
    BY <1>1, <2>2, <2>6, BootCaps
  <2>. HIDE DEF s, c
  <2>8. SameCap(c, Derived(s, c.rights, c.data))
    BY <1>3, <1>5, <2>7 DEF SameCap, IsMapped
  <2>. QED
    BY <1>5, <2>8 DEF CapConforms, c, s
<1>6. CASE c.type = "Control"
  <2>1. c.obj = 0 /\ s = ControlSlot
    BY <1>1, <1>6 DEF GoodCap, SrcSlot
  <2>2. root[s] = Cap("control", c.obj, AllRights, 0)
    BY <1>1, <2>1, SlotNumbers, BootCaps DEF SlotsInv
  <2>. HIDE DEF s, c
  <2>3. SameCap(c, Derived(s, c.rights, c.data))
    BY <1>3, <1>6, <2>2 DEF SameCap, IsMapped
  <2>. QED
    BY <1>6, <2>3 DEF CapConforms, c, s
<1>7. CASE c.type \notin NoObjectTypes
  <2>1. c.obj \in Objects /\ s = OrigSlot(c.obj)
    BY <1>1, <1>7 DEF GoodCap, NoObjectTypes, Objects, SrcSlot
  <2>2. root[s] = Cap("obj", c.obj, AllRights, 0)
    BY <2>1, OriginalCap
  <2>3. c.type \in {"EP", "Frame"} => Type(c.obj) \in {"EP", "Frame"}
    <3>1. c.type \in {"EP", "Frame"} => m.objects[c.obj].type \in {"EP", "Frame"}
      BY <1>1 DEF GoodCap
    <3>. QED
      BY <1>1, <2>1, <3>1, TypeFacts DEF RootsInv
  <2>4. SameCap(c, Derived(s, c.rights, c.data))
    BY <1>3, <1>7, <2>2, ObjectConforms
  <2>. QED
    BY <1>3, <2>2, <2>3, <2>4 DEF CapConforms
<1>. QED
  BY <1>4, <1>5, <1>6, <1>7 DEF NoObjectTypes, MoveCap

(* The cap of a mapped frame, from the entry that the model's cap names. *)
LEMMA MappedConforms ==
    ASSUME Typed, RootsInv, SlotsInv, WellFormed, NEW e \in CNodeEntries, IsMapped(SpecCap(e)),
           Holds(MappedSlot(SpecCap(e)))
    PROVE  CapConforms(SpecCap(e), root[MappedSlot(SpecCap(e))])
<1>. DEFINE c == SpecCap(e)
            s == MappedSlot(c)
            k == EntryAt(c.cont, c.cslot)
<1>1. m \in Specs /\ GoodCap(m, c) /\ s \in DOMAIN root /\ s # 0 /\ root[s] # NullCap
  BY EntryFactsOf DEF Typed, Holds
<1>2. c.cont \in Objects /\ c.data = 0 /\ c.type = "Frame"
  BY <1>1 DEF GoodCap, Objects, IsMapped
<1>3. k # 0 /\ s = mapped[c.cont][k]
  BY <1>1 DEF MappedSlot
<1>4. k \in SlotsIn(c.cont)
  BY <1>1, <1>2, <1>3, EntryFacts
<1>5. MappedFrom(c.cont, k, root[s])
  BY <1>1, <1>2, <1>3, <1>4 DEF SlotsInv
<1>6. MappingEntry(c) = <<c.cont, k>> /\ SpecCap(<<c.cont, k>>) = m.objects[c.cont].slots[k].cap
  BY DEF MappingEntry, SpecCap
<1>7. m.objects[c.cont].slots[k].cap.obj = c.obj
  BY <1>1, <1>6, HeldCaps
<1>8. root[s].type = "obj" /\ root[s].obj = c.obj /\ root[s].badge = c.data
      /\ root[s].rights = AllRights /\ root[s].map \in Places(MappingEntry(c))
  BY <1>2, <1>5, <1>6, <1>7 DEF MappedFrom
<1>. HIDE DEF s, c
<1>9. SameCap(c, root[s])
  BY <1>2, <1>8 DEF SameCap
<1>. QED
  BY <1>8, <1>9 DEF CapConforms, s, c

(* The IRQ control cap, which is moved. *)
LEMMA ControlConforms ==
    ASSUME Typed, SlotsInv, NEW e \in CNodeEntries, MoveCap(SpecCap(e)), Holds(SrcSlot(SpecCap(e)))
    PROVE  CapConforms(SpecCap(e), root[SrcSlot(SpecCap(e))])
<1>. DEFINE c == SpecCap(e)
            s == SrcSlot(c)
<1>1. m \in Specs /\ GoodCap(m, c) /\ root[s] # NullCap /\ c.type = "IRQControl"
  BY EntryFactsOf DEF Typed, Holds, MoveCap
<1>2. c.obj = 0 /\ c.data = 0 /\ s = IRQControlSlot
  BY <1>1 DEF GoodCap, SrcSlot
<1>3. root[s] = Cap("irqcontrol", 0, AllRights, 0)
  BY <1>1, <1>2, BootCaps DEF SlotsInv
<1>4. root[s].obj = c.obj /\ root[s].badge = c.data /\ root[s].type = "irqcontrol"
  BY <1>2, <1>3 DEF Cap
<1>. HIDE DEF c, s
<1>5. SameCap(c, root[s])
  BY <1>1, <1>4 DEF SameCap, IsMapped
<1>. QED
  BY <1>1, <1>5 DEF CapConforms, c, s

(* The cap that an iteration of init_cspace puts into an empty slot. *)
LEMMA CapMade ==
    ASSUME Typed, RootsInv, SlotsInv, NEW e \in Current, CopyCap(e) \/ Moved(e), ~Abort
    PROVE  /\ e \in CNodeEntries /\ SpecSlot(e) \notin DOMAIN cnode[e[1]]
           /\ \E c : PutCap(e, c) /\ (WellFormed => CapConforms(SpecCap(e), c))
<1>1. pc \in {"copy", "move"}
  BY DEF CopyCap, Moved, MoveMappedCap, MoveOrigCap
<1>2. e \in CNodeEntries
  BY <1>1, CurrentWork
<1>3. CASE CopyCap(e)
  <2>1. /\ Derivable(SrcSlot(SpecCap(e))) /\ DestReady(e)
        /\ ~MoveCap(SpecCap(e)) /\ ~IsMapped(SpecCap(e))
        /\ PutCap(e, Derived(SrcSlot(SpecCap(e)), SpecCap(e).rights, SpecCap(e).data))
    BY <1>3 DEF CopyCap
  <2>2. Holds(SrcSlot(SpecCap(e)))
    BY <2>1 DEF Derivable
  <2>. QED
    BY <1>2, <2>1, <2>2, CopyConforms DEF DestReady
<1>4. CASE MoveMappedCap(e)
  <2>1. /\ Holds(MappedSlot(SpecCap(e))) /\ DestReady(e) /\ IsMapped(SpecCap(e))
        /\ PutCap(e, root[MappedSlot(SpecCap(e))])
    BY <1>4 DEF MoveMappedCap, MoveFrom
  <2>. QED
    BY <1>2, <2>1, MappedConforms DEF DestReady
<1>5. CASE MoveOrigCap(e)
  <2>1. /\ Holds(SrcSlot(SpecCap(e))) /\ DestReady(e) /\ MoveCap(SpecCap(e))
        /\ PutCap(e, root[SrcSlot(SpecCap(e))])
    BY <1>5 DEF MoveOrigCap, MoveFrom
  <2>. QED
    BY <1>2, <2>1, ControlConforms DEF DestReady
<1>. QED
  BY <1>3, <1>4, <1>5 DEF Moved

LEMMA PutFacts ==
    ASSUME Typed, NEW e \in CNodeEntries, NEW c, PutCap(e, c)
    PROVE  /\ SpecSlot(e) \in DOMAIN cnode'[e[1]] /\ cnode'[e[1]][SpecSlot(e)] = c
           /\ \A o \in Objects : \A s \in DOMAIN cnode[o] :
                 o # e[1] \/ s # SpecSlot(e) => s \in DOMAIN cnode'[o] /\ cnode'[o][s] = cnode[o][s]
           /\ \A o \in Objects : \A s \in DOMAIN cnode'[o] :
                 s \in DOMAIN cnode[o] \/ (o = e[1] /\ s = SpecSlot(e))
<1>1. e[1] \in Objects /\ DOMAIN cnode = Objects
  BY EntryFactsOf DEF Typed
<1>2. PICK x, y, f : x = e[1] /\ y = SpecSlot(e) /\ f = cnode[x]
  OBVIOUS
<1>3. cnode' = [cnode EXCEPT ![x] = [s \in DOMAIN f \cup {y} |-> IF s = y THEN c ELSE f[s]]]
  BY <1>2 DEF PutCap
<1>4. /\ cnode'[x] = [s \in DOMAIN f \cup {y} |-> IF s = y THEN c ELSE f[s]]
      /\ \A o \in Objects : o # x => cnode'[o] = cnode[o]
  BY <1>1, <1>2, <1>3
<1>. QED
  BY <1>1, <1>2, <1>4

LEMMA CNodeStep ==
    ASSUME Typed, RootsInv, SlotsInv, CNodeInv, Frame, Advance
    PROVE  CNodeInv'
<1>1. m \in Specs /\ m' = m
  BY DEF Typed, Frame
<1>2. /\ Objects' = Objects /\ WellFormed' = WellFormed
      /\ \A o : SlotsIn(o)' = SlotsIn(o)
      /\ \A o, k : SlotOf(o, k)' = SlotOf(o, k)
      /\ \A e : SpecCap(e)' = SpecCap(e) /\ SpecSlot(e)' = SpecSlot(e)
  BY <1>1, ModelSame, PlacesSame, WellFormedSame
<1>3. ASSUME NEW e, NEW c, SpecSlot(e) \in DOMAIN cnode'[e[1]], cnode'[e[1]][SpecSlot(e)] = c,
             WellFormed => CapConforms(SpecCap(e), c)
      PROVE  CapPut(e)'
  <2>1. PICK a, x, z : a = SpecCap(e) /\ x = e[1] /\ z = SpecSlot(e)
    OBVIOUS
  <2>2. SpecCap(e)' = a /\ SpecSlot(e)' = z
    BY <1>2, <2>1
  <2>3. WellFormed => CapConforms(a, c)'
    BY <1>1, <1>3, <2>1, ConformsSame
  <2>4. cnode'[x][z] = c /\ z \in DOMAIN cnode'[x]
    BY <1>3, <2>1
  <2>5. WellFormed' => CapConforms(SpecCap(e), cnode[e[1]][SpecSlot(e)])'
    BY <1>2, <2>1, <2>2, <2>3, <2>4 DEF CapConforms, SameCap, MappingEntry, Places
  <2>. QED
    BY <2>1, <2>2, <2>4, <2>5 DEF CapPut
<1>4. cnode' = cnode \/ \E x \in Current : (CopyCap(x) \/ Moved(x)) /\ ~Abort
  <2>1. cnode' = cnode \/ \E x \in Current : CopyCap(x) \/ Moved(x)
    BY DEF Frame
  <2>2. Abort => cnode' = cnode
    BY DEF Abort, Stop, kernel
  <2>. QED
    BY <2>1, <2>2
<1>5. \A o \in Objects : \A s \in DOMAIN cnode'[o] : \E k \in SlotsIn(o) : s = SlotOf(o, k)
  <2>1. CASE cnode' = cnode
    BY <2>1 DEF CNodeInv
  <2>2. ASSUME NEW x \in Current, CopyCap(x) \/ Moved(x), ~Abort
        PROVE  \A o \in Objects : \A s \in DOMAIN cnode'[o] : \E k \in SlotsIn(o) : s = SlotOf(o, k)
    <3>1. x \in CNodeEntries /\ \E c : PutCap(x, c)
      BY <2>2, CapMade
    <3>2. \A o \in Objects : \A s \in DOMAIN cnode'[o] :
             s \in DOMAIN cnode[o] \/ (o = x[1] /\ s = SpecSlot(x))
      BY <3>1, PutFacts
    <3>3. x[2] \in SlotsIn(x[1]) /\ SpecSlot(x) = SlotOf(x[1], x[2])
      BY <1>1, <3>1, EntryFactsOf
    <3>. QED
      BY <3>2, <3>3 DEF CNodeInv
  <2>. QED
    BY <1>4, <2>1, <2>2
<1>6. ASSUME NEW e \in CNodeEntries, CapPut(e) PROVE CapPut(e)'
  <2>1. SpecSlot(e) \in DOMAIN cnode[e[1]] /\ e[1] \in Objects
        /\ (WellFormed => CapConforms(SpecCap(e), cnode[e[1]][SpecSlot(e)]))
    BY <1>1, <1>6, EntryFactsOf DEF CapPut
  <2>2. SpecSlot(e) \in DOMAIN cnode'[e[1]] /\ cnode'[e[1]][SpecSlot(e)] = cnode[e[1]][SpecSlot(e)]
    <3>1. ASSUME NEW x \in Current, CopyCap(x) \/ Moved(x), ~Abort
          PROVE  SpecSlot(e) \in DOMAIN cnode'[e[1]]
                 /\ cnode'[e[1]][SpecSlot(e)] = cnode[e[1]][SpecSlot(e)]
      <4>1. x \in CNodeEntries /\ SpecSlot(x) \notin DOMAIN cnode[x[1]] /\ \E c : PutCap(x, c)
        BY <3>1, CapMade
      <4>2. e[1] # x[1] \/ SpecSlot(e) # SpecSlot(x)
        BY <2>1, <4>1
      <4>. QED
        BY <2>1, <4>1, <4>2, PutFacts
    <3>. QED
      BY <1>4, <2>1, <3>1
  <2>. QED
    BY <1>3, <2>1, <2>2
<1>7. ASSUME NEW e \in Current, CopyCap(e) \/ Moved(e), ~Abort PROVE CapPut(e)'
  <2>1. PICK c : PutCap(e, c) /\ (WellFormed => CapConforms(SpecCap(e), c)) /\ e \in CNodeEntries
    BY <1>7, CapMade
  <2>2. SpecSlot(e) \in DOMAIN cnode'[e[1]] /\ cnode'[e[1]][SpecSlot(e)] = c
    BY <2>1, PutFacts
  <2>. QED
    BY <1>3, <2>1, <2>2
<1>8. ASSUME NEW q \in {"copy", "move"}, NEW e \in Handled(q) PROVE e \in CNodeEntries
  BY WorkFacts DEF Handled, Elements
<1>9. ASSUME NEW e \in Handled("copy")', ~MoveCap(SpecCap(e)) PROVE CapPut(e)'
  <2>1. CASE e \in Handled("copy")
    BY <1>6, <1>8, <1>9, <2>1 DEF CNodeInv
  <2>2. CASE e \notin Handled("copy")
    <3>1. pc = "copy" /\ pc' = pc /\ e \in Current /\ Did(e)
      BY <2>2, LoopStep DEF LoopPhases
    <3>2. (CopyCap(e) \/ Moved(e)) /\ ~Abort
      BY <1>9, <3>1 DEF Did, SkipCap, Moved, Abort, Stop
    <3>. QED
      BY <1>7, <3>1, <3>2
  <2>. QED
    BY <2>1, <2>2
<1>10. ASSUME NEW e \in Handled("move")', MoveCap(SpecCap(e)) PROVE CapPut(e)'
  <2>1. CASE e \in Handled("move")
    BY <1>6, <1>8, <1>10, <2>1 DEF CNodeInv
  <2>2. CASE e \notin Handled("move")
    <3>1. pc = "move" /\ pc' = pc /\ e \in Current /\ Did(e)
      BY <2>2, LoopStep DEF LoopPhases
    <3>2. (CopyCap(e) \/ Moved(e)) /\ ~Abort
      BY <1>10, <3>1 DEF Did, SkipCap, Moved, Abort, Stop
    <3>. QED
      BY <1>7, <3>1, <3>2
  <2>. QED
    BY <2>1, <2>2
<1>11. \A e : MoveCap(SpecCap(e))' = MoveCap(SpecCap(e))
  BY <1>2 DEF MoveCap
<1>. QED
  BY <1>2, <1>5, <1>9, <1>10, <1>11 DEF CNodeInv
-----------------------------------------------------------------------------
(* The invariant holds. *)

LEMMA InitInv ==
    ASSUME Init
    PROVE  Inv
<1>1. m \in Specs /\ pc = "mark_roots" /\ i = 1 /\ roots = {}
  BY DEF Init
<1>2. Typed
  <2>1. pc \in PhaseNames /\ i \in Nat \ {0}
    BY <1>1 DEF PhaseNames
  <2>2. free_slot_start = FirstFree /\ FirstFree \in Nat /\ FirstFree <= free_slot_start
    BY <1>1, SlotNumbers DEF Init
  <2>3. DOMAIN root = 1 .. SlotEnd - 1 /\ DOMAIN irq_caps = DOMAIN m.irqs /\ DOMAIN irq_ntfn = DOMAIN m.irqs
        /\ DOMAIN sched_ctrl = 0 .. MaxNumNodes - 1 /\ DOMAIN mapped = Objects
        /\ DOMAIN cnode = Objects /\ DOMAIN pt_at = Objects
        /\ DOMAIN sc_core = Objects /\ DOMAIN tcb = Objects
    BY DEF Init
  <2>4. \A o \in Objects : DOMAIN mapped[o] = SlotsIn(o)
    BY DEF Init, SlotsIn
  <2>. QED
    BY <1>1, <2>1, <2>2, <2>3, <2>4 DEF Typed
<1>3. ASSUME NEW q \in LoopPhases PROVE Handled(q) = {}
  <2>1. CASE q = "mark_roots"
    <3>1. IsWork("mark_roots")
      BY <1>1, RootsWork
    <3>2. \A k \in DOMAIN Work("mark_roots") : ~(k < i)
      BY <1>1, <3>1 DEF IsWork
    <3>. QED
      BY <1>1, <2>1, <3>2, StageValues DEF Handled, Passed
  <2>2. CASE q # "mark_roots"
    <3>1. Stage(q) \in 2 .. 12
      BY <2>2, StageValues DEF LoopPhases
    <3>. QED
      BY <1>1, <2>2, <3>1, StageValues DEF Handled, Passed
  <2>. QED
    BY <2>1, <2>2
<1>4. RootsInv
  BY <1>1, <1>3 DEF RootsInv, LoopPhases
<1>5. SlotsInv
  <2>1. root = [s \in 1 .. SlotEnd - 1 |-> BootCap(s)]
    BY DEF Init
  <2>2. FirstFree <= SlotEnd /\ FirstFree \in Nat /\ SlotEnd \in Nat /\ IRQControlSlot \in 1 .. FirstFree - 1
    BY <1>1, SlotNumbers
  <2>3. \A s \in 1 .. FirstFree - 1 : root[s] = BootCap(s)
    <3>1. \A s \in 1 .. FirstFree - 1 : s \in 1 .. SlotEnd - 1
      BY <2>2
    <3>. QED
      BY <2>1, <3>1
  <2>4. \A n \in DOMAIN m.irqs : irq_caps[n] = 0
    BY DEF Init
  <2>5. \A o \in Objects : \A k \in SlotsIn(o) : mapped[o][k] = 0
    BY DEF Init, SlotsIn
  <2>6. \A n \in 0 .. MaxNumNodes - 1 : sched_ctrl[n] = 0
    BY DEF Init
  <2>. QED
    BY <2>2, <2>3, <2>4, <2>5, <2>6 DEF SlotsInv
<1>6. IrqInv
  BY <1>3 DEF IrqInv, LoopPhases
<1>7. VSpaceInv
  <2>1. asids = {} /\ vspace = {} /\ \A o \in Objects : pt_at[o] = <<>>
    BY DEF Init
  <2>2. Handled("asids") = {} /\ Handled("vspace") = {}
    BY <1>3 DEF LoopPhases
  <2>. QED
    BY <2>1, <2>2 DEF VSpaceInv
<1>8. TcbInv
  BY <1>3 DEF TcbInv, LoopPhases
<1>9. CNodeInv
  <2>1. \A o \in Objects : cnode[o] = <<>>
    BY DEF Init
  <2>2. DOMAIN <<>> = {}
    OBVIOUS
  <2>3. Handled("copy") = {} /\ Handled("move") = {}
    BY <1>3 DEF LoopPhases
  <2>. QED
    BY <2>1, <2>2, <2>3 DEF CNodeInv
<1>10. RunInv
  BY DEF Init, RunInv
<1>. QED
  BY <1>2, <1>4, <1>5, <1>6, <1>7, <1>8, <1>9, <1>10 DEF Inv

LEMMA InvStep ==
    ASSUME Inv, [Next]_vars
    PROVE  Inv'
<1>1. Typed /\ RootsInv /\ SlotsInv /\ IrqInv /\ VSpaceInv /\ TcbInv /\ CNodeInv /\ RunInv
  BY DEF Inv
<1>2. Frame
  BY NextFrame
<1>3. Advance
  BY <1>1, NextAdvance
<1>4. Typed' /\ RootsInv'
  BY <1>1, <1>2, <1>3, TypedStep, RootsStep
<1>5. SlotsInv'
  BY <1>1, <1>2, SlotsStep
<1>6. IrqInv'
  BY <1>1, <1>2, <1>3, IrqStep
<1>7. VSpaceInv'
  BY <1>1, <1>2, <1>3, VSpaceStep
<1>8. TcbInv'
  BY <1>1, <1>2, <1>3, TcbStep
<1>9. CNodeInv'
  BY <1>1, <1>2, <1>3, CNodeStep
<1>10. RunInv'
  BY <1>1, <1>2, RunStep
<1>. QED
  BY <1>4, <1>5, <1>6, <1>7, <1>8, <1>9, <1>10 DEF Inv

LEMMA Invariant == Spec => []Inv
<1>1. Init => Inv
  BY InitInv
<1>2. Inv /\ [Next]_vars => Inv'
  BY InvStep
<1>. QED
  BY <1>1, <1>2, PTL DEF Spec
-----------------------------------------------------------------------------
(* What it says once a thread may run: all the loops but the last are over. *)

LEMMA LoopsOver ==
    ASSUME Inv, HandedOver
    PROVE  /\ Handled("irq_caps") = UsedIrqs /\ Handled("irqs") = UsedIrqs
           /\ Handled("vspace") = AllSteps /\ Handled("tcbs") = Tcbs
           /\ Handled("copy") = CNodeEntries /\ Handled("move") = CNodeEntries
<1>1. Typed /\ RootsInv /\ pc \in {"start", "done"}
  BY DEF Inv, HandedOver, RunInv
<1>2. Stage(pc) \in 13 .. 14
  BY <1>1, StageValues
<1>3. ASSUME NEW q \in {"irq_caps", "irqs", "vspace", "tcbs", "copy", "move"}
      PROVE  Handled(q) = Elements(Work(q))
  <2>1. Stage(q) \in 2 .. 12
    BY StageValues
  <2>. QED
    BY <1>2, <2>1, Completed
<1>. QED
  BY <1>1, <1>2, <1>3, WorkFacts

LEMMA ThreadsBound ==
    ASSUME Inv
    PROVE  ThreadsConform
BY LoopsOver DEF Inv, ThreadsConform, TcbInv, TcbBound

LEMMA IrqsBound ==
    ASSUME Inv
    PROVE  IrqsConform
<1>. SUFFICES ASSUME HandedOver, NEW n \in DOMAIN m.irqs, m.irqs[n] # 0
              PROVE  /\ root[irq_caps[n]] = Cap("irqhandler", n, AllRights, 0)
                     /\ \A k \in DOMAIN m.objects[m.irqs[n]].slots :
                           BoundConforms(m.objects[m.irqs[n]].slots[k].cap, irq_ntfn[n])
  BY DEF IrqsConform
<1>1. n \in Handled("irq_caps") /\ n \in Handled("irqs")
  BY LoopsOver DEF UsedIrqs
<1>2. irq_caps[n] # 0 /\ IrqBound(n)
  BY <1>1 DEF Inv, IrqInv
<1>3. root[irq_caps[n]] = Cap("irqhandler", n, AllRights, 0)
  BY <1>2 DEF Inv, SlotsInv
<1>. QED
  BY <1>2, <1>3 DEF IrqBound, SlotsIn

LEMMA CSpacesFilled ==
    ASSUME Inv
    PROVE  CSpaceConforms
<1>. SUFFICES ASSUME HandedOver, WellFormed, NEW o \in CNodes
              PROVE  /\ DOMAIN cnode[o] = {SpecSlot(e) : e \in {o} \X DOMAIN m.objects[o].slots}
                     /\ \A e \in {o} \X DOMAIN m.objects[o].slots :
                           CapConforms(SpecCap(e), cnode[o][SpecSlot(e)])
  BY DEF CSpaceConforms
<1>1. o \in Objects
  BY DEF CNodes
<1>2. ASSUME NEW e \in {o} \X DOMAIN m.objects[o].slots
      PROVE  SpecSlot(e) \in DOMAIN cnode[o] /\ CapConforms(SpecCap(e), cnode[o][SpecSlot(e)])
  <2>1. e \in CNodeEntries /\ e[1] = o
    BY DEF CNodeEntries, SlotsIn
  <2>2. CapPut(e)
    BY <2>1, LoopsOver DEF Inv, CNodeInv
  <2>. QED
    BY <2>1, <2>2 DEF CapPut
<1>3. ASSUME NEW s \in DOMAIN cnode[o]
      PROVE  \E e \in {o} \X DOMAIN m.objects[o].slots : s = SpecSlot(e)
  <2>1. PICK k \in SlotsIn(o) : s = SlotOf(o, k)
    BY <1>1 DEF Inv, CNodeInv
  <2>2. <<o, k>> \in {o} \X DOMAIN m.objects[o].slots /\ SpecSlot(<<o, k>>) = s
    BY <2>1 DEF SpecSlot, SlotOf, SlotsIn
  <2>. QED
    BY <2>2
<1>. QED
  BY <1>2, <1>3

(* The pages of the model are those of the steps of init_vspace. *)
LEMMA EntryStep ==
    ASSUME m \in Specs, NEW p \in Directories, NEW k \in SlotsIn(p)
    PROVE  /\ IsStep(MapStep(p, p, k, <<SlotOf(p, k)>>))
           /\ \A l \in SlotsIn(CapIn(p, k).obj) : CapIn(p, k).type = "PT" =>
                 IsStep(MapStep(p, CapIn(p, k).obj, l, <<SlotOf(p, k), SlotOf(CapIn(p, k).obj, l)>>))
BY DEF IsStep

LEMMA PageStep ==
    ASSUME m \in Specs, NEW e \in EntriesOf(Objects, {"Frame"}), NEW p \in Places(e)
    PROVE  \E w : /\ IsStep(w) /\ MapCap(w).type = "Frame"
                  /\ w.pd = p[1] /\ w.va = p[2] /\ w.cont = e[1] /\ w.k = e[2]
<1>1. e[1] \in Objects /\ e[2] \in SlotsIn(e[1]) /\ CapIn(e[1], e[2]).type = "Frame"
  BY DEF EntriesOf, SlotsIn, CapIn
<1>2. CASE e[1] \in Directories
  <2>. DEFINE w == MapStep(e[1], e[1], e[2], <<SlotOf(e[1], e[2])>>)
  <2>1. IsStep(w)
    BY <1>1, <1>2, EntryStep
  <2>2. p = <<e[1], <<SpecSlot(e)>>>>
    BY <1>2 DEF Places
  <2>3. p[1] = e[1] /\ p[2] = <<SlotOf(e[1], e[2])>>
    BY <2>2 DEF SpecSlot, SlotOf
  <2>4. w.pd = e[1] /\ w.va = <<SlotOf(e[1], e[2])>> /\ w.cont = e[1] /\ w.k = e[2]
    BY DEF MapStep
  <2>5. MapCap(w).type = "Frame"
    BY <1>1, <2>4 DEF MapCap, CapIn
  <2>. HIDE DEF w
  <2>. QED
    BY <2>1, <2>3, <2>4, <2>5
<1>3. CASE e[1] \notin Directories
  <2>1. PICK d \in EntriesOf(Directories, {"PT"}) :
          SpecCap(d).obj = e[1] /\ p = <<d[1], <<SpecSlot(d), SpecSlot(e)>>>>
    BY <1>3 DEF Places
  <2>2. d[1] \in Directories /\ d[2] \in SlotsIn(d[1]) /\ CapIn(d[1], d[2]).type = "PT"
        /\ CapIn(d[1], d[2]).obj = e[1]
    BY <2>1, SMTT(60) DEF EntriesOf, SlotsIn, CapIn, SpecCap
  <2>. DEFINE w == MapStep(d[1], e[1], e[2], <<SlotOf(d[1], d[2]), SlotOf(e[1], e[2])>>)
  <2>3. IsStep(w)
    BY <1>1, <2>2, EntryStep
  <2>4. p[1] = d[1] /\ p[2] = <<SlotOf(d[1], d[2]), SlotOf(e[1], e[2])>>
    BY <2>1 DEF SpecSlot, SlotOf
  <2>5. w.pd = d[1] /\ w.va = <<SlotOf(d[1], d[2]), SlotOf(e[1], e[2])>> /\ w.cont = e[1] /\ w.k = e[2]
    BY DEF MapStep
  <2>. HIDE DEF w
  <2>6. MapCap(w).type = "Frame"
    BY <1>1, <2>5 DEF MapCap, CapIn
  <2>. QED
    BY <2>3, <2>4, <2>5, <2>6
<1>. QED
  BY <1>2, <1>3

(* The page that the model's entry e has at the place p. *)
PageAt(e, p) == [pd |-> p[1], va |-> p[2], obj |-> SpecCap(e).obj,
                 rights |-> PageRights(SpecCap(e).rights)]

LEMMA PageAtStep ==
    ASSUME NEW w, NEW e, NEW p, w.pd = p[1], w.va = p[2], w.cont = e[1], w.k = e[2]
    PROVE  PageOf(w) = PageAt(e, p)
<1>1. MapCap(w) = SpecCap(e)
  BY DEF MapCap, SpecCap
<1>2. MapRights(SpecCap(e).rights) = PageRights(SpecCap(e).rights)
  BY DEF MapRights, PageRights
<1>. QED
  BY <1>1, <1>2 DEF PageOf, PageAt

LEMMA VSpacesMapped ==
    ASSUME Inv
    PROVE  VSpaceConforms
<1>. SUFFICES ASSUME HandedOver
              PROVE  /\ vspace = SpecPages
                     /\ WellFormed => \A e \in EntriesOf(Directories, {"PT"}) :
                                         pt_at[SpecCap(e).obj] = <<e[1], <<SpecSlot(e)>>>>
  BY DEF VSpaceConforms
<1>. DEFINE tabled == EntriesOf(Objects \ (CNodes \cup Tcbs), {"Frame"})
<1>1. m \in Specs /\ VSpaceInv
  BY DEF Inv, Typed
<1>2. \A w : IsStep(w) => w \in Handled("vspace")
  BY LoopsOver, AllStepsFacts
<1>3. SpecPages = UNION {{PageAt(e, p) : p \in Places(e)} : e \in tabled}
  BY DEF SpecPages, PageAt
<1>4. ASSUME NEW x \in vspace PROVE x \in SpecPages
  <2>1. PICK w : /\ IsStep(w) /\ MapCap(w).type = "Frame" /\ x = PageOf(w)
                 /\ <<w.pd, w.va>> \in Places(<<w.cont, w.k>>)
    BY <1>1 DEF VSpaceInv
  <2>2. PICK e, p : e = <<w.cont, w.k>> /\ p = <<w.pd, w.va>>
    OBVIOUS
  <2>3. w.cont \in Objects /\ w.k \in SlotsIn(w.cont) /\ MapCap(w) = CapIn(w.cont, w.k)
        /\ m.objects[w.cont].type \in {"PD", "PT"}
    <3>1. /\ w.pd \in Directories /\ w.cont \in Objects /\ w.k \in SlotsIn(w.cont)
          /\ MapCap(w) = CapIn(w.cont, w.k)
          /\ w.cont = w.pd \/ \E k \in SlotsIn(w.pd) : InTable(w, k)
      BY <1>1, <2>1, MapStepFacts
    <3>2. m.objects[w.cont].type \in {"PD", "PT"}
      BY <1>1, <3>1, DirectoryFacts, TableOfDirectory DEF InTable
    <3>. QED
      BY <3>1, <3>2
  <2>4. e \in tabled
    <3>1. w.cont \in Objects \ (CNodes \cup Tcbs)
      BY <2>3 DEF CNodes, Tcbs
    <3>. QED
      BY <2>1, <2>2, <2>3, <3>1 DEF EntriesOf, SlotsIn, CapIn
  <2>5. p \in Places(e)
    BY <2>1, <2>2
  <2>6. PageOf(w) = PageAt(e, p)
    BY <2>2, PageAtStep
  <2>. HIDE DEF tabled
  <2>. QED
    BY <1>3, <2>1, <2>4, <2>5, <2>6
<1>5. ASSUME NEW x \in SpecPages PROVE x \in vspace
  <2>1. PICK e \in tabled : x \in {PageAt(e, p) : p \in Places(e)}
    BY <1>3
  <2>2. PICK p \in Places(e) : x = PageAt(e, p)
    BY <2>1
  <2>3. e \in EntriesOf(Objects, {"Frame"})
    BY <2>1 DEF EntriesOf
  <2>4. PICK w : /\ IsStep(w) /\ MapCap(w).type = "Frame"
                 /\ w.pd = p[1] /\ w.va = p[2] /\ w.cont = e[1] /\ w.k = e[2]
    BY <1>1, <2>3, PageStep
  <2>5. PageOf(w) \in vspace
    BY <1>1, <1>2, <2>4 DEF VSpaceInv
  <2>6. PageOf(w) = PageAt(e, p)
    BY <2>4, PageAtStep
  <2>. QED
    BY <2>2, <2>5, <2>6
<1>6. ASSUME WellFormed, NEW e \in EntriesOf(Directories, {"PT"})
      PROVE  pt_at[SpecCap(e).obj] = <<e[1], <<SpecSlot(e)>>>>
  <2>. DEFINE w == MapStep(e[1], e[1], e[2], <<SlotOf(e[1], e[2])>>)
  <2>1. e[1] \in Directories /\ e[2] \in SlotsIn(e[1]) /\ SpecCap(e).type = "PT"
    BY DEF EntriesOf, SlotsIn, SpecCap
  <2>2. IsStep(w)
    BY <1>1, <2>1, EntryStep
  <2>3. w.pd = e[1] /\ w.cont = e[1] /\ w.va = <<SpecSlot(e)>> /\ MapCap(w) = SpecCap(e)
    BY DEF MapStep, MapCap, SpecCap, SpecSlot, SlotOf
  <2>. HIDE DEF w
  <2>4. \A v \in Handled("vspace") : MapCap(v).type = "PT" /\ v.cont = v.pd /\ WellFormed =>
           pt_at[MapCap(v).obj] = <<v.pd, v.va>>
    BY <1>1 DEF VSpaceInv
  <2>5. pt_at[MapCap(w).obj] = <<w.pd, w.va>>
    BY <1>2, <1>6, <2>1, <2>2, <2>3, <2>4
  <2>. QED
    BY <2>3, <2>5
<1>. HIDE DEF tabled
<1>. QED
  BY <1>4, <1>5, <1>6

(* Before any thread runs, init_tcb has given every TCB of every model the *)
(* CSpace with its guard, the address space, the IPC buffer, the fault     *)
(* endpoint with its badge and the temporal fault endpoint without one,    *)
(* and its scheduling context is on the thread's core.                     *)
THEOREM ThreadsAlwaysConform == Spec => []ThreadsConform
<1>1. Inv => ThreadsConform
  BY ThreadsBound
<1>. QED
  BY <1>1, Invariant, PTL

(* Before any thread runs, create_irq_caps has made the handler of every   *)
(* interrupt and init_irq has bound the notification, with its badge.      *)
THEOREM IrqsAlwaysConform == Spec => []IrqsConform
<1>1. Inv => IrqsConform
  BY IrqsBound
<1>. QED
  BY <1>1, Invariant, PTL

(* Before any thread runs, the two passes of init_cspace have put exactly  *)
(* the caps of a well-formed model into its CNodes, whatever it is: with   *)
(* the model's rights, or all rights if it is the cap of a mapped frame.   *)
THEOREM CSpaceAlwaysConforms == Spec => []CSpaceConforms
<1>1. Inv => CSpaceConforms
  BY CSpacesFilled
<1>. QED
  BY <1>1, Invariant, PTL

(* Before any thread runs, init_vspace has mapped exactly the pages of the *)
(* model, in either version, and every page table of a well-formed one.    *)
THEOREM VSpaceAlwaysConforms == Spec => []VSpaceConforms
<1>1. Inv => VSpaceConforms
  BY VSpacesMapped
<1>. QED
  BY <1>1, Invariant, PTL

(* Once start_threads has resumed a thread the loader changes nothing any  *)
(* more that a thread could see, whatever the model.                       *)
THEOREM LoaderQuietAfterStart == Spec => QuietAfterStart
<1>. DEFINE Quiet == running # {} => /\ UNCHANGED <<cnode, asids, pt_at, vspace, irq_ntfn, sc_core, tcb, filled>>
                                     /\ UNCHANGED root
<1>1. Inv /\ [Next]_vars => [Quiet]_vars
  <2>. SUFFICES ASSUME Inv, [Next]_vars, running # {}
                PROVE  UNCHANGED <<cnode, asids, pt_at, vspace, irq_ntfn, sc_core, tcb, filled>>
                       /\ UNCHANGED root
    OBVIOUS
  <2>1. pc \in {"start", "done"}
    BY DEF Inv, RunInv
  <2>. QED
    BY <2>1, QuietStep
<1>2. [][Quiet]_vars => QuietAfterStart
  BY PTL DEF QuietAfterStart
<1>. HIDE DEF Quiet
<1>. QED
  BY <1>1, <1>2, Invariant, PTL DEF Spec
=============================================================================
