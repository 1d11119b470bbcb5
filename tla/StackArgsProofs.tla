--------------------------- MODULE StackArgsProofs ---------------------------
(***************************************************************************)
(* Proofs about configure_tcb, for every address space, stack pointer and  *)
(* number of arguments.                                                    *)
(***************************************************************************)
EXTENDS StackArgs, ProofLemmas

-----------------------------------------------------------------------------
(* The stack with its padding. *)
LEMMA PaddingFacts ==
    ASSUME t \in Threads, OnStack
    PROVE  /\ t.argc \in Nat /\ Padding \in Nat
           /\ \E q \in Int : t.argc - RegArgs + Padding = AlignWords * q
<1>1. t.argc \in Nat /\ RegArgs \in Nat /\ AlignWords \in Nat \ {0}
  BY SizesAssumption, ThreadsAssumption
<1>2. PICK n \in Int : n = t.argc - RegArgs
  BY <1>1
<1>3. PICK d \in Int, r \in 0 .. AlignWords - 1 : n = AlignWords * d + r /\ r = n % AlignWords
  BY <1>1, DivMod
<1>4. Padding = IF r = 0 THEN 0 ELSE AlignWords - r
  BY <1>2, <1>3 DEF Padding
<1>5. PICK b \in Int : b = AlignWords * d
  BY <1>1
<1>6. n = b + r
  BY <1>3, <1>5
<1>7. CASE r = 0
  <2>1. t.argc - RegArgs + Padding = AlignWords * d
    BY <1>1, <1>2, <1>4, <1>7, <1>5, <1>6
  <2>. QED
    BY <1>1, <1>4, <1>7, <2>1
<1>8. CASE r # 0
  <2>1. AlignWords * d + r + (AlignWords - r) = AlignWords * (d + 1)
    BY <1>1
  <2>2. t.argc - RegArgs + Padding = AlignWords * d + r + (AlignWords - r)
    BY <1>1, <1>2, <1>4, <1>8, <1>5, <1>6
  <2>3. d + 1 \in Int
    OBVIOUS
  <2>4. Padding \in Nat
    BY <1>1, <1>4, <1>8
  <2>. QED
    BY <1>1, <2>1, <2>2, <2>3, <2>4
<1>. QED
  BY <1>7, <1>8

LEMMA TopFacts ==
    ASSUME t \in Threads, OnStack
    PROVE  /\ Padded \in 0 .. AddrWords - 1 /\ Top \in 1 .. AddrWords
           /\ (Padded - 1) % AddrWords = Top - 1
           /\ Slot \in Nat /\ Slot * Page \in Nat
           /\ Slot * Page <= Top - 1 /\ Top - 1 < Slot * Page + Page
           /\ \E e \in Int : Top = AddrWords * e + (t.sp - Padding)
<1>1. /\ AddrWords \in Nat \ {0} /\ Page \in Nat \ {0}
      /\ t.sp \in Int /\ Padding \in Int /\ t.sp - Padding \in Int
  BY SizesAssumption, ThreadsAssumption, PaddingFacts
<1>2. PICK d \in Int : Padded \in 0 .. AddrWords - 1 /\ t.sp - Padding = AddrWords * d + Padded
  BY <1>1, DivMod DEF Padded
<1>3. Top \in 1 .. AddrWords /\ Top - 1 \in Nat
  BY <1>1, <1>2 DEF Top
<1>4. (Padded - 1) % AddrWords = Top - 1
  <2>1. CASE Padded = 0
    <3>1. Padded - 1 = -1
      BY <2>1
    <3>. QED
      BY <1>1, <2>1, <3>1, SmallMod DEF Top
  <2>2. CASE Padded # 0
    <3>1. Padded - 1 \in 0 .. AddrWords - 1
      BY <1>1, <1>2, <2>2
    <3>. QED
      BY <1>1, <2>2, <3>1, SmallMod DEF Top
  <2>. QED
    BY <2>1, <2>2
<1>5. Slot = (Top - 1) \div Page
  BY <1>4 DEF Slot, PageOf
<1>6. /\ Slot \in Int
      /\ \E r \in 0 .. Page - 1 : Top - 1 = Page * Slot + r
  <2>1. PICK x \in Int : x = Top - 1
    BY <1>3
  <2>2. x \div Page \in Int /\ x % Page \in 0 .. Page - 1 /\ x = Page * (x \div Page) + (x % Page)
    BY <1>1, DivMod
  <2>. QED
    BY <1>5, <2>1, <2>2
<1>7. PICK r \in 0 .. Page - 1 : Top - 1 = Page * Slot + r
  BY <1>6
<1>8. Slot >= 0
  <2>1. Slot <= -1 => Page * Slot <= -Page
    BY <1>1, <1>6
  <2>. QED
    BY <1>1, <1>3, <1>6, <1>7, <2>1
<1>9. Slot * Page = Page * Slot /\ Slot * Page \in Nat
  BY <1>1, <1>6, <1>8
<1>10. \E e \in Int : Top = AddrWords * e + (t.sp - Padding)
  <2>1. CASE Padded = 0
    <3>1. Top = AddrWords /\ t.sp - Padding = AddrWords * d
      BY <1>1, <1>2, <2>1 DEF Top
    <3>2. AddrWords * (1 - d) + AddrWords * d = AddrWords
      BY <1>1
    <3>3. 1 - d \in Int
      OBVIOUS
    <3>. QED
      BY <3>1, <3>2, <3>3
  <2>2. CASE Padded # 0
    <3>1. Top = Padded
      BY <2>2 DEF Top
    <3>2. AddrWords * (-d) + (AddrWords * d + Padded) = Padded
      BY <1>1, <1>2
    <3>3. -d \in Int
      OBVIOUS
    <3>. QED
      BY <1>2, <3>1, <3>2, <3>3
  <2>. QED
    BY <2>1, <2>2
<1>. QED
  <2>1. Slot * Page <= Top - 1 /\ Top - 1 < Slot * Page + Page
    <3>1. PICK b \in Nat : b = Slot * Page /\ b = Page * Slot
      BY <1>9
    <3>2. Top - 1 = b + r /\ Top \in Int
      BY <1>3, <1>7, <3>1
    <3>3. b <= Top - 1 /\ Top - 1 < b + Page
      BY <1>1, <3>2
    <3>. QED
      BY <3>1, <3>3
  <2>. QED
    BY <1>2, <1>3, <1>4, <1>6, <1>8, <1>9, <1>10, <2>1
-----------------------------------------------------------------------------
(* The steps of the invariant. *)
Inv == StackTypeOK /\ StackInv

LEMMA InitInv == Init => Inv
<1>1. SUFFICES ASSUME Init PROVE Inv
  OBVIOUS
<1>2. t \in Threads /\ t.sp \in 0 .. AddrWords - 1 /\ t.argc \in Nat /\ -1 \in -1 .. AddrWords - 1
  BY <1>1, ThreadsAssumption, SizesAssumption DEF Init
<1>3. DOMAIN [x \in {} |-> 0] = {}
  OBVIOUS
<1>. QED
  BY <1>1, <1>2, <1>3 DEF Init, Inv, StackTypeOK, StackInv

LEMMA AlignStackInv ==
    ASSUME Inv, AlignStack
    PROVE  Inv'
<1>. USE DEF Inv
<1>1. /\ pc = "align" /\ sp = t.sp /\ i = t.argc /\ DOMAIN mem = {}
      /\ t \in Threads /\ t.argc \in Nat /\ RegArgs \in Nat /\ AddrWords \in Nat \ {0}
  BY ThreadsAssumption, SizesAssumption DEF AlignStack, StackTypeOK, StackInv
<1>2. t' = t /\ mem' = mem /\ i' = i /\ regs' = regs
  BY DEF AlignStack, Abort, Stop
<1>3. CASE pc' \in {"fatal", "fault"} /\ sp' = sp
  BY <1>2, <1>3 DEF StackTypeOK, StackInv
<1>4. CASE t.argc <= RegArgs /\ pc' = "registers" /\ sp' = sp
  <2>1. ~OnStack /\ ~OnStack'
    BY <1>1, <1>2, <1>4 DEF OnStack
  <2>. QED
    BY <1>1, <1>2, <1>4, <2>1 DEF StackTypeOK, StackInv
<1>5. CASE /\ t.argc > RegArgs /\ Slot \in DOMAIN t.space
           /\ pc' = "write" /\ sp' = Padded /\ frame' = t.space[Slot].obj
  <2>1. OnStack /\ OnStack' /\ Slot' = Slot /\ Padded' = Padded
    BY <1>2, <1>5 DEF OnStack, Slot, PageOf, Padded, Padding
  <2>2. Padded \in 0 .. AddrWords - 1
    BY <1>1, <2>1, TopFacts
  <2>3. i .. t.argc - 1 = {}
    BY <1>1
  <2>4. Written'
    BY <1>1, <1>2, <1>5, <2>1, <2>3 DEF Written, OnStack
  <2>. QED
    BY <1>1, <1>2, <1>5, <2>1, <2>2, <2>4 DEF StackTypeOK, StackInv
<1>. QED
  BY <1>1, <1>3, <1>4, <1>5 DEF AlignStack, Abort, Stop, Padded, Slot

(* The arguments are written downwards inside the page below Top. *)
LEMMA WriteArgInv ==
    ASSUME Inv, WriteArg
    PROVE  Inv'
<1>. USE DEF Inv
<1>1. /\ pc = "write" /\ OnStack /\ Written /\ frame = t.space[Slot].obj
      /\ t \in Threads /\ i > RegArgs /\ t' = t /\ frame' = frame /\ regs' = regs
  BY DEF WriteArg, StackInv, StackTypeOK, Abort, Stop
<1>2. /\ t.argc \in Nat /\ RegArgs \in Nat /\ AddrWords \in Nat \ {0} /\ Page \in Nat \ {0}
      /\ i \in Nat /\ i <= t.argc /\ sp \in 0 .. AddrWords - 1
  BY <1>1, ThreadsAssumption, SizesAssumption DEF StackTypeOK, Written
<1>3. OnStack' /\ Slot' = Slot /\ Padded' = Padded /\ Top' = Top
  BY <1>1 DEF OnStack, Slot, PageOf, Padded, Padding, Top
<1>4. CASE CrossesPage /\ Abort
  BY <1>4 DEF Abort, Stop, StackTypeOK, StackInv
<1>5. CASE ~CrossesPage /\ pc' = pc
  <2>1. /\ sp' = (sp - 1) % AddrWords /\ i' = i - 1
        /\ mem' = [x \in DOMAIN mem \cup {<<frame, sp' % Page>>} |->
                      IF x = <<frame, sp' % Page>> THEN i' ELSE mem[x]]
    BY <1>1, <1>5 DEF WriteArg, Abort, Stop
  <2>2. /\ Padded \in 0 .. AddrWords - 1 /\ Top \in 1 .. AddrWords
        /\ (Padded - 1) % AddrWords = Top - 1
        /\ Slot \in Nat /\ Slot * Page \in Nat
        /\ Slot * Page <= Top - 1 /\ Top - 1 < Slot * Page + Page
    BY <1>1, TopFacts
  <2>3. sp' = Top - (t.argc - i') /\ sp' >= Slot * Page /\ sp' <= Top - 1
    <3>1. CASE i = t.argc
      BY <1>1, <1>2, <2>1, <2>2, <3>1 DEF Written
    <3>2. CASE i < t.argc
      <4>1. sp = Top - (t.argc - i) /\ sp >= Slot * Page /\ sp % Page # 0
        BY <1>1, <1>2, <1>5, <3>2 DEF Written, CrossesPage
      <4>2. sp # Slot * Page
        <5>1. (Page * Slot) % Page = 0 /\ Page * Slot = Slot * Page
          BY <1>2, <2>2, MultipleMod
        <5>. QED
          BY <4>1, <5>1
      <4>3. sp - 1 \in 0 .. AddrWords - 1
        BY <1>2, <2>2, <4>1, <4>2
      <4>4. (sp - 1) % AddrWords = sp - 1
        BY <1>2, <4>3, SmallMod
      <4>5. sp' = sp - 1 /\ i' = i - 1
        BY <2>1, <4>4
      <4>6. PICK b \in Nat : b = Slot * Page
        BY <2>2
      <4>7. PICK n \in Nat : n = t.argc
        BY <1>2
      <4>8. sp \in Int /\ i \in Int /\ Top \in Int /\ i < n
            /\ sp = Top - (n - i) /\ sp >= b /\ sp # b
        BY <1>2, <2>2, <3>2, <4>1, <4>2, <4>6, <4>7
      <4>9. sp - 1 = Top - (n - (i - 1)) /\ sp - 1 >= b /\ sp - 1 <= Top - 1
        BY <4>8
      <4>. QED
        BY <4>5, <4>6, <4>7, <4>9
    <3>. QED
      BY <1>2, <3>1, <3>2
  <2>4. sp' \in 0 .. AddrWords - 1 /\ i' \in RegArgs .. t.argc - 1 /\ i' \in Nat
    BY <1>1, <1>2, <2>1, <2>2, <2>3
  <2>5. <<frame, sp' % Page>> = Word(Top - (t.argc - i'))
    <3>1. PICK b \in Nat : b = Slot * Page /\ b = Page * Slot
      BY <1>2, <2>2
    <3>2. PICK r \in 0 .. Page - 1 : sp' = b + r /\ r = sp' - b
      <4>1. sp' - b \in 0 .. Page - 1 /\ sp' = b + (sp' - b)
        BY <1>2, <2>2, <2>3, <2>4, <3>1
      <4>. QED
        BY <4>1
    <3>3. sp' % Page = r
      <4>1. PICK x \in Int : x = sp'
        BY <2>4
      <4>2. x = Page * Slot + r
        BY <3>1, <3>2, <4>1
      <4>3. Page \in Nat \ {0} /\ Slot \in Int
        BY <1>2, <2>2
      <4>4. x % Page = r
        BY <4>2, <4>3, DivModUnique
      <4>. QED
        BY <4>1, <4>4
    <3>. QED
      BY <1>1, <2>3, <3>1, <3>2, <3>3 DEF Word
  <2>6. i' .. t.argc - 1 = {i'} \cup (i .. t.argc - 1)
    BY <1>2, <2>1, <2>4
  <2>7. \A n \in i .. t.argc - 1 : Word(Top - (t.argc - n)) # Word(Top - (t.argc - i'))
    <3>1. ASSUME NEW n \in i .. t.argc - 1
          PROVE  Top - (t.argc - n) - Slot * Page # Top - (t.argc - i') - Slot * Page
      BY <1>2, <2>1, <2>2, <2>4
    <3>. QED
      BY <3>1 DEF Word
  <2>. DEFINE W(n) == Word(Top - (t.argc - n))
  <2>8. /\ DOMAIN mem = {W(n) : n \in i .. t.argc - 1}
        /\ \A n \in i .. t.argc - 1 : mem[W(n)] = n
    BY <1>1 DEF Written
  <2>9. \A n : (Word(Top - (t.argc - n)))' = <<t.space[Slot].obj, Top - (t.argc - n) - Slot * Page>>
    BY <1>1, <1>3 DEF Word
  <2>10. \A n : W(n) = <<t.space[Slot].obj, Top - (t.argc - n) - Slot * Page>>
    BY DEF Word
  <2>11. /\ \A n \in i .. t.argc - 1 : W(n) # W(i')
         /\ mem' = [x \in DOMAIN mem \cup {W(i')} |-> IF x = W(i') THEN i' ELSE mem[x]]
    BY <2>1, <2>5, <2>7
  <2>12. \A n : (Word(Top - (t.argc - n)))' = W(n)
    BY <2>9, <2>10
  <2>. HIDE DEF W
  <2>13. /\ DOMAIN mem' = {W(n) : n \in i' .. t.argc - 1}
         /\ \A n \in i' .. t.argc - 1 : mem'[W(n)] = n
    BY <2>6, <2>8, <2>11
  <2>14. Written'
    <3>1. Slot' \in DOMAIN t'.space
      BY <1>1, <1>3 DEF Written
    <3>2. i' \in RegArgs .. t.argc /\ i' < t.argc
      BY <1>2, <2>4
    <3>. QED
      BY <1>1, <1>3, <2>3, <2>12, <2>13, <3>1, <3>2 DEF Written
  <2>. QED
    BY <1>1, <1>3, <1>5, <2>4, <2>14 DEF StackTypeOK, StackInv
<1>. QED
  BY <1>4, <1>5 DEF WriteArg

(* What Written says depends on the thread, the stack and the memory. *)
LEMMA WrittenKept ==
    ASSUME Written, UNCHANGED <<t, sp, i, mem>>
    PROVE  Written'
<1>1. Slot' = Slot /\ Padded' = Padded /\ Top' = Top
  BY DEF Slot, PageOf, Padded, Padding, Top
<1>2. \A n : (Word(Top - (t.argc - n)))' = Word(Top - (t.argc - n))
  BY <1>1 DEF Word
<1>. QED
  BY <1>1, <1>2 DEF Written

LEMMA StackStep ==
    ASSUME Inv, [Next]_vars
    PROVE  Inv'
<1>. USE DEF Inv
<1>1. CASE UnmapStack
  <2>1. Written' /\ OnStack' /\ i' = RegArgs
    BY <1>1, WrittenKept DEF UnmapStack, StackInv, OnStack
  <2>. QED
    BY <1>1, <2>1 DEF UnmapStack, StackTypeOK, StackInv
<1>2. CASE WriteRegisters
  <2>1. (OnStack' <=> OnStack) /\ (OnStack => Written' /\ i' = RegArgs)
    BY <1>2, WrittenKept DEF WriteRegisters, StackInv, OnStack
  <2>2. sp \in -1 .. AddrWords - 1
    BY SizesAssumption DEF StackTypeOK
  <2>. QED
    BY <1>2, <2>1, <2>2 DEF WriteRegisters, StackTypeOK, StackInv
<1>3. CASE UNCHANGED vars
  <2>1. (OnStack' <=> OnStack) /\ (Written => Written') /\ Slot' = Slot
    BY <1>3, WrittenKept DEF vars, OnStack, Slot, PageOf, Padded, Padding
  <2>. QED
    BY <1>3, <2>1 DEF vars, StackTypeOK, StackInv
<1>. QED
  BY <1>1, <1>2, <1>3, AlignStackInv, WriteArgInv DEF Next, Halt

(* configure_tcb writes the arguments from the last to the first, in the   *)
(* page below the padded stack pointer, and stops before it leaves it.     *)
THEOREM StackInvariant == Spec => []Inv
<1>. QED
  BY InitInv, StackStep, PTL DEF Spec
-----------------------------------------------------------------------------
(* A stack pointer that was aligned in the specification is aligned when   *)
(* the thread starts, for every number of arguments.                       *)
THEOREM StackAligned == Spec => []StackStaysAligned
<1>1. Inv => StackStaysAligned
  <2>1. SUFFICES ASSUME Inv, pc = "done", t.sp % AlignWords = 0
                 PROVE  regs % AlignWords = 0
    BY DEF StackStaysAligned
  <2>2. /\ t \in Threads /\ regs = sp /\ RegArgs \in Nat
        /\ AlignWords \in Nat \ {0} /\ AddrWords \in Nat \ {0} /\ AddrWords % AlignWords = 0
        /\ t.sp \in Int /\ t.argc \in Nat
    BY <2>1, SizesAssumption, ThreadsAssumption DEF Inv, StackTypeOK, StackInv
  <2>3. CASE ~OnStack
    BY <2>1, <2>2, <2>3 DEF Inv, StackInv
  <2>4. CASE OnStack
    <3>1. regs = Top - (t.argc - RegArgs)
      BY <2>1, <2>2, <2>4 DEF Inv, StackInv, Written, OnStack
    <3>2. PICK e \in Int : Top = AddrWords * e + (t.sp - Padding)
      BY <2>2, <2>4, TopFacts
    <3>3. PICK q \in Int : t.argc - RegArgs + Padding = AlignWords * q
      BY <2>2, <2>4, PaddingFacts
    <3>4. Padding \in Int
      BY <2>2, <2>4, PaddingFacts
    <3>5. PICK s \in Int : t.sp = AlignWords * s
      <4>1. PICK x \in Int : x = t.sp
        BY <2>2
      <4>2. x \div AlignWords \in Int /\ x = AlignWords * (x \div AlignWords) + (x % AlignWords)
        BY <2>2, DivMod
      <4>3. x % AlignWords = 0
        BY <2>1, <4>1
      <4>4. PICK y \in Int : x = AlignWords * y + 0
        BY <4>2, <4>3
      <4>5. x = AlignWords * y
        BY <2>2, <4>4
      <4>. QED
        BY <4>1, <4>5
    <3>6. PICK w \in Int : AddrWords = AlignWords * w
      <4>1. AddrWords \div AlignWords \in Int
            /\ AddrWords = AlignWords * (AddrWords \div AlignWords) + (AddrWords % AlignWords)
        BY <2>2, DivMod
      <4>. QED
        BY <2>2, <4>1
    <3>7. regs = AddrWords * e + AlignWords * s - AlignWords * q
      <4>1. PICK b \in Int, c \in Int, d \in Int :
               b = AddrWords * e /\ c = AlignWords * s /\ d = AlignWords * q
        BY <2>2
      <4>2. Top = b + (c - Padding) /\ t.argc - RegArgs + Padding = d
        BY <3>2, <3>3, <3>5, <4>1
      <4>3. regs = b + c - d
        BY <2>2, <3>1, <3>4, <4>2
      <4>. QED
        BY <4>1, <4>3
    <3>8. PICK f \in Int : f = w * e + s - q
      OBVIOUS
    <3>9. AlignWords * f = (AlignWords * w) * e + AlignWords * s - AlignWords * q
      BY <2>2, <3>8
    <3>10. regs = AlignWords * f
      BY <3>6, <3>7, <3>9
    <3>. QED
      BY <2>2, <3>10, MultipleMod
  <2>. QED
    BY <2>3, <2>4
<1>. QED
  BY <1>1, StackInvariant, PTL
-----------------------------------------------------------------------------
(* At an address of the stack's page the thread sees a word of its frame.  *)
LEMMA SeenInPage ==
    ASSUME t \in Threads, OnStack, Slot \in DOMAIN t.space,
           NEW va \in Int, Slot * Page <= va, va < Top
    PROVE  Seen(va) = {Word(va)}
<1>1. /\ Page \in Nat \ {0} /\ Slot \in Nat /\ Slot * Page \in Nat /\ Top \in Int
      /\ va < Slot * Page + Page
  <2>1. /\ Page \in Nat \ {0} /\ Slot \in Nat /\ Slot * Page \in Nat /\ Top \in Int
        /\ Top - 1 < Slot * Page + Page
    BY SizesAssumption, TopFacts
  <2>. QED
    BY <2>1
<1>2. \A q \in DOMAIN t.space :
         /\ q \in Nat /\ t.space[q].pages \in Nat \ {0}
         /\ \A r \in DOMAIN t.space : q < r => q + t.space[q].pages <= r
  BY ThreadsAssumption, Zenon
<1>3. \A a, b \in Nat : a <= b => a * Page <= b * Page
  <2>1. ASSUME NEW a \in Nat, NEW b \in Nat, a <= b PROVE a * Page <= b * Page
    <3>1. PICK d \in Nat : b = a + d
      BY <2>1
    <3>2. b * Page = a * Page + d * Page /\ d * Page \in Nat /\ a * Page \in Nat
      BY <1>1, <3>1
    <3>. QED
      BY <3>2
  <2>. QED
    BY <2>1
<1>4. (Slot + 1) * Page = Slot * Page + Page
  BY <1>1
<1>5. Covers(Slot, va)
  <2>1. PICK n \in Nat : n = Slot + t.space[Slot].pages /\ Slot + 1 <= n
    <3>1. PICK p \in Nat \ {0} : p = t.space[Slot].pages
      BY <1>2
    <3>2. Slot + p \in Nat /\ Slot + 1 <= Slot + p
      BY <1>1
    <3>. QED
      BY <3>1, <3>2
  <2>2. (Slot + 1) * Page <= n * Page /\ n * Page \in Nat
    BY <1>1, <1>3, <2>1
  <2>3. va < n * Page
    BY <1>1, <1>4, <2>2
  <2>. QED
    BY <2>1, <2>3 DEF Covers
<1>6. ASSUME NEW q \in DOMAIN t.space, Covers(q, va) PROVE q = Slot
  <2>1. PICK n \in Nat : n = q + t.space[q].pages /\ q \in Nat
    BY <1>2
  <2>2. q * Page <= va /\ va < n * Page /\ q * Page \in Nat /\ n * Page \in Nat
    BY <1>1, <1>6, <2>1 DEF Covers
  <2>3. ~(q < Slot)
    <3>1. ASSUME q < Slot PROVE FALSE
      <4>1. n <= Slot
        BY <1>2, <2>1, <3>1
      <4>2. n * Page <= Slot * Page
        BY <1>1, <1>3, <4>1
      <4>. QED
        BY <1>1, <2>2, <4>2
    <3>. QED
      BY <3>1
  <2>4. ~(Slot < q)
    <3>1. ASSUME Slot < q PROVE FALSE
      <4>1. Slot + 1 <= q /\ Slot + 1 \in Nat
        BY <1>1, <2>1, <3>1
      <4>2. (Slot + 1) * Page <= q * Page
        BY <1>3, <2>1, <4>1
      <4>. QED
        BY <1>1, <1>4, <2>2, <4>2
    <3>. QED
      BY <3>1
  <2>5. q \in Nat /\ Slot \in Nat
    BY <1>1, <2>1
  <2>. QED
    BY <2>3, <2>4, <2>5
<1>7. {x \in DOMAIN t.space : Covers(x, va)} = {Slot}
  BY <1>5, <1>6
<1>. QED
  BY <1>7 DEF Seen, Word

(* A thread that is configured finds its arguments at its stack pointer,   *)
(* in order, and configure_tcb has written nothing else.                   *)
THEOREM ArgumentsOnStack == Spec => []ArgsOnStack
<1>1. Inv => ArgsOnStack
  <2>1. SUFFICES ASSUME Inv, pc = "done" PROVE ArgsOnStack
    BY DEF ArgsOnStack
  <2>2. t \in Threads /\ regs = sp /\ RegArgs \in Nat /\ t.argc \in Nat
    BY <2>1, SizesAssumption, ThreadsAssumption DEF Inv, StackTypeOK, StackInv
  <2>3. CASE ~OnStack
    BY <2>1, <2>3 DEF Inv, StackInv, OnStack, ArgsOnStack
  <2>4. CASE OnStack
    <3>. DEFINE W(n) == Word(Top - (t.argc - n))
                args == RegArgs .. t.argc - 1
    <3>1. /\ Slot \in DOMAIN t.space
          /\ regs = Top - (t.argc - RegArgs) /\ regs >= Slot * Page
          /\ DOMAIN mem = {W(n) : n \in args}
          /\ \A n \in args : mem[W(n)] = n
      BY <2>1, <2>2, <2>4 DEF Inv, StackInv, Written, OnStack
    <3>2. Top \in Int /\ Slot * Page \in Nat
      BY <2>2, <2>4, TopFacts
    <3>3. ASSUME NEW n \in args
          PROVE  Seen(regs + n - RegArgs) = {W(n)}
      <4>1. PICK va \in Int : va = regs + n - RegArgs /\ va = Top - (t.argc - n)
        BY <2>2, <3>1, <3>2
      <4>2. Slot * Page <= va /\ va < Top
        BY <2>2, <3>1, <3>2, <4>1
      <4>3. Seen(va) = {Word(va)}
        BY <2>2, <2>4, <3>1, <4>2, SeenInPage
      <4>. QED
        BY <4>1, <4>3
    <3>4. args = IF t.argc > RegArgs THEN RegArgs .. t.argc - 1 ELSE {}
      BY <2>4 DEF OnStack
    <3>. HIDE DEF W, args
    <3>5. /\ \A n \in args : \E x \in Seen(regs + n - RegArgs) : x \in DOMAIN mem /\ mem[x] = n
          /\ DOMAIN mem = UNION {Seen(regs + n - RegArgs) : n \in args}
      BY <3>1, <3>3
    <3>. QED
      BY <3>4, <3>5 DEF ArgsOnStack
  <2>. QED
    BY <2>3, <2>4
<1>. QED
  BY <1>1, StackInvariant, PTL
=============================================================================
