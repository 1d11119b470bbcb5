----------------------------- MODULE StackArgs -----------------------------
(***************************************************************************)
(* capdl-loader-app: configure_tcb.  Arguments of a thread beyond those    *)
(* that go in registers are written to its stack, through a mapping of the *)
(* stack's frame in the loader's own address space.                        *)
(*                                                                         *)
(* Addresses and sizes count words.  An address space is a function from   *)
(* page table slots (page numbers) to frames; a frame of several pages     *)
(* (64 KiB) has the slot of its first page only.                           *)
(***************************************************************************)
EXTENDS Integers

CONSTANTS
    Threads,     \* the TCBs: stack pointer, number of arguments, address space
    AddrWords,   \* the words of an address space: addresses wrap around
    Page,        \* the words of a PAGE_SIZE_4K page
    AlignWords,  \* STACK_ALIGNMENT_BYTES / sizeof(*argv)
    RegArgs      \* the arguments that go in registers

ASSUME SizesAssumption ==
    /\ AddrWords \in Nat \ {0} /\ Page \in Nat \ {0} /\ AlignWords \in Nat \ {0}
    /\ RegArgs \in Nat
    /\ AddrWords % Page = 0 /\ AddrWords % AlignWords = 0

(* The frames of an address space do not overlap. *)
ASSUME ThreadsAssumption ==
    \A x \in Threads :
        /\ x.sp \in 0 .. AddrWords - 1 /\ x.argc \in Nat
        /\ \A q \in DOMAIN x.space :
              /\ q \in Nat /\ x.space[q].pages \in Nat \ {0}
              /\ \A r \in DOMAIN x.space : q < r => q + x.space[q].pages <= r

VARIABLES t,        \* the TCB
          pc, sp, i,
          frame,    \* the frame mapped at copy_addr_with_pt, 0 if none
          mem,      \* the words written to frames: the argument at frame and offset
          regs      \* the registers written: the stack pointer, -1 before

vars == <<t, pc, sp, i, frame, mem, regs>>
-----------------------------------------------------------------------------
Init ==
    /\ t \in Threads
    /\ pc = "align" /\ sp = t.sp /\ i = t.argc
    /\ frame = 0 /\ mem = [x \in {} |-> 0] /\ regs = -1

Stop(how) == pc' = how /\ UNCHANGED <<t, sp, i, frame, mem, regs>>
Abort == Stop("fatal")

(* Mutant of Padding: as if the arguments were the padding. *)
PaddingOfArgs == (t.argc - RegArgs) % AlignWords

(* The padding that keeps the stack pointer aligned below the arguments. *)
Padding == LET n == (t.argc - RegArgs) % AlignWords
           IN  IF n = 0 THEN 0 ELSE AlignWords - n

(* get_frame_cap: the frame in the page table slot of the address. *)
PageOf(va) == (va % AddrWords) \div Page

(* Without a VSpace cap the TCB's address space is read through NULL. *)
AlignStack ==
    LET padded == (sp - Padding) % AddrWords
        slot == PageOf(padded - 1)
    IN  /\ pc = "align"
        /\ \/ sp % 2 # 0 /\ Abort
           \/ /\ sp % 2 = 0 /\ t.argc <= RegArgs
              /\ pc' = "registers"
              /\ UNCHANGED <<t, sp, i, frame, mem, regs>>
           \/ /\ sp % 2 = 0 /\ t.argc > RegArgs
              /\ t.vspace /\ slot \in DOMAIN t.space
              /\ sp' = padded
              /\ frame' = t.space[slot].obj
              /\ pc' = "write"
              /\ UNCHANGED <<t, i, mem, regs>>
           \/ /\ sp % 2 = 0 /\ t.argc > RegArgs
              /\ t.vspace /\ slot \notin DOMAIN t.space
              /\ Abort
           \/ /\ sp % 2 = 0 /\ t.argc > RegArgs
              /\ ~t.vspace
              /\ Stop("fault")

(* Mutant of CrossesPage: a page boundary is not noticed. *)
NeverCrosses == FALSE

(* The next argument would be in another page, but it is not the first one. *)
CrossesPage == i # t.argc /\ sp % Page = 0

WriteArg ==
    /\ pc = "write" /\ i > RegArgs
    /\ \/ CrossesPage /\ Abort
       \/ /\ ~CrossesPage
          /\ sp' = (sp - 1) % AddrWords
          /\ i' = i - 1
          /\ mem' = [x \in DOMAIN mem \cup {<<frame, sp' % Page>>} |->
                        IF x = <<frame, sp' % Page>> THEN i' ELSE mem[x]]
          /\ UNCHANGED <<t, pc, frame, regs>>

UnmapStack ==
    /\ pc = "write" /\ i = RegArgs
    /\ frame' = 0 /\ pc' = "registers"
    /\ UNCHANGED <<t, sp, i, mem, regs>>

WriteRegisters ==
    /\ pc = "registers"
    /\ regs' = sp /\ pc' = "done"
    /\ UNCHANGED <<t, sp, i, frame, mem>>

Halt == pc \in {"done", "fatal", "fault"} /\ UNCHANGED vars

Next == AlignStack \/ WriteArg \/ UnmapStack \/ WriteRegisters \/ Halt

Spec == Init /\ [][Next]_vars
-----------------------------------------------------------------------------
(* The word of a frame that the thread sees at an address. *)
Covers(q, va) == q * Page <= va /\ va < (q + t.space[q].pages) * Page
Seen(va) ==
    {<<t.space[q].obj, va - q * Page>> : q \in {x \in DOMAIN t.space : Covers(x, va)}}

(* A configured thread finds its arguments at its stack pointer, in order, *)
(* whatever frame the stack is in and wherever the stack pointer is in it, *)
(* and no other word of any frame has been written.                        *)
ArgsOnStack ==
    pc = "done" =>
        LET args == IF t.argc > RegArgs THEN RegArgs .. t.argc - 1 ELSE {}
        IN  /\ \A k \in args : \E x \in Seen(regs + k - RegArgs) :
                  x \in DOMAIN mem /\ mem[x] = k
            /\ DOMAIN mem = UNION {Seen(regs + k - RegArgs) : k \in args}

(* An aligned stack pointer stays aligned however many arguments there are. *)
StackStaysAligned ==
    pc = "done" /\ t.sp % AlignWords = 0 => regs % AlignWords = 0
-----------------------------------------------------------------------------
(***************************************************************************)
(* The inductive invariant of configure_tcb, by parts.                     *)
(***************************************************************************)
OnStack == t.argc > RegArgs

(* Where the arguments end, the address above the last one, and the slot   *)
(* of its page.                                                            *)
Padded == (t.sp - Padding) % AddrWords
Top == IF Padded = 0 THEN AddrWords ELSE Padded
Slot == PageOf(Padded - 1)

(* The word of the stack's frame at an address of its page. *)
Word(va) == <<t.space[Slot].obj, va - Slot * Page>>

StackTypeOK ==
    /\ t \in Threads
    /\ pc \in {"align", "write", "registers", "done", "fatal", "fault"}
    /\ sp \in 0 .. AddrWords - 1 /\ i \in Nat
    /\ regs \in -1 .. AddrWords - 1

(* The arguments from i on are written, below Top and in one page. *)
Written ==
    /\ Slot \in DOMAIN t.space
    /\ i \in RegArgs .. t.argc
    /\ i = t.argc => sp = Padded
    /\ i < t.argc => sp = Top - (t.argc - i) /\ sp >= Slot * Page
    /\ DOMAIN mem = {Word(Top - (t.argc - n)) : n \in i .. t.argc - 1}
    /\ \A n \in i .. t.argc - 1 : mem[Word(Top - (t.argc - n))] = n

StackInv ==
    /\ pc = "align" => sp = t.sp /\ i = t.argc /\ DOMAIN mem = {}
    /\ pc = "write" => OnStack /\ Written /\ frame = t.space[Slot].obj
    /\ pc \in {"registers", "done"} /\ OnStack => Written /\ i = RegArgs
    /\ pc \in {"registers", "done"} /\ ~OnStack => sp = t.sp /\ DOMAIN mem = {}
    /\ pc = "done" => regs = sp
=============================================================================
