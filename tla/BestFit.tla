------------------------------ MODULE BestFit ------------------------------
(***************************************************************************)
(* python-capdl: BestFitAllocator, which gives every object of a spec a    *)
(* place in an untyped before the spec is printed.  An untyped is filled   *)
(* from its watermark up: objects with a physical address at that address, *)
(* objects without one and placeholder untypeds in the gaps.               *)
(*                                                                         *)
(* Sizes are powers of two, in units of the smallest object; 0 is the size *)
(* of an object that takes no memory.  Objects are numbered in the order   *)
(* of their names, untypeds in the order in which they are added; a paddr  *)
(* of 0 is none, as the code tests it.                                     *)
(***************************************************************************)
EXTENDS Integers, Sequences, FiniteSets, SequencesExt, FiniteSetsExt, Powers

CONSTANTS Inputs     \* the specs, each with the untypeds that are added

VARIABLES in,        \* the spec and the untypeds
          alloc,     \* where the allocator is
          untyped,   \* the untypeds that have been added, sorted
          ut_iter,   \* how many of them _next_ut has delivered
          todo,      \* _use_untyped: size_bytes of the current untyped
          calls,     \* _fill_from_objects: the size and the first half's result
          left,      \* ... and the result of the call that has returned
          queue,     \* AllocQueue: the objects that are still in it
          children,  \* the children of every untyped
          recorded,  \* the untypeds that are objects of the spec
          holders    \* the addresses of the placeholders that are

vars == <<in, alloc, untyped, ut_iter, todo, calls, left, queue, children,
          recorded, holders>>
fillVars == <<todo, calls, left>>

Uts  == DOMAIN in.uts
Objs == DOMAIN in.objs

(* What the linker has read: an untyped has a size_bits. *)
GoodInput(x) ==
    /\ x.uts \in Seq([name : Nat, paddr : Nat, size : Nat, device : BOOLEAN])
    /\ \A u \in DOMAIN x.uts : IsPow2(x.uts[u].size)
    /\ x.objs \in Seq([type : STRING, size : Nat, paddr : Nat, asid_high : Int])
-----------------------------------------------------------------------------
(* AllocQueue: unfungible objects by address, fungible ones by size. *)

Unfun == {o \in queue : in.objs[o].paddr # 0}
Fun == {o \in queue : in.objs[o].paddr = 0}
Of(s) == {o \in Fun : in.objs[o].size = s}

(* Mutant of BelowMin: a block of just the smallest size is given up. *)
NotAboveMin(s) == \A o \in Fun : s <= in.objs[o].size

BelowMin(s) == \A o \in Fun : s < in.objs[o].size

(* peekitem of the dict that is sorted by descending address. *)
NextUnfun == CHOOSE o \in Unfun : \A p \in Unfun : in.objs[o].paddr <= in.objs[p].paddr

DuplicatePaddr ==
    \E o, p \in Objs : o # p /\ in.objs[o].paddr # 0 /\ in.objs[o].paddr = in.objs[p].paddr
-----------------------------------------------------------------------------
(* The bytes of the first n children ch. *)
SizeOf(ch, n) ==
    LET sum[k \in 0 .. n] == IF k = 0 THEN 0 ELSE sum[k - 1] + ch[k].size
    IN  sum[n]

Watermark(u) == in.uts[u].paddr + SizeOf(children[u], Len(children[u]))
End(u) == in.uts[u].paddr + in.uts[u].size
Remaining(u) == End(u) - Watermark(u)

(* 2^ctz(n) *)
LowBit(n) == CHOOSE p \in 1 .. n : n % p = 0 /\ n % (2 * p) # 0 /\ IsPow2(p)

(* Mutant of Piece: the alignment of the address does not count. *)
PieceOfRest(at, n) == LowBit(n)

(* The size of the next piece of the n bytes from the address at on. *)
Piece(at, n) == IF at = 0 THEN LowBit(n) ELSE Min({LowBit(n), LowBit(at)})
-----------------------------------------------------------------------------
(* _use_untyped and _fill_from_objects, for the current untyped. *)

ut == untyped[ut_iter]

IsDevice == in.uts[ut].device

(* Mutant of AddChild: the object stays in the queue. *)
AddChildKeeps(o) ==
    /\ children' = [children EXCEPT ![ut] = Append(@, [obj |-> o, size |-> in.objs[o].size])]
    /\ UNCHANGED <<queue, holders>>

(* add_child of an object, and _add_placeholder. *)
AddChild(o) ==
    /\ children' = [children EXCEPT ![ut] = Append(@, [obj |-> o, size |-> in.objs[o].size])]
    /\ queue' = queue \ {o}
    /\ UNCHANGED holders

AddPlaceholder(s) ==
    /\ children' = [children EXCEPT ![ut] = Append(@, [obj |-> 0, size |-> s])]
    /\ holders' = holders \cup {Watermark(ut)}
    /\ UNCHANGED queue

AddNothing == UNCHANGED <<children, queue, holders>>

(* One round of the loop: a piece of device memory is skipped, any other   *)
(* is a block to be filled.                                                *)
None == -1
Call(s) == [size |-> s, first |-> None]
piece == Piece(Watermark(ut), todo)

SkipPiece ==
    /\ todo > 0 /\ IsDevice /\ calls = <<>>
    /\ AddPlaceholder(piece)
    /\ todo' = todo - piece
    /\ UNCHANGED <<in, alloc, untyped, ut_iter, calls, left, recorded>>

FillPiece ==
    /\ todo > 0 /\ ~IsDevice /\ calls = <<>>
    /\ calls' = <<Call(piece)>>
    /\ UNCHANGED <<in, alloc, untyped, ut_iter, todo, left, queue, children, recorded, holders>>

(* The call that is being executed, of size_bits s, and what it does: it   *)
(* returns s if no object is small enough, it places an object of just     *)
(* that size, or it tries two halves.                                      *)
top == calls[Len(calls)]
Running == calls # <<>> /\ left = None

NothingFits ==
    /\ Running /\ BelowMin(top.size)
    /\ left' = top.size
    /\ UNCHANGED <<in, alloc, untyped, ut_iter, todo, calls, queue, children, recorded, holders>>

ObjectFits ==
    /\ Running /\ Of(top.size) # {}
    /\ AddChild(Min(Of(top.size)))
    /\ left' = 0
    /\ UNCHANGED <<in, alloc, untyped, ut_iter, todo, calls, recorded>>

TryHalves ==
    /\ Running /\ ~BelowMin(top.size) /\ Of(top.size) = {}
    /\ calls' = Append(calls, Call(top.size \div 2))
    /\ UNCHANGED <<in, alloc, untyped, ut_iter, todo, left, queue, children, recorded, holders>>

(* The call for the first half has returned: the second half. *)
caller == calls[Len(calls) - 1]

SecondHalf ==
    /\ Len(calls) > 1 /\ left # None /\ caller.first = None
    /\ calls' = [calls EXCEPT ![Len(calls) - 1].first = left, ![Len(calls)] = Call(top.size)]
    /\ left' = None
    /\ UNCHANGED <<in, alloc, untyped, ut_iter, todo, queue, children, recorded, holders>>

(* If only one half could be filled, a placeholder keeps the alignment. *)
BothHalves ==
    /\ Len(calls) > 1 /\ left # None /\ caller.first # None
    /\ \/ caller.first = left /\ left' = caller.first + left /\ AddNothing
       \/ caller.first # left /\ left' = 0 /\ AddPlaceholder(top.size)
    /\ calls' = Front(calls)
    /\ UNCHANGED <<in, alloc, untyped, ut_iter, todo, recorded>>

(* The call for the piece has returned; what could not be filled at all is *)
(* skipped.                                                                *)
PieceDone ==
    /\ Len(calls) = 1 /\ left # None
    /\ \/ left = top.size /\ AddPlaceholder(top.size)
       \/ left # top.size /\ AddNothing
    /\ todo' = todo - top.size
    /\ calls' = <<>> /\ left' = None
    /\ UNCHANGED <<in, alloc, untyped, ut_iter, recorded>>

Using == SkipPiece \/ FillPiece \/ NothingFits \/ ObjectFits \/ TryHalves
         \/ SecondHalf \/ BothHalves \/ PieceDone
-----------------------------------------------------------------------------
Start ==
    /\ alloc = "add"
    /\ untyped = <<>> /\ ut_iter = 0 /\ todo = 0 /\ calls = <<>> /\ left = None
    /\ queue = {}
    /\ children = [u \in Uts |-> <<>>]
    /\ recorded = {} /\ holders = {}

Init == in \in Inputs /\ Start

(* An AllocatorException or a failed assertion: the linker stops. *)
Raise(why) ==
    /\ alloc' = why
    /\ UNCHANGED <<in, untyped, ut_iter, fillVars, queue, children, recorded, holders>>

Before(u, v) ==
    \/ in.uts[u].paddr < in.uts[v].paddr
    \/ in.uts[u].paddr = in.uts[v].paddr /\ in.uts[u].size <= in.uts[v].size

(* _overlap, for u not after v. *)
Overlap(u, v) == ~(in.uts[u].paddr < in.uts[v].paddr /\ End(u) < End(v))

(* add_untyped, for the untypeds in the order of the input. *)
AddUntyped ==
    LET u == Len(untyped) + 1
        i == Cardinality({k \in DOMAIN untyped : Before(untyped[k], u)})
    IN  /\ alloc = "add" /\ u \in Uts
        /\ \/ /\ in.uts[u].paddr % in.uts[u].size = 0
              /\ i > 0 => ~Overlap(untyped[i], u)
              /\ i < Len(untyped) => ~Overlap(u, untyped[i + 1])
              /\ untyped' = InsertAt(untyped, i + 1, u)
              /\ UNCHANGED <<in, alloc, ut_iter, fillVars, queue, children, recorded, holders>>
           \/ /\ \/ in.uts[u].paddr % in.uts[u].size # 0
                 \/ i > 0 /\ Overlap(untyped[i], u)
                 \/ i < Len(untyped) /\ Overlap(u, untyped[i + 1])
              /\ Raise("refused")

(* allocate, up to the first loop: the queue, and the first untyped. *)
Allocate ==
    /\ alloc = "add" /\ Len(untyped) = Len(in.uts)
    /\ \/ Objs = {} /\ Raise("done")
       \/ Objs # {} /\ DuplicatePaddr /\ Raise("refused")
       \/ Objs # {} /\ ~DuplicatePaddr /\ Uts = {} /\ Raise("memory")
       \/ /\ Objs # {} /\ ~DuplicatePaddr /\ Uts # {}
          /\ alloc' = "unfun"
          /\ queue' = {o \in Objs : in.objs[o].size # 0}
          /\ ut_iter' = 1
          /\ UNCHANGED <<in, untyped, fillVars, children, recorded, holders>>

(* _use_untyped is called for n bytes of the current untyped. *)
Use(n, then) ==
    /\ todo' = n
    /\ alloc' = then
    /\ UNCHANGED <<in, untyped, ut_iter, calls, left, queue, children, recorded, holders>>

(* Mutant of NextUt: the same untyped again. *)
NextUtSame(r, h) ==
    /\ recorded' = r /\ holders' = h
    /\ UNCHANGED <<in, alloc, untyped, ut_iter, fillVars, queue, children>>

(* _next_ut, after which the spec has the untypeds r and the placeholders h. *)
NextUt(r, h) ==
    /\ recorded' = r /\ holders' = h
    /\ \/ ut_iter < Len(untyped) /\ ut_iter' = ut_iter + 1 /\ alloc' = alloc
       \/ ut_iter = Len(untyped) /\ ut_iter' = ut_iter /\ alloc' = "memory"
    /\ UNCHANGED <<in, untyped, fillVars, queue, children>>

InUnfun == alloc = "unfun" /\ todo = 0 /\ Unfun # {}

(* The address of child k of u: the children follow each other.            *)
ChildAddr(u, k) == in.uts[u].paddr + SizeOf(children[u], k - 1)

(* An untyped that is full: it becomes part of the spec unless it holds    *)
(* nothing but placeholders.                                               *)
RetireUt ==
    /\ InUnfun /\ Remaining(ut) = 0
    /\ IF \A k \in DOMAIN children[ut] : children[ut][k].obj = 0
       THEN NextUt(recorded, holders \ {ChildAddr(ut, k) : k \in DOMAIN children[ut]})
       ELSE NextUt(recorded \cup {ut}, holders)

(* The rest of the loop body, for an untyped that is not full. *)
Goal == in.objs[NextUnfun]
AtUnfun == InUnfun /\ Remaining(ut) # 0
GoalBehind == Goal.paddr < Watermark(ut)
GoalInside == ~GoalBehind /\ Goal.paddr + Goal.size <= End(ut)

MissUnfun == AtUnfun /\ GoalBehind /\ Raise("refused")

(* Up to the address of the object, and then the object, which has to be   *)
(* aligned and just at the watermark (the assertions of add_child).        *)
FillGap ==
    /\ AtUnfun /\ GoalInside
    /\ Use(Goal.paddr - Watermark(ut), "pin")

PlaceUnfun ==
    /\ alloc = "pin" /\ todo = 0
    /\ \/ /\ Goal.paddr % Goal.size = 0 /\ Goal.paddr = Watermark(ut)
          /\ AddChild(NextUnfun)
          /\ alloc' = "unfun"
          /\ UNCHANGED <<in, untyped, ut_iter, fillVars, recorded>>
       \/ (Goal.paddr % Goal.size # 0 \/ Goal.paddr # Watermark(ut)) /\ Raise("refused")

FillUt ==
    /\ AtUnfun /\ ~GoalBehind /\ ~GoalInside /\ Fun # {}
    /\ Use(Remaining(ut), "unfun")

SkipUt ==
    /\ AtUnfun /\ ~GoalBehind /\ ~GoalInside /\ Fun = {}
    /\ NextUt(recorded, holders)

(* What follows the loop, with the untyped it stopped at. *)
RecordUt(r) ==
    /\ recorded' = r
    /\ alloc' = "rest"
    /\ UNCHANGED <<in, untyped, ut_iter, fillVars, queue, children, holders>>

AfterUnfun ==
    /\ alloc = "unfun" /\ todo = 0 /\ Unfun = {}
    /\ \/ IsDevice /\ RecordUt(IF children[ut] # <<>> THEN recorded \cup {ut} ELSE recorded)
       \/ ~IsDevice /\ Remaining(ut) > 0 /\ Use(Remaining(ut), "tail")
       \/ ~IsDevice /\ Remaining(ut) = 0 /\ RecordUt(recorded)

AfterTail ==
    /\ alloc = "tail" /\ todo = 0
    /\ RecordUt(IF Fun = {} THEN recorded \cup {ut} ELSE recorded)

(* The last loop: fungible objects only, no device memory. *)
NextRest ==
    LET u == untyped[ut_iter + 1]
    IN  /\ alloc = "rest" /\ Fun # {}
        /\ \/ ut_iter = Len(untyped) /\ Raise("memory")
           \/ /\ ut_iter < Len(untyped)
              /\ ut_iter' = ut_iter + 1
              /\ \/ ~in.uts[u].device /\ todo' = Remaining(u) /\ alloc' = "fill"
                 \/ in.uts[u].device /\ UNCHANGED <<todo, alloc>>
              /\ UNCHANGED <<in, untyped, calls, left, queue, children, recorded, holders>>

RestFilled == alloc = "fill" /\ todo = 0 /\ RecordUt(recorded \cup {ut})

Finish == alloc = "rest" /\ Fun = {} /\ Raise("done")

Stopped == alloc \in {"done", "refused", "memory"}

Step == \/ AddUntyped \/ Allocate \/ Using
        \/ RetireUt \/ MissUnfun \/ FillGap \/ PlaceUnfun \/ FillUt \/ SkipUt
        \/ AfterUnfun \/ AfterTail \/ NextRest \/ RestFilled \/ Finish
Next == Step \/ (Stopped /\ UNCHANGED vars)

Spec == Init /\ [][Next]_vars
-----------------------------------------------------------------------------
(* What the tool and the kernel demand of the covers, at every moment.     *)

(* add_untyped compares a new untyped with its two neighbours only.        *)
UntypedsDisjoint ==
    \A i, j \in DOMAIN untyped : i < j => End(untyped[i]) <= in.uts[untyped[j]].paddr

ChildFits(u, k) ==
    LET c == children[u][k]
    IN  /\ ChildAddr(u, k) % c.size = 0
        /\ ChildAddr(u, k) + c.size <= End(u)
        /\ c.obj # 0 /\ in.objs[c.obj].paddr # 0 => ChildAddr(u, k) = in.objs[c.obj].paddr

(* The kernel makes nothing else from device memory. *)
DeviceOnlyPinned(u, k) ==
    in.uts[u].device /\ children[u][k].obj # 0 => in.objs[children[u][k].obj].paddr # 0

(* The placeholders of skipped untypeds are taken out of the spec again.   *)
PlaceholderKnown(u, k) ==
    u \in recorded /\ children[u][k].obj = 0 => ChildAddr(u, k) \in holders

(* Filling gaps by halves, with placeholders, keeps every child aligned    *)
(* and inside its untyped, and every object with an address at that        *)
(* address; device memory holds such objects and placeholders only; the    *)
(* placeholders of a recorded untyped are objects of the spec; and no two  *)
(* untypeds overlap.                                                       *)
CoversAcceptable ==
    /\ UntypedsDisjoint
    /\ \A u \in Uts : \A k \in DOMAIN children[u] :
          ChildFits(u, k) /\ DeviceOnlyPinned(u, k) /\ PlaceholderKnown(u, k)

(* Through gaps, full untypeds, device memory and the leftover loop, every *)
(* object that takes memory is either still queued or the child of exactly *)
(* one untyped, and at the end none is queued.                             *)
ChildPlaces(o) ==
    UNION {{<<u, k>> : k \in {i \in DOMAIN children[u] : children[u][i].obj = o}} : u \in Uts}
AllocatedOnce ==
    /\ alloc \in {"unfun", "pin", "tail", "rest", "fill", "done"} /\ Objs # {} =>
          \A o \in {p \in Objs : in.objs[p].size # 0} :
              Cardinality(ChildPlaces(o)) = IF o \in queue THEN 0 ELSE 1
    /\ alloc = "done" => queue = {}

(* "This method will mutate the spec by adding the used untypeds": an      *)
(* untyped with an object among its children is an object of the spec when *)
(* the allocator returns.                                                  *)
UsedUntypedsRecorded ==
    alloc = "done" =>
        \A u \in Uts : (\E k \in DOMAIN children[u] : children[u][k].obj # 0) => u \in recorded
=============================================================================
