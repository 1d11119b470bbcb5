------------------------------- MODULE Kernel -------------------------------
(***************************************************************************)
(* The part of seL4 that object creation in capdl-loader-app uses, as the  *)
(* loader uses it: the slots of the initial task's CNode, the watermark of *)
(* an untyped, and where a retype puts an object.  The untypeds of the     *)
(* boot information are in the slots 1..Len(untypeds), the empty slots     *)
(* follow.                                                                 *)
(***************************************************************************)
EXTENDS Naturals, Sequences, FiniteSets

VARIABLES
    m,           \* the capDL model and the boot information
    caps, free   \* the cap in every slot, and its freeIndex

(* seL4_UntypedDesc *)
Untyped == [paddr : Nat, size : Nat \ {0}, device : BOOLEAN]

NullCap == [type |-> "null", base |-> 0, size |-> 0, ut |-> 0]

LastSlot == Len(m.untypeds) + m.slots
Slots    == 1 .. LastSlot

(* A slot a cap can be put in: it exists and is empty. *)
SlotReady(s) == s \in Slots /\ caps[s] = NullCap

(* The slots that hold a cap made from the untyped cap in slot u. *)
Children(u) == {s \in Slots : caps[s] # NullCap /\ caps[s].ut = u}

(* The kernel forgets the watermark of an untyped that has no children. *)
FreeIndex(u) == IF Children(u) = {} THEN 0 ELSE free[u]

AlignUp(x, s) == x + ((s - (x % s)) % s)

(* Where the next object of size s from the untyped u would be. *)
NextBase(u, s) == AlignUp(caps[u].base + FreeIndex(u), s)

(* The untyped u has room for one more object of size s. *)
Fits(u, s) == NextBase(u, s) + s <= caps[u].base + caps[u].size

RetypedCap(t, u, s) == [type |-> t, base |-> NextBase(u, s), size |-> s, ut |-> u]

(* The watermark of u after the retype of an object of size s. *)
FreeAfter(u, s) == NextBase(u, s) + s - caps[u].base

(* The slots when the loader starts. *)
BootCaps ==
    [s \in Slots |->
        IF s \in DOMAIN m.untypeds
        THEN [type |-> "Untyped", base |-> m.untypeds[s].paddr,
              size |-> m.untypeds[s].size, ut |-> 0]
        ELSE NullCap]
=============================================================================
