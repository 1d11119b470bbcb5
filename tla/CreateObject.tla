---------------------------- MODULE CreateObject ----------------------------
(***************************************************************************)
(* capdl-loader-app: what create_object asks the kernel for, which the     *)
(* dynamic and the static allocation of the loader share.                  *)
(***************************************************************************)
EXTENDS Kernel

CONSTANTS
    ASIDPoolSize,   \* BIT(seL4_ASIDPoolBits)
    FrameSizes      \* the frame sizes the kernel has an object type for

(* CDL_ObjectType, as far as creation tells types apart: "Obj" stands for  *)
(* every type the kernel retypes at a fixed or given size (TCB, CNode,     *)
(* endpoint, page table, ...), "Interrupt" for every type that is not      *)
(* created here, "IOPorts", "SID" and "CB" are issued by a control cap.    *)
MemoryTypes == {"Frame", "Untyped", "ASIDPool", "Obj"}
IssuedTypes == {"IOPorts", "SID", "CB"}
Types == MemoryTypes \cup IssuedTypes \cup {"Interrupt"}

Object  == [type : Types, size : Nat, paddr : Nat]

(* A cap in a slot: its type, its memory, and the untyped it is made from. *)
Cap == [type : Types \cup {"null"}, base : Nat, size : Nat, ut : Nat]

RequiresCreation(t) == t # "Interrupt"

(* The type and the size create_object asks the kernel for. *)
KernelType(o) == IF o.type = "ASIDPool" THEN "Untyped" ELSE o.type
KernelSize(o) == IF o.type = "ASIDPool" THEN ASIDPoolSize ELSE o.size

(* kobject_get_type has no type for a frame of this size, so that the      *)
(* retype cannot succeed.                                                  *)
InvalidType(o) == o.type = "Frame" /\ o.size \notin FrameSizes

(* The kernel makes a pool from an unused normal untyped of the pool size. *)
PoolMemory(u) ==
    /\ u # 0
    /\ caps[u].type = "Untyped" /\ caps[u].size = ASIDPoolSize
    /\ Children(u) = {}
=============================================================================
