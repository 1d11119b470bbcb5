----------------------------- MODULE MakeModel -----------------------------
(***************************************************************************)
(* capDL-tool: the passes of makeModel over the capability declarations of *)
(* a spec: the names of slots, the graph of copies, the derivation tree,   *)
(* the caps, and the copies.  Every pass goes through all declarations in  *)
(* order; three of them number the slots.                                  *)
(*                                                                         *)
(* A declaration gives a container and its mappings.  A mapping is either  *)
(* a cap or a copy; it has a slot, or None; a name for its slot, or NoName *)
(* (for an array of caps, the names of all its slots); the number len of   *)
(* objects it refers to; rights or, for a copy, a mask; the name of the    *)
(* slot a copy is of (src); and the name of a parent slot, or NoName.      *)
(* Names and derivations that are declared on their own are left out: they *)
(* fill ids and cdt with what they say.  So are declarations for an array  *)
(* of containers, copies of an array of caps, and the error for an array   *)
(* that is given a name for a single cap: all names here fit.              *)
(***************************************************************************)
EXTENDS Integers, Sequences, FiniteSets

CONSTANTS Specs,   \* sequences of declarations
          NoName

VARIABLES decls,
          pass, d, j,   \* the pass, its declaration and its mapping
          slot,         \* SlotState: the most recently used slot
          ids,          \* the slot of every name
          refs,         \* the graph of copies
          cdt,          \* the parent of a slot
          slots         \* the cap in every slot that has one

vars == <<decls, pass, d, j, slot, ids, refs, cdt, slots>>

None == -1
NullCap == [obj |-> None, rights |-> {}]
Empty == [x \in {} |-> x]

Init ==
    /\ decls \in Specs
    /\ pass = "ids" /\ d = 1 /\ j = 1 /\ slot = None
    /\ ids = Empty /\ refs = Empty /\ cdt = Empty /\ slots = Empty

(* error: the tool stops. *)
Error ==
    /\ pass' = "error"
    /\ UNCHANGED <<decls, d, j, slot, ids, refs, cdt, slots>>
-----------------------------------------------------------------------------
Passes == <<"ids", "refs", "cdt", "caps", "copies", "done">>
After(p) == Passes[(CHOOSE k \in DOMAIN Passes : Passes[k] = p) + 1]

In(p) == pass = p /\ d <= Len(decls) /\ j <= Len(decls[d].maps)
mapping == decls[d].maps[j]
obj == decls[d].obj

(* On to the next mapping, with the slot s as the most recent one. *)
NextMapping(s) == j' = j + 1 /\ slot' = s /\ UNCHANGED <<decls, pass, d>>

(* evalSlotState starts again for every container. *)
NextDecl ==
    /\ pass \notin {"done", "error"} /\ d <= Len(decls) /\ j > Len(decls[d].maps)
    /\ d' = d + 1 /\ j' = 1 /\ slot' = None
    /\ UNCHANGED <<decls, pass, ids, refs, cdt, slots>>

NextPass ==
    /\ pass \notin {"done", "error"} /\ d > Len(decls)
    /\ pass' = After(pass)
    /\ d' = 1 /\ j' = 1 /\ slot' = None
    /\ UNCHANGED <<decls, ids, refs, cdt, slots>>

(* Mutant of CheckSlot: maxBound does not wrap, and slot 0 is never used. *)
CheckSlotFromOne(mp) ==
    IF mp.slot # None THEN mp.slot ELSE IF slot = None THEN 1 ELSE slot + 1

(* checkSlot and getSlot *)
CheckSlot(mp) == IF mp.slot # None THEN mp.slot ELSE slot + 1

With(f, x, v) == [y \in DOMAIN f \cup {x} |-> IF y = x THEN v ELSE f[y]]
-----------------------------------------------------------------------------
(* capIdents: only a mapping with a slot can be named. *)
AddCapIdent ==
    LET named == IF mapping.slot = None \/ mapping.name = NoName THEN {} ELSE 0 .. mapping.len - 1
    IN  /\ In("ids")
        /\ ids' = [n \in DOMAIN ids \cup {<<mapping.name, k>> : k \in named} |->
                     IF n[1] = mapping.name /\ n[2] \in named
                     THEN <<obj, mapping.slot + n[2]>> ELSE ids[n]]
        /\ NextMapping(slot)
        /\ UNCHANGED <<refs, cdt, slots>>

(* capCopyGraph: a name that is not known leaves the slot without an edge. *)
AddCapCopyRef ==
    /\ In("refs")
    /\ refs' = IF mapping.copy /\ mapping.slot # None /\ mapping.src \in DOMAIN ids
               THEN With(refs, <<obj, mapping.slot>>, ids[mapping.src])
               ELSE refs
    /\ NextMapping(slot)
    /\ UNCHANGED <<ids, cdt, slots>>

(* Mutant of InsertCDT: parent and child are exchanged. *)
InsertCDTReversed(child, parent) == With(cdt, parent, child)

InsertCDT(child, parent) == With(cdt, child, parent)

(* addCDTCapDecls: the slots are numbered again, but only for the mappings *)
(* that have a parent.                                                     *)
AddCDTMapping ==
    LET child == <<obj, CheckSlot(mapping)>>
    IN  /\ In("cdt")
        /\ \/ /\ mapping.parent = NoName
              /\ NextMapping(slot)
              /\ UNCHANGED <<ids, refs, cdt, slots>>
           \/ /\ mapping.parent # NoName
              /\ <<mapping.parent, 0>> \in DOMAIN ids /\ child \notin DOMAIN cdt
              /\ cdt' = InsertCDT(child, ids[<<mapping.parent, 0>>])
              /\ NextMapping(child[2])
              /\ UNCHANGED <<ids, refs, slots>>
           \/ /\ mapping.parent # NoName
              /\ <<mapping.parent, 0>> \notin DOMAIN ids \/ child \in DOMAIN cdt
              /\ Error

(* addCapDecls.  A copy is a null cap for now, and is not allowed together *)
(* with slots that are not numbered.                                       *)
ValidMapping(maps) ==
    ~((\E k \in DOMAIN maps : maps[k].copy) /\ (\E k \in DOMAIN maps : maps[k].slot = None))

AddMapping ==
    LET s   == CheckSlot(mapping)
        new == {<<obj, s + k>> : k \in 0 .. mapping.len - 1}
    IN  /\ In("caps")
        /\ \/ /\ ValidMapping(decls[d].maps) /\ new \cap DOMAIN slots = {}
              /\ slots' = [x \in DOMAIN slots \cup new |->
                             IF x \in DOMAIN slots THEN slots[x]
                             ELSE IF mapping.copy THEN NullCap
                             ELSE [obj |-> mapping.obj + x[2] - s, rights |-> mapping.rights]]
              /\ NextMapping(s + mapping.len - 1)
              /\ UNCHANGED <<ids, refs, cdt>>
           \/ /\ ~ValidMapping(decls[d].maps) \/ new \cap DOMAIN slots # {}
              /\ Error

(* transMapping: the end of the chain of copies from the slot x, or x on a *)
(* cycle.                                                                  *)
TransMapping(x) ==
    LET at[n \in 0 .. Cardinality(DOMAIN refs) + 1] ==
            IF n = 0 THEN x
            ELSE LET y == at[n - 1] IN IF y \in DOMAIN refs THEN refs[y] ELSE y
    IN  at[Cardinality(DOMAIN refs) + 1]

(* Mutant of SrcRef: the slot with the name, which may be a copy itself. *)
SrcRefNext(name) == ids[name]

SrcRef(name) == TransMapping(ids[name])

(* Following the copies from the slot x never ends. *)
Cyclic(x) == TransMapping(x) \in DOMAIN refs

(* getSrcCap: the name is known, and leads to a slot, not around a cycle.  *)
Resolvable(name) ==
    /\ name \in DOMAIN ids
    /\ ~Cyclic(ids[name])
    /\ SrcRef(name) \in DOMAIN slots

(* addCapCopyDecls *)
AddCapCopy ==
    /\ In("copies")
    /\ \/ /\ ~mapping.copy
          /\ NextMapping(slot)
          /\ UNCHANGED <<ids, refs, cdt, slots>>
       \/ /\ mapping.copy /\ Resolvable(mapping.src)
          /\ LET cap == slots[SrcRef(mapping.src)]
             IN  slots' = With(slots, <<obj, mapping.slot>>, [cap EXCEPT !.rights = @ \cap mapping.rights])
          /\ NextMapping(slot)
          /\ UNCHANGED <<ids, refs, cdt>>
       \/ mapping.copy /\ ~Resolvable(mapping.src) /\ Error

Stopped == pass \in {"done", "error"}

Step == NextDecl \/ NextPass \/ AddCapIdent \/ AddCapCopyRef \/ AddCDTMapping
        \/ AddMapping \/ AddCapCopy
Next == Step \/ (Stopped /\ UNCHANGED vars)

Spec == Init /\ [][Next]_vars
-----------------------------------------------------------------------------
(* The slot in which mapping y of declaration x begins: its own, or the    *)
(* one after all of the mapping before it.                                 *)
SlotOf(x, y) ==
    LET maps == decls[x].maps
        at[k \in DOMAIN maps] ==
            IF maps[k].slot # None THEN maps[k].slot
            ELSE IF k = 1 THEN 0
            ELSE at[k - 1] + maps[k - 1].len
    IN  at[y]

Mappings == UNION {{x} \X DOMAIN decls[x].maps : x \in DOMAIN decls}
MappingAt(p) == decls[p[1]].maps[p[2]]
Place(p) == <<decls[p[1]].obj, SlotOf(p[1], p[2])>>

(* Explicit and implicit slots, arrays and copies together: in a model     *)
(* that is accepted every mapping has its slots, with the caps it declares *)
(* and no others.                                                          *)
SlotsAsDeclared ==
    pass = "done" =>
        /\ \A p \in Mappings : ~MappingAt(p).copy =>
              \A k \in 0 .. MappingAt(p).len - 1 :
                LET x == <<Place(p)[1], Place(p)[2] + k>>
                IN  /\ x \in DOMAIN slots
                    /\ slots[x] = [obj |-> MappingAt(p).obj + k, rights |-> MappingAt(p).rights]
        /\ Cardinality(DOMAIN slots) =
              Cardinality(UNION {{<<p, k>> : k \in 0 .. MappingAt(p).len - 1} : p \in Mappings})

NamedSlot(n) == CHOOSE p \in Mappings : MappingAt(p).name = n[1] /\ MappingAt(p).slot # None

(* The name of a declared cap that the name n leads to, from copy to copy. *)
NameOfCap(n) ==
    LET at[k \in 0 .. Cardinality(Mappings)] ==
            IF k = 0 THEN n
            ELSE LET q == MappingAt(NamedSlot(at[k - 1])) IN IF q.copy THEN q.src ELSE at[k - 1]
    IN  at[Cardinality(Mappings)]

(* The declarations of copies may come in any order and name each other:   *)
(* in a model that is accepted every copy is the cap declared at the end   *)
(* of the names, with the rights of this cap that the copy's own mask      *)
(* leaves.  The masks of the copies between them do not count, so that a   *)
(* copy may have rights which the copy it names does not have.             *)
CopiesResolved ==
    pass = "done" =>
        \A p \in Mappings : MappingAt(p).copy =>
            LET n   == NameOfCap(MappingAt(p).src)
                cap == MappingAt(NamedSlot(n))
            IN  slots[Place(p)] = [obj |-> cap.obj + n[2], rights |-> cap.rights \cap MappingAt(p).rights]

(* If all slots are numbered, the tree relates the slots of the mappings   *)
(* to the slots of their parents.                                          *)
TreeOfNumbered ==
    pass = "done" /\ (\A p \in Mappings : MappingAt(p).slot # None) =>
        cdt = [x \in {Place(p) : p \in {q \in Mappings : MappingAt(q).parent # NoName}} |->
                 Place(NamedSlot(<<MappingAt(CHOOSE p \in Mappings : Place(p) = x).parent, 0>>))]

(* SlotState "keeps track of the most recently used slot, and returns the  *)
(* next slot when needed": a mapping with a parent is derived from it in   *)
(* the slot where its cap is.                                              *)
ChildrenInTheirSlots ==
    pass = "done" => \A p \in Mappings : MappingAt(p).parent # NoName => Place(p) \in DOMAIN cdt
=============================================================================
