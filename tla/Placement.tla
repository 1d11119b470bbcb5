----------------------------- MODULE Placement -----------------------------
(***************************************************************************)
(* What object creation promises, without slots, watermarks or search: the *)
(* objects of a capDL model get memory one at a time; memory once given is *)
(* never moved or taken back; an object with a physical address gets that  *)
(* address; and no two objects share memory, except frames that the model  *)
(* declares at the same address with the same size.                        *)
(***************************************************************************)
EXTENDS Naturals, Sequences

VARIABLES m,          \* the capDL model and the boot information
          placed      \* the address of every object that has memory

(* The memory [b, b + s) lies inside the untyped u of the boot information. *)
Within(b, s, u) == u.paddr <= b /\ b + s <= u.paddr + u.size

(* [a, a + s) and [b, b + t) have no address in common. *)
Apart(a, s, b, t) == a + s <= b \/ b + t <= a

(* Two objects that may have the same memory: the same device frame twice. *)
MayShare(o, p) ==
    /\ o.type = "Frame" /\ p.type = "Frame"
    /\ o.paddr # 0 /\ o.paddr = p.paddr
    /\ o.size = p.size

Init == placed = [i \in {} |-> 0]

(* Object i gets memory, at an address that the step is free to choose. *)
Place(i) ==
    LET b == placed'[i]
        o == m.objects[i]
    IN  /\ i \notin DOMAIN placed
        /\ DOMAIN placed' = DOMAIN placed \cup {i}
        /\ \A j \in DOMAIN placed : placed'[j] = placed[j]
        /\ b \in Nat
        /\ \E u \in DOMAIN m.untypeds : Within(b, o.size, m.untypeds[u])
        /\ o.paddr # 0 => b = o.paddr
        /\ \A j \in DOMAIN placed :
              \/ Apart(b, o.size, placed[j], m.objects[j].size)
              \/ MayShare(o, m.objects[j])
        /\ UNCHANGED m

(* Before the first object gets memory the model is still being made. *)
Model == placed = [i \in {} |-> 0] /\ UNCHANGED placed

Next == Model \/ \E i \in DOMAIN m.objects : Place(i)

Spec == Init /\ [][Next]_<<m, placed>>
=============================================================================
