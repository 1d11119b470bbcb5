---------------------------- MODULE MCUntypedGen ----------------------------
(***************************************************************************)
(* Instances of UntypedGen: two memory regions, adjacent or not, from a    *)
(* range of addresses; a kernel image with a device tree behind it, an     *)
(* empty region, or nothing reserved; and paddr_top.                       *)
(***************************************************************************)
EXTENDS UntypedGen

CONSTANTS Top   \* the last address of memory

Regions(from, to) == {Region(a, b) : a, b \in from .. to}
NonEmpty(S) == {r \in S : r.start < r.end}

Memory == {<<r>> : r \in NonEmpty(Regions(0, Top))}
          \cup {<<r, s>> : r \in NonEmpty(Regions(0, 4)), s \in NonEmpty(Regions(4, Top))}
          \cup {<<Region(b, Top), Region(0, a)>> : a \in {2, 4}, b \in {4, 5}}

(* The kernel, and the device tree after it. *)
Images == {<<>>} \cup {<<r>> : r \in NonEmpty(Regions(0, 7))}
          \cup {<<Region(a, b), Region(b, b + 2)>> : a \in {0, 2, 5}, b \in {3, 4, 6}}
          \cup {<<Region(3, 3)>>, <<Region(3, 3), Region(4, 5)>>}
SortedImages == {s \in Images : \A i \in DOMAIN s : s[i].start <= s[i].end}

Devices == {<<>>, <<Region(Top + 3, Top + 8)>>}

MCInputs == {[memory |-> mem, reserved |-> res, devices |-> d, top |-> t] :
                mem \in Memory, res \in SortedImages, d \in Devices, t \in {6, Top}}
=============================================================================
