---------------------------- MODULE MCLoadFrames ----------------------------
(***************************************************************************)
(* Instances of LoadFrames: frames of four bytes, two fills of every kind, *)
(* offset, length and source offset.                                       *)
(***************************************************************************)
EXTENDS LoadFrames

CONSTANTS MaxOffset   \* the largest dest_offset

Ch(id, n) == [id |-> id, len |-> n]
Chunks == {<<Ch(1, 3)>>, <<Ch(1, 3), Ch(3, 2), Ch(1, 2)>>}

W(k, id, o, n, s) == [kind |-> k, id |-> id, off |-> o, len |-> n, src |-> s]
AllFills ==
    {W("bootinfo", id, o, n, s) : id \in {1, 2}, o \in 0 .. MaxOffset, n \in {1, 2, 4}, s \in {0, 1, 3}}
    \cup {W("file", 0, o, n, 5) : o \in 0 .. MaxOffset, n \in {0, 2, 4}}
    \cup {W("other", 0, 0, 1, 0), W("bootinfo", 3, 0, 1, 0)}

MCFrames ==
    {[size |-> 4, chunks |-> c, fills |-> <<a, b>>] : c \in Chunks, a \in AllFills, b \in AllFills}
=============================================================================
