---------------------------- MODULE MCStackArgs ----------------------------
(***************************************************************************)
(* Instances of StackArgs: all stack pointers of a small address space     *)
(* with an ordinary page, a frame of four pages, gaps, two adjacent pages  *)
(* that are different frames, and the last page before the addresses wrap  *)
(* around.                                                                 *)
(***************************************************************************)
EXTENDS StackArgs

F(o, n) == [obj |-> o, pages |-> n]
Space == [q \in {1, 4, 10, 11, 15} |->
            CASE q = 1 -> F(1, 1) [] q = 4 -> F(2, 4) [] q = 10 -> F(3, 1) [] q = 11 -> F(4, 1)
              [] q = 15 -> F(5, 1)]

MCThreads == {[sp |-> s, argc |-> n, vspace |-> v, space |-> Space] :
                 s \in 0 .. 104, n \in 0 .. 10, v \in BOOLEAN}
=============================================================================
