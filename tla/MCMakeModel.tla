---------------------------- MODULE MCMakeModel ----------------------------
(***************************************************************************)
(* Instances of MakeModel: a container with two mappings and another one,  *)
(* or the same again, with one or two.  The slots of the mappings are      *)
(* named "a" to "d", in this order; "x" is no name.                        *)
(***************************************************************************)
EXTENDS MakeModel

Rights == {"read", "write"}

(* A single cap has all rights and an array of them one. *)
CapTo(s, n, l, p) == [copy |-> FALSE, slot |-> s, name |-> n, len |-> l, obj |-> 10,
                      rights |-> IF l = 1 THEN Rights ELSE {"write"}, src |-> <<NoName, 0>>, parent |-> p]
CopyOf(s, n, f, r) == [copy |-> TRUE, slot |-> s, name |-> n, len |-> 1, obj |-> 0,
                       rights |-> r, src |-> f, parent |-> NoName]

First == {CapTo(s, "a", l, NoName) : s \in {None, 0}, l \in {1, 2}}
Others(n) ==
    {CapTo(s, n, l, p) : s \in {None, 1}, l \in {1, 2}, p \in {NoName, "a", "c", "x"}}
    \cup {CopyOf(s, n, <<f, k>>, r) : s \in {1, 2}, f \in {"a", "b", "c"}, k \in {0, 1}, r \in {Rights, {"read"}}}
Last == {<<>>, <<CapTo(None, "d", 1, "a")>>, <<CopyOf(3, "d", <<"b", 0>>, {"read"})>>}

MCSpecs == {<<[obj |-> 1, maps |-> <<m1, m2>>], [obj |-> o, maps |-> <<m3>> \o m4]>> :
              m1 \in First, m2 \in Others("b"), m3 \in Others("c"), m4 \in Last, o \in {1, 2}}
=============================================================================
