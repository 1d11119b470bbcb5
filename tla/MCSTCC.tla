------------------------------- MODULE MCSTCC -------------------------------
(***************************************************************************)
(* Instances of STCC: TCB t has the CNode t as its root, with one of the   *)
(* contents below; the CNode N + 1 is reached through others and leads     *)
(* back or on; TCBs 1 and 2 have page tables that share a frame.           *)
(***************************************************************************)
EXTENDS STCC

Cap(type, o, rights) == [type |-> type, obj |-> o, rights |-> rights, plain |-> TRUE]
EP(o, r) == Cap("EP", o, {r})
CNode(o) == Cap("CNode", o, {})
Frame(o, r, p) == [type |-> "Frame", obj |-> o, rights |-> {r}, plain |-> p]

Deep == N + 1
Dir(t) == N + 1 + t

(* Chains of endpoints 1 to 3, TCB caps, a deeper CNode, notifications.    *)
Contents == {{EP(1, "grant")}, {EP(1, "read"), EP(2, "grant")}, {EP(2, "read"), EP(3, "grant")},
             {EP(3, "read"), Cap("Ntfn", 1, {"write"})}, {Cap("TCB", N, {}), Cap("Ntfn", 1, {"read"})},
             {CNode(Deep), Cap("EP", 3, {"write"})}}
DeepContents == {{CNode(1), EP(3, "grant")}, {CNode(Deep), Cap("Ntfn", 1, {"read", "write"})}}

Tables(p) == {[t \in {1, 2} |->
                 IF t = 1 THEN {Frame(1, "write", p), Frame(2, "read", TRUE)}
                 ELSE {Cap("PT", Dir(3), {}), Cap("PD", Dir(2), {})}]}

MCModels ==
    {[tcbs  |-> [t \in TCBs |-> {CNode(t)} \cup (IF t <= 2 THEN {Cap("PD", Dir(t), {})} ELSE {})],
      slots |-> [o \in 1 .. Dir(3) |->
                   IF o \in TCBs THEN c[o]
                   ELSE IF o = Deep THEN d
                   ELSE IF o = Dir(3) THEN {Frame(1, "read", TRUE)}
                   ELSE tab[o - Deep]]] :
        c \in [TCBs -> Contents], d \in DeepContents, tab \in Tables(TRUE) \cup Tables(FALSE)}
=============================================================================
