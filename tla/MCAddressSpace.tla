--------------------------- MODULE MCAddressSpace ---------------------------
(***************************************************************************)
(* Instances of AddressSpace: pages of two bytes, two segments that may    *)
(* share a page, and frames for up to three symbols.  The segments are in  *)
(* the order of their addresses, as the ELF format has it: in the other    *)
(* order the page the lower segment shares with a large frame of the upper *)
(* one makes this frame small again, and its rest is not mapped.           *)
(***************************************************************************)
EXTENDS AddressSpace

(* Two levels, with frames of one or two slots at each (aarch32), and      *)
(* three levels with a frame size for each (riscv64, aarch64 with hyp).    *)
Archs == {[coverage |-> <<32, 8>>, bits |-> <<2, 2>>, sizes |-> {2, 4, 8, 16}],
          [coverage |-> <<32, 8, 4>>, bits |-> <<2, 1, 1>>, sizes |-> {2, 4, 8}]}

Segs(starts, sizes, gaps) ==
    {<<[vaddr |-> v, memsz |-> m1, filesz |-> f1, offset |-> 100, flags |-> {"read", "exec"}],
       [vaddr |-> v + m1 + g, memsz |-> m2, filesz |-> f2, offset |-> 200, flags |-> {"read", "write"}]>> :
       v \in starts, m1 \in sizes, m2 \in sizes \cup {0}, g \in gaps, f1 \in {0, 1, 3, 8}, f2 \in {0, 2, 9}}
Files(segs) == {s \in segs : \A n \in 1 .. 2 : s[n].filesz <= s[n].memsz}

Frame(f, size) == [type |-> "frame", obj |-> <<"given", f>>, size |-> size, rights |-> {"read"}, deferred |-> f = 1]
Symbol(v, sizes, caps) ==
    [vaddr |-> v, size |-> 8, sizes |-> sizes, caps |-> caps]

NoSyms == {<<>>}
OneSym == {<<Symbol(v, <<2>>, <<Frame(1, 2)>>)>> : v \in {2, 3, 4}}
          \cup {<<Symbol(4, <<2, 2, 2>>, <<NoCap, Frame(1, 2), NoCap>>)>>,
                <<Symbol(0, <<8, 2>>, <<Frame(1, 8), Frame(2, 2)>>)>>,
                <<Symbol(8, <<4>>, <<Frame(1, 4)>>)>>}
(* Two symbols, in either order; the same one, or one inside another one.  *)
MoreSyms == {<<Symbol(10, <<2>>, <<Frame(1, 2)>>), Symbol(v, <<4>>, <<Frame(2, 4)>>)>> : v \in {0, 4, 8}}
            \cup {<<Symbol(0, <<8>>, <<Frame(1, 8)>>), Symbol(2, <<2>>, <<Frame(2, 2)>>),
                    Symbol(4, <<4>>, <<Frame(3, 4)>>)>>,
                  <<Symbol(2, <<2>>, <<Frame(1, 2)>>), Symbol(2, <<2, 2>>, <<Frame(2, 2), Frame(3, 2)>>)>>,
                  <<Symbol(4, <<8, 2>>, <<Frame(1, 8), Frame(2, 2)>>)>>}

In(x, segs) == \E n \in 1 .. 2 : x.vaddr \in segs[n].vaddr .. segs[n].vaddr + segs[n].memsz - 1
Make(segs, syms) ==
    {[segs |-> s, syms |-> y, large |-> b, arch |-> a] :
        s \in segs, y \in syms, b \in BOOLEAN, a \in Archs}
Possible(images) == {m \in images : \A n \in DOMAIN m.syms : In(m.syms[n], m.segs)}

(* Symbols are in a segment. *)
MCImages ==
    Make(Files(Segs({0, 1, 4}, {1, 3, 9, 12}, {0, 1, 2})), NoSyms)
    \cup Possible(Make(Files(Segs({0, 4}, {3, 6, 12}, {0, 2})), OneSym \cup MoreSyms))
=============================================================================
