--------------------------- MODULE BestFitProofs ---------------------------
(***************************************************************************)
(* Proofs about BestFit: the covers it builds are acceptable at every      *)
(* moment, and no object is lost or placed twice.                          *)
(***************************************************************************)
EXTENDS BestFit, ProofLemmas

-----------------------------------------------------------------------------
(* The bytes of the first children. *)

LEMMA SizeOfSums ==
    ASSUME NEW n \in Nat, NEW ch, \A k \in 1 .. n : ch[k].size \in Nat
    PROVE  \E f \in [Nat -> Nat] :
              /\ f[0] = 0
              /\ \A k \in 0 .. n - 1 : f[k + 1] = f[k] + ch[k + 1].size
              /\ \A k \in 0 .. n : SizeOf(ch, k) = f[k]
<1>. DEFINE step == [i \in Nat |-> [v \in Nat |-> v + IF i + 1 \in 1 .. n THEN ch[i + 1].size ELSE 0]]
<1>1. step \in [Nat -> [Nat -> Nat]]
  OBVIOUS
<1>2. PICK f : Iterates(f, Nat, 0, step)
  <2>. HIDE DEF step
  <2>. QED
    BY <1>1, PrimitiveRecursion
<1>3. f \in [Nat -> Nat] /\ f[0] = 0
  BY <1>2 DEF Iterates
<1>4. ASSUME NEW k \in 0 .. n - 1 PROVE f[k + 1] = f[k] + ch[k + 1].size
  <2>1. k \in Nat /\ k + 1 \in 1 .. n /\ f[k] \in Nat
    BY <1>3
  <2>2. f[k + 1] = step[k][f[k]]
    BY <1>2, <2>1 DEF Iterates
  <2>. QED
    BY <2>1, <2>2
<1>5. ASSUME NEW k \in 0 .. n PROVE SizeOf(ch, k) = f[k]
  <2>. DEFINE Def(g) == [j \in 0 .. k |-> IF j = 0 THEN 0 ELSE g[j - 1] + ch[j].size]
              s == CHOOSE g : g = Def(g)
              h == [j \in 0 .. k |-> f[j]]
              E == {j \in 0 .. k : s[j] = f[j]}
  <2>1. h = Def(h)
    <3>1. ASSUME NEW j \in 0 .. k, j # 0 PROVE h[j] = h[j - 1] + ch[j].size
      <4>1. j - 1 \in 0 .. n - 1 /\ (j - 1) + 1 = j /\ j - 1 \in 0 .. k
        BY <3>1
      <4>. QED
        BY <1>4, <4>1
    <3>2. h[0] = 0
      BY <1>3
    <3>. QED
      BY <3>1, <3>2
  <2>2. s = Def(s)
    BY <2>1
  <2>. HIDE DEF s, h
  <2>3. \A j \in 0 .. k : s[j] = IF j = 0 THEN 0 ELSE s[j - 1] + ch[j].size
    BY <2>2
  <2>4. 0 \in E
    BY <1>3, <2>3
  <2>5. ASSUME NEW j \in 0 .. k - 1, j \in E PROVE j + 1 \in E
    <3>1. j + 1 \in 0 .. k /\ j + 1 # 0 /\ (j + 1) - 1 = j /\ j \in 0 .. n - 1
      OBVIOUS
    <3>2. s[j + 1] = s[j] + ch[j + 1].size
      BY <2>3, <3>1
    <3>. QED
      BY <1>4, <2>5, <3>1, <3>2
  <2>6. 0 .. k \subseteq E
    <3>1. k \in Nat
      OBVIOUS
    <3>. HIDE DEF E
    <3>. QED
      BY <2>4, <2>5, <3>1, IntervalInduction
  <2>7. SizeOf(ch, k) = s[k]
    BY DEF SizeOf, s
  <2>. QED
    BY <2>6, <2>7
<1>. QED
  BY <1>3, <1>4, <1>5

LEMMA SizeOfFacts ==
    ASSUME NEW n \in Nat, NEW ch, \A k \in 1 .. n : ch[k].size \in Nat
    PROVE  /\ SizeOf(ch, 0) = 0
           /\ \A k \in 0 .. n : SizeOf(ch, k) \in Nat
           /\ \A k \in 0 .. n - 1 : SizeOf(ch, k + 1) = SizeOf(ch, k) + ch[k + 1].size
<1>1. PICK f \in [Nat -> Nat] :
              /\ f[0] = 0
              /\ \A k \in 0 .. n - 1 : f[k + 1] = f[k] + ch[k + 1].size
              /\ \A k \in 0 .. n : SizeOf(ch, k) = f[k]
  BY SizeOfSums, ZenonT(30)
<1>. QED
  BY <1>1

(* The sum of the first n only depends on the first n. *)
LEMMA SizeOfAgree ==
    ASSUME NEW n \in Nat, NEW ch, NEW dh, \A k \in 1 .. n : ch[k].size \in Nat,
           \A k \in 1 .. n : dh[k].size = ch[k].size
    PROVE  \A k \in 0 .. n : SizeOf(dh, k) = SizeOf(ch, k)
<1>. DEFINE E == {k \in 0 .. n : SizeOf(dh, k) = SizeOf(ch, k)}
<1>0. \A k \in 1 .. n : dh[k].size \in Nat
  OBVIOUS
<1>1. 0 \in E
  BY <1>0, SizeOfFacts
<1>2. ASSUME NEW k \in 0 .. n - 1, k \in E PROVE k + 1 \in E
  <2>1. k + 1 \in 0 .. n /\ k + 1 \in 1 .. n
    OBVIOUS
  <2>2. SizeOf(ch, k + 1) = SizeOf(ch, k) + ch[k + 1].size
    BY SizeOfFacts
  <2>3. SizeOf(dh, k + 1) = SizeOf(dh, k) + dh[k + 1].size
    BY <1>0, SizeOfFacts
  <2>. QED
    BY <1>2, <2>1, <2>2, <2>3
<1>3. 0 .. n \subseteq E
  <2>. HIDE DEF E
  <2>. QED
    BY <1>1, <1>2, IntervalInduction
<1>. QED
  BY <1>3

LEMMA SizeOfAppend ==
    ASSUME NEW R, NEW ch \in Seq(R), NEW c \in R, \A r \in R : r.size \in Nat
    PROVE  /\ \A k \in 0 .. Len(ch) : SizeOf(Append(ch, c), k) = SizeOf(ch, k)
           /\ SizeOf(Append(ch, c), Len(ch) + 1) = SizeOf(ch, Len(ch)) + c.size
<1>. DEFINE n == Len(ch)
            dh == Append(ch, c)
<1>1. n \in Nat /\ \A k \in 1 .. n : ch[k] \in R
  OBVIOUS
<1>2. \A k \in 1 .. n : ch[k].size \in Nat /\ dh[k].size = ch[k].size
  BY <1>1
<1>3. \A k \in 1 .. n + 1 : dh[k] \in R
  BY <1>1
<1>4. dh[n + 1] = c
  BY <1>1
<1>. HIDE DEF n, dh
<1>5. \A k \in 0 .. n : SizeOf(dh, k) = SizeOf(ch, k)
  BY <1>1, <1>2, SizeOfAgree
<1>6. SizeOf(dh, n + 1) = SizeOf(dh, n) + dh[n + 1].size
  <2>1. n + 1 \in Nat /\ n \in 0 .. (n + 1) - 1 /\ \A k \in 1 .. n + 1 : dh[k].size \in Nat
    BY <1>1, <1>3
  <2>. QED
    BY <2>1, SizeOfFacts, Zenon
<1>7. n \in 0 .. n
  BY <1>1
<1>. QED
  BY <1>4, <1>5, <1>6, <1>7 DEF n, dh
-----------------------------------------------------------------------------
(* The inductive invariant. *)

Active == {"unfun", "pin", "tail", "rest", "fill"}
Ends == {"done", "refused", "memory"}
Sized == {o \in Objs : in.objs[o].size # 0}
Child == [obj : Nat, size : Nat \ {0}]
Frame == [size : Nat \ {0}, first : Int]

TypeOK ==
    /\ GoodInput(in)
    /\ alloc \in {"add"} \cup Active \cup Ends
    /\ untyped \in Seq(Uts)
    /\ ut_iter \in 0 .. Len(untyped)
    /\ alloc \in Active => ut_iter # 0
    /\ todo \in Nat
    /\ calls \in Seq(Frame)
    /\ left \in Int
    /\ queue \in SUBSET Sized
    /\ children \in [Uts -> Seq(Child)]
    /\ recorded \in SUBSET Uts
    /\ holders \in SUBSET Nat

(* What the allocator has before it starts. *)
NothingYet ==
    alloc = "add" =>
        /\ queue = {} /\ recorded = {} /\ holders = {}
        /\ todo = 0 /\ ut_iter = 0
        /\ \A u \in Uts : children[u] = <<>>

(* Untypeds are aligned to their size. *)
UntypedsAligned ==
    \A i \in DOMAIN untyped : in.uts[untyped[i]].paddr % in.uts[untyped[i]].size = 0

(* The placeholders of the current untyped are in the spec, and nothing is *)
(* in the untypeds after it.                                               *)
CurrentKnown ==
    alloc \in Active => \A k \in DOMAIN children[ut] :
        children[ut][k].obj = 0 => ChildAddr(ut, k) \in holders
LaterEmpty ==
    alloc \in Active => \A j \in ut_iter + 1 .. Len(untyped) : children[untyped[j]] = <<>>
RecordedEarlier ==
    alloc \in {"unfun", "pin"} => \A u \in recorded : \E j \in 1 .. ut_iter - 1 : u = untyped[j]

ChildOK(u, k) == ChildFits(u, k) /\ DeviceOnlyPinned(u, k) /\ PlaceholderKnown(u, k)
CoverInv ==
    /\ UntypedsDisjoint /\ UntypedsAligned
    /\ \A u \in Uts : Watermark(u) <= End(u)
    /\ \A u \in Uts : \A k \in DOMAIN children[u] : ChildOK(u, k)
    /\ CurrentKnown /\ LaterEmpty /\ RecordedEarlier

(* The calls of _fill_from_objects: S[j] is where the block of call j      *)
(* begins.  A block is aligned to its size and ends before the address up  *)
(* to which _use_untyped was called; it is the first or the second half of *)
(* its caller's; and the watermark is at its beginning, or at its end once *)
(* it has been filled.                                                     *)
Limit == IF alloc = "pin" THEN Goal.paddr ELSE End(ut)
Block(S, j) ==
    /\ IsPow2(calls[j].size)
    /\ S[j] % calls[j].size = 0
    /\ S[j] + calls[j].size <= Limit
Half(S, j) ==
    /\ calls[j].size = 2 * calls[j + 1].size
    /\ calls[j].first \in {None, 0, calls[j + 1].size}
    /\ S[j + 1] = S[j] + IF calls[j].first = 0 THEN calls[j + 1].size ELSE 0
Blocks(S) ==
    /\ S[1] + todo = Limit
    /\ \A j \in 1 .. Len(calls) : Block(S, j)
    /\ \A j \in 1 .. Len(calls) - 1 : Half(S, j)
    /\ left \in {None, 0, top.size}
    /\ left = None => top.first = None
    /\ Watermark(ut) = S[Len(calls)] + IF left = 0 THEN top.size ELSE 0

FillInv ==
    /\ todo # 0 => alloc \in {"unfun", "pin", "tail", "fill"}
    /\ calls = <<>> => left = None /\ (todo # 0 => Watermark(ut) + todo = Limit)
    /\ calls # <<>> => /\ todo # 0 /\ ~IsDevice
                       /\ \E S \in [1 .. Len(calls) -> Nat] : Blocks(S)
    /\ alloc = "pin" => Unfun # {} /\ Goal.paddr + Goal.size <= End(ut)

(* What is in the queue has no place, what has left it has one. *)
Placed(o) == IF o \in queue THEN ChildPlaces(o) = {} ELSE \E p : ChildPlaces(o) = {p}
QueueInv ==
    /\ alloc \in Active \cup {"done"} /\ Objs # {} => \A o \in Sized : Placed(o)
    /\ alloc \in {"tail", "rest", "fill"} => Unfun = {}
    /\ alloc = "done" => queue = {}

Inv == TypeOK /\ NothingYet /\ CoverInv /\ FillInv /\ QueueInv
-----------------------------------------------------------------------------
LEMMA InputFacts ==
    ASSUME GoodInput(in)
    PROVE  /\ Uts = 1 .. Len(in.uts) /\ Len(in.uts) \in Nat
           /\ Objs = 1 .. Len(in.objs) /\ Len(in.objs) \in Nat
           /\ \A u \in Uts : /\ in.uts[u].paddr \in Nat
                             /\ in.uts[u].size \in Nat \ {0}
                             /\ IsPow2(in.uts[u].size)
                             /\ in.uts[u].device \in BOOLEAN
                             /\ End(u) \in Nat
                             /\ End(u) = in.uts[u].paddr + in.uts[u].size
           /\ \A o \in Objs : in.objs[o].size \in Nat /\ in.objs[o].paddr \in Nat
<1>1. in.uts \in Seq([name : Nat, paddr : Nat, size : Nat, device : BOOLEAN])
  BY DEF GoodInput
<1>2. in.objs \in Seq([type : STRING, size : Nat, paddr : Nat, asid_high : Int])
  BY DEF GoodInput
<1>3. /\ Uts = 1 .. Len(in.uts) /\ Len(in.uts) \in Nat
      /\ Objs = 1 .. Len(in.objs) /\ Len(in.objs) \in Nat
  BY <1>1, <1>2 DEF Uts, Objs
<1>4. ASSUME NEW u \in Uts
      PROVE  /\ in.uts[u].paddr \in Nat /\ in.uts[u].size \in Nat
             /\ in.uts[u].device \in BOOLEAN /\ IsPow2(in.uts[u].size)
  <2>1. in.uts[u] \in [name : Nat, paddr : Nat, size : Nat, device : BOOLEAN]
    <3>. DEFINE R == [name : Nat, paddr : Nat, size : Nat, device : BOOLEAN]
    <3>. HIDE DEF R
    <3>1. in.uts \in Seq(R)
      BY <1>1 DEF R
    <3>2. in.uts[u] \in R
      BY <1>3, <3>1
    <3>. QED
      BY <3>2 DEF R
  <2>2. IsPow2(in.uts[u].size)
    BY DEF GoodInput, Uts
  <2>. QED
    BY <2>1, <2>2
<1>5. \A u \in Uts : in.uts[u].size \in Nat \ {0}
  BY <1>4, IsPow2Facts
<1>6. ASSUME NEW o \in Objs PROVE in.objs[o].size \in Nat /\ in.objs[o].paddr \in Nat
  <2>1. in.objs[o] \in [type : STRING, size : Nat, paddr : Nat, asid_high : Int]
    <3>. DEFINE R == [type : STRING, size : Nat, paddr : Nat, asid_high : Int]
    <3>. HIDE DEF R
    <3>1. in.objs \in Seq(R)
      BY <1>2 DEF R
    <3>2. in.objs[o] \in R
      BY <1>3, <3>1
    <3>. QED
      BY <3>2 DEF R
  <2>. QED
    BY <2>1
<1>7. \A u \in Uts : End(u) = in.uts[u].paddr + in.uts[u].size /\ End(u) \in Nat
  BY <1>4 DEF End
<1>. QED
  BY <1>3, <1>4, <1>5, <1>6, <1>7

LEMMA PieceFacts ==
    ASSUME NEW at \in Nat, NEW n \in Nat \ {0}
    PROVE  /\ Piece(at, n) \in Nat \ {0} /\ Piece(at, n) <= n
           /\ IsPow2(Piece(at, n)) /\ at % Piece(at, n) = 0
<1>1. ASSUME NEW x \in Nat \ {0}
      PROVE  LowBit(x) \in 1 .. x /\ x % LowBit(x) = 0 /\ IsPow2(LowBit(x))
  BY LowBitExists DEF LowBit
<1>2. PICK p \in 1 .. n : p = LowBit(n) /\ n % p = 0 /\ IsPow2(p)
  BY <1>1
<1>3. CASE at = 0
  <2>1. Piece(at, n) = p
    BY <1>2, <1>3 DEF Piece
  <2>2. 0 % p = 0
    BY <1>2, ModSelf
  <2>. QED
    BY <1>2, <1>3, <2>1, <2>2
<1>4. CASE at # 0
  <2>1. PICK q \in 1 .. at : q = LowBit(at) /\ at % q = 0 /\ IsPow2(q)
    BY <1>1, <1>4
  <2>2. Piece(at, n) = Min({p, q})
    BY <1>2, <1>4, <2>1 DEF Piece
  <2>3. CASE p <= q
    <3>1. Piece(at, n) = p
      BY <2>2, <2>3 DEF Min
    <3>2. PICK d \in Nat \ {0} : q = d * p
      <4>1. p \in Nat /\ q \in Nat
        OBVIOUS
      <4>. QED
        BY <1>2, <2>1, <2>3, <4>1, Pow2Order, Zenon
    <3>3. p \in Nat \ {0} /\ at \in Int /\ at % (d * p) = 0
      BY <2>1, <3>2
    <3>4. at % p = 0
      BY <3>3, ModDivisor, Zenon
    <3>. QED
      BY <1>2, <3>1, <3>4
  <2>4. CASE q < p
    <3>1. Piece(at, n) = q
      BY <2>2, <2>4 DEF Min
    <3>. QED
      BY <2>1, <2>4, <3>1
  <2>. QED
    BY <2>3, <2>4
<1>. QED
  BY <1>3, <1>4

LEMMA ChildFacts ==
    ASSUME TypeOK, NEW u \in Uts
    PROVE  /\ children[u] \in Seq(Child)
           /\ Len(children[u]) \in Nat /\ DOMAIN children[u] = 1 .. Len(children[u])
           /\ Watermark(u) \in Nat /\ in.uts[u].paddr <= Watermark(u)
           /\ \A k \in DOMAIN children[u] :
                 /\ children[u][k].obj \in Nat /\ children[u][k].size \in Nat \ {0}
                 /\ ChildAddr(u, k) \in Nat /\ in.uts[u].paddr <= ChildAddr(u, k)
<1>. DEFINE ch == children[u]
            n == Len(ch)
<1>1. ch \in Seq(Child)
  BY DEF TypeOK
<1>2. n \in Nat /\ DOMAIN ch = 1 .. n /\ \A k \in 1 .. n : ch[k] \in Child
  BY <1>1
<1>3. \A k \in 1 .. n : ch[k].obj \in Nat /\ ch[k].size \in Nat \ {0}
  BY <1>2 DEF Child
<1>4. in.uts[u].paddr \in Nat
  BY InputFacts DEF TypeOK
<1>. HIDE DEF n
<1>5. \A k \in 0 .. n : SizeOf(ch, k) \in Nat
  BY <1>2, <1>3, SizeOfFacts
<1>6. Watermark(u) \in Nat /\ in.uts[u].paddr <= Watermark(u)
  <2>1. SizeOf(ch, n) \in Nat
    BY <1>2, <1>5
  <2>. QED
    BY <1>4, <2>1 DEF Watermark, n
<1>7. ASSUME NEW k \in 1 .. n
      PROVE  ChildAddr(u, k) \in Nat /\ in.uts[u].paddr <= ChildAddr(u, k)
  <2>1. SizeOf(ch, k - 1) \in Nat
    BY <1>2, <1>5
  <2>. QED
    BY <1>4, <2>1 DEF ChildAddr
<1>. QED
  BY <1>1, <1>2, <1>3, <1>6, <1>7 DEF n
(* No two positions of untyped have the same untyped. *)
LEMMA Apart ==
    ASSUME TypeOK, UntypedsDisjoint, NEW i \in DOMAIN untyped, NEW j \in DOMAIN untyped, i # j
    PROVE  /\ untyped[i] # untyped[j]
           /\ \/ End(untyped[i]) <= in.uts[untyped[j]].paddr
              \/ End(untyped[j]) <= in.uts[untyped[i]].paddr
<1>1. untyped[i] \in Uts /\ untyped[j] \in Uts /\ i \in Int /\ j \in Int
  BY DEF TypeOK
<1>2. \/ End(untyped[i]) <= in.uts[untyped[j]].paddr
      \/ End(untyped[j]) <= in.uts[untyped[i]].paddr
  <2>1. i < j \/ j < i
    BY <1>1
  <2>. QED
    BY <1>1, <2>1 DEF UntypedsDisjoint
<1>3. ASSUME NEW u \in Uts PROVE ~(End(u) <= in.uts[u].paddr)
  <2>1. GoodInput(in)
    BY DEF TypeOK
  <2>2. /\ in.uts[u].paddr \in Nat /\ in.uts[u].size \in Nat \ {0}
        /\ End(u) = in.uts[u].paddr + in.uts[u].size
    BY <2>1, InputFacts
  <2>. QED
    BY <2>2
<1>. QED
  BY <1>1, <1>2, <1>3

LEMMA AppendFacts ==
    ASSUME TypeOK, NEW u \in Uts, NEW c \in Child, in' = in,
           children' = [children EXCEPT ![u] = Append(@, c)]
    PROVE  /\ children' \in [Uts -> Seq(Child)]
           /\ \A v \in Uts \ {u} : children'[v] = children[v]
           /\ children'[u] = Append(children[u], c)
           /\ DOMAIN children'[u] = DOMAIN children[u] \cup {Len(children[u]) + 1}
           /\ \A k \in DOMAIN children[u] : children'[u][k] = children[u][k]
           /\ children'[u][Len(children[u]) + 1] = c
           /\ \A v \in Uts \ {u} : Watermark(v)' = Watermark(v)
           /\ Watermark(u)' = Watermark(u) + c.size
           /\ \A v \in Uts : \A k \in DOMAIN children[v] : ChildAddr(v, k)' = ChildAddr(v, k)
           /\ \A k : k = Len(children[u]) + 1 => ChildAddr(u, k)' = Watermark(u)
<1>1. children \in [Uts -> Seq(Child)]
  BY DEF TypeOK
<1>2. children[u] \in Seq(Child) /\ Append(children[u], c) \in Seq(Child)
  BY <1>1
<1>3. children' \in [Uts -> Seq(Child)]
  BY <1>1, <1>2
<1>4. \A v \in Uts \ {u} : children'[v] = children[v]
  BY <1>1
<1>5. children'[u] = Append(children[u], c)
  BY <1>1
<1>6. /\ DOMAIN children'[u] = DOMAIN children[u] \cup {Len(children[u]) + 1}
      /\ \A k \in DOMAIN children[u] : children'[u][k] = children[u][k]
      /\ children'[u][Len(children[u]) + 1] = c
      /\ Len(children'[u]) = Len(children[u]) + 1
  <2>. DEFINE ch == children[u]
  <2>1. ch \in Seq(Child)
    BY <1>2
  <2>. HIDE DEF ch
  <2>2. /\ DOMAIN Append(ch, c) = DOMAIN ch \cup {Len(ch) + 1}
        /\ \A k \in DOMAIN ch : Append(ch, c)[k] = ch[k]
        /\ Append(ch, c)[Len(ch) + 1] = c
        /\ Len(Append(ch, c)) = Len(ch) + 1
    BY <2>1
  <2>. QED
    BY <1>5, <2>2 DEF ch
<1>7. \A r \in Child : r.size \in Nat
  BY DEF Child
<1>8. /\ \A k \in 0 .. Len(children[u]) : SizeOf(Append(children[u], c), k) = SizeOf(children[u], k)
      /\ SizeOf(Append(children[u], c), Len(children[u]) + 1) =
            SizeOf(children[u], Len(children[u])) + c.size
  BY <1>2, <1>7, SizeOfAppend
<1>9. \A v \in Uts \ {u} : Watermark(v)' = Watermark(v)
  BY <1>4 DEF Watermark
<1>n. Len(children[u]) \in Nat /\ DOMAIN children[u] = 1 .. Len(children[u])
  BY <1>2
<1>w. /\ in.uts[u].paddr \in Nat
      /\ SizeOf(children[u], Len(children[u])) \in Nat
      /\ c.size \in Nat
  <2>1. in.uts[u].paddr \in Nat
    BY InputFacts DEF TypeOK
  <2>2. \A k \in 1 .. Len(children[u]) : children[u][k].size \in Nat
    BY <1>2, <1>7
  <2>3. SizeOf(children[u], Len(children[u])) \in Nat
    <3>1. \A k \in 0 .. Len(children[u]) : SizeOf(children[u], k) \in Nat
      BY <1>n, <2>2, SizeOfFacts, Zenon
    <3>. QED
      BY <1>n, <3>1
  <2>. QED
    BY <1>7, <2>1, <2>3
<1>10. Watermark(u)' = Watermark(u) + c.size
  <2>1. Watermark(u)' = in.uts[u].paddr + SizeOf(Append(children[u], c), Len(children[u]) + 1)
    BY <1>5, <1>6 DEF Watermark
  <2>2. Watermark(u) = in.uts[u].paddr + SizeOf(children[u], Len(children[u]))
    BY DEF Watermark
  <2>. QED
    BY <1>8, <1>w, <2>1, <2>2
<1>11. ASSUME NEW v \in Uts, NEW k \in DOMAIN children[v]
       PROVE  ChildAddr(v, k)' = ChildAddr(v, k)
  <2>1. CASE v # u
    BY <1>4, <2>1 DEF ChildAddr
  <2>2. CASE v = u
    <3>1. k - 1 \in 0 .. Len(children[u])
      BY <1>n, <2>2
    <3>2. SizeOf(Append(children[u], c), k - 1) = SizeOf(children[u], k - 1)
      BY <1>8, <3>1
    <3>3. ChildAddr(v, k)' = in.uts[u].paddr + SizeOf(children'[u], k - 1)
      BY <2>2 DEF ChildAddr
    <3>4. ChildAddr(v, k) = in.uts[u].paddr + SizeOf(children[u], k - 1)
      BY <2>2 DEF ChildAddr
    <3>. QED
      BY <1>5, <3>2, <3>3, <3>4
  <2>. QED
    BY <2>1, <2>2
<1>12. ASSUME NEW k, k = Len(children[u]) + 1 PROVE ChildAddr(u, k)' = Watermark(u)
  <2>1. ChildAddr(u, k)' = in.uts[u].paddr + SizeOf(children'[u], k - 1)
    BY DEF ChildAddr
  <2>2. k - 1 = Len(children[u]) /\ k - 1 \in 0 .. Len(children[u])
    BY <1>n, <1>12
  <2>3. SizeOf(children'[u], k - 1) = SizeOf(children[u], Len(children[u]))
    BY <1>5, <1>8, <2>2
  <2>. QED
    BY <2>1, <2>3 DEF Watermark
<1>. QED
  BY <1>3, <1>4, <1>5, <1>6, <1>9, <1>10, <1>11, <1>12
(* A child at the watermark that is aligned, inside and allowed there.     *)
LEMMA AppendCover ==
    ASSUME TypeOK, CoverInv, alloc \in Active, alloc' \in Active,
           alloc' \in {"unfun", "pin"} => alloc \in {"unfun", "pin"},
           NEW u \in Uts, u = ut, NEW c \in Child,
           in' = in, untyped' = untyped, ut_iter' = ut_iter, recorded' = recorded,
           children' = [children EXCEPT ![u] = Append(@, c)],
           holders \subseteq holders', c.obj = 0 => Watermark(u) \in holders',
           Watermark(u) % c.size = 0, Watermark(u) + c.size <= End(u),
           c.obj # 0 /\ in.objs[c.obj].paddr # 0 => Watermark(u) = in.objs[c.obj].paddr,
           in.uts[u].device /\ c.obj # 0 => in.objs[c.obj].paddr # 0
    PROVE  CoverInv'
<1>. DEFINE n == Len(children[u])
<1>1. /\ \A v \in Uts \ {u} : children'[v] = children[v]
      /\ DOMAIN children'[u] = DOMAIN children[u] \cup {n + 1}
      /\ \A k \in DOMAIN children[u] : children'[u][k] = children[u][k]
      /\ children'[u][n + 1] = c
      /\ \A v \in Uts \ {u} : Watermark(v)' = Watermark(v)
      /\ Watermark(u)' = Watermark(u) + c.size
      /\ \A v \in Uts : \A k \in DOMAIN children[v] : ChildAddr(v, k)' = ChildAddr(v, k)
      /\ \A k : k = n + 1 => ChildAddr(u, k)' = Watermark(u)
  BY AppendFacts, ZenonT(30)
<1>. HIDE DEF n
<1>2. Uts' = Uts /\ ut' = u /\ (\A v : End(v)' = End(v)) /\ IsDevice' = IsDevice
  BY DEF Uts, ut, End, IsDevice
<1>3. UntypedsDisjoint' /\ UntypedsAligned'
  BY DEF CoverInv, UntypedsDisjoint, UntypedsAligned, End
<1>4. \A v \in Uts : Watermark(v)' <= End(v)'
  BY <1>1, <1>2 DEF CoverInv
<1>5. ASSUME NEW v \in Uts, NEW k \in DOMAIN children'[v]
      PROVE  ChildOK(v, k)'
  <2>1. CASE k \in DOMAIN children[v]
    <3>1. children'[v][k] = children[v][k]
      BY <1>1, <2>1
    <3>2. ChildAddr(v, k)' = ChildAddr(v, k)
      BY <1>1, <2>1
    <3>3. ChildOK(v, k)
      BY <2>1 DEF CoverInv
    <3>4. ChildFits(v, k)'
      BY <1>2, <3>1, <3>2, <3>3 DEF ChildOK, ChildFits
    <3>5. DeviceOnlyPinned(v, k)'
      BY <3>1, <3>3 DEF ChildOK, DeviceOnlyPinned
    <3>6. PlaceholderKnown(v, k)'
      BY <3>1, <3>2, <3>3 DEF ChildOK, PlaceholderKnown
    <3>. QED
      BY <3>4, <3>5, <3>6 DEF ChildOK
  <2>2. CASE k \notin DOMAIN children[v]
    <3>1. v = u /\ k = n + 1
      BY <1>1, <2>2
    <3>2. children'[v][k] = c /\ ChildAddr(v, k)' = Watermark(u)
      BY <1>1, <3>1
    <3>4. ChildFits(v, k)'
      BY <1>2, <3>1, <3>2 DEF ChildFits
    <3>5. DeviceOnlyPinned(v, k)'
      BY <3>1, <3>2 DEF DeviceOnlyPinned
    <3>6. PlaceholderKnown(v, k)'
      BY <3>2 DEF PlaceholderKnown
    <3>. QED
      BY <3>4, <3>5, <3>6 DEF ChildOK
  <2>. QED
    BY <2>1, <2>2
<1>6. CurrentKnown'
  <2>1. ASSUME NEW k \in DOMAIN children'[u], children'[u][k].obj = 0
        PROVE  ChildAddr(u, k)' \in holders'
    <3>1. CASE k \in DOMAIN children[u]
      <4>1. ChildAddr(u, k) \in holders
        BY <1>1, <2>1, <3>1 DEF CoverInv, CurrentKnown
      <4>. QED
        BY <1>1, <3>1, <4>1
    <3>2. CASE k \notin DOMAIN children[u]
      BY <1>1, <2>1, <3>2
    <3>. QED
      BY <3>1, <3>2
  <2>2. \A k \in DOMAIN children'[u] : children'[u][k].obj = 0 => ChildAddr(ut, k)' \in holders'
    <3>1. \A k : ChildAddr(ut, k)' = ChildAddr(u, k)'
      BY <1>2 DEF ChildAddr
    <3>. QED
      BY <2>1, <3>1
  <2>. QED
    BY <1>2, <2>2 DEF CurrentKnown
<1>7. LaterEmpty'
  <2>1. ASSUME NEW j \in ut_iter + 1 .. Len(untyped) PROVE children'[untyped[j]] = <<>>
    <3>1. j \in DOMAIN untyped /\ ut_iter \in DOMAIN untyped /\ j # ut_iter
      BY DEF TypeOK
    <3>2. untyped[j] # u
      BY <3>1, Apart DEF CoverInv, ut
    <3>3. untyped[j] \in Uts
      BY <3>1 DEF TypeOK
    <3>4. children[untyped[j]] = <<>>
      BY DEF CoverInv, LaterEmpty
    <3>. QED
      BY <1>1, <3>2, <3>3, <3>4
  <2>. QED
    BY <2>1 DEF LaterEmpty
<1>8. RecordedEarlier'
  BY DEF CoverInv, RecordedEarlier
<1>9. (\A v \in Uts : \A k \in DOMAIN children[v] : ChildOK(v, k))'
  BY <1>2, <1>5
<1>. QED
  BY <1>2, <1>3, <1>4, <1>6, <1>7, <1>8, <1>9 DEF CoverInv
LEMMA AppendPlaces ==
    ASSUME TypeOK, NEW u \in Uts, NEW c \in Child, in' = in, NEW o,
           children' = [children EXCEPT ![u] = Append(@, c)]
    PROVE  ChildPlaces(o)' = IF c.obj = o THEN ChildPlaces(o) \cup {<<u, Len(children[u]) + 1>>}
                             ELSE ChildPlaces(o)
<1>. DEFINE n == Len(children[u])
            P == {p \in Uts \X Nat : p[2] \in DOMAIN children[p[1]] /\ children[p[1]][p[2]].obj = o}
            Q == {p \in Uts \X Nat : p[2] \in DOMAIN children'[p[1]] /\ children'[p[1]][p[2]].obj = o}
<1>1. /\ \A v \in Uts \ {u} : children'[v] = children[v]
      /\ DOMAIN children'[u] = DOMAIN children[u] \cup {n + 1}
      /\ \A k \in DOMAIN children[u] : children'[u][k] = children[u][k]
      /\ children'[u][n + 1] = c
  BY AppendFacts, Zenon
<1>2. n \in Nat /\ \A v \in Uts : DOMAIN children[v] \subseteq Nat
  BY ChildFacts
<1>3. ChildPlaces(o) = P
  BY <1>2 DEF ChildPlaces
<1>4. \A v \in Uts : DOMAIN children'[v] \subseteq Nat
  BY <1>1, <1>2
<1>5. ChildPlaces(o)' = Q
  BY <1>4 DEF ChildPlaces, Uts
<1>6. ASSUME NEW p \in Uts \X Nat, p # <<u, n + 1>> PROVE p \in P <=> p \in Q
  <2>1. PICK v \in Uts, k \in Nat : p = <<v, k>>
    OBVIOUS
  <2>2. CASE v # u
    BY <1>1, <2>1, <2>2
  <2>3. CASE v = u
    <3>1. k # n + 1
      BY <1>6, <2>1, <2>3
    <3>. QED
      BY <1>1, <2>1, <2>3, <3>1
  <2>. QED
    BY <2>2, <2>3
<1>7. <<u, n + 1>> \in Uts \X Nat /\ (<<u, n + 1>> \in Q <=> c.obj = o)
  BY <1>1, <1>2
<1>8. n + 1 \notin DOMAIN children[u]
  BY <1>2, ChildFacts
<1>9. <<u, n + 1>> \notin P
  BY <1>8
<1>. HIDE DEF P, Q, n
<1>10. P \subseteq Uts \X Nat /\ Q \subseteq Uts \X Nat
  BY DEF P, Q
<1>11. IF c.obj = o THEN Q = P \cup {<<u, n + 1>>} ELSE Q = P
  <2>. DEFINE a == <<u, n + 1>>
              X == Uts \X Nat
  <2>1. a \in X /\ (a \in Q <=> c.obj = o) /\ a \notin P
    BY <1>7, <1>9
  <2>2. \A p \in X : p # a => (p \in P <=> p \in Q)
    BY <1>6
  <2>3. P \subseteq X /\ Q \subseteq X
    BY <1>10
  <2>. HIDE DEF a, X
  <2>4. IF c.obj = o THEN Q = P \cup {a} ELSE Q = P
    BY <2>1, <2>2, <2>3
  <2>. QED
    BY <2>4 DEF a
<1>. QED
  BY <1>3, <1>5, <1>11 DEF n

LEMMA ZeroNoObject ==
    ASSUME TypeOK
    PROVE  0 \notin Objs /\ Sized \subseteq Objs
<1>1. Objs = 1 .. Len(in.objs) /\ Len(in.objs) \in Nat
  BY InputFacts DEF TypeOK
<1>. QED
  BY <1>1 DEF Sized

(* A placeholder moves no object, an object from the queue gets its place. *)
LEMMA PlacedAfterHolder ==
    ASSUME TypeOK, NEW u \in Uts, NEW c \in Child, c.obj = 0, in' = in, queue' = queue,
           children' = [children EXCEPT ![u] = Append(@, c)],
           NEW o \in Sized, Placed(o)
    PROVE  Placed(o)'
<1>1. o # 0
  BY ZeroNoObject
<1>2. ChildPlaces(o)' = ChildPlaces(o)
  BY <1>1, AppendPlaces
<1>. QED
  BY <1>2 DEF Placed

LEMMA PlacedAfterObject ==
    ASSUME TypeOK, NEW u \in Uts, NEW c \in Child, c.obj \in queue, in' = in,
           queue' = queue \ {c.obj},
           children' = [children EXCEPT ![u] = Append(@, c)],
           NEW o \in Sized, Placed(o)
    PROVE  Placed(o)'
<1>1. CASE c.obj = o
  <2>1. ChildPlaces(o)' = ChildPlaces(o) \cup {<<u, Len(children[u]) + 1>>}
    BY <1>1, AppendPlaces
  <2>2. ChildPlaces(o) = {}
    BY <1>1 DEF Placed
  <2>3. o \notin queue' /\ ChildPlaces(o)' = {<<u, Len(children[u]) + 1>>}
    BY <1>1, <2>1, <2>2
  <2>. QED
    BY <2>3 DEF Placed
<1>2. CASE c.obj # o
  <2>1. ChildPlaces(o)' = ChildPlaces(o)
    BY <1>2, AppendPlaces
  <2>2. o \in queue' <=> o \in queue
    BY <1>2
  <2>. QED
    BY <2>1, <2>2 DEF Placed
<1>. QED
  BY <1>1, <1>2
-----------------------------------------------------------------------------
LEMMA CurrentUt ==
    ASSUME TypeOK, alloc \in Active
    PROVE  ut_iter \in DOMAIN untyped /\ ut \in Uts
BY DEF TypeOK, ut

LEMMA SameGoal ==
    ASSUME in' = in, untyped' = untyped, ut_iter' = ut_iter
    PROVE  /\ ut' = ut /\ End(ut)' = End(ut) /\ IsDevice' = IsDevice
           /\ Uts' = Uts /\ Objs' = Objs /\ Sized' = Sized
           /\ queue' = queue => Unfun' = Unfun /\ Fun' = Fun
           /\ Unfun' = Unfun => Goal' = Goal
           /\ Unfun' = Unfun /\ alloc' = alloc => Limit' = Limit
<1>1. ut' = ut /\ Uts' = Uts /\ Objs' = Objs
  BY DEF ut, Uts, Objs
<1>2. End(ut)' = End(ut) /\ IsDevice' = IsDevice /\ Sized' = Sized
  BY <1>1 DEF End, IsDevice, Sized
<1>3. queue' = queue => Unfun' = Unfun /\ Fun' = Fun
  BY DEF Unfun, Fun
<1>4. Unfun' = Unfun => Goal' = Goal
  BY DEF Goal, NextUnfun
<1>. QED
  BY <1>1, <1>2, <1>3, <1>4 DEF Limit

(* add_child of a placeholder of s bytes, and of an object. *)
LEMMA HolderAdded ==
    ASSUME TypeOK, CoverInv, QueueInv, alloc \in Active, alloc' = alloc,
           in' = in, untyped' = untyped, ut_iter' = ut_iter, recorded' = recorded,
           NEW s \in Nat \ {0}, AddPlaceholder(s),
           Watermark(ut) % s = 0, Watermark(ut) + s <= End(ut)
    PROVE  /\ CoverInv' /\ QueueInv'
           /\ children' \in [Uts' -> Seq(Child)] /\ holders' \in SUBSET Nat
           /\ queue' = queue
           /\ Watermark(ut)' = Watermark(ut) + s
<1>1. PICK u \in Uts : u = ut
  BY CurrentUt
<1>2. PICK c \in Child : c = [obj |-> 0, size |-> s]
  BY DEF Child
<1>3. /\ children' = [children EXCEPT ![u] = Append(@, c)]
      /\ holders' = holders \cup {Watermark(u)} /\ queue' = queue
  BY <1>1, <1>2 DEF AddPlaceholder
<1>4. c.obj = 0 /\ c.size = s
  BY <1>2
<1>5. Watermark(u) = Watermark(ut) /\ End(u) = End(ut) /\ Watermark(u) \in Nat
  BY <1>1, ChildFacts
<1>6. CoverInv'
  <2>1. Watermark(u) % c.size = 0 /\ Watermark(u) + c.size <= End(u)
    BY <1>4, <1>5
  <2>2. holders \subseteq holders' /\ Watermark(u) \in holders' /\ alloc' \in Active
    BY <1>3
  <2>3. c.obj # 0 /\ in.objs[c.obj].paddr # 0 => Watermark(u) = in.objs[c.obj].paddr
    BY <1>4
  <2>4. in.uts[u].device /\ c.obj # 0 => in.objs[c.obj].paddr # 0
    BY <1>4
  <2>5. alloc' \in {"unfun", "pin"} => alloc \in {"unfun", "pin"}
    OBVIOUS
  <2>. QED
    BY <1>1, <1>3, <2>1, <2>2, <2>3, <2>4, <2>5, AppendCover, Zenon
<1>7. /\ children' \in [Uts -> Seq(Child)]
      /\ Watermark(u)' = Watermark(u) + c.size
  BY <1>3, AppendFacts, Zenon
<1>8. \A o \in Sized : Placed(o) => Placed(o)'
  BY <1>3, <1>4, PlacedAfterHolder, Zenon
<1>9. /\ ut' = ut /\ Uts' = Uts /\ Objs' = Objs /\ Sized' = Sized
      /\ Unfun' = Unfun
  BY <1>3, SameGoal
<1>10. QueueInv'
  BY <1>3, <1>8, <1>9 DEF QueueInv
<1>11. Watermark(ut)' = Watermark(u)'
  BY <1>1, <1>9 DEF Watermark
<1>12. holders' \in SUBSET Nat
  BY <1>3, <1>5 DEF TypeOK
<1>. QED
  BY <1>3, <1>4, <1>5, <1>6, <1>7, <1>9, <1>10, <1>11, <1>12

LEMMA ObjectAdded ==
    ASSUME TypeOK, CoverInv, QueueInv, alloc \in Active, alloc' \in Active,
           alloc' \in {"unfun", "pin"} => alloc \in {"unfun", "pin"},
           alloc' \in {"tail", "rest", "fill"} => alloc \in {"tail", "rest", "fill"},
           in' = in, untyped' = untyped, ut_iter' = ut_iter, recorded' = recorded,
           NEW o \in queue, AddChild(o),
           Watermark(ut) % in.objs[o].size = 0, Watermark(ut) + in.objs[o].size <= End(ut),
           in.objs[o].paddr # 0 => Watermark(ut) = in.objs[o].paddr,
           IsDevice => in.objs[o].paddr # 0
    PROVE  /\ CoverInv' /\ QueueInv'
           /\ children' \in [Uts' -> Seq(Child)] /\ holders' \in SUBSET Nat
           /\ queue' \in SUBSET Sized'
           /\ Watermark(ut)' = Watermark(ut) + in.objs[o].size
<1>1. PICK u \in Uts : u = ut
  BY CurrentUt
<1>2. o \in Sized /\ o \in Objs
  BY DEF TypeOK, Sized
<1>3. o \in Nat /\ in.objs[o].size \in Nat \ {0}
  BY <1>2, InputFacts DEF TypeOK, Sized
<1>4. o # 0
  BY <1>2, ZeroNoObject
<1>5. PICK c \in Child : c = [obj |-> o, size |-> in.objs[o].size]
  BY <1>3 DEF Child
<1>6. /\ children' = [children EXCEPT ![u] = Append(@, c)]
      /\ queue' = queue \ {o} /\ holders' = holders
  BY <1>1, <1>5 DEF AddChild
<1>7. c.obj = o /\ c.size = in.objs[o].size
  BY <1>5
<1>8. Watermark(u) = Watermark(ut) /\ End(u) = End(ut) /\ Watermark(u) \in Nat
  BY <1>1, ChildFacts
<1>9. CoverInv'
  <2>1. Watermark(u) % c.size = 0 /\ Watermark(u) + c.size <= End(u)
    BY <1>7, <1>8
  <2>2. holders \subseteq holders' /\ (c.obj = 0 => Watermark(u) \in holders')
    BY <1>4, <1>6, <1>7
  <2>3. c.obj # 0 /\ in.objs[c.obj].paddr # 0 => Watermark(u) = in.objs[c.obj].paddr
    BY <1>7, <1>8
  <2>4. in.uts[u].device /\ c.obj # 0 => in.objs[c.obj].paddr # 0
    BY <1>1, <1>7 DEF IsDevice
  <2>. QED
    BY <1>1, <1>6, <2>1, <2>2, <2>3, <2>4, AppendCover, Zenon
<1>10. /\ children' \in [Uts -> Seq(Child)]
       /\ Watermark(u)' = Watermark(u) + c.size
  BY <1>6, AppendFacts, Zenon
<1>11. \A p \in Sized : Placed(p) => Placed(p)'
  <2>1. c.obj \in queue /\ queue' = queue \ {c.obj}
    BY <1>6, <1>7
  <2>. QED
    BY <1>6, <2>1, PlacedAfterObject, Zenon
<1>12. ut' = ut /\ Uts' = Uts /\ Objs' = Objs /\ Sized' = Sized
  BY SameGoal
<1>13. Unfun' \subseteq Unfun
  BY <1>6 DEF Unfun
<1>14. QueueInv'
  <2>1. alloc # "done" /\ alloc' # "done"
    BY DEF Active
  <2>2. alloc' \in {"tail", "rest", "fill"} => Unfun' = {}
    BY <1>13 DEF QueueInv
  <2>. QED
    BY <1>11, <1>12, <2>1, <2>2 DEF QueueInv
<1>15. Watermark(ut)' = Watermark(u)'
  BY <1>1, <1>12 DEF Watermark
<1>16. holders' \in SUBSET Nat /\ queue' \in SUBSET Sized
  BY <1>6 DEF TypeOK
<1>. QED
  BY <1>6, <1>7, <1>8, <1>9, <1>10, <1>12, <1>14, <1>15, <1>16
-----------------------------------------------------------------------------
LEMMA GoalFacts ==
    ASSUME TypeOK, Unfun # {}
    PROVE  /\ NextUnfun \in Unfun /\ NextUnfun \in queue /\ NextUnfun \in Objs
           /\ Goal.paddr \in Nat \ {0} /\ Goal.size \in Nat \ {0}
<1>1. /\ Unfun \subseteq queue /\ queue \subseteq Sized
      /\ \A o \in Sized : o \in Objs /\ in.objs[o].size \in Nat \ {0} /\ in.objs[o].paddr \in Nat
  BY InputFacts DEF TypeOK, Unfun, Sized
<1>. DEFINE T == {in.objs[o].paddr : o \in Unfun}
<1>2. T \in SUBSET Nat /\ T # {}
  BY <1>1
<1>3. PICK x \in T : \A y \in T : x <= y
  <2>. HIDE DEF T
  <2>. QED
    BY <1>2, LeastElement
<1>4. PICK o \in Unfun : x = in.objs[o].paddr
  OBVIOUS
<1>5. \A p \in Unfun : in.objs[o].paddr <= in.objs[p].paddr
  BY <1>3, <1>4
<1>6. NextUnfun \in Unfun
  BY <1>5 DEF NextUnfun
<1>. QED
  BY <1>1, <1>6 DEF Goal, Unfun

LEMMA FillFacts ==
    ASSUME TypeOK, CoverInv, FillInv, todo # 0
    PROVE  /\ alloc \in Active /\ alloc \in {"unfun", "pin", "tail", "fill"}
           /\ ut \in Uts /\ Watermark(ut) \in Nat /\ End(ut) \in Nat
           /\ Limit \in Nat /\ Limit <= End(ut)
<1>1. alloc \in Active /\ alloc \in {"unfun", "pin", "tail", "fill"}
  BY DEF FillInv, Active
<1>2. ut \in Uts
  BY <1>1, CurrentUt
<1>3. Watermark(ut) \in Nat
  BY <1>2, ChildFacts
<1>4. GoodInput(in)
  BY DEF TypeOK
<1>5. End(ut) \in Nat
  BY <1>2, <1>4, InputFacts
<1>6. CASE alloc = "pin"
  <2>1. Unfun # {} /\ Goal.paddr + Goal.size <= End(ut)
    BY <1>6 DEF FillInv
  <2>2. Goal.paddr \in Nat \ {0} /\ Goal.size \in Nat \ {0}
    BY <2>1, GoalFacts
  <2>3. Limit = Goal.paddr
    BY <1>6 DEF Limit
  <2>. QED
    BY <1>1, <1>2, <1>3, <1>5, <2>1, <2>2, <2>3
<1>7. CASE alloc # "pin"
  BY <1>1, <1>2, <1>3, <1>5, <1>7 DEF Limit
<1>. QED
  BY <1>6, <1>7

LEMMA SkipPieceInv ==
    ASSUME Inv, SkipPiece
    PROVE  Inv'
<1>1. TypeOK /\ CoverInv /\ FillInv /\ QueueInv
  BY DEF Inv
<1>2. todo \in Nat \ {0} /\ calls = <<>>
  BY <1>1 DEF SkipPiece, TypeOK
<1>3. /\ alloc \in Active /\ ut \in Uts /\ Watermark(ut) \in Nat /\ End(ut) \in Nat
      /\ Limit \in Nat /\ Limit <= End(ut)
  BY <1>1, <1>2, FillFacts
<1>4. Watermark(ut) + todo = Limit /\ left = None
  BY <1>1, <1>2 DEF FillInv
<1>5. PICK s \in Nat \ {0} : s = piece /\ s <= todo /\ Watermark(ut) % s = 0
  BY <1>2, <1>3, PieceFacts DEF piece
<1>6. /\ in' = in /\ alloc' = alloc /\ untyped' = untyped /\ ut_iter' = ut_iter
      /\ calls' = calls /\ left' = left /\ recorded' = recorded
      /\ todo' = todo - s /\ AddPlaceholder(s)
  BY <1>5 DEF SkipPiece
<1>7. Watermark(ut) + s <= End(ut)
  BY <1>2, <1>3, <1>4, <1>5
<1>8. /\ CoverInv' /\ QueueInv'
      /\ children' \in [Uts' -> Seq(Child)] /\ holders' \in SUBSET Nat
      /\ queue' = queue
      /\ Watermark(ut)' = Watermark(ut) + s
  BY <1>1, <1>3, <1>5, <1>6, <1>7, HolderAdded, Zenon
<1>9. /\ ut' = ut /\ End(ut)' = End(ut) /\ IsDevice' = IsDevice
      /\ Uts' = Uts /\ Objs' = Objs /\ Sized' = Sized
      /\ Unfun' = Unfun /\ Goal' = Goal /\ Limit' = Limit
  BY <1>6, <1>8, SameGoal
<1>10. todo' \in Nat
  BY <1>2, <1>5, <1>6
<1>11. TypeOK'
  BY <1>1, <1>6, <1>8, <1>9, <1>10 DEF TypeOK
<1>12. NothingYet'
  BY <1>3, <1>6 DEF NothingYet, Active
<1>13. FillInv'
  <2>1. Watermark(ut)' + todo' = Limit'
    BY <1>2, <1>3, <1>4, <1>5, <1>6, <1>8, <1>9
  <2>2. calls' = <<>> /\ left' = None
    BY <1>2, <1>4, <1>6
  <2>3. alloc' \in {"unfun", "pin", "tail", "fill"}
    BY <1>1, <1>2, <1>6 DEF FillInv
  <2>4. alloc' = "pin" => Unfun' # {} /\ Goal'.paddr + Goal'.size <= End(ut)'
    BY <1>1, <1>6, <1>9 DEF FillInv
  <2>. QED
    BY <2>1, <2>2, <2>3, <2>4 DEF FillInv, None
<1>. QED
  BY <1>8, <1>11, <1>12, <1>13 DEF Inv

(* Steps that move nothing. *)
LEMMA CoverSame ==
    ASSUME CoverInv, in' = in, untyped' = untyped, ut_iter' = ut_iter, alloc' = alloc,
           recorded' = recorded, children' = children, holders' = holders
    PROVE  CoverInv'
BY DEF CoverInv, UntypedsDisjoint, UntypedsAligned, CurrentKnown, LaterEmpty, RecordedEarlier,
       ChildOK, ChildFits, DeviceOnlyPinned, PlaceholderKnown, Watermark, End, ChildAddr, ut, Uts

LEMMA QueueSame ==
    ASSUME QueueInv, in' = in, queue' = queue, children' = children,
           alloc' \in Active \cup {"done"} => alloc \in Active \cup {"done"},
           alloc' \in {"tail", "rest", "fill"} => Unfun = {},
           alloc' = "done" => queue = {}
    PROVE  QueueInv'
<1>1. Uts' = Uts /\ Objs' = Objs /\ Unfun' = Unfun
  BY DEF Uts, Objs, Unfun
<1>2. Sized' = Sized /\ \A o : ChildPlaces(o)' = ChildPlaces(o)
  BY <1>1 DEF Sized, ChildPlaces
<1>3. \A o : Placed(o)' <=> Placed(o)
  BY <1>2 DEF Placed
<1>. QED
  BY <1>1, <1>2, <1>3 DEF QueueInv

LEMMA FillPieceInv ==
    ASSUME Inv, FillPiece
    PROVE  Inv'
<1>1. TypeOK /\ CoverInv /\ FillInv /\ QueueInv
  BY DEF Inv
<1>2. todo \in Nat \ {0} /\ calls = <<>> /\ ~IsDevice
  BY <1>1 DEF FillPiece, TypeOK
<1>3. /\ alloc \in Active /\ ut \in Uts /\ Watermark(ut) \in Nat /\ End(ut) \in Nat
      /\ Limit \in Nat /\ Limit <= End(ut)
  BY <1>1, <1>2, FillFacts
<1>4. Watermark(ut) + todo = Limit /\ left = None
  BY <1>1, <1>2 DEF FillInv
<1>5. PICK s \in Nat \ {0} : s = piece /\ s <= todo /\ Watermark(ut) % s = 0 /\ IsPow2(s)
  BY <1>2, <1>3, PieceFacts DEF piece
<1>6. /\ in' = in /\ alloc' = alloc /\ untyped' = untyped /\ ut_iter' = ut_iter
      /\ left' = left /\ recorded' = recorded /\ todo' = todo
      /\ queue' = queue /\ children' = children /\ holders' = holders
      /\ calls' = <<[size |-> s, first |-> None]>>
  BY <1>5 DEF FillPiece, Call
<1>9. /\ ut' = ut /\ End(ut)' = End(ut) /\ IsDevice' = IsDevice
      /\ Uts' = Uts /\ Objs' = Objs /\ Sized' = Sized
      /\ Unfun' = Unfun /\ Goal' = Goal /\ Limit' = Limit
  BY <1>6, SameGoal
<1>10. calls' \in Seq(Frame)
  <2>1. [size |-> s, first |-> None] \in Frame
    BY DEF Frame, None
  <2>. QED
    BY <1>6, <2>1
<1>11. TypeOK'
  BY <1>1, <1>6, <1>9, <1>10 DEF TypeOK
<1>12. NothingYet'
  BY <1>3, <1>6 DEF NothingYet, Active
<1>13. CoverInv' /\ QueueInv'
  <2>1. CoverInv'
    BY <1>1, <1>6, CoverSame
  <2>2. QueueInv'
    BY <1>1, <1>6, QueueSame DEF QueueInv
  <2>. QED
    BY <2>1, <2>2
<1>14. FillInv'
  <2>0. PICK S \in [1 .. 1 -> Nat] : S[1] = Watermark(ut)
    <3>. DEFINE f == [j \in 1 .. 1 |-> Watermark(ut)]
    <3>1. f \in [1 .. 1 -> Nat] /\ f[1] = Watermark(ut)
      BY <1>3
    <3>. HIDE DEF f
    <3>. QED
      BY <3>1
  <2>1. Len(calls') = 1 /\ calls' # <<>> /\ calls'[1].size = s /\ calls'[1].first = None
    BY <1>6
  <2>2. S \in [1 .. Len(calls') -> Nat] /\ S[1] = Watermark(ut)
    BY <2>0, <2>1
  <2>3. Watermark(ut)' = Watermark(ut)
    BY <1>6, <1>9 DEF Watermark
  <2>4. \A j \in 1 .. Len(calls') : Block(S, j)'
    <3>1. S[1] + s <= Limit
      BY <1>2, <1>3, <1>4, <1>5, <2>2
    <3>2. ASSUME NEW j, j = 1 PROVE Block(S, j)'
      BY <1>5, <1>9, <2>1, <2>2, <3>1, <3>2 DEF Block
    <3>. QED
      BY <2>1, <3>2
  <2>5. top' = calls'[1]
    BY <2>1 DEF top
  <2>6. Blocks(S)'
    <3>1. S[1] + todo' = Limit'
      BY <1>4, <1>6, <1>9, <2>2
    <3>2. left' \in {None, 0, top'.size} /\ (left' = None => top'.first = None)
      BY <1>4, <1>6, <2>1, <2>5
    <3>3. Watermark(ut)' = S[Len(calls')] + IF left' = 0 THEN top'.size ELSE 0
      BY <1>3, <1>4, <1>6, <2>1, <2>2, <2>3 DEF None
    <3>4. \A j \in 1 .. Len(calls') - 1 : Half(S, j)'
      BY <2>1
    <3>. QED
      BY <2>4, <3>1, <3>2, <3>3, <3>4 DEF Blocks
  <2>7. alloc' \in {"unfun", "pin", "tail", "fill"}
    BY <1>1, <1>2, <1>6 DEF FillInv
  <2>8. alloc' = "pin" => Unfun' # {} /\ Goal'.paddr + Goal'.size <= End(ut)'
    BY <1>1, <1>6, <1>9 DEF FillInv
  <2>9. todo' # 0 /\ ~IsDevice'
    BY <1>2, <1>6, <1>9
  <2>. QED
    BY <2>1, <2>2, <2>6, <2>7, <2>8, <2>9 DEF FillInv
<1>. QED
  BY <1>11, <1>12, <1>13, <1>14 DEF Inv
LEMMA StackFacts ==
    ASSUME TypeOK, CoverInv, FillInv, calls # <<>>
    PROVE  /\ Len(calls) \in Nat \ {0} /\ DOMAIN calls = 1 .. Len(calls)
           /\ todo \in Nat \ {0} /\ ~IsDevice
           /\ \A j \in 1 .. Len(calls) : calls[j] \in Frame
           /\ \A j \in 1 .. Len(calls) : calls[j].size \in Nat \ {0} /\ calls[j].first \in Int
           /\ \E S \in [1 .. Len(calls) -> Nat] : Blocks(S)
<1>1. calls \in Seq(Frame)
  BY DEF TypeOK
<1>2. /\ Len(calls) \in Nat \ {0} /\ DOMAIN calls = 1 .. Len(calls)
      /\ \A j \in 1 .. Len(calls) : calls[j] \in Frame
  BY <1>1
<1>3. \A j \in 1 .. Len(calls) : calls[j].size \in Nat \ {0} /\ calls[j].first \in Int
  BY <1>2 DEF Frame
<1>4. todo \in Nat \ {0} /\ ~IsDevice /\ \E S \in [1 .. Len(calls) -> Nat] : Blocks(S)
  BY DEF FillInv, TypeOK
<1>. QED
  BY <1>2, <1>3, <1>4

LEMMA FillKept ==
    ASSUME FillInv, in' = in, untyped' = untyped, ut_iter' = ut_iter, alloc' = alloc,
           Unfun' = Unfun, todo' = todo, todo # 0, ~IsDevice, calls' # <<>>,
           NEW S \in [1 .. Len(calls') -> Nat], Blocks(S)'
    PROVE  FillInv'
<1>1. /\ ut' = ut /\ End(ut)' = End(ut) /\ IsDevice' = IsDevice /\ Goal' = Goal
  BY SameGoal
<1>2. alloc' \in {"unfun", "pin", "tail", "fill"}
  BY DEF FillInv
<1>3. alloc' = "pin" => Unfun' # {} /\ Goal'.paddr + Goal'.size <= End(ut)'
  BY <1>1 DEF FillInv
<1>4. todo' # 0 /\ ~IsDevice'
  BY <1>1
<1>. QED
  BY <1>2, <1>3, <1>4 DEF FillInv

LEMMA NothingFitsInv ==
    ASSUME Inv, NothingFits
    PROVE  Inv'
<1>1. TypeOK /\ CoverInv /\ FillInv /\ QueueInv /\ NothingYet
  BY DEF Inv
<1>2. calls # <<>> /\ left = None /\ left' = top.size
  BY DEF NothingFits, Running
<1>3. /\ in' = in /\ alloc' = alloc /\ untyped' = untyped /\ ut_iter' = ut_iter
      /\ calls' = calls /\ recorded' = recorded /\ todo' = todo
      /\ queue' = queue /\ children' = children /\ holders' = holders
  BY DEF NothingFits
<1>4. /\ ut' = ut /\ Uts' = Uts /\ Objs' = Objs /\ Sized' = Sized
      /\ Unfun' = Unfun /\ Limit' = Limit
  BY <1>3, SameGoal
<1>5. /\ Len(calls) \in Nat \ {0} /\ todo # 0 /\ ~IsDevice
      /\ \A j \in 1 .. Len(calls) : calls[j].size \in Nat \ {0} /\ calls[j].first \in Int
  BY <1>1, <1>2, StackFacts
<1>6. PICK S \in [1 .. Len(calls) -> Nat] : Blocks(S)
  BY <1>1, <1>2, StackFacts
<1>7. top \in {calls[j] : j \in 1 .. Len(calls)} /\ top' = top
  BY <1>3, <1>5 DEF top
<1>8. top.size \in Nat \ {0}
  BY <1>5, <1>7
<1>9. Watermark(ut)' = Watermark(ut)
  BY <1>3, <1>4 DEF Watermark
<1>10. Blocks(S)'
  <2>1. \A j \in 1 .. Len(calls) : Block(S, j)'
    BY <1>3, <1>4, <1>6 DEF Blocks, Block
  <2>2. \A j \in 1 .. Len(calls) - 1 : Half(S, j)'
    BY <1>3, <1>6 DEF Blocks, Half
  <2>3. left' # None /\ left' # 0 /\ left' = top.size
    BY <1>2, <1>8 DEF None
  <2>4. Watermark(ut) = S[Len(calls)] + 0 /\ S[1] + todo = Limit
    BY <1>2, <1>6 DEF Blocks, None
  <2>. QED
    BY <1>3, <1>4, <1>7, <1>9, <2>1, <2>2, <2>3, <2>4 DEF Blocks
<1>11. FillInv'
  BY <1>1, <1>2, <1>3, <1>4, <1>5, <1>10, FillKept
<1>12. CoverInv' /\ QueueInv'
  <2>1. CoverInv'
    BY <1>1, <1>3, CoverSame
  <2>2. QueueInv'
    BY <1>1, <1>3, QueueSame DEF QueueInv
  <2>. QED
    BY <2>1, <2>2
<1>13. TypeOK'
  BY <1>1, <1>2, <1>3, <1>4, <1>8 DEF TypeOK
<1>14. NothingYet'
  BY <1>1, <1>3, <1>4 DEF NothingYet
<1>. QED
  BY <1>11, <1>12, <1>13, <1>14 DEF Inv

LEMMA ObjectFitsInv ==
    ASSUME Inv, ObjectFits
    PROVE  Inv'
<1>1. TypeOK /\ CoverInv /\ FillInv /\ QueueInv /\ NothingYet
  BY DEF Inv
<1>2. calls # <<>> /\ left = None /\ left' = 0 /\ Of(top.size) # {}
  BY DEF ObjectFits, Running
<1>3. PICK o : o = Min(Of(top.size))
  OBVIOUS
<1>4. o \in Of(top.size)
  <2>1. Of(top.size) \in SUBSET Nat
    <3>1. Objs \subseteq Nat
      BY <1>1, InputFacts DEF TypeOK
    <3>. QED
      BY <1>1, <3>1 DEF TypeOK, Of, Fun, Sized
  <2>2. \E x \in Of(top.size) : \A y \in Of(top.size) : x <= y
    BY <1>2, <2>1, LeastElement
  <2>. QED
    BY <1>3, <2>2 DEF Min
<1>5. o \in queue /\ in.objs[o].paddr = 0 /\ in.objs[o].size = top.size
  BY <1>4 DEF Of, Fun
<1>6. /\ in' = in /\ alloc' = alloc /\ untyped' = untyped /\ ut_iter' = ut_iter
      /\ calls' = calls /\ recorded' = recorded /\ todo' = todo /\ AddChild(o)
  BY <1>3 DEF ObjectFits
<1>7. /\ Len(calls) \in Nat \ {0} /\ todo # 0 /\ ~IsDevice
      /\ \A j \in 1 .. Len(calls) : calls[j].size \in Nat \ {0} /\ calls[j].first \in Int
  BY <1>1, <1>2, StackFacts
<1>8. PICK S \in [1 .. Len(calls) -> Nat] : Blocks(S)
  BY <1>1, <1>2, StackFacts
<1>9. top = calls[Len(calls)] /\ top' = top /\ top.size \in Nat \ {0} /\ Len(calls) \in 1 .. Len(calls)
  BY <1>6, <1>7 DEF top
<1>10. /\ alloc \in Active /\ Watermark(ut) \in Nat /\ End(ut) \in Nat
       /\ Limit \in Nat /\ Limit <= End(ut)
  BY <1>1, <1>7, FillFacts
<1>11. S[Len(calls)] \in Nat /\ Watermark(ut) = S[Len(calls)] + 0 /\ S[1] + todo = Limit
  BY <1>2, <1>8, <1>9 DEF Blocks, None
<1>12. Block(S, Len(calls))
  BY <1>8, <1>9 DEF Blocks
<1>13. Watermark(ut) = S[Len(calls)]
  BY <1>11
<1>14. Watermark(ut) % top.size = 0 /\ Watermark(ut) + top.size <= End(ut)
  <2>1. S[Len(calls)] % top.size = 0 /\ S[Len(calls)] + top.size <= Limit
    BY <1>9, <1>12 DEF Block
  <2>. QED
    BY <1>9, <1>10, <1>13, <2>1
<1>15. /\ CoverInv' /\ QueueInv'
       /\ children' \in [Uts' -> Seq(Child)] /\ holders' \in SUBSET Nat
       /\ queue' \in SUBSET Sized'
       /\ Watermark(ut)' = Watermark(ut) + top.size
  <2>1. /\ Watermark(ut) % in.objs[o].size = 0 /\ Watermark(ut) + in.objs[o].size <= End(ut)
        /\ in.objs[o].paddr # 0 => Watermark(ut) = in.objs[o].paddr
        /\ IsDevice => in.objs[o].paddr # 0
        /\ alloc' \in Active
        /\ alloc' \in {"unfun", "pin"} => alloc \in {"unfun", "pin"}
        /\ alloc' \in {"tail", "rest", "fill"} => alloc \in {"tail", "rest", "fill"}
    BY <1>5, <1>6, <1>7, <1>10, <1>14
  <2>2. /\ CoverInv' /\ QueueInv'
        /\ children' \in [Uts' -> Seq(Child)] /\ holders' \in SUBSET Nat
        /\ queue' \in SUBSET Sized'
        /\ Watermark(ut)' = Watermark(ut) + in.objs[o].size
    BY <1>1, <1>5, <1>6, <1>10, <2>1, ObjectAdded, Zenon
  <2>. QED
    BY <1>5, <2>2
<1>16. Unfun' = Unfun
  BY <1>5, <1>6 DEF AddChild, Unfun
<1>17. ut' = ut /\ Uts' = Uts /\ Sized' = Sized /\ Limit' = Limit
  BY <1>6, <1>16, SameGoal
<1>18. Blocks(S)'
  <2>1. \A j \in 1 .. Len(calls) : Block(S, j)'
    BY <1>6, <1>8, <1>17 DEF Blocks, Block
  <2>2. \A j \in 1 .. Len(calls) - 1 : Half(S, j)'
    BY <1>6, <1>8 DEF Blocks, Half
  <2>3. left' # None /\ left' = 0
    BY <1>2 DEF None
  <2>4. Watermark(ut)' = S[Len(calls)] + top.size
    BY <1>13, <1>15
  <2>. QED
    BY <1>6, <1>9, <1>11, <1>17, <2>1, <2>2, <2>3, <2>4 DEF Blocks
<1>19. FillInv'
  BY <1>1, <1>2, <1>6, <1>7, <1>16, <1>18, FillKept
<1>20. TypeOK'
  BY <1>1, <1>2, <1>6, <1>15, <1>17 DEF TypeOK
<1>21. NothingYet'
  BY <1>6, <1>10 DEF NothingYet, Active
<1>. QED
  BY <1>15, <1>19, <1>20, <1>21 DEF Inv
LEMMA TryHalvesInv ==
    ASSUME Inv, TryHalves
    PROVE  Inv'
<1>1. TypeOK /\ CoverInv /\ FillInv /\ QueueInv /\ NothingYet
  BY DEF Inv
<1>2. calls # <<>> /\ left = None /\ Of(top.size) = {} /\ ~BelowMin(top.size)
  BY DEF TryHalves, Running
<1>3. /\ in' = in /\ alloc' = alloc /\ untyped' = untyped /\ ut_iter' = ut_iter
      /\ left' = left /\ recorded' = recorded /\ todo' = todo
      /\ queue' = queue /\ children' = children /\ holders' = holders
  BY DEF TryHalves
<1>4. /\ ut' = ut /\ Uts' = Uts /\ Objs' = Objs /\ Sized' = Sized
      /\ Unfun' = Unfun /\ Limit' = Limit
  BY <1>3, SameGoal
<1>n. PICK n \in Nat \ {0} : n = Len(calls)
  BY <1>1, <1>2, StackFacts
<1>5. /\ n \in Nat \ {0} /\ todo # 0 /\ ~IsDevice
      /\ \A j \in 1 .. n : calls[j].size \in Nat \ {0} /\ calls[j].first \in Int
  BY <1>1, <1>2, <1>n, StackFacts
<1>6. PICK S \in [1 .. n -> Nat] : Blocks(S)
  BY <1>1, <1>2, <1>n, StackFacts
<1>7. top = calls[n] /\ top.size \in Nat \ {0} /\ n \in 1 .. n
  BY <1>5, <1>n DEF top
<1>8. top.size > 1
  <2>1. PICK o \in Fun : ~(top.size < in.objs[o].size)
    BY <1>2 DEF BelowMin
  <2>2. in.objs[o].size # top.size
    BY <1>2, <2>1 DEF Of
  <2>3. in.objs[o].size \in Nat \ {0}
    <3>1. o \in Sized
      BY <1>1, <2>1 DEF Fun, TypeOK
    <3>. QED
      BY <1>1, <3>1, InputFacts DEF TypeOK, Sized
  <2>. QED
    BY <1>7, <2>1, <2>2, <2>3
<1>9. Block(S, n)
  BY <1>6, <1>7, <1>n DEF Blocks
<1>10. PICK h \in Nat \ {0} : h = top.size \div 2 /\ top.size = 2 * h /\ IsPow2(h)
  BY <1>7, <1>8, <1>9, Pow2Half DEF Block
<1>11. calls' = Append(calls, [size |-> h, first |-> None])
  BY <1>10 DEF TryHalves, Call
<1>12. calls \in Seq(Frame) /\ [size |-> h, first |-> None] \in Frame
  BY <1>1 DEF TypeOK, Frame, None
<1>13. /\ calls' \in Seq(Frame) /\ Len(calls') = n + 1 /\ calls' # <<>>
       /\ \A j \in 1 .. n : calls'[j] = calls[j]
       /\ calls'[n + 1] = [size |-> h, first |-> None]
  <2>. DEFINE c == [size |-> h, first |-> None]
  <2>. HIDE DEF c
  <2>1. calls' = Append(calls, c) /\ c \in Frame
    BY <1>11, <1>12 DEF c
  <2>2. /\ calls' \in Seq(Frame) /\ Len(calls') = n + 1 /\ calls' # <<>>
        /\ \A j \in 1 .. n : calls'[j] = calls[j]
        /\ calls'[n + 1] = c
    BY <1>12, <1>n, <2>1
  <2>. QED
    BY <2>2 DEF c
<1>14. Watermark(ut) = S[n] + 0 /\ S[1] + todo = Limit /\ S[n] \in Nat /\ calls[n].first = None
  BY <1>2, <1>6, <1>7, <1>n DEF Blocks, None
<1>15. PICK U \in [1 .. n + 1 -> Nat] : (\A j \in 1 .. n : U[j] = S[j]) /\ U[n + 1] = S[n]
  <2>. DEFINE f == [j \in 1 .. n + 1 |-> IF j <= n THEN S[j] ELSE S[n]]
  <2>1. f \in [1 .. n + 1 -> Nat] /\ (\A j \in 1 .. n : f[j] = S[j]) /\ f[n + 1] = S[n]
    BY <1>5, <1>14
  <2>. HIDE DEF f
  <2>. QED
    BY <2>1
<1>16. Limit \in Nat
  BY <1>1, <1>5, FillFacts
<1>17. ASSUME NEW j \in 1 .. n + 1 PROVE Block(U, j)'
  <2>1. CASE j # n + 1
    <3>1. j \in 1 .. n
      BY <1>5, <2>1
    <3>2. Block(S, j)
      BY <1>6, <1>n, <3>1 DEF Blocks
    <3>. QED
      BY <1>4, <1>13, <1>15, <3>1, <3>2 DEF Block
  <2>2. CASE j = n + 1
    <3>1. S[n] % (2 * h) = 0 /\ S[n] + 2 * h <= Limit
      BY <1>7, <1>9, <1>10 DEF Block
    <3>2. S[n] % h = 0
      <4>1. S[n] \in Int /\ 2 \in Nat \ {0}
        BY <1>14
      <4>. QED
        BY <3>1, <4>1, ModDivisor, Zenon
    <3>3. S[n] + h <= Limit
      BY <1>14, <1>16, <3>1
    <3>4. calls'[j].size = h /\ U[j] = S[n]
      BY <1>13, <1>15, <2>2
    <3>. QED
      BY <1>4, <1>10, <3>2, <3>3, <3>4 DEF Block
  <2>. QED
    BY <2>1, <2>2
<1>18. ASSUME NEW j \in 1 .. n PROVE Half(U, j)'
  <2>1. CASE j # n
    <3>1. j \in 1 .. n - 1 /\ j \in 1 .. n /\ j + 1 \in 1 .. n
      BY <1>5, <2>1
    <3>2. Half(S, j)
      BY <1>6, <1>n, <3>1 DEF Blocks
    <3>. QED
      BY <1>13, <1>15, <3>1, <3>2 DEF Half
  <2>2. CASE j = n
    <3>1. calls'[j].size = 2 * h /\ calls'[j].first = None /\ calls'[j + 1].size = h
      <4>1. calls'[n] = calls[n] /\ calls[n].size = 2 * h /\ calls[n].first = None
        BY <1>7, <1>10, <1>13, <1>14
      <4>2. calls'[n + 1].size = h
        BY <1>13
      <4>. QED
        BY <2>2, <4>1, <4>2
    <3>2. U[j + 1] = U[j] + 0
      BY <1>7, <1>14, <1>15, <2>2
    <3>. QED
      BY <3>1, <3>2 DEF Half, None
  <2>. QED
    BY <2>1, <2>2
<1>19. Blocks(U)'
  <2>1. top' = calls'[n + 1] /\ top'.first = None
    BY <1>13 DEF top
  <2>2. Watermark(ut)' = Watermark(ut)
    BY <1>3, <1>4 DEF Watermark
  <2>3. Watermark(ut)' = U[n + 1] + 0
    BY <1>14, <1>15, <2>2
  <2>4. U[1] = S[1]
    BY <1>5, <1>15
  <2>5. left' = None /\ left' # 0
    BY <1>2, <1>3 DEF None
  <2>6. (n + 1) - 1 = n
    BY <1>5
  <2>. QED
    BY <1>3, <1>4, <1>13, <1>14, <1>17, <1>18, <2>1, <2>3, <2>4, <2>5, <2>6 DEF Blocks
<1>20. FillInv'
  BY <1>1, <1>3, <1>4, <1>5, <1>13, <1>19, FillKept
<1>21. CoverInv' /\ QueueInv'
  <2>1. CoverInv'
    BY <1>1, <1>3, CoverSame
  <2>2. QueueInv'
    BY <1>1, <1>3, QueueSame DEF QueueInv
  <2>. QED
    BY <2>1, <2>2
<1>22. TypeOK'
  BY <1>1, <1>3, <1>4, <1>13 DEF TypeOK
<1>23. NothingYet'
  BY <1>1, <1>3, <1>4 DEF NothingYet
<1>. QED
  BY <1>20, <1>21, <1>22, <1>23 DEF Inv

LEMMA SecondHalfInv ==
    ASSUME Inv, SecondHalf
    PROVE  Inv'
<1>1. TypeOK /\ CoverInv /\ FillInv /\ QueueInv /\ NothingYet
  BY DEF Inv
<1>n. PICK n \in Nat, k \in Nat \ {0} : n = Len(calls) /\ n = k + 1 /\ k = Len(calls) - 1 /\ n # k
  <2>1. calls \in Seq(Frame) /\ Len(calls) > 1
    BY <1>1 DEF TypeOK, SecondHalf
  <2>2. Len(calls) \in Nat
    BY <2>1
  <2>. QED
    BY <2>1, <2>2
<1>2. left # None /\ calls[k].first = None /\ left' = None /\ Len(calls) # 0
  BY <1>n DEF SecondHalf, caller
<1>3. /\ in' = in /\ alloc' = alloc /\ untyped' = untyped /\ ut_iter' = ut_iter
      /\ recorded' = recorded /\ todo' = todo
      /\ queue' = queue /\ children' = children /\ holders' = holders
  BY DEF SecondHalf
<1>4. /\ ut' = ut /\ Uts' = Uts /\ Objs' = Objs /\ Sized' = Sized
      /\ Unfun' = Unfun /\ Limit' = Limit
  BY <1>3, SameGoal
<1>5. calls # <<>> /\ calls \in Seq(Frame)
  BY <1>1, <1>2 DEF TypeOK
<1>6. /\ n \in Nat \ {0} /\ todo # 0 /\ ~IsDevice /\ DOMAIN calls = 1 .. n
      /\ \A j \in 1 .. n : calls[j].size \in Nat \ {0} /\ calls[j].first \in Int
      /\ \A j \in 1 .. n : calls[j] \in Frame
  BY <1>1, <1>5, <1>n, StackFacts
<1>7. PICK S \in [1 .. n -> Nat] : Blocks(S)
  BY <1>1, <1>5, <1>n, StackFacts
<1>8. n \in 1 .. n /\ k \in 1 .. n /\ k \in 1 .. k /\ k + 1 = n /\ k # n
  BY <1>n
<1>9. Half(S, k) /\ Block(S, n) /\ Block(S, k)
  BY <1>7, <1>8, <1>n DEF Blocks
<1>10. PICK h \in Nat \ {0} : h = calls[n].size /\ calls[k].size = 2 * h /\ IsPow2(h)
  BY <1>6, <1>8, <1>9 DEF Half, Block
<1>11. PICK l \in {0, h} : l = left
  BY <1>2, <1>7, <1>10, <1>n DEF Blocks, top
<1>12. S[n] = S[k] /\ S[k] \in Nat
  <2>1. S[n] = S[k] + 0
    BY <1>2, <1>8, <1>9 DEF Half, None
  <2>. QED
    BY <1>8, <2>1
<1>13. Watermark(ut) = S[n] + (IF l = 0 THEN h ELSE 0) /\ S[1] + todo = Limit
  BY <1>7, <1>10, <1>11, <1>n DEF Blocks, top
<1>14. /\ calls' \in Seq(Frame) /\ Len(calls') = n
       /\ \A j \in 1 .. n : j # n /\ j # k => calls'[j] = calls[j]
       /\ calls'[k].size = 2 * h /\ calls'[k].first = l
       /\ calls'[n].size = h /\ calls'[n].first = None
  <2>. DEFINE a == [calls[k] EXCEPT !.first = left]
              b == Call(calls[n].size)
              c1 == [calls EXCEPT ![k] = a]
  <2>1. a \in Frame /\ a.size = 2 * h /\ a.first = l
    <3>1. calls[k] \in Frame
      BY <1>6, <1>8
    <3>. QED
      BY <1>1, <1>10, <1>11, <3>1 DEF TypeOK, Frame
  <2>2. b \in Frame /\ b.size = h /\ b.first = None
    BY <1>10 DEF Call, Frame, None
  <2>3. calls' = [c1 EXCEPT ![n] = b]
    <3>1. calls' = [calls EXCEPT ![k].first = left, ![n] = b]
      BY <1>n DEF SecondHalf, top
    <3>. QED
      BY <3>1
  <2>. HIDE DEF a, b
  <2>4. c1 \in [1 .. n -> Frame]
    BY <1>6, <2>1
  <2>8. calls' \in [1 .. n -> Frame]
    BY <2>2, <2>3, <2>4
  <2>5. calls' \in Seq(Frame) /\ Len(calls') = n
    BY <2>8
  <2>6. \A j \in 1 .. n : c1[j] = IF j = k THEN a ELSE calls[j]
    BY <1>6
  <2>7. \A j \in 1 .. n : calls'[j] = IF j = n THEN b ELSE c1[j]
    BY <1>6, <2>3
  <2>. QED
    BY <1>8, <2>1, <2>2, <2>5, <2>6, <2>7, SMTT(60)
<1>15. PICK U \in [1 .. n -> Nat] : /\ \A j \in 1 .. k : U[j] = S[j]
                                    /\ U[n] = S[k] + (IF l = 0 THEN h ELSE 0)
  <2>. DEFINE f == [j \in 1 .. n |-> IF j # n THEN S[j] ELSE S[k] + (IF l = 0 THEN h ELSE 0)]
  <2>0. S[k] + (IF l = 0 THEN h ELSE 0) \in Nat /\ \A j \in 1 .. k : j \in 1 .. n /\ j # n
    BY <1>n, <1>12
  <2>1. /\ f \in [1 .. n -> Nat] /\ (\A j \in 1 .. k : f[j] = S[j])
        /\ f[n] = S[k] + (IF l = 0 THEN h ELSE 0)
    BY <1>8, <2>0
  <2>. HIDE DEF f
  <2>. QED
    BY <2>1
<1>16. Limit \in Nat
  BY <1>1, <1>6, FillFacts
<1>17. ASSUME NEW j \in 1 .. n PROVE Block(U, j)'
  <2>1. CASE j # n
    <3>1. j \in 1 .. k
      BY <1>n, <2>1
    <3>2. Block(S, j)
      BY <1>7, <1>n DEF Blocks
    <3>3. calls'[j].size = calls[j].size
      BY <1>10, <1>14, <2>1
    <3>. QED
      BY <1>4, <1>15, <3>1, <3>2, <3>3 DEF Block
  <2>2. CASE j = n
    <3>1. S[k] % (2 * h) = 0 /\ S[k] + 2 * h <= Limit
      BY <1>9, <1>10 DEF Block
    <3>2. S[k] \in Int /\ 2 \in Nat \ {0} /\ h \in Int
      BY <1>12
    <3>3. S[k] % h = 0 /\ h % h = 0
      BY <3>1, <3>2, ModDivisor, ModSelf, Zenon
    <3>4. (S[k] + h) % h = 0
      BY <3>2, <3>3, ModSum, Zenon
    <3>5. U[n] % h = 0
      <4>1. CASE l = 0
        BY <1>15, <3>4, <4>1
      <4>2. CASE l # 0
        BY <1>12, <1>15, <3>3, <4>2
      <4>. QED
        BY <4>1, <4>2
    <3>6. U[n] + h <= Limit
      BY <1>12, <1>15, <1>16, <3>1
    <3>. QED
      BY <1>4, <1>10, <1>14, <2>2, <3>5, <3>6 DEF Block
  <2>. QED
    BY <2>1, <2>2
<1>18. ASSUME NEW j \in 1 .. k PROVE Half(U, j)'
  <2>1. CASE j # k
    <3>1. j \in 1 .. n /\ j + 1 \in 1 .. k /\ j # n /\ j + 1 # n /\ j + 1 \in 1 .. n
      BY <1>n, <2>1
    <3>2. Half(S, j)
      BY <1>7, <1>n DEF Blocks
    <3>3. calls'[j] = calls[j] /\ calls'[j + 1].size = calls[j + 1].size
      BY <1>10, <1>14, <2>1, <3>1
    <3>. QED
      BY <1>15, <3>1, <3>2, <3>3 DEF Half
  <2>2. CASE j = k
    <3>1. j + 1 = n /\ U[j] = S[k]
      BY <1>8, <1>15, <2>2
    <3>. QED
      BY <1>11, <1>14, <1>15, <2>2, <3>1 DEF Half
  <2>. QED
    BY <2>1, <2>2
<1>19. Blocks(U)'
  <2>1. top' = calls'[n] /\ top'.first = None
    BY <1>14, <1>n DEF top
  <2>2. Watermark(ut)' = Watermark(ut)
    BY <1>3, <1>4 DEF Watermark
  <2>3. Watermark(ut)' = U[n] + 0
    BY <1>8, <1>12, <1>13, <1>15, <2>2
  <2>4. U[1] = S[1]
    BY <1>n, <1>15
  <2>5. left' = None /\ left' # 0
    BY <1>2 DEF None
  <2>. QED
    BY <1>3, <1>4, <1>n, <1>13, <1>14, <1>17, <1>18, <2>1, <2>3, <2>4, <2>5 DEF Blocks
<1>20. FillInv'
  <2>1. calls' # <<>>
    BY <1>6, <1>14
  <2>. QED
    BY <1>1, <1>3, <1>4, <1>6, <1>14, <1>19, <2>1, FillKept
<1>21. CoverInv' /\ QueueInv'
  <2>1. CoverInv'
    BY <1>1, <1>3, CoverSame
  <2>2. QueueInv'
    BY <1>1, <1>3, QueueSame DEF QueueInv
  <2>. QED
    BY <2>1, <2>2
<1>22. TypeOK'
  <2>1. left' \in Int
    BY <1>2 DEF None
  <2>. QED
    BY <1>1, <1>3, <1>4, <1>14, <2>1 DEF TypeOK
<1>23. NothingYet'
  BY <1>1, <1>3, <1>4 DEF NothingYet
<1>. QED
  BY <1>20, <1>21, <1>22, <1>23 DEF Inv
(* The block of the caller, when both halves have returned. *)
LEMMA BothHalvesInv ==
    ASSUME Inv, BothHalves
    PROVE  Inv'
<1>1. TypeOK /\ CoverInv /\ FillInv /\ QueueInv /\ NothingYet
  BY DEF Inv
<1>n. PICK n \in Nat, k \in Nat \ {0} : n = Len(calls) /\ n = k + 1 /\ k = Len(calls) - 1 /\ n # k
  <2>1. calls \in Seq(Frame) /\ Len(calls) > 1
    BY <1>1 DEF TypeOK, BothHalves
  <2>2. Len(calls) \in Nat
    BY <2>1
  <2>. QED
    BY <2>1, <2>2
<1>2. left # None /\ calls[k].first # None /\ Len(calls) # 0
  BY <1>n DEF BothHalves, caller
<1>3. /\ in' = in /\ alloc' = alloc /\ untyped' = untyped /\ ut_iter' = ut_iter
      /\ recorded' = recorded /\ todo' = todo
  BY DEF BothHalves
<1>5. calls # <<>> /\ calls \in Seq(Frame)
  BY <1>1, <1>2 DEF TypeOK
<1>6. /\ todo # 0 /\ ~IsDevice
      /\ \A j \in 1 .. n : calls[j].size \in Nat \ {0} /\ calls[j].first \in Int
  BY <1>1, <1>5, <1>n, StackFacts
<1>7. PICK S \in [1 .. n -> Nat] : Blocks(S)
  BY <1>1, <1>5, <1>n, StackFacts
<1>8. n \in 1 .. n /\ k \in 1 .. n /\ k \in 1 .. k /\ k + 1 = n
  BY <1>n
<1>9. Half(S, k) /\ Block(S, n) /\ Block(S, k)
  BY <1>7, <1>8, <1>n DEF Blocks
<1>10. PICK h \in Nat \ {0} : h = calls[n].size /\ calls[k].size = 2 * h /\ h = top.size
  BY <1>6, <1>8, <1>9, <1>n DEF Half, Block, top
<1>11. PICK l \in {0, h}, f \in {0, h} : l = left /\ f = calls[k].first
  <2>1. left \in {0, h}
    BY <1>2, <1>7, <1>10, <1>n DEF Blocks
  <2>2. calls[k].first \in {0, h}
    BY <1>2, <1>8, <1>9, <1>10 DEF Half
  <2>. QED
    BY <2>1, <2>2
<1>12. /\ S[k] \in Nat /\ S[n] \in Nat /\ S[1] + todo = Limit
       /\ S[n] = S[k] + (IF f = 0 THEN h ELSE 0)
       /\ Watermark(ut) = S[n] + (IF l = 0 THEN h ELSE 0)
  <2>1. S[n] = S[k] + (IF f = 0 THEN h ELSE 0)
    BY <1>8, <1>9, <1>10, <1>11 DEF Half
  <2>2. Watermark(ut) = S[n] + (IF l = 0 THEN h ELSE 0) /\ S[1] + todo = Limit
    BY <1>7, <1>10, <1>11, <1>n DEF Blocks
  <2>3. S[k] \in Nat /\ S[n] \in Nat
    BY <1>8
  <2>. QED
    BY <2>1, <2>2, <2>3
<1>13. S[k] % (2 * h) = 0 /\ S[k] + 2 * h <= Limit
  BY <1>9, <1>10 DEF Block
<1>14. /\ alloc \in Active /\ Watermark(ut) \in Nat /\ End(ut) \in Nat
       /\ Limit \in Nat /\ Limit <= End(ut)
  BY <1>1, <1>6, FillFacts
<1>15. /\ calls' \in Seq(Frame) /\ Len(calls') = k /\ calls' # <<>>
       /\ \A j \in 1 .. k : calls'[j] = calls[j]
  <2>1. calls' = SubSeq(calls, 1, k)
    BY <1>n DEF BothHalves, Front
  <2>. QED
    BY <1>5, <1>n, <2>1
<1>16. PICK U \in [1 .. k -> Nat] : \A j \in 1 .. k : U[j] = S[j]
  <2>. DEFINE g == [j \in 1 .. k |-> S[j]]
  <2>1. g \in [1 .. k -> Nat] /\ \A j \in 1 .. k : g[j] = S[j]
    BY <1>n
  <2>. HIDE DEF g
  <2>. QED
    BY <2>1
<1>17. top' = calls[k] /\ top'.size = 2 * h
  BY <1>8, <1>10, <1>15 DEF top
<1>18. /\ CoverInv' /\ QueueInv'
       /\ children' \in [Uts' -> Seq(Child)] /\ holders' \in SUBSET Nat /\ queue' = queue
       /\ left' \in {0, 2 * h}
       /\ Watermark(ut)' = S[k] + IF left' = 0 THEN 2 * h ELSE 0
  <2>1. CASE caller.first = left /\ left' = caller.first + left /\ AddNothing
    <3>1. f = l /\ left' = f + l
      BY <1>11, <1>n, <2>1 DEF caller
    <3>2. queue' = queue /\ children' = children /\ holders' = holders
      BY <2>1 DEF AddNothing
    <3>3. CoverInv'
      BY <1>1, <1>3, <3>2, CoverSame
    <3>4. QueueInv'
      BY <1>1, <1>3, <3>2, QueueSame DEF QueueInv
    <3>5. Uts' = Uts /\ ut' = ut
      BY <1>3, SameGoal
    <3>6. Watermark(ut)' = Watermark(ut)
      BY <1>3, <3>2, <3>5 DEF Watermark
    <3>7. left' \in {0, 2 * h} /\ Watermark(ut)' = S[k] + IF left' = 0 THEN 2 * h ELSE 0
      BY <1>12, <3>1, <3>6
    <3>8. children' \in [Uts' -> Seq(Child)] /\ holders' \in SUBSET Nat
      BY <1>1, <3>2, <3>5 DEF TypeOK
    <3>. QED
      BY <3>2, <3>3, <3>4, <3>7, <3>8
  <2>2. CASE caller.first # left /\ left' = 0 /\ AddPlaceholder(top.size)
    <3>1. f # l /\ AddPlaceholder(h)
      BY <1>10, <1>11, <1>n, <2>2 DEF caller
    <3>2. Watermark(ut) = S[k] + h
      BY <1>12, <3>1
    <3>3. S[k] \in Int /\ 2 \in Nat \ {0} /\ h \in Int
      BY <1>12
    <3>4. S[k] % h = 0 /\ h % h = 0
      BY <1>13, <3>3, ModDivisor, ModSelf, Zenon
    <3>5. (S[k] + h) % h = 0
      BY <3>3, <3>4, ModSum, Zenon
    <3>6. Watermark(ut) % h = 0 /\ Watermark(ut) + h <= End(ut)
      BY <1>12, <1>13, <1>14, <3>2, <3>5, SMTT(30)
    <3>7. /\ CoverInv' /\ QueueInv'
          /\ children' \in [Uts' -> Seq(Child)] /\ holders' \in SUBSET Nat
          /\ queue' = queue
          /\ Watermark(ut)' = Watermark(ut) + h
      BY <1>1, <1>3, <1>14, <3>1, <3>6, HolderAdded, Zenon
    <3>8. Watermark(ut)' = S[k] + 2 * h
      BY <1>12, <3>2, <3>7
    <3>. QED
      BY <2>2, <3>7, <3>8
  <2>. QED
    BY <2>1, <2>2 DEF BothHalves
<1>4. /\ ut' = ut /\ Uts' = Uts /\ Objs' = Objs /\ Sized' = Sized
      /\ Unfun' = Unfun /\ Limit' = Limit
  BY <1>3, <1>18, SameGoal
<1>19. Blocks(U)'
  <2>1. ASSUME NEW j \in 1 .. k PROVE Block(U, j)'
    <3>1. j \in 1 .. n /\ Block(S, j)
      BY <1>7, <1>n DEF Blocks
    <3>. QED
      BY <1>4, <1>15, <1>16, <3>1 DEF Block
  <2>2. ASSUME NEW j \in 1 .. k - 1 PROVE Half(U, j)'
    <3>1. j \in 1 .. k /\ j + 1 \in 1 .. k
      OBVIOUS
    <3>2. Half(S, j)
      BY <1>7, <1>n DEF Blocks
    <3>. QED
      BY <1>15, <1>16, <3>1, <3>2 DEF Half
  <2>3. left' \in {None, 0, top'.size} /\ left' # None
    BY <1>17, <1>18 DEF None
  <2>4. Watermark(ut)' = U[k] + IF left' = 0 THEN top'.size ELSE 0
    BY <1>8, <1>16, <1>17, <1>18
  <2>5. U[1] + todo' = Limit'
    <3>1. 1 \in 1 .. k
      BY <1>n
    <3>. QED
      BY <1>3, <1>4, <1>12, <1>16, <3>1
  <2>. QED
    BY <1>15, <2>1, <2>2, <2>3, <2>4, <2>5 DEF Blocks
<1>20. FillInv'
  BY <1>1, <1>3, <1>4, <1>6, <1>15, <1>19, FillKept
<1>22. TypeOK'
  <2>1. left' \in Int
    BY <1>18
  <2>. QED
    BY <1>1, <1>3, <1>4, <1>15, <1>18, <2>1 DEF TypeOK
<1>23. NothingYet'
  BY <1>3, <1>14 DEF NothingYet, Active
<1>. QED
  BY <1>18, <1>20, <1>22, <1>23 DEF Inv

LEMMA PieceDoneInv ==
    ASSUME Inv, PieceDone
    PROVE  Inv'
<1>1. TypeOK /\ CoverInv /\ FillInv /\ QueueInv /\ NothingYet
  BY DEF Inv
<1>2. Len(calls) = 1 /\ left # None /\ calls' = <<>> /\ left' = None /\ todo' = todo - top.size
  BY DEF PieceDone
<1>3. /\ in' = in /\ alloc' = alloc /\ untyped' = untyped /\ ut_iter' = ut_iter
      /\ recorded' = recorded
  BY DEF PieceDone
<1>5. calls # <<>> /\ calls \in Seq(Frame)
  <2>1. calls = <<>> => Len(calls) = 0
    OBVIOUS
  <2>. QED
    BY <1>1, <1>2, <2>1 DEF TypeOK
<1>6. /\ todo \in Nat \ {0} /\ ~IsDevice
      /\ \A j \in 1 .. 1 : calls[j].size \in Nat \ {0} /\ calls[j].first \in Int
  BY <1>1, <1>2, <1>5, StackFacts
<1>7. PICK S \in [1 .. 1 -> Nat] : Blocks(S)
  BY <1>1, <1>2, <1>5, StackFacts
<1>8. 1 \in 1 .. 1 /\ Block(S, 1)
  BY <1>2, <1>7 DEF Blocks
<1>9. PICK s \in Nat \ {0} : s = top.size /\ s = calls[1].size
  BY <1>2, <1>6 DEF top
<1>10. /\ left \in {0, s} /\ S[1] \in Nat /\ S[1] + todo = Limit
       /\ Watermark(ut) = S[1] + (IF left = 0 THEN s ELSE 0)
  BY <1>2, <1>7, <1>9 DEF Blocks
<1>11. S[1] % s = 0 /\ S[1] + s <= Limit
  BY <1>8, <1>9 DEF Block
<1>12. /\ alloc \in Active /\ alloc \in {"unfun", "pin", "tail", "fill"}
       /\ Watermark(ut) \in Nat /\ End(ut) \in Nat
       /\ Limit \in Nat /\ Limit <= End(ut)
  BY <1>1, <1>6, FillFacts
<1>13. /\ CoverInv' /\ QueueInv'
       /\ children' \in [Uts' -> Seq(Child)] /\ holders' \in SUBSET Nat /\ queue' = queue
       /\ Watermark(ut)' = S[1] + s
  <2>1. CASE left = top.size /\ AddPlaceholder(top.size)
    <3>1. Watermark(ut) = S[1] /\ AddPlaceholder(s)
      <4>1. left # 0
        BY <1>9, <2>1
      <4>2. Watermark(ut) = S[1] + 0
        BY <1>10, <4>1
      <4>3. AddPlaceholder(s)
        BY <1>9, <2>1
      <4>. QED
        BY <1>10, <4>2, <4>3
    <3>2. Watermark(ut) % s = 0 /\ Watermark(ut) + s <= End(ut)
      <4>1. Watermark(ut) % s = 0
        BY <1>11, <3>1
      <4>2. Watermark(ut) + s <= End(ut)
        BY <1>10, <1>11, <1>12, <3>1
      <4>. QED
        BY <4>1, <4>2
    <3>3. /\ CoverInv' /\ QueueInv'
          /\ children' \in [Uts' -> Seq(Child)] /\ holders' \in SUBSET Nat
          /\ queue' = queue
          /\ Watermark(ut)' = Watermark(ut) + s
      BY <1>1, <1>3, <1>12, <3>1, <3>2, HolderAdded, Zenon
    <3>. QED
      BY <3>1, <3>3
  <2>2. CASE left # top.size /\ AddNothing
    <3>1. queue' = queue /\ children' = children /\ holders' = holders
      BY <2>2 DEF AddNothing
    <3>2. CoverInv'
      BY <1>1, <1>3, <3>1, CoverSame
    <3>3. QueueInv'
      BY <1>1, <1>3, <3>1, QueueSame DEF QueueInv
    <3>4. Uts' = Uts /\ ut' = ut
      BY <1>3, SameGoal
    <3>5. Watermark(ut)' = Watermark(ut)
      BY <1>3, <3>1, <3>4 DEF Watermark
    <3>6. Watermark(ut)' = S[1] + s
      BY <1>9, <1>10, <2>2, <3>5
    <3>7. children' \in [Uts' -> Seq(Child)] /\ holders' \in SUBSET Nat
      BY <1>1, <3>1, <3>4 DEF TypeOK
    <3>. QED
      BY <3>1, <3>2, <3>3, <3>6, <3>7
  <2>. QED
    BY <2>1, <2>2 DEF PieceDone
<1>4. /\ ut' = ut /\ End(ut)' = End(ut) /\ Uts' = Uts /\ Objs' = Objs /\ Sized' = Sized
      /\ Unfun' = Unfun /\ Limit' = Limit /\ Goal' = Goal
  BY <1>3, <1>13, SameGoal
<1>14. todo' \in Nat
  BY <1>2, <1>6, <1>9, <1>10, <1>11, <1>12
<1>15. FillInv'
  <2>1. Watermark(ut)' + todo' = Limit'
    BY <1>2, <1>4, <1>6, <1>9, <1>10, <1>12, <1>13
  <2>2. alloc' = "pin" => Unfun' # {} /\ Goal'.paddr + Goal'.size <= End(ut)'
    BY <1>1, <1>3, <1>4 DEF FillInv
  <2>. QED
    BY <1>2, <1>3, <1>12, <2>1, <2>2 DEF FillInv
<1>16. TypeOK'
  <2>1. left' \in Int
    BY <1>2 DEF None
  <2>2. calls' \in Seq(Frame)
    BY <1>2
  <2>. QED
    BY <1>1, <1>3, <1>4, <1>13, <1>14, <2>1, <2>2 DEF TypeOK
<1>17. NothingYet'
  BY <1>3, <1>12 DEF NothingYet, Active
<1>. QED
  BY <1>13, <1>15, <1>16, <1>17 DEF Inv
-----------------------------------------------------------------------------
LEMMA RaiseInv ==
    ASSUME Inv, NEW why \in Ends, Raise(why), todo = 0,
           why = "done" => queue = {} /\ (alloc \in Active \/ Objs = {})
    PROVE  Inv'
<1>1. TypeOK /\ CoverInv /\ FillInv /\ QueueInv /\ NothingYet
  BY DEF Inv
<1>2. /\ alloc' = why /\ in' = in /\ untyped' = untyped /\ ut_iter' = ut_iter
      /\ todo' = todo /\ calls' = calls /\ left' = left
      /\ queue' = queue /\ children' = children /\ recorded' = recorded /\ holders' = holders
  BY DEF Raise, fillVars
<1>3. why \notin Active /\ why # "add" /\ why \notin {"unfun", "pin", "tail", "rest", "fill"}
  BY DEF Active, Ends
<1>4. TypeOK'
  BY <1>1, <1>2, <1>3 DEF TypeOK, Uts, Sized, Objs
<1>5. CoverInv'
  <2>1. CurrentKnown' /\ LaterEmpty' /\ RecordedEarlier'
    BY <1>2, <1>3 DEF CurrentKnown, LaterEmpty, RecordedEarlier
  <2>2. UntypedsDisjoint' /\ UntypedsAligned' /\ (\A u \in Uts : Watermark(u) <= End(u))'
    BY <1>1, <1>2 DEF CoverInv, UntypedsDisjoint, UntypedsAligned, Watermark, End, Uts
  <2>3. (\A u \in Uts : \A k \in DOMAIN children[u] : ChildOK(u, k))'
    BY <1>1, <1>2 DEF CoverInv, ChildOK, ChildFits, DeviceOnlyPinned, PlaceholderKnown, ChildAddr,
       End, Uts
  <2>. QED
    BY <2>1, <2>2, <2>3 DEF CoverInv
<1>6. FillInv'
  <2>1. calls = <<>> /\ left = None
    BY <1>1 DEF FillInv
  <2>. QED
    BY <1>2, <1>3, <2>1 DEF FillInv
<1>7. QueueInv'
  <2>1. \A o : Placed(o)' <=> Placed(o)
    <3>1. \A o : ChildPlaces(o)' = ChildPlaces(o)
      BY <1>2 DEF ChildPlaces, Uts
    <3>. QED
      BY <1>2, <3>1 DEF Placed
  <2>2. Objs' = Objs /\ Sized' = Sized
    BY <1>2 DEF Objs, Sized
  <2>3. ASSUME alloc' \in Active \cup {"done"}, Objs # {} PROVE \A o \in Sized : Placed(o)
    BY <1>1, <1>2, <1>3, <2>3 DEF QueueInv
  <2>. QED
    BY <1>2, <1>3, <2>1, <2>2, <2>3 DEF QueueInv
<1>8. NothingYet'
  BY <1>2, <1>3 DEF NothingYet
<1>. QED
  BY <1>4, <1>5, <1>6, <1>7, <1>8 DEF Inv

(* t is s with x inserted after position i. *)
Inserted(t, s, i, x) ==
    /\ Len(t) = Len(s) + 1
    /\ \A k \in 1 .. i : t[k] = s[k]
    /\ t[i + 1] = x
    /\ \A k \in i + 2 .. Len(s) + 1 : t[k] = s[k - 1]

LEMMA InsertFacts ==
    ASSUME NEW R, NEW s \in Seq(R), NEW x \in R, NEW i \in 0 .. Len(s)
    PROVE  /\ InsertAt(s, i + 1, x) \in Seq(R)
           /\ Inserted(InsertAt(s, i + 1, x), s, i, x)
<1>. DEFINE n == Len(s)
            a == SubSeq(s, 1, i)
            b == SubSeq(s, i + 1, n)
<1>1. n \in Nat /\ i \in Nat /\ i <= n
  OBVIOUS
<1>2. a \in Seq(R) /\ Len(a) = i /\ \A k \in 1 .. i : a[k] = s[k]
  OBVIOUS
<1>3. b \in Seq(R) /\ Len(b) = n - i /\ \A k \in 1 .. n - i : b[k] = s[i + k]
  BY <1>1
<1>4. InsertAt(s, i + 1, x) = (a \o <<x>>) \o b
  <2>1. (i + 1) - 1 = i
    BY <1>1
  <2>. QED
    BY <2>1 DEF InsertAt
<1>. HIDE DEF a, b, n
<1>5. /\ a \o <<x>> \in Seq(R) /\ Len(a \o <<x>>) = i + 1
      /\ \A k \in 1 .. i : (a \o <<x>>)[k] = a[k]
      /\ (a \o <<x>>)[i + 1] = x
  BY <1>1, <1>2
<1>. DEFINE c == a \o <<x>>
<1>. HIDE DEF c
<1>6. /\ c \o b \in Seq(R) /\ Len(c \o b) = n + 1
      /\ \A k \in 1 .. i + 1 : (c \o b)[k] = c[k]
      /\ \A k \in i + 2 .. n + 1 : (c \o b)[k] = b[k - (i + 1)]
  <2>1. c \in Seq(R) /\ Len(c) = i + 1 /\ b \in Seq(R) /\ Len(b) = n - i
    BY <1>3, <1>5 DEF c
  <2>2. /\ c \o b \in Seq(R) /\ Len(c \o b) = Len(c) + Len(b)
        /\ \A k \in 1 .. Len(c) : (c \o b)[k] = c[k]
        /\ \A k \in 1 .. Len(b) : (c \o b)[Len(c) + k] = b[k]
    <3>1. c \in Seq(R) /\ b \in Seq(R)
      BY <2>1
    <3>. QED
      BY ONLY <3>1, JoinedFacts
  <2>3. ASSUME NEW k \in i + 2 .. n + 1 PROVE (c \o b)[k] = b[k - (i + 1)]
    <3>1. k - (i + 1) \in 1 .. Len(b) /\ Len(c) + (k - (i + 1)) = k
      BY <1>1, <2>1
    <3>. QED
      BY <2>2, <3>1
  <2>. QED
    BY <1>1, <2>1, <2>2, <2>3, SMTT(30)
<1>7. ASSUME NEW k \in i + 2 .. n + 1 PROVE (c \o b)[k] = s[k - 1]
  <2>1. k - (i + 1) \in 1 .. n - i /\ i + (k - (i + 1)) = k - 1
    BY <1>1
  <2>. QED
    BY <1>3, <1>6, <2>1
<1>8. \A k \in 1 .. i : (c \o b)[k] = s[k]
  BY <1>1, <1>2, <1>5, <1>6 DEF c
<1>9. (c \o b)[i + 1] = x
  BY <1>1, <1>5, <1>6 DEF c
<1>. QED
  BY <1>4, <1>6, <1>7, <1>8, <1>9 DEF c, n, Inserted

LEMMA AddUntypedInv ==
    ASSUME Inv, AddUntyped
    PROVE  Inv'
<1>1. TypeOK /\ CoverInv /\ FillInv /\ QueueInv /\ NothingYet
  BY DEF Inv
<1>2. alloc = "add" /\ todo = 0
  BY <1>1 DEF AddUntyped, NothingYet
<1>3. PICK n \in Nat, u \in Uts : n = Len(untyped) /\ u = n + 1
  <2>1. Len(untyped) \in Nat /\ Len(untyped) + 1 \in Uts
    BY <1>1 DEF TypeOK, AddUntyped
  <2>. QED
    BY <2>1
<1>. DEFINE D == {k \in 1 .. n : Before(untyped[k], u)}
            A(k) == in.uts[untyped[k]].paddr
<1>4. untyped \in Seq(Uts) /\ DOMAIN untyped = 1 .. n /\ \A k \in 1 .. n : untyped[k] \in Uts
  BY <1>1, <1>3 DEF TypeOK
<1>5. GoodInput(in)
  BY <1>1 DEF TypeOK
<1>6. /\ \A v \in Uts : /\ in.uts[v].paddr \in Nat /\ in.uts[v].size \in Nat \ {0}
                        /\ IsPow2(in.uts[v].size) /\ End(v) \in Nat
                        /\ End(v) = in.uts[v].paddr + in.uts[v].size
  BY <1>5, InputFacts
<1>7. ASSUME NEW k \in D, NEW j \in 1 .. k PROVE j \in D
  <2>1. j \in 1 .. n /\ k \in 1 .. n /\ Before(untyped[k], u)
    OBVIOUS
  <2>2. CASE j = k
    BY <2>2
  <2>3. CASE j # k
    <3>1. End(untyped[j]) <= in.uts[untyped[k]].paddr
      BY <1>1, <1>4, <2>1, <2>3 DEF CoverInv, UntypedsDisjoint
    <3>2. in.uts[untyped[k]].paddr <= in.uts[u].paddr
      BY <1>4, <1>6, <2>1, SMTT(30) DEF Before
    <3>3. untyped[j] \in Uts /\ untyped[k] \in Uts
      BY <1>4, <2>1
    <3>4. in.uts[untyped[j]].paddr < in.uts[u].paddr
      BY <1>6, <3>1, <3>2, <3>3
    <3>. QED
      BY <2>1, <3>4 DEF Before
  <2>. QED
    BY <2>2, <2>3
<1>8. PICK i \in 0 .. n : i = Cardinality(D) /\ D = 1 .. i
  <2>1. Cardinality(D) \in 0 .. n /\ D = 1 .. Cardinality(D)
    <3>. HIDE DEF D
    <3>1. D \in SUBSET (1 .. n)
      BY DEF D
    <3>. QED
      BY <1>7, <3>1, InitialSegment
  <2>. QED
    BY <2>1
<1>9. i = Cardinality({k \in DOMAIN untyped : Before(untyped[k], Len(untyped) + 1)})
  BY <1>3, <1>4, <1>8
<1>10. ASSUME NEW why \in {"refused"}, Raise(why) PROVE Inv'
  BY <1>2, <1>10, RaiseInv DEF Ends
<1>11. ASSUME in.uts[u].paddr % in.uts[u].size = 0,
              i > 0 => ~Overlap(untyped[i], u),
              i < n => ~Overlap(u, untyped[i + 1]),
              untyped' = InsertAt(untyped, i + 1, u),
              in' = in, alloc' = alloc, ut_iter' = ut_iter, todo' = todo, calls' = calls,
              left' = left, queue' = queue, children' = children, recorded' = recorded,
              holders' = holders
       PROVE  Inv'
  <2>. DEFINE P(v) == in.uts[v].paddr
  <2>1. /\ untyped' \in Seq(Uts) /\ Len(untyped') = n + 1
        /\ \A k \in 1 .. i : untyped'[k] = untyped[k]
        /\ untyped'[i + 1] = u
        /\ \A k \in i + 2 .. n + 1 : untyped'[k] = untyped[k - 1]
    <3>1. i \in 0 .. Len(untyped)
      BY <1>3
    <3>2. untyped' \in Seq(Uts) /\ Inserted(untyped', untyped, i, u)
      BY <1>4, <1>11, <3>1, InsertFacts
    <3>. QED
      BY <1>3, <3>2 DEF Inserted
  <2>2. DOMAIN untyped' = 1 .. n + 1
    BY <2>1
  <2>3. Uts' = Uts /\ Objs' = Objs /\ Sized' = Sized /\ (\A v : End(v)' = End(v))
    BY <1>11 DEF Uts, Objs, Sized, End
  <2>4. ASSUME NEW v \in Uts, NEW w \in Uts, P(v) % in.uts[v].size = 0, P(w) % in.uts[w].size = 0,
               ~Overlap(v, w)
        PROVE  End(v) <= P(w)
    <3>1. P(v) < P(w) /\ End(v) < End(w)
      BY <2>4 DEF Overlap
    <3>2. /\ P(v) \in Nat /\ in.uts[v].size \in Nat /\ IsPow2(in.uts[v].size)
          /\ P(w) \in Nat /\ in.uts[w].size \in Nat /\ IsPow2(in.uts[w].size)
          /\ P(v) + in.uts[v].size < P(w) + in.uts[w].size
      BY <1>6, <3>1
    <3>3. P(v) + in.uts[v].size <= P(w)
      BY <2>4, <3>1, <3>2, AlignedBlocks, Zenon
    <3>. QED
      BY <1>6, <3>3
  <2>5. \A k \in 1 .. n : P(untyped[k]) % in.uts[untyped[k]].size = 0
    BY <1>1, <1>4 DEF CoverInv, UntypedsAligned
  <2>6. \A j, k \in 1 .. n : j < k => End(untyped[j]) <= P(untyped[k])
    BY <1>1, <1>4 DEF CoverInv, UntypedsDisjoint
  <2>7. \A k \in 1 .. n : P(untyped[k]) \in Nat /\ End(untyped[k]) \in Nat /\ P(untyped[k]) <= End(untyped[k])
    <3>1. \A k \in 1 .. n : untyped[k] \in Uts
      BY <1>4
    <3>2. \A v \in Uts : P(v) \in Nat /\ End(v) \in Nat /\ P(v) <= End(v)
      BY <1>6
    <3>. QED
      BY <3>1, <3>2, Zenon
  <2>8. P(u) \in Nat /\ End(u) \in Nat /\ P(u) <= End(u)
    BY <1>6
  <2>9. ASSUME NEW k \in 1 .. i PROVE End(untyped[k]) <= P(u)
    <3>1. i \in 1 .. n /\ k \in 1 .. n
      OBVIOUS
    <3>2. End(untyped[i]) <= P(u)
      BY <1>4, <1>11, <2>4, <2>5, <3>1
    <3>3. CASE k = i
      BY <3>2, <3>3
    <3>4. CASE k # i
      <4>1. End(untyped[k]) <= P(untyped[i])
        BY <2>6, <3>1, <3>4
      <4>. QED
        BY <2>7, <2>8, <3>1, <3>2, <4>1
    <3>. QED
      BY <3>3, <3>4
  <2>10. ASSUME NEW k \in i + 1 .. n PROVE End(u) <= P(untyped[k])
    <3>1. i + 1 \in 1 .. n /\ k \in 1 .. n /\ i < n
      OBVIOUS
    <3>2. End(u) <= P(untyped[i + 1])
      BY <1>4, <1>11, <2>4, <2>5, <3>1
    <3>3. CASE k = i + 1
      BY <3>2, <3>3
    <3>4. CASE k # i + 1
      <4>1. End(untyped[i + 1]) <= P(untyped[k])
        BY <2>6, <3>1, <3>4
      <4>. QED
        BY <2>7, <2>8, <3>1, <3>2, <4>1
    <3>. QED
      BY <3>3, <3>4
  <2>11. ASSUME NEW j \in 1 .. n + 1, NEW k \in 1 .. n + 1, j < k
         PROVE  End(untyped'[j]) <= P(untyped'[k])
    <3>1. CASE k <= i
      BY <2>1, <2>6, <2>11, <3>1
    <3>2. CASE k = i + 1
      <4>1. j \in 1 .. i
        BY <2>11, <3>2
      <4>. QED
        BY <2>1, <2>9, <3>2, <4>1
    <3>3. CASE k >= i + 2
      <4>1. k - 1 \in 1 .. n /\ k - 1 \in i + 1 .. n /\ untyped'[k] = untyped[k - 1]
        BY <2>1, <3>3
      <4>2. CASE j <= i
        <5>1. j \in 1 .. n /\ j < k - 1 /\ untyped'[j] = untyped[j]
          BY <2>1, <3>3, <4>2
        <5>. QED
          BY <2>6, <4>1, <5>1
      <4>3. CASE j = i + 1
        BY <2>1, <2>10, <4>1, <4>3
      <4>4. CASE j >= i + 2
        <5>1. j - 1 \in 1 .. n /\ j - 1 < k - 1 /\ untyped'[j] = untyped[j - 1]
          BY <2>1, <2>11, <4>4
        <5>. QED
          BY <2>6, <4>1, <5>1
      <4>. QED
        BY <4>2, <4>3, <4>4
    <3>. QED
      BY <3>1, <3>2, <3>3
  <2>12. UntypedsDisjoint'
    BY <1>11, <2>2, <2>3, <2>11 DEF UntypedsDisjoint
  <2>13. UntypedsAligned'
    <3>1. ASSUME NEW k \in 1 .. n + 1
          PROVE  in.uts[untyped'[k]].paddr % in.uts[untyped'[k]].size = 0
      <4>1. CASE k <= i
        BY <2>1, <2>5, <4>1
      <4>2. CASE k = i + 1
        BY <1>11, <2>1, <4>2
      <4>3. CASE k >= i + 2
        <5>1. k - 1 \in 1 .. n /\ untyped'[k] = untyped[k - 1]
          BY <2>1, <4>3
        <5>. QED
          BY <2>5, <5>1
      <4>. QED
        BY <4>1, <4>2, <4>3
    <3>. QED
      BY <1>11, <2>2, <3>1 DEF UntypedsAligned
  <2>14. CoverInv'
    <3>1. (\A v \in Uts : Watermark(v) <= End(v))'
      BY <1>1, <1>11, <2>3 DEF CoverInv, Watermark
    <3>2. (\A v \in Uts : \A k \in DOMAIN children[v] : ChildOK(v, k))'
      BY <1>1, <1>2, <1>11, <2>3 DEF NothingYet
    <3>3. CurrentKnown' /\ LaterEmpty' /\ RecordedEarlier'
      BY <1>2, <1>11 DEF CurrentKnown, LaterEmpty, RecordedEarlier, Active
    <3>. QED
      BY <2>12, <2>13, <3>1, <3>2, <3>3 DEF CoverInv
  <2>15. TypeOK'
    <3>1. ut_iter' \in 0 .. Len(untyped') /\ (alloc' \in Active => ut_iter' # 0)
      BY <1>1, <1>2, <1>11, <2>1 DEF NothingYet, Active
    <3>. QED
      BY <1>1, <1>11, <2>1, <2>3, <3>1 DEF TypeOK
  <2>16. NothingYet'
    BY <1>1, <1>11, <2>3 DEF NothingYet
  <2>17. FillInv'
    <3>1. calls = <<>> /\ left = None
      BY <1>1, <1>2 DEF FillInv
    <3>. QED
      BY <1>2, <1>11, <3>1 DEF FillInv
  <2>18. QueueInv'
    BY <1>2, <1>11 DEF QueueInv, Active
  <2>. QED
    BY <2>14, <2>15, <2>16, <2>17, <2>18 DEF Inv
<1>12. \/ /\ in.uts[u].paddr % in.uts[u].size = 0
          /\ i > 0 => ~Overlap(untyped[i], u)
          /\ i < n => ~Overlap(u, untyped[i + 1])
          /\ untyped' = InsertAt(untyped, i + 1, u)
          /\ UNCHANGED <<in, alloc, ut_iter, fillVars, queue, children, recorded, holders>>
       \/ Raise("refused")
  BY <1>3, <1>9 DEF AddUntyped
<1>. QED
  BY <1>10, <1>11, <1>12 DEF fillVars
LEMMA AllocateInv ==
    ASSUME Inv, Allocate
    PROVE  Inv'
<1>1. TypeOK /\ CoverInv /\ FillInv /\ QueueInv /\ NothingYet
  BY DEF Inv
<1>2. alloc = "add" /\ todo = 0 /\ Len(untyped) = Len(in.uts)
  BY <1>1 DEF Allocate, NothingYet
<1>3. queue = {} /\ recorded = {} /\ holders = {} /\ \A u \in Uts : children[u] = <<>>
  BY <1>1, <1>2 DEF NothingYet
<1>4. CASE Objs = {} /\ Raise("done")
  BY <1>2, <1>3, <1>4, RaiseInv DEF Ends
<1>5. CASE Raise("refused")
  BY <1>2, <1>5, RaiseInv DEF Ends
<1>6. CASE Raise("memory")
  BY <1>2, <1>6, RaiseInv DEF Ends
<1>7. CASE /\ Uts # {} /\ alloc' = "unfun"
           /\ queue' = {o \in Objs : in.objs[o].size # 0} /\ ut_iter' = 1
           /\ UNCHANGED <<in, untyped, fillVars, children, recorded, holders>>
  <2>1. /\ in' = in /\ untyped' = untyped /\ todo' = todo /\ calls' = calls /\ left' = left
        /\ children' = children /\ recorded' = recorded /\ holders' = holders
    BY <1>7 DEF fillVars
  <2>2. Uts' = Uts /\ Objs' = Objs /\ Sized' = Sized /\ queue' = Sized
    BY <1>7, <2>1 DEF Uts, Objs, Sized
  <2>3. 1 \in 0 .. Len(untyped)
    <3>1. Uts = 1 .. Len(in.uts) /\ Len(in.uts) \in Nat
      BY <1>1, InputFacts DEF TypeOK
    <3>. QED
      BY <1>2, <1>7, <3>1
  <2>4. TypeOK'
    BY <1>1, <1>7, <2>1, <2>2, <2>3 DEF TypeOK, Active
  <2>5. NothingYet'
    BY <1>7 DEF NothingYet
  <2>6. \A u \in Uts : DOMAIN children[u] = {}
    BY <1>3
  <2>7. CoverInv'
    <3>1. UntypedsDisjoint' /\ UntypedsAligned' /\ (\A u \in Uts : Watermark(u) <= End(u))'
      BY <1>1, <2>1 DEF CoverInv, UntypedsDisjoint, UntypedsAligned, Watermark, End, Uts
    <3>2. (\A u \in Uts : \A k \in DOMAIN children[u] : ChildOK(u, k))'
      BY <2>1, <2>2, <2>6
    <3>3. untyped' \in Seq(Uts) /\ ut' \in Uts
      BY <1>1, <1>7, <2>1, <2>3 DEF TypeOK, ut
    <3>4. CurrentKnown'
      BY <2>1, <2>6, <3>3 DEF CurrentKnown
    <3>5. LaterEmpty'
      BY <1>1, <1>3, <1>7, <2>1 DEF LaterEmpty, TypeOK
    <3>6. RecordedEarlier'
      BY <1>3, <2>1 DEF RecordedEarlier
    <3>. QED
      BY <3>1, <3>2, <3>4, <3>5, <3>6 DEF CoverInv
  <2>8. FillInv'
    <3>1. calls = <<>> /\ left = None
      BY <1>1, <1>2 DEF FillInv
    <3>. QED
      BY <1>2, <1>7, <2>1, <3>1 DEF FillInv
  <2>9. QueueInv'
    <3>1. \A o : ChildPlaces(o)' = {}
      BY <2>1, <2>2, <2>6 DEF ChildPlaces
    <3>2. \A o \in Sized : Placed(o)'
      BY <2>2, <3>1 DEF Placed
    <3>. QED
      BY <1>7, <2>2, <3>2 DEF QueueInv
  <2>. QED
    BY <2>4, <2>5, <2>7, <2>8, <2>9 DEF Inv
<1>. QED
  BY <1>4, <1>5, <1>6, <1>7 DEF Allocate

LEMMA UseInv ==
    ASSUME Inv, alloc \in Active, todo = 0, NEW n \in Nat,
           NEW then \in {"unfun", "pin", "tail", "fill"}, Use(n, then),
           then \in {"unfun", "pin"} => alloc \in {"unfun", "pin"},
           then \in {"tail", "fill"} => Unfun = {},
           then = "pin" => Unfun # {} /\ Goal.paddr + Goal.size <= End(ut),
           Watermark(ut) + n = IF then = "pin" THEN Goal.paddr ELSE End(ut)
    PROVE  Inv'
<1>1. TypeOK /\ CoverInv /\ FillInv /\ QueueInv /\ NothingYet
  BY DEF Inv
<1>2. /\ in' = in /\ untyped' = untyped /\ ut_iter' = ut_iter /\ todo' = n /\ alloc' = then
      /\ calls' = calls /\ left' = left /\ queue' = queue
      /\ children' = children /\ recorded' = recorded /\ holders' = holders
  BY DEF Use
<1>3. /\ ut' = ut /\ End(ut)' = End(ut) /\ Uts' = Uts /\ Objs' = Objs /\ Sized' = Sized
      /\ Unfun' = Unfun /\ Goal' = Goal
  BY <1>2, SameGoal
<1>4. calls' = <<>> /\ left' = None
  BY <1>1, <1>2 DEF FillInv
<1>5. then \in Active /\ then # "add" /\ then # "done"
  BY DEF Active
<1>6. TypeOK'
  BY <1>1, <1>2, <1>3, <1>5 DEF TypeOK
<1>7. CoverInv'
  <2>1. UntypedsDisjoint' /\ UntypedsAligned' /\ (\A u \in Uts : Watermark(u) <= End(u))'
    BY <1>1, <1>2 DEF CoverInv, UntypedsDisjoint, UntypedsAligned, Watermark, End, Uts
  <2>2. (\A u \in Uts : \A k \in DOMAIN children[u] : ChildOK(u, k))'
    BY <1>1, <1>2 DEF CoverInv, ChildOK, ChildFits, DeviceOnlyPinned, PlaceholderKnown, ChildAddr,
       End, Uts
  <2>3. CurrentKnown' /\ LaterEmpty' /\ RecordedEarlier'
    BY <1>1, <1>2, <1>3, <1>5 DEF CoverInv, CurrentKnown, LaterEmpty, RecordedEarlier, ChildAddr
  <2>. QED
    BY <2>1, <2>2, <2>3 DEF CoverInv
<1>8. FillInv'
  <2>1. Watermark(ut)' = Watermark(ut)
    BY <1>2, <1>3 DEF Watermark
  <2>2. Limit' = IF then = "pin" THEN Goal.paddr ELSE End(ut)
    BY <1>2, <1>3 DEF Limit
  <2>3. Watermark(ut)' + todo' = Limit'
    BY <1>2, <2>1, <2>2
  <2>. QED
    BY <1>2, <1>3, <1>4, <2>3 DEF FillInv
<1>9. QueueInv'
  BY <1>1, <1>2, <1>5, QueueSame
<1>10. NothingYet'
  BY <1>2, <1>5 DEF NothingYet
<1>. QED
  BY <1>6, <1>7, <1>8, <1>9, <1>10 DEF Inv

LEMMA NextUtInv ==
    ASSUME Inv, alloc = "unfun", todo = 0, NEW r \in SUBSET Uts, NEW h \in SUBSET Nat, NextUt(r, h),
           \A u \in r : \E j \in 1 .. ut_iter : u = untyped[j],
           \A u \in r : \A k \in DOMAIN children[u] : children[u][k].obj = 0 => ChildAddr(u, k) \in h
    PROVE  Inv'
<1>1. TypeOK /\ CoverInv /\ FillInv /\ QueueInv /\ NothingYet
  BY DEF Inv
<1>2. /\ in' = in /\ untyped' = untyped /\ todo' = todo /\ calls' = calls /\ left' = left
      /\ queue' = queue /\ children' = children /\ recorded' = r /\ holders' = h
  BY DEF NextUt, fillVars
<1>3. Uts' = Uts /\ Objs' = Objs /\ Sized' = Sized /\ Unfun' = Unfun
  BY <1>2 DEF Uts, Objs, Sized, Unfun
<1>4. calls' = <<>> /\ left' = None
  BY <1>1, <1>2 DEF FillInv
<1>5. untyped \in Seq(Uts) /\ ut_iter \in 1 .. Len(untyped) /\ Len(untyped) \in Nat
  BY <1>1 DEF TypeOK, Active
<1>6. \/ ut_iter < Len(untyped) /\ ut_iter' = ut_iter + 1 /\ alloc' = "unfun"
      \/ ut_iter' = ut_iter /\ alloc' = "memory"
  BY DEF NextUt
<1>7. TypeOK'
  <2>1. ut_iter' \in 0 .. Len(untyped) /\ ut_iter' # 0
    BY <1>5, <1>6
  <2>2. alloc' \in {"add"} \cup Active \cup Ends
    BY <1>6 DEF Active, Ends
  <2>. QED
    BY <1>1, <1>2, <1>3, <2>1, <2>2 DEF TypeOK
<1>8. CoverInv'
  <2>1. UntypedsDisjoint' /\ UntypedsAligned' /\ (\A u \in Uts : Watermark(u) <= End(u))'
    BY <1>1, <1>2 DEF CoverInv, UntypedsDisjoint, UntypedsAligned, Watermark, End, Uts
  <2>2. ASSUME NEW u \in Uts, NEW k \in DOMAIN children[u] PROVE ChildOK(u, k)'
    <3>1. ChildOK(u, k)
      BY <1>1 DEF CoverInv
    <3>2. ChildAddr(u, k)' = ChildAddr(u, k) /\ End(u)' = End(u)
      BY <1>2 DEF ChildAddr, End
    <3>3. ChildFits(u, k)' /\ DeviceOnlyPinned(u, k)'
      BY <1>2, <3>1, <3>2 DEF ChildOK, ChildFits, DeviceOnlyPinned
    <3>4. PlaceholderKnown(u, k)'
      BY <1>2, <3>2 DEF PlaceholderKnown
    <3>. QED
      BY <3>3, <3>4 DEF ChildOK
  <2>3. CASE ut_iter < Len(untyped) /\ ut_iter' = ut_iter + 1 /\ alloc' = "unfun"
    <3>1. ut_iter + 1 \in ut_iter + 1 .. Len(untyped)
      BY <1>5, <2>3
    <3>2. children[untyped[ut_iter + 1]] = <<>>
      BY <1>1, <3>1 DEF CoverInv, LaterEmpty, Active
    <3>3. CurrentKnown'
      BY <1>2, <2>3, <3>2 DEF CurrentKnown, ut
    <3>4. LaterEmpty'
      <4>1. \A j \in (ut_iter + 1) + 1 .. Len(untyped) : j \in ut_iter + 1 .. Len(untyped)
        BY <1>5
      <4>. QED
        BY <1>1, <1>2, <2>3, <4>1 DEF CoverInv, LaterEmpty, Active
    <3>5. RecordedEarlier'
      <4>1. (ut_iter + 1) - 1 = ut_iter
        BY <1>5
      <4>. QED
        BY <1>2, <2>3, <4>1 DEF RecordedEarlier
    <3>. QED
      BY <1>2, <1>3, <2>1, <2>2, <3>3, <3>4, <3>5 DEF CoverInv
  <2>4. CASE alloc' = "memory"
    <3>1. CurrentKnown' /\ LaterEmpty' /\ RecordedEarlier'
      BY <2>4 DEF CurrentKnown, LaterEmpty, RecordedEarlier, Active
    <3>. QED
      BY <1>2, <1>3, <2>1, <2>2, <3>1 DEF CoverInv
  <2>. QED
    BY <1>6, <2>3, <2>4
<1>9. FillInv'
  BY <1>2, <1>4, <1>6 DEF FillInv
<1>10. QueueInv'
  BY <1>1, <1>2, <1>6, QueueSame DEF Active
<1>11. NothingYet'
  BY <1>6 DEF NothingYet
<1>. QED
  BY <1>7, <1>8, <1>9, <1>10, <1>11 DEF Inv

LEMMA RecordUtInv ==
    ASSUME Inv, alloc \in {"unfun", "tail", "fill"}, todo = 0, Unfun = {},
           NEW r, recorded \subseteq r, r \subseteq recorded \cup {ut}, RecordUt(r)
    PROVE  Inv'
<1>1. TypeOK /\ CoverInv /\ FillInv /\ QueueInv /\ NothingYet
  BY DEF Inv
<1>2. /\ in' = in /\ untyped' = untyped /\ ut_iter' = ut_iter /\ todo' = todo /\ calls' = calls
      /\ left' = left /\ queue' = queue /\ children' = children /\ holders' = holders
      /\ recorded' = r /\ alloc' = "rest"
  BY DEF RecordUt, fillVars
<1>3. /\ ut' = ut /\ Uts' = Uts /\ Objs' = Objs /\ Sized' = Sized
  BY <1>2, SameGoal
<1>4. calls' = <<>> /\ left' = None
  BY <1>1, <1>2 DEF FillInv
<1>5. alloc \in Active /\ alloc' \in Active /\ ut \in Uts
  <2>1. alloc \in Active /\ alloc' \in Active
    BY <1>2 DEF Active
  <2>. QED
    BY <1>1, <2>1, CurrentUt
<1>6. TypeOK'
  BY <1>1, <1>2, <1>3, <1>5 DEF TypeOK
<1>7. CoverInv'
  <2>1. UntypedsDisjoint' /\ UntypedsAligned' /\ (\A u \in Uts : Watermark(u) <= End(u))'
    BY <1>1, <1>2 DEF CoverInv, UntypedsDisjoint, UntypedsAligned, Watermark, End, Uts
  <2>2. ASSUME NEW u \in Uts, NEW k \in DOMAIN children[u] PROVE ChildOK(u, k)'
    <3>1. ChildOK(u, k)
      BY <1>1 DEF CoverInv
    <3>2. ChildAddr(u, k)' = ChildAddr(u, k) /\ End(u)' = End(u)
      BY <1>2 DEF ChildAddr, End
    <3>3. ChildFits(u, k)' /\ DeviceOnlyPinned(u, k)'
      BY <1>2, <3>1, <3>2 DEF ChildOK, ChildFits, DeviceOnlyPinned
    <3>4. PlaceholderKnown(u, k)'
      <4>1. CASE u \in recorded
        BY <1>2, <3>1, <3>2, <4>1 DEF ChildOK, PlaceholderKnown
      <4>2. CASE u = ut
        BY <1>1, <1>2, <1>5, <3>2, <4>2 DEF CoverInv, CurrentKnown, PlaceholderKnown
      <4>3. CASE u \notin r
        BY <1>2, <4>3 DEF PlaceholderKnown
      <4>. QED
        BY <4>1, <4>2, <4>3
    <3>. QED
      BY <3>3, <3>4 DEF ChildOK
  <2>3. CurrentKnown' /\ LaterEmpty' /\ RecordedEarlier'
    BY <1>1, <1>2, <1>3, <1>5 DEF CoverInv, CurrentKnown, LaterEmpty, RecordedEarlier, ChildAddr
  <2>. QED
    BY <1>2, <1>3, <2>1, <2>2, <2>3 DEF CoverInv
<1>8. FillInv'
  BY <1>2, <1>4 DEF FillInv
<1>9. QueueInv'
  BY <1>1, <1>2, <1>5, QueueSame
<1>10. NothingYet'
  BY <1>2 DEF NothingYet
<1>. QED
  BY <1>6, <1>7, <1>8, <1>9, <1>10 DEF Inv
(* Children of different untypeds are at different addresses. *)
LEMMA OtherAddress ==
    ASSUME TypeOK, CoverInv, NEW i \in DOMAIN untyped, NEW j \in DOMAIN untyped, i # j,
           NEW k \in DOMAIN children[untyped[i]], NEW m \in DOMAIN children[untyped[j]]
    PROVE  ChildAddr(untyped[i], k) # ChildAddr(untyped[j], m)
<1>1. untyped[i] \in Uts /\ untyped[j] \in Uts
  BY DEF TypeOK
<1>2. ASSUME NEW u \in Uts, NEW l \in DOMAIN children[u]
      PROVE  /\ ChildAddr(u, l) \in Nat /\ in.uts[u].paddr \in Nat /\ End(u) \in Nat
             /\ in.uts[u].paddr <= ChildAddr(u, l) /\ ChildAddr(u, l) < End(u)
  <2>1. /\ ChildAddr(u, l) \in Nat /\ in.uts[u].paddr <= ChildAddr(u, l)
        /\ children[u][l].size \in Nat \ {0}
    BY ChildFacts
  <2>2. ChildAddr(u, l) + children[u][l].size <= End(u)
    BY DEF CoverInv, ChildOK, ChildFits
  <2>3. in.uts[u].paddr \in Nat /\ End(u) \in Nat
    BY InputFacts DEF TypeOK
  <2>. QED
    BY <2>1, <2>2, <2>3
<1>3. \/ End(untyped[i]) <= in.uts[untyped[j]].paddr
      \/ End(untyped[j]) <= in.uts[untyped[i]].paddr
  BY Apart DEF CoverInv
<1>. QED
  BY <1>1, <1>2, <1>3

LEMMA RetireUtInv ==
    ASSUME Inv, RetireUt
    PROVE  Inv'
<1>1. TypeOK /\ CoverInv
  BY DEF Inv
<1>2. alloc = "unfun" /\ todo = 0 /\ alloc \in Active
  BY DEF RetireUt, InUnfun, Active
<1>3. ut_iter \in DOMAIN untyped /\ ut \in Uts /\ ut = untyped[ut_iter]
  BY <1>1, <1>2, CurrentUt DEF ut
<1>4. ut_iter \in 1 .. Len(untyped) /\ DOMAIN untyped = 1 .. Len(untyped) /\ Len(untyped) \in Nat
  BY <1>1, <1>3 DEF TypeOK
<1>5. recorded \in SUBSET Uts /\ holders \in SUBSET Nat
  BY <1>1 DEF TypeOK
<1>6. \A u \in recorded : \E j \in 1 .. ut_iter - 1 : u = untyped[j]
  BY <1>1, <1>2 DEF CoverInv, RecordedEarlier
<1>7. \A u \in recorded : \E j \in 1 .. ut_iter : u = untyped[j]
  BY <1>4, <1>6
<1>8. \A u \in recorded : \A k \in DOMAIN children[u] :
         children[u][k].obj = 0 => ChildAddr(u, k) \in holders
  BY <1>1, <1>5 DEF CoverInv, ChildOK, PlaceholderKnown
<1>9. CASE \A k \in DOMAIN children[ut] : children[ut][k].obj = 0
  <2>1. PICK h : h = holders \ {ChildAddr(ut, k) : k \in DOMAIN children[ut]}
    OBVIOUS
  <2>2. h \in SUBSET Nat /\ NextUt(recorded, h)
    BY <1>5, <1>9, <2>1 DEF RetireUt
  <2>3. ASSUME NEW u \in recorded, NEW k \in DOMAIN children[u], children[u][k].obj = 0
        PROVE  ChildAddr(u, k) \in h
    <3>1. ChildAddr(u, k) \in holders
      BY <1>8, <2>3
    <3>2. PICK j \in 1 .. ut_iter - 1 : u = untyped[j]
      BY <1>6
    <3>3. j \in DOMAIN untyped /\ j # ut_iter
      BY <1>4
    <3>4. \A m \in DOMAIN children[ut] : ChildAddr(u, k) # ChildAddr(ut, m)
      BY <1>1, <1>3, <3>2, <3>3, OtherAddress, Zenon
    <3>. QED
      BY <2>1, <3>1, <3>4
  <2>. QED
    BY <1>2, <1>5, <1>7, <2>2, <2>3, NextUtInv, Zenon
<1>10. CASE ~ \A k \in DOMAIN children[ut] : children[ut][k].obj = 0
  <2>1. PICK r : r = recorded \cup {ut}
    OBVIOUS
  <2>2. r \in SUBSET Uts /\ NextUt(r, holders)
    BY <1>3, <1>5, <1>10, <2>1 DEF RetireUt
  <2>3. \A u \in r : \E j \in 1 .. ut_iter : u = untyped[j]
    BY <1>3, <1>4, <1>7, <2>1
  <2>4. \A k \in DOMAIN children[ut] : children[ut][k].obj = 0 => ChildAddr(ut, k) \in holders
    BY <1>1, <1>2 DEF CoverInv, CurrentKnown
  <2>5. \A u \in r : \A k \in DOMAIN children[u] :
           children[u][k].obj = 0 => ChildAddr(u, k) \in holders
    BY <1>8, <2>1, <2>4
  <2>. QED
    BY <1>2, <1>5, <2>2, <2>3, <2>5, NextUtInv, Zenon
<1>. QED
  BY <1>9, <1>10

LEMMA SkipUtInv ==
    ASSUME Inv, SkipUt
    PROVE  Inv'
<1>1. TypeOK /\ CoverInv
  BY DEF Inv
<1>2. alloc = "unfun" /\ todo = 0 /\ alloc \in Active /\ NextUt(recorded, holders)
  BY DEF SkipUt, AtUnfun, InUnfun, Active
<1>3. ut_iter \in 1 .. Len(untyped)
  BY <1>1, <1>2, CurrentUt DEF TypeOK
<1>4. recorded \in SUBSET Uts /\ holders \in SUBSET Nat
  BY <1>1 DEF TypeOK
<1>5. \A u \in recorded : \E j \in 1 .. ut_iter : u = untyped[j]
  <2>1. \A u \in recorded : \E j \in 1 .. ut_iter - 1 : u = untyped[j]
    BY <1>1, <1>2 DEF CoverInv, RecordedEarlier
  <2>. QED
    BY <1>3, <2>1
<1>6. \A u \in recorded : \A k \in DOMAIN children[u] :
         children[u][k].obj = 0 => ChildAddr(u, k) \in holders
  BY <1>1, <1>4 DEF CoverInv, ChildOK, PlaceholderKnown
<1>. QED
  BY <1>2, <1>4, <1>5, <1>6, NextUtInv, Zenon

LEMMA MissUnfunInv ==
    ASSUME Inv, MissUnfun
    PROVE  Inv'
<1>1. Raise("refused") /\ todo = 0 /\ "refused" # "done"
  BY DEF MissUnfun, AtUnfun, InUnfun
<1>2. "refused" \in Ends
  BY DEF Ends
<1>. QED
  BY <1>1, <1>2, RaiseInv

(* What the steps of the first loop find. *)
LEMMA AtUnfunFacts ==
    ASSUME Inv, AtUnfun
    PROVE  /\ alloc = "unfun" /\ alloc \in Active /\ todo = 0 /\ Unfun # {}
           /\ ut \in Uts /\ Watermark(ut) \in Nat /\ End(ut) \in Nat
           /\ Remaining(ut) \in Nat /\ Watermark(ut) + Remaining(ut) = End(ut)
           /\ Goal.paddr \in Nat /\ Goal.size \in Nat
<1>1. TypeOK /\ CoverInv
  BY DEF Inv
<1>2. alloc = "unfun" /\ todo = 0 /\ alloc \in Active /\ Unfun # {}
  BY DEF AtUnfun, InUnfun, Active
<1>3. ut \in Uts
  BY <1>1, <1>2, CurrentUt
<1>4. Watermark(ut) \in Nat
  BY <1>1, <1>3, ChildFacts
<1>5. End(ut) \in Nat
  BY <1>1, <1>3, InputFacts DEF TypeOK
<1>6. Watermark(ut) <= End(ut)
  BY <1>1, <1>3 DEF CoverInv
<1>7. Remaining(ut) \in Nat /\ Watermark(ut) + Remaining(ut) = End(ut)
  BY <1>4, <1>5, <1>6 DEF Remaining
<1>8. Goal.paddr \in Nat /\ Goal.size \in Nat
  BY <1>1, <1>2, GoalFacts
<1>. QED
  BY <1>2, <1>3, <1>4, <1>5, <1>7, <1>8

LEMMA FillGapInv ==
    ASSUME Inv, FillGap
    PROVE  Inv'
<1>1. AtUnfun /\ GoalInside
  BY DEF FillGap
<1>2. /\ alloc = "unfun" /\ alloc \in Active /\ todo = 0 /\ Unfun # {}
      /\ Watermark(ut) \in Nat /\ Goal.paddr \in Nat
  BY <1>1, AtUnfunFacts
<1>3. ~(Goal.paddr < Watermark(ut)) /\ Goal.paddr + Goal.size <= End(ut)
  BY <1>1 DEF GoalInside, GoalBehind
<1>4. PICK n : n = Goal.paddr - Watermark(ut)
  OBVIOUS
<1>5. n \in Nat /\ Watermark(ut) + n = Goal.paddr
  BY <1>2, <1>3, <1>4
<1>6. Use(n, "pin")
  BY <1>4 DEF FillGap
<1>7. /\ "pin" \in {"unfun", "pin", "tail", "fill"}
      /\ "pin" \in {"unfun", "pin"} => alloc \in {"unfun", "pin"}
      /\ "pin" \in {"tail", "fill"} => Unfun = {}
      /\ "pin" = "pin" => Unfun # {} /\ Goal.paddr + Goal.size <= End(ut)
      /\ Watermark(ut) + n = IF "pin" = "pin" THEN Goal.paddr ELSE End(ut)
  BY <1>2, <1>3, <1>5
<1>. QED
  BY <1>2, <1>5, <1>6, <1>7, UseInv

LEMMA FillUtInv ==
    ASSUME Inv, FillUt
    PROVE  Inv'
<1>1. AtUnfun
  BY DEF FillUt
<1>2. /\ alloc = "unfun" /\ alloc \in Active /\ todo = 0
      /\ Remaining(ut) \in Nat /\ Watermark(ut) + Remaining(ut) = End(ut)
  BY <1>1, AtUnfunFacts
<1>3. PICK n \in Nat : n = Remaining(ut)
  BY <1>2
<1>4. Use(n, "unfun")
  BY <1>3 DEF FillUt
<1>5. /\ "unfun" \in {"unfun", "pin", "tail", "fill"}
      /\ "unfun" \in {"unfun", "pin"} => alloc \in {"unfun", "pin"}
      /\ "unfun" \in {"tail", "fill"} => Unfun = {}
      /\ "unfun" = "pin" => Unfun # {} /\ Goal.paddr + Goal.size <= End(ut)
      /\ Watermark(ut) + n = IF "unfun" = "pin" THEN Goal.paddr ELSE End(ut)
  BY <1>2, <1>3
<1>. QED
  BY <1>2, <1>4, <1>5, UseInv
LEMMA PlaceUnfunInv ==
    ASSUME Inv, PlaceUnfun
    PROVE  Inv'
<1>1. TypeOK /\ CoverInv /\ FillInv /\ QueueInv
  BY DEF Inv
<1>2. alloc = "pin" /\ todo = 0 /\ alloc \in Active
  BY DEF PlaceUnfun, Active
<1>3. CASE Raise("refused")
  <2>1. "refused" \in Ends /\ "refused" # "done"
    BY DEF Ends
  <2>. QED
    BY <1>2, <1>3, <2>1, RaiseInv
<1>4. CASE /\ Goal.paddr % Goal.size = 0 /\ Goal.paddr = Watermark(ut)
           /\ AddChild(NextUnfun)
           /\ alloc' = "unfun"
           /\ UNCHANGED <<in, untyped, ut_iter, fillVars, recorded>>
  <2>1. Unfun # {} /\ Goal.paddr + Goal.size <= End(ut)
    BY <1>1, <1>2 DEF FillInv
  <2>2. PICK o : o = NextUnfun
    OBVIOUS
  <2>3. o \in Unfun /\ o \in queue /\ Goal = in.objs[o] /\ Goal.paddr # 0
    BY <1>1, <2>1, <2>2, GoalFacts DEF Goal
  <2>4. /\ Watermark(ut) % in.objs[o].size = 0 /\ Watermark(ut) + in.objs[o].size <= End(ut)
        /\ in.objs[o].paddr # 0 => Watermark(ut) = in.objs[o].paddr
        /\ IsDevice => in.objs[o].paddr # 0
    BY <1>4, <2>1, <2>3
  <2>5. /\ in' = in /\ untyped' = untyped /\ ut_iter' = ut_iter /\ recorded' = recorded
        /\ todo' = todo /\ calls' = calls /\ left' = left /\ AddChild(o)
    BY <1>4, <2>2 DEF fillVars
  <2>6. /\ alloc' \in Active
        /\ alloc' \in {"unfun", "pin"} => alloc \in {"unfun", "pin"}
        /\ alloc' \in {"tail", "rest", "fill"} => alloc \in {"tail", "rest", "fill"}
    BY <1>2, <1>4 DEF Active
  <2>7. /\ CoverInv' /\ QueueInv'
        /\ children' \in [Uts' -> Seq(Child)] /\ holders' \in SUBSET Nat
        /\ queue' \in SUBSET Sized'
    BY <1>1, <1>2, <2>3, <2>4, <2>5, <2>6, ObjectAdded, Zenon
  <2>8. Uts' = Uts
    BY <2>5 DEF Uts
  <2>9. TypeOK'
    BY <1>1, <1>2, <2>5, <2>6, <2>7, <2>8 DEF TypeOK
  <2>10. FillInv'
    BY <1>1, <1>2, <1>4, <2>5 DEF FillInv
  <2>11. NothingYet'
    BY <1>4 DEF NothingYet
  <2>. QED
    BY <2>7, <2>9, <2>10, <2>11 DEF Inv
<1>. QED
  BY <1>3, <1>4 DEF PlaceUnfun

LEMMA AfterUnfunInv ==
    ASSUME Inv, AfterUnfun
    PROVE  Inv'
<1>1. TypeOK /\ CoverInv
  BY DEF Inv
<1>2. alloc = "unfun" /\ todo = 0 /\ alloc \in Active /\ Unfun = {}
  BY DEF AfterUnfun, Active
<1>3. CASE ~IsDevice /\ Remaining(ut) > 0 /\ Use(Remaining(ut), "tail")
  <2>1. ut \in Uts
    BY <1>1, <1>2, CurrentUt
  <2>2. Watermark(ut) \in Nat /\ End(ut) \in Nat /\ Watermark(ut) <= End(ut)
    BY <1>1, <2>1, ChildFacts, InputFacts DEF CoverInv, TypeOK
  <2>3. PICK n \in Nat : n = Remaining(ut) /\ Watermark(ut) + n = End(ut)
    BY <2>2 DEF Remaining
  <2>4. Use(n, "tail")
    BY <1>3, <2>3
  <2>5. /\ "tail" \in {"unfun", "pin", "tail", "fill"}
        /\ "tail" \in {"unfun", "pin"} => alloc \in {"unfun", "pin"}
        /\ "tail" \in {"tail", "fill"} => Unfun = {}
        /\ "tail" = "pin" => Unfun # {} /\ Goal.paddr + Goal.size <= End(ut)
        /\ Watermark(ut) + n = IF "tail" = "pin" THEN Goal.paddr ELSE End(ut)
    BY <1>2, <2>3
  <2>. QED
    BY <1>2, <2>4, <2>5, UseInv
<1>4. CASE \/ RecordUt(IF children[ut] # <<>> THEN recorded \cup {ut} ELSE recorded)
           \/ RecordUt(recorded)
  <2>1. PICK r : RecordUt(r) /\ recorded \subseteq r /\ r \subseteq recorded \cup {ut}
    <3>1. CASE RecordUt(recorded)
      BY <3>1
    <3>2. CASE RecordUt(IF children[ut] # <<>> THEN recorded \cup {ut} ELSE recorded)
      <4>1. PICK r : r = IF children[ut] # <<>> THEN recorded \cup {ut} ELSE recorded
        OBVIOUS
      <4>. QED
        BY <3>2, <4>1
    <3>. QED
      BY <1>4, <3>1, <3>2
  <2>2. alloc \in {"unfun", "tail", "fill"}
    BY <1>2
  <2>. QED
    BY <1>2, <2>1, <2>2, RecordUtInv
<1>. QED
  BY <1>3, <1>4 DEF AfterUnfun

LEMMA AfterTailInv ==
    ASSUME Inv, AfterTail
    PROVE  Inv'
<1>1. alloc = "tail" /\ todo = 0 /\ alloc \in {"unfun", "tail", "fill"}
  BY DEF AfterTail
<1>2. Unfun = {}
  BY <1>1 DEF Inv, QueueInv
<1>3. PICK r : r = IF Fun = {} THEN recorded \cup {ut} ELSE recorded
  OBVIOUS
<1>4. RecordUt(r) /\ recorded \subseteq r /\ r \subseteq recorded \cup {ut}
  BY <1>3 DEF AfterTail
<1>. QED
  BY <1>1, <1>2, <1>4, RecordUtInv

LEMMA RestFilledInv ==
    ASSUME Inv, RestFilled
    PROVE  Inv'
<1>1. alloc = "fill" /\ todo = 0 /\ alloc \in {"unfun", "tail", "fill"}
  BY DEF RestFilled
<1>2. Unfun = {}
  BY <1>1 DEF Inv, QueueInv
<1>3. PICK r : r = recorded \cup {ut}
  OBVIOUS
<1>4. RecordUt(r) /\ recorded \subseteq r /\ r \subseteq recorded \cup {ut}
  BY <1>3 DEF RestFilled
<1>. QED
  BY <1>1, <1>2, <1>4, RecordUtInv

LEMMA FinishInv ==
    ASSUME Inv, Finish
    PROVE  Inv'
<1>1. alloc = "rest" /\ Fun = {} /\ Raise("done") /\ alloc \in Active
  BY DEF Finish, Active
<1>2. "done" \in Ends
  BY DEF Ends
<1>3. Unfun = {} /\ todo = 0
  BY <1>1 DEF Inv, QueueInv, FillInv
<1>4. queue = {}
  BY <1>1, <1>3 DEF Unfun, Fun
<1>. QED
  BY <1>1, <1>2, <1>3, <1>4, RaiseInv

LEMMA NextRestInv ==
    ASSUME Inv, NextRest
    PROVE  Inv'
<1>1. TypeOK /\ CoverInv /\ FillInv /\ QueueInv
  BY DEF Inv
<1>2. alloc = "rest" /\ alloc \in Active
  BY DEF NextRest, Active
<1>3. todo = 0 /\ calls = <<>> /\ left = None /\ Unfun = {}
  BY <1>1, <1>2 DEF FillInv, QueueInv
<1>4. CASE ut_iter = Len(untyped) /\ Raise("memory")
  <2>1. "memory" \in Ends /\ "memory" # "done"
    BY DEF Ends
  <2>. QED
    BY <1>3, <1>4, <2>1, RaiseInv
<1>5. CASE /\ ut_iter < Len(untyped)
           /\ ut_iter' = ut_iter + 1
           /\ \/ todo' = Remaining(untyped[ut_iter + 1]) /\ alloc' = "fill"
              \/ UNCHANGED <<todo, alloc>>
           /\ UNCHANGED <<in, untyped, calls, left, queue, children, recorded, holders>>
  <2>1. PICK u : u = untyped[ut_iter + 1]
    OBVIOUS
  <2>2. /\ in' = in /\ untyped' = untyped /\ calls' = calls /\ left' = left /\ queue' = queue
        /\ children' = children /\ recorded' = recorded /\ holders' = holders
        /\ ut_iter' = ut_iter + 1
    BY <1>5
  <2>3. /\ untyped \in Seq(Uts) /\ ut_iter \in 1 .. Len(untyped) /\ Len(untyped) \in Nat
        /\ ut_iter + 1 \in 1 .. Len(untyped)
    BY <1>1, <1>2, <1>5 DEF TypeOK
  <2>4. u \in Uts /\ ut' = u
    BY <2>1, <2>2, <2>3 DEF ut
  <2>5. Watermark(u) \in Nat /\ End(u) \in Nat /\ Watermark(u) <= End(u)
    BY <1>1, <2>4, ChildFacts, InputFacts DEF CoverInv, TypeOK
  <2>6. Remaining(u) \in Nat /\ Watermark(u) + Remaining(u) = End(u)
    BY <2>5 DEF Remaining
  <2>7. Uts' = Uts /\ Objs' = Objs /\ Sized' = Sized /\ Unfun' = Unfun
    BY <2>2 DEF Uts, Objs, Sized, Unfun
  <2>8. \/ todo' = Remaining(u) /\ alloc' = "fill"
        \/ todo' = 0 /\ alloc' = "rest"
    BY <1>2, <1>3, <1>5, <2>1
  <2>9. alloc' \in Active /\ alloc' \in {"rest", "fill"}
    BY <2>8 DEF Active
  <2>10. TypeOK'
    <3>1. todo' \in Nat
      BY <2>6, <2>8
    <3>2. ut_iter' \in 0 .. Len(untyped) /\ ut_iter' # 0
      BY <2>2, <2>3
    <3>. QED
      BY <1>1, <2>2, <2>7, <2>9, <3>1, <3>2 DEF TypeOK
  <2>11. CoverInv'
    <3>1. UntypedsDisjoint' /\ UntypedsAligned' /\ (\A v \in Uts : Watermark(v) <= End(v))'
      BY <1>1, <2>2 DEF CoverInv, UntypedsDisjoint, UntypedsAligned, Watermark, End, Uts
    <3>2. (\A v \in Uts : \A k \in DOMAIN children[v] : ChildOK(v, k))'
      BY <1>1, <2>2 DEF CoverInv, ChildOK, ChildFits, DeviceOnlyPinned, PlaceholderKnown,
         ChildAddr, End, Uts
    <3>3. children[u] = <<>>
      <4>1. ut_iter + 1 \in ut_iter + 1 .. Len(untyped)
        BY <2>3
      <4>. QED
        BY <1>1, <1>2, <2>1, <4>1 DEF CoverInv, LaterEmpty
    <3>4. CurrentKnown'
      BY <2>2, <2>4, <3>3 DEF CurrentKnown
    <3>5. LaterEmpty'
      <4>1. \A j \in (ut_iter + 1) + 1 .. Len(untyped) : j \in ut_iter + 1 .. Len(untyped)
        BY <2>3
      <4>. QED
        BY <1>1, <1>2, <2>2, <4>1 DEF CoverInv, LaterEmpty
    <3>6. RecordedEarlier'
      BY <2>8 DEF RecordedEarlier
    <3>. QED
      BY <3>1, <3>2, <3>4, <3>5, <3>6 DEF CoverInv
  <2>12. FillInv'
    <3>1. Watermark(u)' = Watermark(u) /\ End(u)' = End(u)
      BY <2>2 DEF Watermark, End
    <3>2. alloc' = "fill" => Watermark(ut)' + todo' = Limit'
      <4>. SUFFICES ASSUME alloc' = "fill" PROVE Watermark(ut)' + todo' = Limit'
        OBVIOUS
      <4>1. Limit' = End(ut)'
        BY DEF Limit
      <4>2. End(ut)' = End(u) /\ Watermark(ut)' = Watermark(u)
        BY <2>2, <2>4 DEF End, Watermark
      <4>. QED
        BY <2>6, <2>8, <4>1, <4>2
    <3>. QED
      BY <1>3, <2>2, <2>8, <3>2 DEF FillInv
  <2>13. QueueInv'
    BY <1>1, <1>2, <1>3, <2>2, <2>8, <2>9, QueueSame
  <2>14. NothingYet'
    BY <2>8 DEF NothingYet
  <2>. QED
    BY <2>10, <2>11, <2>12, <2>13, <2>14 DEF Inv
<1>. QED
  BY <1>4, <1>5 DEF NextRest
-----------------------------------------------------------------------------
LEMMA StartInv ==
    ASSUME GoodInput(in), Start
    PROVE  Inv
<1>1. /\ alloc = "add" /\ untyped = <<>> /\ ut_iter = 0 /\ todo = 0 /\ calls = <<>> /\ left = None
      /\ queue = {} /\ children = [u \in Uts |-> <<>>] /\ recorded = {} /\ holders = {}
  BY DEF Start
<1>2. Len(untyped) = 0 /\ untyped \in Seq(Uts) /\ DOMAIN untyped = {}
  BY <1>1
<1>3. calls \in Seq(Frame) /\ children \in [Uts -> Seq(Child)]
  BY <1>1
<1>4. ut_iter \in 0 .. Len(untyped) /\ todo \in Nat
  BY <1>1, <1>2
<1>5. TypeOK
  BY <1>1, <1>2, <1>3, <1>4 DEF TypeOK, Active, None
<1>6. \A u \in Uts : children[u] = <<>> /\ DOMAIN children[u] = {}
  BY <1>1
<1>7. NothingYet
  BY <1>1, <1>6 DEF NothingYet
<1>8. CoverInv
  <2>1. \A u \in Uts : Watermark(u) <= End(u)
    <3>. SUFFICES ASSUME NEW u \in Uts PROVE Watermark(u) <= End(u)
      OBVIOUS
    <3>1. in.uts[u].paddr \in Nat /\ in.uts[u].size \in Nat
      BY InputFacts
    <3>2. SizeOf(<<>>, 0) = 0
      <4>1. \A k \in 1 .. 0 : (<<>>[k]).size \in Nat
        OBVIOUS
      <4>. QED
        BY <4>1, SizeOfFacts, 0 \in Nat
    <3>3. Watermark(u) = in.uts[u].paddr + 0
      BY <1>6, <3>2, Len(<<>>) = 0 DEF Watermark
    <3>. QED
      BY <3>1, <3>3 DEF End
  <2>2. UntypedsDisjoint /\ UntypedsAligned
    BY <1>2 DEF UntypedsDisjoint, UntypedsAligned
  <2>3. CurrentKnown /\ LaterEmpty /\ RecordedEarlier
    BY <1>1 DEF CurrentKnown, LaterEmpty, RecordedEarlier, Active
  <2>. QED
    BY <1>6, <2>1, <2>2, <2>3 DEF CoverInv
<1>9. FillInv
  BY <1>1 DEF FillInv
<1>10. QueueInv
  BY <1>1 DEF QueueInv, Active
<1>. QED
  BY <1>5, <1>7, <1>8, <1>9, <1>10 DEF Inv

LEMMA StepInv ==
    ASSUME Inv, Step
    PROVE  Inv'
<1>1. CASE Using
  BY <1>1, SkipPieceInv, FillPieceInv, NothingFitsInv, ObjectFitsInv, TryHalvesInv, SecondHalfInv,
     BothHalvesInv, PieceDoneInv DEF Using
<1>2. CASE \/ RetireUt \/ MissUnfun \/ FillGap \/ PlaceUnfun \/ FillUt \/ SkipUt
  BY <1>2, RetireUtInv, MissUnfunInv, FillGapInv, PlaceUnfunInv, FillUtInv, SkipUtInv
<1>3. CASE \/ AfterUnfun \/ AfterTail \/ NextRest \/ RestFilled \/ Finish
  BY <1>3, AfterUnfunInv, AfterTailInv, NextRestInv, RestFilledInv, FinishInv
<1>4. CASE AddUntyped \/ Allocate
  BY <1>4, AddUntypedInv, AllocateInv
<1>. QED
  BY <1>1, <1>2, <1>3, <1>4 DEF Step

LEMMA StutterInv ==
    ASSUME Inv, vars' = vars
    PROVE  Inv'
<1>1. TypeOK /\ NothingYet /\ CoverInv /\ FillInv /\ QueueInv
  BY DEF Inv
<1>2. /\ in' = in /\ alloc' = alloc /\ untyped' = untyped /\ ut_iter' = ut_iter /\ todo' = todo
      /\ calls' = calls /\ left' = left /\ queue' = queue /\ children' = children
      /\ recorded' = recorded /\ holders' = holders
  BY DEF vars
<1>3. CoverInv'
  BY <1>1, <1>2, CoverSame
<1>4. Uts' = Uts /\ Objs' = Objs /\ Sized' = Sized /\ Unfun' = Unfun
  BY <1>2 DEF Uts, Objs, Sized, Unfun
<1>5. QueueInv'
  <2>1. \A o : ChildPlaces(o)' = ChildPlaces(o)
    BY <1>2, <1>4 DEF ChildPlaces
  <2>2. \A o : Placed(o)' <=> Placed(o)
    BY <1>2, <2>1 DEF Placed
  <2>. QED
    BY <1>1, <1>2, <1>4, <2>2 DEF QueueInv
<1>6. TypeOK' /\ NothingYet'
  BY <1>1, <1>2, <1>4 DEF TypeOK, NothingYet
<1>7. FillInv'
  <2>1. CASE calls = <<>>
    <3>1. ut' = ut /\ Goal' = Goal /\ Limit' = Limit /\ End(ut)' = End(ut)
      BY <1>2, <1>4, SameGoal
    <3>2. Watermark(ut)' = Watermark(ut)
      BY <1>2, <3>1 DEF Watermark
    <3>. QED
      BY <1>1, <1>2, <1>4, <2>1, <3>1, <3>2 DEF FillInv
  <2>2. CASE calls # <<>>
    <3>1. PICK S \in [1 .. Len(calls) -> Nat] : Blocks(S)
      BY <1>1, <2>2 DEF FillInv
    <3>2. /\ ut' = ut /\ Goal' = Goal /\ Limit' = Limit /\ top' = top /\ End(ut)' = End(ut)
          /\ IsDevice' = IsDevice
      BY <1>2, <1>4, SameGoal DEF top
    <3>3. Watermark(ut)' = Watermark(ut)
      BY <1>2, <3>2 DEF Watermark
    <3>4. Blocks(S)'
      BY <1>2, <3>1, <3>2, <3>3 DEF Blocks, Block, Half
    <3>. QED
      BY <1>1, <1>2, <1>4, <2>2, <3>1, <3>2, <3>4 DEF FillInv
  <2>. QED
    BY <2>1, <2>2
<1>. QED
  BY <1>3, <1>5, <1>6, <1>7 DEF Inv

(* The invariant has what the two properties say. *)
LEMMA InvCovers == Inv => CoversAcceptable
BY DEF Inv, CoverInv, CoversAcceptable, ChildOK

LEMMA InvAllocated == Inv => AllocatedOnce
<1>. SUFFICES ASSUME Inv PROVE AllocatedOnce
  OBVIOUS
<1>1. alloc = "done" => queue = {}
  BY DEF Inv, QueueInv
<1>2. ASSUME alloc \in {"unfun", "pin", "tail", "rest", "fill", "done"}, Objs # {},
             NEW o \in {p \in Objs : in.objs[p].size # 0}
      PROVE  Cardinality(ChildPlaces(o)) = IF o \in queue THEN 0 ELSE 1
  <2>1. Placed(o)
    BY <1>2 DEF Inv, QueueInv, Active, Sized
  <2>2. CASE o \in queue
    BY <2>1, <2>2, FS_EmptySet DEF Placed
  <2>3. CASE o \notin queue
    <3>1. PICK p : ChildPlaces(o) = {p}
      BY <2>1, <2>3 DEF Placed
    <3>2. Cardinality({p}) = 1
      BY FS_Singleton
    <3>. QED
      BY <2>3, <3>1, <3>2
  <2>. QED
    BY <2>2, <2>3
<1>. QED
  BY <1>1, <1>2 DEF AllocatedOnce
=============================================================================
