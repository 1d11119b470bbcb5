-------------------------- MODULE LoadFramesProofs --------------------------
(***************************************************************************)
(* Proofs about cache_extended_bootinfo_headers and init_frames, for every *)
(* size, number of fills and content of the boot information.              *)
(***************************************************************************)
EXTENDS LoadFrames, TLAPS

Inv == LoadTypeOK /\ LoadInv
-----------------------------------------------------------------------------
(* What a frame consists of. *)
LEMMA FrameFacts ==
    ASSUME f \in Frames
    PROVE  /\ f.size \in Nat
           /\ Len(f.chunks) \in Nat /\ DOMAIN f.chunks = 1 .. Len(f.chunks)
           /\ \A d \in 1 .. Len(f.chunks) : f.chunks[d].id \in Ids /\ f.chunks[d].len \in Nat
           /\ Len(f.fills) \in Nat /\ DOMAIN f.fills = 1 .. Len(f.fills)
           /\ \A n \in 1 .. Len(f.fills) :
                 f.fills[n].off \in Nat /\ f.fills[n].len \in Nat /\ f.fills[n].src \in Nat
<1>. DEFINE C == [id : Ids, len : Nat]
            W == [kind : STRING, id : Nat, off : Nat, len : Nat, src : Nat]
<1>1. f.size \in Nat /\ f.chunks \in Seq(C) /\ f.fills \in Seq(W)
  BY FramesAssumption
<1>2. (\A c \in C : c.id \in Ids /\ c.len \in Nat)
      /\ \A w \in W : w.off \in Nat /\ w.len \in Nat /\ w.src \in Nat
  OBVIOUS
<1>. HIDE DEF C, W
<1>3. \A d \in 1 .. Len(f.chunks) : f.chunks[d] \in C
  BY <1>1
<1>4. \A n \in 1 .. Len(f.fills) : f.fills[n] \in W
  BY <1>1
<1>. QED
  BY <1>1, <1>2, <1>3, <1>4

(* What a fill says does not depend on the progress. *)
LEMMA SaysKept ==
    ASSUME f' = f
    PROVE  /\ \A w, o : Says(w, o)' = Says(w, o)
           /\ \A id : Chunk(id)' = Chunk(id)
           /\ (HeaderAtStart' <=> HeaderAtStart) /\ (OffsetsInFrame' <=> OffsetsInFrame)
<1>1. \A id : Chunk(id)' = Chunk(id)
  BY DEF Chunk
<1>. QED
  BY <1>1 DEF Says, HeaderAtStart, OffsetsInFrame

(* When the headers are cached, the table has the block of every id. *)
LEMMA CachedChunk ==
    ASSUME f \in Frames, Cached(Len(f.chunks)), NEW id \in Ids
    PROVE  Chunk(id) = IF table[id] = 0 THEN {} ELSE {table[id]}
<1>1. Len(f.chunks) \in Nat /\ DOMAIN f.chunks = 1 .. Len(f.chunks)
  BY FrameFacts
<1>2. CASE table[id] = 0
  BY <1>1, <1>2 DEF Cached, Chunk
<1>3. CASE table[id] # 0
  <2>1. /\ table[id] \in 1 .. Len(f.chunks) /\ f.chunks[table[id]].id = id
        /\ \A d \in 1 .. Len(f.chunks) : f.chunks[d].id = id => d <= table[id]
    BY <1>3 DEF Cached
  <2>2. table[id] \in Chunk(id)
    BY <1>1, <2>1 DEF Chunk
  <2>3. ASSUME NEW c \in Chunk(id) PROVE c = table[id]
    <3>1. c \in 1 .. Len(f.chunks) /\ c <= table[id] /\ table[id] <= c
      BY <1>1, <2>1 DEF Chunk
    <3>. QED
      BY <2>1, <3>1
  <2>. QED
    BY <1>3, <2>2, <2>3
<1>. QED
  BY <1>2, <1>3
-----------------------------------------------------------------------------
(* A copy is what the fill says: inside the frame, and byte by byte. *)

(* The check of dest_len. *)
LEMMA AcceptedInFrame ==
    ASSUME f \in Frames, i \in 1 .. Len(f.fills), Accepted, Fill.off <= f.size
    PROVE  Fill.off + Fill.len <= f.size
<1>1. /\ f.size \in Nat /\ Fill.off \in Nat /\ Fill.len \in Nat
  BY FrameFacts DEF Fill
<1>2. PICK z \in Nat \ {0} : z = 2 ^ Width
  BY WidthAssumption
<1>3. PICK x \in Nat : x = f.size - Fill.off
  BY <1>1
<1>4. x % z <= x
  OBVIOUS
<1>5. Fill.len <= x % z
  BY <1>2, <1>3 DEF Accepted, Room
<1>6. x % z \in Nat
  OBVIOUS
<1>. QED
  BY <1>1, <1>3, <1>4, <1>5, <1>6

(* memcpy of n bytes from the offset dest on. *)
LEMMA MemcpyFacts ==
    ASSUME NEW dest \in Nat, NEW n \in Int, NEW bytes, DOMAIN bytes = 0 .. n - 1,
           Memcpy(dest, bytes), NEW size \in Nat, DOMAIN mem = 0 .. size - 1
    PROVE  /\ DOMAIN mem' = DOMAIN mem
           /\ \A o \in DOMAIN mem :
                 mem'[o] = IF dest <= o /\ o < dest + n THEN bytes[o - dest] ELSE mem[o]
           /\ dest + n <= size => outside' = outside
<1>1. /\ mem' = [o \in DOMAIN mem |-> IF o - dest \in DOMAIN bytes THEN bytes[o - dest] ELSE mem[o]]
      /\ outside' = outside \cup {dest + k : k \in {x \in DOMAIN bytes : dest + x \notin DOMAIN mem}}
  BY DEF Memcpy
<1>2. ASSUME NEW o \in DOMAIN mem
      PROVE  /\ o \in Int
             /\ (o - dest \in 0 .. n - 1 <=> dest <= o /\ o < dest + n)
  BY <1>2
<1>3. ASSUME dest + n <= size, NEW x \in 0 .. n - 1 PROVE dest + x \in DOMAIN mem
  <2>1. dest + x \in 0 .. size - 1
    BY <1>3
  <2>. QED
    BY <2>1
<1>4. dest + n <= size => {x \in DOMAIN bytes : dest + x \notin DOMAIN mem} = {}
  BY <1>3
<1>. QED
  BY <1>1, <1>2, <1>4

(* A fill with the bytes of a file. *)
LEMMA FiledataSays ==
    ASSUME LoadTypeOK, FillWithFiledata
    PROVE  /\ DOMAIN mem' = DOMAIN mem
           /\ OffsetsInFrame => outside' = outside
           /\ \A o \in DOMAIN mem :
                 mem'[o] \in Says(Fill, o) \/ (mem'[o] = mem[o] /\ Says(Fill, o) = {})
<1>. DEFINE B == [n \in 0 .. Fill.len - 1 |-> <<"file", Fill.src + n>>]
<1>1. /\ f \in Frames /\ i \in 1 .. Len(f.fills) /\ f.size \in Nat /\ DOMAIN mem = 0 .. f.size - 1
      /\ Fill.off \in Nat /\ Fill.len \in Nat /\ Fill.src \in Nat
      /\ Accepted /\ Fill.kind = "file" /\ Memcpy(Fill.off, B)
  BY FrameFacts DEF FillWithFiledata, Filling, LoadTypeOK, Fill
<1>2. DOMAIN B = 0 .. Fill.len - 1 /\ \A n \in 0 .. Fill.len - 1 : B[n] = <<"file", Fill.src + n>>
  OBVIOUS
<1>. HIDE DEF B
<1>3. /\ DOMAIN mem' = DOMAIN mem
      /\ \A o \in DOMAIN mem :
            mem'[o] = IF Fill.off <= o /\ o < Fill.off + Fill.len THEN B[o - Fill.off] ELSE mem[o]
      /\ Fill.off + Fill.len <= f.size => outside' = outside
  <2>1. Fill.len \in Int
    BY <1>1
  <2>. QED
    BY <1>1, <1>2, <2>1, MemcpyFacts, Zenon
<1>4. OffsetsInFrame => Fill.off + Fill.len <= f.size
  BY <1>1, AcceptedInFrame, FrameFacts DEF OffsetsInFrame, Fill
<1>5. ASSUME NEW o \in DOMAIN mem
      PROVE  mem'[o] \in Says(Fill, o) \/ (mem'[o] = mem[o] /\ Says(Fill, o) = {})
  <2>1. o \in Nat
    BY <1>1
  <2>2. CASE Fill.off <= o /\ o < Fill.off + Fill.len
    <3>1. o - Fill.off \in 0 .. Fill.len - 1 /\ ~(o - Fill.off < 0) /\ ~(o - Fill.off >= Fill.len)
      BY <1>1, <2>1, <2>2
    <3>2. mem'[o] = <<"file", Fill.src + (o - Fill.off)>>
      BY <1>2, <1>3, <2>2, <3>1
    <3>3. Says(Fill, o) = {<<"file", Fill.src + (o - Fill.off)>>}
      BY <1>1, <3>1 DEF Says
    <3>. QED
      BY <3>2, <3>3
  <2>3. CASE ~(Fill.off <= o /\ o < Fill.off + Fill.len)
    <3>1. o - Fill.off < 0 \/ o - Fill.off >= Fill.len
      BY <1>1, <2>1, <2>3
    <3>. QED
      BY <1>3, <2>3, <3>1 DEF Says
  <2>. QED
    BY <2>2, <2>3
<1>. QED
  BY <1>3, <1>4, <1>5

(* A fill with a block of the boot information. *)
LEMMA BootinfoSays ==
    ASSUME LoadTypeOK, Cached(Len(f.chunks)), FillWithBootinfo
    PROVE  /\ DOMAIN mem' = DOMAIN mem
           /\ OffsetsInFrame => outside' = outside
           /\ HeaderAtStart => \A o \in DOMAIN mem :
                 mem'[o] \in Says(Fill, o) \/ (mem'[o] = mem[o] /\ Says(Fill, o) = {})
<1>. DEFINE c == table[Fill.id]
<1>1. /\ f \in Frames /\ i \in 1 .. Len(f.fills) /\ f.size \in Nat /\ DOMAIN mem = 0 .. f.size - 1
      /\ Fill.off \in Nat /\ Fill.len \in Nat /\ Fill.src \in Nat
      /\ Accepted /\ Fill.kind = "bootinfo" /\ HeaderSize \in Nat
  BY FrameFacts, WidthAssumption DEF FillWithBootinfo, Filling, LoadTypeOK, Fill
<1>2. Fill.id \in Ids /\ Fill.kind # "file"
  BY <1>1 DEF Accepted, Ids, FillIds
<1>3. Chunk(Fill.id) = IF c = 0 THEN {} ELSE {c}
  BY <1>1, <1>2, CachedChunk
<1>4. OffsetsInFrame => Fill.off + Fill.len <= f.size
  BY <1>1, AcceptedInFrame, FrameFacts DEF OffsetsInFrame, Fill
<1>5. CASE c # 0
  <2>. DEFINE L == f.chunks[c].len
              B == [n \in 0 .. CopyLen(c) - 1 |-> <<"chunk", c, Fill.src + n>>]
  <2>1. L \in Nat
    <3>1. c \in 1 .. Len(f.chunks)
      BY <1>2, <1>5 DEF Cached
    <3>. QED
      BY <1>1, <3>1, FrameFacts
  <2>. HIDE DEF L
  <2>2. CopyLen(c) = Min2(IF L < Fill.src THEN 0 ELSE L - Fill.src, Fill.len)
    BY DEF CopyLen, BlockLen, L
  <2>3. /\ CopyLen(c) \in Nat /\ CopyLen(c) <= Fill.len
        /\ \A n \in Nat : n < CopyLen(c) <=> n < Fill.len /\ Fill.src + n < L
    BY <1>1, <2>1, <2>2 DEF Min2
  <2>4. Memcpy(Fill.off, B)
    BY <1>5 DEF FillWithBootinfo
  <2>5. DOMAIN B = 0 .. CopyLen(c) - 1 /\ \A n \in 0 .. CopyLen(c) - 1 : B[n] = <<"chunk", c, Fill.src + n>>
    OBVIOUS
  <2>. HIDE DEF B
  <2>6. PICK n \in Nat : n = CopyLen(c)
    BY <2>3
  <2>7. /\ DOMAIN mem' = DOMAIN mem
        /\ \A o \in DOMAIN mem :
              mem'[o] = IF Fill.off <= o /\ o < Fill.off + n THEN B[o - Fill.off] ELSE mem[o]
        /\ Fill.off + n <= f.size => outside' = outside
    <3>1. n \in Int /\ DOMAIN B = 0 .. n - 1
      BY <2>5, <2>6
    <3>. QED
      BY <1>1, <2>4, <3>1, MemcpyFacts, Zenon
  <2>8. Fill.off + Fill.len <= f.size => Fill.off + n <= f.size
    BY <1>1, <2>3, <2>6
  <2>9. ASSUME NEW o \in DOMAIN mem
        PROVE  mem'[o] \in Says(Fill, o) \/ (mem'[o] = mem[o] /\ Says(Fill, o) = {})
    <3>1. o \in Nat
      BY <1>1
    <3>2. CASE Fill.off <= o /\ o < Fill.off + n
      <4>1. PICK x \in Nat : x = o - Fill.off /\ x < n
        BY <1>1, <3>1, <3>2
      <4>2. ~(x < 0) /\ ~(x >= Fill.len) /\ Fill.src + x < L
        BY <1>1, <2>3, <2>6, <4>1, SMTT(30)
      <4>3. mem'[o] = <<"chunk", c, Fill.src + x>>
        BY <2>5, <2>6, <2>7, <3>2, <4>1
      <4>4. Says(Fill, o) = {<<"chunk", d, Fill.src + x>> : d \in {e \in {c} : Fill.src + x < f.chunks[e].len}}
        BY <1>2, <1>3, <1>5, <4>1, <4>2 DEF Says
      <4>. QED
        BY <4>2, <4>3, <4>4 DEF L
    <3>3. CASE ~(Fill.off <= o /\ o < Fill.off + n)
      <4>1. mem'[o] = mem[o]
        BY <2>7, <3>3
      <4>2. CASE o - Fill.off < 0 \/ o - Fill.off >= Fill.len
        BY <4>1, <4>2 DEF Says
      <4>3. CASE ~(o - Fill.off < 0) /\ ~(o - Fill.off >= Fill.len)
        <5>1. PICK x \in Nat : x = o - Fill.off /\ ~(x < n) /\ x < Fill.len
          BY <1>1, <3>1, <3>3, <4>3
        <5>2. ~(Fill.src + x < L)
          BY <2>3, <2>6, <5>1
        <5>3. Says(Fill, o) = {<<"chunk", d, Fill.src + x>> : d \in {e \in {c} : Fill.src + x < f.chunks[e].len}}
          BY <1>2, <1>3, <1>5, <4>3, <5>1 DEF Says
        <5>. QED
          BY <4>1, <5>2, <5>3 DEF L
      <4>. QED
        BY <4>2, <4>3
    <3>. QED
      BY <3>2, <3>3
  <2>. QED
    BY <1>4, <2>7, <2>8, <2>9
<1>6. CASE c = 0 /\ Fill.src = 0
  <2>. DEFINE B == [n \in 0 .. Min2(HeaderSize, Fill.len) - 1 |-> <<"empty", n>>]
  <2>1. PICK n \in Nat : /\ n = Min2(HeaderSize, Fill.len) /\ n <= Fill.len
                         /\ \A x \in Nat : x < n <=> x < Fill.len /\ x < HeaderSize
    BY <1>1 DEF Min2
  <2>2. Memcpy(0, B)
    BY <1>6 DEF FillWithBootinfo
  <2>3. DOMAIN B = 0 .. n - 1 /\ \A x \in 0 .. n - 1 : B[x] = <<"empty", x>>
    BY <2>1
  <2>. HIDE DEF B
  <2>4. /\ DOMAIN mem' = DOMAIN mem
        /\ \A o \in DOMAIN mem : mem'[o] = IF 0 <= o /\ o < 0 + n THEN B[o - 0] ELSE mem[o]
        /\ 0 + n <= f.size => outside' = outside
    <3>1. n \in Int /\ 0 \in Nat
      OBVIOUS
    <3>. QED
      BY <1>1, <2>2, <2>3, <3>1, MemcpyFacts, Zenon
  <2>5. Fill.off + Fill.len <= f.size => 0 + n <= f.size
    BY <1>1, <2>1
  <2>6. ASSUME HeaderAtStart, NEW o \in DOMAIN mem
        PROVE  mem'[o] \in Says(Fill, o) \/ (mem'[o] = mem[o] /\ Says(Fill, o) = {})
    <3>1. o \in Nat /\ o - 0 = o /\ 0 + n = n /\ 0 <= o
      BY <1>1
    <3>2. Fill.off = 0
      BY <1>1, <1>3, <1>6, <2>6, FrameFacts DEF HeaderAtStart, Fill
    <3>3. Says(Fill, o) = IF o < 0 \/ o >= Fill.len THEN {}
                          ELSE IF o < HeaderSize THEN {<<"empty", o>>} ELSE {}
      BY <1>2, <1>3, <1>6, <3>1, <3>2 DEF Says
    <3>4. mem'[o] = IF o < n THEN <<"empty", o>> ELSE mem[o]
      <4>1. mem'[o] = IF o < n THEN B[o] ELSE mem[o]
        BY <2>4, <3>1
      <4>2. o < n => o \in 0 .. n - 1
        BY <3>1
      <4>. QED
        BY <2>3, <4>1, <4>2
    <3>5. o < n <=> ~(o < 0 \/ o >= Fill.len) /\ o < HeaderSize
      BY <1>1, <2>1, <3>1
    <3>. QED
      BY <3>3, <3>4, <3>5
  <2>. QED
    BY <1>4, <2>4, <2>5, <2>6
<1>7. CASE c = 0 /\ Fill.src # 0
  <2>1. mem' = mem /\ outside' = outside
    BY <1>7 DEF FillWithBootinfo
  <2>2. \A o : Says(Fill, o) = {}
    BY <1>2, <1>3, <1>7 DEF Says
  <2>. QED
    BY <2>1, <2>2
<1>. QED
  BY <1>5, <1>6, <1>7
-----------------------------------------------------------------------------
(* The steps of the invariant. *)
LEMMA CacheHeaderInv ==
    ASSUME Inv, CacheHeader
    PROVE  Inv'
<1>. USE DEF Inv
<1>1. /\ pc = "headers" /\ pc' = pc /\ f' = f /\ mem' = mem /\ outside' = outside /\ i' = i + 1
      /\ f \in Frames /\ i \in Nat \ {0} /\ i <= Len(f.chunks) /\ Cached(i - 1)
      /\ table \in [Ids -> 0 .. Len(f.chunks)]
      /\ table' = [table EXCEPT ![f.chunks[i].id] = i]
  BY DEF CacheHeader, LoadTypeOK, LoadInv
<1>2. Len(f.chunks) \in Nat /\ f.chunks[i].id \in Ids
  BY <1>1, FrameFacts
<1>3. i \in 0 .. Len(f.chunks) /\ i' - 1 = i /\ i' \in Nat \ {0} /\ i' <= Len(f.chunks) + 1
  BY <1>1, <1>2
<1>4. \A id \in Ids : table'[id] = IF id = f.chunks[i].id THEN i ELSE table[id]
  BY <1>1
<1>5. LoadTypeOK'
  BY <1>1, <1>2, <1>3 DEF LoadTypeOK
<1>6. Cached(i - 1)'
  <2>1. SUFFICES ASSUME NEW id \in Ids
                 PROVE  /\ table'[id] = 0 => \A d \in 1 .. i' - 1 : f.chunks[d].id # id
                        /\ table'[id] # 0 =>
                              /\ table'[id] \in 1 .. i' - 1 /\ f.chunks[table'[id]].id = id
                              /\ \A d \in 1 .. i' - 1 : f.chunks[d].id = id => d <= table'[id]
    BY <1>1, <1>3 DEF Cached
  <2>2. \A d \in 1 .. i' - 1 : d = i \/ d \in 1 .. i - 1
    BY <1>1, <1>3
  <2>3. \A d \in 1 .. i - 1 : d \in 1 .. i' - 1
    BY <1>1, <1>3
  <2>4. CASE id = f.chunks[i].id
    BY <1>1, <1>3, <1>4, <2>4
  <2>5. CASE id # f.chunks[i].id
    <3>1. /\ table[id] = 0 => \A d \in 1 .. i - 1 : f.chunks[d].id # id
          /\ table[id] # 0 => /\ table[id] \in 1 .. i - 1 /\ f.chunks[table[id]].id = id
                              /\ \A d \in 1 .. i - 1 : f.chunks[d].id = id => d <= table[id]
      BY <1>1 DEF Cached
    <3>. QED
      BY <1>4, <2>2, <2>3, <2>5, <3>1
  <2>. QED
    BY <2>4, <2>5
<1>7. FillsInFrame'
  BY <1>1, SaysKept DEF LoadInv, FillsInFrame
<1>. QED
  BY <1>1, <1>3, <1>5, <1>6, <1>7 DEF LoadInv

LEMMA EndHeadersInv ==
    ASSUME Inv, EndHeaders
    PROVE  Inv'
<1>. USE DEF Inv
<1>1. /\ pc = "headers" /\ pc' = "fill" /\ i' = 1
      /\ f' = f /\ mem' = mem /\ outside' = outside /\ table' = table
      /\ f \in Frames /\ i \in Nat \ {0} /\ i > Len(f.chunks) /\ i <= Len(f.chunks) + 1
      /\ Cached(i - 1) /\ mem = [o \in 0 .. f.size - 1 |-> Zero]
  BY DEF EndHeaders, LoadTypeOK, LoadInv
<1>2. Len(f.chunks) \in Nat /\ Len(f.fills) \in Nat
  BY <1>1, FrameFacts
<1>3. i - 1 = Len(f.chunks) /\ i' - 1 = 0 /\ 1 .. 0 = {} /\ 1 <= Len(f.fills) + 1
  BY <1>1, <1>2
<1>4. LoadTypeOK'
  BY <1>1, <1>3 DEF LoadTypeOK
<1>5. Cached(Len(f.chunks))'
  BY <1>1, <1>3 DEF Cached
<1>6. Filled(i - 1)'
  <2>1. \A o \in DOMAIN mem' : mem'[o] = Zero
    BY <1>1
  <2>. QED
    BY <1>3, <2>1 DEF Filled
<1>7. FillsInFrame'
  BY <1>1, SaysKept DEF LoadInv, FillsInFrame
<1>. QED
  BY <1>1, <1>4, <1>5, <1>6, <1>7 DEF LoadInv

LEMMA FillInv ==
    ASSUME Inv, FillWithBootinfo \/ FillWithFiledata
    PROVE  Inv'
<1>. USE DEF Inv
<1>1. /\ pc = "fill" /\ pc' = pc /\ i' = i + 1 /\ f' = f /\ table' = table
      /\ f \in Frames /\ i \in Nat \ {0} /\ i <= Len(f.fills)
      /\ Cached(Len(f.chunks)) /\ DOMAIN mem = 0 .. f.size - 1
  BY DEF FillWithBootinfo, FillWithFiledata, Filling, LoadTypeOK, LoadInv
<1>2. /\ DOMAIN mem' = DOMAIN mem
      /\ OffsetsInFrame => outside' = outside
      /\ HeaderAtStart => \A o \in DOMAIN mem :
            mem'[o] \in Says(Fill, o) \/ (mem'[o] = mem[o] /\ Says(Fill, o) = {})
  BY <1>1, BootinfoSays, FiledataSays
<1>3. Len(f.fills) \in Nat
  BY <1>1, FrameFacts
<1>4. i' - 1 = i /\ i' \in Nat \ {0} /\ i' <= Len(f.fills) + 1
  BY <1>1, <1>3
<1>5. LoadTypeOK'
  BY <1>1, <1>2, <1>4 DEF LoadTypeOK
<1>6. Cached(Len(f.chunks))'
  BY <1>1 DEF Cached
<1>7. ASSUME HeaderAtStart PROVE Filled(i - 1)'
  <2>1. \A w, o : Says(w, o)' = Says(w, o)
    BY <1>1, SaysKept
  <2>2. SUFFICES ASSUME NEW o \in DOMAIN mem
                 PROVE  \/ mem'[o] = Zero /\ \A n \in 1 .. i : Says(f.fills[n], o) = {}
                        \/ \E n \in 1 .. i : /\ mem'[o] \in Says(f.fills[n], o)
                                             /\ \A j \in n + 1 .. i : Says(f.fills[j], o) = {}
    BY <1>1, <1>2, <1>4, <2>1, ZenonT(30) DEF Filled
  <2>3. \/ mem[o] = Zero /\ \A n \in 1 .. i - 1 : Says(f.fills[n], o) = {}
        \/ \E n \in 1 .. i - 1 : /\ mem[o] \in Says(f.fills[n], o)
                                 /\ \A j \in n + 1 .. i - 1 : Says(f.fills[j], o) = {}
    BY <1>1, <1>7 DEF LoadInv, Filled
  <2>4. i \in 1 .. i /\ i + 1 .. i = {} /\ \A n \in 1 .. i - 1 : n \in 1 .. i
    BY <1>1
  <2>5. CASE mem'[o] \in Says(f.fills[i], o)
    BY <2>4, <2>5
  <2>6. CASE mem'[o] = mem[o] /\ Says(f.fills[i], o) = {}
    <3>1. CASE mem[o] = Zero /\ \A n \in 1 .. i - 1 : Says(f.fills[n], o) = {}
      <4>1. \A n \in 1 .. i : n = i \/ n \in 1 .. i - 1
        BY <1>1
      <4>. QED
        BY <2>6, <3>1, <4>1
    <3>2. ASSUME NEW n \in 1 .. i - 1, mem[o] \in Says(f.fills[n], o),
                 \A j \in n + 1 .. i - 1 : Says(f.fills[j], o) = {}
          PROVE  \E x \in 1 .. i : /\ mem'[o] \in Says(f.fills[x], o)
                                   /\ \A j \in x + 1 .. i : Says(f.fills[j], o) = {}
      <4>1. \A j \in n + 1 .. i : j = i \/ j \in n + 1 .. i - 1
        BY <1>1
      <4>. QED
        BY <2>4, <2>6, <3>2, <4>1
    <3>. QED
      BY <2>3, <3>1, <3>2
  <2>. QED
    BY <1>2, <1>7, <2>5, <2>6 DEF Fill
<1>8. FillsInFrame'
  BY <1>1, <1>2, SaysKept DEF LoadInv, FillsInFrame
<1>9. HeaderAtStart' <=> HeaderAtStart
  BY <1>1, SaysKept
<1>. QED
  BY <1>1, <1>5, <1>6, <1>7, <1>8, <1>9 DEF LoadInv

(* The last steps, and a step that changes nothing. *)
LEMMA EndInv ==
    ASSUME Inv, BadFill \/ EndFills \/ UNCHANGED vars
    PROVE  Inv'
<1>. USE DEF Inv
<1>1. UNCHANGED <<f, i, table, mem, outside>>
  BY DEF BadFill, EndFills, vars
<1>2. pc' = pc \/ (pc' = "fatal" /\ pc = "fill") \/ (pc = "fill" /\ pc' = "done" /\ i > Len(f.fills))
  BY DEF BadFill, EndFills, Filling, vars
<1>3. (HeaderAtStart' <=> HeaderAtStart) /\ (FillsInFrame => FillsInFrame')
  BY <1>1, SaysKept DEF FillsInFrame
<1>4. LoadTypeOK'
  BY <1>1, <1>2 DEF LoadTypeOK
<1>5. Len(f.fills) \in Nat /\ i \in Nat
  BY FrameFacts DEF LoadTypeOK
<1>6. pc = "fill" /\ pc' = "done" /\ i > Len(f.fills) => i = Len(f.fills) + 1
  BY <1>5 DEF LoadTypeOK
<1>7. Cached(IF pc = "headers" THEN i - 1 ELSE Len(f.chunks))'
  BY <1>1, <1>2 DEF LoadInv, Cached
<1>8. pc' \in {"fill", "done"} /\ HeaderAtStart' => Filled(i - 1)'
  <2>1. Filled(i - 1) => Filled(i - 1)'
    <3>1. \A w, o : Says(w, o)' = Says(w, o)
      BY <1>1, SaysKept
    <3>. QED
      BY <1>1, <3>1 DEF Filled
  <2>. QED
    BY <1>2, <1>3, <2>1 DEF LoadInv
<1>. QED
  BY <1>1, <1>2, <1>3, <1>4, <1>6, <1>7, <1>8 DEF LoadInv

(* The headers cached and the fills applied so far are in the table and in *)
(* the frame, whatever the chunks and fills are.                           *)
THEOREM LoadInvariant == Spec => []Inv
<1>1. Init => Inv
  <2>1. SUFFICES ASSUME Init PROVE Inv
    OBVIOUS
  <2>2. /\ f \in Frames /\ pc = "headers" /\ i = 1 /\ table = [id \in Ids |-> 0]
        /\ mem = [o \in 0 .. f.size - 1 |-> Zero] /\ outside = {}
    BY <2>1 DEF Init
  <2>3. Len(f.chunks) \in Nat
    BY <2>2, FrameFacts
  <2>4. i - 1 = 0 /\ 1 .. 0 = {} /\ 1 <= Len(f.chunks) + 1 /\ 0 \in 0 .. Len(f.chunks)
    BY <2>2, <2>3
  <2>5. LoadTypeOK
    BY <2>2, <2>4 DEF LoadTypeOK
  <2>6. Cached(i - 1)
    BY <2>2, <2>4 DEF Cached
  <2>. QED
    BY <2>2, <2>5, <2>6 DEF Inv, LoadInv, FillsInFrame
<1>2. Inv /\ [Next]_vars => Inv'
  BY CacheHeaderInv, EndHeadersInv, FillInv, EndInv DEF Next, Halt
<1>. QED
  BY <1>1, <1>2, PTL DEF Spec

(* init_frame: a fill that begins in its frame is written inside it, for   *)
(* every length the check of dest_len lets through.                        *)
THEOREM FillsStayInFrame == Spec => []FillsInFrame
<1>1. Inv => FillsInFrame
  BY DEF Inv, LoadInv
<1>. QED
  BY <1>1, LoadInvariant, PTL

(* A filled frame has exactly the bytes that its fills describe. *)
THEOREM FramesFilled == Spec => []FrameContents
<1>1. Inv => FrameContents
  <2>1. SUFFICES ASSUME Inv, pc = "done", HeaderAtStart, NEW o \in DOMAIN mem
                 PROVE  mem[o] \in Contents(o)
    BY DEF FrameContents
  <2>. DEFINE w == {k \in DOMAIN f.fills : Says(f.fills[k], o) # {}}
  <2>2. Len(f.fills) \in Nat /\ DOMAIN f.fills = 1 .. Len(f.fills) /\ i = Len(f.fills) + 1
    BY <2>1, FrameFacts DEF Inv, LoadTypeOK, LoadInv
  <2>3. i - 1 = Len(f.fills)
    BY <2>2
  <2>4. \/ mem[o] = Zero /\ \A n \in 1 .. Len(f.fills) : Says(f.fills[n], o) = {}
        \/ \E n \in 1 .. Len(f.fills) :
              /\ mem[o] \in Says(f.fills[n], o)
              /\ \A j \in n + 1 .. Len(f.fills) : Says(f.fills[j], o) = {}
    BY <2>1, <2>3 DEF Inv, LoadInv, Filled
  <2>5. CASE mem[o] = Zero /\ \A n \in 1 .. Len(f.fills) : Says(f.fills[n], o) = {}
    <3>1. w = {}
      BY <2>2, <2>5
    <3>. QED
      BY <2>5, <3>1 DEF Contents
  <2>6. ASSUME NEW n \in 1 .. Len(f.fills), mem[o] \in Says(f.fills[n], o),
               \A j \in n + 1 .. Len(f.fills) : Says(f.fills[j], o) = {}
        PROVE  mem[o] \in Contents(o)
    <3>1. n \in w /\ \A j \in w : j \in 1 .. Len(f.fills) /\ j <= n
      <4>1. n \in w
        BY <2>2, <2>6
      <4>2. ASSUME NEW j \in w PROVE j \in 1 .. Len(f.fills) /\ j \notin n + 1 .. Len(f.fills)
        BY <2>2, <2>6
      <4>3. \A j \in 1 .. Len(f.fills) : j <= n \/ j \in n + 1 .. Len(f.fills)
        BY <2>2
      <4>. QED
        BY <4>1, <4>2, <4>3
    <3>2. Contents(o) = IF w = {} THEN {Zero}
                        ELSE Says(f.fills[CHOOSE k \in w : \A j \in w : j <= k], o)
      BY DEF Contents
    <3>. HIDE DEF w
    <3>3. \A k \in w : (\A j \in w : j <= k) => k = n
      <4>1. \A k \in w : k <= n /\ k \in Int
        BY <3>1
      <4>2. n \in Int
        BY <2>2
      <4>. QED
        BY <3>1, <4>1, <4>2
    <3>4. (CHOOSE k \in w : \A j \in w : j <= k) = n
      BY <3>1, <3>3
    <3>. QED
      BY <2>6, <3>1, <3>2, <3>4
  <2>. QED
    BY <2>4, <2>5, <2>6
<1>. QED
  BY <1>1, LoadInvariant, PTL
=============================================================================
