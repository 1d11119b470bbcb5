----------------------------- MODULE LoadFrames -----------------------------
(***************************************************************************)
(* capdl-loader-app: cache_extended_bootinfo_headers, and what init_frames *)
(* writes into a frame.  A frame has a list of fills, applied in order; a  *)
(* fill copies from a block of the extended boot information or from a     *)
(* file of the archive.  size_t has Width bits.                            *)
(***************************************************************************)
EXTENDS Integers, Sequences

CONSTANTS Frames,      \* frames with their fills, and the boot information
          Width,       \* the bits of size_t
          HeaderSize   \* sizeof(seL4_BootInfoHeader)

ASSUME WidthAssumption ==
    /\ Width \in Nat \ {0} /\ 2 ^ Width \in Nat \ {0}
    /\ HeaderSize \in Nat \ {0}

VARIABLES f,         \* the frame
          pc, i,     \* the phase and the next chunk or fill
          table,     \* extended_bootinfo_table: the chunk of every id, 0 for none
          mem,       \* the frame's bytes
          outside    \* the offsets written that the frame does not have

vars == <<f, pc, i, table, mem, outside>>

Ids == {1, 2, 3}       \* of chunks: SEL4_BOOTINFO_HEADER_NUM
FillIds == {1, 2}      \* ... that a fill may name: VBE, TSC_Freq and FDT
Zero == <<"zero", 0>>

ASSUME FramesAssumption ==
    \A x \in Frames :
        /\ x.size \in Nat
        /\ x.chunks \in Seq([id : Ids, len : Nat])
        /\ x.fills \in Seq([kind : STRING, id : Nat, off : Nat, len : Nat, src : Nat])
-----------------------------------------------------------------------------
Init ==
    /\ f \in Frames
    /\ pc = "headers" /\ i = 1
    /\ table = [id \in Ids |-> 0]
    /\ mem = [o \in 0 .. f.size - 1 |-> Zero]
    /\ outside = {}

(* cache_extended_bootinfo_headers: one chunk after the other. *)
CacheHeader ==
    /\ pc = "headers" /\ i <= Len(f.chunks)
    /\ table' = [table EXCEPT ![f.chunks[i].id] = i]
    /\ i' = i + 1
    /\ UNCHANGED <<f, pc, mem, outside>>

EndHeaders ==
    /\ pc = "headers" /\ i > Len(f.chunks)
    /\ pc' = "fill" /\ i' = 1
    /\ UNCHANGED <<f, table, mem, outside>>

(* memcpy to the offset dest: the byte at dest + n becomes bytes[n]. *)
Memcpy(dest, bytes) ==
    /\ mem' = [o \in DOMAIN mem |-> IF o - dest \in DOMAIN bytes THEN bytes[o - dest] ELSE mem[o]]
    /\ outside' = outside \cup {dest + n : n \in {k \in DOMAIN bytes : dest + k \notin DOMAIN mem}}

Fill == f.fills[i]
Min2(a, b) == IF a <= b THEN a ELSE b

(* Mutant of Room: the offset is ignored. *)
RoomOfFrame == f.size % 2 ^ Width

(* max, as the comparison with the unsigned dest_len takes it. *)
Room == (f.size - Fill.off) % 2 ^ Width

Filling == pc = "fill" /\ i <= Len(f.fills)
Accepted ==
    /\ Fill.len <= Room
    /\ Fill.kind = "file" \/ (Fill.kind = "bootinfo" /\ Fill.id \in FillIds)

(* The bytes of the chunk from src_offset on. *)
BlockLen(c) == IF f.chunks[c].len < Fill.src THEN 0 ELSE f.chunks[c].len - Fill.src

(* Mutant of CopyLen: the whole block is copied. *)
CopyLenUnbounded(c) == BlockLen(c)

(* Not past the block, not more than the fill asks for. *)
CopyLen(c) == Min2(BlockLen(c), Fill.len)

FillWithBootinfo ==
    /\ Filling /\ Accepted /\ Fill.kind = "bootinfo"
    /\ LET c == table[Fill.id]
       IN  \/ /\ c # 0
              /\ Memcpy(Fill.off, [n \in 0 .. CopyLen(c) - 1 |-> <<"chunk", c, Fill.src + n>>])
           \/ /\ c = 0 /\ Fill.src = 0
              /\ Memcpy(0, [n \in 0 .. Min2(HeaderSize, Fill.len) - 1 |-> <<"empty", n>>])
           \/ /\ c = 0 /\ Fill.src # 0
              /\ UNCHANGED <<mem, outside>>
    /\ i' = i + 1
    /\ UNCHANGED <<f, pc, table>>

(* The file is in the archive and has the bytes: the code takes both for   *)
(* granted.                                                                *)
FillWithFiledata ==
    /\ Filling /\ Accepted /\ Fill.kind = "file"
    /\ Memcpy(Fill.off, [n \in 0 .. Fill.len - 1 |-> <<"file", Fill.src + n>>])
    /\ i' = i + 1
    /\ UNCHANGED <<f, pc, table>>

BadFill ==
    /\ Filling /\ ~Accepted
    /\ pc' = "fatal"
    /\ UNCHANGED <<f, i, table, mem, outside>>

EndFills ==
    /\ pc = "fill" /\ i > Len(f.fills)
    /\ pc' = "done"
    /\ UNCHANGED <<f, i, table, mem, outside>>

Halt == pc \in {"done", "fatal"} /\ UNCHANGED vars

Next ==
    \/ CacheHeader \/ EndHeaders
    \/ FillWithBootinfo \/ FillWithFiledata \/ BadFill \/ EndFills
    \/ Halt

Spec == Init /\ [][Next]_vars
-----------------------------------------------------------------------------
(* What the fills say, byte by byte: the last fill that has a byte for an  *)
(* offset decides.  A block of boot information that does not exist is an  *)
(* empty header.                                                           *)
Chunk(id) == {c \in DOMAIN f.chunks : /\ f.chunks[c].id = id
                                      /\ \A d \in DOMAIN f.chunks : f.chunks[d].id = id => d <= c}
Says(w, o) ==
    LET n == o - w.off
    IN  IF n < 0 \/ n >= w.len THEN {}
        ELSE IF w.kind = "file" THEN {<<"file", w.src + n>>}
        ELSE IF Chunk(w.id) = {} THEN IF w.src = 0 /\ n < HeaderSize THEN {<<"empty", n>>} ELSE {}
        ELSE {<<"chunk", c, w.src + n>> : c \in {d \in Chunk(w.id) : w.src + n < f.chunks[d].len}}

Contents(o) ==
    LET w == {k \in DOMAIN f.fills : Says(f.fills[k], o) # {}}
    IN  IF w = {} THEN {Zero}
        ELSE Says(f.fills[CHOOSE k \in w : \A j \in w : j <= k], o)

(* A filled frame has exactly the bytes its fills describe, for any number *)
(* of overlapping fills, blocks cut off by the end of the boot information *)
(* or by the fill, and chunks that occur twice; except where an empty      *)
(* header belongs behind the start of the frame.                           *)
HeaderAtStart == \A k \in DOMAIN f.fills :
    f.fills[k].kind = "bootinfo" /\ Chunk(f.fills[k].id) = {} => f.fills[k].off = 0
FrameContents ==
    pc = "done" /\ HeaderAtStart => \A o \in DOMAIN mem : mem[o] \in Contents(o)

(* The check of dest_len keeps every write inside the frame, as long as    *)
(* the fill begins in the frame.                                           *)
OffsetsInFrame == \A k \in DOMAIN f.fills : f.fills[k].off <= f.size
FillsInFrame == OffsetsInFrame => outside = {}
-----------------------------------------------------------------------------
(***************************************************************************)
(* The inductive invariant, by parts.                                      *)
(***************************************************************************)
LoadTypeOK ==
    /\ f \in Frames
    /\ pc \in {"headers", "fill", "done", "fatal"}
    /\ i \in Nat \ {0}
    /\ pc = "headers" => i <= Len(f.chunks) + 1
    /\ pc \in {"fill", "done"} => i <= Len(f.fills) + 1
    /\ table \in [Ids -> 0 .. Len(f.chunks)]
    /\ DOMAIN mem = 0 .. f.size - 1

(* The table has the last of the first n chunks with every id. *)
Cached(n) ==
    \A id \in Ids :
        /\ table[id] = 0 => \A d \in 1 .. n : f.chunks[d].id # id
        /\ table[id] # 0 => /\ table[id] \in 1 .. n /\ f.chunks[table[id]].id = id
                           /\ \A d \in 1 .. n : f.chunks[d].id = id => d <= table[id]

(* A byte is what the last of the first n fills that has one for it says. *)
Filled(n) ==
    \A o \in DOMAIN mem :
        \/ mem[o] = Zero /\ \A k \in 1 .. n : Says(f.fills[k], o) = {}
        \/ \E k \in 1 .. n : /\ mem[o] \in Says(f.fills[k], o)
                             /\ \A j \in k + 1 .. n : Says(f.fills[j], o) = {}

LoadInv ==
    /\ Cached(IF pc = "headers" THEN i - 1 ELSE Len(f.chunks))
    /\ pc = "headers" => mem = [o \in 0 .. f.size - 1 |-> Zero]
    /\ pc \in {"fill", "done"} /\ HeaderAtStart => Filled(i - 1)
    /\ pc = "done" => i = Len(f.fills) + 1
    /\ FillsInFrame
=============================================================================
