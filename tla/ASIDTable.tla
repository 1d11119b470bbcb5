----------------------------- MODULE ASIDTable -----------------------------
(***************************************************************************)
(* python-capdl: ASIDTableAllocator, which gives every ASID pool of a spec *)
(* a slot of the kernel's ASID table.  Pools are numbered in the order of  *)
(* their names; None is a pool without an asid_high.                       *)
(***************************************************************************)
EXTENDS Integers, Sequences, FiniteSetsExt

CONSTANTS NumHighs   \* the slots of the ASID table

VARIABLES claims,      \* the asid_high of every pool in the spec
          phase, pool, \* the loop of allocate and its next pool
          free_asid_highs,
          asid_high    \* the asid_high of every pool as allocate leaves it

asidVars == <<claims, phase, pool, free_asid_highs, asid_high>>

None == -1
Start(c) ==
    /\ claims = c
    /\ phase = "claims" /\ pool = 1
    /\ free_asid_highs = 1 .. NumHighs - 1
    /\ asid_high = c

InPhase(p) == phase = p /\ pool <= Len(claims)

Raise == phase' = "raised" /\ UNCHANGED <<claims, pool, free_asid_highs, asid_high>>

(* Check existing claims: "already in use" is raised for one that is free. *)
(* An asid_high of 0 cannot be removed either: a KeyError.                 *)
CheckClaim ==
    LET c == asid_high[pool]
    IN  /\ InPhase("claims")
        /\ \/ c # None /\ c \notin 0 .. NumHighs - 1 /\ Raise
           \/ c # None /\ c \in free_asid_highs /\ Raise
           \/ c # None /\ c \in (0 .. NumHighs - 1) \ free_asid_highs /\ Raise
           \/ /\ c = None
              /\ pool' = pool + 1
              /\ UNCHANGED <<claims, phase, free_asid_highs, asid_high>>

NextHigh == Min(free_asid_highs)

AssignHigh ==
    /\ InPhase("assign")
    /\ \/ asid_high[pool] = None /\ free_asid_highs = {} /\ Raise
       \/ /\ asid_high[pool] = None /\ free_asid_highs # {}
          /\ asid_high' = [asid_high EXCEPT ![pool] = NextHigh]
          /\ free_asid_highs' = free_asid_highs \ {NextHigh}
          /\ pool' = pool + 1
          /\ UNCHANGED <<claims, phase>>

(* The last loop: nothing is free below an assigned slot.  Its exception   *)
(* is not reached, because the first loop has let no claim pass: a pool    *)
(* for which this guard is false would be a deadlock.                      *)
CheckContiguous ==
    /\ InPhase("contiguous")
    /\ asid_high[pool] > 0 => asid_high[pool] - 1 \notin free_asid_highs
    /\ pool' = pool + 1
    /\ UNCHANGED <<claims, phase, free_asid_highs, asid_high>>

EndLoop ==
    /\ phase \in {"claims", "assign", "contiguous"} /\ pool > Len(claims)
    /\ phase' = CASE phase = "claims" -> "assign"
                  [] phase = "assign" -> "contiguous"
                  [] OTHER            -> "assigned"
    /\ pool' = 1
    /\ UNCHANGED <<claims, free_asid_highs, asid_high>>

AllocateASIDs == CheckClaim \/ AssignHigh \/ CheckContiguous \/ EndLoop
=============================================================================
