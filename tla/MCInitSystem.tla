---------------------------- MODULE MCInitSystem ----------------------------
(***************************************************************************)
(* Instances of InitSystem and of the tool's checks: the models of         *)
(* MCShapes for a 32 bit MCS kernel, and for a RISC-V kernel without MCS   *)
(* and a loader that makes instruction pages writeable.                    *)
(***************************************************************************)
EXTENDS ModelChecks

ThirtyTwo == INSTANCE MCShapes WITH
    Build <- [mcs |-> TRUE, recursive |-> FALSE, riscv |-> FALSE, writeable |-> FALSE]
Risc == INSTANCE MCShapes WITH
    Build <- [mcs |-> FALSE, recursive |-> TRUE, riscv |-> TRUE, writeable |-> TRUE]

MCSpecs == ThirtyTwo!AllSpecs \cup ThirtyTwo!CheckedSpecs \cup Risc!AllSpecs
=============================================================================
