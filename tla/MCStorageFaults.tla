-------------------------- MODULE MCStorageFaults --------------------------
(* Instances of StorageFaults for TLC.  No step depends on the last answer, *)
(* and the properties look only at the answer that a step gives: states    *)
(* that differ in nothing else are one.                                    *)
EXTENDS StorageFaults

CONSTANTS ma, u1, m1

MCUser == {ma, u1}
MCMsg  == {m1}

ButAnswer == <<index, alloc, disk, pc, kind, cur, missed, failures>>
=============================================================================
