----------------------------- MODULE MCStorage -----------------------------
(* Instances of Storage for TLC: two users, the first of them the one made  *)
(* by utils/Creator.                                                       *)
EXTENDS Storage

CONSTANTS ma, u1, m1

MCUser == {ma, u1}
MCMsg  == {m1}
=============================================================================
