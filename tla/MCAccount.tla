----------------------------- MODULE MCAccount -----------------------------
(* An instance of Account for TLC: one hash, for a normal address (which    *)
(* only admins may have) and for a shield address; room for one address,   *)
(* although the limits allow two.                                          *)
EXTENDS Account

CONSTANT h1

MCHash        == {h1}
MCLimitChoice == {[l \in Level |-> [nrm |-> AddressesPerUser + 1, shd |-> 1]]}
=============================================================================
