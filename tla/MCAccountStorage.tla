-------------------------- MODULE MCAccountStorage --------------------------
(***************************************************************************)
(* Persons p1 and p2 have the same UserID.                                 *)
(***************************************************************************)
EXTENDS AccountStorage

CONSTANTS p1, p2

MCPerson == {p1, p2}
MCuidOf  == [x \in MCPerson |-> 1]

Make(k, x) == [kind |-> k, uid |-> MCuidOf[x], who |-> x]
Registering == {Make("create", p1), Make("create", p2), For("delete", 1)}
WithMail    == Registering \cup {Make("write", p1)}
WithRest    == WithMail \cup {Make("remove", p1)}
=============================================================================
