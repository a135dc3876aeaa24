----------------------------- MODULE MCSendMail -----------------------------
(***************************************************************************)
(* Answers of up to two records, and three for which the order counts; "h" *)
(* is what can be read of a broken name.                                   *)
(***************************************************************************)
EXTENDS SendMail

MX(p, h)    == [type |-> "MX", prio |-> p, host |-> h, broken |-> FALSE]
Broken(p)   == [type |-> "MX", prio |-> p, host |-> "h", broken |-> TRUE]
Other(t)    == [type |-> t, prio |-> 0, host |-> NoName, broken |-> FALSE]
A(addr)     == [type |-> "A", ip |-> addr]

Records == {MX(1, "h1"), MX(2, "h2"), MX(3, "h3"), Broken(2), Other("CNAME"), Other("odd")}

Answers ==
  {<<>>} \cup [1 .. 1 -> Records] \cup [1 .. 2 -> Records]
  \cup [1 .. 3 -> {MX(1, "h1"), MX(2, "h2"), MX(3, "h3")}]

(* h1 and h2 have one of their own, h3 one in a private network, and h none.  *)
Hosts ==
  [h1 |-> <<A("public1")>>, h2 |-> <<[type |-> "CNAME"], A("public2")>>,
   h3 |-> <<A("private")>>, h |-> <<>>]

MCPrivate == {"private"}
MCZones   == {[mx |-> m, a |-> Hosts] : m \in Answers}
=============================================================================
