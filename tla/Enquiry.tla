------------------------------ MODULE Enquiry -------------------------------
(***************************************************************************)
(* What AEM-Enquiry makes of the answers of the DNS server to a request    *)
(* for the mail server of a domain.                                        *)
(*                                                                         *)
(* An answer is the sequence of its records; an empty one stands for       *)
(* every answer whose length, id, flags, counts or question is not as it   *)
(* should be.  A record has the fields                                     *)
(*   type    "MX", "CNAME", "A", or "odd" for any other type or class      *)
(*   prio    of an MX                                                      *)
(*   host    the name in it, as far as it can be read                      *)
(*   broken  rr_getName stops in that name                                 *)
(*   ip      of an A                                                       *)
(***************************************************************************)
EXTENDS Integers, Sequences, SequencesExt

CONSTANTS
  Private   \* the addresses in the networks that validIp names

NoName  == ""
Zero    == "0.0.0.0"
Flagged == "1.0.0.0"   \* the number 1, as an address

MaxPrio == 65535

validIp(ip) == IF ip \in Private \cup {Zero} THEN Flagged ELSE ip

(* 0 for an answer that is not as it should be. *)
getAnswerCount(answer) == Len(answer)

(* Slip: the largest number is preferred. *)
NextNameLargest(s, r) ==
  IF s.stop \/ r.type = "CNAME" THEN s
  ELSE IF r.type # "MX" THEN [s EXCEPT !.stop = TRUE]
  ELSE IF r.prio <= s.prio /\ s.host # NoName THEN s
  ELSE [prio |-> r.prio, host |-> r.host, stop |-> r.broken]

(* One record of the answer to the request for MX records. *)
NextName(s, r) ==
  IF s.stop \/ r.type = "CNAME" THEN s
  ELSE IF r.type # "MX" THEN [s EXCEPT !.stop = TRUE]
  ELSE IF r.prio >= s.prio THEN s
  ELSE [prio |-> r.prio, host |-> r.host, stop |-> r.broken]

getNameRecord(answer) ==
  FoldLeft(NextName, [prio |-> MaxPrio, host |-> NoName, stop |-> FALSE], answer)

(* The first A record, wherever it is. *)
GetIp_get(answer) ==
  LET A == SelectSeq(answer, LAMBDA r : r.type = "A")
  IN  IF A = <<>> THEN Zero ELSE Head(A).ip

queryDns_a(answer) == IF getAnswerCount(answer) = 0 THEN Zero ELSE validIp(GetIp_get(answer))

(* The name is looked up whether or not it was read to its end. *)
queryDns_mx(mx, a) ==
  LET host == IF getAnswerCount(mx) = 0 THEN NoName ELSE getNameRecord(mx).host
  IN  [host |-> host, ip |-> IF host = NoName THEN Zero ELSE queryDns_a(a[host])]

(* conn_api, AEM_ENQUIRY_MX: a name is enough, an address is not needed. *)
Failed == "none"

mailServer(mx, a) ==
  LET found == queryDns_mx(mx, a) IN IF found.host = NoName THEN Failed ELSE found.ip
=============================================================================
