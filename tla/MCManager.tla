----------------------------- MODULE MCManager ------------------------------
(***************************************************************************)
(* The four servers with the ids that they get when AEM-Manager starts,    *)
(* one id more than there are servers, and only so many processes later.   *)
(***************************************************************************)
EXTENDS Manager

CONSTANT MaxLater  \* bound of the model: how many processes start after the servers

VARIABLE later

MCSlots == 1 .. 2
MCPid   == 1 .. 5

MCInit ==
  /\ Init
  /\ pid = [enquiry |-> 1, storage |-> 2, deliver |-> 3, account |-> 4]
  /\ later = 0

Later ==
  /\ later < MaxLater /\ later' = later + 1
  /\ \E p \in Pid :
       \/ OtherStarts(p)
       \/ \E t \in Worker : SpawnWorker(t, p)
       \/ \E t \in Server : SpawnServer(t, p)

MCNext ==
  \/ Later
  \/ Info /\ UNCHANGED later
  \/ \E p \in Pid :
       /\ Start(p) \/ End(p) \/ \E t \in Worker : Kill(t, p) \/ KillIgnored(t, p)
       /\ UNCHANGED later

MCSpec == MCInit /\ [][MCNext]_<<vars, later>>
=============================================================================
