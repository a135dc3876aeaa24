----------------------------- MODULE MailStore -----------------------------
(***************************************************************************)
(* What AEM-Storage promises, without files, index or disk: every user has *)
(* a mailbox, a sequence of messages in the order in which they arrived.   *)
(* An empty mailbox is one that does not exist: mail for it is refused.    *)
(*                                                                         *)
(* Module Storage is shown to implement this one.                          *)
(***************************************************************************)
EXTENDS Naturals, Sequences, SequencesExt

CONSTANTS
  User,          \* mailbox owners
  Msg,           \* messages that other processes ask to have stored
  Welcome,       \* the message a new mailbox starts with
  Emptied,       \* the message an emptied mailbox starts with
  MasterAdmin    \* the user that exists from the beginning

VARIABLE box     \* box[u]: the messages of u, oldest first

TypeOK == box \in [User -> Seq(Msg \cup {Welcome, Emptied})]

Init == box = [u \in User |-> IF u = MasterAdmin THEN <<Welcome>> ELSE <<>>]

Open(u) ==
  /\ box[u] = <<>>
  /\ box' = [box EXCEPT ![u] = <<Welcome>>]

Deliver(u, m) ==
  /\ box[u] # <<>>
  /\ box' = [box EXCEPT ![u] = Append(@, m)]

Discard(u, i) ==
  /\ i \in DOMAIN box[u]
  /\ box' = [box EXCEPT ![u] = RemoveAt(@, i)]

Reset(u) == box' = [box EXCEPT ![u] = <<Emptied>>]

Close(u) == box' = [box EXCEPT ![u] = <<>>]

Next ==
  \E u \in User :
    \/ Open(u)
    \/ \E m \in Msg : Deliver(u, m)
    \/ \E i \in DOMAIN box[u] : Discard(u, i)
    \/ Reset(u)
    \/ Close(u)

Spec == Init /\ [][Next]_box
=============================================================================
