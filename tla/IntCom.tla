------------------------------- MODULE IntCom -------------------------------
(***************************************************************************)
(* The transport between the processes (src/IntCom/Client.c, Server.c):    *)
(* one connection per request over a Unix socket.  A server accepts one    *)
(* connection at a time, in the order of arrival, and carries the request  *)
(* out before it looks at the next.  A client waits for the answer for at  *)
(* most ten seconds; its request stays where it is when it gives up, and   *)
(* is carried out all the same.                                            *)
(*                                                                         *)
(* Every failure of a call (no connection, no answer, a bad answer) looks  *)
(* alike to the client: AEM_INTCOM_RESPONSE_ERR, here "err".  Encryption,  *)
(* the check of the peer's credentials and the lengths are left out.       *)
(***************************************************************************)
EXTENDS Naturals, Sequences, FiniteSets, SequencesExt

CONSTANTS
  Server,    \* processes that serve, and may call other servers meanwhile
  Caller,    \* processes that only call
  Backlog,   \* length of the queue of listen(), 50 in the code
  None       \* no request

VARIABLES
  queue,     \* queue[s]: connections to s not yet accepted, oldest first
  serving,   \* serving[s]: the request that s carries out, or None
  answer     \* answer[x]: what x got for its last call, with its contents

transport == <<queue, serving, answer>>

Client == Server \cup Caller

(* A request: who waits for its answer, if still anybody, and what it asks *)
(* for.                                                                    *)
Request(x, o) == [from |-> x, op |-> o]
Abandoned(q, x) ==
  IF q # None /\ q.from = x THEN [q EXCEPT !.from = None] ELSE q

Answer(r, v) == [is |-> r, val |-> v]
Nothing      == Answer("none", None)
Wait         == Answer("wait", None)
Error        == Answer("err", None)

TransportInit ==
  /\ queue = [s \in Server |-> <<>>]
  /\ serving = [s \in Server |-> None]
  /\ answer = [x \in Client |-> Nothing]

Waiting(x) == answer[x] = Wait

(* intcom_socket and the sending half of intcom. *)
Connect(x, s, o) ==
  /\ ~Waiting(x)
  /\ Len(queue[s]) < Backlog
  /\ queue' = [queue EXCEPT ![s] = Append(@, Request(x, o))]
  /\ answer' = [answer EXCEPT ![x] = Wait]
  /\ UNCHANGED serving

(* The server is not there, or its queue stays full. *)
NotConnected(x) ==
  /\ ~Waiting(x)
  /\ answer' = [answer EXCEPT ![x] = Error]
  /\ UNCHANGED <<queue, serving>>

(* A slip: the newest connection first. *)
AcceptNewest(s) ==
  /\ serving[s] = None
  /\ queue[s] # <<>>
  /\ serving' = [serving EXCEPT ![s] = Last(queue[s])]
  /\ queue' = [queue EXCEPT ![s] = Front(@)]
  /\ UNCHANGED answer

Accept(s) ==
  /\ serving[s] = None
  /\ queue[s] # <<>>
  /\ serving' = [serving EXCEPT ![s] = Head(queue[s])]
  /\ queue' = [queue EXCEPT ![s] = Tail(@)]
  /\ UNCHANGED answer

(* A message longer than the socket's buffer is still being sent when the  *)
(* client gives up: what arrived is too short, the server drops it.        *)
Short(s) ==
  /\ serving[s] = None
  /\ queue[s] # <<>>
  /\ Head(queue[s]).from = None
  /\ queue' = [queue EXCEPT ![s] = Tail(@)]
  /\ UNCHANGED <<serving, answer>>

(* What the waiting clients know after s answers r.  A server's own answer *)
(* from elsewhere, used up by now, is forgotten.                           *)
Told(s, r) ==
  [x \in Client |-> IF x = s THEN Nothing
                    ELSE IF x = serving[s].from THEN r
                    ELSE answer[x]]

Reply(s, r) ==
  /\ answer' = Told(s, r)
  /\ serving' = [serving EXCEPT ![s] = None]
  /\ UNCHANGED queue

(* A slip: no time limit on the calls of servers. *)
GiveUpCallers(x) ==
  /\ x \in Caller
  /\ Waiting(x)
  /\ answer' = [answer EXCEPT ![x] = Error]
  /\ queue' = [s \in Server |->
       [i \in DOMAIN queue[s] |-> Abandoned(queue[s][i], x)]]
  /\ serving' = [s \in Server |-> Abandoned(serving[s], x)]

(* SO_RCVTIMEO. *)
GiveUp(x) ==
  /\ Waiting(x)
  /\ answer' = [answer EXCEPT ![x] = Error]
  /\ queue' = [s \in Server |->
       [i \in DOMAIN queue[s] |-> Abandoned(queue[s][i], x)]]
  /\ serving' = [s \in Server |-> Abandoned(serving[s], x)]

(* s ends and is started again: its connections are closed, those that     *)
(* wait for it get an error, and its own call elsewhere is abandoned.      *)
Reset(s) ==
  LET lost == (ToSet(queue[s]) \cup {serving[s]}) \ {None}
  IN  /\ answer' = [x \in Client |->
           IF x = s THEN Nothing
           ELSE IF x \in {q.from : q \in lost} THEN Error
           ELSE answer[x]]
      /\ queue' = [t \in Server |-> IF t = s THEN <<>> ELSE
           [i \in DOMAIN queue[t] |-> Abandoned(queue[t][i], s)]]
      /\ serving' = [t \in Server |-> IF t = s THEN None
                                      ELSE Abandoned(serving[t], s)]
=============================================================================
