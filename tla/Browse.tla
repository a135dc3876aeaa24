------------------------------- MODULE Browse -------------------------------
(***************************************************************************)
(* Message/Browse: AEM-API (message_browse) asks AEM-Storage               *)
(* (api_message_browse) for a page of envelopes, at most MaxSize bytes of  *)
(* them: the newest, those after a given one, or those before it.  Other   *)
(* clients of the user may add and delete messages in between.             *)
(***************************************************************************)
EXTENDS Integers, Sequences, FiniteSets, FiniteSetsExt, SequencesExt

CONSTANTS
  Id,        \* envelope ids, 0 among them
  Size,      \* sizes of envelopes
  MaxSize,   \* AEM_EVP_MAXSIZE
  Header,    \* the bytes of an answer before the sizes: 8
  PerSize,   \* and those of each size: 2
  NoId       \* a request without an id

ASSUME BrowseAssumption ==
  /\ 0 \in Id /\ Id \subseteq Nat /\ NoId \notin Id
  /\ MaxSize \in Nat /\ Header \in Nat /\ PerSize \in Nat
  /\ Size \subseteq 1 .. MaxSize

VARIABLES
  box,     \* stindex[uid]: the envelopes, oldest first
  have,    \* the ids that the client has been shown
  last     \* the last request and its answer

browseVars == <<box, have, last>>

Code == {"page", "nomore", "notexist", "internal"}
Asks == {"none", "newer", "older"}

Asked(k, i, c, ids) == [kind |-> k, id |-> i, code |-> c, ids |-> ids]
NotAsked == Asked("none", NoId, "nomore", <<>>)

BrowseTypeOK ==
  /\ box \in Seq([id : Id, size : Size])
  /\ have \subseteq Id
  /\ last \in [kind : Asks, id : Id \cup {NoId}, code : Code, ids : Seq(Id)]
  /\ last.code = "page" /\ Len(last.ids) = 0 => box = <<>>

BrowseInit ==
  /\ \E s \in Size : box = <<[id |-> 0, size |-> s]>>
  /\ have = {}
  /\ last = NotAsked

Count       == Len(box)
Numbered(i) == CHOOSE k \in 1 .. Count : box[k].id = i
Present     == {box[k].id : k \in 1 .. Count}

-----------------------------------------------------------------------------
(* The mailbox between two requests. *)

Arrive(i, s) ==
  /\ box # <<>> /\ i \notin Present
  /\ box' = Append(box, [id |-> i, size |-> s])
  /\ last' = NotAsked
  /\ UNCHANGED have

EmptyAll(s) ==
  /\ box' = <<[id |-> 0, size |-> s]>>
  /\ last' = NotAsked
  /\ UNCHANGED have

TakeOut(i) ==
  /\ i \in Present
  /\ box' = RemoveAt(box, Numbered(i))
  /\ last' = NotAsked
  /\ UNCHANGED have

-----------------------------------------------------------------------------
(* AEM-Storage. *)

(* The bytes of the envelopes a .. b. *)
BytesOf(s)  == FoldLeft(LAMBDA sum, e : sum + e.size, 0, s)
Bytes(a, b) == BytesOf(SubSeq(box, a, b))

(* The walk back from number n.  It ends at the first envelope, without    *)
(* counting that one.  A slip, and the code:                               *)
WalkTooFar(n) ==
  LET over == {k \in 2 .. n : Bytes(k, n) > MaxSize}
  IN  IF over = {} THEN 1 ELSE Max(over)

WalkBack(n) ==
  LET over == {k \in 2 .. n : Bytes(k, n) > MaxSize}
  IN  IF over = {} THEN 1 ELSE Max(over) + 1

(* The ids from number a on, as far as their envelopes fit. *)
Page(a) ==
  [k \in 1 .. Max({b - a + 1 : b \in {b \in a .. Count : Bytes(a, b) <= MaxSize}})
     |-> box[a + k - 1].id]

(* AEM-API takes an answer longer than MaxSize for invalid. *)
Accepted(ids) ==
  LET first == Numbered(ids[1])
  IN  ids = <<>> \/ Header + PerSize * Len(ids) + Bytes(first, first + Len(ids) - 1) <= MaxSize

Shown(k, i, ids) ==
  IF Accepted(ids)
    THEN last' = Asked(k, i, "page", ids) /\ have' = have \cup ToSet(ids)
    ELSE last' = Asked(k, i, "internal", <<>>) /\ UNCHANGED have

Told(k, i, code) == last' = Asked(k, i, code, <<>>) /\ UNCHANGED have

(* Storage's answer.  Of an empty mailbox the newest envelope is looked for *)
(* before the start of the array; then the read of the file fails, or the  *)
(* process has died.  The oldest page of it is empty.                      *)
WithoutId(k, i) ==
  \/ Count = 0 /\ k = "newer" /\ Told(k, i, "internal")
  \/ Count = 0 /\ k = "older" /\ Shown(k, i, <<>>)
  \/ Count > 0 /\ k = "newer" /\ Shown(k, i, Page(WalkBack(Count)))
  \/ Count > 0 /\ k = "older" /\ Shown(k, i, Page(1))

(* Where a page after number n begins. *)
After(n) == n + 1

WithId(k, i) ==
  LET found == Numbered(i)
  IN  \/ i \notin Present /\ Told(k, i, "notexist")
      \/ i \in Present /\ k = "newer" /\ found = Count /\ Told(k, i, "nomore")
      \/ i \in Present /\ k = "newer" /\ found < Count /\ Shown(k, i, Page(After(found)))
      \/ i \in Present /\ k = "older" /\ found = 1 /\ Told(k, i, "nomore")
      \/ i \in Present /\ k = "older" /\ found > 1 /\ Shown(k, i, Page(WalkBack(found - 1)))

(* AEM-API: data of zeros stand for a request without an id; 0 is the id of *)
(* the first envelope of a mailbox, new or emptied.                        *)
HaveMsgId(i) == i \notin {NoId, 0}

Browse(k, i) ==
  /\ IF HaveMsgId(i) THEN WithId(k, i) ELSE WithoutId(k, i)
  /\ UNCHANGED box

(* A client begins with the newest or the oldest page and goes on from what *)
(* it has.                                                                 *)
Ask ==
  \E k \in Asks \ {"none"}, i \in have \cup {NoId} : Browse(k, i)

BrowseNext ==
  \/ \E i \in Id, s \in Size : Arrive(i, s)
  \/ \E s \in Size : EmptyAll(s)
  \/ \E i \in Id : TakeOut(i)
  \/ Ask

BrowseSpec == BrowseInit /\ [][BrowseNext]_browseVars

-----------------------------------------------------------------------------
(* Properties. *)

IsPage == last.code = "page"

(* api_message_browse: the page that follows an envelope begins with the   *)
(* next one, so a client that goes on from its newest misses none.         *)
NewerAdjoins ==
  IsPage /\ last.kind = "newer" /\ HaveMsgId(last.id)
    => Numbered(last.ids[1]) = Numbered(last.id) + 1

(* api_message_browse: the page before an envelope reaches up to it, and   *)
(* the newest page up to the newest.  The walk back does not count the size *)
(* of the first envelope: a page that begins with that one may fall short, *)
(* but only if all from there on do not fit.                               *)
OlderAdjoins ==
  LET up == IF HaveMsgId(last.id) THEN Numbered(last.id) - 1 ELSE Count
  IN  IsPage /\ (last.kind = "older") = HaveMsgId(last.id)
        => \/ box[up].id \in ToSet(last.ids)
           \/ last.ids[1] = box[1].id /\ Bytes(1, up) > MaxSize

(* Pages join on to what the client has, in both directions.               *)
PagesAdjoin == NewerAdjoins /\ OlderAdjoins

(* "Older, instead of newer": with the flag, a page has older envelopes    *)
(* than the one that was named.                                            *)
OlderIsOlder ==
  IsPage /\ last.kind = "older" /\ HaveMsgId(last.id)
    => \A k \in DOMAIN last.ids : Numbered(last.ids[k]) < Numbered(last.id)

(* "Found, but nothing older": who asks for what is older than the oldest   *)
(* is told that there is nothing.                                          *)
NothingOlder ==
  last.kind = "older" /\ Count > 0 /\ last.id = box[1].id => last.code = "nomore"

(* "AEM-Storage takes requests ... from AEM-API to retrieve Envelopes": who  *)
(* asks for the newest page gets the newest envelope.                      *)
NewestRetrieved ==
  IsPage /\ last.kind = "newer" /\ last.id = NoId => box[Count].id \in ToSet(last.ids)

(* message_browse calls an answer of Storage that is too long invalid:     *)
(* Storage gives none.                                                     *)
PageAccepted == last.code = "internal" => Count = 0
=============================================================================
