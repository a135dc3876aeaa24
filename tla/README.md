# All-Ears Mail: specifications

TLA+ modules of the All-Ears Mail server, TLC configurations that check them on
small instances, and proofs for TLAPS that hold for instances of any size. Paths
and line numbers are those of this repository. `PROJECT.json` lists the runs, the
slips (see "Reading the modules") with which each property was tried out, the
lines that each definition models, the hazards and the theorems.

    tlc -config Storage.cfg MCStorage.tla       # a run: X.cfg with its MC module
    tlapm StorageProofs.tla                     # a proof

## 1. The system

All-Ears Mail is a set of processes of one host. AEM-Manager starts them and
gives each one its keys; they call each other over Unix sockets (`IntCom`), one
connection for each request, and each server carries out one request at a time.

                      web client               other mail servers
                          | HTTP                  | SMTP     ^ SMTP
                      AEM-API (x2) ------------. AEM-MTA     |
                       |   |   '-- sendMail ---|--|----------'
                       |   |                   |  | stream
                       |   '--> AEM-Enquiry <--|--AEM-Deliver
                       v                       |  |
                 AEM-Account <--- keys --- AEM-Storage
                       '--- create, drop ------^

| component | state | operations |
| --- | --- | --- |
| AEM-Storage (`storage/`) | per user a file of envelopes; the index of their ids and sizes in memory (`stindex`), an encrypted copy of it in `Stindex.aem` | create and drop a mailbox, write, browse, delete, empty |
| AEM-Account (`account/`) | the users: level, addresses, time of the last request; limits of the levels; copies in `Account.aem` and `Settings.aem` | authenticate, create, delete and update users, create and delete addresses, look up addresses, keys for Storage |
| AEM-API (`api/`) | one request | HTTP, authentication by Account, the calls that a request needs, sending of email |
| AEM-MTA (`mta/`) | one SMTP session: envelope, recipients, the stream to Deliver | the SMTP commands |
| AEM-Deliver (`deliver/`) | one mail | taking a mail apart, storing it for each recipient |
| AEM-Enquiry (`enquiry/`) | none | DNS, country and network of an address |
| AEM-Manager (`manager/`) | the table of processes | spawn, stop, report |
| AEM-Web (`web/`) | none | fixed responses |
| IntCom (`IntCom/`) | the queues of connections | a call, and a stream, with time limits |
| Common, utilities, Data | none | encodings and conversions; creation of the home folder |

What is hard to get right in it, and to test:

* **Two files and memory.** Storage changes a mailbox, then its index, then the
  copy of the index, which is truncated before it is rewritten. Account does the
  same with its users. A process may end between any two steps, and file
  operations may fail half-way.
* **Calls in a circle.** Storage asks Account for keys while Account asks Storage
  to create a mailbox. Both serve one request at a time, and a call that is given
  up after ten seconds is carried out later all the same.
* **Several calls for one request.** A UserID is looked up in one call and used in
  another one; a public message is stored mailbox by mailbox; a mail is stored
  part by part and recipient by recipient, and one answer covers all.
* **Two API processes** pass on requests of one user, and clients repeat requests.
* **Streams.** SMTP and IntCom's stream end at any byte; what is found in one piece
  may be the end of one thing and the beginning of the next.
* **Conversions in place.** Addresses, headers, bodies and parts of a mail are
  rewritten in the buffer in which they are; HTML, moreover, with a static variable
  that outlives the text.
* **A pipe without names.** Manager sends ids, keys and files to a process it has
  started; the process takes them in an order and of lengths that are compiled
  into both. A server that is spawned again lacks a key, and finds what comes next in
  its place.

What makes each component correct:

* Storage: the index leads to the envelopes; ids are unique; no request costs
  another user, or another envelope, anything; a start finds what was answered.
* Account: one owner for an address; the master admin stays; rights are not
  gained, and accounts not lost, but by those who may; a change is saved before it
  is answered.
* Both together: the mailbox of a UserID is that of the account; calls return.
* API: a request takes effect once; success means stored.
* MTA and Deliver: mail is for those who were named; success means stored;
  sessions end; parts are neither lost nor doubled; headers are found.
* Sending: success means the other server has the mail; nothing of it goes
  unencrypted, or to another server than the domain's.
* HTML: every character is shown with the styles of the elements it is in, whatever
  is removed around it; links and text are those of the markup.
* Manager: every worker that runs is in the table; a process takes what it is sent
  for what it is; the two ends of a call have the same key.

## 2. The modules

| module | models | composes or extends |
| --- | --- | --- |
| `MailStore` | abstract: a mailbox is a sequence of messages | |
| `Storage` | AEM-Storage, its files, orderly restarts | implements `MailStore` |
| `StorageFaults` | failing file operations, crashes | extends `Storage` |
| `Browse` | Message/Browse in Storage and API | |
| `Account` | AEM-Account, its files, crashes | |
| `IntCom` | calls, queues, time limits | |
| `AccountStorage` | Account and Storage at work for API, MTA and Deliver | composes both over `IntCom` |
| `ApiRequest` | a request through both API processes | |
| `MailTransfer` | MTA, the stream, Deliver, Storage's answers | |
| `Manager` | AEM-Manager | |
| `Addr32`, `MailText`, `Headers`, `Html` | conversions, as functions | |
| `Texts` | every short input of these | extends the four |
| `Mime` | the loop over the parts of a mail | |
| `Enquiry` | what the answers of the DNS amount to | |
| `SendMail` | AEM-API as a mail client, and the other server | extends `Enquiry` |
| `MC...` | instances for TLC | extend the module of that name |
| `...Proofs`, `SequenceLemmas` | theorems | extend the module of that name |

### Reading the modules

Names are those of the code where TLA+ allows it. An action is a handler with all
it does, up to the next point at which another process can see, or the end of the
process can expose, what it has done. A comment "Slip" marks an operator that no
action uses: it is the definition behind it with a plausible mistake (a guard
dropped, an order swapped), and with it in place of the right one TLC finds a
property violated. `PROJECT.json` has one for each property of each run.

Left out everywhere: encryption (a key is a name, a message that cannot be
decrypted is refused), logging, and the wording of messages.

### Storage and StorageFaults

`index` is `stindex` with `stindex_count`, `alloc` says whether the arrays of a user
are NULL, allocated, or freed and still pointed to, `file` and `hasFile` are `Msg/`,
`diskOk` and `diskIndex` are `Stindex.aem`. A request changes file and index (`Write`,
`Delete`, ...) and goes on to `SaveTruncate` and `SaveWrite` (`saveStindex`); dropping a
mailbox ends with `Unlink`. A cell of a file is the place at which the index expects
an envelope; sizes are kept as far as `storage_delete` looks at them, whether the
file is as long as the index says (`SizesAgree`). A fragment of an envelope (`Torn`) makes
it longer; a place that was overwritten (`Mixed`) does not, so a deletion goes on in
such a file. If the contents are not what the index says (`Disordered`), the lengths
may disagree as well, which depends on sizes that have no place here: then a deletion
is refused or goes on. The count of 16 bits wraps in `AddEntry`. `StorageFaults` adds
`...Half`, a file operation that stops half-way (which is also what a crash in the
middle of it leaves), the saves that fail without anybody being told, and `Crash`.
`Shifted` is a file some of whose places have been written with what was behind them. Left
out: that fragments add up by chance to the length that is missing.

### Browse

`box` is the index of one user with sizes, `have` what the client has got. `WalkBack` is
the loop of `storage/IO.c:310-328`, with its condition as it is; `Accepted` the check of
`api/post.c:59`. Mail arrives and is deleted between requests.

### Account

`user` holds level, addresses and the time of the last request. Every command
authenticates first (`Authentic`), notes the time, and saves (`SaveTruncate`, `SaveWrite`).
A save may end without having been made, before or after the file was truncated
(`SaveMissed`: no memory, the file not opened, a short write); the request goes on and is
answered as if nothing had happened, and `missed` remembers it until a save goes
through. `SettingsMissed` is the same for `Settings.aem`. Creation and deletion then call Storage (`StorageAnswers`, whatever it answers).
"down" is a process that cannot read `Account.aem`: it ends at every start.

### IntCom and AccountStorage

`queue[s]` are the connections that `s` has not accepted, `serving[s]` the request at
work, `answer[x]` what a client has or waits for. `GiveUp` leaves the request where it
is. In `AccountStorage` the servers are themselves clients: `Create` and `Delete` call
Storage, `AskKeys` calls Account. `acct` and `box` are the state of the two, in the terms in
which they must agree: who is registered, and whose envelopes are in the mailbox.
`settled[u]` says that the last change of that account was answered "ok".

### ApiRequest

`pc[a]` is the place of process `a` in `aem_api_process`; `last` is Account's `lastBinTs`;
`effect[r][u]` counts how often request `r` was carried out for user `u`. Calls succeed,
fail, or are carried out without an answer; `Late` is a call that was given up and
served later.

### MailTransfer

`stage` is the place in `respondClient`, `from`, `to`, `named` the envelope of the session,
`queue` and `items` the streams on their way to Deliver, `work`, `src`, `todo` what Deliver is
at, `mailbox` what Storage was given. `asked` and `reply` record what the client was told.
The body is a sequence of pieces; `SplitDot` is a final dot that comes in two pieces.

### Manager

`aemPid` and `pid` are the tables of `manager.c`, `process` is the operating system: ids of
processes that ended are given to others. `Info` is `refreshPids`, which runs when
ManagerClient asks for the state, and not before a process is spawned.

`Child` is a process with what was put on its pipe, `Start` the process reading it:
`Complete` compares `Written`, the packets that `process_spawn` writes, with `Read`, those that
the program of that type reads one after the other, each with its length. What a packet
is ("what") nobody looks at but the property. The onion services are those of the
same name without TLS: AEM-API reads the same, AEM-Web ("web") then has no
certificate. `Reaches` is a call: a socket is found by its name, the client's key must be
that of the server for the client's number. The process ids that Manager sends decide
nothing: `peerok.c` is compiled by itself, without the `AEM_PEEROK_CLIENT` that
`IntCom/Client.c:12` defines for itself, so the ids of both ends are never compared.

`AccountStorage`, `ApiRequest`, `MailTransfer` and `SendMail` take it that each process has a
key in common with the servers that it calls, which is `LinksWork`.

### Addr32, MailText, Headers, Html, Texts

`charToAddr32` and `addr32_store` compute bits with their shifts, as the code does. `MailText`
has `cleanText`, quoted-printable, base64 and the dots of SMTP; `Headers` cuts off the
headers of a mail, cleans them in place and takes one out. `Texts` has no behaviour of
its own: its states are all inputs up to a length, one kind of input per function.
`TextsAssumption` is what the proofs need to know of the inputs: what an encoder of
quoted-printable text writes (`QuotedPiece`), that a newline in plain text and in the body
of a mail is one item, "nl", and never half of a CRLF, and that addresses consist of
characters.

`Html` has two parts, as `html2cet` has. `ReadChar` is the automaton for one character:
`z.type` is `type`, `z.tagName`, `z.tagType`, `z.copyAttr` and `z.isPre` are the variables of
that name; a name, the beginning of an address and the beginning and end of what is
skipped are one character each. It calls `addTagChar` and `addHtmlCharacter`, whose
state is `c`: `c.out` is what has been written, one item for a character or mark;
`c.open` is `tagsOpen`; `c.lost` says that memory before the text has been read as part
of it, after which anything may be the case. What is removed is what the code
removes: `Closed` searches backwards, `Unwrapped` counts five marks.

### Mime

`bounds`, `turn` and `searchBegin` are `bound`, `i` and `searchBegin` of `decodeMp`: the
boundaries met, the number of the one at work, and where the search for it goes on. Each
step is one round of its loop. `WellFormed` is what MIME says of a message, assumed of
`Messages`; the message may break off anywhere, and an element of it is a delimiter or a
part with all of its content. At a part whose headers are too long ("long") the loop ends.

### Enquiry and SendMail

`getNameRecord` and `GetIp_get` are folds over the records of an answer. `SendMail` goes
through `Script`, the commands of `sendMail`, with one `recv` for each reply; the other
server (`Server`) accepts or refuses each command, in lines and pieces as it likes, and
closes the connection whenever it likes. Sending on a connection that is closed fails; over
TLS it may also go on for ever (`Stuck`).

## 3. The runs

All of them end with all states explored. "Shows" is what the properties say; the
last column is why the bounds are enough, or what they leave out.

| run | instance | shows | bounds |
| --- | --- | --- | --- |
| `Storage` | 2 users, 1 kind of message besides the two of the system, 4 ids, 3 envelopes to a mailbox | `FileMatchesIndex`: file and index are in step. `ImplementsMailStore`: browsing shows what the requests asked for, restarts are invisible | the users are independent but for `Stindex.aem`, two show that; three envelopes have a first, a middle and a last one to delete. The count does not wrap (3 < 4 - 1); that it does is described below. Proved for all values |
| `StorageFaults` | 2 users, 3 ids, 2 envelopes; a crash at any time, 1 failure that the process survives | `DiskCurrent`, `IdsUnique`, `LostOnlyOnRequest`, `DeleteLosesOne` | one failure, after it any number of crashes, deletions in the file that it left, and deletions that are repeated; all four are proved for any number of failures |
| `Browse` | 4 ids, sizes that make two envelopes a page, three too many, and one alone full | `PagesAdjoin`: a client that goes on from what it has, in either direction, misses nothing, unless the page begins with the first envelope and not all from there on fit | pages of one and two envelopes begin at every place of a mailbox of four. Proved for all values |
| `Account` | 3 users, 2 levels, room for 1 address, one hash (normal and shield), limits above the room, times up to 2; saves that fail, a crash at any time | `AddressesUnique`, `MasterRemains`, `SavedWhenIdle`, `OnlyAdminsPromote`, `OnlyOwnerOrAdminDeletes`, `AddressesKept`, `TypeOK` | an admin, another one, and somebody else; two times, so that a request may be repeated and another one be newer; bytes for a level go beyond the highest. All of them are proved for all values |
| `AccountStorage` | 2 persons with one UserID, 1 caller, queues of 2, 1 abandoned request at a time | `BoxIsOwners`, `CallsReturn` | one UserID is where accounts meet; the caller writes, deletes, registers and leaves in any order; abandoned requests overlap with its later ones. `BoxIsOwners` is proved for any number of persons, callers and abandoned requests |
| `ApiRequest` | 2 processes, 2 users, 3 requests received twice each, 1 restart of Account | `TakesEffectOnce`, `SentIsStored` | a repeated request meets itself in the other process, a later one of the same user, and a restart. Both are proved for all values |
| `MailTransfer` | 1 mail, 4 addresses (all flags, some, two of nobody, one of them a Shield address), 2 pieces, 1 attachment, failing and lost calls, 1 restart of Deliver | `SuccessIsStored`, `ParentIsText`, `OnlyForNamed`, `SessionEnds` | two recipients who share one mail with different wishes, in both orders; a body at and below its limit. Names of a mail that RSET or a new greeting has ended are there to be confused with those of the next one. The first three are proved for any number of mails |
| `Manager` | Web, API and MTA, the four servers, 2 slots, 5 process ids, 2 processes started later | `WorkersRecorded`, `LinksWork` | one id more than servers, so that ids of processes that ended are used again; a server is spawned again while others run, with a key and without. Proved for all values |
| `Texts` | every input up to 4 to 7 characters (plain text of 11 kinds of them, 5), addresses of 12 to 16, headers behind others; HTML documents of up to 8 tags and characters (14 for tables), markup of up to 4 pieces, references of up to 7 digits | `AddressRead`, `WordsKept`, `QuotedDecoded`, `Base64Decoded`, `DotsKept`, `SubjectFound`, `TextStyled`, `MarkupRead` | each function looks at most four characters around; the ends of an input are within the length. The documents have empty elements, tables of one cell, of one column and of two, and styles, lines and spaces at every place of each. The first five are proved for texts of any length |
| `TextsFinding` | as `Texts` | `OnlySpacesReplaced` does not hold: cleaning takes visible characters for spaces | a text of one such character shows it |
| `Mime` | mails of up to 3 parts with multiparts two deep, broken off anywhere; 4 boundaries, 2 attachments | `ExactlyOnce`: every text and every attachment of a mail that is complete, has no part with too long headers and fewer multiparts than there is room for. `DecodingEnds` | multiparts beside and in each other, both limits reached. `ExactlyOnce` is proved for mails of any size |
| `SendMail` | 70 answers of the DNS, every reply in one piece or two | `OkIsAccepted`, `ErrorIsNotSent`, `EnvelopeEncrypted`, `RightServer` | pieces of one reply may be taken for the reply to each later command. All are proved for replies of any length and any answers of the DNS |

`TextsFinding` expects a violation: what it states is not so (section 5).
`TypeOK` of the modules other than `Account` is not listed in a cfg: it holds when it is
added, and says little.

Deadlock is checked where the system cannot stop. `ApiRequest` and `MailTransfer` stop
when their bounds are used up; `Mime` and `SendMail` come to an end; the states of `Texts`
are inputs.

### Fairness

* `AccountStorage`: the steps of both servers, and the time limits of the calls that
  they make (`SO_RCVTIMEO`, ten seconds, `IntCom/Client.c:33`), are weakly fair: a server is a
  loop that nothing else blocks. Callers may stop at any point.
* `MailTransfer`: the time limits of the client's socket (`createSocket(..., 10, 10)`,
  `Common/CreateSocket.c:13`), and the steps of MTA and Deliver, are weakly fair. Nothing is
  assumed of the client: `SessionEnds` holds for one that never sends a byte.
* `Mime`: the loop goes on.
* `SendMail` has none: that a session comes to an end is not so (section 5, other
  behaviour).

## 4. The proofs

All are for every value of the constants, from the assumptions on them that the
modules name (`StorageAssumption`, `TornAssumption`, `AccountAssumption`,
`AccountStorageAssumption`, `RequestAssumption`, `ApiRequestAssumption`,
`MailTransferAssumption`, `ManagerAssumption`, `ZonesAssumption`, `BrowseAssumption`,
`TextsAssumption`, `MimeAssumption`). TLC evaluates these in every run of the module.

`SequenceLemmas` has what they share: removals from sequences, and folds. Many functions of
the code are loops over a text, which the modules write as `FoldLeft`, and tlapm cannot
apply the library's theorems on induction, because they take an operator. It can apply
`WFMin`, which does not, to the order of the numbers (`LeastNumber`): a claim that fails for
some number fails for a least one. So `FoldExists` shows that the recursive function
behind a fold exists, whatever the step is, `FoldInOrder` that the fold goes through a
sequence one element after the other, `FlatInOrder` the same for the concatenation of
pieces, and `NumbersReached` that a claim that holds at 0, and at `k + 1` if at `k`, holds
at the end.

**StorageProofs.**

* `TypeCorrect`, `IdsAlwaysUnique` (of `FaultSpec`). `IdsUnique` is not inductive: a start takes
  the index from `Stindex.aem`. `IdInv` adds that the ids saved there are unique. Each
  request changes the index of one user, by a removal or by an id that is not in use;
  the lemmas on `RemoveAt` and `Append` are in `SequenceLemmas`.
* `DiskAlwaysCurrent` (of `FaultSpec`). `Current` adds to `DiskCurrent` the step between saving
  and unlinking a dropped mailbox; `missed` is what makes it true when saves fail.
* `FilesMatchIndex`, `AlwaysSaved` (of `Spec`). `SInv` adds to `IdInv` that files match indexes
  also of users between two starts, that arrays are allocated where they are used,
  and that no request is at work in a start. It needs `NoWrap`, mailboxes of fewer
  envelopes than 16 bits count: without it the statement is false.
* `Refinement`: `Storage` implements `MailStore`. One lemma for each request shows that it
  maps to the step of that name, the others map to none.
* `DeletesLoseOne`, `LossesAreRequested` (of `FaultSpec`) are about steps and
  need little of the state: that ids are unique, and for the latter that only a request
  to drop a mailbox gets to unlink a file, and `NoWrap`. They hold in whatever state
  earlier failures left a file, one with overwritten places included. What has to be shown is what a mailbox still holds (`Held`) after
  its index or its file got longer or shorter, or a file operation stopped half-way:
  an envelope is where its position in the index says, so a removal in the middle
  loses one envelope only if it takes the same place from both.
* `PagesAlwaysAdjoin` (of `BrowseSpec`): what a client is shown adjoins what it had. Inductive
  is `BoxOK`, that ids are unique, so that `Numbered` finds the envelope that was asked for.
  The rest is about the walk back, whose bytes are a fold: the sum of the bytes of one
  envelope is its size (`BytesInOrder`), so a page has at least one (`PageIs`), and the page
  before an envelope that the walk back begins reaches as far as that envelope
  (`WalkBackIs`). The first envelope it does not count: of a page that begins with that one,
  `PagesAdjoin` says that it falls short only if not all up to the envelope fit (section 5,
  `NewestRetrieved`).

**AccountProofs.** `TypeCorrect`, `AddressesAlwaysUnique`, `MasterAlwaysRemains`, `AlwaysSaved` follow
from one inductive invariant `Inv`: since a start replaces the users in memory by the
saved ones, all that is to hold of the former (`Good`) has to hold of the latter, and
the two agree, but for times, whenever no save is under way and the last one was made
(`missed`). `Promotion` and `Deletion` are action properties: from `Inv`, every step either
keeps accounts and levels (`RanksKept`), or is a request of an admin or of the account's
owner, or is a start that may undo something (`Undone`): it interrupts a save, or the last
save was not made. Any other start reads back what was in memory, times aside
(`StartKeepsRanks`): so one save that goes through makes up for all that were missed before
it, and neither a level nor an account comes or goes with a start otherwise. `AddressesStay`
goes through the requests likewise.

**AccountStorageProofs.** `AccountStorageTyped` and `ConfirmedCanBeReliedOn`. That the
mailbox is that of the account is not inductive: a request that was given up is
carried out later, and may undo what has been confirmed since. `Inv` says why it does not.

* `FromAccount`: AEM-Storage is given requests to open or drop a mailbox in the order in
  which AEM-Account made them, and Account makes one at a time; so the one it waits for
  is behind all that it gave up.
* `FromStorage`: the same for the keys that Storage asks Account for.
* `Confirmations`: from the moment at which Storage has confirmed a change of an account
  (`Sure`; Account may not have looked yet), account and mailbox agree (`Right`), no request to
  open or drop that mailbox is left in Storage's queue (`Quiet`), and keys that Storage has
  got for it meanwhile are the owner's (`KeyIsOwners`). While Account waits for Storage it serves
  nobody, which is why nothing else can change the account in between.

Requests are numbered by their place in the queue, 0 for the one that is served; the
steps of the transport are described once by how places move (`Moved`), for all
operations.

**ManagerProofs.** `ManagerType`, and `ManagerWorkersRecorded`: a new worker takes a slot that is
free, and a slot is freed only when its process has ended. `ManagerLinksWork` rests on the
lengths of the packets: `LengthsTell` goes through the types, and shows that a process whose
key is missing takes the next packets for what it waits for, but never gets to the end
of its reads, so a process that is ready (`Spawned`) was sent all. The rest is a
comparison of the tables of both ends of a call (`CallsHaveKeys`).

**ApiRequestProofs.** `RequestsTyped`, `RequestsTakeEffectOnce`, `SentAreStored`. That a request takes
effect once is decided by AEM-Account, which compares its time with that of the last
one, but the effect comes later, in another process. `Accounted` balances the two: for
each request and each user, what has taken effect, and the processes that still have
it to do (`Pending`), are together no more than the restarts so far and 1 if Account
knows the request or a later one. `Underway` does the same for `SentIsStored`: each
recipient of a message that is in progress is served or still to be served, unless a
failure has been noted. Both count recipients, so `ApiRequestAssumption` says that
a message names each once, as Account does (`api_message_create` goes through its users).

**MailTransferProofs.** `MailOnlyForNamed`, `ParentsAreTexts` and `SuccessesAreStored`, for any number of mails,
recipients, pieces and attachments, any failing calls and restarts. None of them
is inductive, because they are about mailboxes, the last place that a mail comes to.
`Inv` follows it: `Named` says of each place, the session's recipients, what was sent
to Deliver, the jobs to do and the mailboxes, that only those are there who were named
for that mail; `Order` that the jobs of a recipient begin with the text and are for one
recipient; `ParentAtHand` that `parentId`, once set, is that of the text stored for the
recipient at hand; `Busy` that Deliver serves what is first in the queue. One lemma for
each conjunct has one step for each action that can disturb it. `SuccessesAreStored` needs
the way back as well: `Delivery` says that who was accepted is passed on, that what
Deliver has to store for a recipient is stored or among the jobs unless it has noted a
failure, and that a success, in Deliver and in MTA, is that of a mail that is complete.

**SendMailProofs.** `SendMailTyped`, `SuccessIsAccepted`, `FailureIsNotSent`, `AlwaysEncrypted`, for
replies of any number of pieces. `sendMail` reads one piece for each command, so that it
may take the rest of a reply for the reply to a later command; success could then
be reported for a mail that the server has refused. It is not, and `Inv` says why: until
`DATA` is sent, no piece with 354 is on its way (`NothingBefore`), so the 354 that lets it
go on is the reply to `DATA`, and behind it only pieces of the same reply are on their way
(`DataComes`, `BodyMayCome`); these have codes that do not count as acceptance, so a 250 that it
reads is the reply to the mail itself (`BodyComes`).

`BestServerTried` is about AEM-Enquiry: for answers of any number of records, the address is that of
a server that none is preferred to. `getNameRecord` is a fold: `ReadInOrder` says that it goes
through the records one by one, and `BestIsFound` what has been found after `k` of them
(`Found`). That an MX has 16 bits for its priority is `ZonesAssumption`.

The texts that go between servers, in the same module: of any length, with anything
anywhere that `Texts` has.

* `Base64AlwaysDecoded`: each byte takes its eight bits from two characters, in one of three
  ways (`FirstByte`, `SecondByte`, `ThirdByte`); `BytesOf` is the number of bytes and which
  characters they are made of, also in the last group of four, which may be short.
* `QuotedAlwaysDecoded`: after each piece, what it stands for has been written, and nothing is
  carried over to the next (`PieceDecoded`), so that it does not matter what follows.
* `DotsAlwaysKept`: the sender looks back at the line, the receiver at the end of what has
  arrived. `UnderwayStep` relates, character by character, the body so far, what was sent
  of it, and what is made of that on arrival: no line of what was sent begins with a single
  dot, which is why the end of the mail is found where it is (`EndFound`).
* `AddressesAlwaysRead`: each character has five bits of the ten bytes to itself, although some
  of them lie across two bytes (`BitsPlaced`), so that none is put over another (`BitsStored`);
  reading is done bit by bit (`ReadBitByBit`).
* `WordsAlwaysKept`: `cleanText` takes away characters that it has written before, so what is
  written does not only grow. `LooksAlike` says that it has the words of what has been
  read, up to a gap that the next newline makes, unless there is a gap behind the first
  character (`Early`): there the code does otherwise (`OnlySuperfluousDeleted`). Texts with
  U+2060, or with a character that is taken for a space, are left out (`Ordinary`), because
  there it does otherwise as well (`JoinedStayJoined`, `OnlySpacesReplaced`).
  `ControlCharsRemoved` and `TrimmedAlike` are the first and the last pass over the text.

**MailTransferProofs, of Mime.** `PartsTakenOnce` and `ArraysSuffice`, for messages of any length
with multiparts any number deep. The message is gone through once for each boundary, so
that nothing is taken twice has to do with whose delimiter a part stands behind. `Met` says
which parts have been come to: those behind a delimiter of a boundary that is done, or
of the one at work up to `searchBegin`. `Gathered` says that what has been taken is exactly
these, each once. `AtDelimiter` is why no part is jumped over or seen twice: the search goes
on at a delimiter of the boundary at work. That everything has been taken at the end is not
an induction over multiparts in multiparts, but over the message from its beginning
(`AllMet`): the multipart that a part belongs to stands before it, and was met. `Stopped` says why the loop ended, and `CompleteGoesOn` that with a complete
message there is no reason but the end. `ArraysSuffice` adds `RoomLeft`: the loop goes on only
while there is room for one more boundary.

Only model-checked, and why:

* liveness (`CallsReturn`, `SessionEnds`, `DecodingEnds`): out of the prover's reach;
* `SubjectFound`, `TextStyled`, `MarkupRead`: the functions search backwards and replace what they
  have written, as `cleanText` does, but with headers, nested elements or tables in it; what
  they are compared with is itself made of folds over the document and its stack of open
  elements. They are checked for all inputs up to a length.

## 5. Where the code does otherwise

Properties that a document or a comment of the repository states, that the code
does not meet. They are defined in the modules and, but for the one of `TextsFinding`, in
no cfg; adding one to the cfg of its module gives the trace. Where the instance has to change, it is said.

| property | what happens |
| --- | --- |
| `Storage!OldestStays` | `storage_delete` deletes the oldest message too, which according to `storage/IO.c:24` "can only be deleted by emptying your storage again" |
| `Storage!EveryEnvelopeIndexed` | after the last message was deleted and a restart, the arrays are NULL; `storage_empty` (`storage/IO.c:550`) has written the file when it assigns to them, and the process dies |
| `Storage!StoredIsIndexed` | `stindex_count` wraps at 2^16 (`storage/IO.c:514`): the index of the user is gone. `MaxCells = 4` |
| `StorageFaults!CopyIsKept` | `saveStindex` truncates before it writes (`storage/IO.c:137`); a crash in between costs all users their index, against README.md:66 |
| `Browse!NewestRetrieved` | the walk back does not count envelope 0 (`storage/IO.c:321`): a page from there may be full before the newest |
| `Browse!OlderIsOlder` | a page of older envelopes goes on to the newest (`storage/IO.c:340`); `Global.h:186`: "Older, instead of newer" |
| `Browse!NothingOlder` | id 0 counts as no id (`api/post.c:38`), but is that of the welcome |
| `Browse!PageAccepted` | Storage limits the envelopes of a page, the API the page with its header (`api/post.c:59`) |
| `Account!PublicReachesAll` | the list of users stops at 4094 (`account/IO.c:510`) |
| `Account!LastRequestKept` | the time of the last request is not saved by the request that sets it (`account/IO.c:558`), against README.md:47 |
| `Account!UsersAreKept` | as `CopyIsKept`, for `Account.aem` (`account/IO.c:126`); the process cannot start any more |
| `AccountStorage!WelcomeOpens` | `(const struct evpKeys * const)msg + sizeof(uint16_t)` (`storage/IO.c:204`) counts structures, not bytes: the keys of the welcome are read outside of the message; README.md:64: "openable only by the recipient" |
| `AccountStorage!MailForRecipient` | mail is sealed for whoever has the UserID when it is written (`storage/IO.c:469`), not for the owner of the address when it was looked up |
| `ApiRequest!OwnMailbox` | `res[2] = api_uid` (`account/IO.c:574`) puts a UserID of 12 bits into a byte; README.md:159: "UserID (0-4095)". `Request <- OfStorage` |
| `ApiRequest!RedoAccepted` | the first call of a continued request notes its time, so the second is not newer and is refused (`account/IO.c:549`, `api/post.c:362`). `Request <- Alone`, `Outcome = {"done"}` |
| `ApiRequest!UploadReported` | `message_upload` takes the id of an envelope for an error (`api/post.c:315`, `storage/IO.c:518`). `Request <- OfStorage`, `Outcome = {"done"}` |
| `ApiRequest!EmailWasSent` | what `sendMail` returns is not looked at (`api/post.c:204`), although `api/Error.h:50` has codes for it. `Request <- Alone`, `Outcome = {"done"}` |
| `MailTransfer!DeliveredWhole` | a body that breaks off is delivered, and answered with 250 (`mta/respond.c:388`) |
| `MailTransfer!BigIsRefused` | a body that is too big is cut off and delivered (`mta/respond.c:389`, 411: "Message too big"). `BodyLen = 3`, `MaxBody = 2` |
| `MailTransfer!RefusedGetsNone` | a recipient refused with 450 stays in the list (`mta/respond.c:335`) |
| `MailTransfer!VariantsKept` | the variants that one recipient does not want are taken from the mail that all share (`deliver/format.c:26`) |
| `Manager!StopStops` | types above 2 cannot be stopped (`manager/manager.c:539`), against README.md:98: "mta" is such a type in the instance |
| `Manager!ServersRecorded` | spawning a server that is at work puts the new id over its own (`manager/manager.c:527`) |
| `Texts!OthersDisregarded` | an unsupported character behind the last one leaves 0xFF in its place (`Common/Addr32.c:92`); README.md:107: "disregards all non-alphanumeric characters" |
| `Texts!SixteenStored` | of 16 characters the first loses its highest bit, which says whether the address is a shield address (`Common/Addr32.c:8`) |
| `Texts!WordsApart` | an empty list takes the line before it away (`Common/Html2Cet.c:240`), and a table of one cell is replaced by its text: `a<table><tr><td>b` becomes "ab" (`Common/Html2Cet.c:268`) |
| `Texts!LastReferenceRead` | a decimal reference at the end of a mail is not decoded: the length searched for the semicolon is that of a hexadecimal one (`Common/HtmlRefs.c:108`) |
| `Texts!OnlySpacesReplaced` (run `TextsFinding`) | `charSpace` compares the last byte of three kinds of spaces with `>=` (`Common/Trim.c:46-48`), and so takes U+2030 to U+203F, U+2061 to U+207F and U+3001 to U+303F for spaces too: among them the per mille sign, superscript digits, and the comma and full stop of Chinese and Japanese |
| `Texts!JoinedStayJoined` | for the same reason U+2060, which is there to keep two words on one line, is an invisible character and a space (`Common/Trim.c:31`, 47): let through as the one ("Allow through", `Common/Trim.c:97`), it is written as the other, and parts the words; `noCheck` stays at 2, and the next two bytes are not looked at |
| `Texts!OnlySuperfluousDeleted` | a newline behind the first character goes, if that has one byte (`Common/Trim.c:123`) |

Other behaviour met while modelling, which no property states:

* HTML that is not well nested. `TextStyled` speaks of documents whose elements are
  closed in their order, have no element of the same mark in them, and where tables
  and lists have only cells and items in them. With `Html`, of others: `<b><i></b></i>` makes
  the search for the beginning of an element leave the text (`Common/Html2Cet.c:234`);
  text in a table, but behind an empty row and outside of any cell, leaves a mark
  that is never closed, as the five marks of a table of one cell are not all there
  (`Common/Html2Cet.c:268`); an item of a list without its end, or a list that is
  empty in an item of another list of that kind, leaves the item open in `tagsOpen`, and
  the first item of a list in the next text is not opened; a style in the same style
  ends with the inner one; cells without their ends are glued together.
* A character that is not visible, followed by the mark of a style and a space, is cut
  in the middle ("cut" in `Html`): as many bytes are taken from the end as it has
  (`Common/HtmlRefs.c:188`).
* A malformed encoded word ends the cleaning of headers (`deliver/processing.c:112-121`): all
  headers behind it are lost ("bad" in `Headers`; `SubjectFound` does not speak of such
  mails). Space between an encoded word and a text is lost if an empty encoded word
  is between them.
* An encoded word may decode to a newline, which then separates headers; `Headers` has
  no such word.
* `processEmail` copies the source when the parts of a mail cannot be found, and leaves
  `lenBody` at 0 (`deliver/processing.c:565-574`), so that the copy has no effect.
* The length of an attachment lacks the two bytes of its ParentID
  (`deliver/processing.c:483`): it is stored two bytes short.
* A deletion that failed at `ftruncate` (`storage/IO.c:442`), after the envelopes had been
  moved, changes neither the index nor the length of the file. The client is told that it
  failed, and a repeated one moves the envelopes once more: the next message is gone, too.
  `DeleteLosesOne` holds, because that one was not readable where the index has it any more.
* `saveSettings` and `saveUser` tell nobody when they fail (`account/IO.c:65-79`, `101-138`): a
  request that was answered as done may be undone by the next start. It is what `Undone` leaves
  out of the properties of `Account`.
* In `SendMail`, a connection that is reset while a reply is awaited, before TLS, makes the
  length of the status -1 (`api/SendMail.c:283-285`): the state "crash". Over TLS,
  `wolfSSL_read` and `wolfSSL_write` return 0 for a connection that was closed or reset, and
  `smtp_send` (`api/SendMail.c:248-252`) tries again for ever: the state "stuck". The sockets
  have no time limit (`makeSocket`), so a server that neither answers nor closes keeps the
  process waiting for ever as well. A greeting may be longer than
  the 127 bytes that are kept of it (`api/SendMail.c:314`), and one of several lines is
  refused.
* AEM-Manager sends each process the ids of the servers that it calls, and `IntCom/Client.c:70`
  hands them to `peerOk`, which is compiled without looking at them (`IntCom/peerok.c:16`).
  AEM-API reads two of the three that it is sent (`api/main.c:36`), and AEM-Storage is sent none;
  both call all their servers all the same.
* A mail server without an address, or with one in a private network, is connected to
  at 0.0.0.0 or 1.0.0.0 (`Common/ValidIp.c`, `enquiry/DNS.c:109`).
* A client that is told 451 after some of the recipients were served
  (`deliver/store.c:37`) sends the mail again, and these get it twice.

## 6. What is not modelled

* Cryptography, and the layout of messages on disk and on sockets: fixed by
  libsodium and wolfSSL, or without a state.
* The sandbox of a process (mounts, capabilities, limits): a sequence of system calls
  at whose first failure the process ends.
* Named references of HTML and the tables of character sets, DKIM, dates, IP
  information: functions of one mail that do not decide whether or for whom it is
  stored.
* DNS bytes, PTR and TXT records, and GeoIP in AEM-Enquiry.
* AEM-Web, which keeps no state, and the utilities but for the files that Creator makes
  (the initial states of `Storage` and `Account`) and the commands of ManagerClient
  (actions of `Manager`).
* Failing allocations, but for those of `storage_create`, `saveUser` and `createEmail`.

## 7. The plan

Order, the most important behaviour first, and where it stands:

1. `Storage`, `MailStore`, `StorageFaults`, with their proofs: done.
2. `Account` with its proofs: done.
3. `IntCom`, `AccountStorage` with the proof of `BoxIsOwners`: done.
4. `ApiRequest` and `Browse` with their proofs: done.
5. `MailTransfer` with its proofs: done.
6. `Manager` with the pipe and the keys, and its proofs: done.
7. `Addr32`, `MailText`, `Headers`, `Html`, `Texts`, `Mime`, with the proofs of five of their
   conversions and of `Mime`: done; left are
   `minifyHeaderAddress`, the other header fields with their limits, named references,
   the canonical forms of DKIM and the parsing of dates.
8. `Enquiry`, `SendMail` with its proofs: done; TXT and PTR records could be added.

Worth proving next: `SubjectFound`, by an invariant of `HeaderStep` like `LooksAlike`; then
`MarkupRead` and `TextStyled`, where the hard part is that `Closed` finds the beginning of the
element that ends, in documents that are well nested.

Abstract specifications worth stating next: of `AccountStorage`, a map from UserIDs to
accounts with their mailboxes, changed in one step; of `MailTransfer`, the delivery of
a mail to a set of recipients in one step for each.
