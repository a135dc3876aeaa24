-------------------------------- MODULE Mime --------------------------------
(***************************************************************************)
(* decodeMp of AEM-Deliver: the parts of a multipart message, and those of *)
(* multiparts in it.  The boundaries met are kept in a list; for each of   *)
(* them in turn the message is gone through from its beginning.            *)
(*                                                                         *)
(* A message is a sequence of pairs: <<"--", b>> and <<"end", b>> are the   *)
(* delimiters of the boundary b, the others are parts, headers and content *)
(* as far as the next delimiter.  The second element of a part is its      *)
(* name, for a multipart it is the boundary.                               *)
(***************************************************************************)
EXTENDS Integers, Sequences, FiniteSets, SequencesExt, FiniteSetsExt

CONSTANTS
  Messages,    \* the messages that arrive
  Root,        \* the boundary in the header of the mail
  MaxBounds,   \* AEM_LIMIT_MULTIPARTS
  MaxAttach    \* AEM_MAXNUM_ATTACHMENTS

(* A text; a file, or one that is too large; a multipart, or one without a  *)
(* boundary in its header; a part with headers of more than 9999 bytes.     *)
PartType == {"text", "file", "big", "multi", "loose", "long"}

IsPart(x)      == x[1] \in PartType
IsDelimiter(x) == x[1] \in {"--", "end"}

(* What MIME says of a message: a part stands behind a delimiter, the        *)
(* delimiters of a boundary behind the multipart that it belongs to, and   *)
(* the last of them says so.  It may break off anywhere.  That parts have   *)
(* names of their own, multiparts a boundary of their own, is what tells    *)
(* them apart; memmem finds no other one, as no boundary is the beginning  *)
(* of another or in the text of a part.                                    *)
WellFormed(m) ==
  /\ m \in Seq(ToSet(m))
  /\ \A k \in DOMAIN m :
       /\ IsPart(m[k]) => k > 1 /\ m[k - 1][1] = "--" /\ m[k][2] # Root
       /\ m[k][1] = "--" /\ k < Len(m) => IsPart(m[k + 1])
       /\ m[k][1] = "--" /\ m[k][2] # Root => \E j \in 1 .. k - 1 : m[j] = <<"multi", m[k][2]>>
  /\ \A j, k \in DOMAIN m :
       /\ IsPart(m[j]) /\ IsPart(m[k]) /\ m[j][2] = m[k][2] => j = k
       /\ m[j][1] = "end" /\ IsDelimiter(m[k]) /\ m[k][2] = m[j][2] => k <= j

ASSUME MimeAssumption ==
  /\ MaxBounds \in Nat \ {0, 1} /\ MaxAttach \in Nat
  /\ \A m \in Messages : WellFormed(m)

VARIABLES
  message,      \* src: the message
  bounds,       \* bound: boundaries
  turn,         \* i: number of the one that is looked for
  searchBegin,
  out,          \* the texts, in the order in which they are put together
  att,          \* email->attachment
  phase         \* "loop" or "done"

mimeVars == <<message, bounds, turn, searchBegin, out, att, phase>>

MimeInit ==
  /\ message \in Messages
  /\ bounds = <<Root>> /\ turn = 1 /\ searchBegin = 1
  /\ out = <<>> /\ att = <<>>
  /\ phase = "loop"

-----------------------------------------------------------------------------
(* memmem: the first of the places, 0 if there is none. *)

First(P) == IF P = {} THEN 0 ELSE Min(P)

Delimiter(b, n) ==
  First({k \in n .. Len(message) : IsDelimiter(message[k]) /\ message[k][2] = b})

Begin   == Delimiter(bounds[turn], searchBegin)
Header  == First({k \in Begin + 1 .. Len(message) : IsPart(message[k])})
PartEnd == Delimiter(bounds[turn], Header + 1)

Searching == phase = "loop" /\ turn <= Len(bounds)

Closing == Searching /\ Begin # 0 /\ message[Begin][1] = "end"

(* A delimiter, a part behind it whose headers are not too long, and the    *)
(* delimiter behind that.                                                  *)
HasPart ==
  /\ Searching
  /\ Begin # 0 /\ message[Begin][1] = "--"
  /\ Header # 0 /\ message[Header][1] # "long"
  /\ PartEnd # 0

Type == message[Header][1]
Name == message[Header][2]

(* getBound: the boundary is in the header. *)
HasBound == Type = "multi"

-----------------------------------------------------------------------------
(* One round of the loop. *)

(* Slip: the message is not gone through from its beginning. *)
LastDelimiterStays ==
  /\ Closing
  /\ turn' = turn + 1
  /\ UNCHANGED <<message, bounds, searchBegin, out, att, phase>>

LastDelimiter ==
  /\ Closing
  /\ searchBegin' = 1 /\ turn' = turn + 1
  /\ UNCHANGED <<message, bounds, out, att, phase>>

Text ==
  /\ HasPart /\ Type = "text"
  /\ out' = Append(out, Name)
  /\ searchBegin' = PartEnd
  /\ UNCHANGED <<message, bounds, turn, att, phase>>

(* A slip: the search is not moved on for a multipart without a boundary.   *)
MultipartStays ==
  /\ HasPart /\ Type \in {"multi", "loose"}
  /\ bounds' = IF Type = "multi" THEN Append(bounds, Name) ELSE bounds
  /\ phase' = IF Type = "multi" /\ Len(bounds) + 1 >= MaxBounds THEN "done" ELSE "loop"
  /\ searchBegin' = IF Type = "multi" THEN PartEnd ELSE Begin
  /\ UNCHANGED <<message, turn, out, att>>

(* The parts of a multipart are left for later. *)
Multipart ==
  /\ HasPart /\ Type \in {"multi", "loose"}
  /\ bounds' = IF HasBound THEN Append(bounds, Name) ELSE bounds
  /\ phase' = IF HasBound /\ Len(bounds) + 1 >= MaxBounds THEN "done" ELSE "loop"
  /\ searchBegin' = PartEnd
  /\ UNCHANGED <<message, turn, out, att>>

File ==
  /\ HasPart /\ Type \in {"file", "big"}
  /\ att' = IF Type = "file" /\ Len(att) < MaxAttach THEN Append(att, Name) ELSE att
  /\ searchBegin' = PartEnd
  /\ UNCHANGED <<message, bounds, turn, out, phase>>

(* All boundaries are done, the message breaks off, or the headers of a     *)
(* part are too long.                                                      *)
Stop ==
  /\ phase = "loop"
  /\ ~HasPart /\ ~Closing
  /\ phase' = "done"
  /\ UNCHANGED <<message, bounds, turn, searchBegin, out, att>>

MimeNext == LastDelimiter \/ Text \/ Multipart \/ File \/ Stop

MimeSpec     == MimeInit /\ [][MimeNext]_mimeVars
FairMimeSpec == MimeSpec /\ WF_mimeVars(MimeNext)

-----------------------------------------------------------------------------
(* Correctness. *)

(* The arrays have room, and the search stays within the message. *)
MimeTypeOK ==
  /\ searchBegin \in 1 .. Len(message) + 1
  /\ turn \in 1 .. Len(bounds) + 1
  /\ Len(bounds) \in 1 .. MaxBounds
  /\ Len(att) <= MaxAttach
  /\ phase \in {"loop", "done"}

NamesOf(type) == {message[k][2] : k \in {k \in DOMAIN message : message[k][1] = type}}

(* In a multipart in a multipart, too, and in a message that breaks off     *)
(* anywhere: no text and no attachment is taken twice, although the        *)
(* message is gone through once for each boundary.                         *)
NothingTwice ==
  Len(out) = Cardinality(ToSet(out)) /\ Len(att) = Cardinality(ToSet(att))

(* Of a message that is complete and has not too many multiparts or too     *)
(* long headers, every text is taken, and every attachment, up to the      *)
(* limit of their number.                                                  *)
EverythingTaken ==
  LET complete == /\ NamesOf("long") = {}
                  /\ \A b \in {Root} \cup NamesOf("multi") : <<"end", b>> \in ToSet(message)
  IN  phase = "done" /\ complete /\ Cardinality(NamesOf("multi")) + 1 < MaxBounds
        => /\ ToSet(out) = NamesOf("text")
           /\ ToSet(att) \subseteq NamesOf("file")
           /\ Len(att) = Min({MaxAttach, Cardinality(NamesOf("file"))})

(* Of a complete message every text and every attachment exactly once.      *)
ExactlyOnce == NothingTwice /\ EverythingTaken

(* The loop comes to an end for every message. *)
DecodingEnds == <>(phase = "done")
=============================================================================
