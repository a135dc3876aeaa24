------------------------------- MODULE Addr32 -------------------------------
(***************************************************************************)
(* Common/Addr32.c: the five-bit encoding of addresses, which AEM-MTA,     *)
(* AEM-API and AEM-Account apply to what stands before the '@'.  A text is *)
(* a sequence of one-character strings; the ten bytes of the result are    *)
(* the set of their bits that are 1, numbered 0 to 79 from the highest bit *)
(* of the first byte on.                                                   *)
(***************************************************************************)
EXTENDS Integers, Sequences, SequencesExt

Alike ==
  <<{"0","O","o"}, {"1","I","i","L","l"}, {"2"}, {"3"}, {"4"}, {"5"}, {"6"}, {"7"},
    {"8"}, {"9"}, {"A","a"}, {"B","b"}, {"C","c"}, {"D","d"}, {"E","e"}, {"F","f"},
    {"G","g"}, {"H","h"}, {"J","j"}, {"K","k"}, {"M","m"}, {"N","n"}, {"P","p"}, {"Q","q"},
    {"R","r"}, {"S","s"}, {"T","t"}, {"U","u"}, {"V","v","W","w"}, {"X","x"}, {"Y","y"}, {"Z","z"}>>

Unsupported == 255

charToAddr32(c) ==
  IF \E v \in DOMAIN Alike : c \in Alike[v]
  THEN (CHOOSE v \in DOMAIN Alike : c \in Alike[v]) - 1
  ELSE Unsupported

(* The characters that count. *)
Supported(text) ==
  FlattenSeq([i \in DOMAIN text |->
                IF charToAddr32(text[i]) = Unsupported THEN <<>> ELSE <<text[i]>>])

(* Slip: lenSrc is counted up for every character. *)
SourceOfAll(text) ==
  [k \in 0 .. 15 |-> IF k < Len(text) THEN charToAddr32(text[k + 1]) ELSE 0]

(* src: the first 16 supported characters, zeroes behind them.  What the    *)
(* last of the other characters leaves at src[lenSrc] is only overwritten  *)
(* by a supported one.                                                     *)
Source(text) ==
  LET s == Supported(text)
  IN  [k \in 0 .. 15 |->
         IF k < Len(s) THEN charToAddr32(s[k + 1])
         ELSE IF k = Len(s) /\ text # <<>> THEN
           IF charToAddr32(Last(text)) = Unsupported THEN Unsupported ELSE 0
         ELSE 0]

Bit(v, j) == (v \div 2^j) % 2 = 1

(* The bits of src[k], k < 15, as the shifts place them.  Of a value of     *)
(* more than five bits the upper ones go over the characters before it, as *)
(* far as the byte reaches in which it begins.                             *)
Placed(k, v) ==
  {5*k + 9 - j : j \in {j \in 0 .. 7 : Bit(v, j) /\ (5*k + 9 - j) \div 8 >= (5*k + 5) \div 8}}

(* The upper five bits of out[0]: the length, or 128 and the 16th character *)
Head5(src, len) ==
  {4 - j : j \in {j \in 0 .. 4 : Bit(IF len = 16 THEN src[15] ELSE len, j)}}
    \cup IF len = 16 THEN {0} ELSE {}

addr32_store(text) ==
  LET src == Source(text)
      s   == Supported(text)
      len == IF Len(s) < 16 THEN Len(s) ELSE 16
  IN  Head5(src, len) \cup UNION {Placed(k, src[k]) : k \in 0 .. 14}

-----------------------------------------------------------------------------
(* What the encoding says: the values of the characters. *)

Value(bits, first, n) ==
  FoldLeft(LAMBDA v, p : 2*v + (IF p \in bits THEN 1 ELSE 0), 0,
           [i \in 1 .. n |-> first + i - 1])

Read(bits) ==
  IF 0 \in bits
  THEN [k \in 1 .. 16 |-> IF k = 16 THEN Value(bits, 0, 5) ELSE Value(bits, 5*k, 5)]
  ELSE [k \in 1 .. Value(bits, 1, 4) |-> Value(bits, 5*k, 5)]

Meaning(text) ==
  LET s == Supported(text)
  IN  [k \in 1 .. (IF Len(s) < 16 THEN Len(s) ELSE 16) |-> charToAddr32(s[k])]
=============================================================================
