------------------------------ MODULE MCTexts -------------------------------
(***************************************************************************)
(* Addresses around the limit of 16 characters: short ones, and those that *)
(* begin with 12.  Quoted-printable text of "A", a newline, "=3D", "=c3",  *)
(* "=20" and the soft line break; base64 of "A", "n", "/", "=" and newlines. *)
(* Headers of any kind, and every subject behind another header.           *)
(***************************************************************************)
EXTENDS Texts

Tags(S)  == {"open", "close"} \X S
Chars(S) == {"text"} \X S

Piece(chars, means) == [chars |-> chars, means |-> means]

Pieces ==
  {Piece(<<"x">>, << <<"text", "x">> >>),
   Piece(<<"sp">>, << <<"text", "sp">> >>),
   Piece(<<"nl">>, <<>>),
   Piece(<<"<", "b", "sp", "x", "=", "quote", "apos", ">", "quote", ">">>, << <<"open", "b">> >>),
   Piece(<<"<", "/", "b", "sp", ">">>, << <<"close", "b">> >>),
   Piece(<<"<", "br", "/", ">">>, << <<"void", "br">> >>),
   Piece(<<"<", "pre", ">">>, << <<"open", "pre">> >>),
   Piece(<<"<", "/", "pre", "sp", ">">>, << <<"close", "pre">> >>),
   Piece(<<"<!--", "apos", "<", "b", ">", "-->">>, <<>>),
   Piece(<<"<style", ">", "<", "b", ">", "</style", ">">>, <<>>),
   Piece(<<"<", "blockquote", "x", "/", ">">>, <<>>),
   Piece(<<"<", "a", "sp", "x", "href", "=", "http://", "x", ">">>, <<>>),
   Piece(<<"<", "a", "sp", "href", "=", "apos", "apos", "sp", "x", "=", "http://", ">">>, <<>>),
   Piece(<<"<", "a", "nl", "href", "sp", "=", "sp", "http://", "x", "apos", ">">>,
         << <<"link", "LNK">>, <<"text", "x">>, <<"text", "apos">>, <<"link", "LNK">> >>),
   Piece(<<"<", "img", "sp", "x", "=", "apos", "=", "apos", "src", "=", "quote", "https://", "apos", "quote", ">">>,
         << <<"link", "FILS">>, <<"text", "apos">>, <<"link", "FILS">> >>)}

Addresses == {"0", "L", "w", "Z", "-"}

MCItems ==
  [address |-> Addresses,
   long    |-> Addresses,
   plain   |-> {"x", "wide", "inv", "wj", "sp", "nbsp", "stop", "nl", "nel", "tab", "ctl"},
   quoted  |-> {<<65>>, <<10>>, <<61, 51, 68>>, <<61, 99, 51>>, <<61, 50, 48>>, <<61, 10>>},
   base64  |-> {65, 110, 47, 61, 10},
   mail    |-> {"x", ".", "sp", "nl"},
   head    |-> {"S", ":", "x", "sp", "nl", "ew", "raw", "bad"},
   header  |-> {":", "x", "sp", "nl", "ew", "ews", "raw"},
   styled  |-> Tags({"h1", "b"}) \cup Chars({"x", "sp"}) \cup {<<"void", "br">>},
   listed  |-> Tags({"ul", "li", "i"}) \cup Chars({"x", "sp"}),
   tabled  |-> Tags({"table", "tr", "td"}) \cup Chars({"x"}),
   markup  |-> Pieces,
   hex     |-> {"0", "1", "7", "8", "d", "f"},
   decimal |-> {"0", "1", "5", "9"}]

MCBegin ==
  [k \in DOMAIN MCItems |->
     {CASE k = "long"   -> [i \in 1 .. 12 |-> IF i % 2 = 0 THEN "q" ELSE "j"]
        [] k = "header" -> <<"x", ":", "nl", "S">>
        [] k = "hex"     -> <<"&", "#", "x", "1">>
        [] k = "decimal" -> <<"&", "#", "1">>
        [] OTHER        -> <<>>}]

MCMaxItems == [address |-> 4, long |-> 16, plain |-> 5, quoted |-> 5, base64 |-> 6, mail |-> 7,
   head |-> 5, header |-> 9, styled |-> 8, listed |-> 8, tabled |-> 14,
   markup |-> 4, hex |-> 9, decimal |-> 9]
=============================================================================
