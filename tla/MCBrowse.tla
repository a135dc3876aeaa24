----------------------------- MODULE MCBrowse ------------------------------
(***************************************************************************)
(* Two envelopes of the middle size are a page with its header, three are  *)
(* more; the largest leaves no room for a header.                          *)
(***************************************************************************)
EXTENDS Browse

MCId   == 0 .. 3
MCSize == {2, 5, 11}
=============================================================================
