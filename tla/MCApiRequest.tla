---------------------------- MODULE MCApiRequest ----------------------------
(***************************************************************************)
(* UserIDs 1 and 3 have the same low byte when a byte has two values.      *)
(***************************************************************************)
EXTENDS ApiRequest, TLC

Make(u, t, c, b) == [user |-> u, ts |-> t, cmd |-> c, to |-> b]

(* A user may send the second request first. *)
Requests  == {Make(1, 1, "public", <<1, 3>>), Make(1, 2, "account", <<>>),
              Make(3, 1, "continue", <<>>)}
OfStorage == {Make(3, 1, "delete", <<>>), Make(3, 2, "upload", <<>>)}
Alone     == {Make(1, 1, "email", <<1>>), Make(3, 1, "continue", <<>>)}

Processes == Permutations(Api)

OfBoth == {1, 3}
=============================================================================
