------------------------------- MODULE MCMime -------------------------------
(***************************************************************************)
(* Messages of up to two or three parts, with multiparts in them, and in   *)
(* these, that break off anywhere.                                         *)
(***************************************************************************)
EXTENDS Mime

Leaf(t)  == [type |-> t, parts |-> <<>>]
Multi(s) == [type |-> "multi", parts |-> s]
UpTo(S, n) == UNION {[1 .. k -> S] : k \in 1 .. n}

Plain  == {Leaf("text"), Leaf("file")}
Inner  == {Multi(s) : s \in UpTo(Plain, 2)}
Deeper == {Multi(<<m>>) : m \in Inner} \cup {Multi(<<m, Leaf("text")>>) : m \in Inner}
Part   == Plain \cup {Leaf("big"), Leaf("loose"), Leaf("long")} \cup Inner \cup Deeper
Mail   == {Multi(s) : s \in UpTo(Part, 2) \cup [1 .. 3 -> Plain \cup Inner]}

(* The name of a part is its place in the tree. *)
RECURSIVE Written(_, _)
Written(node, path) ==
  << <<node.type, path>> >> \o
  IF node.type # "multi" THEN <<>>
  ELSE FlattenSeq([k \in DOMAIN node.parts |->
                     << <<"--", path>> >> \o Written(node.parts[k], Append(path, k))])
         \o << <<"end", path>> >>

MCMessages ==
  UNION {LET w == Tail(Written(m, <<>>)) IN {SubSeq(w, 1, n) : n \in 0 .. Len(w)} : m \in Mail}

MCRoot == <<>>
=============================================================================
