------------------------------ MODULE MCEvents ------------------------------
(* Two publishers and one or two consumers on a ring of three slots. *)
EXTENDS Events

CONSTANTS p1, p2

MCOptions ==
  {[tail |-> "next", arg |-> 0, actor |-> AnyActor],
   [tail |-> "last", arg |-> -1, actor |-> p1],
   [tail |-> "last", arg |-> 1, actor |-> AnyActor],
   [tail |-> "after", arg |-> 1, actor |-> AnyActor],
   [tail |-> "after", arg |-> 2, actor |-> AnyActor]}
=============================================================================
