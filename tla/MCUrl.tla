------------------------------- MODULE MCUrl --------------------------------
(***************************************************************************)
(* A ring of eight bytes and nodes of two, over a source longer than both. *)
(***************************************************************************)
EXTENDS Url

None == [op |-> "none", n |-> 0, whence |-> ""]
C(op, n) == [op |-> op, n |-> n, whence |-> ""]
S(n, whence) == [op |-> "seek", n |-> n, whence |-> whence]
Requests ==
  {C("read", 1), C("read", 3), C("read", 7), C("getc", 1), C("gets", 5),
   S(0, "set"), S(3, "set"), S(-2, "cur"), S(0, "cur"), S(5, "cur"),
   S(0, "end"), S(-2, "end"), C("skip", 4), C("rewind", 0), C("limit", 2),
   C("limit", -1), C("disable", 0), C("detach", 0), C("reopen", 0)}
LineEnds == {4, 5}
=============================================================================
