------------------------------ MODULE MCNames -------------------------------
(* Small instances of Names: a directory a, and b in it or beside it.      *)
EXTENDS Names, TLC

Ask(op, path, new, rooted) == [op |-> op, path |-> path, new |-> new, rooted |-> rooted]

MCRequests ==
  {Ask(op, <<"a">>, <<>>, FALSE) : op \in {"mkdir", "unlink"}}
  \cup {Ask(op, <<"a", "b">>, <<>>, TRUE) : op \in {"create", "mkdir", "open", "unlink"}}
  \cup {Ask("chdir", path, <<>>, FALSE) : path \in {<<"a">>, <<"b">>, <<"..">>}}
  \cup {Ask("link", <<"a", "b">>, <<"b">>, FALSE)}

ProcSymmetry == Permutations(Procs)
=============================================================================
