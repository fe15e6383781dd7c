------------------------------ MODULE MCFiles -------------------------------
EXTENDS Files, TLC

Call(op, path) == [op |-> op, path |-> path, new |-> <<>>]

MCCalls ==
  {Call("open", <<"a", "b">>), Call("create", <<"a", "b">>), Call("mkdir", <<"a", "x">>),
   Call("mknod", <<"..", "x">>), Call("chdir", <<"a">>), Call("unlink", <<"a", "b">>),
   Call("unlink", <<"/", "a">>), Call("unlink", <<"f">>),
   [op |-> "link", path |-> <<"f">>, new |-> <<"a", "x">>]}

Interchangeable == Permutations(Procs)
=============================================================================
