-------------------------------- MODULE MCInodes --------------------------------
(* A small instance of Inodes for TLC. *)
EXTENDS Inodes, TLC

Call(op, path) == [op |-> op, path |-> path, new |-> path]
Link(path, new) == [op |-> "link", path |-> path, new |-> new]

\* A directory /d, in which f is a file or a directory, and d another name of
\* the file.
SmallCalls == {Call("mkdir", <<"d">>), Call("unlink", <<"d">>)}
              \cup {Call(op, <<"d", "f">>) : op \in {"mkdir", "create", "unlink"}}
              \cup {Link(<<"d", "f">>, <<"d", "d">>), Call("unlink", <<"d", "d">>),
                    Call("open", <<"d", "f", "..", "f">>)}
Symmetry == Permutations(Proc)
===============================================================================
