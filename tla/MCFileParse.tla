---------------------------- MODULE MCFileParse ----------------------------
(* Small instances of FileParse. *)
EXTENDS FileParse

BareNames == [n \in {"A<T>"} |-> "A"]

\* Where no name has a form with type parameters, the two are interchangeable and
\* trees that start with the one are enough.
FirstNamed == tree # <<>> /\ lang \notin {"go", "rust"} => tree[1].name # "B"
=============================================================================
