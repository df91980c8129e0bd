------------------------------- MODULE Folders -------------------------------
(***************************************************************************)
(* The folders below a root.  A path is the sequence of the names below the*)
(* root; a tree is a function from the paths of its folders to what they   *)
(* hold, which is up to the module that uses it.                           *)
(***************************************************************************)
EXTENDS Integers, SequencesExt

Root == <<>>

\* A sequence of names, whatever those are.
IsPath(p) == p \in Seq(Range(p))

IsDir(t, p) == p \in DOMAIN t

Below(t, p) == {q \in DOMAIN t : IsPrefix(p, q)}

\* The folders on the way to p, the root and p included.
Prefixed(p) == {SubSeq(p, 1, n) : n \in 0..Len(p)}

\* Where copy_dir_recursive puts what stands at q, when it copies source to target.
Rebased(source, target, q) == target \o SubSeq(q, Len(source) + 1, Len(q))

\* fs::remove_dir_all.
RemoveDirAll(t, p) == [q \in DOMAIN t \ Below(t, p) |-> t[q]]

=============================================================================
