----------------------------- MODULE NameSpace -----------------------------
(***************************************************************************)
(* What the file system promises about names: a tree of regular files and  *)
(* directories that changes at one path at a time.  A name is made where   *)
(* there is none, under a directory that exists; only files and empty      *)
(* directories are removed.  Which path changes, the call's or one on the  *)
(* way to it, the tree does not say (see Fs).                              *)
(***************************************************************************)
EXTENDS SequencesExt

CONSTANT Paths      \* sequences of names, closed under Front but for the root

VARIABLE tree       \* what each path leads to

IsDirectory(path) == path = <<>> \/ tree[path] = "directory"
Children(path) == {q \in Paths : Len(q) = Len(path) + 1 /\ Front(q) = path}

TreeInit == tree = [path \in Paths |-> "none"]

Make(path, type) ==
    /\ tree[path] = "none"
    /\ IsDirectory(Front(path))
    /\ tree' = [tree EXCEPT ![path] = type]

RemoveFile(path) ==
    /\ tree[path] = "regular"
    /\ tree' = [tree EXCEPT ![path] = "none"]

RemoveDirectory(path) ==
    /\ tree[path] = "directory"
    /\ \A q \in Children(path) : tree[q] = "none"
    /\ tree' = [tree EXCEPT ![path] = "none"]

TreeNext ==
    \E path \in Paths :
        \/ Make(path, "regular") \/ Make(path, "directory")
        \/ RemoveFile(path) \/ RemoveDirectory(path)

TreeSpec == TreeInit /\ [][TreeNext]_tree
=============================================================================
