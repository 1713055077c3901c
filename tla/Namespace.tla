----------------------------- MODULE Namespace ------------------------------
(***************************************************************************)
(* The file system under test, as mdtest sees it through the aiori backend *)
(* (mkdir, create, mknod, stat, open, delete, rmdir).  It is not part of   *)
(* the repository: the operators say only what the calls made by mdtest    *)
(* rely on, a hierarchical name space shared by all the clients in which   *)
(* every call is atomic.                                                   *)
(*                                                                         *)
(* A path is a sequence of components; the root is the empty sequence.  A  *)
(* name space maps every existing path to the client that made it.         *)
(***************************************************************************)
EXTENDS SequencesExt

NoNodes == <<>>    \* the name space with nothing but the root

Exists(fs, path) == path = <<>> \/ path \in DOMAIN fs

IsEmpty(fs, path) == ~ \E p \in DOMAIN fs : p # <<>> /\ Front(p) = path

\* mkdir and mknod make a new name below an existing one.
CanAdd(fs, path) == Exists(fs, Front(path)) /\ ~Exists(fs, path)

\* create, and open with O_CREAT, also take a file that is already there.
CanCreate(fs, path) == Exists(fs, Front(path))

CanRmdir(fs, path) == path \in DOMAIN fs /\ IsEmpty(fs, path)

With(fs, path, client) ==
  [p \in DOMAIN fs \cup {path} |-> IF p = path THEN client ELSE fs[p]]

Without(fs, path) == [p \in DOMAIN fs \ {path} |-> fs[p]]
=============================================================================
