----------------------------- MODULE CephBackend -----------------------------
(***************************************************************************)
(* aiori-CEPHFS.c, the table of functions through which mdtest reaches     *)
(* CephFS: one mount handle per process, a descriptor in a cell of its own *)
(* for every open file, and two ways of reporting a failure.  Open, close, *)
(* transfers, delete and sync abort the job (CEPHFS_ERR); mkdir, rmdir and *)
(* stat return what libcephfs returns, 0 or a negative error number.       *)
(* libcephfs itself is external: a name space, contents, and calls that    *)
(* may fail or be cut short.                                               *)
(***************************************************************************)
EXTENDS Integers, Sequences

CONSTANTS
  NTasks,      \* the processes of the job
  MaxFaults    \* bound on the calls that fail for a reason of their own

ASSUME BackendAssumption == NTasks \in Nat \ {0} /\ MaxFaults \in Nat

Ranks == 0 .. NTasks - 1

\* Error numbers.
EPERM == 1
ENOENT == 2
EIO == 5
EEXIST == 17
ENOTEMPTY == 39

Root == <<"root", 0, 0>>   \* the directory the test directory is made in

VARIABLES
  cmount,    \* cmount[r]: "null", "mounted", or "shut": set, but shut down
  handles,   \* handles[r]: the paths of r's open descriptors, oldest first
  files,     \* path -> content, a sequence of bytes
  dirs,      \* the directories that exist
  faults,    \* the failures so far
  aborted    \* CEPHFS_ERR or FAIL has aborted the job

storage == <<files, dirs>>
backend == <<cmount, handles, files, dirs, faults, aborted>>

BackendInit ==
  /\ cmount = [r \in Ranks |-> "null"]
  /\ handles = [r \in Ranks |-> <<>>]
  /\ files = [p \in {} |-> <<>>]
  /\ dirs = {Root}
  /\ faults = 0
  /\ aborted = FALSE

\* What a libcephfs call that would return `natural` may return.
Returns(natural, ret) ==
  \/ ret = natural /\ UNCHANGED faults
  \/ /\ natural >= 0 /\ ret \in {-EPERM, -EIO}
     /\ faults < MaxFaults
     /\ faults' = faults + 1

\* CEPHFS_ERR on a negative result.
Err(ret) == aborted' = (ret < 0)

-----------------------------------------------------------------------------
\* CEPHFS_Init: create, configure, mount and look up the root, unless there is a handle.
CEPHFS_Init(r) ==
  \E ret \in {0, -EPERM, -EIO} :
    /\ IF cmount[r] # "null" THEN ret = 0 /\ UNCHANGED faults ELSE Returns(0, ret)
    /\ Err(ret)
    /\ cmount' = IF cmount[r] = "null" /\ ret = 0
                 THEN [cmount EXCEPT ![r] = "mounted"] ELSE cmount
    /\ UNCHANGED <<handles, storage>>

\* CEPHFS_Final: the handle is shut down, and stays in cmount.
CEPHFS_Final(r) ==
  /\ cmount' = [cmount EXCEPT ![r] = "shut"]
  /\ UNCHANGED <<handles, storage, faults, aborted>>

OpenResult(path, parent, create) ==
  IF path \in DOMAIN files \/ (create /\ parent \in dirs) THEN 0 ELSE -ENOENT

\* CEPHFS_Create and CEPHFS_Open: a cell for the descriptor, and the descriptor.
CEPHFS_Open(r, path, parent, create) ==
  \E ret \in {0, -EPERM, -EIO, -ENOENT} :
    /\ Returns(OpenResult(path, parent, create), ret)
    /\ Err(ret)
    /\ handles' = IF ret = 0 THEN [handles EXCEPT ![r] = Append(@, path)] ELSE handles
    /\ files' = IF ret # 0 THEN files
                ELSE [p \in DOMAIN files \cup {path} |->
                        IF p \in DOMAIN files THEN files[p] ELSE <<>>]
    /\ UNCHANGED <<cmount, dirs>>

\* The file of the descriptor in the cell that r holds.
Opened(r) == handles[r][Len(handles[r])]

\* Bytes put at the head of a file.
Overwrite(old, bytes) == bytes \o SubSeq(old, Len(bytes) + 1, Len(old))

\* Mutant: a short write taken for a complete one.
WriteFailsShortUnnoticed(ret, length) == ret < 0
WriteFails(ret, length) == ret < length

\* CEPHFS_Xfer, WRITE at offset 0: an error and a short write abort, and with
\* fsyncPerWrite a failing fsync does.
CEPHFS_Write(r, bytes, fsyncPerWrite) ==
  \E ret \in {Len(bytes), Len(bytes) - 1, -EIO}, sync \in {0, -EIO} :
    /\ faults' = faults + (IF ret = Len(bytes) THEN 0 ELSE 1)
                        + (IF sync = 0 THEN 0 ELSE 1)
    /\ faults' <= MaxFaults
    /\ sync # 0 => fsyncPerWrite /\ ~WriteFails(ret, Len(bytes))
    /\ aborted' = (WriteFails(ret, Len(bytes)) \/ sync < 0)
    /\ files' = IF ret < 0 THEN files
                ELSE [files EXCEPT ![Opened(r)] = Overwrite(@, SubSeq(bytes, 1, ret))]
    /\ UNCHANGED <<cmount, handles, dirs>>

\* The bytes at the head of a file that a read of `length` can return.
FirstBytes(content, length) ==
  SubSeq(content, 1, IF Len(content) < length THEN Len(content) ELSE length)

\* CEPHFS_Xfer, READ at offset 0 of `length` bytes, which arrive as `bytes`: an error and
\* a short read, of a file that is too short or of a call cut short, abort.
CEPHFS_Read(r, length, bytes) ==
  LET there == FirstBytes(files[Opened(r)], length)
  IN  \/ /\ Len(there) = length /\ bytes = there
         /\ UNCHANGED <<faults, aborted>>
         /\ UNCHANGED <<cmount, handles, storage>>
      \/ /\ Len(there) < length \/ faults < MaxFaults
         /\ bytes = <<>>
         /\ faults' = IF Len(there) < length THEN faults ELSE faults + 1
         /\ aborted' = TRUE
         /\ UNCHANGED <<cmount, handles, storage>>

\* CEPHFS_Close: close, and free the cell.
CEPHFS_Close(r) ==
  \E ret \in {0, -EPERM, -EIO} :
    /\ Returns(0, ret)
    /\ Err(ret)
    /\ handles' = IF ret = 0
                  THEN [handles EXCEPT ![r] = SubSeq(@, 1, Len(@) - 1)] ELSE handles
    /\ UNCHANGED <<cmount, storage>>

\* CEPHFS_Delete.
CEPHFS_Delete(path) ==
  \E ret \in {0, -EPERM, -EIO, -ENOENT} :
    /\ Returns(IF path \in DOMAIN files THEN 0 ELSE -ENOENT, ret)
    /\ Err(ret)
    /\ files' = IF ret = 0 THEN [p \in DOMAIN files \ {path} |-> files[p]] ELSE files
    /\ UNCHANGED <<cmount, handles, dirs>>

\* CEPHFS_Sync.
CEPHFS_Sync ==
  \E ret \in {0, -EPERM, -EIO} :
    /\ Returns(0, ret)
    /\ Err(ret)
    /\ UNCHANGED <<cmount, handles, storage>>

-----------------------------------------------------------------------------
(* The functions that hand their result on; the caller decides what aborts *)

\* CEPHFS_MkDir.
CEPHFS_MkDir(path, parent, ret) ==
  /\ Returns(IF path \in dirs THEN -EEXIST
             ELSE IF parent \notin dirs THEN -ENOENT ELSE 0, ret)
  /\ dirs' = IF ret = 0 THEN dirs \cup {path} ELSE dirs
  /\ UNCHANGED <<cmount, handles, files>>

\* CEPHFS_RmDir, of a directory that holds nothing or `holds` something.
CEPHFS_RmDir(path, holds, ret) ==
  /\ Returns(IF path \notin dirs THEN -ENOENT ELSE IF holds THEN -ENOTEMPTY ELSE 0, ret)
  /\ dirs' = IF ret = 0 THEN dirs \ {path} ELSE dirs
  /\ UNCHANGED <<cmount, handles, files>>

\* CEPHFS_Stat.
CEPHFS_Stat(path, ret) ==
  /\ Returns(IF path \in dirs \cup DOMAIN files THEN 0 ELSE -ENOENT, ret)
  /\ UNCHANGED <<cmount, handles, storage>>
=============================================================================
