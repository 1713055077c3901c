------------------------------ MODULE FileData -------------------------------
(***************************************************************************)
(* What mdtest writes into its files, reads back and verifies, over the    *)
(* CephFS backend.  Every rank makes its items in one directory, the items *)
(* are stat'ed or read by the rank that nstride says, and removed; a file  *)
(* is opened, written or read, and closed by calls that interleave with    *)
(* those of the other ranks.  Calls may fail, and storage may lose a byte  *)
(* between the create and the read phase.                                  *)
(***************************************************************************)
EXTENDS CephBackend, FiniteSets

CONSTANTS
  Jobs,         \* the jobs to choose from
  MaxDamage     \* bound on the bytes that go bad

IsJob(j) ==
  /\ j.kind \in {"file", "dir"} /\ j.items \in Nat /\ j.nstride \in Nat
  /\ j.write_bytes \in Nat /\ j.read_bytes \in 0 .. j.write_bytes
  /\ \A flag \in {j.verify_read, j.shared_file, j.sync_file, j.call_sync} :
       flag \in BOOLEAN
  /\ j.verify_read => j.read_bytes > 0
  /\ j.shared_file => j.kind = "file"

ASSUME DataAssumption == MaxDamage \in Nat /\ \A j \in Jobs : IsJob(j)

VARIABLES
  job,
  stage,     \* stage[r]: an index of Stages, or beyond when r has returned
  item,      \* item[r]: the item of the loop r is at
  step,      \* step[r]: "open", "xfer" or "close", or "synced" after the loop
  waiting,   \* waiting[r]: r is in the barrier that ends its stage
  errors,    \* errors[r]: o.verification_error
  warned,    \* rank 0 has printed the warning about the data
  damage     \* the bytes that have gone bad: <<path, index>>

progress == <<stage, item, step, waiting>>
vars == <<backend, job, progress, errors, warned, damage>>

Stages == <<"init", "tree", "make", "look", "clear", "untree", "final">>

Top == <<"top", 0, 0>>
Shared == NTasks

\* mk_name, stat_name, read_name, rm_name: k strides further on.
Owner(r, k) == IF job.shared_file THEN Shared ELSE (r + k * job.nstride) % NTasks
Item(r, k, n) == <<job.kind, Owner(r, k), n>>

-----------------------------------------------------------------------------
(* The bytes *)

\* The item number as the first word of a buffer, low byte first; numbers have at most
\* three bytes here.
Word(n) ==
  [i \in 1 .. 8 |-> CASE i = 1 -> n % 256
                      [] i = 2 -> (n \div 256) % 256
                      [] i = 3 -> (n \div 65536) % 256
                      [] OTHER -> 0]

\* Mutant: the buffer still holds the number of the item before.
PatternStale(n, bytes) ==
  [i \in 1 .. bytes |-> IF bytes >= 8 /\ i <= 8 THEN Word(0)[i]
                        ELSE IF i = 1 THEN 0 ELSE i % 256]

\* generate_memory_pattern, and the item number that create_file puts in front.
Pattern(n, bytes) ==
  [i \in 1 .. bytes |-> IF bytes >= 8 /\ i <= 8 THEN Word(n)[i]
                        ELSE IF i = 1 THEN n % 256 ELSE i % 256]

\* The first element of a buffer is not the item number.
HeadWrong(n, buffer) ==
  IF Len(buffer) >= 8 THEN SubSeq(buffer, 1, 8) # Word(n) ELSE buffer[1] # n % 256

\* Mutant: the loop over the rest of the buffer starts one byte late.
RestWrongLate(buffer) ==
  \E i \in 1 .. Len(buffer) : i > (IF Len(buffer) < 8 THEN 2 ELSE 9) /\ buffer[i] # i % 256

\* Some byte behind the first element is not the pattern's.
RestWrong(buffer) ==
  \E i \in 1 .. Len(buffer) : i > (IF Len(buffer) < 8 THEN 1 ELSE 8) /\ buffer[i] # i % 256

\* mdtest_verify_data with -X, otherwise the lightweight check of mdtest_read: by how
\* much verification_error goes up.
Verified(n, buffer) ==
  (IF HeadWrong(n, buffer) THEN 1 ELSE 0)
    + (IF job.verify_read /\ RestWrong(buffer) THEN 1 ELSE 0)

-----------------------------------------------------------------------------
Init ==
  /\ BackendInit
  /\ job \in Jobs
  /\ stage = [r \in Ranks |-> 1]
  /\ item = [r \in Ranks |-> 0]
  /\ step = [r \in Ranks |-> "open"]
  /\ waiting = [r \in Ranks |-> FALSE]
  /\ errors = [r \in Ranks |-> 0]
  /\ warned = FALSE
  /\ damage = {}

Finished(r) == stage[r] > Len(Stages)
Running(r) == ~aborted /\ ~Finished(r) /\ ~waiting[r]

\* Mutant: all the ranks delete the one file of -S.
RoundsOfAll(r) ==
  CASE Stages[stage[r]] \in {"init", "final"} -> 1
    [] Stages[stage[r]] \in {"tree", "untree"} -> IF r = 0 THEN 1 ELSE 0
    [] OTHER -> job.items

\* How often r goes round the loop of its stage.  With -S only rank 0 deletes.
Rounds(r) ==
  CASE Stages[stage[r]] \in {"init", "final"} -> 1
    [] Stages[stage[r]] \in {"tree", "untree"} -> IF r = 0 THEN 1 ELSE 0
    [] Stages[stage[r]] = "clear" /\ job.shared_file /\ r # 0 -> 0
    [] OTHER -> job.items

\* r is about to make the call `call` of an item.
At(r, name, call) ==
  Running(r) /\ Stages[stage[r]] = name /\ item[r] < Rounds(r) /\ step[r] = call

\* On to the next call of the item, or to the next item; not if the call has aborted.
Then(r, call) ==
  /\ step' = [step EXCEPT ![r] = call]
  /\ item' = [item EXCEPT ![r] = IF call = "open" THEN @ + 1 ELSE @]
  /\ UNCHANGED <<job, stage, waiting, warned, damage>>
NextItem(r) == Then(r, "open") /\ UNCHANGED errors
NextCall(r, call) == Then(r, call) /\ UNCHANGED errors

Initialize(r) == At(r, "init", "open") /\ CEPHFS_Init(r) /\ NextItem(r)

Codes == {0, -EPERM, -EIO, -ENOENT, -EEXIST, -ENOTEMPTY}

\* mdtest calls FAIL only when the result is -1.
FailOnMinusOne(ret) == aborted' = (ret = -1)

\* create_remove_directory_tree: a top directory that cannot be made is only reported.
MakeTree(r) ==
  /\ At(r, "tree", "open")
  /\ \E ret \in Codes : CEPHFS_MkDir(Top, Root, ret)
  /\ UNCHANGED aborted
  /\ NextItem(r)

\* create_remove_dirs.
MakeDir(r) ==
  /\ At(r, "make", "open") /\ job.kind = "dir"
  /\ \E ret \in Codes :
       CEPHFS_MkDir(Item(r, 0, item[r]), Top, ret) /\ FailOnMinusOne(ret)
  /\ NextItem(r)

\* create_file: create, write if there is something to write, close.
CreateFile(r) ==
  /\ At(r, "make", "open") /\ job.kind = "file"
  /\ CEPHFS_Open(r, Item(r, 0, item[r]), Top, TRUE)
  /\ NextCall(r, IF job.write_bytes > 0 THEN "xfer" ELSE "close")

WriteFile(r) ==
  /\ At(r, "make", "xfer")
  /\ CEPHFS_Write(r, Pattern(item[r], job.write_bytes), job.sync_file)
  /\ NextCall(r, "close")

\* mdtest_stat.
StatItem(r) ==
  /\ At(r, "look", "open") /\ job.kind = "dir"
  /\ \E ret \in Codes : CEPHFS_Stat(Item(r, 1, item[r]), ret) /\ FailOnMinusOne(ret)
  /\ NextItem(r)

\* mdtest_read: open, read and check if there is something to read, close.
OpenFile(r) ==
  /\ At(r, "look", "open") /\ job.kind = "file"
  /\ CEPHFS_Open(r, Item(r, 2, item[r]), Top, FALSE)
  /\ NextCall(r, IF job.read_bytes > 0 THEN "xfer" ELSE "close")

ReadFile(r) ==
  /\ At(r, "look", "xfer")
  /\ \E buffer \in {<<>>, FirstBytes(files[Opened(r)], job.read_bytes)} :
       /\ CEPHFS_Read(r, job.read_bytes, buffer)
       /\ errors' = IF aborted' THEN errors
                    ELSE [errors EXCEPT ![r] = @ + Verified(item[r], buffer)]
  /\ Then(r, "close")

CloseFile(r) ==
  /\ At(r, "make", "close") \/ At(r, "look", "close")
  /\ CEPHFS_Close(r)
  /\ NextItem(r)

\* remove_file: mdtest does not look at the result of delete, but the backend does.
RemoveFile(r) ==
  /\ At(r, "clear", "open") /\ job.kind = "file"
  /\ CEPHFS_Delete(Item(r, 3, item[r]))
  /\ NextItem(r)

RemoveDir(r) ==
  /\ At(r, "clear", "open") /\ job.kind = "dir"
  /\ \E ret \in Codes :
       CEPHFS_RmDir(Item(r, 3, item[r]), FALSE, ret) /\ FailOnMinusOne(ret)
  /\ NextItem(r)

\* The top directory is removed with a warning at most.
RemoveTree(r) ==
  /\ At(r, "untree", "open")
  /\ \E ret \in Codes : CEPHFS_RmDir(Top, files # <<>> \/ dirs \ {Root, Top} # {}, ret)
  /\ UNCHANGED aborted
  /\ NextItem(r)

\* The end of mdtest_run.  VERBOSE(0, -1, ..) prints on rank 0 only.
Finalize(r) ==
  /\ At(r, "final", "open")
  /\ CEPHFS_Final(r)
  /\ warned' = (warned \/ (r = 0 /\ errors[r] > 0))
  /\ item' = [item EXCEPT ![r] = @ + 1]
  /\ UNCHANGED <<job, stage, step, waiting, errors, damage>>

\* phase_end with -Y.
Sync(r) ==
  /\ Running(r) /\ item[r] = Rounds(r) /\ step[r] = "open"
  /\ job.call_sync /\ Stages[stage[r]] \in {"make", "look", "clear"}
  /\ CEPHFS_Sync
  /\ NextCall(r, "synced")

\* The loop is over; the barrier.
EnterBarrier(r) ==
  /\ Running(r) /\ item[r] = Rounds(r)
  /\ job.call_sync /\ Stages[stage[r]] \in {"make", "look", "clear"} =>
       step[r] = "synced"
  /\ waiting' = [waiting EXCEPT ![r] = TRUE]
  /\ UNCHANGED <<backend, job, stage, item, step, errors, warned, damage>>

LeaveBarrier(r) ==
  /\ ~aborted /\ waiting[r]
  /\ \A q \in Ranks : stage[q] > stage[r] \/ (stage[q] = stage[r] /\ waiting[q])
  /\ stage' = [stage EXCEPT ![r] = @ + 1]
  /\ item' = [item EXCEPT ![r] = 0]
  /\ step' = [step EXCEPT ![r] = "open"]
  /\ waiting' = [waiting EXCEPT ![r] = FALSE]
  /\ UNCHANGED <<backend, job, errors, warned, damage>>

\* Storage: a byte of a file goes bad before anybody reads.
Damage(path, i) ==
  /\ ~aborted /\ Cardinality(damage) < MaxDamage /\ <<path, i>> \notin damage
  /\ \A r \in Ranks : stage[r] = 3 /\ waiting[r]
  /\ damage' = damage \cup {<<path, i>>}
  /\ files' = [files EXCEPT ![path][i] = (@ + 1) % 256]
  /\ UNCHANGED <<cmount, handles, dirs, faults, aborted, job, progress, errors, warned>>

RankStep(r) ==
  \/ Initialize(r) \/ MakeTree(r) \/ MakeDir(r) \/ CreateFile(r) \/ WriteFile(r)
  \/ StatItem(r) \/ OpenFile(r) \/ ReadFile(r) \/ CloseFile(r)
  \/ RemoveFile(r) \/ RemoveDir(r) \/ RemoveTree(r) \/ Finalize(r)
  \/ Sync(r) \/ EnterBarrier(r) \/ LeaveBarrier(r)

Stop == (aborted \/ \A r \in Ranks : Finished(r)) /\ UNCHANGED vars

Next ==
  \/ \E r \in Ranks : RankStep(r)
  \/ \E path \in DOMAIN files : \E i \in DOMAIN files[path] : Damage(path, i)
  \/ Stop

Spec == Init /\ [][Next]_vars

-----------------------------------------------------------------------------
(* What the data promise *)

MakeOver == \A r \in Ranks : stage[r] > 3 \/ (stage[r] = 3 /\ waiting[r])
LookOver == \A r \in Ranks : stage[r] > 4 \/ (stage[r] = 4 /\ waiting[r])
Untouched == \A r \in Ranks : stage[r] < 5

\* When a create phase ends without an abort, every file that was asked for is there
\* with all its bytes, whatever failed or was cut short on the way.
FilesComplete ==
  MakeOver /\ Untouched /\ ~aborted /\ job.kind = "file" /\ damage = {} =>
    \A r \in Ranks, n \in 0 .. job.items - 1 :
      LET path == Item(r, 0, n)
      IN  path \in DOMAIN files /\ files[path] = Pattern(n, job.write_bytes)

\* Files that storage has kept are never reported, with -X provided that what is written
\* and what is read are both a word long or both shorter.
NoFalseAlarm ==
  /\ damage = {}
  /\ job.verify_read => (job.write_bytes >= 8 <=> job.read_bytes >= 8)
  => \A r \in Ranks : errors[r] = 0

\* The bytes that the read phase looks at: with -X all it reads, else the first element.
Window == IF job.verify_read THEN 1 .. job.read_bytes
          ELSE 1 .. (IF job.read_bytes >= 8 THEN 8
                     ELSE IF job.read_bytes >= 1 THEN 1 ELSE 0)

\* A byte that went bad there is counted by some rank, with the proviso of NoFalseAlarm:
\* else a byte of an item number may go bad towards what the other layout has in its place.
DamageCounted ==
  /\ LookOver /\ ~aborted /\ job.kind = "file"
  /\ job.verify_read => (job.write_bytes >= 8 <=> job.read_bytes >= 8)
  /\ \E d \in damage : d[2] \in Window
  => \E r \in Ranks : errors[r] > 0

\* A job in which no call fails of its own account runs to its end, and leaves no file,
\* no directory and no open descriptor behind.
CleanWithoutFaults ==
  faults = 0 =>
    /\ ~aborted
    /\ (\A r \in Ranks : Finished(r)) =>
         /\ files = <<>> /\ dirs = {Root}
         /\ \A r \in Ranks : handles[r] = <<>> /\ cmount[r] = "shut"

\* The warning at the end: if the data were found wrong, the user is told.
DamageReported ==
  (\A r \in Ranks : Finished(r)) /\ (\E r \in Ranks : errors[r] > 0) => warned

\* A create phase that ends without an abort has made every directory.
DirectoriesMade ==
  MakeOver /\ Untouched /\ ~aborted /\ job.kind = "dir" =>
    \A r \in Ranks, n \in 0 .. job.items - 1 : Item(r, 0, n) \in dirs
=============================================================================
