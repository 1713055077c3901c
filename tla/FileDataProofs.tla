--------------------------- MODULE FileDataProofs ---------------------------
(***************************************************************************)
(* Proofs about FileData for any number of ranks, of items, of bytes       *)
(* written and read, and of faults: a create phase that ends without an    *)
(* abort has written every file completely, and data that storage has      *)
(* kept are never reported as wrong.                                       *)
(*                                                                         *)
(* Both rest on what is in the files at any time, half-written ones        *)
(* included: a prefix of the pattern of the item in the name (Faithful).   *)
(* That a write or a read goes to the item its rank believes, in a file    *)
(* that still exists, is a fact about the descriptors (Held), and that     *)
(* nobody removes files while others read is one about the barriers        *)
(* (Adjacent).  From the prefix to the whole file it takes the length of   *)
(* a write that did not abort (Made).                                      *)
(*                                                                         *)
(* The second half is about how a job ends: every byte of the read window  *)
(* that went bad has been counted, and a job in which no call failed of    *)
(* its own account has not aborted and leaves nothing behind.              *)
(*                                                                         *)
(* The barrier between the create and the read phase has all files         *)
(* complete before the first byte goes bad (FilesComplete), so that from   *)
(* then on a file is the pattern with the damaged bytes one further        *)
(* (Altered), and nobody reads before the last one has gone bad (AllRead). *)
(* A bad byte in the window is then always told from the pattern           *)
(* (AlteredFound), and the shifts of nstride bring some rank to every file *)
(* (SomebodyHas).                                                          *)
(*                                                                         *)
(* For the clean end, what has been made and not been removed is there,    *)
(* what has been removed is not, and nothing else is (Population), in      *)
(* terms of how far each rank has come.  The barriers say how far the      *)
(* others have come when a rank makes a call (SoFar), so that each call    *)
(* finds what it needs.                                                    *)
(***************************************************************************)
EXTENDS FileData, CommonLemmas

Names == {"file", "dir"} \X Nat \X Nat

-----------------------------------------------------------------------------
(* The invariant *)

Types ==
  /\ job \in Jobs
  /\ stage \in [Ranks -> 1 .. 8]
  /\ item \in [Ranks -> Nat]
  /\ step \in [Ranks -> {"open", "xfer", "close", "synced"}]
  /\ waiting \in [Ranks -> BOOLEAN]
  /\ handles \in [Ranks -> Seq(Names)]
  /\ errors \in [Ranks -> Nat]
  /\ aborted \in BOOLEAN
  /\ \A r \in Ranks : waiting[r] => stage[r] <= 7

\* A rank that is behind another one waits in the barrier that the other has left.
Adjacent ==
  \A r, q \in Ranks : stage[q] > stage[r] => waiting[r] /\ stage[q] = stage[r] + 1

\* The item a rank has open, and that it still exists.
HoldsItem(r) ==
  /\ item[r] < Rounds(r) /\ ~waiting[r]
  /\ stage[r] \in {3, 4}
  /\ handles[r] # <<>>
  /\ Opened(r) = Item(r, IF stage[r] = 3 THEN 0 ELSE 2, item[r])
  /\ Opened(r) \in DOMAIN files
  /\ step[r] = "xfer" => (IF stage[r] = 3 THEN job.write_bytes ELSE job.read_bytes) > 0

Held == \A r \in Ranks : ~aborted /\ step[r] \in {"xfer", "close"} => HoldsItem(r)

\* Bytes that some prefix of the pattern of item n may be.
Prefix(n, bytes) ==
  /\ bytes \in Seq(Int) /\ Len(bytes) <= job.write_bytes
  /\ \A i \in 1 .. Len(bytes) : bytes[i] = Pattern(n, job.write_bytes)[i]

Faithful == damage = {} => \A p \in DOMAIN files : Prefix(p[3], files[p])

IInv == Types /\ Adjacent /\ Held /\ Faithful /\ NoFalseAlarm

-----------------------------------------------------------------------------
(* Items and bytes *)

LEMMA JobType ==
  ASSUME job \in Jobs
  PROVE  /\ job.kind \in {"file", "dir"} /\ job.items \in Nat /\ job.nstride \in Nat
         /\ job.write_bytes \in Nat /\ job.read_bytes \in 0 .. job.write_bytes
         /\ job.verify_read \in BOOLEAN
  BY DataAssumption DEF IsJob

LEMMA ItemType ==
  ASSUME job \in Jobs, NEW r \in Ranks, NEW k \in {0, 1, 2, 3}, NEW n \in Nat
  PROVE  Item(r, k, n) \in Names /\ Item(r, k, n)[3] = n
<1>1. k * job.nstride \in Nat
  BY JobType
<1>2. r \in Nat /\ NTasks \in Nat \ {0}
  BY BackendAssumption DEF Ranks
<1>3. Owner(r, k) \in Nat
  BY <1>1, <1>2, JobType DEF Owner, Shared
<1>4. QED
  BY <1>3, JobType DEF Item, Names

LEMMA PatternType ==
  ASSUME NEW n \in Nat, NEW b \in Nat
  PROVE  /\ Pattern(n, b) \in Seq(Int) /\ Len(Pattern(n, b)) = b
         /\ \A i \in 1 .. b : Pattern(n, b)[i] = IF b >= 8 /\ i <= 8 THEN Word(n)[i]
                        ELSE IF i = 1 THEN n % 256 ELSE i % 256
<1>1. \A i \in 1 .. 8 : Word(n)[i] \in Int
  BY DEF Word
<1>2. \A i \in 1 .. b : (IF b >= 8 /\ i <= 8 THEN Word(n)[i]
                        ELSE IF i = 1 THEN n % 256 ELSE i % 256) \in Int
  BY <1>1
<1>3. QED
  BY <1>2 DEF Pattern

LEMMA WordType ==
  \A n \in Nat : Word(n) \in Seq(Int) /\ Len(Word(n)) = 8 /\ Word(n)[1] = n % 256
  BY DEF Word

\* What is a prefix of the pattern is not found wrong.
LEMMA PrefixVerified ==
  ASSUME job \in Jobs, NEW n \in Nat, NEW buffer, Prefix(n, buffer),
         Len(buffer) = job.read_bytes, job.read_bytes > 0,
         job.verify_read => (job.write_bytes >= 8 <=> job.read_bytes >= 8)
  PROVE  Verified(n, buffer) = 0
<1> DEFINE wb == job.write_bytes
           rb == job.read_bytes
<1>1. wb \in Nat /\ rb \in 1 .. wb /\ buffer \in Seq(Int) /\ Len(buffer) = rb
  BY JobType DEF Prefix
<1>2. \A i \in 1 .. rb : buffer[i] = Pattern(n, wb)[i]
  BY <1>1 DEF Prefix
<1>3. job.verify_read => (wb >= 8 <=> rb >= 8)
  OBVIOUS
<1> HIDE DEF wb, rb
<1>4. \A i \in 1 .. wb : Pattern(n, wb)[i] = IF wb >= 8 /\ i <= 8 THEN Word(n)[i]
                        ELSE IF i = 1 THEN n % 256 ELSE i % 256
  BY <1>1, PatternType
<1>5. \A i \in 1 .. rb : buffer[i] = IF wb >= 8 /\ i <= 8 THEN Word(n)[i]
                        ELSE IF i = 1 THEN n % 256 ELSE i % 256
  BY <1>1, <1>2, <1>4
<1>6. ~HeadWrong(n, buffer)
  <2>1. CASE rb >= 8
    <3>1. SubSeq(buffer, 1, 8) \in Seq(Int) /\ Len(SubSeq(buffer, 1, 8)) = 8
      BY <1>1, <2>1
    <3>2. \A i \in 1 .. 8 : SubSeq(buffer, 1, 8)[i] = Word(n)[i]
      BY <1>1, <1>5, <2>1
    <3>3. SubSeq(buffer, 1, 8) = Word(n)
      BY <3>1, <3>2, WordType
    <3>4. QED
      BY <1>1, <2>1, <3>3 DEF HeadWrong
  <2>2. CASE rb < 8
    <3>1. Word(n)[1] = n % 256
      BY WordType
    <3>2. 1 \in 1 .. rb
      BY <1>1
    <3>3. buffer[1] = n % 256
      BY <1>5, <3>1, <3>2
    <3>4. QED
      BY <1>1, <2>2, <3>3 DEF HeadWrong
  <2>3. QED
    BY <1>1, <2>1, <2>2
<1>7. ASSUME job.verify_read, NEW i \in 1 .. rb, i > (IF rb < 8 THEN 1 ELSE 8)
      PROVE  buffer[i] = i % 256
  BY <1>1, <1>3, <1>5, <1>7
<1>8. job.verify_read => ~RestWrong(buffer)
  BY <1>1, <1>7 DEF RestWrong
<1>9. QED
  BY <1>6, <1>8 DEF Verified

\* Writing a prefix of the pattern over another leaves a prefix.
LEMMA OverwritePrefix ==
  ASSUME job \in Jobs, NEW n \in Nat, NEW old, Prefix(n, old),
         NEW ret \in 0 .. job.write_bytes
  PROVE  Prefix(n, Overwrite(old, SubSeq(Pattern(n, job.write_bytes), 1, ret)))
<1> DEFINE wb == job.write_bytes
           P == Pattern(n, wb)
           head == SubSeq(P, 1, ret)
           tail == SubSeq(old, ret + 1, Len(old))
           new == head \o tail
<1>1. wb \in Nat /\ ret \in 0 .. wb
  BY JobType
<1>2. P \in Seq(Int) /\ Len(P) = wb
  BY ZenonT(30), <1>1, PatternType
<1>3. old \in Seq(Int) /\ Len(old) <= wb /\ \A i \in 1 .. Len(old) : old[i] = P[i]
  BY DEF Prefix
<1> HIDE DEF wb, P
<1>4. head \in Seq(Int) /\ Len(head) = ret /\ \A i \in 1 .. ret : head[i] = P[i]
  BY <1>1, <1>2
<1>5. /\ tail \in Seq(Int)
      /\ Len(tail) = IF Len(old) > ret THEN Len(old) - ret ELSE 0
      /\ \A i \in 1 .. Len(tail) : tail[i] = P[i + ret]
  <2>1. CASE Len(old) > ret
    BY SMTT(30), <1>1, <1>2, <1>3, <2>1
  <2>2. CASE ~(Len(old) > ret)
    BY <1>1, <1>3, <2>2
  <2>3. QED
    BY <2>1, <2>2
<1>6. new = Overwrite(old, head)
  BY <1>4 DEF Overwrite
<1> HIDE DEF head, tail
<1>7. new \in Seq(Int) /\ Len(new) = Len(head) + Len(tail) /\ Len(new) <= wb
  <2>1. head \in Seq(Int) /\ tail \in Seq(Int)
    BY <1>4, <1>5
  <2>2. new \in Seq(Int) /\ Len(new) = Len(head) + Len(tail)
    BY <2>1
  <2> HIDE DEF new
  <2>3. Len(old) \in Nat
    BY <1>3
  <2>4. QED
    BY <1>1, <1>3, <1>4, <1>5, <2>2, <2>3
<1>8. \A i \in 1 .. Len(new) : new[i] = P[i]
  <2> SUFFICES ASSUME NEW i \in 1 .. Len(new)
               PROVE  new[i] = P[i]
    OBVIOUS
  <2>1. CASE i <= ret
    BY <1>1, <1>4, <1>5, <1>7, <2>1
  <2>2. CASE i > ret
    <3>1. i - ret \in 1 .. Len(tail) /\ new[i] = tail[i - ret]
      BY SMTT(30), <1>1, <1>4, <1>5, <1>7, <2>2
    <3>2. i - ret + ret = i
      BY <1>1, <1>7
    <3>3. QED
      BY <1>5, <3>1, <3>2
  <2>3. QED
    BY <1>1, <1>7, <2>1, <2>2
<1> HIDE DEF new
<1>9. QED
  BY <1>6, <1>7, <1>8 DEF Prefix, wb, P, head

\* What a read returns of a prefix is one.
LEMMA FirstBytesPrefix ==
  ASSUME job \in Jobs, NEW n, NEW content, Prefix(n, content), NEW length \in Nat
  PROVE  Prefix(n, FirstBytes(content, length))
<1> DEFINE stop == IF Len(content) < length THEN Len(content) ELSE length
           bytes == SubSeq(content, 1, stop)
<1>1. content \in Seq(Int) /\ Len(content) \in Nat
  BY DEF Prefix
<1>2. stop \in 0 .. Len(content)
  BY <1>1
<1> HIDE DEF stop
<1>3. bytes \in Seq(Int) /\ Len(bytes) = stop /\ \A i \in 1 .. stop : bytes[i] = content[i]
  BY <1>1, <1>2
<1> HIDE DEF bytes
<1>4. Prefix(n, bytes)
  <2>1. Len(bytes) <= job.write_bytes
    BY <1>1, <1>2, <1>3, JobType DEF Prefix
  <2>2. QED
    BY SMTT(30), <1>2, <1>3, <2>1 DEF Prefix
<1>5. QED
  BY <1>4 DEF FirstBytes, bytes, stop

-----------------------------------------------------------------------------
(* The steps *)

LEMMA StageNames ==
  /\ Len(Stages) = 7
  /\ Stages[1] = "init" /\ Stages[2] = "tree" /\ Stages[3] = "make" /\ Stages[4] = "look"
  /\ Stages[5] = "clear" /\ Stages[6] = "untree" /\ Stages[7] = "final"
  BY DEF Stages

LEMMA AtStage ==
  ASSUME Types, NEW r \in Ranks, NEW call
  PROVE  /\ At(r, "make", call) => stage[r] = 3
         /\ At(r, "look", call) => stage[r] = 4
         /\ At(r, "clear", call) => stage[r] = 5
<1>1. \A name : At(r, name, call) => stage[r] \in 1 .. 7 /\ Stages[stage[r]] = name
  BY StageNames DEF At, Running, Finished, Types
<1>2. QED
  BY <1>1, StageNames

\* A call of rank r, followed by Then.
LEMMA CallStep ==
  ASSUME IInv, NEW r \in Ranks, Running(r), UNCHANGED <<job, stage, waiting, damage>>,
         NEW call \in {"open", "xfer", "close", "synced"},
         step' = [step EXCEPT ![r] = call],
         item' \in [Ranks -> Nat], \A q \in Ranks \ {r} : item'[q] = item[q],
         handles' \in [Ranks -> Seq(Names)],
         \A q \in Ranks \ {r} : handles'[q] = handles[q],
         errors' \in [Ranks -> Nat], aborted' \in BOOLEAN,
         \A q \in Ranks \ {r} : HoldsItem(q) => DOMAIN files \subseteq DOMAIN files',
         ~aborted' /\ call \in {"xfer", "close"} => HoldsItem(r)',
         damage = {} => \A p \in DOMAIN files' : Prefix(p[3], files'[p]),
         NoFalseAlarm'
  PROVE  IInv'
<1>1. Types' /\ Adjacent'
  BY DEF IInv, Types, Adjacent
<1>2. \A q \in Ranks : q # r => step'[q] = step[q]
  BY DEF IInv, Types
<1>3. \A q \in Ranks : Rounds(q)' = Rounds(q)
  BY DEF Rounds
<1>4. ASSUME NEW q \in Ranks, ~aborted', step'[q] \in {"xfer", "close"}
      PROVE  HoldsItem(q)'
  <2>1. CASE q = r
    BY <1>4, <2>1 DEF IInv, Types
  <2>2. CASE q # r
    <3>1. HoldsItem(q)
      BY <1>2, <1>4, <2>2 DEF IInv, Held, Running
    <3>2. /\ handles'[q] = handles[q] /\ item'[q] = item[q] /\ step'[q] = step[q]
          /\ Opened(q)' = Opened(q) /\ DOMAIN files \subseteq DOMAIN files'
      BY <1>2, <2>2, <3>1 DEF Opened
    <3>3. \A k, n : Item(q, k, n)' = Item(q, k, n)
      BY DEF Item, Owner
    <3>4. QED
      BY <1>3, <3>1, <3>2, <3>3 DEF HoldsItem
  <2>3. QED
    BY <2>1, <2>2
<1>5. Faithful'
  BY DEF Faithful, Prefix
<1>6. QED
  BY <1>1, <1>4, <1>5 DEF IInv, Held

\* A call that leaves files and descriptors alone.
LEMMA PlainStep ==
  ASSUME IInv, NEW r \in Ranks, Running(r), UNCHANGED <<job, stage, waiting, damage>>,
         NEW call \in {"open", "synced"}, step' = [step EXCEPT ![r] = call],
         item' \in [Ranks -> Nat], \A q \in Ranks \ {r} : item'[q] = item[q],
         UNCHANGED <<handles, files, errors>>, aborted' \in BOOLEAN
  PROVE  IInv'
<1>1. NoFalseAlarm'
  BY DEF IInv, NoFalseAlarm
<1>2. handles' \in [Ranks -> Seq(Names)] /\ errors' \in [Ranks -> Nat]
  BY DEF IInv, Types
<1>3. QED
  BY <1>1, <1>2, CallStep DEF IInv, Faithful

\* What Then leaves alone.
LEMMA NextItemFrame ==
  ASSUME Types, NEW r \in Ranks, NEW call \in {"open", "xfer", "close", "synced"}, Then(r, call)
  PROVE  /\ UNCHANGED <<job, stage, waiting, damage>>
         /\ step' = [step EXCEPT ![r] = call]
         /\ item' \in [Ranks -> Nat] /\ \A q \in Ranks \ {r} : item'[q] = item[q]
         /\ call # "open" => item' = item
  BY DEF Then, Types

LEMMA PlainSteps ==
  ASSUME IInv, NEW r \in Ranks,
         Initialize(r) \/ MakeTree(r) \/ MakeDir(r)
           \/ StatItem(r) \/ RemoveDir(r) \/ RemoveTree(r)
           \/ Finalize(r) \/ Sync(r)
  PROVE  IInv'
<1>1. Types /\ aborted \in BOOLEAN
  BY DEF IInv, Types
<1>2. Running(r)
  BY DEF Initialize, MakeTree, MakeDir, StatItem, RemoveDir, RemoveTree, Finalize, Sync, At
<1>3. UNCHANGED <<handles, files, errors>>
  BY DEF Initialize, MakeTree, MakeDir, StatItem, RemoveDir, RemoveTree, Finalize, Sync,
     NextItem, NextCall, CEPHFS_Init, CEPHFS_MkDir, CEPHFS_Stat, CEPHFS_RmDir, CEPHFS_Final,
     CEPHFS_Sync, storage
<1>4. aborted' \in BOOLEAN
  <2>1. \A ret : Err(ret) \/ FailOnMinusOne(ret) => aborted' \in BOOLEAN
    <3>1. \A ret : (ret < 0) \in BOOLEAN /\ (ret = -1) \in BOOLEAN
      OBVIOUS
    <3>2. QED
      BY <3>1, Zenon DEF Err, FailOnMinusOne
  <2>2. CASE Initialize(r) \/ Sync(r)
    BY <2>1, <2>2 DEF Initialize, Sync, CEPHFS_Init, CEPHFS_Sync
  <2>3. CASE MakeDir(r) \/ StatItem(r) \/ RemoveDir(r)
    BY <2>1, <2>3 DEF MakeDir, StatItem, RemoveDir
  <2>4. CASE MakeTree(r) \/ RemoveTree(r) \/ Finalize(r)
    BY <1>1, <2>4 DEF MakeTree, RemoveTree, Finalize, CEPHFS_Final
  <2>5. QED
    BY <2>2, <2>3, <2>4
<1>5. CASE Finalize(r)
  <2>1. /\ UNCHANGED <<job, stage, waiting, damage, step>> /\ step[r] = "open"
        /\ item' = [item EXCEPT ![r] = item[r] + 1]
    BY <1>5 DEF Finalize, At
  <2>2. step' = [step EXCEPT ![r] = "open"]
    BY <1>1, <2>1 DEF Types
  <2>3. item' \in [Ranks -> Nat] /\ \A q \in Ranks \ {r} : item'[q] = item[q]
    BY <1>1, <2>1 DEF Types
  <2>4. QED
    BY <1>2, <1>3, <1>4, <2>1, <2>2, <2>3, PlainStep
<1>6. CASE Sync(r)
  <2>1. Then(r, "synced")
    BY <1>6 DEF Sync, NextCall
  <2>2. QED
    BY <1>1, <1>2, <1>3, <1>4, <2>1, NextItemFrame, PlainStep
<1>7. CASE ~Finalize(r) /\ ~Sync(r)
  <2>1. Then(r, "open")
    BY <1>7 DEF Initialize, MakeTree, MakeDir, StatItem, RemoveDir, RemoveTree, NextItem
  <2>2. QED
    BY <1>1, <1>2, <1>3, <1>4, <2>1, NextItemFrame, PlainStep
<1>8. QED
  BY <1>5, <1>6, <1>7

\* A rank in the barrier has nothing open.
LEMMA EnterBarrierStep ==
  ASSUME IInv, NEW r \in Ranks, EnterBarrier(r)
  PROVE  IInv'
<1>1. /\ UNCHANGED <<handles, files, aborted, job, stage, item, step, errors, damage>>
      /\ waiting' = [waiting EXCEPT ![r] = TRUE] /\ Running(r) /\ item[r] = Rounds(r)
  BY DEF EnterBarrier, backend, storage
<1>2. stage[r] <= 7
  <2>1. stage[r] \in 1 .. 8 /\ ~(stage[r] > Len(Stages))
    BY <1>1 DEF Running, Finished, IInv, Types
  <2>2. Len(Stages) = 7
    BY StageNames
  <2>3. QED
    BY <2>1, <2>2
<1>3. Types' /\ Adjacent'
  BY <1>1, <1>2 DEF IInv, Types, Adjacent
<1>4. Held'
  <2> SUFFICES ASSUME NEW q \in Ranks, ~aborted, step[q] \in {"xfer", "close"}
               PROVE  HoldsItem(q)'
    BY <1>1 DEF Held
  <2>1. HoldsItem(q)
    BY DEF IInv, Held
  <2>2. q # r
    BY <1>1, <2>1 DEF HoldsItem, IInv, Types
  <2>3. waiting'[q] = waiting[q]
    BY <1>1, <2>2 DEF IInv, Types
  <2>4. QED
    BY <1>1, <2>1, <2>3 DEF HoldsItem, Opened, Item, Owner, Rounds
<1>5. Faithful' /\ NoFalseAlarm'
  BY <1>1 DEF IInv, Faithful, Prefix, NoFalseAlarm
<1>6. QED
  BY <1>3, <1>4, <1>5 DEF IInv

\* Nobody is behind a rank that leaves.
LEMMA LeaveBarrierStep ==
  ASSUME IInv, NEW r \in Ranks, LeaveBarrier(r)
  PROVE  IInv'
<1>1. /\ UNCHANGED <<handles, files, aborted, job, errors, damage>>
      /\ stage' = [stage EXCEPT ![r] = stage[r] + 1] /\ item' = [item EXCEPT ![r] = 0]
      /\ step' = [step EXCEPT ![r] = "open"] /\ waiting' = [waiting EXCEPT ![r] = FALSE]
      /\ waiting[r]
      /\ \A q \in Ranks : stage[q] > stage[r] \/ (stage[q] = stage[r] /\ waiting[q])
  BY DEF LeaveBarrier, backend, storage
<1>2. /\ stage \in [Ranks -> 1 .. 8] /\ item \in [Ranks -> Nat] /\ waiting \in [Ranks -> BOOLEAN]
      /\ step \in [Ranks -> {"open", "xfer", "close", "synced"}] /\ stage[r] <= 7
  BY <1>1 DEF IInv, Types
<1>3. /\ stage'[r] = stage[r] + 1 /\ step'[r] = "open" /\ ~waiting'[r]
      /\ \A q \in Ranks : q # r => /\ stage'[q] = stage[q] /\ waiting'[q] = waiting[q]
                                   /\ item'[q] = item[q] /\ step'[q] = step[q]
      /\ \A q \in Ranks : stage[q] \in Nat
  BY <1>1, <1>2
<1>4. Types'
  <2>1. stage' \in [Ranks -> 1 .. 8]
    BY <1>1, <1>2
  <2>2. \A q \in Ranks : waiting'[q] => stage'[q] <= 7
    BY <1>3 DEF IInv, Types
  <2>3. QED
    BY <1>1, <1>2, <2>1, <2>2 DEF IInv, Types
<1>5. Adjacent'
  BY <1>1, <1>3 DEF IInv, Adjacent
<1>6. Held'
  <2> SUFFICES ASSUME NEW q \in Ranks, ~aborted, step'[q] \in {"xfer", "close"}
               PROVE  HoldsItem(q)'
    BY <1>1 DEF Held
  <2>1. q # r
    BY <1>3
  <2>2. HoldsItem(q)
    BY <1>3, <2>1 DEF IInv, Held
  <2>3. QED
    BY <1>1, <1>3, <2>1, <2>2 DEF HoldsItem, Opened, Item, Owner, Rounds
<1>7. Faithful' /\ NoFalseAlarm'
  BY <1>1 DEF IInv, Faithful, Prefix, NoFalseAlarm
<1>8. QED
  BY <1>4, <1>5, <1>6, <1>7 DEF IInv

\* Damaged data promise nothing.
LEMMA DamageStep ==
  ASSUME IInv, NEW path, NEW i, Damage(path, i)
  PROVE  IInv'
<1>1. /\ UNCHANGED <<handles, aborted, job, stage, item, step, waiting, errors>>
      /\ damage' # {} /\ DOMAIN files' = DOMAIN files
  BY DEF Damage, progress
<1>2. Types' /\ Adjacent'
  BY <1>1 DEF IInv, Types, Adjacent
<1>3. Held'
  BY <1>1 DEF IInv, Held, HoldsItem, Opened, Item, Owner, Rounds
<1>4. Faithful' /\ NoFalseAlarm'
  BY <1>1 DEF Faithful, NoFalseAlarm
<1>5. QED
  BY <1>2, <1>3, <1>4 DEF IInv

\* After CEPHFS_ERR the job goes on only if the call succeeded.
LEMMA ErrOutcome == \A ret : Err(ret) => aborted' \in BOOLEAN /\ (~aborted' => ~(ret < 0))
<1>1. \A ret : (ret < 0) \in BOOLEAN
  OBVIOUS
<1>2. QED
  BY <1>1, Zenon DEF Err

\* Opening, in the create and in the read phase.
LEMMA OpenStep ==
  ASSUME IInv, NEW r \in Ranks, NEW k \in {0, 2}, NEW parent, NEW create,
         NEW call \in {"xfer", "close"},
         Running(r), item[r] < Rounds(r),
         (k = 0 /\ stage[r] = 3) \/ (k = 2 /\ stage[r] = 4),
         call = "xfer" => (IF stage[r] = 3 THEN job.write_bytes ELSE job.read_bytes) > 0,
         CEPHFS_Open(r, Item(r, k, item[r]), parent, create), NextCall(r, call)
  PROVE  IInv'
<1> DEFINE path == Item(r, k, item[r])
<1>1. Types
  BY DEF IInv
<1>2. PICK ret \in {0, -EPERM, -EIO, -ENOENT} :
        /\ Err(ret)
        /\ handles' = IF ret = 0 THEN [handles EXCEPT ![r] = Append(handles[r], path)]
                      ELSE handles
        /\ files' = IF ret # 0 THEN files
                    ELSE [p \in DOMAIN files \cup {path} |->
                            IF p \in DOMAIN files THEN files[p] ELSE <<>>]
  BY DEF CEPHFS_Open
<1>3. Then(r, call) /\ UNCHANGED errors
  BY DEF NextCall
<1>4. path \in Names /\ path[3] = item[r]
  BY <1>1, ItemType DEF Types
<1>5. /\ UNCHANGED <<job, stage, waiting, damage>> /\ step' = [step EXCEPT ![r] = call]
      /\ item' \in [Ranks -> Nat] /\ \A q \in Ranks \ {r} : item'[q] = item[q]
      /\ item' = item
  BY <1>1, <1>3, NextItemFrame
<1> HIDE DEF path
<1>6. /\ handles' \in [Ranks -> Seq(Names)]
      /\ \A q \in Ranks \ {r} : handles'[q] = handles[q]
  BY <1>1, <1>2, <1>4 DEF Types
<1>7. ret # 0 => ret < 0
  BY <1>2 DEF EPERM, EIO, ENOENT
<1>8. aborted' \in BOOLEAN /\ (~aborted' => ret = 0)
  BY <1>2, <1>7, ErrOutcome
<1>9. /\ DOMAIN files \subseteq DOMAIN files'
      /\ ret = 0 => path \in DOMAIN files'
      /\ \A p \in DOMAIN files' : \/ p \in DOMAIN files /\ files'[p] = files[p]
                                  \/ p = path /\ files'[p] = <<>>
  BY <1>2
<1>10. ~aborted' => HoldsItem(r)'
  <2> SUFFICES ASSUME ~aborted'
               PROVE  HoldsItem(r)'
    OBVIOUS
  <2>1. handles'[r] = Append(handles[r], path) /\ handles[r] \in Seq(Names)
    BY <1>1, <1>2, <1>8 DEF Types
  <2>2. handles'[r] # <<>> /\ handles'[r][Len(handles'[r])] = path
    <3>1. \A s \in Seq(Names), e \in Names :
            Append(s, e) # <<>> /\ Append(s, e)[Len(Append(s, e))] = e
      OBVIOUS
    <3>2. QED
      BY <1>4, <2>1, <3>1
  <2>3. step'[r] = call /\ Rounds(r)' = Rounds(r) /\ Item(r, k, item[r])' = path
    BY <1>1, <1>5 DEF Rounds, Item, Owner, path, Types
  <2>4. QED
    BY <1>5, <1>8, <1>9, <2>2, <2>3 DEF HoldsItem, Opened, Running
<1>11. damage = {} => \A p \in DOMAIN files' : Prefix(p[3], files'[p])
  <2>1. Prefix(path[3], <<>>)
    BY <1>1, JobType DEF Prefix, Types
  <2>2. QED
    BY <1>9, <2>1 DEF IInv, Faithful
<1>12. NoFalseAlarm' /\ errors' \in [Ranks -> Nat]
  BY <1>1, <1>3, <1>5 DEF IInv, NoFalseAlarm, Types
<1>13. QED
  BY <1>5, <1>6, <1>8, <1>9, <1>10, <1>11, <1>12, CallStep

LEMMA CreateFileStep ==
  ASSUME IInv, NEW r \in Ranks, CreateFile(r)
  PROVE  IInv'
<1>1. /\ Running(r) /\ item[r] < Rounds(r) /\ stage[r] = 3
  BY AtStage DEF CreateFile, IInv, At
<1>2. PICK call \in {"xfer", "close"} :
        /\ NextCall(r, call)
        /\ call = "xfer" => (IF stage[r] = 3 THEN job.write_bytes ELSE job.read_bytes) > 0
  BY <1>1 DEF CreateFile
<1>3. CEPHFS_Open(r, Item(r, 0, item[r]), Top, TRUE)
  BY DEF CreateFile
<1>4. QED
  BY <1>1, <1>2, <1>3, OpenStep

LEMMA OpenFileStep ==
  ASSUME IInv, NEW r \in Ranks, OpenFile(r)
  PROVE  IInv'
<1>1. /\ Running(r) /\ item[r] < Rounds(r) /\ stage[r] = 4
  BY AtStage DEF OpenFile, IInv, At
<1>2. PICK call \in {"xfer", "close"} :
        /\ NextCall(r, call)
        /\ call = "xfer" => (IF stage[r] = 3 THEN job.write_bytes ELSE job.read_bytes) > 0
  BY <1>1 DEF OpenFile
<1>3. CEPHFS_Open(r, Item(r, 2, item[r]), Top, FALSE)
  BY DEF OpenFile
<1>4. QED
  BY <1>1, <1>2, <1>3, OpenStep

LEMMA CloseFileStep ==
  ASSUME IInv, NEW r \in Ranks, CloseFile(r)
  PROVE  IInv'
<1>1. Types
  BY DEF IInv
<1>2. PICK ret \in {0, -EPERM, -EIO} :
        /\ Err(ret)
        /\ handles' = IF ret = 0
                      THEN [handles EXCEPT
                              ![r] = SubSeq(handles[r], 1, Len(handles[r]) - 1)]
                      ELSE handles
        /\ UNCHANGED files
  BY DEF CloseFile, CEPHFS_Close, storage
<1>3. /\ Running(r) /\ step[r] = "close" /\ Then(r, "open") /\ UNCHANGED errors
  BY DEF CloseFile, At, NextItem
<1>4. handles[r] # <<>> /\ handles[r] \in Seq(Names)
  BY <1>3 DEF IInv, Held, HoldsItem, Running, Types
<1>5. SubSeq(handles[r], 1, Len(handles[r]) - 1) \in Seq(Names)
  BY <1>4
<1>6. /\ handles' \in [Ranks -> Seq(Names)]
      /\ \A q \in Ranks \ {r} : handles'[q] = handles[q]
  BY <1>1, <1>2, <1>5 DEF Types
<1>7. aborted' \in BOOLEAN
  BY <1>2, ErrOutcome
<1>8. /\ UNCHANGED <<job, stage, waiting, damage>> /\ step' = [step EXCEPT ![r] = "open"]
      /\ item' \in [Ranks -> Nat] /\ \A q \in Ranks \ {r} : item'[q] = item[q]
  BY <1>1, <1>3, NextItemFrame
<1>9. NoFalseAlarm' /\ errors' \in [Ranks -> Nat]
  BY <1>1, <1>3, <1>8 DEF IInv, NoFalseAlarm, Types
<1>10. QED
  BY <1>2, <1>3, <1>6, <1>7, <1>8, <1>9, CallStep DEF IInv, Faithful

\* A rank that removes finds no other that has a file open.
LEMMA RemoveFileStep ==
  ASSUME IInv, NEW r \in Ranks, RemoveFile(r)
  PROVE  IInv'
<1>1. Types
  BY DEF IInv
<1>2. /\ Running(r) /\ stage[r] = 5 /\ Then(r, "open") /\ UNCHANGED errors
  BY <1>1, AtStage DEF RemoveFile, At, NextItem
<1>3. PICK path, ret : /\ Err(ret) /\ UNCHANGED handles
                       /\ files' = IF ret = 0
                                   THEN [p \in DOMAIN files \ {path} |-> files[p]]
                                   ELSE files
  BY DEF RemoveFile, CEPHFS_Delete
<1>4. aborted' \in BOOLEAN
  BY <1>3, ErrOutcome
<1>5. /\ UNCHANGED <<job, stage, waiting, damage>> /\ step' = [step EXCEPT ![r] = "open"]
      /\ item' \in [Ranks -> Nat] /\ \A q \in Ranks \ {r} : item'[q] = item[q]
  BY <1>1, <1>2, NextItemFrame
<1>6. \A q \in Ranks : ~HoldsItem(q)
  BY <1>2 DEF IInv, Adjacent, HoldsItem
<1>7. damage = {} => \A p \in DOMAIN files' : Prefix(p[3], files'[p])
  BY <1>3 DEF IInv, Faithful
<1>8. NoFalseAlarm' /\ errors' \in [Ranks -> Nat]
  BY <1>1, <1>2, <1>5 DEF IInv, NoFalseAlarm, Types
<1>9. handles' \in [Ranks -> Seq(Names)] /\ \A q \in Ranks \ {r} : handles'[q] = handles[q]
  BY <1>1, <1>3 DEF Types
<1>10. QED
  BY <1>2, <1>4, <1>5, <1>6, <1>7, <1>8, <1>9, CallStep

\* Complete or cut short, a write leaves a prefix of its own item's pattern.
LEMMA WriteFileStep ==
  ASSUME IInv, NEW r \in Ranks, WriteFile(r)
  PROVE  IInv'
<1> DEFINE bytes == Pattern(item[r], job.write_bytes)
<1>1. Types
  BY DEF IInv
<1>2. /\ Running(r) /\ stage[r] = 3 /\ step[r] = "xfer" /\ Then(r, "close") /\ UNCHANGED errors
      /\ CEPHFS_Write(r, bytes, job.sync_file)
  BY <1>1, AtStage DEF WriteFile, At, NextCall
<1>3. HoldsItem(r)
  BY <1>2 DEF IInv, Held, Running
<1>4. PICK ret \in {Len(bytes), Len(bytes) - 1, -EIO}, sync \in {0, -EIO} :
        /\ aborted' = (WriteFails(ret, Len(bytes)) \/ sync < 0)
        /\ files' = IF ret < 0 THEN files
                ELSE [files EXCEPT
                        ![Opened(r)] = Overwrite(files[Opened(r)], SubSeq(bytes, 1, ret))]
        /\ UNCHANGED handles
  BY <1>2 DEF CEPHFS_Write
<1>5. item[r] \in Nat /\ job.write_bytes \in Nat
  BY <1>1, JobType DEF Types
<1>6. Len(bytes) = job.write_bytes
  BY ZenonT(30), <1>5, PatternType
<1>7. ~(ret < 0) => ret \in 0 .. job.write_bytes
  BY <1>4, <1>5, <1>6 DEF EIO
<1>8. Opened(r)[3] = item[r]
  BY <1>1, <1>2, <1>3, <1>5, ItemType DEF HoldsItem, Types
<1>9. DOMAIN files' = DOMAIN files
  BY <1>4
<1>10. ASSUME damage = {}, NEW p \in DOMAIN files'
       PROVE  Prefix(p[3], files'[p])
  <2>1. p \in DOMAIN files /\ Prefix(p[3], files[p])
    BY <1>9, <1>10 DEF IInv, Faithful
  <2>2. CASE ret < 0 \/ p # Opened(r)
    BY <1>4, <2>1, <2>2
  <2>3. CASE ~(ret < 0) /\ p = Opened(r)
    <3>1. Prefix(item[r], Overwrite(files[p], SubSeq(bytes, 1, ret)))
      BY <1>1, <1>5, <1>7, <1>8, <2>1, <2>3, OverwritePrefix DEF Types
    <3>2. files'[p] = Overwrite(files[p], SubSeq(bytes, 1, ret))
      BY <1>4, <2>1, <2>3
    <3>3. QED
      BY <1>8, <2>3, <3>1, <3>2
  <2>4. QED
    BY <2>2, <2>3
<1>11. aborted' \in BOOLEAN
  <2>1. (WriteFails(ret, Len(bytes)) \/ sync < 0) \in BOOLEAN
    BY DEF WriteFails
  <2>2. QED
    BY <1>4, <2>1, Zenon
<1>12. /\ UNCHANGED <<job, stage, waiting, damage>> /\ step' = [step EXCEPT ![r] = "close"]
       /\ item' \in [Ranks -> Nat] /\ \A q \in Ranks \ {r} : item'[q] = item[q]
       /\ item' = item
  BY <1>1, <1>2, NextItemFrame
<1> HIDE DEF bytes
<1>13. HoldsItem(r)'
  BY <1>1, <1>3, <1>4, <1>9, <1>12 DEF HoldsItem, Opened, Item, Owner, Rounds, Types
<1>14. NoFalseAlarm' /\ errors' \in [Ranks -> Nat]
  BY <1>1, <1>2, <1>12 DEF IInv, NoFalseAlarm, Types
<1>15. handles' \in [Ranks -> Seq(Names)] /\ \A q \in Ranks \ {r} : handles'[q] = handles[q]
  BY <1>1, <1>4 DEF Types
<1>16. QED
  BY <1>2, <1>9, <1>10, <1>11, <1>12, <1>13, <1>14, <1>15, CallStep

\* What is read is a prefix of the pattern that it is compared with.
LEMMA ReadFileStep ==
  ASSUME IInv, NEW r \in Ranks, ReadFile(r)
  PROVE  IInv'
<1>1. Types
  BY DEF IInv
<1>2. /\ Running(r) /\ stage[r] = 4 /\ step[r] = "xfer" /\ Then(r, "close")
  BY <1>1, AtStage DEF ReadFile, At
<1>3. HoldsItem(r) /\ job.read_bytes > 0
  BY <1>2 DEF IInv, Held, Running, HoldsItem
<1>4. PICK buffer : /\ CEPHFS_Read(r, job.read_bytes, buffer)
                    /\ errors' = IF aborted' THEN errors
                         ELSE [errors EXCEPT ![r] = errors[r] + Verified(item[r], buffer)]
  BY DEF ReadFile
<1>5. /\ UNCHANGED <<handles, files>> /\ aborted' \in BOOLEAN
      /\ ~aborted' => /\ buffer = FirstBytes(files[Opened(r)], job.read_bytes)
                      /\ Len(buffer) = job.read_bytes
  BY <1>1, <1>4 DEF CEPHFS_Read, storage, Types
<1>6. item[r] \in Nat
  BY <1>1 DEF Types
<1>7. Verified(item[r], buffer) \in Nat
  BY DEF Verified
<1>8. errors' \in [Ranks -> Nat]
  BY <1>1, <1>4, <1>7 DEF Types
<1>9. /\ UNCHANGED <<job, stage, waiting, damage>> /\ step' = [step EXCEPT ![r] = "close"]
      /\ item' \in [Ranks -> Nat] /\ \A q \in Ranks \ {r} : item'[q] = item[q]
      /\ item' = item
  BY <1>1, <1>2, NextItemFrame
<1>10. HoldsItem(r)'
  BY <1>1, <1>3, <1>5, <1>9 DEF HoldsItem, Opened, Item, Owner, Rounds, Types
<1>11. ASSUME damage = {}, ~aborted',
              job.verify_read => (job.write_bytes >= 8 <=> job.read_bytes >= 8)
       PROVE  Verified(item[r], buffer) = 0
  <2>1. Opened(r)[3] = item[r]
    BY <1>1, <1>2, <1>3, <1>6, ItemType DEF HoldsItem, Types
  <2>2. Prefix(item[r], files[Opened(r)])
    BY <1>3, <1>11, <2>1 DEF IInv, Faithful, HoldsItem
  <2>3. job.read_bytes \in Nat /\ job.write_bytes \in Nat /\ job.read_bytes <= job.write_bytes
    BY <1>1, JobType DEF Types
  <2>4. Prefix(item[r], buffer)
    BY <1>1, <1>5, <1>11, <2>2, <2>3, FirstBytesPrefix DEF Types
  <2>5. QED
    BY <1>1, <1>3, <1>5, <1>6, <1>11, <2>4, PrefixVerified DEF Types
<1>12. NoFalseAlarm'
  BY <1>1, <1>4, <1>9, <1>11 DEF IInv, NoFalseAlarm, Types
<1>13. QED
  BY <1>1, <1>2, <1>5, <1>8, <1>9, <1>10, <1>12, CallStep DEF IInv, Faithful, Types

LEMMA InitIInv == Init => IInv
<1> SUFFICES ASSUME Init
             PROVE  IInv
  OBVIOUS
<1>1. Types
  <2>1. <<>> \in Seq(Names)
    OBVIOUS
  <2>2. handles \in [Ranks -> Seq(Names)]
    BY <2>1 DEF Init, BackendInit
  <2>3. /\ stage \in [Ranks -> 1 .. 8] /\ \A r \in Ranks : ~waiting[r]
        /\ waiting \in [Ranks -> BOOLEAN] /\ item \in [Ranks -> Nat] /\ errors \in [Ranks -> Nat]
    BY DEF Init
  <2>4. QED
    BY <2>2, <2>3 DEF Init, BackendInit, Types
<1>2. Adjacent /\ Held /\ NoFalseAlarm
  BY DEF Init, Adjacent, Held, NoFalseAlarm
<1>3. Faithful
  BY DEF Init, BackendInit, Faithful
<1>4. QED
  BY <1>1, <1>2, <1>3 DEF IInv

LEMMA NextIInv == IInv /\ [Next]_vars => IInv'
<1> SUFFICES ASSUME IInv, [Next]_vars
             PROVE  IInv'
  OBVIOUS
<1>1. ASSUME NEW r \in Ranks, RankStep(r)
      PROVE  IInv'
  BY <1>1, PlainSteps, CreateFileStep, WriteFileStep, OpenFileStep, ReadFileStep, CloseFileStep,
     RemoveFileStep, EnterBarrierStep, LeaveBarrierStep DEF RankStep
<1>2. CASE UNCHANGED vars
  BY <1>2 DEF vars, backend, progress, IInv, Types, Adjacent, Held, HoldsItem, Opened, Item,
     Owner, Rounds, Faithful, Prefix, NoFalseAlarm
<1>3. CASE Stop
  BY <1>2, <1>3 DEF Stop
<1>4. QED
  BY <1>1, <1>2, <1>3, DamageStep DEF Next

-----------------------------------------------------------------------------
(* The theorems *)

\* The checks of mdtest_read and mdtest_verify_data raise no alarm about data that
\* storage has kept, whatever calls fail, are cut short, or come in between.
THEOREM NeverMisled == Spec => []NoFalseAlarm
<1>1. Init => IInv
  BY InitIInv
<1>2. IInv /\ [Next]_vars => IInv'
  BY NextIInv
<1>3. IInv => NoFalseAlarm
  BY DEF IInv
<1>4. QED
  BY <1>1, <1>2, <1>3, PTL DEF Spec

-----------------------------------------------------------------------------
(* Complete files *)

Complete(path, n) == path \in DOMAIN files /\ files[path] = Pattern(n, job.write_bytes)

\* Rank r is done with its item n of the create phase.
DoneWith(r, n) ==
  \/ stage[r] > 3
  \/ stage[r] = 3 /\ (n < item[r] \/ (n = item[r] /\ step[r] = "close"))

\* A rank in the barrier has gone through all its items.
Waited == \A r \in Ranks : waiting[r] => item[r] = Rounds(r)

\* Until somebody removes files, the items that are done with are complete.
Made ==
  Untouched /\ ~aborted /\ job.kind = "file" /\ damage = {} =>
    \A r \in Ranks, n \in 0 .. job.items - 1 : DoneWith(r, n) => Complete(Item(r, 0, n), n)

FInv == Waited /\ Made

\* A prefix as long as the pattern is the pattern.
LEMMA FullPrefix ==
  ASSUME job \in Jobs, NEW n \in Nat, NEW bytes, Prefix(n, bytes), Len(bytes) = job.write_bytes
  PROVE  bytes = Pattern(n, job.write_bytes)
<1> DEFINE wb == job.write_bytes
           P == Pattern(n, wb)
<1>1. wb \in Nat
  BY JobType
<1> HIDE DEF wb
<1>2. P \in Seq(Int) /\ Len(P) = wb
  BY ZenonT(30), <1>1, PatternType
<1>3. bytes \in Seq(Int) /\ Len(bytes) = wb /\ \A i \in 1 .. wb : bytes[i] = P[i]
  BY DEF Prefix, wb
<1> HIDE DEF P
<1>4. bytes = P
  BY <1>1, <1>2, <1>3
<1>5. QED
  BY <1>4 DEF P, wb

\* A step that leaves alone the files that are complete, and finishes no other.
LEMMA MadeKept ==
  ASSUME IInv, FInv, UNCHANGED job,
         Untouched' /\ ~aborted' /\ damage' = {} => Untouched /\ ~aborted /\ damage = {},
         ASSUME NEW r \in Ranks, NEW n \in 0 .. job.items - 1,
                Untouched', ~aborted', damage' = {},
                job.kind = "file", DoneWith(r, n)'
         PROVE  DoneWith(r, n) \/ Complete(Item(r, 0, n), n)',
         ASSUME NEW r \in Ranks, NEW n \in 0 .. job.items - 1, ~aborted', damage' = {},
                Complete(Item(r, 0, n), n)
         PROVE  Complete(Item(r, 0, n), n)'
  PROVE  Made'
<1> SUFFICES ASSUME Untouched', ~aborted', job.kind = "file", damage' = {},
                    NEW r \in Ranks, NEW n \in 0 .. job.items - 1, DoneWith(r, n)'
             PROVE  Complete(Item(r, 0, n), n)'
  BY DEF Made, Item, Owner
<1>1. DoneWith(r, n) \/ Complete(Item(r, 0, n), n)'
  OBVIOUS
<1>2. DoneWith(r, n) => Complete(Item(r, 0, n), n)
  BY DEF FInv, Made
<1>3. QED
  BY <1>1, <1>2

\* A write that is not cut short leaves the pattern.
LEMMA OverwriteFull ==
  ASSUME job \in Jobs, NEW n \in Nat, NEW old, Prefix(n, old)
  PROVE  LET P == Pattern(n, job.write_bytes)
         IN  Overwrite(old, SubSeq(P, 1, Len(P))) = P
<1> DEFINE wb == job.write_bytes
           P == Pattern(n, wb)
           head == SubSeq(P, 1, wb)
           tail == SubSeq(old, Len(head) + 1, Len(old))
<1>1. wb \in Nat
  BY JobType
<1>2. old \in Seq(Int) /\ Len(old) <= wb
  BY DEF Prefix
<1> HIDE DEF wb
<1>3. P \in Seq(Int) /\ Len(P) = wb
  BY <1>1, PatternType
<1> HIDE DEF P
<1>4. head \in Seq(Int) /\ Len(head) = wb /\ \A i \in 1 .. wb : head[i] = P[i]
  BY <1>1, <1>3
<1>5. head = P
  BY <1>1, <1>3, <1>4
<1> HIDE DEF head
<1>6. tail = <<>>
  BY <1>1, <1>2, <1>4
<1> HIDE DEF tail
<1>7. head \o tail = P
  BY <1>3, <1>5, <1>6
<1>8. Overwrite(old, SubSeq(P, 1, Len(P))) = P
  BY <1>3, <1>7 DEF Overwrite, head, tail
<1>9. QED
  BY <1>8 DEF P, wb

\* What a rank does in its loop, but for opening, writing and removing files.
QuietStep(r) ==
  \/ Initialize(r) \/ MakeTree(r) \/ MakeDir(r) \/ StatItem(r) \/ ReadFile(r) \/ CloseFile(r)
  \/ RemoveDir(r) \/ RemoveTree(r) \/ Finalize(r) \/ Sync(r)

LoopStep(r) ==
  QuietStep(r) \/ CreateFile(r) \/ WriteFile(r) \/ OpenFile(r) \/ RemoveFile(r)

LEMMA LoopFrame ==
  ASSUME Types, NEW r \in Ranks, LoopStep(r)
  PROVE  /\ Running(r) /\ UNCHANGED <<job, stage, waiting, damage>>
         /\ \A q \in Ranks \ {r} : item'[q] = item[q] /\ step'[q] = step[q]
<1>1. Running(r)
  BY DEF LoopStep, QuietStep, Initialize, MakeTree, MakeDir, StatItem, RemoveDir, RemoveTree,
     Finalize, Sync, CreateFile, WriteFile, OpenFile, ReadFile, CloseFile, RemoveFile, At
<1>2. CASE Finalize(r)
  BY <1>1, <1>2 DEF Finalize, Types
<1>3. CASE ~Finalize(r)
  <2>1. PICK call : Then(r, call)
    BY <1>3 DEF LoopStep, QuietStep, Initialize, MakeTree, MakeDir, StatItem, RemoveDir,
       RemoveTree, Sync, CreateFile, WriteFile, OpenFile, ReadFile, CloseFile, RemoveFile,
       NextItem, NextCall
  <2>2. QED
    BY <1>1, <2>1 DEF Then, Types
<1>4. QED
  BY <1>2, <1>3

LEMMA WaitedStep == IInv /\ FInv /\ [Next]_vars => Waited'
<1> SUFFICES ASSUME IInv, FInv, [Next]_vars
             PROVE  Waited'
  OBVIOUS
<1>1. ASSUME NEW r \in Ranks, RankStep(r)
      PROVE  Waited'
  <2>1. CASE EnterBarrier(r)
    BY <2>1 DEF EnterBarrier, IInv, Types, FInv, Waited, Rounds
  <2>2. CASE LeaveBarrier(r)
    BY <2>2 DEF LeaveBarrier, IInv, Types, FInv, Waited, Rounds
  <2>3. CASE LoopStep(r)
    BY <2>3, LoopFrame DEF IInv, FInv, Waited, Rounds, Running
  <2>4. QED
    BY <1>1, <2>1, <2>2, <2>3 DEF RankStep, LoopStep, QuietStep
<1>2. CASE UNCHANGED vars
  BY <1>2 DEF vars, progress, FInv, Waited, Rounds
<1>3. CASE Stop
  BY <1>2, <1>3 DEF Stop
<1>4. ASSUME NEW path, NEW i, Damage(path, i)
      PROVE  Waited'
  BY <1>4 DEF Damage, progress, FInv, Waited, Rounds
<1>5. QED
  BY <1>1, <1>2, <1>3, <1>4 DEF Next

\* Items are finished in the create phase only.
LEMMA DoneElsewhere ==
  ASSUME IInv, NEW r \in Ranks, LoopStep(r), stage[r] # 3,
         NEW q \in Ranks, NEW n, DoneWith(q, n)'
  PROVE  DoneWith(q, n)
<1>1. /\ UNCHANGED <<job, stage, waiting, damage>>
      /\ \A p \in Ranks \ {r} : item'[p] = item[p] /\ step'[p] = step[p]
  BY LoopFrame DEF IInv
<1>2. stage \in [Ranks -> 1 .. 8]
  BY DEF IInv, Types
<1>3. stage[r] \in 1 .. 8 /\ stage[q] \in 1 .. 8
  BY <1>2
<1>4. QED
  BY <1>1, <1>3 DEF DoneWith

\* The calls that leave the files alone, and the barrier.
LEMMA MadeFilesKept ==
  ASSUME IInv, FInv, UNCHANGED <<job, files>>,
         Untouched' /\ ~aborted' /\ damage' = {} => Untouched /\ ~aborted /\ damage = {},
         ASSUME NEW r \in Ranks, NEW n \in 0 .. job.items - 1, job.kind = "file", DoneWith(r, n)'
         PROVE  DoneWith(r, n)
  PROVE  Made'
<1>1. \A r \in Ranks : \A n :
        Complete(Item(r, 0, n), n)' <=> Complete(Item(r, 0, n), n)
  BY DEF Complete, Item, Owner
<1>2. QED
  BY <1>1, MadeKept

\* A rank that leaves the create phase has finished all its items.
LEMMA MadeBarrier ==
  ASSUME IInv, FInv, NEW r \in Ranks, EnterBarrier(r) \/ LeaveBarrier(r)
  PROVE  Made'
<1>1. UNCHANGED <<job, files, aborted, damage>>
  BY DEF EnterBarrier, LeaveBarrier, backend, storage
<1>2. CASE EnterBarrier(r)
  <2>1. UNCHANGED <<stage, item, step>>
    BY <1>2 DEF EnterBarrier
  <2>2. QED
    BY <1>1, <2>1, MadeFilesKept DEF DoneWith, Untouched
<1>3. CASE LeaveBarrier(r)
  <2>1. /\ waiting[r] /\ stage'[r] = stage[r] + 1 /\ step'[r] = "open" /\ item'[r] = 0
        /\ \A q \in Ranks : q # r => /\ stage'[q] = stage[q] /\ item'[q] = item[q]
                                     /\ step'[q] = step[q]
        /\ \A q \in Ranks : stage[q] \in Nat
    <3>1. /\ stage' = [stage EXCEPT ![r] = stage[r] + 1] /\ item' = [item EXCEPT ![r] = 0]
          /\ step' = [step EXCEPT ![r] = "open"] /\ waiting[r]
      BY <1>3 DEF LeaveBarrier
    <3>2. /\ stage \in [Ranks -> 1 .. 8] /\ item \in [Ranks -> Nat]
          /\ step \in [Ranks -> {"open", "xfer", "close", "synced"}]
      BY DEF IInv, Types
    <3>3. QED
      BY <3>1, <3>2
  <2>2. Untouched' => Untouched
    BY <2>1 DEF Untouched
  <2>3. ASSUME NEW q \in Ranks, NEW n \in 0 .. job.items - 1, job.kind = "file", DoneWith(q, n)'
        PROVE  DoneWith(q, n)
    <3>1. CASE q # r
      BY <2>1, <2>3, <3>1 DEF DoneWith
    <3>2. CASE q = r /\ stage[r] = 3
      <4>1. item[r] = job.items
        BY <2>1, <3>2, StageNames DEF FInv, Waited, Rounds
      <4>2. job.items \in Nat
        BY JobType DEF IInv, Types
      <4>3. QED
        BY <3>2, <4>1, <4>2 DEF DoneWith
    <3>3. CASE q = r /\ stage[r] # 3
      BY <2>1, <2>3, <3>3 DEF DoneWith
    <3>4. QED
      BY <3>1, <3>2, <3>3
  <2>4. QED
    BY <1>1, <2>2, <2>3, MadeFilesKept
<1>4. QED
  BY <1>2, <1>3

\* Closing goes on to the next item, of a file that is complete.
LEMMA MadeQuiet ==
  ASSUME IInv, FInv, NEW r \in Ranks, QuietStep(r)
  PROVE  Made'
<1>1. Types /\ LoopStep(r)
  BY DEF IInv, LoopStep
<1>2. /\ UNCHANGED <<job, stage, damage, files>> /\ ~aborted /\ Running(r)
      /\ \A q \in Ranks \ {r} : item'[q] = item[q] /\ step'[q] = step[q]
  <2>1. UNCHANGED files
    BY DEF QuietStep, Initialize, MakeTree, MakeDir, StatItem, RemoveDir, RemoveTree, Finalize,
       Sync, ReadFile, CloseFile, NextItem, NextCall, CEPHFS_Init, CEPHFS_MkDir, CEPHFS_Stat,
       CEPHFS_RmDir, CEPHFS_Final, CEPHFS_Sync, CEPHFS_Read, CEPHFS_Close, storage
  <2>2. QED
    BY <1>1, <2>1, LoopFrame DEF Running
<1>3. ASSUME NEW q \in Ranks, NEW n \in 0 .. job.items - 1, job.kind = "file", DoneWith(q, n)'
      PROVE  DoneWith(q, n)
  <2>1. CASE stage[r] # 3
    BY <1>1, <1>3, <2>1, DoneElsewhere
  <2>2. CASE stage[r] = 3 /\ q # r
    BY <1>2, <1>3, <2>2 DEF DoneWith
  <2>3. CASE stage[r] = 3 /\ q = r
    <3>1. Sync(r) \/ (CloseFile(r) /\ step[r] = "close")
      <4>1. \A name, call : At(r, name, call) => name = "make" /\ step[r] = call
        BY <2>3, StageNames DEF At
      <4>2. QED
        BY <1>3, <4>1 DEF QuietStep, Initialize, MakeTree, MakeDir, StatItem, ReadFile, CloseFile,
           RemoveDir, RemoveTree, Finalize
    <3>2. item[r] \in Nat /\ item \in [Ranks -> Nat]
          /\ step \in [Ranks -> {"open", "xfer", "close", "synced"}]
      BY <1>1 DEF Types
    <3>3. CASE Sync(r)
      BY <1>2, <1>3, <2>3, <3>2, <3>3 DEF Sync, NextCall, Then, DoneWith
    <3>4. CASE CloseFile(r) /\ step[r] = "close"
      <4>1. step'[r] = "open" /\ item'[r] = item[r] + 1
        BY <3>2, <3>4 DEF CloseFile, NextItem, Then
      <4>2. QED
        BY <1>2, <1>3, <2>3, <3>2, <3>4, <4>1 DEF DoneWith
    <3>5. QED
      BY <3>1, <3>3, <3>4
  <2>4. QED
    BY <2>1, <2>2, <2>3
<1>4. QED
  BY <1>2, <1>3, MadeFilesKept DEF Untouched

\* An empty file is complete when it is made.
LEMMA MadeOpened ==
  ASSUME IInv, FInv, IInv', NEW r \in Ranks, CreateFile(r) \/ OpenFile(r)
  PROVE  Made'
<1>1. Types /\ LoopStep(r) /\ job \in Jobs
  BY DEF IInv, Types, LoopStep
<1>2. /\ UNCHANGED <<job, stage, damage>> /\ ~aborted /\ Running(r)
      /\ \A q \in Ranks \ {r} : item'[q] = item[q] /\ step'[q] = step[q]
  BY <1>1, LoopFrame DEF Running
<1>3. \A p \in DOMAIN files : p \in DOMAIN files' /\ files'[p] = files[p]
  BY DEF CreateFile, OpenFile, CEPHFS_Open
<1>4. ASSUME NEW q \in Ranks, NEW n \in 0 .. job.items - 1, ~aborted', damage' = {},
             DoneWith(q, n)'
      PROVE  DoneWith(q, n) \/ Complete(Item(q, 0, n), n)'
  <2>1. CASE stage[r] # 3
    BY <1>1, <1>4, <2>1, DoneElsewhere
  <2>2. CASE stage[r] = 3 /\ q # r
    BY <1>2, <1>4, <2>2 DEF DoneWith
  <2>3. CASE stage[r] = 3 /\ q = r
    <3>1. At(r, "make", "open") /\ item' = item
          /\ step' = [step EXCEPT ![r] = IF job.write_bytes > 0 THEN "xfer" ELSE "close"]
      <4>1. CreateFile(r)
        <5>1. At(r, "look", "open") => stage[r] = 4
          BY <1>1, AtStage
        <5>2. OpenFile(r) => At(r, "look", "open")
          BY DEF OpenFile
        <5>3. ~OpenFile(r)
          BY <2>3, <5>1, <5>2
        <5>4. QED
          BY <5>3
      <4>2. PICK call \in {"xfer", "close"} :
              Then(r, call) /\ call = IF job.write_bytes > 0 THEN "xfer" ELSE "close"
        BY <4>1 DEF CreateFile, NextCall
      <4>3. QED
        BY <1>1, <4>1, <4>2, NextItemFrame DEF CreateFile
    <3>2. CASE n < item[r]
      BY <2>3, <3>2 DEF DoneWith
    <3>3. CASE ~(n < item[r])
      <4>1. n = item[r] /\ step'[r] = "close" /\ job.write_bytes = 0
        BY <1>1, <1>2, <1>4, <2>3, <3>1, <3>3, JobType DEF DoneWith, Types
      <4>2. HoldsItem(r)'
        BY <1>4, <4>1 DEF IInv, Held
      <4>3. PICK path : path = Item(r, 0, n)
        OBVIOUS
      <4>4. Item(r, 0, n)' = path /\ path[3] = n
        BY <1>1, <1>2, <4>3, ItemType DEF Item, Owner
      <4>5. path \in DOMAIN files'
        BY <1>2, <2>3, <3>1, <4>1, <4>2, <4>4 DEF HoldsItem
      <4>6. Prefix(n, files'[path])
        BY <1>2, <1>4, <4>4, <4>5 DEF IInv, Faithful, Prefix
      <4>7. Len(files'[path]) = job.write_bytes
        BY <4>1, <4>6 DEF Prefix
      <4>8. files'[path] = Pattern(n, job.write_bytes)
        BY <1>1, <4>6, <4>7, FullPrefix
      <4>9. QED
        BY <1>2, <2>3, <4>4, <4>5, <4>8 DEF Complete
    <3>4. QED
      BY <3>2, <3>3
  <2>4. QED
    BY <2>1, <2>2, <2>3
<1>5. \A q \in Ranks : \A n :
        Complete(Item(q, 0, n), n) => Complete(Item(q, 0, n), n)'
  BY <1>2, <1>3 DEF Complete, Item, Owner
<1>6. QED
  BY <1>2, <1>4, <1>5, MadeKept DEF Untouched

\* A write that is cut short aborts; any other completes its file.
LEMMA MadeWritten ==
  ASSUME IInv, FInv, NEW r \in Ranks, WriteFile(r)
  PROVE  Made'
<1> DEFINE bytes == Pattern(item[r], job.write_bytes)
<1>1. Types /\ LoopStep(r) /\ job \in Jobs /\ item[r] \in Nat /\ job.write_bytes \in Nat
  BY JobType DEF IInv, Types, LoopStep
<1>2. /\ UNCHANGED <<job, stage, damage>> /\ ~aborted /\ Running(r)
      /\ \A q \in Ranks \ {r} : item'[q] = item[q] /\ step'[q] = step[q]
  BY <1>1, LoopFrame DEF Running
<1>3. stage[r] = 3 /\ step[r] = "xfer" /\ item' = item /\ CEPHFS_Write(r, bytes, job.sync_file)
  <2>1. Then(r, "close") /\ At(r, "make", "xfer") /\ CEPHFS_Write(r, bytes, job.sync_file)
    BY DEF WriteFile, NextCall
  <2>2. item' = item
    BY <1>1, <2>1, NextItemFrame
  <2>3. stage[r] = 3 /\ step[r] = "xfer"
    BY <1>1, <2>1, AtStage DEF At
  <2>4. QED
    BY <2>1, <2>2, <2>3
<1>4. HoldsItem(r) /\ Opened(r) = Item(r, 0, item[r])
  BY <1>2, <1>3 DEF IInv, Held, HoldsItem
<1>5. Len(bytes) \in Nat
  BY <1>1, PatternType
<1>6. ASSUME ~aborted', damage' = {}
      PROVE  files' = [files EXCEPT ![Opened(r)] = bytes]
  <2>1. PICK ret \in {Len(bytes), Len(bytes) - 1, -EIO}, sync \in {0, -EIO} :
          /\ aborted' = (WriteFails(ret, Len(bytes)) \/ sync < 0)
          /\ files' = IF ret < 0 THEN files
                ELSE [files EXCEPT
                        ![Opened(r)] = Overwrite(files[Opened(r)], SubSeq(bytes, 1, ret))]
    BY <1>3 DEF CEPHFS_Write
  <2>2. ~(ret < Len(bytes))
    BY <1>6, <2>1 DEF WriteFails
  <2>3. ret = Len(bytes)
    BY <1>5, <2>1, <2>2 DEF EIO
  <2>4. Opened(r)[3] = item[r]
    BY <1>1, <1>4, ItemType
  <2>5. Prefix(item[r], files[Opened(r)])
    BY <1>2, <1>4, <1>6, <2>4 DEF IInv, Faithful, HoldsItem
  <2>6. Overwrite(files[Opened(r)], SubSeq(bytes, 1, ret)) = bytes
    BY <1>1, <2>3, <2>5, OverwriteFull
  <2> HIDE DEF bytes
  <2>7. ~(ret < 0)
    BY <1>5, <2>3
  <2>8. QED
    BY <2>1, <2>6, <2>7
<1>7. ASSUME NEW q \in Ranks, NEW n \in 0 .. job.items - 1, ~aborted', damage' = {}
      PROVE  /\ Complete(Item(q, 0, n), n) => Complete(Item(q, 0, n), n)'
             /\ Item(q, 0, n) = Opened(r) => Complete(Item(q, 0, n), n)'
  <2>1. Item(q, 0, n)' = Item(q, 0, n) /\ Item(q, 0, n)[3] = n
    BY <1>1, <1>2, ItemType DEF Item, Owner
  <2>2. Opened(r) \in DOMAIN files /\ Opened(r)[3] = item[r]
    BY <1>1, <1>4, ItemType DEF HoldsItem
  <2>3. CASE Item(q, 0, n) = Opened(r)
    <3>1. n = item[r]
      BY <2>1, <2>2, <2>3
    <3>2. files'[Opened(r)] = bytes /\ Opened(r) \in DOMAIN files'
      BY <1>6, <1>7, <2>2
    <3>3. Complete(Item(q, 0, n), n)'
      BY <1>2, <2>1, <2>3, <3>1, <3>2 DEF Complete
    <3>4. QED
      BY <3>3
  <2>4. CASE Item(q, 0, n) # Opened(r)
    BY <1>2, <1>6, <1>7, <2>1, <2>4 DEF Complete
  <2>5. QED
    BY <2>3, <2>4
<1>8. ASSUME NEW q \in Ranks, NEW n \in 0 .. job.items - 1, ~aborted', damage' = {},
             DoneWith(q, n)'
      PROVE  DoneWith(q, n) \/ Complete(Item(q, 0, n), n)'
  <2>1. CASE q # r
    BY <1>2, <1>8, <2>1 DEF DoneWith
  <2>2. CASE q = r /\ n = item[r]
    BY <1>4, <1>7, <1>8, <2>2
  <2>3. CASE q = r /\ n # item[r]
    BY <1>2, <1>3, <1>8, <2>3 DEF DoneWith
  <2>4. QED
    BY <2>1, <2>2, <2>3
<1>9. QED
  BY <1>2, <1>7, <1>8, MadeKept DEF Untouched

LEMMA FInvStep == IInv /\ IInv' /\ FInv /\ [Next]_vars => FInv'
<1> SUFFICES ASSUME IInv, IInv', FInv, [Next]_vars
             PROVE  Made'
  BY WaitedStep DEF FInv
<1>1. ASSUME NEW r \in Ranks, RemoveFile(r)
      PROVE  Made'
  <2>1. stage'[r] = 5
    BY <1>1, AtStage, LoopFrame DEF RemoveFile, IInv, LoopStep
  <2>2. QED
    BY <2>1 DEF Made, Untouched
<1>2. ASSUME NEW r \in Ranks, RankStep(r)
      PROVE  Made'
  BY <1>1, <1>2, MadeQuiet, MadeOpened, MadeWritten, MadeBarrier DEF RankStep, QuietStep
<1>3. CASE UNCHANGED vars
  BY <1>3, MadeFilesKept DEF vars, backend, storage, progress, Untouched, DoneWith
<1>4. CASE Stop
  BY <1>3, <1>4 DEF Stop
<1>5. ASSUME NEW path, NEW i, Damage(path, i)
      PROVE  Made'
  BY <1>5 DEF Damage, Made
<1>6. QED
  BY <1>2, <1>3, <1>4, <1>5 DEF Next

\* When the create phase of file_test ends without an abort, every file is there with
\* all its bytes: CEPHFS_Xfer lets no short write pass.
THEOREM CreatedFilesComplete == Spec => []FilesComplete
<1>1. Init => IInv /\ FInv
  <2>1. Init => Waited /\ Made
    BY DEF Init, Waited, Made, DoneWith
  <2>2. QED
    BY <2>1, InitIInv DEF FInv
<1>2. (IInv /\ FInv) /\ [Next]_vars => (IInv /\ FInv)'
  BY NextIInv, FInvStep
<1>3. IInv /\ FInv => FilesComplete
  <2> SUFFICES ASSUME IInv, FInv, MakeOver, Untouched, ~aborted, job.kind = "file", damage = {},
                      NEW r \in Ranks, NEW n \in 0 .. job.items - 1
               PROVE  Complete(Item(r, 0, n), n)
    BY DEF FilesComplete, Complete
  <2>1. DoneWith(r, n)
    <3>1. stage[r] > 3 \/ (stage[r] = 3 /\ item[r] = job.items)
      BY StageNames DEF MakeOver, FInv, Waited, Rounds
    <3>2. QED
      BY <3>1, JobType DEF DoneWith, IInv, Types
  <2>2. QED
    BY <2>1 DEF FInv, Made
<1>4. QED
  BY <1>1, <1>2, <1>3, PTL DEF Spec

-----------------------------------------------------------------------------
(* Bytes that have gone bad *)

ItemNumbers == 0 .. job.items - 1

\* What is in the file of item n when its bytes in `damage` have gone bad.
Content(path, n) ==
  [i \in 1 .. job.write_bytes |->
     IF <<path, i>> \in damage THEN (Pattern(n, job.write_bytes)[i] + 1) % 256
                               ELSE Pattern(n, job.write_bytes)[i]]

LEMMA PatternBytes ==
  ASSUME NEW n \in Nat, NEW b \in Nat
  PROVE  /\ DOMAIN Pattern(n, b) = 1 .. b
         /\ \A i \in 1 .. b : Pattern(n, b)[i] \in 0 .. 255
         /\ \A i \in 1 .. 8 : Word(n)[i] \in 0 .. 255
<1>1. n % 256 \in 0 .. 255 /\ (n \div 256) % 256 \in 0 .. 255 /\ (n \div 65536) % 256 \in 0 .. 255
  OBVIOUS
<1>2. \A i \in 1 .. 8 : Word(n)[i] \in 0 .. 255
  <2> DEFINE x == n % 256
             y == (n \div 256) % 256
             z == (n \div 65536) % 256
  <2>1. Word(n) = [i \in 1 .. 8 |-> CASE i = 1 -> x [] i = 2 -> y [] i = 3 -> z [] OTHER -> 0]
    BY DEF Word
  <2>2. {x, y, z, 0} \subseteq 0 .. 255
    BY <1>1
  <2> HIDE DEF x, y, z
  <2>3. ASSUME NEW i \in 1 .. 8
        PROVE  Word(n)[i] \in {x, y, z, 0}
    BY <2>1
  <2>4. QED
    BY <2>2, <2>3
<1>3. \A i \in 1 .. b : (IF b >= 8 /\ i <= 8 THEN Word(n)[i]
                         ELSE IF i = 1 THEN n % 256 ELSE i % 256) \in 0 .. 255
  BY <1>1, <1>2
<1>4. \A i \in 1 .. b : Pattern(n, b)[i] = IF b >= 8 /\ i <= 8 THEN Word(n)[i]
                         ELSE IF i = 1 THEN n % 256 ELSE i % 256
  BY DEF Pattern
<1>5. DOMAIN Pattern(n, b) = 1 .. b
  BY DEF Pattern
<1>6. \A i \in 1 .. b : Pattern(n, b)[i] \in 0 .. 255
  <2> SUFFICES ASSUME NEW i \in 1 .. b
               PROVE  Pattern(n, b)[i] \in 0 .. 255
    OBVIOUS
  <2>1. Pattern(n, b)[i] = IF b >= 8 /\ i <= 8 THEN Word(n)[i]
                           ELSE IF i = 1 THEN n % 256 ELSE i % 256
    BY <1>4
  <2>2. QED
    BY <1>3, <2>1
<1>7. QED
  BY <1>2, <1>5, <1>6

LEMMA BadByteDiffers == \A x \in 0 .. 255 : (x + 1) % 256 # x /\ (x + 1) % 256 \in 0 .. 255
  OBVIOUS

\* The words of buffers that are both long or both short have their layout in common.
SameLayout == job.verify_read => (job.write_bytes >= 8 <=> job.read_bytes >= 8)

\* A bad byte in the window makes the read differ from what it is compared with.
LEMMA AlteredFound ==
  ASSUME job \in Jobs, NEW n \in Nat, NEW path, NEW bad \in Window, <<path, bad>> \in damage,
         SameLayout,
         NEW buffer, buffer = FirstBytes(Content(path, n), job.read_bytes)
  PROVE  Verified(n, buffer) > 0
<1> DEFINE wb == job.write_bytes
           rb == job.read_bytes
           P == Pattern(n, wb)
           C == Content(path, n)
<1>1. wb \in Nat /\ rb \in 0 .. wb /\ job.verify_read \in BOOLEAN
  BY JobType
<1>2. /\ DOMAIN P = 1 .. wb /\ \A i \in 1 .. wb : P[i] \in 0 .. 255
      /\ \A i \in 1 .. 8 : Word(n)[i] \in 0 .. 255
  BY ZenonT(30), <1>1, PatternBytes
<1>3. \A i \in 1 .. wb : P[i] = IF wb >= 8 /\ i <= 8 THEN Word(n)[i]
                                ELSE IF i = 1 THEN n % 256 ELSE i % 256
  <2> HIDE DEF wb
  <2>1. QED
    BY <1>1, PatternType
<1>4. bad \in 1 .. rb /\ (~job.verify_read => bad <= (IF rb >= 8 THEN 8 ELSE 1))
  BY <1>1 DEF Window
<1>5. C[bad] # P[bad] /\ C \in Seq(Int) /\ Len(C) = wb
  <2>1. \A i \in 1 .. wb : C[i] \in Int
    <3> SUFFICES ASSUME NEW i \in 1 .. wb
                 PROVE  C[i] \in Int
      OBVIOUS
    <3>1. C[i] \in {P[i], (P[i] + 1) % 256}
      BY DEF Content
    <3>2. P[i] \in 0 .. 255
      BY <1>2
    <3> HIDE DEF P, C
    <3>3. QED
      BY <3>1, <3>2, BadByteDiffers
  <2>2. C = [i \in 1 .. wb |-> C[i]]
    BY DEF Content
  <2>3. C \in Seq(Int) /\ Len(C) = wb
    <3> HIDE DEF C, wb
    <3>1. C \in [1 .. wb -> Int]
      BY <2>1, <2>2
    <3>2. QED
      BY <1>1, <3>1
  <2>4. bad \in 1 .. wb
    BY <1>1, <1>4
  <2>5. C[bad] = (P[bad] + 1) % 256
    BY <2>4 DEF Content
  <2>6. P[bad] \in 0 .. 255
    BY <1>2, <2>4
  <2> HIDE DEF C, P
  <2>7. QED
    BY ZenonT(30), <2>3, <2>5, <2>6, BadByteDiffers
<1>6. buffer = SubSeq(C, 1, rb)
  BY <1>1, <1>5 DEF FirstBytes
<1>7. SameLayout => (job.verify_read => (wb >= 8 <=> rb >= 8))
  BY DEF SameLayout
<1> HIDE DEF wb, rb, P, C
<1>8. buffer \in Seq(Int) /\ Len(buffer) = rb /\ \A i \in 1 .. rb : buffer[i] = C[i]
  BY <1>1, <1>5, <1>6
<1>9. buffer[bad] # P[bad]
  BY <1>4, <1>5, <1>8
<1>10. bad \in 1 .. wb
  BY <1>1, <1>4
<1>11. CASE rb >= 8 /\ bad <= 8
  <2>1. P[bad] = Word(n)[bad]
    BY <1>1, <1>3, <1>10, <1>11
  <2>2. SubSeq(buffer, 1, 8)[bad] = buffer[bad]
    BY <1>1, <1>4, <1>8, <1>11
  <2>3. SubSeq(buffer, 1, 8) # Word(n)
    BY <1>9, <2>1, <2>2
  <2>4. HeadWrong(n, buffer)
    BY <1>8, <1>11, <2>3 DEF HeadWrong
  <2>5. QED
    BY <2>4 DEF Verified
<1>12. CASE rb < 8 /\ bad = 1
  <2>1. P[bad] = n % 256
    BY ZenonT(30), <1>3, <1>10, <1>12, WordType
  <2>2. HeadWrong(n, buffer)
    BY <1>1, <1>8, <1>9, <1>12, <2>1 DEF HeadWrong
  <2>3. QED
    BY <2>2 DEF Verified
<1>13. CASE bad > (IF rb < 8 THEN 1 ELSE 8)
  <2>1. job.verify_read
    BY <1>1, <1>4, <1>13
  <2>2. P[bad] = bad % 256
    BY <1>1, <1>3, <1>4, <1>7, <1>10, <1>13, <2>1
  <2>3. RestWrong(buffer)
    BY <1>1, <1>4, <1>8, <1>9, <1>13, <2>2 DEF RestWrong
  <2>4. QED
    BY <2>1, <2>3 DEF Verified
<1>14. QED
  BY <1>1, <1>4, <1>11, <1>12, <1>13

-----------------------------------------------------------------------------
(* The invariant *)

\* Only items are files.
Known == \A p \in DOMAIN files :
           job.kind = "file" /\ \E r \in Ranks, n \in ItemNumbers : p = Item(r, 0, n)

\* Bytes go bad in the files of items, when all ranks have reached the barrier.
Kept ==
  /\ \A d \in damage : /\ job.kind = "file"
                       /\ \E r \in Ranks, n \in ItemNumbers : d = <<Item(r, 0, n), d[2]>>
  /\ damage # {} => \A r \in Ranks : stage[r] > 3 \/ (stage[r] = 3 /\ waiting[r])

Altered ==
  damage # {} /\ Untouched /\ ~aborted =>
    \A r \in Ranks, n \in ItemNumbers :
      Item(r, 0, n) \in DOMAIN files /\ files[Item(r, 0, n)] = Content(Item(r, 0, n), n)

\* Rank r is done with the item n of its read phase.
HasRead(r, n) ==
  \/ stage[r] > 4
  \/ stage[r] = 4 /\ (n < item[r] \/ (n = item[r] /\ step[r] = "close"))

AllRead ==
  ~aborted /\ SameLayout =>
    \A r \in Ranks, n \in ItemNumbers :
      HasRead(r, n) /\ (\E i \in Window : <<Item(r, 2, n), i>> \in damage) => errors[r] > 0

DInv == Known /\ Kept /\ Altered /\ AllRead

\* Whatever the shift, the item of any rank comes to some rank ...
LEMMA SomebodyHas ==
  ASSUME job \in Jobs, NEW k \in {0, 1, 2, 3}, NEW q \in Ranks, NEW n
  PROVE  \E r \in Ranks : Item(r, k, n) = Item(q, 0, n)
<1>1. job.nstride \in Nat /\ NTasks \in Nat \ {0}
  BY JobType, BackendAssumption
<1>2. CASE job.shared_file
  BY <1>2 DEF Item, Owner
<1>3. CASE ~job.shared_file
  <2>1. q \in 0 .. NTasks - 1 /\ k * job.nstride \in Nat /\ 0 * job.nstride = 0
    BY <1>1 DEF Ranks
  <2> DEFINE s == k * job.nstride
  <2>0. s \in Nat
    BY <2>1
  <2> HIDE DEF s
  <2>2. \E p \in 0 .. NTasks - 1 : (p + s) % NTasks = q
    <3>1. NTasks \in Nat \ {0} /\ q \in 0 .. NTasks - 1
      BY <1>1, <2>1
    <3>2. \A x \in Nat : \E p \in 0 .. NTasks - 1 : (p + x) % NTasks = q
      BY <3>1, ShiftReaches
    <3>3. QED
      BY <2>0, <3>2, Zenon
  <2>3. (q + 0 * job.nstride) % NTasks = q
    <3>1. q + 0 * job.nstride = q
      BY <1>1, <2>1
    <3>2. q % NTasks = q
      BY <1>1, <2>1
    <3>3. QED
      BY <3>1, <3>2
  <2>4. QED
    BY <1>3, <2>2, <2>3 DEF Item, Owner, Ranks, s
<1>4. QED
  BY <1>2, <1>3

\* ... and what comes to a rank is the item of some rank.
LEMMA HasAnItem ==
  ASSUME job \in Jobs, NEW k \in {0, 1, 2, 3}, NEW r \in Ranks, NEW n
  PROVE  \E q \in Ranks : Item(r, k, n) = Item(q, 0, n)
<1>1. job.nstride \in Nat /\ NTasks \in Nat \ {0}
  BY JobType, BackendAssumption
<1>2. CASE job.shared_file
  BY <1>2 DEF Item, Owner
<1>3. CASE ~job.shared_file
  <2> DEFINE q == (r + k * job.nstride) % NTasks
  <2>1. r + k * job.nstride \in Int /\ 0 * job.nstride = 0
    BY <1>1 DEF Ranks
  <2>2. q \in 0 .. NTasks - 1
    BY <1>1, <2>1, Division
  <2> HIDE DEF q
  <2>3. (q + 0 * job.nstride) % NTasks = q
    <3>1. q + 0 * job.nstride = q
      BY <2>1, <2>2
    <3>2. q % NTasks = q
      BY <1>1, <2>2
    <3>3. QED
      BY <3>1, <3>2
  <2>4. QED
    BY <1>3, <2>2, <2>3 DEF Item, Owner, Ranks, q
<1>4. QED
  BY <1>2, <1>3

\* It comes to no other rank, unless it is the file of -S.
LEMMA NobodyElseHas ==
  ASSUME job \in Jobs, ~job.shared_file, NEW k \in {0, 1, 2, 3}, NEW n,
         NEW r \in Ranks, NEW q \in Ranks, Item(r, k, n) = Item(q, k, n)
  PROVE  r = q
<1> DEFINE s == k * job.nstride
<1>1. NTasks \in Nat \ {0} /\ s \in Nat /\ r \in 0 .. NTasks - 1 /\ q \in 0 .. NTasks - 1
  BY JobType, BackendAssumption DEF Ranks
<1>2. (r + s) % NTasks = (q + s) % NTasks
  BY DEF Item, Owner
<1> HIDE DEF s
<1>3. QED
  BY <1>1, <1>2, ShiftUnique

-----------------------------------------------------------------------------
(* The steps *)

\* A step that leaves the damage alone, takes no file that is to be read, and reads
\* nothing without counting.
LEMMA DamageKept ==
  ASSUME IInv, DInv, UNCHANGED <<job, damage>>, Known',
         damage # {} => \A r \in Ranks : stage'[r] > 3 \/ (stage'[r] = 3 /\ waiting'[r]),
         damage # {} /\ Untouched' /\ ~aborted' =>
           /\ Untouched /\ ~aborted /\ DOMAIN files' = DOMAIN files
           /\ \A p \in DOMAIN files : files'[p] = files[p],
         ~aborted' => ~aborted,
         errors' \in [Ranks -> Nat], \A r \in Ranks : errors'[r] >= errors[r],
         ASSUME NEW r \in Ranks, NEW n \in ItemNumbers, ~aborted', SameLayout,
                damage # {}, HasRead(r, n)', ~HasRead(r, n), NEW i \in Window,
                <<Item(r, 2, n), i>> \in damage
         PROVE  errors'[r] > 0
  PROVE  DInv'
<1>1. \A r, k, n : Item(r, k, n)' = Item(r, k, n)
  BY DEF Item, Owner
<1>2. /\ ItemNumbers' = ItemNumbers /\ Window' = Window /\ SameLayout' = SameLayout
      /\ \A p, n : Content(p, n)' = Content(p, n)
  BY DEF ItemNumbers, Window, SameLayout, Content
<1>3. Kept'
  BY <1>1, <1>2 DEF DInv, Kept
<1>4. Altered'
  BY <1>1, <1>2 DEF DInv, Altered
<1>5. AllRead'
  <2> SUFFICES ASSUME ~aborted', SameLayout, NEW r \in Ranks, NEW n \in ItemNumbers,
                      HasRead(r, n)', NEW i \in Window, <<Item(r, 2, n), i>> \in damage
               PROVE  errors'[r] > 0
    BY <1>1, <1>2 DEF AllRead
  <2>1. CASE HasRead(r, n)
    <3>1. errors[r] > 0
      BY <2>1 DEF DInv, AllRead
    <3>2. errors[r] \in Nat /\ errors'[r] \in Nat /\ errors'[r] >= errors[r]
      BY DEF IInv, Types
    <3>3. QED
      BY <3>1, <3>2
  <2>2. CASE ~HasRead(r, n)
    BY <2>2
  <2>3. QED
    BY <2>1, <2>2
<1>6. QED
  BY <1>3, <1>4, <1>5 DEF DInv

\* Nobody writes or makes a file once a byte has gone bad.
LEMMA NoDamageYet ==
  ASSUME IInv, DInv, NEW r \in Ranks, Running(r), stage[r] = 3
  PROVE  damage = {}
  BY DEF DInv, Kept, Running

LEMMA KnownKept ==
  ASSUME Known, UNCHANGED job, DOMAIN files' \subseteq DOMAIN files
  PROVE  Known'
  BY DEF Known, ItemNumbers, Item, Owner

LEMMA WriteDamage ==
  ASSUME IInv, IInv', DInv, NEW r \in Ranks, WriteFile(r)
  PROVE  DInv'
<1>1. Types /\ Types' /\ LoopStep(r)
  BY DEF IInv, LoopStep
<1>2. UNCHANGED <<job, damage, errors>> /\ ~aborted
  BY <1>1, LoopFrame DEF WriteFile, NextCall, Running
<1>3. damage = {}
  BY <1>1, AtStage, NoDamageYet DEF WriteFile, At
<1>4. DOMAIN files' = DOMAIN files
  BY DEF WriteFile, CEPHFS_Write
<1>5. \A q \in Ranks : errors'[q] >= errors[q]
  BY <1>1, <1>2 DEF Types
<1>6. errors' \in [Ranks -> Nat] /\ Known'
  BY <1>1, <1>2, <1>4, KnownKept DEF Types, DInv
<1>7. QED
  BY <1>2, <1>3, <1>5, <1>6, DamageKept

\* A file that is opened to be read is there already.
LEMMA OpenDamage ==
  ASSUME IInv, IInv', DInv, NEW r \in Ranks, CreateFile(r) \/ OpenFile(r)
  PROVE  DInv'
<1>1. Types /\ Types' /\ LoopStep(r)
  BY DEF IInv, LoopStep
<1>2. /\ UNCHANGED <<job, stage, waiting, damage, errors>> /\ ~aborted /\ job.kind = "file"
      /\ item[r] < Rounds(r)
  BY <1>1, LoopFrame DEF CreateFile, OpenFile, NextCall, Running, At
<1>3. /\ \A q \in Ranks : errors'[q] >= errors[q]
      /\ errors' \in [Ranks -> Nat]
  BY <1>1, <1>2 DEF Types
<1>4. CASE CreateFile(r)
  <2>1. stage[r] = 3 /\ damage = {}
    BY <1>1, <1>4, AtStage, NoDamageYet DEF CreateFile, At
  <2>2. item[r] \in ItemNumbers
    <3>1. Rounds(r) = job.items
      BY <2>1, StageNames DEF Rounds
    <3>2. item[r] \in Nat /\ job.items \in Nat
      BY <1>1, JobType DEF Types
    <3>3. QED
      BY <1>2, <3>1, <3>2 DEF ItemNumbers
  <2>3. Known'
    <3>1. DOMAIN files' \subseteq DOMAIN files \cup {Item(r, 0, item[r])}
      BY <1>4 DEF CreateFile, CEPHFS_Open
    <3>2. \A q, n : Item(q, 0, n)' = Item(q, 0, n)
      BY <1>2 DEF Item, Owner
    <3>3. QED
      BY <1>2, <2>2, <3>1, <3>2 DEF DInv, Known, ItemNumbers
  <2>4. QED
    BY <1>2, <1>3, <2>1, <2>3, DamageKept
<1>5. CASE OpenFile(r)
  <2>1. stage[r] = 4 /\ step' = [step EXCEPT ![r] = IF job.read_bytes > 0 THEN "xfer" ELSE "close"]
        /\ item' = item /\ step[r] = "open"
    <3>1. PICK call \in {"xfer", "close"} :
            Then(r, call) /\ call = IF job.read_bytes > 0 THEN "xfer" ELSE "close"
      BY <1>5 DEF OpenFile, NextCall
    <3>2. QED
      BY <1>1, <1>5, <3>1, AtStage, NextItemFrame DEF OpenFile, At
  <2>2. DOMAIN files' = DOMAIN files /\ \A p \in DOMAIN files : files'[p] = files[p]
    <3> DEFINE path == Item(r, 2, item[r])
    <3>1. PICK ret \in {0, -EPERM, -EIO, -ENOENT} :
            /\ Returns(OpenResult(path, Top, FALSE), ret)
            /\ files' = IF ret # 0 THEN files
                        ELSE [p \in DOMAIN files \cup {path} |->
                                IF p \in DOMAIN files THEN files[p] ELSE <<>>]
      BY <1>5 DEF OpenFile, CEPHFS_Open
    <3>2. ret = 0 => path \in DOMAIN files
      BY <3>1 DEF Returns, OpenResult, ENOENT, EPERM, EIO
    <3>3. QED
      BY <3>1, <3>2
  <2>3. ASSUME NEW q \in Ranks, NEW n, HasRead(q, n)', ~HasRead(q, n)
        PROVE  job.read_bytes = 0
    <3>1. q = r /\ step'[r] = "close"
      BY <1>1, <1>2, <2>1, <2>3 DEF HasRead, Types
    <3>2. QED
      BY <1>1, <2>1, <3>1, JobType DEF Types
  <2>4. job.read_bytes = 0 => Window = {}
    BY <1>1, JobType DEF Window, Types
  <2>5. QED
    BY <1>1, <1>2, <1>3, <2>2, <2>3, <2>4, KnownKept, DamageKept DEF DInv, Untouched, Kept
<1>6. QED
  BY <1>4, <1>5

\* A read of a file with a bad byte in its window counts it.
LEMMA ReadDamage ==
  ASSUME IInv, IInv', DInv, NEW r \in Ranks, ReadFile(r)
  PROVE  DInv'
<1>1. Types /\ Types' /\ LoopStep(r) /\ job \in Jobs
  BY DEF IInv, LoopStep, QuietStep, Types
<1>2. /\ UNCHANGED <<job, stage, waiting, damage, files>> /\ ~aborted /\ Running(r)
      /\ \A q \in Ranks \ {r} : item'[q] = item[q] /\ step'[q] = step[q]
  <2>1. UNCHANGED files
    BY DEF ReadFile, CEPHFS_Read, storage
  <2>2. QED
    BY <1>1, <2>1, LoopFrame DEF Running
<1>3. stage[r] = 4 /\ step[r] = "xfer" /\ item' = item /\ step' = [step EXCEPT ![r] = "close"]
  BY <1>1, AtStage, NextItemFrame DEF ReadFile, At
<1>4. PICK buffer : /\ CEPHFS_Read(r, job.read_bytes, buffer)
                    /\ errors' = IF aborted' THEN errors
                         ELSE [errors EXCEPT ![r] = errors[r] + Verified(item[r], buffer)]
  BY DEF ReadFile
<1>5. ~aborted' => buffer = FirstBytes(files[Opened(r)], job.read_bytes)
  BY <1>4 DEF CEPHFS_Read
<1>6. Verified(item[r], buffer) \in Nat
  BY DEF Verified
<1>7. errors' \in [Ranks -> Nat] /\ \A q \in Ranks : errors'[q] >= errors[q]
  BY <1>1, <1>4, <1>6 DEF Types
<1>8. HoldsItem(r) /\ item[r] \in ItemNumbers
  <2>1. HoldsItem(r)
    BY <1>2, <1>3 DEF IInv, Held
  <2>2. Rounds(r) = job.items
    BY <1>3, StageNames DEF Rounds
  <2>3. QED
    BY <1>1, <2>1, <2>2, JobType DEF HoldsItem, ItemNumbers, Types
<1>9. ASSUME NEW q \in Ranks, NEW n \in ItemNumbers, ~aborted', SameLayout, damage # {},
             HasRead(q, n)', ~HasRead(q, n), NEW i \in Window, <<Item(q, 2, n), i>> \in damage
      PROVE  errors'[q] > 0
  <2>1. q = r /\ n = item[r]
    BY <1>1, <1>2, <1>3, <1>9 DEF HasRead, Types
  <2>2. PICK path : path = Item(r, 2, n) /\ path = Opened(r) /\ path \in DOMAIN files
    BY <1>3, <1>8, <2>1 DEF HoldsItem
  <2>3. Untouched
    <3>1. \A p \in Ranks : stage[p] \in Nat /\ ~(stage[p] > 4)
      <4>1. ~waiting[r] /\ \A p \in Ranks : stage[p] \in Nat
        <5>1. ~waiting[r]
          BY <1>2 DEF Running
        <5>2. \A p \in Ranks : stage[p] \in Nat
          <6>1. stage \in [Ranks -> 1 .. 8]
            BY <1>1 DEF Types
          <6>2. QED
            BY <6>1
        <5>3. QED
          BY <5>1, <5>2
      <4>2. QED
        BY <1>3, <4>1 DEF IInv, Adjacent
    <3>2. QED
      BY <3>1 DEF Untouched
  <2>4. files[path] = Content(path, n)
    <3>1. PICK m \in Ranks : path = Item(m, 0, n)
      BY <1>1, <2>2, HasAnItem
    <3>2. QED
      BY <1>2, <1>9, <2>3, <3>1 DEF DInv, Altered
  <2>5. buffer = FirstBytes(Content(path, n), job.read_bytes)
    BY <1>5, <1>9, <2>2, <2>4
  <2>6. n \in Nat /\ <<path, i>> \in damage
    BY <1>9, <2>1, <2>2 DEF ItemNumbers
  <2>7. Verified(n, buffer) > 0
    BY <1>1, <1>9, <2>5, <2>6, AlteredFound
  <2>8. errors'[r] = errors[r] + Verified(item[r], buffer) /\ errors[r] \in Nat
    BY <1>1, <1>4, <1>9 DEF Types
  <2>9. QED
    BY <1>6, <2>1, <2>7, <2>8
<1>10. Known'
  BY <1>2, KnownKept DEF DInv
<1>11. QED
  BY <1>2, <1>7, <1>9, <1>10, DamageKept DEF Untouched, DInv, Kept

\* The other calls of a loop.
LEMMA QuietDamage ==
  ASSUME IInv, IInv', DInv, NEW r \in Ranks, QuietStep(r), ~ReadFile(r)
  PROVE  DInv'
<1>1. Types /\ Types' /\ LoopStep(r)
  BY DEF IInv, LoopStep
<1>2. /\ UNCHANGED <<job, stage, waiting, damage, files, errors>> /\ ~aborted /\ Running(r)
      /\ \A q \in Ranks \ {r} : item'[q] = item[q] /\ step'[q] = step[q]
  <2>1. UNCHANGED <<files, errors>>
    BY DEF QuietStep, Initialize, MakeTree, MakeDir, StatItem, RemoveDir, RemoveTree, Finalize,
       Sync, CloseFile, NextItem, NextCall, CEPHFS_Init, CEPHFS_MkDir, CEPHFS_Stat,
       CEPHFS_RmDir, CEPHFS_Final, CEPHFS_Sync, CEPHFS_Close, storage
  <2>2. QED
    BY <1>1, <2>1, LoopFrame DEF Running
<1>3. errors' \in [Ranks -> Nat] /\ \A q \in Ranks : errors'[q] >= errors[q]
  BY <1>1, <1>2 DEF Types
<1>4. ASSUME NEW q \in Ranks, NEW n \in ItemNumbers, damage # {}, HasRead(q, n)'
      PROVE  HasRead(q, n)
  <2>1. n \in Nat /\ item[r] \in Nat /\ item \in [Ranks -> Nat]
        /\ step \in [Ranks -> {"open", "xfer", "close", "synced"}]
    BY <1>1 DEF ItemNumbers, Types
  <2>2. CASE q # r \/ stage[r] # 4
    BY <1>1, <1>2, <1>4, <2>2 DEF HasRead, Types
  <2>3. CASE q = r /\ stage[r] = 4
    <3>1. Sync(r) \/ (CloseFile(r) /\ step[r] = "close")
      <4>1. \A name, call : At(r, name, call) => name = "look" /\ step[r] = call
        BY <2>3, StageNames DEF At
      <4>2. ~StatItem(r)
        BY <1>4 DEF StatItem, DInv, Kept
      <4>3. /\ ~Initialize(r) /\ ~MakeTree(r) /\ ~MakeDir(r) /\ ~RemoveDir(r)
            /\ ~RemoveTree(r) /\ ~Finalize(r)
        <5>1. \A call : /\ ~At(r, "init", call) /\ ~At(r, "tree", call) /\ ~At(r, "make", call)
                        /\ ~At(r, "clear", call) /\ ~At(r, "untree", call)
                        /\ ~At(r, "final", call)
          BY <4>1
        <5>2. QED
          BY <5>1 DEF Initialize, MakeTree, MakeDir, RemoveDir, RemoveTree, Finalize
      <4>4. CloseFile(r) => step[r] = "close"
        BY DEF CloseFile, At
      <4>5. QED
        BY <4>2, <4>3, <4>4 DEF QuietStep
    <3>2. CASE Sync(r)
      BY <1>2, <1>4, <2>1, <2>3, <3>2 DEF Sync, NextCall, Then, HasRead
    <3>3. CASE CloseFile(r) /\ step[r] = "close"
      <4>1. step'[r] = "open" /\ item'[r] = item[r] + 1
        BY <2>1, <3>3 DEF CloseFile, NextItem, Then
      <4>2. QED
        BY <1>2, <1>4, <2>1, <2>3, <3>3, <4>1 DEF HasRead
    <3>4. QED
      BY <3>1, <3>2, <3>3
  <2>4. QED
    BY <2>2, <2>3
<1>5. Known'
  BY <1>2, KnownKept DEF DInv
<1>6. QED
  BY <1>2, <1>3, <1>4, <1>5, DamageKept DEF Untouched, DInv, Kept

\* Nobody reads any more when files are removed.
LEMMA RemoveDamage ==
  ASSUME IInv, IInv', DInv, NEW r \in Ranks, RemoveFile(r)
  PROVE  DInv'
<1>1. Types /\ Types' /\ LoopStep(r)
  BY DEF IInv, LoopStep
<1>2. /\ UNCHANGED <<job, stage, waiting, damage, errors>> /\ ~aborted /\ stage[r] = 5
      /\ \A q \in Ranks \ {r} : item'[q] = item[q] /\ step'[q] = step[q]
  BY <1>1, AtStage, LoopFrame DEF RemoveFile, NextItem, Running
<1>3. errors' \in [Ranks -> Nat] /\ \A q \in Ranks : errors'[q] >= errors[q]
  BY <1>1, <1>2 DEF Types
<1>4. ~Untouched'
  BY <1>2 DEF Untouched
<1>5. \A q \in Ranks : \A n : HasRead(q, n)' => HasRead(q, n)
  BY <1>2 DEF HasRead
<1>6. DOMAIN files' \subseteq DOMAIN files
  BY DEF RemoveFile, CEPHFS_Delete
<1>7. QED
  BY <1>2, <1>3, <1>4, <1>5, <1>6, KnownKept, DamageKept DEF DInv, Kept

\* A rank that leaves the read phase has read all its items.
LEMMA BarrierDamage ==
  ASSUME IInv, IInv', FInv, DInv, NEW r \in Ranks, EnterBarrier(r) \/ LeaveBarrier(r)
  PROVE  DInv'
<1>1. Types /\ Types'
  BY DEF IInv
<1>2. UNCHANGED <<job, files, aborted, errors, damage>>
  BY DEF EnterBarrier, LeaveBarrier, backend, storage
<1>3. errors' \in [Ranks -> Nat] /\ \A q \in Ranks : errors'[q] >= errors[q]
  BY <1>1, <1>2 DEF Types
<1>4. Known'
  BY <1>2, KnownKept DEF DInv
<1>5. CASE EnterBarrier(r)
  <2>1. UNCHANGED <<stage, item, step>> /\ \A q \in Ranks : waiting[q] => waiting'[q]
    BY <1>1, <1>5 DEF EnterBarrier, Types
  <2>2. \A q \in Ranks : \A n : HasRead(q, n)' => HasRead(q, n)
    BY <2>1 DEF HasRead
  <2>3. QED
    BY <1>2, <1>3, <1>4, <2>1, <2>2, DamageKept DEF Untouched, DInv, Kept
<1>6. CASE LeaveBarrier(r)
  <2>1. /\ waiting[r] /\ stage'[r] = stage[r] + 1 /\ item'[r] = 0 /\ step'[r] = "open"
        /\ \A q \in Ranks : q # r => /\ stage'[q] = stage[q] /\ item'[q] = item[q]
                                     /\ step'[q] = step[q] /\ waiting'[q] = waiting[q]
        /\ \A q \in Ranks : stage[q] \in Nat
    <3>1. /\ stage' = [stage EXCEPT ![r] = stage[r] + 1] /\ item' = [item EXCEPT ![r] = 0]
          /\ step' = [step EXCEPT ![r] = "open"] /\ waiting' = [waiting EXCEPT ![r] = FALSE]
          /\ waiting[r]
      BY <1>6 DEF LeaveBarrier
    <3>2. /\ stage \in [Ranks -> 1 .. 8] /\ item \in [Ranks -> Nat]
          /\ step \in [Ranks -> {"open", "xfer", "close", "synced"}]
          /\ waiting \in [Ranks -> BOOLEAN]
      BY <1>1 DEF Types
    <3>3. QED
      BY <3>1, <3>2
  <2>2. Untouched' => Untouched
    BY <2>1 DEF Untouched
  <2>3. damage # {} => \A q \in Ranks : stage'[q] > 3 \/ (stage'[q] = 3 /\ waiting'[q])
    <3> SUFFICES ASSUME damage # {}, NEW q \in Ranks
                 PROVE  stage'[q] > 3 \/ (stage'[q] = 3 /\ waiting'[q])
      OBVIOUS
    <3>1. stage[q] > 3 \/ (stage[q] = 3 /\ waiting[q])
      BY DEF DInv, Kept
    <3>2. QED
      BY <2>1, <3>1
  <2>4. ASSUME NEW q \in Ranks, NEW n \in ItemNumbers, HasRead(q, n)'
        PROVE  HasRead(q, n)
    <3>1. CASE q # r
      BY <2>1, <2>4, <3>1 DEF HasRead
    <3>2. CASE q = r /\ stage[r] = 4
      <4>1. item[r] = job.items
        BY <2>1, <3>2, StageNames DEF FInv, Waited, Rounds
      <4>2. job.items \in Nat
        BY <1>1, JobType DEF Types
      <4>3. QED
        BY <3>2, <4>1, <4>2 DEF HasRead, ItemNumbers
    <3>3. CASE q = r /\ stage[r] # 4
      <4>1. n \in Nat
        BY DEF ItemNumbers
      <4>2. QED
        BY <2>1, <2>4, <3>3, <4>1 DEF HasRead
    <3>4. QED
      BY <3>1, <3>2, <3>3
  <2>5. QED
    BY <1>2, <1>3, <1>4, <2>2, <2>3, <2>4, DamageKept
<1>7. QED
  BY <1>5, <1>6

\* The first byte goes bad in complete files, each other one in files with known contents.
LEMMA DamageDamage ==
  ASSUME IInv, FInv, DInv, NEW path \in DOMAIN files, NEW i \in DOMAIN files[path],
         Damage(path, i)
  PROVE  DInv'
<1>1. /\ UNCHANGED <<job, stage, item, step, waiting, errors, aborted>> /\ ~aborted
      /\ \A r \in Ranks : stage[r] = 3 /\ waiting[r]
      /\ damage' = damage \cup {<<path, i>>} /\ <<path, i>> \notin damage
      /\ files' = [files EXCEPT ![path] = [files[path] EXCEPT ![i] = (files[path][i] + 1) % 256]]
  BY DEF Damage, progress
<1>2. Untouched /\ job \in Jobs /\ job.kind = "file" /\ job.items \in Nat
      /\ job.write_bytes \in Nat
  BY <1>1, JobType DEF Untouched, IInv, Types, DInv, Known
<1>3. \A r, k, n : Item(r, k, n)' = Item(r, k, n)
  BY <1>1 DEF Item, Owner
<1>4. ItemNumbers' = ItemNumbers
  BY <1>1 DEF ItemNumbers
<1>5. Known' /\ Kept'
  <2>1. PICK r \in Ranks, n \in ItemNumbers : path = Item(r, 0, n)
    BY DEF DInv, Known
  <2>2. DOMAIN files' = DOMAIN files
    BY <1>1
  <2>3. Known'
    BY <1>1, <2>2, KnownKept DEF DInv
  <2>4. Kept'
    BY <1>1, <1>2, <1>3, <1>4, <2>1 DEF DInv, Kept
  <2>5. QED
    BY <2>3, <2>4
<1>6. ASSUME NEW r \in Ranks, NEW n \in ItemNumbers
      PROVE  Item(r, 0, n) \in DOMAIN files /\ files[Item(r, 0, n)] = Content(Item(r, 0, n), n)
  <2>1. CASE damage # {}
    BY <1>1, <1>2, <2>1 DEF DInv, Altered
  <2>2. CASE damage = {}
    <3>1. item[r] = job.items
      BY <1>1, StageNames DEF FInv, Waited, Rounds
    <3>2. DoneWith(r, n)
      BY <1>1, <1>2, <3>1 DEF DoneWith, ItemNumbers
    <3>3. Complete(Item(r, 0, n), n)
      BY <1>1, <1>2, <2>2, <3>2 DEF FInv, Made, ItemNumbers
    <3>4. Content(Item(r, 0, n), n) = Pattern(n, job.write_bytes)
      <4> DEFINE P == Pattern(n, job.write_bytes)
      <4>1. P = [k \in 1 .. job.write_bytes |-> P[k]]
        BY DEF Pattern
      <4>2. Content(Item(r, 0, n), n) = [k \in 1 .. job.write_bytes |-> P[k]]
        BY <2>2 DEF Content
      <4> HIDE DEF P
      <4>3. Content(Item(r, 0, n), n) = P
        BY <4>1, <4>2
      <4>4. QED
        BY <4>3 DEF P
    <3>5. QED
      BY <3>3, <3>4 DEF Complete
  <2>3. QED
    BY <2>1, <2>2
<1>7. Altered'
  <2> SUFFICES ASSUME NEW r \in Ranks, NEW n \in ItemNumbers, NEW p, p = Item(r, 0, n)
               PROVE  p \in DOMAIN files' /\ files'[p] = Content(p, n)'
    BY <1>3, <1>4 DEF Altered
  <2> DEFINE wb == job.write_bytes
             P == Pattern(n, wb)
  <2>1. p \in DOMAIN files /\ p \in DOMAIN files' /\ files[p] = Content(p, n)
    BY <1>1, <1>6
  <2>2. CASE p # path
    <3>1. Content(p, n)' = Content(p, n)
      <4>1. \A k : <<p, k>> \in damage' <=> <<p, k>> \in damage
        BY <1>1, <2>2
      <4>2. QED
        BY <1>1, <4>1 DEF Content
    <3>2. QED
      BY <1>1, <2>1, <2>2, <3>1
  <2>3. CASE p = path
    <3>1. files'[p] = [files[p] EXCEPT ![i] = (files[p][i] + 1) % 256] /\ i \in 1 .. wb
      BY <1>1, <2>1, <2>3 DEF Content
    <3>2. files[p][i] = P[i]
      BY <1>1, <2>1, <2>3, <3>1 DEF Content
    <3>3. \A k : <<p, k>> \in damage' <=> (<<p, k>> \in damage \/ k = i)
      BY <1>1, <2>3
    <3>4. \A k \in 1 .. wb : files[p][k] = IF <<p, k>> \in damage THEN (P[k] + 1) % 256 ELSE P[k]
      BY <2>1 DEF Content
    <3>5. DOMAIN files[p] = 1 .. wb
      BY <2>1 DEF Content
    <3>6. Content(p, n)' = [k \in 1 .. wb |->
                              IF <<p, k>> \in damage' THEN (P[k] + 1) % 256 ELSE P[k]]
      BY <1>1 DEF Content
    <3> HIDE DEF wb, P
    <3>7. ASSUME NEW k \in 1 .. wb
          PROVE  files'[p][k] = IF <<p, k>> \in damage' THEN (P[k] + 1) % 256 ELSE P[k]
      <4>1. CASE k = i
        <5>1. files'[p][k] = (files[p][i] + 1) % 256
          BY <3>1, <3>5, <4>1
        <5>2. QED
          BY <3>2, <3>3, <4>1, <5>1
      <4>2. CASE k # i
        <5>1. files'[p][k] = files[p][k]
          BY <3>1, <3>5, <4>2
        <5>2. QED
          BY <3>3, <3>4, <4>2, <5>1
      <4>3. QED
        BY <4>1, <4>2
    <3>8. files'[p] = [k \in 1 .. wb |-> files'[p][k]]
      BY <3>1, <3>5
    <3>9. files'[p] = Content(p, n)'
      BY <3>6, <3>7, <3>8
    <3>10. QED
      BY <2>1, <3>9
  <2>4. QED
    BY <2>2, <2>3
<1>8. \A r \in Ranks : \A n : ~HasRead(r, n)'
  BY <1>1 DEF HasRead
<1>9. AllRead'
  BY <1>8 DEF AllRead
<1>10. QED
  BY <1>5, <1>7, <1>9 DEF DInv

LEMMA DInvStep == IInv /\ IInv' /\ FInv /\ DInv /\ [Next]_vars => DInv'
<1> SUFFICES ASSUME IInv, IInv', FInv, DInv, [Next]_vars
             PROVE  DInv'
  OBVIOUS
<1>1. ASSUME NEW r \in Ranks, RankStep(r)
      PROVE  DInv'
  BY <1>1, QuietDamage, ReadDamage, OpenDamage, WriteDamage, RemoveDamage, BarrierDamage
     DEF RankStep, QuietStep
<1>2. CASE UNCHANGED vars
  BY <1>2 DEF vars, backend, progress, DInv, Known, Kept, Altered, AllRead, ItemNumbers, Item,
     Owner, Content, HasRead, Window, SameLayout, Untouched
<1>3. CASE Stop
  BY <1>2, <1>3 DEF Stop
<1>4. QED
  BY <1>1, <1>2, <1>3, DamageDamage DEF Next

\* A byte that storage has lost in the part of a file that is looked at is found by the
\* check of mdtest_read or mdtest_verify_data, on some rank.
THEOREM DamageNeverMissed == Spec => []DamageCounted
<1>1. Init => IInv /\ FInv /\ DInv
  <2>1. Init => Waited /\ Made
    BY DEF Init, Waited, Made, DoneWith
  <2>2. Init => DInv
    BY DEF Init, BackendInit, DInv, Known, Kept, Altered, AllRead
  <2>3. QED
    BY <2>1, <2>2, InitIInv DEF FInv
<1>2. (IInv /\ FInv /\ DInv) /\ [Next]_vars => (IInv /\ FInv /\ DInv)'
  BY NextIInv, FInvStep, DInvStep
<1>3. IInv /\ FInv /\ DInv => DamageCounted
  <2> SUFFICES ASSUME IInv, FInv, DInv, LookOver, ~aborted, SameLayout,
                      NEW d \in damage, d[2] \in Window
               PROVE  \E r \in Ranks : errors[r] > 0
    BY DEF DamageCounted, SameLayout
  <2>1. PICK q \in Ranks, n \in ItemNumbers : d = <<Item(q, 0, n), d[2]>>
    BY DEF DInv, Kept
  <2>2. PICK r \in Ranks : Item(r, 2, n) = Item(q, 0, n)
    BY SomebodyHas DEF IInv, Types
  <2>3. HasRead(r, n)
    <3>1. stage[r] > 4 \/ (stage[r] = 4 /\ item[r] = job.items)
      BY StageNames DEF LookOver, FInv, Waited, Rounds
    <3>2. n \in Nat /\ n < job.items
      BY JobType DEF IInv, Types, ItemNumbers
    <3>3. QED
      BY <3>1, <3>2 DEF HasRead
  <2>4. <<Item(r, 2, n), d[2]>> \in damage
    BY <2>1, <2>2
  <2>5. QED
    BY <2>3, <2>4 DEF DInv, AllRead
<1>4. QED
  BY <1>1, <1>2, <1>3, PTL DEF Spec

-----------------------------------------------------------------------------
(* Jobs in which no call fails of its own account *)

\* Rank r has made its item n; rank q has removed the item n that falls to it.
HasMade(r, n) ==
  \/ stage[r] > 3
  \/ stage[r] = 3 /\ (n < item[r] \/ (n = item[r] /\ step[r] # "open"))

HasRemoved(q, n) ==
  /\ job.shared_file => q = 0
  /\ stage[q] > 5 \/ (stage[q] = 5 /\ n < item[q])

TopMade == stage[0] > 2 \/ (stage[0] = 2 /\ item[0] > 0)
TopGone == stage[0] > 6 \/ (stage[0] = 6 /\ item[0] > 0)
HasFinished(r) == stage[r] > 7 \/ (stage[r] = 7 /\ item[r] > 0)

Present == IF job.kind = "file" THEN DOMAIN files ELSE dirs

\* What has been made and not been removed is there, what has been removed is not ...
There ==
  \A r \in Ranks, n \in ItemNumbers :
    HasMade(r, n) /\ (\A q \in Ranks : Item(q, 3, n) = Item(r, 0, n) => ~HasRemoved(q, n))
    => Item(r, 0, n) \in Present

Gone == \A q \in Ranks, n \in ItemNumbers : HasRemoved(q, n) => Item(q, 3, n) \notin Present

\* ... nor is a directory that has yet to be made, and there is nothing else.
Fresh ==
  job.kind = "dir" =>
    \A r \in Ranks, n \in ItemNumbers : Item(r, 0, n) \in dirs => HasMade(r, n)

Placed ==
  \A p \in dirs : \/ p \in {Root, Top}
                  \/ job.kind = "dir" /\ \E r \in Ranks, n \in ItemNumbers : p = Item(r, 0, n)

Tops == Root \in dirs /\ (Top \in dirs <=> TopMade /\ ~TopGone)

\* A rank holds a descriptor while it transfers, and no longer than that.
Cells == \A r \in Ranks : Len(handles[r]) = IF step[r] \in {"xfer", "close"} THEN 1 ELSE 0

Mounts == DOMAIN cmount = Ranks /\ \A r \in Ranks : HasFinished(r) => cmount[r] = "shut"

Population == There /\ Gone /\ Fresh /\ Placed /\ Tops
Books == files = [p \in DOMAIN files |-> files[p]] /\ Cells /\ Mounts
Clean == ~aborted /\ Population /\ Books

CInv == faults \in Nat /\ (faults = 0 => Clean)

LEMMA StageNumber ==
  ASSUME Types, NEW r \in Ranks, NEW call
  PROVE  /\ At(r, "init", call) => stage[r] = 1
         /\ At(r, "tree", call) => stage[r] = 2
         /\ At(r, "make", call) => stage[r] = 3
         /\ At(r, "look", call) => stage[r] = 4
         /\ At(r, "clear", call) => stage[r] = 5
         /\ At(r, "untree", call) => stage[r] = 6
         /\ At(r, "final", call) => stage[r] = 7
<1>1. \A name : At(r, name, call) => stage[r] \in 1 .. 7 /\ Stages[stage[r]] = name
  BY StageNames DEF At, Running, Finished, Types
<1>2. QED
  BY <1>1, StageNames

\* How often a rank goes round, in numbers.
LEMMA RoundNumbers ==
  ASSUME Types, NEW r \in Ranks, stage[r] \in 1 .. 7
  PROVE  /\ stage[r] \in {1, 7} => Rounds(r) = 1
         /\ stage[r] \in {2, 6} => Rounds(r) = IF r = 0 THEN 1 ELSE 0
         /\ stage[r] \in {3, 4} => Rounds(r) = job.items
         /\ stage[r] = 5 => Rounds(r) = IF job.shared_file /\ r # 0 THEN 0 ELSE job.items
  BY StageNames DEF Rounds

LEMMA ZeroIsARank == 0 \in Ranks
  BY BackendAssumption DEF Ranks

\* Nobody is ahead of a rank that runs, and who is behind waits, done with the stage before.
LEMMA Together ==
  ASSUME IInv, FInv, NEW r \in Ranks, Running(r), NEW q \in Ranks
  PROVE  /\ stage[r] \in 1 .. 7 /\ stage[q] \in 1 .. 7
         /\ stage[q] = stage[r] \/ (stage[q] = stage[r] - 1 /\ item[q] = Rounds(q))
<1>1. stage \in [Ranks -> 1 .. 8]
  BY DEF IInv, Types
<1>2. stage[r] \in 1 .. 8 /\ stage[q] \in 1 .. 8 /\ ~(stage[r] > 7) /\ ~waiting[r]
  BY <1>1, StageNames DEF Running, Finished
<1>3. ~(stage[q] > stage[r])
  BY <1>2 DEF IInv, Adjacent
<1>4. stage[r] > stage[q] => stage[r] = stage[q] + 1 /\ item[q] = Rounds(q)
  BY DEF IInv, Adjacent, FInv, Waited
<1>5. QED
  BY <1>2, <1>3, <1>4

\* What a rank in a stage can rely on.
LEMMA SoFar ==
  ASSUME IInv, FInv, NEW r \in Ranks, Running(r)
  PROVE  /\ stage[r] > 2 => TopMade
         /\ stage[r] < 6 => ~TopGone
         /\ stage[r] > 3 => \A q \in Ranks, n \in ItemNumbers : HasMade(q, n)
         /\ stage[r] < 5 => \A q \in Ranks : \A n : ~HasRemoved(q, n)
         /\ stage[r] > 5 => \A q \in Ranks, n \in ItemNumbers :
                              (job.shared_file => q = 0) => HasRemoved(q, n)
<1>1. Types /\ job.items \in Nat
  BY JobType DEF IInv, Types
<1>2. \A q \in Ranks : /\ stage[r] \in 1 .. 7 /\ stage[q] \in 1 .. 7
                       /\ stage[q] = stage[r] \/ (stage[q] = stage[r] - 1 /\ item[q] = Rounds(q))
  BY Together
<1>3. stage[r] > 2 => TopMade
  BY <1>1, <1>2, ZeroIsARank, RoundNumbers DEF TopMade
<1>4. stage[r] < 6 => ~TopGone
  BY <1>2, ZeroIsARank DEF TopGone
<1>5. ASSUME stage[r] > 3, NEW q \in Ranks, NEW n \in ItemNumbers
      PROVE  HasMade(q, n)
  BY <1>1, <1>2, <1>5, RoundNumbers DEF HasMade, ItemNumbers
<1>6. ASSUME stage[r] < 5, NEW q \in Ranks, NEW n
      PROVE  ~HasRemoved(q, n)
  BY <1>2, <1>6 DEF HasRemoved
<1>7. ASSUME stage[r] > 5, NEW q \in Ranks, NEW n \in ItemNumbers, job.shared_file => q = 0
      PROVE  HasRemoved(q, n)
  BY <1>1, <1>2, <1>7, RoundNumbers DEF HasRemoved, ItemNumbers
<1>8. QED
  BY <1>3, <1>4, <1>5, <1>6, <1>7

LEMMA ItemNotTop ==
  ASSUME job \in Jobs, NEW r, NEW k, NEW n
  PROVE  Item(r, k, n) # Top /\ Item(r, k, n) # Root /\ Item(r, k, n)[3] = n /\ Top # Root
  BY JobType DEF Item, Top, Root

\* While items are looked at, everything is there ...
LEMMA Available ==
  ASSUME IInv, FInv, Clean, NEW r \in Ranks, Running(r), stage[r] = 4,
         NEW k \in {0, 1, 2, 3}, NEW n \in ItemNumbers
  PROVE  Item(r, k, n) \in Present
<1>1. PICK q \in Ranks : Item(r, k, n) = Item(q, 0, n)
  BY HasAnItem DEF IInv, Types
<1>2. HasMade(q, n) /\ \A p \in Ranks : ~HasRemoved(p, n)
  BY SoFar
<1>3. QED
  BY <1>1, <1>2 DEF Clean, Population, There

\* ... and the item that a rank is about to remove still is.
LEMMA StillThere ==
  ASSUME IInv, FInv, Clean, NEW r \in Ranks, Running(r), stage[r] = 5, item[r] < Rounds(r)
  PROVE  item[r] \in ItemNumbers /\ (job.shared_file => r = 0) /\ Item(r, 3, item[r]) \in Present
<1>1. job \in Jobs /\ job.items \in Nat /\ item[r] \in Nat
  BY JobType DEF IInv, Types
<1>2. item[r] \in ItemNumbers /\ (job.shared_file => r = 0)
  BY <1>1, RoundNumbers DEF IInv, ItemNumbers
<1>3. PICK m \in Ranks : Item(r, 3, item[r]) = Item(m, 0, item[r])
  BY <1>1, HasAnItem
<1>4. HasMade(m, item[r])
  BY <1>2, SoFar
<1>5. ASSUME NEW q \in Ranks, Item(q, 3, item[r]) = Item(m, 0, item[r])
      PROVE  ~HasRemoved(q, item[r])
  <2>1. ~(item[r] < item[r])
    BY <1>1
  <2>2. job.shared_file => (q = 0 <=> q = r)
    BY <1>2
  <2>3. ~job.shared_file => q = r
    BY <1>1, <1>3, <1>5, NobodyElseHas
  <2>4. QED
    BY <1>1, <2>1, <2>2, <2>3 DEF HasRemoved
<1>6. QED
  BY <1>2, <1>3, <1>4, <1>5 DEF Clean, Population, There

\* When all items have been removed nothing is left but the two directories.
LEMMA NothingLeft ==
  ASSUME IInv, DInv, Clean,
         \A q \in Ranks, n \in ItemNumbers : (job.shared_file => q = 0) => HasRemoved(q, n)
  PROVE  files = <<>> /\ dirs \subseteq {Root, Top}
<1>1. job \in Jobs
  BY DEF IInv, Types
<1>2. ASSUME NEW m \in Ranks, NEW n \in ItemNumbers
      PROVE  Item(m, 0, n) \notin Present
  <2>1. PICK q \in Ranks : Item(q, 3, n) = Item(m, 0, n) /\ (job.shared_file => q = 0)
    <3>1. CASE job.shared_file
      BY <3>1, ZeroIsARank DEF Item, Owner
    <3>2. CASE ~job.shared_file
      BY <1>1, <3>2, SomebodyHas
    <3>3. QED
      BY <3>1, <3>2
  <2>2. HasRemoved(q, n)
    BY <2>1
  <2>3. QED
    BY <2>1, <2>2 DEF Clean, Population, Gone
<1>3. DOMAIN files = {}
  BY <1>2 DEF DInv, Known, Present
<1>4. files = <<>>
  BY <1>3 DEF Clean, Books
<1>5. dirs \subseteq {Root, Top}
  <2> SUFFICES ASSUME NEW p \in dirs, p \notin {Root, Top}
               PROVE  FALSE
    OBVIOUS
  <2>1. job.kind = "dir" /\ \E r \in Ranks, n \in ItemNumbers : p = Item(r, 0, n)
    BY DEF Clean, Population, Placed
  <2>2. QED
    BY <1>2, <2>1 DEF Present
<1>6. QED
  BY <1>4, <1>5

-----------------------------------------------------------------------------
(* How far the ranks have come *)

SameProgress ==
  /\ \A q \in Ranks, n \in ItemNumbers : /\ HasMade(q, n)' <=> HasMade(q, n)
                                         /\ HasRemoved(q, n)' <=> HasRemoved(q, n)
  /\ TopMade' <=> TopMade
  /\ TopGone' <=> TopGone

\* A call counts for its own rank and its own stage only.
LEMMA OwnProgress ==
  ASSUME IInv, NEW r \in Ranks, LoopStep(r)
  PROVE  /\ \A q \in Ranks, n \in ItemNumbers :
              /\ (q # r \/ stage[r] # 3) => (HasMade(q, n)' <=> HasMade(q, n))
              /\ (q # r \/ stage[r] # 5) => (HasRemoved(q, n)' <=> HasRemoved(q, n))
         /\ (r # 0 \/ stage[r] # 2) => (TopMade' <=> TopMade)
         /\ (r # 0 \/ stage[r] # 6) => (TopGone' <=> TopGone)
         /\ \A q \in Ranks : (q # r \/ stage[r] # 7) => (HasFinished(q)' <=> HasFinished(q))
<1>1. /\ UNCHANGED <<job, stage>>
      /\ \A q \in Ranks : q # r => item'[q] = item[q] /\ step'[q] = step[q]
  BY LoopFrame DEF IInv
<1>2. stage \in [Ranks -> 1 .. 8]
  BY DEF IInv, Types
<1>3. stage[r] \in 1 .. 8 /\ 0 \in Ranks /\ \A q \in Ranks : stage[q] \in 1 .. 8
  BY <1>2, ZeroIsARank
<1>4. \A q \in Ranks, n \in ItemNumbers :
         /\ (q # r \/ stage[r] # 3) => (HasMade(q, n)' <=> HasMade(q, n))
         /\ (q # r \/ stage[r] # 5) => (HasRemoved(q, n)' <=> HasRemoved(q, n))
  BY <1>1, <1>3 DEF HasMade, HasRemoved
<1>5. /\ (r # 0 \/ stage[r] # 2) => (TopMade' <=> TopMade)
      /\ (r # 0 \/ stage[r] # 6) => (TopGone' <=> TopGone)
  BY <1>1, <1>3 DEF TopMade, TopGone
<1>6. \A q \in Ranks : (q # r \/ stage[r] # 7) => (HasFinished(q)' <=> HasFinished(q))
  BY <1>1, <1>3 DEF HasFinished
<1>7. QED
  BY <1>4, <1>5, <1>6

\* The calls that neither make nor remove anything for good.
LEMMA QuietProgress ==
  ASSUME IInv, NEW r \in Ranks,
         \/ Initialize(r) \/ StatItem(r) \/ OpenFile(r) \/ ReadFile(r) \/ WriteFile(r)
         \/ CloseFile(r) \/ Sync(r) \/ Finalize(r)
  PROVE  SameProgress
<1>1. LoopStep(r) /\ Types /\ job.items \in Nat
  BY JobType DEF LoopStep, QuietStep, IInv, Types
<1>2. item \in [Ranks -> Nat] /\ step \in [Ranks -> {"open", "xfer", "close", "synced"}]
      /\ item[r] \in Nat /\ UNCHANGED <<job, stage>> /\ stage[r] \in 1 .. 8
  BY <1>1, LoopFrame DEF Types
<1>3. CASE Sync(r)
  <2>1. item' = item /\ item[r] = Rounds(r) /\ stage[r] \in 1 .. 7
        /\ Stages[stage[r]] \in {"make", "look", "clear"}
    BY <1>1, <1>3, StageNames DEF Sync, NextCall, Then, Running, Finished, Types
  <2>2. stage[r] \in {3, 4, 5}
    BY <2>1, StageNames
  <2>3. ASSUME NEW n \in ItemNumbers
        PROVE  /\ stage[r] = 3 => (HasMade(r, n)' <=> HasMade(r, n))
               /\ stage[r] = 5 => (HasRemoved(r, n)' <=> HasRemoved(r, n))
    <3>1. stage[r] = 3 => item[r] = job.items
      BY <1>1, <2>1, RoundNumbers
    <3>2. QED
      BY <1>1, <1>2, <2>1, <3>1 DEF HasMade, HasRemoved, ItemNumbers
  <2>4. QED
    BY <1>1, <2>2, <2>3, OwnProgress DEF SameProgress
<1>4. CASE stage[r] = 3 /\ WriteFile(r)
  <2>1. item' = item /\ step[r] = "xfer" /\ step'[r] = "close"
    BY <1>2, <1>4 DEF WriteFile, NextCall, Then, At
  <2>2. \A n \in ItemNumbers : HasMade(r, n)' <=> HasMade(r, n)
    BY <1>2, <1>4, <2>1 DEF HasMade
  <2>3. QED
    BY <1>1, <1>4, <2>2, OwnProgress DEF SameProgress
<1>5. CASE stage[r] = 3 /\ CloseFile(r)
  <2>1. item'[r] = item[r] + 1 /\ step[r] = "close" /\ step'[r] = "open"
    BY <1>2, <1>5 DEF CloseFile, NextItem, Then, At
  <2>2. \A n \in ItemNumbers : HasMade(r, n)' <=> HasMade(r, n)
    BY <1>1, <1>2, <1>5, <2>1 DEF HasMade, ItemNumbers
  <2>3. QED
    BY <1>1, <1>5, <2>2, OwnProgress DEF SameProgress
<1>6. CASE stage[r] \in {1, 4, 7}
  BY <1>1, <1>6, OwnProgress DEF SameProgress
<1>7. QED
  <2>1. Initialize(r) => stage[r] = 1
    BY <1>1, StageNumber DEF Initialize
  <2>2. StatItem(r) \/ OpenFile(r) \/ ReadFile(r) => stage[r] = 4
    BY <1>1, StageNumber DEF StatItem, OpenFile, ReadFile
  <2>3. WriteFile(r) => stage[r] = 3
    BY <1>1, StageNumber DEF WriteFile
  <2>4. CloseFile(r) => stage[r] \in {3, 4}
    BY <1>1, StageNumber DEF CloseFile
  <2>5. Finalize(r) => stage[r] = 7
    BY <1>1, StageNumber DEF Finalize
  <2>6. QED
    BY <1>3, <1>4, <1>5, <1>6, <2>1, <2>2, <2>3, <2>4, <2>5

\* A rank in the barrier has done all there was to do in its stage.
LEMMA BarrierProgress ==
  ASSUME IInv, FInv, NEW r \in Ranks, EnterBarrier(r) \/ LeaveBarrier(r)
  PROVE  SameProgress /\ \A q \in Ranks : HasFinished(q)' <=> HasFinished(q)
<1>1. CASE EnterBarrier(r)
  BY <1>1 DEF EnterBarrier, SameProgress, HasMade, HasRemoved, TopMade, TopGone, HasFinished
<1>2. CASE LeaveBarrier(r)
  <2>1. /\ UNCHANGED job /\ waiting[r] /\ stage[r] \in 1 .. 7 /\ job.items \in Nat
        /\ stage'[r] = stage[r] + 1 /\ item'[r] = 0 /\ step'[r] = "open"
        /\ \A q \in Ranks : q # r => /\ stage'[q] = stage[q] /\ item'[q] = item[q]
                                     /\ step'[q] = step[q]
    <3>1. /\ stage' = [stage EXCEPT ![r] = stage[r] + 1] /\ item' = [item EXCEPT ![r] = 0]
          /\ step' = [step EXCEPT ![r] = "open"] /\ waiting[r] /\ UNCHANGED job
      BY <1>2 DEF LeaveBarrier
    <3>2. /\ stage \in [Ranks -> 1 .. 8] /\ item \in [Ranks -> Nat]
          /\ step \in [Ranks -> {"open", "xfer", "close", "synced"}]
          /\ \A q \in Ranks : waiting[q] => stage[q] <= 7
      BY DEF IInv, Types
    <3>3. job.items \in Nat
      BY JobType DEF IInv, Types
    <3>4. stage[r] \in 1 .. 8 /\ stage[r] <= 7
      BY <3>1, <3>2
    <3>5. stage[r] \in 1 .. 7
      BY <3>4
    <3>6. /\ stage'[r] = stage[r] + 1 /\ item'[r] = 0 /\ step'[r] = "open"
          /\ \A q \in Ranks : q # r => /\ stage'[q] = stage[q] /\ item'[q] = item[q]
                                       /\ step'[q] = step[q]
      BY <3>1, <3>2
    <3>7. QED
      BY <3>1, <3>3, <3>5, <3>6
  <2>2. item[r] = Rounds(r)
    BY <2>1 DEF FInv, Waited
  <2>3. ASSUME NEW q \in Ranks, NEW n \in ItemNumbers
        PROVE  /\ HasMade(q, n)' <=> HasMade(q, n)
               /\ HasRemoved(q, n)' <=> HasRemoved(q, n)
    <3>1. CASE q # r
      BY <2>1, <3>1 DEF HasMade, HasRemoved
    <3>2. CASE q = r
      <4>1. /\ stage[r] = 3 => item[r] = job.items
            /\ stage[r] = 5 => item[r] = IF job.shared_file /\ r # 0 THEN 0 ELSE job.items
        BY <2>1, <2>2, RoundNumbers DEF IInv
      <4>2. HasMade(r, n)' <=> HasMade(r, n)
        BY <2>1, <4>1 DEF HasMade, ItemNumbers
      <4>3. HasRemoved(r, n)' <=> HasRemoved(r, n)
        BY <2>1, <4>1 DEF HasRemoved, ItemNumbers
      <4>4. QED
        BY <3>2, <4>2, <4>3
    <3>3. QED
      BY <3>1, <3>2
  <2>4. (TopMade' <=> TopMade) /\ (TopGone' <=> TopGone)
    <3>1. CASE r = 0
      <4>1. stage[r] \in {2, 6} => item[r] = 1
        BY <2>1, <2>2, <3>1, RoundNumbers DEF IInv
      <4>2. QED
        BY <2>1, <3>1, <4>1 DEF TopMade, TopGone
    <3>2. CASE r # 0
      BY <2>1, <3>2, ZeroIsARank DEF TopMade, TopGone
    <3>3. QED
      BY <3>1, <3>2
  <2>5. ASSUME NEW q \in Ranks
        PROVE  HasFinished(q)' <=> HasFinished(q)
    <3>1. CASE q = r
      <4>1. stage[r] = 7 => item[r] = 1
        BY <2>1, <2>2, RoundNumbers DEF IInv
      <4>2. QED
        BY <2>1, <3>1, <4>1 DEF HasFinished
    <3>2. CASE q # r
      BY <2>1, <3>2 DEF HasFinished
    <3>3. QED
      BY <3>1, <3>2
  <2>6. QED
    BY <2>3, <2>4, <2>5 DEF SameProgress
<1>3. QED
  BY <1>1, <1>2

LEMMA PopulationKept ==
  ASSUME Population, UNCHANGED <<job, dirs>>, DOMAIN files' = DOMAIN files, SameProgress
  PROVE  Population'
<1>1. /\ ItemNumbers' = ItemNumbers /\ Present' = Present
      /\ \A r, k, n : Item(r, k, n)' = Item(r, k, n)
  BY DEF ItemNumbers, Present, Item, Owner
<1>2. There' /\ Gone' /\ Fresh'
  BY <1>1 DEF Population, There, Gone, Fresh, SameProgress
<1>3. Placed' /\ Tops'
  BY <1>1 DEF Population, Placed, Tops, SameProgress
<1>4. QED
  BY <1>2, <1>3 DEF Population

-----------------------------------------------------------------------------
(* The steps of jobs without a failure *)

LEMMA NoFault ==
  ASSUME faults \in Nat, NEW natural, NEW ret, Returns(natural, ret)
  PROVE  faults' \in Nat /\ (faults' = 0 => faults = 0 /\ ret = natural)
  BY DEF Returns

\* A call that succeeds does not abort.
LEMMA NoAbort ==
  ASSUME Err(0) \/ FailOnMinusOne(0)
  PROVE  ~aborted'
<1>1. ~(0 < 0) /\ ~(0 = -1)
  OBVIOUS
<1>2. QED
  BY <1>1, Zenon DEF Err, FailOnMinusOne

LEMMA CellsKept ==
  ASSUME IInv, Cells, NEW r \in Ranks, LoopStep(r), UNCHANGED handles,
         step'[r] \in {"xfer", "close"} <=> step[r] \in {"xfer", "close"}
  PROVE  Cells'
<1>1. \A q \in Ranks : q # r => step'[q] = step[q]
  BY LoopFrame DEF IInv
<1>2. QED
  BY <1>1 DEF Cells

LEMMA MountsKept ==
  ASSUME IInv, Mounts, NEW r \in Ranks, LoopStep(r), UNCHANGED cmount, stage[r] # 7
  PROVE  Mounts'
  BY OwnProgress DEF Mounts

\* What has to be known of a step that leaves the items alone.
Unfailed == faults = 0 /\ ~aborted' /\ UNCHANGED <<job, dirs>> /\ DOMAIN files' = DOMAIN files
            /\ files' = [p \in DOMAIN files' |-> files'[p]] /\ Cells' /\ Mounts'

LEMMA QuietClean ==
  ASSUME CInv, SameProgress, faults' \in Nat, faults' = 0 => Unfailed
  PROVE  CInv'
<1> SUFFICES ASSUME faults' = 0
             PROVE  Clean'
  BY DEF CInv
<1>1. Unfailed /\ Clean
  BY DEF CInv, Unfailed
<1>2. Population'
  BY <1>1, PopulationKept DEF Unfailed, Clean
<1>3. QED
  BY <1>1, <1>2 DEF Unfailed, Clean, Books

LEMMA PatternLength ==
  \A n, b \in Nat : Pattern(n, b) \in Seq(Int) /\ Len(Pattern(n, b)) = b
<1> SUFFICES ASSUME NEW n \in Nat, NEW b \in Nat
             PROVE  Pattern(n, b) \in Seq(Int) /\ Len(Pattern(n, b)) = b
  OBVIOUS
<1>1. QED
  BY PatternType

\* The items in a file are as many as were asked for.
LEMMA EnoughToRead ==
  ASSUME IInv, FInv, DInv, ~aborted, NEW r \in Ranks, Running(r), stage[r] = 4,
         step[r] = "xfer"
  PROVE  Len(FirstBytes(files[Opened(r)], job.read_bytes)) = job.read_bytes
<1>1. job \in Jobs /\ HoldsItem(r) /\ item[r] \in Nat
  BY DEF IInv, Held, Types
<1>2. job.write_bytes \in Nat /\ job.read_bytes \in 0 .. job.write_bytes /\ job.items \in Nat
  BY <1>1, JobType
<1> DEFINE path == Opened(r)
<1>3. path = Item(r, 2, item[r]) /\ path \in DOMAIN files /\ item[r] \in ItemNumbers
  BY <1>1, <1>2, RoundNumbers DEF HoldsItem, IInv, ItemNumbers
<1>4. job.kind = "file"
  BY <1>3 DEF DInv, Known
<1>5. PICK q \in Ranks : path = Item(q, 0, item[r])
  BY <1>1, <1>3, HasAnItem
<1>6. \A p \in Ranks : stage[p] <= 4 /\ stage[p] \in Nat /\ stage[p] >= 3
                       /\ (stage[p] = 3 => item[p] = job.items)
  <2> SUFFICES ASSUME NEW p \in Ranks
               PROVE  stage[p] <= 4 /\ stage[p] \in Nat /\ stage[p] >= 3
                      /\ (stage[p] = 3 => item[p] = job.items)
    OBVIOUS
  <2>1. stage[p] \in 1 .. 7 /\ (stage[p] = 4 \/ (stage[p] = 3 /\ item[p] = Rounds(p)))
    BY Together
  <2>2. QED
    BY <2>1, RoundNumbers DEF IInv
<1>7. Untouched
  BY <1>6 DEF Untouched
<1>8. \E content \in {Pattern(item[r], job.write_bytes), Content(path, item[r])} :
         files[path] = content
  <2>1. CASE damage = {}
    <3>1. DoneWith(q, item[r])
      BY <1>3, <1>6, <1>2 DEF DoneWith, ItemNumbers
    <3>2. Complete(Item(q, 0, item[r]), item[r])
      BY <1>3, <1>4, <1>7, <2>1, <3>1 DEF FInv, Made, ItemNumbers
    <3>3. QED
      BY <1>5, <3>2 DEF Complete
  <2>2. CASE damage # {}
    BY <1>3, <1>5, <1>7, <2>2 DEF DInv, Altered
  <2>3. QED
    BY <2>1, <2>2
<1>9. \A i \in 1 .. job.write_bytes : Content(path, item[r])[i] \in Int
  <2> DEFINE wb == job.write_bytes
             P == Pattern(item[r], wb)
             C == Content(path, item[r])
  <2> SUFFICES ASSUME NEW i \in 1 .. wb
               PROVE  C[i] \in Int
    OBVIOUS
  <2>1. C[i] \in {P[i], (P[i] + 1) % 256}
    BY DEF Content
  <2>2. P[i] \in 0 .. 255
    BY ZenonT(30), <1>1, <1>2, PatternBytes
  <2> HIDE DEF P, C
  <2>3. QED
    BY <2>1, <2>2, BadByteDiffers
<1>10. Content(path, item[r]) \in Seq(Int) /\ Len(Content(path, item[r])) = job.write_bytes
  <2> DEFINE wb == job.write_bytes
             C == Content(path, item[r])
  <2>1. C = [i \in 1 .. wb |-> C[i]]
    BY DEF Content
  <2>2. wb \in Nat /\ \A i \in 1 .. wb : C[i] \in Int
    BY <1>2, <1>9
  <2> HIDE DEF C, wb
  <2>3. C \in [1 .. wb -> Int]
    BY <2>1, <2>2
  <2>4. C \in Seq(Int) /\ Len(C) = wb
    BY <2>2, <2>3
  <2>5. QED
    BY <2>4 DEF C, wb
<1>11. files[path] \in Seq(Int) /\ Len(files[path]) = job.write_bytes
  <2>1. /\ Pattern(item[r], job.write_bytes) \in Seq(Int)
        /\ Len(Pattern(item[r], job.write_bytes)) = job.write_bytes
    BY <1>1, <1>2, PatternLength
  <2>2. PICK content \in {Pattern(item[r], job.write_bytes), Content(path, item[r])} :
          files[path] = content
    BY <1>8
  <2>3. content \in Seq(Int) /\ Len(content) = job.write_bytes
    BY <1>10, <2>1, <2>2
  <2>4. QED
    BY <2>2, <2>3
<1> DEFINE there == files[path]
<1>12. there \in Seq(Int) /\ Len(there) = job.write_bytes
  BY <1>11
<1> HIDE DEF path, there
<1>13. Len(FirstBytes(there, job.read_bytes)) = job.read_bytes
  BY <1>2, <1>12 DEF FirstBytes
<1>14. QED
  BY <1>13 DEF path, there

LEMMA CallClean ==
  ASSUME IInv, FInv, DInv, CInv, NEW r \in Ranks,
         Initialize(r) \/ StatItem(r) \/ Sync(r) \/ Finalize(r)
  PROVE  CInv'
<1>1. /\ LoopStep(r) /\ Types /\ faults \in Nat /\ Running(r) /\ UNCHANGED <<job, damage>>
      /\ SameProgress
  BY LoopFrame, QuietProgress DEF LoopStep, QuietStep, IInv, CInv
<1>2. UNCHANGED <<handles, files, dirs>>
  BY DEF Initialize, StatItem, Sync, Finalize, NextItem, NextCall, CEPHFS_Init, CEPHFS_Stat,
     CEPHFS_Final, CEPHFS_Sync, storage
<1>3. step[r] = "open" /\ step'[r] \in {"open", "synced"}
  <2>1. step \in [Ranks -> {"open", "xfer", "close", "synced"}]
    BY <1>1 DEF Types
  <2>2. QED
    BY <2>1 DEF Initialize, StatItem, Sync, Finalize, At, NextItem, NextCall, Then
<1>4. faults = 0 => DOMAIN files' = DOMAIN files /\ files' = [p \in DOMAIN files' |-> files'[p]]
                    /\ Cells'
  BY <1>1, <1>2, <1>3, CellsKept DEF CInv, Clean, Books
<1>5. CASE Initialize(r)
  <2>1. PICK ret \in {0, -EPERM, -EIO} :
          /\ IF cmount[r] # "null" THEN ret = 0 /\ UNCHANGED faults ELSE Returns(0, ret)
          /\ Err(ret)
          /\ cmount' = IF cmount[r] = "null" /\ ret = 0
                       THEN [cmount EXCEPT ![r] = "mounted"] ELSE cmount
    BY <1>5 DEF Initialize, CEPHFS_Init
  <2>2. faults' \in Nat /\ (faults' = 0 => faults = 0 /\ ret = 0)
    BY <1>1, <2>1, NoFault
  <2>3. stage[r] = 1
    BY <1>1, <1>5, StageNumber DEF Initialize
  <2>4. ASSUME faults = 0
        PROVE  Mounts'
    <3>1. Mounts
      BY <2>4 DEF CInv, Clean, Books
    <3>2. \A q \in Ranks : HasFinished(q)' <=> HasFinished(q)
      BY <1>1, <2>3, OwnProgress DEF IInv
    <3>3. ~HasFinished(r)
      BY <2>3 DEF HasFinished
    <3>4. QED
      BY <2>1, <3>1, <3>2, <3>3 DEF Mounts
  <2>5. faults' = 0 => ~aborted'
    BY <2>1, <2>2, NoAbort
  <2>6. QED
    BY <1>1, <1>2, <1>4, <2>2, <2>4, <2>5, QuietClean DEF Unfailed
<1>6. CASE StatItem(r)
  <2>1. PICK ret : /\ CEPHFS_Stat(Item(r, 1, item[r]), ret) /\ FailOnMinusOne(ret)
                   /\ At(r, "look", "open")
    BY <1>6 DEF StatItem
  <2> DEFINE natural == IF Item(r, 1, item[r]) \in dirs \cup DOMAIN files THEN 0 ELSE -ENOENT
  <2>2. Returns(natural, ret) /\ UNCHANGED cmount
    BY <2>1 DEF CEPHFS_Stat
  <2>3. faults' \in Nat /\ (faults' = 0 => faults = 0 /\ ret = natural)
    BY <1>1, <2>2, NoFault
  <2>4. stage[r] = 4
    BY <1>1, <2>1, StageNumber
  <2>5. item[r] \in ItemNumbers
    BY <1>1, <2>1, <2>4, RoundNumbers, JobType DEF At, ItemNumbers, Types
  <2>6. faults = 0 => natural = 0
    <3>1. faults = 0 => Item(r, 1, item[r]) \in Present
      BY <1>1, <2>4, <2>5, Available DEF CInv
    <3>2. QED
      BY <3>1 DEF Present
  <2> HIDE DEF natural
  <2>7. faults' = 0 => ~aborted'
    BY <2>1, <2>3, <2>6, NoAbort
  <2>8. faults = 0 => Mounts'
    BY <1>1, <2>2, <2>4, MountsKept DEF CInv, Clean, Books
  <2>9. QED
    BY <1>1, <1>2, <1>4, <2>3, <2>7, <2>8, QuietClean DEF Unfailed
<1>7. CASE Sync(r)
  <2>1. PICK ret \in {0, -EPERM, -EIO} : Returns(0, ret) /\ Err(ret) /\ UNCHANGED cmount
    BY <1>7 DEF Sync, CEPHFS_Sync
  <2>2. faults' \in Nat /\ (faults' = 0 => faults = 0 /\ ret = 0)
    BY <1>1, <2>1, NoFault
  <2>3. stage[r] # 7
    BY <1>7, StageNames DEF Sync
  <2>4. faults = 0 => Mounts'
    BY <1>1, <2>1, <2>3, MountsKept DEF CInv, Clean, Books
  <2>5. faults' = 0 => ~aborted'
    BY <2>1, <2>2, NoAbort
  <2>6. QED
    BY <1>1, <1>2, <1>4, <2>2, <2>4, <2>5, QuietClean DEF Unfailed
<1>8. CASE Finalize(r)
  <2>1. cmount' = [cmount EXCEPT ![r] = "shut"] /\ UNCHANGED <<faults, aborted>>
    BY <1>8 DEF Finalize, CEPHFS_Final
  <2>2. faults = 0 => Mounts'
    <3>1. \A q \in Ranks : q # r => (HasFinished(q)' <=> HasFinished(q))
      BY <1>1, OwnProgress DEF IInv
    <3>2. QED
      BY <2>1, <3>1 DEF CInv, Clean, Books, Mounts
  <2>3. QED
    BY <1>1, <1>2, <1>4, <2>1, <2>2, QuietClean DEF Unfailed, Running
<1>9. QED
  BY <1>5, <1>6, <1>7, <1>8

\* The calls on a file that is open or there.
LEMMA TransferClean ==
  ASSUME IInv, FInv, DInv, CInv, NEW r \in Ranks,
         WriteFile(r) \/ OpenFile(r) \/ ReadFile(r) \/ CloseFile(r)
  PROVE  CInv'
<1>1. /\ LoopStep(r) /\ Types /\ faults \in Nat /\ Running(r) /\ ~aborted
      /\ UNCHANGED <<job, damage>> /\ SameProgress /\ handles \in [Ranks -> Seq(Names)]
      /\ step \in [Ranks -> {"open", "xfer", "close", "synced"}]
      /\ stage \in [Ranks -> 1 .. 8]
  BY LoopFrame, QuietProgress DEF LoopStep, QuietStep, IInv, CInv, Types, Running
<1>2. UNCHANGED <<dirs, cmount>> /\ stage[r] \in {3, 4}
  <2>1. UNCHANGED <<dirs, cmount>>
    BY DEF WriteFile, OpenFile, ReadFile, CloseFile, CEPHFS_Write, CEPHFS_Open, CEPHFS_Read,
       CEPHFS_Close, storage
  <2>2. stage[r] \in {3, 4}
    BY <1>1, StageNumber DEF WriteFile, OpenFile, ReadFile, CloseFile
  <2>3. QED
    BY <2>1, <2>2
<1>3. faults = 0 => Mounts'
  BY <1>1, <1>2, MountsKept DEF CInv, Clean, Books
<1>4. \A q \in Ranks : q # r => step'[q] = step[q]
  BY <1>1, LoopFrame
<1>5. faults = 0 => files = [p \in DOMAIN files |-> files[p]] /\ Cells
  BY DEF CInv, Clean, Books
<1>6. CASE WriteFile(r)
  <2> DEFINE bytes == Pattern(item[r], job.write_bytes)
  <2>1. PICK ret \in {Len(bytes), Len(bytes) - 1, -EIO}, sync \in {0, -EIO} :
          /\ faults' = faults + (IF ret = Len(bytes) THEN 0 ELSE 1)
                        + (IF sync = 0 THEN 0 ELSE 1)
          /\ aborted' = (WriteFails(ret, Len(bytes)) \/ sync < 0)
          /\ files' = IF ret < 0 THEN files
                ELSE [files EXCEPT
                        ![Opened(r)] = Overwrite(files[Opened(r)], SubSeq(bytes, 1, ret))]
          /\ UNCHANGED handles
    BY <1>6 DEF WriteFile, CEPHFS_Write
  <2>2. Len(bytes) \in Nat
    BY <1>1, PatternLength, JobType DEF Types
  <2> HIDE DEF bytes
  <2>3. faults' \in Nat /\ (faults' = 0 => faults = 0 /\ ret = Len(bytes) /\ sync = 0)
    BY <1>1, <2>1
  <2>4. faults' = 0 => ~aborted'
    <3>1. ~(Len(bytes) < Len(bytes)) /\ ~(0 < 0)
      BY <2>2
    <3>2. QED
      BY <2>1, <2>3, <3>1, Zenon DEF WriteFails
  <2>5. faults = 0 => DOMAIN files' = DOMAIN files /\ files' = [p \in DOMAIN files' |-> files'[p]]
    BY <1>5, <2>1
  <2>6. step[r] = "xfer" /\ step'[r] = "close"
    BY <1>1, <1>6 DEF WriteFile, NextCall, Then, At
  <2>7. faults = 0 => Cells'
    BY <1>1, <1>5, <2>1, <2>6, CellsKept
  <2>8. QED
    BY <1>1, <1>2, <1>3, <2>3, <2>4, <2>5, <2>7, QuietClean DEF Unfailed
<1>7. CASE OpenFile(r)
  <2> DEFINE path == Item(r, 2, item[r])
             natural == OpenResult(path, Top, FALSE)
  <2>1. PICK ret \in {0, -EPERM, -EIO, -ENOENT} :
          /\ Returns(natural, ret)
          /\ Err(ret)
          /\ handles' = IF ret = 0 THEN [handles EXCEPT ![r] = Append(handles[r], path)]
                        ELSE handles
          /\ files' = IF ret # 0 THEN files
                      ELSE [p \in DOMAIN files \cup {path} |->
                              IF p \in DOMAIN files THEN files[p] ELSE <<>>]
    BY <1>7 DEF OpenFile, CEPHFS_Open
  <2>2. stage[r] = 4 /\ job.kind = "file" /\ At(r, "look", "open")
    BY <1>1, <1>7, StageNumber DEF OpenFile
  <2>3. item[r] \in ItemNumbers
    BY <1>1, <2>2, RoundNumbers, JobType DEF At, ItemNumbers, Types
  <2>4. faults = 0 => path \in DOMAIN files
    <3>1. faults = 0 => path \in Present
      BY <1>1, <2>2, <2>3, Available DEF CInv
    <3>2. QED
      BY <2>2, <3>1 DEF Present
  <2>5. faults = 0 => natural = 0
    BY <2>4 DEF OpenResult
  <2> HIDE DEF natural
  <2>6. faults' \in Nat /\ (faults' = 0 => faults = 0 /\ ret = 0 /\ ~aborted')
    <3>1. faults' \in Nat /\ (faults' = 0 => faults = 0 /\ ret = natural)
      BY <1>1, <2>1, NoFault
    <3>2. QED
      BY <2>1, <2>5, <3>1, NoAbort
  <2>7. faults' = 0 => DOMAIN files' = DOMAIN files /\ files' = [p \in DOMAIN files' |-> files'[p]]
    BY <2>1, <2>4, <2>6
  <2>8. faults' = 0 => Cells'
    <3> SUFFICES ASSUME faults' = 0, NEW q \in Ranks
                 PROVE  Len(handles'[q]) = IF step'[q] \in {"xfer", "close"} THEN 1 ELSE 0
      BY DEF Cells
    <3>1. Len(handles[q]) = IF step[q] \in {"xfer", "close"} THEN 1 ELSE 0
      BY <1>5, <2>6 DEF Cells
    <3>2. CASE q = r
      <4>1. step[r] = "open" /\ step'[r] \in {"xfer", "close"}
        <5>1. PICK call \in {"xfer", "close"} : Then(r, call)
          BY <1>7 DEF OpenFile, NextCall
        <5>2. QED
          BY <1>1, <2>2, <5>1 DEF Then, At
      <4>2. handles'[r] = Append(handles[r], path) /\ handles[r] \in Seq(Names)
        BY <1>1, <2>1, <2>6
      <4>3. path \in Names
        BY <1>1, ItemType DEF Types
      <4> HIDE DEF path
      <4>4. Len(handles'[r]) = 1
        BY <3>1, <3>2, <4>1, <4>2, <4>3
      <4>5. QED
        BY <3>2, <4>1, <4>4
    <3>3. CASE q # r
      BY <1>1, <1>4, <2>1, <3>1, <3>3
    <3>4. QED
      BY <3>2, <3>3
  <2>9. QED
    BY <1>1, <1>2, <1>3, <2>6, <2>7, <2>8, QuietClean DEF Unfailed
<1>8. CASE ReadFile(r)
  <2>1. stage[r] = 4 /\ step[r] = "xfer" /\ step'[r] = "close"
    BY <1>1, <1>8, StageNumber DEF ReadFile, Then, At
  <2>2. Len(FirstBytes(files[Opened(r)], job.read_bytes)) = job.read_bytes
    BY <1>1, <2>1, EnoughToRead
  <2>3. job.read_bytes \in Nat
    BY <1>1, JobType DEF Types
  <2>4. UNCHANGED <<handles, files>> /\ ((UNCHANGED <<faults, aborted>>) \/ faults' = faults + 1)
    <3>1. PICK bytes : CEPHFS_Read(r, job.read_bytes, bytes)
      BY <1>8 DEF ReadFile
    <3>2. QED
      BY <2>2, <2>3, <3>1 DEF CEPHFS_Read, storage
  <2>5. faults' \in Nat /\ (faults' = 0 => faults = 0 /\ ~aborted')
    BY <1>1, <2>4
  <2>6. faults = 0 => Cells'
    BY <1>1, <1>5, <2>1, <2>4, CellsKept
  <2>7. QED
    BY <1>1, <1>2, <1>3, <1>5, <2>4, <2>5, <2>6, QuietClean DEF Unfailed
<1>9. CASE CloseFile(r)
  <2>1. PICK ret \in {0, -EPERM, -EIO} :
          /\ Returns(0, ret)
          /\ Err(ret)
          /\ handles' = IF ret = 0
                        THEN [handles EXCEPT
                                ![r] = SubSeq(handles[r], 1, Len(handles[r]) - 1)]
                        ELSE handles
          /\ UNCHANGED files
    BY <1>9 DEF CloseFile, CEPHFS_Close, storage
  <2>2. faults' \in Nat /\ (faults' = 0 => faults = 0 /\ ret = 0 /\ ~aborted')
    BY <1>1, <2>1, NoFault, NoAbort
  <2>3. step[r] = "close" /\ step'[r] = "open"
    BY <1>1, <1>9 DEF CloseFile, NextItem, Then, At
  <2>4. faults' = 0 => Cells'
    <3> SUFFICES ASSUME faults' = 0, NEW q \in Ranks
                 PROVE  Len(handles'[q]) = IF step'[q] \in {"xfer", "close"} THEN 1 ELSE 0
      BY DEF Cells
    <3>1. Len(handles[q]) = IF step[q] \in {"xfer", "close"} THEN 1 ELSE 0
      BY <1>5, <2>2 DEF Cells
    <3>2. CASE q = r
      <4>1. Len(handles[r]) = 1 /\ handles[r] \in Seq(Names)
        BY <1>1, <2>3, <3>1, <3>2
      <4>2. handles'[r] = SubSeq(handles[r], 1, 0)
        BY <1>1, <2>1, <2>2, <4>1
      <4>3. Len(handles'[r]) = 0
        BY <4>1, <4>2
      <4>4. QED
        BY <2>3, <3>2, <4>3
    <3>3. CASE q # r
      BY <1>1, <1>4, <2>1, <3>1, <3>3
    <3>4. QED
      BY <3>2, <3>3
  <2>5. QED
    BY <1>1, <1>2, <1>3, <1>5, <2>1, <2>2, <2>4, QuietClean DEF Unfailed
<1>10. QED
  BY <1>6, <1>7, <1>8, <1>9

\* An item comes to be there when its rank has made it.
LEMMA OneMore ==
  ASSUME IInv, FInv, Clean, NEW r \in Ranks, LoopStep(r), Running(r), stage[r] = 3,
         item[r] \in ItemNumbers, UNCHANGED job,
         Present' = Present \cup {Item(r, 0, item[r])},
         job.kind = "dir" => dirs' = dirs \cup {Item(r, 0, item[r])},
         job.kind = "file" => dirs' = dirs,
         \A n \in ItemNumbers : HasMade(r, n)' <=> (HasMade(r, n) \/ n = item[r])
  PROVE  Population'
<1> DEFINE path == Item(r, 0, item[r])
<1>1. /\ ItemNumbers' = ItemNumbers /\ \A q, k, n : Item(q, k, n)' = Item(q, k, n)
      /\ job \in Jobs
  BY DEF ItemNumbers, Item, Owner, IInv, Types
<1>2. /\ \A q \in Ranks, n \in ItemNumbers :
           /\ HasMade(q, n)' <=> (HasMade(q, n) \/ (q = r /\ n = item[r]))
           /\ HasRemoved(q, n)' <=> HasRemoved(q, n)
      /\ (TopMade' <=> TopMade) /\ (TopGone' <=> TopGone)
  BY OwnProgress
<1>3. Present' = Present \cup {path} /\ path # Top /\ path # Root /\ path[3] = item[r]
  BY <1>1, ItemNotTop
<1>4. There'
  <2> SUFFICES ASSUME NEW q \in Ranks, NEW n \in ItemNumbers, HasMade(q, n)',
                      \A p \in Ranks : Item(p, 3, n) = Item(q, 0, n) => ~HasRemoved(p, n)'
               PROVE  Item(q, 0, n) \in Present'
    BY <1>1 DEF There
  <2>1. CASE HasMade(q, n)
    <3>1. Item(q, 0, n) \in Present
      BY <1>2, <2>1 DEF Clean, Population, There
    <3>2. QED
      BY <1>3, <3>1
  <2>2. CASE q = r /\ n = item[r]
    BY <1>3, <2>2
  <2>3. QED
    BY <1>2, <2>1, <2>2
<1>5. Gone'
  <2>1. \A q \in Ranks : \A n : ~HasRemoved(q, n)
    BY SoFar
  <2>2. QED
    BY <1>1, <1>2, <2>1 DEF Gone
<1>6. Fresh'
  <2> SUFFICES ASSUME job.kind = "dir", NEW q \in Ranks, NEW n \in ItemNumbers,
                      Item(q, 0, n) \in dirs'
               PROVE  HasMade(q, n) \/ (q = r /\ n = item[r])
    BY <1>1, <1>2 DEF Fresh
  <2>1. CASE Item(q, 0, n) \in dirs
    BY <2>1 DEF Clean, Population, Fresh
  <2>2. CASE Item(q, 0, n) = path
    <3>1. n = item[r]
      BY <1>1, <1>3, <2>2, ItemNotTop
    <3>2. ~job.shared_file
      BY <1>1, DataAssumption DEF IsJob
    <3>3. q = r
      BY <1>1, <2>2, <3>1, <3>2, NobodyElseHas
    <3>4. QED
      BY <3>1, <3>3
  <2>3. QED
    BY <2>1, <2>2
<1>7. Placed' /\ Tops'
  <2>1. /\ dirs' \subseteq dirs \cup {path} /\ dirs \subseteq dirs'
        /\ dirs' # dirs => job.kind = "dir"
    BY <1>1, JobType
  <2>2. Placed'
    BY <1>1, <2>1 DEF Clean, Population, Placed
  <2>3. Tops'
    BY <1>2, <1>3, <2>1 DEF Clean, Population, Tops
  <2>4. QED
    BY <2>2, <2>3
<1>8. QED
  BY <1>4, <1>5, <1>6, <1>7 DEF Population

\* It is there until the rank that it falls to has removed it.
LEMMA OneLess ==
  ASSUME IInv, FInv, Clean, NEW r \in Ranks, LoopStep(r), Running(r), stage[r] = 5,
         item[r] \in ItemNumbers, UNCHANGED job, job.shared_file => r = 0,
         Present' = Present \ {Item(r, 3, item[r])},
         job.kind = "dir" => dirs' = dirs \ {Item(r, 3, item[r])},
         job.kind = "file" => dirs' = dirs,
         \A n \in ItemNumbers : HasRemoved(r, n)' <=> (HasRemoved(r, n) \/ n = item[r])
  PROVE  Population'
<1> DEFINE path == Item(r, 3, item[r])
<1>1. /\ ItemNumbers' = ItemNumbers /\ \A q, k, n : Item(q, k, n)' = Item(q, k, n)
      /\ job \in Jobs
  BY DEF ItemNumbers, Item, Owner, IInv, Types
<1>2. /\ \A q \in Ranks, n \in ItemNumbers :
           /\ HasMade(q, n)' <=> HasMade(q, n)
           /\ HasRemoved(q, n)' <=> (HasRemoved(q, n) \/ (q = r /\ n = item[r]))
      /\ (TopMade' <=> TopMade) /\ (TopGone' <=> TopGone)
  BY OwnProgress
<1>3. Present' = Present \ {path} /\ path # Top /\ path # Root /\ path[3] = item[r]
  BY <1>1, ItemNotTop
<1>4. There'
  <2> SUFFICES ASSUME NEW q \in Ranks, NEW n \in ItemNumbers, HasMade(q, n),
                      \A p \in Ranks : Item(p, 3, n) = Item(q, 0, n) => ~HasRemoved(p, n)'
               PROVE  Item(q, 0, n) \in Present'
    BY <1>1, <1>2 DEF There
  <2>1. Item(q, 0, n) \in Present
    BY <1>2 DEF Clean, Population, There
  <2>2. Item(q, 0, n) # path
    <3>1. Item(q, 0, n) = path => n = item[r]
      BY <1>1, <1>3, ItemNotTop
    <3>2. n = item[r] => HasRemoved(r, n)'
      BY <1>2
    <3>3. n = item[r] => path = Item(r, 3, n)
      OBVIOUS
    <3>4. QED
      BY <3>1, <3>2, <3>3
  <2>3. QED
    BY <1>3, <2>1, <2>2
<1>5. Gone'
  BY <1>1, <1>2, <1>3 DEF Clean, Population, Gone
<1>6. dirs' \subseteq dirs /\ dirs \subseteq dirs' \cup {path}
  BY <1>1, JobType
<1>7. Fresh'
  BY <1>1, <1>2, <1>6 DEF Clean, Population, Fresh
<1>8. Placed'
  BY <1>1, <1>6 DEF Clean, Population, Placed
<1>9. Tops'
  BY <1>2, <1>3, <1>6 DEF Clean, Population, Tops
<1>10. QED
  BY <1>4, <1>5, <1>7, <1>8, <1>9 DEF Population

\* What the other parts of the invariant need.
LEMMA PopulationClean ==
  ASSUME IInv, CInv, NEW r \in Ranks, LoopStep(r), Running(r), stage[r] # 7, UNCHANGED cmount,
         faults' \in Nat,
         faults' = 0 => /\ faults = 0 /\ ~aborted' /\ Population' /\ Cells'
                        /\ files' = [p \in DOMAIN files' |-> files'[p]]
  PROVE  CInv'
<1>1. faults' = 0 => Mounts'
  BY MountsKept DEF CInv, Clean, Books
<1>2. QED
  BY <1>1 DEF CInv, Clean, Books

LEMMA MakeClean ==
  ASSUME IInv, FInv, DInv, CInv, NEW r \in Ranks, MakeDir(r) \/ CreateFile(r)
  PROVE  CInv'
<1> DEFINE path == Item(r, 0, item[r])
<1>1. /\ LoopStep(r) /\ Types /\ faults \in Nat /\ Running(r) /\ UNCHANGED <<job, stage>>
      /\ handles \in [Ranks -> Seq(Names)] /\ item \in [Ranks -> Nat]
      /\ step \in [Ranks -> {"open", "xfer", "close", "synced"}]
      /\ job \in Jobs /\ item[r] \in Nat /\ job.items \in Nat
  BY LoopFrame, JobType DEF LoopStep, QuietStep, IInv, CInv, Types
<1>2. At(r, "make", "open") /\ stage[r] = 3 /\ step[r] = "open" /\ item[r] < Rounds(r)
  BY <1>1, StageNumber DEF MakeDir, CreateFile, At
<1>3. item[r] \in ItemNumbers
  BY <1>1, <1>2, RoundNumbers DEF ItemNumbers
<1>4. faults = 0 => Top \in dirs
  BY <1>1, <1>2, SoFar DEF CInv, Clean, Population, Tops
<1>5. faults = 0 => files = [p \in DOMAIN files |-> files[p]] /\ Cells
  BY DEF CInv, Clean, Books
<1>6. CASE MakeDir(r)
  <2>1. job.kind = "dir" /\ Then(r, "open")
    BY <1>6 DEF MakeDir, NextItem
  <2> DEFINE natural == IF path \in dirs THEN -EEXIST ELSE IF Top \notin dirs THEN -ENOENT ELSE 0
  <2>2. PICK ret : /\ Returns(natural, ret) /\ FailOnMinusOne(ret)
                   /\ dirs' = IF ret = 0 THEN dirs \cup {path} ELSE dirs
                   /\ UNCHANGED <<cmount, handles, files>>
    BY <1>6 DEF MakeDir, CEPHFS_MkDir
  <2>3. faults = 0 => natural = 0
    <3>1. ~HasMade(r, item[r])
      BY <1>1, <1>2 DEF HasMade
    <3>2. faults = 0 => path \notin dirs
      BY <1>3, <2>1, <3>1 DEF CInv, Clean, Population, Fresh
    <3>3. QED
      BY <1>4, <3>2
  <2> HIDE DEF natural
  <2>4. faults' \in Nat /\ (faults' = 0 => faults = 0 /\ ret = 0 /\ ~aborted')
    <3>1. faults' \in Nat /\ (faults' = 0 => faults = 0 /\ ret = natural)
      BY <1>1, <2>2, NoFault
    <3>2. QED
      BY <2>2, <2>3, <3>1, NoAbort
  <2>5. step'[r] = "open" /\ item'[r] = item[r] + 1
    BY <1>1, <2>1 DEF Then
  <2>6. \A n \in ItemNumbers : HasMade(r, n)' <=> (HasMade(r, n) \/ n = item[r])
    BY <1>1, <1>2, <2>5 DEF HasMade, ItemNumbers
  <2>7. faults' = 0 => dirs' = dirs \cup {path} /\ Present' = Present \cup {path}
    BY <1>1, <2>1, <2>2, <2>4 DEF Present
  <2>8. faults' = 0 => Population'
    BY <1>1, <1>2, <1>3, <2>1, <2>4, <2>6, <2>7, OneMore DEF CInv
  <2>9. faults' = 0 => Cells'
    BY <1>1, <1>2, <1>5, <2>2, <2>4, <2>5, CellsKept
  <2>10. QED
    BY <1>1, <1>2, <1>5, <2>2, <2>4, <2>8, <2>9, PopulationClean
<1>7. CASE CreateFile(r)
  <2>1. job.kind = "file"
    BY <1>7 DEF CreateFile
  <2> DEFINE natural == OpenResult(path, Top, TRUE)
  <2>2. PICK ret \in {0, -EPERM, -EIO, -ENOENT} :
          /\ Returns(natural, ret)
          /\ Err(ret)
          /\ handles' = IF ret = 0 THEN [handles EXCEPT ![r] = Append(handles[r], path)]
                        ELSE handles
          /\ files' = IF ret # 0 THEN files
                      ELSE [p \in DOMAIN files \cup {path} |->
                              IF p \in DOMAIN files THEN files[p] ELSE <<>>]
          /\ UNCHANGED <<cmount, dirs>>
    BY <1>7 DEF CreateFile, CEPHFS_Open
  <2>3. faults = 0 => natural = 0
    BY <1>4 DEF OpenResult
  <2> HIDE DEF natural
  <2>4. faults' \in Nat /\ (faults' = 0 => faults = 0 /\ ret = 0 /\ ~aborted')
    <3>1. faults' \in Nat /\ (faults' = 0 => faults = 0 /\ ret = natural)
      BY <1>1, <2>2, NoFault
    <3>2. QED
      BY <2>2, <2>3, <3>1, NoAbort
  <2>5. step'[r] \in {"xfer", "close"} /\ item' = item
    <3>1. PICK call \in {"xfer", "close"} : Then(r, call)
      BY <1>7 DEF CreateFile, NextCall
    <3>2. QED
      BY <1>1, <3>1 DEF Then
  <2>6. \A n \in ItemNumbers : HasMade(r, n)' <=> (HasMade(r, n) \/ n = item[r])
    BY <1>1, <1>2, <2>5 DEF HasMade, ItemNumbers
  <2>7. faults' = 0 => Present' = Present \cup {path}
    BY <1>1, <2>1, <2>2, <2>4 DEF Present
  <2>8. faults' = 0 => Population'
    BY <1>1, <1>2, <1>3, <2>1, <2>2, <2>4, <2>6, <2>7, OneMore DEF CInv
  <2>9. faults' = 0 => Cells'
    <3> SUFFICES ASSUME faults' = 0, NEW q \in Ranks
                 PROVE  Len(handles'[q]) = IF step'[q] \in {"xfer", "close"} THEN 1 ELSE 0
      BY DEF Cells
    <3>1. Len(handles[q]) = IF step[q] \in {"xfer", "close"} THEN 1 ELSE 0
      BY <1>5, <2>4 DEF Cells
    <3>2. CASE q = r
      <4>1. handles'[r] = Append(handles[r], path) /\ handles[r] \in Seq(Names)
        BY <1>1, <2>2, <2>4
      <4>2. path \in Names
        BY <1>1, ItemType
      <4> HIDE DEF path
      <4>3. Len(handles'[r]) = 1
        BY <1>2, <3>1, <3>2, <4>1, <4>2
      <4>4. QED
        BY <2>5, <3>2, <4>3
    <3>3. CASE q # r
      BY <1>1, <2>2, <3>1, <3>3, LoopFrame
    <3>4. QED
      BY <3>2, <3>3
  <2>10. faults' = 0 => files' = [p \in DOMAIN files' |-> files'[p]]
    BY <2>2, <2>4
  <2>11. UNCHANGED cmount /\ stage[r] # 7
    BY <1>2, <2>2
  <2>12. QED
    BY <1>1, <2>4, <2>8, <2>9, <2>10, <2>11, PopulationClean
<1>8. QED
  BY <1>6, <1>7

LEMMA RemoveClean ==
  ASSUME IInv, FInv, DInv, CInv, NEW r \in Ranks, RemoveDir(r) \/ RemoveFile(r)
  PROVE  CInv'
<1> DEFINE path == Item(r, 3, item[r])
<1>1. /\ LoopStep(r) /\ Types /\ faults \in Nat /\ Running(r) /\ UNCHANGED <<job, stage>>
      /\ item \in [Ranks -> Nat] /\ step \in [Ranks -> {"open", "xfer", "close", "synced"}]
      /\ job \in Jobs /\ item[r] \in Nat /\ job.items \in Nat
  BY LoopFrame, JobType DEF LoopStep, QuietStep, IInv, CInv, Types
<1>2. At(r, "clear", "open") /\ stage[r] = 5 /\ step[r] = "open" /\ item[r] < Rounds(r)
  BY <1>1, StageNumber DEF RemoveDir, RemoveFile, At
<1>3. faults = 0 => /\ item[r] \in ItemNumbers /\ (job.shared_file => r = 0)
                    /\ path \in Present
  BY <1>1, <1>2, StillThere DEF CInv
<1>4. faults = 0 => files = [p \in DOMAIN files |-> files[p]] /\ Cells
  BY DEF CInv, Clean, Books
<1>5. step'[r] = "open" /\ item'[r] = item[r] + 1
  <2>1. Then(r, "open")
    BY DEF RemoveDir, RemoveFile, NextItem
  <2>2. QED
    BY <1>1, <2>1 DEF Then
<1>6. faults = 0 => \A n \in ItemNumbers : HasRemoved(r, n)' <=> (HasRemoved(r, n) \/ n = item[r])
  BY <1>1, <1>2, <1>3, <1>5 DEF HasRemoved, ItemNumbers
<1>7. UNCHANGED <<handles, cmount>> /\ (faults = 0 => Cells')
  <2>1. UNCHANGED <<handles, cmount>>
    BY DEF RemoveDir, RemoveFile, CEPHFS_RmDir, CEPHFS_Delete
  <2>2. faults = 0 => Cells'
    BY <1>1, <1>2, <1>4, <1>5, <2>1, CellsKept
  <2>3. QED
    BY <2>1, <2>2
<1>8. CASE RemoveDir(r)
  <2>1. job.kind = "dir"
    BY <1>8 DEF RemoveDir
  <2> DEFINE natural == IF path \notin dirs THEN -ENOENT ELSE IF FALSE THEN -ENOTEMPTY ELSE 0
  <2>2. PICK ret : /\ Returns(natural, ret) /\ FailOnMinusOne(ret)
                   /\ dirs' = IF ret = 0 THEN dirs \ {path} ELSE dirs
                   /\ UNCHANGED files
    BY <1>8 DEF RemoveDir, CEPHFS_RmDir
  <2>3. faults = 0 => natural = 0
    BY <1>3, <2>1 DEF Present
  <2> HIDE DEF natural
  <2>4. faults' \in Nat /\ (faults' = 0 => faults = 0 /\ ret = 0 /\ ~aborted')
    <3>1. faults' \in Nat /\ (faults' = 0 => faults = 0 /\ ret = natural)
      BY <1>1, <2>2, NoFault
    <3>2. QED
      BY <2>2, <2>3, <3>1, NoAbort
  <2>5. faults' = 0 => dirs' = dirs \ {path} /\ Present' = Present \ {path}
    BY <1>1, <2>1, <2>2, <2>4 DEF Present
  <2>6. faults' = 0 => Population'
    BY <1>1, <1>2, <1>3, <1>6, <2>1, <2>4, <2>5, OneLess DEF CInv
  <2>7. stage[r] # 7
    BY <1>2
  <2>8. QED
    BY <1>1, <1>4, <1>7, <2>2, <2>4, <2>6, <2>7, PopulationClean
<1>9. CASE RemoveFile(r)
  <2>1. job.kind = "file"
    BY <1>9 DEF RemoveFile
  <2> DEFINE natural == IF path \in DOMAIN files THEN 0 ELSE -ENOENT
  <2>2. PICK ret \in {0, -EPERM, -EIO, -ENOENT} :
          /\ Returns(natural, ret) /\ Err(ret)
          /\ files' = IF ret = 0 THEN [p \in DOMAIN files \ {path} |-> files[p]] ELSE files
          /\ UNCHANGED dirs
    BY <1>9 DEF RemoveFile, CEPHFS_Delete
  <2>3. faults = 0 => natural = 0
    BY <1>3, <2>1 DEF Present
  <2> HIDE DEF natural
  <2>4. faults' \in Nat /\ (faults' = 0 => faults = 0 /\ ret = 0 /\ ~aborted')
    <3>1. faults' \in Nat /\ (faults' = 0 => faults = 0 /\ ret = natural)
      BY <1>1, <2>2, NoFault
    <3>2. QED
      BY <2>2, <2>3, <3>1, NoAbort
  <2>5. faults' = 0 => Present' = Present \ {path}
    BY <1>1, <2>1, <2>2, <2>4 DEF Present
  <2>6. faults' = 0 => Population'
    BY <1>1, <1>2, <1>3, <1>6, <2>1, <2>2, <2>4, <2>5, OneLess DEF CInv
  <2>7. stage[r] # 7 /\ (faults' = 0 => files' = [p \in DOMAIN files' |-> files'[p]])
    BY <1>2, <2>2, <2>4
  <2>8. QED
    BY <1>1, <1>7, <2>4, <2>6, <2>7, PopulationClean
<1>10. QED
  BY <1>8, <1>9

\* The top directory comes before all items and goes after them.
LEMMA TreeClean ==
  ASSUME IInv, FInv, DInv, CInv, NEW r \in Ranks, MakeTree(r) \/ RemoveTree(r)
  PROVE  CInv'
<1>1. /\ LoopStep(r) /\ Types /\ faults \in Nat /\ Running(r) /\ ~aborted
      /\ UNCHANGED <<job, stage, aborted, handles, files, cmount>>
      /\ item \in [Ranks -> Nat] /\ step \in [Ranks -> {"open", "xfer", "close", "synced"}]
      /\ job \in Jobs
  <2>1. /\ LoopStep(r) /\ Types /\ faults \in Nat
    BY DEF LoopStep, QuietStep, IInv, CInv
  <2>2. UNCHANGED <<aborted, handles, files, cmount>>
    BY DEF MakeTree, RemoveTree, CEPHFS_MkDir, CEPHFS_RmDir
  <2>3. QED
    BY <2>1, <2>2, LoopFrame DEF Types, Running
<1>2. PICK name \in {"tree", "untree"} : At(r, name, "open") /\ Then(r, "open")
  BY DEF MakeTree, RemoveTree, NextItem
<1>3. step[r] = "open" /\ step'[r] = "open" /\ item'[r] = item[r] + 1 /\ item[r] < Rounds(r)
      /\ stage[r] \in {2, 6}
  BY <1>1, <1>2, StageNumber DEF Then, At
<1>4. r = 0 /\ item[r] = 0
  BY <1>1, <1>3, RoundNumbers
<1>5. faults = 0 => /\ Clean /\ Population /\ Cells'
                    /\ files' = [p \in DOMAIN files' |-> files'[p]]
  BY <1>1, <1>3, CellsKept DEF CInv, Clean, Books
<1>6. /\ ItemNumbers' = ItemNumbers /\ \A q, k, n : Item(q, k, n)' = Item(q, k, n)
      /\ \A q, k, n : Item(q, k, n) # Top
      /\ \A q \in Ranks, n \in ItemNumbers : /\ HasMade(q, n)' <=> HasMade(q, n)
                                             /\ HasRemoved(q, n)' <=> HasRemoved(q, n)
  BY <1>1, <1>3, ItemNotTop, OwnProgress DEF ItemNumbers, Item, Owner
<1>7. ASSUME faults = 0, dirs' = dirs \cup {Top} \/ dirs' = dirs \ {Top},
             Top \in dirs' <=> TopMade' /\ ~TopGone'
      PROVE  Population'
  <2>1. Population /\ \A p : p # Top => (p \in dirs' <=> p \in dirs)
    BY <1>5, <1>7
  <2>2. \A q \in Ranks, k \in {0, 3}, n \in ItemNumbers :
           Item(q, k, n)' \in Present' <=> Item(q, k, n) \in Present
    BY <1>1, <1>6, <2>1 DEF Present
  <2>3. There'
    BY <1>6, <2>1, <2>2 DEF Population, There
  <2>4. Gone'
    BY <1>6, <2>1, <2>2 DEF Population, Gone
  <2>5. Fresh' /\ Placed'
    BY <1>1, <1>6, <2>1 DEF Population, Fresh, Placed
  <2>6. Tops'
    BY <1>1, <1>7, <2>1, ItemNotTop DEF Population, Tops
  <2>7. QED
    BY <2>3, <2>4, <2>5, <2>6 DEF Population
<1>8. CASE MakeTree(r)
  <2>1. stage[r] = 2
    BY <1>1, <1>8, StageNumber DEF MakeTree
  <2> DEFINE natural == IF Top \in dirs THEN -EEXIST ELSE IF Root \notin dirs THEN -ENOENT ELSE 0
  <2>2. PICK ret : /\ Returns(natural, ret) /\ dirs' = IF ret = 0 THEN dirs \cup {Top} ELSE dirs
    BY <1>8 DEF MakeTree, CEPHFS_MkDir
  <2>3. ~TopMade /\ ~TopGone /\ TopMade' /\ ~TopGone'
    BY <1>1, <1>3, <1>4, <2>1 DEF TopMade, TopGone
  <2>4. faults = 0 => natural = 0
    BY <1>5, <2>3 DEF Population, Tops
  <2> HIDE DEF natural
  <2>5. faults' \in Nat /\ (faults' = 0 => faults = 0 /\ ret = 0)
    BY <1>1, <2>2, <2>4, NoFault
  <2>6. faults' = 0 => Population'
    BY <1>7, <2>2, <2>3, <2>5
  <2>7. stage[r] # 7 /\ UNCHANGED cmount /\ ~aborted'
    BY <1>1, <2>1
  <2>8. QED
    BY <1>1, <1>5, <2>5, <2>6, <2>7, PopulationClean
<1>9. CASE RemoveTree(r)
  <2>1. stage[r] = 6
    BY <1>1, <1>9, StageNumber DEF RemoveTree
  <2> DEFINE holds == files # <<>> \/ dirs \ {Root, Top} # {}
             natural == IF Top \notin dirs THEN -ENOENT ELSE IF holds THEN -ENOTEMPTY ELSE 0
  <2>2. PICK ret : /\ Returns(natural, ret) /\ dirs' = IF ret = 0 THEN dirs \ {Top} ELSE dirs
    BY <1>9 DEF RemoveTree, CEPHFS_RmDir
  <2>3. TopMade /\ ~TopGone /\ TopGone'
    BY <1>1, <1>3, <1>4, <2>1 DEF TopMade, TopGone
  <2>4. faults = 0 => ~holds
    <3>1. \A q \in Ranks, n \in ItemNumbers : (job.shared_file => q = 0) => HasRemoved(q, n)
      BY <1>1, <2>1, SoFar
    <3>2. faults = 0 => files = <<>> /\ dirs \subseteq {Root, Top}
      BY <1>5, <3>1, NothingLeft
    <3>3. QED
      BY <3>2
  <2>5. faults = 0 => natural = 0
    BY <1>5, <2>3, <2>4 DEF Population, Tops
  <2> HIDE DEF natural, holds
  <2>6. faults' \in Nat /\ (faults' = 0 => faults = 0 /\ ret = 0)
    BY <1>1, <2>2, <2>5, NoFault
  <2>7. faults' = 0 => Population'
    BY <1>7, <2>2, <2>3, <2>6
  <2>8. stage[r] # 7 /\ UNCHANGED cmount /\ ~aborted'
    BY <1>1, <2>1
  <2>9. QED
    BY <1>1, <1>5, <2>6, <2>7, <2>8, PopulationClean
<1>10. QED
  BY <1>8, <1>9

LEMMA BarrierClean ==
  ASSUME IInv, FInv, CInv, NEW r \in Ranks, EnterBarrier(r) \/ LeaveBarrier(r)
  PROVE  CInv'
<1>1. UNCHANGED <<job, cmount, handles, files, dirs, faults, aborted>>
  BY DEF EnterBarrier, LeaveBarrier, backend
<1>2. SameProgress /\ \A q \in Ranks : HasFinished(q)' <=> HasFinished(q)
  BY BarrierProgress
<1>3. ASSUME Clean
      PROVE  Cells'
  <2> SUFFICES ASSUME NEW q \in Ranks
               PROVE  Len(handles[q]) = IF step'[q] \in {"xfer", "close"} THEN 1 ELSE 0
    BY <1>1 DEF Cells
  <2>1. Len(handles[q]) = IF step[q] \in {"xfer", "close"} THEN 1 ELSE 0
    BY <1>3 DEF Clean, Books, Cells
  <2>2. CASE EnterBarrier(r) \/ q # r
    BY <2>1, <2>2 DEF EnterBarrier, LeaveBarrier, IInv, Types
  <2>3. CASE LeaveBarrier(r) /\ q = r
    <3>1. waiting[r] /\ step'[r] = "open"
      BY <2>3 DEF LeaveBarrier, IInv, Types
    <3>2. step[r] \notin {"xfer", "close"}
      BY <1>3, <3>1 DEF Clean, IInv, Held, HoldsItem
    <3>3. QED
      BY <2>1, <2>3, <3>1, <3>2
  <2>4. QED
    BY <2>2, <2>3
<1>4. ASSUME Clean
      PROVE  Mounts'
  BY <1>1, <1>2, <1>4 DEF Clean, Books, Mounts
<1>5. faults \in Nat /\ (faults = 0 => Clean)
  BY DEF CInv
<1>6. faults' \in Nat /\ (faults' = 0 => Unfailed)
  BY <1>1, <1>3, <1>4, <1>5 DEF Unfailed, Clean, Books
<1>7. QED
  BY <1>2, <1>6, QuietClean

LEMMA DamageClean ==
  ASSUME CInv, NEW path, NEW i, Damage(path, i)
  PROVE  CInv'
<1>1. /\ UNCHANGED <<job, stage, item, step, cmount, handles, dirs, faults, aborted>>
      /\ DOMAIN files' = DOMAIN files /\ files' = [p \in DOMAIN files' |-> files'[p]]
  BY ZenonT(30) DEF Damage, progress
<1>2. SameProgress
  BY <1>1 DEF SameProgress, HasMade, HasRemoved, TopMade, TopGone
<1>3. faults' \in Nat /\ (faults' = 0 => Unfailed)
  BY <1>1 DEF Unfailed, CInv, Clean, Books, Cells, Mounts, HasFinished
<1>4. QED
  BY <1>2, <1>3, QuietClean

LEMMA CInvStep == IInv /\ FInv /\ DInv /\ CInv /\ [Next]_vars => CInv'
<1> SUFFICES ASSUME IInv, FInv, DInv, CInv, [Next]_vars
             PROVE  CInv'
  OBVIOUS
<1>1. ASSUME NEW r \in Ranks, RankStep(r)
      PROVE  CInv'
  BY <1>1, CallClean, TransferClean, MakeClean, RemoveClean, TreeClean, BarrierClean DEF RankStep
<1>2. CASE UNCHANGED vars
  BY <1>2 DEF vars, backend, progress, CInv, Clean, Population, Books, There, Gone, Fresh, Placed,
     Tops, Cells, Mounts, HasMade, HasRemoved, TopMade, TopGone, HasFinished, Present,
     ItemNumbers, Item, Owner
<1>3. CASE Stop
  BY <1>2, <1>3 DEF Stop
<1>4. QED
  BY <1>1, <1>2, <1>3, DamageClean DEF Next

LEMMA InitCInv == Init => CInv
<1> SUFFICES ASSUME Init
             PROVE  CInv
  OBVIOUS
<1>1. /\ \A r \in Ranks : stage[r] = 1 /\ step[r] = "open" /\ Len(handles[r]) = 0
      /\ files = [p \in {} |-> <<>>] /\ dirs = {Root} /\ DOMAIN cmount = Ranks
      /\ faults = 0 /\ ~aborted /\ job \in Jobs
  BY DEF Init, BackendInit
<1>2. /\ \A r \in Ranks : \A n : ~HasMade(r, n) /\ ~HasRemoved(r, n) /\ ~HasFinished(r)
      /\ ~TopMade /\ ~TopGone
  BY <1>1, ZeroIsARank DEF HasMade, HasRemoved, HasFinished, TopMade, TopGone
<1>3. There /\ Gone /\ Placed /\ Tops
  BY <1>1, <1>2, ItemNotTop DEF There, Gone, Placed, Tops
<1>4. Fresh
  BY <1>1, ItemNotTop DEF Fresh
<1>5. Books
  BY <1>1, <1>2 DEF Books, Cells, Mounts
<1>6. QED
  BY <1>1, <1>3, <1>4, <1>5 DEF CInv, Clean, Population

LEMMA AllInvariants == Spec => [](IInv /\ FInv /\ DInv /\ CInv)
<1>1. Init => IInv /\ FInv /\ DInv /\ CInv
  <2>1. Init => Waited /\ Made
    BY DEF Init, Waited, Made, DoneWith
  <2>2. Init => DInv
    BY DEF Init, BackendInit, DInv, Known, Kept, Altered, AllRead
  <2>3. QED
    BY <2>1, <2>2, InitIInv, InitCInv DEF FInv
<1>2. (IInv /\ FInv /\ DInv /\ CInv) /\ [Next]_vars => (IInv /\ FInv /\ DInv /\ CInv)'
  BY NextIInv, FInvStep, DInvStep, CInvStep
<1>3. QED
  BY <1>1, <1>2, PTL DEF Spec

\* When every call of the backend succeeds, no job aborts, whatever the barriers let the
\* ranks interleave; and when all ranks have finished, their items, the top directory and
\* the descriptors are gone and the clients are shut down.
THEOREM JobsEndClean == Spec => []CleanWithoutFaults
<1>1. IInv /\ FInv /\ DInv /\ CInv => CleanWithoutFaults
  <2> SUFFICES ASSUME IInv, DInv, Clean, \A r \in Ranks : Finished(r)
               PROVE  /\ files = <<>> /\ dirs = {Root}
                      /\ \A r \in Ranks : handles[r] = <<>> /\ cmount[r] = "shut"
    BY DEF CInv, CleanWithoutFaults, Clean
  <2>1. \A r \in Ranks : stage[r] > 7
    BY StageNames DEF Finished
  <2>2. \A r \in Ranks : stage[r] = 8
    <3>1. stage \in [Ranks -> 1 .. 8]
      BY DEF IInv, Types
    <3>2. QED
      BY <2>1, <3>1
  <2>3. TopGone /\ \A q \in Ranks : \A n : (job.shared_file => q = 0) => HasRemoved(q, n)
    BY <2>2, ZeroIsARank DEF TopGone, HasRemoved
  <2>4. files = <<>> /\ dirs \subseteq {Root, Top}
    BY <2>3, NothingLeft
  <2>5. dirs = {Root}
    BY <2>3, <2>4 DEF Clean, Population, Tops
  <2>6. ASSUME NEW r \in Ranks
        PROVE  handles[r] = <<>> /\ cmount[r] = "shut"
    <3>1. step[r] \notin {"xfer", "close"}
      BY <2>2 DEF Clean, IInv, Held, HoldsItem
    <3>2. Len(handles[r]) = 0 /\ handles[r] \in Seq(Names)
      BY <3>1 DEF Clean, Books, Cells, IInv, Types
    <3>3. cmount[r] = "shut"
      BY <2>2 DEF Clean, Books, Mounts, HasFinished
    <3>4. QED
      BY <3>2, <3>3
  <2>7. QED
    BY <2>4, <2>5, <2>6
<1>2. QED
  BY AllInvariants, <1>1, PTL
=============================================================================
