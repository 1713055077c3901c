----------------------------- MODULE MdtestTree -----------------------------
(***************************************************************************)
(* The directory tree of mdtest and the two ways the program names a place *)
(* in it.  Creation and removal walk the tree top down and build paths as  *)
(* they descend; stat and read start from an item number and rebuild the   *)
(* path bottom up.  Directories are numbered level by level: 0 is the      *)
(* tree's root and the children of d are b*d+1 .. b*d+b.                   *)
(*                                                                         *)
(* A place in the tree is the sequence of directory numbers below the      *)
(* root, so the root itself is the empty sequence.                         *)
(***************************************************************************)
EXTENDS MdtestOptions, Sequences, SequencesExt

\* dir \o p for every p of a sequence of relative places.
Below(dir, places) == [i \in DOMAIN places |-> <<dir>> \o places[i]]

\* The loop of create_remove_items and create_remove_directory_tree over the
\* branches first .. first+b-1 with h levels left to visit: each directory comes
\* before (top down) or after (bottom up) the directories below it.
TopDown(o) ==
  LET walk[h \in 0 .. o.depth] ==
        [first \in Nat |->
           IF h = 0 THEN <<>>
           ELSE FlattenSeq([i \in 1 .. o.branch_factor |->
                  LET dir == first + i - 1
                  IN  << <<dir>> >>
                      \o Below(dir, walk[h - 1][o.branch_factor * dir + 1])])]
  IN  walk[o.depth][1]

BottomUp(o) ==
  LET walk[h \in 0 .. o.depth] ==
        [first \in Nat |->
           IF h = 0 THEN <<>>
           ELSE FlattenSeq([i \in 1 .. o.branch_factor |->
                  LET dir == first + i - 1
                  IN  Below(dir, walk[h - 1][o.branch_factor * dir + 1])
                      \o << <<dir>> >>])]
  IN  walk[o.depth][1]

\* The number create_remove_items and mdtest_stat give the directory at a place.
DirNumber(place) == IF place = <<>> THEN 0 ELSE Last(place)

\* The places where create_remove_items works on items, in its order: every
\* directory, or with -L the deepest level only.
ItemPlaces(o) ==
  LET all == << <<>> >> \o TopDown(o)
  IN  FlattenSeq([k \in DOMAIN all |->
        IF o.leaf_only /\ Len(all[k]) # o.depth THEN <<>> ELSE <<all[k]>>])

\* create_remove_items_helper: one directory's items, numbered from dir * -I.
ItemNumbers(o, place) ==
  [i \in 1 .. o.items_per_dir |-> DirNumber(place) * o.items_per_dir + i - 1]

\* All the <<place, item number>> pairs of create_remove_items, in order.
WalkedItems(o) ==
  FlattenSeq([k \in 1 .. Len(ItemPlaces(o)) |->
    LET place == ItemPlaces(o)[k]
    IN  [i \in 1 .. o.items_per_dir |-> <<place, ItemNumbers(o, place)[i]>>]])

-----------------------------------------------------------------------------
\* Mutant: the parent of d taken as (d - 2) / b.
RebuiltOffByOne(o, dir) ==
  LET up[d \in 0 .. dir] ==
        IF d = 0 THEN <<>>
        ELSE IF d <= o.branch_factor THEN <<d>>
        ELSE Append(up[(d - 2) \div o.branch_factor], d)
  IN  up[dir]

\* The path rebuilt from a directory number: follow (d - 1) / b to the root.
Rebuilt(o, dir) ==
  LET up[d \in 0 .. dir] ==
        IF d = 0 THEN <<>>
        ELSE IF d <= o.branch_factor THEN <<d>>
        ELSE Append(up[(d - 1) \div o.branch_factor], d)
  IN  up[dir]

\* With -L the i-th item is counted from the first directory of the last level.
LeafOffset(o) ==
  IF o.leaf_only THEN o.items_per_dir * (NumDirs(o) - NumLeaves(o)) ELSE 0

\* Mutant: the last item is never looked up.
StopItemsShort(o, items) ==
  IF o.directory_loops # 1 THEN o.items_per_dir ELSE items - 1

\* mdtest_stat and mdtest_read stop after one directory's items when the tests
\* are repeated by directory_loops, and after o.items otherwise; `items` is the
\* current value of o.items.
StopItems(o, items) == IF o.directory_loops # 1 THEN o.items_per_dir ELSE items

\* All the <<place, item number>> pairs mdtest_stat and mdtest_read look up.
LookedUpItems(o, items) ==
  [i \in 1 .. StopItems(o, items) |->
    LET num == i - 1 + LeafOffset(o)
    IN  <<Rebuilt(o, num \div o.items_per_dir), num>>]
=============================================================================
