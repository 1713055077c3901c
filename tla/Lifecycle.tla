----------------------------- MODULE Lifecycle ------------------------------
(***************************************************************************)
(* What a benchmark job promises about the items of one kind, whatever the *)
(* number of ranks and however they interleave: the population is built up *)
(* from nothing to exactly what was asked for, is left alone while it is   *)
(* being used, and is taken down to nothing again.  A rate reported for a  *)
(* phase is the rate of that phase only because of this order.             *)
(***************************************************************************)
VARIABLES
  asked,     \* the items the job is to work on
  present,   \* the items that exist
  phase      \* "idle", "build", "use" or "clear"

vars == <<asked, present, phase>>

Init ==
  /\ present = {}
  /\ phase = "idle"

\* Between two rounds something else may be asked for.
Ask ==
  /\ phase = "idle"
  /\ present = {}
  /\ UNCHANGED <<present, phase>>

StartBuild ==
  /\ phase = "idle"
  /\ phase' = "build"
  /\ present = {}
  /\ UNCHANGED <<asked, present>>

Add ==
  /\ phase = "build"
  /\ \E item \in asked : present' = present \cup {item}
  /\ UNCHANGED <<asked, phase>>

\* The items may be used as soon as, and not before, all of them are there.
StartUse ==
  /\ phase = "build"
  /\ present = asked
  /\ phase' = "use"
  /\ UNCHANGED <<asked, present>>

StartClear ==
  /\ phase = "use"
  /\ phase' = "clear"
  /\ UNCHANGED <<asked, present>>

Drop ==
  /\ phase = "clear"
  /\ \E item \in present : present' = present \ {item}
  /\ UNCHANGED <<asked, phase>>

Finish ==
  /\ phase = "clear"
  /\ present = {}
  /\ phase' = "idle"
  /\ UNCHANGED <<asked, present>>

Next == Ask \/ StartBuild \/ Add \/ StartUse \/ StartClear \/ Drop \/ Finish

Spec == Init /\ [][Next]_vars
=============================================================================
