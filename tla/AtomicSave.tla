------------------------------ MODULE AtomicSave ------------------------------
(***************************************************************************)
(* What saving a checkpoint to a new path promises: the path holds no      *)
(* checkpoint until, in one step of some save, it holds that one, entire   *)
(* and for good.  A save that returns has stored its checkpoint; one that  *)
(* fails may have.                                                         *)
(***************************************************************************)
EXTENDS Integers

CONSTANT MaxSaves  \* bound on the saves to the path

VARIABLES
  saves,   \* the number of saves begun
  outcome, \* of the latest one: "none", "running", "saved" or "failed"
  latest,  \* the save whose checkpoint the path holds; 0 when it holds none
  void     \* does the promise not hold any more

vars == <<saves, outcome, latest, void>>

Init == saves = 0 /\ outcome = "none" /\ latest = 0 /\ void = FALSE

Begin ==
  /\ outcome \in {"none", "failed"} /\ latest = 0 /\ saves < MaxSaves
  /\ saves' = saves + 1 /\ outcome' = "running" /\ latest' = latest

Commit ==
  /\ outcome = "running" /\ latest = 0
  /\ latest' = saves
  /\ UNCHANGED <<saves, outcome>>

Return ==
  /\ outcome = "running" /\ latest = saves
  /\ outcome' = "saved"
  /\ UNCHANGED <<saves, latest>>

(* The copy of the metadata may be done although its answer is an error:   *)
(* the step that fails the save may be the one that commits it.            *)
Fail ==
  /\ outcome = "running" /\ outcome' = "failed"
  /\ latest' = latest \/ (latest = 0 /\ latest' = saves)
  /\ saves' = saves

Forfeit == void' = TRUE

Next == (void' = FALSE /\ (Begin \/ Commit \/ Return \/ Fail)) \/ Forfeit

Spec == Init /\ [][Next]_vars
=============================================================================
