---------------------------- MODULE MCDCPCheckpoint ----------------------------
(***************************************************************************)
(* A job that saves a distributed checkpoint, with two ranks (DCPSave), or *)
(* one that loads some (DCPLoad): two storage readers, each with a reader  *)
(* constructor of its own or both with the same one.  Its plans: no item;  *)
(* two files, in another order than their offsets, with a gap that is      *)
(* coalesced; one file with gaps that split it; and two items that are     *)
(* parts of one stored tensor, as resharding makes them.                   *)
(***************************************************************************)
EXTENDS DCPSave

CONSTANTS
  Jobs,                                                  \* "save", "load"
  r1, r2,
  Loads, Constructors, Uses, Plans, Gap, MaxLoads, MaxFaults  \* of DCPLoad

VARIABLES
  job,                              \* one of Jobs
  uses, con, load, begun, faults    \* of DCPLoad

Load == INSTANCE DCPLoad

ASSUME LoadAssumption == Load!LoadAssumption

loadVars == <<uses, con, load, begun, faults>>
allVars == <<job, vars, loadVars>>

MCRanks == {r1, r2}
MCUses == {<<1, 1>>, <<1, 2>>}

Part(f, s, e) == [file |-> f, start |-> s, end |-> e]
MCPlans ==
  { <<>>,
    <<Part(1, 3, 5), Part(2, 0, 1), Part(1, 0, 2)>>,
    <<Part(1, 4, 6), Part(1, 0, 1)>>,
    <<Part(1, 0, 2), Part(1, 0, 2)>> }

(* A job that saves has no storage readers, and the other way round.       *)
MCInit ==
  /\ job \in Jobs /\ Init
  /\ \/ job = "load" /\ Load!Init
     \/ job = "save" /\ uses = <<>> /\ con = <<>> /\ load = <<>> /\ begun = 0 /\ faults = 0

MCNext ==
  \/ job = "save" /\ Next /\ UNCHANGED <<job, loadVars>>
  \/ job = "load" /\ Load!Next /\ UNCHANGED <<job, vars>>

Saves(A) == job = "save" /\ A /\ UNCHANGED <<job, loadVars>>
Reads(l) == job = "load" /\ Load!Read(l) /\ UNCHANGED <<job, vars>>

(* The fairness of DCPSave and of DCPLoad. *)
MCSpec ==
  /\ MCInit /\ [][MCNext]_allVars
  /\ WF_allVars(Saves(Commit)) /\ \A r \in Ranks : WF_allVars(Saves(Write(r)))
  /\ \A l \in Loads : WF_allVars(Reads(l))
-----------------------------------------------------------------------------
(* What DCPLoad promises, of a job that loads.                             *)
PlansLoad == job = "load" => Load!PlansLoad
ProgressIsExact == job = "load" => Load!ProgressIsExact
NoBarForgotten == job = "load" => Load!NoBarForgotten
OpenByOwnPlan == job = "load" => Load!OpenByOwnPlan

(* Every save ends, and every read_data comes back: no failure is retried  *)
(* for ever, no rejected read tried again.                                 *)
JobEnds == SaveEnds /\ \A l \in Loads :
  (job = "load" /\ load[l].pc = "reading") ~> (job = "load" /\ load[l].pc # "reading")
=============================================================================
