------------------------------- MODULE DCPSave -------------------------------
(***************************************************************************)
(* A distributed checkpoint saved through S3FileSystem                     *)
(* (dcp/s3_file_system.py).  Every rank writes its data file through       *)
(* create_stream; when all have, the coordinator writes .metadata.tmp,     *)
(* removes an existing .metadata and renames.  Who calls what in which     *)
(* order is torch's FileSystemWriter, external to the repository; what     *)
(* each call does to the bucket is the repository's.                       *)
(*                                                                         *)
(* Every request to S3 may fail, having taken effect or not.  A save that  *)
(* raised, and one killed at any point, may be made again to the same      *)
(* path.  An object is the save that wrote it and whether it is all there: *)
(* an S3Writer left by an exception is completed, partial, by its          *)
(* finalizer (S3Writer.tla), when nothing refers to it any more.           *)
(***************************************************************************)
EXTENDS Integers, FiniteSets

CONSTANTS
  Ranks,          \* the ranks that write a data file each
  MaxSaves,       \* bound on the saves to the path
  MaxAttempts     \* of a delete: stop_after_attempt

Meta == "metadata"
Tmp == "metadata_tmp"
Files == {Meta, Tmp} \cup Ranks

ASSUME RanksAssumption == Meta \notin Ranks /\ Tmp \notin Ranks
ASSUME BoundsAssumption == MaxSaves \in Nat /\ MaxAttempts \in Nat \ {0}

VARIABLES
  store,     \* per file: the object in S3, Absent or [save, whole]
  saves,     \* the number of saves begun
  outcome,   \* of the latest one: "none", "running", "saved" or "failed"
  rank,      \* per rank: its write_data, "start", "open", "written" or "raised"
  finish,    \* the coordinator's finish: where it is
  tries,     \* _delete_with_retry: the failed attempts
  abandoned, \* the writers left by an exception and not yet collected
  replaced,  \* history: a save began where a checkpoint was
  late       \* history: a save began while a writer of another was left

vars == <<store, saves, outcome, rank, finish, tries, abandoned, replaced, late>>
history == <<replaced, late>>

Absent == [save |-> 0, whole |-> FALSE]
Objects == [save : 0..MaxSaves, whole : BOOLEAN]
Upload(w) == [save |-> saves, whole |-> w]
Put(f, o) == store' = [store EXCEPT ![f] = o]

Init ==
  /\ store = [f \in Files |-> Absent]
  /\ saves = 0 /\ outcome = "none"
  /\ rank = [r \in Ranks |-> "start"]
  /\ finish = "wait" /\ tries = 0
  /\ abandoned = {} /\ replaced = FALSE /\ late = FALSE

-----------------------------------------------------------------------------
(* A save begins.  It overwrites a checkpoint if torch is told to.  When   *)
(* the exception of a failed save is not kept, nothing of it is left.      *)
Begin ==
  /\ outcome # "running" /\ saves < MaxSaves
  /\ replaced' = (replaced \/ store[Meta] # Absent)
  /\ late' = (late \/ abandoned # {})
  /\ saves' = saves + 1 /\ outcome' = "running"
  /\ rank' = [r \in Ranks |-> "start"]
  /\ finish' = "wait" /\ tries' = 0
  /\ UNCHANGED <<store, abandoned>>

(* create_stream(path, "wb"): put_object answers or raises.                *)
OpenData(r) ==
  /\ outcome = "running" /\ rank[r] = "start"
  /\ rank' = [rank EXCEPT ![r] = "open"]
  /\ UNCHANGED <<store, saves, outcome, finish, tries, abandoned, history>>

OpenDataFails(r) ==
  /\ outcome = "running" /\ rank[r] = "start"
  /\ rank' = [rank EXCEPT ![r] = "raised"]
  /\ UNCHANGED <<store, saves, outcome, finish, tries, abandoned, history>>

(* Faulty variant: the context manager swallows the exception.             *)
WriteDataFailsUnseen(r) ==
  /\ outcome = "running" /\ rank[r] = "open"
  /\ rank' = [rank EXCEPT ![r] = "written"]
  /\ abandoned' = abandoned \cup {[file |-> r, save |-> saves]}
  /\ UNCHANGED <<store, saves, outcome, finish, tries, history>>

(* The body raises: the writer is left open.                               *)
WriteDataFails(r) ==
  /\ outcome = "running" /\ rank[r] = "open"
  /\ rank' = [rank EXCEPT ![r] = "raised"]
  /\ abandoned' = abandoned \cup {[file |-> r, save |-> saves]}
  /\ UNCHANGED <<store, saves, outcome, finish, tries, history>>

(* The with statement closes the writer: the object is complete, or the    *)
(* close raises, with or without it.                                       *)
CloseData(r) ==
  /\ outcome = "running" /\ rank[r] = "open"
  /\ rank' = [rank EXCEPT ![r] = "written"]
  /\ Put(r, Upload(TRUE))
  /\ UNCHANGED <<saves, outcome, finish, tries, abandoned, history>>

(* Faulty variant: the failure of the close is not raised.                 *)
CloseDataFailsUnseen(r) ==
  /\ outcome = "running" /\ rank[r] = "open"
  /\ rank' = [rank EXCEPT ![r] = "written"]
  /\ Put(r, Upload(TRUE)) \/ store' = store
  /\ UNCHANGED <<saves, outcome, finish, tries, abandoned, history>>

CloseDataFails(r) ==
  /\ outcome = "running" /\ rank[r] = "open"
  /\ rank' = [rank EXCEPT ![r] = "raised"]
  /\ Put(r, Upload(TRUE)) \/ store' = store
  /\ UNCHANGED <<saves, outcome, finish, tries, abandoned, history>>

(* IOBase.__del__ closes an abandoned writer: what it was given is stored  *)
(* as the object, or the upload fails silently.                            *)
Finalize(a) ==
  /\ a \in abandoned /\ abandoned' = abandoned \ {a}
  /\ Put(a.file, [save |-> a.save, whole |-> FALSE]) \/ store' = store
  /\ UNCHANGED <<saves, outcome, rank, finish, tries, history>>

-----------------------------------------------------------------------------
At(l) == outcome = "running" /\ finish = l
Goto(l) == finish' = l /\ outcome' = outcome
Raise == finish' = finish /\ outcome' = "failed"

(* All ranks are done; a single one that raised makes the save raise.      *)
Gather ==
  /\ At("wait")
  /\ \A r \in Ranks : rank[r] \in {"written", "raised"}
  /\ IF \A r \in Ranks : rank[r] = "written"
     THEN Goto("open")
     ELSE Raise
  /\ UNCHANGED <<store, saves, rank, tries, abandoned, history>>

(* .metadata.tmp is written like the data.                                 *)
OpenTmp ==
  /\ At("open") /\ (Goto("write") \/ Raise)
  /\ UNCHANGED <<store, saves, rank, tries, abandoned, history>>

WriteTmpFails ==
  /\ At("write") /\ Raise
  /\ abandoned' = abandoned \cup {[file |-> Tmp, save |-> saves]}
  /\ UNCHANGED <<store, saves, rank, tries, history>>

CloseTmp ==
  /\ At("write")
  /\ \/ Put(Tmp, Upload(TRUE)) /\ (Goto("exists") \/ Raise)
     \/ store' = store /\ Raise
  /\ UNCHANGED <<saves, rank, tries, abandoned, history>>

(* exists: head_object finds it, finds it missing, or fails and raises.    *)
Exists ==
  /\ At("exists")
  /\ \/ store[Meta] # Absent /\ Goto("rm")
     \/ store[Meta] = Absent /\ Goto("copy")
     \/ Raise
  /\ UNCHANGED <<store, saves, rank, tries, abandoned, history>>

(* rm_file: a failure is logged and forgotten.                             *)
RmFile ==
  /\ At("rm") /\ Goto("copy")
  /\ Put(Meta, Absent) \/ store' = store
  /\ UNCHANGED <<saves, rank, tries, abandoned, history>>

(* Faulty variant: rename goes on to delete after a copy that failed.      *)
CopyFailsUnseen ==
  /\ At("copy") /\ Goto("delete")
  /\ Put(Meta, store[Tmp]) \/ store' = store
  /\ UNCHANGED <<saves, rank, tries, abandoned, history>>

(* rename: copy_object, ...                                                *)
Copy ==
  /\ At("copy")
  /\ \/ Put(Meta, store[Tmp]) /\ (Goto("delete") \/ Raise)
     \/ store' = store /\ Raise
  /\ UNCHANGED <<saves, rank, tries, abandoned, history>>

(* ... then _delete_with_retry.  Deleting what is gone succeeds.           *)
Delete ==
  /\ At("delete")
  /\ Put(Tmp, Absent)
  /\ finish' = "end" /\ outcome' = "saved"
  /\ UNCHANGED <<saves, rank, tries, abandoned, history>>

(* Faulty variant: retried for ever.                                       *)
DeleteFailsForever ==
  /\ At("delete") /\ Goto("delete")
  /\ Put(Tmp, Absent) \/ store' = store
  /\ tries' = (tries + 1) % MaxAttempts
  /\ UNCHANGED <<saves, rank, abandoned, history>>

(* An attempt fails; the last one makes rename raise.                      *)
DeleteFails ==
  /\ At("delete")
  /\ Put(Tmp, Absent) \/ store' = store
  /\ tries' = tries + 1
  /\ IF tries' = MaxAttempts THEN Raise ELSE Goto("delete")
  /\ UNCHANGED <<saves, rank, abandoned, history>>

(* The processes of the job are killed.  What they left open is no object: *)
(* only complete uploads are.                                              *)
Crash ==
  /\ outcome = "running" /\ Raise
  /\ abandoned' = {}
  /\ UNCHANGED <<store, saves, rank, tries, history>>

Write(r) == OpenData(r) \/ OpenDataFails(r) \/ WriteDataFails(r) \/ CloseData(r) \/ CloseDataFails(r)
Commit == Gather \/ OpenTmp \/ WriteTmpFails \/ CloseTmp \/ Exists \/ RmFile \/ Copy \/ Delete \/ DeleteFails

Next ==
  \/ Begin \/ Commit \/ Crash
  \/ \E r \in Ranks : Write(r)
  \/ \E a \in abandoned : Finalize(a)

Spec == Init /\ [][Next]_vars

(* Every request is answered or times out: no thread of the save stops.    *)
Fairness == WF_vars(Commit) /\ \A r \in Ranks : WF_vars(Write(r))
FairSpec == Spec /\ Fairness
-----------------------------------------------------------------------------
TypeOK ==
  /\ store \in [Files -> Objects]
  /\ saves \in 0..MaxSaves
  /\ outcome \in {"none", "running", "saved", "failed"}
  /\ rank \in [Ranks -> {"start", "open", "written", "raised"}]
  /\ finish \in {"wait", "open", "write", "exists", "rm", "copy", "delete", "end"}
  /\ tries \in 0..MaxAttempts
  /\ abandoned \subseteq [file : Files, save : 0..MaxSaves]
  /\ replaced \in BOOLEAN /\ late \in BOOLEAN

Whole(f, n) == store[f] = [save |-> n, whole |-> TRUE]

(* A save that returned can be loaded, also one that replaces another and  *)
(* whose rm_file failed: .metadata and every data file are its own, whole. *)
SavedIsWhole ==
  outcome = "saved" => \A f \in Ranks \cup {Meta} : Whole(f, saves)

(* The same if no save began while a writer of a failed one was left.      *)
SavedIsLoadable == late \/ SavedIsWhole

(* rename is a copy and a delete: from the time .metadata.tmp is written,  *)
(* and as long after the save failed as no other one begins, the metadata  *)
(* is whole at the old path or at the new one.                             *)
RenameKeepsTheObject ==
  ~late /\ finish \in {"exists", "rm", "copy", "delete"} =>
    Whole(Tmp, saves) \/ Whole(Meta, saves)

(* Every save ends: no failure is retried for ever.                        *)
SaveEnds == \A n \in 1..MaxSaves :
  (saves = n /\ outcome = "running") ~> (outcome # "running")

-----------------------------------------------------------------------------
(* What a load from the path would get: nothing without .metadata, and     *)
(* with it the save it belongs to, or something torn.                      *)
Torn == -1
Latest ==
  IF store[Meta] = Absent THEN 0
  ELSE IF \A f \in Ranks \cup {Meta} : Whole(f, store[Meta].save) THEN store[Meta].save
  ELSE Torn

(* Saving to a path without overwriting is atomic (AtomicSave).            *)
Atomic == INSTANCE AtomicSave WITH latest <- Latest, void <- replaced \/ late
AtomicSpec == Atomic!Spec
=============================================================================
