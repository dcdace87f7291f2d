------------------------- MODULE DCPCheckpointProofs --------------------------
(***************************************************************************)
(* Theorems about distributed checkpoints: saved by any set of ranks, any  *)
(* number of times and with any failure of any request (DCPSave); loaded   *)
(* by any storage readers, with constructors that are shared or not and    *)
(* by any plans (DCPLoad).                                                 *)
(***************************************************************************)
EXTENDS MCDCPCheckpoint, RangesProofs

-----------------------------------------------------------------------------
(* Saving.  As long as no writer outlives its save, what every rank and    *)
(* the coordinator have done so far tells what is in the bucket; from      *)
(* that, a save that returned can be loaded, a rename never loses the      *)
(* metadata and, as long as no checkpoint is overwritten, saving           *)
(* implements AtomicSave.                                                  *)

(* An abandoned writer is one of the latest save, which it makes fail.     *)
Prompt ==
  \A a \in abandoned :
    /\ a.save = saves
    /\ \/ a.file \in Ranks /\ rank[a.file] = "raised"
       \/ a.file = Tmp /\ finish = "write" /\ outcome = "failed"

(* What a rank or the coordinator has got past is in the bucket.           *)
Progress ==
  /\ \A r \in Ranks : rank[r] = "written" => Whole(r, saves)
  /\ finish # "wait" => \A r \in Ranks : rank[r] = "written"
  /\ finish \in {"exists", "rm", "copy"} => Whole(Tmp, saves)
  /\ finish = "delete" => Whole(Meta, saves)
  /\ outcome = "saved" => finish = "end" /\ Whole(Meta, saves) /\ store[Tmp] = Absent
  /\ finish = "end" => outcome = "saved"
  /\ outcome = "none" => saves = 0 /\ finish = "wait" /\ \A r \in Ranks : rank[r] = "start"
  /\ outcome # "none" => saves > 0

(* A running save has deletes left to try.                                 *)
Retries == outcome = "running" => tries < MaxAttempts

TypeInv == TypeOK /\ Retries
SaveInv == TypeInv /\ (late \/ (Prompt /\ Progress))

(* A path that was never overwritten has no .metadata until the save that  *)
(* is under way copies it there.                                           *)
Fresh ==
  \/ replaced \/ late
  \/ store[Meta] = Absent
  \/ /\ Whole(Meta, saves) /\ saves > 0
     /\ finish \in {"delete", "end"} \/ (finish = "copy" /\ outcome = "failed")

AtomicInv == SaveInv /\ Fresh

-----------------------------------------------------------------------------
(* The names of the files are distinct, and objects are of type Objects.   *)
LEMMA FileFacts ==
  /\ Meta \in Files /\ Tmp \in Files /\ Ranks \subseteq Files
  /\ Meta # Tmp /\ Meta \notin Ranks /\ Tmp \notin Ranks
  BY RanksAssumption DEF Files, Meta, Tmp

LEMMA UploadType ==
  ASSUME saves \in 0..MaxSaves, NEW w \in BOOLEAN
  PROVE  Upload(w) \in Objects /\ Absent \in Objects
  BY BoundsAssumption DEF Upload, Absent, Objects

LEMMA HistoryGrows ==
  ASSUME [Next]_vars
  PROVE  (late => late') /\ (replaced => replaced')
<1>1. CASE Begin
  BY <1>1 DEF Begin
<1>2. CASE UNCHANGED history
  BY <1>2 DEF history
<1> QED
  BY <1>1, <1>2
  DEF Next, Commit, Write, vars, history, OpenData, OpenDataFails, WriteDataFails,
      CloseData, CloseDataFails, Finalize, Gather, OpenTmp, WriteTmpFails, CloseTmp,
      Exists, RmFile, Copy, Delete, DeleteFails, Crash

LEMMA TypeStep == TypeInv /\ [Next]_vars => TypeInv'
<1> SUFFICES ASSUME TypeInv, [Next]_vars PROVE TypeInv'
  OBVIOUS
<1> USE BoundsAssumption, FileFacts DEF TypeInv, TypeOK, Retries, history
<1>0. /\ Upload(TRUE) \in Objects /\ Absent \in Objects
      /\ \A f \in Files : store[f] \in Objects
  BY UploadType
<1>1. CASE Begin
  BY <1>1 DEF Begin
<1>2. ASSUME NEW r \in Ranks, Write(r) PROVE TypeInv'
  <2>1. CASE OpenData(r)
    BY <2>1 DEF OpenData
  <2>2. CASE OpenDataFails(r)
    BY <2>2 DEF OpenDataFails
  <2>3. CASE WriteDataFails(r)
    BY <2>3 DEF WriteDataFails
  <2>4. CASE CloseData(r)
    BY <1>0, <2>4 DEF CloseData, Put
  <2>5. CASE CloseDataFails(r)
    BY <1>0, <2>5 DEF CloseDataFails, Put
  <2> QED BY <1>2, <2>1, <2>2, <2>3, <2>4, <2>5 DEF Write
<1>3. ASSUME NEW a \in abandoned, Finalize(a) PROVE TypeInv'
  <2>1. [save |-> a.save, whole |-> FALSE] \in Objects
    BY DEF Objects
  <2> QED BY <2>1, <1>3 DEF Finalize, Put
<1>4. CASE Gather
  BY <1>4 DEF Gather, At, Goto, Raise
<1>5. CASE OpenTmp
  BY <1>5 DEF OpenTmp, At, Goto, Raise
<1>6. CASE WriteTmpFails
  BY <1>6 DEF WriteTmpFails, At, Raise
<1>7. CASE CloseTmp
  BY <1>0, <1>7 DEF CloseTmp, At, Goto, Raise, Put
<1>8. CASE Exists
  BY <1>8 DEF Exists, At, Goto, Raise
<1>9. CASE RmFile
  BY <1>0, <1>9 DEF RmFile, At, Goto, Put
<1>10. CASE Copy
  BY <1>0, <1>10 DEF Copy, At, Goto, Raise, Put
<1>11. CASE Delete
  BY <1>0, <1>11 DEF Delete, At, Put
<1>12. CASE DeleteFails
  <2> USE <1>12 DEF DeleteFails
  <2>1. store' \in [Files -> Objects]
    BY <1>0 DEF Put
  <2> QED
    BY <2>1 DEF At, Goto, Raise
<1>13. CASE Crash
  BY <1>13 DEF Crash, Raise
<1>14. CASE UNCHANGED vars
  BY <1>14 DEF vars
<1> QED
  BY <1>1, <1>2, <1>3, <1>4, <1>5, <1>6, <1>7, <1>8, <1>9, <1>10, <1>11, <1>12, <1>13, <1>14
     DEF Next, Commit
-----------------------------------------------------------------------------
LEMMA SaveStep ==
  ASSUME SaveInv, [Next]_vars
  PROVE  SaveInv'
<1>1. TypeInv'
  BY TypeStep DEF SaveInv
<1>a. late => late'
  BY HistoryGrows
<1> SUFFICES ASSUME ~late, ~late' PROVE Prompt' /\ Progress'
  BY <1>1, <1>a DEF SaveInv
<1> USE FileFacts DEF SaveInv, TypeInv, TypeOK
<1>2. ASSUME Begin PROVE Prompt' /\ Progress'
  <2>1. Prompt'
    BY <1>2 DEF Prompt, Progress, Begin
  <2>2. Progress'
    BY <1>2 DEF Prompt, Progress, Whole, Begin
  <2> QED BY <2>1, <2>2
<1>3. ASSUME NEW r \in Ranks, OpenData(r) PROVE Prompt' /\ Progress'
  <2>1. Prompt'
    BY <1>3 DEF Prompt, Progress, OpenData
  <2>2. Progress'
    BY <1>3 DEF Prompt, Progress, Whole, OpenData
  <2> QED BY <2>1, <2>2
<1>4. ASSUME NEW r \in Ranks, OpenDataFails(r) PROVE Prompt' /\ Progress'
  <2>1. Prompt'
    BY <1>4 DEF Prompt, Progress, OpenDataFails
  <2>2. Progress'
    BY <1>4 DEF Prompt, Progress, Whole, OpenDataFails
  <2> QED BY <2>1, <2>2
<1>5. ASSUME NEW r \in Ranks, WriteDataFails(r) PROVE Prompt' /\ Progress'
  <2>1. Prompt'
    BY <1>5 DEF Prompt, Progress, WriteDataFails
  <2>2. Progress'
    BY <1>5 DEF Prompt, Progress, Whole, WriteDataFails
  <2> QED BY <2>1, <2>2
<1>6. ASSUME NEW r \in Ranks, CloseData(r) PROVE Prompt' /\ Progress'
  <2>1. Prompt'
    BY <1>6 DEF Prompt, Progress, CloseData, Put, Upload
  <2>2. Progress'
    BY <1>6 DEF Prompt, Progress, Whole, CloseData, Put, Upload
  <2> QED BY <2>1, <2>2
<1>7. ASSUME NEW r \in Ranks, CloseDataFails(r) PROVE Prompt' /\ Progress'
  <2>1. Prompt'
    BY <1>7 DEF Prompt, Progress, CloseDataFails, Put, Upload
  <2>2. Progress'
    BY <1>7 DEF Prompt, Progress, Whole, CloseDataFails, Put, Upload
  <2> QED BY <2>1, <2>2
<1>8. ASSUME NEW a \in abandoned, Finalize(a) PROVE Prompt' /\ Progress'
  <2>1. Prompt'
    BY <1>8 DEF Prompt, Progress, Finalize, Put
  <2>2. Progress'
    BY <1>8 DEF Prompt, Progress, Whole, Finalize, Put
  <2> QED BY <2>1, <2>2
<1>9. ASSUME Gather PROVE Prompt' /\ Progress'
  <2>1. Prompt'
    BY <1>9 DEF Prompt, Progress, Gather, At, Goto, Raise
  <2>2. Progress'
    BY <1>9 DEF Prompt, Progress, Whole, Gather, At, Goto, Raise
  <2> QED BY <2>1, <2>2
<1>10. ASSUME OpenTmp PROVE Prompt' /\ Progress'
  <2>1. Prompt'
    BY <1>10 DEF Prompt, Progress, OpenTmp, At, Goto, Raise
  <2>2. Progress'
    BY <1>10 DEF Prompt, Progress, Whole, OpenTmp, At, Goto, Raise
  <2> QED BY <2>1, <2>2
<1>11. ASSUME WriteTmpFails PROVE Prompt' /\ Progress'
  <2>1. Prompt'
    BY <1>11 DEF Prompt, Progress, WriteTmpFails, At, Raise
  <2>2. Progress'
    BY <1>11 DEF Prompt, Progress, Whole, WriteTmpFails, At, Raise
  <2> QED BY <2>1, <2>2
<1>12. ASSUME CloseTmp PROVE Prompt' /\ Progress'
  <2>1. Prompt'
    BY <1>12 DEF Prompt, Progress, CloseTmp, At, Goto, Raise, Put, Upload
  <2>2. Progress'
    BY <1>12 DEF Prompt, Progress, Whole, CloseTmp, At, Goto, Raise, Put, Upload
  <2> QED BY <2>1, <2>2
<1>13. ASSUME Exists PROVE Prompt' /\ Progress'
  <2>1. Prompt'
    BY <1>13 DEF Prompt, Progress, Exists, At, Goto, Raise
  <2>2. Progress'
    BY <1>13 DEF Prompt, Progress, Whole, Exists, At, Goto, Raise
  <2> QED BY <2>1, <2>2
<1>14. ASSUME RmFile PROVE Prompt' /\ Progress'
  <2>1. Prompt'
    BY <1>14 DEF Prompt, Progress, RmFile, At, Goto, Put
  <2>2. Progress'
    BY <1>14 DEF Prompt, Progress, Whole, RmFile, At, Goto, Put
  <2> QED BY <2>1, <2>2
<1>15. ASSUME Copy PROVE Prompt' /\ Progress'
  <2>1. Prompt'
    BY <1>15 DEF Prompt, Progress, Copy, At, Goto, Raise, Put
  <2>2. Progress'
    BY <1>15 DEF Prompt, Progress, Whole, Copy, At, Goto, Raise, Put
  <2> QED BY <2>1, <2>2
<1>16. ASSUME Delete PROVE Prompt' /\ Progress'
  <2>1. Prompt'
    BY <1>16 DEF Prompt, Progress, Delete, At, Put
  <2>2. Progress'
    BY <1>16 DEF Prompt, Progress, Whole, Delete, At, Put
  <2> QED BY <2>1, <2>2
<1>17. ASSUME DeleteFails PROVE Prompt' /\ Progress'
  <2>1. Prompt'
    BY <1>17 DEF Prompt, Progress, DeleteFails, At, Goto, Raise, Put
  <2>2. Progress'
    BY <1>17 DEF Prompt, Progress, Whole, DeleteFails, At, Goto, Raise, Put
  <2> QED BY <2>1, <2>2
<1>18. ASSUME Crash PROVE Prompt' /\ Progress'
  <2>1. Prompt'
    BY <1>18 DEF Prompt, Progress, Crash, Raise
  <2>2. Progress'
    BY <1>18 DEF Prompt, Progress, Whole, Crash, Raise
  <2> QED BY <2>1, <2>2
<1>19. ASSUME UNCHANGED vars PROVE Prompt' /\ Progress'
  <2>1. Prompt'
    BY <1>19 DEF Prompt, Progress, vars
  <2>2. Progress'
    BY <1>19 DEF Prompt, Progress, Whole, vars
  <2> QED BY <2>1, <2>2
<1> QED
  BY <1>1, <1>2, <1>3, <1>4, <1>5, <1>6, <1>7, <1>8, <1>9, <1>10, <1>11, <1>12, <1>13, <1>14, <1>15, <1>16, <1>17, <1>18, <1>19
     DEF Next, Commit, Write

LEMMA FreshStep ==
  ASSUME AtomicInv, [Next]_vars
  PROVE  Fresh'
<1>a. (late => late') /\ (replaced => replaced')
  BY HistoryGrows
<1> SUFFICES ASSUME ~late, ~late', ~replaced, ~replaced' PROVE Fresh'
  BY <1>a DEF Fresh
<1> USE FileFacts DEF AtomicInv, SaveInv, TypeInv, TypeOK, Fresh, Whole
<1>1. ASSUME Begin PROVE Fresh'
  BY <1>1 DEF Progress, Begin
<1>2. ASSUME NEW r \in Ranks, OpenData(r) PROVE Fresh'
  BY <1>2 DEF Progress, OpenData
<1>3. ASSUME NEW r \in Ranks, OpenDataFails(r) PROVE Fresh'
  BY <1>3 DEF Progress, OpenDataFails
<1>4. ASSUME NEW r \in Ranks, WriteDataFails(r) PROVE Fresh'
  BY <1>4 DEF Progress, WriteDataFails
<1>5. ASSUME NEW r \in Ranks, CloseData(r) PROVE Fresh'
  BY <1>5 DEF Progress, CloseData, Put
<1>6. ASSUME NEW r \in Ranks, CloseDataFails(r) PROVE Fresh'
  BY <1>6 DEF Progress, CloseDataFails, Put
<1>7. ASSUME NEW a \in abandoned, Finalize(a) PROVE Fresh'
  BY <1>7 DEF Progress, Prompt, Finalize, Put
<1>8. ASSUME Gather PROVE Fresh'
  BY <1>8 DEF Progress, Gather, At, Goto, Raise
<1>9. ASSUME OpenTmp PROVE Fresh'
  BY <1>9 DEF Progress, OpenTmp, At, Goto, Raise
<1>10. ASSUME WriteTmpFails PROVE Fresh'
  BY <1>10 DEF Progress, WriteTmpFails, At, Raise
<1>11. ASSUME CloseTmp PROVE Fresh'
  BY <1>11 DEF Progress, CloseTmp, At, Goto, Raise, Put
<1>12. ASSUME Exists PROVE Fresh'
  BY <1>12 DEF Progress, Exists, At, Goto, Raise
<1>13. ASSUME RmFile PROVE Fresh'
  BY <1>13 DEF Progress, RmFile, At, Goto, Put
<1>14. ASSUME Copy PROVE Fresh'
  <2>1. /\ store[Meta] = Absent /\ store[Tmp] = [save |-> saves, whole |-> TRUE]
        /\ saves > 0 /\ saves' = saves /\ finish = "copy"
    BY <1>14 DEF Progress, Copy, At
  <2>2. CASE store' = store
    BY <2>1, <2>2
  <2>3. CASE store' = [store EXCEPT ![Meta] = store[Tmp]]
    <3>1. store'[Meta] = [save |-> saves, whole |-> TRUE]
      BY <2>1, <2>3
    <3>2. finish' = "delete" \/ (finish' = "copy" /\ outcome' = "failed")
      BY <1>14, <2>1 DEF Copy, Goto, Raise
    <3> QED BY <2>1, <3>1, <3>2
  <2> QED BY <1>14, <2>2, <2>3 DEF Copy, Put
<1>15. ASSUME Delete PROVE Fresh'
  BY <1>15 DEF Progress, Delete, At, Put
<1>16. ASSUME DeleteFails PROVE Fresh'
  BY <1>16 DEF Progress, DeleteFails, At, Goto, Raise, Put
<1>17. ASSUME Crash PROVE Fresh'
  BY <1>17 DEF Progress, Crash, Raise
<1>18. ASSUME UNCHANGED vars PROVE Fresh'
  BY <1>18 DEF Progress, vars
<1> QED
  BY <1>1, <1>2, <1>3, <1>4, <1>5, <1>6, <1>7, <1>8, <1>9, <1>10, <1>11, <1>12, <1>13, <1>14, <1>15, <1>16, <1>17, <1>18
     DEF Next, Commit, Write

(* What a load would get, where a checkpoint is saved once.                *)
LatestIsSaves == replaced \/ late \/
  /\ store[Meta] = Absent => Latest = 0
  /\ store[Meta] # Absent => Latest = saves /\ saves > 0

LEMMA LatestValue == AtomicInv => LatestIsSaves
<1>1. ASSUME AtomicInv, ~replaced, ~late, store[Meta] # Absent PROVE Latest = saves /\ saves > 0
  <2>1. Whole(Meta, saves) /\ saves > 0 /\ finish # "wait"
    BY <1>1 DEF AtomicInv, Fresh
  <2>2. \A r \in Ranks : Whole(r, saves)
    BY <1>1, <2>1 DEF AtomicInv, SaveInv, Progress
  <2>3. store[Meta].save = saves
    BY <2>1 DEF Whole
  <2> QED
    BY <1>1, <2>1, <2>2, <2>3 DEF Latest
<1> QED
  BY <1>1 DEF Latest, LatestIsSaves

LEMMA AtomicInit == Init => AtomicInv /\ Atomic!Init
<1> SUFFICES ASSUME Init PROVE AtomicInv /\ Atomic!Init
  OBVIOUS
<1> USE FileFacts, BoundsAssumption
<1>1. TypeInv
  <2>1. Absent \in Objects
    BY DEF Absent, Objects
  <2>2. store \in [Files -> Objects] /\ rank \in [Ranks -> {"start", "open", "written", "raised"}]
    BY <2>1 DEF Init
  <2>3. replaced \in BOOLEAN /\ late \in BOOLEAN
    BY DEF Init
  <2> QED
    BY <2>2, <2>3 DEF Init, TypeInv, TypeOK, Retries
<1>2. Prompt /\ Progress /\ Fresh
  BY DEF Init, Prompt, Progress, Fresh
<1>3. Atomic!Init
  BY DEF Init, Latest, Atomic!Init
<1> QED
  BY <1>1, <1>2, <1>3 DEF AtomicInv, SaveInv

(* Every step of a save is one of AtomicSave, or none of it.               *)
LEMMA AtomicStep ==
  ASSUME AtomicInv, AtomicInv', [Next]_vars
  PROVE  [Atomic!Next]_(Atomic!vars)
<1>d. (late => late') /\ (replaced => replaced')
  BY HistoryGrows
<1> SUFFICES ASSUME ~late, ~late', ~replaced, ~replaced'
             PROVE  Atomic!Begin \/ Atomic!Commit \/ Atomic!Return \/ Atomic!Fail
                      \/ UNCHANGED <<saves, outcome, Latest>>
  <2>1. CASE replaced' \/ late'
    <3>1. (replaced' \/ late') = TRUE
      BY <2>1
    <3> QED BY <3>1 DEF Atomic!Next, Atomic!Forfeit
  <2>2. CASE ~(replaced' \/ late')
    <3>1. ~replaced /\ ~late /\ (replaced \/ late) = FALSE /\ (replaced' \/ late') = FALSE
      BY <2>2, <1>d
    <3> QED BY <3>1, <2>2 DEF Atomic!Next, Atomic!vars
  <2> QED BY <2>1, <2>2
<1>a. LatestIsSaves
  BY LatestValue
<1>b. LatestIsSaves'
  BY LatestValue, PTL
<1>c. ASSUME saves' = saves, store'[Meta] = Absent <=> store[Meta] = Absent
      PROVE  Latest' = Latest
  BY <1>a, <1>b, <1>c DEF LatestIsSaves
<1> USE FileFacts DEF AtomicInv, SaveInv, TypeInv, TypeOK, Fresh, Whole
<1>1. ASSUME Begin
      PROVE  Atomic!Begin \/ Atomic!Commit \/ Atomic!Return \/ Atomic!Fail
               \/ UNCHANGED <<saves, outcome, Latest>>
  <2>1. /\ store[Meta] = Absent /\ store' = store /\ saves < MaxSaves
        /\ outcome \in {"none", "failed"} /\ outcome' = "running" /\ saves' = saves + 1
    BY <1>1 DEF Begin, Progress, Absent
  <2>2. Latest = 0 /\ Latest' = 0
    BY <1>a, <1>b, <2>1 DEF LatestIsSaves
  <2> QED BY <2>1, <2>2 DEF Atomic!Begin
<1>2. ASSUME NEW r \in Ranks, OpenData(r)
      PROVE  Atomic!Begin \/ Atomic!Commit \/ Atomic!Return \/ Atomic!Fail
               \/ UNCHANGED <<saves, outcome, Latest>>
  <2>1. saves' = saves /\ (store'[Meta] = Absent <=> store[Meta] = Absent)
    BY <1>2 DEF OpenData
  <2>2. outcome' = outcome \/ (outcome = "running" /\ outcome' = "failed")
    BY <1>2 DEF OpenData
  <2> QED BY <2>1, <2>2, <1>c DEF Atomic!Fail
<1>3. ASSUME NEW r \in Ranks, OpenDataFails(r)
      PROVE  Atomic!Begin \/ Atomic!Commit \/ Atomic!Return \/ Atomic!Fail
               \/ UNCHANGED <<saves, outcome, Latest>>
  <2>1. saves' = saves /\ (store'[Meta] = Absent <=> store[Meta] = Absent)
    BY <1>3 DEF OpenDataFails
  <2>2. outcome' = outcome \/ (outcome = "running" /\ outcome' = "failed")
    BY <1>3 DEF OpenDataFails
  <2> QED BY <2>1, <2>2, <1>c DEF Atomic!Fail
<1>4. ASSUME NEW r \in Ranks, WriteDataFails(r)
      PROVE  Atomic!Begin \/ Atomic!Commit \/ Atomic!Return \/ Atomic!Fail
               \/ UNCHANGED <<saves, outcome, Latest>>
  <2>1. saves' = saves /\ (store'[Meta] = Absent <=> store[Meta] = Absent)
    BY <1>4 DEF WriteDataFails
  <2>2. outcome' = outcome \/ (outcome = "running" /\ outcome' = "failed")
    BY <1>4 DEF WriteDataFails
  <2> QED BY <2>1, <2>2, <1>c DEF Atomic!Fail
<1>5. ASSUME NEW r \in Ranks, CloseData(r)
      PROVE  Atomic!Begin \/ Atomic!Commit \/ Atomic!Return \/ Atomic!Fail
               \/ UNCHANGED <<saves, outcome, Latest>>
  <2>1. saves' = saves /\ (store'[Meta] = Absent <=> store[Meta] = Absent)
    BY <1>5 DEF CloseData, Put
  <2>2. outcome' = outcome \/ (outcome = "running" /\ outcome' = "failed")
    BY <1>5 DEF CloseData, Put
  <2> QED BY <2>1, <2>2, <1>c DEF Atomic!Fail
<1>6. ASSUME NEW r \in Ranks, CloseDataFails(r)
      PROVE  Atomic!Begin \/ Atomic!Commit \/ Atomic!Return \/ Atomic!Fail
               \/ UNCHANGED <<saves, outcome, Latest>>
  <2>1. saves' = saves /\ (store'[Meta] = Absent <=> store[Meta] = Absent)
    BY <1>6 DEF CloseDataFails, Put
  <2>2. outcome' = outcome \/ (outcome = "running" /\ outcome' = "failed")
    BY <1>6 DEF CloseDataFails, Put
  <2> QED BY <2>1, <2>2, <1>c DEF Atomic!Fail
<1>7. ASSUME NEW a \in abandoned, Finalize(a)
      PROVE  Atomic!Begin \/ Atomic!Commit \/ Atomic!Return \/ Atomic!Fail
               \/ UNCHANGED <<saves, outcome, Latest>>
  <2>1. saves' = saves /\ (store'[Meta] = Absent <=> store[Meta] = Absent)
    BY <1>7 DEF Finalize, Prompt, Put
  <2>2. outcome' = outcome \/ (outcome = "running" /\ outcome' = "failed")
    BY <1>7 DEF Finalize, Prompt, Put
  <2> QED BY <2>1, <2>2, <1>c DEF Atomic!Fail
<1>8. ASSUME Gather
      PROVE  Atomic!Begin \/ Atomic!Commit \/ Atomic!Return \/ Atomic!Fail
               \/ UNCHANGED <<saves, outcome, Latest>>
  <2>1. saves' = saves /\ (store'[Meta] = Absent <=> store[Meta] = Absent)
    BY <1>8 DEF Gather, At, Goto, Raise
  <2>2. outcome' = outcome \/ (outcome = "running" /\ outcome' = "failed")
    BY <1>8 DEF Gather, At, Goto, Raise
  <2> QED BY <2>1, <2>2, <1>c DEF Atomic!Fail
<1>9. ASSUME OpenTmp
      PROVE  Atomic!Begin \/ Atomic!Commit \/ Atomic!Return \/ Atomic!Fail
               \/ UNCHANGED <<saves, outcome, Latest>>
  <2>1. saves' = saves /\ (store'[Meta] = Absent <=> store[Meta] = Absent)
    BY <1>9 DEF OpenTmp, At, Goto, Raise
  <2>2. outcome' = outcome \/ (outcome = "running" /\ outcome' = "failed")
    BY <1>9 DEF OpenTmp, At, Goto, Raise
  <2> QED BY <2>1, <2>2, <1>c DEF Atomic!Fail
<1>10. ASSUME WriteTmpFails
      PROVE  Atomic!Begin \/ Atomic!Commit \/ Atomic!Return \/ Atomic!Fail
               \/ UNCHANGED <<saves, outcome, Latest>>
  <2>1. saves' = saves /\ (store'[Meta] = Absent <=> store[Meta] = Absent)
    BY <1>10 DEF WriteTmpFails, At, Raise
  <2>2. outcome' = outcome \/ (outcome = "running" /\ outcome' = "failed")
    BY <1>10 DEF WriteTmpFails, At, Raise
  <2> QED BY <2>1, <2>2, <1>c DEF Atomic!Fail
<1>11. ASSUME CloseTmp
      PROVE  Atomic!Begin \/ Atomic!Commit \/ Atomic!Return \/ Atomic!Fail
               \/ UNCHANGED <<saves, outcome, Latest>>
  <2>1. saves' = saves /\ (store'[Meta] = Absent <=> store[Meta] = Absent)
    BY <1>11 DEF CloseTmp, At, Goto, Raise, Put
  <2>2. outcome' = outcome \/ (outcome = "running" /\ outcome' = "failed")
    BY <1>11 DEF CloseTmp, At, Goto, Raise, Put
  <2> QED BY <2>1, <2>2, <1>c DEF Atomic!Fail
<1>12. ASSUME Exists
      PROVE  Atomic!Begin \/ Atomic!Commit \/ Atomic!Return \/ Atomic!Fail
               \/ UNCHANGED <<saves, outcome, Latest>>
  <2>1. saves' = saves /\ (store'[Meta] = Absent <=> store[Meta] = Absent)
    BY <1>12 DEF Exists, At, Goto, Raise
  <2>2. outcome' = outcome \/ (outcome = "running" /\ outcome' = "failed")
    BY <1>12 DEF Exists, At, Goto, Raise
  <2> QED BY <2>1, <2>2, <1>c DEF Atomic!Fail
<1>13. ASSUME RmFile
      PROVE  Atomic!Begin \/ Atomic!Commit \/ Atomic!Return \/ Atomic!Fail
               \/ UNCHANGED <<saves, outcome, Latest>>
  <2>1. saves' = saves /\ (store'[Meta] = Absent <=> store[Meta] = Absent)
    BY <1>13 DEF RmFile, At, Goto, Put
  <2>2. outcome' = outcome \/ (outcome = "running" /\ outcome' = "failed")
    BY <1>13 DEF RmFile, At, Goto, Put
  <2> QED BY <2>1, <2>2, <1>c DEF Atomic!Fail
<1>14. ASSUME DeleteFails
      PROVE  Atomic!Begin \/ Atomic!Commit \/ Atomic!Return \/ Atomic!Fail
               \/ UNCHANGED <<saves, outcome, Latest>>
  <2>1. saves' = saves /\ (store'[Meta] = Absent <=> store[Meta] = Absent)
    BY <1>14 DEF DeleteFails, At, Goto, Raise, Put
  <2>2. outcome' = outcome \/ (outcome = "running" /\ outcome' = "failed")
    BY <1>14 DEF DeleteFails, At, Goto, Raise, Put
  <2> QED BY <2>1, <2>2, <1>c DEF Atomic!Fail
<1>15. ASSUME Crash
      PROVE  Atomic!Begin \/ Atomic!Commit \/ Atomic!Return \/ Atomic!Fail
               \/ UNCHANGED <<saves, outcome, Latest>>
  <2>1. saves' = saves /\ (store'[Meta] = Absent <=> store[Meta] = Absent)
    BY <1>15 DEF Crash, Raise
  <2>2. outcome' = outcome \/ (outcome = "running" /\ outcome' = "failed")
    BY <1>15 DEF Crash, Raise
  <2> QED BY <2>1, <2>2, <1>c DEF Atomic!Fail
<1>16. ASSUME UNCHANGED vars
      PROVE  Atomic!Begin \/ Atomic!Commit \/ Atomic!Return \/ Atomic!Fail
               \/ UNCHANGED <<saves, outcome, Latest>>
  <2>1. saves' = saves /\ (store'[Meta] = Absent <=> store[Meta] = Absent)
    BY <1>16 DEF vars
  <2>2. outcome' = outcome \/ (outcome = "running" /\ outcome' = "failed")
    BY <1>16 DEF vars
  <2> QED BY <2>1, <2>2, <1>c DEF Atomic!Fail
<1>17. ASSUME Copy
      PROVE  Atomic!Begin \/ Atomic!Commit \/ Atomic!Return \/ Atomic!Fail
               \/ UNCHANGED <<saves, outcome, Latest>>
  <2>1. outcome = "running" /\ store[Meta] = Absent /\ saves' = saves /\ saves > 0
    BY <1>17 DEF Copy, At, Progress
  <2>2. CASE store' = store
    <3>1. Latest' = Latest /\ outcome' \in {"running", "failed"}
      BY <1>17, <1>c, <2>1, <2>2 DEF Copy, Goto, Raise
    <3> QED BY <2>1, <3>1 DEF Atomic!Fail
  <2>3. CASE store' = [store EXCEPT ![Meta] = store[Tmp]]
    <3>1. store'[Meta] # Absent
      BY <1>17, <2>1, <2>3 DEF Copy, At, Progress, Absent
    <3>2. Latest = 0 /\ Latest' = saves /\ outcome' \in {"running", "failed"}
      BY <1>17, <1>a, <1>b, <2>1, <3>1 DEF Copy, Goto, Raise, LatestIsSaves
    <3> QED BY <2>1, <3>2 DEF Atomic!Commit, Atomic!Fail
  <2> QED BY <1>17, <2>2, <2>3 DEF Copy, Put
<1>18. ASSUME Delete
      PROVE  Atomic!Begin \/ Atomic!Commit \/ Atomic!Return \/ Atomic!Fail
               \/ UNCHANGED <<saves, outcome, Latest>>
  <2>1. /\ outcome = "running" /\ outcome' = "saved" /\ saves' = saves /\ saves > 0
        /\ store[Meta] # Absent /\ store'[Meta] = store[Meta]
    BY <1>18 DEF Delete, At, Put, Progress, Absent
  <2>2. Latest = saves /\ Latest' = Latest
    BY <1>a, <1>c, <2>1 DEF LatestIsSaves
  <2> QED BY <2>1, <2>2 DEF Atomic!Return
<1> QED
  BY <1>1, <1>2, <1>3, <1>4, <1>5, <1>6, <1>7, <1>8, <1>9, <1>10, <1>11, <1>12, <1>13, <1>14, <1>15, <1>16, <1>17, <1>18
     DEF Next, Commit, Write

-----------------------------------------------------------------------------
(* Every variable keeps its type, and a delete is tried MaxAttempts times  *)
(* at most.                                                                *)
THEOREM TypeCorrect == Spec => []TypeOK
<1>1. Init => TypeInv
  BY AtomicInit DEF AtomicInv, SaveInv
<1>2. TypeInv => TypeOK
  BY DEF TypeInv
<1> QED
  BY <1>1, <1>2, TypeStep, PTL DEF Spec

THEOREM SaveInvariance == Spec => []SaveInv
<1>1. Init => SaveInv
  BY AtomicInit DEF AtomicInv
<1>2. SaveInv /\ [Next]_vars => SaveInv'
  BY SaveStep
<1> QED
  BY <1>1, <1>2, PTL DEF Spec

(* Unless a save began while a writer of a failed one was left, a save     *)
(* that returned can be loaded: with any ranks, failures, crashes and saves*)
(* before it.                                                              *)
THEOREM SavesAreLoadable == Spec => []SavedIsLoadable
<1>1. SaveInv => SavedIsLoadable
  BY FileFacts DEF SaveInv, Progress, SavedIsLoadable, SavedIsWhole
<1> QED
  BY <1>1, SaveInvariance, PTL

(* And the metadata of a save is never lost by its rename, whichever of    *)
(* its requests fail, and however they do.                                 *)
THEOREM RenamesKeepTheObject == Spec => []RenameKeepsTheObject
<1>1. SaveInv => RenameKeepsTheObject
  BY DEF SaveInv, Progress, RenameKeepsTheObject
<1> QED
  BY <1>1, SaveInvariance, PTL

(* Where no checkpoint is overwritten, a save is atomic.                   *)
THEOREM SavesAreAtomic == Spec => AtomicSpec
<1>1. Init => AtomicInv /\ Atomic!Init
  BY AtomicInit
<1>2. AtomicInv /\ [Next]_vars => AtomicInv'
  BY SaveStep, FreshStep DEF AtomicInv
<1>3. AtomicInv /\ AtomicInv' /\ [Next]_vars => [Atomic!Next]_(Atomic!vars)
  BY AtomicStep
<1> QED
  BY <1>1, <1>2, <1>3, PTL DEF Spec, AtomicSpec, Atomic!Spec

-----------------------------------------------------------------------------
(* Loading: no progress bar is left open behind.                           *)

IsBar(b) == "open" \in DOMAIN b

(* What a constructor may look like: without progress it never had a bar.  *)
ConTypes(c) ==
  /\ c = [dcp |-> c.dcp, progress |-> c.progress, ranges |-> c.ranges, by |-> c.by,
          bars |-> c.bars, bar |-> c.bar]
  /\ \E S : c.bars \in Seq(S)
  /\ c.bar \in 0..Len(c.bars)
  /\ \A i \in 1..Len(c.bars) : IsBar(c.bars[i])
  /\ c.progress => c.dcp
  /\ ~c.dcp => c.bars = <<>>

OpenBars(c) == {i \in 1..Len(c.bars) : c.bars[i].open}

(* It knows the bar that is open.                                          *)
KnowsItsBar(c) == ConTypes(c) /\ OpenBars(c) \subseteq {c.bar}

IsLoad(r) == "pc" \in DOMAIN r

(* A load that may have left a bar: its read_data has not come to an end.  *)
Busy == {"planned", "reading", "aborted"}

BarInv ==
  /\ uses \in [Loads -> Constructors]
  /\ con = [c \in Constructors |-> con[c]] /\ load = [l \in Loads |-> load[l]]
  /\ \A l \in Loads : IsLoad(load[l])
  /\ \A c \in Constructors :
       /\ KnowsItsBar(con[c])
       /\ OpenBars(con[c]) # {} => \E l \in Loads : uses[l] = c /\ load[l].pc \in Busy

-----------------------------------------------------------------------------
(* What the methods of the constructor do to its bars.                     *)

LEMMA CloseProgressFacts ==
  ASSUME NEW c, KnowsItsBar(c)
  PROVE  /\ KnowsItsBar(Load!CloseProgress(c)) /\ OpenBars(Load!CloseProgress(c)) = {}
         /\ Load!CloseProgress(c).dcp = c.dcp
<1> USE DEF Load!CloseProgress, Load!None
<1>0. ConTypes(c) /\ OpenBars(c) \subseteq {c.bar}
  BY DEF KnowsItsBar
<1>1. CASE c.bar = 0
  <2>1. Load!CloseProgress(c) = c
    BY <1>1
  <2>2. OpenBars(c) = {}
    BY <1>0, <1>1 DEF OpenBars
  <2> QED
    BY <2>1, <2>2
<1>2. CASE c.bar # 0
  <2> DEFINE bars == [c.bars EXCEPT ![c.bar].open = FALSE]
             d == Load!CloseProgress(c)
  <2>1. PICK S : c.bars \in Seq(S)
    BY <1>0 DEF ConTypes
  <2>2. c.bar \in 1..Len(c.bars) /\ Len(c.bars) \in Nat
    BY <1>0, <1>2, <2>1 DEF ConTypes
  <2>3. d = [dcp |-> c.dcp, progress |-> c.progress, ranges |-> c.ranges, by |-> c.by,
             bars |-> bars, bar |-> 0]
    BY <1>0, <1>2 DEF ConTypes
  <2> DEFINE closed == [c.bars[c.bar] EXCEPT !.open = FALSE]
             T == S \cup {closed}
  <2>4. IsBar(closed) /\ ~closed.open
    BY <1>0, <2>2 DEF ConTypes, IsBar
  <2>5. bars = [c.bars EXCEPT ![c.bar] = closed]
    OBVIOUS
  <2>6. /\ bars \in Seq(T) /\ Len(bars) = Len(c.bars)
        /\ \A i \in 1..Len(c.bars) : bars[i] = IF i = c.bar THEN closed ELSE c.bars[i]
    <3>1. c.bars \in Seq(T) /\ closed \in T
      BY <2>1
    <3> HIDE DEF bars, closed, T
    <3> QED
      BY <2>2, <2>5, <3>1, ExceptSeq
  <2> HIDE DEF bars, closed, d
  <2>7. \A i \in 1..Len(bars) : IsBar(bars[i]) /\ ~bars[i].open
    <3> SUFFICES ASSUME NEW i \in 1..Len(bars) PROVE IsBar(bars[i]) /\ ~bars[i].open
      OBVIOUS
    <3>1. CASE i = c.bar
      BY <2>4, <2>6, <3>1
    <3>2. CASE i # c.bar
      <4>1. bars[i] = c.bars[i] /\ i \notin OpenBars(c)
        BY <1>0, <2>6, <3>2
      <4> QED
        BY <1>0, <2>6, <4>1 DEF ConTypes, OpenBars
    <3> QED
      BY <3>1, <3>2
  <2>8. c.dcp
    BY <1>0, <2>2 DEF ConTypes
  <2>9. OpenBars(d) = {}
    BY <2>3, <2>7 DEF OpenBars
  <2>10. ConTypes(d)
    BY <1>0, <2>3, <2>6, <2>7, <2>8 DEF ConTypes
  <2> QED
    BY <2>3, <2>9, <2>10 DEF KnowsItsBar, d
<1> QED
  BY <1>1, <1>2

LEMMA SetItemRangesFacts ==
  ASSUME NEW c, KnowsItsBar(c), NEW l, NEW plan
  PROVE  /\ KnowsItsBar(Load!SetItemRanges(c, l, plan))
         /\ OpenBars(Load!SetItemRanges(c, l, plan)) = {}
<1> DEFINE d == Load!CloseProgress(c)
           e == Load!SetItemRanges(c, l, plan)
           m == [f \in Load!FilesOf(plan) |-> Load!RangesOf(plan, f)]
<1>1. ConTypes(d) /\ OpenBars(d) = {}
  BY CloseProgressFacts DEF KnowsItsBar
<1>2. e = [d EXCEPT !.ranges = m, !.by = l]
  BY DEF Load!SetItemRanges
<1> HIDE DEF d, e, m
<1>3. e = [dcp |-> d.dcp, progress |-> d.progress, ranges |-> m, by |-> l,
           bars |-> d.bars, bar |-> d.bar]
  BY <1>1, <1>2 DEF ConTypes
<1>4. ConTypes(e)
  BY <1>1, <1>3 DEF ConTypes
<1>5. OpenBars(e) = {}
  BY <1>1, <1>3 DEF OpenBars
<1> QED
  BY <1>4, <1>5 DEF KnowsItsBar, e

LEMMA StartProgressFacts ==
  ASSUME NEW c, KnowsItsBar(c), OpenBars(c) = {}
  PROVE  KnowsItsBar(Load!StartProgress(c))
<1> DEFINE d == Load!StartProgress(c)
           total == Load!SumFunction([f \in DOMAIN c.ranges |-> Load!StreamTotal(c.ranges[f], Gap)])
           new == [total |-> total, done |-> 0, open |-> TRUE]
           bars == Append(c.bars, new)
<1>1. d = c \/ (c.progress /\ d = [c EXCEPT !.bars = bars, !.bar = Len(c.bars) + 1])
  BY DEF Load!StartProgress
<1> HIDE DEF d, total
<1>2. CASE c.progress /\ d = [c EXCEPT !.bars = bars, !.bar = Len(c.bars) + 1]
  <2>0. ConTypes(c)
    BY DEF KnowsItsBar
  <2>1. PICK S : c.bars \in Seq(S)
    BY <2>0 DEF ConTypes
  <2>2. d = [dcp |-> c.dcp, progress |-> c.progress, ranges |-> c.ranges, by |-> c.by,
             bars |-> bars, bar |-> Len(c.bars) + 1]
    BY <1>2, <2>0 DEF ConTypes
  <2>3. /\ bars \in Seq(S \cup {new}) /\ Len(bars) = Len(c.bars) + 1 /\ Len(c.bars) \in Nat
        /\ bars[Len(c.bars) + 1] = new /\ \A i \in 1..Len(c.bars) : bars[i] = c.bars[i]
    <3>1. c.bars \in Seq(S \cup {new}) /\ new \in S \cup {new}
      BY <2>1
    <3> HIDE DEF new
    <3> QED
      BY <3>1
  <2>4. \A i \in 1..Len(bars) : IsBar(bars[i])
    <3>1. IsBar(new)
      BY DEF IsBar
    <3>2. \A i \in 1..Len(c.bars) : IsBar(c.bars[i])
      BY <2>0 DEF ConTypes
    <3> HIDE DEF bars, new
    <3> QED
      BY <2>3, <3>1, <3>2
  <2> HIDE DEF bars, new
  <2>5. OpenBars(d) \subseteq {d.bar}
    BY <2>2, <2>3 DEF OpenBars
  <2>6. ConTypes(d)
    <3>1. d.bar \in 0..Len(d.bars)
      BY <2>2, <2>3
    <3>2. c.dcp
      BY <1>2, <2>0 DEF ConTypes
    <3>3. \E U : d.bars \in Seq(U)
      BY <2>2, <2>3
    <3> QED
      BY <2>2, <2>4, <3>1, <3>2, <3>3 DEF ConTypes
  <2> QED
    BY <2>5, <2>6 DEF KnowsItsBar, d
<1> QED
  BY <1>1, <1>2 DEF d

LEMMA UpdateProgressFacts ==
  ASSUME NEW l \in Loads, KnowsItsBar(Load!Own(l)), NEW bytes
  PROVE  KnowsItsBar(Load!UpdateProgress(l, bytes))
<1> DEFINE c == Load!Own(l)
           d == Load!UpdateProgress(l, bytes)
           bars == [c.bars EXCEPT ![c.bar].done = @ + bytes]
<1>0. ConTypes(c) /\ OpenBars(c) \subseteq {c.bar}
  BY DEF KnowsItsBar
<1>1. d = c \/ (c.bar # 0 /\ d = [c EXCEPT !.bars = bars])
  BY DEF Load!UpdateProgress, Load!None
<1> HIDE DEF c, d
<1>2. CASE c.bar # 0 /\ d = [c EXCEPT !.bars = bars]
  <2>1. PICK S : c.bars \in Seq(S)
    BY <1>0 DEF ConTypes
  <2>2. c.bar \in 1..Len(c.bars) /\ Len(c.bars) \in Nat
    BY <1>0, <1>2, <2>1 DEF ConTypes
  <2>3. d = [dcp |-> c.dcp, progress |-> c.progress, ranges |-> c.ranges, by |-> c.by,
             bars |-> bars, bar |-> c.bar]
    BY <1>0, <1>2 DEF ConTypes
  <2> DEFINE told == [c.bars[c.bar] EXCEPT !.done = @ + bytes]
             T == S \cup {told}
  <2>4. IsBar(told) /\ told.open = c.bars[c.bar].open
    BY <1>0, <2>2 DEF ConTypes, IsBar
  <2>5. bars = [c.bars EXCEPT ![c.bar] = told]
    OBVIOUS
  <2>6. /\ bars \in Seq(T) /\ Len(bars) = Len(c.bars)
        /\ \A i \in 1..Len(c.bars) : bars[i] = IF i = c.bar THEN told ELSE c.bars[i]
    <3>1. c.bars \in Seq(T) /\ told \in T
      BY <2>1
    <3> HIDE DEF bars, told, T
    <3> QED
      BY <2>2, <2>5, <3>1, ExceptSeq
  <2> HIDE DEF bars, told
  <2>7. \A i \in 1..Len(bars) : IsBar(bars[i]) /\ bars[i].open = c.bars[i].open
    <3> SUFFICES ASSUME NEW i \in 1..Len(bars)
                 PROVE  IsBar(bars[i]) /\ bars[i].open = c.bars[i].open
      OBVIOUS
    <3>1. CASE i = c.bar
      BY <2>4, <2>6, <3>1
    <3>2. CASE i # c.bar
      BY <1>0, <2>6, <3>2 DEF ConTypes
    <3> QED
      BY <3>1, <3>2
  <2>8. OpenBars(d) = OpenBars(c)
    BY <2>3, <2>6, <2>7 DEF OpenBars
  <2>9. ConTypes(d)
    <3>1. c.dcp
      BY <1>0, <2>2 DEF ConTypes
    <3> QED
      BY <1>0, <2>2, <2>3, <2>6, <2>7, <3>1 DEF ConTypes
  <2> QED
    BY <1>0, <2>3, <2>8, <2>9 DEF KnowsItsBar, d
<1> QED
  BY <1>1, <1>2 DEF c, d

-----------------------------------------------------------------------------
(* A step of the load l that leaves the constructor with a bar it knows,   *)
(* open only while the load is busy.                                       *)

LEMMA LoadStep ==
  ASSUME BarInv, NEW l \in Loads, NEW rec, NEW new,
         IsLoad(rec), KnowsItsBar(new), OpenBars(new) # {} => rec.pc \in Busy,
         load' = [load EXCEPT ![l] = rec], con' = [con EXCEPT ![uses[l]] = new],
         uses' = uses
  PROVE  BarInv'
<1>1. uses[l] \in Constructors
  BY DEF BarInv
<1>2. load = [k \in Loads |-> load[k]] /\ con = [c \in Constructors |-> con[c]]
  BY DEF BarInv
<1>3. /\ load' = [k \in Loads |-> load'[k]] /\ load'[l] = rec
      /\ \A k \in Loads : k # l => load'[k] = load[k]
  BY <1>2
<1>4. /\ con' = [c \in Constructors |-> con'[c]] /\ con'[uses[l]] = new
      /\ \A c \in Constructors : c # uses[l] => con'[c] = con[c]
  BY <1>1, <1>2
<1>5. \A k \in Loads : IsLoad(load'[k])
  BY <1>3 DEF BarInv
<1>6. ASSUME NEW c \in Constructors
      PROVE  /\ KnowsItsBar(con'[c])
             /\ OpenBars(con'[c]) # {} =>
                  \E k \in Loads : uses[k] = c /\ load'[k].pc \in Busy
  <2>1. CASE c = uses[l]
    BY <1>3, <1>4, <2>1
  <2>2. CASE c # uses[l]
    <3>1. con'[c] = con[c] /\ KnowsItsBar(con[c])
      BY <1>4, <2>2 DEF BarInv
    <3>2. ASSUME OpenBars(con[c]) # {}
          PROVE  \E k \in Loads : uses[k] = c /\ load'[k].pc \in Busy
      <4>1. PICK k \in Loads : uses[k] = c /\ load[k].pc \in Busy
        BY <3>2 DEF BarInv
      <4> QED
        BY <1>3, <2>2, <4>1
    <3> QED
      BY <3>1, <3>2
  <2> QED
    BY <2>1, <2>2
<1>7. BarInv' = ( /\ uses' \in [Loads -> Constructors]
                  /\ con' = [c \in Constructors |-> con'[c]]
                  /\ load' = [k \in Loads |-> load'[k]]
                  /\ \A k \in Loads : IsLoad(load'[k])
                  /\ \A c \in Constructors :
                       /\ KnowsItsBar(con'[c])
                       /\ OpenBars(con'[c]) # {} =>
                            \E k \in Loads : uses'[k] = c /\ load'[k].pc \in Busy )
  BY DEF BarInv, KnowsItsBar, ConTypes, OpenBars, IsBar, IsLoad
<1>8. uses' \in [Loads -> Constructors]
  BY DEF BarInv
<1> QED
  BY <1>3, <1>4, <1>5, <1>6, <1>7, <1>8

(* read_data ends with the bar closed, if there can be one.                *)
LEMMA EndStep ==
  ASSUME BarInv, NEW l \in Loads, NEW pc, NEW c, KnowsItsBar(c),
         Load!ReadDataEnds(l, pc, c), uses' = uses
  PROVE  BarInv'
<1> DEFINE rec == [load[l] EXCEPT !.pc = pc, !.reader = Load!NoReader]
           new == IF c.dcp THEN Load!CloseProgress(c) ELSE c
<1>1. load' = [load EXCEPT ![l] = rec] /\ con' = [con EXCEPT ![uses[l]] = new]
  BY DEF Load!ReadDataEnds, Load!SetLoad, Load!SetCon
<1>2. IsLoad(rec)
  <2>1. IsLoad(load[l])
    BY DEF BarInv
  <2> QED
    BY <2>1 DEF IsLoad
<1>3. KnowsItsBar(new) /\ OpenBars(new) = {}
  <2>1. CASE c.dcp
    BY <2>1, CloseProgressFacts
  <2>2. CASE ~c.dcp
    <3>1. c.bars = <<>>
      BY <2>2 DEF KnowsItsBar, ConTypes
    <3> QED
      BY <2>2, <3>1 DEF OpenBars
  <2> QED
    BY <2>1, <2>2
<1> HIDE DEF rec, new
<1> QED
  BY <1>1, <1>2, <1>3, LoadStep

LEMMA BarInitInvariant ==
  ASSUME Load!LoadAssumption, Load!Init
  PROVE  BarInv
<1>1. uses \in [Loads -> Constructors]
  BY DEF Load!Init, Load!LoadAssumption
<1>2. /\ load = [l \in Loads |-> load[l]]
      /\ \A l \in Loads : IsLoad(load[l])
  BY DEF Load!Init, IsLoad
<1>3. con = [c \in Constructors |-> con[c]]
  BY DEF Load!Init
<1>4. ASSUME NEW c \in Constructors
      PROVE  KnowsItsBar(con[c]) /\ OpenBars(con[c]) = {}
  <2>1. /\ con[c] = [dcp |-> con[c].dcp, progress |-> con[c].progress,
                     ranges |-> con[c].ranges, by |-> con[c].by,
                     bars |-> con[c].bars, bar |-> con[c].bar]
        /\ con[c].bars = <<>> /\ con[c].bar = 0
        /\ con[c].progress => con[c].dcp
    BY DEF Load!Init, Load!NewConstructors, Load!Accepting, Load!None
  <2>2. con[c].bars \in Seq({}) /\ Len(con[c].bars) = 0
    BY <2>1
  <2>3. ConTypes(con[c])
    BY <2>1, <2>2 DEF ConTypes
  <2>4. OpenBars(con[c]) = {}
    BY <2>2 DEF OpenBars
  <2> QED
    BY <2>3, <2>4 DEF KnowsItsBar
<1> QED
  BY <1>1, <1>2, <1>3, <1>4 DEF BarInv

LEMMA BarStepInvariant ==
  ASSUME BarInv, Load!Next
  PROVE  BarInv'
<1>0. ASSUME NEW l \in Loads
      PROVE  /\ uses[l] \in Constructors /\ IsLoad(load[l])
             /\ KnowsItsBar(Load!Own(l))
             /\ con = [con EXCEPT ![uses[l]] = Load!Own(l)]
  BY DEF BarInv, Load!Own
<1>1. ASSUME NEW l \in Loads, NEW plan \in Plans, Load!Plan(l, plan)
      PROVE  BarInv'
  <2> DEFINE rec == [load[l] EXCEPT !.pc = "planned", !.plan = Load!Sorted(plan),
                                    !.left = Load!FilesOf(plan)]
             items == Load!SetItemRanges(Load!Own(l), l, Load!Sorted(plan))
             new == IF Load!Own(l).dcp THEN Load!StartProgress(items) ELSE Load!Own(l)
  <2>1. /\ load' = [load EXCEPT ![l] = rec] /\ con' = [con EXCEPT ![uses[l]] = new]
        /\ uses' = uses
    BY <1>0, <1>1 DEF Load!Plan, Load!Planned, Load!SetLoad, Load!SetCon
  <2>2. IsLoad(rec) /\ rec.pc \in Busy
    BY <1>0 DEF IsLoad, Busy
  <2>3. KnowsItsBar(items) /\ OpenBars(items) = {}
    BY <1>0, SetItemRangesFacts
  <2> HIDE DEF items
  <2>4. KnowsItsBar(new)
    BY <1>0, <2>3, StartProgressFacts
  <2> HIDE DEF rec, new
  <2> QED
    BY <2>1, <2>2, <2>4, LoadStep
<1>2. ASSUME NEW l \in Loads, NEW plan \in Plans, Load!PlanFails(l, plan)
      PROVE  BarInv'
  <2> DEFINE rec == [load[l] EXCEPT !.pc = "aborted", !.plan = Load!Sorted(plan),
                                    !.left = Load!FilesOf(plan)]
             items == Load!SetItemRanges(Load!Own(l), l, Load!Sorted(plan))
  <2>1. load' = [load EXCEPT ![l] = rec] /\ uses' = uses
    BY <1>2 DEF Load!PlanFails, Load!Planned, Load!SetLoad
  <2>2. PICK new \in {Load!Own(l), items} : con' = [con EXCEPT ![uses[l]] = new]
    BY <1>0, <1>2 DEF Load!PlanFails, Load!SetCon
  <2>3. IsLoad(rec) /\ rec.pc \in Busy
    BY <1>0 DEF IsLoad, Busy
  <2>4. KnowsItsBar(items)
    BY <1>0, SetItemRangesFacts
  <2> HIDE DEF items, rec
  <2>5. KnowsItsBar(new)
    BY <1>0, <2>2, <2>4
  <2> QED
    BY <2>1, <2>2, <2>3, <2>5, LoadStep
<1>3. ASSUME NEW l \in Loads, Load!OtherRankFails(l)
      PROVE  BarInv'
  <2> DEFINE rec == [load[l] EXCEPT !.pc = "aborted"]
  <2>1. load' = [load EXCEPT ![l] = rec] /\ con' = con /\ uses' = uses
    BY <1>3 DEF Load!OtherRankFails, Load!SetLoad
  <2>2. IsLoad(rec) /\ rec.pc \in Busy
    BY <1>0 DEF IsLoad, Busy
  <2> HIDE DEF rec
  <2> QED
    BY <1>0, <2>1, <2>2, LoadStep
<1>4. ASSUME NEW l \in Loads, NEW f, Load!OpenFile(l, f)
      PROVE  BarInv'
  <2>1. PICK reader : /\ load' = [load EXCEPT ![l] = [load[l] EXCEPT
                             !.pc = "reading", !.left = @ \ {f}, !.reader = reader]]
                      /\ con' = con /\ uses' = uses
    BY <1>4 DEF Load!OpenFile, Load!SetLoad
  <2> DEFINE rec == [load[l] EXCEPT !.pc = "reading", !.left = @ \ {f}, !.reader = reader]
  <2>2. IsLoad(rec) /\ rec.pc \in Busy
    BY <1>0 DEF IsLoad, Busy
  <2>3. load' = [load EXCEPT ![l] = rec]
    BY <2>1
  <2> HIDE DEF rec
  <2> QED
    BY <1>0, <2>1, <2>2, <2>3, LoadStep
<1>5. ASSUME NEW l \in Loads, NEW f, Load!OpenRejected(l, f)
      PROVE  BarInv'
  BY <1>0, <1>5, EndStep DEF Load!OpenRejected
<1>6. ASSUME NEW l \in Loads, Load!ReadItem(l)
      PROVE  BarInv'
  <2>1. PICK i, to :
          /\ load' = [load EXCEPT ![l] = [load[l] EXCEPT
               !.reader.item = @ + 1, !.reader.at = i, !.reader.fetched = to]]
          /\ con' = [con EXCEPT ![uses[l]] =
               Load!UpdateProgress(l, Load!Fetched(load[l].reader, i, to))]
    BY <1>6 DEF Load!ReadItem, Load!SetLoad, Load!SetCon
  <2> DEFINE rec == [load[l] EXCEPT
               !.reader.item = @ + 1, !.reader.at = i, !.reader.fetched = to]
             new == Load!UpdateProgress(l, Load!Fetched(load[l].reader, i, to))
  <2>2. load' = [load EXCEPT ![l] = rec] /\ con' = [con EXCEPT ![uses[l]] = new]
    BY <2>1
  <2>3. load[l].pc = "reading" /\ uses' = uses
    BY <1>6 DEF Load!ReadItem, Load!MoreItems
  <2>4. IsLoad(rec) /\ rec.pc = load[l].pc
    BY <1>0 DEF IsLoad
  <2>5. KnowsItsBar(new)
    BY <1>0, UpdateProgressFacts
  <2>6. rec.pc \in Busy
    BY <2>3, <2>4 DEF Busy
  <2> HIDE DEF rec, new
  <2> QED
    BY <2>2, <2>3, <2>4, <2>5, <2>6, LoadStep
<1>7. ASSUME NEW l \in Loads, Load!ReadRejected(l)
      PROVE  BarInv'
  BY <1>0, <1>7, EndStep DEF Load!ReadRejected
<1>8. ASSUME NEW l \in Loads, Load!ReadFails(l)
      PROVE  BarInv'
  <2>1. uses' = uses
    BY <1>8 DEF Load!ReadFails
  <2>2. CASE Load!ReadDataEnds(l, "raised", Load!Own(l))
    BY <1>0, <2>1, <2>2, EndStep
  <2>3. ASSUME NEW i, NEW to,
               Load!ReadDataEnds(l, "raised",
                 Load!UpdateProgress(l, Load!Fetched(load[l].reader, i, to)))
        PROVE  BarInv'
    <3> DEFINE bytes == Load!Fetched(load[l].reader, i, to)
    <3>1. KnowsItsBar(Load!UpdateProgress(l, bytes))
      BY <1>0, UpdateProgressFacts
    <3> QED
      BY <2>1, <2>3, <3>1, EndStep
  <2> QED
    BY <1>8, <2>2, <2>3 DEF Load!ReadFails
<1>9. ASSUME NEW l \in Loads, Load!CloseFile(l)
      PROVE  BarInv'
  <2> DEFINE rec == [load[l] EXCEPT !.reader = Load!NoReader]
  <2>1. load' = [load EXCEPT ![l] = rec] /\ con' = con /\ uses' = uses
    BY <1>9 DEF Load!CloseFile, Load!SetLoad
  <2>2. load[l].pc = "reading"
    BY <1>9 DEF Load!CloseFile
  <2>3. IsLoad(rec) /\ rec.pc = load[l].pc
    BY <1>0 DEF IsLoad
  <2>4. rec.pc \in Busy
    BY <2>2, <2>3 DEF Busy
  <2> HIDE DEF rec
  <2> QED
    BY <1>0, <2>1, <2>3, <2>4, LoadStep
<1>10. ASSUME NEW l \in Loads, Load!Finish(l)
       PROVE  BarInv'
  BY <1>0, <1>10, EndStep DEF Load!Finish
<1> QED
  BY <1>1, <1>2, <1>3, <1>4, <1>5, <1>6, <1>7, <1>8, <1>9, <1>10
  DEF Load!Next, Load!Read

LEMMA BarIsKnown ==
  ASSUME BarInv
  PROVE  Load!NoBarForgotten
<1> SUFFICES ASSUME NEW c \in Constructors, NEW i \in 1..Len(con[c].bars),
                    con[c].bars[i].open
             PROVE  /\ i = con[c].bar
                    /\ \E l \in Loads : uses[l] = c /\
                         (Load!Reading(l) \/ load[l].pc = "aborted")
  BY DEF Load!NoBarForgotten
<1>1. i \in OpenBars(con[c])
  BY DEF OpenBars
<1>2. i = con[c].bar
  BY <1>1 DEF BarInv, KnowsItsBar
<1>3. PICK l \in Loads : uses[l] = c /\ load[l].pc \in Busy
  BY <1>1 DEF BarInv
<1> QED
  BY <1>2, <1>3 DEF Busy, Load!Reading

(***************************************************************************)
(* No load leaves an open bar behind, whether it returns, raises or is     *)
(* rejected, and whoever else has the constructor: the bar that is open is *)
(* the constructor's, and one of its loads is between plan and end, or     *)
(* failed before read_data was called (prepare_local_plan, read_data and   *)
(* close_progress).                                                        *)
(***************************************************************************)
THEOREM BarsAreClosed == MCSpec => []NoBarForgotten
<1> DEFINE Inv == job = "load" => BarInv
<1>1. MCInit => Inv
  BY LoadAssumption, BarInitInvariant DEF MCInit
<1>2. Inv /\ [MCNext]_allVars => Inv'
  <2> SUFFICES ASSUME Inv, [MCNext]_allVars, job' = "load"
               PROVE  BarInv'
    OBVIOUS
  <2>1. CASE job = "save" /\ Next /\ UNCHANGED <<job, loadVars>>
    BY <2>1
  <2>2. CASE job = "load" /\ Load!Next /\ UNCHANGED <<job, vars>>
    BY <2>2, BarStepInvariant
  <2>3. CASE UNCHANGED allVars
    BY <2>3
    DEF allVars, loadVars, BarInv, KnowsItsBar, ConTypes, OpenBars, IsBar, IsLoad
  <2> QED
    BY <2>1, <2>2, <2>3 DEF MCNext
<1>3. Inv => NoBarForgotten
  BY BarIsKnown DEF NoBarForgotten
<1> QED
  BY <1>1, <1>2, <1>3, PTL DEF MCSpec

-----------------------------------------------------------------------------
(* Loading: the plan, the ranges that are injected, and the reader.        *)
(*                                                                         *)
(* Load! names of DCPRanges are those of RangesProofs.                     *)
LEMMA LoadRanges ==
  /\ \A S : Load!Cardinality(S) = Cardinality(S)
  /\ \A s, I : Load!Subsequence(s, I) = Subsequence(s, I)
  /\ \A r : Load!NonEmptyRanges(r) = NonEmptyRanges(r) /\ Load!Accepted(r) = Accepted(r)
<1>1. \A S : Load!Cardinality(S) = Cardinality(S)
  BY DEF Load!Cardinality, Cardinality
<1>2. \A S : Load!Listed(S) = Listed(S)
  BY <1>1 DEF Load!Listed, Listed
<1>3. \A s, I : Load!Subsequence(s, I) = Subsequence(s, I)
  BY <1>1, <1>2 DEF Load!Subsequence, Subsequence
<1>4. \A r : Load!NonEmptyRanges(r) = NonEmptyRanges(r)
  BY <1>3 DEF Load!NonEmptyRanges, NonEmptyRanges
<1>5. \A r : Load!Accepted(r) = Accepted(r)
  BY DEF Load!Accepted, Accepted, Load!FollowOk, FollowOk
<1> QED BY <1>1, <1>3, <1>4, <1>5

(* A plan as prepare_local_plan leaves it: its items are not empty and     *)
(* sorted by their offsets, those of different files among each other.     *)
PlanItems(p) == [file : Load!FilesOf(p) \ {Load!None}, start : Nat, end : Nat]

IsSortedPlan(p) ==
  /\ p \in Seq(PlanItems(p))
  /\ \A i \in 1..Len(p) : p[i].start < p[i].end
  /\ \A i, j \in 1..Len(p) : i < j => p[i].start <= p[j].start

LEMMA PlanItemType ==
  ASSUME NEW p, NEW T, p \in Seq([file : T, start : Nat, end : Nat]), NEW i \in 1..Len(p)
  PROVE  /\ p[i] \in [file : T, start : Nat, end : Nat]
         /\ p[i].file \in T /\ p[i].start \in Nat /\ p[i].end \in Nat
<1>1. p[i] \in [file : T, start : Nat, end : Nat]
  BY ElementOfSeq
<1> QED BY <1>1

LEMMA PositionsFacts ==
  ASSUME NEW n \in Nat
  PROVE  IsFiniteSet(1..n) /\ Cardinality(1..n) = n
BY FS_Interval

(* The sort of prepare_local_plan is one: its items are those of the plan. *)
LEMMA SortedFacts ==
  ASSUME Load!LoadAssumption, NEW p \in Plans
  PROVE  IsSortedPlan(Load!Sorted(p)) /\ Load!FilesOf(Load!Sorted(p)) = Load!FilesOf(p)
<1> DEFINE n == Len(p)
           T == Load!FilesOf(p) \ {Load!None}
           Before(i, j) == \/ p[i].start < p[j].start
                           \/ p[i].start = p[j].start /\ i < j
           Orders(at) == /\ at \in [1..n -> 1..n]
                         /\ \A j, k \in 1..n : j < k => Before(at[j], at[k])
<1>1. /\ p \in Seq([file : T, start : Nat, end : Nat]) /\ n \in Nat
      /\ \A i \in 1..n : p[i].start < p[i].end
  <2>1. p \in Seq([file : T, start : Nat, end : Nat])
    BY Zenon DEF Load!LoadAssumption
  <2>2. \A i \in 1..n : p[i].start < p[i].end
    BY Zenon DEF Load!LoadAssumption
  <2> HIDE DEF T
  <2>3. n \in Nat
    BY <2>1
  <2> QED BY <2>1, <2>2, <2>3
<1> HIDE DEF T
<1>2. \A i \in 1..n : /\ p[i] \in [file : T, start : Nat, end : Nat]
                      /\ p[i].file \in T /\ p[i].start \in Nat /\ p[i].end \in Nat
  BY <1>1, PlanItemType
<1> HIDE DEF n
<1>3. \E at : Orders(at)
  <2> DEFINE S == 1..n
             R == {e \in S \X S : Before(e[1], e[2])}
  <2>1. IsFiniteSet(S) /\ Cardinality(S) = n
    BY <1>1, PositionsFacts
  <2>2. \A i, j \in S : <<i, j>> \in R <=> Before(i, j)
    OBVIOUS
  <2>3. /\ \A i \in S : ~Before(i, i)
        /\ \A i, j, k \in S : Before(i, j) /\ Before(j, k) => Before(i, k)
        /\ \A i, j \in S : i # j => Before(i, j) \/ Before(j, i)
    <3>1. /\ \A i \in S : i \in Nat /\ p[i].start \in Nat
      BY <1>1, <1>2
    <3> HIDE DEF S
    <3>2. \A i \in S : ~Before(i, i)
      BY <3>1
    <3>3. \A i, j \in S : i # j => Before(i, j) \/ Before(j, i)
      BY <3>1
    <3>4. \A i, j, k \in S : Before(i, j) /\ Before(j, k) => Before(i, k)
      BY <3>1
    <3> QED BY <3>2, <3>3, <3>4
  <2> HIDE DEF S, R, Before
  <2>4. /\ \A x \in S : <<x, x>> \notin R
        /\ \A x, y, z \in S : <<x, y>> \in R /\ <<y, z>> \in R => <<x, z>> \in R
        /\ \A x, y \in S : x # y => <<x, y>> \in R \/ <<y, x>> \in R
    BY <2>2, <2>3
  <2>5. PICK s \in [1..Cardinality(S) -> S] :
          \A i, j \in 1..Cardinality(S) : i < j => <<s[i], s[j]>> \in R
    BY <2>1, <2>4, OrderedList
  <2>6. \A j, k \in 1..n : j < k => Before(s[j], s[k])
    BY <2>1, <2>2, <2>5
  <2>7. s \in [1..n -> 1..n]
    BY <2>1, <2>5 DEF S
  <2> QED BY <2>6, <2>7
<1> DEFINE at == CHOOSE at \in [1..n -> 1..n] :
                   \A j, k \in 1..n : j < k => Before(at[j], at[k])
           q == Load!Sorted(p)
<1>4. at \in [1..n -> 1..n] /\ \A j, k \in 1..n : j < k => Before(at[j], at[k])
  <2> HIDE DEF Before
  <2> QED BY <1>3
<1>5. q = [k \in 1..n |-> p[at[k]]]
  BY DEF Load!Sorted, n
<1> HIDE DEF q, at
<1>6. Len(q) = n /\ \A k \in 1..n : at[k] \in 1..n /\ q[k] = p[at[k]]
  BY <1>1, <1>4, <1>5
<1>7. \A i \in 1..n : \E k \in 1..n : at[k] = i
  <2>1. IsFiniteSet(1..n) /\ Cardinality(1..n) = n
    BY <1>1, PositionsFacts
  <2>2. \A j, k \in 1..n : j < k => at[j] # at[k]
    <3> SUFFICES ASSUME NEW j \in 1..n, NEW k \in 1..n, j < k PROVE at[j] # at[k]
      OBVIOUS
    <3>1. Before(at[j], at[k]) /\ at[j] \in 1..n /\ at[k] \in 1..n
      BY <1>4, <1>6
    <3>2. p[at[j]].start \in Nat /\ p[at[k]].start \in Nat
      BY <1>2, <3>1
    <3>3. j \in Nat /\ k \in Nat /\ at[j] \in Nat /\ at[k] \in Nat
      BY <1>1, <3>1
    <3> QED BY <3>1, <3>2, <3>3
  <2> DEFINE S == 1..n
  <2>3. \A j, k \in 1..Cardinality(S) : j < k => at[j] # at[k]
    BY <2>1, <2>2
  <2>4. at \in [1..Cardinality(S) -> S] /\ IsFiniteSet(S)
    BY <1>4, <2>1
  <2>5. Cardinality(S) = n
    BY <2>1
  <2> HIDE DEF S
  <2>6. \A x \in S : \E i \in 1..Cardinality(S) : at[i] = x
    BY <2>3, <2>4, ListIsOnto
  <2> QED BY <2>5, <2>6 DEF S
<1>8. Load!FilesOf(q) = Load!FilesOf(p)
  <2>1. Load!FilesOf(q) = {q[k].file : k \in 1..n} /\ Load!FilesOf(p) = {p[i].file : i \in 1..n}
    BY <1>6 DEF Load!FilesOf, n
  <2>2. \A k \in 1..n : q[k].file \in {p[i].file : i \in 1..n}
    BY <1>6
  <2>3. \A i \in 1..n : p[i].file \in {q[k].file : k \in 1..n}
    BY <1>6, <1>7
  <2> QED BY <2>1, <2>2, <2>3
<1>9. q \in Seq(PlanItems(q))
  <2>1. PlanItems(q) = [file : T, start : Nat, end : Nat]
    BY <1>8 DEF PlanItems, T
  <2>2. \A k \in 1..n : p[at[k]] \in PlanItems(q)
    BY <1>2, <1>6, <2>1
  <2> QED BY <1>1, <1>5, <2>2
<1>10. \A i \in 1..n : q[i].start < q[i].end
  BY <1>1, <1>6
<1>11. \A i, j \in 1..n : i < j => q[i].start <= q[j].start
  <2> SUFFICES ASSUME NEW i \in 1..n, NEW j \in 1..n, i < j PROVE q[i].start <= q[j].start
    OBVIOUS
  <2>1. Before(at[i], at[j])
    BY <1>4
  <2>2. p[at[i]].start \in Nat /\ p[at[j]].start \in Nat
    BY <1>2, <1>6
  <2>3. p[at[i]].start <= p[at[j]].start
    BY <2>1, <2>2
  <2> QED BY <1>6, <2>3
<1> QED BY <1>6, <1>8, <1>9, <1>10, <1>11 DEF IsSortedPlan, q

(* The ranges of a file of the plan: sorted, not empty, and accepted by    *)
(* the reader unless two items of the plan overlap.                        *)
RangesFit(r, p) ==
  /\ r \in Seq(ByteRanges)
  /\ \A i \in 1..Len(r) : r[i].start \in Nat /\ r[i].end \in Nat /\ r[i].start < r[i].end
  /\ \A i, j \in 1..Len(r) : i < j => r[i].start <= r[j].start
  /\ NonEmptyRanges(r) = r
  /\ r # <<>> /\ Load!Disjoint(p) => Accepted(r)

LEMMA RangesOfFacts ==
  ASSUME NEW p, IsSortedPlan(p), NEW f
  PROVE  /\ RangesFit(Load!RangesOf(p, f), p)
         /\ f \in Load!FilesOf(p) => Load!RangesOf(p, f) # <<>>
<1> DEFINE n == Len(p)
           spans == [i \in 1..n |-> Load!Span(p[i].start, p[i].end)]
           I == {i \in 1..n : p[i].file = f}
           r == Load!RangesOf(p, f)
<1>1. /\ n \in Nat
      /\ \A i \in 1..n : p[i].start \in Nat /\ p[i].end \in Nat /\ p[i].start < p[i].end
      /\ \A i, j \in 1..n : i < j => p[i].start <= p[j].start
  <2>1. p \in Seq(PlanItems(p))
    BY DEF IsSortedPlan
  <2>2. n \in Nat
    BY <2>1
  <2>3. \A i \in 1..n : p[i].start \in Nat /\ p[i].end \in Nat
    BY <2>1, PlanItemType DEF PlanItems
  <2> QED BY <2>2, <2>3 DEF IsSortedPlan
<1>2. /\ spans \in Seq(ByteRanges) /\ Len(spans) = n
      /\ \A i \in 1..n : spans[i].start = p[i].start /\ spans[i].end = p[i].end
  <2>1. \A i \in 1..n : Load!Span(p[i].start, p[i].end) \in ByteRanges
    BY <1>1 DEF Load!Span, ByteRanges
  <2>2. spans \in Seq(ByteRanges) /\ Len(spans) = n
    BY <1>1, <2>1
  <2> QED BY <2>2 DEF Load!Span
<1>3. r = Subsequence(spans, I) /\ I \in SUBSET (1..n)
  BY LoadRanges DEF Load!RangesOf
<1>4. \A i \in I : p[i].file = f
  OBVIOUS
<1>5. f \in Load!FilesOf(p) => I # {}
  BY DEF Load!FilesOf
<1> HIDE DEF spans, I, r
<1>6. r \in Seq(ByteRanges) /\ Selects(r, spans, I)
  BY <1>2, <1>3, SubsequenceFacts
<1>7. PICK at \in [1..Len(r) -> I] :
        /\ \A j, k \in 1..Len(r) : j < k => at[j] < at[k]
        /\ \A i \in I : \E k \in 1..Len(r) : at[k] = i
        /\ \A k \in 1..Len(r) : r[k] = spans[at[k]]
  BY <1>6 DEF Selects
<1>8. Len(r) \in Nat
  BY <1>6
<1>9. \A k \in 1..Len(r) : /\ at[k] \in 1..n /\ at[k] \in I
                           /\ r[k].start = p[at[k]].start /\ r[k].end = p[at[k]].end
  BY <1>2, <1>3, <1>7
<1>10. \A i \in 1..Len(r) : r[i].start \in Nat /\ r[i].end \in Nat /\ r[i].start < r[i].end
  BY <1>1, <1>9
<1>11. ASSUME NEW i \in 1..Len(r), NEW j \in 1..Len(r), i < j
       PROVE  r[i].start <= r[j].start
  <2>1. at[i] \in 1..n /\ at[j] \in 1..n /\ at[i] < at[j]
    BY <1>7, <1>9, <1>11
  <2>2. p[at[i]].start <= p[at[j]].start
    BY <1>1, <2>1
  <2> QED BY <1>9, <2>2
<1>12. NonEmptyRanges(r) = r
  <2>1. \A i \in 1..Len(r) : r[i].end # r[i].start
    BY <1>10
  <2> QED BY <1>6, <2>1, NonEmptyFacts
<1>13. ASSUME r # <<>>, Load!Disjoint(p)
       PROVE  Accepted(r)
  <2>1. 1 \in 1..Len(r)
    BY <1>6, <1>8, <1>13
  <2>2. ASSUME NEW i \in 2..Len(r)
        PROVE  FollowOk(r[i-1], r[i])
    <3>1. i - 1 \in 1..Len(r) /\ i \in 1..Len(r) /\ i - 1 < i
      BY <1>8
    <3> DEFINE a == at[i-1]
               b == at[i]
    <3>2. /\ a \in 1..n /\ b \in 1..n /\ a < b /\ p[a].file = p[b].file
          /\ r[i-1].start = p[a].start /\ r[i-1].end = p[a].end
          /\ r[i].start = p[b].start /\ r[i].end = p[b].end
      BY <1>4, <1>7, <1>9, <3>1
    <3> HIDE DEF a, b
    <3>3. p[a].end <= p[b].start \/ p[b].end <= p[a].start
      BY <1>13, <3>2 DEF Load!Disjoint
    <3>4. p[a].start <= p[b].start
      BY <1>1, <3>2
    <3>5. p[a].end <= p[b].start /\ p[b].start < p[b].end
      BY <1>1, <3>2, <3>3, <3>4
    <3> QED BY <3>2, <3>5 DEF FollowOk
  <2>3. 0 <= r[1].start /\ r[1].start <= r[1].end
    BY <1>10, <2>1
  <2> QED BY <1>13, <2>2, <2>3 DEF Accepted
<1>14. f \in Load!FilesOf(p) => r # <<>>
  <2> SUFFICES ASSUME I # {} PROVE r # <<>>
    BY <1>5
  <2>1. PICK i \in I : TRUE
    OBVIOUS
  <2>2. PICK k \in 1..Len(r) : at[k] = i
    BY <1>7
  <2> QED BY <1>8, <2>2
<1> QED BY <1>6, <1>10, <1>12, <1>13, <1>14, <1>11 DEF RangesFit, r

(* What the methods of the constructor leave as it is.                     *)
SamePlan(c, d) == d.dcp = c.dcp /\ d.ranges = c.ranges /\ d.by = c.by

LEMMA BarsOnly ==
  ASSUME NEW c, KnowsItsBar(c)
  PROVE  /\ SamePlan(c, Load!CloseProgress(c)) /\ SamePlan(c, Load!StartProgress(c))
         /\ \A l \in Loads : \A bytes : c = Load!Own(l) => SamePlan(c, Load!UpdateProgress(l, bytes))
<1>1. c = [dcp |-> c.dcp, progress |-> c.progress, ranges |-> c.ranges, by |-> c.by,
           bars |-> c.bars, bar |-> c.bar]
  BY DEF KnowsItsBar, ConTypes
<1>2. \A bars, bar : SamePlan(c, [c EXCEPT !.bars = bars, !.bar = bar])
  BY <1>1 DEF SamePlan
<1>3. \A bars : SamePlan(c, [c EXCEPT !.bars = bars])
  BY <1>1 DEF SamePlan
<1>4. SamePlan(c, c)
  BY DEF SamePlan
<1>5. SamePlan(c, Load!CloseProgress(c))
  BY <1>2, <1>4 DEF Load!CloseProgress
<1>6. SamePlan(c, Load!StartProgress(c))
  BY <1>2, <1>4 DEF Load!StartProgress
<1>7. ASSUME NEW l \in Loads, NEW bytes, c = Load!Own(l)
      PROVE  SamePlan(c, Load!UpdateProgress(l, bytes))
  BY <1>3, <1>4, <1>7 DEF Load!UpdateProgress
<1> QED BY <1>5, <1>6, <1>7

LEMMA InjectedPlan ==
  ASSUME NEW c, KnowsItsBar(c), NEW l, NEW plan
  PROVE  LET d == Load!SetItemRanges(c, l, plan)
         IN  /\ d.dcp = c.dcp /\ d.by = l
             /\ d.ranges = [f \in Load!FilesOf(plan) |-> Load!RangesOf(plan, f)]
<1> DEFINE d == Load!CloseProgress(c)
           m == [f \in Load!FilesOf(plan) |-> Load!RangesOf(plan, f)]
<1>1. /\ d = [dcp |-> d.dcp, progress |-> d.progress, ranges |-> d.ranges, by |-> d.by,
              bars |-> d.bars, bar |-> d.bar]
      /\ d.dcp = c.dcp
  BY CloseProgressFacts DEF KnowsItsBar, ConTypes
<1>2. Load!SetItemRanges(c, l, plan) = [d EXCEPT !.ranges = m, !.by = l]
  BY DEF Load!SetItemRanges
<1> HIDE DEF d, m
<1> QED BY <1>1, <1>2 DEF m

IsReader(r) ==
  r = [file |-> r.file, ranges |-> r.ranges, reports |-> r.reports, item |-> r.item,
       at |-> r.at, fetched |-> r.fetched]

IsLoadRecord(r) ==
  /\ r = [pc |-> r.pc, plan |-> r.plan, left |-> r.left, reader |-> r.reader]
  /\ IsReader(r.reader) /\ IsSortedPlan(r.plan)

(* The updates of the record that the actions make.                        *)
LEMMA RecordUpdates ==
  ASSUME NEW r, r = [pc |-> r.pc, plan |-> r.plan, left |-> r.left, reader |-> r.reader],
         NEW pc, NEW plan, NEW left, NEW reader, NEW u
  PROVE  /\ u = [r EXCEPT !.pc = pc] =>
              u = [pc |-> pc, plan |-> r.plan, left |-> r.left, reader |-> r.reader]
         /\ u = [r EXCEPT !.reader = reader] =>
              u = [pc |-> r.pc, plan |-> r.plan, left |-> r.left, reader |-> reader]
         /\ u = [r EXCEPT !.pc = pc, !.reader = reader] =>
              u = [pc |-> pc, plan |-> r.plan, left |-> r.left, reader |-> reader]
         /\ u = [r EXCEPT !.pc = pc, !.left = left, !.reader = reader] =>
              u = [pc |-> pc, plan |-> r.plan, left |-> left, reader |-> reader]
         /\ u = [r EXCEPT !.pc = pc, !.plan = plan, !.left = left] =>
              u = [pc |-> pc, plan |-> plan, left |-> left, reader |-> r.reader]
<1>1. ASSUME u = [r EXCEPT !.pc = pc]
      PROVE  u = [pc |-> pc, plan |-> r.plan, left |-> r.left, reader |-> r.reader]
  BY <1>1
<1>2. ASSUME u = [r EXCEPT !.reader = reader]
      PROVE  u = [pc |-> r.pc, plan |-> r.plan, left |-> r.left, reader |-> reader]
  BY <1>2
<1>3. ASSUME u = [r EXCEPT !.pc = pc, !.reader = reader]
      PROVE  u = [pc |-> pc, plan |-> r.plan, left |-> r.left, reader |-> reader]
  BY <1>3
<1>4. ASSUME u = [r EXCEPT !.pc = pc, !.left = left, !.reader = reader]
      PROVE  u = [pc |-> pc, plan |-> r.plan, left |-> left, reader |-> reader]
  BY <1>4
<1>5. ASSUME u = [r EXCEPT !.pc = pc, !.plan = plan, !.left = left]
      PROVE  u = [pc |-> pc, plan |-> plan, left |-> left, reader |-> r.reader]
  BY <1>5
<1> QED BY <1>1, <1>2, <1>3, <1>4, <1>5

LEMMA ReaderUpdates ==
  ASSUME NEW r, IsReader(r), NEW item, NEW at, NEW fetched, NEW u,
         u = [r EXCEPT !.item = item, !.at = at, !.fetched = fetched]
  PROVE  u = [file |-> r.file, ranges |-> r.ranges, reports |-> r.reports, item |-> item,
              at |-> at, fetched |-> fetched]
BY DEF IsReader

(* The reader after OpenFile, and the record of a load after ReadItem.     *)
LEMMA OpenedReader ==
  ASSUME NEW f, NEW reports, NEW ranges, NEW d,
         d = [Load!NoReader EXCEPT !.file = f, !.reports = reports, !.ranges = ranges]
  PROVE  d = [file |-> f, ranges |-> ranges, reports |-> reports, item |-> 0, at |-> 0,
              fetched |-> 0]
BY DEF Load!NoReader

LEMMA ReadRecord ==
  ASSUME NEW r, IsLoadRecord(r), NEW i, NEW to, NEW u,
         u = [r EXCEPT !.reader.item = @ + 1, !.reader.at = i, !.reader.fetched = to]
  PROVE  u = [pc |-> r.pc, plan |-> r.plan, left |-> r.left,
              reader |-> [file |-> r.reader.file, ranges |-> r.reader.ranges,
                          reports |-> r.reader.reports, item |-> r.reader.item + 1,
                          at |-> i, fetched |-> to]]
<1> DEFINE item == r.reader.item + 1
           d == [r.reader EXCEPT !.item = item, !.at = i, !.fetched = to]
<1>1. u = [r EXCEPT !.reader = d]
  OBVIOUS
<1>2. d = [r.reader EXCEPT !.item = item, !.at = i, !.fetched = to]
  OBVIOUS
<1> HIDE DEF item, d
<1>3. u = [pc |-> r.pc, plan |-> r.plan, left |-> r.left, reader |-> d]
  BY <1>1, RecordUpdates DEF IsLoadRecord
<1>4. IsReader(r.reader)
  BY DEF IsLoadRecord
<1>5. d = [file |-> r.reader.file, ranges |-> r.reader.ranges, reports |-> r.reader.reports,
           item |-> item, at |-> i, fetched |-> to]
  BY <1>2, <1>4, ReaderUpdates
<1> QED BY <1>3, <1>5 DEF item

(* What the load l, with the record r, may rely on in its constructor c.   *)
(* Between plan and end the ranges are those of some plan, and of its own  *)
(* one if no other load came after; the reader of a file then has all of   *)
(* its ranges and, since they do not overlap, is one item behind the next. *)
Injected(r, c, l) ==
  r.pc \in {"planned", "reading"} =>
    /\ r.left \subseteq Load!FilesOf(r.plan)
    /\ c.dcp => c.by # Load!None
    /\ c.by = l => c.ranges = [f \in Load!FilesOf(r.plan) |-> Load!RangesOf(r.plan, f)]

ReaderOk(r, c, l) ==
  r.reader.file # Load!None =>
    /\ r.pc = "reading"
    /\ c.by \in {l, Load!None} => r.reader.ranges = Load!RangesOf(r.plan, r.reader.file)
    /\ c.by = l => /\ Accepted(r.reader.ranges)
                   /\ r.reader.item \in Nat /\ r.reader.at = r.reader.item

PlanOk(r, c, l) ==
  /\ Injected(r, c, l) /\ ReaderOk(r, c, l)
  /\ c.by # Load!None => c.dcp
  /\ r.pc = "rejected" /\ c.by = l => ~Load!Disjoint(r.plan)

PlanInv ==
  /\ BarInv
  /\ \A l \in Loads : IsLoadRecord(load[l]) /\ PlanOk(load[l], con[uses[l]], l)

(* A step of the load l keeps what the other loads rely on, if it leaves   *)
(* the ranges alone or puts those of l in their place.                     *)
LEMMA PlanStep ==
  ASSUME PlanInv, Load!None \notin Loads, NEW l \in Loads, NEW rec, NEW new,
         IsLoadRecord(rec), PlanOk(rec, new, l),
         SamePlan(con[uses[l]], new) \/ (new.by = l /\ new.dcp),
         load' = [load EXCEPT ![l] = rec], con' = [con EXCEPT ![uses[l]] = new],
         uses' = uses, BarInv'
  PROVE  PlanInv'
<1>1. uses[l] \in Constructors /\ \A k \in Loads : uses[k] \in Constructors
  BY DEF PlanInv, BarInv
<1>2. load = [k \in Loads |-> load[k]] /\ con = [c \in Constructors |-> con[c]]
  BY DEF PlanInv, BarInv
<1>3. load'[l] = rec /\ \A k \in Loads : k # l => load'[k] = load[k]
  BY <1>2
<1>4. con'[uses[l]] = new /\ \A c \in Constructors : c # uses[l] => con'[c] = con[c]
  BY <1>1, <1>2
<1>5. ASSUME NEW k \in Loads
      PROVE  IsLoadRecord(load'[k]) /\ PlanOk(load'[k], con'[uses[k]], k)
  <2>1. CASE k = l
    BY <1>3, <1>4, <2>1
  <2>2. CASE k # l
    <3>1. load'[k] = load[k] /\ IsLoadRecord(load[k]) /\ PlanOk(load[k], con[uses[k]], k)
      BY <1>3, <2>2 DEF PlanInv
    <3>2. CASE uses[k] # uses[l]
      BY <1>1, <1>4, <3>1, <3>2
    <3>3. CASE uses[k] = uses[l] /\ SamePlan(con[uses[l]], new)
      <4>1. PlanOk(load[k], con[uses[l]], k)
        BY <3>1, <3>3
      <4>2. PlanOk(load[k], new, k)
        BY <3>3, <4>1 DEF PlanOk, Injected, ReaderOk, SamePlan
      <4> QED BY <1>4, <3>1, <3>3, <4>2
    <3>4. CASE uses[k] = uses[l] /\ new.by = l /\ new.dcp
      <4>1. new.by # Load!None /\ new.by # k
        BY <2>2, <3>4
      <4>2. PlanOk(load[k], new, k)
        BY <3>1, <3>4, <4>1 DEF PlanOk, Injected, ReaderOk
      <4> QED BY <1>4, <3>1, <3>4, <4>2
    <3> QED BY <3>2, <3>3, <3>4
  <2> QED BY <2>1, <2>2
<1>6. PlanInv' = (BarInv' /\ \A k \in Loads :
                    IsLoadRecord(load'[k]) /\ PlanOk(load'[k], con'[uses'[k]], k))
  BY DEF PlanInv
<1> QED BY <1>5, <1>6

(* read_data ends: only a load whose items overlap may have been rejected. *)
LEMMA EndPlan ==
  ASSUME PlanInv, Load!None \notin Loads, NEW l \in Loads, NEW pc, NEW c,
         KnowsItsBar(c), SamePlan(Load!Own(l), c), pc \notin {"planned", "reading"},
         pc = "rejected" /\ c.by = l => ~Load!Disjoint(load[l].plan),
         Load!ReadDataEnds(l, pc, c), uses' = uses, BarInv'
  PROVE  PlanInv'
<1> DEFINE rec == [load[l] EXCEPT !.pc = pc, !.reader = Load!NoReader]
           new == IF c.dcp THEN Load!CloseProgress(c) ELSE c
<1>1. load' = [load EXCEPT ![l] = rec] /\ con' = [con EXCEPT ![uses[l]] = new]
  BY DEF Load!ReadDataEnds, Load!SetLoad, Load!SetCon
<1>2. /\ IsLoadRecord(load[l]) /\ PlanOk(load[l], con[uses[l]], l)
      /\ Load!Own(l) = con[uses[l]]
  BY DEF PlanInv, Load!Own
<1>3. SamePlan(c, new)
  BY BarsOnly DEF SamePlan
<1>4. SamePlan(con[uses[l]], new) /\ new.by = c.by
  BY <1>2, <1>3 DEF SamePlan
<1>5. rec = [pc |-> pc, plan |-> load[l].plan, left |-> load[l].left,
             reader |-> Load!NoReader]
  <2>1. rec = [load[l] EXCEPT !.pc = pc, !.reader = Load!NoReader]
    OBVIOUS
  <2> HIDE DEF rec
  <2> QED BY <1>2, <2>1, RecordUpdates DEF IsLoadRecord
<1>6. Load!NoReader.file = Load!None /\ IsReader(Load!NoReader)
  BY DEF Load!NoReader, IsReader
<1> HIDE DEF rec, new
<1>7. IsLoadRecord(rec)
  BY <1>2, <1>5, <1>6 DEF IsLoadRecord
<1>8. PlanOk(rec, new, l)
  <2>1. Injected(rec, new, l) /\ ReaderOk(rec, new, l)
    BY <1>5, <1>6 DEF Injected, ReaderOk
  <2>2. new.by # Load!None => new.dcp
    BY <1>2, <1>4 DEF PlanOk, SamePlan
  <2> QED BY <1>4, <1>5, <2>1, <2>2 DEF PlanOk
<1> QED BY <1>1, <1>4, <1>7, <1>8, PlanStep

(* OpenFile and OpenRejected: the constructor has the ranges of the file,  *)
(* if its own load was the last to plan, and the reader accepts them all   *)
(* unless two of them overlap.                                             *)
LEMMA OpenOwn ==
  ASSUME PlanInv, Load!None \notin Loads, NEW l \in Loads, Load!Between(l),
         NEW f \in load[l].left, Load!Own(l).by = l
  PROVE  /\ f \in Load!FilesOf(load[l].plan)
         /\ Load!HasReader(l, f) <=> Accepted(Load!RangesOf(load[l].plan, f))
         /\ Load!Own(l).dcp
         /\ NonEmptyRanges(Load!Own(l).ranges[f]) = Load!RangesOf(load[l].plan, f)
         /\ Load!Disjoint(load[l].plan) => Accepted(Load!RangesOf(load[l].plan, f))
<1> DEFINE plan == load[l].plan
           r == Load!RangesOf(plan, f)
<1>1. /\ IsSortedPlan(plan) /\ PlanOk(load[l], Load!Own(l), l)
      /\ load[l].pc \in {"planned", "reading"}
  BY DEF PlanInv, IsLoadRecord, Load!Own, Load!Between, Load!Reading
<1>2. /\ f \in Load!FilesOf(plan) /\ Load!Own(l).dcp
      /\ Load!Own(l).ranges = [g \in Load!FilesOf(plan) |-> Load!RangesOf(plan, g)]
  BY <1>1 DEF PlanOk, Injected
<1>3. RangesFit(r, plan) /\ r # <<>>
  BY <1>1, <1>2, RangesOfFacts
<1>4. f \in DOMAIN Load!Own(l).ranges /\ Load!Own(l).ranges[f] = r
  BY <1>2
<1>5. NonEmptyRanges(r) = r /\ (Load!Disjoint(plan) => Accepted(r))
  BY <1>3 DEF RangesFit
<1> HIDE DEF r
<1>6. Load!HasReader(l, f) <=> Accepted(r)
  BY <1>2, <1>4, <1>5, LoadRanges DEF Load!HasReader
<1> QED BY <1>2, <1>4, <1>5, <1>6 DEF r

LEMMA OpenFilePlan ==
  ASSUME PlanInv, Load!None \notin Loads, NEW l \in Loads, NEW f \in load[l].left,
         Load!OpenFile(l, f), BarInv'
  PROVE  PlanInv'
<1> DEFINE reader == [Load!NoReader EXCEPT
                        !.file = f, !.reports = (Load!Own(l).bar # Load!None),
                        !.ranges = IF Load!Own(l).dcp THEN Load!NonEmptyRanges(Load!Own(l).ranges[f])
                                   ELSE Load!RangesOf(load[l].plan, f)]
           rec == [load[l] EXCEPT !.pc = "reading", !.left = @ \ {f}, !.reader = reader]
<1>1. load' = [load EXCEPT ![l] = rec] /\ con' = con /\ uses' = uses
  BY DEF Load!OpenFile, Load!SetLoad
<1>2. /\ IsLoadRecord(load[l]) /\ PlanOk(load[l], con[uses[l]], l)
      /\ Load!Own(l) = con[uses[l]] /\ KnowsItsBar(con[uses[l]])
      /\ con = [con EXCEPT ![uses[l]] = con[uses[l]]]
  BY DEF PlanInv, BarInv, Load!Own
<1>3. Load!Between(l) /\ Load!HasReader(l, f) /\ load[l].pc \in {"planned", "reading"}
  BY DEF Load!OpenFile, Load!Between, Load!Reading
<1>4. /\ IsReader(reader) /\ reader.file = f /\ reader.item = 0 /\ reader.at = 0
      /\ reader.ranges = IF Load!Own(l).dcp THEN NonEmptyRanges(Load!Own(l).ranges[f])
                         ELSE Load!RangesOf(load[l].plan, f)
  <2> DEFINE ranges == IF Load!Own(l).dcp THEN Load!NonEmptyRanges(Load!Own(l).ranges[f])
                       ELSE Load!RangesOf(load[l].plan, f)
             reports == Load!Own(l).bar # Load!None
  <2>1. reader = [Load!NoReader EXCEPT !.file = f, !.reports = reports, !.ranges = ranges]
    OBVIOUS
  <2>2. ranges = IF Load!Own(l).dcp THEN NonEmptyRanges(Load!Own(l).ranges[f])
                 ELSE Load!RangesOf(load[l].plan, f)
    BY LoadRanges
  <2> HIDE DEF reader, ranges, reports
  <2>3. reader = [file |-> f, ranges |-> ranges, reports |-> reports, item |-> 0, at |-> 0,
                  fetched |-> 0]
    BY <2>1, OpenedReader
  <2> QED BY <2>2, <2>3 DEF IsReader
<1> HIDE DEF reader
<1>5. rec = [pc |-> "reading", plan |-> load[l].plan, left |-> load[l].left \ {f},
             reader |-> reader]
  <2> DEFINE left == load[l].left \ {f}
  <2>1. rec = [load[l] EXCEPT !.pc = "reading", !.left = left, !.reader = reader]
    OBVIOUS
  <2> HIDE DEF rec, left
  <2>2. rec = [pc |-> "reading", plan |-> load[l].plan, left |-> left, reader |-> reader]
    BY <1>2, <2>1, RecordUpdates DEF IsLoadRecord
  <2> QED BY <2>2 DEF left
<1> HIDE DEF rec
<1>6. IsLoadRecord(rec)
  BY <1>2, <1>4, <1>5 DEF IsLoadRecord
<1>7. Injected(rec, con[uses[l]], l)
  BY <1>2, <1>3, <1>5 DEF PlanOk, Injected
<1>8. con[uses[l]].by = l => /\ reader.ranges = Load!RangesOf(rec.plan, f)
                             /\ Accepted(reader.ranges)
  BY <1>2, <1>3, <1>4, <1>5, OpenOwn
<1>9. con[uses[l]].by = Load!None => reader.ranges = Load!RangesOf(rec.plan, f)
  BY <1>2, <1>3, <1>4, <1>5 DEF PlanOk, Injected
<1>10. ReaderOk(rec, con[uses[l]], l)
  BY <1>4, <1>5, <1>8, <1>9 DEF ReaderOk
<1>11. PlanOk(rec, con[uses[l]], l)
  BY <1>2, <1>5, <1>7, <1>10 DEF PlanOk
<1>12. SamePlan(con[uses[l]], con[uses[l]])
  BY DEF SamePlan
<1> QED BY <1>1, <1>2, <1>6, <1>11, <1>12, PlanStep

(* ReadItem and ReadRejected: the reader that has its own plan holds the   *)
(* next item in its next range, and no longer in the one it is at.         *)
LEMMA HoldingOwn ==
  ASSUME PlanInv, NEW l \in Loads, Load!MoreItems(l), Load!Own(l).by = l
  PROVE  Load!Holding(l) = {load[l].reader.at + 1}
<1> DEFINE d == load[l].reader
           r == d.ranges
           n == Len(r)
<1>1. /\ ReaderOk(load[l], Load!Own(l), l) /\ d.file # Load!None
      /\ IsSortedPlan(load[l].plan)
      /\ d.item < Len(Load!RangesOf(load[l].plan, d.file))
  BY DEF PlanInv, PlanOk, IsLoadRecord, Load!MoreItems, Load!Own
<1>2. /\ r = Load!RangesOf(load[l].plan, d.file) /\ Accepted(r)
      /\ d.item \in Nat /\ d.at = d.item
  BY <1>1 DEF ReaderOk
<1>3. /\ n \in Nat /\ d.item + 1 \in 1..n
      /\ \A i \in 1..n : r[i].start \in Nat /\ r[i].end \in Nat /\ r[i].start < r[i].end
  <2>1. RangesFit(r, load[l].plan)
    BY <1>1, <1>2, RangesOfFacts
  <2>2. n \in Nat
    BY <2>1 DEF RangesFit
  <2> QED BY <1>1, <1>2, <2>1, <2>2 DEF RangesFit
<1>4. Load!Wanted(l) = r[d.item + 1]
  BY <1>2 DEF Load!Wanted
<1>5. d.item \in 1..n => r[d.item].end <= r[d.item + 1].start
  <2> SUFFICES ASSUME d.item \in 1..n PROVE r[d.item].end <= r[d.item + 1].start
    OBVIOUS
  <2>1. d.item + 1 \in 2..n /\ (d.item + 1) - 1 = d.item
    BY <1>2, <1>3
  <2>2. FollowOk(r[(d.item + 1) - 1], r[d.item + 1])
    BY <1>2, <2>1 DEF Accepted
  <2> QED BY <2>1, <2>2 DEF FollowOk
<1>6. Load!Holding(l) = {i \in {d.at, d.at + 1} \cap 1..n :
                           r[i].start <= r[d.item + 1].start /\ r[d.item + 1].end <= r[i].end}
  BY <1>4 DEF Load!Holding
<1> HIDE DEF d, r, n
<1>7. d.item \in 1..n => ~(r[d.item + 1].end <= r[d.item].end)
  BY <1>2, <1>3, <1>5
<1>8. r[d.item + 1].start \in Nat /\ r[d.item + 1].end \in Nat
  BY <1>3
<1>9. d.item + 1 # d.item
  BY <1>2
<1> QED BY <1>2, <1>3, <1>6, <1>7, <1>8, <1>9 DEF d

LEMMA ReadItemPlan ==
  ASSUME PlanInv, Load!None \notin Loads, NEW l \in Loads, Load!ReadItem(l), BarInv'
  PROVE  PlanInv'
<1>1. PICK i, to :
        /\ i \in Load!Holding(l)
        /\ load' = [load EXCEPT ![l] = [load[l] EXCEPT
             !.reader.item = @ + 1, !.reader.at = i, !.reader.fetched = to]]
        /\ con' = [con EXCEPT ![uses[l]] =
             Load!UpdateProgress(l, Load!Fetched(load[l].reader, i, to))]
  BY DEF Load!ReadItem, Load!SetLoad, Load!SetCon
<1> DEFINE reader == [file |-> load[l].reader.file, ranges |-> load[l].reader.ranges,
                      reports |-> load[l].reader.reports, item |-> load[l].reader.item + 1,
                      at |-> i, fetched |-> to]
           rec == [load[l] EXCEPT
                     !.reader.item = @ + 1, !.reader.at = i, !.reader.fetched = to]
           new == Load!UpdateProgress(l, Load!Fetched(load[l].reader, i, to))
<1>2. /\ IsLoadRecord(load[l]) /\ PlanOk(load[l], con[uses[l]], l)
      /\ Load!Own(l) = con[uses[l]] /\ KnowsItsBar(con[uses[l]])
      /\ Load!MoreItems(l) /\ uses' = uses
  BY DEF PlanInv, BarInv, Load!Own, Load!ReadItem
<1>3. SamePlan(con[uses[l]], new)
  BY <1>2, BarsOnly
<1>4. load' = [load EXCEPT ![l] = rec] /\ con' = [con EXCEPT ![uses[l]] = new]
  BY <1>1
<1>5. /\ IsReader(reader) /\ reader.file = load[l].reader.file
      /\ reader.ranges = load[l].reader.ranges
      /\ reader.item = load[l].reader.item + 1 /\ reader.at = i
  BY DEF IsReader
<1>6. rec = [pc |-> load[l].pc, plan |-> load[l].plan, left |-> load[l].left,
             reader |-> reader]
  <2> DEFINE u == rec
  <2>1. u = [load[l] EXCEPT
               !.reader.item = @ + 1, !.reader.at = i, !.reader.fetched = to]
    OBVIOUS
  <2> HIDE DEF u
  <2>2. u = [pc |-> load[l].pc, plan |-> load[l].plan, left |-> load[l].left, reader |-> reader]
    BY <1>2, <2>1, ReadRecord
  <2> QED BY <2>2 DEF u
<1> HIDE DEF reader, new, rec
<1>7. IsLoadRecord(rec)
  BY <1>2, <1>5, <1>6 DEF IsLoadRecord
<1>8. con[uses[l]].by = l => i = load[l].reader.at + 1
  BY <1>1, <1>2, HoldingOwn
<1>9. PlanOk(rec, new, l)
  <2>1. Injected(rec, new, l)
    BY <1>2, <1>3, <1>6 DEF PlanOk, Injected, SamePlan
  <2>2. load[l].pc = "reading" /\ load[l].reader.file # Load!None
    BY <1>2 DEF Load!MoreItems
  <2>3. ReaderOk(rec, new, l)
    BY <1>2, <1>3, <1>5, <1>6, <1>8, <2>2 DEF PlanOk, ReaderOk, SamePlan
  <2> QED BY <1>2, <1>3, <1>6, <2>1, <2>2, <2>3 DEF PlanOk, SamePlan
<1> QED BY <1>2, <1>3, <1>4, <1>7, <1>9, PlanStep

LEMMA PlanStepInvariant ==
  ASSUME PlanInv, Load!LoadAssumption, Load!Next
  PROVE  PlanInv'
<1>0. BarInv' /\ Load!None \notin Loads
  BY BarStepInvariant DEF PlanInv, Load!LoadAssumption
<1>1. ASSUME NEW l \in Loads
      PROVE  /\ IsLoadRecord(load[l]) /\ PlanOk(load[l], con[uses[l]], l)
             /\ Load!Own(l) = con[uses[l]] /\ KnowsItsBar(con[uses[l]])
             /\ con = [con EXCEPT ![uses[l]] = con[uses[l]]]
             /\ SamePlan(con[uses[l]], con[uses[l]])
             /\ load[l].reader.file # Load!None => load[l].pc = "reading"
  BY DEF PlanInv, BarInv, Load!Own, SamePlan, PlanOk, ReaderOk
(* A load that is between plan and end nowhere, and has no reader.         *)
<1>2. ASSUME NEW l \in Loads, NEW rec, NEW new, IsLoadRecord(rec),
             rec.pc = "aborted", rec.reader.file = Load!None, new.by # Load!None => new.dcp
      PROVE  PlanOk(rec, new, l)
  BY <1>2 DEF PlanOk, Injected, ReaderOk
<1>3. ASSUME NEW l \in Loads, NEW plan \in Plans, Load!Plan(l, plan) \/ Load!PlanFails(l, plan)
      PROVE  PlanInv'
  <2> DEFINE q == Load!Sorted(plan)
             items == Load!SetItemRanges(Load!Own(l), l, q)
             started == Load!StartProgress(items)
  <2>1. IsSortedPlan(q) /\ Load!FilesOf(q) = Load!FilesOf(plan)
    BY SortedFacts
  <2>2. load[l].reader.file = Load!None
    BY <1>1, <1>3 DEF Load!Plan, Load!PlanFails, Load!Planned
  <2>3. /\ KnowsItsBar(items) /\ items.dcp = Load!Own(l).dcp /\ items.by = l
        /\ items.ranges = [f \in Load!FilesOf(q) |-> Load!RangesOf(q, f)]
    BY <1>1, SetItemRangesFacts, InjectedPlan
  <2> HIDE DEF items
  <2>4. SamePlan(items, started)
    BY <2>3, BarsOnly
  <2> HIDE DEF q, started
  <2> DEFINE Rec(pc) == [load[l] EXCEPT !.pc = pc, !.plan = q, !.left = Load!FilesOf(plan)]
  <2>5. \A pc : /\ Rec(pc).pc = pc /\ Rec(pc).plan = q /\ Rec(pc).left = Load!FilesOf(plan)
                /\ Rec(pc).reader = load[l].reader /\ IsLoadRecord(Rec(pc))
    <3> SUFFICES ASSUME NEW pc
                 PROVE  /\ Rec(pc).pc = pc /\ Rec(pc).plan = q
                        /\ Rec(pc).left = Load!FilesOf(plan)
                        /\ Rec(pc).reader = load[l].reader /\ IsLoadRecord(Rec(pc))
      OBVIOUS
    <3>1. /\ load[l] = [pc |-> load[l].pc, plan |-> load[l].plan, left |-> load[l].left,
                        reader |-> load[l].reader]
          /\ IsReader(load[l].reader)
      BY <1>1 DEF IsLoadRecord
    <3>2. Rec(pc) = [pc |-> pc, plan |-> q, left |-> Load!FilesOf(plan),
                     reader |-> load[l].reader]
      <4> DEFINE u == Rec(pc)
                 left == Load!FilesOf(plan)
      <4>1. u = [load[l] EXCEPT !.pc = pc, !.plan = q, !.left = left]
        OBVIOUS
      <4> HIDE DEF u, left
      <4>2. u = [pc |-> pc, plan |-> q, left |-> left, reader |-> load[l].reader]
        BY <3>1, <4>1, RecordUpdates
      <4> QED BY <4>2 DEF u, left
    <3> QED BY <2>1, <3>1, <3>2 DEF IsLoadRecord
  <2>6. CASE Load!Plan(l, plan)
    <3> DEFINE rec == Rec("planned")
               new == IF Load!Own(l).dcp THEN started ELSE Load!Own(l)
    <3>1. load' = [load EXCEPT ![l] = rec] /\ con' = [con EXCEPT ![uses[l]] = new] /\ uses' = uses
      BY <1>1, <2>6 DEF Load!Plan, Load!Planned, Load!SetLoad, Load!SetCon, items, started, q
    <3>2. /\ rec.pc = "planned" /\ rec.plan = q /\ rec.left = Load!FilesOf(q)
          /\ rec.reader.file = Load!None /\ IsLoadRecord(rec)
      BY <2>1, <2>2, <2>5
    <3> HIDE DEF rec
    <3>3. CASE Load!Own(l).dcp
      <4>1. /\ new.by = l /\ new.dcp
            /\ new.ranges = [f \in Load!FilesOf(q) |-> Load!RangesOf(q, f)]
        BY <2>3, <2>4, <3>3 DEF SamePlan
      <4> HIDE DEF new
      <4>2. PlanOk(rec, new, l)
        BY <1>0, <3>2, <4>1 DEF PlanOk, Injected, ReaderOk
      <4> QED BY <1>0, <3>1, <3>2, <4>1, <4>2, PlanStep
    <3>4. CASE ~Load!Own(l).dcp
      <4>1. new = con[uses[l]] /\ new.by = Load!None /\ ~new.dcp
        BY <1>1, <3>4 DEF PlanOk
      <4> HIDE DEF new
      <4>2. PlanOk(rec, new, l)
        BY <1>0, <3>2, <4>1 DEF PlanOk, Injected, ReaderOk
      <4>3. SamePlan(con[uses[l]], new)
        BY <1>1, <4>1
      <4> QED BY <1>0, <3>1, <3>2, <4>2, <4>3, PlanStep
    <3> QED BY <3>3, <3>4
  <2>7. CASE Load!PlanFails(l, plan)
    <3> DEFINE rec == Rec("aborted")
    <3>1. load' = [load EXCEPT ![l] = rec] /\ uses' = uses
      BY <2>7 DEF Load!PlanFails, Load!Planned, Load!SetLoad, q
    <3>2. PICK new : /\ con' = [con EXCEPT ![uses[l]] = new]
                     /\ new = con[uses[l]] \/ (new = items /\ Load!Own(l).progress)
      BY <1>1, <2>7 DEF Load!PlanFails, Load!SetCon, items, q
    <3>3. rec.pc = "aborted" /\ rec.reader.file = Load!None /\ IsLoadRecord(rec)
      BY <2>2, <2>5
    <3> HIDE DEF rec
    <3>4. Load!Own(l).progress => Load!Own(l).dcp
      BY <1>1 DEF KnowsItsBar, ConTypes
    <3>5. /\ new.by # Load!None => new.dcp
          /\ SamePlan(con[uses[l]], new) \/ (new.by = l /\ new.dcp)
      BY <1>1, <2>3, <3>2, <3>4 DEF PlanOk
    <3>6. PlanOk(rec, new, l)
      BY <1>2, <3>3, <3>5
    <3> QED BY <1>0, <3>1, <3>2, <3>3, <3>5, <3>6, PlanStep
  <2> QED BY <1>3, <2>6, <2>7
<1>4. ASSUME NEW l \in Loads, Load!OtherRankFails(l)
      PROVE  PlanInv'
  <2> DEFINE rec == [load[l] EXCEPT !.pc = "aborted"]
  <2>1. /\ load' = [load EXCEPT ![l] = rec] /\ con' = con /\ uses' = uses
        /\ load[l].pc = "planned"
    BY <1>4 DEF Load!OtherRankFails, Load!SetLoad
  <2>2. load[l].reader.file = Load!None
    BY <1>1, <2>1
  <2>3. rec = [pc |-> "aborted", plan |-> load[l].plan, left |-> load[l].left,
               reader |-> load[l].reader]
    <3>1. rec = [load[l] EXCEPT !.pc = "aborted"]
      OBVIOUS
    <3>2. load[l] = [pc |-> load[l].pc, plan |-> load[l].plan, left |-> load[l].left,
                     reader |-> load[l].reader]
      BY <1>1 DEF IsLoadRecord
    <3> HIDE DEF rec
    <3> QED BY <3>1, <3>2, RecordUpdates
  <2> HIDE DEF rec
  <2>4. rec.pc = "aborted" /\ rec.reader.file = Load!None /\ IsLoadRecord(rec)
    BY <1>1, <2>2, <2>3 DEF IsLoadRecord
  <2>5. PlanOk(rec, con[uses[l]], l)
    BY <1>1, <1>2, <2>4 DEF PlanOk
  <2> QED BY <1>0, <1>1, <2>1, <2>4, <2>5, PlanStep
<1>5. ASSUME NEW l \in Loads, NEW f \in load[l].left, Load!OpenFile(l, f)
      PROVE  PlanInv'
  BY <1>0, <1>5, OpenFilePlan
<1>6. ASSUME NEW l \in Loads, NEW f \in load[l].left, Load!OpenRejected(l, f)
      PROVE  PlanInv'
  <2>1. /\ Load!ReadDataEnds(l, "rejected", Load!Own(l)) /\ uses' = uses
        /\ Load!Between(l) /\ ~Load!HasReader(l, f)
    BY <1>6 DEF Load!OpenRejected
  <2>2. Load!Own(l).by = l => ~Load!Disjoint(load[l].plan)
    BY <1>0, <2>1, OpenOwn
  <2> QED BY <1>0, <1>1, <2>1, <2>2, EndPlan
<1>7. ASSUME NEW l \in Loads, Load!ReadItem(l)
      PROVE  PlanInv'
  BY <1>0, <1>7, ReadItemPlan
<1>8. ASSUME NEW l \in Loads, Load!ReadRejected(l)
      PROVE  PlanInv'
  <2>1. /\ Load!ReadDataEnds(l, "rejected", Load!Own(l)) /\ uses' = uses
        /\ Load!MoreItems(l) /\ Load!Holding(l) = {}
    BY <1>8 DEF Load!ReadRejected
  <2>2. Load!Own(l).by # l
    BY <2>1, HoldingOwn
  <2> QED BY <1>0, <1>1, <2>1, <2>2, EndPlan
<1>9. ASSUME NEW l \in Loads, Load!ReadFails(l)
      PROVE  PlanInv'
  <2>1. uses' = uses
    BY <1>9 DEF Load!ReadFails
  <2>2. PICK c : /\ Load!ReadDataEnds(l, "raised", c)
                 /\ c = Load!Own(l) \/ \E bytes : c = Load!UpdateProgress(l, bytes)
    BY <1>9 DEF Load!ReadFails
  <2>3. KnowsItsBar(c) /\ SamePlan(Load!Own(l), c)
    BY <1>1, <2>2, UpdateProgressFacts, BarsOnly
  <2> QED BY <1>0, <2>1, <2>2, <2>3, EndPlan
<1>10. ASSUME NEW l \in Loads, Load!CloseFile(l)
       PROVE  PlanInv'
  <2> DEFINE rec == [load[l] EXCEPT !.reader = Load!NoReader]
  <2>1. load' = [load EXCEPT ![l] = rec] /\ con' = con /\ uses' = uses
    BY <1>10 DEF Load!CloseFile, Load!SetLoad
  <2>2. Load!NoReader.file = Load!None /\ IsReader(Load!NoReader)
    BY DEF Load!NoReader, IsReader
  <2>3. rec = [pc |-> load[l].pc, plan |-> load[l].plan, left |-> load[l].left,
               reader |-> Load!NoReader]
    <3>1. rec = [load[l] EXCEPT !.reader = Load!NoReader]
      OBVIOUS
    <3>2. load[l] = [pc |-> load[l].pc, plan |-> load[l].plan, left |-> load[l].left,
                     reader |-> load[l].reader]
      BY <1>1 DEF IsLoadRecord
    <3> HIDE DEF rec
    <3> QED BY <3>1, <3>2, RecordUpdates
  <2> HIDE DEF rec
  <2>4. IsLoadRecord(rec)
    BY <1>1, <2>2, <2>3 DEF IsLoadRecord
  <2>5. PlanOk(rec, con[uses[l]], l)
    BY <1>1, <2>2, <2>3 DEF PlanOk, Injected, ReaderOk
  <2> QED BY <1>0, <1>1, <2>1, <2>4, <2>5, PlanStep
<1>11. ASSUME NEW l \in Loads, Load!Finish(l)
       PROVE  PlanInv'
  BY <1>0, <1>1, <1>11, EndPlan DEF Load!Finish
<1> QED
  BY <1>3, <1>4, <1>5, <1>6, <1>7, <1>8, <1>9, <1>10, <1>11 DEF Load!Next, Load!Read

LEMMA PlanInitInvariant ==
  ASSUME Load!LoadAssumption, Load!Init
  PROVE  PlanInv
<1>1. ASSUME NEW l \in Loads
      PROVE  IsLoadRecord(load[l]) /\ PlanOk(load[l], con[uses[l]], l)
  <2>1. load[l] = [pc |-> "idle", plan |-> <<>>, left |-> {}, reader |-> Load!NoReader]
    BY <1>1 DEF Load!Init
  <2>2. Load!NoReader.file = Load!None /\ IsReader(Load!NoReader)
    BY DEF Load!NoReader, IsReader
  <2>3. IsSortedPlan(<<>>)
    BY DEF IsSortedPlan
  <2>4. uses[l] \in Constructors
    BY <1>1 DEF Load!Init, Load!LoadAssumption
  <2>5. con[uses[l]].by = Load!None
    BY <2>4 DEF Load!Init, Load!NewConstructors
  <2> QED BY <2>1, <2>2, <2>3, <2>5 DEF IsLoadRecord, PlanOk, Injected, ReaderOk
<1> QED BY <1>1, BarInitInvariant DEF PlanInv

LEMMA PlanInvariance == MCSpec => [](job = "load" => PlanInv)
<1> DEFINE Inv == job = "load" => PlanInv
<1>1. MCInit => Inv
  BY LoadAssumption, PlanInitInvariant DEF MCInit
<1>2. Inv /\ [MCNext]_allVars => Inv'
  <2> SUFFICES ASSUME Inv, [MCNext]_allVars, job' = "load"
               PROVE  PlanInv'
    OBVIOUS
  <2>1. CASE job = "save" /\ Next /\ UNCHANGED <<job, loadVars>>
    BY <2>1
  <2>2. CASE job = "load" /\ Load!Next /\ UNCHANGED <<job, vars>>
    BY <2>2, LoadAssumption, PlanStepInvariant
  <2>3. CASE UNCHANGED allVars
    <3>1. UNCHANGED <<uses, con, load>> /\ PlanInv
      BY <2>3 DEF allVars, loadVars
    <3>2. BarInv'
      BY <3>1 DEF PlanInv, BarInv, KnowsItsBar, ConTypes, OpenBars, IsBar, IsLoad
    <3> QED BY <3>1, <3>2 DEF PlanInv
  <2> QED BY <2>1, <2>2, <2>3 DEF MCNext
<1> QED BY <1>1, <1>2, PTL DEF MCSpec

(***************************************************************************)
(* Unless two items of a plan overlap, its load is never rejected as long  *)
(* as the constructor still has the ranges of that plan: the sort, the     *)
(* ranges that are injected, the ones the reader accepts and the order     *)
(* torch reads in agree (prepare_local_plan, _validate_and_coalesce_ranges *)
(* and _find_item_for_range).                                              *)
(***************************************************************************)
THEOREM DisjointPlansLoad == MCSpec => []PlansLoad
<1>1. PlanInv => Load!PlansLoad
  BY DEF PlanInv, PlanOk, Load!PlansLoad, Load!Own
<1> QED BY <1>1, PlanInvariance, PTL DEF PlansLoad

(***************************************************************************)
(* A reader that is open reads by the ranges of its own plan, as long as   *)
(* no other load has injected its own into the constructor they share.     *)
(***************************************************************************)
THEOREM ReadersHaveTheirPlan == MCSpec => []OpenByOwnPlan
<1>1. PlanInv => Load!OpenByOwnPlan
  BY DEF PlanInv, PlanOk, ReaderOk, Load!OpenByOwnPlan, Load!Own
<1> QED BY <1>1, PlanInvariance, PTL DEF OpenByOwnPlan

-----------------------------------------------------------------------------
(* Loading: what the progress bar shows.                                   *)

(* Load! names of DCPRanges are those of RangesProofs, for sums as well.   *)
LEMMA LoadTotals ==
  /\ \A r : Load!StreamTotal(r, Gap) = StreamTotal(r, Gap)
  /\ \A r, i : Load!FirstOfGroup(r, Gap, i) = FirstOfGroup(r, Gap, i)
  /\ \A r, i : Load!GroupEnd(r, Gap, i) = GroupEnd(r, Gap, i)
  /\ \A F : Load!SumFunction(F) = SumFunction(F)
<1>1. \A r : Load!StreamTotal(r, Gap) = StreamTotal(r, Gap)
  BY DEF Load!StreamTotal, StreamTotal, Load!StreamTotalStep, StreamTotalStep,
         Load!NonEmptyRanges, NonEmptyRanges, Load!Subsequence, Subsequence,
         Load!Listed, Listed, Load!Cardinality, Cardinality
<1>2. \A r, i : Load!FirstOfGroup(r, Gap, i) = FirstOfGroup(r, Gap, i)
  BY DEF Load!FirstOfGroup, FirstOfGroup
<1>3. \A r, i : Load!GroupEnd(r, Gap, i) = GroupEnd(r, Gap, i)
  BY <1>2 DEF Load!GroupEnd, GroupEnd
<1>4. \A F : Load!SumFunction(F) = SumFunction(F)
  BY DEF Load!SumFunction, Load!SumFunctionOnSet, Load!FoldFunctionOnSet, Load!MapThenFoldSet,
         SumFunction, SumFunctionOnSet, FoldFunctionOnSet, MapThenFoldSet
<1> QED BY <1>1, <1>2, <1>3, <1>4

(* The files of a plan are finitely many.                                  *)
LEMMA FilesAreFinite ==
  ASSUME NEW p, Len(p) \in Nat
  PROVE  IsFiniteSet(Load!FilesOf(p))
<1> DEFINE at == [i \in 1..Len(p) |-> p[i].file]
<1>1. at \in Surjection(1..Len(p), Load!FilesOf(p))
  BY DEF Load!FilesOf, Surjection
<1>2. IsFiniteSet(1..Len(p))
  BY PositionsFacts
<1> HIDE DEF at
<1> QED BY <1>1, <1>2, FS_Surjection

(* The running total of the ranges, and what the streams of a reader have  *)
(* still to deliver: the total but for that of its item and for what its   *)
(* stream is ahead of the item.                                            *)
Totals(r) == CHOOSE T : RunningTotal(T, r, Gap) /\ StreamTotal(r, Gap) = T[Len(r)]

Unread(d) ==
  StreamTotal(d.ranges, Gap) -
    (IF d.item = 0 THEN 0 ELSE Totals(d.ranges)[d.item] + d.fetched - d.ranges[d.item].end)

(* A reader that reports to the bar: its stream is past its item, within   *)
(* the group of it.                                                        *)
ReaderCounts(d) ==
  /\ d.reports /\ d.item \in 0..Len(d.ranges) /\ d.fetched \in Int
  /\ d.item # 0 => /\ d.ranges[d.item].end <= d.fetched
                   /\ d.fetched <= GroupEnd(d.ranges, Gap, d.item)

LEMMA TotalsFacts ==
  ASSUME Gap \in Int, NEW p, NEW r, RangesFit(r, p), r # <<>>
  PROVE  /\ Len(r) \in Nat \ {0}
         /\ RunningTotal(Totals(r), r, Gap) /\ StreamTotal(r, Gap) = Totals(r)[Len(r)]
         /\ StreamTotal(r, Gap) \in Int /\ StreamTotal(r, Gap) > 0
<1> DEFINE IsTotal(T) == RunningTotal(T, r, Gap) /\ StreamTotal(r, Gap) = T[Len(r)]
           T == CHOOSE T : IsTotal(T)
<1>1. /\ r \in Seq(ByteRanges) /\ Len(r) \in Nat \ {0}
      /\ \A i \in 1..Len(r) : r[i].start \in Nat /\ r[i].end \in Nat /\ r[i].start < r[i].end
      /\ \A i, j \in 1..Len(r) : i < j => r[i].start <= r[j].start
  BY DEF RangesFit
<1>2. \A i \in 1..Len(r) : r[i].end # r[i].start
  BY <1>1
<1>3. \E U : IsTotal(U)
  BY <1>1, <1>2, StreamTotalFacts
<1>4. IsTotal(T)
  <2> HIDE DEF IsTotal
  <2> QED BY <1>3
<1>5. T = Totals(r)
  BY DEF Totals
<1> HIDE DEF T
<1>6. T[Len(r)] \in Int /\ T[Len(r)] > 0
  BY <1>1, <1>4, TotalIsPositive
<1> QED BY <1>1, <1>4, <1>5, <1>6

LEMMA AcceptedTotals ==
  ASSUME Gap \in Int, NEW p, NEW r, RangesFit(r, p), Accepted(r)
  PROVE  r # <<>> /\ r \in Seq(ByteRanges) /\ Len(r) \in Nat \ {0} /\ InOrder(r)
<1>1. r # <<>>
  BY DEF Accepted
<1>2. r \in Seq(ByteRanges) /\ Len(r) \in Nat \ {0}
  BY <1>1 DEF RangesFit
<1>3. r[1].end # r[1].start
  BY <1>2 DEF RangesFit
<1> QED BY <1>1, <1>2, <1>3, AcceptedInOrder

LEMMA UnreadFacts ==
  ASSUME Gap \in Int, NEW p, NEW d, RangesFit(d.ranges, p), Accepted(d.ranges), ReaderCounts(d)
  PROVE  /\ Unread(d) \in Int /\ Unread(d) >= 0
         /\ d.item = Len(d.ranges) => Unread(d) = 0
<1> DEFINE r == d.ranges
           T == Totals(r)
           n == Len(r)
           h == d.item
<1>1. r \in Seq(ByteRanges) /\ n \in Nat \ {0} /\ InOrder(r) /\ r # <<>>
  BY AcceptedTotals
<1>2. /\ RunningTotal(T, r, Gap) /\ StreamTotal(r, Gap) = T[n]
      /\ T[n] \in Int /\ T[n] > 0
  BY <1>1, TotalsFacts
<1>3. /\ h \in 0..n /\ d.fetched \in Int
      /\ h # 0 => r[h].end <= d.fetched /\ d.fetched <= GroupEnd(r, Gap, h)
      /\ Unread(d) = T[n] - (IF h = 0 THEN 0 ELSE T[h] + d.fetched - r[h].end)
  BY <1>2 DEF ReaderCounts, Unread
<1> HIDE DEF r, T, n, h
<1>4. CASE h = 0
  <2>1. Unread(d) = T[n] /\ h # n
    BY <1>1, <1>2, <1>3, <1>4
  <2> QED BY <1>2, <2>1 DEF h, n, r
<1>5. CASE h # 0
  <2>1. h \in 1..n
    BY <1>1, <1>3, <1>5
  <2>2. /\ T[h] \in Int /\ r[h].end \in Int /\ GroupEnd(r, Gap, h) \in Int
        /\ T[h] + GroupEnd(r, Gap, h) - r[h].end <= T[n]
    BY <1>1, <1>2, <2>1, TotalOfGroup DEF n
  <2>3. h = n => GroupEnd(r, Gap, h) = r[h].end
    BY <1>1, <2>1, GroupEndSteps DEF n
  <2>4. Unread(d) = T[n] - (T[h] + d.fetched - r[h].end)
    BY <1>3, <1>5
  <2>5. r[h].end <= d.fetched /\ d.fetched <= GroupEnd(r, Gap, h) /\ d.fetched \in Int
    BY <1>3, <1>5
  <2>6. Unread(d) \in Int /\ Unread(d) >= 0
    BY <1>2, <2>2, <2>4, <2>5
  <2>7. ASSUME h = n PROVE Unread(d) = 0
    <3>1. d.fetched = r[h].end
      BY <2>2, <2>3, <2>5, <2>7
    <3>2. T[h] = T[n]
      BY <2>7
    <3> QED BY <1>2, <2>2, <2>4, <3>1, <3>2
  <2> QED BY <2>6, <2>7 DEF h, n, r
<1> QED BY <1>4, <1>5

(* ReadItem: what is fetched for the next item is no longer to be read.    *)
LEMMA ReadCounts ==
  ASSUME Gap \in Int, NEW p, NEW d, RangesFit(d.ranges, p), Accepted(d.ranges), ReaderCounts(d),
         d.at = d.item, d.item < Len(d.ranges), NEW to \in Load!ChunksEnd(d, d.item + 1),
         NEW e, e.ranges = d.ranges, e.reports = d.reports, e.item = d.item + 1, e.fetched = to
  PROVE  /\ ReaderCounts(e) /\ Load!Fetched(d, d.item + 1, to) \in Int
         /\ Unread(e) = Unread(d) - Load!Fetched(d, d.item + 1, to)
<1> DEFINE r == d.ranges
           T == Totals(r)
           n == Len(r)
           h == d.item
           i == d.item + 1
           from == Load!StreamAt(d, i)
<1>1. r \in Seq(ByteRanges) /\ n \in Nat \ {0} /\ InOrder(r) /\ r # <<>>
  BY AcceptedTotals
<1>2. /\ RunningTotal(T, r, Gap) /\ StreamTotal(r, Gap) = T[n]
      /\ T[n] \in Int
  BY <1>1, TotalsFacts
<1>3. /\ h \in 0..n /\ d.fetched \in Int /\ d.reports
      /\ h # 0 => r[h].end <= d.fetched /\ d.fetched <= GroupEnd(r, Gap, h)
      /\ Unread(d) = T[n] - (IF h = 0 THEN 0 ELSE T[h] + d.fetched - r[h].end)
  BY <1>2 DEF ReaderCounts, Unread
<1>4. h \in Nat /\ i \in 1..n /\ i = h + 1 /\ i # d.at /\ i # 0
  BY <1>1, <1>3
<1>5. Unread(e) = T[n] - (T[i] + to - r[i].end)
  BY <1>2, <1>4 DEF Unread
<1>6. from = IF FirstOfGroup(r, Gap, i) THEN r[i].start ELSE d.fetched
  BY <1>4, LoadTotals DEF Load!StreamAt
<1>7. to \in from..GroupEnd(r, Gap, i) /\ to >= r[i].end
  BY <1>3, <1>4, LoadTotals DEF Load!ChunksEnd
<1>8. Load!Fetched(d, i, to) = to - from
  BY DEF Load!Fetched
<1> HIDE DEF from
<1>9. /\ T[i] \in Int /\ r[i].end \in Int /\ r[i].start \in Int /\ GroupEnd(r, Gap, i) \in Int
  BY <1>1, <1>2, <1>4, TotalOfGroup, RangeType
<1>10. from \in Int
  BY <1>3, <1>6, <1>9
<1>11. to \in Int /\ r[i].end <= to /\ to <= GroupEnd(r, Gap, i)
  BY <1>7, <1>9, <1>10
<1>12. ReaderCounts(e)
  BY <1>3, <1>4, <1>11 DEF ReaderCounts
<1> HIDE DEF r, T, n, h, i
<1>13. CASE h = 0
  <2>1. i = 1 /\ FirstOfGroup(r, Gap, i)
    BY <1>4, <1>13 DEF FirstOfGroup
  <2>2. T[i] = r[i].end - r[i].start /\ from = r[i].start
    BY <1>2, <1>6, <2>1 DEF RunningTotal, Length
  <2>3. Unread(d) = T[n]
    BY <1>2, <1>3, <1>13
  <2>4. Unread(e) = Unread(d) - (to - from)
    <3>1. \A tn, x, s, e1 \in Int : tn - ((e1 - s) + x - e1) = tn - (x - s)
      OBVIOUS
    <3> QED BY <1>2, <1>5, <1>9, <1>11, <2>2, <2>3, <3>1
  <2> QED BY <1>8, <1>10, <1>11, <1>12, <2>4 DEF i
<1>14. CASE h # 0
  <2>1. h \in 1..n /\ i \in 2..n /\ i - 1 = h /\ h < n
    BY <1>1, <1>4, <1>14
  <2>2. /\ T[h] \in Int /\ r[h].end \in Int /\ GroupEnd(r, Gap, h) \in Int
    BY <1>1, <1>2, <2>1, TotalOfGroup DEF n
  <2>3. T[i] = T[h] + IF FirstOfGroup(r, Gap, i) THEN r[i].end - r[i].start
                      ELSE r[i].end - r[h].end
    BY <1>2, <2>1 DEF RunningTotal, Length, n
  <2>4. Unread(d) = T[n] - (T[h] + d.fetched - r[h].end)
    BY <1>3, <1>14
  <2>5. CASE FirstOfGroup(r, Gap, i)
    <3>1. GroupEnd(r, Gap, h) = r[h].end
      BY <1>1, <1>4, <2>1, <2>5, GroupEndSteps DEF n
    <3>2. d.fetched = r[h].end
      BY <1>3, <1>14, <2>2, <3>1
    <3>3. from = r[i].start /\ T[i] = T[h] + (r[i].end - r[i].start)
      BY <1>6, <2>3, <2>5
    <3>4. Unread(e) = Unread(d) - (to - from)
      <4> DEFINE tn == T[n]
                 th == T[h]
                 ei == r[i].end
      <4>1. Unread(e) = tn - ((th + (ei - from)) + to - ei)
        BY <1>5, <3>3
      <4>2. tn \in Int /\ th \in Int /\ to \in Int /\ from \in Int /\ ei \in Int
        BY <1>2, <1>9, <1>10, <1>11, <2>2
      <4>3. Unread(d) = tn - th
        <5>1. th + r[h].end - r[h].end = th
          BY <2>2
        <5> QED BY <2>4, <3>2, <5>1
      <4> HIDE DEF tn, th, ei
      <4> QED BY <4>1, <4>2, <4>3
    <3> QED BY <1>8, <1>10, <1>11, <1>12, <3>4 DEF i
  <2>6. CASE ~FirstOfGroup(r, Gap, i)
    <3>1. from = d.fetched /\ T[i] = T[h] + (r[i].end - r[h].end)
      BY <1>6, <2>3, <2>6
    <3>2. Unread(e) = Unread(d) - (to - from)
      <4> DEFINE tn == T[n]
                 th == T[h]
                 eh == r[h].end
                 ei == r[i].end
      <4>1. /\ Unread(e) = tn - ((th + (ei - eh)) + to - ei)
            /\ Unread(d) = tn - (th + from - eh)
        BY <1>5, <2>4, <3>1
      <4>2. tn \in Int /\ th \in Int /\ to \in Int /\ from \in Int /\ eh \in Int /\ ei \in Int
        BY <1>2, <1>9, <1>10, <1>11, <2>2
      <4> HIDE DEF tn, th, eh, ei
      <4> QED BY <4>1, <4>2
    <3> QED BY <1>8, <1>10, <1>11, <1>12, <3>2 DEF i
  <2> QED BY <2>5, <2>6
<1> QED BY <1>13, <1>14

CountBars == [total : Int, done : Int, open : BOOLEAN]

Rest(c) == Last(c.bars).total - Last(c.bars).done

(* The bars of a constructor: it makes them for the progress, the latest   *)
(* one has not seen more than its total, and it knows no other.            *)
BarsOk(c) ==
  /\ c.bars \in Seq(CountBars)
  /\ c.bars # <<>> => c.progress /\ Rest(c) >= 0
  /\ c.bar # 0 => c.bar = Len(c.bars)

LEMMA LastBar ==
  ASSUME NEW bars \in Seq(CountBars), bars # <<>>
  PROVE  /\ Len(bars) \in Nat \ {0} /\ Last(bars) = bars[Len(bars)]
         /\ Last(bars) \in CountBars /\ Last(bars).total \in Int /\ Last(bars).done \in Int
<1>1. Len(bars) \in Nat \ {0} /\ Last(bars) = bars[Len(bars)]
  BY DEF Last
<1>2. bars[Len(bars)] \in CountBars
  BY <1>1, ElementOfSeq
<1> QED BY <1>1, <1>2 DEF CountBars

(* close_progress: what the bar has seen stays.                            *)
LEMMA CloseCounts ==
  ASSUME NEW c, KnowsItsBar(c), BarsOk(c)
  PROVE  LET d == Load!CloseProgress(c)
         IN  /\ BarsOk(d) /\ d.progress = c.progress /\ d.by = c.by /\ d.bar = 0
             /\ d.bars = <<>> <=> c.bars = <<>>
             /\ c.bars # <<>> => Rest(d) = Rest(c)
<1> USE DEF Load!CloseProgress, Load!None
<1>1. CASE c.bar = 0
  BY <1>1
<1>2. CASE c.bar # 0
  <2> DEFINE n == Len(c.bars)
             closed == [c.bars[n] EXCEPT !.open = FALSE]
             bars == [c.bars EXCEPT ![n] = closed]
             d == Load!CloseProgress(c)
  <2>1. /\ c = [dcp |-> c.dcp, progress |-> c.progress, ranges |-> c.ranges, by |-> c.by,
                bars |-> c.bars, bar |-> c.bar]
        /\ c.bar = n /\ c.bars \in Seq(CountBars) /\ n \in Nat \ {0} /\ c.bars # <<>>
        /\ c.progress /\ Rest(c) >= 0
    BY <1>2 DEF KnowsItsBar, ConTypes, BarsOk
  <2>2. d = [dcp |-> c.dcp, progress |-> c.progress, ranges |-> c.ranges, by |-> c.by,
             bars |-> bars, bar |-> 0]
    BY <1>2, <2>1
  <2>3. closed \in CountBars /\ closed.total = c.bars[n].total /\ closed.done = c.bars[n].done
    <3>1. c.bars[n] \in CountBars
      BY <2>1, LastBar
    <3> QED BY <3>1 DEF CountBars
  <2> HIDE DEF closed, d, n
  <2>4. bars \in Seq(CountBars) /\ Len(bars) = Len(c.bars) /\ bars[n] = closed
    <3>1. n \in 1..Len(c.bars)
      BY <2>1 DEF n
    <3> QED BY <2>1, <2>3, <3>1, ExceptSeq
  <2> HIDE DEF bars
  <2>5. bars # <<>> /\ Last(bars) = closed /\ Last(c.bars) = c.bars[n]
    BY <2>1, <2>4 DEF Last, n
  <2>6. Rest(d) = Rest(c)
    BY <2>2, <2>3, <2>5 DEF Rest
  <2> QED BY <2>1, <2>2, <2>4, <2>5, <2>6 DEF BarsOk, d
<1> QED BY <1>1, <1>2

(* set_item_ranges_by_file *)
LEMMA SetItemCounts ==
  ASSUME NEW c, KnowsItsBar(c), BarsOk(c), NEW l, NEW plan
  PROVE  LET e == Load!SetItemRanges(c, l, plan)
         IN  BarsOk(e) /\ e.progress = c.progress /\ e.bar = 0
<1> DEFINE d == Load!CloseProgress(c)
           e == Load!SetItemRanges(c, l, plan)
           m == [f \in Load!FilesOf(plan) |-> Load!RangesOf(plan, f)]
<1>1. ConTypes(d)
  BY CloseProgressFacts DEF KnowsItsBar
<1>2. e = [d EXCEPT !.ranges = m, !.by = l]
  BY DEF Load!SetItemRanges
<1>3. BarsOk(d) /\ d.progress = c.progress /\ d.bar = 0
  BY CloseCounts
<1> HIDE DEF d, e, m
<1>4. e = [dcp |-> d.dcp, progress |-> d.progress, ranges |-> m, by |-> l,
           bars |-> d.bars, bar |-> d.bar]
  BY <1>1, <1>2 DEF ConTypes
<1>5. BarsOk(e)
  BY <1>3, <1>4 DEF BarsOk, Rest
<1> QED BY <1>3, <1>4, <1>5 DEF e

(* _start_progress *)
LEMMA StartCounts ==
  ASSUME NEW c, KnowsItsBar(c), BarsOk(c), c.bar = 0, NEW total \in Int, total >= 0,
         total = Load!SumFunction([f \in DOMAIN c.ranges |-> Load!StreamTotal(c.ranges[f], Gap)])
  PROVE  LET d == Load!StartProgress(c)
         IN  /\ BarsOk(d) /\ d.progress = c.progress
             /\ d.progress /\ total # 0 => d.bar # 0
             /\ d.bar # 0 => Rest(d) = total
<1> DEFINE d == Load!StartProgress(c)
           new == [total |-> total, done |-> 0, open |-> TRUE]
           bars == Append(c.bars, new)
           n == Len(c.bars) + 1
<1>1. d = IF ~c.progress \/ total = 0 THEN c ELSE [c EXCEPT !.bars = bars, !.bar = n]
  BY DEF Load!StartProgress
<1> HIDE DEF d
<1>2. CASE ~c.progress \/ total = 0
  BY <1>1, <1>2 DEF d
<1>3. CASE c.progress /\ total # 0
  <2>1. /\ c = [dcp |-> c.dcp, progress |-> c.progress, ranges |-> c.ranges, by |-> c.by,
                bars |-> c.bars, bar |-> c.bar]
        /\ c.bars \in Seq(CountBars)
    BY DEF KnowsItsBar, ConTypes, BarsOk
  <2>2. d = [dcp |-> c.dcp, progress |-> c.progress, ranges |-> c.ranges, by |-> c.by,
             bars |-> bars, bar |-> n]
    BY <1>1, <1>3, <2>1
  <2>3. new \in CountBars /\ new.total = total /\ new.done = 0
    BY DEF CountBars
  <2> HIDE DEF new
  <2>4. bars \in Seq(CountBars) /\ Len(bars) = n /\ bars[n] = new /\ n \in Nat \ {0}
    BY <2>1, <2>3
  <2> HIDE DEF bars, n
  <2>5. bars # <<>> /\ Last(bars) = new
    BY <2>4 DEF Last
  <2>6. Rest(d) = total
    BY <2>2, <2>3, <2>5 DEF Rest
  <2> QED BY <1>3, <2>2, <2>4, <2>5, <2>6 DEF BarsOk, d
<1> QED BY <1>2, <1>3

(* The callback of the reader.                                             *)
LEMMA UpdateCounts ==
  ASSUME NEW l \in Loads, KnowsItsBar(Load!Own(l)), BarsOk(Load!Own(l)),
         NEW bytes, Load!Own(l).bar # 0 =>
           bytes \in Int /\ bytes <= Rest(Load!Own(l)) /\ load[l].reader.reports
  PROVE  LET d == Load!UpdateProgress(l, bytes)
         IN  /\ BarsOk(d) /\ d.progress = Load!Own(l).progress /\ d.bar = Load!Own(l).bar
             /\ d.bar # 0 => Rest(d) = Rest(Load!Own(l)) - bytes
<1> DEFINE c == Load!Own(l)
           d == Load!UpdateProgress(l, bytes)
<1>1. CASE c.bar = 0
  <2>1. d = c
    BY <1>1 DEF Load!UpdateProgress, Load!None
  <2> QED BY <1>1, <2>1
<1>2. CASE c.bar # 0
  <2> DEFINE n == Len(c.bars)
             told == [c.bars[n] EXCEPT !.done = @ + bytes]
             bars == [c.bars EXCEPT ![n] = told]
  <2>1. /\ c = [dcp |-> c.dcp, progress |-> c.progress, ranges |-> c.ranges, by |-> c.by,
                bars |-> c.bars, bar |-> c.bar]
        /\ c.bar = n /\ c.bars \in Seq(CountBars) /\ n \in Nat \ {0} /\ c.bars # <<>>
        /\ c.progress /\ Rest(c) >= 0 /\ bytes \in Int /\ bytes <= Rest(c)
        /\ load[l].reader.reports
    BY <1>2 DEF KnowsItsBar, ConTypes, BarsOk
  <2>2. d = [c EXCEPT !.bars = [c.bars EXCEPT ![c.bar].done = @ + bytes]]
    BY <1>2, <2>1 DEF Load!UpdateProgress, Load!None
  <2> HIDE DEF c, d
  <2>3. d = [dcp |-> c.dcp, progress |-> c.progress, ranges |-> c.ranges, by |-> c.by,
             bars |-> bars, bar |-> c.bar]
    BY <2>1, <2>2
  <2>4. /\ told \in CountBars /\ told.total = c.bars[n].total
        /\ told.done = c.bars[n].done + bytes
        /\ c.bars[n].total \in Int /\ c.bars[n].done \in Int
    <3>1. c.bars[n] \in CountBars
      BY <2>1, LastBar
    <3> QED BY <2>1, <3>1 DEF CountBars
  <2> HIDE DEF told, n
  <2>5. bars \in Seq(CountBars) /\ Len(bars) = Len(c.bars) /\ bars[n] = told
    <3>1. n \in 1..Len(c.bars)
      BY <2>1 DEF n
    <3> QED BY <2>1, <2>4, <3>1, ExceptSeq
  <2> HIDE DEF bars
  <2>6. bars # <<>> /\ Last(bars) = told /\ Last(c.bars) = c.bars[n]
    BY <2>1, <2>5 DEF Last, n
  <2>7. Rest(d) = Rest(c) - bytes /\ Rest(c) \in Int
    BY <2>1, <2>3, <2>4, <2>6 DEF Rest
  <2>8. Rest(d) >= 0
    BY <2>1, <2>7
  <2> QED BY <2>1, <2>3, <2>5, <2>6, <2>7, <2>8 DEF BarsOk, c, d
<1> QED BY <1>1, <1>2

(* What the streams of the files of a plan deliver, and the sums of it.    *)
FileTotals(p) == [f \in Load!FilesOf(p) |-> StreamTotal(Load!RangesOf(p, f), Gap)]

Sums(p) == CHOOSE S : /\ IsSum(S, FileTotals(p), Load!FilesOf(p))
                      /\ SumFunction(FileTotals(p)) = S[Load!FilesOf(p)]

LEMMA SumsFacts ==
  ASSUME Gap \in Int, NEW p, IsSortedPlan(p)
  PROVE  /\ Sums(p)[{}] = 0
         /\ \A s \in SUBSET Load!FilesOf(p) :
              /\ Sums(p)[s] \in Int /\ Sums(p)[s] >= 0 /\ (s # {} => Sums(p)[s] > 0)
              /\ \A f \in s : Sums(p)[s] = StreamTotal(Load!RangesOf(p, f), Gap) + Sums(p)[s \ {f}]
         /\ SumFunction(FileTotals(p)) = Sums(p)[Load!FilesOf(p)]
<1> DEFINE D == Load!FilesOf(p)
           F == FileTotals(p)
           Summed(S) == IsSum(S, F, D) /\ SumFunction(F) = S[D]
           S == CHOOSE S : Summed(S)
<1>1. \A f \in D : /\ StreamTotal(Load!RangesOf(p, f), Gap) \in Int
                   /\ StreamTotal(Load!RangesOf(p, f), Gap) > 0
  BY RangesOfFacts, TotalsFacts
<1>2. /\ F \in [D -> Int] /\ \A f \in D : F[f] > 0
      /\ \A f \in D : F[f] = StreamTotal(Load!RangesOf(p, f), Gap)
  BY <1>1 DEF FileTotals
<1>3. Len(p) \in Nat
  BY DEF IsSortedPlan
<1>4. IsFiniteSet(D)
  BY <1>3, FilesAreFinite
<1>5. S = Sums(p)
  BY DEF Sums
<1> HIDE DEF D, F
<1>6. \E U : Summed(U)
  BY <1>2, <1>4, SumFacts
<1>7. Summed(S)
  <2> HIDE DEF Summed
  <2> QED BY <1>6
<1> HIDE DEF S
<1>8. \A s \in SUBSET D : S[s] \in Int /\ S[s] >= 0 /\ (s # {} => S[s] > 0)
  BY <1>2, <1>4, <1>7, PositiveSum
<1>9. S[{}] = 0 /\ \A s \in SUBSET D : \A f \in s : S[s] = F[f] + S[s \ {f}]
  BY <1>7 DEF IsSum
<1>10. \A s \in SUBSET D : \A f \in s :
         S[s] = StreamTotal(Load!RangesOf(p, f), Gap) + S[s \ {f}]
  BY <1>2, <1>9
<1> QED BY <1>5, <1>7, <1>8, <1>9, <1>10 DEF D, F

(* _start_progress announces the sum over all files of the plan.           *)
LEMMA AnnouncedTotal ==
  ASSUME Gap \in Int, NEW p, IsSortedPlan(p), NEW ranges,
         ranges = [f \in Load!FilesOf(p) |-> Load!RangesOf(p, f)]
  PROVE  Load!SumFunction([f \in DOMAIN ranges |-> Load!StreamTotal(ranges[f], Gap)])
         = Sums(p)[Load!FilesOf(p)]
<1>1. [f \in DOMAIN ranges |-> Load!StreamTotal(ranges[f], Gap)] = FileTotals(p)
  BY LoadTotals DEF FileTotals
<1> QED BY <1>1, SumsFacts, LoadTotals

(* A load whose constructor is its own.  Between plan and end the bar has  *)
(* still to see the streams of the files that are left and what the open   *)
(* reader has not read.                                                    *)
CountOk(r, c, l) ==
  /\ BarsOk(c) /\ c.by \in {Load!None, l}
  /\ r.pc \in {"planned", "reading"} =>
       /\ c.progress /\ r.plan # <<>> => c.bar # 0
       /\ c.bar # 0 => IF r.reader.file = Load!None THEN Rest(c) = Sums(r.plan)[r.left]
                       ELSE /\ ReaderCounts(r.reader)
                            /\ Rest(c) = Sums(r.plan)[r.left] + Unread(r.reader)
  /\ r.pc = "loaded" /\ r.plan # <<>> /\ c.bars # <<>> => Rest(c) = 0

CountInv ==
  /\ PlanInv
  /\ \A l \in Loads : ~Load!Shared(l) => CountOk(load[l], con[uses[l]], l)

LEMMA CountStep ==
  ASSUME CountInv, PlanInv', NEW l \in Loads, NEW rec, NEW new,
         ~Load!Shared(l) => CountOk(rec, new, l),
         load' = [load EXCEPT ![l] = rec], con' = [con EXCEPT ![uses[l]] = new],
         uses' = uses
  PROVE  CountInv'
<1>1. uses[l] \in Constructors /\ \A k \in Loads : uses[k] \in Constructors
  BY DEF CountInv, PlanInv, BarInv
<1>2. load = [k \in Loads |-> load[k]] /\ con = [c \in Constructors |-> con[c]]
  BY DEF CountInv, PlanInv, BarInv
<1>3. load'[l] = rec /\ \A k \in Loads : k # l => load'[k] = load[k]
  BY <1>2
<1>4. con'[uses[l]] = new /\ \A c \in Constructors : c # uses[l] => con'[c] = con[c]
  BY <1>1, <1>2
<1>5. ASSUME NEW k \in Loads, ~Load!Shared(k)
      PROVE  CountOk(load'[k], con'[uses[k]], k)
  <2>1. CASE k = l
    BY <1>3, <1>4, <1>5, <2>1
  <2>2. CASE k # l
    <3>1. uses[k] # uses[l]
      BY <1>5, <2>2 DEF Load!Shared
    <3> QED BY <1>1, <1>3, <1>4, <1>5, <2>2, <3>1 DEF CountInv
  <2> QED BY <2>1, <2>2
<1>6. \A k \in Loads : Load!Shared(k)' <=> Load!Shared(k)
  BY DEF Load!Shared
<1>7. CountInv' = (PlanInv' /\ \A k \in Loads :
                     ~Load!Shared(k)' => CountOk(load'[k], con'[uses'[k]], k))
  BY DEF CountInv
<1> QED BY <1>5, <1>6, <1>7

(* What a load with a bar may rely on between plan and end.                *)
LEMMA OwnBar ==
  ASSUME PlanInv, NEW l \in Loads, CountOk(load[l], con[uses[l]], l),
         load[l].pc \in {"planned", "reading"}, con[uses[l]].bar # 0
  PROVE  /\ Load!Own(l).by = l /\ Load!Own(l).dcp
         /\ IsSortedPlan(load[l].plan) /\ load[l].left \subseteq Load!FilesOf(load[l].plan)
         /\ load[l].reader.file # Load!None =>
              /\ RangesFit(load[l].reader.ranges, load[l].plan)
              /\ load[l].reader.ranges = Load!RangesOf(load[l].plan, load[l].reader.file)
              /\ Accepted(load[l].reader.ranges) /\ load[l].reader.at = load[l].reader.item
<1> DEFINE c == con[uses[l]]
           r == load[l]
<1>1. /\ c = Load!Own(l) /\ ConTypes(c) /\ IsSortedPlan(r.plan) /\ PlanOk(r, c, l)
  BY DEF PlanInv, BarInv, KnowsItsBar, IsLoadRecord, Load!Own
<1>2. c.dcp
  <2>1. c.bars # <<>>
    BY <1>1 DEF ConTypes
  <2> QED BY <1>1, <2>1 DEF ConTypes
<1>3. c.by = l
  BY <1>1, <1>2 DEF PlanOk, Injected, CountOk
<1>4. r.reader.file # Load!None =>
        /\ r.reader.ranges = Load!RangesOf(r.plan, r.reader.file)
        /\ Accepted(r.reader.ranges) /\ r.reader.at = r.reader.item
  BY <1>1, <1>3 DEF PlanOk, ReaderOk
<1>5. r.left \subseteq Load!FilesOf(r.plan)
  BY <1>1 DEF PlanOk, Injected
<1>6. RangesFit(Load!RangesOf(r.plan, r.reader.file), r.plan)
  BY <1>1, RangesOfFacts
<1> QED BY <1>1, <1>2, <1>3, <1>4, <1>5, <1>6

(* What is read for the next item is told to the bar, and no longer to be  *)
(* read.                                                                   *)
LEMMA ReadBytes ==
  ASSUME CountInv, Gap \in Int, NEW l \in Loads, ~Load!Shared(l), Load!MoreItems(l),
         NEW i \in Load!Holding(l), NEW to \in Load!ChunksEnd(load[l].reader, i),
         NEW e, e.ranges = load[l].reader.ranges, e.reports = load[l].reader.reports,
         e.item = load[l].reader.item + 1, e.fetched = to
  PROVE  LET new == Load!UpdateProgress(l, Load!Fetched(load[l].reader, i, to))
         IN  /\ BarsOk(new) /\ new.progress = Load!Own(l).progress
             /\ new.bar = Load!Own(l).bar
             /\ new.bar # 0 => /\ ReaderCounts(e)
                               /\ Rest(new) = Sums(load[l].plan)[load[l].left] + Unread(e)
<1> DEFINE c == Load!Own(l)
           d == load[l].reader
           plan == load[l].plan
           bytes == Load!Fetched(d, i, to)
           new == Load!UpdateProgress(l, bytes)
<1>1. /\ PlanInv /\ c = con[uses[l]] /\ KnowsItsBar(c) /\ CountOk(load[l], c, l) /\ BarsOk(c)
      /\ load[l].pc = "reading" /\ d.file # Load!None
  BY DEF CountInv, PlanInv, BarInv, CountOk, Load!Own, Load!MoreItems
<1>2. ASSUME c.bar # 0
      PROVE  /\ ReaderCounts(e) /\ bytes \in Int /\ bytes <= Rest(c) /\ d.reports
             /\ Rest(c) - bytes = Sums(plan)[load[l].left] + Unread(e)
  <2>1. /\ c.by = l /\ IsSortedPlan(plan) /\ load[l].left \subseteq Load!FilesOf(plan)
        /\ RangesFit(d.ranges, plan) /\ d.ranges = Load!RangesOf(plan, d.file)
        /\ Accepted(d.ranges) /\ d.at = d.item
    BY <1>1, <1>2, OwnBar
  <2>2. i = d.item + 1
    BY <1>1, <2>1, HoldingOwn
  <2>3. d.item < Len(d.ranges)
    BY <2>1 DEF Load!MoreItems
  <2>4. ReaderCounts(d) /\ Rest(c) = Sums(plan)[load[l].left] + Unread(d)
    BY <1>1, <1>2 DEF CountOk
  <2>5. ReaderCounts(e) /\ bytes \in Int /\ Unread(e) = Unread(d) - bytes
    BY <2>1, <2>2, <2>3, <2>4, ReadCounts
  <2>6. Sums(plan)[load[l].left] \in Int /\ Sums(plan)[load[l].left] >= 0
    BY <2>1, SumsFacts
  <2>7. Unread(d) \in Int /\ Unread(e) \in Int /\ Unread(e) >= 0
    BY <2>1, <2>4, <2>5, UnreadFacts
  <2>8. d.reports
    BY <2>4 DEF ReaderCounts
  <2> HIDE DEF c, d, plan, bytes
  <2>9. bytes <= Rest(c) /\ Rest(c) - bytes = Sums(plan)[load[l].left] + Unread(e)
    BY <2>4, <2>5, <2>6, <2>7
  <2> QED BY <2>5, <2>8, <2>9
<1> HIDE DEF bytes
<1>3. /\ BarsOk(new) /\ new.progress = c.progress /\ new.bar = c.bar
      /\ new.bar # 0 => Rest(new) = Rest(c) - bytes
  BY <1>1, <1>2, UpdateCounts
<1> QED BY <1>2, <1>3 DEF bytes

(* prepare_local_plan *)
LEMMA PlanCounts ==
  ASSUME CountInv, PlanInv', Load!LoadAssumption, NEW l \in Loads, NEW plan \in Plans,
         Load!Plan(l, plan) \/ Load!PlanFails(l, plan)
  PROVE  CountInv'
<1> DEFINE q == Load!Sorted(plan)
           c == Load!Own(l)
           items == Load!SetItemRanges(c, l, q)
           started == Load!StartProgress(items)
<1>1. IsSortedPlan(q) /\ Load!FilesOf(q) = Load!FilesOf(plan)
  BY SortedFacts
<1>2. /\ c = con[uses[l]] /\ KnowsItsBar(c) /\ IsLoadRecord(load[l]) /\ uses[l] \in Constructors
      /\ load[l].pc \notin {"planned", "reading"} /\ load[l].reader.file = Load!None
      /\ con = [con EXCEPT ![uses[l]] = c]
  BY DEF CountInv, PlanInv, BarInv, PlanOk, ReaderOk, Load!Own, Load!Plan, Load!PlanFails,
         Load!Planned
<1>3. /\ KnowsItsBar(items) /\ OpenBars(items) = {} /\ items.dcp = c.dcp /\ items.by = l
      /\ items.ranges = [f \in Load!FilesOf(q) |-> Load!RangesOf(q, f)]
  BY <1>2, SetItemRangesFacts, InjectedPlan
<1>4. ~Load!Shared(l) => BarsOk(c) /\ BarsOk(items) /\ items.progress = c.progress /\ items.bar = 0
  BY <1>2, SetItemCounts DEF CountInv, CountOk
<1>5. c.by \in {Load!None, l} \/ Load!Shared(l)
  BY <1>2 DEF CountInv, CountOk
<1>6. Gap \in Int
  BY DEF Load!LoadAssumption
<1> DEFINE Rec(pc) == [load[l] EXCEPT !.pc = pc, !.plan = q, !.left = Load!FilesOf(plan)]
<1>7. \A pc : /\ Rec(pc).pc = pc /\ Rec(pc).plan = q /\ Rec(pc).left = Load!FilesOf(q)
              /\ Rec(pc).reader = load[l].reader
  <2> SUFFICES ASSUME NEW pc
               PROVE  /\ Rec(pc).pc = pc /\ Rec(pc).plan = q /\ Rec(pc).left = Load!FilesOf(q)
                      /\ Rec(pc).reader = load[l].reader
    OBVIOUS
  <2> DEFINE u == Rec(pc)
             left == Load!FilesOf(plan)
  <2>1. u = [load[l] EXCEPT !.pc = pc, !.plan = q, !.left = left]
    OBVIOUS
  <2> HIDE DEF u, left, q
  <2>2. u = [pc |-> pc, plan |-> q, left |-> left, reader |-> load[l].reader]
    BY <1>2, <2>1, RecordUpdates DEF IsLoadRecord
  <2> QED BY <1>1, <2>2 DEF u, left
<1>8. CASE Load!Plan(l, plan)
  <2> DEFINE rec == Rec("planned")
             new == IF c.dcp THEN started ELSE c
  <2>1. load' = [load EXCEPT ![l] = rec] /\ con' = [con EXCEPT ![uses[l]] = new] /\ uses' = uses
    BY <1>2, <1>8 DEF Load!Plan, Load!Planned, Load!SetLoad, Load!SetCon
  <2>2. /\ rec.pc = "planned" /\ rec.plan = q /\ rec.left = Load!FilesOf(q)
        /\ rec.reader.file = Load!None
    BY <1>2, <1>7
  <2> HIDE DEF rec, q, c, items
  <2>3. ASSUME ~Load!Shared(l), c.dcp
        PROVE  CountOk(rec, new, l)
    <3> DEFINE total == Sums(q)[Load!FilesOf(q)]
    <3>1. total \in Int /\ total >= 0 /\ (Load!FilesOf(q) # {} => total > 0)
      BY <1>1, <1>6, SumsFacts
    <3>2. q # <<>> => Load!FilesOf(q) # {}
      <4>1. q \in Seq(PlanItems(q))
        BY <1>1 DEF IsSortedPlan
      <4>2. q # <<>> => 1 \in 1..Len(q)
        BY <4>1
      <4> QED BY <4>2 DEF Load!FilesOf
    <3>3. total = Load!SumFunction([f \in DOMAIN items.ranges |-> Load!StreamTotal(items.ranges[f], Gap)])
      BY <1>1, <1>3, <1>6, AnnouncedTotal
    <3> HIDE DEF total
    <3>4. /\ BarsOk(started)
          /\ started.progress /\ total # 0 => started.bar # 0
          /\ started.bar # 0 => Rest(started) = total
      BY <1>3, <1>4, <2>3, <3>1, <3>3, StartCounts
    <3>5. started.by = l
      BY <1>3, BarsOnly DEF SamePlan
    <3>6. new = started
      BY <2>3
    <3>7. total = Sums(rec.plan)[rec.left]
      BY <2>2 DEF total
    <3> HIDE DEF started, total, new
    <3>8. total # 0 \/ q = <<>>
      BY <3>1, <3>2
    <3>9. /\ new.progress /\ rec.plan # <<>> => new.bar # 0
          /\ new.bar # 0 => Rest(new) = Sums(rec.plan)[rec.left]
      BY <2>2, <3>4, <3>6, <3>7, <3>8
    <3>10. BarsOk(new) /\ new.by = l
      BY <3>4, <3>5, <3>6
    <3> QED BY <2>2, <3>9, <3>10 DEF CountOk
  <2>4. ASSUME ~Load!Shared(l), ~c.dcp
        PROVE  CountOk(rec, new, l)
    <3>1. new = c
      BY <2>4
    <3>2. c.bars = <<>> /\ ~c.progress
      BY <1>2, <2>4 DEF KnowsItsBar, ConTypes
    <3>3. c.bar = 0
      BY <1>2, <3>2 DEF KnowsItsBar, ConTypes
    <3> HIDE DEF new
    <3> QED BY <1>4, <1>5, <2>2, <2>4, <3>1, <3>2, <3>3 DEF CountOk
  <2> HIDE DEF new
  <2> QED BY <2>1, <2>3, <2>4, CountStep
<1>9. CASE Load!PlanFails(l, plan)
  <2> DEFINE rec == Rec("aborted")
  <2>1. load' = [load EXCEPT ![l] = rec] /\ uses' = uses
    BY <1>9 DEF Load!PlanFails, Load!Planned, Load!SetLoad
  <2>2. PICK new \in {c, items} : con' = [con EXCEPT ![uses[l]] = new]
    BY <1>2, <1>9 DEF Load!PlanFails, Load!SetCon
  <2>3. rec.pc = "aborted"
    BY <1>7
  <2> HIDE DEF rec, q, c, items
  <2>4. ~Load!Shared(l) => CountOk(rec, new, l)
    BY <1>3, <1>4, <1>5, <2>2, <2>3 DEF CountOk
  <2> QED BY <2>1, <2>2, <2>4, CountStep
<1> QED BY <1>8, <1>9

(* read_data ends: the bar stays as it is, and of a load that returns it   *)
(* has seen everything.                                                    *)
LEMMA EndCounts ==
  ASSUME CountInv, PlanInv', NEW l \in Loads, NEW pc, NEW c, KnowsItsBar(c),
         SamePlan(Load!Own(l), c), pc \notin {"planned", "reading"},
         ~Load!Shared(l) => /\ BarsOk(c)
                            /\ pc = "loaded" /\ load[l].plan # <<>> /\ c.bars # <<>> => Rest(c) = 0,
         Load!ReadDataEnds(l, pc, c), uses' = uses
  PROVE  CountInv'
<1> DEFINE rec == [load[l] EXCEPT !.pc = pc, !.reader = Load!NoReader]
           new == IF c.dcp THEN Load!CloseProgress(c) ELSE c
<1>1. load' = [load EXCEPT ![l] = rec] /\ con' = [con EXCEPT ![uses[l]] = new]
  BY DEF Load!ReadDataEnds, Load!SetLoad, Load!SetCon
<1>2. IsLoadRecord(load[l]) /\ Load!Own(l) = con[uses[l]]
  BY DEF CountInv, PlanInv, Load!Own
<1>3. rec.pc = pc /\ rec.plan = load[l].plan
  <2>1. rec = [load[l] EXCEPT !.pc = pc, !.reader = Load!NoReader]
    OBVIOUS
  <2> HIDE DEF rec
  <2>2. rec = [pc |-> pc, plan |-> load[l].plan, left |-> load[l].left,
               reader |-> Load!NoReader]
    BY <1>2, <2>1, RecordUpdates DEF IsLoadRecord
  <2> QED BY <2>2
<1>4. ~Load!Shared(l) => c.by \in {Load!None, l}
  BY <1>2 DEF CountInv, CountOk, SamePlan
<1>5. ~Load!Shared(l) =>
        /\ BarsOk(new) /\ new.by = c.by
        /\ pc = "loaded" /\ load[l].plan # <<>> /\ new.bars # <<>> => Rest(new) = 0
  BY CloseCounts
<1> HIDE DEF rec, new
<1>6. ~Load!Shared(l) => CountOk(rec, new, l)
  BY <1>3, <1>4, <1>5 DEF CountOk
<1> QED BY <1>1, <1>6, CountStep

(* OpenFile, ReadItem.                                                     *)
LEMMA OpenCounts ==
  ASSUME CountInv, PlanInv', Gap \in Int, Load!None \notin Loads, NEW l \in Loads,
         NEW f \in load[l].left, Load!OpenFile(l, f)
  PROVE  CountInv'
<1> DEFINE c == Load!Own(l)
           reports == c.bar # Load!None
           ranges == IF c.dcp THEN Load!NonEmptyRanges(c.ranges[f])
                     ELSE Load!RangesOf(load[l].plan, f)
           rec == [load[l] EXCEPT !.pc = "reading", !.left = @ \ {f},
                     !.reader = [Load!NoReader EXCEPT !.file = f, !.reports = reports,
                                                      !.ranges = ranges]]
           d == [file |-> f, ranges |-> ranges, reports |-> reports, item |-> 0, at |-> 0,
                 fetched |-> 0]
<1>1. load' = [load EXCEPT ![l] = rec] /\ con' = con /\ uses' = uses
  BY DEF Load!OpenFile, Load!SetLoad
<1>2. /\ IsLoadRecord(load[l]) /\ PlanInv /\ c = con[uses[l]]
      /\ con = [con EXCEPT ![uses[l]] = c]
      /\ Load!Between(l) /\ Load!HasReader(l, f) /\ load[l].pc \in {"planned", "reading"}
      /\ load[l].reader.file = Load!None
  BY DEF CountInv, PlanInv, BarInv, Load!Own, Load!OpenFile, Load!Between, Load!Reading
<1>3. rec = [pc |-> "reading", plan |-> load[l].plan, left |-> load[l].left \ {f}, reader |-> d]
  <2> HIDE DEF reports, ranges
  <2> DEFINE reader == [Load!NoReader EXCEPT !.file = f, !.reports = reports, !.ranges = ranges]
             left == load[l].left \ {f}
             u == rec
  <2>1. u = [load[l] EXCEPT !.pc = "reading", !.left = left, !.reader = reader]
    OBVIOUS
  <2>2. reader = [Load!NoReader EXCEPT !.file = f, !.reports = reports, !.ranges = ranges]
    OBVIOUS
  <2> HIDE DEF u, left, reader
  <2>3. reader = d
    BY <2>2, OpenedReader
  <2>4. u = [pc |-> "reading", plan |-> load[l].plan, left |-> left, reader |-> reader]
    BY <1>2, <2>1, RecordUpdates DEF IsLoadRecord
  <2> QED BY <2>3, <2>4 DEF u, left
<1> HIDE DEF rec
<1>4. ASSUME ~Load!Shared(l), c.bar # 0
      PROVE  ReaderCounts(d) /\ Rest(c) = Sums(load[l].plan)[load[l].left \ {f}] + Unread(d)
  <2>1. CountOk(load[l], c, l)
    BY <1>2, <1>4 DEF CountInv
  <2>2. /\ c.by = l /\ c.dcp /\ IsSortedPlan(load[l].plan)
        /\ load[l].left \subseteq Load!FilesOf(load[l].plan)
    BY <1>2, <1>4, <2>1, OwnBar
  <2>3. NonEmptyRanges(c.ranges[f]) = Load!RangesOf(load[l].plan, f)
    BY <1>2, <2>2, OpenOwn
  <2>4. ranges = Load!RangesOf(load[l].plan, f)
    BY <2>2, <2>3, LoadRanges
  <2>5. d.reports /\ d.item = 0 /\ d.fetched = 0 /\ d.ranges = ranges
    BY <1>4 DEF Load!None
  <2> HIDE DEF d, ranges, c
  <2>6. Unread(d) = StreamTotal(Load!RangesOf(load[l].plan, f), Gap)
    <3>1. /\ StreamTotal(Load!RangesOf(load[l].plan, f), Gap) \in Int
          /\ Len(ranges) \in Nat
      BY <2>2, <2>4, RangesOfFacts, TotalsFacts
    <3> QED BY <2>4, <2>5, <3>1 DEF Unread
  <2>7. ReaderCounts(d)
    <3>1. Len(ranges) \in Nat
      BY <2>2, <2>4, RangesOfFacts DEF RangesFit
    <3> QED BY <2>5, <3>1 DEF ReaderCounts
  <2>8. Sums(load[l].plan)[load[l].left]
        = StreamTotal(Load!RangesOf(load[l].plan, f), Gap) + Sums(load[l].plan)[load[l].left \ {f}]
    BY <2>2, SumsFacts
  <2>9. /\ Sums(load[l].plan)[load[l].left \ {f}] \in Int
        /\ StreamTotal(Load!RangesOf(load[l].plan, f), Gap) \in Int
    BY <2>2, SumsFacts, RangesOfFacts, TotalsFacts
  <2>10. Rest(c) = Sums(load[l].plan)[load[l].left]
    BY <1>2, <1>4, <2>1 DEF CountOk
  <2> QED BY <2>6, <2>7, <2>8, <2>9, <2>10
<1>5. ASSUME ~Load!Shared(l)
      PROVE  CountOk(rec, c, l)
  <2>1. CountOk(load[l], c, l)
    BY <1>2, <1>5 DEF CountInv
  <2>2. f # Load!None => d.file # Load!None
    OBVIOUS
  <2>3. /\ rec.pc = "reading" /\ rec.plan = load[l].plan /\ rec.left = load[l].left \ {f}
        /\ rec.reader = d /\ d.file = f
    BY <1>3
  <2>4. c.bar # 0 => f # Load!None
    <3> SUFFICES ASSUME c.bar # 0 PROVE f # Load!None
      OBVIOUS
    <3>1. IsSortedPlan(load[l].plan) /\ f \in Load!FilesOf(load[l].plan)
      BY <1>2, <2>1, OwnBar
    <3>2. PICK i \in 1..Len(load[l].plan) : f = load[l].plan[i].file
      BY <3>1 DEF Load!FilesOf
    <3>3. load[l].plan[i].file \in Load!FilesOf(load[l].plan) \ {Load!None}
      BY <3>1, PlanItemType DEF IsSortedPlan, PlanItems
    <3> QED BY <3>2, <3>3
  <2> HIDE DEF c, d
  <2> QED BY <1>2, <1>4, <1>5, <2>1, <2>3, <2>4 DEF CountOk
<1> HIDE DEF c
<1> QED BY <1>1, <1>2, <1>5, CountStep

LEMMA ReadItemCounts ==
  ASSUME CountInv, PlanInv', Gap \in Int, NEW l \in Loads, Load!ReadItem(l)
  PROVE  CountInv'
<1>1. PICK i \in Load!Holding(l) : \E to \in Load!ChunksEnd(load[l].reader, i) :
        /\ load' = [load EXCEPT ![l] = [load[l] EXCEPT
             !.reader.item = @ + 1, !.reader.at = i, !.reader.fetched = to]]
        /\ con' = [con EXCEPT ![uses[l]] =
             Load!UpdateProgress(l, Load!Fetched(load[l].reader, i, to))]
  BY DEF Load!ReadItem, Load!SetLoad, Load!SetCon
<1>2. PICK to \in Load!ChunksEnd(load[l].reader, i) :
        /\ load' = [load EXCEPT ![l] = [load[l] EXCEPT
             !.reader.item = @ + 1, !.reader.at = i, !.reader.fetched = to]]
        /\ con' = [con EXCEPT ![uses[l]] =
             Load!UpdateProgress(l, Load!Fetched(load[l].reader, i, to))]
  BY <1>1
<1> DEFINE c == Load!Own(l)
           rec == [load[l] EXCEPT
                     !.reader.item = @ + 1, !.reader.at = i, !.reader.fetched = to]
           new == Load!UpdateProgress(l, Load!Fetched(load[l].reader, i, to))
           d == load[l].reader
           e == [file |-> d.file, ranges |-> d.ranges, reports |-> d.reports,
                 item |-> d.item + 1, at |-> i, fetched |-> to]
<1>3. /\ IsLoadRecord(load[l]) /\ KnowsItsBar(c) /\ c = con[uses[l]] /\ uses' = uses
      /\ Load!MoreItems(l) /\ load[l].pc = "reading" /\ d.file # Load!None
  BY DEF CountInv, PlanInv, BarInv, Load!Own, Load!ReadItem, Load!MoreItems
<1>4. rec = [pc |-> load[l].pc, plan |-> load[l].plan, left |-> load[l].left, reader |-> e]
  <2> DEFINE u == rec
  <2>1. u = [load[l] EXCEPT
               !.reader.item = @ + 1, !.reader.at = i, !.reader.fetched = to]
    OBVIOUS
  <2> HIDE DEF u
  <2>2. u = [pc |-> load[l].pc, plan |-> load[l].plan, left |-> load[l].left,
             reader |-> [file |-> load[l].reader.file, ranges |-> load[l].reader.ranges,
                         reports |-> load[l].reader.reports,
                         item |-> load[l].reader.item + 1, at |-> i, fetched |-> to]]
    BY <1>3, <2>1, ReadRecord
  <2> QED BY <2>2 DEF u
<1>5. /\ e.ranges = d.ranges /\ e.reports = d.reports /\ e.item = d.item + 1
      /\ e.fetched = to /\ e.file = d.file
  OBVIOUS
<1>6. load' = [load EXCEPT ![l] = rec] /\ con' = [con EXCEPT ![uses[l]] = new]
  BY <1>2
<1>7. new.by = c.by
  BY <1>3, BarsOnly DEF SamePlan
<1> HIDE DEF rec, e
<1>8. ASSUME ~Load!Shared(l)
      PROVE  CountOk(rec, new, l)
  <2>1. CountOk(load[l], c, l)
    BY <1>3, <1>8 DEF CountInv
  <2>2. /\ BarsOk(new) /\ new.progress = c.progress /\ new.bar = c.bar
        /\ new.bar # 0 => /\ ReaderCounts(e)
                          /\ Rest(new) = Sums(load[l].plan)[load[l].left] + Unread(e)
    BY <1>3, <1>5, <1>8, ReadBytes
  <2> HIDE DEF c, new
  <2>3. /\ rec.pc = "reading" /\ rec.plan = load[l].plan /\ rec.left = load[l].left
        /\ rec.reader = e /\ e.file # Load!None
    BY <1>3, <1>4, <1>5
  <2> HIDE DEF d
  <2> QED BY <1>3, <1>7, <2>1, <2>2, <2>3 DEF CountOk
<1> HIDE DEF new
<1> QED BY <1>3, <1>6, <1>8, CountStep

LEMMA CountStepInvariant ==
  ASSUME CountInv, Load!LoadAssumption, Load!Next
  PROVE  CountInv'
<1>0. PlanInv' /\ PlanInv /\ Gap \in Int /\ Load!None \notin Loads
  <2>1. PlanInv
    BY DEF CountInv
  <2>2. PlanInv'
    BY <2>1, PlanStepInvariant
  <2>3. Gap \in Int /\ Load!None \notin Loads
    BY DEF Load!LoadAssumption
  <2> QED BY <2>1, <2>2, <2>3
<1>1. ASSUME NEW l \in Loads
      PROVE  /\ IsLoadRecord(load[l]) /\ Load!Own(l) = con[uses[l]]
             /\ KnowsItsBar(Load!Own(l)) /\ con = [con EXCEPT ![uses[l]] = Load!Own(l)]
             /\ SamePlan(Load!Own(l), Load!Own(l))
             /\ ~Load!Shared(l) => CountOk(load[l], Load!Own(l), l) /\ BarsOk(Load!Own(l))
  BY DEF CountInv, PlanInv, BarInv, Load!Own, SamePlan, CountOk
<1>2. ASSUME NEW l \in Loads, NEW plan \in Plans, Load!Plan(l, plan) \/ Load!PlanFails(l, plan)
      PROVE  CountInv'
  BY <1>0, <1>2, PlanCounts
<1>3. ASSUME NEW l \in Loads, Load!OtherRankFails(l)
      PROVE  CountInv'
  <2> DEFINE rec == [load[l] EXCEPT !.pc = "aborted"]
  <2>1. load' = [load EXCEPT ![l] = rec] /\ con' = con /\ uses' = uses
    BY <1>3 DEF Load!OtherRankFails, Load!SetLoad
  <2>2. rec.pc = "aborted"
    <3>1. load[l] = [pc |-> load[l].pc, plan |-> load[l].plan, left |-> load[l].left,
                     reader |-> load[l].reader]
      BY <1>1 DEF IsLoadRecord
    <3> QED BY <3>1
  <2> HIDE DEF rec
  <2>3. ~Load!Shared(l) => CountOk(rec, Load!Own(l), l)
    BY <1>1, <2>2 DEF CountOk
  <2> QED BY <1>0, <1>1, <2>1, <2>3, CountStep
<1>4. ASSUME NEW l \in Loads, NEW f \in load[l].left, Load!OpenFile(l, f)
      PROVE  CountInv'
  BY <1>0, <1>4, OpenCounts
<1>5. ASSUME NEW l \in Loads, NEW f \in load[l].left, Load!OpenRejected(l, f)
      PROVE  CountInv'
  <2>1. Load!ReadDataEnds(l, "rejected", Load!Own(l)) /\ uses' = uses
    BY <1>5 DEF Load!OpenRejected
  <2> QED BY <1>0, <1>1, <2>1, EndCounts
<1>6. ASSUME NEW l \in Loads, Load!ReadItem(l)
      PROVE  CountInv'
  BY <1>0, <1>6, ReadItemCounts
<1>7. ASSUME NEW l \in Loads, Load!ReadRejected(l)
      PROVE  CountInv'
  <2>1. Load!ReadDataEnds(l, "rejected", Load!Own(l)) /\ uses' = uses
    BY <1>7 DEF Load!ReadRejected
  <2> QED BY <1>0, <1>1, <2>1, EndCounts
<1>8. ASSUME NEW l \in Loads, Load!ReadFails(l)
      PROVE  CountInv'
  <2>1. uses' = uses
    BY <1>8 DEF Load!ReadFails
  <2>2. CASE Load!ReadDataEnds(l, "raised", Load!Own(l))
    BY <1>0, <1>1, <2>1, <2>2, EndCounts
  <2>3. ASSUME Load!MoreItems(l), NEW i \in Load!Holding(l),
               NEW to \in Load!ChunksEnd(load[l].reader, i),
               Load!ReadDataEnds(l, "raised",
                 Load!UpdateProgress(l, Load!Fetched(load[l].reader, i, to)))
        PROVE  CountInv'
    <3> DEFINE bytes == Load!Fetched(load[l].reader, i, to)
               c == Load!UpdateProgress(l, bytes)
               e == [ranges |-> load[l].reader.ranges, reports |-> load[l].reader.reports,
                     item |-> load[l].reader.item + 1, fetched |-> to]
    <3>1. /\ e.ranges = load[l].reader.ranges /\ e.reports = load[l].reader.reports
          /\ e.item = load[l].reader.item + 1 /\ e.fetched = to
      OBVIOUS
    <3> HIDE DEF e
    <3>2. ~Load!Shared(l) => BarsOk(c)
      BY <1>0, <2>3, <3>1, ReadBytes
    <3>3. Load!ReadDataEnds(l, "raised", c)
      BY <2>3
    <3> HIDE DEF bytes
    <3>4. KnowsItsBar(c) /\ SamePlan(Load!Own(l), c)
      BY <1>1, UpdateProgressFacts, BarsOnly
    <3> HIDE DEF c
    <3> QED BY <1>0, <2>1, <3>2, <3>3, <3>4, EndCounts
  <2> QED BY <1>8, <2>2, <2>3 DEF Load!ReadFails
<1>9. ASSUME NEW l \in Loads, Load!CloseFile(l)
      PROVE  CountInv'
  <2> DEFINE rec == [load[l] EXCEPT !.reader = Load!NoReader]
             c == Load!Own(l)
             d == load[l].reader
             left == Sums(load[l].plan)[load[l].left]
  <2>1. /\ load' = [load EXCEPT ![l] = rec] /\ con' = con /\ uses' = uses
        /\ load[l].pc = "reading" /\ d.file # Load!None /\ ~Load!MoreItems(l)
    BY <1>9 DEF Load!CloseFile, Load!SetLoad
  <2>2. Load!NoReader.file = Load!None
    BY DEF Load!NoReader
  <2>3. rec = [pc |-> load[l].pc, plan |-> load[l].plan, left |-> load[l].left,
               reader |-> Load!NoReader]
    <3>1. rec = [load[l] EXCEPT !.reader = Load!NoReader]
      OBVIOUS
    <3>2. load[l] = [pc |-> load[l].pc, plan |-> load[l].plan, left |-> load[l].left,
                     reader |-> load[l].reader]
      BY <1>1 DEF IsLoadRecord
    <3> HIDE DEF rec
    <3> QED BY <3>1, <3>2, RecordUpdates
  <2> HIDE DEF rec
  <2>4. ASSUME ~Load!Shared(l), c.bar # 0
        PROVE  Rest(c) = left
    <3>1. /\ CountOk(load[l], c, l) /\ c = con[uses[l]]
      BY <1>1, <2>4
    <3>2. /\ IsSortedPlan(load[l].plan) /\ load[l].left \subseteq Load!FilesOf(load[l].plan)
          /\ RangesFit(d.ranges, load[l].plan) /\ Accepted(d.ranges)
          /\ d.ranges = Load!RangesOf(load[l].plan, d.file)
      BY <1>0, <2>1, <2>4, <3>1, OwnBar
    <3>3. ReaderCounts(d) /\ Rest(c) = left + Unread(d)
      BY <2>1, <2>4, <3>1 DEF CountOk
    <3>4. ~(d.item < Len(d.ranges))
      BY <2>1, <3>2 DEF Load!MoreItems
    <3>5. d.item = Len(d.ranges)
      <4>1. Len(d.ranges) \in Nat
        BY <3>2 DEF RangesFit
      <4> QED BY <3>3, <3>4, <4>1 DEF ReaderCounts
    <3>6. Unread(d) = 0
      BY <1>0, <3>2, <3>3, <3>5, UnreadFacts
    <3>7. left \in Int
      BY <1>0, <3>2, SumsFacts
    <3> HIDE DEF left, c, d
    <3> QED BY <3>3, <3>6, <3>7
  <2>5. ~Load!Shared(l) => CountOk(rec, c, l)
    BY <1>1, <2>1, <2>2, <2>3, <2>4 DEF CountOk
  <2> QED BY <1>0, <1>1, <2>1, <2>5, CountStep
<1>10. ASSUME NEW l \in Loads, Load!Finish(l)
       PROVE  CountInv'
  <2> DEFINE c == Load!Own(l)
  <2>1. /\ Load!ReadDataEnds(l, "loaded", c) /\ uses' = uses
        /\ load[l].pc \in {"planned", "reading"} /\ load[l].left = {}
        /\ load[l].reader.file = Load!None
    BY <1>10 DEF Load!Finish, Load!Between, Load!Reading
  <2>2. ASSUME ~Load!Shared(l), load[l].plan # <<>>, c.bars # <<>>
        PROVE  Rest(c) = 0
    <3>1. CountOk(load[l], c, l) /\ c.progress
      BY <1>1, <2>2 DEF CountOk, BarsOk
    <3>2. c.bar # 0
      BY <2>1, <2>2, <3>1 DEF CountOk
    <3>3. Rest(c) = Sums(load[l].plan)[{}]
      BY <2>1, <3>1, <3>2 DEF CountOk
    <3>4. IsSortedPlan(load[l].plan)
      BY <1>1 DEF IsLoadRecord
    <3> QED BY <1>0, <3>3, <3>4, SumsFacts
  <2> HIDE DEF c
  <2> QED BY <1>0, <1>1, <2>1, <2>2, EndCounts DEF c
<1> QED
  BY <1>2, <1>3, <1>4, <1>5, <1>6, <1>7, <1>8, <1>9, <1>10 DEF Load!Next, Load!Read

LEMMA CountInvariance == MCSpec => [](job = "load" => CountInv)
<1> DEFINE Inv == job = "load" => CountInv
<1>1. ASSUME Load!LoadAssumption, Load!Init
      PROVE  CountInv
  <2>1. PlanInv
    BY <1>1, PlanInitInvariant
  <2>2. ASSUME NEW l \in Loads
        PROVE  CountOk(load[l], con[uses[l]], l)
    <3>1. load[l].pc = "idle" /\ uses[l] \in Constructors
      BY <1>1 DEF Load!Init, Load!LoadAssumption
    <3>2. con[uses[l]].bars = <<>> /\ con[uses[l]].bar = 0 /\ con[uses[l]].by = Load!None
      BY <1>1, <3>1 DEF Load!Init, Load!NewConstructors, Load!None
    <3>3. BarsOk(con[uses[l]])
      BY <3>2 DEF BarsOk
    <3> QED BY <3>1, <3>2, <3>3 DEF CountOk
  <2> QED BY <2>1, <2>2 DEF CountInv
<1>2. MCInit => Inv
  BY <1>1, LoadAssumption DEF MCInit
<1>3. Inv /\ [MCNext]_allVars => Inv'
  <2> SUFFICES ASSUME Inv, [MCNext]_allVars, job' = "load"
               PROVE  CountInv'
    OBVIOUS
  <2>1. CASE job = "save" /\ Next /\ UNCHANGED <<job, loadVars>>
    BY <2>1
  <2>2. CASE job = "load" /\ Load!Next /\ UNCHANGED <<job, vars>>
    BY <2>2, LoadAssumption, CountStepInvariant
  <2>3. CASE UNCHANGED allVars
    <3>1. UNCHANGED <<uses, con, load>> /\ CountInv
      BY <2>3 DEF allVars, loadVars
    <3>2. BarInv'
      BY <3>1 DEF CountInv, PlanInv, BarInv, KnowsItsBar, ConTypes, OpenBars, IsBar, IsLoad
    <3>3. PlanInv'
      BY <3>1, <3>2 DEF CountInv, PlanInv
    <3> QED BY <3>1, <3>3 DEF CountInv, Load!Shared
  <2> QED BY <2>1, <2>2, <2>3 DEF MCNext
<1> QED BY <1>2, <1>3, PTL DEF MCSpec

(***************************************************************************)
(* The bar of a load with a constructor of its own never shows more than   *)
(* was announced, and shows exactly that when the load returns: what       *)
(* _start_progress adds up over all files, before any of them is open, is  *)
(* what the readers fetch for the items, group by group and gap by gap     *)
(* (_calculate_total_bytes and the callback of the reader).                *)
(***************************************************************************)
THEOREM BarsCountExactly == MCSpec => []ProgressIsExact
<1>1. CountInv => Load!ProgressIsExact
  <2> SUFFICES ASSUME CountInv, NEW l \in Loads, Load!Own(l).bars # <<>>, ~Load!Shared(l)
               PROVE  LET latest == Last(Load!Own(l).bars)
                      IN  /\ latest.done <= latest.total
                          /\ load[l].pc = "loaded" /\ load[l].plan # <<>> =>
                               latest.done = latest.total
    BY DEF Load!ProgressIsExact, Load!Last, Last
  <2> DEFINE c == Load!Own(l)
  <2>1. CountOk(load[l], c, l) /\ BarsOk(c)
    BY DEF CountInv, CountOk, Load!Own
  <2>2. Last(c.bars).total \in Int /\ Last(c.bars).done \in Int
    BY <2>1, LastBar DEF BarsOk
  <2>3. Rest(c) >= 0 /\ (load[l].pc = "loaded" /\ load[l].plan # <<>> => Rest(c) = 0)
    BY <2>1 DEF BarsOk, CountOk
  <2> HIDE DEF c
  <2>4. /\ Last(c.bars).done <= Last(c.bars).total
        /\ load[l].pc = "loaded" /\ load[l].plan # <<>> => Last(c.bars).done = Last(c.bars).total
    BY <2>2, <2>3 DEF Rest
  <2> QED BY <2>4 DEF c
<1> QED BY <1>1, CountInvariance, PTL DEF ProgressIsExact

===============================================================================
