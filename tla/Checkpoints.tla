------------------------------ MODULE Checkpoints ------------------------------
(***************************************************************************)
(* Checkpoints that are one object: S3LightningCheckpoint                  *)
(* (lightning/s3_lightning_checkpoint.py) and S3Checkpoint                 *)
(* (s3checkpoint.py) saving, removing and loading one path.  A save is a   *)
(* with statement over an S3Writer around torch.save, a load an S3Reader   *)
(* for torch.load, a removal one DeleteObject.                             *)
(*                                                                         *)
(* The trainer saves and removes one after the other; with Lightning's     *)
(* AsyncCheckpointIO (examples/lightning/async_checkpoint_writing.py) its  *)
(* saves are queued for one thread, while removals are not.  A load is the *)
(* trainer's or another process's, at any time.  Every request may fail,   *)
(* with or without effect.  An object is the save it is of and whether it  *)
(* is all there (S3Writer).                                                *)
(***************************************************************************)
EXTENDS Integers, Sequences

CONSTANTS
  MaxSaves,   \* bound on the saves to the path
  MaxCalls    \* bound on the removals and loads

VARIABLES
  async,     \* are saves queued
  object,    \* at the path: Absent or [save, whole]
  saves,     \* the saves begun by the trainer
  queue,     \* those waiting for the saving thread
  writer,    \* the save whose with statement is running; 0 if none
  abandoned, \* the saves whose writer was left by an exception
  kept,      \* history: what the save or removal that ended last left at the path
  exposed,   \* history: since it ended, or before, a writer was left open
  oldest,    \* history: the oldest save that a load which begins now may return
  calls,     \* the removals and loads begun
  reading,   \* the load in progress: where it is, and the oldest save it may return
  loaded     \* the save the last load returned

cvars == <<async, object, saves, queue, writer, abandoned, kept, exposed, oldest,
           calls, reading, loaded>>

Absent == [save |-> 0, whole |-> FALSE]
Object(n, w) == [save |-> n, whole |-> w]
Nothing == -1      \* no promise: it raised
NotLoading == [pc |-> "idle", floor |-> 0]
Unread == [save |-> Nothing, floor |-> 0]

Init ==
  /\ async \in BOOLEAN
  /\ object = Absent /\ saves = 0 /\ queue = <<>> /\ writer = 0
  /\ abandoned = {} /\ kept = 0 /\ exposed = FALSE /\ oldest = 1
  /\ calls = 0 /\ reading = NotLoading /\ loaded = Unread

(* The trainer may make its next call.                                     *)
Returned == async \/ (queue = <<>> /\ writer = 0)

(* The first save whose with statement has not ended.                      *)
Unended == IF writer # 0 THEN writer ELSE saves - Len(queue) + 1

-----------------------------------------------------------------------------
(* save_checkpoint, called or queued.                                      *)
Save ==
  /\ Returned /\ saves < MaxSaves
  /\ saves' = saves + 1 /\ queue' = Append(queue, saves + 1)
  /\ UNCHANGED <<async, object, writer, abandoned, kept, exposed, oldest, calls, reading,
                 loaded>>

(* put_object answers, or raises.                                          *)
OpenWriter ==
  /\ writer = 0 /\ queue # <<>>
  /\ queue' = Tail(queue) /\ writer' \in {Head(queue), 0}
  /\ UNCHANGED <<async, object, saves, abandoned, kept, exposed, oldest, calls, reading,
                 loaded>>

(* torch.save raises: the writer is left open.                             *)
WriteFails ==
  /\ writer # 0
  /\ writer' = 0 /\ abandoned' = abandoned \cup {writer} /\ exposed' = TRUE
  /\ UNCHANGED <<async, object, saves, queue, kept, oldest, calls, reading, loaded>>

(* The with statement closes the writer, and save_checkpoint returns.      *)
CloseWriter ==
  /\ writer # 0 /\ writer' = 0
  /\ object' = Object(writer, TRUE)
  /\ kept' = writer /\ exposed' = (abandoned # {}) /\ oldest' = writer
  /\ UNCHANGED <<async, saves, queue, abandoned, calls, reading, loaded>>

(* Faulty variant: the failure of the close is not raised.                 *)
CloseFailsUnseen ==
  /\ writer # 0 /\ writer' = 0
  /\ object' \in {object, Object(writer, TRUE)}
  /\ kept' = writer /\ exposed' = (abandoned # {}) /\ oldest' = writer
  /\ UNCHANGED <<async, saves, queue, abandoned, calls, reading, loaded>>

CloseFails ==
  /\ writer # 0 /\ writer' = 0
  /\ object' \in {object, Object(writer, TRUE)} /\ kept' = Nothing
  /\ UNCHANGED <<async, saves, queue, abandoned, exposed, oldest, calls, reading, loaded>>

(* The writer that was left is collected: its part is stored, or lost.     *)
Finalize(n) ==
  /\ n \in abandoned /\ abandoned' = abandoned \ {n}
  /\ object' \in {object, Object(n, FALSE)}
  /\ UNCHANGED <<async, saves, queue, writer, kept, exposed, oldest, calls, reading, loaded>>

-----------------------------------------------------------------------------
(* remove_checkpoint: it returns, or raises with or without effect.        *)
Remove ==
  /\ Returned /\ calls < MaxCalls /\ calls' = calls + 1
  /\ object' = Absent
  /\ kept' = 0 /\ exposed' = (abandoned # {}) /\ oldest' = Unended
  /\ UNCHANGED <<async, saves, queue, writer, abandoned, reading, loaded>>

(* Faulty variant: remove_checkpoint swallows the failure.                 *)
RemoveFailsUnseen ==
  /\ Returned /\ calls < MaxCalls /\ calls' = calls + 1
  /\ object' \in {object, Absent}
  /\ kept' = 0 /\ exposed' = (abandoned # {}) /\ oldest' = Unended
  /\ UNCHANGED <<async, saves, queue, writer, abandoned, reading, loaded>>

RemoveFails ==
  /\ Returned /\ calls < MaxCalls /\ calls' = calls + 1
  /\ object' \in {object, Absent} /\ kept' = Nothing
  /\ UNCHANGED <<async, saves, queue, writer, abandoned, exposed, oldest, reading, loaded>>

(* load_checkpoint: torch.load seeks to the end, for which the reader asks *)
(* HeadObject, and reads what one GetObject delivers.  It raises when      *)
(* there is no object, when a request fails, and when the object is not    *)
(* all there.                                                              *)
saveVars == <<async, object, saves, queue, writer, abandoned, kept, exposed, oldest>>

Load ==
  /\ reading.pc = "idle" /\ calls < MaxCalls /\ calls' = calls + 1
  /\ reading' = [pc |-> "head", floor |-> oldest]
  /\ UNCHANGED <<saveVars, loaded>>

HeadObject ==
  /\ reading.pc = "head"
  /\ reading' = IF object # Absent THEN [reading EXCEPT !.pc = "get"] ELSE NotLoading
  /\ UNCHANGED <<saveVars, calls, loaded>>

GetObject ==
  /\ reading.pc = "get" /\ reading' = NotLoading
  /\ loaded' = IF object.whole THEN [save |-> object.save, floor |-> reading.floor]
               ELSE loaded
  /\ UNCHANGED <<saveVars, calls>>

LoadFails ==
  /\ reading.pc # "idle" /\ reading' = NotLoading
  /\ UNCHANGED <<saveVars, calls, loaded>>

Next ==
  \/ Save \/ OpenWriter \/ WriteFails \/ CloseWriter \/ CloseFails
  \/ Remove \/ RemoveFails \/ Load \/ HeadObject \/ GetObject \/ LoadFails
  \/ \E n \in abandoned : Finalize(n)

Spec == Init /\ [][Next]_cvars
-----------------------------------------------------------------------------
(* The path is as the save or removal that ended last left it when it      *)
(* returned, whatever is queued, begun or loaded since.  Only a save that  *)
(* an exception ended may show there besides, and only by a part of it:    *)
(* never does another checkpoint stand, or one that was removed come back. *)
PathIsAsLeft ==
  LET asLeft == IF kept = 0 THEN Absent ELSE Object(kept, TRUE)
  IN  kept # Nothing =>
        \/ object = asLeft
        \/ exposed /\ object \in {Object(n, FALSE) : n \in 1..saves}

(* A load, at whatever time of the saves and removals it is made, returns  *)
(* no older save than the latest that had returned when it began, and none *)
(* of those that were over when a removal before it returned.              *)
LoadsAreFresh == loaded.save # Nothing => loaded.save >= loaded.floor
=============================================================================
