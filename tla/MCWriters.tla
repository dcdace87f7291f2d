------------------------------- MODULE MCWriters -------------------------------
(***************************************************************************)
(* One S3Writer, with a writing thread, two other closers and the          *)
(* finalizer, or the checkpoints that are saved through one after another. *)
(***************************************************************************)
EXTENDS S3Writer, Sequences

CONSTANTS
  c1, c2,
  MaxSaves, MaxCalls    \* of Checkpoints

VARIABLES
  about,                \* "writer" or "checkpoints"
  async, stored, saves, queue, writer, abandoned, kept, exposed, oldest, calls,
  reading, loaded

Path == INSTANCE Checkpoints WITH object <- stored

MCClosers == {c1, c2}

checkpointsOnly == <<async, stored, saves, queue, writer, abandoned, kept, exposed,
                     oldest, calls, reading, loaded>>
allVars == <<about, vars, checkpointsOnly>>

(* The part that is not looked at keeps its first state.                   *)
MCInit ==
  /\ about \in {"writer", "checkpoints"}
  /\ Init /\ Path!Init /\ (about = "writer" => ~async)

MCNext ==
  \/ about = "writer" /\ Next /\ UNCHANGED <<about, checkpointsOnly>>
  \/ about = "checkpoints" /\ Path!Next /\ UNCHANGED <<about, vars>>

MCSpec == MCInit /\ [][MCNext]_allVars /\ Fairness
-----------------------------------------------------------------------------
(* Whatever is queued, fails or is left open: a path is as the save or     *)
(* removal that ended last left it, but for a part of a save that raised.  *)
PathIsAsLeft == Path!PathIsAsLeft

(* A load returns nothing older than what had been saved when it began,    *)
(* and nothing that had been removed.                                      *)
LoadsAreFresh == Path!LoadsAreFresh
=============================================================================
