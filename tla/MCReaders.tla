------------------------------- MODULE MCReaders -------------------------------
(***************************************************************************)
(* The two generic readers, of which S3ReaderConstructor.sequential and    *)
(* range_based make one: RangedReader, whose variables, calls and promises *)
(* SequentialReader shares as far as they have the same names.  One reader *)
(* is made; the variables the other has for itself keep their first value. *)
(***************************************************************************)
EXTENDS RangedReader

CONSTANTS
  Kinds,                  \* which readers are made
  ObjectSizes, MaxErrors  \* of the sequential reader

VARIABLES
  kind,                                \* "ranged" or "sequential"
  objectSize, tell, stream, at, errors \* of SequentialReader only

Sequential == INSTANCE SequentialReader

ASSUME SequentialAssumption == Sequential!ConstantsAssumption

rangedOnly == <<bufferSize, bufStart, bufEnd, torn, retries, sought, again>>
sequentialOnly == <<objectSize, tell, stream, at, errors>>
allVars == <<kind, vars, sequentialOnly>>

MCOffsets == {-2, -1, 0, 1, 3, 5}
MCSizes == {-1, 0, 1, 2, 4}

MCInit ==
  \/ /\ kind \in Kinds \cap {"ranged"} /\ Init
     /\ objectSize = 0 /\ tell = 0 /\ stream = "none" /\ at = 0 /\ errors = 0
  \/ /\ kind \in Kinds \cap {"sequential"} /\ Sequential!Init
     /\ bufferSize = 0 /\ bufStart = 0 /\ bufEnd = 0 /\ again = FALSE
     /\ torn = FALSE /\ retries = 0 /\ sought = FALSE

RangedStep == kind = "ranged" /\ Step /\ UNCHANGED <<kind, sequentialOnly>>
SequentialStep ==
  kind = "sequential" /\ Sequential!Step /\ UNCHANGED <<kind, rangedOnly>>

MCNext ==
  \/ kind = "ranged" /\ Next /\ UNCHANGED <<kind, sequentialOnly>>
  \/ kind = "sequential" /\ Sequential!Next /\ UNCHANGED <<kind, rangedOnly>>

(* The reading thread runs, and the stream delivers, ends or fails. *)
MCSpec ==
  MCInit /\ [][MCNext]_allVars /\ WF_allVars(RangedStep \/ SequentialStep)
-----------------------------------------------------------------------------
BufferIsPrefix == kind = "sequential" => Sequential!BufferIsPrefix

ShortOnlyAtEndUnlessFailed ==
  kind = "sequential" => Sequential!ShortOnlyAtEndUnlessFailed

(* read, readinto and seek of either reader come back.                     *)
CallReturns == Sequential!CallReturns
=============================================================================
