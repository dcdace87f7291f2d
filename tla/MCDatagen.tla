------------------------------ MODULE MCDatagen ------------------------------
(***************************************************************************)
(* Datagen with two workers and a queue of two places: up to four samples, *)
(* of which none, some or the first do not fit into a shard together.      *)
(***************************************************************************)
EXTENDS Naturals

CONSTANTS NumWorkers, Sizes, ShardSizes, MaxRaised

VARIABLES
  sizes, shardSize, drawn, group, over, holder, producer, made, consumer, taken,
  queue, uploaded, raised

Gen == INSTANCE Datagen

ASSUME GenAssumption == Gen!ConstantsAssumption

MCSizes == {<<1, 1, 1, 1>>, <<3, 1, 1>>, <<1, 2, 1>>, <<>>}

GenSpec == Gen!Spec
-----------------------------------------------------------------------------
(* Without an exception, every sample is uploaded once, in shards that are *)
(* no larger than asked for.                                               *)
AllIsUploaded == Gen!AllIsUploaded

(* Unless a producer or all consumers died, the program ends.              *)
ProgramEnds == Gen!ProgramEnds
=============================================================================
