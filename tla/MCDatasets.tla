------------------------------ MODULE MCDatasets ------------------------------
(***************************************************************************)
(* A dataset over a small bucket: an S3IterableDataset for two ranks of    *)
(* two workers, sharded, created too early, of named objects, and not      *)
(* sharded; or an S3MapDataset for a DataLoader with two workers.          *)
(***************************************************************************)
EXTENDS ShardedListing

CONSTANTS
  Kinds,      \* "iterable", "map"
  MaxRaised   \* of MapDataset

VARIABLES
  kind,       \* one of Kinds
  pairs, started, inherited, next, dealt, got, missed, lost, raised  \* of MapDataset only

Map == INSTANCE MapDataset WITH Workers <- 1..NumWorkers

iterableOnly == <<sharded, early, token, complete, page, idx, rankIdx, out, status>>
mapOnly == <<pairs, started, inherited, next, dealt, got, missed, lost, raised>>
allVars == <<kind, vars, mapOnly>>

MCDatasets ==
  {[source |-> "prefix", sharded |-> TRUE, early |-> FALSE],
   [source |-> "prefix", sharded |-> TRUE, early |-> TRUE],
   [source |-> "uris", sharded |-> TRUE, early |-> FALSE],
   [source |-> "prefix", sharded |-> FALSE, early |-> FALSE]}

MCInit ==
  \/ /\ kind \in Kinds \cap {"iterable"} /\ Init
     /\ pairs = <<>> /\ started = FALSE /\ inherited = FALSE /\ next = 0
     /\ dealt = {} /\ got = {} /\ missed = {} /\ lost = {} /\ raised = 0
  \/ /\ kind \in Kinds \cap {"map"} /\ Map!Init
     /\ sharded = FALSE /\ early = FALSE /\ token = <<>> /\ complete = <<>>
     /\ page = <<>> /\ idx = <<>> /\ rankIdx = <<>> /\ out = <<>> /\ status = <<>>

MCNext ==
  \/ kind = "iterable" /\ Next /\ UNCHANGED <<kind, mapOnly>>
  \/ kind = "map" /\ Map!Next /\ UNCHANGED <<kind, iterableOnly>>

MCSpec == MCInit /\ [][MCNext]_allVars
-----------------------------------------------------------------------------
(* The shards of an iterable dataset are the listing, divided evenly.      *)
ShardsAreThePartition ==
  kind = "iterable" => DistinctSubsets /\ NothingIsMissed /\ EvenShards

(* No worker sees a key twice or out of order, whatever the bucket does.   *)
ListingIsInOrder == kind = "iterable" => YieldsInOrder

(* An index of a map dataset means the same object in every process.       *)
EpochIsTheList == kind = "map" => Map!EpochIsTheList
=============================================================================
