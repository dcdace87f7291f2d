---------------------------- MODULE ShardedListing ----------------------------
(***************************************************************************)
(* S3IterableDataset with enable_sharding (s3iterable_dataset.py): every   *)
(* worker of every rank lists the whole bucket for itself, page by page    *)
(* (list_object_stream.rs, _s3_bucket_iterable.py), and keeps what falls to*)
(* it when the listed objects are dealt to the ranks, and a rank's objects *)
(* to its workers.  Nothing is exchanged between workers: that the shards  *)
(* fit together rests on all of them seeing the same listing.              *)
(*                                                                         *)
(* Keys are numbers in the order S3 lists them.                            *)
(***************************************************************************)
EXTENDS KeyOrder, Sequences, SequencesExt

CONSTANTS
  Keys,          \* the keys that may be in the bucket
  PageSize,      \* max_keys
  WorldSize,     \* the ranks of the job
  NumWorkers,    \* the workers of the DataLoader of each rank
  Datasets,      \* how the dataset may be made: [source, sharded, early]
  MaxChanges     \* bound on the changes of the bucket meanwhile

ASSUME ConstantsAssumption ==
  /\ Keys \subseteq Nat \ {0} /\ IsFiniteSet(Keys) /\ PageSize \in Nat \ {0}
  /\ WorldSize \in Nat \ {0} /\ NumWorkers \in Nat \ {0}
  /\ Datasets \subseteq [source : {"prefix", "uris"}, sharded : BOOLEAN, early : BOOLEAN]
  /\ MaxChanges \in Nat

Workers == (0..(WorldSize - 1)) \X (0..(NumWorkers - 1))

VARIABLES
  bucket,   \* the objects in S3
  source,   \* "prefix" (from_prefix) or "uris" (from_objects)
  uris,     \* the keys from_objects was given
  sharded,  \* _enable_sharding
  early,    \* the dataset was created before init_process_group
  token,    \* per worker: continuation_token, the last key listed; 0 is None
  complete, \* per worker: ListObjectStream.complete
  page,     \* per worker: what is left of the page
  idx,      \* per worker: objects enumerated
  rankIdx,  \* per worker: objects of its rank enumerated
  out,      \* per worker: the keys it yielded
  status,   \* per worker: "running", "done" or "raised"
  changes   \* history: how often the bucket changed

dataset == <<source, uris, sharded, early>>
vars == <<bucket, dataset, token, complete, page, idx, rankIdx, out, status, changes>>

Init ==
  /\ bucket \in SUBSET Keys
  /\ \E d \in Datasets : source = d.source /\ sharded = d.sharded /\ early = d.early
  /\ uris = bucket
  /\ token = [w \in Workers |-> 0]
  /\ complete = [w \in Workers |-> FALSE]
  /\ page = [w \in Workers |-> <<>>]
  /\ idx = [w \in Workers |-> 0] /\ rankIdx = [w \in Workers |-> 0]
  /\ out = [w \in Workers |-> <<>>]
  /\ status = [w \in Workers |-> "running"]
  /\ changes = 0

(* _rank and _world_size were noted by the constructor. *)
RankOf(w) == IF early THEN 0 ELSE w[1]
World == IF early THEN 1 ELSE WorldSize

-----------------------------------------------------------------------------
(* ListObjectsV2: the first PageSize keys after the token.                 *)
After(t) == Listed({k \in bucket : k > t})
Page(t) == SubSeq(After(t), 1, IF Len(After(t)) < PageSize THEN Len(After(t)) ELSE PageSize)

(* get_objects_from_uris: the objects that were named, without a request.  *)
TakeUris(w) ==
  /\ source = "uris" /\ status[w] = "running" /\ ~complete[w]
  /\ page' = [page EXCEPT ![w] = Listed(uris)]
  /\ complete' = [complete EXCEPT ![w] = TRUE]
  /\ UNCHANGED <<bucket, dataset, token, idx, rankIdx, out, status, changes>>

(* Faulty variant: the listing goes on behind the key after the last one.  *)
NextTokenSkips(t) ==
  IF Len(After(t)) <= PageSize THEN 0 ELSE After(t)[PageSize + 1]

(* The token of the next page, None when there is none.                    *)
NextToken(t) ==
  IF Len(After(t)) <= PageSize THEN 0 ELSE After(t)[PageSize]

(* Faulty variant: the stream forgets the token. *)
ListPageForgetsToken(w) ==
  /\ source = "prefix" /\ status[w] = "running" /\ page[w] = <<>> /\ ~complete[w]
  /\ page' = [page EXCEPT ![w] = Page(token[w])]
  /\ token' = token
  /\ complete' = [complete EXCEPT ![w] = NextToken(token[w]) = 0]
  /\ UNCHANGED <<bucket, dataset, idx, rankIdx, out, status, changes>>

ListPage(w) ==
  /\ source = "prefix" /\ status[w] = "running" /\ page[w] = <<>> /\ ~complete[w]
  /\ page' = [page EXCEPT ![w] = Page(token[w])]
  /\ token' = [token EXCEPT ![w] = NextToken(token[w])]
  /\ complete' = [complete EXCEPT ![w] = NextToken(token[w]) = 0]
  /\ UNCHANGED <<bucket, dataset, idx, rankIdx, out, status, changes>>

(* The request raises, and the generators of __iter__ are finished by it.  *)
ListFails(w) ==
  /\ source = "prefix" /\ status[w] = "running" /\ page[w] = <<>> /\ ~complete[w]
  /\ status' = [status EXCEPT ![w] = "raised"]
  /\ UNCHANGED <<bucket, dataset, token, complete, page, idx, rankIdx, out, changes>>

(* Faulty variants of the two tests: no share for the rank; the worker's   *)
(* share counted over all objects instead of its rank's.                   *)
FallsToEveryRank(w) == TRUE
FallsToWorkerOfAll(w) == idx[w] % NumWorkers = w[2]

FallsToRank(w) == sharded => idx[w] % World = RankOf(w)
FallsToWorker(w) == sharded => rankIdx[w] % NumWorkers = w[2]

Enumerate(w) ==
  /\ status[w] = "running" /\ page[w] # <<>>
  /\ page' = [page EXCEPT ![w] = Tail(@)]
  /\ idx' = [idx EXCEPT ![w] = @ + 1]
  /\ IF FallsToRank(w)
     THEN /\ rankIdx' = [rankIdx EXCEPT ![w] = @ + 1]
          /\ out' = IF FallsToWorker(w)
                    THEN [out EXCEPT ![w] = Append(@, Head(page[w]))] ELSE out
     ELSE UNCHANGED <<rankIdx, out>>
  /\ UNCHANGED <<bucket, dataset, token, complete, status, changes>>

EndOfListing(w) ==
  /\ status[w] = "running" /\ page[w] = <<>> /\ complete[w]
  /\ status' = [status EXCEPT ![w] = "done"]
  /\ UNCHANGED <<bucket, dataset, token, complete, page, idx, rankIdx, out, changes>>

(* Somebody puts or deletes an object. *)
ChangeBucket(k) ==
  /\ source = "prefix" /\ changes < MaxChanges
  /\ bucket' = IF k \in bucket THEN bucket \ {k} ELSE bucket \cup {k}
  /\ changes' = changes + 1
  /\ UNCHANGED <<dataset, token, complete, page, idx, rankIdx, out, status>>

Next ==
  \/ \E w \in Workers : TakeUris(w) \/ ListPage(w) \/ ListFails(w) \/ Enumerate(w) \/ EndOfListing(w)
  \/ \E k \in Keys : ChangeBucket(k)

Spec == Init /\ [][Next]_vars
-----------------------------------------------------------------------------
Yielded(w) == ToSet(out[w])
AllDone == \A w \in Workers : status[w] = "done"

(* "Each worker, regardless of its host, will load and process a distinct  *)
(* subset of the dataset": while the bucket does not change, and if the    *)
(* dataset was created after init_process_group, no object is yielded      *)
(* twice, by two workers or by one.                                        *)
OneListing == changes = 0 /\ sharded /\ ~early

DistinctSubsets ==
  OneListing => \A v, w \in Workers :
    /\ Cardinality(Yielded(w)) = Len(out[w])
    /\ v # w => Yielded(v) \cap Yielded(w) = {}

(* And the subsets are all of the dataset once no worker has raised; so    *)
(* they are, with repetitions, for a dataset created early, and every      *)
(* worker has all of a dataset that is not sharded.                        *)
NothingIsMissed ==
  AllDone /\ changes = 0 =>
    /\ UNION {Yielded(w) : w \in Workers} = bucket
    /\ ~sharded => \A w \in Workers : Yielded(w) = bucket

(* Whatever happens to the bucket meanwhile, a worker sees every key once  *)
(* at most, in the order of the listing, from its first page to its last.  *)
YieldsInOrder ==
  \A w \in Workers : \A i, j \in 1..Len(out[w]) : i < j => out[w][i] < out[w][j]

(* The objects are dealt evenly: no worker has two more than another one.  *)
EvenShards ==
  AllDone /\ OneListing => \A v, w \in Workers : Len(out[v]) - Len(out[w]) <= 1
=============================================================================
