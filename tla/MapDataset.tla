------------------------------ MODULE MapDataset ------------------------------
(***************************************************************************)
(* S3MapDataset (s3map_dataset.py) under a DataLoader: an index means the  *)
(* i-th of the listed objects, in every process by a list of its own,      *)
(* which is made the first time somebody asks for its length or for an     *)
(* item.  The process that iterates deals out the indices 0 .. len - 1;    *)
(* its workers are started with a copy of the dataset, with or without the *)
(* list.  An item is read with what the listing said of the object.        *)
(*                                                                         *)
(* DataLoader and sampler are torch's; keys are numbers in the order S3    *)
(* lists them.  How a listing is paged is ShardedListing's.                *)
(***************************************************************************)
EXTENDS KeyOrder, Sequences, SequencesExt

CONSTANTS
  Keys,        \* the keys that may be in the bucket
  Workers,     \* the worker processes
  MaxChanges,  \* bound on the changes of the bucket
  MaxRaised    \* bound on the listings that fail

Main == 0      \* the process that iterates; the workers have other numbers
Processes == {Main} \cup Workers

VARIABLES
  source,   \* "prefix" (from_prefix) or "uris" (from_objects)
  uris,     \* the keys from_objects was given
  bucket,   \* the objects in S3
  pairs,    \* per process: _bucket_key_pairs, Unlisted at first
  started,  \* are the workers started
  inherited,\* history: the workers were started with a list
  next,     \* the next index to deal out
  dealt,    \* the indices dealt and not fetched, with their workers
  got,      \* the objects the workers got, and by which index
  missed,   \* history: the indices that were out of a worker's list
  lost,     \* history: the indices whose worker could not list
  raised,   \* the listings that failed
  changes   \* history: how often the bucket changed

mvars == <<source, uris, bucket, pairs, started, inherited, next, dealt, got,
           missed, lost, raised, changes>>

Unlisted == <<0>>     \* None: no list of keys begins with 0

Init ==
  /\ source \in {"prefix", "uris"} /\ bucket \in SUBSET Keys /\ uris = bucket
  /\ pairs = [p \in Processes |-> Unlisted]
  /\ started = FALSE /\ inherited = FALSE
  /\ next = 0 /\ dealt = {} /\ got = {} /\ missed = {} /\ lost = {}
  /\ raised = 0 /\ changes = 0

(* get_objects_from_uris and get_objects_from_prefix. *)
Objects == Listed(IF source = "uris" THEN uris ELSE bucket)

-----------------------------------------------------------------------------
(* Faulty variant: the listing is made anew for every access. *)
ListAgain(p) == pairs' = [pairs EXCEPT ![p] = Objects]

(* _dataset_bucket_key_pairs: list() of the listing, once.                 *)
List(p) ==
  pairs' = IF pairs[p] = Unlisted THEN [pairs EXCEPT ![p] = Objects] ELSE pairs

(* The listing raises, and the next access lists again.  What the main     *)
(* process asked for is not dealt; of a worker the DataLoader raises the   *)
(* exception in the place of the item.                                     *)
Raises(p) ==
  /\ source = "prefix" /\ pairs[p] = Unlisted
  /\ raised < MaxRaised /\ raised' = raised + 1
  /\ UNCHANGED <<source, uris, bucket, pairs, started, inherited, next, got, missed, changes>>

ListFails == Raises(Main) /\ UNCHANGED <<dealt, lost>>

FetchFails(w, i) ==
  /\ <<w, i>> \in dealt /\ Raises(w)
  /\ dealt' = dealt \ {<<w, i>>} /\ lost' = lost \cup {i}

(* len(dataset) before the workers are started: a shuffling sampler.       *)
Length ==
  /\ ~started /\ List(Main)
  /\ UNCHANGED <<source, uris, bucket, started, inherited, next, dealt, got, missed, lost, raised, changes>>

(* The workers are forked, or get the pickled dataset.                     *)
Start ==
  /\ ~started /\ started' = TRUE
  /\ pairs' = [p \in Processes |-> pairs[Main]]
  /\ inherited' = (pairs[Main] # Unlisted)
  /\ UNCHANGED <<source, uris, bucket, next, dealt, got, missed, lost, raised, changes>>

(* The main process deals out the next index to a worker: its len() comes  *)
(* after the start when nobody asked before.                               *)
Deal(w) ==
  /\ started /\ List(Main) /\ next < Len(pairs'[Main])
  /\ next' = next + 1 /\ dealt' = dealt \cup {<<w, next>>}
  /\ UNCHANGED <<source, uris, bucket, started, inherited, got, missed, lost, raised, changes>>

(* __getitem__: the object is that of the worker's list, or IndexError.    *)
Fetch(w, i) ==
  /\ <<w, i>> \in dealt /\ dealt' = dealt \ {<<w, i>>}
  /\ List(w)
  /\ IF i < Len(pairs'[w])
     THEN got' = got \cup {<<i, pairs'[w][i + 1]>>} /\ missed' = missed
     ELSE missed' = missed \cup {i} /\ got' = got
  /\ UNCHANGED <<source, uris, bucket, started, inherited, next, lost, raised, changes>>

(* Somebody puts or deletes an object. *)
ChangeBucket(k) ==
  /\ changes < MaxChanges /\ changes' = changes + 1
  /\ bucket' = IF k \in bucket THEN bucket \ {k} ELSE bucket \cup {k}
  /\ UNCHANGED <<source, uris, pairs, started, inherited, next, dealt, got, missed, lost, raised>>

Next ==
  \/ Length \/ Start \/ ListFails
  \/ \E w \in Workers : Deal(w)
  \/ \E d \in dealt : Fetch(d[1], d[2]) \/ FetchFails(d[1], d[2])
  \/ \E k \in Keys : ChangeBucket(k)

Spec == Init /\ [][Next]_mvars
-----------------------------------------------------------------------------
(* An index means the same object in every process: what the workers fetch *)
(* is the list of the process that deals, each object once, if that list   *)
(* was made before the workers were started or the bucket did not change;  *)
(* and all of it, if no worker's listing failed.                           *)
EpochIsTheList ==
  inherited \/ changes = 0 \/ source = "uris" =>
    /\ missed = {}
    /\ \A g \in got : g[2] = pairs[Main][g[1] + 1]
    /\ started /\ dealt = {} /\ lost = {} /\ next = Len(pairs[Main]) =>
         {g[2] : g \in got} = ToSet(pairs[Main])
=============================================================================
