-------------------------------- MODULE Datagen --------------------------------
(***************************************************************************)
(* The data generator of the benchmarks (s3torchbenchmarking/datagen.py):  *)
(* as many producers as consumers, threads of one process.  The producers  *)
(* draw from one generator of samples, or of shards of samples, behind a   *)
(* lock, and put what they get into a bounded queue; behind a barrier the  *)
(* first of them puts the sentinel.  The consumers upload; one that gets   *)
(* the sentinel puts it back for the others.  An exception kills the       *)
(* thread it is raised in, and nobody else hears of it.                    *)
(*                                                                         *)
(* A sample is its number; its size is a constant of the run.              *)
(***************************************************************************)
EXTENDS Integers, Sequences, SequencesExt, FiniteSets

CONSTANTS
  NumWorkers,  \* os.cpu_count(): producers, consumers, places in the queue
  Sizes,       \* the lists of the sizes of the samples that are looked at
  ShardSizes,  \* the values of --shard-size; 0: none
  MaxRaised    \* bound on the exceptions

ConstantsAssumption ==
  /\ NumWorkers \in Nat \ {0} /\ MaxRaised \in Nat
  /\ Sizes \subseteq Seq(Nat \ {0}) /\ ShardSizes \subseteq Nat

Workers == 0..(NumWorkers - 1)
Nobody == -1
Sentinel == <<0>>   \* no sample is number 0

VARIABLES
  sizes,     \* one of Sizes
  shardSize, \* one of ShardSizes
  drawn,     \* the samples created so far
  group,     \* batcher: the samples of the shard that is being filled
  over,      \* the generator has ended, or was ended by an exception
  holder,    \* who is in ThreadSafeIterator.__next__
  producer,  \* per producer: "next", "put", "barrier", "signal", "ended", "dead"
  made,      \* per producer: the item it has drawn
  consumer,  \* per consumer: "get", "upload", "reput", "ended", "dead"
  taken,     \* per consumer: the item it uploads
  queue,     \* the multiprocessing.Queue
  uploaded,  \* the items in S3, in the order they came
  raised     \* history: <<thread, what it was doing>> of the exceptions

vars == <<sizes, shardSize, drawn, group, over, holder, producer, made, consumer,
          taken, queue, uploaded, raised>>

Init ==
  /\ sizes \in Sizes /\ shardSize \in ShardSizes
  /\ drawn = 0 /\ group = <<>> /\ over = FALSE /\ holder = Nobody
  /\ producer = [p \in Workers |-> "next"] /\ made = [p \in Workers |-> <<>>]
  /\ consumer = [c \in Workers |-> "get"] /\ taken = [c \in Workers |-> <<>>]
  /\ queue = <<>> /\ uploaded = <<>> /\ raised = {}

Sum(s) == SumFunction([i \in DOMAIN s |-> sizes[s[i]]])
-----------------------------------------------------------------------------
(* ThreadSafeIterator.__next__: the lock, and then the generator runs.     *)
Enter(p) ==
  /\ producer[p] = "next" /\ holder = Nobody /\ holder' = p
  /\ UNCHANGED <<sizes, shardSize, drawn, group, over, producer, made, consumer, taken,
                 queue, uploaded, raised>>

Leave(p, item, rest) ==
  /\ holder' = Nobody /\ made' = [made EXCEPT ![p] = item] /\ group' = rest
  /\ producer' = [producer EXCEPT ![p] = "put"]

(* ImageGenerator.create, and without --shard-size that is the pipeline.   *)
(* The batcher fills a group until a sample does not fit into it and       *)
(* begins the next one with that sample.  A first sample larger than a     *)
(* shard leaves an empty group before it.                                  *)
Draw(p) ==
  /\ holder = p /\ ~over /\ drawn < Len(sizes)
  /\ drawn' = drawn + 1
  /\ IF shardSize = 0 THEN Leave(p, <<drawn'>>, <<>>)
     ELSE IF Sum(group) + sizes[drawn'] > shardSize THEN Leave(p, group, <<drawn'>>)
     ELSE group' = Append(group, drawn') /\ UNCHANGED <<holder, producer, made>>
  /\ UNCHANGED <<sizes, shardSize, over, consumer, taken, queue, uploaded, raised>>

(* Faulty variant: the batcher forgets the group that is not full. *)
DrawLastForgets(p) ==
  /\ holder = p /\ ~over /\ drawn = Len(sizes)
  /\ over' = TRUE /\ UNCHANGED <<group, holder, producer, made>>
  /\ UNCHANGED <<sizes, shardSize, drawn, consumer, taken, queue, uploaded, raised>>

(* The last group, if there is one; then the generator is over.            *)
DrawLast(p) ==
  /\ holder = p /\ ~over /\ drawn = Len(sizes)
  /\ over' = TRUE
  /\ IF group = <<>> THEN UNCHANGED <<group, holder, producer, made>> ELSE Leave(p, group, <<>>)
  /\ UNCHANGED <<sizes, shardSize, drawn, consumer, taken, queue, uploaded, raised>>

(* Faulty variant: the signal does not wait for the other producers. *)
StopIterationNoBarrier(p) ==
  /\ holder = p /\ over /\ holder' = Nobody
  /\ producer' = [producer EXCEPT ![p] = IF p = 0 THEN "signal" ELSE "ended"]
  /\ UNCHANGED <<sizes, shardSize, drawn, group, over, made, consumer, taken, queue,
                 uploaded, raised>>

StopIteration(p) ==
  /\ holder = p /\ over /\ holder' = Nobody
  /\ producer' = [producer EXCEPT ![p] = "barrier"]
  /\ UNCHANGED <<sizes, shardSize, drawn, group, over, made, consumer, taken, queue,
                 uploaded, raised>>

(* Creating or packing a sample raises: what was in the making is lost,    *)
(* and a generator that raised is over for everybody.                      *)
DrawRaises(p) ==
  /\ holder = p /\ ~over /\ Cardinality(raised) < MaxRaised
  /\ holder' = Nobody /\ over' = TRUE /\ group' = <<>>
  /\ producer' = [producer EXCEPT ![p] = "dead"] /\ raised' = raised \cup {<<p, "draw">>}
  /\ UNCHANGED <<sizes, shardSize, drawn, made, consumer, taken, queue, uploaded>>

Put(p) ==
  /\ producer[p] = "put" /\ Len(queue) < NumWorkers
  /\ queue' = Append(queue, made[p]) /\ producer' = [producer EXCEPT ![p] = "next"]
  /\ UNCHANGED <<sizes, shardSize, drawn, group, over, holder, made, consumer, taken,
                 uploaded, raised>>

(* barrier.wait() returns for all producers when all are there.            *)
Barrier ==
  /\ \A p \in Workers : producer[p] = "barrier"
  /\ producer' = [p \in Workers |-> IF p = 0 THEN "signal" ELSE "ended"]
  /\ UNCHANGED <<sizes, shardSize, drawn, group, over, holder, made, consumer, taken,
                 queue, uploaded, raised>>

Signal(p) ==
  /\ producer[p] = "signal" /\ Len(queue) < NumWorkers
  /\ queue' = Append(queue, Sentinel) /\ producer' = [producer EXCEPT ![p] = "ended"]
  /\ UNCHANGED <<sizes, shardSize, drawn, group, over, holder, made, consumer, taken,
                 uploaded, raised>>
-----------------------------------------------------------------------------
Get(c) ==
  /\ consumer[c] = "get" /\ queue # <<>> /\ queue' = Tail(queue)
  /\ taken' = [taken EXCEPT ![c] = Head(queue)]
  /\ consumer' = [consumer EXCEPT ![c] = IF Head(queue) = Sentinel THEN "reput" ELSE "upload"]
  /\ UNCHANGED <<sizes, shardSize, drawn, group, over, holder, producer, made, uploaded, raised>>

Upload(c) ==
  /\ consumer[c] = "upload" /\ uploaded' = Append(uploaded, taken[c])
  /\ consumer' = [consumer EXCEPT ![c] = "get"]
  /\ UNCHANGED <<sizes, shardSize, drawn, group, over, holder, producer, made, taken, queue, raised>>

UploadRaises(c) ==
  /\ consumer[c] = "upload" /\ Cardinality(raised) < MaxRaised
  /\ consumer' = [consumer EXCEPT ![c] = "dead"] /\ raised' = raised \cup {<<c, "upload">>}
  /\ UNCHANGED <<sizes, shardSize, drawn, group, over, holder, producer, made, taken, queue, uploaded>>

(* Faulty variant: the sentinel is not put back. *)
ReputNothing(c) ==
  /\ consumer[c] = "reput" /\ consumer' = [consumer EXCEPT ![c] = "ended"]
  /\ UNCHANGED <<sizes, shardSize, drawn, group, over, holder, producer, made, taken, queue,
                 uploaded, raised>>

Reput(c) ==
  /\ consumer[c] = "reput" /\ Len(queue) < NumWorkers
  /\ queue' = Append(queue, Sentinel) /\ consumer' = [consumer EXCEPT ![c] = "ended"]
  /\ UNCHANGED <<sizes, shardSize, drawn, group, over, holder, producer, made, taken, uploaded, raised>>

Produce(p) ==
  \/ Enter(p) \/ Draw(p) \/ DrawLast(p) \/ StopIteration(p) \/ Put(p) \/ Signal(p)
Consume(c) == Get(c) \/ Upload(c) \/ Reput(c)

Next ==
  \/ \E p \in Workers : Produce(p) \/ DrawRaises(p)
  \/ Barrier
  \/ \E c \in Workers : Consume(c) \/ UploadRaises(c)

(* Threads run when they can.  Neither the lock nor the queue need be fair *)
(* to those that wait: the samples come to an end.                         *)
Spec ==
  /\ Init /\ [][Next]_vars
  /\ \A w \in Workers : WF_vars(Produce(w)) /\ WF_vars(Consume(w))
  /\ WF_vars(Barrier)
-----------------------------------------------------------------------------
States(f) == {f[w] : w \in Workers}
Joined == States(producer) \cup States(consumer) \subseteq {"ended", "dead"}

(* Without an exception, the program that ends has uploaded every sample   *)
(* once, no shard of more than one sample is larger than asked for, and    *)
(* the queue has only the sentinel left.                                   *)
AllIsUploaded ==
  Joined /\ raised = {} =>
    /\ Cardinality(ToSet(FlattenSeq(uploaded))) = Len(sizes)
    /\ Len(FlattenSeq(uploaded)) = Len(sizes)
    /\ shardSize # 0 => \A i \in DOMAIN uploaded :
         Sum(uploaded[i]) <= shardSize \/ Len(uploaded[i]) = 1
    /\ queue = <<Sentinel>>

(* The program ends, also when uploads raise, as long as one consumer is   *)
(* left and no producer died: that one the barrier waits for forever.      *)
ProgramEnds ==
  <>[](\/ Joined
       \/ "dead" \in States(producer)
       \/ States(consumer) = {"dead"})
=============================================================================
