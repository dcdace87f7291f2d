# Amazon S3 Connector for PyTorch in TLA+

TLA+ models of the parts of `s3torchconnector` that hold state or run
concurrently, the TLC runs that check them on small instances and the TLAPS
proofs of their main invariants. Paths are relative to the repository; `SC`
stands for `s3torchconnector/src/s3torchconnector`, `RS` for
`s3torchconnectorclient/rust/src`. `PROJECT.json` maps every definition to the
lines it translates.

Contents: 1 the system · 2 modules · 3 abstractions · 4 runs · 5 findings and
other disagreements · 6 proofs · 7 not modelled · 8 plan.

## 1. The system

The connector gives PyTorch datasets and checkpoints in S3. Its Python package
sits on a Rust binding of the mountpoint S3 client. A data generator for its
benchmarks, with threads of its own, comes with it.

| component | state | operations | talks to |
|---|---|---|---|
| S3 readers (`SC/s3reader`) | a cursor, a buffer, a stream | read, readinto, seek, tell, close | the GET stream; the user holds one reader per object |
| – sequential | BytesIO with everything delivered so far, and its own cursor | | one GET of the object |
| – ranged | one reusable buffer with its bounds | | a ranged GET per load or large read |
| – DCP optimized | load plan, item iterator, item buffer, shared stream with position and leftover | | one ranged GET per group of nearby items |
| DCP constructor (`constructor.py`) | ranges per file, progress bar | inject ranges, make a reader | storage reader, readers (callback of the bytes fetched) |
| GET, PUT, list streams (`RS`) | offset; upload request; continuation token | next; write, close; next | native client, without the GIL |
| S3Writer (`s3writer.py`) | `_closed`, lock, position | with, write, close, finalizer | PUT stream |
| S3Client (`_s3client.py`) | native client, its pid, registry, lock | every request; fork handlers | native client, operating system |
| listing, iterable dataset | listing stream; rank, world | iterate | client; torch's DataLoader and process group |
| map dataset (`s3map_dataset.py`) | per process the list of objects | length, index | client; torch's DataLoader |
| DCP file system (`dcp/s3_file_system.py`) | none of its own: the bucket | create_stream, rename, exists, rm_file | writer, readers, client; called by torch's FileSystemWriter and FileSystemReader |
| prefix strategies | the prefix map | prefix of a rank | storage writer, process group |
| S3Checkpoint, Lightning IO | none of its own: one object | save, load, remove | readers, writer, client; the trainer, or a thread of its own that saves |
| configuration (`s3client_config.py`, `mountpoint_s3_client.rs`) | the arguments of the native client | merge, validate, build, pickle | datasets, checkpoints, workers |
| data generator (`s3torchbenchmarking/datagen.py`) | generator of samples, batcher, queue, barrier | produce, upload | S3 |
| user agent, logging, mock client, benchmarks, examples | – | glue and scripts | |

What is hard in it, and what makes each part correct:

* **Readers.** Bytes arrive in parts cut anywhere, requests fail between two
  parts, and the reader keeps beliefs about its buffer and its stream in
  several variables. Correct: a read returns the bytes at the cursor and moves
  it over them; the beliefs describe the bytes held; no call hangs.
* **Writer.** Closes from several threads, a finalizer, writes without the
  GIL. Correct: one completion, with every accepted write; a close that
  returns means the object is stored.
* **Client and fork.** A lock, a double check, native threads that do not
  survive `fork()`, a child that inherits memory in any state. Correct: no
  process uses another's client, nothing live is forked, nobody waits forever.
* **Sharded listing.** Workers do not communicate. Correct: the shards are
  disjoint, even and complete.
* **Map dataset.** Every process lists for itself, at another time. Correct: an
  index means the same object everywhere.
* **Saves.** Several objects, a commit of copy and delete, retries, crashes,
  repeated saves. Correct: a path holds a whole checkpoint or none, and a save
  that returned can be loaded.
* **Loads.** The ranges and the progress bar of one load live in a constructor
  that others may share; plan, sort, ranges, readers and torch's order of reading
  must agree. Correct: a plan that can be read is read, with its own ranges; a bar
  shows what is fetched and ends closed.
* **Checkpoints of one object.** Saves, removals and loads of one path, some
  queued for another thread. Correct: the path is as the last call left it, and a
  load finds nothing older.
* **Names and configuration.** One name is joined, parsed, escaped and put
  together again by four pieces of code; one value is merged and validated in
  three. Correct: they agree, and a mistake is reported where it is made, but for
  what only the native client looks at.
* **Data generator.** Threads, a bounded queue, a sentinel, exceptions nobody
  sees. Correct: every sample is uploaded once, and the program ends.

## 2. Modules

| module | models | kind |
|---|---|---|
| `ByteReader` | what every S3Reader promises | abstract specification |
| `DCPRanges` | ranges, validation, coalescing, progress total; the loops as recursive functions | operators |
| `DCPOptimizedReader` | `s3reader/dcp_optimized.py`; uses `DCPRanges`, implements `ByteReader` | state machine |
| `RangedReader` | `s3reader/ranged.py`; implements `ByteReader` | state machine |
| `SequentialReader` | `s3reader/sequential.py` and `get_object_stream.rs`; implements `ByteReader` | state machine |
| `S3Writer` | `s3writer.py`, `put_object_stream.rs` | state machine |
| `S3ClientFork` | `_s3client/_s3client.py` | state machine |
| `ShardedListing` | `s3iterable_dataset.py`, `_s3_bucket_iterable.py`, `list_object_stream.rs` | state machine |
| `MapDataset` | `s3map_dataset.py` under a DataLoader | state machine |
| `KeyOrder` | the order of S3's listings, for `ShardedListing` and `MapDataset` | operator |
| `AtomicSave` | what saving to a new path promises | abstract specification |
| `DCPSave` | saving in `dcp/s3_file_system.py` under torch's commit order, with the writers of `S3Writer` reduced to their outcomes; implements `AtomicSave` | state machine |
| `DCPLoad` | loading in `dcp/s3_file_system.py`, `s3reader/constructor.py`, with the readers of `DCPOptimizedReader` reduced to cursors; uses `DCPRanges` | state machine |
| `CheckpointPaths` | names of the objects of a checkpoint: `dcp/s3_file_system.py`, `_s3dataset_common.py`, `constructor.py` | state machine |
| `Checkpoints` | `s3checkpoint.py`, `lightning/s3_lightning_checkpoint.py`, through writers and readers reduced to their outcomes | state machine |
| `S3PrefixStrategy` | `dcp/s3_prefix_strategy.py` | operators |
| `ClientConfig` | `s3client_config.py`, `_s3client.py`, `mountpoint_s3_client.rs` | state machine |
| `Datagen` | `s3torchbenchmarking/datagen.py` | state machine |
| `MCDCPOptimizedReader`, `MCS3ClientFork` | constants of their runs | for TLC |
| `MCDatagen` | `Datagen` with the constants of its run | for TLC |
| `MCReaders` | `RangedReader` or `SequentialReader` | for TLC |
| `MCWriters` | `S3Writer` or `Checkpoints` | for TLC |
| `MCDatasets` | `ShardedListing` or `MapDataset` | for TLC |
| `MCDCPCheckpoint` | a job that saves (`DCPSave`) or loads (`DCPLoad`) | for TLC |
| `MCAlgorithms` | the inputs of `DCPRanges` and `S3PrefixStrategy`; `ClientConfig`, `CheckpointPaths` | for TLC |
| `DCPOptimizedReaderProofs`, `ReadersProofs`, `S3WriterProofs` (with `Checkpoints`), `ThreadsProofs` (`S3ClientFork` and `Datagen`), `DCPCheckpointProofs`, `DatasetsProofs`, `AlgorithmsProofs` | inductive invariants and theorems | for TLAPS |
| `RangesProofs` | lemmas on `KeyOrder`, `DCPRanges`, sums, quotients and loops for the other proofs | for TLAPS |

Operators introduced by a comment "Faulty variant" are not part of any
specification. They are plausible mistakes in the definition that follows them;
substituting one makes the property listed with it in `PROJECT.json` fail, which
shows that the property watches that definition.

### State and actions against the code

**DCPOptimizedReader.** `cur`, `iter`, `buf`, `position`, `stream`, `state`
are `_current_item`, `_item_iter`, `_current_item_buffer`, `_position`,
`_stream_state.stream` and the two other fields of `_stream_state`; `load` holds
the locals of `_get_item_buffer`. `Read`/`ReadInto` find the item (four
alternatives, one for each way through `_find_item_for_range`); `OpenGroup`,
`ReuseStream` and their failures are `_get_stream_for_item` with phase 1;
`NextChunk` is one turn of the loops of phases 2 and 3; `StreamFails`,
`Interrupted` and `StreamExhausted` leave them by an exception; `FinishLoad`
stores the state; `CopyOut` serves the read. A byte of the object *is* its
offset, so a buffer knows which bytes it really holds while the reader's
arithmetic says which ones it believes to hold.

**RangedReader.** `bufStart`, `bufEnd`, `buffer`, `size`, `position` as in the
code; `req` holds the locals of `_read_range` and of the function it calls.
`ReadRange` takes the overlap and decides between `_read_unbuffered`
(`DirectChunk`, `Direct`) and `_load_buffer` (`LoadChunk`, `Loaded`) with
`_read_buffered` (`Copy`). `ReadNothing` and `ReadIntoNothing` are the early returns.

**SequentialReader.** `position` and `tell` are the two cursors, `buffer` the
content of the BytesIO, `at` how far the GET has come. `Read` and `Seek` start
with `SeekTo`, which puts the BytesIO's cursor where the code does;
`FetchChunk` and `DrainChunk` are the two loops; `StreamEnds` is their
StopIteration.

**S3Writer.** `borrow` is the exclusive `PyRefMut` of a running binding call,
`request` what is left of the upload. `close` is the steps `TakeLock`,
`StreamClose`, `CompleteReturns` or `CompleteFails` of any thread, `Finalize` is
`io.IOBase.__del__`.

**S3ClientFork.** Per process the fields of one S3Client, the registry and
`_client_lock`; per process and thread a program counter. `Use` to `Return` are
the property `_client` line by line, `BeforeFork` to `AfterFork` the handlers.
`Fork` copies the memory, the lock included, and drops all other threads.

**ShardedListing.** Per worker of each rank its listing (`token`, `complete`,
`page`) and the two `enumerate`s of `__iter__` (`idx`, `rankIdx`).

**MapDataset.** `pairs` is each process's `_bucket_key_pairs`. `Length` is what
the process that iterates asks for, `Start` starts the workers with a copy of its
list or without, `Deal` and `Fetch` are the sampler and `__getitem__`; `List`
lists once. `ListFails` leaves nothing behind; a worker that cannot list loses the
index it was dealt (`FetchFails`).

**DCPSave.** `store` is what S3 holds under the names of the data files,
`.metadata.tmp` and `.metadata`. One action per request, each with its success
and its failures (with and without effect). Which request follows which is
torch's `FileSystemWriter`, external to the repository.

**DCPLoad.** `con` holds per constructor `_item_ranges_by_file` and the bars it
made, `load` per storage reader its plan, the files left and the reader of one of
them, a cursor over its ranges. `Plan` is `prepare_local_plan` with the sort and
`set_item_ranges_by_file`; `PlanFails` and `OtherRankFails` are its ends by an
exception here or elsewhere; `OpenFile` is `__call__` of the constructor,
`ReadItem` one tensor, with what it fetches told to the bar in force;
`ReadRejected` and `ReadFails` leave `read_data` through its `finally`.

**CheckpointPaths.** A name is the sequence of its slashes and of what is between
them. `Save`, `Rename`, `Inject` and `Open` are the four uses of a name: the key
the writers get, source and target of the copy, the URI the ranges are kept by,
and the URI the constructor puts together from bucket and key.

**Checkpoints.** `Save` calls or queues a save; `OpenWriter`, `WriteFails`,
`CloseWriter` and its failures are its `with` statement, `Finalize` the finalizer
of a writer left by an exception. `Remove` is DeleteObject, `HeadObject` and
`GetObject` a load. Three histories say what is promised: `kept`, what the save or
removal that ended last left at the path; `exposed`, that a writer was left open
before or since; `oldest`, the oldest save that a load which begins now may
return. They are of what has *ended*, so the promises hold while saves are queued
or being written.

**ClientConfig.** `Construct` is the merge by a dataset or checkpoint,
`MakeClient` the one by S3Client, `Build` `MountpointS3Client.new`, `Unpickle` a
worker's copy made from `__getnewargs__`, by position. `New` goes through
`new_s3_client` in its order: the endpoint, `auth_config`, the attempts, and then
`S3CrtClient::new`, which raises for a part size out of 5MiB..5GiB and may for a
profile that is not configured where the client is built.

**Datagen.** `Enter` to `StopIteration` are `ThreadSafeIterator.__next__` with
the generator under it, `Put`, `Barrier` and `Signal` the rest of a producer,
`Get`, `Upload` and `Reput` a consumer.

## 3. Abstractions

Bytes and keys are numbers, errors the name of their class, log lines and
wording are left out; a string is taken apart only where it is parsed
(`CheckpointPaths`). Argument type checks raise before any state changes and
are left out. Floating `max_gap_size` (infinity included) is a natural number
larger than every offset of the instance.

Assumed of the outside: a GET stream delivers the requested bytes in order, in
parts of any size, then ends; or it raises once and is then over
(`get_object_stream.rs`). A PUT stores all accepted parts atomically on
completion or stores nothing. S3 is strongly consistent and lists keys in order.
torch calls the file system in the order of its `FileSystemWriter` and
`FileSystemReader`, and a DataLoader starts its workers with a copy of the
dataset. CPython runs
the finalizer after the last reference is gone.

## 4. Runs

Every run finishes in about a minute, `s3client_fork` in two. Deadlock is checked
in the runs of readers (a reader can always be called again) and off in the
others, where a bounded number of writes, forks, pages or saves comes to its end.
A run of two parts chooses one of them in its first state; the other keeps
still.

| run | instance | what it shows |
|---|---|---|
| `dcp_reader` | four plans of three items: adjacent, with a coalesced gap, with a gap that splits; parts of 1, 2 and 4 bytes; seeks inside, between, before and behind the items; all faults; one retry | everything claimed of the DCP reader; it implements `ByteReader` until the user reads again after an exception |
| `readers` | ranged: object of 4 bytes, buffer off, 2 or 3 bytes; sequential: objects of 0 and 4 bytes; parts of 1 and 3 bytes, S3 failures, one retry | ranged: right bytes until a load fails half way, no byte fetched twice going forward; sequential: the buffer is a prefix, short reads at the end only; both implement `ByteReader` |
| `writers` | writer, two more closers, finalizer, two writes, two closes each; or a path with three saves and three removals or loads, saves queued or not | one completion, whole object, close means stored, close returns; the path is as the call that ended last left it, loads are fresh, also while saves are outstanding |
| `s3client_fork` | two threads, three processes (two generations) | own client only, built once; while no use falls into a fork: released at fork, assertion, child starts; waits end |
| `datasets` | 2 ranks × 2 workers, or a map dataset with two workers; up to 3 keys, pages of 2, one failed listing, one change of the bucket; datasets of a prefix or of URIs, created early or not, sharded or not | shards are a partition, even, in order; an index means one object |
| `dcp_checkpoint` | 2 ranks, 3 saves to one path, 3 delete attempts; or two loads with one constructor or two, four plans, `max_gap_size` 1, one fault | loadable, rename keeps the object, atomic; plans load, the progress is exact, no bar forgotten; all ends |
| `algorithms` | lists of up to 4 ranges below 6, gaps 0 to 2; bases 2, 3, 16, counts around their powers, user prefixes that begin alike (`README.md:268`) or repeat, up to 20 ranks; two to four values of each configuration field, absent, empty and invalid ones and part sizes out of limits included; paths with and without a final slash, nested, of `pathlib`, with characters to escape | operators agree with their meaning; prefixes are spread; the client is as asked and mistakes are early but for four; a saved checkpoint is found |
| `datagen` | 2 producers, 2 consumers, a queue of 2; up to 4 samples, shard sizes 0 and 2; two exceptions | every sample uploaded once; the program ends |
| `dcp_reader_stale_item`, `ranged_torn_buffer`, `s3client_fork_child`, `dcp_save_late_finalizer` | as above | the findings below |

Why the bounds are enough: parts shorter than, equal to and longer than an item
and a gap exist, so a part ends in every position phases 1 to 3 distinguish; a
third item makes a leftover of a leftover; a buffer larger and one smaller than
the reads take every branch of `_read_range`; one retry is enough to act on the
state an exception left, and a second exception adds no new one. Two closers and
the finalizer give every pair of overlapping closes. Two generations of forks
include the fork by a child that inherited its client. Three keys on pages of two
give a second page, an uneven rest over two ranks, and a rank with nothing for
its second worker. With three saves one can overwrite a saved one after a failed
one. Two loads are enough for one to replace the ranges or the bar of another at
any of its steps. Two unpickled clients show that the arguments survive being
taken from a copy. A queue of two places is full when both producers have put an
item, and two exceptions kill any pair of threads.

Conditional properties. `RightUnlessPoisoned`, `RightUnlessTorn`, `...UnlessFailed`,
`...IfHeeded` and `SavedIsLoadable` hold up to a named condition that the code
really can violate; history variables record it, and each is either shown
necessary by a violation run or discussed in section 5. `ByteReader` and
`AtomicSave` carry `void` for the same purpose: the promise ends when the user
reads again after an exception, and when a path is overwritten or a save begins
with a writer of another one left. `PathIsAsLeft` allows a part of a save that an
exception ended (`exposed`), and nothing else; `PlansLoad` asks whose plan the
constructor has; `EpochIsTheList` and `ShardsAreThePartition` ask for one listing,
or a bucket that does not change. Where a condition leaves out a case that the
code runs into, the hazard in `PROJECT.json` says so.

### Fairness

Weak fairness of the steps inside a call, never of the user: a thread inside a
call is scheduled, and the native client answers every request, with a result or
an error (it has timeouts of its own). For the writer and the client that
includes leaving `with lock:` and taking a free lock; weak fairness of that is
enough because whoever holds the lock leaves it closed or built and others then
need it once. A storage reader whose `read_data` was called goes on
(`DCPLoad!Read`), a producer or consumer of the data generator is scheduled, and
its barrier lets go when all have come. `CallReturns`, `CloseReturns`, `UseEnds`,
`JobEnds` and `ProgramEnds` need this and nothing of their users.

## 5. Findings

Each is a violation run; its counterexample is the shortest.

1. `dcp_reader_stale_item` (`SC/s3reader/dcp_optimized.py:681`): read the first
   item; the load of the second raises S3Exception; the same read again returns
   bytes of the *first* item.
2. `ranged_torn_buffer` (`SC/s3reader/ranged.py:106`): a buffered read; a second
   load fails after its first part; a seek back and a read within the old bounds
   returns bytes of the second load.
3. `s3client_fork_child` (`SC/_s3client/_s3client.py:82`): a fork while another
   thread is between acquiring and releasing `_client_lock` leaves the child
   waiting in `_after_fork_handler`.
4. `dcp_save_late_finalizer` (`SC/dcp/s3_file_system.py:129`): a save raises in
   the body of `create_stream`, the caller keeps the exception and saves again
   with success; when the exception is dropped, the finalizer of the first writer
   completes its partial upload over the saved data file.

### Observed disagreements without a run of their own

All but those marked (*) are in the models. Where a property is named, putting it into the cfg of the
component shows the violation; the others are what a condition of a property, or
an outcome of a model, stands for.

Readers:

* `SequentialReader`, `ShortOnlyAtEnd`: after a failed GET the dead stream is
  kept (`sequential.py:122`, `:189`), and the next `read()` returns a part as
  "the entire file" (`:97`).
* The comment "Invariant: _position == _buffer._tell() unless _position_at_end()"
  (`sequential.py:40`) does not survive an exception in `_prefetch_to_offset`
  (`:185`); the next call repairs it.
* `RangedReader`, `RightBytes` with `Faults = {"truncated"}`: `read()` ignores how
  much it got (`ranged.py:277`) and returns zeros, or old buffer content, for
  the missing bytes of an object that became shorter.
* `DCPOptimizedReader`: a request that `_find_item_for_range` rejects has
  consumed the next item (`dcp_optimized.py:421`), so the same request succeeds
  when repeated; the class says "Non-sequential access attempts raise
  ValueError" (`:264`). `ItemsInOrder` has `retries' = 0` for that reason.
* (*) `seek` stores the new position before it rejects a negative one
  (`dcp_optimized.py:745`): after the ValueError `tell()` is negative.

Writers and checkpoints:

* `S3Writer`, `CloseMeansStored`: after a close that raised, a second close
  returns although "all bytes are written successfully" (`s3writer.py:64`) does
  not hold; `_closed` is set first (`:71`).
* `S3Writer`, `NoObjectAfterException`: a `with` left by an exception stores the
  partial object, later: finding 4 is what this does to a save, and `abandoned`
  in `Checkpoints` to a path saved by Lightning.
* `Checkpoints`: a removal or a load is not queued with the saves of
  AsyncCheckpointIO and overtakes them: a removed checkpoint comes back when its
  save is done (`oldest` after a `Remove` with saves outstanding).
* `DCPLoad`: a plan with two items that are parts of one stored tensor, as
  resharding makes it, has the same bytes twice; the DCP reader rejects ranges
  that overlap, so such a checkpoint cannot be loaded with `dcp_optimized`.
* `DCPLoad`: two storage readers with one constructor replace each other's ranges
  (`constructor.py:138`) and bars (`:168`); the constructor does not say that it
  belongs to one load.
* `DCPLoad`: when another rank's planning fails, `read_data` is not called and the
  bar stays open (`s3_file_system.py:443`): `pc = "aborted"` in `NoBarForgotten`.
* `CheckpointPaths`: `validate_checkpoint_id` (`s3_file_system.py:242`) accepts
  every `pathlib.Path`, but the string of `Path("s3://b/p")` is `s3:/b/p`, which
  `parse_s3_uri` rejects.
* `CheckpointPaths`: with an absolute or empty user prefix `os.path.join` drops
  the path of the checkpoint, and the first `create_stream` raises ValueError.
* (*) `exists` recognises a missing object by the wording of the exception
  (`s3_file_system.py:223`); in `DCPSave` an error is what it means.
* `MCAlgorithms`, `DefaultCountIsWorldSize`: a numeric strategy without
  `prefix_count` that is made before `init_process_group` has one prefix, shared
  by all ranks (`s3_prefix_strategy.py:81`), where the docstring promises that
  "world size will be used as default value" (`:53`).
* `S3PrefixStrategy`: the prefixes of RoundRobinPrefixStrategy are taken as they
  are, repeated ones and ones that begin alike (`README.md:268`) too: its ranks
  need not differ in the first character, and `PrefixesSpread` does not say so.

Client and datasets:

* `S3ClientFork`: when a thread *does* use the client during a fork, the fork can
  happen with a live native client (`_s3client.py:65`), and the assertion of
  line 129 can fail. The warning of the handler excludes it; `heeded` says so.
* `ShardedListing`, `DistinctSubsets` without `OneListing`: a dataset created
  before `init_process_group` yields every object on every rank
  (`s3iterable_dataset.py:63`), and a bucket that changes between two listings
  makes shards overlap; the README of the repository promises a distinct subset
  for each worker (`README.md:392`).
* `MapDataset`: workers started before anybody asked for the length list for
  themselves (`s3map_dataset.py:72`). (*) What a list says of an object (size,
  ETag) stays as listed.
* (*) An iterable dataset `from_objects` of a generator of URIs is empty in its
  second epoch.
* `ClientConfig`: a part size out of 5MiB..5GiB passes Python and is rejected at
  the first request (`mountpoint_s3_client.rs:158`), as `test_s3_client.py:133-153`
  expects; so may be a profile that is missing where the client is built. These
  are the two late rejections `LateFailuresAreUnchecked` allows. One half of the
  static credentials given directly is completed
  by the other half of the config; `max_attempts=0` and a malformed endpoint pass
  Python and panic at the first request (`mountpoint_s3_client.rs:131`, `:157`);
  (*) an `s3_client` given to S3FileSystem makes it ignore the config.
* (*) `_PickleableListObjectStream.__setstate__` (`_s3_bucket_iterable.py:65`) passes a
  Python S3Client and extra keys to `_from_state`, which takes the native client.
  No caller pickles a listing.

Data generator:

* `Datagen`: when the first sample is larger than a shard, the first shard is
  empty (`datagen.py:87`); a producer that dies leaves the others at the barrier
  (`:232`), and when all consumers died the producers wait for a place in the
  queue (`:230`): the conditions of `ProgramEnds`.

## 6. Proofs

All for every value of the constants that satisfies the named assumptions of the
module (`PlansAssumption`, `InputsAssumption`, `ThreadsAssumption`, ...), which
TLC evaluates in the runs.

**`DCPOptimizedReaderProofs`.** `TypeInv` types the variables, with the buffers
as functions on `0..size-1`. `IInv` adds what a step may rely on. Unless
poisoned, the item buffer *is* the bytes of the current item (`BufferInv`); the
leftover of `state` is what lies between the recorded position and the stream,
and an item that continues a stream starts at or after that position
(`StreamInv`); during a load the buffer under construction is a prefix of the
item and the stream stands at `load.pos` plus the leftover (`LoadInv`); without
an item buffer there is no stream to continue (`NoBufferInv`).
`RightUnlessPoisoned`,
`StreamInStep` and `PositionIsExtracted` alone are not inductive: a wrong
leftover is harmless until the next item starts inside it. The lemmas
`PlanFacts`, `ItemsSorted` and `GroupEndType` take the order of neighbours to
the whole list and to the group. From `IInv` follow `ReadsAreRight`,
`StreamStaysInStep`, `PhaseThreePosition`, and with `ErrorInv` (until the first
retry, a poisoned reader is idle with an error and was not read from)
`ReadsAreRightWithoutRetry`, `ItemsAreReadInOrder` and the refinement
`ReaderImplementsByteReader`, step by step in `StepSimulation`.

For the progress, `ProgressInv`. As long as no call raised, what was reported is
the running total at the item whose bytes are in the buffer, corrected by how far
its stream is ahead of the item's end (`FetchedUpTo`); the items served are those
up to it; and a load starts behind the item before it, whose stream has not come
back. `ProgressReachesTotal` alone is not inductive: it compares with the total
only when everything was served. `ProgressIsTheTotal` then needs that the total of
`StreamTotal` is the running total at the last item (`RangesProofs`), which ties
the walk of the constructor over a list to the groups the reader fetches
one at a time.

**`RangesProofs`.** What the definitions of `KeyOrder` and `DCPRanges` compute for
every list. A loop is a recursive function of its position; that one with
these values exists is shown by the least position up to which none does
(`LoopHasValues`, from `LeastNat`, the least-number principle, in the place of
induction). A list comprehension with a condition, `Subsequence`, keeps the order
of what it selects (`SubsequenceFacts`); an accepted list is ordered as a whole
and not only from neighbour to neighbour (`AcceptedInOrder`). The two loops,
which collect the groups and add up their lengths, have the invariants
`CollectedStep` and `RunningTotalFacts`: hence the groups are the declarative ones
(`CoalesceFacts`), and the total is the sum over them, any item of a group lacking
of it just what its stream has ahead (`StreamTotalFacts`, `TotalOfGroup`). Sums
over the files of a plan do not depend on the order in which files are taken:
`IsSum` is the property of one step, and by the smallest set that would lack a sum
(`SmallestSet`) every finite set has one (`SumFacts`). Numbers dealt out in turn
fall into shares that differ by one at most (`ShareFacts`), and a prefix that is
there several times gets one for each of its places (`SharesOfPlaces`): the
datasets use the first for shards, the prefixes the second.

**`ReadersProofs`** (of `MCReaders`). `RangedInv`: unless torn, the buffer holds
the bytes between its bounds, but during a load (`BufferInv`); what a call has
collected is what lies between the cursor and the rest of its request, and a load
or a copy covers that rest (`RequestInv`); for a user that reads forward, what was
requested ends where the buffer, the cursor or the request does, so that nothing
is requested again (`ForwardInv`). `RightUnlessTorn` alone is not inductive: it
says nothing of a buffer that was not read yet. `SequentialInv`: the BytesIO is
the object up to where the GET has come (`StreamTypes`), with its cursor at its
end while it is appended to (`ServeInv`); until a failure the reader knows the
right size or none, and a stream that is over has delivered everything
(`SizeInv`); the cursor is ahead of the buffer only behind a seek to the end
(`CursorInv`). Hence `SequentialBuffer`, `SequentialReads`,
`ReadersRight`, `ReadersFetchOnce` and, step by step, the refinement
`ReadersRefine`. The last three assume `SizeIsKept`: the object is not
replaced by a shorter one below the reader, which is the fault `"truncated"`
that refutes them and that no run has (section 5).

**`S3WriterProofs`.** `Locked`: the lock is held by the close that completes the
upload; `Borrowed`: the stream is borrowed by the one call inside it;
`Lifecycle`: an open writer has an open upload and nobody was told it is closed;
the close with the lock has not reached the stream or has taken the request out
of it; a closed writer with a free lock has its object stored or some close
failed. Each property alone is not inductive, because it says nothing of the
close that is half way. Hence
`UploadIsClosedOnce`, `ObjectsAreWhole`, `ClosesStoreTheObject`, for any number of
closers, writes and closes.

The same module treats `Checkpoints` (both are parts of `MCWriters`). `PathInv`:
the queue is the latest saves, in order, behind the one being written
(`QueueInv`); what is whole at the path, and every save still to come, is as late
as a load may ask for (`LatestInv`), which only a save or removal that returned
raises; unless the promise is `exposed` no writer is left that could break it
(`LeftInv`, by `PromiseStays` untouched by all that does not end); and a load in
progress asks for no more than one that begins now (`LoadInv`). Hence
`CheckpointsAreAsLeft` and `LoadsReturnTheLatest`, for any number of saves, queued
or not.

**`ThreadsProofs`**, of the two components whose threads share memory. Of
`S3ClientFork`: `Unborn`: processes not yet forked have no threads; `Owner`: a
`_client_pid` names a process that exists, and where it names the running one the
client is its own or released, which is what a thread past its test knows;
`Creation`: whoever creates holds the lock, and a client without its pid noted is
being created. Hence
`ClientsAreOwn` and `ClientsAreBuiltOnce`, for any number of threads and forks,
heeded or not.

`HeededInv`, for those who heed the warning not to use the client during a fork:
who forks has all other threads idle (`Paused`) and, from its release on, no client
(`Released`); every client is listed unless it is being created (`Noted`); a lock
that is held is held by a thread that runs (`Held`), which is what the child
inherits; and who is about to take the client finds it (`Present`). Hence
`HeededForks`. Without `heeded` it is false (run `s3client_fork_child`).

Of `Datagen`, `GenInv`, until something is raised. `Places` are where a sample may
be: the group that is filled, the hands of a producer, an item of the queue, the
hands of a consumer, an item in S3. `InOnePlace`: every sample drawn is in exactly
one of them; a step carries it from one to another, moves the queue by one or draws
the next (`Swapped`, `Moved`, `Added`). `Items`: whatever is on its way was packed as
the batcher packs. `Turns`: who is past the barrier knows that the generator is
over for all. `OneSentinel`: it is put once, behind everything, and is at the end
of the queue or in one consumer's hands. When all have ended the only place left is
S3, and the concatenation of its items has each sample once (`FlattenFacts`, on the
recursive functions inside `FlattenSeq`). Hence `GeneratedOnce`, for any number of
threads, samples and shard sizes. `AllIsUploaded` alone says nothing before the end.

**`DCPCheckpointProofs`** (of `MCDCPCheckpoint`). Saving, `SaveInv`: unless a save began while a writer of another one was left:
abandoned writers are of the latest save, which has failed or will (`Prompt`),
and what a rank and the coordinator have got past is in the bucket, whole and of
this save (`Progress`). `Fresh` adds that a path never overwritten has no
`.metadata` until the copy of the save under way. Hence `SavesAreLoadable`, `RenamesKeepTheObject` and the refinement
`SavesAreAtomic`, for any number of ranks, saves and delete attempts.

Loading, three invariants, each within the next. `BarInv`: every bar but the last of
a constructor is closed, and if the last one is open one of the loads with this
constructor is between its plan and the end of `read_data`, or failed before
`read_data` was called. It is `NoBarForgotten` with what the steps rely on: the
constructor's bar is one of those it made or none, and a constructor without
progress made none (`ConTypes`). Hence `BarsAreClosed`.

`PlanInv`: the ranges a constructor holds are those of the load that injected them
last (`Injected`), and a reader opened while they are its own load's reads by the
ranges of its plan and file, which it accepted, at the item it has come to
(`ReaderOk`). The plan after the sort of `prepare_local_plan` is a permutation in
the order of file and offset (`IsSortedPlan`), so the ranges of a file are sorted,
are not empty, and are accepted unless two items of the plan overlap (`RangesFit`);
torch then asks for the items in the order the reader has them. Hence
`DisjointPlansLoad` and `ReadersHaveTheirPlan`, for any plans, loads and
sharing of constructors.

`CountInv`, for a constructor that one load has for itself: from its plan on, what
its bar lacks is the sum of the streams of the files that are left and, while a
reader is open, what that one has not read (`Unread`, by the running total of
`RangesProofs`); when the load returned, it lacks nothing. `ProgressIsExact` alone
says nothing of a load that is half way. The total announced is a sum over all
files made before any is open, what is reported is added item by item; that they
meet is `BarsCountExactly`.

**`DatasetsProofs`** (of `MCDatasets`). First what a listing is: `Listed(S)` is the
one increasing sequence of a finite set of numbers; that it exists is shown by
placing each key at its rank, the number of keys up to it (`OrderedList`,
`ListedFacts` of `RangesProofs`). What
follows a token in it is a listing again (`ListedAfter`).

For the iterable dataset, `ShardInv`. Whatever the bucket does, what a worker has
yielded comes before what is left of its page, and both come up to its token
(`Ordered`): hence `ListingsAreInOrder`. While the bucket is as it was, page and
token are a position in the one listing (`Positioned`), and what was yielded
are the objects up to that position that fall to the worker, as many as there
are numbers with its remainder (`Dealt`, `Share`). The counters of
`S3IterableDataset.__iter__` are thus tied to the positions: the second one, over
the objects of a rank, is the quotient of the first, which is why the two
remainders single out one worker for each object (`EnumerateDealt`). Hence
`ShardsPartition`, with its three parts `DistinctGoal`, `MissedGoal` and `EvenGoal`.

For the map dataset, `MapInv`: a list, once made, is kept; those of two processes
are the same if they were inherited or the bucket did not change (`ListsAgree`);
every index below `next` is under way, fetched, missed or lost by a worker that
could not list (`Accounted`). Hence
`EpochsAreTheList`, for any number of workers.

**`AlgorithmsProofs`** (of `MCAlgorithms`). `ConfigInv`: a config that was merged
is valid, merging it with no arguments, as S3Client does once more, leaves it as
it is (`MergedAgain`), and the native client keeps its arguments, through any
number of picklings, each of which may fail where the client is built again. What
`S3ClientConfig` accepts, `auth_config` accepts (`Accepts`); what is left to fail
is a part size, a profile, an endpoint or the attempts (`Unbuildable`, `NewFacts`).
Hence `ClientsAreAsAsked` and `MistakesAreEarly`. The proof uses nothing of the
values a field may have, but for which part sizes are out of limits.

`RangesInv`: the list that is built is of ranges. It is all `GroupsFetchTheRanges`
needs of the state, because its property is about every list: what validation
accepts is disjoint, the groups of the loop are those of `FirstOfGroup` and
`GroupEnd`, which the reader opens its streams by (`LoopIsGrouping`), and an
offset is in a group if it is in an item or in a near gap between two
(`FetchedOffsets`).

`PrefixInv`: the prefixes so far are those of the ranks 0, 1, .... The size of a
length, the length for a count and the digits of a number are loops whose
invariants are `Sizes`, `LengthFacts` and `DigitsFacts`; a number below the size of
a length is told by its digits (`DigitsTell`), the last one standing first
(`PatternFacts`). So the patterns of a numeric map are all different and neighbours
differ in their first character (`MapFacts`, `PatternsInUse`); nothing of the kind
is used of user prefixes. The ranks of a prefix, numeric or not, are those whose
remainder is one of its places (`PrefixUsers`). Hence `PrefixesAreSpread`.

`NamesInv`: who has saved has a path that is `Located`, text that begins with
"s3://bucket", and the objects are those of the stage. A URI is cut after its fifth
part and put together again to the same (`ParseFacts`, `ObjectFacts`); only a located
path has an object whose name is one segment (`StoredIsLocated`), since what
`pathlib` writes has no two slashes together (`NormalisedFacts`, by ranks); quoting a
key and unquoting it is nothing (`EscapeFacts`), and the final slash of a directory
is no part of its objects' names (`SpellingFacts`). Hence `SavedNamesAreFound`, for
any paths and any names of files that do not end as the metadata does.

The datasets' `ConstantsAssumption` asks for a finite set of keys, as a bucket
is. Every `...Inv` here was checked by TLC on the instance of its run before it
was proved.

Only model-checked:

* all liveness, which is beyond the prover together with `ENABLED`.

Every safety invariant that a passing run checks is also a theorem, as are the
action properties and the refinements.

## 7. Not modelled

The formatting of the user agent (a string), the mock client (test support),
logging and value structs of the binding (glue), benchmark scripts other than the
data generator, and the examples: they run one call after the other, keep no
state and measure. In modelled components: the segments of the item view buffer
(it is a sequence of bytes here), throughput, authentication and joining of
native threads (native code outside the repository), the pickling of a listing,
images and tar files of the data generator, and a failure of S3 that replaces an
object by a shorter one below a ranged reader (a fault of `RangedReader` that the
runs leave out, see above).

## 8. Plan

Done, in this order: the DCP reader with its ranges and its refinement, the
writer, the other readers, the client across forks, prefixes, sharded listing,
saves; then loads and their progress, checkpoints of one object, the map dataset,
configuration down to the native client, the names of objects, the data
generator. Next:

1. Composition of `DCPSave` with `S3Writer`'s actions in place of outcomes, and
   of `DCPLoad` with `DCPOptimizedReader`'s in place of cursors.
2. The view buffer of an item as segments, refining the byte sequence.
