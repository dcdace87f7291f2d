-------------------------- MODULE DCPOptimizedReader --------------------------
(***************************************************************************)
(* DCPOptimizedS3Reader (s3reader/dcp_optimized.py): the file object that  *)
(* torch.distributed.checkpoint reads one checkpoint file through.  It     *)
(* holds the sorted ranges of the tensors to load, opens one ranged GET    *)
(* per group of nearby ranges, and keeps the bytes of one tensor (item) at *)
(* a time.                                                                 *)
(*                                                                         *)
(* A byte of the object is identified by its offset, so the contents of a  *)
(* buffer say which bytes of the object they really are, whatever the      *)
(* reader believes.  The reader's belief is its arithmetic: `position`,    *)
(* `stream.pos` and the local variables of the load in progress.           *)
(*                                                                         *)
(* The reader is used by one thread.  A step is one call of the user, one  *)
(* `next(stream)` or the bookkeeping between two of them, so a failure can *)
(* fall between any two chunks.                                            *)
(***************************************************************************)
EXTENDS DCPRanges

CONSTANTS
  Plans,            \* the load plans: records [items, gap]
  Offsets,          \* the arguments of seek
  Sizes,            \* the sizes passed to read and readinto
  ChunkSizes,       \* the sizes of the body parts the S3 client delivers
  Faults,           \* which of AllFaults may happen
  MaxRetries        \* how often the user reads again after an exception

(* "s3": the S3 client raises and the stream is over; "interrupt": next()  *)
(* or the progress callback raises and the stream is still usable;         *)
(* "truncated": the object is shorter than the plan says.                  *)
AllFaults == {"s3", "interrupt", "truncated"}

Exceptions == {"ValueError", "AssertionError", "S3Exception", "interrupt"}

ASSUME PlansAssumption ==
  \A p \in Plans : /\ p = [items |-> p.items, gap |-> p.gap]
                   /\ p.items \in Seq([start : Int, end : Int])
                   /\ \A i \in 1..Len(p.items) : Length(p.items[i]) # 0
                   /\ Accepted(p.items)
                   /\ p.gap \in Nat

ASSUME InputsAssumption ==
  /\ Offsets \subseteq Int /\ Sizes \subseteq Nat
  /\ ChunkSizes \subseteq Nat \ {0}
  /\ Faults \subseteq AllFaults
  /\ MaxRetries \in Nat

VARIABLES
  plan,      \* the item ranges and max_gap_size given to the constructor
  cur,       \* index of _current_item
  iter,      \* index of the item next(_item_iter) will yield
  buf,       \* _current_item_buffer
  position,  \* _position
  stream,    \* _stream_state.stream: what S3 will deliver next, and up to where
  state,     \* _stream_state.stream_position and .leftover
  load,      \* local variables of _get_item_buffer
  closed,    \* _closed
  pc,        \* where the call in progress is; "idle" between calls
  call,      \* the size asked by the call in progress or by the last one
  ret,       \* how the last read or readinto ended, and what it returned
  fetched,   \* bytes reported to the progress callback
  poisoned,  \* history: a load failed while another item was in the buffer
  retries,   \* history: reads after an exception
  served     \* history: the items whose load was completed

vars == <<plan, cur, iter, buf, position, stream, state, load, closed, pc,
          call, ret, fetched, poisoned, retries, served>>

Items == plan.items
N == Len(plan.items)
CurItem == plan.items[cur]

(* Part of a chunk: the object's bytes lo .. hi-1.  Empty stands for None. *)
Part(lo, hi) == [lo |-> lo, hi |-> hi]
PartLen(p) == p.hi - p.lo
NoPart == Part(0, 0)

(* An item buffer: its size and which byte of the object each byte is. *)
EmptyBuffer == [size |-> 0, at |-> [i \in 0..-1 |-> 0]]

(* _current_item_buffer is None; _stream_state.stream is None. *)
NoBuffer == [size |-> -1, at |-> [i \in 0..-1 |-> 0]]
NoStream == [at |-> -1, end |-> -1, live |-> FALSE]

AppendView(b, lo, n) ==
  [size |-> b.size + n,
   at   |-> [i \in 0..(b.size + n - 1) |->
               IF i < b.size THEN b.at[i] ELSE lo + (i - b.size)]]

(* buffer.seek(local) then buffer.read(size) or readinto(dest). *)
ReadAt(b, local, size) ==
  LET avail == IF local < b.size THEN b.size - local ELSE 0
      n     == IF size < avail THEN size ELSE avail
  IN  [size |-> n, at |-> [i \in 0..(n-1) |-> b.at[local + i]]]

Result(status, data) ==
  [status |-> status, from |-> position, data |-> data]

Failed(status) == Result(status, EmptyBuffer)

NoLoad == [pos |-> 0, left |-> NoPart, bytesLeft |-> 0, buffer |-> EmptyBuffer]

-----------------------------------------------------------------------------
(* The constructor, given ranges that passed its validation. *)
Init ==
  /\ plan \in Plans
  /\ cur = 1 /\ iter = 2
  /\ buf = NoBuffer
  /\ position = 0
  /\ stream = NoStream
  /\ state = [pos |-> -1, left |-> NoPart]
  /\ load = NoLoad
  /\ closed = FALSE
  /\ pc = "idle" /\ call = 0
  /\ ret = [status |-> "none", from |-> 0, data |-> EmptyBuffer]
  /\ fetched = 0
  /\ poisoned = FALSE
  /\ retries = 0 /\ served = {}

Within(item, lo, hi) == item.start <= lo /\ hi <= item.end

NoError == ret.status \in {"none", "ok"}

MayRead ==
  /\ pc = "idle"
  /\ NoError \/ retries < MaxRetries
  /\ retries' = IF NoError THEN retries ELSE retries + 1

ReadUnchanged ==
  UNCHANGED <<plan, position, stream, state, load, closed, fetched, poisoned,
              served>>

(* _find_item_for_range and the test whether the item must be loaded.      *)
(* The requested range lies in the current item ...                        *)
FindInCurrent(size) ==
  /\ Within(CurItem, position, position + size)
  /\ pc' = IF buf = NoBuffer THEN "stream" ELSE "copy"
  /\ call' = size
  /\ UNCHANGED <<cur, iter, buf, ret>>

(* ... or sequential access is violated: the current item is neither left  *)
(* nor, if nothing was read yet, skipped ...                               *)
OutOfOrder(size) ==
  /\ ~Within(CurItem, position, position + size)
  /\ position < CurItem.end \/ buf = NoBuffer
  /\ ret' = Failed("ValueError") /\ call' = size
  /\ UNCHANGED <<cur, iter, buf, pc>>

(* ... or the iterator is advanced: the next item holds the range, ...     *)
Advancing(size) ==
  /\ ~Within(CurItem, position, position + size)
  /\ position >= CurItem.end /\ buf # NoBuffer

(* Faulty variants of FindInNext: the iterator is not advanced; any later   *)
(* item is accepted.                                                       *)
FindInNextKeepsIter(size) ==
  /\ Advancing(size)
  /\ iter <= N
  /\ Within(Items[iter], position, position + size)
  /\ cur' = iter
  /\ pc' = "stream" /\ call' = size
  /\ UNCHANGED <<iter, buf, ret>>

FindInAnyLater(size) ==
  /\ Advancing(size)
  /\ \E i \in iter..N :
       /\ Within(Items[i], position, position + size)
       /\ cur' = i /\ iter' = i + 1
  /\ pc' = "stream" /\ call' = size
  /\ UNCHANGED <<buf, ret>>

FindInNext(size) ==
  /\ Advancing(size)
  /\ iter <= N
  /\ Within(Items[iter], position, position + size)
  /\ cur' = iter /\ iter' = iter + 1
  /\ pc' = "stream" /\ call' = size
  /\ UNCHANGED <<buf, ret>>

(* ... or it does not, and the item the iterator yielded is lost, or the   *)
(* iterator is exhausted.                                                  *)
FindNowhere(size) ==
  /\ Advancing(size)
  /\ iter <= N => ~Within(Items[iter], position, position + size)
  /\ iter' = IF iter <= N THEN iter + 1 ELSE iter
  /\ ret' = Failed("ValueError") /\ call' = size
  /\ UNCHANGED <<cur, buf, pc>>

FindItem(size) ==
  /\ \/ FindInCurrent(size) \/ OutOfOrder(size)
     \/ FindInNext(size) \/ FindNowhere(size)
  /\ ReadUnchanged

(* read(0) returns b"" without looking for an item; readinto of an empty   *)
(* buffer does look for one.                                               *)
ReadNothing ==
  /\ MayRead
  /\ ret' = Result("ok", EmptyBuffer) /\ call' = 0
  /\ UNCHANGED <<cur, iter, buf, pc>>
  /\ ReadUnchanged

Read(size) == MayRead /\ size > 0 /\ FindItem(size)

ReadInto(size) == MayRead /\ FindItem(size)

-----------------------------------------------------------------------------
(* _get_stream_for_item, then phase 1 of _get_item_buffer: what the last   *)
(* chunk left over is used, or discarded when it is all gap.               *)
(* Faulty variant: a discarded leftover is not added to the position.      *)
StartLoadForgetsGap(pos, left) ==
  load' = [pos |-> pos, left |-> NoPart,
           bytesLeft |-> Length(CurItem), buffer |-> EmptyBuffer]

StartLoad(pos, left) ==
  LET want == Length(CurItem)
      inLeft == /\ PartLen(left) > 0
                /\ pos <= CurItem.start /\ CurItem.start < pos + PartLen(left)
      from == left.lo + (CurItem.start - pos)
      take == IF want < left.hi - from THEN want ELSE left.hi - from
  IN  load' = IF inLeft
              THEN [pos |-> CurItem.start + take,
                    left |-> Part(from + take, left.hi),
                    bytesLeft |-> want - take,
                    buffer |-> AppendView(EmptyBuffer, from, take)]
              ELSE [pos |-> pos + PartLen(left), left |-> NoPart,
                    bytesLeft |-> want, buffer |-> EmptyBuffer]

(* The item is the first of its group: a new ranged GET. *)
OpenGroup ==
  /\ pc = "stream"
  /\ FirstOfGroup(Items, plan.gap, cur)
  /\ stream' = [at |-> CurItem.start, end |-> GroupEnd(Items, plan.gap, cur),
                live |-> TRUE]
  /\ state' = [pos |-> CurItem.start, left |-> NoPart]
  /\ StartLoad(CurItem.start, NoPart)
  /\ pc' = "load"
  /\ UNCHANGED <<plan, cur, iter, buf, position, closed, call, ret, fetched,
                 poisoned, retries, served>>

ReuseStream ==
  /\ pc = "stream"
  /\ ~FirstOfGroup(Items, plan.gap, cur)
  /\ stream # NoStream
  /\ StartLoad(state.pos, state.left)
  /\ pc' = "load"
  /\ UNCHANGED <<plan, cur, iter, buf, position, stream, state, closed, call, ret,
                 fetched, poisoned, retries, served>>

(* The load raises.  _current_item already names the new item, the buffer  *)
(* and the stream state are those of before.                               *)
RaiseFromLoad(status) ==
  /\ pc' = "idle"
  /\ ret' = Failed(status)
  /\ load' = NoLoad
  /\ poisoned' = (poisoned \/ buf # NoBuffer)
  /\ UNCHANGED <<plan, cur, iter, buf, position, state, closed, call, retries,
                 served>>

(* Only after close(): the stream is gone and the item is not first. *)
NoStreamFound ==
  /\ pc = "stream"
  /\ ~FirstOfGroup(Items, plan.gap, cur)
  /\ stream = NoStream
  /\ RaiseFromLoad("AssertionError")
  /\ UNCHANGED <<stream, fetched>>

OpenFails ==
  /\ "s3" \in Faults
  /\ pc = "stream"
  /\ FirstOfGroup(Items, plan.gap, cur)
  /\ RaiseFromLoad("S3Exception")
  /\ UNCHANGED <<stream, fetched>>

-----------------------------------------------------------------------------
Loading == pc = "load" /\ (load.pos < CurItem.start \/ load.bytesLeft > 0)

(* Phases 2 and 3: one more chunk of the stream.  What lies before the     *)
(* item is skipped, what the item needs is appended, the rest is left over.*)
NextChunk(n) ==
  /\ Loading
  /\ stream.live /\ stream.at + n <= stream.end
  /\ LET skip == IF load.pos >= CurItem.start THEN 0
                 ELSE IF load.pos + n <= CurItem.start THEN n
                 ELSE CurItem.start - load.pos
         take == IF load.bytesLeft < n - skip THEN load.bytesLeft ELSE n - skip
     IN  load' = [pos |-> load.pos + skip + take,
                  left |-> Part(stream.at + skip + take, stream.at + n),
                  bytesLeft |-> load.bytesLeft - take,
                  buffer |-> AppendView(load.buffer, stream.at + skip, take)]
  /\ stream' = [stream EXCEPT !.at = @ + n]
  /\ fetched' = fetched + n
  /\ UNCHANGED <<plan, cur, iter, buf, position, state, closed, pc, call, ret,
                 poisoned, retries, served>>

(* next(stream) raises S3Exception; nothing more will come. *)
StreamFails ==
  /\ "s3" \in Faults
  /\ Loading /\ stream.live
  /\ RaiseFromLoad("S3Exception")
  /\ stream' = [stream EXCEPT !.live = FALSE]
  /\ UNCHANGED fetched

(* KeyboardInterrupt, or an exception of the progress callback: the chunk  *)
(* is gone, the stream goes on.                                            *)
Interrupted(n) ==
  /\ "interrupt" \in Faults
  /\ Loading
  /\ stream.live /\ stream.at + n <= stream.end
  /\ RaiseFromLoad("interrupt")
  /\ stream' = [stream EXCEPT !.at = @ + n]
  /\ fetched' = fetched + n

(* StopIteration: the range was delivered, the stream failed before, or    *)
(* the object ended early.                                                 *)
(* Faulty variant: StopIteration is swallowed and next() tried again.      *)
StreamExhaustedIgnored ==
  /\ Loading
  /\ stream.at = stream.end \/ ~stream.live \/ "truncated" \in Faults
  /\ stream' = [stream EXCEPT !.live = FALSE]
  /\ UNCHANGED <<plan, cur, iter, buf, position, state, load, closed, pc, call,
                 ret, fetched, poisoned, retries, served>>

StreamExhausted ==
  /\ Loading
  /\ stream.at = stream.end \/ ~stream.live \/ "truncated" \in Faults
  /\ RaiseFromLoad("ValueError")
  /\ stream' = [stream EXCEPT !.live = FALSE]
  /\ UNCHANGED fetched

(* Faulty variant: the leftover of the last chunk is not stored.           *)
FinishLoadForgetsLeftover ==
  /\ pc = "load" /\ ~Loading
  /\ state' = [pos |-> load.pos, left |-> NoPart]
  /\ buf' = load.buffer
  /\ served' = served \cup {cur}
  /\ load' = NoLoad
  /\ pc' = "copy"
  /\ UNCHANGED <<plan, cur, iter, position, stream, closed, call, ret, fetched,
                 poisoned, retries>>

FinishLoad ==
  /\ pc = "load" /\ ~Loading
  /\ state' = [pos |-> load.pos, left |-> load.left]
  /\ buf' = load.buffer
  /\ served' = served \cup {cur}
  /\ load' = NoLoad
  /\ pc' = "copy"
  /\ UNCHANGED <<plan, cur, iter, position, stream, closed, call, ret,
                 fetched, poisoned, retries>>

(* Faulty variant: the item buffer is not positioned before it is read.    *)
CopyOutWithoutSeek ==
  /\ pc = "copy"
  /\ LET data == ReadAt(buf, 0, call)
     IN  /\ ret' = Result("ok", data)
         /\ position' = position + data.size
  /\ pc' = "idle"
  /\ UNCHANGED <<plan, cur, iter, buf, stream, state, load, closed, call,
                 fetched, poisoned, retries, served>>

(* The end of read and readinto. *)
CopyOut ==
  /\ pc = "copy"
  /\ LET data == ReadAt(buf, position - CurItem.start, call)
     IN  /\ ret' = Result("ok", data)
         /\ position' = position + data.size
  /\ pc' = "idle"
  /\ UNCHANGED <<plan, cur, iter, buf, stream, state, load, closed, call,
                 fetched, poisoned, retries, served>>

-----------------------------------------------------------------------------
(* seek assigns _position before it looks at its sign; when the sign is    *)
(* negative it then raises ValueError.                                     *)
SeekTo(p) ==
  /\ pc = "idle"
  /\ position' = p
  /\ UNCHANGED <<plan, cur, iter, buf, stream, state, load, closed, pc, call, ret,
                 fetched, poisoned, retries, served>>

SeekSet(offset) == SeekTo(offset)

SeekCur(offset) == position + offset \in Offsets /\ SeekTo(position + offset)

Close ==
  /\ pc = "idle" /\ ~closed
  /\ closed' = TRUE
  /\ stream' = NoStream
  /\ state' = [state EXCEPT !.left = NoPart]
  /\ buf' = NoBuffer
  /\ UNCHANGED <<plan, cur, iter, position, load, pc, call, ret, fetched,
                 poisoned, retries, served>>

-----------------------------------------------------------------------------
UserCall ==
  \/ ReadNothing
  \/ \E size \in Sizes : Read(size) \/ ReadInto(size)
  \/ \E offset \in Offsets : SeekSet(offset) \/ SeekCur(offset)
  \/ Close

Work ==
  \/ OpenGroup \/ ReuseStream \/ NoStreamFound \/ OpenFails
  \/ \E n \in ChunkSizes : NextChunk(n) \/ Interrupted(n)
  \/ StreamFails \/ StreamExhausted
  \/ FinishLoad \/ CopyOut

Next == UserCall \/ Work

Spec == Init /\ [][Next]_vars

(* The interpreter runs a call to its end, and the S3 client ends a body   *)
(* part, an error or the end of the stream: nothing is assumed of the user.*)
FairSpec == Spec /\ WF_vars(Work)

-----------------------------------------------------------------------------
(* Types of the variables. *)
Parts == [lo : Int, hi : Int]

IsBuffer(b) ==
  /\ b = [size |-> b.size, at |-> b.at]
  /\ b.size \in Int /\ b.at \in [0..(b.size - 1) -> Int]

TypeOK ==
  /\ plan \in Plans
  /\ cur \in 1..N /\ iter \in (cur+1)..(N+1)
  /\ IsBuffer(buf)
  /\ position \in Int
  /\ stream \in [at : Int, end : Int, live : BOOLEAN]
  /\ state \in [pos : Int, left : Parts]
  /\ load.pos \in Int /\ load.left \in Parts /\ load.bytesLeft \in Nat
  /\ IsBuffer(load.buffer) /\ load.buffer.size \in Nat
  /\ closed \in BOOLEAN
  /\ pc \in {"idle", "stream", "load", "copy"}
  /\ call \in Nat
  /\ ret.status \in {"none", "ok"} \cup Exceptions
  /\ ret.from \in Int /\ IsBuffer(ret.data)
  /\ fetched \in Nat
  /\ poisoned \in BOOLEAN /\ retries \in 0..MaxRetries
  /\ served \subseteq 1..N

IsRange(b, from) == \A i \in 0..(b.size - 1) : b.at[i] = from + i

(* A read that returns, returns the bytes of the object at the position it *)
(* was called at, and all it was asked for: "Bytes read from specified     *)
(* range" (read, readinto).                                                *)
RightBytes ==
  ret.status = "ok" => /\ IsRange(ret.data, ret.from)
                       /\ ret.data.size = call \/ pc # "idle"

(* The same for users who do retry: until a load fails while another item  *)
(* is buffered, nothing is confused.  In particular a failed load of the   *)
(* first item can be retried, whatever the fault was.                      *)
RightUnlessPoisoned == poisoned \/ RightBytes

(* Between calls the position recorded for the stream and its leftover     *)
(* describe the chunk the stream really delivered last, and the recorded   *)
(* position is the end of the current item: the bookkeeping that one item  *)
(* leaves for the next (_get_item_buffer, phases 1 to 3).                  *)
StreamInStep ==
  (pc = "idle" /\ buf # NoBuffer /\ ~poisoned) =>
    /\ state.pos = CurItem.end
    /\ IF PartLen(state.left) > 0
       THEN state.left = Part(state.pos, stream.at)
       ELSE stream.at = state.pos

(* The comment of phase 3: once the item is reached, the position is       *)
(* item.start + [bytes extracted], and nothing is left over while the item *)
(* is incomplete.                                                          *)
PositionIsExtracted ==
  (pc = "load" /\ ~poisoned) =>
    /\ load.pos >= CurItem.start => load.pos = CurItem.start + load.buffer.size
    /\ Loading => PartLen(load.left) = 0 /\ stream.at = load.pos

(* Items are loaded in the order of the plan, none skipped: "Non-sequential*)
(* access attempts raise ValueError" (class docstring, Error Handling); a  *)
(* user that reads again after that error may skip one.                    *)
ItemsInOrder == [][retries' = 0 => cur' \in {cur, cur + 1}]_vars

(* Progress: unless a call raised, the bytes reported never exceed the     *)
(* total that DCPOptimizedConstructor announced for the file, and reach it *)
(* when every item was loaded: each group is fetched once and to its last  *)
(* byte.                                                                   *)
ProgressReachesTotal ==
  (NoError /\ retries = 0 /\ ~closed) =>
    /\ fetched <= StreamTotal(Items, plan.gap)
    /\ served = 1..N /\ pc = "idle" => fetched = StreamTotal(Items, plan.gap)

(* Every call returns: no chunk sequence keeps a load going for ever.      *)
CallReturns == (pc # "idle") ~> (pc = "idle")

(* What an S3Reader promises, to a user that does not read again after an  *)
(* exception.                                                              *)
Abstract == INSTANCE ByteReader
  WITH Errors <- Exceptions, void <- retries > 0

ImplementsByteReader == Abstract!Spec
=============================================================================
