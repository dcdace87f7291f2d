----------------------------- MODULE RangedReader -----------------------------
(***************************************************************************)
(* RangedS3Reader (s3reader/ranged.py): every read becomes a ranged GET of *)
(* its own, except that small reads go through a buffer that is loaded     *)
(* ahead, and a read that starts inside the buffer takes what the buffer   *)
(* has before anything is requested.                                       *)
(*                                                                         *)
(* Bytes are identified by their offset in the object, so `buffer` says    *)
(* which bytes it really holds and [bufStart, bufEnd) which ones the       *)
(* reader believes it holds.  One thread uses the reader; a failure can    *)
(* fall between any two chunks.                                            *)
(***************************************************************************)
EXTENDS Integers

CONSTANTS
  ObjectSize,    \* what HeadObject answers
  BufferSizes,   \* the values of buffer_size; 0 disables the buffer
  Offsets,       \* the arguments of seek
  Sizes,         \* the sizes of reads; All is read()
  ChunkSizes,    \* the sizes of the body parts the S3 client delivers
  Faults,        \* which of AllFaults may happen
  MaxRetries     \* how often the user reads again after an exception

(* "s3": the S3 client raises; "truncated": the object was overwritten by a*)
(* shorter one after HeadObject, and a GET ends early.                     *)
AllFaults == {"s3", "truncated"}

Exceptions == {"S3Exception"}

All == -1      \* read(), read(None), read(-1)
Unknown == -1  \* _size is None
Zero == -1     \* a byte of a fresh bytearray

ASSUME ConstantsAssumption ==
  /\ ObjectSize \in Nat /\ BufferSizes \subseteq Nat /\ Offsets \subseteq Int
  /\ Sizes \subseteq Nat \cup {All} /\ ChunkSizes \subseteq Nat \ {0}
  /\ Faults \subseteq AllFaults /\ MaxRetries \in Nat

VARIABLES
  bufferSize,  \* _buffer_size; _enable_buffering is bufferSize > 0
  size,        \* _size
  position,    \* _position
  buffer,      \* _buffer
  bufStart, bufEnd,
  pc,          \* "idle", or what the call in progress does: "range", "load",
               \* "copy" or "direct"
  req,         \* its local variables
  ret,         \* how the last read ended
  torn,        \* history: a load failed after it had overwritten the buffer
  retries,     \* history: reads after an exception
  sought,      \* history: the user called seek or got an exception
  asked,       \* history: the bytes requested from S3
  again        \* history: a byte was requested a second time

vars == <<bufferSize, size, position, buffer, bufStart, bufEnd, pc, req, ret,
          torn, retries, sought, asked, again>>

Smaller(a, b) == IF a < b THEN a ELSE b

(* Bytes in memory: how many, and which byte of the object each one is. *)
ObjectBytes(lo, n) == [size |-> n, at |-> [i \in 0..(n-1) |-> lo + i]]
NoBytes == ObjectBytes(0, 0)
Zeros(n) == [size |-> n, at |-> [i \in 0..(n-1) |-> Zero]]

Joined(v, w) ==
  [size |-> v.size + w.size,
   at   |-> [i \in 0..(v.size + w.size - 1) |->
               IF i < v.size THEN v.at[i] ELSE w.at[i - v.size]]]

(* buffer[lo - bufStart : hi - bufStart] *)
FromBuffer(lo, hi) ==
  [size |-> hi - lo, at |-> [i \in 0..(hi - lo - 1) |-> buffer[lo - bufStart + i]]]

Result(status, data) == [status |-> status, from |-> position, data |-> data]

NoError == ret.status \in {"none", "ok"}

NoRequest == [start |-> 0, end |-> 0, into |-> FALSE, view |-> NoBytes,
              got |-> 0, at |-> 0, to |-> 0]

Init ==
  /\ bufferSize \in BufferSizes
  /\ size = Unknown /\ position = 0
  /\ buffer = [i \in 0..(bufferSize - 1) |-> Zero]
  /\ bufStart = 0 /\ bufEnd = 0
  /\ pc = "idle" /\ req = NoRequest
  /\ ret = [status |-> "none", from |-> 0, data |-> NoBytes]
  /\ torn = FALSE /\ retries = 0 /\ sought = FALSE
  /\ asked = {} /\ again = FALSE

MayRead ==
  /\ pc = "idle"
  /\ NoError \/ retries < MaxRetries
  /\ retries' = IF NoError THEN retries ELSE retries + 1

(* read and readinto up to _read_range.  HeadObject is sent for the size   *)
(* the first time it is needed, and may fail.                              *)
HeadFails ==
  /\ MayRead /\ "s3" \in Faults /\ size = Unknown
  /\ ret' = Result("S3Exception", NoBytes) /\ sought' = TRUE
  /\ UNCHANGED <<bufferSize, size, position, buffer, bufStart, bufEnd, pc, req,
                 torn, asked, again>>

End(n) == IF n = All THEN ObjectSize ELSE Smaller(position + n, ObjectSize)

ReadNothing(n) ==
  /\ MayRead
  /\ size = position \/ position >= End(n)
  /\ size' = ObjectSize
  /\ ret' = Result("ok", NoBytes)
  /\ UNCHANGED <<bufferSize, position, buffer, bufStart, bufEnd, pc, req, torn,
                 sought, asked, again>>

(* readinto into a buffer without room: the size is not asked for.         *)
ReadIntoNothing ==
  /\ MayRead
  /\ ret' = Result("ok", NoBytes)
  /\ UNCHANGED <<bufferSize, size, position, buffer, bufStart, bufEnd, pc, req, torn,
                 sought, asked, again>>

Read(n, into) ==
  /\ MayRead
  /\ size # position /\ position < End(n)
  /\ size' = ObjectSize
  /\ pc' = "range"
  /\ req' = [NoRequest EXCEPT !.start = position, !.end = End(n), !.into = into]
  /\ UNCHANGED <<bufferSize, position, buffer, bufStart, bufEnd, ret, torn,
                 sought, asked, again>>

-----------------------------------------------------------------------------
(* A GET of [lo, hi): the bytes asked for, of which there may be more.     *)
Request(lo, hi) ==
  /\ asked' = asked \cup lo..(hi-1)
  /\ again' = (again \/ asked \cap lo..(hi-1) # {})

MissesBuffer(lo, hi) == lo < bufStart \/ hi > bufEnd

(* Faulty variant: the buffer is used from its first byte on only. *)
OverlapsExactly(lo, hi) == bufStart = lo /\ lo < bufEnd /\ bufEnd <= hi
Overlaps(lo, hi) == bufStart <= lo /\ lo < bufEnd /\ bufEnd <= hi

(* _read_range: first what the buffer has of the beginning, then by size.  *)
ReadRange ==
  LET lo     == IF Overlaps(req.start, req.end) THEN bufEnd ELSE req.start
      view   == IF lo = req.start THEN NoBytes ELSE FromBuffer(req.start, lo)
      direct == req.end - lo >= bufferSize
      loads  == ~direct /\ MissesBuffer(lo, req.end)
      to     == IF direct THEN req.end ELSE Smaller(lo + bufferSize, ObjectSize)
  IN  /\ pc = "range"
      /\ req' = [req EXCEPT !.start = lo, !.view = view, !.at = lo, !.to = to]
      /\ pc' = IF direct THEN "direct" ELSE IF loads THEN "load" ELSE "copy"
      /\ IF direct \/ loads THEN Request(lo, to) ELSE UNCHANGED <<asked, again>>
      /\ UNCHANGED <<bufferSize, size, position, buffer, bufStart, bufEnd, ret,
                     torn, retries, sought>>

(* get_stream or next() raises.  Nothing of the state is restored.         *)
RequestFails ==
  /\ pc \in {"load", "direct"} /\ "s3" \in Faults
  /\ pc' = "idle" /\ req' = NoRequest
  /\ ret' = Result("S3Exception", NoBytes)
  /\ torn' = (torn \/ (pc = "load" /\ req.got > 0))
  /\ sought' = TRUE
  /\ UNCHANGED <<bufferSize, size, position, buffer, bufStart, bufEnd, retries,
                 asked, again>>

(* The next n bytes of the body of the request arrive. *)
Chunk(n) == 1 <= n /\ n <= req.to - req.at

BodyIsOver == req.at = req.to \/ "truncated" \in Faults

(* Faulty variant: every chunk goes to the beginning of the buffer. *)
LoadChunkAtStart(n) ==
  /\ pc = "load" /\ Chunk(n)
  /\ buffer' = [i \in 0..(bufferSize - 1) |->
                  IF i < n THEN req.at + i ELSE buffer[i]]
  /\ req' = [req EXCEPT !.got = @ + n, !.at = @ + n]
  /\ UNCHANGED <<bufferSize, size, position, bufStart, bufEnd, pc, ret, torn,
                 retries, sought, asked, again>>

(* _load_buffer, one chunk: the buffer is overwritten from its beginning.  *)
LoadChunk(n) ==
  /\ pc = "load" /\ Chunk(n)
  /\ buffer' = [i \in 0..(bufferSize - 1) |->
                  IF i \in req.got..(req.got + n - 1) THEN req.at + i - req.got
                  ELSE buffer[i]]
  /\ req' = [req EXCEPT !.got = @ + n, !.at = @ + n]
  /\ UNCHANGED <<bufferSize, size, position, bufStart, bufEnd, pc, ret, torn,
                 retries, sought, asked, again>>

Loaded ==
  /\ pc = "load" /\ BodyIsOver
  /\ bufStart' = req.start /\ bufEnd' = req.start + req.got
  /\ pc' = "copy"
  /\ UNCHANGED <<bufferSize, size, position, buffer, req, ret, torn, retries,
                 sought, asked, again>>

(* _read_unbuffered, one chunk; the loop ends when the view is full.       *)
DirectChunk(n) ==
  /\ pc = "direct" /\ Chunk(n)
  /\ req' = [req EXCEPT !.view = Joined(@, ObjectBytes(req.at, n)), !.at = @ + n]
  /\ UNCHANGED <<bufferSize, size, position, buffer, bufStart, bufEnd, pc, ret,
                 torn, retries, sought, asked, again>>

(* Return from _read_range: read returns all of its bytearray, whatever    *)
(* part of it was filled; readinto the number of bytes it was told.        *)
Finish(view) ==
  LET missing == req.end - (position + view.size)
  IN  /\ position' = position + view.size
      /\ ret' = Result("ok", IF req.into THEN view ELSE Joined(view, Zeros(missing)))
      /\ pc' = "idle" /\ req' = NoRequest

Direct ==
  /\ pc = "direct" /\ BodyIsOver
  /\ Finish(req.view)
  /\ UNCHANGED <<bufferSize, size, buffer, bufStart, bufEnd, torn, retries,
                 sought, asked, again>>

Copy ==
  /\ pc = "copy"
  /\ Finish(Joined(req.view, FromBuffer(req.start, req.end)))
  /\ UNCHANGED <<bufferSize, size, buffer, bufStart, bufEnd, torn, retries,
                 sought, asked, again>>

(* seek: the size is needed to stay inside the object; a negative target   *)
(* raises ValueError and leaves the cursor.                                *)
Seek(base, offset) ==
  /\ pc = "idle"
  /\ size' = IF base + offset < 0 /\ base # ObjectSize THEN size ELSE ObjectSize
  /\ position' = IF base + offset < 0 THEN position
                 ELSE Smaller(base + offset, ObjectSize)
  /\ sought' = TRUE
  /\ UNCHANGED <<bufferSize, buffer, bufStart, bufEnd, pc, req, ret, torn,
                 retries, asked, again>>

Step ==
  \/ ReadRange \/ RequestFails \/ Loaded \/ Direct \/ Copy
  \/ \E n \in ChunkSizes : LoadChunk(n) \/ DirectChunk(n)

Next ==
  \/ Step \/ HeadFails \/ ReadIntoNothing
  \/ \E n \in Sizes : ReadNothing(n)
  \/ \E n \in Sizes, into \in BOOLEAN : (n = All => ~into) /\ Read(n, into)
  \/ \E o \in Offsets, base \in {0, position, ObjectSize} : Seek(base, o)

Spec == Init /\ [][Next]_vars

-----------------------------------------------------------------------------
TypeOK ==
  /\ bufferSize \in BufferSizes /\ size \in {Unknown, ObjectSize}
  /\ position \in 0..ObjectSize
  /\ buffer \in [0..(bufferSize - 1) -> Nat \cup {Zero}]
  /\ bufStart \in Nat /\ bufEnd \in bufStart..(bufStart + bufferSize)
  /\ pc \in {"idle", "range", "load", "copy", "direct"}
  /\ ret.status \in Exceptions \cup {"none", "ok"}
  /\ retries \in 0..MaxRetries
  /\ torn \in BOOLEAN /\ sought \in BOOLEAN /\ again \in BOOLEAN

(* "Bytes read from specified range": a read returns the bytes of the      *)
(* object that follow the position it started from.                        *)
RightBytes ==
  ret.status = "ok" => ret.data = ObjectBytes(ret.from, ret.data.size)

(* The same until a load fails half way: the bytes in the buffer are those *)
(* the reader believes are there.                                          *)
RightUnlessTorn == torn \/ RightBytes

(* Nothing is fetched twice by a user that reads forward: the bytes loaded *)
(* ahead are used before the next request ("Forward overlapping reads").   *)
FetchedOnce == again => sought

(* What an S3Reader promises, to a user that does not read again after an  *)
(* exception.                                                              *)
Abstract == INSTANCE ByteReader WITH Errors <- Exceptions, void <- retries > 0

ImplementsByteReader == Abstract!Spec
=============================================================================
