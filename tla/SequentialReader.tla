--------------------------- MODULE SequentialReader ---------------------------
(***************************************************************************)
(* SequentialS3Reader (s3reader/sequential.py): one GET of the whole       *)
(* object, opened by the first read, whose bytes are appended to a BytesIO *)
(* as far as a read or a seek needs them and served from there.            *)
(*                                                                         *)
(* Two cursors have to agree: `position`, the reader's, and `tell`, the    *)
(* BytesIO's, at which the BytesIO is written.  Bytes are identified by    *)
(* their offset in the object.  One thread uses the reader; a failure can  *)
(* fall between any two chunks (GetObjectStream in get_object_stream.rs).  *)
(***************************************************************************)
EXTENDS Integers, Sequences

CONSTANTS
  ObjectSizes,   \* the sizes of the object
  Offsets,       \* the arguments of seek
  Sizes,         \* the sizes of reads; All is read()
  ChunkSizes,    \* the sizes of the body parts the S3 client delivers
  MaxErrors      \* bound on the exceptions

Exceptions == {"S3Exception"}

All == -1      \* read(), read(None), read(-1)
Unknown == -1  \* _size is None

ConstantsAssumption ==
  /\ ObjectSizes \subseteq Nat /\ Offsets \subseteq Int
  /\ Sizes \subseteq Nat \cup {All} /\ ChunkSizes \subseteq Nat \ {0}
  /\ MaxErrors \in Nat

VARIABLES
  objectSize,  \* the size of the object in S3
  size,        \* _size
  position,    \* _position
  buffer,      \* _buffer: the bytes written to the BytesIO
  tell,        \* _buffer.tell()
  stream,      \* _stream: "none", "open" or "over"
  at,          \* the offset of the next byte the stream delivers
  pc,          \* "idle", or what the call does: "fetch", "drain" or "serve"
  req,         \* the call: its operation, size and target offset
  ret,         \* how the last read ended
  asked,       \* the size the last read asked for
  errors       \* exceptions so far

vars == <<objectSize, size, position, buffer, tell, stream, at, pc, req, ret,
          asked, errors>>

ObjectBytes(lo, n) == [size |-> n, at |-> [i \in 0..(n-1) |-> lo + i]]
NoBytes == ObjectBytes(0, 0)

Result(status, data) == [status |-> status, from |-> position, data |-> data]

NoRequest == [op |-> "none", n |-> 0, target |-> 0]

Init ==
  /\ objectSize \in ObjectSizes
  /\ size = Unknown /\ position = 0
  /\ buffer = <<>> /\ tell = 0
  /\ stream = "none" /\ at = 0
  /\ pc = "idle" /\ req = NoRequest
  /\ ret = [status |-> "none", from |-> 0, data |-> NoBytes] /\ asked = 0
  /\ errors = 0

MayCall == pc = "idle"

MayFail == errors < MaxErrors

AtEnd == size = position

(* BytesIO.write at the cursor of the BytesIO. *)
Written(b, pos, lo, n) ==
  [i \in 1..(IF Len(b) > pos + n THEN Len(b) ELSE pos + n) |->
     IF i > pos /\ i <= pos + n THEN lo + i - pos - 1 ELSE b[i]]

(* BytesIO.read(n) at `pos`. *)
Served(pos, n) ==
  LET there == IF pos < Len(buffer) THEN Len(buffer) - pos ELSE 0
      k     == IF n = All \/ n > there THEN there ELSE n
  IN  [size |-> k, at |-> [i \in 0..(k-1) |-> buffer[pos + i + 1]]]

-----------------------------------------------------------------------------
(* read and readinto.  At the end nothing happens; readinto(b"") neither.  *)
ReadNothing(n) ==
  /\ MayCall /\ AtEnd
  /\ ret' = Result("ok", NoBytes) /\ asked' = n
  /\ UNCHANGED <<objectSize, size, position, buffer, tell, stream, at, pc, req,
                 errors>>

ReadIntoNothing ==
  /\ MayCall
  /\ ret' = Result("ok", NoBytes) /\ asked' = 0
  /\ UNCHANGED <<objectSize, size, position, buffer, tell, stream, at, pc, req,
                 errors>>

(* prefetch: the GET is sent by the first call that needs it.              *)
PrefetchFails(n) ==
  /\ MayCall /\ MayFail /\ ~AtEnd /\ stream = "none"
  /\ ret' = Result("S3Exception", NoBytes) /\ asked' = n
  /\ errors' = errors + 1
  /\ UNCHANGED <<objectSize, size, position, buffer, tell, stream, at, pc, req>>

Prefetch == stream' = IF stream = "none" THEN "open" ELSE stream

(* Faulty variants: the BytesIO is written where it was last read; seek    *)
(* trusts the buffer to reach far enough.                                  *)
SeekToKeepsTell(target) ==
  IF target > Len(buffer)
  THEN pc' = "fetch" /\ tell' = tell
  ELSE pc' = "serve" /\ tell' = tell

SeekToBuffered(target) == pc' = "serve" /\ tell' = tell

(* seek, from the test whether the buffer reaches the target: if it does   *)
(* not, the cursor of the BytesIO goes to its end, to be written there.    *)
SeekTo(target) ==
  IF target > Len(buffer)
  THEN pc' = "fetch" /\ tell' = Len(buffer)
  ELSE pc' = "serve" /\ tell' = tell

(* read(n) and readinto seek forward first; read() drains the stream.      *)
Read(n) ==
  /\ MayCall /\ ~AtEnd /\ n # All
  /\ req' = [op |-> "read", n |-> n, target |-> position + n]
  /\ Prefetch /\ SeekTo(position + n)
  /\ UNCHANGED <<objectSize, size, position, buffer, at, ret, asked, errors>>

ReadAll ==
  /\ MayCall /\ ~AtEnd
  /\ req' = [op |-> "read", n |-> All, target |-> 0]
  /\ pc' = "drain" /\ Prefetch /\ tell' = Len(buffer)
  /\ UNCHANGED <<objectSize, size, position, buffer, at, ret, asked, errors>>

(* seek(offset, SEEK_SET or SEEK_CUR).  A negative target is a ValueError. *)
OpenFor(target) ==
  IF target > Len(buffer) THEN Prefetch ELSE stream' = stream

Seek(base, offset) ==
  /\ MayCall /\ base + offset >= 0
  /\ ~(base = position /\ AtEnd /\ offset >= 0)
  /\ req' = [op |-> "seek", n |-> 0, target |-> base + offset]
  /\ OpenFor(base + offset) /\ SeekTo(base + offset)
  /\ UNCHANGED <<objectSize, size, position, buffer, at, ret, asked, errors>>

(* seek(offset, SEEK_END): the size comes from HeadObject, unless known.   *)
(* To the end it is not clamped by anything and fetches nothing.           *)
Size == IF size = Unknown THEN objectSize ELSE size

SeekEnd ==
  /\ MayCall
  /\ size' = Size /\ position' = Size
  /\ UNCHANGED <<objectSize, buffer, tell, stream, at, pc, req, ret, asked,
                 errors>>

SeekFromEnd(offset) ==
  /\ MayCall /\ offset < 0 /\ Size + offset >= 0
  /\ size' = Size
  /\ req' = [op |-> "seek", n |-> 0, target |-> Size + offset]
  /\ OpenFor(Size + offset) /\ SeekTo(Size + offset)
  /\ UNCHANGED <<objectSize, position, buffer, at, ret, asked, errors>>

SeekBeforeStart(offset) ==
  /\ MayCall /\ Size + offset < 0
  /\ size' = Size
  /\ UNCHANGED <<objectSize, position, buffer, tell, stream, at, pc, req, ret,
                 asked, errors>>

(* A seek whose HeadObject or GET request raises.                          *)
SeekFails ==
  /\ MayCall /\ MayFail /\ (stream = "none" \/ size = Unknown)
  /\ errors' = errors + 1
  /\ UNCHANGED <<objectSize, size, position, buffer, tell, stream, at, pc, req,
                 ret, asked>>

-----------------------------------------------------------------------------
(* next(self._stream) and _buffer.write, as often as the loop needs.       *)
Chunk(n) ==
  /\ stream = "open" /\ n <= objectSize - at
  /\ buffer' = Written(buffer, tell, at, n)
  /\ tell' = tell + n /\ at' = at + n
  /\ UNCHANGED <<objectSize, size, position, stream, pc, req, ret, asked, errors>>

FetchChunk(n) == pc = "fetch" /\ req.target > Len(buffer) /\ Chunk(n)
DrainChunk(n) == pc = "drain" /\ Chunk(n)

StreamIsOver == stream = "over" \/ at = objectSize

Fetched ==
  /\ pc = "fetch" /\ req.target <= Len(buffer)
  /\ pc' = "serve"
  /\ UNCHANGED <<objectSize, size, position, buffer, tell, stream, at, req, ret,
                 asked, errors>>

(* Faulty variant: the loop goes on after StopIteration. *)
StreamEndsIgnored ==
  /\ pc \in {"fetch", "drain"} /\ StreamIsOver
  /\ pc = "fetch" => req.target > Len(buffer)
  /\ stream' = "over"
  /\ UNCHANGED <<objectSize, size, position, buffer, tell, at, pc, req, ret,
                 asked, errors>>

(* StopIteration: what the buffer holds is taken for the whole object.     *)
StreamEnds ==
  /\ pc \in {"fetch", "drain"} /\ StreamIsOver
  /\ pc = "fetch" => req.target > Len(buffer)
  /\ stream' = "over" /\ pc' = "serve"
  /\ size' = tell
  /\ UNCHANGED <<objectSize, position, buffer, tell, at, req, ret, asked, errors>>

(* next() raises: the stream is over, and the next call of next() on it is *)
(* a StopIteration.  Nothing of the state is restored.                     *)
StreamFails ==
  /\ pc \in {"fetch", "drain"} /\ stream = "open" /\ MayFail
  /\ pc = "fetch" => req.target > Len(buffer)
  /\ stream' = "over" /\ pc' = "idle" /\ errors' = errors + 1
  /\ IF req.op = "seek" THEN UNCHANGED <<ret, asked>>
     ELSE ret' = Result("S3Exception", NoBytes) /\ asked' = req.n
  /\ req' = NoRequest
  /\ UNCHANGED <<objectSize, size, position, buffer, tell, at>>

(* The end of seek: the target is clamped when the size is known.          *)
Target == IF size # Unknown /\ size < req.target THEN size ELSE req.target

ServeSeek ==
  /\ pc = "serve" /\ req.op = "seek"
  /\ position' = Target /\ tell' = Target
  /\ pc' = "idle" /\ req' = NoRequest
  /\ UNCHANGED <<objectSize, size, buffer, stream, at, ret, asked, errors>>

(* Faulty variant: the cursor stays where the seek of the read put it.     *)
ServeReadAtTarget ==
  /\ pc = "serve" /\ req.op = "read"
  /\ LET data == Served(position, req.n)
     IN  /\ ret' = Result("ok", data)
         /\ tell' = position + data.size
         /\ position' = IF req.n = All THEN tell' ELSE position + req.n
  /\ asked' = req.n
  /\ pc' = "idle" /\ req' = NoRequest
  /\ UNCHANGED <<objectSize, size, buffer, stream, at, errors>>

(* The end of read: back to where it began, and serve from the buffer.     *)
ServeRead ==
  /\ pc = "serve" /\ req.op = "read"
  /\ LET data == Served(position, req.n)
     IN  /\ ret' = Result("ok", data)
         /\ tell' = position + data.size /\ position' = tell'
  /\ asked' = req.n
  /\ pc' = "idle" /\ req' = NoRequest
  /\ UNCHANGED <<objectSize, size, buffer, stream, at, errors>>

Step ==
  \/ Fetched \/ StreamEnds \/ StreamFails \/ ServeSeek \/ ServeRead
  \/ \E n \in ChunkSizes : FetchChunk(n) \/ DrainChunk(n)

Next ==
  \/ Step \/ ReadAll \/ ReadIntoNothing \/ SeekEnd \/ SeekFails
  \/ \E n \in Sizes : ReadNothing(n) \/ PrefetchFails(n) \/ Read(n)
  \/ \E o \in Offsets, base \in {0, position} : Seek(base, o)
  \/ \E o \in Offsets : SeekFromEnd(o) \/ SeekBeforeStart(o)

Spec == Init /\ [][Next]_vars

(* The reading thread runs, and the stream delivers, ends or fails. *)
FairSpec == Spec /\ WF_vars(Step)
-----------------------------------------------------------------------------
TypeOK ==
  /\ objectSize \in ObjectSizes /\ size \in Nat \cup {Unknown}
  /\ position \in 0..objectSize
  /\ tell \in 0..Len(buffer) /\ at \in 0..objectSize
  /\ stream \in {"none", "open", "over"}
  /\ pc \in {"idle", "fetch", "drain", "serve"}
  /\ ret.status \in Exceptions \cup {"none", "ok"}
  /\ errors \in 0..MaxErrors

(* Whatever was read, sought and failed before, the buffer holds the first *)
(* bytes of the object, in order and without a hole.                       *)
BufferIsPrefix ==
  Len(buffer) = at /\ \A i \in 1..Len(buffer) : buffer[i] = i - 1

(* A read ends short of what was asked at the end of the object only, and  *)
(* read() is "the entire file".                                            *)
ShortOnlyAtEnd ==
  ret.status = "ok" =>
    ret.data.size = asked \/ ret.from + ret.data.size = objectSize

(* The same as long as no call has failed. *)
ShortOnlyAtEndUnlessFailed == errors = 0 => ShortOnlyAtEnd

(* read, readinto and seek come back, with bytes or an exception. *)
CallReturns == (pc # "idle") ~> (pc = "idle")

(* What an S3Reader promises; here also to a user that reads again after   *)
(* an exception.                                                           *)
Abstract == INSTANCE ByteReader WITH Errors <- Exceptions, void <- FALSE

ImplementsByteReader == Abstract!Spec
=============================================================================
