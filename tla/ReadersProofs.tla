----------------------------- MODULE ReadersProofs -----------------------------
(***************************************************************************)
(* Theorems about the two generic readers, for every object, buffer size,  *)
(* chunk size and number of retries: about RangedReader first, then about  *)
(* SequentialReader, and what follows for the reader that a constructor    *)
(* makes of either kind (MCReaders).                                       *)
(***************************************************************************)
EXTENDS MCReaders, SequenceTheorems, TLAPS

(* The object keeps the size HeadObject answered: a GET does not end early.*)
SizeIsKept == "truncated" \notin Faults

-----------------------------------------------------------------------------
(* Facts about bytes in memory.                                            *)

LEMMA EmptyBytes ==
  ASSUME NEW a, NEW b
  PROVE  ObjectBytes(a, 0) = ObjectBytes(b, 0)
<1>1. 0..(0-1) = {}
  OBVIOUS
<1>2. [i \in 0..(0-1) |-> a + i] = [i \in 0..(0-1) |-> b + i]
  BY <1>1
<1> QED
  BY <1>2 DEF ObjectBytes

LEMMA JoinedBytes ==
  ASSUME NEW a \in Nat, NEW m \in Nat, NEW n \in Nat
  PROVE  Joined(ObjectBytes(a, m), ObjectBytes(a + m, n)) = ObjectBytes(a, m + n)
<1> DEFINE v == ObjectBytes(a, m)
           w == ObjectBytes(a + m, n)
<1>1. v.size = m /\ v.at = [i \in 0..(m-1) |-> a + i]
  BY DEF ObjectBytes
<1>2. w.size = n /\ w.at = [i \in 0..(n-1) |-> (a + m) + i]
  BY DEF ObjectBytes
<1> HIDE DEF v, w
<1>3. \A i \in 0..(m + n - 1) : (IF i < m THEN v.at[i] ELSE w.at[i - m]) = a + i
  <2> TAKE i \in 0..(m + n - 1)
  <2>1. CASE i < m
    BY <1>1, <2>1
  <2>2. CASE ~(i < m)
    <3>1. i - m \in 0..(n - 1)
      BY <2>2
    <3>2. w.at[i - m] = (a + m) + (i - m)
      BY <1>2, <3>1
    <3> QED
      BY <2>2, <3>1, <3>2
  <2> QED
    BY <2>1, <2>2
<1>4. [i \in 0..(m + n - 1) |-> IF i < m THEN v.at[i] ELSE w.at[i - m]]
        = [i \in 0..(m + n - 1) |-> a + i]
  BY <1>3
<1>5. Joined(v, w) = [size |-> m + n, at |-> [i \in 0..(m + n - 1) |-> a + i]]
  BY <1>1, <1>2, <1>4 DEF Joined
<1> QED
  BY <1>5 DEF v, w, ObjectBytes

(* read() of which nothing is missing returns what was delivered.          *)
LEMMA NothingMissing ==
  ASSUME NEW a \in Nat, NEW m \in Nat
  PROVE  Joined(ObjectBytes(a, m), Zeros(0)) = ObjectBytes(a, m)
<1>1. Zeros(0) = ObjectBytes(a + m, 0)
  <2>1. [i \in 0..(0-1) |-> Zero] = [i \in 0..(0-1) |-> (a + m) + i]
    OBVIOUS
  <2> QED
    BY <2>1 DEF Zeros, ObjectBytes
<1>2. m + 0 = m
  OBVIOUS
<1> QED
  BY <1>1, <1>2, JoinedBytes

-----------------------------------------------------------------------------
(* RangedReader.                                                           *)

(* The buffer holds the n bytes of the object from lo on.                  *)
Holds(lo, n) == \A i \in 0..(n - 1) : buffer[i] = lo + i

BufferTypes ==
  /\ bufferSize \in BufferSizes
  /\ buffer \in [0..(bufferSize - 1) -> Nat \cup {Zero}]
  /\ bufStart \in Nat /\ bufEnd \in bufStart..(bufStart + bufferSize)

CallTypes ==
  /\ size \in {Unknown, ObjectSize} /\ position \in 0..ObjectSize
  /\ pc \in {"idle", "range", "load", "copy", "direct"}
  /\ ret.status \in Exceptions \cup {"none", "ok"}
  /\ retries \in 0..MaxRetries
  /\ torn \in BOOLEAN /\ sought \in BOOLEAN /\ again \in BOOLEAN

RequestTypes ==
  /\ req = [start |-> req.start, end |-> req.end, into |-> req.into,
            view |-> req.view, got |-> req.got, at |-> req.at, to |-> req.to]
  /\ req.start \in Nat /\ req.end \in Nat /\ req.into \in BOOLEAN
  /\ req.view.size \in Nat
  /\ req.got \in Nat /\ req.at \in Nat /\ req.to \in Nat

RangedTypes == BufferTypes /\ CallTypes /\ RequestTypes

(* Between loads, the reader has the bytes it believes to have, unless a   *)
(* load failed half way.                                                   *)
BufferInv ==
  ~torn /\ (pc = "load" => req.got = 0) => Holds(bufStart, bufEnd - bufStart)

(* What the call in progress has collected, and what it still asks for.    *)
ViewInv ==
  req.view.size = (IF pc = "direct" THEN req.at ELSE req.start) - position
    /\ (~torn => req.view = ObjectBytes(position, req.view.size))

RequestInv ==
  /\ pc # "idle" => /\ position <= req.start /\ req.start <= req.end
                    /\ req.end <= ObjectSize
                    /\ ViewInv
  /\ pc = "range" => req.start = position /\ req.start < req.end /\ req.got = 0
  /\ pc = "direct" => req.start <= req.at /\ req.at <= req.to /\ req.to = req.end
  /\ pc = "load" => /\ req.at = req.start + req.got
                    /\ req.at <= req.to /\ req.end <= req.to
                    /\ req.to <= req.start + bufferSize
                    /\ Holds(req.start, req.got)
  /\ pc = "copy" => bufStart <= req.start /\ req.end <= bufEnd

(* A user that reads forward: the buffer is not ahead of the cursor, and   *)
(* what was asked for ends where the buffer, the cursor or the request     *)
(* ends.                                                                   *)
Reach ==
  {i \in Nat : \/ pc \in {"idle", "range"} /\ (i < position \/ i < bufEnd)
               \/ pc \in {"load", "direct"} /\ i < req.to
               \/ pc = "copy" /\ i < bufEnd}

ForwardInv ==
  ~sought =>
    /\ ~again /\ asked \subseteq Reach
    /\ pc \in {"idle", "range"} => bufStart <= position
    /\ pc \in {"load", "direct"} => bufStart <= req.start /\ bufEnd <= req.start

(* Until the first retry, a reader with a torn buffer has raised.          *)
TornInv == torn /\ retries = 0 => pc = "idle" /\ ~NoError

RangedInv ==
  RangedTypes /\ BufferInv /\ RequestInv /\ RightUnlessTorn /\ ForwardInv /\ TornInv

LEMMA RangedTypeFacts ==
  ASSUME RangedTypes
  PROVE  /\ bufferSize \in Nat /\ bufStart \in Nat /\ bufEnd \in Nat
         /\ bufStart <= bufEnd /\ bufEnd <= bufStart + bufferSize
         /\ position \in Nat /\ position <= ObjectSize /\ ObjectSize \in Nat
         /\ req.start \in Nat /\ req.end \in Nat /\ req.got \in Nat
         /\ req.at \in Nat /\ req.to \in Nat /\ req.view.size \in Nat
BY ConstantsAssumption DEF RangedTypes, BufferTypes, CallTypes, RequestTypes

LEMMA RangedInitInvariant == Init => RangedInv
<1> SUFFICES ASSUME Init PROVE RangedInv
  OBVIOUS
<1> USE ConstantsAssumption
<1>1. RangedTypes
  <2>1. BufferTypes
    BY DEF Init, BufferTypes
  <2>2. CallTypes
    <3>1. 0 \in 0..ObjectSize /\ 0 \in 0..MaxRetries
      OBVIOUS
    <3>2. ret.status = "none"
      BY DEF Init
    <3> QED
      BY <3>1, <3>2 DEF Init, CallTypes
  <2>3. RequestTypes
    BY DEF Init, RequestTypes, NoRequest, NoBytes, ObjectBytes
  <2> QED BY <2>1, <2>2, <2>3 DEF RangedTypes
<1>2. BufferInv /\ RequestInv /\ RightUnlessTorn /\ ForwardInv /\ TornInv
  BY DEF Init, BufferInv, Holds, RequestInv, RightUnlessTorn, RightBytes, ForwardInv,
         Reach, TornInv, NoError
<1> QED
  BY <1>1, <1>2 DEF RangedInv

(* What was read of the buffer between loads is right.                     *)
LEMMA FromBufferIsRight ==
  ASSUME RangedTypes, NEW lo \in Nat, NEW hi \in Nat,
         Holds(bufStart, bufEnd - bufStart),
         bufStart <= lo, lo <= hi, hi <= bufEnd
  PROVE  FromBuffer(lo, hi) = ObjectBytes(lo, hi - lo)
<1>1. bufStart \in Nat /\ bufEnd \in Int
  BY RangedTypeFacts
<1>2. \A i \in 0..(hi - lo - 1) : buffer[lo - bufStart + i] = lo + i
  <2> TAKE i \in 0..(hi - lo - 1)
  <2>1. lo - bufStart + i \in 0..(bufEnd - bufStart - 1)
    BY <1>1
  <2> QED
    BY <1>1, <2>1 DEF Holds
<1> QED
  BY <1>2 DEF FromBuffer, ObjectBytes

(* Return from _read_range with all that was asked for.                    *)
LEMMA FinishIsRight ==
  ASSUME RangedTypes, RightUnlessTorn, NEW view,
         view.size = req.end - position, position <= req.end,
         ~torn => view = ObjectBytes(position, view.size),
         torn' = torn, Finish(view)
  PROVE  /\ RightUnlessTorn' /\ position' = req.end
         /\ ret'.status = "ok" /\ pc' = "idle" /\ req' = NoRequest
         /\ ~torn => ret' = [status |-> "ok", from |-> position,
                             data |-> ObjectBytes(position, req.end - position)]
<1>1. /\ position \in Nat /\ req.end \in Nat /\ view.size \in Nat
      /\ req.into \in BOOLEAN
  BY RangedTypeFacts DEF RangedTypes, RequestTypes
<1>2. position' = req.end /\ pc' = "idle" /\ req' = NoRequest
  BY <1>1 DEF Finish
<1>3. req.end - (position + view.size) = 0
  BY <1>1
<1>4. ret' = Result("ok", IF req.into THEN view ELSE Joined(view, Zeros(0)))
  BY <1>3, Zenon DEF Finish
<1>5. ret'.status = "ok"
  BY <1>4 DEF Result
<1>6. ASSUME ~torn
      PROVE  ret' = [status |-> "ok", from |-> position,
                     data |-> ObjectBytes(position, req.end - position)]
  <2>1. view = ObjectBytes(position, req.end - position)
    BY <1>6
  <2>2. Joined(view, Zeros(0)) = ObjectBytes(position, req.end - position)
    BY <1>1, <2>1, NothingMissing
  <2> QED
    BY <1>4, <2>1, <2>2 DEF Result
<1>7. RightUnlessTorn'
  <2> SUFFICES ASSUME ~torn PROVE RightBytes'
    BY DEF RightUnlessTorn
  <2>1. ret'.data.size = req.end - position
    BY <1>6 DEF ObjectBytes
  <2> QED
    BY <1>6, <2>1 DEF RightBytes
<1> QED
  BY <1>2, <1>5, <1>6, <1>7

(* What _read_buffered returns: what was taken of the old buffer, and the  *)
(* rest from the buffer as it is now.                                      *)
LEMMA CopiesRight ==
  ASSUME RangedTypes, BufferInv, RequestInv, pc = "copy"
  PROVE  LET view == Joined(req.view, FromBuffer(req.start, req.end))
         IN  /\ view.size = req.end - position /\ position <= req.end
             /\ ~torn => view = ObjectBytes(position, view.size)
<1> DEFINE view == Joined(req.view, FromBuffer(req.start, req.end))
<1>1. /\ req.view.size = req.start - position
      /\ ~torn => req.view = ObjectBytes(position, req.view.size)
      /\ position <= req.start /\ req.start <= req.end
      /\ bufStart <= req.start /\ req.end <= bufEnd
      /\ req.start \in Nat /\ req.end \in Nat /\ position \in Nat
  BY RangedTypeFacts DEF RequestInv, ViewInv
<1>2. view.size = req.end - position /\ position <= req.end
  BY <1>1 DEF Joined, FromBuffer
<1>3. ASSUME ~torn PROVE view = ObjectBytes(position, view.size)
  <2>1. Holds(bufStart, bufEnd - bufStart)
    BY <1>3 DEF BufferInv
  <2>2. FromBuffer(req.start, req.end) = ObjectBytes(req.start, req.end - req.start)
    BY <1>1, <2>1, FromBufferIsRight
  <2> DEFINE m == req.start - position
             k == req.end - req.start
  <2>3. m \in Nat /\ k \in Nat /\ position + m = req.start /\ m + k = req.end - position
    BY <1>1
  <2>4. req.view = ObjectBytes(position, m) /\ FromBuffer(req.start, req.end) = ObjectBytes(position + m, k)
    BY <1>1, <1>3, <2>2, <2>3
  <2>5. Joined(ObjectBytes(position, m), ObjectBytes(position + m, k))
          = ObjectBytes(position, m + k)
    <3> HIDE DEF m, k
    <3> QED
      BY <1>1, <2>3, JoinedBytes
  <2> QED
    BY <1>2, <2>3, <2>4, <2>5
<1> QED
  BY <1>2, <1>3

LEMMA RangedStepInvariant ==
  ASSUME SizeIsKept
  PROVE  RangedInv /\ [Next]_vars => RangedInv'
<1> SUFFICES ASSUME RangedInv, [Next]_vars PROVE RangedInv'
  OBVIOUS
<1> USE ConstantsAssumption
<1>0. /\ RangedTypes /\ BufferInv /\ RequestInv /\ RightUnlessTorn /\ ForwardInv /\ TornInv
  BY DEF RangedInv
<1>facts. /\ bufferSize \in Nat /\ bufStart \in Nat /\ bufEnd \in Nat
          /\ bufStart <= bufEnd /\ bufEnd <= bufStart + bufferSize
          /\ position \in Nat /\ position <= ObjectSize /\ ObjectSize \in Nat
          /\ req.start \in Nat /\ req.end \in Nat /\ req.got \in Nat
          /\ req.at \in Nat /\ req.to \in Nat /\ req.view.size \in Nat
  BY <1>0, RangedTypeFacts
<1>1. CASE HeadFails
  <2>1. RangedTypes'
    <3>1. BufferTypes'
      BY <1>0, <1>1 DEF HeadFails, RangedTypes, BufferTypes
    <3>2. CallTypes'
      BY <1>0, <1>1, <1>facts DEF HeadFails, MayRead, NoError, Result, NoBytes, ObjectBytes, Exceptions, RangedTypes, CallTypes
    <3>3. RequestTypes'
      BY <1>0, <1>1, <1>facts DEF HeadFails, MayRead, NoError, Result, NoBytes, ObjectBytes, Exceptions, RangedTypes, RequestTypes
    <3> QED BY <3>1, <3>2, <3>3 DEF RangedTypes
  <2>2. BufferInv' /\ RequestInv' /\ ForwardInv'
    BY <1>0, <1>1 DEF HeadFails, MayRead, BufferInv, Holds, RequestInv, ViewInv, ForwardInv
  <2>3. RightUnlessTorn' /\ TornInv'
    BY <1>0, <1>1 DEF HeadFails, MayRead, NoError, RightUnlessTorn, RightBytes, TornInv, Result,
                      RangedTypes, BufferTypes, CallTypes, RequestTypes
  <2> QED BY <2>1, <2>2, <2>3 DEF RangedInv
<1>2. ASSUME NEW n \in Sizes, ReadNothing(n) PROVE RangedInv'
  <2>1. RangedTypes'
    <3>1. BufferTypes'
      BY <1>0, <1>2 DEF ReadNothing, RangedTypes, BufferTypes
    <3>2. CallTypes'
      BY <1>0, <1>2, <1>facts DEF ReadNothing, MayRead, NoError, Result, NoBytes, ObjectBytes, RangedTypes, CallTypes
    <3>3. RequestTypes'
      BY <1>0, <1>2, <1>facts DEF ReadNothing, MayRead, NoError, Result, NoBytes, ObjectBytes, RangedTypes, RequestTypes
    <3> QED BY <3>1, <3>2, <3>3 DEF RangedTypes
  <2>2. BufferInv' /\ RequestInv' /\ ForwardInv'
    BY <1>0, <1>2 DEF ReadNothing, MayRead, BufferInv, Holds, RequestInv, ViewInv, ForwardInv,
                      Reach
  <2>3. RightUnlessTorn'
    <3>1. ret'.data = ObjectBytes(0, 0) /\ ret'.data.size = 0
      BY <1>2 DEF ReadNothing, Result, NoBytes, ObjectBytes
    <3> QED
      BY <3>1, EmptyBytes DEF RightUnlessTorn, RightBytes
  <2>4. TornInv'
    BY <1>0, <1>2 DEF ReadNothing, MayRead, NoError, TornInv, RangedTypes, BufferTypes, CallTypes, RequestTypes
  <2> QED BY <2>1, <2>2, <2>3, <2>4 DEF RangedInv
<1>13. ASSUME ReadIntoNothing PROVE RangedInv'
  <2>1. RangedTypes'
    <3>1. BufferTypes'
      BY <1>0, <1>13 DEF ReadIntoNothing, RangedTypes, BufferTypes
    <3>2. CallTypes'
      BY <1>0, <1>13, <1>facts DEF ReadIntoNothing, MayRead, NoError, Result, NoBytes, ObjectBytes, RangedTypes, CallTypes
    <3>3. RequestTypes'
      BY <1>0, <1>13, <1>facts DEF ReadIntoNothing, MayRead, NoError, Result, NoBytes, ObjectBytes, RangedTypes, RequestTypes
    <3> QED BY <3>1, <3>2, <3>3 DEF RangedTypes
  <2>2. BufferInv' /\ RequestInv' /\ ForwardInv'
    BY <1>0, <1>13 DEF ReadIntoNothing, MayRead, BufferInv, Holds, RequestInv, ViewInv, ForwardInv,
                       Reach
  <2>3. RightUnlessTorn'
    <3>1. ret'.data = ObjectBytes(0, 0) /\ ret'.data.size = 0
      BY <1>13 DEF ReadIntoNothing, Result, NoBytes, ObjectBytes
    <3> QED
      BY <3>1, EmptyBytes DEF RightUnlessTorn, RightBytes
  <2>4. TornInv'
    BY <1>0, <1>13 DEF ReadIntoNothing, MayRead, NoError, TornInv, RangedTypes, BufferTypes, CallTypes, RequestTypes
  <2> QED BY <2>1, <2>2, <2>3, <2>4 DEF RangedInv
<1>3. ASSUME NEW n \in Sizes, NEW into \in BOOLEAN, Read(n, into) PROVE RangedInv'
  <2>1. /\ position \in Nat /\ End(n) \in Nat /\ position < End(n) /\ End(n) <= ObjectSize
    BY <1>facts, <1>3 DEF Read, End, All, Smaller
  <2>2. /\ req' = [start |-> position, end |-> End(n), into |-> into, view |-> NoBytes,
                   got |-> 0, at |-> 0, to |-> 0]
        /\ pc' = "range" /\ NoBytes.size = 0
    BY <1>3 DEF Read, NoRequest, NoBytes, ObjectBytes
  <2>3. RangedTypes'
    <3>1. BufferTypes'
      BY <1>0, <1>3, <2>1, <2>2 DEF Read, RangedTypes, BufferTypes
    <3>2. CallTypes'
      BY <1>0, <1>3, <2>1, <2>2, <1>facts DEF Read, MayRead, NoError, RangedTypes, CallTypes
    <3>3. RequestTypes'
      BY <2>1, <2>2 DEF RequestTypes
    <3> QED BY <3>1, <3>2, <3>3 DEF RangedTypes
  <2>4. BufferInv'
    BY <1>0, <1>3, <2>2 DEF Read, MayRead, BufferInv, Holds
  <2>5. RequestInv'
    <3>1. ViewInv'
      <4>1. NoBytes = ObjectBytes(position, 0)
        BY EmptyBytes DEF NoBytes
      <4>2. /\ req'.view = NoBytes /\ req'.start = position /\ pc' = "range"
            /\ position' = position /\ torn' = torn
        <5>1. position' = position /\ torn' = torn
          BY <1>3 DEF Read
        <5> QED
          BY <2>2, <5>1
      <4> QED
        BY <2>1, <2>2, <4>1, <4>2 DEF ViewInv
    <3>2. /\ req'.start = position /\ req'.end = End(n) /\ req'.got = 0
          /\ position' = position
      <4>1. position' = position
        BY <1>3 DEF Read
      <4> QED
        BY <2>2, <4>1
    <3> QED
      BY <2>1, <2>2, <3>1, <3>2 DEF RequestInv
  <2>6. RightUnlessTorn' /\ ForwardInv' /\ TornInv'
    BY <1>0, <1>3, <2>2 DEF Read, MayRead, NoError, RightUnlessTorn, RightBytes, ForwardInv, Reach,
                            TornInv, RangedTypes, BufferTypes, CallTypes, RequestTypes
  <2> QED BY <2>3, <2>4, <2>5, <2>6 DEF RangedInv
<1>4. ASSUME NEW base \in {0, position, ObjectSize}, NEW o \in Offsets, Seek(base, o)
      PROVE  RangedInv'
  <2>1. RangedTypes'
    <3>1. BufferTypes'
      BY <1>0, <1>4 DEF Seek, RangedTypes, BufferTypes
    <3>2. CallTypes'
      BY <1>0, <1>4, <1>facts DEF Seek, Smaller, RangedTypes, CallTypes
    <3>3. RequestTypes'
      BY <1>0, <1>4, <1>facts DEF Seek, Smaller, RangedTypes, RequestTypes
    <3> QED BY <3>1, <3>2, <3>3 DEF RangedTypes
  <2>2. BufferInv' /\ RequestInv' /\ ForwardInv'
    BY <1>0, <1>4 DEF Seek, BufferInv, Holds, RequestInv, ViewInv, ForwardInv
  <2>3. RightUnlessTorn' /\ TornInv'
    BY <1>0, <1>4 DEF Seek, NoError, RightUnlessTorn, RightBytes, TornInv
  <2> QED BY <2>1, <2>2, <2>3 DEF RangedInv
<1>5. CASE ReadRange
  <2> DEFINE lo     == IF Overlaps(req.start, req.end) THEN bufEnd ELSE req.start
             view   == IF lo = req.start THEN NoBytes ELSE FromBuffer(req.start, lo)
             direct == req.end - lo >= bufferSize
             loads  == ~direct /\ MissesBuffer(lo, req.end)
             to     == IF direct THEN req.end ELSE Smaller(lo + bufferSize, ObjectSize)
  <2>1. /\ pc = "range" /\ req' = [req EXCEPT !.start = lo, !.view = view, !.at = lo, !.to = to]
        /\ pc' = IF direct THEN "direct" ELSE IF loads THEN "load" ELSE "copy"
        /\ IF direct \/ loads THEN Request(lo, to) ELSE UNCHANGED <<asked, again>>
        /\ UNCHANGED <<bufferSize, size, position, buffer, bufStart, bufEnd, ret,
                       torn, retries, sought>>
    BY <1>5 DEF ReadRange
  <2>2. /\ req.start = position /\ req.start < req.end /\ req.end <= ObjectSize
        /\ position \in Nat /\ req.end \in Nat /\ bufferSize \in Nat
        /\ bufStart \in Nat /\ bufEnd \in Nat /\ req.got = 0
        /\ bufStart <= bufEnd /\ bufEnd <= bufStart + bufferSize
    BY <1>0, <1>facts, <2>1 DEF RequestInv
  <2>3. /\ lo \in Nat /\ position <= lo /\ lo <= req.end
        /\ loads => lo < req.end
        /\ ~direct /\ ~loads => bufStart <= lo /\ req.end <= bufEnd
        /\ to \in Nat /\ req.end <= to /\ to <= ObjectSize
        /\ ~direct => to <= lo + bufferSize
    BY <2>2 DEF Overlaps, MissesBuffer, Smaller
  <2>4. view.size = lo - position /\ (~torn => view = ObjectBytes(position, view.size))
    <3>1. CASE lo = req.start
      <4>1. view = ObjectBytes(position, 0)
        BY <3>1, EmptyBytes DEF NoBytes
      <4>2. view.size = 0
        BY <4>1 DEF ObjectBytes
      <4> QED
        BY <2>2, <3>1, <4>1, <4>2
    <3>2. CASE lo # req.start
      <4>1. view = FromBuffer(req.start, lo) /\ lo = bufEnd /\ bufStart <= req.start
        BY <3>2 DEF Overlaps
      <4>2. view.size = lo - position
        BY <4>1, <2>2 DEF FromBuffer
      <4>3. ASSUME ~torn PROVE view = ObjectBytes(position, view.size)
        <5>1. Holds(bufStart, bufEnd - bufStart)
          BY <1>0, <2>1, <4>3 DEF BufferInv
        <5>2. FromBuffer(req.start, lo) = ObjectBytes(req.start, lo - req.start)
          BY <1>0, <2>2, <2>3, <4>1, <5>1, FromBufferIsRight
        <5> QED
          BY <2>2, <4>1, <4>2, <5>2
      <4> QED
        BY <4>2, <4>3
    <3> QED
      BY <3>1, <3>2
  <2> HIDE DEF lo, view, direct, loads, to
  <2>5. /\ req'.start = lo /\ req'.end = req.end /\ req'.into = req.into /\ req'.view = view
        /\ req'.got = 0 /\ req'.at = lo /\ req'.to = to
        /\ req' = [start |-> lo, end |-> req.end, into |-> req.into, view |-> view,
                   got |-> 0, at |-> lo, to |-> to]
    BY <1>0, <2>1, <2>2 DEF RangedTypes, RequestTypes
  <2>6. RangedTypes'
    <3>1. BufferTypes'
      BY <1>0, <2>1, <2>2, <2>3, <2>4, <2>5 DEF RangedTypes, BufferTypes
    <3>2. CallTypes'
      BY <1>0, <2>1, <2>2, <2>3, <2>4, <2>5, <1>facts DEF Request, RangedTypes, CallTypes
    <3>3. RequestTypes'
      <4>1. view.size \in Nat /\ req.into \in BOOLEAN
        BY <1>0, <2>2, <2>3, <2>4 DEF RangedTypes, RequestTypes
      <4> QED
        BY <2>2, <2>3, <2>5, <4>1 DEF RequestTypes
    <3> QED BY <3>1, <3>2, <3>3 DEF RangedTypes
  <2>7. BufferInv'
    BY <1>0, <2>1, <2>5 DEF BufferInv, Holds
  <2>8. RequestInv'
    <3>1. ViewInv'
      BY <2>1, <2>4, <2>5 DEF ViewInv
    <3>2. /\ position' <= req'.start /\ req'.start <= req'.end /\ req'.end <= ObjectSize
      BY <2>1, <2>2, <2>3, <2>5
    <3>3. pc' = "direct" => req'.start <= req'.at /\ req'.at <= req'.to /\ req'.to = req'.end
      BY <2>1, <2>2, <2>3, <2>5 DEF to
    <3>4. pc' = "load" => /\ req'.at = req'.start + req'.got
                          /\ req'.at <= req'.to /\ req'.end <= req'.to
                          /\ req'.to <= req'.start + bufferSize'
                          /\ Holds(req.start, req.got)'
      BY <2>1, <2>2, <2>3, <2>5 DEF Holds
    <3>5. pc' = "copy" => bufStart' <= req'.start /\ req'.end <= bufEnd'
      BY <2>1, <2>2, <2>3, <2>5
    <3> QED
      BY <2>1, <3>1, <3>2, <3>3, <3>4, <3>5 DEF RequestInv
  <2>9. ForwardInv'
    <3> SUFFICES ASSUME ~sought
                 PROVE  /\ ~again' /\ asked' \subseteq Reach'
                        /\ pc' \in {"load", "direct"} => bufStart <= lo /\ bufEnd <= lo
      BY <2>1, <2>5 DEF ForwardInv
    <3>1. ~again /\ bufStart <= position /\ \A i \in asked : i \in Nat /\ (i < position \/ i < bufEnd)
      BY <1>0, <2>1 DEF ForwardInv, Reach
    <3>2. CASE direct \/ loads
      <4>1. bufStart <= lo /\ bufEnd <= lo
        BY <2>2, <2>3, <3>1, <3>2 DEF lo, direct, loads, Overlaps, MissesBuffer
      <4>2. asked \cap lo..(to - 1) = {}
        BY <2>2, <2>3, <3>1, <4>1
      <4>3. asked' = asked \cup lo..(to - 1) /\ ~again'
        BY <2>1, <3>1, <3>2, <4>2 DEF Request
      <4>4. \A i \in asked' : i \in Nat /\ i < to
        BY <2>2, <2>3, <3>1, <4>1, <4>3
      <4>5. pc' \in {"load", "direct"}
        BY <2>1, <3>2
      <4> QED
        BY <2>5, <4>1, <4>3, <4>4, <4>5 DEF Reach
    <3>3. CASE ~(direct \/ loads)
      <4>1. pc' = "copy" /\ asked' = asked /\ again' = again /\ bufEnd' = bufEnd
        BY <2>1, <3>3
      <4>2. \A i \in asked : i \in Nat /\ i < bufEnd
        BY <2>2, <2>3, <3>1, <3>3
      <4> QED
        BY <3>1, <4>1, <4>2 DEF Reach
    <3> QED
      BY <3>2, <3>3
  <2>10. RightUnlessTorn' /\ TornInv'
    BY <1>0, <2>1 DEF RightUnlessTorn, RightBytes, TornInv
  <2> QED BY <2>6, <2>7, <2>8, <2>9, <2>10 DEF RangedInv
<1>6. CASE RequestFails
  <2>1. RangedTypes'
    <3>1. BufferTypes'
      BY <1>0, <1>6 DEF RequestFails, RangedTypes, BufferTypes
    <3>2. CallTypes'
      BY <1>0, <1>6, <1>facts DEF RequestFails, Result, NoBytes, ObjectBytes, Exceptions, NoRequest, RangedTypes, CallTypes
    <3>3. RequestTypes'
      BY <1>0, <1>6, <1>facts DEF RequestFails, Result, NoBytes, ObjectBytes, Exceptions, NoRequest, RangedTypes, RequestTypes
    <3> QED BY <3>1, <3>2, <3>3 DEF RangedTypes
  <2>2. BufferInv' /\ RequestInv' /\ ForwardInv'
    <3>1. /\ pc \in {"load", "direct"} /\ pc' = "idle" /\ sought' = TRUE
          /\ torn' = (torn \/ (pc = "load" /\ req.got > 0))
          /\ UNCHANGED <<buffer, bufStart, bufEnd>>
      BY <1>6 DEF RequestFails
    <3>2. ~torn' => (pc = "load" => req.got = 0) /\ ~torn
      <4>1. ~(pc = "load" /\ req.got > 0) => (pc = "load" => req.got = 0)
        BY <1>facts
      <4> QED
        BY <3>1, <4>1, Zenon
    <3>3. BufferInv'
      BY <1>0, <3>1, <3>2 DEF BufferInv, Holds
    <3> QED
      BY <3>1, <3>3 DEF RequestInv, ForwardInv
  <2>3. RightUnlessTorn' /\ TornInv'
    BY <1>0, <1>6 DEF RequestFails, NoError, RightUnlessTorn, RightBytes, TornInv, Result
  <2> QED BY <2>1, <2>2, <2>3 DEF RangedInv
<1>7. CASE Loaded
  <2>1. /\ pc = "load" /\ req.at = req.to /\ pc' = "copy" /\ req' = req
        /\ bufStart' = req.start /\ bufEnd' = req.start + req.got
        /\ UNCHANGED <<bufferSize, size, position, buffer, ret, torn, retries, sought,
                       asked, again>>
    BY <1>7 DEF Loaded, BodyIsOver, SizeIsKept
  <2>2. /\ req.to = req.start + req.got /\ req.end <= req.to
        /\ req.to <= req.start + bufferSize /\ Holds(req.start, req.got)
        /\ req.start \in Nat /\ req.got \in Nat /\ req.to \in Nat /\ bufferSize \in Nat
        /\ ViewInv
    BY <1>0, <1>facts, <2>1 DEF RequestInv
  <2>3. RangedTypes'
    <3>1. BufferTypes'
      BY <1>0, <2>1, <2>2 DEF RangedTypes, BufferTypes
    <3>2. CallTypes'
      BY <1>0, <2>1, <2>2, <1>facts DEF RangedTypes, CallTypes
    <3>3. RequestTypes'
      BY <1>0, <2>1, <2>2, <1>facts DEF RangedTypes, RequestTypes
    <3> QED BY <3>1, <3>2, <3>3 DEF RangedTypes
  <2>4. BufferInv'
    BY <2>1, <2>2 DEF BufferInv, Holds
  <2>5. RequestInv'
    <3>1. ViewInv'
      BY <2>1, <2>2 DEF ViewInv
    <3> QED
      BY <1>0, <2>1, <2>2, <3>1 DEF RequestInv
  <2>6. ForwardInv'
    BY <1>0, <2>1, <2>2 DEF ForwardInv, Reach
  <2>7. RightUnlessTorn' /\ TornInv'
    BY <1>0, <2>1 DEF RightUnlessTorn, RightBytes, TornInv
  <2> QED BY <2>3, <2>4, <2>5, <2>6, <2>7 DEF RangedInv
<1>8. CASE Direct
  <2>1. /\ pc = "direct" /\ req.at = req.to /\ Finish(req.view)
        /\ UNCHANGED <<bufferSize, size, buffer, bufStart, bufEnd, torn, retries,
                       sought, asked, again>>
    BY <1>8 DEF Direct, BodyIsOver, SizeIsKept
  <2>2. /\ req.view.size = req.end - position /\ position <= req.end
        /\ ~torn => req.view = ObjectBytes(position, req.view.size)
        /\ req.end <= ObjectSize /\ req.to = req.end
        /\ req.end \in Nat /\ position \in Nat
    BY <1>0, <1>facts, <2>1 DEF RequestInv, ViewInv
  <2>3. /\ RightUnlessTorn' /\ position' = req.end
        /\ ret'.status = "ok" /\ pc' = "idle" /\ req' = NoRequest
    BY <1>0, <2>1, <2>2, FinishIsRight
  <2>4. RangedTypes'
    <3>1. BufferTypes'
      BY <1>0, <2>1, <2>2, <2>3 DEF RangedTypes, BufferTypes
    <3>2. CallTypes'
      BY <1>0, <2>1, <2>2, <2>3, <1>facts DEF NoRequest, NoBytes, ObjectBytes, RangedTypes, CallTypes
    <3>3. RequestTypes'
      BY <1>0, <2>1, <2>2, <2>3, <1>facts DEF NoRequest, NoBytes, ObjectBytes, RangedTypes, RequestTypes
    <3> QED BY <3>1, <3>2, <3>3 DEF RangedTypes
  <2>5. BufferInv' /\ RequestInv'
    BY <1>0, <2>1, <2>3 DEF BufferInv, Holds, RequestInv
  <2>6. ForwardInv'
    BY <1>0, <2>1, <2>2, <2>3 DEF ForwardInv, Reach, RequestInv, RangedTypes, BufferTypes, CallTypes, RequestTypes
  <2>7. TornInv'
    BY <1>0, <2>1, <2>3 DEF TornInv
  <2> QED BY <2>3, <2>4, <2>5, <2>6, <2>7 DEF RangedInv
<1>9. CASE Copy
  <2> DEFINE view == Joined(req.view, FromBuffer(req.start, req.end))
  <2>1. /\ pc = "copy" /\ Finish(view)
        /\ UNCHANGED <<bufferSize, size, buffer, bufStart, bufEnd, torn, retries,
                       sought, asked, again>>
    BY <1>9 DEF Copy
  <2>2. /\ view.size = req.end - position /\ position <= req.end
        /\ ~torn => view = ObjectBytes(position, view.size)
    BY <1>0, <2>1, CopiesRight
  <2>3. req.end \in Nat /\ req.end <= ObjectSize /\ bufStart <= req.end /\ req.end <= bufEnd
    BY <1>0, <1>facts, <2>1 DEF RequestInv
  <2> HIDE DEF view
  <2>5. /\ RightUnlessTorn' /\ position' = req.end
        /\ ret'.status = "ok" /\ pc' = "idle" /\ req' = NoRequest
    BY <1>0, <2>1, <2>2, FinishIsRight
  <2>6. RangedTypes'
    <3>1. BufferTypes'
      BY <1>0, <2>1, <2>2, <2>5 DEF RangedTypes, BufferTypes
    <3>2. CallTypes'
      BY <1>0, <2>1, <2>3, <2>5, <1>facts DEF NoRequest, NoBytes, ObjectBytes, RangedTypes, CallTypes
    <3>3. RequestTypes'
      BY <1>0, <2>1, <2>2, <2>5, <1>facts DEF NoRequest, NoBytes, ObjectBytes, RangedTypes, RequestTypes
    <3> QED BY <3>1, <3>2, <3>3 DEF RangedTypes
  <2>7. BufferInv' /\ RequestInv'
    BY <1>0, <2>1, <2>5 DEF BufferInv, Holds, RequestInv
  <2>8. ForwardInv'
    BY <1>0, <2>1, <2>3, <2>5, <1>facts DEF ForwardInv, Reach
  <2>9. TornInv'
    BY <1>0, <2>1, <2>5 DEF TornInv
  <2> QED BY <2>5, <2>6, <2>7, <2>8, <2>9 DEF RangedInv
<1>10. ASSUME NEW n \in ChunkSizes, LoadChunk(n) PROVE RangedInv'
  <2>n. n \in Nat
    OBVIOUS
  <2>1. /\ pc = "load" /\ 1 <= n /\ n <= req.to - req.at /\ n \in Nat
        /\ buffer' = [i \in 0..(bufferSize - 1) |->
                        IF i \in req.got..(req.got + n - 1) THEN req.at + i - req.got
                        ELSE buffer[i]]
        /\ req' = [req EXCEPT !.got = @ + n, !.at = @ + n]
        /\ UNCHANGED <<bufferSize, size, position, bufStart, bufEnd, pc, ret, torn,
                       retries, sought, asked, again>>
    BY <1>10 DEF LoadChunk, Chunk
  <2>2. /\ req'.start = req.start /\ req'.end = req.end /\ req'.into = req.into
        /\ req'.view = req.view /\ req'.got = req.got + n /\ req'.at = req.at + n
        /\ req'.to = req.to
        /\ req' = [start |-> req.start, end |-> req.end, into |-> req.into,
                   view |-> req.view, got |-> req.got + n, at |-> req.at + n, to |-> req.to]
    BY <1>0, <2>1 DEF RangedTypes, RequestTypes
  <2>3. /\ req.start \in Nat /\ req.end \in Nat /\ req.got \in Nat /\ req.at \in Nat
        /\ req.to \in Nat /\ bufferSize \in Nat
        /\ req.at = req.start + req.got /\ req.to <= req.start + bufferSize
        /\ Holds(req.start, req.got) /\ ViewInv
    BY <1>0, <1>facts, <2>1 DEF RequestInv
  <2>4. buffer' \in [0..(bufferSize - 1) -> Nat \cup {Zero}]
    <3>1. \A i \in 0..(bufferSize - 1) :
            (IF i \in req.got..(req.got + n - 1) THEN req.at + i - req.got
             ELSE buffer[i]) \in Nat \cup {Zero}
      <4> TAKE i \in 0..(bufferSize - 1)
      <4>1. buffer[i] \in Nat \cup {Zero}
        BY <1>0 DEF RangedTypes, BufferTypes
      <4>2. i \in req.got..(req.got + n - 1) => req.at + i - req.got \in Nat
        BY <2>3, <2>n
      <4> QED
        BY <4>1, <4>2
    <3> QED
      BY <2>1, <3>1
  <2>5. RangedTypes'
    <3>1. BufferTypes'
      BY <1>0, <2>1, <2>2, <2>3, <2>4 DEF RangedTypes, BufferTypes
    <3>2. CallTypes'
      BY <1>0, <2>1, <2>2, <2>3, <2>4, <1>facts DEF RangedTypes, CallTypes
    <3>3. RequestTypes'
      <4>1. req.into \in BOOLEAN
        BY <1>0 DEF RangedTypes, RequestTypes
      <4> QED
        BY <1>facts, <2>n, <2>2, <4>1 DEF RequestTypes
    <3> QED BY <3>1, <3>2, <3>3 DEF RangedTypes
  <2>6. Holds(req.start, req.got)'
    <3>1. \A i \in 0..(req.got + n - 1) : buffer'[i] = req.start + i
      <4> TAKE i \in 0..(req.got + n - 1)
      <4>1. i \in 0..(bufferSize - 1)
        BY <2>1, <2>3
      <4>2. i \in req.got..(req.got + n - 1) \/ i \in 0..(req.got - 1)
        BY <2>1, <2>3
      <4>3. buffer'[i] = IF i \in req.got..(req.got + n - 1) THEN req.at + i - req.got
                         ELSE buffer[i]
        BY <2>1, <4>1
      <4> QED
        BY <2>3, <4>2, <4>3 DEF Holds
    <3>2. req'.start = req.start /\ req'.got = req.got + n
      BY <2>2
    <3> QED
      BY <2>3, <2>n, <3>1, <3>2 DEF Holds
  <2>7. RequestInv'
    <3>1. ViewInv'
      BY <2>1, <2>2, <2>3 DEF ViewInv
    <3> QED
      BY <1>0, <2>1, <2>2, <2>3, <2>6, <3>1 DEF RequestInv
  <2>8. BufferInv'
    BY <2>1, <2>2, <2>3 DEF BufferInv
  <2>9. ForwardInv'
    BY <1>0, <2>1, <2>2 DEF ForwardInv, Reach
  <2>10. RightUnlessTorn' /\ TornInv'
    BY <1>0, <2>1 DEF RightUnlessTorn, RightBytes, TornInv, NoError
  <2> QED BY <2>5, <2>7, <2>8, <2>9, <2>10 DEF RangedInv
<1>11. ASSUME NEW n \in ChunkSizes, DirectChunk(n) PROVE RangedInv'
  <2>n. n \in Nat
    OBVIOUS
  <2>1. /\ pc = "direct" /\ 1 <= n /\ n <= req.to - req.at /\ n \in Nat
        /\ req' = [req EXCEPT !.view = Joined(@, ObjectBytes(req.at, n)), !.at = @ + n]
        /\ UNCHANGED <<bufferSize, size, position, buffer, bufStart, bufEnd, pc, ret,
                       torn, retries, sought, asked, again>>
    BY <1>11 DEF DirectChunk, Chunk
  <2> DEFINE view == Joined(req.view, ObjectBytes(req.at, n))
  <2>2. /\ req.start \in Nat /\ req.end \in Nat /\ req.got \in Nat /\ req.at \in Nat
        /\ req.to \in Nat /\ position \in Nat
        /\ position <= req.start /\ req.start <= req.at
        /\ req.view.size = req.at - position
        /\ ~torn => req.view = ObjectBytes(position, req.view.size)
    BY <1>0, <1>facts, <2>1 DEF RequestInv, ViewInv
  <2>3. view.size = (req.at + n) - position
    BY <2>1, <2>2 DEF Joined, ObjectBytes
  <2>4. ASSUME ~torn PROVE view = ObjectBytes(position, view.size)
    <3> DEFINE m == req.at - position
    <3>1. m \in Nat /\ position + m = req.at /\ m + n = view.size
      BY <2>1, <2>2, <2>3
    <3>2. Joined(ObjectBytes(position, m), ObjectBytes(position + m, n))
            = ObjectBytes(position, m + n)
      BY <2>1, <2>2, <3>1, JoinedBytes
    <3> QED
      BY <2>2, <2>4, <3>1, <3>2
  <2> HIDE DEF view
  <2>5. /\ req'.start = req.start /\ req'.end = req.end /\ req'.into = req.into
        /\ req'.view = view /\ req'.got = req.got /\ req'.at = req.at + n
        /\ req'.to = req.to
        /\ req' = [start |-> req.start, end |-> req.end, into |-> req.into,
                   view |-> view, got |-> req.got, at |-> req.at + n, to |-> req.to]
    BY <1>0, <2>1 DEF RangedTypes, RequestTypes, view
  <2>6. RangedTypes'
    <3>1. BufferTypes'
      BY <1>0, <2>1, <2>2, <2>3, <2>5 DEF RangedTypes, BufferTypes
    <3>2. CallTypes'
      BY <1>0, <2>1, <2>2, <2>3, <2>5, <1>facts DEF RangedTypes, CallTypes
    <3>3. RequestTypes'
      <4>1. req.into \in BOOLEAN /\ view.size \in Nat
        BY <1>0, <2>1, <2>2, <2>3 DEF RangedTypes, RequestTypes
      <4> QED
        BY <2>n, <2>2, <2>5, <4>1 DEF RequestTypes
    <3> QED BY <3>1, <3>2, <3>3 DEF RangedTypes
  <2>7. RequestInv'
    <3>1. ViewInv'
      BY <2>1, <2>3, <2>4, <2>5 DEF ViewInv
    <3> QED
      BY <1>0, <2>1, <2>2, <2>5, <3>1 DEF RequestInv
  <2>8. BufferInv' /\ ForwardInv'
    BY <1>0, <2>1, <2>5 DEF BufferInv, Holds, ForwardInv, Reach
  <2>9. RightUnlessTorn' /\ TornInv'
    BY <1>0, <2>1 DEF RightUnlessTorn, RightBytes, TornInv, NoError
  <2> QED BY <2>6, <2>7, <2>8, <2>9 DEF RangedInv
<1>12. CASE UNCHANGED vars
  <2>1. RangedTypes' /\ BufferInv'
    BY <1>0, <1>12 DEF vars, RangedTypes, BufferTypes, CallTypes, RequestTypes, BufferInv, Holds
  <2>2. RequestInv' /\ ForwardInv'
    BY <1>0, <1>12 DEF vars, RequestInv, ViewInv, Holds, ForwardInv, Reach
  <2>3. RightUnlessTorn' /\ TornInv'
    BY <1>0, <1>12 DEF vars, RightUnlessTorn, RightBytes, TornInv, NoError
  <2> QED BY <2>1, <2>2, <2>3 DEF RangedInv
<1> QED
  BY <1>1, <1>2, <1>3, <1>4, <1>5, <1>6, <1>7, <1>8, <1>9, <1>10, <1>11, <1>12,
     <1>13 DEF Next, Step

-----------------------------------------------------------------------------
(* The user who has read again after an exception has done so for good.    *)
LEMMA RetriesGrow ==
  ASSUME retries \in Nat, [Next]_vars
  PROVE  retries' \in {retries, retries + 1}
<1>1. MayRead => retries' \in {retries, retries + 1}
  BY DEF MayRead
<1>2. CASE \/ HeadFails \/ ReadIntoNothing \/ \E n \in Sizes : ReadNothing(n)
           \/ \E n \in Sizes, into \in BOOLEAN : Read(n, into)
  BY <1>1, <1>2 DEF HeadFails, ReadNothing, ReadIntoNothing, Read
<1>3. CASE \E o \in Offsets, base \in {0, position, ObjectSize} : Seek(base, o)
  BY <1>3 DEF Seek
<1>4. CASE ReadRange
  BY <1>4 DEF ReadRange
<1>5. CASE RequestFails \/ Loaded \/ Direct \/ Copy \/ UNCHANGED vars
  BY <1>5 DEF RequestFails, Loaded, Direct, Copy, vars
<1>6. CASE \E n \in ChunkSizes : LoadChunk(n) \/ DirectChunk(n)
  BY <1>6 DEF LoadChunk, DirectChunk
<1> QED
  BY <1>2, <1>3, <1>4, <1>5, <1>6 DEF Next, Step

(* A step of the reader is one of ByteReader, until the user reads again   *)
(* after an exception.                                                     *)
LEMMA RangedSimulation ==
  ASSUME SizeIsKept, RangedInv, RangedInv', [Next]_vars
  PROVE  [Abstract!Next]_(Abstract!vars)
<1>0. /\ retries \in Nat /\ retries' \in Nat /\ position \in Nat /\ position' \in Nat
  BY ConstantsAssumption DEF RangedInv, RangedTypes, CallTypes
<1>1. retries' = 0 => retries = 0
  BY <1>0, RetriesGrow
<1> SUFFICES ASSUME retries' = 0, retries = 0
             PROVE  Abstract!Next \/ UNCHANGED <<position, ret>>
  <2>1. CASE retries' > 0
    BY <2>1 DEF Abstract!Next, Abstract!Forfeits
  <2> QED
    BY <1>0, <1>1, <2>1 DEF Abstract!vars
<1>void. ~((retries > 0)')
  BY <1>0
<1>2. ASSUME ret'.status \in Exceptions, ret' = Result("S3Exception", NoBytes),
             position' = position
      PROVE  Abstract!Next
  BY <1>void, <1>2 DEF Result, NoBytes, ObjectBytes, Abstract!Next, Abstract!Raises
<1>3. ASSUME NEW n \in Nat, position' = position + n,
             ret' = [status |-> "ok", from |-> position, data |-> ObjectBytes(position, n)]
      PROVE  Abstract!Next
  <2>1. ret'.data = ObjectBytes(position, n) /\ ret'.data.size = n
    BY <1>3 DEF ObjectBytes
  <2>2. ret' = [status |-> "ok", from |-> position,
                data |-> Abstract!ObjectBytes(position, ret'.data.size)]
    BY <1>3, <2>1 DEF ObjectBytes, Abstract!ObjectBytes
  <2> QED
    BY <1>3, <1>void, <2>1, <2>2 DEF Abstract!Next, Abstract!Returns
<1>4. ASSUME position' \in Int, ret' = ret PROVE Abstract!Next
  BY <1>4, <1>void DEF Abstract!Next, Abstract!Seeks
<1>5. CASE HeadFails \/ RequestFails
  BY <1>2, <1>5 DEF HeadFails, RequestFails, Exceptions, Result
<1>6. CASE ReadIntoNothing \/ \E n \in Sizes : ReadNothing(n)
  <2>1. ret' = [status |-> "ok", from |-> position, data |-> ObjectBytes(0, 0)]
        /\ position' = position
    BY <1>6 DEF ReadNothing, ReadIntoNothing, Result, NoBytes
  <2>2. ObjectBytes(0, 0) = ObjectBytes(position, 0)
    BY EmptyBytes
  <2> QED
    BY <1>0, <1>3, <2>1, <2>2
<1>7. CASE \/ \E n \in Sizes, into \in BOOLEAN : Read(n, into)
           \/ ReadRange \/ Loaded \/ UNCHANGED vars
           \/ \E n \in ChunkSizes : LoadChunk(n) \/ DirectChunk(n)
  BY <1>7 DEF Read, ReadRange, Loaded, LoadChunk, DirectChunk, vars
<1>8. CASE \E o \in Offsets, base \in {0, position, ObjectSize} : Seek(base, o)
  BY <1>0, <1>4, <1>8 DEF Seek
<1>9. ASSUME NEW view, Finish(view), view.size = req.end - position, torn' = torn,
             pc \in {"direct", "copy"}, ~torn => view = ObjectBytes(position, view.size),
             position <= req.end
      PROVE  Abstract!Next
  <2>1. ~torn
    BY <1>9 DEF RangedInv, TornInv
  <2>2. /\ position' = req.end
        /\ ret' = [status |-> "ok", from |-> position,
                   data |-> ObjectBytes(position, req.end - position)]
    BY <1>9, <2>1, FinishIsRight DEF RangedInv
  <2>3. req.end \in Nat
    BY DEF RangedInv, RangedTypes, RequestTypes
  <2>4. req.end - position \in Nat /\ position' = position + (req.end - position)
    BY <1>0, <1>9, <2>2, <2>3
  <2> QED
    BY <1>3, <2>2, <2>4
<1>10. CASE Direct
  <2>1. /\ pc = "direct" /\ req.at = req.to /\ Finish(req.view) /\ torn' = torn
    BY <1>10 DEF Direct, BodyIsOver, SizeIsKept
  <2>2. req.view.size = req.end - position /\ position <= req.end
        /\ (~torn => req.view = ObjectBytes(position, req.view.size))
    BY <1>0, <2>1 DEF RangedInv, RequestInv, ViewInv, RangedTypes, RequestTypes
  <2> QED
    BY <1>9, <2>1, <2>2
<1>11. CASE Copy
  <2> DEFINE view == Joined(req.view, FromBuffer(req.start, req.end))
  <2>1. pc = "copy" /\ Finish(view) /\ torn' = torn
    BY <1>11 DEF Copy
  <2>2. /\ view.size = req.end - position /\ position <= req.end
        /\ ~torn => view = ObjectBytes(position, view.size)
    BY <2>1, CopiesRight DEF RangedInv
  <2> HIDE DEF view
  <2> QED
    BY <1>9, <2>1, <2>2
<1> QED
  BY <1>5, <1>6, <1>7, <1>8, <1>10, <1>11 DEF Next, Step

-----------------------------------------------------------------------------
(* SequentialReader.                                                       *)

StreamTypes ==
  /\ objectSize \in Nat /\ at \in 0..objectSize /\ tell \in 0..at
  /\ stream \in {"none", "open", "over"}
  /\ buffer = [i \in 1..at |-> i - 1]
  /\ errors \in Nat

CursorTypes ==
  /\ size = Unknown \/ (size \in Nat /\ size <= objectSize)
  /\ position \in 0..objectSize
  /\ pc \in {"idle", "fetch", "drain", "serve"}
  /\ req.op \in {"none", "read", "seek"} /\ req.n \in Nat \cup {All}
  /\ req.target \in Nat

(* Of an object whose stream never broke, the reader knows the right size  *)
(* or none, and a stream that is over has delivered everything.            *)
SizeInv ==
  errors = 0 => /\ size \in {Unknown, objectSize}
                /\ stream = "over" => at = objectSize

(* The cursor is ahead of the buffer only where the size is known and the  *)
(* user sought the end, so that a read returns at once.                    *)
CursorInv ==
  /\ position > at => size = position \/ (pc = "serve" /\ req.op = "seek")
  /\ pc # "idle" /\ req.op = "read" => position <= at

(* What the call in progress is about to serve.                            *)
ServeInv ==
  /\ pc # "idle" => req.op # "none"
  /\ pc \in {"fetch", "drain"} => tell = at
  /\ pc = "drain" => req.op = "read" /\ req.n = All
  /\ pc = "fetch" /\ req.op = "read" => req.n # All
  /\ pc # "idle" /\ req.op = "read" /\ req.n # All => req.target = position + req.n
  /\ pc = "serve" /\ req.op = "seek" => req.target <= at \/ size = at
  /\ pc = "serve" /\ req.op = "read" /\ errors = 0 =>
       \/ req.n # All /\ req.target <= at
       \/ at = objectSize

(* What the last read returned.                                            *)
ServedInv ==
  /\ ret.status \in Exceptions \cup {"none", "ok"}
  /\ ret.status = "ok" => ret.data = ObjectBytes(ret.from, ret.data.size)

SequentialInv ==
  /\ StreamTypes /\ CursorTypes /\ SizeInv /\ CursorInv /\ ServeInv /\ ServedInv
  /\ Sequential!ShortOnlyAtEndUnlessFailed
  /\ retries = 0

LEMMA SequentialFacts ==
  ASSUME StreamTypes, CursorTypes
  PROVE  /\ Len(buffer) = at
         /\ objectSize \in Nat /\ at \in Nat /\ at <= objectSize
         /\ tell \in Nat /\ tell <= at /\ errors \in Nat
         /\ position \in Nat /\ position <= objectSize /\ req.target \in Nat
<1>1. buffer = [i \in 1..at |-> i - 1] /\ at \in Nat
  BY DEF StreamTypes
<1>2. Len(buffer) = at
  BY <1>1
<1> QED
  BY <1>2 DEF StreamTypes, CursorTypes

LEMMA SequentialInitInvariant ==
  ASSUME Sequential!Init, retries = 0
  PROVE  SequentialInv
<1> USE SequentialAssumption DEF Sequential!ConstantsAssumption, Sequential!Init
<1>1. buffer = [i \in 1..at |-> i - 1]
  OBVIOUS
<1>2. StreamTypes
  BY <1>1 DEF StreamTypes
<1>3. CursorTypes
  BY DEF CursorTypes, Sequential!NoRequest, Unknown, Sequential!Unknown
<1>4. SizeInv /\ CursorInv /\ ServeInv /\ ServedInv
  BY DEF SizeInv, CursorInv, ServeInv, ServedInv, Unknown, Sequential!Unknown
<1>5. Sequential!ShortOnlyAtEndUnlessFailed
  BY DEF Sequential!ShortOnlyAtEndUnlessFailed, Sequential!ShortOnlyAtEnd
<1> QED
  BY <1>2, <1>3, <1>4, <1>5 DEF SequentialInv

(* A chunk is written where the buffer ends.                               *)
LEMMA WrittenAtEnd ==
  ASSUME StreamTypes, CursorTypes, NEW n \in Nat
  PROVE  Sequential!Written(buffer, at, at, n) = [i \in 1..(at + n) |-> i - 1]
<1>1. at \in Nat /\ Len(buffer) = at /\ buffer = [i \in 1..at |-> i - 1]
  BY SequentialFacts DEF StreamTypes
<1>2. (IF at > at + n THEN at ELSE at + n) = at + n
  BY <1>1
<1>3. \A i \in 1..(at + n) :
        (IF i > at /\ i <= at + n THEN at + i - at - 1 ELSE buffer[i]) = i - 1
  BY <1>1
<1> QED
  BY <1>1, <1>2, <1>3 DEF Sequential!Written

(* What the buffer serves from the cursor on is right.                     *)
LEMMA ServedIsRight ==
  ASSUME StreamTypes, CursorTypes, NEW n \in Nat \cup {All}, position <= at
  PROVE  LET data == Sequential!Served(position, n)
         IN  /\ data = ObjectBytes(position, data.size)
             /\ data.size = (IF n = All \/ n > at - position THEN at - position ELSE n)
<1> DEFINE k == IF n = All \/ n > at - position THEN at - position ELSE n
<1>1. /\ at \in Nat /\ position \in Nat /\ Len(buffer) = at
      /\ buffer = [i \in 1..at |-> i - 1]
  BY SequentialFacts DEF StreamTypes
<1>2. (IF position < at THEN at - position ELSE 0) = at - position
  BY <1>1
<1>3. k \in Nat /\ position + k <= at
  BY <1>1 DEF All
<1>4. Sequential!Served(position, n)
        = [size |-> k, at |-> [i \in 0..(k - 1) |-> buffer[position + i + 1]]]
  BY <1>1, <1>2 DEF Sequential!Served, All, Sequential!All
<1> HIDE DEF k
<1>5. \A i \in 0..(k - 1) : buffer[position + i + 1] = position + i
  BY <1>1, <1>3
<1>6. Sequential!Served(position, n) = ObjectBytes(position, k)
  BY <1>4, <1>5 DEF ObjectBytes
<1>7. Sequential!Served(position, n).size = k
  BY <1>4
<1> QED
  BY <1>6, <1>7 DEF k

LEMMA SequentialStepInvariant ==
  ASSUME SequentialInv, Sequential!Next \/ UNCHANGED Sequential!vars, retries' = retries
  PROVE  SequentialInv'
<1> USE SequentialAssumption
<1> DEFINE Short == Sequential!ShortOnlyAtEndUnlessFailed
<1>0. /\ StreamTypes /\ CursorTypes /\ SizeInv /\ CursorInv /\ ServeInv /\ ServedInv
      /\ Short /\ retries' = 0
  BY DEF SequentialInv
<1>facts. /\ Len(buffer) = at
          /\ objectSize \in Nat /\ at \in Nat /\ at <= objectSize
          /\ tell \in Nat /\ tell <= at /\ errors \in Nat
          /\ position \in Nat /\ position <= objectSize /\ req.target \in Nat
          /\ Unknown = -1 /\ Sequential!Unknown = -1 /\ All = -1 /\ Sequential!All = -1
  BY <1>0, SequentialFacts DEF Unknown, All, Sequential!Unknown, Sequential!All
(* Reads that end before the stream is touched.                            *)
<1>1. ASSUME UNCHANGED <<objectSize, size, position, buffer, tell, stream, at, pc, req>>,
             errors' \in {errors, errors + 1},
             ServedInv', Short'
      PROVE  SequentialInv'
  <2>1. StreamTypes' /\ CursorTypes' /\ SizeInv'
    BY <1>0, <1>1, <1>facts DEF StreamTypes, CursorTypes, SizeInv
  <2>2. CursorInv' /\ ServeInv'
    BY <1>0, <1>1, <1>facts DEF CursorInv, ServeInv
  <2> QED
    BY <1>0, <1>1, <2>1, <2>2 DEF SequentialInv
<1>2. CASE \/ Sequential!ReadIntoNothing \/ \E n \in Sizes : Sequential!ReadNothing(n)
  <2>1. /\ UNCHANGED <<objectSize, size, position, buffer, tell, stream, at, pc, req, errors>>
        /\ ret' = [status |-> "ok", from |-> position, data |-> ObjectBytes(0, 0)]
        /\ asked' = 0 \/ size = position
    BY <1>2 DEF Sequential!ReadIntoNothing, Sequential!ReadNothing, Sequential!Result,
                Sequential!NoBytes, Sequential!ObjectBytes, ObjectBytes, Sequential!AtEnd
  <2>2. ret'.data = ObjectBytes(position, ret'.data.size) /\ ret'.data.size = 0
        /\ ret'.status = "ok" /\ ret'.from = position
    BY <2>1, EmptyBytes DEF ObjectBytes
  <2>3. ServedInv'
    BY <2>2 DEF ServedInv
  <2>4. Short'
    BY <1>0, <1>facts, <2>1, <2>2
       DEF SizeInv, Sequential!ShortOnlyAtEndUnlessFailed, Sequential!ShortOnlyAtEnd
  <2> QED
    BY <1>1, <2>1, <2>3, <2>4
<1>3. CASE \E n \in Sizes : Sequential!PrefetchFails(n)
  <2>1. /\ UNCHANGED <<objectSize, size, position, buffer, tell, stream, at, pc, req>>
        /\ errors' = errors + 1 /\ ret'.status = "S3Exception"
    BY <1>3 DEF Sequential!PrefetchFails, Sequential!Result
  <2>2. ServedInv' /\ Short'
    BY <1>facts, <2>1 DEF ServedInv, Exceptions, Sequential!ShortOnlyAtEndUnlessFailed
  <2> QED
    BY <1>1, <2>1, <2>2
<1>4. CASE Sequential!SeekFails
  <2>1. /\ UNCHANGED <<objectSize, size, position, buffer, tell, stream, at, pc, req, ret>>
        /\ errors' = errors + 1
    BY <1>4 DEF Sequential!SeekFails
  <2>2. ServedInv' /\ Short'
    BY <1>0, <1>facts, <2>1 DEF ServedInv, Sequential!ShortOnlyAtEndUnlessFailed
  <2> QED
    BY <1>1, <2>1, <2>2
(* A call that leaves `ret` alone keeps what is known of it.               *)
<1>5. ASSUME UNCHANGED <<objectSize, ret, asked, errors>> PROVE ServedInv' /\ Short'
  BY <1>0, <1>5 DEF ServedInv, Sequential!ShortOnlyAtEndUnlessFailed, Sequential!ShortOnlyAtEnd
<1>6. ASSUME NEW n \in Sizes, Sequential!Read(n) PROVE SequentialInv'
  <2>1. n \in Nat /\ n # All /\ position + n \in Nat
    <3>1. n # All
      BY <1>6, <1>facts DEF Sequential!Read
    <3> QED
      BY <3>1, <1>facts, ConstantsAssumption
  <2>2. /\ UNCHANGED <<objectSize, size, position, buffer, at, ret, asked, errors>>
        /\ req' = [op |-> "read", n |-> n, target |-> position + n]
        /\ stream' = IF stream = "none" THEN "open" ELSE stream
        /\ \/ pc' = "fetch" /\ tell' = at
           \/ pc' = "serve" /\ tell' = tell /\ position + n <= at
        /\ pc = "idle" /\ size # position
    BY <1>6, <1>facts, <2>1 DEF Sequential!Read, Sequential!Prefetch, Sequential!SeekTo,
                          Sequential!MayCall, Sequential!AtEnd
  <2>3. StreamTypes' /\ CursorTypes' /\ SizeInv'
    BY <1>0, <1>facts, <2>1, <2>2 DEF StreamTypes, CursorTypes, SizeInv
  <2>4. CursorInv' /\ ServeInv'
    BY <1>0, <1>facts, <2>1, <2>2 DEF CursorInv, ServeInv
  <2> QED
    BY <1>0, <1>5, <2>2, <2>3, <2>4 DEF SequentialInv
<1>7. CASE Sequential!ReadAll
  <2>1. /\ UNCHANGED <<objectSize, size, position, buffer, at, ret, asked, errors>>
        /\ req' = [op |-> "read", n |-> All, target |-> 0]
        /\ stream' = IF stream = "none" THEN "open" ELSE stream
        /\ pc' = "drain" /\ tell' = at
        /\ pc = "idle" /\ size # position
    BY <1>7, <1>facts DEF Sequential!ReadAll, Sequential!Prefetch, Sequential!MayCall,
                          Sequential!AtEnd
  <2>2. StreamTypes' /\ CursorTypes' /\ SizeInv'
    BY <1>0, <1>facts, <2>1 DEF StreamTypes, CursorTypes, SizeInv
  <2>3. CursorInv' /\ ServeInv'
    BY <1>0, <1>facts, <2>1 DEF CursorInv, ServeInv
  <2> QED
    BY <1>0, <1>5, <2>1, <2>2, <2>3 DEF SequentialInv
(* The three forms of seek that go on to SeekTo.                           *)
<1>8. ASSUME NEW target \in Nat, pc = "idle",
             size' = size \/ (size = Unknown /\ size' = objectSize),
             req' = [op |-> "seek", n |-> 0, target |-> target],
             Sequential!OpenFor(target), Sequential!SeekTo(target),
             UNCHANGED <<objectSize, position, buffer, at, ret, asked, errors>>
      PROVE  SequentialInv'
  <2>1. /\ stream' = stream \/ (stream = "none" /\ stream' = "open")
        /\ \/ pc' = "fetch" /\ tell' = at
           \/ pc' = "serve" /\ tell' = tell /\ target <= at
    BY <1>8, <1>facts DEF Sequential!OpenFor, Sequential!Prefetch, Sequential!SeekTo
  <2>2. StreamTypes' /\ CursorTypes' /\ SizeInv'
    BY <1>0, <1>facts, <1>8, <2>1 DEF StreamTypes, CursorTypes, SizeInv
  <2>3. CursorInv' /\ ServeInv'
    BY <1>0, <1>facts, <1>8, <2>1 DEF CursorInv, ServeInv
  <2> QED
    BY <1>0, <1>5, <1>8, <2>2, <2>3 DEF SequentialInv
<1>size. /\ Sequential!Size = size \/ (size = Unknown /\ Sequential!Size = objectSize)
         /\ Sequential!Size \in 0..objectSize
         /\ errors = 0 => Sequential!Size = objectSize
  BY <1>0, <1>facts DEF Sequential!Size, CursorTypes, SizeInv
<1>9. ASSUME NEW base \in {0, position}, NEW o \in Offsets, Sequential!Seek(base, o)
      PROVE  SequentialInv'
  <2>1. base + o \in Nat
    BY <1>9, <1>facts, ConstantsAssumption DEF Sequential!Seek
  <2> QED
    BY <1>8, <1>9, <2>1 DEF Sequential!Seek, Sequential!MayCall
<1>10. ASSUME NEW o \in Offsets, Sequential!SeekFromEnd(o) PROVE SequentialInv'
  <2>1. Sequential!Size + o \in Nat
    BY <1>10, <1>size, <1>facts, ConstantsAssumption DEF Sequential!SeekFromEnd
  <2> QED
    BY <1>8, <1>10, <1>size, <2>1 DEF Sequential!SeekFromEnd, Sequential!MayCall
<1>11. ASSUME \/ Sequential!SeekEnd
              \/ \E o \in Offsets : Sequential!SeekBeforeStart(o)
       PROVE  SequentialInv'
  <2>1. /\ UNCHANGED <<objectSize, buffer, tell, stream, at, pc, req, ret, asked, errors>>
        /\ size' = Sequential!Size /\ position' \in {position, size'} /\ pc = "idle"
    BY <1>11 DEF Sequential!SeekEnd, Sequential!SeekBeforeStart, Sequential!MayCall
  <2>2. StreamTypes' /\ CursorTypes' /\ SizeInv'
    BY <1>0, <1>facts, <1>size, <2>1 DEF StreamTypes, CursorTypes, SizeInv
  <2>3. CursorInv' /\ ServeInv'
    BY <1>0, <1>facts, <1>size, <2>1 DEF CursorInv, ServeInv
  <2> QED
    BY <1>0, <1>5, <2>1, <2>2, <2>3 DEF SequentialInv
<1>12. ASSUME NEW n \in ChunkSizes, Sequential!FetchChunk(n) \/ Sequential!DrainChunk(n)
       PROVE  SequentialInv'
  <2>1. /\ UNCHANGED <<objectSize, size, position, stream, pc, req, ret, asked, errors>>
        /\ stream = "open" /\ n <= objectSize - at /\ pc \in {"fetch", "drain"}
        /\ buffer' = Sequential!Written(buffer, tell, at, n)
        /\ tell' = tell + n /\ at' = at + n /\ n \in Nat
    BY <1>12, ConstantsAssumption
       DEF Sequential!FetchChunk, Sequential!DrainChunk, Sequential!Chunk
  <2>2. tell = at
    BY <1>0, <2>1 DEF ServeInv
  <2>3. buffer' = [i \in 1..at' |-> i - 1]
    BY <1>0, <2>1, <2>2, WrittenAtEnd
  <2>4. StreamTypes' /\ CursorTypes' /\ SizeInv'
    BY <1>0, <1>facts, <2>1, <2>2, <2>3 DEF StreamTypes, CursorTypes, SizeInv
  <2>5. CursorInv' /\ ServeInv'
    BY <1>0, <1>facts, <2>1, <2>2 DEF CursorInv, ServeInv
  <2> QED
    BY <1>0, <1>5, <2>1, <2>4, <2>5 DEF SequentialInv
<1>13. CASE Sequential!Fetched
  <2>1. /\ UNCHANGED <<objectSize, size, position, buffer, tell, stream, at, req, ret, asked,
                       errors>>
        /\ pc = "fetch" /\ pc' = "serve" /\ req.target <= at
    BY <1>13, <1>facts DEF Sequential!Fetched
  <2>2. StreamTypes' /\ CursorTypes' /\ SizeInv'
    BY <1>0, <1>facts, <2>1 DEF StreamTypes, CursorTypes, SizeInv
  <2>3. CursorInv' /\ ServeInv'
    BY <1>0, <1>facts, <2>1 DEF CursorInv, ServeInv
  <2> QED
    BY <1>0, <1>5, <2>1, <2>2, <2>3 DEF SequentialInv
<1>14. CASE Sequential!StreamEnds
  <2>1. /\ UNCHANGED <<objectSize, position, buffer, tell, at, req, ret, asked, errors>>
        /\ pc \in {"fetch", "drain"} /\ pc' = "serve" /\ stream' = "over"
        /\ stream = "over" \/ at = objectSize
        /\ size' = tell
    BY <1>14 DEF Sequential!StreamEnds, Sequential!StreamIsOver
  <2>2. tell = at /\ (errors = 0 => at = objectSize)
    BY <1>0, <2>1 DEF ServeInv, SizeInv
  <2>3. StreamTypes' /\ CursorTypes' /\ SizeInv'
    BY <1>0, <1>facts, <2>1, <2>2 DEF StreamTypes, CursorTypes, SizeInv
  <2>4. CursorInv' /\ ServeInv'
    BY <1>0, <1>facts, <2>1, <2>2 DEF CursorTypes, CursorInv, ServeInv
  <2> QED
    BY <1>0, <1>5, <2>1, <2>3, <2>4 DEF SequentialInv
<1>15. CASE Sequential!StreamFails
  <2>1. /\ UNCHANGED <<objectSize, size, position, buffer, tell, at>>
        /\ pc \in {"fetch", "drain"} /\ pc' = "idle" /\ stream' = "over"
        /\ errors' = errors + 1 /\ req' = [op |-> "none", n |-> 0, target |-> 0]
        /\ ret' = ret \/ ret'.status = "S3Exception"
    BY <1>15 DEF Sequential!StreamFails, Sequential!Result, Sequential!NoRequest
  <2>2. StreamTypes' /\ CursorTypes' /\ SizeInv'
    BY <1>0, <1>facts, <2>1 DEF StreamTypes, CursorTypes, SizeInv
  <2>3. CursorInv' /\ ServeInv'
    BY <1>0, <1>facts, <2>1 DEF CursorInv, ServeInv
  <2>4. ServedInv' /\ Short'
    BY <1>0, <1>facts, <2>1 DEF ServedInv, Exceptions, Sequential!ShortOnlyAtEndUnlessFailed
  <2> QED
    BY <1>0, <2>2, <2>3, <2>4 DEF SequentialInv
<1>16. CASE Sequential!ServeSeek
  <2>1. /\ UNCHANGED <<objectSize, size, buffer, stream, at, ret, asked, errors>>
        /\ pc = "serve" /\ req.op = "seek" /\ pc' = "idle"
        /\ position' = Sequential!Target /\ tell' = Sequential!Target
        /\ req' = [op |-> "none", n |-> 0, target |-> 0]
    BY <1>16 DEF Sequential!ServeSeek, Sequential!NoRequest
  <2>2. Sequential!Target \in 0..at
    BY <1>0, <1>facts, <2>1 DEF Sequential!Target, ServeInv, CursorTypes
  <2>3. StreamTypes' /\ CursorTypes' /\ SizeInv'
    BY <1>0, <1>facts, <2>1, <2>2 DEF StreamTypes, CursorTypes, SizeInv
  <2>4. CursorInv' /\ ServeInv'
    BY <1>0, <1>facts, <2>1, <2>2 DEF CursorInv, ServeInv
  <2> QED
    BY <1>0, <1>5, <2>1, <2>3, <2>4 DEF SequentialInv
<1>17. CASE Sequential!ServeRead
  <2> DEFINE data == Sequential!Served(position, req.n)
  <2>1. /\ UNCHANGED <<objectSize, size, buffer, stream, at, errors>>
        /\ pc = "serve" /\ req.op = "read" /\ pc' = "idle"
        /\ ret' = [status |-> "ok", from |-> position, data |-> data]
        /\ tell' = position + data.size /\ position' = position + data.size
        /\ asked' = req.n /\ req' = [op |-> "none", n |-> 0, target |-> 0]
    BY <1>17 DEF Sequential!ServeRead, Sequential!NoRequest, Sequential!Result
  <2>2. req.n \in Nat \cup {All} /\ position <= at
    BY <1>0, <2>1 DEF CursorTypes, CursorInv
  <2>3. /\ data = ObjectBytes(position, data.size)
        /\ data.size = (IF req.n = All \/ req.n > at - position THEN at - position
                        ELSE req.n)
    BY <1>0, <2>2, ServedIsRight
  <2> HIDE DEF data
  <2>4. data.size \in Nat /\ position + data.size <= at
    BY <1>facts, <2>2, <2>3
  <2>5. StreamTypes' /\ CursorTypes' /\ SizeInv'
    BY <1>0, <1>facts, <2>1, <2>4 DEF StreamTypes, CursorTypes, SizeInv
  <2>6. CursorInv' /\ ServeInv'
    BY <1>0, <1>facts, <2>1, <2>4 DEF CursorInv, ServeInv
  <2>7. ServedInv'
    BY <2>1, <2>3 DEF ServedInv
  <2>8. Short'
    <3>1. errors = 0 => at = objectSize \/ (req.n # All /\ position + req.n <= at)
      BY <1>0, <2>1 DEF ServeInv
    <3>2. errors = 0 => data.size = req.n \/ position + data.size = objectSize
      BY <1>facts, <2>2, <2>3, <3>1
    <3> QED
      BY <2>1, <3>2 DEF Sequential!ShortOnlyAtEndUnlessFailed, Sequential!ShortOnlyAtEnd
  <2> QED
    BY <1>0, <2>5, <2>6, <2>7, <2>8 DEF SequentialInv
<1>18. CASE UNCHANGED Sequential!vars
  <2>1. UNCHANGED <<objectSize, size, position, buffer, tell, stream, at, pc, req, ret, asked,
                    errors>>
    BY <1>18 DEF Sequential!vars
  <2> QED
    BY <1>1, <1>5, <2>1
<1> QED
  BY <1>2, <1>3, <1>4, <1>6, <1>7, <1>9, <1>10, <1>11, <1>12, <1>13, <1>14, <1>15, <1>16,
     <1>17, <1>18 DEF Sequential!Next, Sequential!Step

(* A step of the reader is one of ByteReader, whatever failed before.      *)
LEMMA SequentialSimulation ==
  ASSUME SequentialInv, Sequential!Next \/ UNCHANGED Sequential!vars, retries' = retries
  PROVE  [Abstract!Next]_(Abstract!vars)
<1>0. SequentialInv'
  BY SequentialStepInvariant
<1>1. /\ retries = 0 /\ retries' = 0 /\ position \in Nat /\ position' \in Nat
      /\ StreamTypes /\ CursorTypes
  BY <1>0 DEF SequentialInv, StreamTypes, CursorTypes
<1> SUFFICES Abstract!Next \/ UNCHANGED <<position, ret>>
  BY <1>1 DEF Abstract!vars
<1>void. ~((retries > 0)')
  BY <1>1
<1>2. ASSUME ret'.status \in Exceptions, ret'.from = position, ret'.data.size = 0,
             position' = position
      PROVE  Abstract!Next
  BY <1>void, <1>2 DEF Abstract!Next, Abstract!Raises
<1>3. ASSUME NEW n \in Nat, position' = position + n,
             ret' = [status |-> "ok", from |-> position, data |-> ObjectBytes(position, n)]
      PROVE  Abstract!Next
  <2>1. ret'.data = ObjectBytes(position, n) /\ ret'.data.size = n
    BY <1>3 DEF ObjectBytes
  <2>2. ret' = [status |-> "ok", from |-> position,
                data |-> Abstract!ObjectBytes(position, ret'.data.size)]
    BY <1>3, <2>1 DEF ObjectBytes, Abstract!ObjectBytes
  <2> QED
    BY <1>3, <1>void, <2>1, <2>2 DEF Abstract!Next, Abstract!Returns
<1>4. ASSUME ret' = ret PROVE Abstract!Next
  BY <1>1, <1>4, <1>void DEF Abstract!Next, Abstract!Seeks
<1>5. CASE \/ Sequential!ReadIntoNothing \/ \E n \in Sizes : Sequential!ReadNothing(n)
  <2>1. ret' = [status |-> "ok", from |-> position, data |-> ObjectBytes(0, 0)]
        /\ position' = position
    BY <1>5 DEF Sequential!ReadIntoNothing, Sequential!ReadNothing, Sequential!Result,
                Sequential!NoBytes, Sequential!ObjectBytes, ObjectBytes
  <2>2. ObjectBytes(0, 0) = ObjectBytes(position, 0) /\ position' = position + 0
    BY <1>1, <2>1, EmptyBytes
  <2> QED
    BY <1>3, <2>1, <2>2
<1>6. CASE Sequential!StreamFails \/ \E n \in Sizes : Sequential!PrefetchFails(n)
  BY <1>2, <1>4, <1>6 DEF Sequential!StreamFails, Sequential!PrefetchFails, Exceptions,
                          Sequential!Result, Sequential!NoBytes, Sequential!ObjectBytes
<1>7. CASE \/ Sequential!ReadAll \/ \E n \in Sizes : Sequential!Read(n)
           \/ \E n \in ChunkSizes : Sequential!FetchChunk(n) \/ Sequential!DrainChunk(n)
           \/ Sequential!Fetched \/ Sequential!StreamEnds \/ Sequential!ServeSeek
  BY <1>4, <1>7
     DEF Sequential!ReadAll, Sequential!Read, Sequential!FetchChunk, Sequential!DrainChunk,
         Sequential!Chunk, Sequential!Fetched, Sequential!StreamEnds, Sequential!ServeSeek
<1>8. CASE \/ Sequential!SeekEnd \/ Sequential!SeekFails \/ UNCHANGED Sequential!vars
           \/ \E o \in Offsets, base \in {0, position} : Sequential!Seek(base, o)
           \/ \E o \in Offsets : Sequential!SeekFromEnd(o) \/ Sequential!SeekBeforeStart(o)
  BY <1>4, <1>8
     DEF Sequential!SeekEnd, Sequential!SeekFails, Sequential!vars, Sequential!Seek,
         Sequential!SeekFromEnd, Sequential!SeekBeforeStart
<1>9. CASE Sequential!ServeRead
  <2> DEFINE data == Sequential!Served(position, req.n)
  <2>1. /\ pc = "serve" /\ req.op = "read" /\ position' = position + data.size
        /\ ret' = [status |-> "ok", from |-> position, data |-> data]
    BY <1>9 DEF Sequential!ServeRead, Sequential!Result
  <2>2. req.n \in Nat \cup {All} /\ position <= at /\ at \in Nat
    BY <2>1 DEF SequentialInv, CursorTypes, CursorInv, StreamTypes
  <2>3. /\ data = ObjectBytes(position, data.size)
        /\ data.size = (IF req.n = All \/ req.n > at - position THEN at - position
                        ELSE req.n)
    BY <1>1, <2>2, ServedIsRight
  <2> HIDE DEF data
  <2>4. data.size \in Nat
    BY <1>1, <2>2, <2>3
  <2> QED
    BY <1>3, <2>1, <2>3, <2>4
<1> QED
  BY <1>5, <1>6, <1>7, <1>8, <1>9 DEF Sequential!Next, Sequential!Step

-----------------------------------------------------------------------------
(* The reader a constructor makes, of either kind.                         *)

OfKind ==
  /\ kind \in {"ranged", "sequential"}
  /\ kind = "sequential" => ~again /\ SequentialInv

(* The kind is chosen once, and a sequential reader keeps its invariant,   *)
(* whatever fails.                                                         *)
LEMMA KindInvariance == MCSpec => []OfKind
<1>1. MCInit => OfKind
  BY SequentialInitInvariant DEF MCInit, OfKind
<1>2. OfKind /\ [MCNext]_allVars => OfKind'
  <2> SUFFICES ASSUME OfKind, [MCNext]_allVars PROVE OfKind'
    OBVIOUS
  <2>1. CASE kind = "sequential"
    <3>1. /\ kind' = kind /\ retries' = retries /\ again' = again
          /\ Sequential!Next \/ UNCHANGED Sequential!vars
      BY <2>1 DEF MCNext, allVars, vars, sequentialOnly, rangedOnly, Sequential!vars
    <3> QED
      BY <2>1, <3>1, SequentialStepInvariant DEF OfKind
  <2>2. CASE kind = "ranged"
    BY <2>2 DEF MCNext, allVars, OfKind
  <2> QED
    BY <2>1, <2>2 DEF OfKind
<1> QED
  BY <1>1, <1>2, PTL DEF MCSpec

(* A ranged reader keeps its own, of an object that keeps its size.        *)
LEMMA RangedInvariance ==
  ASSUME SizeIsKept
  PROVE  MCSpec => [](kind = "ranged" => RangedInv)
<1> DEFINE Inv == kind = "ranged" => RangedInv
<1>1. MCInit => Inv
  BY RangedInitInvariant DEF MCInit
<1>2. Inv /\ [MCNext]_allVars => Inv'
  <2> SUFFICES ASSUME Inv, [MCNext]_allVars, kind' = "ranged" PROVE RangedInv'
    OBVIOUS
  <2>1. kind = "ranged" /\ [Next]_vars
    BY DEF MCNext, allVars
  <2> QED
    BY <2>1, RangedStepInvariant
<1> HIDE DEF Inv
<1>3. MCSpec => []Inv
  BY <1>1, <1>2, PTL DEF MCSpec
<1> QED
  BY <1>3 DEF Inv

(* sequential.py, seek and _prefetch: whatever was read, sought and failed *)
(* before, the BytesIO holds the first bytes of the object without a hole. *)
THEOREM SequentialBuffer == MCSpec => []BufferIsPrefix
<1>1. OfKind => BufferIsPrefix
  BY SequentialFacts DEF OfKind, SequentialInv, StreamTypes, BufferIsPrefix,
                         Sequential!BufferIsPrefix
<1> QED
  BY <1>1, KindInvariance, PTL

(* sequential.py, read: until a call fails, a read is short of what was    *)
(* asked at the end of the object only.                                    *)
THEOREM SequentialReads == MCSpec => []ShortOnlyAtEndUnlessFailed
<1>1. OfKind => ShortOnlyAtEndUnlessFailed
  BY DEF OfKind, SequentialInv, ShortOnlyAtEndUnlessFailed
<1> QED
  BY <1>1, KindInvariance, PTL

(* ranged.py and sequential.py, read and readinto: what is returned are    *)
(* the bytes of the object at the cursor, of an object that keeps its size *)
(* and until a load fails half way.                                        *)
THEOREM ReadersRight ==
  ASSUME SizeIsKept
  PROVE  MCSpec => []RightUnlessTorn
<1>1. OfKind /\ (kind = "ranged" => RangedInv) => RightUnlessTorn
  BY DEF OfKind, RangedInv, SequentialInv, ServedInv, RightUnlessTorn, RightBytes
<1> QED
  BY <1>1, KindInvariance, RangedInvariance, PTL

(* ranged.py, _read_range and _load_buffer: no byte is requested twice for *)
(* a user that reads forward.                                              *)
THEOREM ReadersFetchOnce ==
  ASSUME SizeIsKept
  PROVE  MCSpec => []FetchedOnce
<1>1. OfKind /\ (kind = "ranged" => RangedInv) => FetchedOnce
  BY DEF OfKind, RangedInv, ForwardInv, FetchedOnce
<1> QED
  BY <1>1, KindInvariance, RangedInvariance, PTL

(* s3reader.py: either reader is one cursor over the bytes of the object,  *)
(* for a user that does not read again after an exception.                 *)
THEOREM ReadersRefine ==
  ASSUME SizeIsKept
  PROVE  MCSpec => ImplementsByteReader
<1>1. MCInit => Abstract!Init
  BY DEF MCInit, Init, Sequential!Init, Abstract!Init
<1>2. /\ OfKind /\ (kind = "ranged" => RangedInv) /\ (kind = "ranged" => RangedInv)'
      /\ [MCNext]_allVars
      => [Abstract!Next]_(Abstract!vars)
  <2> SUFFICES ASSUME OfKind, kind = "ranged" => RangedInv,
                      (kind = "ranged" => RangedInv)', [MCNext]_allVars
               PROVE  [Abstract!Next]_(Abstract!vars)
    OBVIOUS
  <2>1. CASE kind = "ranged"
    <3>1. kind' = "ranged" /\ [Next]_vars
      BY <2>1 DEF MCNext, allVars
    <3> QED
      BY <2>1, <3>1, RangedSimulation
  <2>2. CASE kind = "sequential"
    <3>1. retries' = retries /\ (Sequential!Next \/ UNCHANGED Sequential!vars)
      BY <2>2 DEF MCNext, allVars, vars, sequentialOnly, rangedOnly, Sequential!vars
    <3> QED
      BY <2>2, <3>1, SequentialSimulation DEF OfKind
  <2> QED
    BY <2>1, <2>2 DEF OfKind
<1> QED
  BY <1>1, <1>2, KindInvariance, RangedInvariance, PTL
     DEF MCSpec, ImplementsByteReader, Abstract!Spec
=============================================================================
