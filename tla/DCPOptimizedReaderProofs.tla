----------------------- MODULE DCPOptimizedReaderProofs -----------------------
(***************************************************************************)
(* Theorems about DCPOptimizedReader, for every set of load plans, every   *)
(* object, all chunk sizes and all faults.                                 *)
(***************************************************************************)
EXTENDS DCPOptimizedReader, RangesProofs

-----------------------------------------------------------------------------
(* Facts about load plans.                                                 *)

(* What PlansAssumption says of one plan, in the form the proofs use.      *)
LEMMA PlanFacts ==
  ASSUME NEW p \in Plans
  PROVE  /\ p.items \in Seq([start : Int, end : Int]) /\ p.gap \in Nat
         /\ Len(p.items) \in Nat \ {0}
         /\ \A i \in 1..Len(p.items) :
              /\ p.items[i] \in [start : Int, end : Int]
              /\ p.items[i].start \in Int /\ p.items[i].end \in Int
              /\ p.items[i].start < p.items[i].end
         /\ \A i \in 2..Len(p.items) : p.items[i-1].end <= p.items[i].start
<1>1. /\ p.items \in Seq([start : Int, end : Int]) /\ p.gap \in Nat
      /\ Accepted(p.items)
      /\ \A i \in 1..Len(p.items) : Length(p.items[i]) # 0
  BY PlansAssumption
<1>2. Len(p.items) \in Nat \ {0}
  BY <1>1 DEF Accepted
<1>3. \A i \in 1..Len(p.items) : /\ p.items[i] \in [start : Int, end : Int]
                                 /\ p.items[i].start \in Int
                                 /\ p.items[i].end \in Int
  <2> TAKE i \in 1..Len(p.items)
  <2>1. p.items[i] \in [start : Int, end : Int]
    BY <1>1, ElementOfSeq
  <2> QED BY <2>1
<1>4. \A i \in 2..Len(p.items) : /\ p.items[i].start < p.items[i].end
                                 /\ p.items[i-1].end <= p.items[i].start
  BY <1>1 DEF Accepted, FollowOk
<1>5. p.items[1].start < p.items[1].end
  BY <1>1, <1>2, <1>3 DEF Accepted, Length
<1>6. \A i \in 1..Len(p.items) : p.items[i].start < p.items[i].end
  BY <1>2, <1>4, <1>5
<1> QED BY <1>1, <1>2, <1>3, <1>4, <1>6

(* The items of a plan are sorted: the check of neighbours in              *)
(* _validate_and_coalesce_ranges orders all of them.                       *)
LEMMA ItemsSorted ==
  ASSUME NEW p \in Plans
  PROVE  /\ p.items \in Seq(ByteRanges) /\ InOrder(p.items)
         /\ \A i \in 1..Len(p.items) : p.items[i].end # p.items[i].start
         /\ \A i, j \in 1..Len(p.items) : i < j => p.items[i].end <= p.items[j].start
<1>1. /\ p.items \in Seq(ByteRanges) /\ Accepted(p.items)
      /\ \A i \in 1..Len(p.items) : Length(p.items[i]) # 0
  BY PlansAssumption DEF ByteRanges
<1>2. \A i \in 1..Len(p.items) : p.items[i].end # p.items[i].start
  <2> SUFFICES ASSUME NEW i \in 1..Len(p.items) PROVE p.items[i].end # p.items[i].start
    OBVIOUS
  <2>1. p.items[i].start \in Int /\ p.items[i].end \in Int
    BY <1>1, RangeType
  <2> QED BY <1>1, <2>1 DEF Length
<1>3. InOrder(p.items)
  <2>1. 1 \in 1..Len(p.items)
    BY PlanFacts
  <2> QED BY <1>1, <1>2, <2>1, AcceptedInOrder
<1> QED BY <1>1, <1>2, <1>3 DEF InOrder

LEMMA GroupEndType ==
  ASSUME NEW p \in Plans, NEW i \in 1..Len(p.items)
  PROVE  GroupEnd(p.items, p.gap, i) \in Int
<1>1. Len(p.items) \in Nat
  BY PlanFacts
<1>2. PICK j \in i..Len(p.items) : GroupEnd(p.items, p.gap, i) = p.items[j].end
  BY <1>1, GroupEndFacts
<1> QED BY <1>1, <1>2, PlanFacts

-----------------------------------------------------------------------------
(* Facts about item buffers.                                               *)

LEMMA EmptyBufferFacts ==
  /\ IsBuffer(EmptyBuffer) /\ EmptyBuffer.size = 0
  /\ IsBuffer(NoBuffer) /\ NoBuffer.size = -1
  /\ \A from \in Int : IsRange(EmptyBuffer, from)
BY DEF IsBuffer, EmptyBuffer, NoBuffer, IsRange

(* append_view grows the buffer by the segment, and a buffer that holds a  *)
(* range of the object holds the longer range if the segment continues it. *)
LEMMA AppendViewFacts ==
  ASSUME NEW b, IsBuffer(b), b.size \in Nat, NEW lo \in Int, NEW n \in Nat
  PROVE  /\ IsBuffer(AppendView(b, lo, n))
         /\ AppendView(b, lo, n).size = b.size + n
         /\ \A from \in Int :
              IsRange(b, from) /\ (n > 0 => lo = from + b.size)
                => IsRange(AppendView(b, lo, n), from)
<1> DEFINE v == AppendView(b, lo, n)
<1>1. /\ v.size = b.size + n
      /\ v.at = [i \in 0..(b.size + n - 1) |->
                   IF i < b.size THEN b.at[i] ELSE lo + (i - b.size)]
      /\ v = [size |-> v.size, at |-> v.at]
  BY DEF AppendView
<1>2. \A i \in 0..(b.size + n - 1) :
        (IF i < b.size THEN b.at[i] ELSE lo + (i - b.size)) \in Int
  BY DEF IsBuffer
<1>3. IsBuffer(v)
  BY <1>1, <1>2 DEF IsBuffer
<1>4. ASSUME NEW from \in Int, IsRange(b, from), n > 0 => lo = from + b.size,
             NEW i \in 0..(v.size - 1)
      PROVE  v.at[i] = from + i
  <2>1. v.at[i] = IF i < b.size THEN b.at[i] ELSE lo + (i - b.size)
    BY <1>1
  <2>2. CASE i < b.size
    BY <2>1, <2>2, <1>4 DEF IsRange
  <2>3. CASE ~(i < b.size)
    <3>1. n > 0
      BY <2>3, <1>1, <1>4
    <3> QED BY <3>1, <2>1, <2>3, <1>4
  <2> QED BY <2>2, <2>3
<1> QED BY <1>1, <1>3, <1>4 DEF IsRange

(* seek followed by read or readinto copies a range of the buffer out.     *)
LEMMA ReadAtFacts ==
  ASSUME NEW b, IsBuffer(b), NEW local \in Nat, NEW size \in Nat
  PROVE  /\ IsBuffer(ReadAt(b, local, size))
         /\ ReadAt(b, local, size).size \in Nat
         /\ local + size <= b.size => ReadAt(b, local, size).size = size
         /\ \A from \in Int :
              IsRange(b, from) => IsRange(ReadAt(b, local, size), from + local)
<1> DEFINE d == ReadAt(b, local, size)
           avail == IF local < b.size THEN b.size - local ELSE 0
           n == IF size < avail THEN size ELSE avail
<1>1. /\ d.size = n
      /\ d.at = [i \in 0..(n-1) |-> b.at[local + i]]
      /\ d = [size |-> d.size, at |-> d.at]
  BY DEF ReadAt
<1>2. b.size \in Int /\ n \in Nat /\ (n > 0 => local + n <= b.size)
  BY DEF IsBuffer
<1>3. \A i \in 0..(n-1) : local + i \in 0..(b.size - 1)
  BY <1>2
<1>4. IsBuffer(d)
  BY <1>1, <1>2, <1>3 DEF IsBuffer
<1>5. ASSUME NEW from \in Int, IsRange(b, from), NEW i \in 0..(d.size - 1)
      PROVE  d.at[i] = from + local + i
  <2>1. d.at[i] = b.at[local + i] /\ local + i \in 0..(b.size - 1)
    BY <1>1, <1>3
  <2>2. b.at[local + i] = from + (local + i)
    BY <2>1, <1>5 DEF IsRange
  <2> QED BY <2>1, <2>2, <1>1, <1>2
<1>6. local + size <= b.size => n = size
  BY <1>2
<1> QED BY <1>1, <1>2, <1>4, <1>5, <1>6 DEF IsRange

-----------------------------------------------------------------------------
(* Type correctness.  The type of a returned buffer rests on the position  *)
(* not preceding the item, which holds from the search for the item to the *)
(* end of the call.                                                        *)
RequestWithin == pc # "idle" => Within(CurItem, position, position + call)

TypeInv == TypeOK /\ RequestWithin

LEMMA CurItemFacts ==
  ASSUME TypeOK
  PROVE  /\ N \in Nat \ {0} /\ Len(Items) = N /\ plan.gap \in Nat
         /\ CurItem.start \in Int /\ CurItem.end \in Int
         /\ CurItem.start < CurItem.end
         /\ CurItem = Items[cur]
         /\ \A i \in 1..N : Items[i].start \in Int /\ Items[i].end \in Int
         /\ Length(CurItem) \in Nat
<1>1. plan \in Plans /\ cur \in 1..Len(plan.items)
  BY DEF TypeOK, N
<1>2. /\ Len(plan.items) \in Nat \ {0} /\ plan.gap \in Nat
      /\ \A i \in 1..Len(plan.items) :
           /\ plan.items[i].start \in Int /\ plan.items[i].end \in Int
           /\ plan.items[i].start < plan.items[i].end
  BY <1>1, PlanFacts
<1> QED BY <1>1, <1>2 DEF N, Items, CurItem, Length

(* Phase 1 of a load, for a leftover that is the part of the object from   *)
(* pos on or none: the buffer begins with the item.                        *)
LEMMA StartLoadFacts ==
  ASSUME TypeOK, NEW pos \in Int, NEW left \in Parts, StartLoad(pos, left)
  PROVE  /\ load'.pos \in Int /\ load'.left \in Parts /\ load'.bytesLeft \in Nat
         /\ IsBuffer(load'.buffer) /\ load'.buffer.size \in Nat
<1> DEFINE want == Length(CurItem)
           inLeft == /\ PartLen(left) > 0
                     /\ pos <= CurItem.start /\ CurItem.start < pos + PartLen(left)
           from == left.lo + (CurItem.start - pos)
           take == IF want < left.hi - from THEN want ELSE left.hi - from
<1>1. /\ want \in Nat /\ CurItem.start \in Int
      /\ left.lo \in Int /\ left.hi \in Int
  BY CurItemFacts DEF Parts
<1>2. CASE inLeft
  <2>1. from \in Int /\ take \in Nat /\ want - take \in Nat
    BY <1>1, <1>2 DEF PartLen
  <2>2. load' = [pos |-> CurItem.start + take,
                 left |-> Part(from + take, left.hi),
                 bytesLeft |-> want - take,
                 buffer |-> AppendView(EmptyBuffer, from, take)]
    BY <1>2 DEF StartLoad
  <2>3. Part(from + take, left.hi) \in Parts
    BY <1>1, <2>1 DEF Part, Parts
  <2>4. /\ IsBuffer(AppendView(EmptyBuffer, from, take))
        /\ AppendView(EmptyBuffer, from, take).size \in Nat
    BY <2>1, EmptyBufferFacts, AppendViewFacts
  <2> HIDE DEF from, take, want
  <2> QED BY <1>1, <2>1, <2>2, <2>3, <2>4
<1>3. CASE ~inLeft
  <2>1. load' = [pos |-> pos + PartLen(left), left |-> NoPart,
                 bytesLeft |-> want, buffer |-> EmptyBuffer]
    BY <1>3 DEF StartLoad
  <2>2. NoPart \in Parts /\ pos + PartLen(left) \in Int
    BY <1>1 DEF NoPart, Part, Parts, PartLen
  <2> HIDE DEF want
  <2> QED BY <1>1, <2>1, <2>2, EmptyBufferFacts
<1> QED BY <1>2, <1>3

LEMMA NoneFacts ==
  /\ NoPart \in Parts
  /\ NoStream \in [at : Int, end : Int, live : BOOLEAN]
  /\ NoLoad.pos \in Int /\ NoLoad.left \in Parts /\ NoLoad.bytesLeft \in Nat
  /\ NoLoad.buffer = EmptyBuffer
  /\ IsBuffer(NoLoad.buffer) /\ NoLoad.buffer.size \in Nat
<1>1. NoPart \in Parts /\ NoStream \in [at : Int, end : Int, live : BOOLEAN]
  BY DEF NoPart, Part, Parts, NoStream
<1>2. /\ NoLoad.pos = 0 /\ NoLoad.left = NoPart /\ NoLoad.bytesLeft = 0
      /\ NoLoad.buffer = EmptyBuffer
  BY DEF NoLoad
<1> QED BY <1>1, <1>2, EmptyBufferFacts

LEMMA FailedFacts ==
  ASSUME NEW status
  PROVE  /\ Failed(status).status = status /\ Failed(status).from = position
         /\ Failed(status).data = EmptyBuffer
BY DEF Failed, Result

LEMMA TypeInvInit == Init => TypeInv
<1> SUFFICES ASSUME Init PROVE TypeInv
  OBVIOUS
<1>1. N \in Nat \ {0} /\ plan \in Plans
  BY PlanFacts DEF Init, N
<1>2. /\ ret.status = "none" /\ ret.from = 0 /\ ret.data = EmptyBuffer
      /\ state \in [pos : Int, left : Parts]
  BY NoneFacts DEF Init
<1>3. cur \in 1..N /\ iter \in (cur+1)..(N+1) /\ retries \in 0..MaxRetries
  BY <1>1, InputsAssumption DEF Init
<1>4. /\ IsBuffer(buf) /\ stream \in [at : Int, end : Int, live : BOOLEAN]
      /\ IsBuffer(ret.data)
      /\ load.pos \in Int /\ load.left \in Parts /\ load.bytesLeft \in Nat
      /\ IsBuffer(load.buffer) /\ load.buffer.size \in Nat
  BY <1>2, EmptyBufferFacts, NoneFacts DEF Init
<1>5. position \in Int /\ pc = "idle" /\ call \in Nat /\ fetched \in Nat
  BY DEF Init
<1>6. closed \in BOOLEAN /\ poisoned \in BOOLEAN /\ served \subseteq 1..N
  BY Zenon DEF Init
<1> QED
  BY <1>1, <1>2, <1>3, <1>4, <1>5, <1>6 DEF TypeInv, TypeOK, RequestWithin

LEMMA FindItemType ==
  ASSUME TypeInv, NEW size \in Nat, MayRead, FindItem(size)
  PROVE  TypeInv'
<1> USE CurItemFacts, EmptyBufferFacts, FailedFacts, InputsAssumption
    DEF TypeInv, MayRead, FindItem, ReadUnchanged, N, Items, CurItem, Exceptions
<1>0. retries' \in 0..MaxRetries
  BY DEF TypeOK
<1>1. CASE FindInCurrent(size)
  BY <1>0, <1>1 DEF TypeOK, FindInCurrent, RequestWithin
<1>2. CASE OutOfOrder(size)
  BY <1>0, <1>2 DEF TypeOK, OutOfOrder, RequestWithin
<1>3. CASE FindInNext(size)
  <2>1. cur' \in 1..N' /\ iter' \in (cur'+1)..(N'+1) /\ pc' = "stream" /\ call' \in Nat
    BY <1>3 DEF TypeOK, FindInNext
  <2>2. TypeOK'
    BY <1>0, <1>3, <2>1 DEF TypeOK, FindInNext
  <2>3. RequestWithin'
    BY <1>3 DEF FindInNext, RequestWithin
  <2> QED BY <2>2, <2>3
<1>4. CASE FindNowhere(size)
  <2>1. pc' = "idle" /\ iter' \in (cur'+1)..(N'+1)
    <3>1. cur \in 1..N /\ iter \in (cur+1)..(N+1) /\ N' = N /\ N \in Nat
      BY DEF TypeOK
    <3>2. pc' = "idle" /\ cur' = cur /\ iter' = IF iter <= N THEN iter + 1 ELSE iter
      BY <1>4 DEF FindNowhere, Advancing
    <3> QED BY <3>1, <3>2
  <2>2. ret'.status = "ValueError" /\ ret'.from = position /\ ret'.data = EmptyBuffer
    BY <1>4 DEF FindNowhere
  <2> QED BY <1>0, <1>4, <2>1, <2>2 DEF TypeOK, FindNowhere, RequestWithin
<1> QED BY <1>1, <1>2, <1>3, <1>4

LEMMA RaiseType ==
  ASSUME TypeInv, NEW status \in Exceptions, RaiseFromLoad(status),
         stream' \in [at : Int, end : Int, live : BOOLEAN], fetched' \in Nat
  PROVE  TypeInv'
BY EmptyBufferFacts, NoneFacts, FailedFacts
DEF TypeInv, TypeOK, RequestWithin, RaiseFromLoad, N

LEMMA NextChunkType ==
  ASSUME TypeInv, NEW n \in ChunkSizes, NextChunk(n)
  PROVE  TypeInv'
<1> DEFINE skip == IF load.pos >= CurItem.start THEN 0
                   ELSE IF load.pos + n <= CurItem.start THEN n
                   ELSE CurItem.start - load.pos
           take == IF load.bytesLeft < n - skip THEN load.bytesLeft ELSE n - skip
<1>1. /\ n \in Nat /\ CurItem.start \in Int /\ stream.at \in Int
      /\ load.pos \in Int /\ load.bytesLeft \in Nat
  BY CurItemFacts, InputsAssumption DEF TypeInv, TypeOK
<1>2. /\ skip \in Nat /\ n - skip \in Nat /\ take \in Nat
      /\ load.bytesLeft - take \in Nat
  BY <1>1
<1>3. load' = [pos |-> load.pos + skip + take,
               left |-> Part(stream.at + skip + take, stream.at + n),
               bytesLeft |-> load.bytesLeft - take,
               buffer |-> AppendView(load.buffer, stream.at + skip, take)]
  BY DEF NextChunk
<1> HIDE DEF skip, take
<1>4. Part(stream.at + skip + take, stream.at + n) \in Parts
  BY <1>1, <1>2 DEF Part, Parts
<1>5. /\ IsBuffer(load'.buffer) /\ load'.buffer.size \in Nat
  <2>1. load'.buffer = AppendView(load.buffer, stream.at + skip, take)
    BY <1>3
  <2>2. /\ IsBuffer(load.buffer) /\ load.buffer.size \in Nat
        /\ stream.at + skip \in Int
    BY <1>1, <1>2 DEF TypeInv, TypeOK
  <2> QED BY <1>2, <2>1, <2>2, AppendViewFacts
<1>6. load'.pos \in Int /\ load'.left \in Parts /\ load'.bytesLeft \in Nat
  BY <1>1, <1>2, <1>3, <1>4
<1>7. stream' \in [at : Int, end : Int, live : BOOLEAN] /\ fetched' \in Nat
  BY <1>1 DEF NextChunk, TypeInv, TypeOK
<1>8. TypeOK'
  BY <1>5, <1>6, <1>7 DEF TypeInv, TypeOK, NextChunk, N
<1>9. RequestWithin'
  BY DEF TypeInv, RequestWithin, NextChunk, CurItem
<1> QED BY <1>8, <1>9 DEF TypeInv

LEMMA TypeInvNext == TypeInv /\ [Next]_vars => TypeInv'
<1> SUFFICES ASSUME TypeInv, [Next]_vars PROVE TypeInv'
  OBVIOUS
<1> USE CurItemFacts, EmptyBufferFacts, InputsAssumption
<1>1. CASE UserCall
  <2>1. CASE ReadNothing
    BY <2>1 DEF ReadNothing, MayRead, ReadUnchanged, Result, TypeInv, TypeOK,
                RequestWithin, N
  <2>2. CASE \E size \in Sizes : Read(size) \/ ReadInto(size)
    BY <2>2, FindItemType DEF Read, ReadInto
  <2>3. CASE \E offset \in Offsets : SeekSet(offset) \/ SeekCur(offset)
    BY <2>3 DEF SeekSet, SeekCur, SeekTo, TypeInv, TypeOK, RequestWithin, N
  <2>4. CASE Close
    <3>1. state' \in [pos : Int, left : Parts]
      BY <2>4, NoneFacts DEF Close, TypeInv, TypeOK
    <3> QED BY <2>4, <3>1, NoneFacts DEF Close, TypeInv, TypeOK, RequestWithin, N
  <2> QED BY <1>1, <2>1, <2>2, <2>3, <2>4 DEF UserCall
<1>2. CASE Work
  <2>1. CASE OpenGroup
    <3>1. stream' \in [at : Int, end : Int, live : BOOLEAN]
      BY <2>1, GroupEndType DEF OpenGroup, TypeInv, TypeOK, Items, N
    <3>2. state' \in [pos : Int, left : Parts] /\ NoPart \in Parts
      BY <2>1 DEF OpenGroup, TypeInv, NoPart, Part, Parts
    <3>3. StartLoad(CurItem.start, NoPart) /\ TypeOK /\ CurItem.start \in Int
      BY <2>1 DEF OpenGroup, TypeInv
    <3>4. /\ load'.pos \in Int /\ load'.left \in Parts /\ load'.bytesLeft \in Nat
          /\ IsBuffer(load'.buffer) /\ load'.buffer.size \in Nat
      BY <3>2, <3>3, StartLoadFacts
    <3> QED BY <2>1, <3>1, <3>2, <3>4
            DEF OpenGroup, TypeInv, TypeOK, RequestWithin, N, CurItem
  <2>2. CASE ReuseStream
    <3>1. StartLoad(state.pos, state.left) /\ TypeOK
          /\ state.pos \in Int /\ state.left \in Parts
      BY <2>2 DEF ReuseStream, TypeInv, TypeOK
    <3>2. /\ load'.pos \in Int /\ load'.left \in Parts /\ load'.bytesLeft \in Nat
          /\ IsBuffer(load'.buffer) /\ load'.buffer.size \in Nat
      BY <3>1, StartLoadFacts
    <3> QED BY <2>2, <3>2
            DEF ReuseStream, TypeInv, TypeOK, RequestWithin, N, CurItem
  <2>3. CASE NoStreamFound \/ OpenFails
    BY <2>3, RaiseType DEF NoStreamFound, OpenFails, TypeInv, TypeOK, Exceptions
  <2>4. CASE \E n \in ChunkSizes : NextChunk(n) \/ Interrupted(n)
    <3> PICK n \in ChunkSizes : NextChunk(n) \/ Interrupted(n)
      BY <2>4
    <3>1. CASE Interrupted(n)
      <4>1. /\ stream' \in [at : Int, end : Int, live : BOOLEAN]
            /\ fetched' \in Nat
        <5>1. stream \in [at : Int, end : Int, live : BOOLEAN] /\ fetched \in Nat
          BY Zenon DEF TypeInv, TypeOK
        <5>2. stream' = [stream EXCEPT !.at = @ + n] /\ fetched' = fetched + n
          BY <3>1 DEF Interrupted
        <5> QED BY <5>1, <5>2
      <4> QED BY <3>1, <4>1, RaiseType DEF Interrupted, Exceptions
    <3> QED BY <3>1, NextChunkType
  <2>5. CASE StreamFails \/ StreamExhausted
    BY <2>5, RaiseType DEF StreamFails, StreamExhausted, TypeInv, TypeOK, Exceptions
  <2>6. CASE FinishLoad
    <3>1. state' \in [pos : Int, left : Parts] /\ IsBuffer(buf')
      BY <2>6 DEF FinishLoad, TypeInv, TypeOK
    <3> QED BY <2>6, <3>1, NoneFacts
            DEF FinishLoad, TypeInv, TypeOK, RequestWithin, N, CurItem
  <2>7. CASE CopyOut
    <3> DEFINE data == ReadAt(buf, position - CurItem.start, call)
    <3>1. position - CurItem.start \in Nat /\ call \in Nat /\ IsBuffer(buf)
      <4>1. CurItem.start <= position /\ CurItem.start \in Int /\ position \in Int
        <5>1. TypeOK /\ pc # "idle" /\ position \in Int
          BY <2>7 DEF CopyOut, TypeInv, TypeOK
        <5> QED BY <5>1, CurItemFacts DEF TypeInv, RequestWithin, Within
      <4>2. call \in Nat /\ IsBuffer(buf)
        BY Zenon DEF TypeInv, TypeOK
      <4> QED BY <4>1, <4>2
    <3>2. IsBuffer(data) /\ data.size \in Nat
      BY <3>1, ReadAtFacts
    <3>3. /\ ret' = [status |-> "ok", from |-> position, data |-> data]
          /\ position' = position + data.size
      BY <2>7 DEF CopyOut, Result
    <3> HIDE DEF data
    <3>4. ret'.status = "ok" /\ ret'.from = position /\ ret'.data = data
      BY <3>3
    <3>5. position' \in Int /\ pc' = "idle"
      BY <2>7, <3>2, <3>3 DEF CopyOut, TypeInv, TypeOK
    <3> QED BY <2>7, <3>2, <3>4, <3>5 DEF CopyOut, TypeInv, TypeOK, RequestWithin, N
  <2> QED BY <1>2, <2>1, <2>2, <2>3, <2>4, <2>5, <2>6, <2>7 DEF Work
<1>3. CASE UNCHANGED vars
  BY <1>3 DEF vars, TypeInv, TypeOK, RequestWithin, N, CurItem
<1> QED BY <1>1, <1>2, <1>3 DEF Next

(* Every variable of the reader keeps its type, whatever the plans, the    *)
(* chunks, the faults and the calls of the user.                           *)
THEOREM TypeCorrect == Spec => []TypeOK
<1>1. Spec => []TypeInv
  BY TypeInvInit, TypeInvNext, PTL DEF Spec
<1> QED BY <1>1, PTL DEF TypeInv

-----------------------------------------------------------------------------
(* The bytes that are returned.  The inductive invariant says what the     *)
(* reader's arithmetic means as long as no load failed over another item's *)
(* buffer: which bytes the buffer holds, and where in the object the       *)
(* stream and the leftover are.                                            *)

(* The leftover is the part of the object from pos to where the stream is. *)
Aligned(pos, left) ==
  IF PartLen(left) > 0 THEN left = Part(pos, stream.at)
  ELSE PartLen(left) = 0 /\ stream.at = pos

Holds(b, item) == IsRange(b, item.start) /\ b.size = Length(item)

BufferInv ==
  (pc \in {"idle", "copy"} /\ buf # NoBuffer) =>
    /\ Holds(buf, CurItem)
    /\ state.pos = CurItem.end /\ Aligned(state.pos, state.left)

(* An item that is not the first of its group is only loaded when the      *)
(* stream is before it.                                                    *)
StreamInv ==
  (pc = "stream" /\ stream # NoStream /\ ~FirstOfGroup(Items, plan.gap, cur)) =>
    state.pos <= CurItem.start /\ Aligned(state.pos, state.left)

LoadInv ==
  pc = "load" =>
    /\ IsRange(load.buffer, CurItem.start)
    /\ load.buffer.size + load.bytesLeft = Length(CurItem)
    /\ IF load.pos < CurItem.start THEN load.buffer.size = 0
       ELSE load.pos = CurItem.start + load.buffer.size
    /\ Aligned(load.pos, load.left)
    /\ Loading => PartLen(load.left) = 0

NoBufferInv ==
  buf = NoBuffer => /\ stream = NoStream \/ FirstOfGroup(Items, plan.gap, cur)
                    /\ pc # "copy"

RetInv ==
  ret.status = "ok" =>
    IsRange(ret.data, ret.from) /\ (pc = "idle" => ret.data.size = call)

IInv ==
  /\ TypeInv
  /\ NoBufferInv
  /\ ~poisoned => BufferInv /\ StreamInv /\ LoadInv /\ RetInv

LEMMA IInvInit == Init => IInv
<1> SUFFICES ASSUME Init PROVE IInv
  OBVIOUS
<1>1. TypeInv
  BY TypeInvInit
<1>2. pc = "idle" /\ buf = NoBuffer /\ stream = NoStream /\ ret.status = "none"
  BY DEF Init
<1> QED BY <1>1, <1>2 DEF IInv, NoBufferInv, BufferInv, StreamInv, LoadInv, RetInv

LEMMA FindItemIInv ==
  ASSUME IInv, NEW size \in Nat, MayRead, FindItem(size), TypeInv'
  PROVE  IInv'
<1>0. /\ UNCHANGED <<plan, position, stream, state, load, poisoned>>
      /\ TypeOK /\ pc = "idle"
  BY DEF FindItem, ReadUnchanged, IInv, TypeInv, MayRead
<1>1. CASE FindInCurrent(size)
  <2>1. /\ UNCHANGED <<cur, iter, buf, ret>> /\ call' = size
        /\ pc' = IF buf = NoBuffer THEN "stream" ELSE "copy"
    BY <1>1 DEF FindInCurrent
  <2>2. NoBufferInv'
    BY <1>0, <2>1 DEF IInv, NoBufferInv, Items
  <2>3. StreamInv'
    BY <1>0, <2>1 DEF IInv, NoBufferInv, StreamInv, Items
  <2>4. ~poisoned => BufferInv' /\ LoadInv' /\ RetInv'
    BY <1>0, <2>1
    DEF IInv, BufferInv, LoadInv, RetInv, Holds, Aligned, CurItem, IsRange
  <2> QED BY <1>0, <2>2, <2>3, <2>4 DEF IInv
<1>2. CASE OutOfOrder(size) \/ FindNowhere(size)
  <2>1. UNCHANGED <<cur, buf, pc>> /\ ret' = Failed("ValueError")
    BY <1>2 DEF OutOfOrder, FindNowhere
  <2>2. NoBufferInv' /\ ~(pc' = "stream") /\ ~(pc' = "load") /\ ret'.status # "ok"
    BY <1>0, <2>1, FailedFacts DEF IInv, NoBufferInv, Items
  <2>3. ~poisoned => BufferInv'
    BY <1>0, <2>1 DEF IInv, BufferInv, Holds, Aligned, CurItem
  <2> QED BY <1>0, <2>2, <2>3 DEF IInv, StreamInv, LoadInv, RetInv
<1>3. CASE FindInNext(size)
  <2>1. /\ cur' = iter /\ iter <= N /\ buf # NoBuffer /\ pc' = "stream"
        /\ UNCHANGED <<buf, ret>>
    BY <1>3 DEF FindInNext, Advancing
  <2>2. plan \in Plans /\ cur \in 1..Len(plan.items) /\ iter \in 1..Len(plan.items)
        /\ cur < iter
    BY <1>0, <2>1, CurItemFacts DEF TypeOK, N
  <2>3. CurItem.end <= CurItem'.start
    BY <1>0, <2>1, <2>2, ItemsSorted DEF CurItem
  <2>4. ~poisoned => StreamInv'
    BY <1>0, <2>1, <2>3 DEF IInv, BufferInv, StreamInv, Aligned
  <2>5. NoBufferInv' /\ BufferInv' /\ LoadInv'
    BY <2>1 DEF NoBufferInv, BufferInv, LoadInv
  <2>6. ~poisoned => RetInv'
    BY <1>0, <2>1 DEF IInv, RetInv
  <2> QED BY <1>0, <2>4, <2>5, <2>6 DEF IInv
<1> QED BY <1>1, <1>2, <1>3 DEF FindItem

(* A load that raises with nothing buffered leaves nothing to confuse; one *)
(* that raises with another item buffered poisons the reader.              *)
LEMMA RaiseIInv ==
  ASSUME IInv, NEW status \in Exceptions, RaiseFromLoad(status), TypeInv',
         stream = NoStream => stream' = NoStream
  PROVE  IInv'
<1>1. /\ pc' = "idle" /\ ret'.status # "ok" /\ UNCHANGED <<plan, cur, buf>>
      /\ poisoned' = (poisoned \/ buf # NoBuffer)
  BY FailedFacts DEF RaiseFromLoad, Exceptions
<1>2. NoBufferInv'
  BY <1>1 DEF IInv, NoBufferInv, Items
<1>3. ~poisoned' => BufferInv'
  BY <1>1 DEF BufferInv
<1> QED BY <1>1, <1>2, <1>3 DEF IInv, StreamInv, LoadInv, RetInv

(* Phase 1 establishes LoadInv from a stream that is not past the item.    *)
LEMMA StartLoadIInv ==
  ASSUME TypeOK, NEW pos \in Int, NEW left \in Parts, StartLoad(pos, left),
         pos <= CurItem.start, pc' = "load",
         UNCHANGED <<plan, cur>>, stream'.at \in Int,
         IF PartLen(left) > 0 THEN left = Part(pos, stream'.at)
         ELSE PartLen(left) = 0 /\ stream'.at = pos
  PROVE  LoadInv'
<1> DEFINE want == Length(CurItem)
           inLeft == /\ PartLen(left) > 0
                     /\ pos <= CurItem.start /\ CurItem.start < pos + PartLen(left)
           from == left.lo + (CurItem.start - pos)
           take == IF want < left.hi - from THEN want ELSE left.hi - from
           at == stream'.at
<1>1. /\ want \in Nat /\ want > 0 /\ CurItem.start \in Int
      /\ left.lo \in Int /\ left.hi \in Int /\ CurItem' = CurItem
  BY CurItemFacts DEF Parts, CurItem, Length
<1>2. CASE inLeft
  <2>1. left.lo = pos /\ left.hi = at
    BY <1>2 DEF Part
  <2>2. /\ from = CurItem.start /\ take \in Nat /\ take > 0 /\ take <= want
        /\ from + take <= at /\ (take < want => from + take = at)
    BY <1>1, <1>2, <2>1 DEF PartLen
  <2>3. load' = [pos |-> CurItem.start + take,
                 left |-> Part(from + take, left.hi),
                 bytesLeft |-> want - take,
                 buffer |-> AppendView(EmptyBuffer, from, take)]
    BY <1>2 DEF StartLoad
  <2>4. /\ load'.pos = CurItem.start + take /\ load'.bytesLeft = want - take
        /\ load'.left = Part(CurItem.start + take, at)
        /\ load'.buffer = AppendView(EmptyBuffer, from, take)
    BY <2>1, <2>2, <2>3
  <2>5. /\ load'.buffer.size = take /\ IsRange(load'.buffer, CurItem.start)
    <3>1. /\ AppendView(EmptyBuffer, from, take).size = EmptyBuffer.size + take
          /\ \A f \in Int : IsRange(EmptyBuffer, f) /\ (take > 0 => from = f + EmptyBuffer.size)
               => IsRange(AppendView(EmptyBuffer, from, take), f)
      BY <1>1, <2>2, EmptyBufferFacts, AppendViewFacts
    <3>2. EmptyBuffer.size = 0 /\ IsRange(EmptyBuffer, CurItem.start)
      BY <1>1, EmptyBufferFacts
    <3> QED BY <1>1, <2>2, <2>4, <3>1, <3>2
  <2>6. PartLen(load'.left) = at - (CurItem.start + take)
    BY <2>4 DEF PartLen, Part
  <2>7. Aligned(load.pos, load.left)'
    BY <1>1, <2>2, <2>4, <2>6 DEF Aligned, PartLen, Part
  <2>8. Loading' => PartLen(load'.left) = 0
    BY <1>1, <2>2, <2>4, <2>6 DEF Loading
  <2> HIDE DEF want, from, take
  <2> QED BY <1>1, <2>2, <2>4, <2>5, <2>7, <2>8 DEF LoadInv, want, PartLen
<1>3. CASE ~inLeft
  <2>1. load' = [pos |-> pos + PartLen(left), left |-> NoPart,
                 bytesLeft |-> want, buffer |-> EmptyBuffer]
    BY <1>3 DEF StartLoad
  <2>2. pos + PartLen(left) = at /\ at <= CurItem.start
    BY <1>1, <1>3 DEF PartLen, Part
  <2>3. load'.pos = at /\ load'.bytesLeft = want /\ load'.buffer = EmptyBuffer
        /\ PartLen(load'.left) = 0
    BY <2>1, <2>2 DEF NoPart, Part, PartLen
  <2>4. load'.buffer.size = 0 /\ IsRange(load'.buffer, CurItem.start)
    BY <1>1, <2>3, EmptyBufferFacts
  <2>5. Aligned(load.pos, load.left)'
    BY <2>3 DEF Aligned, PartLen
  <2> HIDE DEF want
  <2> QED BY <1>1, <2>2, <2>3, <2>4, <2>5 DEF LoadInv, want, PartLen
<1> QED BY <1>2, <1>3

(* Phases 2 and 3 preserve it.                                             *)
LEMMA NextChunkIInv ==
  ASSUME IInv, NEW n \in ChunkSizes, NextChunk(n), ~poisoned
  PROVE  LoadInv'
<1> DEFINE skip == IF load.pos >= CurItem.start THEN 0
                   ELSE IF load.pos + n <= CurItem.start THEN n
                   ELSE CurItem.start - load.pos
           take == IF load.bytesLeft < n - skip THEN load.bytesLeft ELSE n - skip
<1>1. /\ n \in Nat /\ n > 0 /\ CurItem.start \in Int /\ Length(CurItem) \in Nat
      /\ stream.at \in Int /\ load.pos \in Int /\ load.bytesLeft \in Nat
      /\ IsBuffer(load.buffer) /\ load.buffer.size \in Nat /\ Length(CurItem) > 0
  <2>1. /\ TypeOK /\ stream \in [at : Int, end : Int, live : BOOLEAN]
        /\ load.pos \in Int /\ load.bytesLeft \in Nat
        /\ IsBuffer(load.buffer) /\ load.buffer.size \in Nat
    BY Zenon DEF IInv, TypeInv, TypeOK
  <2>2. stream.at \in Int /\ n \in Nat /\ n > 0
    BY <2>1, InputsAssumption
  <2> QED BY <2>1, <2>2, CurItemFacts DEF Length
<1>2. /\ IsRange(load.buffer, CurItem.start)
      /\ load.buffer.size + load.bytesLeft = Length(CurItem)
      /\ IF load.pos < CurItem.start THEN load.buffer.size = 0
         ELSE load.pos = CurItem.start + load.buffer.size
      /\ stream.at = load.pos
      /\ load.pos < CurItem.start \/ load.bytesLeft > 0
  BY DEF IInv, LoadInv, NextChunk, Loading, Aligned
<1>3. /\ load'.pos = load.pos + skip + take
      /\ load'.left = Part(stream.at + skip + take, stream.at + n)
      /\ load'.bytesLeft = load.bytesLeft - take
      /\ load'.buffer = AppendView(load.buffer, stream.at + skip, take)
      /\ stream'.at = stream.at + n /\ UNCHANGED <<plan, cur, pc>>
  BY DEF NextChunk, IInv, TypeInv, TypeOK
<1>4. /\ skip \in Nat /\ take \in Nat /\ skip + take <= n
      /\ take <= load.bytesLeft
      /\ take > 0 => stream.at + skip = CurItem.start + load.buffer.size
      /\ skip + take < n => load.bytesLeft = take /\ load.pos + skip >= CurItem.start
      /\ load.pos < CurItem.start => load.pos + skip <= CurItem.start
      /\ load.pos >= CurItem.start => skip = 0
      /\ load.pos + skip < CurItem.start => take = 0
  BY <1>1, <1>2
<1> HIDE DEF skip, take
<1>5. /\ load'.buffer.size = load.buffer.size + take
      /\ IsRange(load'.buffer, CurItem.start)
  BY <1>1, <1>2, <1>3, <1>4, AppendViewFacts
<1>6. PartLen(load'.left) = n - (skip + take)
  BY <1>1, <1>3, <1>4 DEF PartLen, Part
<1>7. Aligned(load.pos, load.left)'
  BY <1>1, <1>2, <1>3, <1>4, <1>6 DEF Aligned, PartLen, Part
<1>8. Loading' => PartLen(load'.left) = 0
  <2>1. CurItem' = CurItem
    BY <1>3 DEF CurItem
  <2>2. SUFFICES ASSUME skip + take < n
                 PROVE  ~(load'.pos < CurItem.start \/ load'.bytesLeft > 0)
    BY <2>1, <1>1, <1>4, <1>6 DEF Loading
  <2> QED BY <2>2, <1>1, <1>3, <1>4
<1>9. IF load'.pos < CurItem.start THEN load'.buffer.size = 0
      ELSE load'.pos = CurItem.start + load'.buffer.size
  <2>1. CASE load.pos < CurItem.start
    <3>1. load.buffer.size = 0 /\ load.pos + skip <= CurItem.start
      BY <1>1, <1>2, <1>4, <2>1
    <3>2. load'.pos = load.pos + skip + take /\ load'.buffer.size = take
      BY <1>1, <1>3, <1>4, <1>5, <3>1
    <3> QED BY <1>1, <1>4, <3>1, <3>2
  <2>2. CASE ~(load.pos < CurItem.start)
    <3>1. load.pos = CurItem.start + load.buffer.size /\ skip = 0
      BY <1>1, <1>2, <1>4, <2>2
    <3>2. load'.pos = load.pos + take
      BY <1>1, <1>3, <1>4, <3>1
    <3> QED BY <1>1, <1>4, <1>5, <3>1, <3>2
  <2> QED BY <2>1, <2>2
<1>10. load'.buffer.size + load'.bytesLeft = Length(CurItem)
  BY <1>1, <1>2, <1>3, <1>4, <1>5
<1> QED BY <1>3, <1>5, <1>7, <1>8, <1>9, <1>10 DEF LoadInv, CurItem, PartLen

LEMMA WorkIInv ==
  ASSUME IInv, Work, TypeInv'
  PROVE  IInv'
<1>0. TypeOK /\ TypeInv
  BY DEF IInv, TypeInv
<1>1. CASE OpenGroup
  <2>1. /\ StartLoad(CurItem.start, NoPart) /\ pc' = "load"
        /\ FirstOfGroup(Items, plan.gap, cur) /\ stream'.at = CurItem.start
        /\ UNCHANGED <<plan, cur, iter, buf, ret, call, poisoned>>
    BY <1>1 DEF OpenGroup
  <2>2. CurItem.start \in Int /\ NoPart \in Parts /\ PartLen(NoPart) = 0
    BY <1>0, CurItemFacts DEF NoPart, Part, Parts, PartLen
  <2>3. LoadInv'
    BY <1>0, <2>1, <2>2, StartLoadIInv
  <2>4. NoBufferInv' /\ BufferInv' /\ StreamInv'
    BY <2>1 DEF NoBufferInv, BufferInv, StreamInv, Items
  <2>5. ~poisoned => RetInv'
    BY <2>1 DEF IInv, RetInv
  <2> QED BY <2>1, <2>3, <2>4, <2>5 DEF IInv
<1>2. CASE ReuseStream
  <2>1. /\ StartLoad(state.pos, state.left) /\ pc = "stream" /\ pc' = "load"
        /\ ~FirstOfGroup(Items, plan.gap, cur) /\ stream # NoStream
        /\ UNCHANGED <<plan, cur, iter, buf, stream, ret, call, poisoned>>
    BY <1>2 DEF ReuseStream
  <2>2. state.pos \in Int /\ state.left \in Parts /\ stream'.at \in Int
    BY <1>0, <2>1 DEF TypeOK
  <2>3. ~poisoned => LoadInv'
    <3> SUFFICES ASSUME ~poisoned PROVE LoadInv'
      OBVIOUS
    <3>1. state.pos <= CurItem.start /\ Aligned(state.pos, state.left)
      BY <2>1 DEF IInv, StreamInv
    <3> QED BY <1>0, <2>1, <2>2, <3>1, StartLoadIInv DEF Aligned
  <2>4. NoBufferInv' /\ BufferInv' /\ StreamInv'
    BY <2>1 DEF IInv, NoBufferInv, BufferInv, StreamInv, Items
  <2>5. ~poisoned => RetInv'
    BY <2>1 DEF IInv, RetInv
  <2> QED BY <2>1, <2>3, <2>4, <2>5 DEF IInv
<1>3. CASE NoStreamFound \/ OpenFails
  BY <1>3, RaiseIInv DEF NoStreamFound, OpenFails, Exceptions
<1>4. CASE StreamFails \/ StreamExhausted
  <2>1. stream = NoStream => stream' = NoStream
    BY <1>4 DEF StreamFails, StreamExhausted, NoStream
  <2> QED BY <1>4, <2>1, RaiseIInv DEF StreamFails, StreamExhausted, Exceptions
<1>5. CASE \E n \in ChunkSizes : Interrupted(n)
  <2>1. stream = NoStream => stream' = NoStream
    BY <1>5 DEF Interrupted, NoStream
  <2> QED BY <1>5, <2>1, RaiseIInv DEF Interrupted, Exceptions
<1>6. CASE \E n \in ChunkSizes : NextChunk(n)
  <2> PICK n \in ChunkSizes : NextChunk(n)
    BY <1>6
  <2>1. /\ pc = "load" /\ stream.live
        /\ UNCHANGED <<plan, cur, buf, pc, ret, call, poisoned>>
    BY DEF NextChunk, Loading
  <2>2. ~poisoned => LoadInv'
    BY NextChunkIInv
  <2>3. NoBufferInv'
    BY <2>1 DEF IInv, NoBufferInv, NoStream, Items
  <2>4. BufferInv' /\ StreamInv'
    BY <2>1 DEF BufferInv, StreamInv
  <2>5. ~poisoned => RetInv'
    BY <2>1 DEF IInv, RetInv
  <2> QED BY <2>1, <2>2, <2>3, <2>4, <2>5 DEF IInv
<1>7. CASE FinishLoad
  <2>1. /\ pc = "load" /\ ~Loading /\ pc' = "copy" /\ buf' = load.buffer
        /\ state'.pos = load.pos /\ state'.left = load.left
        /\ UNCHANGED <<plan, cur, stream, ret, call, poisoned>>
    BY <1>7 DEF FinishLoad
  <2>2. /\ CurItem.start \in Int /\ CurItem.end \in Int
        /\ CurItem.start < CurItem.end
        /\ load.pos \in Int /\ load.buffer.size \in Nat /\ load.bytesLeft \in Nat
    BY <1>0, CurItemFacts DEF TypeOK
  <2>3. NoBufferInv'
    <3>1. buf' # NoBuffer
      BY <2>1, <2>2, EmptyBufferFacts
    <3> QED BY <3>1 DEF NoBufferInv
  <2>4. ~poisoned => BufferInv'
    <3> SUFFICES ASSUME ~poisoned PROVE BufferInv'
      OBVIOUS
    <3>1. /\ IsRange(load.buffer, CurItem.start)
          /\ load.buffer.size + load.bytesLeft = Length(CurItem)
          /\ load.pos = CurItem.start + load.buffer.size
          /\ load.bytesLeft = 0 /\ Aligned(load.pos, load.left)
      BY <2>1, <2>2 DEF IInv, LoadInv, Loading
    <3>2. load.buffer.size = Length(CurItem) /\ load.pos = CurItem.end
      BY <2>2, <3>1 DEF Length
    <3> QED BY <2>1, <3>1, <3>2 DEF BufferInv, Holds, Aligned, CurItem
  <2>5. StreamInv' /\ LoadInv' /\ (~poisoned => RetInv')
    BY <2>1 DEF IInv, StreamInv, LoadInv, RetInv
  <2> QED BY <2>1, <2>3, <2>4, <2>5 DEF IInv
<1>8. CASE CopyOut
  <2> DEFINE data == ReadAt(buf, position - CurItem.start, call)
  <2>1. /\ pc = "copy" /\ pc' = "idle"
        /\ ret' = [status |-> "ok", from |-> position, data |-> data]
        /\ UNCHANGED <<plan, cur, buf, stream, state, call, poisoned>>
    BY <1>8 DEF CopyOut, Result
  <2>2. NoBufferInv' /\ StreamInv' /\ LoadInv' /\ (~poisoned => BufferInv')
    BY <2>1 DEF IInv, NoBufferInv, StreamInv, LoadInv, BufferInv, Holds, Aligned,
                CurItem, Items
  <2>3. ~poisoned => RetInv'
    <3> SUFFICES ASSUME ~poisoned PROVE RetInv'
      OBVIOUS
    <3>1. /\ CurItem.start \in Int /\ CurItem.end \in Int /\ position \in Int
          /\ call \in Nat /\ IsBuffer(buf)
          /\ CurItem.start <= position /\ position + call <= CurItem.end
      <4>1. position \in Int /\ call \in Nat /\ IsBuffer(buf)
        BY <1>0, Zenon DEF TypeOK
      <4> QED BY <1>0, <2>1, <4>1, CurItemFacts DEF TypeInv, RequestWithin, Within
    <3>2. CASE buf = NoBuffer
      BY <2>1, <3>2 DEF IInv, NoBufferInv
    <3>3. CASE buf # NoBuffer
      <4>1. Holds(buf, CurItem)
        BY <2>1, <3>3 DEF IInv, BufferInv
      <4>2. position - CurItem.start \in Nat
            /\ (position - CurItem.start) + call <= buf.size
        BY <3>1, <4>1 DEF Holds, Length
      <4>3. data.size = call
            /\ IsRange(data, CurItem.start + (position - CurItem.start))
        BY <3>1, <4>1, <4>2, ReadAtFacts DEF Holds
      <4>4. CurItem.start + (position - CurItem.start) = position
        BY <3>1
      <4> HIDE DEF data
      <4> QED BY <2>1, <4>3, <4>4 DEF RetInv
    <3> QED BY <3>2, <3>3
  <2> QED BY <2>1, <2>2, <2>3 DEF IInv
<1> QED BY <1>1, <1>2, <1>3, <1>4, <1>5, <1>6, <1>7, <1>8 DEF Work

LEMMA IInvNext == IInv /\ [Next]_vars => IInv'
<1> SUFFICES ASSUME IInv, [Next]_vars PROVE IInv'
  OBVIOUS
<1>0. TypeInv /\ TypeInv'
  BY TypeInvNext DEF IInv
<1>1. CASE UserCall
  <2>1. CASE ReadNothing
    <3>1. /\ pc = "idle" /\ ret'.status = "ok" /\ ret'.data = EmptyBuffer /\ call' = 0
          /\ ret'.from = position
          /\ UNCHANGED <<plan, cur, buf, pc, stream, state, load, poisoned>>
      BY <2>1 DEF ReadNothing, MayRead, ReadUnchanged, Result
    <3>2. RetInv'
      BY <1>0, <3>1, EmptyBufferFacts DEF RetInv, TypeInv, TypeOK
    <3>3. ~poisoned => BufferInv' /\ StreamInv' /\ LoadInv'
      BY <3>1 DEF IInv, BufferInv, StreamInv, LoadInv, Holds, Aligned, CurItem, Items
    <3> QED BY <1>0, <3>1, <3>2, <3>3 DEF IInv, NoBufferInv, Items
  <2>2. CASE \E size \in Sizes : Read(size) \/ ReadInto(size)
    BY <1>0, <2>2, FindItemIInv, InputsAssumption DEF Read, ReadInto
  <2>3. CASE \E offset \in Offsets : SeekSet(offset) \/ SeekCur(offset)
    <3>1. UNCHANGED <<plan, cur, buf, pc, stream, state, load, ret, call, poisoned>>
          /\ pc = "idle"
      BY <2>3 DEF SeekSet, SeekCur, SeekTo
    <3>2. ~poisoned => BufferInv' /\ StreamInv' /\ LoadInv' /\ RetInv'
      BY <3>1 DEF IInv, BufferInv, StreamInv, LoadInv, RetInv, Holds, Aligned,
                  CurItem, Items
    <3> QED BY <1>0, <3>1, <3>2 DEF IInv, NoBufferInv, Items
  <2>4. CASE Close
    <3>1. /\ buf' = NoBuffer /\ stream' = NoStream /\ pc = "idle"
          /\ UNCHANGED <<pc, ret, call, poisoned>>
      BY <2>4 DEF Close
    <3>2. ~poisoned => BufferInv' /\ StreamInv' /\ LoadInv' /\ RetInv'
      BY <3>1 DEF IInv, BufferInv, StreamInv, LoadInv, RetInv
    <3> QED BY <1>0, <3>1, <3>2 DEF IInv, NoBufferInv
  <2> QED BY <1>1, <2>1, <2>2, <2>3, <2>4 DEF UserCall
<1>2. CASE Work
  BY <1>0, <1>2, WorkIInv
<1>3. CASE UNCHANGED vars
  <2>1. ~poisoned => BufferInv' /\ StreamInv' /\ LoadInv' /\ RetInv'
    BY <1>3 DEF vars, IInv, BufferInv, StreamInv, LoadInv, RetInv, Holds, Aligned,
                CurItem, Items, Loading
  <2> QED BY <1>0, <1>3, <2>1 DEF vars, IInv, NoBufferInv, Items
<1> QED BY <1>1, <1>2, <1>3 DEF Next

LEMMA Invariance == Spec => []IInv
BY IInvInit, IInvNext, PTL DEF Spec

(* A read that returns, returns the bytes of the object at the position of *)
(* the call, and all that were asked for, until a load fails over another  *)
(* item's buffer: for every plan, chunking, fault and sequence of calls.   *)
THEOREM ReadsAreRight == Spec => []RightUnlessPoisoned
<1>1. IInv => RightUnlessPoisoned
  BY DEF IInv, RetInv, RightUnlessPoisoned, RightBytes
<1> QED BY <1>1, Invariance, PTL

(* Between two items the recorded stream position and the leftover         *)
(* describe the chunk that was really delivered last.                      *)
THEOREM StreamStaysInStep == Spec => []StreamInStep
<1>1. IInv => StreamInStep
  BY DEF IInv, BufferInv, StreamInStep, Aligned
<1> QED BY <1>1, Invariance, PTL

(* The comment of phase 3 of _get_item_buffer.                             *)
THEOREM PhaseThreePosition == Spec => []PositionIsExtracted
<1>1. IInv => PositionIsExtracted
  <2> SUFFICES ASSUME IInv, pc = "load", ~poisoned PROVE PositionIsExtracted
    BY DEF PositionIsExtracted
  <2>1. /\ IF load.pos < CurItem.start THEN load.buffer.size = 0
           ELSE load.pos = CurItem.start + load.buffer.size
        /\ Aligned(load.pos, load.left)
        /\ Loading => PartLen(load.left) = 0
    BY DEF IInv, LoadInv
  <2>2. load.pos \in Int /\ CurItem.start \in Int
    BY CurItemFacts DEF IInv, TypeInv, TypeOK
  <2> QED BY <2>1, <2>2 DEF PositionIsExtracted, Aligned
<1> QED BY <1>1, Invariance, PTL

-----------------------------------------------------------------------------
(* torch.distributed.checkpoint gives the load up at the first exception.  *)
(* As long as the user has not read again after one, a poisoned reader was *)
(* never read from.                                                        *)
ErrorInv == retries = 0 => /\ poisoned => pc = "idle" /\ ~NoError
                           /\ ~NoError => pc = "idle"
                           /\ NoError => iter = cur + 1

LEMMA RetriesGrow ==
  ASSUME TypeInv, [Next]_vars
  PROVE  /\ retries \in Nat /\ (retries' = 0 => retries = 0)
<1>1. retries \in Nat
  BY InputsAssumption DEF TypeInv, TypeOK
<1>2. CASE \/ ReadNothing \/ \E size \in Sizes : Read(size) \/ ReadInto(size)
  BY <1>1, <1>2 DEF ReadNothing, Read, ReadInto, MayRead
<1>3. CASE UNCHANGED retries
  BY <1>1, <1>3
<1> QED
  BY <1>2, <1>3
  DEF Next, UserCall, Work, SeekSet, SeekCur, SeekTo, Close, NoStreamFound, OpenFails,
      StreamFails, StreamExhausted, Interrupted, OpenGroup, ReuseStream, FinishLoad,
      NextChunk, CopyOut, RaiseFromLoad, vars

LEMMA ErrorInvNext ==
  ASSUME TypeInv, ErrorInv, [Next]_vars
  PROVE  ErrorInv' /\ (retries' = 0 => cur' \in {cur, cur + 1})
<1> SUFFICES ASSUME retries' = 0, retries = 0
             PROVE  ErrorInv' /\ cur' \in {cur, cur + 1}
  BY RetriesGrow DEF ErrorInv
<1> USE DEF NoError
<1>1. CASE ReadNothing
  BY <1>1 DEF ReadNothing, MayRead, ReadUnchanged, Result, ErrorInv
<1>2. CASE \E size \in Sizes : Read(size) \/ ReadInto(size)
  <2> PICK size \in Sizes : MayRead /\ FindItem(size)
    BY <1>2 DEF Read, ReadInto
  <2>1. /\ NoError /\ retries' = 0 /\ pc = "idle" /\ ~poisoned' /\ iter = cur + 1
        /\ cur \in Int
    BY CurItemFacts DEF MayRead, ErrorInv, FindItem, ReadUnchanged, TypeInv, TypeOK
  <2>2. CASE FindInCurrent(size)
    BY <2>1, <2>2 DEF FindInCurrent, ErrorInv
  <2>3. CASE OutOfOrder(size) \/ FindNowhere(size)
    BY <2>1, <2>3, FailedFacts DEF OutOfOrder, FindNowhere, ErrorInv
  <2>4. CASE FindInNext(size)
    BY <2>1, <2>4 DEF FindInNext, ErrorInv
  <2> QED BY <2>2, <2>3, <2>4 DEF FindItem
<1>3. CASE \E offset \in Offsets : SeekSet(offset) \/ SeekCur(offset)
  BY <1>3 DEF SeekSet, SeekCur, SeekTo, ErrorInv
<1>4. CASE Close
  BY <1>4 DEF Close, ErrorInv
<1>5. ASSUME NEW status \in Exceptions, RaiseFromLoad(status), UNCHANGED retries
      PROVE  ErrorInv' /\ cur' \in {cur, cur + 1}
  BY <1>5, FailedFacts DEF RaiseFromLoad, ErrorInv, Exceptions
<1>6. CASE NoStreamFound \/ OpenFails \/ StreamFails \/ StreamExhausted
           \/ \E n \in ChunkSizes : Interrupted(n)
  BY <1>6, <1>5 DEF NoStreamFound, OpenFails, StreamFails, StreamExhausted,
                    Interrupted, Exceptions, RaiseFromLoad
<1>7. CASE OpenGroup \/ ReuseStream \/ FinishLoad \/ \E n \in ChunkSizes : NextChunk(n)
  BY <1>7 DEF OpenGroup, ReuseStream, FinishLoad, NextChunk, Loading, ErrorInv
<1>8. CASE CopyOut
  BY <1>8 DEF CopyOut, Result, ErrorInv
<1>9. CASE UNCHANGED vars
  BY <1>9 DEF vars, ErrorInv
<1> QED BY <1>1, <1>2, <1>3, <1>4, <1>6, <1>7, <1>8, <1>9 DEF Next, UserCall, Work

LEMMA ErrorInvariance == Spec => [](TypeInv /\ ErrorInv)
<1>1. Init => ErrorInv
  BY DEF Init, ErrorInv, NoError
<1>2. TypeInv /\ ErrorInv /\ [Next]_vars => (TypeInv /\ ErrorInv)'
  BY TypeInvNext, ErrorInvNext
<1> QED BY <1>1, <1>2, TypeInvInit, PTL DEF Spec

(* For a user who stops at the first exception every read that returns is  *)
(* right, whatever failed before.                                          *)
THEOREM ReadsAreRightWithoutRetry == MaxRetries = 0 => (Spec => []RightBytes)
<1> SUFFICES ASSUME MaxRetries = 0 PROVE Spec => []RightBytes
  OBVIOUS
<1>1. IInv /\ ErrorInv => RightBytes
  BY DEF IInv, TypeInv, TypeOK, RetInv, ErrorInv, NoError, RightBytes
<1> QED BY <1>1, Invariance, ErrorInvariance, PTL

(* ... and the items are loaded in the order of the plan, none skipped.    *)
THEOREM ItemsAreReadInOrder == Spec => ItemsInOrder
<1>1. TypeInv /\ ErrorInv /\ [Next]_vars => [retries' = 0 => cur' \in {cur, cur + 1}]_vars
  BY ErrorInvNext
<1> QED BY <1>1, ErrorInvariance, PTL DEF Spec, ItemsInOrder

-----------------------------------------------------------------------------
(* Progress.  The bytes reported so far are the running total of the item  *)
(* that the stream has come to, and what the stream is ahead of its end.   *)

Total ==
  CHOOSE T : RunningTotal(T, Items, plan.gap) /\ StreamTotal(Items, plan.gap) = T[N]

FetchedUpTo(i) ==
  /\ fetched = Total[i] + stream.at - Items[i].end
  /\ stream.end = GroupEnd(Items, plan.gap, i) /\ stream.at <= stream.end

Loaded == pc \in {"idle", "copy"} /\ buf # NoBuffer

CountInv ==
  /\ served = 1..(IF Loaded THEN cur ELSE cur - 1)
  /\ buf = NoBuffer => cur = 1
  /\ buf = NoBuffer /\ pc # "load" => fetched = 0
  /\ buf # NoBuffer /\ pc = "stream" =>
       cur > 1 /\ FetchedUpTo(cur - 1) /\ Items[cur-1].end <= stream.at
  /\ pc = "load" \/ Loaded => FetchedUpTo(cur)

ProgressInv == (NoError /\ retries = 0 /\ ~closed) => CountInv

LEMMA TotalFacts ==
  ASSUME TypeOK
  PROVE  /\ Items \in Seq(ByteRanges) /\ InOrder(Items) /\ plan.gap \in Nat /\ Len(Items) = N
         /\ N \in Nat \ {0} /\ RunningTotal(Total, Items, plan.gap)
         /\ StreamTotal(Items, plan.gap) = Total[N]
         /\ \A i \in 1..N : /\ Total[i] \in Int /\ Items[i].end \in Int
                            /\ GroupEnd(Items, plan.gap, i) \in Int
                            /\ Items[i].end <= GroupEnd(Items, plan.gap, i)
                            /\ Total[i] + GroupEnd(Items, plan.gap, i) - Items[i].end <= Total[N]
<1>1. /\ Items \in Seq(ByteRanges) /\ InOrder(Items) /\ plan.gap \in Nat /\ Len(Items) = N
      /\ N \in Nat \ {0} /\ \A i \in 1..Len(Items) : Items[i].end # Items[i].start
  BY ItemsSorted, PlanFacts DEF TypeOK, Items, N
<1>2. \E T : RunningTotal(T, Items, plan.gap) /\ StreamTotal(Items, plan.gap) = T[N]
  BY <1>1, StreamTotalFacts
<1>3. RunningTotal(Total, Items, plan.gap) /\ StreamTotal(Items, plan.gap) = Total[N]
  BY <1>2 DEF Total
<1>4. ASSUME NEW i \in 1..N
      PROVE  /\ Total[i] \in Int /\ Items[i].end \in Int
             /\ GroupEnd(Items, plan.gap, i) \in Int
             /\ Items[i].end <= GroupEnd(Items, plan.gap, i)
             /\ Total[i] + GroupEnd(Items, plan.gap, i) - Items[i].end <= Total[N]
  BY <1>1, <1>3, TotalOfGroup
<1> QED BY <1>1, <1>3, <1>4

(* Once a call raised or the reader is closed, that remains so for a user  *)
(* that stops there.                                                       *)
LEMMA ExactBefore ==
  ASSUME TypeInv, ErrorInv, [Next]_vars, (NoError /\ retries = 0 /\ ~closed)'
  PROVE  NoError /\ retries = 0 /\ ~closed
<1>1. retries \in Nat /\ retries = 0 /\ closed \in BOOLEAN
  <2>1. closed \in BOOLEAN
    BY Zenon DEF TypeInv, TypeOK
  <2> QED BY <2>1, RetriesGrow
<1>2. ~closed
  BY <1>1
  DEF Next, UserCall, Work, SeekSet, SeekCur, SeekTo, Close, NoStreamFound, OpenFails,
      StreamFails, StreamExhausted, Interrupted, OpenGroup, ReuseStream, FinishLoad,
      NextChunk, CopyOut, RaiseFromLoad, vars, ReadNothing, Read, ReadInto, FindItem,
      ReadUnchanged
<1>3. CASE ReadNothing \/ \E size \in Sizes : Read(size) \/ ReadInto(size)
  BY <1>1, <1>2, <1>3 DEF ReadNothing, Read, ReadInto, MayRead
<1>4. CASE pc # "idle"
  BY <1>1, <1>2, <1>4 DEF ErrorInv
<1>5. CASE UNCHANGED ret
  BY <1>1, <1>2, <1>5 DEF NoError
<1> QED
  BY <1>3, <1>4, <1>5
  DEF Next, UserCall, Work, SeekSet, SeekCur, SeekTo, Close, NoStreamFound, OpenFails,
      StreamFails, StreamExhausted, Interrupted, OpenGroup, ReuseStream, FinishLoad,
      NextChunk, CopyOut, Loading, vars

LEMMA FindItemCount ==
  ASSUME IInv, ErrorInv, CountInv, ~poisoned, NoError, retries = 0,
         NEW size \in Nat, MayRead, FindItem(size), NoError'
  PROVE  CountInv'
<1>0. /\ UNCHANGED <<plan, stream, state, fetched, served>> /\ pc = "idle" /\ TypeOK
      /\ iter = cur + 1 /\ Items' = Items /\ Total' = Total /\ N' = N
  BY DEF FindItem, ReadUnchanged, MayRead, IInv, TypeInv, ErrorInv, Items, Total, N
<1>1. CASE FindInCurrent(size)
  <2>1. /\ UNCHANGED <<cur, buf>> /\ pc' = IF buf = NoBuffer THEN "stream" ELSE "copy"
    BY <1>1 DEF FindInCurrent
  <2>2. CASE buf = NoBuffer
    BY <1>0, <2>1, <2>2 DEF CountInv, Loaded
  <2>3. CASE buf # NoBuffer
    <3>1. Loaded /\ Loaded' /\ pc' = "copy"
      BY <1>0, <2>1, <2>3 DEF Loaded
    <3>2. FetchedUpTo(cur)'
      BY <1>0, <2>1, <3>1 DEF CountInv, FetchedUpTo
    <3> QED BY <1>0, <2>1, <2>3, <3>1, <3>2 DEF CountInv
  <2> QED BY <2>2, <2>3
<1>2. CASE OutOfOrder(size) \/ FindNowhere(size)
  BY <1>2, FailedFacts DEF OutOfOrder, FindNowhere, NoError
<1>3. CASE FindInNext(size)
  <2>1. /\ cur' = cur + 1 /\ buf # NoBuffer /\ buf' = buf /\ pc' = "stream"
    BY <1>0, <1>3 DEF FindInNext, Advancing
  <2>2. Loaded /\ ~Loaded'
    BY <1>0, <2>1 DEF Loaded
  <2>3. cur \in 1..N /\ cur' > 1 /\ cur' - 1 = cur
    BY <1>0, <2>1, CurItemFacts DEF TypeOK
  <2>4. FetchedUpTo(cur)
    BY <2>2 DEF CountInv
  <2>5. Items[cur].end <= stream.at
    <3>1. state.pos = CurItem.end /\ Aligned(state.pos, state.left)
      BY <1>0, <2>1 DEF IInv, BufferInv
    <3>2. /\ stream.at \in Int /\ state.pos \in Int /\ state.left \in Parts
          /\ CurItem = Items[cur]
      BY <1>0, CurItemFacts DEF TypeOK
    <3>3. state.pos <= stream.at
      BY <3>1, <3>2 DEF Aligned, PartLen, Part
    <3> QED BY <3>1, <3>2, <3>3
  <2>6. FetchedUpTo(cur - 1)'
    BY <1>0, <2>3, <2>4 DEF FetchedUpTo
  <2> QED BY <1>0, <2>1, <2>2, <2>3, <2>5, <2>6 DEF CountInv
<1> QED BY <1>1, <1>2, <1>3 DEF FindItem

LEMMA OpenGroupCount ==
  ASSUME IInv, CountInv, OpenGroup
  PROVE  CountInv'
<1>0. /\ UNCHANGED <<plan, cur, buf, fetched, served>> /\ pc = "stream" /\ pc' = "load"
      /\ TypeOK /\ FirstOfGroup(Items, plan.gap, cur)
      /\ stream'.at = CurItem.start /\ stream'.end = GroupEnd(Items, plan.gap, cur)
      /\ Items' = Items /\ Total' = Total
  BY DEF OpenGroup, IInv, TypeInv, Items, Total, N
<1>1. /\ cur \in 1..N /\ RunningTotal(Total, Items, plan.gap)
      /\ N \in Nat \ {0} /\ Len(Items) = N /\ CurItem = Items[cur]
      /\ CurItem.start \in Int /\ CurItem.end \in Int /\ CurItem.start < CurItem.end
      /\ CurItem.end <= GroupEnd(Items, plan.gap, cur)
      /\ GroupEnd(Items, plan.gap, cur) \in Int /\ Total[cur] \in Int
  BY <1>0, TotalFacts, CurItemFacts DEF TypeOK
<1>2. fetched = Total[cur] + CurItem.start - CurItem.end
  <2>1. CASE buf = NoBuffer
    <3>1. cur = 1 /\ fetched = 0
      BY <1>0, <2>1 DEF CountInv
    <3>2. Total[1] = Length(Items[1])
      BY <1>1 DEF RunningTotal
    <3> QED BY <1>1, <3>1, <3>2 DEF Length
  <2>2. CASE buf # NoBuffer
    <3>1. cur > 1 /\ FetchedUpTo(cur - 1) /\ Items[cur-1].end <= stream.at
      BY <1>0, <2>2 DEF CountInv
    <3>2. cur - 1 \in 1..N /\ cur \in 2..N /\ (cur - 1) + 1 = cur
      BY <1>1, <3>1
    <3>3. GroupEnd(Items, plan.gap, cur - 1) = Items[cur-1].end
      BY <1>0, <1>1, <3>2, GroupEndSteps
    <3>4. Total[cur] = Total[cur-1] + Length(Items[cur])
      BY <1>0, <1>1, <3>2 DEF RunningTotal
    <3>5. stream.at \in Int /\ Total[cur-1] \in Int /\ Items[cur-1].end \in Int
      BY <1>0, <3>2, TotalFacts DEF TypeOK
    <3>6. stream.at = Items[cur-1].end /\ fetched = Total[cur-1]
      BY <3>1, <3>3, <3>5 DEF FetchedUpTo
    <3> QED BY <1>1, <3>4, <3>5, <3>6 DEF Length
  <2> QED BY <2>1, <2>2
<1>3. FetchedUpTo(cur)'
  BY <1>0, <1>1, <1>2 DEF FetchedUpTo
<1>4. ~Loaded /\ ~Loaded'
  BY <1>0 DEF Loaded
<1> QED BY <1>0, <1>3, <1>4 DEF CountInv

LEMMA ReuseStreamCount ==
  ASSUME IInv, CountInv, ReuseStream
  PROVE  CountInv'
<1>0. /\ UNCHANGED <<plan, cur, buf, stream, fetched, served>> /\ pc = "stream" /\ pc' = "load"
      /\ TypeOK /\ ~FirstOfGroup(Items, plan.gap, cur) /\ buf # NoBuffer
      /\ Items' = Items /\ Total' = Total
  BY DEF ReuseStream, IInv, NoBufferInv, TypeInv, Items, Total, N
<1>1. cur > 1 /\ FetchedUpTo(cur - 1) /\ Items[cur-1].end <= stream.at
  BY <1>0 DEF CountInv
<1>2. /\ cur \in 1..N /\ N \in Nat /\ Len(Items) = N /\ RunningTotal(Total, Items, plan.gap)
  BY <1>0, TotalFacts DEF TypeOK
<1>3. cur - 1 \in 1..N /\ cur \in 2..N /\ (cur - 1) + 1 = cur
  BY <1>1, <1>2
<1>4. GroupEnd(Items, plan.gap, cur - 1) = GroupEnd(Items, plan.gap, cur)
  BY <1>0, <1>2, <1>3, GroupEndSteps
<1>5. Total[cur] = Total[cur-1] + (Items[cur].end - Items[cur-1].end)
  BY <1>0, <1>2, <1>3 DEF RunningTotal
<1>6. /\ stream.at \in Int /\ Total[cur-1] \in Int /\ Items[cur-1].end \in Int
      /\ Items[cur].end \in Int
  BY <1>0, <1>2, <1>3, TotalFacts DEF TypeOK
<1>7. fetched = Total[cur] + stream.at - Items[cur].end
  <2>1. fetched = Total[cur-1] + stream.at - Items[cur-1].end
    BY <1>1 DEF FetchedUpTo
  <2> QED BY <1>5, <1>6, <2>1
<1>8. FetchedUpTo(cur)'
  BY <1>0, <1>1, <1>4, <1>7 DEF FetchedUpTo
<1>9. ~Loaded /\ ~Loaded'
  BY <1>0 DEF Loaded
<1> QED BY <1>0, <1>8, <1>9 DEF CountInv

LEMMA FinishLoadCount ==
  ASSUME IInv, CountInv, FinishLoad
  PROVE  CountInv'
<1>0. /\ UNCHANGED <<plan, cur, stream, fetched>> /\ pc = "load" /\ pc' = "copy"
      /\ buf' = load.buffer /\ served' = served \cup {cur} /\ TypeOK
      /\ Items' = Items /\ Total' = Total
  BY DEF FinishLoad, IInv, TypeInv, Items, Total, N
<1>1. buf' # NoBuffer /\ ~Loaded /\ Loaded'
  <2>1. load.buffer.size \in Nat
    BY <1>0 DEF TypeOK
  <2> QED BY <1>0, <2>1, EmptyBufferFacts DEF Loaded
<1>2. cur \in 1..N /\ N \in Nat
  BY <1>0, CurItemFacts DEF TypeOK
<1>3. served' = 1..cur
  BY <1>0, <1>1, <1>2 DEF CountInv
<1>4. FetchedUpTo(cur)'
  BY <1>0 DEF CountInv, FetchedUpTo
<1> QED BY <1>0, <1>1, <1>3, <1>4 DEF CountInv

LEMMA NextChunkCount ==
  ASSUME IInv, CountInv, NEW n \in ChunkSizes, NextChunk(n)
  PROVE  CountInv'
<1>0. /\ UNCHANGED <<plan, cur, buf, served>> /\ pc = "load" /\ pc' = "load"
      /\ stream' = [stream EXCEPT !.at = @ + n] /\ fetched' = fetched + n
      /\ stream.at + n <= stream.end
      /\ TypeOK /\ Items' = Items /\ Total' = Total
  BY DEF NextChunk, Loading, IInv, TypeInv, Items, Total, N
<1>1. n \in Nat /\ stream.at \in Int /\ stream'.at = stream.at + n /\ stream'.end = stream.end
  BY <1>0, InputsAssumption DEF TypeOK
<1>2. FetchedUpTo(cur) /\ fetched \in Nat /\ cur \in 1..N
  BY <1>0 DEF CountInv, TypeOK
<1>3. Total[cur] \in Int /\ Items[cur].end \in Int
  BY <1>0, <1>2, TotalFacts
<1>4. fetched' = Total[cur] + stream'.at - Items[cur].end
  BY <1>0, <1>1, <1>2, <1>3 DEF FetchedUpTo
<1>5. FetchedUpTo(cur)'
  BY <1>0, <1>1, <1>2, <1>4 DEF FetchedUpTo
<1>6. ~Loaded /\ ~Loaded'
  BY <1>0 DEF Loaded
<1> QED BY <1>0, <1>5, <1>6 DEF CountInv

LEMMA CountSame ==
  ASSUME CountInv, UNCHANGED <<plan, cur, buf, stream, fetched, served>>,
         Loaded' = Loaded, pc' = pc \/ (buf # NoBuffer /\ pc = "copy" /\ pc' = "idle")
  PROVE  CountInv'
<1>1. Items' = Items /\ Total' = Total
  BY DEF Items, Total, N
<1>2. \A i : FetchedUpTo(i) => /\ fetched' = Total'[i] + stream'.at - Items'[i].end
                               /\ stream'.end = GroupEnd(Items', plan'.gap, i)
                               /\ stream'.at <= stream'.end
  BY <1>1 DEF FetchedUpTo
<1>3. /\ FetchedUpTo(cur) => FetchedUpTo(cur)'
      /\ FetchedUpTo(cur - 1) => FetchedUpTo(cur - 1)'
  BY <1>2 DEF FetchedUpTo
<1> QED BY <1>1, <1>3 DEF CountInv

(* Every step keeps the count.  The steps that raise and close() leave the *)
(* behaviours it is about.                                                 *)
LEMMA ProgressStep ==
  ASSUME IInv, ErrorInv, ProgressInv, [Next]_vars
  PROVE  ProgressInv'
<1> SUFFICES ASSUME (NoError /\ retries = 0 /\ ~closed)'
             PROVE  CountInv'
  BY DEF ProgressInv
<1>0. /\ TypeInv /\ NoError /\ retries = 0 /\ ~closed /\ CountInv
      /\ NoError' /\ ~closed' /\ ~poisoned
  <2>1. TypeInv
    BY DEF IInv
  <2>2. NoError /\ retries = 0 /\ ~closed
    BY <2>1, ExactBefore
  <2> QED BY <2>1, <2>2 DEF ProgressInv, ErrorInv
<1>1. CASE ReadNothing
  <2>1. /\ UNCHANGED <<plan, cur, buf, stream, fetched, served, pc>>
    BY <1>1 DEF ReadNothing, ReadUnchanged
  <2>2. Loaded' = Loaded
    BY <2>1 DEF Loaded
  <2> QED BY <1>0, <2>1, <2>2, CountSame
<1>2. CASE \E size \in Sizes : Read(size) \/ ReadInto(size)
  <2>1. PICK size \in Sizes : MayRead /\ FindItem(size)
    BY <1>2 DEF Read, ReadInto
  <2>2. size \in Nat
    BY InputsAssumption
  <2> QED BY <1>0, <2>1, <2>2, FindItemCount
<1>3. CASE \E offset \in Offsets : SeekSet(offset) \/ SeekCur(offset)
  <2>1. UNCHANGED <<plan, cur, buf, stream, fetched, served, pc>>
    BY <1>3 DEF SeekSet, SeekCur, SeekTo
  <2>2. Loaded' = Loaded
    BY <2>1 DEF Loaded
  <2> QED BY <1>0, <2>1, <2>2, CountSame
<1>4. CASE Close
  BY <1>0, <1>4 DEF Close
<1>5. CASE OpenGroup
  BY <1>0, <1>5, OpenGroupCount
<1>6. CASE ReuseStream
  BY <1>0, <1>6, ReuseStreamCount
<1>7. CASE NoStreamFound \/ OpenFails \/ StreamFails \/ StreamExhausted
           \/ \E n \in ChunkSizes : Interrupted(n)
  BY <1>0, <1>7, FailedFacts
  DEF NoStreamFound, OpenFails, StreamFails, StreamExhausted, Interrupted,
      RaiseFromLoad, NoError
<1>8. CASE \E n \in ChunkSizes : NextChunk(n)
  BY <1>0, <1>8, NextChunkCount
<1>9. CASE FinishLoad
  BY <1>0, <1>9, FinishLoadCount
<1>10. CASE CopyOut
  <2>1. /\ UNCHANGED <<plan, cur, buf, stream, fetched, served>>
        /\ pc = "copy" /\ pc' = "idle"
    BY <1>10 DEF CopyOut
  <2>2. buf # NoBuffer
    BY <2>1 DEF IInv, NoBufferInv
  <2>3. Loaded' = Loaded
    BY <2>1, <2>2 DEF Loaded
  <2> QED BY <1>0, <2>1, <2>2, <2>3, CountSame
<1>11. CASE UNCHANGED vars
  <2>1. UNCHANGED <<plan, cur, buf, stream, fetched, served, pc>>
    BY <1>11 DEF vars
  <2>2. Loaded' = Loaded
    BY <2>1 DEF Loaded
  <2> QED BY <1>0, <2>1, <2>2, CountSame
<1> QED
  BY <1>1, <1>2, <1>3, <1>4, <1>5, <1>6, <1>7, <1>8, <1>9, <1>10, <1>11
  DEF Next, UserCall, Work

(* The count says what the property says: the running total does not       *)
(* exceed the total, and the stream of the last group ends with the plan.  *)
LEMMA CountReachesTotal ==
  ASSUME IInv, ~poisoned, CountInv
  PROVE  /\ fetched <= StreamTotal(Items, plan.gap)
         /\ served = 1..N /\ pc = "idle" => fetched = StreamTotal(Items, plan.gap)
<1>0. TypeOK /\ cur \in 1..N /\ N \in Nat \ {0}
  BY CurItemFacts DEF IInv, TypeInv, TypeOK
<1>1. /\ StreamTotal(Items, plan.gap) = Total[N] /\ Total[N] \in Int /\ Total[N] > 0
      /\ RunningTotal(Total, Items, plan.gap) /\ Len(Items) = N
  <2>1. /\ Items \in Seq(ByteRanges) /\ InOrder(Items) /\ plan.gap \in Int /\ Len(Items) = N
        /\ RunningTotal(Total, Items, plan.gap) /\ StreamTotal(Items, plan.gap) = Total[N]
        /\ Total[N] \in Int
    BY <1>0, TotalFacts
  <2>2. 1 \in 1..Len(Items) /\ N \in 1..Len(Items)
    BY <1>0, <2>1
  <2>3. Total[1] <= Total[N]
    BY <2>1, <2>2, RunningTotalFacts
  <2>4. Total[1] = Length(Items[1])
    BY <2>1 DEF RunningTotal
  <2>5. plan.items[1].start < plan.items[1].end /\ Items = plan.items
    BY <1>0, <2>2, PlanFacts DEF TypeOK, Items
  <2>6. Items[1].start \in Int /\ Items[1].end \in Int
    BY <1>0, <2>1, <2>2, CurItemFacts
  <2>7. Total[1] > 0 /\ Total[1] \in Int
    BY <2>4, <2>5, <2>6 DEF Length
  <2> QED BY <2>1, <2>3, <2>7
<1>2. ASSUME NEW i \in 1..N, FetchedUpTo(i)
      PROVE  fetched <= Total[N]
  <2>1. /\ Total[i] \in Int /\ Items[i].end \in Int /\ GroupEnd(Items, plan.gap, i) \in Int
        /\ Total[i] + GroupEnd(Items, plan.gap, i) - Items[i].end <= Total[N]
    BY <1>0, TotalFacts
  <2>2. stream.at \in Int /\ stream.at <= GroupEnd(Items, plan.gap, i)
    BY <1>0, <1>2 DEF TypeOK, FetchedUpTo
  <2>3. fetched = Total[i] + stream.at - Items[i].end
    BY <1>2 DEF FetchedUpTo
  <2> QED BY <1>1, <2>1, <2>2, <2>3
<1>3. fetched <= Total[N]
  <2>1. CASE buf = NoBuffer /\ pc # "load"
    BY <1>1, <2>1 DEF CountInv
  <2>2. CASE buf # NoBuffer /\ pc = "stream"
    <3>1. cur - 1 \in 1..N /\ FetchedUpTo(cur - 1)
      BY <1>0, <2>2 DEF CountInv
    <3> QED BY <1>2, <3>1
  <2>3. CASE pc = "load" \/ Loaded
    BY <1>0, <1>2, <2>3 DEF CountInv
  <2> QED BY <1>0, <2>1, <2>2, <2>3 DEF TypeOK, Loaded
<1>4. ASSUME served = 1..N, pc = "idle"
      PROVE  fetched = Total[N]
  <2>1. Loaded /\ cur = N
    <3>1. N \in served
      BY <1>0, <1>4
    <3>2. N \in 1..(IF Loaded THEN cur ELSE cur - 1)
      BY <3>1 DEF CountInv
    <3> QED BY <1>0, <3>2
  <2>2. FetchedUpTo(N)
    BY <2>1 DEF CountInv
  <2>3. GroupEnd(Items, plan.gap, N) = Items[N].end
    BY <1>0, <1>1, GroupEndSteps
  <2>4. CurItem.end <= stream.at /\ CurItem = Items[N]
    <3>1. state.pos = CurItem.end /\ Aligned(state.pos, state.left)
      BY <2>1 DEF IInv, BufferInv, Loaded
    <3>2. stream.at \in Int /\ state.pos \in Int /\ state.left \in Parts
      BY <1>0 DEF TypeOK
    <3>3. state.pos <= stream.at
      BY <3>1, <3>2 DEF Aligned, PartLen, Part
    <3> QED BY <1>0, <2>1, <3>1, <3>3, CurItemFacts
  <2>5. stream.at \in Int /\ Items[N].end \in Int
    <3>1. stream.at \in Int
      BY <1>0 DEF TypeOK
    <3>2. N \in 1..N
      BY <1>0
    <3> QED BY <1>0, <3>1, <3>2, TotalFacts
  <2>6. stream.at = Items[N].end
    BY <2>2, <2>3, <2>4, <2>5 DEF FetchedUpTo
  <2> QED BY <1>1, <2>2, <2>5, <2>6 DEF FetchedUpTo
<1> QED BY <1>1, <1>3, <1>4

(* Unless a call raised, the bytes reported never exceed the total that    *)
(* DCPOptimizedConstructor announced for the file, and are all of it once  *)
(* every item was loaded: whatever the plan, the chunks and the reads.     *)
THEOREM ProgressIsTheTotal == Spec => []ProgressReachesTotal
<1>1. Init => ProgressInv
  <2> SUFFICES ASSUME Init PROVE CountInv
    BY DEF ProgressInv
  <2>1. /\ cur = 1 /\ buf = NoBuffer /\ pc = "idle" /\ fetched = 0 /\ served = {}
    BY DEF Init
  <2> QED BY <2>1 DEF CountInv, Loaded
<1>2. IInv /\ ErrorInv /\ ProgressInv /\ [Next]_vars => ProgressInv'
  BY ProgressStep
<1>3. IInv /\ ErrorInv /\ ProgressInv => ProgressReachesTotal
  <2> SUFFICES ASSUME IInv, ErrorInv, ProgressInv, NoError /\ retries = 0 /\ ~closed
               PROVE  /\ fetched <= StreamTotal(Items, plan.gap)
                      /\ served = 1..N /\ pc = "idle" => fetched = StreamTotal(Items, plan.gap)
    BY DEF ProgressReachesTotal
  <2>1. ~poisoned /\ CountInv
    BY DEF ErrorInv, ProgressInv
  <2> QED BY <2>1, CountReachesTotal
<1> QED BY <1>1, <1>2, <1>3, Invariance, ErrorInvariance, PTL DEF Spec

-----------------------------------------------------------------------------
(* Refinement: for the same user, the reader implements ByteReader.  A     *)
(* call that returns is one abstract step, taken when its result is there; *)
(* the steps of the load before it stutter.                                *)

LEMMA RangeIsObjectBytes ==
  ASSUME NEW b, IsBuffer(b), NEW from \in Int, IsRange(b, from)
  PROVE  b = Abstract!ObjectBytes(from, b.size)
<1>1. b.at = [i \in 0..(b.size - 1) |-> from + i]
  BY DEF IsBuffer, IsRange
<1>2. b = [size |-> b.size, at |-> b.at]
  BY DEF IsBuffer
<1> QED BY <1>1, <1>2 DEF Abstract!ObjectBytes

LEMMA StepSimulation ==
  ASSUME IInv, IInv', ErrorInv, ErrorInv', [Next]_vars
  PROVE  [Abstract!Next]_(Abstract!vars)
<1> SUFFICES ASSUME retries' = 0, retries = 0
             PROVE  Abstract!Next \/ UNCHANGED <<position, ret>>
  <2>1. retries' \in Nat /\ (retries' = 0 => retries = 0)
    <3>1. TypeInv /\ TypeInv'
      BY Zenon DEF IInv
    <3>2. retries' \in 0..MaxRetries
      BY <3>1, Zenon DEF TypeInv, TypeOK
    <3> QED BY <3>1, <3>2, RetriesGrow, InputsAssumption
  <2>2. CASE retries' > 0
    BY <2>2 DEF Abstract!Next, Abstract!Forfeits
  <2> QED BY <2>1, <2>2 DEF Abstract!vars
<1>0. TypeInv /\ TypeInv' /\ position \in Int
  BY Zenon DEF IInv, TypeInv, TypeOK
<1>1. ASSUME ret' = Result("ok", ret'.data), ret'.status = "ok",
             ret'.from = position, ret'.data.size \in Nat,
             position' = position + ret'.data.size
      PROVE  Abstract!Next
  <2>1. IsBuffer(ret'.data) /\ IsRange(ret'.data, position)
    <3>1. IsBuffer(ret'.data)
      BY <1>0, Zenon DEF TypeInv, TypeOK
    <3>2. ~poisoned'
      BY <1>1 DEF ErrorInv, NoError
    <3> QED BY <3>1, <3>2, <1>1 DEF IInv, RetInv
  <2>2. ret'.data = Abstract!ObjectBytes(position, ret'.data.size)
    BY <1>0, <2>1, RangeIsObjectBytes
  <2> QED BY <1>1, <2>2 DEF Abstract!Next, Abstract!Returns, Result
<1>2. ASSUME NEW status \in Exceptions, ret' = Failed(status), position' = position
      PROVE  Abstract!Next
  BY <1>2, FailedFacts, EmptyBufferFacts
  DEF Abstract!Next, Abstract!Raises
<1>3. CASE ReadNothing
  BY <1>0, <1>1, <1>3, EmptyBufferFacts DEF ReadNothing, ReadUnchanged, Result
<1>4. CASE \E size \in Sizes : Read(size) \/ ReadInto(size)
  BY <1>2, <1>4
  DEF Read, ReadInto, FindItem, FindInCurrent, OutOfOrder, FindInNext,
      FindNowhere, ReadUnchanged, Exceptions
<1>5. CASE \E offset \in Offsets : SeekSet(offset) \/ SeekCur(offset)
  BY <1>0, <1>5, InputsAssumption
  DEF SeekSet, SeekCur, SeekTo, Abstract!Next, Abstract!Seeks
<1>6. CASE Close \/ OpenGroup \/ ReuseStream \/ FinishLoad
           \/ \E n \in ChunkSizes : NextChunk(n)
  BY <1>6 DEF Close, OpenGroup, ReuseStream, FinishLoad, NextChunk
<1>7. CASE NoStreamFound \/ OpenFails \/ StreamFails \/ StreamExhausted
           \/ \E n \in ChunkSizes : Interrupted(n)
  BY <1>2, <1>7 DEF NoStreamFound, OpenFails, StreamFails, StreamExhausted,
                    Interrupted, Exceptions, RaiseFromLoad
<1>8. CASE CopyOut
  <2> DEFINE data == ReadAt(buf, position - CurItem.start, call)
  <2>1. ret' = Result("ok", data) /\ position' = position + data.size
        /\ pc = "copy"
    BY <1>8 DEF CopyOut
  <2>2. data.size \in Nat
    <3>1. IsBuffer(buf) /\ call \in Nat /\ TypeOK
      BY <1>0, Zenon DEF TypeInv, TypeOK
    <3>2. position - CurItem.start \in Nat
      BY <1>0, <2>1, <3>1, CurItemFacts DEF TypeInv, RequestWithin, Within
    <3> QED BY <3>1, <3>2, ReadAtFacts
  <2>3. ret'.data = data /\ ret'.status = "ok" /\ ret'.from = position
    BY <2>1 DEF Result
  <2> HIDE DEF data
  <2> QED BY <1>1, <2>1, <2>2, <2>3
<1>9. CASE UNCHANGED vars
  BY <1>9 DEF vars
<1> QED BY <1>3, <1>4, <1>5, <1>6, <1>7, <1>8, <1>9 DEF Next, UserCall, Work

(* For a user who does not read again after an exception the reader is a   *)
(* cursor over the bytes of the object: it returns the bytes at the cursor *)
(* and moves over them, or raises and stays.                               *)
THEOREM ReaderImplementsByteReader == Spec => ImplementsByteReader
<1>1. Init => Abstract!Init
  BY DEF Init, Abstract!Init
<1>2. IInv /\ IInv' /\ ErrorInv /\ ErrorInv' /\ [Next]_vars
        => [Abstract!Next]_(Abstract!vars)
  BY StepSimulation
<1> QED BY <1>1, <1>2, Invariance, ErrorInvariance, PTL
        DEF Spec, ImplementsByteReader, Abstract!Spec
=============================================================================
