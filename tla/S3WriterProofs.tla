---------------------------- MODULE S3WriterProofs ----------------------------
(***************************************************************************)
(* The safety of S3Writer for any set of closing threads and any number of *)
(* writes and closes.  The inductive invariant says who is where: the lock *)
(* belongs to the one close that found the writer open, the borrow of the  *)
(* stream to the one call inside it, and everything that has happened to   *)
(* the upload follows from where that close is.  Then what a checkpoint's  *)
(* path holds after any number of saves, removals and loads (Checkpoints). *)
(***************************************************************************)
EXTENDS MCWriters, TLAPS

Closing == {"complete", "completing", "aborting"}
Inside == {"writing", "completing", "aborting"}

(* The lock is held by the close that completes the upload. *)
Locked == \A t \in Threads : lock = t <=> pc[t] \in Closing

(* The stream is borrowed by the call that is inside it; only the thread of *)
(* the with statement writes, and it writes to a request that was not taken.*)
Borrowed ==
  /\ \A t \in Threads : borrow = t <=> pc[t] \in Inside
  /\ \A t \in Threads : pc[t] = "writing" => t = Writer
  /\ pc[Writer] = "writing" => request # "taken"

(* An open writer has an open upload; the close that holds the lock has not *)
(* reached the stream, or has taken the request out of it.                  *)
Lifecycle ==
  /\ closed = FALSE => /\ lock = Free /\ streamCloses = 0
                       /\ request # "taken" /\ object = None
                       /\ \A t \in Threads : ret[t] # "closed"
  /\ streamCloses <= 1
  /\ object # None => object = accepted /\ request = "taken"
  /\ \A t \in Threads :
       /\ pc[t] = "complete" =>
            /\ streamCloses = 0 /\ request # "taken" /\ object = None
       /\ pc[t] \in {"completing", "aborting"} =>
            request = "taken" /\ object = None
  /\ closed = TRUE /\ lock = Free =>
       failed = TRUE \/ (object = accepted /\ request = "taken")
  /\ \A t \in Threads : ret[t] = "closed" => lock = Free

IInv == TypeOK /\ Locked /\ Borrowed /\ Lifecycle

-----------------------------------------------------------------------------
(* Writer and Finalizer are threads, and nobody is called Free. *)
LEMMA ThreadFacts ==
  /\ Writer \in Threads /\ Finalizer \in Threads
  /\ \A t \in Threads : t # Free
  BY ThreadsAssumption DEF Threads

LEMMA InitInvariant == Init => IInv
<1> SUFFICES ASSUME Init PROVE IInv
  OBVIOUS
<1>1. TypeOK
  BY DEF Init, TypeOK, None
<1>2. Locked /\ Borrowed
  BY ThreadFacts DEF Init, Locked, Borrowed, Closing, Inside
<1>3. Lifecycle
  BY DEF Init, Lifecycle, None
<1> QED
  BY <1>1, <1>2, <1>3 DEF IInv
-----------------------------------------------------------------------------
(* Every step keeps the invariant. *)
LEMMA StepInvariant == IInv /\ [Next]_vars => IInv'
<1> SUFFICES ASSUME IInv, [Next]_vars PROVE IInv'
  OBVIOUS
<1> USE ThreadFacts
<1> USE DEF IInv
<1>1. CASE Enter
  <2>1. TypeOK'
    BY <1>1 DEF TypeOK, Enter
  <2>2. Locked'
    BY <1>1 DEF TypeOK, Locked, Closing, Enter
  <2>3. Borrowed'
    BY <1>1 DEF TypeOK, Borrowed, Inside, Enter
  <2>4. Lifecycle'
    BY <1>1 DEF TypeOK, Locked, Borrowed, Lifecycle, Closing, Inside, None, Enter
  <2> QED BY <2>1, <2>2, <2>3, <2>4
<1>2. CASE Write
  <2>1. TypeOK'
    BY <1>2 DEF TypeOK, Write, Return, Goto
  <2>2. Locked'
    BY <1>2 DEF TypeOK, Locked, Closing, Write, Return, Goto
  <2>3. Borrowed'
    BY <1>2 DEF TypeOK, Borrowed, Inside, Write, Return, Goto
  <2>4. Lifecycle'
    BY <1>2 DEF TypeOK, Locked, Borrowed, Lifecycle, Closing, Inside, None, Write, Return, Goto
  <2> QED BY <2>1, <2>2, <2>3, <2>4
<1>3. CASE StreamWrite
  <2>1. TypeOK'
    BY <1>3 DEF TypeOK, StreamWrite, Return, Goto
  <2>2. Locked'
    BY <1>3 DEF TypeOK, Locked, Closing, StreamWrite, Return, Goto
  <2>3. Borrowed'
    BY <1>3 DEF TypeOK, Borrowed, Inside, StreamWrite, Return, Goto
  <2>4. Lifecycle'
    BY <1>3 DEF TypeOK, Locked, Borrowed, Lifecycle, Closing, Inside, None, StreamWrite, Return, Goto
  <2> QED BY <2>1, <2>2, <2>3, <2>4
<1>4. CASE WriteReturns
  <2>1. TypeOK'
    BY <1>4 DEF TypeOK, WriteReturns, Return, Goto
  <2>2. Locked'
    BY <1>4 DEF TypeOK, Locked, Closing, WriteReturns, Return, Goto
  <2>3. Borrowed'
    BY <1>4 DEF TypeOK, Borrowed, Inside, WriteReturns, Return, Goto
  <2>4. Lifecycle'
    BY <1>4 DEF TypeOK, Locked, Borrowed, Lifecycle, Closing, Inside, None, WriteReturns, Return, Goto
  <2> QED BY <2>1, <2>2, <2>3, <2>4
<1>5. CASE WriteFails
  <2>1. TypeOK'
    BY <1>5 DEF TypeOK, WriteFails, Return, Goto
  <2>2. Locked'
    BY <1>5 DEF TypeOK, Locked, Closing, WriteFails, Return, Goto
  <2>3. Borrowed'
    BY <1>5 DEF TypeOK, Borrowed, Inside, WriteFails, Return, Goto
  <2>4. Lifecycle'
    BY <1>5 DEF TypeOK, Locked, Borrowed, Lifecycle, Closing, Inside, None, WriteFails, Return, Goto
  <2> QED BY <2>1, <2>2, <2>3, <2>4
<1>6. ASSUME NEW t \in Threads, Close(t) PROVE IInv'
  <2>1. TypeOK'
    BY <1>6 DEF TypeOK, Close, StartClose, Goto
  <2>2. Locked'
    BY <1>6 DEF TypeOK, Locked, Closing, Close, StartClose, Goto
  <2>3. Borrowed'
    BY <1>6 DEF TypeOK, Borrowed, Inside, Close, StartClose, Goto
  <2>4. Lifecycle'
    BY <1>6 DEF TypeOK, Locked, Borrowed, Lifecycle, Closing, Inside, None, Close, StartClose, Goto
  <2> QED BY <2>1, <2>2, <2>3, <2>4
<1>7. ASSUME NEW t \in Threads, TakeLock(t) PROVE IInv'
  <2>1. TypeOK'
    BY <1>7 DEF TypeOK, TakeLock, Return, Goto
  <2>2. Locked'
    BY <1>7 DEF TypeOK, Locked, Closing, TakeLock, Return, Goto
  <2>3. Borrowed'
    BY <1>7 DEF TypeOK, Borrowed, Inside, TakeLock, Return, Goto
  <2>4. Lifecycle'
    BY <1>7 DEF TypeOK, Locked, Borrowed, Lifecycle, Closing, Inside, None, TakeLock, Return, Goto
  <2> QED BY <2>1, <2>2, <2>3, <2>4
<1>8. ASSUME NEW t \in Threads, StreamClose(t) PROVE IInv'
  <2>1. TypeOK'
    <3>1. UNCHANGED <<closed, position, accepted, object, body, dropped, closes>>
      BY <1>8 DEF StreamClose
    <3>2. streamCloses' \in Nat
      BY <1>8 DEF StreamClose, TypeOK
    <3>3. /\ pc' = [pc EXCEPT ![t] = "idle"]
          /\ ret' \in [Threads -> {"none", "ok", "closed", "ValueError",
                                    "RuntimeError", "S3Exception"}]
          /\ lock' = Free /\ failed' = TRUE /\ UNCHANGED <<borrow, request>>
      \/ /\ pc' = [pc EXCEPT ![t] = pc'[t]]
         /\ pc'[t] \in {"completing", "aborting"}
         /\ borrow' = t /\ request' = "taken"
         /\ UNCHANGED <<lock, ret, failed>>
      BY <1>8 DEF StreamClose, Return, Goto, TypeOK
    <3> QED
      BY <3>1, <3>2, <3>3 DEF TypeOK
  <2>2. Locked'
    BY <1>8 DEF TypeOK, Locked, Closing, StreamClose, Return, Goto
  <2>3. Borrowed'
    BY <1>8 DEF TypeOK, Borrowed, Inside, StreamClose, Return, Goto
  <2>4. Lifecycle'
    BY <1>8 DEF TypeOK, Locked, Borrowed, Lifecycle, Closing, Inside, None, StreamClose, Return, Goto
  <2> QED BY <2>1, <2>2, <2>3, <2>4
<1>9. ASSUME NEW t \in Threads, CompleteReturns(t) PROVE IInv'
  <2>1. TypeOK'
    BY <1>9 DEF TypeOK, CompleteReturns, Return, Goto
  <2>2. Locked'
    BY <1>9 DEF TypeOK, Locked, Closing, CompleteReturns, Return, Goto
  <2>3. Borrowed'
    BY <1>9 DEF TypeOK, Borrowed, Inside, CompleteReturns, Return, Goto
  <2>4. Lifecycle'
    BY <1>9 DEF TypeOK, Locked, Borrowed, Lifecycle, Closing, Inside, None, CompleteReturns, Return, Goto
  <2> QED BY <2>1, <2>2, <2>3, <2>4
<1>10. ASSUME NEW t \in Threads, CompleteFails(t) PROVE IInv'
  <2>1. TypeOK'
    BY <1>10 DEF TypeOK, CompleteFails, Return, Goto
  <2>2. Locked'
    BY <1>10 DEF TypeOK, Locked, Closing, CompleteFails, Return, Goto
  <2>3. Borrowed'
    BY <1>10 DEF TypeOK, Borrowed, Inside, CompleteFails, Return, Goto
  <2>4. Lifecycle'
    BY <1>10 DEF TypeOK, Locked, Borrowed, Lifecycle, Closing, Inside, None, CompleteFails, Return, Goto
  <2> QED BY <2>1, <2>2, <2>3, <2>4
<1>11. CASE ExitNormally
  <2>1. TypeOK'
    BY <1>11 DEF TypeOK, ExitNormally, StartClose, Goto
  <2>2. Locked'
    BY <1>11 DEF TypeOK, Locked, Closing, ExitNormally, StartClose, Goto
  <2>3. Borrowed'
    BY <1>11 DEF TypeOK, Borrowed, Inside, ExitNormally, StartClose, Goto
  <2>4. Lifecycle'
    BY <1>11 DEF TypeOK, Locked, Borrowed, Lifecycle, Closing, Inside, None, ExitNormally, StartClose, Goto
  <2> QED BY <2>1, <2>2, <2>3, <2>4
<1>12. CASE ExitWithException
  <2>1. TypeOK'
    BY <1>12 DEF TypeOK, ExitWithException
  <2>2. Locked'
    BY <1>12 DEF TypeOK, Locked, Closing, ExitWithException
  <2>3. Borrowed'
    BY <1>12 DEF TypeOK, Borrowed, Inside, ExitWithException
  <2>4. Lifecycle'
    BY <1>12 DEF TypeOK, Locked, Borrowed, Lifecycle, Closing, Inside, None, ExitWithException
  <2> QED BY <2>1, <2>2, <2>3, <2>4
<1>13. CASE Finalize
  <2>1. TypeOK'
    BY <1>13 DEF TypeOK, Finalize, StartClose, Goto
  <2>2. Locked'
    BY <1>13 DEF TypeOK, Locked, Closing, Finalize, StartClose, Goto
  <2>3. Borrowed'
    BY <1>13 DEF TypeOK, Borrowed, Inside, Finalize, StartClose, Goto
  <2>4. Lifecycle'
    BY <1>13 DEF TypeOK, Locked, Borrowed, Lifecycle, Closing, Inside, None, Finalize, StartClose, Goto
  <2> QED BY <2>1, <2>2, <2>3, <2>4
<1>14. CASE UNCHANGED vars
  <2>1. TypeOK'
    BY <1>14 DEF TypeOK, vars
  <2>2. Locked'
    BY <1>14 DEF TypeOK, Locked, Closing, vars
  <2>3. Borrowed'
    BY <1>14 DEF TypeOK, Borrowed, Inside, vars
  <2>4. Lifecycle'
    BY <1>14 DEF TypeOK, Locked, Borrowed, Lifecycle, Closing, Inside, None, vars
  <2> QED BY <2>1, <2>2, <2>3, <2>4
<1> QED
  BY <1>1, <1>2, <1>3, <1>4, <1>5, <1>6, <1>7, <1>8, <1>9, <1>10, <1>11, <1>12, <1>13, <1>14
     DEF Next, WriteStep, CloseStep

-----------------------------------------------------------------------------
THEOREM Invariance == Spec => []IInv
<1>1. Init => IInv
  BY InitInvariant
<1>2. IInv /\ [Next]_vars => IInv'
  BY StepInvariant
<1> QED
  BY <1>1, <1>2, PTL DEF Spec

(* Every variable keeps its type, however many threads close the writer. *)
THEOREM TypeCorrect == Spec => []TypeOK
<1>1. IInv => TypeOK
  BY DEF IInv
<1> QED
  BY <1>1, Invariance, PTL

(* close() of any number of threads and of the finalizer completes the     *)
(* upload at most once.                                                    *)
THEOREM UploadIsClosedOnce == Spec => []ClosedOnce
<1>1. IInv => ClosedOnce
  BY DEF IInv, Lifecycle, ClosedOnce
<1> QED
  BY <1>1, Invariance, PTL

(* No write() is accepted once the object is in S3. *)
THEOREM ObjectsAreWhole == Spec => []ObjectIsWhole
<1>1. IInv => ObjectIsWhole
  BY DEF IInv, Lifecycle, ObjectIsWhole
<1> QED
  BY <1>1, Invariance, PTL

(* Unless a close raised, a close() that returns, also one that waited for *)
(* the close of another thread, returns after the object is in S3.         *)
THEOREM ClosesStoreTheObject == Spec => []CloseMeansStoredUnlessFailed
<1>1. IInv => CloseMeansStoredUnlessFailed
  BY DEF IInv, TypeOK, Lifecycle, CloseMeansStoredUnlessFailed, CloseMeansStored
<1> QED
  BY <1>1, Invariance, PTL

-----------------------------------------------------------------------------
(* Checkpoints.  The saves that are queued are the latest ones, in order,  *)
(* after the one that is being written.                                    *)
QueueInv ==
  /\ saves \in Nat /\ queue \in Seq(Nat) /\ Len(queue) <= saves
  /\ \A i \in 1..Len(queue) : queue[i] = saves - Len(queue) + i
  /\ writer \in 0..saves /\ (writer # 0 => writer = saves - Len(queue))
  /\ abandoned \subseteq 1..saves

(* What is whole at the path is as late as a load may ask for, and so is   *)
(* every save that is still to come.                                       *)
LatestInv ==
  /\ oldest \in Nat /\ oldest <= Path!Unended
  /\ stored.save \in Nat
  /\ stored.whole => stored.save >= oldest

(* A writer that was left is known to the promise.                         *)
LeftInv ==
  /\ kept \in 0..saves \cup {Path!Nothing}
  /\ ~exposed => abandoned = {}
  /\ Path!PathIsAsLeft

(* A load asks for nothing later than one that begins now.                 *)
LoadInv ==
  /\ reading.floor \in Nat
  /\ reading = [pc |-> reading.pc, floor |-> reading.floor]
  /\ reading.pc # "idle" => reading.floor <= oldest

PathInv == QueueInv /\ LatestInv /\ LeftInv /\ LoadInv /\ Path!LoadsAreFresh

LEMMA PathInitInvariant == Path!Init => PathInv
<1> SUFFICES ASSUME Path!Init PROVE PathInv
  OBVIOUS
<1> USE DEF Path!Init, Path!Absent, Path!NotLoading, Path!Unread, Path!Nothing
<1>1. QueueInv
  BY DEF QueueInv
<1>2. LatestInv /\ LeftInv /\ LoadInv
  BY DEF LatestInv, LeftInv, LoadInv, Path!Unended, Path!PathIsAsLeft
<1>3. Path!LoadsAreFresh
  BY DEF Path!LoadsAreFresh
<1> QED
  BY <1>1, <1>2, <1>3 DEF PathInv

(* While the object and the promise stay, the promise is kept.             *)
LEMMA PromiseStays ==
  ASSUME Path!PathIsAsLeft, saves \in Nat, saves' \in Nat, saves <= saves',
         stored' = stored, kept' = kept, exposed => exposed'
  PROVE  Path!PathIsAsLeft'
<1>1. 1..saves \subseteq 1..(saves')
  OBVIOUS
<1> QED
  BY <1>1 DEF Path!PathIsAsLeft, Path!Absent, Path!Object

LEMMA PathStepInvariant ==
  ASSUME PathInv, Path!Next \/ UNCHANGED Path!cvars
  PROVE  PathInv'
<1> USE DEF Path!Nothing
<1>0. QueueInv /\ LatestInv /\ LeftInv /\ LoadInv /\ Path!LoadsAreFresh
  BY DEF PathInv
<1>q. /\ saves \in Nat /\ queue \in Seq(Nat) /\ Len(queue) \in Nat /\ Len(queue) <= saves
      /\ writer \in Nat /\ writer <= saves /\ (writer # 0 => writer = saves - Len(queue))
      /\ kept \in 0..saves \cup {-1} /\ abandoned \subseteq 1..saves
      /\ oldest \in Nat
      /\ writer # 0 => oldest <= writer
      /\ writer = 0 => oldest <= saves - Len(queue) + 1
  BY <1>0 DEF QueueInv, LatestInv, LeftInv, Path!Unended
<1>1. CASE Path!Save
  <2>1. /\ saves' = saves + 1 /\ queue' = Append(queue, saves + 1)
        /\ UNCHANGED <<stored, writer, abandoned, kept, exposed, oldest, reading, loaded>>
    BY <1>1 DEF Path!Save
  <2>2. Len(queue') = Len(queue) + 1 /\ queue' \in Seq(Nat)
    BY <1>q, <2>1
  <2>3. \A i \in 1..Len(queue') : queue'[i] = saves' - Len(queue') + i
    <3> SUFFICES ASSUME NEW i \in 1..Len(queue') PROVE queue'[i] = saves' - Len(queue') + i
      OBVIOUS
    <3>1. CASE i \in 1..Len(queue)
      BY <1>0, <1>q, <2>1, <2>2, <3>1 DEF QueueInv
    <3>2. CASE i = Len(queue) + 1
      BY <1>q, <2>1, <2>2, <3>2
    <3> QED
      BY <1>q, <2>2, <3>1, <3>2
  <2>4. QueueInv'
    <3>1. writer' # 0 => writer' = saves' - Len(queue')
      BY <1>q, <2>1, <2>2
    <3>2. abandoned' \subseteq 1..(saves')
      BY <1>q, <2>1
    <3>3. saves' \in Nat /\ Len(queue') <= saves' /\ writer' \in 0..(saves')
      BY <1>q, <2>1, <2>2
    <3> QED
      BY <2>2, <2>3, <3>1, <3>2, <3>3 DEF QueueInv
  <2>5. LatestInv'
    BY <1>0, <1>q, <2>1, <2>2 DEF LatestInv, Path!Unended
  <2>6. LeftInv'
    BY <1>0, <1>q, <2>1, PromiseStays DEF LeftInv
  <2>7. LoadInv' /\ Path!LoadsAreFresh'
    BY <1>0, <2>1 DEF LoadInv, Path!LoadsAreFresh
  <2> QED
    BY <2>4, <2>5, <2>6, <2>7 DEF PathInv
<1>2. CASE Path!OpenWriter
  <2>1. /\ writer = 0 /\ queue # <<>> /\ queue' = Tail(queue)
        /\ writer' \in {Head(queue), 0}
        /\ UNCHANGED <<stored, saves, abandoned, kept, exposed, oldest, reading, loaded>>
    BY <1>2 DEF Path!OpenWriter
  <2>2. /\ Len(queue') = Len(queue) - 1 /\ queue' \in Seq(Nat) /\ Len(queue) >= 1
        /\ Head(queue) = queue[1] /\ \A i \in 1..Len(queue') : queue'[i] = queue[i + 1]
    BY <1>q, <2>1
  <2>3. \A i \in 1..Len(queue) : queue[i] = saves - Len(queue) + i
    BY <1>0 DEF QueueInv
  <2>4. \A i \in 1..Len(queue') : queue'[i] = saves' - Len(queue') + i
    BY <1>q, <2>1, <2>2, <2>3
  <2>5. writer' = 0 \/ writer' = saves - Len(queue')
    BY <1>q, <2>1, <2>2, <2>3
  <2>6. QueueInv'
    BY <1>q, <2>1, <2>2, <2>4, <2>5 DEF QueueInv
  <2>7. LatestInv'
    BY <1>0, <1>q, <2>1, <2>2, <2>5 DEF LatestInv, Path!Unended
  <2>8. LeftInv'
    BY <1>0, <1>q, <2>1, PromiseStays DEF LeftInv
  <2>9. LoadInv' /\ Path!LoadsAreFresh'
    BY <1>0, <2>1 DEF LoadInv, Path!LoadsAreFresh
  <2> QED
    BY <2>6, <2>7, <2>8, <2>9 DEF PathInv
<1>3. CASE Path!WriteFails
  <2>1. /\ writer # 0 /\ writer' = 0 /\ abandoned' = abandoned \cup {writer} /\ exposed' = TRUE
        /\ UNCHANGED <<stored, saves, queue, kept, oldest, reading, loaded>>
    BY <1>3 DEF Path!WriteFails
  <2>2. QueueInv'
    BY <1>0, <1>q, <2>1 DEF QueueInv
  <2>3. LatestInv'
    BY <1>0, <1>q, <2>1 DEF LatestInv, Path!Unended
  <2>4. LeftInv'
    BY <1>0, <1>q, <2>1, PromiseStays DEF LeftInv
  <2>5. LoadInv' /\ Path!LoadsAreFresh'
    BY <1>0, <2>1 DEF LoadInv, Path!LoadsAreFresh
  <2> QED
    BY <2>2, <2>3, <2>4, <2>5 DEF PathInv
<1>4. CASE Path!CloseWriter
  <2>1. /\ writer # 0 /\ writer' = 0 /\ stored' = [save |-> writer, whole |-> TRUE]
        /\ kept' = writer /\ exposed' = (abandoned # {}) /\ oldest' = writer
        /\ UNCHANGED <<saves, queue, abandoned, reading, loaded>>
    BY <1>4 DEF Path!CloseWriter, Path!Object
  <2>2. QueueInv'
    BY <1>0, <1>q, <2>1 DEF QueueInv
  <2>3. LatestInv'
    BY <1>0, <1>q, <2>1 DEF LatestInv, Path!Unended
  <2>4. LeftInv'
    <3>1. ~exposed' => abandoned' = {}
      BY <2>1, Zenon
    <3>2. Path!PathIsAsLeft'
      BY <1>q, <2>1 DEF Path!PathIsAsLeft, Path!Object
    <3>3. kept' \in 0..(saves')
      BY <1>q, <2>1
    <3> QED
      BY <3>1, <3>2, <3>3 DEF LeftInv
  <2>5. LoadInv' /\ Path!LoadsAreFresh'
    BY <1>0, <1>q, <2>1 DEF LoadInv, Path!LoadsAreFresh
  <2> QED
    BY <2>2, <2>3, <2>4, <2>5 DEF PathInv
<1>5. CASE Path!CloseFails
  <2>1. /\ writer # 0 /\ writer' = 0 /\ kept' = -1
        /\ stored' \in {stored, [save |-> writer, whole |-> TRUE]}
        /\ UNCHANGED <<saves, queue, abandoned, exposed, oldest, reading, loaded>>
    BY <1>5 DEF Path!CloseFails, Path!Object
  <2>2. QueueInv'
    BY <1>0, <1>q, <2>1 DEF QueueInv
  <2>3. LatestInv'
    BY <1>0, <1>q, <2>1 DEF LatestInv, Path!Unended
  <2>4. LeftInv'
    BY <1>0, <1>q, <2>1 DEF LeftInv, Path!PathIsAsLeft
  <2>5. LoadInv' /\ Path!LoadsAreFresh'
    BY <1>0, <2>1 DEF LoadInv, Path!LoadsAreFresh
  <2> QED
    BY <2>2, <2>3, <2>4, <2>5 DEF PathInv
<1>6. ASSUME NEW n \in abandoned, Path!Finalize(n) PROVE PathInv'
  <2>1. /\ abandoned' = abandoned \ {n} /\ n \in 1..saves /\ abandoned # {}
        /\ stored' \in {stored, Path!Object(n, FALSE)}
        /\ UNCHANGED <<saves, queue, writer, kept, exposed, oldest, reading, loaded>>
    BY <1>6, <1>q DEF Path!Finalize
  <2>2. QueueInv'
    BY <1>0, <1>q, <2>1 DEF QueueInv
  <2>3. LatestInv'
    BY <1>0, <1>q, <2>1 DEF LatestInv, Path!Unended, Path!Object
  <2>4. exposed
    BY <1>0, <2>1 DEF LeftInv
  <2>5. Path!PathIsAsLeft'
    <3>1. CASE stored' = stored
      BY <1>0, <1>q, <2>1, <3>1, PromiseStays DEF LeftInv
    <3>2. CASE stored' = Path!Object(n, FALSE)
      BY <2>1, <2>4, <3>2 DEF Path!PathIsAsLeft, Path!Object
    <3> QED
      BY <2>1, <3>1, <3>2
  <2>6. LeftInv'
    BY <1>0, <2>1, <2>4, <2>5 DEF LeftInv
  <2>7. LoadInv' /\ Path!LoadsAreFresh'
    BY <1>0, <2>1 DEF LoadInv, Path!LoadsAreFresh
  <2> QED
    BY <2>2, <2>3, <2>6, <2>7 DEF PathInv
<1>7. CASE Path!Remove
  <2>1. /\ stored' = [save |-> 0, whole |-> FALSE] /\ kept' = 0 /\ exposed' = (abandoned # {})
        /\ oldest' = IF writer # 0 THEN writer ELSE saves - Len(queue) + 1
        /\ UNCHANGED <<saves, queue, writer, abandoned, reading, loaded>>
    BY <1>7 DEF Path!Remove, Path!Absent, Path!Unended
  <2>2. QueueInv'
    BY <1>0, <2>1 DEF QueueInv
  <2>3. LatestInv'
    BY <1>q, <2>1 DEF LatestInv, Path!Unended
  <2>4. LeftInv'
    <3>1. ~exposed' => abandoned' = {}
      BY <2>1, Zenon
    <3>2. Path!PathIsAsLeft'
      BY <1>q, <2>1 DEF Path!PathIsAsLeft, Path!Absent
    <3>3. kept' \in 0..(saves')
      BY <1>q, <2>1
    <3> QED
      BY <3>1, <3>2, <3>3 DEF LeftInv
  <2>5. LoadInv' /\ Path!LoadsAreFresh'
    BY <1>0, <1>q, <2>1 DEF LoadInv, Path!LoadsAreFresh
  <2> QED
    BY <2>2, <2>3, <2>4, <2>5 DEF PathInv
<1>8. CASE Path!RemoveFails
  <2>1. /\ stored' \in {stored, [save |-> 0, whole |-> FALSE]} /\ kept' = -1
        /\ UNCHANGED <<saves, queue, writer, abandoned, exposed, oldest, reading, loaded>>
    BY <1>8 DEF Path!RemoveFails, Path!Absent
  <2>2. QueueInv'
    BY <1>0, <2>1 DEF QueueInv
  <2>3. LatestInv'
    BY <1>0, <1>q, <2>1 DEF LatestInv, Path!Unended
  <2>4. LeftInv'
    BY <1>0, <1>q, <2>1 DEF LeftInv, Path!PathIsAsLeft
  <2>5. LoadInv' /\ Path!LoadsAreFresh'
    BY <1>0, <2>1 DEF LoadInv, Path!LoadsAreFresh
  <2> QED
    BY <2>2, <2>3, <2>4, <2>5 DEF PathInv
<1>9. CASE Path!Load \/ Path!HeadObject \/ Path!GetObject \/ Path!LoadFails
  <2>1. UNCHANGED <<stored, saves, queue, writer, abandoned, kept, exposed, oldest>>
    BY <1>9 DEF Path!Load, Path!HeadObject, Path!GetObject, Path!LoadFails, Path!saveVars
  <2>2. QueueInv' /\ LatestInv'
    BY <1>0, <2>1 DEF QueueInv, LatestInv, Path!Unended
  <2>3. LeftInv'
    BY <1>0, <1>q, <2>1, PromiseStays DEF LeftInv
  <2>4. LoadInv'
    <3>1. CASE Path!Load
      <4>1. reading' = [pc |-> "head", floor |-> oldest]
        BY <3>1 DEF Path!Load
      <4> QED
        BY <1>q, <2>1, <4>1 DEF LoadInv
    <3>2. CASE Path!HeadObject
      <4>1. /\ reading.pc = "head"
            /\ reading' = [reading EXCEPT !.pc = "get"] \/ reading' = Path!NotLoading
        BY <3>2 DEF Path!HeadObject
      <4>2. reading'.floor = reading.floor \/ reading' = [pc |-> "idle", floor |-> 0]
        BY <1>0, <4>1 DEF Path!NotLoading, LoadInv
      <4> QED
        BY <1>0, <2>1, <4>1, <4>2 DEF LoadInv, Path!NotLoading
    <3>3. CASE Path!GetObject \/ Path!LoadFails
      BY <3>3 DEF Path!GetObject, Path!LoadFails, Path!NotLoading, LoadInv
    <3> QED
      BY <1>9, <3>1, <3>2, <3>3
  <2>5. Path!LoadsAreFresh'
    <3>1. CASE Path!GetObject
      <4>1. /\ reading.pc = "get"
            /\ loaded' = IF stored.whole THEN [save |-> stored.save, floor |-> reading.floor]
                         ELSE loaded
        BY <3>1 DEF Path!GetObject
      <4>2. stored.whole => stored.save >= reading.floor
        BY <1>0, <4>1 DEF LoadInv, LatestInv
      <4> QED
        BY <1>0, <4>1, <4>2 DEF Path!LoadsAreFresh
    <3>2. CASE Path!Load \/ Path!HeadObject \/ Path!LoadFails
      BY <1>0, <3>2 DEF Path!Load, Path!HeadObject, Path!LoadFails, Path!LoadsAreFresh
    <3> QED
      BY <1>9, <3>1, <3>2
  <2> QED
    BY <2>2, <2>3, <2>4, <2>5 DEF PathInv
<1>10. CASE UNCHANGED Path!cvars
  <2>1. UNCHANGED <<stored, saves, queue, writer, abandoned, kept, exposed, oldest, reading,
                    loaded>>
    BY <1>10 DEF Path!cvars
  <2>2. LeftInv'
    BY <1>0, <1>q, <2>1, PromiseStays DEF LeftInv
  <2> QED
    BY <1>0, <2>1, <2>2 DEF PathInv, QueueInv, LatestInv, Path!Unended, LoadInv,
                            Path!LoadsAreFresh
<1> QED
  BY <1>1, <1>2, <1>3, <1>4, <1>5, <1>6, <1>7, <1>8, <1>9, <1>10 DEF Path!Next

LEMMA PathInvariance == MCSpec => []PathInv
<1>1. MCInit => PathInv
  BY PathInitInvariant DEF MCInit
<1>2. PathInv /\ [MCNext]_allVars => PathInv'
  <2> SUFFICES ASSUME PathInv, [MCNext]_allVars PROVE PathInv'
    OBVIOUS
  <2>1. Path!Next \/ UNCHANGED Path!cvars
    BY DEF MCNext, allVars, checkpointsOnly, Path!cvars
  <2> QED
    BY <2>1, PathStepInvariant
<1> QED
  BY <1>1, <1>2, PTL DEF MCSpec

(* s3_lightning_checkpoint.py and s3checkpoint.py: after any number of     *)
(* saves, failures, removals and loads, queued or not, the path is as the  *)
(* save or removal that ended last left it, but for a part of a save that  *)
(* an exception ended.                                                     *)
THEOREM CheckpointsAreAsLeft == MCSpec => []PathIsAsLeft
<1>1. PathInv => PathIsAsLeft
  BY DEF PathInv, LeftInv, PathIsAsLeft
<1> QED
  BY <1>1, PathInvariance, PTL

(* load_checkpoint and reader: whatever is queued, written, left or removed*)
(* meanwhile, a load returns no older save than the latest that had        *)
(* returned when it began, and none that was over when it was removed.     *)
THEOREM LoadsReturnTheLatest == MCSpec => []LoadsAreFresh
<1>1. PathInv => LoadsAreFresh
  BY DEF PathInv, LoadsAreFresh
<1> QED
  BY <1>1, PathInvariance, PTL
=============================================================================
