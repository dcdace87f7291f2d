------------------------------- MODULE S3Writer -------------------------------
(***************************************************************************)
(* S3Writer (s3writer.py) over PutObjectStream (put_object_stream.rs): one *)
(* object being uploaded.  The writer thread runs a with statement and     *)
(* writes; it and other threads may close; when the last reference is gone *)
(* the io.IOBase finalizer closes what is still open.                      *)
(*                                                                         *)
(* The Rust stream is borrowed exclusively by a call for as long as it     *)
(* runs, and the GIL is released meanwhile: a call that finds it borrowed  *)
(* raises RuntimeError.  What was written is abstracted to the number of   *)
(* writes the upload accepted.                                             *)
(***************************************************************************)
EXTENDS Integers, FiniteSets

CONSTANTS
  Writer,     \* the thread of the with statement
  Closers,    \* other threads that close the writer
  Finalizer,  \* the garbage collector calling IOBase.__del__
  Free,       \* nobody
  MaxWrites,  \* bound on the writes of the body
  MaxCloses   \* bound on the closes of each thread

Threads == {Writer} \cup Closers \cup {Finalizer}

ASSUME ThreadsAssumption ==
  /\ Writer \notin Closers /\ Finalizer \notin Closers /\ Writer # Finalizer
  /\ Free \notin Threads

ASSUME BoundsAssumption == MaxWrites \in Nat /\ MaxCloses \in Nat

VARIABLES
  closed,    \* _closed
  lock,      \* owner of _lock
  position,  \* _position
  borrow,    \* the thread inside a call of the PutObjectStream
  request,   \* the PutObjectRequest: "open", "failed" (a part failed) or "taken"
  accepted,  \* the number of writes the request accepted
  object,    \* the object in S3: the writes it contains, or None
  pc,        \* per thread: where its call is
  ret,       \* per thread: how its last call ended
  body,      \* the with statement: "out", "in", "ended" or "raised"
  dropped,   \* nobody refers to the writer any more
  closes,    \* per thread: how often it closed
  streamCloses, \* history: how often the close of the stream was called
  failed     \* history: some close raised

vars == <<closed, lock, position, borrow, request, accepted, object, pc, ret,
          body, dropped, closes, streamCloses, failed>>

None == -1

-----------------------------------------------------------------------------
Init ==
  /\ closed = FALSE /\ lock = Free /\ position = 0
  /\ borrow = Free /\ request = "open" /\ accepted = 0 /\ object = None
  /\ pc = [t \in Threads |-> "idle"]
  /\ ret = [t \in Threads |-> "none"]
  /\ body = "out"
  /\ closes = [t \in Threads |-> 0]
  /\ dropped = FALSE /\ streamCloses = 0 /\ failed = FALSE

Goto(t, l) == pc' = [pc EXCEPT ![t] = l]
Return(t, r) == Goto(t, "idle") /\ ret' = [ret EXCEPT ![t] = r]

Enter ==
  /\ body = "out" /\ pc[Writer] = "idle"
  /\ body' = "in" /\ position' = 0
  /\ UNCHANGED <<closed, lock, borrow, request, accepted, object, pc, ret,
                 closes, streamCloses, failed, dropped>>

(* write: _checkClosed, ...                                                *)
Write ==
  /\ body = "in" /\ pc[Writer] = "idle" /\ accepted < MaxWrites
  /\ IF closed THEN Return(Writer, "ValueError")
     ELSE Goto(Writer, "write") /\ ret' = ret
  /\ UNCHANGED <<closed, lock, position, borrow, request, accepted, object,
                 body, closes, streamCloses, failed, dropped>>

(* ... then PutObjectStream.write, entered only if nobody else is inside.  *)
StreamWrite ==
  /\ pc[Writer] = "write"
  /\ \/ /\ borrow # Free
        /\ Return(Writer, "RuntimeError") /\ borrow' = borrow
     \/ /\ borrow = Free /\ request = "taken"
        /\ Return(Writer, "S3Exception") /\ borrow' = borrow
     \/ /\ borrow = Free /\ request # "taken"
        /\ borrow' = Writer /\ Goto(Writer, "writing") /\ ret' = ret
  /\ UNCHANGED <<closed, lock, position, request, accepted, object, body,
                 closes, streamCloses, failed, dropped>>

WriteReturns ==
  /\ pc[Writer] = "writing" /\ request = "open"
  /\ borrow' = Free
  /\ accepted' = accepted + 1
  /\ position' = position + 1
  /\ Return(Writer, "ok")
  /\ UNCHANGED <<closed, lock, request, object, body, closes, streamCloses,
                 failed, dropped>>

WriteFails ==
  /\ pc[Writer] = "writing"
  /\ borrow' = Free
  /\ request' = "failed"
  /\ Return(Writer, "S3Exception")
  /\ UNCHANGED <<closed, lock, position, accepted, object, body, closes,
                 streamCloses, failed, dropped>>

-----------------------------------------------------------------------------
(* close, from its first line.                                             *)
StartClose(t) ==
  /\ pc[t] = "idle"
  /\ Goto(t, "lock")
  /\ closes' = [closes EXCEPT ![t] = @ + 1]

(* Faulty variants: the flag is tested and set without the lock; the flag  *)
(* is tested but not set.                                                  *)
TakeNoLock(t) ==
  /\ pc[t] = "lock"
  /\ IF closed
     THEN Return(t, "closed") /\ UNCHANGED <<closed, lock>>
     ELSE closed' = TRUE /\ Goto(t, "complete") /\ UNCHANGED <<lock, ret>>
  /\ UNCHANGED <<position, borrow, request, accepted, object, body, closes,
                 streamCloses, failed, dropped>>

TakeTestOnly(t) ==
  /\ pc[t] = "lock" /\ lock = Free
  /\ IF closed THEN Return(t, "closed") ELSE Goto(t, "complete") /\ ret' = ret
  /\ UNCHANGED <<closed, lock, position, borrow, request, accepted, object,
                 body, closes, streamCloses, failed, dropped>>

(* With the lock: nothing to do, or the writer is closed from now on.      *)
TakeLock(t) ==
  /\ pc[t] = "lock" /\ lock = Free
  /\ IF closed
     THEN Return(t, "closed") /\ UNCHANGED <<closed, lock>>
     ELSE closed' = TRUE /\ lock' = t /\ Goto(t, "complete") /\ ret' = ret
  /\ UNCHANGED <<position, borrow, request, accepted, object, body, closes,
                 streamCloses, failed, dropped>>

(* Faulty variants: the request is not taken out of the stream; the lock   *)
(* is not released when the stream raises.                                 *)
StreamCloseKeepsRequest(t) ==
  /\ pc[t] = "complete"
  /\ \/ /\ borrow # Free
        /\ Return(t, "RuntimeError") /\ failed' = TRUE /\ lock' = Free
        /\ UNCHANGED <<borrow, request>>
     \/ /\ borrow = Free /\ request = "taken"
        /\ Return(t, "S3Exception") /\ failed' = TRUE /\ lock' = Free
        /\ UNCHANGED <<borrow, request>>
     \/ /\ borrow = Free /\ request # "taken"
        /\ borrow' = t /\ request' = request
        /\ Goto(t, IF request = "open" THEN "completing" ELSE "aborting")
        /\ UNCHANGED <<lock, ret, failed>>
  /\ streamCloses' = streamCloses + 1
  /\ UNCHANGED <<closed, position, accepted, object, body, dropped, closes>>

StreamCloseKeepsLock(t) ==
  /\ pc[t] = "complete"
  /\ \/ /\ borrow # Free
        /\ Return(t, "RuntimeError") /\ failed' = TRUE /\ lock' = lock
        /\ UNCHANGED <<borrow, request>>
     \/ /\ borrow = Free /\ request = "taken"
        /\ Return(t, "S3Exception") /\ failed' = TRUE /\ lock' = lock
        /\ UNCHANGED <<borrow, request>>
     \/ /\ borrow = Free /\ request # "taken"
        /\ borrow' = t /\ request' = "taken"
        /\ Goto(t, IF request = "open" THEN "completing" ELSE "aborting")
        /\ UNCHANGED <<lock, ret, failed>>
  /\ streamCloses' = streamCloses + 1
  /\ UNCHANGED <<closed, position, accepted, object, body, dropped, closes>>

(* PutObjectStream.close: the request is taken out of the stream first.    *)
StreamClose(t) ==
  /\ pc[t] = "complete"
  /\ \/ /\ borrow # Free
        /\ Return(t, "RuntimeError") /\ failed' = TRUE /\ lock' = Free
        /\ UNCHANGED <<borrow, request>>
     \/ /\ borrow = Free /\ request = "taken"
        /\ Return(t, "S3Exception") /\ failed' = TRUE /\ lock' = Free
        /\ UNCHANGED <<borrow, request>>
     \/ /\ borrow = Free /\ request # "taken"
        /\ borrow' = t /\ request' = "taken"
        /\ Goto(t, IF request = "open" THEN "completing" ELSE "aborting")
        /\ UNCHANGED <<lock, ret, failed>>
  /\ streamCloses' = streamCloses + 1
  /\ UNCHANGED <<closed, position, accepted, object, body, dropped, closes>>

CompleteReturns(t) ==
  /\ pc[t] = "completing"
  /\ object' = accepted
  /\ borrow' = Free /\ lock' = Free
  /\ Return(t, "closed")
  /\ UNCHANGED <<closed, position, request, accepted, body, closes,
                 streamCloses, failed, dropped>>

(* The answer may be lost after S3 stored the object.  A request one of    *)
(* whose parts failed cannot be completed.                                 *)
CompleteFails(t) ==
  /\ pc[t] \in {"completing", "aborting"}
  /\ object' \in IF pc[t] = "completing" THEN {object, accepted} ELSE {object}
  /\ borrow' = Free /\ lock' = Free
  /\ failed' = TRUE
  /\ Return(t, "S3Exception")
  /\ UNCHANGED <<closed, position, request, accepted, body, closes,
                 streamCloses, dropped>>

Close(t) ==
  /\ t # Finalizer /\ body \in {"out", "in"}
  /\ closes[t] < MaxCloses
  /\ StartClose(t)
  /\ UNCHANGED <<closed, lock, position, borrow, request, accepted, object,
                 ret, body, streamCloses, failed, dropped>>

-----------------------------------------------------------------------------
(* __exit__: close on normal exit, nothing but a log line on an exception. *)
ExitNormally ==
  /\ body = "in" /\ body' = "ended"
  /\ StartClose(Writer)
  /\ UNCHANGED <<closed, lock, position, borrow, request, accepted, object,
                 ret, streamCloses, failed, dropped>>

ExitWithException ==
  /\ body = "in" /\ pc[Writer] = "idle" /\ body' = "raised"
  /\ UNCHANGED <<closed, lock, position, borrow, request, accepted, object,
                 pc, ret, closes, streamCloses, failed, dropped>>

(* No thread holds the writer any more: IOBase.__del__ calls close() unless*)
(* `closed` says it was closed.                                            *)
Finalize ==
  /\ body \in {"ended", "raised"} /\ ~dropped
  /\ \A t \in Threads : pc[t] = "idle"
  /\ dropped' = TRUE
  /\ IF closed THEN UNCHANGED <<pc, closes>> ELSE StartClose(Finalizer)
  /\ UNCHANGED <<closed, lock, position, borrow, request, accepted, object, ret,
                 body, streamCloses, failed>>

-----------------------------------------------------------------------------
CloseStep(t) ==
  TakeLock(t) \/ StreamClose(t) \/ CompleteReturns(t) \/ CompleteFails(t)

WriteStep == StreamWrite \/ WriteReturns \/ WriteFails

Next ==
  \/ Enter \/ Write \/ WriteStep
  \/ \E t \in Threads : Close(t) \/ CloseStep(t)
  \/ ExitNormally \/ ExitWithException \/ Finalize

Spec == Init /\ [][Next]_vars

(* A thread inside a call is scheduled again, and S3 answers. *)
Fairness ==
  /\ WF_vars(WriteStep)
  /\ \A t \in Threads : WF_vars(CloseStep(t))

FairSpec == Spec /\ Fairness
-----------------------------------------------------------------------------
TypeOK ==
  /\ closed \in BOOLEAN /\ lock \in Threads \cup {Free}
  /\ position \in Nat /\ accepted \in Nat /\ object \in Nat \cup {None}
  /\ borrow \in Threads \cup {Free}
  /\ request \in {"open", "failed", "taken"}
  /\ pc \in [Threads -> {"idle", "write", "writing", "lock", "complete",
                         "completing", "aborting"}]
  /\ ret \in [Threads -> {"none", "ok", "closed", "ValueError", "RuntimeError",
                          "S3Exception"}]
  /\ body \in {"out", "in", "ended", "raised"} /\ dropped \in BOOLEAN
  /\ closes \in [Threads -> Nat] /\ streamCloses \in Nat /\ failed \in BOOLEAN

(* However many threads close, and with the finalizer, the upload is       *)
(* completed at most once (test_concurrent_close_calls).                   *)
ClosedOnce == streamCloses <= 1

(* The object in S3 holds every write that ever returned: nothing is       *)
(* accepted after the upload was completed.                                *)
ObjectIsWhole == object # None => object = accepted

(* "Ensures all bytes are written successfully": a close that returns,     *)
(* also one that found another close running, returns after the object is  *)
(* in S3.                                                                  *)
CloseMeansStored == \A t \in Threads : ret[t] = "closed" => object = accepted

(* The same, as long as no close raised.                                   *)
CloseMeansStoredUnlessFailed == ~failed => CloseMeansStored

(* A with statement left by an exception leaves no object behind: "Stream  *)
(* should not be closed on exception".  It does not hold: the finalizer    *)
(* closes the stream later.                                                *)
NoObjectAfterException == body = "raised" => object = None

(* Every close returns to its caller. *)
CloseReturns == \A t \in Threads : (pc[t] = "lock") ~> (pc[t] = "idle")
=============================================================================
