------------------------------ MODULE ByteReader ------------------------------
(***************************************************************************)
(* What every S3Reader (s3reader/s3reader.py, an io.BufferedIOBase over    *)
(* one object) promises its user, as an abstract specification: a cursor   *)
(* and the bytes from the cursor on.  It promises nothing to a user that   *)
(* reads again after an exception, where the reader says so by `void`.     *)
(*                                                                         *)
(* Bytes are identified by their offset in the object.  `ret` is how the   *)
(* last read ended: its status, the position it started from and the data  *)
(* it returned, a function from 0 .. size-1 to byte identities.            *)
(***************************************************************************)
EXTENDS Integers

CONSTANT Errors   \* the exceptions a read may end with

VARIABLES position, ret, void

vars == <<position, ret, void>>

ObjectBytes(from, n) == [size |-> n, at |-> [i \in 0..(n-1) |-> from + i]]

Init == position = 0 /\ ret.status = "none" /\ void = FALSE

(* A read returns some of the bytes that follow the cursor and moves the   *)
(* cursor over exactly those ...                                           *)
Returns ==
  /\ ret' = [status |-> "ok", from |-> position,
             data |-> ObjectBytes(position, ret'.data.size)]
  /\ ret'.data.size \in Nat
  /\ position' = position + ret'.data.size

(* ... or raises, leaving the cursor where it was.                         *)
Raises ==
  /\ ret'.status \in Errors /\ ret'.from = position /\ ret'.data.size = 0
  /\ position' = position

Seeks == position' \in Int /\ ret' = ret

Forfeits == void' = TRUE

Next == (void' = FALSE /\ (Returns \/ Raises \/ Seeks)) \/ Forfeits

Spec == Init /\ [][Next]_vars
=============================================================================
