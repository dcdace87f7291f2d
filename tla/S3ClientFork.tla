----------------------------- MODULE S3ClientFork -----------------------------
(***************************************************************************)
(* The native client of an S3Client (_s3client.py) across fork().  The     *)
(* client is created lazily under a lock and replaced after a fork, because*)
(* its background threads do not survive it; os.register_at_fork handlers  *)
(* release it before a fork and empty the list of clients in the child.    *)
(*                                                                         *)
(* One S3Client is used by the threads of a process and, after a fork, by  *)
(* the forking thread of the child, which finds a copy of the memory of    *)
(* its parent: the lock included, whoever held it.                         *)
(*                                                                         *)
(* The handler warns: "Ensure no active S3 client usage during fork        *)
(* operations".  What holds while its users heed that, and what holds      *)
(* anyway, are told apart by `heeded`.                                     *)
(***************************************************************************)
EXTENDS Integers, FiniteSets

CONSTANTS
  Main,        \* the thread that forks
  Others,      \* the other threads of the first process
  Free,        \* nobody
  MaxProcs     \* bound on the processes

Threads == {Main} \cup Others
Procs == 1..MaxProcs

ASSUME ThreadsAssumption == Main \notin Others /\ Free \notin Threads
ASSUME BoundsAssumption == MaxProcs \in Nat \ {0}

(* Process ids are 1, 2, ...; a native client is known by the process that *)
(* created it.                                                             *)
None == 0
AssertFailed == -1

VARIABLES
  procs,      \* the number of processes so far
  native,     \* per process: _native_client
  clientPid,  \* per process: _client_pid
  tracked,    \* per process: the S3Client is in _active_clients
  lock,       \* per process: the owner of _client_lock
  pc,         \* per process and thread: where it is
  got,        \* per process and thread: the client in use; AssertFailed from
              \* then to the next use
  dirty,      \* history: so far heeded, a fork found a live native client
  heeded      \* history: no use of the client fell into a fork

vars == <<procs, native, clientPid, tracked, lock, pc, got, dirty, heeded>>

Init ==
  /\ procs = 1
  /\ native = [p \in Procs |-> None]
  /\ clientPid = [p \in Procs |-> None]
  /\ tracked = [p \in Procs |-> FALSE]
  /\ lock = [p \in Procs |-> Free]
  /\ pc = [p \in Procs |-> [t \in Threads |-> IF p = 1 THEN "idle" ELSE "gone"]]
  /\ got = [p \in Procs |-> [t \in Threads |-> None]]
  /\ dirty = FALSE /\ heeded = TRUE

Goto(p, t, l) == pc' = [pc EXCEPT ![p][t] = l]
Got(p, t, c) == got' = [got EXCEPT ![p][t] = c]

Forking == {"list", "release", "reset", "fork", "after"}

Quiet(p) == \A t \in Threads : pc[p][t] \in {"idle", "gone"}

-----------------------------------------------------------------------------
(* Faulty variants: the test forgets the process; it forgets the release.  *)
StaleIgnoresPid(p) == clientPid[p] = None \/ native[p] = None
StaleIgnoresRelease(p) == clientPid[p] = None \/ clientPid[p] # p

(* The native client has to be created: never done, forked, or released.   *)
Stale(p) == clientPid[p] = None \/ clientPid[p] # p \/ native[p] = None

(* The property _client: a test without the lock, ...                      *)
Use(p, t) ==
  /\ pc[p][t] = "idle"
  /\ Goto(p, t, IF Stale(p) THEN "acquire" ELSE "assert") /\ Got(p, t, None)
  /\ heeded' = (heeded /\ pc[p][Main] \notin Forking)
  /\ UNCHANGED <<procs, native, clientPid, tracked, lock, dirty>>

Acquire(p, t) ==
  /\ pc[p][t] = "acquire" /\ lock[p] = Free
  /\ lock' = [lock EXCEPT ![p] = t]
  /\ Goto(p, t, "check")
  /\ UNCHANGED <<procs, native, clientPid, tracked, got, dirty, heeded>>

(* Faulty variant: no second test. *)
CheckNothing(p, t) ==
  /\ pc[p][t] = "check"
  /\ Goto(p, t, "build") /\ lock' = lock
  /\ UNCHANGED <<procs, native, clientPid, tracked, got, dirty, heeded>>

(* Faulty variant: the lock is kept when there is nothing to create. *)
CheckKeepsLock(p, t) ==
  /\ pc[p][t] = "check"
  /\ Goto(p, t, IF Stale(p) THEN "build" ELSE "assert") /\ lock' = lock
  /\ UNCHANGED <<procs, native, clientPid, tracked, got, dirty, heeded>>

(* ... the same test with it, ...                                          *)
Check(p, t) ==
  /\ pc[p][t] = "check"
  /\ IF Stale(p)
     THEN Goto(p, t, "build") /\ lock' = lock
     ELSE Goto(p, t, "assert") /\ lock' = [lock EXCEPT ![p] = Free]
  /\ UNCHANGED <<procs, native, clientPid, tracked, got, dirty, heeded>>

(* ... then three assignments, between which other threads may run, ...    *)
Build(p, t) ==
  /\ pc[p][t] = "build"
  /\ native' = [native EXCEPT ![p] = p]
  /\ Goto(p, t, "pid")
  /\ UNCHANGED <<procs, clientPid, tracked, lock, got, dirty, heeded>>

SetPid(p, t) ==
  /\ pc[p][t] = "pid"
  /\ clientPid' = [clientPid EXCEPT ![p] = p]
  /\ Goto(p, t, "track")
  /\ UNCHANGED <<procs, native, tracked, lock, got, dirty, heeded>>

Track(p, t) ==
  /\ pc[p][t] = "track"
  /\ tracked' = [tracked EXCEPT ![p] = TRUE]
  /\ lock' = [lock EXCEPT ![p] = Free]
  /\ Goto(p, t, "assert")
  /\ UNCHANGED <<procs, native, clientPid, got, dirty, heeded>>

(* ... and two more reads of _native_client, the assertion and the return. *)
AssertNative(p, t) ==
  /\ pc[p][t] = "assert"
  /\ IF native[p] = None
     THEN Goto(p, t, "idle") /\ Got(p, t, AssertFailed)
     ELSE Goto(p, t, "return") /\ got' = got
  /\ UNCHANGED <<procs, native, clientPid, tracked, lock, dirty, heeded>>

Return(p, t) ==
  /\ pc[p][t] = "return"
  /\ Got(p, t, native[p])
  /\ Goto(p, t, IF native[p] = None THEN "idle" ELSE "using")
  /\ UNCHANGED <<procs, native, clientPid, tracked, lock, dirty, heeded>>

(* A request holds a reference to the native client until it is answered.  *)
RequestEnds(p, t) ==
  /\ pc[p][t] = "using"
  /\ Goto(p, t, "idle") /\ Got(p, t, None)
  /\ UNCHANGED <<procs, native, clientPid, tracked, lock, dirty, heeded>>

-----------------------------------------------------------------------------
(* _before_fork_handler, in the forking thread.                            *)
BeforeFork(p) ==
  /\ pc[p][Main] = "idle" /\ procs < MaxProcs
  /\ heeded' = (heeded /\ Quiet(p))
  /\ Goto(p, Main, "list")
  /\ UNCHANGED <<procs, native, clientPid, tracked, lock, got, dirty>>

(* The list is copied under the lock.  Nothing is done if it is empty.     *)
ListClients(p) ==
  /\ pc[p][Main] = "list" /\ lock[p] = Free
  /\ Goto(p, Main, IF tracked[p] THEN "release" ELSE "fork")
  /\ UNCHANGED <<procs, native, clientPid, tracked, lock, got, dirty, heeded>>

(* Faulty variant: the client is left alone. *)
ReleaseNothing(p) ==
  /\ pc[p][Main] = "release"
  /\ Goto(p, Main, "reset") /\ native' = native
  /\ UNCHANGED <<procs, clientPid, tracked, lock, got, dirty, heeded>>

Release(p) ==
  /\ pc[p][Main] = "release"
  /\ native' = [native EXCEPT ![p] = None]
  /\ Goto(p, Main, "reset")
  /\ UNCHANGED <<procs, clientPid, tracked, lock, got, dirty, heeded>>

(* Faulty variant: the lock of _reset_active_s3clients is not released.    *)
ResetKeepsLock(p) ==
  /\ pc[p][Main] = "reset" /\ lock[p] = Free
  /\ tracked' = [tracked EXCEPT ![p] = FALSE]
  /\ lock' = [lock EXCEPT ![p] = Main]
  /\ Goto(p, Main, "fork")
  /\ UNCHANGED <<procs, native, clientPid, got, dirty, heeded>>

(* _reset_active_s3clients, gc.collect and join_all_managed_threads, which *)
(* waits half a second without the GIL and may time out.                   *)
Reset(p) ==
  /\ pc[p][Main] = "reset" /\ lock[p] = Free
  /\ tracked' = [tracked EXCEPT ![p] = FALSE]
  /\ lock' = lock
  /\ Goto(p, Main, "fork")
  /\ UNCHANGED <<procs, native, clientPid, got, dirty, heeded>>

LiveAt(p) == native[p] # None \/ \E t \in Threads : pc[p][t] = "using"

(* fork(): the child has a copy of everything but the other threads.       *)
Fork(p) ==
  LET c == procs + 1
  IN  /\ pc[p][Main] = "fork" /\ procs < MaxProcs
      /\ procs' = c
      /\ native' = [native EXCEPT ![c] = native[p]]
      /\ clientPid' = [clientPid EXCEPT ![c] = clientPid[p]]
      /\ tracked' = [tracked EXCEPT ![c] = tracked[p]]
      /\ lock' = [lock EXCEPT ![c] = lock[p]]
      /\ pc' = [pc EXCEPT ![p][Main] = "idle", ![c][Main] = "after"]
      /\ got' = got /\ heeded' = heeded
      /\ dirty' = (dirty \/ (heeded /\ LiveAt(p)))

(* _after_fork_handler, in the child. *)
AfterFork(p) ==
  /\ pc[p][Main] = "after" /\ lock[p] = Free
  /\ tracked' = [tracked EXCEPT ![p] = FALSE]
  /\ Goto(p, Main, "idle")
  /\ UNCHANGED <<procs, native, clientPid, lock, got, dirty, heeded>>

-----------------------------------------------------------------------------
ClientStep(p, t) ==
  \/ Acquire(p, t) \/ Check(p, t) \/ Build(p, t) \/ SetPid(p, t) \/ Track(p, t)
  \/ AssertNative(p, t) \/ Return(p, t) \/ RequestEnds(p, t)

ForkStep(p) ==
  ListClients(p) \/ Release(p) \/ Reset(p) \/ Fork(p) \/ AfterFork(p)

Next ==
  \E p \in Procs :
    \/ BeforeFork(p) \/ ForkStep(p)
    \/ \E t \in Threads : Use(p, t) \/ ClientStep(p, t)

Spec == Init /\ [][Next]_vars

(* Every thread inside a call or a handler runs.  *)
Fairness ==
  \A p \in Procs :
    /\ WF_vars(ForkStep(p))
    /\ \A t \in Threads : WF_vars(ClientStep(p, t))

FairSpec == Spec /\ Fairness
-----------------------------------------------------------------------------
TypeOK ==
  /\ procs \in Procs
  /\ native \in [Procs -> Procs \cup {None}]
  /\ clientPid \in [Procs -> Procs \cup {None}]
  /\ tracked \in [Procs -> BOOLEAN]
  /\ lock \in [Procs -> Threads \cup {Free}]
  /\ pc \in [Procs -> [Threads ->
       {"idle", "gone", "acquire", "check", "build", "pid", "track", "assert",
        "return", "using"} \cup Forking]]
  /\ got \in [Procs -> [Threads -> Procs \cup {None, AssertFailed}]]
  /\ dirty \in BOOLEAN /\ heeded \in BOOLEAN

(* No process ever sends a request through a native client that another    *)
(* process created, however forks and uses interleave.                     *)
OwnClientOnly ==
  \A p \in Procs, t \in Threads : pc[p][t] = "using" => got[p][t] = p

(* "This double-check ensures that the client is only created once": a     *)
(* client of the running process is only ever replaced after its release.  *)
BuiltOnce ==
  [][\A p \in Procs, t \in Threads : Build(p, t) => native[p] # p]_vars

(* "Release the client before fork as it's not fork-safe": while the       *)
(* warning is heeded, no fork finds a live client.                         *)
ReleasedAtFork == ~dirty

(* assert self._native_client is not None.                                 *)
AssertionHolds ==
  heeded => \A p \in Procs, t \in Threads : got[p][t] # AssertFailed

(* The child gets through its handler ("to avoid crashes or hangs"): its   *)
(* copy of the lock is not one that a thread it does not have holds ...    *)
ChildCanStart ==
  \A p \in Procs : pc[p][Main] = "after" => lock[p] = Free

(* ... unless the warning was not heeded.                                  *)
ChildCanStartIfHeeded == heeded => ChildCanStart

(* All three are what the warning promises to those who heed it.           *)
HeededForksAreSafe == ReleasedAtFork /\ AssertionHolds /\ ChildCanStartIfHeeded

(* A use of the client comes to an end: nobody waits for the lock forever. *)
UseEnds ==
  \A p \in Procs, t \in Threads : (pc[p][t] = "acquire") ~> (pc[p][t] = "idle")
=============================================================================
