----------------------------- MODULE ThreadsProofs -----------------------------
(***************************************************************************)
(* What holds of the two components whose threads share memory.            *)
(*                                                                         *)
(* Of an S3Client (S3ClientFork), for any number of threads, processes and *)
(* forks, also when the client is used during a fork.  The inductive       *)
(* invariant follows the pair (_native_client, _client_pid): a thread that *)
(* is past its test knows _client_pid is its own process, and then the     *)
(* client is released or its own; under the lock, one creation at a time.  *)
(* A second one adds what holds for those who heed the warning of the fork *)
(* handler, and why.                                                       *)
(*                                                                         *)
(* Of the data generator (Datagen), for any number of producers, consumers *)
(* and samples: while nothing was raised, each sample drawn is in exactly  *)
(* one place on its way into the bucket, and there is one sentinel.        *)
(***************************************************************************)
EXTENDS S3ClientFork, MCDatagen, RangesProofs

Locked == {"check", "build", "pid", "track"}
Passed == {"track", "assert", "return"}

(* A process that was not forked yet has no threads. *)
Unborn ==
  \A p \in Procs : p > procs => \A t \in Threads : pc[p][t] = "gone"

(* The process in _client_pid exists; when it is the running process, the  *)
(* client is its own or was released.                                      *)
Owner ==
  \A p \in Procs :
    /\ clientPid[p] <= procs
    /\ clientPid[p] = p => native[p] \in {None, p}
    /\ \A t \in Threads :
         /\ pc[p][t] \in Passed => clientPid[p] = p
         /\ pc[p][t] = "pid" => native[p] \in {None, p}
         /\ pc[p][t] = "using" => got[p][t] = p

(* The client is created under the lock: while a process that is alive has *)
(* a client without having noted its pid, the creating thread is about to. *)
Creation ==
  \A p \in Procs :
    /\ native[p] <= procs
    /\ p <= procs /\ native[p] = p /\ clientPid[p] # p =>
          \E t \in Threads : pc[p][t] = "pid"
    /\ \A t \in Threads :
         /\ pc[p][t] \in Locked => lock[p] = t
         /\ pc[p][t] = "build" => Stale(p)

IInv == TypeOK /\ Unborn /\ Owner /\ Creation

-----------------------------------------------------------------------------
LEMMA ConstantFacts ==
  /\ Main \in Threads /\ Free \notin Threads
  /\ Procs \subseteq Nat \ {0} /\ 1 \in Procs
  /\ \A p \in Procs : p # None /\ p # AssertFailed
  /\ None # AssertFailed
  BY ThreadsAssumption, BoundsAssumption
     DEF Threads, Procs, None, AssertFailed

LEMMA InitInvariant == Init => IInv
<1> SUFFICES ASSUME Init PROVE IInv
  OBVIOUS
<1> USE ConstantFacts
<1>1. TypeOK
  BY DEF Init, TypeOK, None
<1>2. Unborn
  BY DEF Init, Unborn
<1>3. Owner
  BY DEF Init, Owner, Passed, None
<1>4. Creation
  BY DEF Init, Creation, Locked, Stale, None
<1> QED
  BY <1>1, <1>2, <1>3, <1>4 DEF IInv

-----------------------------------------------------------------------------
(* Every step keeps the invariant. *)
LEMMA StepInvariant == IInv /\ [Next]_vars => IInv'
<1> SUFFICES ASSUME IInv, [Next]_vars PROVE IInv'
  OBVIOUS
<1> USE ConstantFacts
<1> USE DEF IInv
<1>1. ASSUME NEW p \in Procs, NEW t \in Threads, Use(p, t) PROVE IInv'
  <2>1. TypeOK'
    BY <1>1 DEF TypeOK, Forking, Use, Goto, Got, Stale
  <2>2. Unborn'
    BY <1>1 DEF TypeOK, Unborn, Use, Goto, Got, Stale
  <2>3. Owner'
    BY <1>1 DEF TypeOK, Unborn, Owner, Passed, None, Use, Goto, Got, Stale
  <2>4. Creation'
    BY <1>1 DEF TypeOK, Unborn, Owner, Creation, Locked, Passed, None, Use, Goto, Got, Stale
  <2> QED BY <2>1, <2>2, <2>3, <2>4
<1>2. ASSUME NEW p \in Procs, NEW t \in Threads, Acquire(p, t) PROVE IInv'
  <2>1. TypeOK'
    BY <1>2 DEF TypeOK, Forking, Acquire, Goto
  <2>2. Unborn'
    BY <1>2 DEF TypeOK, Unborn, Acquire, Goto
  <2>3. Owner'
    BY <1>2 DEF TypeOK, Unborn, Owner, Passed, None, Acquire, Goto
  <2>4. Creation'
    BY <1>2 DEF TypeOK, Unborn, Owner, Creation, Locked, Passed, None, Stale, Acquire, Goto
  <2> QED BY <2>1, <2>2, <2>3, <2>4
<1>3. ASSUME NEW p \in Procs, NEW t \in Threads, Check(p, t) PROVE IInv'
  <2>1. TypeOK'
    BY <1>3 DEF TypeOK, Forking, Check, Goto, Stale
  <2>2. Unborn'
    BY <1>3 DEF TypeOK, Unborn, Check, Goto, Stale
  <2>3. Owner'
    BY <1>3 DEF TypeOK, Unborn, Owner, Passed, None, Check, Goto, Stale
  <2>4. Creation'
    BY <1>3 DEF TypeOK, Unborn, Owner, Creation, Locked, Passed, None, Check, Goto, Stale
  <2> QED BY <2>1, <2>2, <2>3, <2>4
<1>4. ASSUME NEW p \in Procs, NEW t \in Threads, Build(p, t) PROVE IInv'
  <2>1. TypeOK'
    BY <1>4 DEF TypeOK, Forking, Build, Goto
  <2>2. Unborn'
    BY <1>4 DEF TypeOK, Unborn, Build, Goto
  <2>3. Owner'
    BY <1>4 DEF TypeOK, Unborn, Owner, Passed, None, Build, Goto
  <2>4. Creation'
    BY <1>4 DEF TypeOK, Unborn, Owner, Creation, Locked, Passed, None, Stale, Build, Goto
  <2> QED BY <2>1, <2>2, <2>3, <2>4
<1>5. ASSUME NEW p \in Procs, NEW t \in Threads, SetPid(p, t) PROVE IInv'
  <2>1. TypeOK'
    BY <1>5 DEF TypeOK, Forking, SetPid, Goto
  <2>2. Unborn'
    BY <1>5 DEF TypeOK, Unborn, SetPid, Goto
  <2>3. Owner'
    BY <1>5 DEF TypeOK, Unborn, Owner, Passed, None, SetPid, Goto
  <2>4. Creation'
    BY <1>5 DEF TypeOK, Unborn, Owner, Creation, Locked, Passed, None, Stale, SetPid, Goto
  <2> QED BY <2>1, <2>2, <2>3, <2>4
<1>6. ASSUME NEW p \in Procs, NEW t \in Threads, Track(p, t) PROVE IInv'
  <2>1. TypeOK'
    BY <1>6 DEF TypeOK, Forking, Track, Goto
  <2>2. Unborn'
    BY <1>6 DEF TypeOK, Unborn, Track, Goto
  <2>3. Owner'
    BY <1>6 DEF TypeOK, Unborn, Owner, Passed, None, Track, Goto
  <2>4. Creation'
    BY <1>6 DEF TypeOK, Unborn, Owner, Creation, Locked, Passed, None, Stale, Track, Goto
  <2> QED BY <2>1, <2>2, <2>3, <2>4
<1>7. ASSUME NEW p \in Procs, NEW t \in Threads, AssertNative(p, t) PROVE IInv'
  <2>1. TypeOK'
    BY <1>7 DEF TypeOK, Forking, AssertNative, Goto, Got
  <2>2. Unborn'
    BY <1>7 DEF TypeOK, Unborn, AssertNative, Goto, Got
  <2>3. Owner'
    BY <1>7 DEF TypeOK, Unborn, Owner, Passed, None, AssertNative, Goto, Got
  <2>4. Creation'
    BY <1>7 DEF TypeOK, Unborn, Owner, Creation, Locked, Passed, None, Stale, AssertNative, Goto, Got
  <2> QED BY <2>1, <2>2, <2>3, <2>4
<1>8. ASSUME NEW p \in Procs, NEW t \in Threads, Return(p, t) PROVE IInv'
  <2>1. TypeOK'
    BY <1>8 DEF TypeOK, Forking, Return, Goto, Got
  <2>2. Unborn'
    BY <1>8 DEF TypeOK, Unborn, Return, Goto, Got
  <2>3. Owner'
    BY <1>8 DEF TypeOK, Unborn, Owner, Passed, None, Return, Goto, Got
  <2>4. Creation'
    BY <1>8 DEF TypeOK, Unborn, Owner, Creation, Locked, Passed, None, Stale, Return, Goto, Got
  <2> QED BY <2>1, <2>2, <2>3, <2>4
<1>9. ASSUME NEW p \in Procs, NEW t \in Threads, RequestEnds(p, t) PROVE IInv'
  <2>1. TypeOK'
    BY <1>9 DEF TypeOK, Forking, RequestEnds, Goto, Got
  <2>2. Unborn'
    BY <1>9 DEF TypeOK, Unborn, RequestEnds, Goto, Got
  <2>3. Owner'
    BY <1>9 DEF TypeOK, Unborn, Owner, Passed, None, RequestEnds, Goto, Got
  <2>4. Creation'
    BY <1>9 DEF TypeOK, Unborn, Owner, Creation, Locked, Passed, None, Stale, RequestEnds, Goto, Got
  <2> QED BY <2>1, <2>2, <2>3, <2>4
<1>10. ASSUME NEW p \in Procs, BeforeFork(p) PROVE IInv'
  <2>1. TypeOK'
    BY <1>10 DEF TypeOK, Forking, BeforeFork, Goto
  <2>2. Unborn'
    BY <1>10 DEF TypeOK, Unborn, BeforeFork, Goto
  <2>3. Owner'
    BY <1>10 DEF TypeOK, Unborn, Owner, Passed, None, BeforeFork, Goto
  <2>4. Creation'
    BY <1>10 DEF TypeOK, Unborn, Owner, Creation, Locked, Passed, None, Stale, BeforeFork, Goto
  <2> QED BY <2>1, <2>2, <2>3, <2>4
<1>11. ASSUME NEW p \in Procs, ListClients(p) PROVE IInv'
  <2>1. TypeOK'
    BY <1>11 DEF TypeOK, Forking, ListClients, Goto
  <2>2. Unborn'
    BY <1>11 DEF TypeOK, Unborn, ListClients, Goto
  <2>3. Owner'
    BY <1>11 DEF TypeOK, Unborn, Owner, Passed, None, ListClients, Goto
  <2>4. Creation'
    BY <1>11 DEF TypeOK, Unborn, Owner, Creation, Locked, Passed, None, Stale, ListClients, Goto
  <2> QED BY <2>1, <2>2, <2>3, <2>4
<1>12. ASSUME NEW p \in Procs, Release(p) PROVE IInv'
  <2>1. TypeOK'
    BY <1>12 DEF TypeOK, Forking, Release, Goto
  <2>2. Unborn'
    BY <1>12 DEF TypeOK, Unborn, Release, Goto
  <2>3. Owner'
    BY <1>12 DEF TypeOK, Unborn, Owner, Passed, None, Release, Goto
  <2>4. Creation'
    BY <1>12 DEF TypeOK, Unborn, Owner, Creation, Locked, Passed, None, Stale, Release, Goto
  <2> QED BY <2>1, <2>2, <2>3, <2>4
<1>13. ASSUME NEW p \in Procs, Reset(p) PROVE IInv'
  <2>1. TypeOK'
    BY <1>13 DEF TypeOK, Forking, Reset, Goto
  <2>2. Unborn'
    BY <1>13 DEF TypeOK, Unborn, Reset, Goto
  <2>3. Owner'
    BY <1>13 DEF TypeOK, Unborn, Owner, Passed, None, Reset, Goto
  <2>4. Creation'
    BY <1>13 DEF TypeOK, Unborn, Owner, Creation, Locked, Passed, None, Stale, Reset, Goto
  <2> QED BY <2>1, <2>2, <2>3, <2>4
<1>14. ASSUME NEW p \in Procs, Fork(p) PROVE IInv'
  <2> DEFINE c == procs + 1
  <2>1. /\ c \in Procs /\ procs' = c /\ c > procs /\ procs \in Procs
        /\ pc[p][Main] = "fork" /\ p <= procs /\ p # c
    <3>1. /\ procs' = procs + 1 /\ procs < MaxProcs /\ pc[p][Main] = "fork"
      BY <1>14 DEF Fork
    <3>2. procs \in 1..MaxProcs /\ p \in 1..MaxProcs /\ MaxProcs \in Nat
      BY BoundsAssumption DEF TypeOK, Procs
    <3>3. p <= procs
      BY <3>1, <3>2 DEF Unborn
    <3> QED
      BY <3>1, <3>2, <3>3 DEF Procs
  <2>2. /\ native' = [native EXCEPT ![c] = native[p]]
        /\ clientPid' = [clientPid EXCEPT ![c] = clientPid[p]]
        /\ tracked' = [tracked EXCEPT ![c] = tracked[p]]
        /\ lock' = [lock EXCEPT ![c] = lock[p]]
        /\ pc' = [pc EXCEPT ![p][Main] = "idle", ![c][Main] = "after"]
        /\ got' = got /\ dirty' \in BOOLEAN /\ heeded' = heeded
    BY <1>14 DEF Fork, TypeOK
  <2> HIDE DEF c
  (* The child: its threads but Main are gone. *)
  <2>3. /\ pc'[c][Main] = "after"
        /\ \A t \in Threads \ {Main} : pc'[c][t] = "gone"
    BY <2>1, <2>2 DEF TypeOK, Unborn
  (* The parent: Main is back from the handler. *)
  <2>4. /\ pc'[p][Main] = "idle"
        /\ \A t \in Threads \ {Main} : pc'[p][t] = pc[p][t]
    BY <2>1, <2>2 DEF TypeOK
  <2>5. \A q \in Procs \ {c, p} : pc'[q] = pc[q]
    BY <2>1, <2>2 DEF TypeOK
  <2>6. \A q \in Procs \ {c} :
          /\ native'[q] = native[q] /\ clientPid'[q] = clientPid[q]
          /\ lock'[q] = lock[q]
    BY <2>2 DEF TypeOK
  <2>7. native'[c] = native[p] /\ clientPid'[c] = clientPid[p]
    BY <2>1, <2>2 DEF TypeOK
  <2>8. TypeOK'
    <3>1. pc' \in [Procs -> [Threads ->
             {"idle", "gone", "acquire", "check", "build", "pid", "track",
              "assert", "return", "using"} \cup Forking]]
      BY <2>1, <2>2 DEF TypeOK, Forking
    <3> QED
      BY <2>1, <2>2, <3>1 DEF TypeOK
  <2>9. Unborn'
    BY <2>1, <2>3, <2>4, <2>5 DEF Unborn, TypeOK
  <2>10. Owner'
    <3>1. ASSUME NEW q \in Procs PROVE clientPid'[q] <= procs'
      <4>1. clientPid'[q] \in {clientPid[q], clientPid[p]}
        BY <2>6, <2>7
      <4>2. clientPid[q] <= procs /\ clientPid[p] <= procs
        BY DEF Owner
      <4>3. /\ clientPid[q] \in Procs \cup {None}
            /\ clientPid[p] \in Procs \cup {None}
        BY DEF TypeOK
      <4>4. clientPid[q] \in Int /\ clientPid[p] \in Int
        BY <4>3, BoundsAssumption DEF Procs, None
      <4>5. c \in Int /\ procs \in Int /\ procs < c /\ procs' = c
        BY <2>1
      <4> QED
        BY <4>1, <4>2, <4>4, <4>5
    <3>2. ASSUME NEW q \in Procs, clientPid'[q] = q
          PROVE  native'[q] \in {None, q}
      BY <2>1, <2>6, <2>7, <3>2 DEF Owner, TypeOK, None
    <3>3. ASSUME NEW q \in Procs, NEW t \in Threads
          PROVE  /\ pc'[q][t] \in Passed => clientPid'[q] = q
                 /\ pc'[q][t] = "pid" => native'[q] \in {None, q}
                 /\ pc'[q][t] = "using" => got'[q][t] = q
      <4>1. CASE q = c
        BY <4>1, <2>3 DEF Passed
      <4>2. CASE q = p
        <5>1. CASE t = Main
          BY <4>2, <5>1, <2>4 DEF Passed
        <5>2. CASE t # Main
          <6>1. pc'[q][t] = pc[q][t] /\ native'[q] = native[q]
                /\ clientPid'[q] = clientPid[q] /\ got' = got
            BY <4>2, <5>2, <2>1, <2>2, <2>4, <2>6
          <6> QED
            BY <6>1 DEF Owner
        <5> QED
          BY <5>1, <5>2
      <4>3. CASE q # c /\ q # p
        <5>1. pc'[q][t] = pc[q][t] /\ native'[q] = native[q]
              /\ clientPid'[q] = clientPid[q] /\ got' = got
          BY <4>3, <2>2, <2>5, <2>6
        <5> QED
          BY <5>1 DEF Owner
      <4> QED
        BY <4>1, <4>2, <4>3
    <3> QED
      BY <3>1, <3>2, <3>3 DEF Owner
  <2>11. Creation'
    <3>1. ASSUME NEW q \in Procs PROVE native'[q] <= procs'
      <4>1. native'[q] \in {native[q], native[p]}
        BY <2>6, <2>7
      <4>2. native[q] <= procs /\ native[p] <= procs
        BY DEF Creation
      <4>3. /\ native[q] \in Procs \cup {None}
            /\ native[p] \in Procs \cup {None}
        BY DEF TypeOK
      <4>4. native[q] \in Int /\ native[p] \in Int
        BY <4>3, BoundsAssumption DEF Procs, None
      <4>5. c \in Int /\ procs \in Int /\ procs < c /\ procs' = c
        BY <2>1
      <4> QED
        BY <4>1, <4>2, <4>4, <4>5
    <3>2. ASSUME NEW q \in Procs, q <= procs', native'[q] = q, clientPid'[q] # q
          PROVE  \E t \in Threads : pc'[q][t] = "pid"
      <4>1. q # c
        BY <2>1, <2>7, <3>2 DEF Creation, TypeOK
      <4>2. PICK t \in Threads : pc[q][t] = "pid"
        BY <4>1, <3>2, <2>1, <2>6 DEF Creation, TypeOK, Procs, c
      <4>3. pc'[q][t] = "pid"
        BY <4>1, <4>2, <2>1, <2>4, <2>5
      <4> QED
        BY <4>3
    <3>3. ASSUME NEW q \in Procs, NEW t \in Threads
          PROVE  /\ pc'[q][t] \in Locked => lock'[q] = t
                 /\ pc'[q][t] = "build" => Stale(q)'
      <4>1. CASE q = c
        BY <4>1, <2>3 DEF Locked
      <4>2. CASE q # c
        <5>1. /\ pc'[q][t] = pc[q][t] \/ pc'[q][t] = "idle"
              /\ native'[q] = native[q] /\ clientPid'[q] = clientPid[q]
              /\ lock'[q] = lock[q]
          BY <4>2, <2>4, <2>5, <2>6
        <5> QED
          BY <5>1 DEF Creation, Stale, Locked
      <4> QED
        BY <4>1, <4>2
    <3> QED
      BY <3>1, <3>2, <3>3 DEF Creation
  <2> QED
    BY <2>8, <2>9, <2>10, <2>11
<1>15. ASSUME NEW p \in Procs, AfterFork(p) PROVE IInv'
  <2>1. TypeOK'
    BY <1>15 DEF TypeOK, Forking, AfterFork, Goto
  <2>2. Unborn'
    BY <1>15 DEF TypeOK, Unborn, AfterFork, Goto
  <2>3. Owner'
    BY <1>15 DEF TypeOK, Unborn, Owner, Passed, None, AfterFork, Goto
  <2>4. Creation'
    BY <1>15 DEF TypeOK, Unborn, Owner, Creation, Locked, Passed, None, Stale, AfterFork, Goto
  <2> QED BY <2>1, <2>2, <2>3, <2>4
<1>16. CASE UNCHANGED vars
  <2>1. TypeOK'
    BY <1>16 DEF TypeOK, Forking, vars
  <2>2. Unborn'
    BY <1>16 DEF TypeOK, Unborn, vars
  <2>3. Owner'
    BY <1>16 DEF TypeOK, Unborn, Owner, Passed, None, vars
  <2>4. Creation'
    BY <1>16 DEF TypeOK, Unborn, Owner, Creation, Locked, Passed, None, Stale, vars
  <2> QED BY <2>1, <2>2, <2>3, <2>4
<1> QED
  BY <1>1, <1>2, <1>3, <1>4, <1>5, <1>6, <1>7, <1>8, <1>9,
     <1>10, <1>11, <1>12, <1>13, <1>14, <1>15, <1>16
     DEF Next, ClientStep, ForkStep

-----------------------------------------------------------------------------
THEOREM Invariance == Spec => []IInv
<1>1. Init => IInv
  BY InitInvariant
<1>2. IInv /\ [Next]_vars => IInv'
  BY StepInvariant
<1> QED
  BY <1>1, <1>2, PTL DEF Spec

(* Every variable keeps its type. *)
THEOREM TypeCorrect == Spec => []TypeOK
<1>1. IInv => TypeOK
  BY DEF IInv
<1> QED
  BY <1>1, Invariance, PTL

(* _client never hands out the native client of another process, whatever  *)
(* threads do while the process forks.                                     *)
THEOREM ClientsAreOwn == Spec => []OwnClientOnly
<1>1. IInv => OwnClientOnly
  BY DEF IInv, Owner, OwnClientOnly
<1> QED
  BY <1>1, Invariance, PTL

(* The double-checked creation never replaces a live client.               *)
THEOREM ClientsAreBuiltOnce == Spec => BuiltOnce
<1>1. ASSUME IInv, NEW p \in Procs, NEW t \in Threads, Build(p, t)
      PROVE  native[p] # p
  <2>1. Stale(p) /\ lock[p] = t /\ pc[p][t] = "build"
    BY <1>1 DEF IInv, Creation, Locked, Build
  <2>2. p <= procs
    BY <2>1, <1>1, ConstantFacts DEF IInv, TypeOK, Unborn
  <2>3. \A u \in Threads : pc[p][u] # "pid"
    BY <2>1, <1>1, ConstantFacts DEF IInv, Creation, Locked
  <2> QED
    BY <2>1, <2>2, <2>3, <1>1, ConstantFacts DEF IInv, Creation, Stale, None
<1>2. IInv /\ [Next]_vars =>
        [\A p \in Procs, t \in Threads : Build(p, t) => native[p] # p]_vars
  BY <1>1
<1> QED
  BY <1>2, Invariance, PTL DEF Spec, BuiltOnce

-----------------------------------------------------------------------------
(* What holds besides while the warning is heeded: a process that is       *)
(* forking does nothing else, ...                                          *)
Paused ==
  \A p \in Procs : pc[p][Main] \in Forking =>
    \A t \in Others : pc[p][t] \in {"idle", "gone"}

(* ... has no client from its release on, ...                              *)
Released ==
  \A p \in Procs : pc[p][Main] \in {"reset", "fork", "after"} => native[p] = None

(* ... and finds every client it has in the list, but one being created.   *)
Noted ==
  \A p \in Procs : native[p] # None =>
    tracked[p] \/ \E t \in Threads : pc[p][t] \in {"pid", "track"}

(* The lock is held by a thread that runs.                                 *)
Held == \A p \in Procs : lock[p] # Free => pc[p][lock[p]] \in Locked

(* Once there, the client stays for those who were about to take it.       *)
Present ==
  \A p \in Procs, t \in Threads :
    /\ pc[p][t] \in {"pid", "track", "assert", "return"} => native[p] # None
    /\ got[p][t] # AssertFailed

Heeding == Paused /\ Released /\ Noted /\ Held /\ Present

HeededInv == ~dirty /\ (heeded => Heeding)

LEMMA HeededInitInvariant == Init => HeededInv
<1> SUFFICES ASSUME Init PROVE HeededInv
  OBVIOUS
<1> USE ConstantFacts
<1>1. Paused /\ Released /\ Noted
  BY DEF Init, Paused, Released, Noted, Forking, Threads
<1>2. Held /\ Present
  BY DEF Init, Held, Present, None, AssertFailed
<1> QED
  BY <1>1, <1>2 DEF Init, HeededInv, Heeding

LEMMA HeededStepInvariant == IInv /\ HeededInv /\ [Next]_vars => HeededInv'
<1> SUFFICES ASSUME IInv, HeededInv, [Next]_vars PROVE HeededInv'
  OBVIOUS
<1> USE ConstantFacts
<1>0. /\ TypeOK /\ Owner /\ Creation /\ ~dirty
      /\ Threads = {Main} \cup Others /\ Main \notin Others
  BY ThreadsAssumption DEF IInv, HeededInv, Threads
<1>h. heeded => Paused /\ Released /\ Noted /\ Held /\ Present
  BY DEF HeededInv, Heeding
<1>1. ASSUME NEW p \in Procs, NEW t \in Threads, Use(p, t) PROVE HeededInv'
  <2>1. dirty' = dirty /\ (heeded' => heeded)
    BY <1>1 DEF Use
  <2> SUFFICES ASSUME heeded' PROVE Heeding'
    BY <1>0, <2>1 DEF HeededInv
  <2>2. Paused /\ Released /\ Noted /\ Held /\ Present
    BY <1>h, <2>1
  <2>3. Paused' /\ Released'
    BY <1>0, <1>1, <2>2 DEF TypeOK, Paused, Released, Forking, None, Use, Goto, Got, Stale
  <2>4. Noted'
    BY <1>0, <1>1, <2>2 DEF TypeOK, Paused, Released, Noted, Forking, Use, Goto, Got, Stale
  <2>5. Held'
    BY <1>0, <1>1, <2>2 DEF TypeOK, Creation, Held, Locked, Forking, Use, Goto, Got, Stale
  <2>6. Present'
    BY <1>0, <1>1, <2>2 DEF TypeOK, Paused, Present, Forking, Use, Goto, Got, Stale
  <2> QED BY <2>3, <2>4, <2>5, <2>6 DEF Heeding
<1>2. ASSUME NEW p \in Procs, NEW t \in Threads, Acquire(p, t) PROVE HeededInv'
  <2>1. dirty' = dirty /\ (heeded' => heeded)
    BY <1>2 DEF Acquire
  <2> SUFFICES ASSUME heeded' PROVE Heeding'
    BY <1>0, <2>1 DEF HeededInv
  <2>2. Paused /\ Released /\ Noted /\ Held /\ Present
    BY <1>h, <2>1
  <2>3. Paused' /\ Released'
    BY <1>0, <1>2, <2>2 DEF TypeOK, Paused, Released, Forking, None, Acquire, Goto
  <2>4. Noted'
    BY <1>0, <1>2, <2>2 DEF TypeOK, Paused, Released, Noted, Forking, Acquire, Goto
  <2>5. Held'
    BY <1>0, <1>2, <2>2 DEF TypeOK, Creation, Held, Locked, Forking, Acquire, Goto
  <2>6. Present'
    BY <1>0, <1>2, <2>2 DEF TypeOK, Paused, Present, Forking, Acquire, Goto
  <2> QED BY <2>3, <2>4, <2>5, <2>6 DEF Heeding
<1>3. ASSUME NEW p \in Procs, NEW t \in Threads, Check(p, t) PROVE HeededInv'
  <2>1. dirty' = dirty /\ (heeded' => heeded)
    BY <1>3 DEF Check
  <2> SUFFICES ASSUME heeded' PROVE Heeding'
    BY <1>0, <2>1 DEF HeededInv
  <2>2. Paused /\ Released /\ Noted /\ Held /\ Present
    BY <1>h, <2>1
  <2>3. Paused' /\ Released'
    BY <1>0, <1>3, <2>2 DEF TypeOK, Paused, Released, Forking, None, Check, Goto, Stale
  <2>4. Noted'
    BY <1>0, <1>3, <2>2 DEF TypeOK, Paused, Released, Noted, Forking, Check, Goto, Stale
  <2>5. Held'
    BY <1>0, <1>3, <2>2 DEF TypeOK, Creation, Held, Locked, Forking, Check, Goto, Stale
  <2>6. Present'
    BY <1>0, <1>3, <2>2 DEF TypeOK, Paused, Present, Forking, Check, Goto, Stale
  <2> QED BY <2>3, <2>4, <2>5, <2>6 DEF Heeding
<1>4. ASSUME NEW p \in Procs, NEW t \in Threads, Build(p, t) PROVE HeededInv'
  <2>1. dirty' = dirty /\ (heeded' => heeded)
    BY <1>4 DEF Build
  <2> SUFFICES ASSUME heeded' PROVE Heeding'
    BY <1>0, <2>1 DEF HeededInv
  <2>2. Paused /\ Released /\ Noted /\ Held /\ Present
    BY <1>h, <2>1
  <2>3. Paused' /\ Released'
    BY <1>0, <1>4, <2>2 DEF TypeOK, Paused, Released, Forking, None, Build, Goto
  <2>4. Noted'
    BY <1>0, <1>4, <2>2 DEF TypeOK, Paused, Released, Noted, Forking, Build, Goto
  <2>5. Held'
    BY <1>0, <1>4, <2>2 DEF TypeOK, Creation, Held, Locked, Forking, Build, Goto
  <2>6. Present'
    BY <1>0, <1>4, <2>2 DEF TypeOK, Paused, Present, Forking, Build, Goto
  <2> QED BY <2>3, <2>4, <2>5, <2>6 DEF Heeding
<1>5. ASSUME NEW p \in Procs, NEW t \in Threads, SetPid(p, t) PROVE HeededInv'
  <2>1. dirty' = dirty /\ (heeded' => heeded)
    BY <1>5 DEF SetPid
  <2> SUFFICES ASSUME heeded' PROVE Heeding'
    BY <1>0, <2>1 DEF HeededInv
  <2>2. Paused /\ Released /\ Noted /\ Held /\ Present
    BY <1>h, <2>1
  <2>3. Paused' /\ Released'
    BY <1>0, <1>5, <2>2 DEF TypeOK, Paused, Released, Forking, None, SetPid, Goto
  <2>4. Noted'
    BY <1>0, <1>5, <2>2 DEF TypeOK, Paused, Released, Noted, Forking, SetPid, Goto
  <2>5. Held'
    BY <1>0, <1>5, <2>2 DEF TypeOK, Creation, Held, Locked, Forking, SetPid, Goto
  <2>6. Present'
    BY <1>0, <1>5, <2>2 DEF TypeOK, Paused, Present, Forking, SetPid, Goto
  <2> QED BY <2>3, <2>4, <2>5, <2>6 DEF Heeding
<1>6. ASSUME NEW p \in Procs, NEW t \in Threads, Track(p, t) PROVE HeededInv'
  <2>1. dirty' = dirty /\ (heeded' => heeded)
    BY <1>6 DEF Track
  <2> SUFFICES ASSUME heeded' PROVE Heeding'
    BY <1>0, <2>1 DEF HeededInv
  <2>2. Paused /\ Released /\ Noted /\ Held /\ Present
    BY <1>h, <2>1
  <2>3. Paused' /\ Released'
    BY <1>0, <1>6, <2>2 DEF TypeOK, Paused, Released, Forking, None, Track, Goto
  <2>4. Noted'
    BY <1>0, <1>6, <2>2 DEF TypeOK, Paused, Released, Noted, Forking, Track, Goto
  <2>5. Held'
    BY <1>0, <1>6, <2>2 DEF TypeOK, Creation, Held, Locked, Forking, Track, Goto
  <2>6. Present'
    BY <1>0, <1>6, <2>2 DEF TypeOK, Paused, Present, Forking, Track, Goto
  <2> QED BY <2>3, <2>4, <2>5, <2>6 DEF Heeding
<1>7. ASSUME NEW p \in Procs, NEW t \in Threads, AssertNative(p, t) PROVE HeededInv'
  <2>1. dirty' = dirty /\ (heeded' => heeded)
    BY <1>7 DEF AssertNative
  <2> SUFFICES ASSUME heeded' PROVE Heeding'
    BY <1>0, <2>1 DEF HeededInv
  <2>2. Paused /\ Released /\ Noted /\ Held /\ Present
    BY <1>h, <2>1
  <2>3. Paused' /\ Released'
    BY <1>0, <1>7, <2>2 DEF TypeOK, Paused, Released, Forking, None, AssertNative, Goto, Got
  <2>4. Noted'
    BY <1>0, <1>7, <2>2 DEF TypeOK, Paused, Released, Noted, Forking, AssertNative, Goto, Got
  <2>5. Held'
    BY <1>0, <1>7, <2>2 DEF TypeOK, Creation, Held, Locked, Forking, AssertNative, Goto, Got
  <2>6. Present'
    BY <1>0, <1>7, <2>2 DEF TypeOK, Paused, Present, Forking, AssertNative, Goto, Got
  <2> QED BY <2>3, <2>4, <2>5, <2>6 DEF Heeding
<1>8. ASSUME NEW p \in Procs, NEW t \in Threads, Return(p, t) PROVE HeededInv'
  <2>1. dirty' = dirty /\ (heeded' => heeded)
    BY <1>8 DEF Return
  <2> SUFFICES ASSUME heeded' PROVE Heeding'
    BY <1>0, <2>1 DEF HeededInv
  <2>2. Paused /\ Released /\ Noted /\ Held /\ Present
    BY <1>h, <2>1
  <2>3. Paused' /\ Released'
    BY <1>0, <1>8, <2>2 DEF TypeOK, Paused, Released, Forking, None, Return, Goto, Got
  <2>4. Noted'
    BY <1>0, <1>8, <2>2 DEF TypeOK, Paused, Released, Noted, Forking, Return, Goto, Got
  <2>5. Held'
    BY <1>0, <1>8, <2>2 DEF TypeOK, Creation, Held, Locked, Forking, Return, Goto, Got
  <2>6. Present'
    <3>1. native[p] # AssertFailed /\ native' = native
      BY <1>0, <1>8 DEF TypeOK, Return
    <3>2. \A q \in Procs, u \in Threads :
            \/ got'[q][u] = got[q][u] \/ got'[q][u] = native[p]
      BY <1>0, <1>8 DEF TypeOK, Return, Got
    <3>3. \A q \in Procs, u \in Threads :
            \/ pc'[q][u] = pc[q][u] \/ pc'[q][u] \in {"idle", "using"}
      BY <1>0, <1>8 DEF TypeOK, Return, Goto
    <3> QED
      BY <2>2, <3>1, <3>2, <3>3 DEF Present
  <2> QED BY <2>3, <2>4, <2>5, <2>6 DEF Heeding
<1>9. ASSUME NEW p \in Procs, NEW t \in Threads, RequestEnds(p, t) PROVE HeededInv'
  <2>1. dirty' = dirty /\ (heeded' => heeded)
    BY <1>9 DEF RequestEnds
  <2> SUFFICES ASSUME heeded' PROVE Heeding'
    BY <1>0, <2>1 DEF HeededInv
  <2>2. Paused /\ Released /\ Noted /\ Held /\ Present
    BY <1>h, <2>1
  <2>3. Paused' /\ Released'
    BY <1>0, <1>9, <2>2 DEF TypeOK, Paused, Released, Forking, None, RequestEnds, Goto, Got
  <2>4. Noted'
    BY <1>0, <1>9, <2>2 DEF TypeOK, Paused, Released, Noted, Forking, RequestEnds, Goto, Got
  <2>5. Held'
    BY <1>0, <1>9, <2>2 DEF TypeOK, Creation, Held, Locked, Forking, RequestEnds, Goto, Got
  <2>6. Present'
    BY <1>0, <1>9, <2>2 DEF TypeOK, Paused, Present, Forking, RequestEnds, Goto, Got
  <2> QED BY <2>3, <2>4, <2>5, <2>6 DEF Heeding
<1>10. ASSUME NEW p \in Procs, BeforeFork(p) PROVE HeededInv'
  <2>1. dirty' = dirty /\ (heeded' => heeded)
    BY <1>10 DEF BeforeFork
  <2> SUFFICES ASSUME heeded' PROVE Heeding'
    BY <1>0, <2>1 DEF HeededInv
  <2>2. Paused /\ Released /\ Noted /\ Held /\ Present
    BY <1>h, <2>1
  <2>3. Paused' /\ Released'
    BY <1>0, <1>10, <2>2 DEF TypeOK, Paused, Released, Forking, None, BeforeFork, Goto, Quiet
  <2>4. Noted'
    BY <1>0, <1>10, <2>2 DEF TypeOK, Paused, Released, Noted, Forking, BeforeFork, Goto, Quiet
  <2>5. Held'
    BY <1>0, <1>10, <2>2 DEF TypeOK, Creation, Held, Locked, Forking, BeforeFork, Goto, Quiet
  <2>6. Present'
    BY <1>0, <1>10, <2>2 DEF TypeOK, Paused, Present, Forking, BeforeFork, Goto, Quiet
  <2> QED BY <2>3, <2>4, <2>5, <2>6 DEF Heeding
<1>11. ASSUME NEW p \in Procs, ListClients(p) PROVE HeededInv'
  <2>1. dirty' = dirty /\ (heeded' => heeded)
    BY <1>11 DEF ListClients
  <2> SUFFICES ASSUME heeded' PROVE Heeding'
    BY <1>0, <2>1 DEF HeededInv
  <2>2. Paused /\ Released /\ Noted /\ Held /\ Present
    BY <1>h, <2>1
  <2>3. Paused' /\ Released'
    BY <1>0, <1>11, <2>2 DEF TypeOK, Paused, Released, Noted, Forking, ListClients, Goto
  <2>4. Noted'
    BY <1>0, <1>11, <2>2 DEF TypeOK, Paused, Released, Noted, Forking, ListClients, Goto
  <2>5. Held'
    BY <1>0, <1>11, <2>2 DEF TypeOK, Creation, Held, Locked, Forking, ListClients, Goto
  <2>6. Present'
    BY <1>0, <1>11, <2>2 DEF TypeOK, Paused, Present, Forking, ListClients, Goto
  <2> QED BY <2>3, <2>4, <2>5, <2>6 DEF Heeding
<1>12. ASSUME NEW p \in Procs, Release(p) PROVE HeededInv'
  <2>1. dirty' = dirty /\ (heeded' => heeded)
    BY <1>12 DEF Release
  <2> SUFFICES ASSUME heeded' PROVE Heeding'
    BY <1>0, <2>1 DEF HeededInv
  <2>2. Paused /\ Released /\ Noted /\ Held /\ Present
    BY <1>h, <2>1
  <2>3. Paused' /\ Released'
    BY <1>0, <1>12, <2>2 DEF TypeOK, Paused, Released, Forking, None, Release, Goto
  <2>4. Noted'
    BY <1>0, <1>12, <2>2 DEF TypeOK, Paused, Released, Noted, Forking, Release, Goto
  <2>5. Held'
    BY <1>0, <1>12, <2>2 DEF TypeOK, Creation, Held, Locked, Forking, Release, Goto
  <2>6. Present'
    BY <1>0, <1>12, <2>2 DEF TypeOK, Paused, Present, Forking, Release, Goto
  <2> QED BY <2>3, <2>4, <2>5, <2>6 DEF Heeding
<1>13. ASSUME NEW p \in Procs, Reset(p) PROVE HeededInv'
  <2>1. dirty' = dirty /\ (heeded' => heeded)
    BY <1>13 DEF Reset
  <2> SUFFICES ASSUME heeded' PROVE Heeding'
    BY <1>0, <2>1 DEF HeededInv
  <2>2. Paused /\ Released /\ Noted /\ Held /\ Present
    BY <1>h, <2>1
  <2>3. Paused' /\ Released'
    BY <1>0, <1>13, <2>2 DEF TypeOK, Paused, Released, Forking, None, Reset, Goto
  <2>4. Noted'
    BY <1>0, <1>13, <2>2 DEF TypeOK, Paused, Released, Noted, Forking, Reset, Goto
  <2>5. Held'
    BY <1>0, <1>13, <2>2 DEF TypeOK, Creation, Held, Locked, Forking, Reset, Goto
  <2>6. Present'
    BY <1>0, <1>13, <2>2 DEF TypeOK, Paused, Present, Forking, Reset, Goto
  <2> QED BY <2>3, <2>4, <2>5, <2>6 DEF Heeding
<1>14. ASSUME NEW p \in Procs, AfterFork(p) PROVE HeededInv'
  <2>1. dirty' = dirty /\ (heeded' => heeded)
    BY <1>14 DEF AfterFork
  <2> SUFFICES ASSUME heeded' PROVE Heeding'
    BY <1>0, <2>1 DEF HeededInv
  <2>2. Paused /\ Released /\ Noted /\ Held /\ Present
    BY <1>h, <2>1
  <2>3. Paused' /\ Released'
    BY <1>0, <1>14, <2>2 DEF TypeOK, Paused, Released, Forking, None, AfterFork, Goto
  <2>4. Noted'
    BY <1>0, <1>14, <2>2 DEF TypeOK, Paused, Released, Noted, Forking, AfterFork, Goto
  <2>5. Held'
    BY <1>0, <1>14, <2>2 DEF TypeOK, Creation, Held, Locked, Forking, AfterFork, Goto
  <2>6. Present'
    BY <1>0, <1>14, <2>2 DEF TypeOK, Paused, Present, Forking, AfterFork, Goto
  <2> QED BY <2>3, <2>4, <2>5, <2>6 DEF Heeding
<1>15. ASSUME NEW p \in Procs, Fork(p) PROVE HeededInv'
  <2> DEFINE c == procs + 1
  <2>1. /\ c \in Procs /\ procs \in Procs /\ pc[p][Main] = "fork" /\ p <= procs /\ p # c
        /\ \A t \in Threads : pc[c][t] = "gone"
    <3>1. procs < MaxProcs /\ pc[p][Main] = "fork"
      BY <1>15 DEF Fork
    <3>2. procs \in 1..MaxProcs /\ p \in 1..MaxProcs /\ MaxProcs \in Nat
      BY <1>0, BoundsAssumption DEF TypeOK, Procs
    <3>3. p <= procs
      BY <3>1, <3>2 DEF IInv, Unborn
    <3>4. c \in Procs /\ c > procs
      BY <3>1, <3>2 DEF Procs
    <3> QED
      BY <3>1, <3>2, <3>3, <3>4 DEF Procs, IInv, Unborn
  <2>2. /\ native' = [native EXCEPT ![c] = native[p]]
        /\ tracked' = [tracked EXCEPT ![c] = tracked[p]]
        /\ lock' = [lock EXCEPT ![c] = lock[p]]
        /\ pc' = [pc EXCEPT ![p][Main] = "idle", ![c][Main] = "after"]
        /\ got' = got /\ heeded' = heeded
        /\ dirty' = (dirty \/ (heeded /\ LiveAt(p)))
    BY <1>15 DEF Fork
  <2> HIDE DEF c
  <2>3. heeded => /\ native[p] = None /\ lock[p] = Free
                  /\ \A t \in Threads : pc[p][t] \in {"idle", "gone", "fork"}
    <3> SUFFICES ASSUME heeded
                 PROVE  /\ native[p] = None /\ lock[p] = Free
                        /\ \A t \in Threads : pc[p][t] \in {"idle", "gone", "fork"}
      OBVIOUS
    <3>1. \A t \in Threads : pc[p][t] \in {"idle", "gone", "fork"}
      BY <1>0, <1>h, <2>1 DEF Paused, Forking
    <3>2. lock[p] = Free
      BY <1>0, <1>h, <3>1 DEF Held, Locked, TypeOK
    <3> QED
      BY <1>h, <2>1, <3>1, <3>2 DEF Released
  <2>4. ~dirty'
    <3>1. heeded => ~LiveAt(p)
      BY <2>3 DEF LiveAt
    <3> QED
      BY <1>0, <2>2, <3>1
  <2> SUFFICES ASSUME heeded PROVE Heeding'
    BY <2>2, <2>4 DEF HeededInv
  (* The child has Main and nothing else, the parent goes on as before.      *)
  <2>5. /\ pc'[c][Main] = "after" /\ pc'[p][Main] = "idle"
        /\ \A t \in Others : pc'[c][t] = "gone" /\ pc'[p][t] = pc[p][t]
        /\ \A q \in Procs \ {p, c} : pc'[q] = pc[q]
    BY <1>0, <2>1, <2>2 DEF TypeOK
  <2>6. /\ native'[c] = None /\ lock'[c] = Free /\ native'[p] = None /\ lock'[p] = Free
        /\ \A q \in Procs \ {p, c} :
             native'[q] = native[q] /\ tracked'[q] = tracked[q] /\ lock'[q] = lock[q]
    BY <1>0, <2>1, <2>2, <2>3 DEF TypeOK
  <2>7. Paused /\ Released /\ Noted /\ Held /\ Present
    BY <1>h
  <2>8. Paused'
    <3> SUFFICES ASSUME NEW q \in Procs, pc'[q][Main] \in Forking, NEW t \in Others
                 PROVE  pc'[q][t] \in {"idle", "gone"}
      BY DEF Paused
    <3>1. q # p
      BY <2>5 DEF Forking
    <3>2. CASE q = c
      BY <2>5, <3>2
    <3>3. CASE q # c
      BY <2>5, <2>7, <3>1, <3>3 DEF Paused
    <3> QED
      BY <3>2, <3>3
  <2>9. Released' /\ Noted' /\ Held'
    BY <1>0, <2>5, <2>6, <2>7 DEF Released, Noted, Held
  <2>10. Present'
    <3>1. ASSUME NEW q \in Procs, NEW t \in Threads
          PROVE  pc'[q][t] \in {"pid", "track", "assert", "return"} => native'[q] # None
      <4>1. CASE q = c
        BY <1>0, <2>5, <4>1
      <4>2. CASE q = p
        BY <1>0, <2>3, <2>5, <4>2
      <4>3. CASE q # c /\ q # p
        BY <2>5, <2>6, <2>7, <4>3 DEF Present
      <4> QED
        BY <4>1, <4>2, <4>3
    <3> QED
      BY <2>2, <2>7, <3>1 DEF Present
  <2> QED
    BY <2>8, <2>9, <2>10 DEF Heeding
<1>16. CASE UNCHANGED vars
  BY <1>16 DEF vars, HeededInv, Heeding, Paused, Released, Noted, Held, Present
<1> QED
  BY <1>1, <1>2, <1>3, <1>4, <1>5, <1>6, <1>7, <1>8, <1>9,
     <1>10, <1>11, <1>12, <1>13, <1>14, <1>15, <1>16
     DEF Next, ClientStep, ForkStep

(* _s3client.py, the fork handlers: to those who do not use the client     *)
(* during a fork, no fork finds a live client, no use fails its assertion, *)
(* and the child never finds its lock taken.                               *)
THEOREM HeededForks == Spec => []HeededForksAreSafe
<1>1. IInv /\ HeededInv => HeededForksAreSafe
  <2> SUFFICES ASSUME IInv, HeededInv PROVE HeededForksAreSafe
    OBVIOUS
  <2>1. ReleasedAtFork /\ AssertionHolds
    BY DEF HeededInv, Heeding, Present, ReleasedAtFork, AssertionHolds
  <2>2. ASSUME heeded, NEW p \in Procs, pc[p][Main] = "after" PROVE lock[p] = Free
    <3>1. \A t \in Threads : pc[p][t] \notin Locked
      BY <2>2 DEF HeededInv, Heeding, Paused, Forking, Locked, Threads
    <3> QED
      BY <2>2, <3>1 DEF HeededInv, Heeding, Held, IInv, TypeOK
  <2> QED
    BY <2>1, <2>2 DEF HeededForksAreSafe, ChildCanStartIfHeeded, ChildCanStart
<1>2. Init => HeededInv
  BY HeededInitInvariant
<1>3. IInv /\ HeededInv /\ [Next]_vars => HeededInv'
  BY HeededStepInvariant
<1> QED
  BY <1>1, <1>2, <1>3, Invariance, PTL DEF Spec

-----------------------------------------------------------------------------
(* The data generator: sums, and lists put one behind the other.           *)

(* One more value adds its value to a sum.                                 *)
LEMMA SumOfOneMore ==
  ASSUME NEW D, IsFiniteSet(D), NEW x, x \notin D, NEW F \in [D -> Int],
         NEW E, E = D \cup {x}, NEW G \in [E -> Int], \A y \in D : G[y] = F[y]
  PROVE  SumFunction(G) = SumFunction(F) + G[x]
<1>1. IsFiniteSet(E)
  BY FS_AddElement
<1>2. PICK S : IsSum(S, F, D) /\ SumFunction(F) = S[D]
  BY SumFacts
<1>3. PICK T : IsSum(T, G, E) /\ SumFunction(G) = T[E]
  BY <1>1, SumFacts
<1> DEFINE Bad == {s \in SUBSET D : S[s] # T[s]}
<1>4. Bad = {}
  <2> SUFFICES ASSUME Bad # {} PROVE FALSE
    OBVIOUS
  <2>1. PICK s \in Bad : \A y \in s : s \ {y} \notin Bad
    <3>1. Bad \in SUBSET SUBSET D
      OBVIOUS
    <3> HIDE DEF Bad
    <3> QED
      BY <3>1, SmallestSet
  <2>2. s \in SUBSET D /\ s \in SUBSET E /\ S[s] # T[s]
    BY <2>1
  <2>3. PICK y \in s : TRUE
    BY <1>2, <1>3, <2>2 DEF IsSum
  <2>4. S[s \ {y}] = T[s \ {y}]
    BY <2>1, <2>2
  <2>5. S[s] = F[y] + S[s \ {y}]
    BY <1>2, <2>2 DEF IsSum
  <2>6. T[s] = G[y] + T[s \ {y}]
    BY <1>3, <2>2 DEF IsSum
  <2> QED
    BY <2>2, <2>4, <2>5, <2>6
<1>5. S[D] = T[D]
  BY <1>4
<1>6. T[E] = G[x] + T[E \ {x}] /\ E \ {x} = D
  BY <1>3 DEF IsSum
<1>7. S[D] \in Int /\ G[x] \in Int
  BY <1>2 DEF IsSum
<1>8. SumFunction(G) = G[x] + SumFunction(F)
  BY <1>2, <1>3, <1>5, <1>6
<1>9. SumFunction(F) \in Int
  BY <1>2, <1>7
<1> QED
  BY <1>7, <1>8, <1>9

(* A list without repetitions, and how long it is.                         *)
Distinct(s) == \A i, j \in 1..Len(s) : s[i] = s[j] => i = j

LEMMA DistinctCount ==
  ASSUME NEW S, NEW s \in Seq(S), Distinct(s)
  PROVE  Cardinality(ToSet(s)) = Len(s)
<1>1. Len(s) \in Nat /\ IsFiniteSet(1..Len(s)) /\ Cardinality(1..Len(s)) = Len(s)
  <2>1. Len(s) \in Nat
    OBVIOUS
  <2>2. 1 \in Int /\ Len(s) \in Int
    BY <2>1
  <2>3. IsFiniteSet(1..Len(s))
    BY <2>2, FS_Interval
  <2>4. Cardinality(1..Len(s)) = IF 1 > Len(s) THEN 0 ELSE Len(s) - 1 + 1
    BY <2>2, FS_Interval
  <2> QED
    BY <2>1, <2>3, <2>4
<1>2. ToSet(s) = {s[i] : i \in 1..Len(s)} /\ s \in [1..Len(s) -> ToSet(s)]
  BY DEF ToSet
<1>3. s \in Injection(1..Len(s), ToSet(s))
  BY <1>2, Fun_IsInj DEF Distinct
<1>4. s \in Surjection(1..Len(s), ToSet(s))
  BY <1>2, Fun_IsSurj
<1>5. ExistsBijection(1..Len(s), ToSet(s))
  BY <1>3, <1>4 DEF ExistsBijection, Bijection
<1> QED
  BY <1>1, <1>5, FS_Bijection

(* Two lists without repetitions that have nothing in common.              *)
LEMMA ConcatFacts ==
  ASSUME NEW S, NEW s \in Seq(S), NEW t \in Seq(S)
  PROVE  /\ s \o t \in Seq(S) /\ ToSet(s \o t) = ToSet(s) \cup ToSet(t)
         /\ Distinct(s) /\ Distinct(t) /\ ToSet(s) \cap ToSet(t) = {} => Distinct(s \o t)
<1> DEFINE m == Len(s)
           n == Len(t)
           u == s \o t
<1>1. /\ u \in Seq(S) /\ Len(u) = m + n /\ m \in Nat /\ n \in Nat
      /\ \A i \in 1..(m + n) : u[i] = IF i <= m THEN s[i] ELSE t[i - m]
  BY ConcatProperties
<1>2. /\ \A x : x \in ToSet(s) <=> \E i \in 1..m : s[i] = x
      /\ \A x : x \in ToSet(t) <=> \E i \in 1..n : t[i] = x
      /\ \A x : x \in ToSet(u) <=> \E i \in 1..(m + n) : u[i] = x
  BY <1>1 DEF ToSet
<1> HIDE DEF m, n, u
<1>3. \A x : x \in ToSet(u) <=> x \in ToSet(s) \/ x \in ToSet(t)
  <2>1. ASSUME NEW i \in 1..(m + n) PROVE u[i] \in ToSet(s) \/ u[i] \in ToSet(t)
    <3>1. i <= m => i \in 1..m
      BY <1>1
    <3>2. ~(i <= m) => i - m \in 1..n
      BY <1>1
    <3> QED
      BY <1>1, <1>2, <3>1, <3>2
  <2>2. ASSUME NEW i \in 1..m PROVE s[i] \in ToSet(u)
    <3>1. i \in 1..(m + n) /\ i <= m
      BY <1>1
    <3> QED
      BY <1>1, <1>2, <3>1
  <2>3. ASSUME NEW i \in 1..n PROVE t[i] \in ToSet(u)
    <3>1. i + m \in 1..(m + n) /\ ~(i + m <= m) /\ (i + m) - m = i
      BY <1>1
    <3> QED
      BY <1>1, <1>2, <3>1
  <2> QED
    BY <1>2, <2>1, <2>2, <2>3
<1>4. ASSUME Distinct(s), Distinct(t), ToSet(s) \cap ToSet(t) = {} PROVE Distinct(u)
  <2> SUFFICES ASSUME NEW i \in 1..(m + n), NEW j \in 1..(m + n), u[i] = u[j] PROVE i = j
    BY <1>1 DEF Distinct
  <2>1. ASSUME NEW k \in 1..(m + n)
        PROVE  \/ k \in 1..m /\ u[k] = s[k]
               \/ k - m \in 1..n /\ u[k] = t[k - m]
    BY <1>1
  <2>2. ASSUME NEW k \in 1..m, NEW l \in 1..n PROVE s[k] # t[l]
    BY <1>2, <1>4
  <2>3. CASE i \in 1..m /\ u[i] = s[i] /\ j \in 1..m /\ u[j] = s[j]
    BY <1>4, <2>3 DEF Distinct, m
  <2>4. CASE i - m \in 1..n /\ u[i] = t[i - m] /\ j - m \in 1..n /\ u[j] = t[j - m]
    <3>1. i - m = j - m
      BY <1>4, <2>4 DEF Distinct, n
    <3> QED
      BY <1>1, <3>1
  <2> QED
    BY <2>1, <2>2, <2>3, <2>4
<1>5. ToSet(u) = ToSet(s) \cup ToSet(t)
  BY <1>3
<1> QED
  BY <1>1, <1>4, <1>5 DEF u

(* FlattenSeq of lists that have nothing in common.                        *)
LEMMA FlattenFacts ==
  ASSUME NEW S, NEW s \in Seq(Seq(S)),
         \A i \in 1..Len(s) : Distinct(s[i]),
         \A i, j \in 1..Len(s) : \A x \in ToSet(s[i]) : x \in ToSet(s[j]) => i = j
  PROVE  /\ FlattenSeq(s) \in Seq(S) /\ Distinct(FlattenSeq(s))
         /\ ToSet(FlattenSeq(s)) = UNION {ToSet(s[i]) : i \in 1..Len(s)}
<1> DEFINE n == Len(s)
           Loop(g) == g = [i \in 1..n |-> IF i = 1 THEN s[i] ELSE g[i-1] \o s[i]]
           flat == CHOOSE g : Loop(g)
           step == [x \in (2..n) \X Seq(S) |-> x[2] \o s[x[1]]]
<1>1. n \in Nat /\ \A i \in 1..n : s[i] \in Seq(S)
  OBVIOUS
<1>2. CASE n = 0
  <2>1. s = <<>> /\ FlattenSeq(s) = <<>>
    BY <1>2 DEF FlattenSeq
  <2>2. 1..Len(s) = {} /\ Len(FlattenSeq(s)) = 0 /\ DOMAIN FlattenSeq(s) = {}
    BY <2>1
  <2>3. ToSet(FlattenSeq(s)) = {}
    BY <2>2 DEF ToSet
  <2>4. UNION {ToSet(s[i]) : i \in 1..Len(s)} = {}
    BY <2>2
  <2>5. Distinct(FlattenSeq(s))
    BY <2>2 DEF Distinct
  <2>6. <<>> \in Seq(S)
    OBVIOUS
  <2>7. FlattenSeq(s) \in Seq(S)
    BY <2>1, <2>6, Zenon
  <2> QED
    BY <2>3, <2>4, <2>5, <2>7
<1>3. CASE n # 0
  <2>1. FlattenSeq(s) = flat[n]
    BY <1>1, <1>3 DEF FlattenSeq
  <2>2. step \in [(2..n) \X Seq(S) -> Seq(S)]
    <3>1. \A x \in (2..n) \X Seq(S) : x[2] \in Seq(S) /\ x[1] \in 1..n
      OBVIOUS
    <3>2. \A y, z \in Seq(S) : y \o z \in Seq(S)
      BY ConcatFacts
    <3> HIDE DEF n
    <3> QED
      BY <1>1, <3>1, <3>2
  <2>3. \A i \in 2..n, y \in Seq(S) : step[<<i, y>>] = y \o s[i]
    OBVIOUS
  <2>4. s[1] \in Seq(S)
    BY <1>1, <1>3
  <2> HIDE DEF step, n
  <2>5. PICK f \in [1..n -> Seq(S)] : IsLoop(f, n, s[1], step)
    BY <1>1, <1>3, <2>2, <2>4, LoopHasValues
  <2>6. Loop(f)
    <3>1. ASSUME NEW i \in 1..n PROVE f[i] = IF i = 1 THEN s[i] ELSE f[i-1] \o s[i]
      <4>1. CASE i = 1
        BY <2>5, <4>1 DEF IsLoop
      <4>2. CASE i # 1
        <5>1. i \in 2..n /\ i - 1 \in 1..n
          BY <1>1, <4>2
        <5>2. f[i-1] \in Seq(S)
          BY <5>1
        <5> QED
          BY <2>3, <2>5, <4>2, <5>1, <5>2 DEF IsLoop
      <4> QED
        BY <4>1, <4>2
    <3>2. f = [i \in 1..n |-> f[i]]
      OBVIOUS
    <3> QED
      BY <3>1, <3>2
  <2>7. Loop(flat)
    <3> HIDE DEF Loop
    <3> QED
      BY <2>6
  <2> HIDE DEF flat
  <2>8. \A i \in 1..n : flat[i] = IF i = 1 THEN s[i] ELSE flat[i-1] \o s[i]
    BY <2>7
  <2> HIDE DEF Loop
  <2> DEFINE Good(m) == /\ flat[m] \in Seq(S) /\ Distinct(flat[m])
                        /\ \A x : x \in ToSet(flat[m]) <=> \E i \in 1..m : x \in ToSet(s[i])
             Bad == {m \in 1..n : ~Good(m)}
  <2>9. Good(1)
    <3>1. flat[1] = s[1] /\ 1 \in 1..n /\ 1..1 = {1}
      BY <1>1, <1>3, <2>8
    <3> QED
      BY <1>1, <3>1 DEF n
  <2>10. ASSUME NEW m \in 2..n, Good(m - 1) PROVE Good(m)
    <3>1. /\ m \in 1..n /\ m - 1 \in 1..n /\ m # 1 /\ \A i \in 1..m : i = m \/ i \in 1..(m-1)
          /\ m \in 1..m /\ \A i \in 1..(m-1) : i \in 1..m /\ i \in 1..n /\ i # m
      BY <1>1
    <3>2. flat[m] = flat[m-1] \o s[m] /\ s[m] \in Seq(S) /\ Distinct(s[m])
      BY <1>1, <2>8, <3>1 DEF n
    <3>3. ToSet(flat[m-1]) \cap ToSet(s[m]) = {}
      <4> SUFFICES ASSUME NEW x \in ToSet(flat[m-1]), x \in ToSet(s[m]) PROVE FALSE
        OBVIOUS
      <4>1. PICK i \in 1..(m-1) : x \in ToSet(s[i])
        BY <2>10
      <4> QED
        BY <3>1, <4>1 DEF n
    <3>4. /\ flat[m] \in Seq(S) /\ Distinct(flat[m])
          /\ ToSet(flat[m]) = ToSet(flat[m-1]) \cup ToSet(s[m])
      BY <2>10, <3>2, <3>3, ConcatFacts
    <3>5. \A x : x \in ToSet(flat[m]) <=> \E i \in 1..m : x \in ToSet(s[i])
      BY <2>10, <3>1, <3>4
    <3> QED
      BY <3>4, <3>5
  <2> HIDE DEF Good
  <2>11. Bad = {}
    <3> SUFFICES ASSUME Bad # {} PROVE FALSE
      OBVIOUS
    <3>1. PICK m \in Bad : \A y \in Bad : m <= y
      <4>1. Bad \in SUBSET Nat
        OBVIOUS
      <4> HIDE DEF Bad
      <4> QED
        BY <4>1, LeastNat
    <3>2. m \in 1..n /\ ~Good(m) /\ m # 1
      BY <2>9, <3>1
    <3>3. m \in 2..n /\ m - 1 \in 1..n /\ ~(m <= m - 1)
      BY <1>1, <3>2
    <3> QED
      BY <2>10, <3>1, <3>2, <3>3
  <2>12. Good(n)
    <3>1. n \in 1..n
      BY <1>1, <1>3
    <3> QED
      BY <2>11, <3>1
  <2>13. ToSet(flat[n]) = UNION {ToSet(s[i]) : i \in 1..n}
    BY <2>12 DEF Good
  <2> QED
    BY <2>1, <2>12, <2>13 DEF Good, n
<1> QED
  BY <1>2, <1>3

-----------------------------------------------------------------------------
(* Datagen: the inductive invariant.                                       *)

(* Sum of Datagen, for samples of the sizes z.                             *)
Total(z, s) == SumFunction([i \in DOMAIN s |-> z[s[i]]])

(* A list of samples that may be put into S3 together.                     *)
IsItem(z, k, s) ==
  /\ s \in Seq(1..Len(z)) /\ Distinct(s)
  /\ k # 0 => Total(z, s) <= k \/ Len(s) = 1

(* Where a sample may be on its way: in the group, in the hands of a       *)
(* producer or of a consumer, in an item of the queue, in an item in S3.   *)
Places == {"group", "made", "queue", "taken", "uploaded"} \X Int

(* What is there; the sentinel holds no sample.                            *)
InGroup == [i \in Int |-> IF i = 0 THEN ToSet(group) ELSE {}]
InMade ==
  [i \in Int |-> IF i \in Gen!Workers /\ producer[i] = "put" THEN ToSet(made[i]) ELSE {}]
InQueue == [i \in Int |-> IF i \in 1..Len(queue) THEN ToSet(queue[i]) \ {0} ELSE {}]
InTaken ==
  [i \in Int |-> IF i \in Gen!Workers /\ consumer[i] = "upload" THEN ToSet(taken[i]) ELSE {}]
InUploaded == [i \in Int |-> IF i \in 1..Len(uploaded) THEN ToSet(uploaded[i]) ELSE {}]

Shelf ==
  [l \in Places |->
     IF l[1] = "group" THEN InGroup[l[2]]
     ELSE IF l[1] = "made" THEN InMade[l[2]]
     ELSE IF l[1] = "queue" THEN InQueue[l[2]]
     ELSE IF l[1] = "taken" THEN InTaken[l[2]]
     ELSE InUploaded[l[2]]]

(* Each of the samples 1..n, and no other, is in exactly one place.        *)
InOnePlace(f, n) ==
  /\ \A l \in Places : f[l] \subseteq 1..n
  /\ \A x \in 1..n : \E m \in Places : \A l \in Places : x \in f[l] <=> l = m

Producing == {"next", "put", "barrier", "signal", "ended"}
Consuming == {"get", "upload", "reput", "ended"}

GenTypes ==
  /\ sizes \in Seq(Nat \ {0}) /\ shardSize \in Nat /\ drawn \in 0..Len(sizes)
  /\ over \in BOOLEAN /\ holder \in Gen!Workers \cup {Gen!Nobody}
  /\ producer \in [Gen!Workers -> Producing] /\ consumer \in [Gen!Workers -> Consuming]
  /\ made \in [Gen!Workers -> Seq(Nat)] /\ taken \in [Gen!Workers -> Seq(Nat)]
  /\ queue \in Seq(Seq(Nat)) /\ uploaded \in Seq(Seq(Nat))

(* What is on its way was packed as asked for.                             *)
Items ==
  /\ IsItem(sizes, shardSize, group) /\ (shardSize = 0 => group = <<>>)
  /\ \A p \in Gen!Workers : producer[p] = "put" => IsItem(sizes, shardSize, made[p])
  /\ \A i \in 1..Len(queue) :
       queue[i] = Gen!Sentinel \/ IsItem(sizes, shardSize, queue[i])
  /\ \A c \in Gen!Workers : consumer[c] = "upload" => IsItem(sizes, shardSize, taken[c])
  /\ \A i \in 1..Len(uploaded) : IsItem(sizes, shardSize, uploaded[i])

Done == {"signal", "ended"}

(* The lock is held by a producer that draws; those past the barrier know  *)
(* that everybody has drawn all there is.                                  *)
Turns ==
  /\ holder # Gen!Nobody => producer[holder] = "next"
  /\ over => drawn = Len(sizes) /\ group = <<>>
  /\ \A p \in Gen!Workers :
       /\ producer[p] \notin {"next", "put"} => over
       /\ producer[p] = "signal" => p = 0
       /\ producer[p] \in Done => \A q \in Gen!Workers : producer[q] \in Done

(* Only the first producer makes a sentinel, when nothing is put any more: *)
(* from then on there is one, at the end of the queue or in the hands of   *)
(* one consumer, and a consumer has ended only if nothing is before it.    *)
OneSentinel ==
  IF producer[0] # "ended"
  THEN /\ \A i \in 1..Len(queue) : queue[i] # Gen!Sentinel
       /\ \A c \in Gen!Workers : consumer[c] \notin {"reput", "ended"}
  ELSE /\ \A i \in 1..Len(queue) : queue[i] = Gen!Sentinel <=> i = Len(queue)
       /\ queue = <<>> => \E c \in Gen!Workers : consumer[c] = "reput"
       /\ \A c \in Gen!Workers : consumer[c] = "reput" =>
            queue = <<>> /\ \A d \in Gen!Workers : consumer[d] = "reput" => c = d
       /\ \A c \in Gen!Workers : consumer[c] = "ended" => Len(queue) <= 1

GenInv ==
  GenTypes /\ Items /\ InOnePlace(Shelf, drawn) /\ Turns /\ OneSentinel

-----------------------------------------------------------------------------
LEMMA WorkerFacts ==
  ASSUME Gen!ConstantsAssumption
  PROVE  Gen!Workers \subseteq Nat /\ 0 \in Gen!Workers /\ Gen!Nobody \notin Gen!Workers
BY DEF Gen!ConstantsAssumption, Gen!Workers, Gen!Nobody

(* Places, one kind after the other.                                       *)
LEMMA PlaceFacts ==
  /\ \A i \in Int : /\ <<"group", i>> \in Places /\ <<"made", i>> \in Places
                    /\ <<"queue", i>> \in Places /\ <<"taken", i>> \in Places
                    /\ <<"uploaded", i>> \in Places
  /\ \A l \in Places : \E i \in Int :
       l \in {<<"group", i>>, <<"made", i>>, <<"queue", i>>, <<"taken", i>>, <<"uploaded", i>>}
BY DEF Places

(* A step that carries what is in one place to an empty one, ...           *)
LEMMA Swapped ==
  ASSUME NEW f, NEW g, NEW n \in Nat, InOnePlace(f, n), NEW k \in Places, NEW m \in Places,
         g[k] = f[m], g[m] = f[k], \A l \in Places \ {k, m} : g[l] = f[l]
  PROVE  InOnePlace(g, n)
<1>1. ASSUME NEW l \in Places PROVE g[l] \subseteq 1..n
  BY DEF InOnePlace
<1>2. ASSUME NEW x \in 1..n PROVE \E o \in Places : \A l \in Places : x \in g[l] <=> l = o
  <2>1. PICK o \in Places : \A l \in Places : x \in f[l] <=> l = o
    BY DEF InOnePlace
  <2>2. CASE o = k
    <3>1. \A l \in Places : x \in g[l] <=> l = m
      BY <2>1, <2>2
    <3> QED
      BY <3>1
  <2>3. CASE o = m
    <3>1. \A l \in Places : x \in g[l] <=> l = k
      BY <2>1, <2>3
    <3> QED
      BY <3>1
  <2>4. CASE o \notin {k, m}
    <3>1. \A l \in Places : x \in g[l] <=> l = o
      BY <2>1, <2>4
    <3> QED
      BY <3>1
  <2> QED
    BY <2>2, <2>3, <2>4
<1> QED
  BY <1>1, <1>2 DEF InOnePlace

(* ... a step that draws a sample, ...                                     *)
LEMMA Added ==
  ASSUME NEW f, NEW g, NEW n \in Nat, InOnePlace(f, n), NEW m \in Places,
         g[m] = f[m] \cup {n + 1}, \A l \in Places \ {m} : g[l] = f[l]
  PROVE  InOnePlace(g, n + 1)
<1>1. \A x : x \in 1..(n + 1) <=> x \in 1..n \/ x = n + 1
  OBVIOUS
<1>2. n + 1 \notin 1..n
  OBVIOUS
<1>3. ASSUME NEW l \in Places PROVE g[l] \subseteq 1..(n + 1)
  <2>1. f[l] \subseteq 1..n
    BY DEF InOnePlace
  <2> QED
    BY <1>1, <2>1
<1>4. ASSUME NEW x \in 1..n PROVE \E o \in Places : \A l \in Places : x \in g[l] <=> l = o
  <2>1. PICK o \in Places : \A l \in Places : x \in f[l] <=> l = o
    BY DEF InOnePlace
  <2>2. x # n + 1
    BY <1>2
  <2>3. \A l \in Places : x \in g[l] <=> l = o
    BY <2>1, <2>2
  <2> QED
    BY <2>3
<1>5. \A l \in Places : n + 1 \in g[l] <=> l = m
  <2>1. \A l \in Places : n + 1 \notin f[l]
    BY <1>2 DEF InOnePlace
  <2> QED
    BY <2>1
<1>6. \A x \in 1..(n + 1) : \E o \in Places : \A l \in Places : x \in g[l] <=> l = o
  BY <1>1, <1>4, <1>5
<1> QED
  BY <1>3, <1>6 DEF InOnePlace

(* ... and one that carries everything: h leads from where something is    *)
(* back to where it was.                                                   *)
LEMMA Moved ==
  ASSUME NEW f, NEW g, NEW n \in Nat, InOnePlace(f, n), NEW h \in [Places -> Places],
         NEW b \in [Places -> Places], \A l \in Places : g[l] = f[h[l]] /\ b[h[l]] = l,
         \A k \in Places : f[k] # {} => h[b[k]] = k
  PROVE  InOnePlace(g, n)
<1>1. ASSUME NEW l \in Places PROVE g[l] \subseteq 1..n
  BY DEF InOnePlace
<1>2. ASSUME NEW x \in 1..n PROVE \E o \in Places : \A l \in Places : x \in g[l] <=> l = o
  <2>1. PICK m \in Places : \A l \in Places : x \in f[l] <=> l = m
    BY DEF InOnePlace
  <2>2. h[b[m]] = m /\ b[m] \in Places
    BY <2>1
  <2>3. ASSUME NEW l \in Places PROVE x \in g[l] <=> l = b[m]
    <3>1. h[l] \in Places /\ g[l] = f[h[l]] /\ b[h[l]] = l
      OBVIOUS
    <3>2. x \in g[l] <=> h[l] = m
      BY <2>1, <3>1
    <3> QED
      BY <2>2, <3>1, <3>2
  <2> QED
    BY <2>2, <2>3
<1> QED
  BY <1>1, <1>2 DEF InOnePlace

-----------------------------------------------------------------------------
(* The samples of an item, one by one.                                     *)
LEMMA TotalOfNone ==
  ASSUME NEW z
  PROVE  Total(z, <<>>) = 0
<1> DEFINE F == [i \in DOMAIN <<>> |-> z[<<>>[i]]]
<1>1. DOMAIN <<>> = {} /\ F \in [{} -> Int]
  OBVIOUS
<1>2. IsFiniteSet({})
  BY FS_EmptySet
<1> HIDE DEF F
<1>3. PICK S : IsSum(S, F, {}) /\ SumFunction(F) = S[{}]
  BY <1>1, <1>2, SumFacts
<1> QED
  BY <1>3 DEF IsSum, Total, F

LEMMA TotalOfMore ==
  ASSUME NEW z \in Seq(Nat \ {0}), NEW s \in Seq(1..Len(z)), NEW x \in 1..Len(z)
  PROVE  Total(z, Append(s, x)) = Total(z, s) + z[x] /\ Total(z, s) \in Int
<1> DEFINE D == 1..Len(s)
           n == Len(s) + 1
           t == Append(s, x)
           F == [i \in D |-> z[s[i]]]
           G == [i \in 1..n |-> z[t[i]]]
<1>1. Len(s) \in Nat /\ n \notin D /\ 1..n = D \cup {n} /\ n \in 1..n
  OBVIOUS
<1>2. IsFiniteSet(D)
  <2>1. 1 \in Int /\ Len(s) \in Int
    OBVIOUS
  <2> QED
    BY <2>1, FS_Interval
<1>3. t \in Seq(1..Len(z)) /\ Len(t) = n /\ t[n] = x /\ \A i \in D : t[i] = s[i]
  OBVIOUS
<1>4. \A i \in 1..Len(z) : z[i] \in Int
  OBVIOUS
<1>5. F \in [D -> Int]
  <2>1. \A i \in D : s[i] \in 1..Len(z)
    OBVIOUS
  <2> HIDE DEF D
  <2> QED
    BY <1>4, <2>1
<1>6. G \in [1..n -> Int]
  <2> HIDE DEF t, n
  <2>1. \A i \in 1..n : t[i] \in 1..Len(z)
    BY <1>3
  <2> QED
    BY <1>4, <2>1
<1>7. G[n] = z[x] /\ \A i \in D : G[i] = F[i]
  BY <1>1, <1>3
<1>8. DOMAIN s = D /\ DOMAIN t = 1..n
  BY <1>3
<1>9. Total(z, s) = SumFunction(F) /\ Total(z, t) = SumFunction(G)
  BY <1>8 DEF Total
<1> HIDE DEF D, n, t, F, G
<1>10. SumFunction(G) = SumFunction(F) + G[n]
  <2>1. 1..n = D \cup {n}
    BY <1>1
  <2>2. n \notin D /\ \A i \in D : G[i] = F[i]
    BY <1>1, <1>7
  <2>3. \A E : E = D \cup {n} => \A H \in [E -> Int] :
          (\A i \in D : H[i] = F[i]) => SumFunction(H) = SumFunction(F) + H[n]
    BY <1>2, <1>5, <2>2, SumOfOneMore
  <2> QED
    BY <1>6, <2>1, <2>2, <2>3
<1>11. SumFunction(F) \in Int
  <2>1. PICK S : IsSum(S, F, D) /\ SumFunction(F) = S[D]
    BY <1>2, <1>5, SumFacts
  <2> QED
    BY <2>1 DEF IsSum
<1> QED
  BY <1>7, <1>9, <1>10, <1>11 DEF t

LEMMA ItemFacts ==
  ASSUME NEW z \in Seq(Nat \ {0}), NEW k \in Nat
  PROVE  /\ IsItem(z, k, <<>>) /\ ToSet(<<>>) = {}
         /\ \A x \in 1..Len(z) : IsItem(z, k, <<x>>) /\ ToSet(<<x>>) = {x}
         /\ \A s : IsItem(z, k, s) =>
              /\ s \in Seq(Nat) /\ s # Gen!Sentinel /\ 0 \notin ToSet(s)
              /\ \A x \in 1..Len(z) : x \notin ToSet(s) /\ Total(z, s) + z[x] <= k =>
                   /\ IsItem(z, k, Append(s, x))
                   /\ ToSet(Append(s, x)) = ToSet(s) \cup {x}
<1>1. IsItem(z, k, <<>>) /\ ToSet(<<>>) = {}
  <2>1. <<>> \in Seq(1..Len(z)) /\ Len(<<>>) = 0 /\ DOMAIN <<>> = {} /\ 1..0 = {}
    OBVIOUS
  <2>2. Distinct(<<>>) /\ ToSet(<<>>) = {}
    BY <2>1 DEF Distinct, ToSet
  <2> QED
    BY <2>1, <2>2, TotalOfNone DEF IsItem
<1>2. ASSUME NEW x \in 1..Len(z) PROVE IsItem(z, k, <<x>>) /\ ToSet(<<x>>) = {x}
  <2>1. <<x>> \in Seq(1..Len(z)) /\ Len(<<x>>) = 1 /\ DOMAIN <<x>> = {1} /\ <<x>>[1] = x /\ 1..1 = {1}
    OBVIOUS
  <2>2. Distinct(<<x>>) /\ ToSet(<<x>>) = {x}
    BY <2>1 DEF Distinct, ToSet
  <2> QED
    BY <2>1, <2>2 DEF IsItem
<1>3. ASSUME NEW s, IsItem(z, k, s)
      PROVE  s \in Seq(Nat) /\ s # Gen!Sentinel /\ 0 \notin ToSet(s)
  <2>1. s \in Seq(1..Len(z)) /\ \A i \in DOMAIN s : s[i] \in 1..Len(z)
    BY <1>3 DEF IsItem
  <2>2. 0 \notin ToSet(s)
    BY <2>1 DEF ToSet
  <2>3. s # <<0>>
    <3>1. DOMAIN <<0>> = {1} /\ <<0>>[1] = 0
      OBVIOUS
    <3>2. 0 \notin 1..Len(z)
      OBVIOUS
    <3> QED
      BY <2>1, <3>1, <3>2
  <2>4. s \in Seq(Nat)
    BY <2>1
  <2> QED
    BY <2>2, <2>3, <2>4 DEF Gen!Sentinel
<1>4. ASSUME NEW s, IsItem(z, k, s), NEW x \in 1..Len(z), x \notin ToSet(s),
             Total(z, s) + z[x] <= k
      PROVE  IsItem(z, k, Append(s, x)) /\ ToSet(Append(s, x)) = ToSet(s) \cup {x}
  <2> DEFINE S == 1..Len(z)
             t == Append(s, x)
  <2>1. s \in Seq(S) /\ Distinct(s)
    BY <1>4 DEF IsItem
  <2>2. /\ t \in Seq(S) /\ Len(t) = Len(s) + 1 /\ Len(s) \in Nat /\ t[Len(s) + 1] = x
        /\ \A i \in 1..Len(s) : t[i] = s[i]
    BY <2>1
  <2>3. /\ \A y : y \in ToSet(s) <=> \E i \in 1..Len(s) : s[i] = y
        /\ \A y : y \in ToSet(t) <=> \E i \in 1..(Len(s) + 1) : t[i] = y
    <3>1. DOMAIN s = 1..Len(s)
      BY <2>1
    <3> HIDE DEF t, S
    <3>2. DOMAIN t = 1..(Len(s) + 1)
      BY <2>2
    <3> QED
      BY <3>1, <3>2 DEF ToSet
  <2> HIDE DEF t, S
  <2>4. \A i : i \in 1..(Len(s) + 1) <=> i \in 1..Len(s) \/ i = Len(s) + 1
    BY <2>2
  <2>5. ToSet(t) = ToSet(s) \cup {x}
    BY <2>2, <2>3, <2>4
  <2>6. Distinct(t)
    <3> SUFFICES ASSUME NEW i \in 1..(Len(s) + 1), NEW j \in 1..(Len(s) + 1), t[i] = t[j]
                 PROVE  i = j
      BY <2>2 DEF Distinct
    <3>1. CASE i \in 1..Len(s) /\ j \in 1..Len(s)
      BY <2>1, <2>2, <3>1 DEF Distinct
    <3>2. ASSUME NEW l \in 1..Len(s) PROVE t[l] # x
      BY <1>4, <2>2, <2>3
    <3> QED
      BY <2>2, <2>4, <3>1, <3>2
  <2>7. Total(z, t) <= k
    BY <1>4, <2>1, TotalOfMore DEF t, S
  <2> QED
    BY <2>2, <2>5, <2>6, <2>7 DEF IsItem, t, S
<1> QED
  BY <1>1, <1>2, <1>3, <1>4

-----------------------------------------------------------------------------

(* Gen! names of the library are those of this module, for sums and lists. *)
LEMMA SameOperators ==
  /\ \A F : Gen!SumFunction(F) = SumFunction(F)
  /\ \A s : Gen!ToSet(s) = ToSet(s)
  /\ \A s : Gen!FlattenSeq(s) = FlattenSeq(s)
  /\ \A s : Gen!Sum(s) = Total(sizes, s)
<1>1. \A F : Gen!SumFunction(F) = SumFunction(F)
  BY DEF Gen!SumFunction, Gen!SumFunctionOnSet, Gen!FoldFunctionOnSet, Gen!MapThenFoldSet,
         SumFunction, SumFunctionOnSet, FoldFunctionOnSet, MapThenFoldSet
<1>2. \A s : Gen!ToSet(s) = ToSet(s)
  BY DEF Gen!ToSet, ToSet
<1>3. \A s : Gen!FlattenSeq(s) = FlattenSeq(s)
  BY DEF Gen!FlattenSeq, FlattenSeq
<1>4. \A s : Gen!Sum(s) = Total(sizes, s)
  BY <1>1 DEF Gen!Sum, Total
<1> QED
  BY <1>1, <1>2, <1>3, <1>4

LEMMA ShelfAt ==
  ASSUME NEW i \in Int
  PROVE  /\ Shelf[<<"group", i>>] = InGroup[i] /\ Shelf'[<<"group", i>>] = InGroup'[i]
         /\ Shelf[<<"made", i>>] = InMade[i] /\ Shelf'[<<"made", i>>] = InMade'[i]
         /\ Shelf[<<"queue", i>>] = InQueue[i] /\ Shelf'[<<"queue", i>>] = InQueue'[i]
         /\ Shelf[<<"taken", i>>] = InTaken[i] /\ Shelf'[<<"taken", i>>] = InTaken'[i]
         /\ Shelf[<<"uploaded", i>>] = InUploaded[i]
         /\ Shelf'[<<"uploaded", i>>] = InUploaded'[i]
<1>1. /\ Shelf[<<"group", i>>] = InGroup[i] /\ Shelf[<<"made", i>>] = InMade[i]
      /\ Shelf[<<"queue", i>>] = InQueue[i] /\ Shelf[<<"taken", i>>] = InTaken[i]
      /\ Shelf[<<"uploaded", i>>] = InUploaded[i]
  BY DEF Shelf, Places
<1>2. /\ Shelf'[<<"group", i>>] = InGroup'[i] /\ Shelf'[<<"made", i>>] = InMade'[i]
      /\ Shelf'[<<"queue", i>>] = InQueue'[i] /\ Shelf'[<<"taken", i>>] = InTaken'[i]
      /\ Shelf'[<<"uploaded", i>>] = InUploaded'[i]
  BY DEF Shelf, Places
<1> QED
  BY <1>1, <1>2

(* Only the places of X may hold something else than before.               *)
Touched(X) ==
  \A i \in Int : /\ <<"group", i>> \notin X => InGroup'[i] = InGroup[i]
                 /\ <<"made", i>> \notin X => InMade'[i] = InMade[i]
                 /\ <<"queue", i>> \notin X => InQueue'[i] = InQueue[i]
                 /\ <<"taken", i>> \notin X => InTaken'[i] = InTaken[i]
                 /\ <<"uploaded", i>> \notin X => InUploaded'[i] = InUploaded[i]

LEMMA Elsewhere == \A X : Touched(X) => \A l \in Places \ X : Shelf'[l] = Shelf[l]
<1> SUFFICES ASSUME NEW X, Touched(X), NEW l \in Places, l \notin X
             PROVE  Shelf'[l] = Shelf[l]
  OBVIOUS
<1> USE DEF Touched
<1>1. PICK i \in Int : l \in {<<"group", i>>, <<"made", i>>, <<"queue", i>>, <<"taken", i>>,
                              <<"uploaded", i>>}
  BY PlaceFacts
<1>2. CASE l = <<"group", i>>
  BY <1>2, ShelfAt
<1>3. CASE l = <<"made", i>>
  BY <1>3, ShelfAt
<1>4. CASE l = <<"queue", i>>
  BY <1>4, ShelfAt
<1>5. CASE l = <<"taken", i>>
  BY <1>5, ShelfAt
<1>6. CASE l = <<"uploaded", i>>
  BY <1>6, ShelfAt
<1> QED
  BY <1>1, <1>2, <1>3, <1>4, <1>5, <1>6

(* The steps, one by one.                                                  *)
LEMMA EnterStep ==
  ASSUME Gen!ConstantsAssumption, GenInv, NEW p \in Gen!Workers, Gen!Enter(p)
  PROVE  GenInv'
<1> USE DEF GenInv, Gen!Enter
<1>1. GenTypes'
  BY DEF GenTypes
<1>2. Items'
  BY DEF Items
<1>3. InOnePlace(Shelf, drawn)'
  BY DEF Shelf, InGroup, InMade, InQueue, InTaken, InUploaded
<1>4. Turns'
  BY WorkerFacts DEF Turns
<1>5. OneSentinel'
  BY DEF OneSentinel
<1> QED
  BY <1>1, <1>2, <1>3, <1>4, <1>5

LEMMA StopIterationStep ==
  ASSUME Gen!ConstantsAssumption, GenInv, NEW p \in Gen!Workers, Gen!StopIteration(p)
  PROVE  GenInv'
<1> USE DEF GenInv, Gen!StopIteration
<1>1. p # Gen!Nobody /\ producer[p] = "next"
  BY WorkerFacts DEF Turns
<1>2. GenTypes'
  BY DEF GenTypes, Producing
<1>3. producer'[p] = "barrier" /\ \A q \in Gen!Workers \ {p} : producer'[q] = producer[q]
  BY DEF GenTypes
<1>4. Items'
  BY <1>3 DEF Items
<1>5. InOnePlace(Shelf, drawn)'
  <2>1. InMade' = InMade
    BY <1>1, <1>3 DEF InMade
  <2> QED
    BY <2>1 DEF Shelf, InGroup, InQueue, InTaken, InUploaded
<1>6. Turns'
  <2>1. \A q \in Gen!Workers : producer[q] \notin Done /\ producer'[q] \notin Done
    BY <1>1, <1>3 DEF Turns, Done
  <2> QED
    BY <1>3, <2>1 DEF Turns, Done
<1>7. OneSentinel'
  <2>1. 0 \in Gen!Workers /\ producer[0] # "ended" /\ producer'[0] # "ended"
    BY <1>1, <1>3, WorkerFacts DEF Turns, Done
  <2> QED
    BY <2>1 DEF OneSentinel
<1> QED
  BY <1>2, <1>4, <1>5, <1>6, <1>7

LEMMA PutStep ==
  ASSUME Gen!ConstantsAssumption, GenInv, NEW p \in Gen!Workers, Gen!Put(p)
  PROVE  GenInv'
<1> USE DEF GenInv, Gen!Put
<1> DEFINE n == Len(queue) + 1
<1>1. /\ queue \in Seq(Seq(Nat)) /\ made[p] \in Seq(Nat) /\ IsItem(sizes, shardSize, made[p])
      /\ sizes \in Seq(Nat \ {0}) /\ shardSize \in Nat
  BY DEF GenTypes, Items
<1>2. /\ Len(queue) \in Nat /\ queue' \in Seq(Seq(Nat)) /\ Len(queue') = n /\ queue'[n] = made[p]
      /\ \A i \in 1..Len(queue) : queue'[i] = queue[i]
      /\ \A i : i \in 1..n <=> i \in 1..Len(queue) \/ i = n
      /\ n \notin 1..Len(queue) /\ n \in Int
  BY <1>1
<1>3. producer'[p] = "next" /\ \A q \in Gen!Workers \ {p} : producer'[q] = producer[q]
  BY DEF GenTypes
<1>4. made[p] # Gen!Sentinel /\ 0 \notin ToSet(made[p])
  BY <1>1, ItemFacts
<1> HIDE DEF n
<1>5. GenTypes'
  BY <1>2 DEF GenTypes, Producing
<1>6. Items'
  BY <1>1, <1>2, <1>3 DEF Items
<1>7. InOnePlace(Shelf, drawn)'
  <2>1. p \in Int
    BY WorkerFacts
  <2> DEFINE k == <<"made", p>>
             m == <<"queue", n>>
  <2>2. InMade[p] = ToSet(made[p]) /\ InMade'[p] = {} /\ \A i \in Int \ {p} : InMade'[i] = InMade[i]
    BY <1>3, <2>1 DEF InMade
  <2>3. InQueue[n] = {} /\ InQueue'[n] = ToSet(made[p]) /\ \A i \in Int \ {n} : InQueue'[i] = InQueue[i]
    BY <1>2, <1>4 DEF InQueue
  <2>4. InGroup' = InGroup /\ InTaken' = InTaken /\ InUploaded' = InUploaded
    BY DEF InGroup, InTaken, InUploaded
  <2>5. k \in Places /\ m \in Places /\ Shelf'[k] = Shelf[m] /\ Shelf'[m] = Shelf[k]
    BY <1>2, <2>1, <2>2, <2>3, PlaceFacts, ShelfAt
  <2>6. \A l \in Places \ {k, m} : Shelf'[l] = Shelf[l]
    <3>1. Touched({k, m})
      BY <2>2, <2>3, <2>4 DEF Touched
    <3> QED
      BY <3>1, Elsewhere
  <2>7. drawn \in Nat /\ drawn' = drawn /\ InOnePlace(Shelf, drawn)
    BY <1>1 DEF GenTypes
  <2> HIDE DEF k, m
  <2> QED
    BY <2>5, <2>6, <2>7, Swapped
<1>8. Turns'
  <2>1. \A q \in Gen!Workers : producer[q] \notin Done /\ producer'[q] \notin Done
    BY <1>3 DEF Turns, Done
  <2>2. holder # p
    BY WorkerFacts DEF Turns
  <2> QED
    BY <1>3, <2>1, <2>2 DEF Turns, Done, GenTypes
<1>9. OneSentinel'
  <2>1. 0 \in Gen!Workers /\ producer[0] # "ended" /\ producer'[0] # "ended"
    BY <1>3, WorkerFacts DEF Turns, Done
  <2> QED
    BY <1>2, <1>4, <2>1 DEF OneSentinel
<1> QED
  BY <1>5, <1>6, <1>7, <1>8, <1>9

LEMMA DrawStep ==
  ASSUME Gen!ConstantsAssumption, GenInv, NEW p \in Gen!Workers, Gen!Draw(p)
  PROVE  GenInv'
<1> USE DEF GenInv
<1> DEFINE d == drawn + 1
           k == <<"group", 0>>
           m == <<"made", p>>
<1>1. /\ holder = p /\ drawn < Len(sizes) /\ drawn' = d /\ sizes' = sizes
      /\ shardSize' = shardSize /\ over' = over /\ ~over
      /\ consumer' = consumer /\ taken' = taken /\ queue' = queue /\ uploaded' = uploaded
  BY DEF Gen!Draw
<1>2. /\ sizes \in Seq(Nat \ {0}) /\ shardSize \in Nat /\ drawn \in Nat /\ d \in 1..Len(sizes)
      /\ Len(sizes) \in Nat /\ IsItem(sizes, shardSize, group)
  BY <1>1 DEF GenTypes, Items
<1>3. p # Gen!Nobody /\ producer[p] = "next" /\ p \in Int
  BY <1>1, WorkerFacts DEF Turns
<1>4. k \in Places /\ m \in Places /\ k # m /\ 0 \in Int
  BY <1>3 DEF Places
<1>5. /\ InGroup[0] = ToSet(group) /\ InGroup'[0] = ToSet(group')
      /\ Shelf[k] = ToSet(group) /\ Shelf'[k] = ToSet(group')
  <2>1. InGroup[0] = ToSet(group) /\ InGroup'[0] = ToSet(group')
    BY DEF InGroup
  <2> QED
    BY <1>4, <2>1, ShelfAt
<1>6. InMade[p] = {} /\ Shelf[m] = {} /\ Shelf'[m] = InMade'[p]
  <2>1. InMade[p] = {}
    BY <1>3 DEF InMade
  <2> QED
    BY <1>3, <2>1, ShelfAt
<1>7. ToSet(group) \subseteq 1..drawn /\ d \notin ToSet(group)
  <2>1. ToSet(group) \subseteq 1..drawn
    BY <1>4, <1>5 DEF InOnePlace
  <2> QED
    BY <1>2, <2>1
<1>8. InQueue' = InQueue /\ InTaken' = InTaken /\ InUploaded' = InUploaded
  BY <1>1 DEF InQueue, InTaken, InUploaded
<1>9. \A i \in Int \ {0} : InGroup'[i] = InGroup[i]
  BY DEF InGroup
<1> HIDE DEF d, k, m
<1>10. ASSUME NEW item, IsItem(sizes, shardSize, item), IsItem(sizes, shardSize, group'),
              Gen!Leave(p, item, group'), shardSize = 0 => group' = <<>>,
              InOnePlace(Shelf, drawn)'
       PROVE  GenInv'
  <2>1. /\ holder' = Gen!Nobody /\ made'[p] = item /\ producer'[p] = "put"
        /\ \A q \in Gen!Workers \ {p} : producer'[q] = producer[q] /\ made'[q] = made[q]
    BY <1>10 DEF Gen!Leave, GenTypes
  <2>2. GenTypes'
    <3>1. item \in Seq(Nat)
      BY <1>2, <1>10, ItemFacts
    <3> QED
      BY <1>1, <1>2, <1>10, <3>1 DEF Gen!Leave, GenTypes, Producing
  <2>3. Items'
    BY <1>1, <1>10, <2>1 DEF Items
  <2>4. Turns'
    <3>1. \A q \in Gen!Workers : producer[q] \notin Done /\ producer'[q] \notin Done
      BY <1>3, <2>1 DEF Turns, Done
    <3> QED
      BY <1>1, <2>1, <3>1 DEF Turns, Done
  <2>5. OneSentinel'
    <3>1. 0 \in Gen!Workers /\ producer[0] # "ended" /\ producer'[0] # "ended"
      BY <1>3, <2>1, WorkerFacts DEF Turns, Done
    <3> QED
      BY <1>1, <3>1 DEF OneSentinel
  <2> QED
    BY <1>10, <2>2, <2>3, <2>4, <2>5
<1>11. ASSUME NEW item, Gen!Leave(p, item, group'), IsItem(sizes, shardSize, item)
       PROVE  InMade'[p] = ToSet(item) /\ \A i \in Int \ {p} : InMade'[i] = InMade[i]
  <2>1. /\ made'[p] = item /\ producer'[p] = "put"
        /\ \A q \in Gen!Workers \ {p} : producer'[q] = producer[q] /\ made'[q] = made[q]
    BY <1>11 DEF Gen!Leave, GenTypes
  <2> QED
    BY <1>3, <2>1 DEF InMade
<1>12. CASE shardSize = 0
  <2>1. group = <<>> /\ Gen!Leave(p, <<d>>, group') /\ group' = <<>>
    BY <1>1, <1>12 DEF Gen!Draw, Gen!Leave, Items, d
  <2>2. /\ IsItem(sizes, shardSize, <<d>>) /\ ToSet(<<d>>) = {d}
        /\ IsItem(sizes, shardSize, <<>>) /\ ToSet(<<>>) = {}
    BY <1>2, ItemFacts
  <2>3. InMade'[p] = {d} /\ \A i \in Int \ {p} : InMade'[i] = InMade[i]
    BY <1>11, <2>1, <2>2
  <2>4. InGroup' = InGroup
    BY <2>1 DEF InGroup
  <2>5. Touched({m})
    BY <1>8, <2>3, <2>4 DEF Touched, m
  <2>6. InOnePlace(Shelf', d)
    BY <1>2, <1>4, <1>6, <2>3, <2>5, Elsewhere, Added DEF d
  <2> QED
    BY <1>1, <1>10, <2>1, <2>2, <2>6
<1>13. CASE shardSize # 0 /\ Gen!Sum(group) + sizes[d] > shardSize
  <2>1. Gen!Leave(p, group, group') /\ group' = <<d>>
    BY <1>1, <1>13 DEF Gen!Draw, Gen!Leave, d
  <2>2. IsItem(sizes, shardSize, <<d>>) /\ ToSet(<<d>>) = {d}
    BY <1>2, ItemFacts
  <2>3. InMade'[p] = ToSet(group) /\ \A i \in Int \ {p} : InMade'[i] = InMade[i]
    BY <1>2, <1>11, <2>1
  <2>4. Touched({k, m})
    BY <1>8, <1>9, <2>3 DEF Touched, k, m
  <2> DEFINE f == [l \in Places |-> IF l = k THEN {} ELSE Shelf'[l]]
  <2>5. /\ f[k] = Shelf[m] /\ f[m] = Shelf[k] /\ f[k] = {}
        /\ \A l \in Places \ {k, m} : f[l] = Shelf[l]
    BY <1>4, <1>5, <1>6, <2>3, <2>4, Elsewhere
  <2>6. Shelf'[k] = f[k] \cup {d} /\ \A l \in Places \ {k} : Shelf'[l] = f[l]
    BY <1>5, <2>1, <2>2, <2>5
  <2> HIDE DEF f
  <2>7. InOnePlace(f, drawn)
    <3>1. InOnePlace(Shelf, drawn) /\ drawn \in Nat
      BY <1>2
    <3>2. k \in Places /\ m \in Places
      BY <1>4
    <3>3. f[k] = Shelf[m] /\ f[m] = Shelf[k]
      BY <2>5
    <3>4. \A l \in Places \ {k, m} : f[l] = Shelf[l]
      BY <2>5
    <3> HIDE DEF GenInv
    <3> QED
      BY <3>1, <3>2, <3>3, <3>4, Swapped
  <2>8. InOnePlace(Shelf', d)
    BY <1>2, <1>4, <2>6, <2>7, Added DEF d
  <2> QED
    BY <1>1, <1>2, <1>10, <1>13, <2>1, <2>2, <2>8
<1>14. CASE shardSize # 0 /\ ~(Gen!Sum(group) + sizes[d] > shardSize)
  <2>1. /\ group' = Append(group, d) /\ holder' = holder /\ producer' = producer /\ made' = made
    BY <1>1, <1>14 DEF Gen!Draw, d
  <2>2. IsItem(sizes, shardSize, group') /\ ToSet(group') = ToSet(group) \cup {d}
    <3>1. Gen!Sum(group) = Total(sizes, group) /\ Total(sizes, group) \in Int
      BY <1>2, SameOperators, TotalOfMore DEF IsItem
    <3>2. sizes[d] \in Int
      BY <1>2
    <3>3. Total(sizes, group) + sizes[d] <= shardSize
      BY <1>2, <1>14, <3>1, <3>2
    <3> QED
      BY <1>2, <1>7, <2>1, <3>3, ItemFacts
  <2>3. InMade' = InMade
    BY <2>1 DEF InMade
  <2>4. Touched({k})
    BY <1>8, <1>9, <2>3 DEF Touched, k
  <2>5. InOnePlace(Shelf', d)
    BY <1>2, <1>4, <1>5, <2>2, <2>4, Elsewhere, Added DEF d
  <2>6. GenTypes'
    BY <1>1, <1>2, <2>1 DEF GenTypes
  <2>7. Items'
    BY <1>1, <1>14, <2>1, <2>2 DEF Items
  <2>8. Turns' /\ OneSentinel'
    BY <1>1, <2>1 DEF Turns, OneSentinel
  <2> QED
    BY <1>1, <2>5, <2>6, <2>7, <2>8
<1> QED
  BY <1>12, <1>13, <1>14

LEMMA DrawLastStep ==
  ASSUME Gen!ConstantsAssumption, GenInv, NEW p \in Gen!Workers, Gen!DrawLast(p)
  PROVE  GenInv'
<1> USE DEF GenInv
<1> DEFINE k == <<"group", 0>>
           m == <<"made", p>>
<1>1. /\ holder = p /\ drawn = Len(sizes) /\ drawn' = drawn /\ sizes' = sizes
      /\ shardSize' = shardSize /\ over' = TRUE /\ ~over
      /\ consumer' = consumer /\ taken' = taken /\ queue' = queue /\ uploaded' = uploaded
  BY DEF Gen!DrawLast
<1>2. /\ sizes \in Seq(Nat \ {0}) /\ shardSize \in Nat /\ drawn \in Nat
      /\ IsItem(sizes, shardSize, group)
  BY <1>1 DEF GenTypes, Items
<1>3. p # Gen!Nobody /\ producer[p] = "next" /\ p \in Int
  BY <1>1, WorkerFacts DEF Turns
<1>4. k \in Places /\ m \in Places /\ k # m /\ 0 \in Int
  BY <1>3 DEF Places
<1>5. InQueue' = InQueue /\ InTaken' = InTaken /\ InUploaded' = InUploaded
  BY <1>1 DEF InQueue, InTaken, InUploaded
<1>6. CASE group = <<>>
  <2>1. group' = group /\ holder' = holder /\ producer' = producer /\ made' = made
    BY <1>1, <1>6 DEF Gen!DrawLast
  <2>2. Shelf' = Shelf
    <3>1. InGroup' = InGroup /\ InMade' = InMade
      BY <2>1 DEF InGroup, InMade
    <3> QED
      BY <1>5, <3>1 DEF Shelf
  <2>3. GenTypes' /\ Items'
    BY <1>1, <2>1 DEF GenTypes, Items
  <2>4. Turns' /\ OneSentinel'
    BY <1>1, <1>6, <2>1 DEF Turns, OneSentinel
  <2> QED
    BY <1>1, <2>2, <2>3, <2>4
<1>7. CASE group # <<>>
  <2>1. /\ holder' = Gen!Nobody /\ group' = <<>> /\ made' = [made EXCEPT ![p] = group]
        /\ producer' = [producer EXCEPT ![p] = "put"]
    BY <1>1, <1>7 DEF Gen!DrawLast, Gen!Leave
  <2>2. /\ made'[p] = group /\ producer'[p] = "put"
        /\ \A q \in Gen!Workers \ {p} : producer'[q] = producer[q] /\ made'[q] = made[q]
    BY <2>1 DEF GenTypes
  <2>3. IsItem(sizes, shardSize, <<>>) /\ ToSet(<<>>) = {} /\ group \in Seq(Nat)
    BY <1>2, ItemFacts
  <2>4. GenTypes'
    BY <1>1, <1>2, <2>1, <2>3 DEF GenTypes, Producing
  <2>5. Items'
    BY <1>1, <1>2, <2>1, <2>2, <2>3 DEF Items
  <2>6. InOnePlace(Shelf, drawn)'
    <3>1. InGroup[0] = ToSet(group) /\ InGroup'[0] = {} /\ \A i \in Int \ {0} : InGroup'[i] = InGroup[i]
      BY <2>1, <2>3 DEF InGroup
    <3>2. InMade[p] = {} /\ InMade'[p] = ToSet(group) /\ \A i \in Int \ {p} : InMade'[i] = InMade[i]
      BY <1>3, <2>2 DEF InMade
    <3>3. Touched({k, m})
      BY <1>5, <3>1, <3>2 DEF Touched
    <3>4. Shelf'[k] = Shelf[m] /\ Shelf'[m] = Shelf[k]
      BY <1>3, <1>4, <3>1, <3>2, ShelfAt
    <3>5. \A l \in Places \ {k, m} : Shelf'[l] = Shelf[l]
      BY <3>3, Elsewhere
    <3> HIDE DEF k, m
    <3> QED
      BY <1>1, <1>2, <1>4, <3>4, <3>5, Swapped
  <2>7. \A q \in Gen!Workers : producer[q] \notin Done /\ producer'[q] \notin Done
    BY <1>3, <2>2 DEF Turns, Done
  <2>8. Turns'
    BY <1>1, <2>1, <2>2, <2>7 DEF Turns, Done
  <2>9. OneSentinel'
    <3>1. 0 \in Gen!Workers /\ producer[0] # "ended" /\ producer'[0] # "ended"
      BY <2>7, WorkerFacts DEF Done
    <3> QED
      BY <1>1, <3>1 DEF OneSentinel
  <2> QED
    BY <2>4, <2>5, <2>6, <2>8, <2>9
<1> QED
  BY <1>6, <1>7

LEMMA BarrierStep ==
  ASSUME Gen!ConstantsAssumption, GenInv, Gen!Barrier
  PROVE  GenInv'
<1> USE DEF GenInv, Gen!Barrier
<1>1. \A q \in Gen!Workers : producer[q] = "barrier" /\ producer'[q] \in Done
  BY DEF Done
<1>2. GenTypes'
  BY DEF GenTypes, Producing
<1>3. Items'
  BY <1>1 DEF Items, Done
<1>4. InOnePlace(Shelf, drawn)'
  <2>1. InMade' = InMade
    BY <1>1 DEF InMade, Done
  <2> QED
    BY <2>1 DEF Shelf, InGroup, InQueue, InTaken, InUploaded
<1>5. Turns'
  <2>1. over /\ holder = Gen!Nobody
    BY <1>1, WorkerFacts DEF Turns, GenTypes
  <2> QED
    BY <1>1, <2>1 DEF Turns, Done
<1>6. OneSentinel'
  <2>1. 0 \in Gen!Workers /\ producer[0] # "ended" /\ producer'[0] # "ended"
    BY <1>1, WorkerFacts
  <2> QED
    BY <2>1 DEF OneSentinel
<1> QED
  BY <1>2, <1>3, <1>4, <1>5, <1>6

LEMMA SignalStep ==
  ASSUME Gen!ConstantsAssumption, GenInv, NEW p \in Gen!Workers, Gen!Signal(p)
  PROVE  GenInv'
<1> USE DEF GenInv, Gen!Signal
<1> DEFINE n == Len(queue) + 1
<1>1. p = 0 /\ producer'[p] = "ended" /\ \A q \in Gen!Workers \ {p} : producer'[q] = producer[q]
  BY DEF GenTypes, Turns
<1>2. queue \in Seq(Seq(Nat)) /\ Gen!Sentinel \in Seq(Nat) /\ ToSet(Gen!Sentinel) = {0}
  <2>1. DOMAIN <<0>> = {1} /\ <<0>>[1] = 0 /\ <<0>> \in Seq(Nat)
    OBVIOUS
  <2> QED
    BY <2>1 DEF GenTypes, Gen!Sentinel, ToSet
<1>3. /\ Len(queue) \in Nat /\ queue' \in Seq(Seq(Nat)) /\ Len(queue') = n
      /\ queue'[n] = Gen!Sentinel /\ \A i \in 1..Len(queue) : queue'[i] = queue[i]
      /\ \A i : i \in 1..n <=> i \in 1..Len(queue) \/ i = n
      /\ n \notin 1..Len(queue) /\ n \in Int
  BY <1>2
<1> HIDE DEF n
<1>4. GenTypes'
  BY <1>3 DEF GenTypes, Producing
<1>5. Items'
  BY <1>1, <1>3 DEF Items
<1>6. InOnePlace(Shelf, drawn)'
  <2>1. InMade' = InMade
    BY <1>1 DEF InMade
  <2>2. InQueue' = InQueue
    BY <1>2, <1>3 DEF InQueue
  <2> QED
    BY <2>1, <2>2 DEF Shelf, InGroup, InTaken, InUploaded
<1>7. Turns'
  BY <1>1, WorkerFacts DEF Turns, Done
<1>8. OneSentinel'
  <2>1. /\ \A i \in 1..Len(queue) : queue[i] # Gen!Sentinel
        /\ \A c \in Gen!Workers : consumer[c] \notin {"reput", "ended"}
    BY <1>1 DEF OneSentinel
  <2>2. queue' # <<>>
    BY <1>3
  <2> QED
    BY <1>1, <1>3, <2>1, <2>2 DEF OneSentinel
<1> QED
  BY <1>4, <1>5, <1>6, <1>7, <1>8

LEMMA UploadStep ==
  ASSUME Gen!ConstantsAssumption, GenInv, NEW c \in Gen!Workers, Gen!Upload(c)
  PROVE  GenInv'
<1> USE DEF GenInv, Gen!Upload
<1> DEFINE n == Len(uploaded) + 1
           k == <<"taken", c>>
           m == <<"uploaded", n>>
<1>1. /\ uploaded \in Seq(Seq(Nat)) /\ taken[c] \in Seq(Nat)
      /\ IsItem(sizes, shardSize, taken[c])
  BY DEF GenTypes, Items
<1>2. /\ Len(uploaded) \in Nat /\ uploaded' \in Seq(Seq(Nat)) /\ Len(uploaded') = n
      /\ uploaded'[n] = taken[c] /\ \A i \in 1..Len(uploaded) : uploaded'[i] = uploaded[i]
      /\ \A i : i \in 1..n <=> i \in 1..Len(uploaded) \/ i = n
      /\ n \notin 1..Len(uploaded) /\ n \in Int
  BY <1>1
<1>3. consumer'[c] = "get" /\ \A d \in Gen!Workers \ {c} : consumer'[d] = consumer[d]
  BY DEF GenTypes
<1> HIDE DEF n
<1>4. GenTypes'
  BY <1>2 DEF GenTypes, Consuming
<1>5. Items'
  BY <1>1, <1>2, <1>3 DEF Items
<1>6. InOnePlace(Shelf, drawn)'
  <2>1. c \in Int
    BY WorkerFacts
  <2>2. InTaken[c] = ToSet(taken[c]) /\ InTaken'[c] = {} /\ \A i \in Int \ {c} : InTaken'[i] = InTaken[i]
    BY <1>3, <2>1 DEF InTaken
  <2>3. /\ InUploaded[n] = {} /\ InUploaded'[n] = ToSet(taken[c])
        /\ \A i \in Int \ {n} : InUploaded'[i] = InUploaded[i]
    BY <1>2 DEF InUploaded
  <2>4. InGroup' = InGroup /\ InMade' = InMade /\ InQueue' = InQueue
    BY DEF InGroup, InMade, InQueue
  <2>5. Shelf'[k] = Shelf[m] /\ Shelf'[m] = Shelf[k]
    BY <1>2, <2>1, <2>2, <2>3, ShelfAt
  <2>6. k \in Places /\ m \in Places
    BY <1>2, <2>1 DEF Places
  <2>7. \A l \in Places \ {k, m} : Shelf'[l] = Shelf[l]
    <3>1. Touched({k, m})
      BY <2>2, <2>3, <2>4 DEF Touched
    <3> QED
      BY <3>1, Elsewhere
  <2>8. drawn \in Nat /\ drawn' = drawn /\ InOnePlace(Shelf, drawn)
    BY DEF GenTypes
  <2> HIDE DEF k, m
  <2> QED
    BY <2>5, <2>6, <2>7, <2>8, Swapped
<1>7. Turns'
  BY DEF Turns
<1>8. OneSentinel'
  BY <1>3 DEF OneSentinel
<1> QED
  BY <1>4, <1>5, <1>6, <1>7, <1>8

LEMMA ReputStep ==
  ASSUME Gen!ConstantsAssumption, GenInv, NEW c \in Gen!Workers, Gen!Reput(c)
  PROVE  GenInv'
<1> USE DEF GenInv, Gen!Reput
<1>1. consumer'[c] = "ended" /\ \A d \in Gen!Workers \ {c} : consumer'[d] = consumer[d]
  BY DEF GenTypes
<1>2. producer[0] = "ended" /\ queue = <<>> /\ \A d \in Gen!Workers \ {c} : consumer[d] # "reput"
  BY DEF OneSentinel
<1>3. Gen!Sentinel \in Seq(Nat) /\ ToSet(Gen!Sentinel) = {0}
  <2>1. DOMAIN <<0>> = {1} /\ <<0>>[1] = 0 /\ <<0>> \in Seq(Nat)
    OBVIOUS
  <2> QED
    BY <2>1 DEF Gen!Sentinel, ToSet
<1>4. /\ queue' \in Seq(Seq(Nat)) /\ Len(queue') = 1 /\ queue'[1] = Gen!Sentinel /\ 1..1 = {1}
      /\ Len(queue) = 0 /\ 1..Len(queue) = {} /\ queue' # <<>>
  BY <1>2, <1>3
<1>5. GenTypes'
  BY <1>4 DEF GenTypes, Consuming
<1>6. Items'
  BY <1>1, <1>4 DEF Items
<1>7. InOnePlace(Shelf, drawn)'
  <2>1. InTaken' = InTaken
    BY <1>1 DEF InTaken
  <2>2. InQueue' = InQueue
    BY <1>3, <1>4 DEF InQueue
  <2> QED
    BY <2>1, <2>2 DEF Shelf, InGroup, InMade, InUploaded
<1>8. Turns'
  BY DEF Turns
<1>9. OneSentinel'
  BY <1>1, <1>2, <1>4 DEF OneSentinel
<1> QED
  BY <1>5, <1>6, <1>7, <1>8, <1>9

LEMMA GetStep ==
  ASSUME Gen!ConstantsAssumption, GenInv, NEW c \in Gen!Workers, Gen!Get(c)
  PROVE  GenInv'
<1> USE DEF GenInv, Gen!Get
<1> DEFINE item == Head(queue)
           n == Len(queue)
<1>1. queue \in Seq(Seq(Nat)) /\ queue # <<>> /\ queue' = Tail(queue)
  BY DEF GenTypes
<1>2. /\ n \in Nat /\ 1 \in 1..n /\ item = queue[1] /\ item \in Seq(Nat)
      /\ queue' \in Seq(Seq(Nat)) /\ Len(queue') = n - 1
      /\ \A i \in 1..(n - 1) : queue'[i] = queue[i + 1] /\ i + 1 \in 1..n
      /\ (queue' = <<>> <=> n = 1)
  <2>1. /\ n \in Nat /\ n # 0 /\ item = queue[1] /\ item \in Seq(Nat)
        /\ queue' \in Seq(Seq(Nat)) /\ Len(queue') = n - 1
    BY <1>1
  <2>2. \A i \in 1..(n - 1) : queue'[i] = queue[i + 1]
    BY <1>1
  <2>3. queue' = <<>> <=> Len(queue') = 0
    <3> DEFINE q == queue'
    <3>1. q \in Seq(Seq(Nat))
      BY <2>1
    <3> HIDE DEF q
    <3>2. q = <<>> <=> Len(q) = 0
      BY <3>1
    <3> QED
      BY <3>2 DEF q
  <2> HIDE DEF n, item
  <2>4. 1 \in 1..n /\ \A i \in 1..(n - 1) : i + 1 \in 1..n
    BY <2>1
  <2> QED
    BY <2>1, <2>2, <2>3, <2>4 DEF n
<1>3. /\ consumer' = [consumer EXCEPT ![c] = IF item = Gen!Sentinel THEN "reput" ELSE "upload"]
      /\ taken' = [taken EXCEPT ![c] = item] /\ taken'[c] = item
      /\ consumer[c] = "get"
      /\ consumer'[c] = IF item = Gen!Sentinel THEN "reput" ELSE "upload"
      /\ \A d \in Gen!Workers \ {c} : consumer'[d] = consumer[d] /\ taken'[d] = taken[d]
  BY DEF GenTypes
<1> HIDE DEF item, n
<1>4. GenTypes'
  BY <1>2, <1>3 DEF GenTypes, Consuming
<1>5. Items'
  <2>1. \A i \in 1..n : queue[i] = Gen!Sentinel \/ IsItem(sizes, shardSize, queue[i])
    BY DEF Items, n
  <2>2. \A i \in 1..Len(queue') : queue'[i] = Gen!Sentinel \/ IsItem(sizes, shardSize, queue'[i])
    BY <1>2, <2>1
  <2>3. \A d \in Gen!Workers : consumer'[d] = "upload" => IsItem(sizes, shardSize, taken'[d])
    BY <1>2, <1>3, <2>1 DEF Items
  <2> QED
    BY <2>2, <2>3 DEF Items
<1>6. InOnePlace(Shelf, drawn)'
  <2> DEFINE h == [l \in Places |->
                     IF l = <<"taken", c>> THEN <<"queue", 1>>
                     ELSE IF l = <<"queue", 0>> THEN <<"taken", c>>
                     ELSE IF l[1] = "queue" /\ l[2] > 0 THEN <<"queue", l[2] + 1>> ELSE l]
             b == [l \in Places |->
                     IF l = <<"queue", 1>> THEN <<"taken", c>>
                     ELSE IF l = <<"taken", c>> THEN <<"queue", 0>>
                     ELSE IF l[1] = "queue" /\ l[2] > 1 THEN <<"queue", l[2] - 1>> ELSE l]
  <2>1. c \in Int
    BY WorkerFacts
  <2>2. h \in [Places -> Places] /\ b \in [Places -> Places]
    BY <2>1 DEF Places
  <2>3. /\ h[<<"taken", c>>] = <<"queue", 1>> /\ b[<<"queue", 1>>] = <<"taken", c>>
        /\ h[<<"queue", 0>>] = <<"taken", c>> /\ b[<<"taken", c>>] = <<"queue", 0>>
    <3>1. 0 \in Int /\ 1 \in Int
      OBVIOUS
    <3>2. <<"taken", c>> \in Places /\ <<"queue", 1>> \in Places /\ <<"queue", 0>> \in Places
      BY <2>1, <3>1, PlaceFacts
    <3>3. <<"taken", c>> # <<"queue", 0>> /\ <<"taken", c>> # <<"queue", 1>>
      OBVIOUS
    <3> QED
      BY <3>2, <3>3
  <2>4. ASSUME NEW i \in Int, NEW k \in {"group", "made", "uploaded"}
        PROVE  h[<<k, i>>] = <<k, i>> /\ b[<<k, i>>] = <<k, i>>
    BY DEF Places
  <2>5. ASSUME NEW i \in Int, i # c
        PROVE  h[<<"taken", i>>] = <<"taken", i>> /\ b[<<"taken", i>>] = <<"taken", i>>
    BY <2>5 DEF Places
  <2>6. ASSUME NEW i \in Int
        PROVE  /\ i > 0 => h[<<"queue", i>>] = <<"queue", i + 1>>
               /\ i < 0 => h[<<"queue", i>>] = <<"queue", i>> /\ b[<<"queue", i>>] = <<"queue", i>>
               /\ i > 1 => b[<<"queue", i>>] = <<"queue", i - 1>>
    BY DEF Places
  <2> HIDE DEF h, b
  <2>7. \A l \in Places : b[h[l]] = l
    <3> SUFFICES ASSUME NEW l \in Places PROVE b[h[l]] = l
      OBVIOUS
    <3>1. PICK i \in Int : l \in {<<"group", i>>, <<"made", i>>, <<"queue", i>>, <<"taken", i>>,
                                  <<"uploaded", i>>}
      BY PlaceFacts
    <3>2. CASE l \in {<<"group", i>>, <<"made", i>>, <<"uploaded", i>>}
      BY <2>4, <3>2
    <3>3. CASE l = <<"taken", i>>
      BY <2>3, <2>5, <3>3
    <3>4. CASE l = <<"queue", i>> /\ i > 0
      <4>1. i + 1 \in Int /\ i + 1 > 1 /\ (i + 1) - 1 = i
        BY <3>4
      <4>2. h[l] = <<"queue", i + 1>> /\ b[<<"queue", i + 1>>] = <<"queue", (i + 1) - 1>>
        BY <2>6, <3>4, <4>1
      <4> QED
        BY <3>4, <4>1, <4>2
    <3>5. CASE l = <<"queue", i>> /\ i = 0
      BY <2>3, <3>5
    <3>6. CASE l = <<"queue", i>> /\ i < 0
      BY <2>6, <3>6
    <3> QED
      BY <3>1, <3>2, <3>3, <3>4, <3>5, <3>6
  <2>8. \A l \in Places : l = <<"queue", 0>> \/ h[b[l]] = l
    <3> SUFFICES ASSUME NEW l \in Places PROVE l = <<"queue", 0>> \/ h[b[l]] = l
      OBVIOUS
    <3>1. PICK i \in Int : l \in {<<"group", i>>, <<"made", i>>, <<"queue", i>>, <<"taken", i>>,
                                  <<"uploaded", i>>}
      BY PlaceFacts
    <3>2. CASE l \in {<<"group", i>>, <<"made", i>>, <<"uploaded", i>>}
      BY <2>4, <3>2
    <3>3. CASE l = <<"taken", i>>
      BY <2>3, <2>5, <3>3
    <3>4. CASE l = <<"queue", i>> /\ i > 1
      <4>1. i - 1 \in Int /\ i - 1 > 0 /\ (i - 1) + 1 = i
        BY <3>4
      <4>2. b[l] = <<"queue", i - 1>> /\ h[<<"queue", i - 1>>] = <<"queue", (i - 1) + 1>>
        BY <2>6, <3>4, <4>1
      <4> QED
        BY <3>4, <4>1, <4>2
    <3>5. CASE l = <<"queue", i>> /\ i = 1
      BY <2>3, <3>5
    <3>6. CASE l = <<"queue", i>> /\ i < 0
      BY <2>6, <3>6
    <3> QED
      BY <3>1, <3>2, <3>3, <3>4, <3>5, <3>6
  <2>9. /\ InGroup' = InGroup /\ InMade' = InMade /\ InUploaded' = InUploaded
        /\ \A i \in Int \ {c} : InTaken'[i] = InTaken[i]
    BY <1>3 DEF InGroup, InMade, InUploaded, InTaken
  <2>10. InTaken[c] = {} /\ InQueue[0] = {} /\ InQueue'[0] = {}
    <3>1. 0 \notin 1..n /\ 0 \notin 1..(n - 1)
      BY <1>2
    <3> QED
      BY <1>2, <1>3, <2>1, <3>1 DEF InTaken, InQueue, n
  <2>11. InTaken'[c] = InQueue[1]
    <3>1. InQueue[1] = ToSet(item) \ {0}
      BY <1>2 DEF InQueue, n
    <3>2. item = Gen!Sentinel => ToSet(item) = {0} /\ InTaken'[c] = {}
      <4>1. DOMAIN <<0>> = {1} /\ <<0>>[1] = 0
        OBVIOUS
      <4> QED
        BY <1>3, <2>1, <4>1 DEF Gen!Sentinel, ToSet, InTaken
    <3>3. item # Gen!Sentinel => 0 \notin ToSet(item) /\ InTaken'[c] = ToSet(item)
      <4>1. ASSUME item # Gen!Sentinel PROVE 0 \notin ToSet(item)
        <5>1. IsItem(sizes, shardSize, item) /\ sizes \in Seq(Nat \ {0}) /\ shardSize \in Nat
          BY <1>2, <4>1 DEF Items, GenTypes, n
        <5> QED
          BY <5>1, ItemFacts
      <4> QED
        BY <1>3, <2>1, <4>1 DEF InTaken
    <3> QED
      BY <3>1, <3>2, <3>3
  <2>12. \A i \in Int : i > 0 => InQueue'[i] = InQueue[i + 1]
    <3> SUFFICES ASSUME NEW i \in Int, i > 0 PROVE InQueue'[i] = InQueue[i + 1]
      OBVIOUS
    <3>1. i + 1 \in Int /\ (i \in 1..(n - 1) <=> i + 1 \in 1..n)
      BY <1>2
    <3>2. InQueue'[i] = IF i \in 1..(n - 1) THEN ToSet(queue'[i]) \ {0} ELSE {}
      BY <1>2 DEF InQueue
    <3>3. InQueue[i + 1] = IF i + 1 \in 1..n THEN ToSet(queue[i + 1]) \ {0} ELSE {}
      BY <3>1 DEF InQueue, n
    <3> QED
      BY <1>2, <3>1, <3>2, <3>3
  <2>13. \A i \in Int : i < 0 => InQueue'[i] = InQueue[i]
    BY <1>2 DEF InQueue, n
  <2>14. \A l \in Places : Shelf'[l] = Shelf[h[l]]
    <3> SUFFICES ASSUME NEW l \in Places PROVE Shelf'[l] = Shelf[h[l]]
      OBVIOUS
    <3> HIDE DEF GenInv, Gen!Get
    <3>1. PICK i \in Int : l \in {<<"group", i>>, <<"made", i>>, <<"queue", i>>, <<"taken", i>>,
                                  <<"uploaded", i>>}
      BY PlaceFacts
    <3>2. CASE l \in {<<"group", i>>, <<"made", i>>, <<"uploaded", i>>}
      <4>1. h[l] = l
        BY <2>4, <3>2
      <4>2. Shelf'[l] = Shelf[l]
        <5>1. CASE l = <<"group", i>>
          BY <2>9, <5>1, ShelfAt
        <5>2. CASE l = <<"made", i>>
          BY <2>9, <5>2, ShelfAt
        <5>3. CASE l = <<"uploaded", i>>
          BY <2>9, <5>3, ShelfAt
        <5> QED
          BY <3>2, <5>1, <5>2, <5>3
      <4> QED
        BY <4>1, <4>2
    <3>3. CASE l = <<"taken", i>> /\ i = c
      <4>1. h[l] = <<"queue", 1>> /\ Shelf'[l] = InTaken'[c]
        BY <2>3, <3>3, ShelfAt
      <4>2. Shelf[<<"queue", 1>>] = InQueue[1]
        <5>1. 1 \in Int
          OBVIOUS
        <5> QED
          BY <5>1, ShelfAt
      <4> QED
        BY <2>11, <4>1, <4>2
    <3>4. CASE l = <<"taken", i>> /\ i # c
      <4>1. h[l] = l
        BY <2>5, <3>4
      <4>2. Shelf'[l] = InTaken'[i] /\ Shelf[l] = InTaken[i]
        BY <3>4, ShelfAt
      <4> QED
        BY <2>9, <3>4, <4>1, <4>2
    <3>5. CASE l = <<"queue", i>> /\ i = 0
      <4>1. h[l] = <<"taken", c>> /\ Shelf'[l] = InQueue'[0]
        BY <2>3, <3>5, ShelfAt
      <4>2. Shelf[<<"taken", c>>] = InTaken[c]
        BY <2>1, ShelfAt
      <4> QED
        BY <2>10, <4>1, <4>2
    <3>6. CASE l = <<"queue", i>> /\ i > 0
      <4>1. i + 1 \in Int
        OBVIOUS
      <4>2. h[l] = <<"queue", i + 1>> /\ Shelf'[l] = InQueue'[i]
        BY <2>6, <3>6, ShelfAt
      <4>3. Shelf[<<"queue", i + 1>>] = InQueue[i + 1]
        BY <4>1, ShelfAt
      <4> QED
        BY <2>12, <3>6, <4>2, <4>3
    <3>7. CASE l = <<"queue", i>> /\ i < 0
      <4>1. h[l] = l /\ Shelf'[l] = InQueue'[i] /\ Shelf[l] = InQueue[i]
        BY <2>6, <3>7, ShelfAt
      <4> QED
        BY <2>13, <3>7, <4>1
    <3> QED
      BY <3>1, <3>2, <3>3, <3>4, <3>5, <3>6, <3>7
  <2>15. \A l \in Places : Shelf[l] # {} => h[b[l]] = l
    <3>1. Shelf[<<"queue", 0>>] = {}
      <4>1. 0 \in Int
        OBVIOUS
      <4> QED
        BY <2>10, <4>1, ShelfAt
    <3> QED
      BY <2>8, <3>1
  <2>16. drawn \in Nat /\ drawn' = drawn /\ InOnePlace(Shelf, drawn)
    BY DEF GenTypes
  <2> HIDE DEF GenInv, Gen!Get
  <2>17. InOnePlace(Shelf', drawn)
    BY <2>2, <2>7, <2>14, <2>15, <2>16, Moved
  <2> QED
    BY <2>16, <2>17
<1>7. Turns'
  BY DEF Turns
<1>8. OneSentinel'
  <2>1. CASE producer[0] # "ended"
    <3>1. item # Gen!Sentinel
      BY <1>2, <2>1 DEF OneSentinel, n
    <3>2. \A i \in 1..Len(queue') : queue'[i] # Gen!Sentinel
      BY <1>2, <2>1 DEF OneSentinel, n
    <3> QED
      BY <1>3, <2>1, <3>1, <3>2 DEF OneSentinel
  <2>2. CASE producer[0] = "ended"
    <3>1. /\ \A i \in 1..n : queue[i] = Gen!Sentinel <=> i = n
          /\ \A d \in Gen!Workers : consumer[d] # "reput"
          /\ \A d \in Gen!Workers : consumer[d] = "ended" => n <= 1
      BY <1>1, <2>2 DEF OneSentinel, n
    <3>2. \A i \in 1..Len(queue') : queue'[i] = Gen!Sentinel <=> i = Len(queue')
      <4> SUFFICES ASSUME NEW i \in 1..Len(queue')
                   PROVE  queue'[i] = Gen!Sentinel <=> i = Len(queue')
        OBVIOUS
      <4>1. i \in 1..(n - 1) /\ i + 1 \in 1..n /\ queue'[i] = queue[i + 1] /\ Len(queue') = n - 1
        BY <1>2
      <4>2. i + 1 = n <=> i = n - 1
        BY <1>2, <4>1
      <4> QED
        BY <3>1, <4>1, <4>2
    <3>3. item = Gen!Sentinel <=> n = 1
      BY <1>2, <3>1
    <3>4. queue' = <<>> <=> consumer'[c] = "reput"
      BY <1>2, <1>3, <3>3
    <3>5. \A d \in Gen!Workers : consumer'[d] = "ended" => Len(queue') <= 1
      BY <1>2, <1>3, <3>1
    <3>6. \A d \in Gen!Workers : consumer'[d] = "reput" => d = c
      BY <1>3, <3>1
    <3> QED
      BY <2>2, <3>2, <3>4, <3>5, <3>6 DEF OneSentinel
  <2> QED
    BY <2>1, <2>2
<1> QED
  BY <1>4, <1>5, <1>6, <1>7, <1>8

-----------------------------------------------------------------------------

LEMMA GenInit ==
  ASSUME Gen!ConstantsAssumption, Gen!Init
  PROVE  GenInv
<1> USE DEF Gen!Init
<1>1. /\ sizes \in Seq(Nat \ {0}) /\ shardSize \in Nat /\ drawn = 0 /\ group = <<>>
      /\ queue = <<>> /\ uploaded = <<>> /\ Len(sizes) \in Nat
      /\ 1..Len(queue) = {} /\ 1..Len(uploaded) = {}
  BY DEF Gen!ConstantsAssumption
<1>2. GenTypes
  <2>1. <<>> \in Seq(Nat) /\ <<>> \in Seq(Seq(Nat))
    OBVIOUS
  <2>2. 0 \in 0..Len(sizes)
    BY <1>1
  <2> QED
    BY <1>1, <2>1, <2>2 DEF GenTypes, Producing, Consuming
<1>3. IsItem(sizes, shardSize, <<>>) /\ ToSet(<<>>) = {}
  BY <1>1, ItemFacts
<1>4. Items
  BY <1>1, <1>3 DEF Items
<1>5. InOnePlace(Shelf, drawn)
  <2>1. \A i \in Int : /\ InGroup[i] = {} /\ InMade[i] = {} /\ InQueue[i] = {} /\ InTaken[i] = {}
                       /\ InUploaded[i] = {}
    BY <1>1, <1>3 DEF InGroup, InMade, InQueue, InTaken, InUploaded
  <2>2. ASSUME NEW l \in Places PROVE Shelf[l] = {}
    BY <2>1 DEF Shelf, Places
  <2>3. 1..drawn = {}
    BY <1>1
  <2> QED
    BY <2>2, <2>3 DEF InOnePlace
<1>6. Turns
  BY DEF Turns, Done
<1>7. OneSentinel
  BY <1>1, WorkerFacts DEF OneSentinel
<1> QED
  BY <1>2, <1>4, <1>5, <1>6, <1>7 DEF GenInv

(* A step that raises ends what is claimed; the others keep it.            *)
LEMMA GenNext ==
  ASSUME Gen!ConstantsAssumption, raised = {} => GenInv, [Gen!Next]_Gen!vars, raised' = {}
  PROVE  GenInv'
<1>1. CASE UNCHANGED Gen!vars
  <2>1. /\ sizes' = sizes /\ shardSize' = shardSize /\ drawn' = drawn /\ group' = group
        /\ over' = over /\ holder' = holder /\ producer' = producer /\ made' = made
        /\ consumer' = consumer /\ taken' = taken /\ queue' = queue
        /\ uploaded' = uploaded /\ raised' = raised
    BY <1>1 DEF Gen!vars
  <2>2. Shelf' = Shelf
    <3>1. /\ InGroup' = InGroup /\ InMade' = InMade /\ InQueue' = InQueue
          /\ InTaken' = InTaken /\ InUploaded' = InUploaded
      BY <2>1 DEF InGroup, InMade, InQueue, InTaken, InUploaded
    <3> QED
      BY <3>1 DEF Shelf
  <2>3. GenTypes' /\ Items' /\ Turns' /\ OneSentinel'
    BY <2>1 DEF GenInv, GenTypes, Items, Turns, OneSentinel
  <2> QED
    BY <2>1, <2>2, <2>3 DEF GenInv
<1>2. ASSUME NEW p \in Gen!Workers, Gen!Produce(p)
      PROVE  GenInv'
  <2>1. raised' = raised
    BY <1>2 DEF Gen!Produce, Gen!Enter, Gen!Draw, Gen!DrawLast, Gen!StopIteration, Gen!Put,
                Gen!Signal
  <2> QED
    BY <1>2, <2>1, EnterStep, DrawStep, DrawLastStep, StopIterationStep, PutStep, SignalStep
       DEF Gen!Produce
<1>3. ASSUME NEW p \in Gen!Workers, Gen!DrawRaises(p) PROVE FALSE
  BY <1>3 DEF Gen!DrawRaises
<1>4. ASSUME Gen!Barrier PROVE GenInv'
  <2>1. raised' = raised
    BY <1>4 DEF Gen!Barrier
  <2> QED
    BY <1>4, <2>1, BarrierStep
<1>5. ASSUME NEW c \in Gen!Workers, Gen!Consume(c)
      PROVE  GenInv'
  <2>1. raised' = raised
    BY <1>5 DEF Gen!Consume, Gen!Get, Gen!Upload, Gen!Reput
  <2> QED
    BY <1>5, <2>1, GetStep, UploadStep, ReputStep DEF Gen!Consume
<1>6. ASSUME NEW c \in Gen!Workers, Gen!UploadRaises(c) PROVE FALSE
  BY <1>6 DEF Gen!UploadRaises
<1> QED
  BY <1>1, <1>2, <1>3, <1>4, <1>5, <1>6 DEF Gen!Next

(* When all threads have ended, the items in S3 are the only place left.   *)
LEMMA GenGoal ==
  ASSUME Gen!ConstantsAssumption, GenInv, Gen!Joined
  PROVE  /\ Cardinality(ToSet(FlattenSeq(uploaded))) = Len(sizes)
         /\ Len(FlattenSeq(uploaded)) = Len(sizes)
         /\ shardSize # 0 => \A i \in DOMAIN uploaded :
              Total(sizes, uploaded[i]) <= shardSize \/ Len(uploaded[i]) = 1
         /\ queue = <<Gen!Sentinel>>
<1> USE DEF GenInv
<1>1. \A w \in Gen!Workers : producer[w] = "ended" /\ consumer[w] = "ended"
  BY DEF GenTypes, Gen!Joined, Gen!States, Producing, Consuming
<1>2. 0 \in Gen!Workers /\ over /\ drawn = Len(sizes) /\ group = <<>>
  BY <1>1, WorkerFacts DEF Turns
<1>3. queue \in Seq(Seq(Nat)) /\ uploaded \in Seq(Seq(Nat)) /\ Len(sizes) \in Nat
  BY DEF GenTypes
<1>4. queue = <<Gen!Sentinel>>
  <2>1. /\ \A i \in 1..Len(queue) : queue[i] = Gen!Sentinel <=> i = Len(queue)
        /\ queue # <<>> /\ Len(queue) <= 1
    BY <1>1, <1>2 DEF OneSentinel
  <2>2. Len(queue) = 1 /\ 1 \in 1..Len(queue)
    <3>1. Len(queue) \in Nat /\ Len(queue) # 0
      BY <1>3, <2>1
    <3>2. Len(queue) <= 1
      BY <2>1
    <3>3. \A n \in Nat : n # 0 /\ n <= 1 => n = 1
      OBVIOUS
    <3>4. Len(queue) = 1
      BY <3>1, <3>2, <3>3, Zenon
    <3> QED
      BY <3>4
  <2>3. queue[1] = Gen!Sentinel
    BY <2>1, <2>2
  <2> QED
    BY <1>3, <2>2, <2>3
<1>5. \A i \in 1..Len(uploaded) : IsItem(sizes, shardSize, uploaded[i])
  BY DEF Items
<1>6. /\ ToSet(<<>>) = {} /\ ToSet(<<Gen!Sentinel>>[1]) = {0}
  <2>1. ToSet(<<>>) = {}
    BY DEF ToSet
  <2>2. DOMAIN <<0>> = {1} /\ <<0>>[1] = 0
    OBVIOUS
  <2> QED
    BY <2>1, <2>2 DEF Gen!Sentinel, ToSet
<1>7. ASSUME NEW i \in Int
      PROVE  InGroup[i] = {} /\ InMade[i] = {} /\ InQueue[i] = {} /\ InTaken[i] = {}
  <2>1. InQueue[i] = {}
    <3>1. Len(queue) = 1 /\ 1..1 = {1}
      BY <1>4
    <3> QED
      BY <1>4, <1>6, <3>1 DEF InQueue
  <2> QED
    BY <1>1, <1>2, <1>6, <2>1 DEF InGroup, InMade, InTaken
<1>8. \A i \in 1..Len(uploaded) : Shelf[<<"uploaded", i>>] = ToSet(uploaded[i])
  <2>1. \A i \in 1..Len(uploaded) : i \in Int /\ InUploaded[i] = ToSet(uploaded[i])
    BY DEF InUploaded
  <2> QED
    BY <2>1, ShelfAt
<1>9. ASSUME NEW x \in 1..Len(sizes) PROVE \E i \in 1..Len(uploaded) : x \in ToSet(uploaded[i])
  <2>1. PICK l \in Places : x \in Shelf[l]
    BY <1>2 DEF InOnePlace
  <2>2. PICK i \in Int : l \in {<<"group", i>>, <<"made", i>>, <<"queue", i>>, <<"taken", i>>,
                               <<"uploaded", i>>}
    BY PlaceFacts
  <2>3. l = <<"uploaded", i>>
    <3>1. /\ Shelf[<<"group", i>>] = {} /\ Shelf[<<"made", i>>] = {}
          /\ Shelf[<<"queue", i>>] = {} /\ Shelf[<<"taken", i>>] = {}
      BY <1>7, ShelfAt
    <3> QED
      BY <2>1, <2>2, <3>1
  <2>4. x \in InUploaded[i]
    BY <2>1, <2>3, ShelfAt
  <2> QED
    BY <2>4 DEF InUploaded
<1>10. ASSUME NEW i \in 1..Len(uploaded) PROVE ToSet(uploaded[i]) \subseteq 1..Len(sizes)
  <2>1. <<"uploaded", i>> \in Places
    BY DEF Places
  <2> QED
    BY <1>2, <1>8, <2>1 DEF InOnePlace
<1>11. ASSUME NEW i \in 1..Len(uploaded), NEW j \in 1..Len(uploaded),
              NEW x \in ToSet(uploaded[i]), x \in ToSet(uploaded[j])
       PROVE  i = j
  <2>1. <<"uploaded", i>> \in Places /\ <<"uploaded", j>> \in Places
    BY DEF Places
  <2>2. x \in 1..drawn
    BY <1>2, <1>10
  <2>3. PICK m \in Places : \A l \in Places : x \in Shelf[l] <=> l = m
    BY <2>2 DEF InOnePlace
  <2>4. <<"uploaded", i>> = m /\ <<"uploaded", j>> = m
    BY <1>8, <1>11, <2>1, <2>3
  <2> QED
    BY <2>4
<1> DEFINE flat == FlattenSeq(uploaded)
<1>12. /\ flat \in Seq(Nat) /\ Distinct(flat)
       /\ ToSet(flat) = UNION {ToSet(uploaded[i]) : i \in 1..Len(uploaded)}
  <2>1. \A i \in 1..Len(uploaded) : Distinct(uploaded[i])
    BY <1>5 DEF IsItem
  <2>2. \A i, j \in 1..Len(uploaded) :
          \A x \in ToSet(uploaded[i]) : x \in ToSet(uploaded[j]) => i = j
    BY <1>11
  <2> QED
    BY <1>3, <2>1, <2>2, FlattenFacts
<1>13. ToSet(flat) = 1..Len(sizes)
  BY <1>9, <1>10, <1>12
<1> HIDE DEF flat
<1>14. Cardinality(ToSet(flat)) = Len(flat)
  BY <1>12, DistinctCount
<1>15. Cardinality(ToSet(flat)) = Len(sizes)
  <2>1. 1 \in Int /\ Len(sizes) \in Int
    BY <1>3
  <2>2. Cardinality(1..Len(sizes)) = IF 1 > Len(sizes) THEN 0 ELSE Len(sizes) - 1 + 1
    BY <2>1, FS_Interval
  <2> QED
    BY <1>3, <1>13, <2>2
<1>16. \A i \in DOMAIN uploaded : i \in 1..Len(uploaded)
  BY <1>3
<1>17. shardSize # 0 => \A i \in DOMAIN uploaded :
         Total(sizes, uploaded[i]) <= shardSize \/ Len(uploaded[i]) = 1
  BY <1>5, <1>16 DEF IsItem
<1> QED
  BY <1>4, <1>14, <1>15, <1>17 DEF flat

(* Every sample is uploaded once: whatever the order in which the threads  *)
(* of datagen.py draw, put, get and upload, for any number of them and of  *)
(* samples and any size of a shard, a run without exceptions ends with     *)
(* each sample in exactly one object, in shards of the size asked for, and *)
(* with the sentinel alone in the queue.                                   *)
THEOREM GeneratedOnce == GenSpec => []AllIsUploaded
<1> DEFINE I == raised = {} => GenInv
<1>1. Gen!Init => I
  BY GenAssumption, GenInit
<1>2. I /\ [Gen!Next]_Gen!vars => I'
  BY GenAssumption, GenNext
<1>3. I => AllIsUploaded
  <2> SUFFICES ASSUME I, Gen!Joined, raised = {}
               PROVE  AllIsUploaded
    BY DEF AllIsUploaded, Gen!AllIsUploaded
  <2>1. \A S : Gen!Cardinality(S) = Cardinality(S)
    BY DEF Gen!Cardinality, Cardinality
  <2> QED
    BY <2>1, GenAssumption, GenGoal, SameOperators DEF AllIsUploaded, Gen!AllIsUploaded
<1> QED
  BY <1>1, <1>2, <1>3, PTL DEF GenSpec, Gen!Spec
==============================================================================
