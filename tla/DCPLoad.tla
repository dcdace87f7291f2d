------------------------------- MODULE DCPLoad -------------------------------
(***************************************************************************)
(* Distributed checkpoints loaded through S3StorageReader                  *)
(* (dcp/s3_file_system.py) with the readers of S3ReaderConstructor         *)
(* (s3reader/constructor.py).  The DCP-optimized constructor has state of  *)
(* its own: the byte ranges of the latest plan, which prepare_local_plan   *)
(* injects and the readers of the files take, and a progress bar, started  *)
(* with the ranges and closed by read_data.  Nothing ties it to one load:  *)
(* the storage readers of several loads may be given the same one.         *)
(*                                                                         *)
(* torch's FileSystemReader, external to the repository, calls             *)
(* prepare_local_plan, waits for the plans of the other ranks, and reads   *)
(* the items of the plan file by file.  An item is one tensor of a file;   *)
(* the reader of a file, DCPOptimizedReader, is here a cursor over its     *)
(* ranges and the bytes it has fetched.                                    *)
(***************************************************************************)
EXTENDS DCPRanges

CONSTANTS
  Loads,         \* the storage readers
  Constructors,  \* the reader constructors
  Uses,          \* which storage reader may be given which constructor
  Plans,         \* the plans: sequences of items, as torch's planner has them
  Gap,           \* max_gap_size
  MaxLoads,      \* bound on the loads, one after the other or at once
  MaxFaults      \* bound on the failures

None == 0

FilesOf(p) == {p[i].file : i \in 1..Len(p)}

LoadAssumption ==
  /\ Uses \subseteq [Loads -> Constructors] /\ None \notin Loads
  /\ Gap \in Nat /\ MaxLoads \in Nat /\ MaxFaults \in Nat
  /\ \A p \in Plans :
       /\ p \in Seq([file : FilesOf(p) \ {None}, start : Nat, end : Nat])
       /\ \A i \in 1..Len(p) : p[i].start < p[i].end

VARIABLES
  uses,     \* per load: _reader_constructor
  con,      \* per constructor: its fields; history: whose plan it has, and
            \* all the bars it made
  load,     \* per load: where it is, its plan, the files left, its reader
  begun,    \* the loads begun
  faults    \* the failures so far

vars == <<uses, con, load, begun, faults>>

NoReader == [file |-> None, ranges |-> <<>>, reports |-> FALSE, item |-> 0,
             at |-> 0, fetched |-> 0]

(* DCPOptimizedConstructor.__init__; the other constructors have no state. *)
NewConstructors ==
  [dcp : BOOLEAN, progress : BOOLEAN, ranges : {<<>>}, by : {None}, bars : {<<>>},
   bar : {None}]

(* The __init__ of S3StorageReader turns the progress on for DCP           *)
(* constructors only, and so for everyone who has the constructor.         *)
Accepting(c) == c.progress => c.dcp

(* One of sequential, range_based and dcp_optimized for every load.        *)
Init ==
  /\ uses \in Uses
  /\ con \in [Constructors -> NewConstructors]
  /\ \A c \in Constructors :
       /\ Accepting(con[c])
       /\ con[c].dcp => \E l \in Loads : uses[l] = c
  /\ load = [l \in Loads |-> [pc |-> "idle", plan |-> <<>>, left |-> {},
                              reader |-> NoReader]]
  /\ begun = 0 /\ faults = 0

Own(l) == con[uses[l]]
Shared(l) == \E k \in Loads \ {l} : uses[k] = uses[l]

RangesOf(p, f) ==
  Subsequence([i \in 1..Len(p) |-> Span(p[i].start, p[i].end)],
              {i \in 1..Len(p) : p[i].file = f})

SetLoad(l, new) == load' = [load EXCEPT ![l] = new]
SetCon(l, new) == con' = [con EXCEPT ![uses[l]] = new]

MayFail == faults < MaxFaults /\ faults' = faults + 1

(* close_progress *)
CloseProgress(c) ==
  IF c.bar = None THEN c
  ELSE [c EXCEPT !.bars[c.bar].open = FALSE, !.bar = None]

(* _start_progress: one bar for the streams of all files of the plan.      *)
StartProgress(c) ==
  LET total == SumFunction([f \in DOMAIN c.ranges |-> StreamTotal(c.ranges[f], Gap)])
  IN  IF ~c.progress \/ total = 0 THEN c
      ELSE [c EXCEPT !.bars = Append(@, [total |-> total, done |-> 0, open |-> TRUE]),
                     !.bar = Len(c.bars) + 1]

(* set_item_ranges_by_file: whatever was there is replaced.                *)
SetItemRanges(c, l, plan) ==
  [CloseProgress(c) EXCEPT
     !.ranges = [f \in FilesOf(plan) |-> RangesOf(plan, f)], !.by = l]

(* Faulty variant: the items stay in the planner's order.                  *)
SortedAsPlanned(plan) == plan

(* plan.items.sort by offset, over all files; the sort is stable.          *)
Sorted(plan) ==
  LET Before(i, j) == \/ plan[i].start < plan[j].start
                      \/ plan[i].start = plan[j].start /\ i < j
      at == CHOOSE at \in [1..Len(plan) -> 1..Len(plan)] :
              \A j, k \in 1..Len(plan) : j < k => Before(at[j], at[k])
  IN  [k \in 1..Len(plan) |-> plan[at[k]]]

-----------------------------------------------------------------------------
(* prepare_local_plan.  The bar comes last; its factory may raise.         *)
Planned(l, plan, pc) ==
  /\ load[l].pc \notin {"planned", "reading"}
  /\ begun < MaxLoads /\ begun' = begun + 1
  /\ SetLoad(l, [load[l] EXCEPT !.pc = pc, !.plan = Sorted(plan), !.left = FilesOf(plan)])

Plan(l, plan) ==
  /\ Planned(l, plan, "planned")
  /\ IF Own(l).dcp THEN SetCon(l, StartProgress(SetItemRanges(Own(l), l, Sorted(plan))))
     ELSE con' = con
  /\ UNCHANGED <<uses, faults>>

PlanFails(l, plan) ==
  /\ Planned(l, plan, "aborted") /\ MayFail
  /\ \/ con' = con   \* the sort does not find an item in storage_data
     \/ Own(l).progress /\ plan # <<>> /\ SetCon(l, SetItemRanges(Own(l), l, Sorted(plan)))
  /\ UNCHANGED uses

(* The planning of another rank fails, and with it the load of this one:   *)
(* read_data is not called.                                                *)
OtherRankFails(l) ==
  /\ load[l].pc = "planned" /\ MayFail
  /\ SetLoad(l, [load[l] EXCEPT !.pc = "aborted"])
  /\ UNCHANGED <<uses, con, begun>>

-----------------------------------------------------------------------------
(* Faulty variant: the bar is closed only if nothing raised.               *)
ReadDataEndsInTry(l, pc, c) ==
  /\ SetLoad(l, [load[l] EXCEPT !.pc = pc, !.reader = NoReader])
  /\ SetCon(l, IF c.dcp /\ pc = "loaded" THEN CloseProgress(c) ELSE c)

(* The end of read_data, from which it returns or raises.                  *)
ReadDataEnds(l, pc, c) ==
  /\ SetLoad(l, [load[l] EXCEPT !.pc = pc, !.reader = NoReader])
  /\ SetCon(l, IF c.dcp THEN CloseProgress(c) ELSE c)

Reading(l) == load[l].pc \in {"planned", "reading"}
Between(l) == Reading(l) /\ load[l].reader.file = None

(* create_stream(path, "rb") and get_object: the constructor chooses the   *)
(* reader by the file; the DCP one rejects ranges that overlap.            *)
HasReader(l, f) ==
  Own(l).dcp =>
    f \in DOMAIN Own(l).ranges /\ Accepted(NonEmptyRanges(Own(l).ranges[f]))

OpenFile(l, f) ==
  /\ Between(l) /\ f \in load[l].left /\ HasReader(l, f)
  /\ SetLoad(l, [load[l] EXCEPT
       !.pc = "reading", !.left = @ \ {f},
       !.reader = [NoReader EXCEPT
         !.file = f, !.reports = (Own(l).bar # None),
         !.ranges = IF Own(l).dcp THEN NonEmptyRanges(Own(l).ranges[f])
                    ELSE RangesOf(load[l].plan, f)]])
  /\ UNCHANGED <<uses, con, begun, faults>>

OpenRejected(l, f) ==
  /\ Between(l) /\ f \in load[l].left /\ ~HasReader(l, f)
  /\ ReadDataEnds(l, "rejected", Own(l))
  /\ UNCHANGED <<uses, begun, faults>>

-----------------------------------------------------------------------------
(* The next item of the file, and the range of the reader that has it: the *)
(* current one or the next, and at first only the first.                   *)
Wanted(l) == RangesOf(load[l].plan, load[l].reader.file)[load[l].reader.item + 1]
MoreItems(l) ==
  /\ load[l].pc = "reading" /\ load[l].reader.file # None
  /\ load[l].reader.item < Len(RangesOf(load[l].plan, load[l].reader.file))

Holding(l) ==
  LET r == load[l].reader
  IN  {i \in {r.at, r.at + 1} \cap 1..Len(r.ranges) :
         r.ranges[i].start <= Wanted(l).start /\ Wanted(l).end <= r.ranges[i].end}

(* Where the stream of range i stands before the item is loaded.           *)
StreamAt(r, i) ==
  IF i # r.at /\ FirstOfGroup(r.ranges, Gap, i) THEN r.ranges[i].start ELSE r.fetched

(* Faulty variant: the bar is told of the items, not of the gaps.          *)
FetchedOfItem(r, i, to) == IF i = r.at THEN 0 ELSE Length(r.ranges[i])

(* The chunks fetched for range i, reported to the bar there is now.       *)
Fetched(r, i, to) == to - StreamAt(r, i)

UpdateProgress(l, bytes) ==
  LET c == Own(l)
  IN  IF load[l].reader.reports /\ c.bar # None
      THEN [c EXCEPT !.bars[c.bar].done = @ + bytes] ELSE c

(* How far the chunks of the item go: into the rest of the group perhaps.  *)
(* It matters to the bar only.                                             *)
ChunksEnd(r, i) ==
  IF ~r.reports \/ i = r.at THEN {r.fetched}
  ELSE {to \in StreamAt(r, i)..GroupEnd(r.ranges, Gap, i) : to >= r.ranges[i].end}

ReadItem(l) ==
  /\ MoreItems(l)
  /\ \E i \in Holding(l) : \E to \in ChunksEnd(load[l].reader, i) :
       /\ SetLoad(l, [load[l] EXCEPT !.reader.item = @ + 1, !.reader.at = i,
                                     !.reader.fetched = to])
       /\ SetCon(l, UpdateProgress(l, Fetched(load[l].reader, i, to)))
  /\ UNCHANGED <<uses, begun, faults>>

(* Faulty variant: the read is tried again. *)
ReadRejectedAgain(l) ==
  /\ MoreItems(l) /\ Holding(l) = {}
  /\ UNCHANGED vars

(* The reader does not have the item, or S3 fails, after some chunks that  *)
(* the bar was told of.                                                    *)
ReadRejected(l) ==
  /\ MoreItems(l) /\ Holding(l) = {}
  /\ ReadDataEnds(l, "rejected", Own(l))
  /\ UNCHANGED <<uses, begun, faults>>

ReadFails(l) ==
  /\ load[l].pc = "reading" /\ load[l].reader.file # None /\ MayFail
  /\ \/ ReadDataEnds(l, "raised", Own(l))
     \/ MoreItems(l) /\ \E i \in Holding(l) : \E to \in ChunksEnd(load[l].reader, i) :
          ReadDataEnds(l, "raised", UpdateProgress(l, Fetched(load[l].reader, i, to)))
  /\ UNCHANGED <<uses, begun>>

CloseFile(l) ==
  /\ load[l].pc = "reading" /\ load[l].reader.file # None /\ ~MoreItems(l)
  /\ SetLoad(l, [load[l] EXCEPT !.reader = NoReader])
  /\ UNCHANGED <<uses, con, begun, faults>>

Finish(l) ==
  /\ Between(l) /\ load[l].left = {}
  /\ ReadDataEnds(l, "loaded", Own(l))
  /\ UNCHANGED <<uses, begun, faults>>

Read(l) ==
  \/ ReadItem(l) \/ ReadRejected(l) \/ ReadFails(l) \/ CloseFile(l) \/ Finish(l)
  \/ \E f \in load[l].left : OpenFile(l, f) \/ OpenRejected(l, f)

Next ==
  \E l \in Loads :
    \/ Read(l) \/ OtherRankFails(l)
    \/ \E plan \in Plans : Plan(l, plan) \/ PlanFails(l, plan)

Spec == Init /\ [][Next]_vars

(* read_data runs once it is called. *)
FairSpec == Spec /\ \A l \in Loads : WF_vars(Read(l))
-----------------------------------------------------------------------------
Disjoint(plan) == \A i, j \in 1..Len(plan) :
  i # j /\ plan[i].file = plan[j].file =>
    plan[i].end <= plan[j].start \/ plan[j].end <= plan[i].start

(* The sort, the ranges that are injected, what the reader accepts and the *)
(* order torch reads in agree: unless its items overlap, the reader of a   *)
(* plan never rejects it, as long as the constructor still has that plan.  *)
PlansLoad ==
  \A l \in Loads :
    load[l].pc = "rejected" /\ Own(l).by = l => ~Disjoint(load[l].plan)

(* The bar of a load that returned has seen exactly the bytes announced,   *)
(* and no bar more than those, unless the constructor is shared.           *)
ProgressIsExact ==
  \A l \in Loads : Own(l).bars # <<>> /\ ~Shared(l) =>
    LET latest == Last(Own(l).bars)
    IN  /\ latest.done <= latest.total
        /\ load[l].pc = "loaded" /\ load[l].plan # <<>> => latest.done = latest.total

(* No bar is left behind, also by a constructor that is shared: one that   *)
(* is open is the constructor's, and one of its loads is between plan and  *)
(* end, or failed before read_data was called.                             *)
NoBarForgotten ==
  \A c \in Constructors : \A i \in 1..Len(con[c].bars) :
    con[c].bars[i].open =>
      /\ i = con[c].bar
      /\ \E l \in Loads : uses[l] = c /\ (Reading(l) \/ load[l].pc = "aborted")

(* A reader that is open reads by the ranges of its own plan, as long as   *)
(* no other load has injected its own into the constructor.                *)
OpenByOwnPlan ==
  \A l \in Loads : load[l].reader.file # None /\ Own(l).by \in {l, None} =>
    load[l].reader.ranges = RangesOf(load[l].plan, load[l].reader.file)
=============================================================================
