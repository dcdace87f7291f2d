------------------------------ MODULE DCPRanges ------------------------------
(***************************************************************************)
(* The byte ranges of a DCP load plan and how s3reader/dcp_optimized.py    *)
(* groups them into S3 range requests.  A range is the half-open interval  *)
(* [start, end) of object offsets of one tensor of the checkpoint file.    *)
(*                                                                         *)
(* Everything here is a pure operator.  A loop of the code is a recursive  *)
(* function of the position it has come to (Coalesce, StreamTotal); the    *)
(* declarative description of the same grouping (FirstOfGroup, GroupEnd)   *)
(* is what the specification of the reader uses, and MCAlgorithms says     *)
(* that the two agree.                                                     *)
(***************************************************************************)
EXTENDS KeyOrder, Sequences, SequencesExt

Span(s, e) == [start |-> s, end |-> e]

Length(r) == r.end - r.start

(* The elements of s at the positions of I, in their order: a list         *)
(* comprehension with a condition.                                         *)
Subsequence(s, I) ==
  LET at == Listed(I) IN [k \in 1..Cardinality(I) |-> s[at[k]]]

(* What the constructor of the reader keeps of the plan. *)
NonEmptyRanges(ranges) ==
  Subsequence(ranges, {i \in 1..Len(ranges) : ranges[i].end # ranges[i].start})

(* Faulty variant: a range may begin inside the one before it.             *)
FollowOkOverlapping(prev, r) == r.start < r.end /\ prev.start <= r.start

(* One step of the validation: may `r` follow `prev` ?                     *)
FollowOk(prev, r) == r.start < r.end /\ prev.end <= r.start

(* The ranges _validate_and_coalesce_ranges accepts without a ValueError.  *)
(* The first range is only required to have 0 <= start <= end.             *)
Accepted(ranges) ==
  /\ ranges # <<>>
  /\ 0 <= ranges[1].start /\ ranges[1].start <= ranges[1].end
  /\ \A i \in 2..Len(ranges) : FollowOk(ranges[i-1], ranges[i])

(* Faulty variants: a gap of exactly max_gap_size closes the group; the    *)
(* group that is closed extends to the item that did not fit.              *)
CoalesceStepStrict(acc, r, gap) ==
  IF r.start - Last(acc.items).end < gap
  THEN [acc EXCEPT !.items = Append(@, r)]
  ELSE [groups |-> Append(acc.groups,
                          Span(Head(acc.items).start, Last(acc.items).end)),
        items |-> <<r>>]

CoalesceStepTooFar(acc, r, gap) ==
  IF r.start - Last(acc.items).end <= gap
  THEN [acc EXCEPT !.items = Append(@, r)]
  ELSE [groups |-> Append(acc.groups, Span(Head(acc.items).start, r.start)),
        items |-> <<r>>]

(* The loop: `items` is the group being collected, `groups` those closed.  *)
CoalesceStep(acc, r, gap) ==
  IF r.start - Last(acc.items).end <= gap
  THEN [acc EXCEPT !.items = Append(@, r)]
  ELSE [groups |-> Append(acc.groups,
                          Span(Head(acc.items).start, Last(acc.items).end)),
        items |-> <<r>>]

Coalesce(ranges, gap) ==
  LET after[i \in 1..Len(ranges)] ==
        IF i = 1 THEN [groups |-> <<>>, items |-> <<ranges[1]>>]
        ELSE CoalesceStep(after[i-1], ranges[i], gap)
      end == after[Len(ranges)]
  IN  Append(end.groups, Span(Head(end.items).start, Last(end.items).end))

(* Faulty variant of the step below: a gap of exactly max_gap_size is not  *)
(* coalesced.                                                              *)
StreamTotalStepStrict(acc, r, gap) ==
  IF r.start - acc.end < gap
  THEN [acc EXCEPT !.end = r.end]
  ELSE [total |-> acc.total + acc.end - acc.start,
        start |-> r.start, end |-> r.end]

(* The total the constructor announces to the progress bar: it walks the   *)
(* ranges of the plan itself, before any reader exists, without the empty  *)
(* ones, adding the gap whenever it is coalesced.                          *)
StreamTotalStep(acc, r, gap) ==
  IF r.start - acc.end <= gap
  THEN [acc EXCEPT !.end = r.end]
  ELSE [total |-> acc.total + acc.end - acc.start,
        start |-> r.start, end |-> r.end]

StreamTotal(ranges, gap) ==
  LET nonEmpty == NonEmptyRanges(ranges)
      after[i \in 1..Len(nonEmpty)] ==
        IF i = 1
        THEN [total |-> 0, start |-> nonEmpty[1].start, end |-> nonEmpty[1].end]
        ELSE StreamTotalStep(after[i-1], nonEmpty[i], gap)
      end == after[Len(nonEmpty)]
  IN  IF nonEmpty = <<>> THEN 0 ELSE end.total + end.end - end.start

(* The same grouping without a loop. *)
FirstOfGroup(items, gap, i) ==
  i > 1 => items[i].start - items[i-1].end > gap

GroupEnd(items, gap, i) ==
  items[CHOOSE j \in i..Len(items) :
          /\ j = Len(items) \/ FirstOfGroup(items, gap, j + 1)
          /\ \A k \in (i+1)..j : ~FirstOfGroup(items, gap, k)].end

GroupStarts(items, gap) == {i \in 1..Len(items) : FirstOfGroup(items, gap, i)}

Grouping(items, gap) ==
  LET at == Listed(GroupStarts(items, gap))
  IN  [k \in 1..Cardinality(GroupStarts(items, gap)) |->
         Span(items[at[k]].start, GroupEnd(items, gap, at[k]))]

=============================================================================
