------------------------ MODULE MCDCPOptimizedReader ------------------------
(* Small load plans for DCPOptimizedReader: items that touch, items with a  *)
(* gap that is coalesced, items with a gap that is not, and an item alone   *)
(* in its group.                                                            *)
EXTENDS DCPOptimizedReader

MCPlans ==
  { [items |-> <<Span(1, 3), Span(3, 4), Span(5, 7)>>, gap |-> 1],
    [items |-> <<Span(0, 2), Span(3, 4), Span(5, 7)>>, gap |-> 0],
    [items |-> <<Span(0, 1), Span(3, 5), Span(5, 6)>>, gap |-> 1],
    [items |-> <<Span(1, 2), Span(4, 5), Span(5, 7)>>, gap |-> 2] }

MCOffsets == {-1, 0, 1, 3, 4, 5}
MCSizes == 0..2
MCChunkSizes == {1, 2, 4}
MCAllFaults == AllFaults
=============================================================================
