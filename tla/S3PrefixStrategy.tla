--------------------------- MODULE S3PrefixStrategy ---------------------------
(***************************************************************************)
(* The prefix strategies of dcp/s3_prefix_strategy.py: which key prefix the*)
(* files of a rank get when a checkpoint is saved.  S3 scales by key prefix*)
(* so the prefixes have to differ, and to differ early.                    *)
(*                                                                         *)
(* A pattern is a sequence of digits, a prefix the triple of what stands   *)
(* between its slashes: the pattern or the user's prefix, the epoch, and   *)
(* the name "__<rank>_" the file names begin with.                         *)
(***************************************************************************)
EXTENDS Integers, Sequences, SequencesExt

NoEpoch == -1   \* epoch_num is None
NoCount == 0    \* prefix_count is None

(* NumericPrefixStrategy.__init__: by default there are as many prefixes as*)
(* ranks, if the strategy is made after init_process_group; made before it,*)
(* all ranks share one.                                                    *)
PrefixCount(given, worldSize, initialized) ==
  IF given # NoCount THEN given ELSE IF initialized THEN worldSize ELSE 1

Larger(a, b) == IF a > b THEN a ELSE b

(* How many patterns of a length there are: `size` in the loop below.      *)
Size(base, length) ==
  LET size[k \in 1..length] == IF k = 1 THEN base ELSE size[k-1] * base
  IN  size[length]

(* _calculate_prefix_length: the least length of n patterns. *)
PrefixLength(base, n) ==
  CHOOSE k \in 1..Larger(n, 1) :
    Size(base, k) >= n /\ \A j \in 1..(k-1) : Size(base, j) < n

(* The digits of a number, the last one first. *)
Digits(number, base, width) ==
  LET rest[k \in 1..width] == IF k = 1 THEN number ELSE rest[k-1] \div base
  IN  [k \in 1..width |-> rest[k] % base]

(* format(number, "0<length>b") and "x": padded with zeros to the length,  *)
(* longer if the number needs it.                                          *)
FormatNumber(number, base, length) ==
  Reverse(Digits(number, base, Larger(length, PrefixLength(base, number + 1))))

(* Faulty variant: the digits are not reversed. *)
PatternUnreversed(i, base, length) == FormatNumber(i, base, length)

Pattern(i, base, length) == Reverse(FormatNumber(i, base, length))

(* Faulty variant: one pattern is missing. *)
PrefixMapOneLess(base, count, minLength) ==
  LET length == Larger(PrefixLength(base, count), minLength)
  IN  [k \in 1..Larger(count - 1, 1) |-> Pattern(k - 1, base, length)]

(* _generate_prefix_map, from rank 0. *)
PrefixMap(base, count, minLength) ==
  LET length == Larger(PrefixLength(base, count), minLength)
  IN  [k \in 1..count |-> Pattern(k - 1, base, length)]

(* Faulty variant: ranks beyond the map share the last pattern. *)
PickLast(map, rank) == map[IF rank < Len(map) THEN rank + 1 ELSE Len(map)]

(* RoundRobinPrefixStrategy.__init__ does not raise: the user_prefixes, any*)
(* strings, repeated ones and ones that begin alike too, are a list that is*)
(* not empty.                                                              *)
AcceptsUserPrefixes(user_prefixes) == user_prefixes # <<>>

(* prefix_map[rank % len(prefix_map)], and the same of user_prefixes.      *)
Pick(map, rank) == map[(rank % Len(map)) + 1]

(* generate_prefix of the numeric strategies and of the round robin one.   *)
Prefix(map, epoch, rank) == <<Pick(map, rank), epoch, rank>>

(* DefaultPrefixStrategy: the name only.                                   *)
DefaultPrefix(rank) == <<<<>>, NoEpoch, rank>>
=============================================================================
