---------------------------- MODULE MCAlgorithms ----------------------------
(***************************************************************************)
(* The pure algorithms of the connector against their meaning.             *)
(*                                                                         *)
(* "ranges": the range operators of DCPRanges over every list of ranges    *)
(* with small bounds; the states are the lists, built one range at a time, *)
(* valid or not.  A list that is rejected grows no further.                *)
(*                                                                         *)
(* "prefixes": prepare_global_plan gives the plans of rank 0, 1, ... their *)
(* prefix under each strategy; one state per rank.                         *)
(*                                                                         *)
(* "config": what a user asks for on its way to the native client.         *)
(*                                                                         *)
(* "paths": the names of a checkpoint's objects, saved and found again.    *)
(***************************************************************************)
EXTENDS DCPRanges, S3PrefixStrategy, FiniteSets

CONSTANTS
  MaxOffset,    \* bound on the offsets
  MaxRanges,    \* bound on the length of the list
  Gaps,         \* the values of max_gap_size
  Bases,        \* 2 and 16 in the code; RoundRobin and Default for the others
  Counts,       \* the values of prefix_count
  UserLists,    \* the values of user_prefixes
  MinLengths,   \* the values of min_prefix_length
  MaxRanks,     \* the ranks of the job
  MaxPickles,   \* of ClientConfig
  Texts, Files  \* of CheckpointPaths; a path is a text or a pathlib.Path of it

(* A negative max_gap_size is a ValueError of the reader and of its        *)
(* constructor.                                                            *)
ASSUME RangesAssumption == Gaps \subseteq Nat /\ MaxOffset \in Nat

(* A base, and a prefix_count or a min_prefix_length that is given, are    *)
(* positive; 0 is NoCount.  The user_prefixes are strings.                 *)
ASSUME PrefixAssumption ==
  /\ Bases \subseteq Nat /\ Counts \subseteq Nat
  /\ \A users \in UserLists : users \in Seq(STRING)
  /\ MinLengths \subseteq Nat \ {0} /\ MaxRanks \in Nat \ {0}

VARIABLES
  about,                   \* "ranges", "prefixes", "config" or "paths"
  ranges, gap,             \* the list and max_gap_size
  base, count, minLength,  \* the strategy
  asked, users,            \* the prefix_count and user_prefixes it is made with
  prefixes,                \* the prefixes of the ranks so far
  given, direct, stage, config, native, pickles, \* of ClientConfig
  path, loadPath, file, step, objects, found, reader  \* of CheckpointPaths

Config == INSTANCE ClientConfig WITH
  Endpoints <- {"None", "", "a", "no uri"}, Keys <- {"None", "", "k"}, Secrets <- {"None", "s"},
  PartSizes <- {"8MiB", "6GiB"}, BadPartSizes <- {"1KiB", "6GiB"},
  Flags <- {"True", "False"}, Profiles <- {"None", "p"},
  Attempts <- {"10", "0"},
  Direct <- [endpoint : {"None", "", "b"}, endpoint_url : {"None", "", "b", "c"},
             access_key_id : {"None", "", "d"}, secret_access_key : {"None", "d"},
             part_size : {"None", "16MiB", "1KiB"}, force_path_style : {"None", "False"}]

Names == INSTANCE CheckpointPaths WITH
  stage <- step, ranges <- found, Paths <- [text : Texts, isPath : BOOLEAN],
  Bucket <- "bucket"

ASSUME NamesAssumption == Names!ConstantsAssumption

Slash(text) == text \o <<"/">>
Checkpoint(dir) == <<"s3:", "/", "/", "bucket", "/">> \o dir
MCTexts ==
  UNION {{Checkpoint(d), Slash(Checkpoint(d))} :
           d \in {<<"a b">>, <<"a%20b", "/", "a b">>, <<"dir", "/", "/", "dir">>}}
  \cup {<<"s3:", "/", "/", "bucket">>, <<"s3:", "/", "/", "bucket", "/">>,
        <<"s3:", "/", "/">>, <<"s3:", "/", "/", "/", "dir">>, <<"dir">>}

(* README.md:268, which all begin alike; repeated ones; an empty one; none. *)
MCUserLists ==
  {<<"shard1", "shard2", "shard3">>, <<"a", "b", "a">>, <<"a", "a", "a">>, <<"", "a">>, <<>>}

(* The file of rank 0 under the strategies; the last under an empty prefix *)
(* of RoundRobinPrefixStrategy.                                            *)
MCFiles ==
  {<<"__0_0.distcp">>, <<"01", "/", "epoch_1", "/", "__0_0.distcp">>,
   <<"a b", "/", "__0_0.distcp">>, <<"/", "__0_0.distcp">>}

rangeVars == <<ranges, gap>>
strategy == <<base, count, minLength, asked, users>>
prefixVars == <<strategy, prefixes>>
configVars == <<given, direct, stage, config, native, pickles>>
pathVars == <<path, loadPath, file, step, objects, found, reader>>
vars == <<about, rangeVars, prefixVars, configVars, pathVars>>

NoStrategy == base = 2 /\ count = 1 /\ minLength = 1 /\ asked = 1 /\ users = <<>>
NoConfig ==
  given = 0 /\ direct = 0 /\ stage = "none" /\ config = 0 /\ native = <<>> /\ pickles = 0
NoPaths ==
  /\ path = 0 /\ loadPath = 0 /\ file = 0 /\ step = "none"
  /\ objects = {} /\ found = {} /\ reader = "none"

Kept == NonEmptyRanges(ranges)
Valid == about = "ranges" /\ Accepted(Kept)

RoundRobin == 0
Default == 1
Numeric == base \notin {RoundRobin, Default}
Map == IF base = RoundRobin THEN users ELSE PrefixMap(base, count, minLength)

(* The constructors of the strategies.                                     *)
MakeStrategy ==
  /\ base \in Bases /\ minLength \in MinLengths
  /\ \/ /\ Numeric /\ asked \in Counts /\ users = <<>>
        /\ \E initialized \in BOOLEAN : count = PrefixCount(asked, MaxRanks, initialized)
     \/ /\ base = RoundRobin /\ users \in {u \in UserLists : AcceptsUserPrefixes(u)}
        /\ asked = NoCount /\ count = Len(users)
     \/ base = Default /\ asked = NoCount /\ users = <<>> /\ count = 1

Init ==
  /\ ranges = <<>> /\ prefixes = <<>>
  /\ \/ about = "ranges" /\ gap \in Gaps /\ NoStrategy /\ NoConfig /\ NoPaths
     \/ about = "prefixes" /\ gap = 0 /\ MakeStrategy /\ NoConfig /\ NoPaths
     \/ about = "config" /\ gap = 0 /\ NoStrategy /\ Config!Init /\ NoPaths
     \/ about = "paths" /\ gap = 0 /\ NoStrategy /\ NoConfig /\ Names!Init

Add(s, e) ==
  /\ about = "ranges" /\ Len(ranges) < MaxRanges
  /\ Kept = <<>> \/ Valid
  /\ ranges' = Append(ranges, Span(s, e))
  /\ UNCHANGED <<about, gap, prefixVars, configVars, pathVars>>

(* prepare_global_plan, from rank 0 on. *)
PlanNextRank ==
  /\ about = "prefixes" /\ Len(prefixes) < MaxRanks
  /\ LET rank == Len(prefixes)
     IN  prefixes' = Append(prefixes, IF base = Default THEN DefaultPrefix(rank)
                                      ELSE Prefix(Map, NoEpoch, rank))
  /\ UNCHANGED <<about, rangeVars, strategy, configVars, pathVars>>

Next ==
  \/ \E s, e \in 0..MaxOffset : Add(s, e)
  \/ PlanNextRank
  \/ about = "config" /\ Config!Next /\ UNCHANGED <<about, rangeVars, prefixVars, pathVars>>
  \/ about = "paths" /\ Names!Next /\ UNCHANGED <<about, rangeVars, prefixVars, configVars>>

Spec == Init /\ [][Next]_vars
-----------------------------------------------------------------------------
Offsets(r) == r.start..(r.end - 1)
AllOffsets(s) == UNION {Offsets(s[i]) : i \in 1..Len(s)}

Groups == Coalesce(Kept, gap)

(* The groups of the loop are those of FirstOfGroup and GroupEnd, which the*)
(* specification of the reader finds the stream of an item with.           *)
LoopIsGrouping == Groups = Grouping(Kept, gap)

(* What validation accepts, by comparing neighbours only, is sorted and no *)
(* byte belongs to two items ("sorted by start position, non-overlapping").*)
Disjoint ==
  \A i \in 1..Len(Kept) :
    /\ 0 <= Kept[i].start /\ Kept[i].start < Kept[i].end
    /\ \A j \in 1..(i-1) : Kept[j].end <= Kept[i].start

(* "Group nearby ranges where gap <= max_gap_size into RangeGroup (one S3  *)
(* stream)": the streams together fetch every byte of the items, besides   *)
(* them only gaps of at most max_gap_size, and no two streams are that     *)
(* near.                                                                   *)
GroupsAreTheFetches ==
  Valid =>
    /\ Disjoint /\ LoopIsGrouping
    /\ AllOffsets(Groups) =
         AllOffsets(Kept) \cup
         UNION {Kept[i].end..(Kept[i+1].start - 1) :
                  i \in {j \in 1..(Len(Kept) - 1) :
                            Kept[j+1].start - Kept[j].end <= gap}}
    /\ \A k \in 1..(Len(Groups) - 1) : Groups[k+1].start - Groups[k].end > gap

-----------------------------------------------------------------------------
Planned == 1..Len(prefixes)
Patterns == {prefixes[i][1] : i \in Planned}

(* "Distributes ranks across user-provided prefixes", and "Number of unique*)
(* prefixes to generate": a prefix gets its share of the ranks, up to one  *)
(* rank for each of its places in the list.  Those of the numeric          *)
(* strategies are besides all different, whatever min_prefix_length is, and*)
(* those of neighbouring ranks differ in the first character, where S3     *)
(* splits first; what users provide may be alike.                          *)
PrefixesSpread ==
  LET n == Len(prefixes)
      map == Map
      Users(p) == Cardinality({i \in Planned : prefixes[i][1] = p})
      Places(p) == Cardinality({k \in 1..count : map[k] = p})
  IN  about = "prefixes" /\ base # Default =>
        /\ \A k \in 1..count :
             /\ Places(map[k]) * (n \div count) <= Users(map[k])
             /\ Users(map[k]) <= Places(map[k]) * ((n + count - 1) \div count)
        /\ Numeric =>
             /\ Cardinality(Patterns) = IF n < count THEN n ELSE count
             /\ \A i \in 2..n :
                  count > 1 /\ i <= count => prefixes[i][1][1] # prefixes[i-1][1][1]

(* "If not provided, world size will be used as default value"             *)
(* (s3_prefix_strategy.py:52-53): without a prefix_count no two ranks      *)
(* of the job share a prefix.  Not so when the strategy is made before     *)
(* init_process_group: no run claims it.                                   *)
DefaultCountIsWorldSize ==
  about = "prefixes" /\ Numeric /\ asked = NoCount =>
    Cardinality(Patterns) = Len(prefixes)

-----------------------------------------------------------------------------
(* The native client is the one that was asked for; of what Python accepted*)
(* it fails only for what Python does not look at.                         *)
ClientIsAsAsked == about = "config" => Config!ClientIsAsAsked
LateFailuresAreUnchecked == about = "config" => Config!LateFailuresAreUnchecked

(* A checkpoint is found under the path it was saved to, however spelt.    *)
SavedIsFound == about = "paths" => Names!SavedIsFound
=============================================================================
