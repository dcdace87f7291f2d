--------------------------- MODULE AlgorithmsProofs ---------------------------
(***************************************************************************)
(* The configuration on its way to the native client (ClientConfig), for   *)
(* any number of workers it is unpickled in, one after another; the        *)
(* grouping of the ranges of a load plan (DCPRanges), for every plan; the  *)
(* prefixes of the ranks (S3PrefixStrategy), for any number of ranks,      *)
(* patterns and digits; and the names of the objects of a checkpoint       *)
(* (CheckpointPaths), for any paths and files.                             *)
(***************************************************************************)
EXTENDS MCAlgorithms, RangesProofs

(* Merged by the dataset, and as good as merged before that.               *)
Asked == Config!Merged(given, direct)

(* The arguments of MountpointS3Client for a config, in their order.       *)
Arguments(c) ==
  <<"user agent", c.part_size, c.profile, c.unsigned, c.endpoint_url,
    c.force_path_style, c.max_attempts, c.access_key_id, c.secret_access_key>>

(* What the instance of ClientConfig has for BadPartSizes.                 *)
BadSizes == {"1KiB", "6GiB"}

(* No client is ever built with it.                                        *)
Unbuildable(c) ==
  c.part_size \in BadSizes \/ c.max_attempts = "0" \/ c.endpoint_url = Config!BadUri

(* The merged config is one that Python accepts, merging it with no        *)
(* arguments does not change it, and the native client keeps it, through   *)
(* any number of copies.  What it is not built with, it was asked for.     *)
ConfigInv ==
  /\ given \in Config!Configs /\ Config!Valid(given)
  /\ stage \in {"asked", "resolved", "client", "native", "rejected", "rejected late",
                "panicked"}
  /\ stage = "asked" => config = given
  /\ stage \in {"resolved", "client", "native"} =>
       config = Asked /\ Config!Valid(Asked) /\ ~Config!Conflict(direct)
  /\ stage = "native" => native = Arguments(Asked)
  /\ stage = "native" => ~Unbuildable(config)
  /\ stage = "rejected late" =>
       config.part_size \in BadSizes \/ Config!SignsWithProfile(config.profile, config.unsigned)
  /\ stage = "panicked" =>
       config.max_attempts = "0" \/ config.endpoint_url = Config!BadUri

LEMMA OverrideFacts ==
  ASSUME NEW c
  PROVE  /\ Config!Override(Config!None, c) = c
         /\ Config!OrNone(Config!None) = Config!None
BY DEF Config!Override, Config!OrNone, Config!None

(* Merging: which fields change, and into what.                            *)
LEMMA MergedFacts ==
  ASSUME NEW c \in Config!Configs, NEW d
  PROVE  LET m == Config!Merged(c, d)
         IN  /\ m.endpoint_url =
                  Config!Override(Config!OrNone(d.endpoint_url),
                                  Config!Override(Config!OrNone(d.endpoint), c.endpoint_url))
             /\ m.access_key_id = Config!Override(d.access_key_id, c.access_key_id)
             /\ m.secret_access_key = Config!Override(d.secret_access_key, c.secret_access_key)
             /\ m.part_size = Config!Override(d.part_size, c.part_size)
             /\ m.force_path_style = Config!Override(d.force_path_style, c.force_path_style)
             /\ m.unsigned = c.unsigned /\ m.profile = c.profile
             /\ m.max_attempts = c.max_attempts
BY DEF Config!Configs, Config!Merged

(* Merging with no arguments, as S3Client does, changes nothing.           *)
LEMMA MergedAgain ==
  ASSUME NEW c \in Config!Configs, NEW d
  PROVE  LET m == Config!Merged(c, d) IN Config!Merged(m, Config!NoArguments) = m
<1> DEFINE Fields == {"endpoint_url", "access_key_id", "secret_access_key", "part_size",
                      "force_path_style", "unsigned", "profile", "max_attempts"}
           m == Config!Merged(c, d)
           n == Config!Merged(m, Config!NoArguments)
<1>1. c = [f \in Fields |-> c[f]]
  BY DEF Config!Configs
<1>2. m = [f \in Fields |-> m[f]]
  BY <1>1 DEF Config!Merged
<1> HIDE DEF m
<1>3. n = [f \in Fields |-> n[f]]
  BY <1>2 DEF Config!Merged
<1>4. /\ Config!NoArguments.endpoint = Config!None
      /\ Config!NoArguments.endpoint_url = Config!None
      /\ Config!NoArguments.access_key_id = Config!None
      /\ Config!NoArguments.secret_access_key = Config!None
      /\ Config!NoArguments.part_size = Config!None
      /\ Config!NoArguments.force_path_style = Config!None
  BY DEF Config!NoArguments
<1>5. /\ n.endpoint_url = m.endpoint_url /\ n.access_key_id = m.access_key_id
      /\ n.secret_access_key = m.secret_access_key /\ n.part_size = m.part_size
      /\ n.force_path_style = m.force_path_style /\ n.unsigned = m.unsigned
      /\ n.profile = m.profile /\ n.max_attempts = m.max_attempts
  BY <1>2, <1>4, OverrideFacts DEF Config!Merged
<1> HIDE DEF n
<1>6. \A f \in Fields : n[f] = m[f]
  BY <1>5
<1> HIDE DEF Fields
<1>7. n = m
  BY <1>2, <1>3, <1>6
<1> QED
  BY <1>7 DEF m, n

LEMMA NoConflict == ~Config!Conflict(Config!NoArguments)
BY DEF Config!Conflict, Config!NoArguments, Config!OrNone, Config!None

(* What Python accepts, auth_config accepts.                               *)
LEMMA Accepts ==
  ASSUME NEW c, Config!Valid(c)
  PROVE  Config!AuthConfig(c.access_key_id, c.secret_access_key, c.profile, c.unsigned)
BY DEF Config!Valid, Config!Static, Config!AuthConfig

(* MountpointS3Client of an accepted config: a client, an error or a panic.*)
LEMMA NewFacts ==
  ASSUME NEW c, Config!Valid(c), Config!New(Arguments(c))
  PROVE  \/ stage' = "native" /\ native' = Arguments(c) /\ ~Unbuildable(c)
         \/ /\ stage' = "rejected late"
            /\ c.part_size \in BadSizes \/ Config!SignsWithProfile(c.profile, c.unsigned)
         \/ /\ stage' = "panicked"
            /\ c.max_attempts = "0" \/ c.endpoint_url = Config!BadUri
<1> DEFINE a == Arguments(c)
<1>1. /\ a[2] = c.part_size /\ a[3] = c.profile /\ a[4] = c.unsigned /\ a[5] = c.endpoint_url
      /\ a[7] = c.max_attempts /\ a[8] = c.access_key_id /\ a[9] = c.secret_access_key
  BY DEF Arguments
<1>2. Config!AuthConfig(a[8], a[9], a[3], a[4])
  BY <1>1, Accepts
<1>3. Config!Endpoint(a) = Config!BadUri <=> c.endpoint_url = Config!BadUri
  BY <1>1 DEF Config!Endpoint, Config!OrNone, Config!None, Config!BadUri
<1>4. Config!New(a)
  OBVIOUS
<1> HIDE DEF a
<1>5. CASE c.endpoint_url = Config!BadUri \/ c.max_attempts = "0"
  BY <1>1, <1>2, <1>3, <1>4, <1>5 DEF Config!New, Config!Fails
<1>6. CASE ~(c.endpoint_url = Config!BadUri \/ c.max_attempts = "0")
  <2>1. \/ a[2] \notin BadSizes /\ stage' = "native" /\ native' = a
        \/ /\ a[2] \in BadSizes \/ Config!SignsWithProfile(a[3], a[4])
           /\ stage' = "rejected late"
    BY <1>1, <1>2, <1>3, <1>4, <1>6 DEF Config!New, Config!Fails, BadSizes
  <2> QED
    BY <1>1, <1>6, <2>1 DEF Unbuildable, a
<1> QED
  BY <1>5, <1>6

LEMMA ConfigStepInvariant ==
  ASSUME ConfigInv, Config!Next
  PROVE  ConfigInv'
<1>1. CASE Config!Construct
  <2>1. stage = "asked" /\ config = given /\ UNCHANGED <<given, direct, native>>
    BY <1>1 DEF Config!Construct, ConfigInv
  <2>2. CASE Config!Conflict(direct) \/ ~Config!Valid(Config!Merged(config, direct))
    <3>1. stage' = "rejected"
      BY <1>1, <2>2 DEF Config!Construct, Config!Resolve
    <3> QED
      BY <2>1, <3>1 DEF ConfigInv
  <2>3. CASE ~Config!Conflict(direct) /\ Config!Valid(Config!Merged(config, direct))
    <3>1. stage' = "resolved" /\ config' = Asked
      BY <1>1, <2>1, <2>3 DEF Config!Construct, Config!Resolve, Asked
    <3>2. Asked' = Asked
      BY <2>1 DEF Asked
    <3>3. Config!Valid(Asked) /\ ~Config!Conflict(direct)
      BY <2>1, <2>3 DEF Asked
    <3> QED
      BY <2>1, <3>1, <3>2, <3>3 DEF ConfigInv
  <2> QED
    BY <2>2, <2>3
<1>2. CASE Config!MakeClient
  <2>1. stage = "resolved" /\ config = Asked /\ UNCHANGED <<given, direct, native>>
        /\ Config!Valid(Asked) /\ ~Config!Conflict(direct) /\ given \in Config!Configs
    BY <1>2 DEF Config!MakeClient, ConfigInv
  <2>2. Config!Merged(config, Config!NoArguments) = config
    BY <2>1, MergedAgain DEF Asked
  <2>3. stage' = "client" /\ config' = Asked
    BY <1>2, <2>1, <2>2, NoConflict DEF Config!MakeClient, Config!Resolve
  <2>4. Asked' = Asked
    BY <2>1 DEF Asked
  <2> QED
    BY <2>1, <2>3, <2>4 DEF ConfigInv
<1>3. CASE Config!Build
  <2>1. stage = "client" /\ config = Asked /\ UNCHANGED <<given, direct, config>>
        /\ Config!Valid(Asked)
    BY <1>3 DEF Config!Build, ConfigInv
  <2>2. Config!New(Arguments(Asked))
    BY <1>3, <2>1 DEF Config!Build, Arguments
  <2>3. Asked' = Asked
    BY <2>1 DEF Asked
  <2> QED
    BY <2>1, <2>2, <2>3, NewFacts DEF ConfigInv
<1>4. CASE Config!Unpickle
  <2>1. stage = "native" /\ config = Asked /\ UNCHANGED <<given, direct, config>>
        /\ native = Arguments(Asked) /\ Config!Valid(Asked)
    BY <1>4 DEF Config!Unpickle, ConfigInv
  <2>2. Config!GetNewArgs = Arguments(Asked)
    BY <2>1 DEF Config!GetNewArgs, Arguments
  <2>3. Config!New(Arguments(Asked))
    BY <1>4, <2>2 DEF Config!Unpickle
  <2>4. Asked' = Asked
    BY <2>1 DEF Asked
  <2> QED
    BY <2>1, <2>3, <2>4, NewFacts DEF ConfigInv
<1> QED
  BY <1>1, <1>2, <1>3, <1>4 DEF Config!Next

LEMMA ConfigGoal ==
  ASSUME ConfigInv
  PROVE  Config!ClientIsAsAsked
<1> SUFFICES ASSUME stage = "native" PROVE Config!ClientIsAsAsked
  BY DEF Config!ClientIsAsAsked
<1>1. native = Arguments(Asked) /\ given \in Config!Configs
  BY DEF ConfigInv
<1> DEFINE m == Asked
           url == direct.endpoint_url
           legacy == direct.endpoint
<1>2. /\ m.endpoint_url = Config!Override(Config!OrNone(url),
                            Config!Override(Config!OrNone(legacy), given.endpoint_url))
      /\ m.access_key_id = Config!Override(direct.access_key_id, given.access_key_id)
      /\ m.secret_access_key = Config!Override(direct.secret_access_key, given.secret_access_key)
      /\ m.part_size = Config!Override(direct.part_size, given.part_size)
      /\ m.force_path_style = Config!Override(direct.force_path_style, given.force_path_style)
      /\ m.unsigned = given.unsigned /\ m.profile = given.profile
      /\ m.max_attempts = given.max_attempts
  BY <1>1, MergedFacts DEF Asked
<1> HIDE DEF m
<1>3. /\ native[2] = m.part_size /\ native[3] = m.profile /\ native[4] = m.unsigned
      /\ native[5] = m.endpoint_url /\ native[6] = m.force_path_style
      /\ native[7] = m.max_attempts /\ native[8] = m.access_key_id
      /\ native[9] = m.secret_access_key
  BY <1>1 DEF Arguments, m
<1>4. Config!Endpoint(native) \in {Config!OrNone(e) : e \in Config!AskedEndpoint}
  <2>1. Config!Endpoint(native) = Config!OrNone(m.endpoint_url)
    BY <1>3 DEF Config!Endpoint
  <2>2. m.endpoint_url \in Config!AskedEndpoint
    BY <1>2 DEF Config!AskedEndpoint, Config!Override, Config!OrNone, Config!None
  <2> QED
    BY <2>1, <2>2
<1> QED
  BY <1>2, <1>3, <1>4 DEF Config!ClientIsAsAsked

-----------------------------------------------------------------------------
LEMMA ConfigInvariant == Spec => [](about = "config" => ConfigInv)
<1> DEFINE Inv == about = "config" => ConfigInv
<1>1. Init => Inv
  <2> SUFFICES ASSUME Init, about = "config" PROVE ConfigInv
    OBVIOUS
  <2>1. Config!Init
    BY DEF Init
  <2> QED
    BY <2>1 DEF Config!Init, ConfigInv
<1>2. Inv /\ [Next]_vars => Inv'
  <2> SUFFICES ASSUME Inv, [Next]_vars, about' = "config" PROVE ConfigInv'
    OBVIOUS
  <2>1. CASE about = "config" /\ Config!Next
    BY <2>1, ConfigStepInvariant
  <2>2. CASE UNCHANGED <<about, configVars>>
    BY <2>2 DEF configVars, ConfigInv, Asked
  <2>3. [Next]_vars => (about = "config" /\ Config!Next) \/ UNCHANGED <<about, configVars>>
                       \/ about' # "config"
    BY DEF Next, vars, Add, PlanNextRank
  <2> QED
    BY <2>1, <2>2, <2>3
<1> QED
  BY <1>1, <1>2, PTL DEF Spec

(* s3client_config.py, _s3client.py, mountpoint_s3_client.rs: whatever was *)
(* asked for by a config, direct arguments and their legacy name is what   *)
(* the native client has, here and wherever it is unpickled: merging twice *)
(* is merging once.                                                        *)
THEOREM ClientsAreAsAsked == Spec => []ClientIsAsAsked
<1>1. (about = "config" => ConfigInv) => ClientIsAsAsked
  BY ConfigGoal DEF ClientIsAsAsked
<1> QED
  BY <1>1, ConfigInvariant, PTL

(* Of what Python has accepted the native client rejects only a part size  *)
(* out of its limits, which neither S3ClientConfig nor the merging looks   *)
(* at, and a profile it does not find; it panics only at a malformed       *)
(* endpoint and at no attempts; and wherever one was built, or rebuilt by  *)
(* unpickling it, none of this was asked for.                              *)
THEOREM MistakesAreEarly == Spec => []LateFailuresAreUnchecked
<1>1. (about = "config" => ConfigInv) => LateFailuresAreUnchecked
  BY DEF ConfigInv, Unbuildable, BadSizes, LateFailuresAreUnchecked,
         Config!LateFailuresAreUnchecked
<1> QED
  BY <1>1, ConfigInvariant, PTL
-----------------------------------------------------------------------------
(* Ranges and their streams.                                               *)

(* Sorted ranges: what the comparisons below need to know of them.         *)
LEMMA OrderFacts ==
  ASSUME NEW r \in Seq(ByteRanges), InOrder(r),
         NEW i \in 1..Len(r), NEW j \in 1..Len(r), i <= j
  PROVE  /\ r[i].start \in Int /\ r[i].end \in Int /\ r[j].start \in Int /\ r[j].end \in Int
         /\ r[i].start < r[i].end /\ r[i].start <= r[j].start /\ r[i].end <= r[j].end
<1>1. r[i].start \in Int /\ r[i].end \in Int /\ r[j].start \in Int /\ r[j].end \in Int
  BY RangeType
<1>2. r[i].start < r[i].end /\ r[j].start < r[j].end /\ (i < j => r[i].end <= r[j].start)
  BY DEF InOrder
<1>3. i = j \/ i < j
  OBVIOUS
<1> QED
  BY <1>1, <1>2, <1>3

(* Two streams are further apart than max_gap_size.                      *)
LEMMA StreamsAreApart ==
  ASSUME NEW r \in Seq(ByteRanges), Len(r) # 0, NEW g \in Nat,
         NEW k \in 1..(Len(Grouping(r, g)) - 1)
  PROVE  Grouping(r, g)[k+1].start - Grouping(r, g)[k].end > g
<1> DEFINE n == Len(r)
           I == GroupStarts(r, g)
           C == Cardinality(I)
           at == Listed(I)
           i == at[k+1] - 1
<1>1. n \in Nat /\ 1 \in I /\ I \in SUBSET (1..n) /\ Enumerates(at, C, I)
  BY StartsFacts
<1>2. C \in Nat /\ \A m \in 1..C : at[m] \in 1..n /\ at[m] \in I
  BY <1>1, EnumerationFacts
<1>3. Len(Grouping(r, g)) = C /\ k \in 1..C /\ k + 1 \in 1..C
  <2>1. Len(Grouping(r, g)) = C
    BY <1>2 DEF Grouping
  <2> QED
    BY <1>2, <2>1
<1>4. at[k] < at[k+1]
  BY <1>1, <1>3 DEF Enumerates
<1>5. i \in 1..n /\ i + 1 = at[k+1] /\ i + 1 > 1 /\ i + 1 \in I
  BY <1>2, <1>3, <1>4
<1>6. Current(at, C, i, k)
  BY <1>2, <1>3, <1>4 DEF Current
<1> HIDE DEF i
<1>7. FirstOfGroup(r, g, i + 1)
  BY <1>5 DEF GroupStarts
<1>8. GroupEnd(r, g, at[k]) = r[i].end
  BY <1>1, <1>5, <1>6, <1>7, CurrentGroup
<1>9. r[i+1].start - r[i].end > g
  <2>1. (i + 1) - 1 = i
    BY <1>5
  <2> QED
    BY <1>5, <1>7, <2>1 DEF FirstOfGroup
<1>10. /\ Grouping(r, g)[k+1].start = r[at[k+1]].start
       /\ Grouping(r, g)[k].end = GroupEnd(r, g, at[k])
  BY <1>3 DEF Grouping, Span
<1> QED
  BY <1>5, <1>8, <1>9, <1>10

(* A byte is fetched when it lies in the span of a group.                  *)
Fetched(r, g, x) ==
  \E k \in 1..Cardinality(GroupStarts(r, g)) :
    LET i == Listed(GroupStarts(r, g))[k]
    IN  x \in r[i].start..(GroupEnd(r, g, i) - 1)

LEMMA FetchedOffsets ==
  ASSUME NEW r \in Seq(ByteRanges), Len(r) # 0, NEW g, NEW x
  PROVE  x \in AllOffsets(Grouping(r, g)) <=> Fetched(r, g, x)
<1> DEFINE C == Cardinality(GroupStarts(r, g))
           at == Listed(GroupStarts(r, g))
           all == Grouping(r, g)
<1>1. C \in Nat
  BY StartsFacts DEF Enumerates
<1>2. Len(all) = C /\ \A k \in 1..C : Offsets(all[k]) = r[at[k]].start..(GroupEnd(r, g, at[k]) - 1)
  BY <1>1 DEF Grouping, Span, Offsets
<1> HIDE DEF C, at, all
<1>3. x \in AllOffsets(all) <=> \E k \in 1..C : x \in Offsets(all[k])
  BY <1>2 DEF AllOffsets
<1> QED
  BY <1>2, <1>3 DEF Fetched, C, at, all

(* The stream of a range fetches it, and the gap to the next when that is  *)
(* coalesced.                                                              *)
LEMMA StreamHasItsRanges ==
  ASSUME NEW r \in Seq(ByteRanges), Len(r) # 0, InOrder(r), NEW g \in Nat,
         NEW i \in 1..Len(r), NEW x \in Int, r[i].start <= x,
         x < r[i].end \/ (i < Len(r) /\ ~FirstOfGroup(r, g, i + 1) /\ x < r[i+1].start)
  PROVE  Fetched(r, g, x)
<1> DEFINE n == Len(r)
           I == GroupStarts(r, g)
           C == Cardinality(I)
           at == Listed(I)
<1>1. n \in Nat /\ 1 \in I /\ I \in SUBSET (1..n) /\ Enumerates(at, C, I)
  BY StartsFacts
<1>2. \A k \in 1..n : k \in I <=> FirstOfGroup(r, g, k)
  BY DEF GroupStarts
<1> HIDE DEF I, C, at, n
<1>3. PICK c : Current(at, C, i, c)
  BY <1>1, CurrentExists DEF n
<1>4. c \in 1..C /\ at[c] <= i /\ at[c] \in 1..n
  BY <1>1, <1>3, EnumerationFacts DEF Current
<1>5. PICK m \in i..n : m \in 1..n /\ Current(at, C, m, c) /\ x < r[m].end
  <2>1. CASE x < r[i].end
    BY <1>1, <1>3, <2>1 DEF n
  <2>2. CASE ~(x < r[i].end)
    <3>1. i < n /\ i + 1 \in i..n /\ i + 1 \in 1..n /\ i + 1 \notin I /\ x < r[i+1].start
      BY <1>1, <1>2, <2>2 DEF n
    <3>2. CurrentMoves(at, C, I, n, i, c)
      BY <1>1, <1>3, CurrentSteps DEF n
    <3>3. Current(at, C, i + 1, c)
      BY <3>1, <3>2 DEF CurrentMoves
    <3>4. r[i+1].start \in Int /\ r[i+1].end \in Int /\ r[i+1].start < r[i+1].end
      BY <3>1, OrderFacts DEF n
    <3>5. x < r[i+1].end
      BY <3>1, <3>4
    <3> QED
      BY <3>1, <3>3, <3>5
  <2> QED
    BY <2>1, <2>2
<1>6. PICK j \in m..n : GroupEnd(r, g, at[c]) = r[j].end
  BY <1>1, <1>5, CurrentGroup DEF n, I
<1>7. j \in 1..n /\ m <= j
  BY <1>1, <1>5
<1>8. r[m].end \in Int /\ r[j].end \in Int /\ r[m].end <= r[j].end
  BY <1>5, <1>7, OrderFacts DEF n
<1>9. r[at[c]].start \in Int /\ r[i].start \in Int /\ r[at[c]].start <= r[i].start
  BY <1>4, OrderFacts DEF n
<1>10. x \in r[at[c]].start..(GroupEnd(r, g, at[c]) - 1)
  BY <1>5, <1>6, <1>8, <1>9, SMTT(30)
<1> QED
  BY <1>4, <1>10 DEF Fetched, I, C, at

(* A stream fetches nothing but ranges and gaps that were coalesced.       *)
LEMMA StreamHasNothingElse ==
  ASSUME NEW r \in Seq(ByteRanges), Len(r) # 0, InOrder(r), NEW g \in Nat,
         NEW x, Fetched(r, g, x)
  PROVE  \E m \in 1..Len(r) :
           \/ x \in r[m].start..(r[m].end - 1)
           \/ m < Len(r) /\ ~FirstOfGroup(r, g, m + 1) /\ x \in r[m].end..(r[m+1].start - 1)
<1> DEFINE n == Len(r)
           I == GroupStarts(r, g)
           C == Cardinality(I)
           at == Listed(I)
<1>1. n \in Nat /\ 1 \in I /\ I \in SUBSET (1..n) /\ Enumerates(at, C, I)
  BY StartsFacts
<1>2. PICK k \in 1..C : x \in r[at[k]].start..(GroupEnd(r, g, at[k]) - 1)
  BY DEF Fetched
<1> DEFINE i == at[k]
<1>3. i \in 1..n
  BY <1>1, EnumerationFacts
<1> HIDE DEF i, I, C, at
<1>4. PICK j \in i..n : LastOfGroup(r, g, i, j) /\ GroupEnd(r, g, i) = r[j].end
  BY <1>1, <1>3, GroupEndFacts DEF n
<1> DEFINE Ends == {m \in i..j : x < r[m].end}
<1>5. j \in 1..n /\ i \in Nat /\ j \in Nat
  BY <1>1, <1>3, <1>4
<1>6. r[i].start \in Int /\ r[j].end \in Int /\ x \in Int /\ r[i].start <= x /\ x < r[j].end
  <2>1. r[i].start \in Int /\ r[j].end \in Int
    BY <1>3, <1>5, RangeType DEF n
  <2> QED
    BY <1>2, <1>4, <2>1 DEF i
<1>7. PICK m \in Ends : \A y \in Ends : m <= y
  <2>1. Ends \in SUBSET Nat /\ Ends # {}
    BY <1>3, <1>4, <1>5, <1>6
  <2> HIDE DEF Ends
  <2> QED
    BY <2>1, LeastNat
<1>8. m \in i..j /\ x < r[m].end /\ m \in 1..n
  BY <1>3, <1>4, <1>5, <1>7
<1>9. r[m].start \in Int /\ r[m].end \in Int
  BY <1>8, RangeType DEF n
<1>10. CASE r[m].start <= x
  <2>1. x \in r[m].start..(r[m].end - 1)
    BY <1>6, <1>8, <1>9, <1>10
  <2> QED
    BY <1>8, <2>1 DEF n
<1>11. CASE ~(r[m].start <= x)
  <2>1. m # i
    BY <1>6, <1>11
  <2> DEFINE p == m - 1
  <2>2. p \in i..j /\ p \in 1..n /\ p + 1 = m /\ ~(m <= p) /\ p < n /\ m \in (i+1)..j
    BY <1>1, <1>3, <1>5, <1>8, <2>1
  <2> HIDE DEF p
  <2>3. ~(x < r[p].end)
    BY <1>7, <2>2
  <2>4. r[p].end \in Int
    BY <2>2, RangeType DEF n
  <2>5. x \in r[p].end..(r[p+1].start - 1)
    BY <1>6, <1>9, <1>11, <2>2, <2>3, <2>4
  <2>6. ~FirstOfGroup(r, g, p + 1)
    BY <1>4, <2>2 DEF LastOfGroup
  <2> QED
    BY <2>2, <2>5, <2>6 DEF n
<1> QED
  BY <1>10, <1>11

(* The streams fetch the ranges and the gaps that were coalesced.          *)
LEMMA StreamsFetch ==
  ASSUME NEW r \in Seq(ByteRanges), Len(r) # 0, InOrder(r), NEW g \in Nat
  PROVE  AllOffsets(Grouping(r, g)) =
           AllOffsets(r) \cup
           UNION {r[i].end..(r[i+1].start - 1) :
                    i \in {j \in 1..(Len(r) - 1) : r[j+1].start - r[j].end <= g}}
<1> DEFINE n == Len(r)
           Near == {j \in 1..(n - 1) : r[j+1].start - r[j].end <= g}
           Gap(i) == r[i].end..(r[i+1].start - 1)
           Both == AllOffsets(r) \cup UNION {Gap(i) : i \in Near}
<1>1. n \in Nat
  OBVIOUS
<1>2. \A x : x \in Both <=> \/ \E i \in 1..n : x \in Offsets(r[i])
                            \/ \E i \in Near : x \in Gap(i)
  BY DEF AllOffsets
<1>3. ASSUME NEW i \in 1..n
      PROVE  i \in Near <=> i < n /\ ~FirstOfGroup(r, g, i + 1)
  <2>1. CASE i < n
    <3>1. i + 1 \in 1..n /\ (i + 1) - 1 = i /\ i + 1 > 1 /\ i \in 1..(n - 1)
      BY <1>1, <2>1
    <3>2. r[i+1].start \in Int /\ r[i].end \in Int
      BY <3>1, RangeType
    <3> QED
      BY <2>1, <3>1, <3>2 DEF FirstOfGroup
  <2>2. CASE ~(i < n)
    BY <1>1, <2>2
  <2> QED
    BY <2>1, <2>2
<1> HIDE DEF Near
<1>4. ASSUME NEW x, Fetched(r, g, x)
      PROVE  x \in Both
  <2>1. PICK m \in 1..n :
          \/ x \in r[m].start..(r[m].end - 1)
          \/ m < n /\ ~FirstOfGroup(r, g, m + 1) /\ x \in Gap(m)
    BY <1>4, StreamHasNothingElse
  <2> HIDE DEF Gap, Both
  <2>2. x \in Offsets(r[m]) \/ (m \in Near /\ x \in Gap(m))
    BY <1>3, <2>1 DEF Offsets
  <2> QED
    BY <1>2, <2>2
<1>5. ASSUME NEW x \in Both
      PROVE  Fetched(r, g, x)
  <2>1. CASE \E i \in 1..n : x \in Offsets(r[i])
    <3>1. PICK i \in 1..n : x \in Offsets(r[i])
      BY <2>1
    <3>2. r[i].start \in Int /\ r[i].end \in Int
      BY <3>1, RangeType
    <3>3. x \in Int /\ r[i].start <= x /\ x < r[i].end
      BY <3>1, <3>2 DEF Offsets
    <3> QED
      BY <3>1, <3>3, StreamHasItsRanges
  <2>2. CASE \E i \in Near : x \in Gap(i)
    <3>1. PICK i \in Near : x \in Gap(i)
      BY <2>2
    <3>2. i \in 1..n
      BY <1>1, <3>1 DEF Near
    <3>3. i < n /\ ~FirstOfGroup(r, g, i + 1)
      BY <1>3, <3>1, <3>2
    <3>4. i + 1 \in 1..n
      BY <1>1, <3>2, <3>3
    <3>5. /\ r[i].start \in Int /\ r[i].end \in Int /\ r[i].start < r[i].end
          /\ r[i+1].start \in Int
      BY <3>2, <3>4, RangeType DEF InOrder
    <3>6. x \in Int /\ r[i].start <= x /\ x < r[i+1].start
      BY <3>1, <3>5
    <3> QED
      BY <3>2, <3>3, <3>6, StreamHasItsRanges
  <2> QED
    BY <1>2, <2>1, <2>2
<1>6. \A x : x \in AllOffsets(Grouping(r, g)) <=> x \in Both
  <2> HIDE DEF Both
  <2> QED
    BY <1>4, <1>5, FetchedOffsets
<1>7. AllOffsets(Grouping(r, g)) = Both
  <2> HIDE DEF Both
  <2> QED
    BY <1>6
<1> QED
  BY <1>7 DEF Near

(* The lists are of ranges.                                                *)
RangesInv == about = "ranges" => ranges \in Seq(ByteRanges) /\ gap \in Gaps

LEMMA RangesInvariant == Spec => []RangesInv
<1>1. Init => RangesInv
  <2> SUFFICES ASSUME Init, about = "ranges" PROVE RangesInv
    BY DEF RangesInv
  <2>1. ranges = <<>> /\ gap \in Gaps
    BY DEF Init
  <2>2. ranges \in Seq(ByteRanges)
    BY <2>1
  <2> QED
    BY <2>1, <2>2 DEF RangesInv
<1>2. RangesInv /\ [Next]_vars => RangesInv'
  <2> SUFFICES ASSUME RangesInv, [Next]_vars PROVE RangesInv'
    OBVIOUS
  <2>1. ASSUME NEW s \in 0..MaxOffset, NEW e \in 0..MaxOffset, Add(s, e)
        PROVE  RangesInv'
    <3>1. /\ about = "ranges" /\ gap' = gap /\ ranges' = Append(ranges, Span(s, e))
      BY <2>1 DEF Add
    <3>2. ranges \in Seq(ByteRanges) /\ gap \in Gaps
      BY <3>1 DEF RangesInv
    <3>3. Span(s, e) \in ByteRanges
      BY RangesAssumption DEF Span, ByteRanges
    <3> HIDE DEF ByteRanges
    <3>4. ranges' \in Seq(ByteRanges)
      BY <3>1, <3>2, <3>3
    <3> QED
      BY <3>1, <3>2, <3>4 DEF RangesInv
  <2>2. CASE UNCHANGED <<about, rangeVars>>
    BY <2>2 DEF RangesInv, rangeVars
  <2>3. ASSUME ~UNCHANGED <<about, rangeVars>>
        PROVE  \E s, e \in 0..MaxOffset : Add(s, e)
    BY <2>3 DEF Next, vars, PlanNextRank, rangeVars
  <2> QED
    BY <2>1, <2>2, <2>3
<1> QED
  BY <1>1, <1>2, PTL DEF Spec

(* dcp_optimized.py, _validate_and_coalesce_ranges: what is accepted, by   *)
(* comparing neighbours only, is sorted and disjoint; the streams of the   *)
(* groups fetch the ranges and the gaps of at most max_gap_size between    *)
(* neighbours, nothing else, and no two of them could have been one.       *)
THEOREM GroupsFetchTheRanges == Spec => []GroupsAreTheFetches
<1>1. RangesInv => GroupsAreTheFetches
  <2> SUFFICES ASSUME RangesInv, Valid PROVE GroupsAreTheFetches
    BY DEF GroupsAreTheFetches
  <2> DEFINE r == Kept
  <2>1. ranges \in Seq(ByteRanges) /\ gap \in Nat /\ Accepted(r)
    BY RangesAssumption DEF RangesInv, Valid
  <2>2. r \in Seq(ByteRanges) /\ \A k \in 1..Len(r) : r[k].end # r[k].start
    BY <2>1, NonEmptyFacts DEF Kept
  <2> HIDE DEF r
  <2>3. r # <<>>
    BY <2>1 DEF Accepted
  <2>4. Len(r) \in Nat \ {0}
    BY <2>2, <2>3
  <2>5. InOrder(r)
    BY <2>1, <2>2, <2>4, AcceptedInOrder
  <2>6. Groups = Grouping(r, gap)
    BY <2>1, <2>2, <2>4, CoalesceFacts DEF Groups, r
  <2>7. Disjoint
    <3> SUFFICES ASSUME NEW i \in 1..Len(r)
                 PROVE  /\ 0 <= r[i].start /\ r[i].start < r[i].end
                        /\ \A j \in 1..(i-1) : r[j].end <= r[i].start
      BY DEF Disjoint, r
    <3>1. \A j \in 1..(i-1) : j \in 1..Len(r) /\ j < i
      BY <2>4
    <3> QED
      BY <2>5, <3>1 DEF InOrder
  <2>8. AllOffsets(Groups) =
          AllOffsets(r) \cup
          UNION {r[i].end..(r[i+1].start - 1) :
                   i \in {j \in 1..(Len(r) - 1) : r[j+1].start - r[j].end <= gap}}
    BY <2>1, <2>2, <2>4, <2>5, <2>6, StreamsFetch
  <2>9. \A k \in 1..(Len(Groups) - 1) : Groups[k+1].start - Groups[k].end > gap
    BY <2>1, <2>2, <2>4, <2>6, StreamsAreApart
  <2>10. LoopIsGrouping
    BY <2>6 DEF LoopIsGrouping, r
  <2> QED
    BY <2>7, <2>8, <2>9, <2>10 DEF GroupsAreTheFetches, r
<1> QED
  BY <1>1, RangesInvariant, PTL

-----------------------------------------------------------------------------
(***************************************************************************)
(* Prefixes.                                                               *)
(***************************************************************************)

LEMMA LargerFacts ==
  ASSUME NEW a \in Nat, NEW b \in Nat
  PROVE  Larger(a, b) \in Nat /\ Larger(a, b) >= a /\ Larger(a, b) >= b
BY DEF Larger

(* The sizes of all lengths up to n are the values of one loop: each is as *)
(* many times the one before it as there are digits.                       *)
IsSizes(p, b, n) ==
  /\ p \in [1..n -> Nat] /\ p[1] = b
  /\ \A k \in 2..n : p[k] = p[k-1] * b
  /\ \A k \in 1..n : Size(b, k) = p[k]

LEMMA Sizes ==
  ASSUME NEW b \in Nat, NEW n \in Nat \ {0}
  PROVE  \E p : IsSizes(p, b, n)
<1> DEFINE times == [x \in (2..n) \X Nat |-> x[2] * b]
<1>1. times \in [(2..n) \X Nat -> Nat]
  <2>1. \A x \in (2..n) \X Nat : x[2] \in Nat
    OBVIOUS
  <2>2. \A y \in Nat : y * b \in Nat
    OBVIOUS
  <2> QED
    BY <2>1, <2>2
<1>2. \A k \in 2..n, y \in Nat : times[<<k, y>>] = y * b
  OBVIOUS
<1> HIDE DEF times
<1>3. PICK p \in [1..n -> Nat] : IsLoop(p, n, b, times)
  BY <1>1, LoopHasValues
<1>4. p[1] = b /\ \A k \in 2..n : p[k] = p[k-1] * b
  <2> SUFFICES ASSUME NEW k \in 2..n PROVE p[k] = p[k-1] * b
    BY <1>3 DEF IsLoop
  <2>1. p[k-1] \in Nat
    <3>1. k - 1 \in 1..n
      OBVIOUS
    <3> QED
      BY <3>1
  <2> QED
    BY <1>2, <1>3, <2>1 DEF IsLoop
<1>5. ASSUME NEW m \in 1..n PROVE Size(b, m) = p[m]
  <2> DEFINE Loop(g) == g = [k \in 1..m |-> IF k = 1 THEN b ELSE g[k-1] * b]
             size == CHOOSE g : Loop(g)
  <2>1. Size(b, m) = size[m]
    BY DEF Size
  <2>2. Loop([k \in 1..m |-> p[k]])
    <3> DEFINE g == [k \in 1..m |-> p[k]]
    <3>1. ASSUME NEW k \in 1..m PROVE g[k] = IF k = 1 THEN b ELSE g[k-1] * b
      <4>1. CASE k = 1
        BY <1>4, <4>1
      <4>2. CASE k # 1
        <5>1. k - 1 \in 1..m /\ k \in 2..n
          BY <4>2
        <5>2. g[k-1] = p[k-1] /\ g[k] = p[k]
          BY <5>1
        <5>3. p[k] = p[k-1] * b
          BY <1>4, <5>1
        <5> QED
          BY <4>2, <5>2, <5>3
      <4> QED
        BY <4>1, <4>2
    <3>2. g = [k \in 1..m |-> g[k]]
      OBVIOUS
    <3> HIDE DEF g
    <3>3. Loop(g)
      BY <3>1, <3>2
    <3> QED
      BY <3>3 DEF g
  <2>3. Loop(size)
    <3> HIDE DEF Loop
    <3> QED
      BY <2>2
  <2>4. \A k \in 1..m : size[k] = IF k = 1 THEN b ELSE size[k-1] * b
    <3> HIDE DEF size
    <3> QED
      BY <2>3
  <2> HIDE DEF size
  <2> DEFINE Bad == {k \in 1..m : size[k] # p[k]}
  <2>5. Bad = {}
    <3> SUFFICES ASSUME Bad # {} PROVE FALSE
      OBVIOUS
    <3>1. PICK k \in Bad : \A y \in Bad : k <= y
      <4>1. Bad \in SUBSET Nat
        OBVIOUS
      <4> HIDE DEF Bad
      <4> QED
        BY <4>1, LeastNat
    <3>2. k \in 1..m /\ size[k] # p[k]
      BY <3>1
    <3>3. k # 1
      BY <1>4, <2>4, <3>2
    <3>4. k - 1 \in 1..m /\ k \in 2..n /\ ~(k <= k - 1)
      BY <3>2, <3>3
    <3>5. size[k-1] = p[k-1]
      BY <3>1, <3>4
    <3>6. size[k] = size[k-1] * b
      BY <2>4, <3>2, <3>3
    <3>7. p[k] = p[k-1] * b
      BY <1>4, <3>4
    <3> QED
      BY <3>2, <3>5, <3>6, <3>7
  <2>6. size[m] = p[m]
    BY <2>5
  <2> QED
    BY <2>1, <2>6
<1> QED
  BY <1>3, <1>4, <1>5 DEF IsSizes

(* Sizes grow, and beyond every number.                                    *)
LEMMA SizesGrow ==
  ASSUME NEW b \in Nat, b > 1, NEW n \in Nat \ {0}, NEW p, IsSizes(p, b, n)
  PROVE  /\ \A k \in 1..n : p[k] \in Nat /\ p[k] > k
         /\ \A j, k \in 1..n : j <= k => p[j] <= p[k]
<1>1. ASSUME NEW k \in 2..n
      PROVE  /\ k - 1 \in 1..n /\ k \in 1..n /\ p[k-1] \in Nat /\ p[k] \in Nat
             /\ p[k] >= 2 * p[k-1]
  <2>1. k - 1 \in 1..n /\ k \in 1..n
    OBVIOUS
  <2>2. p[k-1] \in Nat /\ p[k] \in Nat /\ p[k] = p[k-1] * b
    BY <2>1 DEF IsSizes
  <2>3. ASSUME NEW x \in Nat PROVE x * b >= 2 * x
    <3>1. x * (b - 2) >= 0
      OBVIOUS
    <3>2. x * (b - 2) = x * b - 2 * x
      OBVIOUS
    <3> QED
      BY <3>1, <3>2
  <2> QED
    BY <2>1, <2>2, <2>3
<1> DEFINE Good(k) == p[k] > k /\ \A j \in 1..k : p[j] <= p[k]
           Bad == {k \in 1..n : ~Good(k)}
<1>2. \A k \in 1..n : p[k] \in Nat
  BY DEF IsSizes
<1>3. Good(1)
  <2>1. 1 \in 1..n /\ p[1] = b
    BY DEF IsSizes
  <2> QED
    BY <2>1
<1>4. ASSUME NEW k \in 2..n, Good(k - 1) PROVE Good(k)
  <2>1. p[k-1] \in Nat /\ p[k] \in Nat /\ p[k] >= 2 * p[k-1] /\ p[k-1] > k - 1
    BY <1>1, <1>4
  <2>2. p[k] > k /\ p[k-1] <= p[k]
    BY <2>1
  <2>3. ASSUME NEW j \in 1..k PROVE p[j] <= p[k]
    <3>1. CASE j = k
      BY <2>1, <3>1
    <3>2. CASE j # k
      <4>1. j \in 1..(k-1) /\ j \in 1..n
        BY <3>2
      <4>2. p[j] <= p[k-1] /\ p[j] \in Nat
        BY <1>2, <1>4, <4>1
      <4> QED
        BY <2>1, <2>2, <4>2
    <3> QED
      BY <3>1, <3>2
  <2> QED
    BY <2>2, <2>3
<1> HIDE DEF Good
<1>5. Bad = {}
  <2> SUFFICES ASSUME Bad # {} PROVE FALSE
    OBVIOUS
  <2>1. PICK k \in Bad : \A y \in Bad : k <= y
    <3>1. Bad \in SUBSET Nat
      OBVIOUS
    <3> HIDE DEF Bad
    <3> QED
      BY <3>1, LeastNat
  <2>2. k \in 1..n /\ ~Good(k) /\ k # 1
    BY <1>3, <2>1
  <2>3. k \in 2..n /\ k - 1 \in 1..n /\ ~(k <= k - 1)
    BY <2>2
  <2> QED
    BY <1>4, <2>1, <2>2, <2>3
<1>6. \A k \in 1..n : Good(k)
  BY <1>5
<1>7. ASSUME NEW j \in 1..n, NEW k \in 1..n, j <= k PROVE p[j] <= p[k]
  <2>1. j \in 1..k
    BY <1>7
  <2> QED
    BY <1>6, <2>1 DEF Good
<1> QED
  BY <1>2, <1>6, <1>7 DEF Good

(* There are enough patterns of the length for n of them, or of more.      *)
LEMMA LengthFacts ==
  ASSUME NEW b \in Nat, b > 1, NEW n \in Nat
  PROVE  /\ PrefixLength(b, n) \in Nat \ {0}
         /\ \A w \in Nat : w >= PrefixLength(b, n) => Size(b, w) \in Nat /\ Size(b, w) >= n
<1> DEFINE m == Larger(n, 1)
           Enough(k) == Size(b, k) >= n /\ \A j \in 1..(k-1) : Size(b, j) < n
           T == {k \in 1..m : Size(b, k) >= n}
<1>1. m \in Nat \ {0} /\ m >= n
  BY LargerFacts
<1>2. PrefixLength(b, n) = CHOOSE k \in 1..m : Enough(k)
  BY DEF PrefixLength
<1> HIDE DEF m
<1>3. PICK p : IsSizes(p, b, m)
  BY <1>1, Sizes
<1>4. /\ \A k \in 1..m : p[k] \in Nat /\ p[k] > k /\ Size(b, k) = p[k]
  BY <1>1, <1>3, SizesGrow DEF IsSizes
<1>5. \E k \in 1..m : Enough(k)
  <2>1. T # {} /\ T \in SUBSET Nat
    BY <1>1, <1>4
  <2>2. PICK k \in T : \A y \in T : k <= y
    <3> HIDE DEF T
    <3> QED
      BY <2>1, LeastNat
  <2>3. ASSUME NEW j \in 1..(k-1) PROVE Size(b, j) < n
    <3>1. j \in 1..m /\ ~(k <= j)
      BY <1>1, <2>2
    <3>2. j \notin T
      BY <2>2, <3>1
    <3> QED
      BY <1>4, <3>1, <3>2
  <2> QED
    BY <2>2, <2>3
<1>6. PrefixLength(b, n) \in 1..m /\ Size(b, PrefixLength(b, n)) >= n
  <2> HIDE DEF Enough
  <2>1. PrefixLength(b, n) \in 1..m /\ Enough(PrefixLength(b, n))
    BY <1>2, <1>5
  <2> QED
    BY <2>1 DEF Enough
<1> DEFINE k == PrefixLength(b, n)
<1> HIDE DEF k
<1>7. k \in Nat \ {0} /\ Size(b, k) >= n
  BY <1>1, <1>6 DEF k
<1>8. ASSUME NEW w \in Nat, w >= k PROVE Size(b, w) \in Nat /\ Size(b, w) >= n
  <2>1. w \in Nat \ {0} /\ k \in 1..w /\ w \in 1..w
    BY <1>7, <1>8
  <2>2. PICK q : IsSizes(q, b, w)
    BY <2>1, Sizes
  <2>3. q[k] <= q[w] /\ q[k] \in Nat /\ q[w] \in Nat
    BY <2>1, <2>2, SizesGrow
  <2>4. Size(b, k) = q[k] /\ Size(b, w) = q[w]
    BY <2>1, <2>2 DEF IsSizes
  <2> QED
    BY <1>7, <2>3, <2>4
<1> QED
  BY <1>7, <1>8 DEF k

(* The digits come from one loop, each of what is left for it.             *)
IsRest(rest, number, b, w) ==
  /\ rest \in [1..w -> Nat] /\ rest[1] = number
  /\ \A k \in 2..w : rest[k] = rest[k-1] \div b
  /\ Digits(number, b, w) = [k \in 1..w |-> rest[k] % b]

LEMMA DigitsFacts ==
  ASSUME NEW number \in Nat, NEW b \in Nat \ {0}, NEW w \in Nat \ {0}
  PROVE  \E rest : IsRest(rest, number, b, w)
<1> DEFINE Loop(g) == g = [k \in 1..w |-> IF k = 1 THEN number ELSE g[k-1] \div b]
           rest == CHOOSE g : Loop(g)
           divide == [x \in (2..w) \X Nat |-> x[2] \div b]
<1>1. divide \in [(2..w) \X Nat -> Nat]
  <2>1. \A x \in (2..w) \X Nat : x[2] \in Nat
    OBVIOUS
  <2>2. \A y \in Nat : y \div b \in Nat
    BY Divided
  <2> QED
    BY <2>1, <2>2
<1>2. \A k \in 2..w, y \in Nat : divide[<<k, y>>] = y \div b
  OBVIOUS
<1> HIDE DEF divide
<1>3. PICK f \in [1..w -> Nat] : IsLoop(f, w, number, divide)
  BY <1>1, LoopHasValues
<1>4. Loop(f)
  <2>1. ASSUME NEW k \in 1..w PROVE f[k] = IF k = 1 THEN number ELSE f[k-1] \div b
    <3>1. CASE k = 1
      BY <1>3, <3>1 DEF IsLoop
    <3>2. CASE k # 1
      <4>1. k \in 2..w /\ k - 1 \in 1..w
        BY <3>2
      <4>2. f[k-1] \in Nat
        BY <4>1
      <4> QED
        BY <1>2, <1>3, <3>2, <4>1, <4>2 DEF IsLoop
    <3> QED
      BY <3>1, <3>2
  <2>2. f = [k \in 1..w |-> f[k]]
    OBVIOUS
  <2> QED
    BY <2>1, <2>2
<1>5. Loop(rest)
  <2> HIDE DEF Loop
  <2> QED
    BY <1>4
<1>6. Digits(number, b, w) = [k \in 1..w |-> rest[k] % b]
  BY DEF Digits
<1> HIDE DEF rest
<1>7. DOMAIN rest = 1..w /\ \A k \in 1..w : rest[k] = IF k = 1 THEN number ELSE rest[k-1] \div b
  BY <1>5
<1>8. rest = [k \in 1..w |-> rest[k]]
  BY <1>5
<1> HIDE DEF Loop
<1> DEFINE Bad == {k \in 1..w : rest[k] \notin Nat}
<1>9. Bad = {}
  <2> SUFFICES ASSUME Bad # {} PROVE FALSE
    OBVIOUS
  <2>1. PICK k \in Bad : \A y \in Bad : k <= y
    <3>1. Bad \in SUBSET Nat
      OBVIOUS
    <3> HIDE DEF Bad
    <3> QED
      BY <3>1, LeastNat
  <2>2. k \in 1..w /\ rest[k] \notin Nat /\ k # 1
    BY <1>7, <2>1
  <2>3. k - 1 \in 1..w /\ ~(k <= k - 1)
    BY <2>2
  <2>4. rest[k-1] \in Nat
    BY <2>1, <2>3
  <2>5. rest[k-1] \div b \in Nat
    BY <2>4, Divided
  <2> QED
    BY <1>7, <2>2, <2>5
<1>10. \A k \in 1..w : rest[k] \in Nat
  BY <1>9
<1>11. rest \in [1..w -> Nat]
  BY <1>8, <1>10
<1>12. \A k \in 2..w : rest[k] = rest[k-1] \div b
  <2> SUFFICES ASSUME NEW k \in 2..w PROVE rest[k] = rest[k-1] \div b
    OBVIOUS
  <2>1. k \in 1..w /\ k # 1
    OBVIOUS
  <2> QED
    BY <1>7, <2>1
<1>13. rest[1] = number
  BY <1>7
<1> QED
  BY <1>6, <1>11, <1>12, <1>13 DEF IsRest

(* The quotient of what is below a product is below the other factor.      *)
LEMMA QuotientBelow ==
  ASSUME NEW x \in Nat, NEW b \in Nat \ {0}, NEW y \in Nat, x < y * b
  PROVE  x \div b < y
<1> DEFINE q == x \div b
<1>1. q \in Nat /\ x >= b * q
  BY Divided
<1> HIDE DEF q
<1>2. ASSUME q >= y PROVE FALSE
  <2>1. b * (q - y) >= 0
    BY <1>1, <1>2
  <2>2. b * (q - y) = b * q - y * b
    BY <1>1
  <2> QED
    BY <1>1, <2>1, <2>2
<1> QED
  BY <1>1, <1>2 DEF q

(* What is left of a number for the last digit is below the base, if there *)
(* are enough patterns.                                                    *)
LEMMA LastDigit ==
  ASSUME NEW number \in Nat, NEW b \in Nat, b > 1, NEW w \in Nat \ {0},
         NEW rest, IsRest(rest, number, b, w), number < Size(b, w)
  PROVE  rest[w] \in Nat /\ rest[w] < b
<1>1. PICK p : IsSizes(p, b, w)
  BY Sizes
<1>2. \A k \in 1..w : p[k] \in Nat /\ rest[k] \in Nat
  BY <1>1 DEF IsSizes, IsRest
<1> DEFINE Good(k) == rest[k] < p[w - k + 1]
           Bad == {k \in 1..w : ~Good(k)}
<1>3. Good(1)
  <2>1. w \in 1..w /\ w - 1 + 1 = w
    OBVIOUS
  <2> QED
    BY <1>1, <2>1 DEF IsSizes, IsRest
<1>4. ASSUME NEW k \in 2..w, Good(k - 1) PROVE Good(k)
  <2> DEFINE j == w - k + 1
  <2>1. j \in 1..w /\ j + 1 \in 2..w /\ w - (k - 1) + 1 = j + 1 /\ (j + 1) - 1 = j
        /\ k - 1 \in 1..w
    OBVIOUS
  <2> HIDE DEF j
  <2>2. p[j+1] = p[j] * b /\ p[j] \in Nat /\ rest[k-1] \in Nat
    <3>1. p[j+1] = p[(j+1)-1] * b
      BY <1>1, <2>1 DEF IsSizes
    <3> QED
      BY <1>2, <2>1, <3>1
  <2>3. rest[k-1] < p[j] * b
    BY <1>4, <2>1, <2>2
  <2>4. rest[k-1] \div b < p[j]
    BY <2>2, <2>3, QuotientBelow
  <2>5. rest[k] = rest[k-1] \div b
    BY DEF IsRest
  <2> QED
    BY <2>4, <2>5 DEF j
<1> HIDE DEF Good
<1>5. Bad = {}
  <2> SUFFICES ASSUME Bad # {} PROVE FALSE
    OBVIOUS
  <2>1. PICK k \in Bad : \A y \in Bad : k <= y
    <3>1. Bad \in SUBSET Nat
      OBVIOUS
    <3> HIDE DEF Bad
    <3> QED
      BY <3>1, LeastNat
  <2>2. k \in 1..w /\ ~Good(k) /\ k # 1
    BY <1>3, <2>1
  <2>3. k \in 2..w /\ k - 1 \in 1..w /\ ~(k <= k - 1)
    BY <2>2
  <2> QED
    BY <1>4, <2>1, <2>2, <2>3
<1>6. Good(w)
  BY <1>5
<1>7. w - w + 1 = 1 /\ w \in 1..w
  OBVIOUS
<1> QED
  BY <1>1, <1>2, <1>6, <1>7 DEF Good, IsSizes

(* Enough digits tell numbers apart.                                       *)
LEMMA DigitsTell ==
  ASSUME NEW i \in Nat, NEW j \in Nat, NEW b \in Nat, b > 1, NEW w \in Nat \ {0},
         i < Size(b, w), j < Size(b, w), Digits(i, b, w) = Digits(j, b, w)
  PROVE  i = j
<1>1. PICK r : IsRest(r, i, b, w)
  BY DigitsFacts
<1>2. PICK s : IsRest(s, j, b, w)
  BY DigitsFacts
<1>0. b \in Nat \ {0}
  OBVIOUS
<1>3. \A k \in 1..w : r[k] \in Nat /\ s[k] \in Nat /\ r[k] % b = s[k] % b
  <2> SUFFICES ASSUME NEW k \in 1..w PROVE r[k] \in Nat /\ s[k] \in Nat /\ r[k] % b = s[k] % b
    OBVIOUS
  <2>1. Digits(i, b, w)[k] = r[k] % b
    BY <1>1 DEF IsRest
  <2>2. Digits(j, b, w)[k] = s[k] % b
    BY <1>2 DEF IsRest
  <2> QED
    BY <1>1, <1>2, <2>1, <2>2 DEF IsRest
<1>4. ASSUME NEW x \in Nat, NEW y \in Nat, x % b = y % b, x \div b = y \div b
      PROVE  x = y
  <2>1. x = b * (x \div b) + (x % b) /\ y = b * (y \div b) + (y % b)
    BY <1>0, Divided
  <2> QED
    BY <1>4, <2>1
<1>5. r[w] = s[w]
  <2>1. r[w] \in Nat /\ r[w] < b /\ s[w] \in Nat /\ s[w] < b
    BY <1>1, <1>2, LastDigit
  <2>2. \A x \in 0..(b - 1) : x % b = x
    BY <1>0, OwnRemainder
  <2>3. w \in 1..w
    OBVIOUS
  <2> QED
    BY <1>3, <2>1, <2>2, <2>3
<1> DEFINE Good(k) == r[w - k] = s[w - k]
           Bad == {k \in 0..(w - 1) : ~Good(k)}
<1>6. Good(0)
  <2>1. w - 0 = w
    OBVIOUS
  <2> QED
    BY <1>5, <2>1
<1>7. ASSUME NEW k \in 1..(w - 1), Good(k - 1) PROVE Good(k)
  <2> DEFINE m == w - k
  <2>1. m \in 1..w /\ m + 1 \in 2..w /\ w - (k - 1) = m + 1 /\ (m + 1) - 1 = m
    OBVIOUS
  <2> HIDE DEF m
  <2>2. r[m+1] = r[m] \div b /\ s[m+1] = s[m] \div b
    <3>1. r[m+1] = r[(m+1)-1] \div b
      BY <1>1, <2>1 DEF IsRest
    <3>2. s[m+1] = s[(m+1)-1] \div b
      BY <1>2, <2>1 DEF IsRest
    <3> QED
      BY <2>1, <3>1, <3>2
  <2>3. r[m] \div b = s[m] \div b
    BY <1>7, <2>1, <2>2
  <2>4. r[m] = s[m]
    BY <1>3, <1>4, <2>1, <2>3
  <2> QED
    BY <2>4 DEF m
<1> HIDE DEF Good
<1>8. Bad = {}
  <2> SUFFICES ASSUME Bad # {} PROVE FALSE
    OBVIOUS
  <2>1. PICK k \in Bad : \A y \in Bad : k <= y
    <3>1. Bad \in SUBSET Nat
      OBVIOUS
    <3> HIDE DEF Bad
    <3> QED
      BY <3>1, LeastNat
  <2>2. k \in 0..(w - 1) /\ ~Good(k) /\ k # 0
    BY <1>6, <2>1
  <2>3. k \in 1..(w - 1) /\ k - 1 \in 0..(w - 1) /\ ~(k <= k - 1)
    BY <2>2
  <2> QED
    BY <1>7, <2>1, <2>2, <2>3
<1>9. Good(w - 1)
  BY <1>8
<1>10. w - (w - 1) = 1
  OBVIOUS
<1> QED
  BY <1>1, <1>2, <1>9, <1>10 DEF Good, IsRest

(* The pattern of a number: its digits, the last one first.                *)
LEMMA PatternFacts ==
  ASSUME NEW i \in Nat, NEW b \in Nat, b > 1, NEW length \in Nat \ {0}
  PROVE  LET w == Larger(length, PrefixLength(b, i + 1))
         IN  /\ w \in Nat \ {0} /\ Pattern(i, b, length) = Digits(i, b, w)
             /\ Len(Pattern(i, b, length)) = w /\ i < Size(b, w)
             /\ Pattern(i, b, length)[1] = i % b
<1> DEFINE w == Larger(length, PrefixLength(b, i + 1))
           d == Digits(i, b, w)
<1>0. b \in Nat \ {0} /\ i + 1 \in Nat
  OBVIOUS
<1>1. PrefixLength(b, i + 1) \in Nat \ {0}
  BY <1>0, LengthFacts
<1>2. w \in Nat \ {0} /\ w >= PrefixLength(b, i + 1)
  <2> DEFINE k == PrefixLength(b, i + 1)
  <2> HIDE DEF k
  <2>1. k \in Nat \ {0}
    BY <1>1 DEF k
  <2>2. Larger(length, k) \in Nat /\ Larger(length, k) >= length /\ Larger(length, k) >= k
    BY <2>1, LargerFacts
  <2> QED
    BY <2>1, <2>2 DEF k
<1>3. i < Size(b, w)
  <2>1. Size(b, w) \in Nat /\ Size(b, w) >= i + 1
    BY <1>0, <1>2, LengthFacts
  <2> QED
    BY <2>1
<1> HIDE DEF w
<1>4. PICK rest : IsRest(rest, i, b, w)
  BY <1>2, DigitsFacts
<1>5. d = [k \in 1..w |-> rest[k] % b] /\ rest \in [1..w -> Nat] /\ rest[1] = i
  BY <1>4 DEF IsRest
<1>6. d \in Seq(Nat) /\ Len(d) = w /\ d[1] = i % b
  <2>1. \A k \in 1..w : rest[k] % b \in Nat
    <3> SUFFICES ASSUME NEW k \in 1..w PROVE rest[k] % b \in Nat
      OBVIOUS
    <3>1. rest[k] \in Nat
      BY <1>5
    <3>2. rest[k] % b \in 0..(b - 1)
      BY <1>0, <3>1, Divided
    <3> QED
      BY <1>0, <3>2
  <2> HIDE DEF d
  <2>2. d \in [1..w -> Nat]
    BY <1>5, <2>1
  <2>3. d \in Seq(Nat) /\ Len(d) = w
    BY <1>2, <2>2
  <2> QED
    BY <1>2, <1>5, <2>3
<1> HIDE DEF d
<1>7. Reverse(Reverse(d)) = d
  <2> DEFINE e == Reverse(d)
  <2>1. e = [k \in 1..w |-> d[(w - k) + 1]]
    BY <1>6 DEF Reverse
  <2>2. \A k \in 1..w : (w - k) + 1 \in 1..w /\ (w - ((w - k) + 1)) + 1 = k
    BY <1>2
  <2>3. Len(e) = w
    BY <1>2, <2>1
  <2>4. Reverse(e) = [k \in 1..w |-> e[(w - k) + 1]]
    <3> HIDE DEF e
    <3> QED
      BY <2>3 DEF Reverse
  <2>5. \A k \in 1..w : e[(w - k) + 1] = d[k]
    <3> HIDE DEF e
    <3> QED
      BY <2>1, <2>2
  <2>6. d = [k \in 1..w |-> d[k]]
    BY <1>6
  <2> HIDE DEF e
  <2> QED
    BY <2>4, <2>5, <2>6 DEF e
<1>8. Pattern(i, b, length) = d
  BY <1>7 DEF Pattern, FormatNumber, d, w
<1> QED
  BY <1>2, <1>3, <1>6, <1>8 DEF w, d

LEMMA PatternsDiffer ==
  ASSUME NEW i \in Nat, NEW j \in Nat, NEW b \in Nat, b > 1, NEW length \in Nat \ {0},
         Pattern(i, b, length) = Pattern(j, b, length)
  PROVE  i = j
<1> DEFINE v == Larger(length, PrefixLength(b, i + 1))
           w == Larger(length, PrefixLength(b, j + 1))
<1>1. /\ v \in Nat \ {0} /\ Pattern(i, b, length) = Digits(i, b, v)
      /\ Len(Pattern(i, b, length)) = v /\ i < Size(b, v)
  BY PatternFacts
<1>2. /\ w \in Nat \ {0} /\ Pattern(j, b, length) = Digits(j, b, w)
      /\ Len(Pattern(j, b, length)) = w /\ j < Size(b, w)
  BY PatternFacts
<1> HIDE DEF v, w
<1>3. v = w
  BY <1>1, <1>2
<1> QED
  BY <1>1, <1>2, <1>3, DigitsTell

-----------------------------------------------------------------------------
(* The prefix of every rank so far is that of its place in the map, which  *)
(* is one pattern, nothing, for the strategy without prefixes.             *)
Chosen(r) == IF base = Default THEN <<>> ELSE Map[r + 1]

PrefixOf(rank) ==
  IF base = Default THEN DefaultPrefix(rank) ELSE Prefix(Map, NoEpoch, rank)

PrefixTypes ==
  /\ base \in Nat /\ minLength \in Nat \ {0} /\ count \in Nat \ {0}
  /\ base = Default => count = 1
  /\ base = RoundRobin => users \in Seq(STRING) /\ Len(users) = count

PrefixInv ==
  about = "prefixes" =>
    /\ PrefixTypes /\ Len(prefixes) \in Nat
    /\ prefixes = [i \in 1..Len(prefixes) |-> PrefixOf(i - 1)]

LEMMA PrefixInvariant == Spec => []PrefixInv
<1>1. Init => PrefixInv
  <2> SUFFICES ASSUME Init, about = "prefixes" PROVE PrefixInv
    BY DEF PrefixInv
  <2>1. MakeStrategy /\ prefixes = <<>>
    BY DEF Init
  <2>2. base \in Bases /\ minLength \in MinLengths
    BY <2>1 DEF MakeStrategy
  <2>3. PrefixTypes
    <3>1. CASE Numeric /\ asked \in Counts
               /\ \E initialized \in BOOLEAN : count = PrefixCount(asked, MaxRanks, initialized)
      <4>1. PICK initialized \in BOOLEAN : count = PrefixCount(asked, MaxRanks, initialized)
        BY <3>1
      <4>2. asked \in Nat /\ MaxRanks \in Nat \ {0}
        BY <3>1, PrefixAssumption
      <4>3. count \in Nat \ {0}
        BY <4>1, <4>2 DEF PrefixCount, NoCount
      <4> QED
        BY <2>2, <3>1, <4>3, PrefixAssumption DEF PrefixTypes, Numeric
    <3>2. CASE base = RoundRobin /\ count = Len(users)
               /\ users \in {u \in UserLists : AcceptsUserPrefixes(u)}
      <4>1. users \in Seq(STRING) /\ users # <<>>
        BY <3>2, PrefixAssumption DEF AcceptsUserPrefixes
      <4>2. Len(users) \in Nat \ {0}
        BY <4>1, EmptySeq, LenProperties
      <4> QED
        BY <2>2, <3>2, <4>1, <4>2, PrefixAssumption DEF PrefixTypes, RoundRobin, Default
    <3>3. CASE base = Default /\ count = 1
      BY <2>2, <3>3, PrefixAssumption DEF PrefixTypes, RoundRobin, Default
    <3> QED
      BY <2>1, <3>1, <3>2, <3>3 DEF MakeStrategy
  <2>4. Len(prefixes) = 0 /\ prefixes = [i \in 1..0 |-> PrefixOf(i - 1)]
    BY <2>1
  <2> QED
    BY <2>3, <2>4 DEF PrefixInv
<1>2. PrefixInv /\ [Next]_vars => PrefixInv'
  <2> SUFFICES ASSUME PrefixInv, [Next]_vars, about' = "prefixes" PROVE PrefixInv'
    BY DEF PrefixInv
  <2>1. CASE UNCHANGED <<about, prefixVars>>
    <3>1. about = "prefixes" /\ base' = base /\ count' = count /\ minLength' = minLength
          /\ users' = users /\ prefixes' = prefixes
      BY <2>1 DEF prefixVars, strategy
    <3> QED
      BY <3>1 DEF PrefixInv, PrefixTypes, PrefixOf, Map
  <2>2. CASE PlanNextRank
    <3> DEFINE n == Len(prefixes)
               next == PrefixOf(n)
    <3>1. /\ about = "prefixes" /\ prefixes' = Append(prefixes, next)
          /\ base' = base /\ count' = count /\ minLength' = minLength /\ users' = users
      BY <2>2 DEF PlanNextRank, PrefixOf, strategy
    <3>2. n \in Nat /\ prefixes = [i \in 1..n |-> PrefixOf(i - 1)] /\ PrefixTypes
      BY <3>1 DEF PrefixInv
    <3>3. PrefixTypes'
      BY <3>1, <3>2 DEF PrefixTypes
    <3>4. \A i : PrefixOf(i)' = PrefixOf(i)
      BY <3>1 DEF PrefixOf, Map
    <3> DEFINE P == {PrefixOf(i - 1) : i \in 1..(n + 1)}
    <3>5. prefixes \in Seq(P) /\ next \in P
      <4>1. \A i \in 1..n : PrefixOf(i - 1) \in P
        OBVIOUS
      <4>2. prefixes \in [1..n -> P]
        BY <3>2, <4>1
      <4>3. n + 1 \in 1..(n + 1) /\ (n + 1) - 1 = n
        BY <3>2
      <4>4. next \in P
        BY <4>3
      <4> HIDE DEF P
      <4> QED
        BY <3>2, <4>2, <4>4
    <3> HIDE DEF P, n, next
    <3>6. /\ prefixes' \in Seq(P) /\ Len(prefixes') = n + 1 /\ prefixes'[n + 1] = next
          /\ \A i \in 1..n : prefixes'[i] = prefixes[i]
      BY <3>1, <3>2, <3>5, AppendProperties DEF n
    <3>7. prefixes' = [i \in 1..Len(prefixes') |-> prefixes'[i]]
      BY <3>6
    <3>8. ASSUME NEW i \in 1..(n + 1) PROVE prefixes'[i] = PrefixOf(i - 1)'
      <4>1. CASE i = n + 1
        <5>1. i - 1 = n
          BY <3>2, <4>1
        <5> QED
          BY <3>4, <3>6, <4>1, <5>1 DEF next
      <4>2. CASE i # n + 1
        <5>1. i \in 1..n
          BY <3>2, <4>2
        <5> QED
          BY <3>2, <3>4, <3>6, <5>1
      <4> QED
        BY <4>1, <4>2
    <3>9. prefixes' = [i \in 1..Len(prefixes') |-> PrefixOf(i - 1)']
      BY <3>6, <3>7, <3>8
    <3>10. Len(prefixes') \in Nat
      BY <3>2, <3>6
    <3> QED
      BY <3>3, <3>9, <3>10 DEF PrefixInv
  <2>3. UNCHANGED <<about, prefixVars>> \/ PlanNextRank
    BY DEF Next, vars, Add, prefixVars, strategy
  <2> QED
    BY <2>1, <2>2, <2>3
<1> QED
  BY <1>1, <1>2, PTL DEF Spec

(* The map has a prefix for each of its places; those of the numeric       *)
(* strategies are all different, and neighbours differ in the first        *)
(* character.                                                              *)
LEMMA MapFacts ==
  ASSUME PrefixTypes
  PROVE  /\ base # Default => Len(Map) = count
         /\ Numeric => /\ \A r, s \in 0..(count - 1) : Chosen(r) = Chosen(s) => r = s
                       /\ \A r \in 1..(count - 1) : Map[r + 1][1] # Map[r][1]
<1>1. count \in Nat \ {0}
  BY DEF PrefixTypes
<1>2. CASE base = Default
  BY <1>2 DEF Numeric
<1>3. CASE base = RoundRobin
  BY <1>3 DEF PrefixTypes, Map, Numeric
<1>4. CASE base # Default /\ base # RoundRobin
  <2> DEFINE length == Larger(PrefixLength(base, count), minLength)
  <2>1. base \in Nat /\ base > 1
    BY <1>4 DEF PrefixTypes, Default, RoundRobin
  <2>2. length \in Nat \ {0}
    <3>1. PrefixLength(base, count) \in Nat \ {0} /\ minLength \in Nat \ {0}
      BY <1>1, <2>1, LengthFacts DEF PrefixTypes
    <3> QED
      BY <3>1 DEF Larger
  <2>3. Map = [k \in 1..count |-> Pattern(k - 1, base, length)]
    BY <1>4 DEF Map, PrefixMap
  <2> HIDE DEF length
  <2>4. \A r \in 0..(count - 1) : r + 1 \in 1..count /\ (r + 1) - 1 = r
    BY <1>1
  <2>5. \A r \in 0..(count - 1) : Map[r + 1] = Pattern(r, base, length)
    BY <2>3, <2>4
  <2>6. ASSUME NEW r \in 0..(count - 1), NEW s \in 0..(count - 1), Chosen(r) = Chosen(s)
        PROVE  r = s
    <3>1. Pattern(r, base, length) = Pattern(s, base, length)
      BY <1>4, <2>5, <2>6 DEF Chosen
    <3> QED
      BY <2>1, <2>2, <3>1, PatternsDiffer
  <2>7. Len(Map) = count
    BY <1>1, <2>3
  <2>8. ASSUME NEW r \in 1..(count - 1) PROVE Map[r + 1][1] # Map[r][1]
    <3>1. r - 1 \in Nat /\ r - 1 \in 0..(count - 1) /\ r \in 0..(count - 1) /\ (r - 1) + 1 = r
      BY <1>1
    <3>2. Map[r + 1] = Pattern(r, base, length) /\ Map[r] = Pattern(r - 1, base, length)
      BY <2>5, <3>1
    <3>3. \A i \in Nat : Pattern(i, base, length)[1] = i % base
      BY <2>1, <2>2, PatternFacts
    <3>4. Map[r + 1][1] = r % base /\ Map[r][1] = (r - 1) % base
      BY <3>1, <3>2, <3>3
    <3> DEFINE m == r - 1
    <3>5. m \in Nat /\ m + 1 = r /\ base \in Nat \ {0}
      BY <2>1, <3>1
    <3> HIDE DEF m
    <3>6. IF m % base = base - 1 THEN (m + 1) % base = 0 ELSE (m + 1) % base = (m % base) + 1
      BY <3>5, DividedNext
    <3>7. m % base \in 0..(base - 1)
      BY <3>5, Divided
    <3>8. (m + 1) % base # m % base
      BY <2>1, <3>6, <3>7
    <3> QED
      BY <3>4, <3>5, <3>8 DEF m
  <2> QED
    BY <2>6, <2>7, <2>8
<1> QED
  BY <1>2, <1>3, <1>4

-----------------------------------------------------------------------------
(* Which ranks have which pattern.                                         *)
LEMMA PlannedFacts ==
  ASSUME PrefixInv, about = "prefixes"
  PROVE  /\ PrefixTypes /\ Len(prefixes) \in Nat
         /\ \A i \in Planned : (i - 1) % count \in 0..(count - 1)
                              /\ prefixes[i][1] = Chosen((i - 1) % count)
<1>1. /\ PrefixTypes /\ Len(prefixes) \in Nat
      /\ prefixes = [i \in 1..Len(prefixes) |-> PrefixOf(i - 1)]
  BY DEF PrefixInv
<1>2. ASSUME NEW i \in Planned
      PROVE  /\ (i - 1) % count \in 0..(count - 1)
             /\ prefixes[i][1] = Chosen((i - 1) % count)
  <2>1. i \in 1..Len(prefixes) /\ i - 1 \in Nat /\ count \in Nat \ {0}
    BY <1>1, <1>2 DEF Planned, PrefixTypes
  <2>2. prefixes[i] = PrefixOf(i - 1)
    BY <1>1, <2>1
  <2> DEFINE r == i - 1
  <2> HIDE DEF r
  <2>3. r % count \in 0..(count - 1)
    BY <2>1, Divided DEF r
  <2>4. CASE base = Default
    BY <2>2, <2>3, <2>4 DEF PrefixOf, DefaultPrefix, Chosen, r
  <2>5. CASE base # Default
    <3>1. PrefixOf(r)[1] = Map[(r % count) + 1]
      BY <1>1, <2>5, MapFacts DEF PrefixOf, Prefix, Pick
    <3> QED
      BY <2>2, <2>3, <2>5, <3>1 DEF Chosen, r
  <2> QED
    BY <2>4, <2>5
<1> QED
  BY <1>1, <1>2

(* As many numeric patterns are in use as there are ranks, or all.         *)
LEMMA PatternsInUse ==
  ASSUME PrefixInv, about = "prefixes", Numeric
  PROVE  Cardinality(Patterns) = IF Len(prefixes) < count THEN Len(prefixes) ELSE count
<1> DEFINE n == Len(prefixes)
           m == IF n < count THEN n ELSE count
           f == [k \in 1..m |-> Chosen(k - 1)]
<1>1. n \in Nat /\ count \in Nat \ {0} /\ m \in Nat /\ m <= n /\ m <= count
  BY PlannedFacts DEF PrefixTypes
<1>2. PrefixTypes /\ \A i \in Planned : (i - 1) % count \in 0..(count - 1)
                                    /\ prefixes[i][1] = Chosen((i - 1) % count)
  BY PlannedFacts
<1>3. Planned = 1..n
  BY DEF Planned
<1>0. n < count => m = n
  OBVIOUS
<1>9. ~(n < count) => m = count
  OBVIOUS
<1> HIDE DEF m, n
<1>4. \A k \in 1..m : /\ k - 1 \in 0..(count - 1) /\ k \in Planned
                      /\ prefixes[k][1] = Chosen(k - 1)
  <2> SUFFICES ASSUME NEW k \in 1..m
               PROVE  /\ k - 1 \in 0..(count - 1) /\ k \in Planned
                      /\ prefixes[k][1] = Chosen(k - 1)
    OBVIOUS
  <2>1. k - 1 \in 0..(count - 1) /\ k \in Planned
    BY <1>1, <1>3
  <2>2. (k - 1) % count = k - 1
    BY <1>1, <2>1, OwnRemainder
  <2> QED
    BY <1>2, <2>1, <2>2
<1>5. f \in [1..m -> Patterns]
  <2>1. \A k \in 1..m : Chosen(k - 1) \in Patterns
    BY <1>4 DEF Patterns
  <2> QED
    BY <2>1
<1>6. \A j, k \in 1..m : f[j] = f[k] => j = k
  <2> SUFFICES ASSUME NEW j \in 1..m, NEW k \in 1..m, f[j] = f[k] PROVE j = k
    OBVIOUS
  <2>1. Chosen(j - 1) = Chosen(k - 1)
    OBVIOUS
  <2>2. j - 1 = k - 1
    BY <1>2, <1>4, <2>1, MapFacts
  <2> QED
    BY <1>1, <2>2
<1>7. \A p \in Patterns : \E k \in 1..m : f[k] = p
  <2> SUFFICES ASSUME NEW i \in Planned PROVE \E k \in 1..m : f[k] = prefixes[i][1]
    BY DEF Patterns
  <2> DEFINE r == (i - 1) % count
  <2>1. r \in 0..(count - 1) /\ prefixes[i][1] = Chosen(r) /\ i \in 1..n
    BY <1>2, <1>3
  <2>2. r + 1 \in 1..m
    <3>1. CASE n < count
      <4>1. i - 1 \in 0..(count - 1)
        BY <1>1, <2>1, <3>1
      <4>2. r = i - 1
        BY <1>1, <4>1, OwnRemainder
      <4> QED
        BY <1>0, <1>1, <2>1, <3>1, <4>2
    <3>2. CASE ~(n < count)
      <4> HIDE DEF r
      <4> QED
        BY <1>1, <1>9, <2>1, <3>2
    <3> QED
      BY <3>1, <3>2
  <2> HIDE DEF r
  <2>3. f[r + 1] = Chosen(r)
    <3>1. (r + 1) - 1 = r
      BY <2>1
    <3> QED
      BY <2>2, <3>1
  <2> QED
    BY <2>1, <2>2, <2>3
<1> HIDE DEF f
<1>8. f \in Bijection(1..m, Patterns)
  <2>1. f \in Injection(1..m, Patterns)
    BY <1>5, <1>6, Fun_IsInj
  <2>2. f \in Surjection(1..m, Patterns)
    BY <1>5, <1>7, Fun_IsSurj
  <2> QED
    BY <2>1, <2>2 DEF Bijection
<1>10. IsFiniteSet(1..m) /\ Cardinality(1..m) = m
  BY <1>1, FS_Interval
<1>11. Cardinality(Patterns) = m
  BY <1>8, <1>10, FS_Bijection DEF ExistsBijection
<1> QED
  BY <1>11 DEF m, n

(* The ranks that have a prefix are those dealt to its places.             *)
LEMMA PrefixUsers ==
  ASSUME PrefixInv, about = "prefixes", base # Default, NEW p
  PROVE  LET users_ == Cardinality({i \in Planned : prefixes[i][1] = p})
             places == Cardinality({k \in 1..count : Map[k] = p})
             n == Len(prefixes)
         IN  places * (n \div count) <= users_ /\ users_ <= places * ((n + count - 1) \div count)
<1> DEFINE K == {k \in 1..count : Map[k] = p}
           n == Len(prefixes)
<1>1. count \in Nat \ {0} /\ n \in Nat
  BY PlannedFacts DEF PrefixTypes
<1>2. {i \in Planned : prefixes[i][1] = p} = {i \in 1..n : ((i - 1) % count) + 1 \in K}
  <2>1. ASSUME NEW i \in Planned
        PROVE  prefixes[i][1] = p <=> ((i - 1) % count) + 1 \in K
    <3> DEFINE r == (i - 1) % count
    <3>1. r \in 0..(count - 1) /\ prefixes[i][1] = Chosen(r)
      BY PlannedFacts
    <3> HIDE DEF r
    <3>2. r + 1 \in 1..count /\ Chosen(r) = Map[r + 1]
      BY <1>1, <3>1 DEF Chosen
    <3>3. prefixes[i][1] = p <=> r + 1 \in K
      BY <3>1, <3>2
    <3> QED
      BY <3>3 DEF r
  <2> HIDE DEF K
  <2> QED
    BY <2>1 DEF Planned
<1>3. K \in SUBSET (1..count)
  OBVIOUS
<1> HIDE DEF K, n
<1>4. LET dealt == {i \in 1..n : ((i - 1) % count) + 1 \in K}
      IN  /\ Cardinality(K) * (n \div count) <= Cardinality(dealt)
          /\ Cardinality(dealt) <= Cardinality(K) * ((n + count - 1) \div count)
  BY <1>1, <1>3, SharesOfPlaces
<1> QED
  BY <1>2, <1>4, Zenon DEF K, n

(***************************************************************************)
(* The prefixes of the ranks spread: each gets its share of the ranks, also*)
(* those of a user's list, whatever it repeats.  Of the numeric ones as    *)
(* many are in use as there are ranks, or all of prefix_count, and those of*)
(* neighbouring ranks differ in the first character (_generate_prefix_map  *)
(* and generate_prefix).                                                   *)
(***************************************************************************)
THEOREM PrefixesAreSpread == Spec => []PrefixesSpread
<1>1. PrefixInv => PrefixesSpread
  <2> SUFFICES ASSUME PrefixInv, about = "prefixes", base # Default PROVE PrefixesSpread
    BY DEF PrefixesSpread
  <2> DEFINE n == Len(prefixes)
             map == Map
             Users(p) == Cardinality({i \in Planned : prefixes[i][1] = p})
             Places(p) == Cardinality({k \in 1..count : map[k] = p})
  <2>1. n \in Nat /\ count \in Nat \ {0} /\ PrefixTypes
    BY PlannedFacts DEF PrefixTypes
  <2>2. ASSUME NEW k \in 1..count
        PROVE  /\ Places(map[k]) * (n \div count) <= Users(map[k])
               /\ Users(map[k]) <= Places(map[k]) * ((n + count - 1) \div count)
    <3> DEFINE p == map[k]
    <3> HIDE DEF p
    <3>1. /\ Places(p) * (n \div count) <= Users(p)
          /\ Users(p) <= Places(p) * ((n + count - 1) \div count)
      BY PrefixUsers, Zenon
    <3> QED
      BY <3>1, Zenon DEF p
  <2>3. Numeric => Cardinality(Patterns) = IF n < count THEN n ELSE count
    BY PatternsInUse
  <2>4. ASSUME Numeric, NEW i \in 2..n, count > 1, i <= count
        PROVE  prefixes[i][1][1] # prefixes[i-1][1][1]
    <3> DEFINE r == i - 1
    <3>1. /\ i \in Planned /\ r \in Planned /\ r \in 1..(count - 1)
          /\ r \in 0..(count - 1) /\ r - 1 \in 0..(count - 1) /\ (r - 1) + 1 = r /\ r + 1 = i
      BY <2>1, <2>4 DEF Planned
    <3> HIDE DEF r
    <3>2. r % count = r /\ (r - 1) % count = r - 1
      BY <2>1, <3>1, OwnRemainder
    <3>3. prefixes[i][1] = Chosen(r) /\ prefixes[r][1] = Chosen(r - 1)
      BY <3>1, <3>2, PlannedFacts DEF r
    <3>4. Chosen(r)[1] # Chosen(r - 1)[1]
      BY <2>1, <2>4, <3>1, MapFacts DEF Chosen
    <3> QED
      BY <3>3, <3>4 DEF r
  <2> HIDE DEF n, map, Users, Places
  <2>5. Numeric => \A i \in 2..n :
          count > 1 /\ i <= count => prefixes[i][1][1] # prefixes[i-1][1][1]
    BY <2>4
  <2> USE DEF n, map, Users, Places
  <2> QED
    BY <2>2, <2>3, <2>5, Zenon DEF PrefixesSpread
<1> QED
  BY <1>1, PrefixInvariant, PTL

-----------------------------------------------------------------------------
(* Names.                                                                  *)

(* The strings that paths and names are made of.                           *)
Strings ==
  {"s3:", "/", ".metadata", ".metadata.tmp"}
  \cup UNION {Names!ToSet(s) : s \in Texts \cup Files}

IsName(s) ==
  s \in Seq(Strings) \ {<<>>} /\ \A i \in 1..(Len(s) - 1) : "/" \in {s[i], s[i + 1]}

LEMMA FourOrMore == \A n \in Nat : n >= 4 => n = 4 \/ n >= 5
  OBVIOUS

LEMMA UpToThree == \A n \in Nat : n >= 1 => n = 1 \/ n = 2 \/ n = 3 \/ n >= 4
  OBVIOUS

LEMMA ConstantNames ==
  /\ "s3:" \in Strings /\ "/" \in Strings
  /\ IsName(Names!Tmp) /\ IsName(Names!Metadata)
  /\ Len(Names!Tmp) = 1 /\ Names!Tmp[1] = ".metadata.tmp"
  /\ Len(Names!Metadata) = 1 /\ Names!Metadata[1] = ".metadata"
  /\ Names!Scheme \in Seq(Strings) /\ Len(Names!Scheme) = 3
  /\ Names!Scheme[1] = "s3:" /\ Names!Scheme[2] = "/" /\ Names!Scheme[3] = "/"
<1>1. /\ "s3:" \in Strings /\ "/" \in Strings
      /\ ".metadata" \in Strings /\ ".metadata.tmp" \in Strings
  BY DEF Strings
<1> QED
  BY <1>1 DEF IsName, Names!Tmp, Names!Metadata, Names!Scheme

LEMMA ListsAreNames ==
  /\ \A t \in Texts : IsName(t) /\ \E i \in 1..Len(t) : t[i] # "/"
  /\ \A t \in Texts : \A i \in 1..Len(t) : t[i] # "a%2520b"
  /\ \A f \in Files : /\ IsName(f) /\ f[Len(f)] # ".metadata"
                      /\ f[Len(f)] # ".metadata.tmp"
<1>1. ASSUME NEW s, Names!ToSet(s) \subseteq Strings, Names!IsName(s) PROVE IsName(s)
  <2> DEFINE T == Names!ToSet(s)
  <2>1. s \in Seq(T) /\ s # <<>>
    BY <1>1 DEF Names!IsName
  <2> HIDE DEF T
  <2>2. s \in Seq(Strings)
    BY <1>1, <2>1 DEF T
  <2> QED
    BY <1>1, <2>1, <2>2 DEF IsName, Names!IsName
<1>2. ASSUME NEW s, IsName(s)
      PROVE  Names!ToSet(s) = {s[i] : i \in 1..Len(s)}
  BY <1>2 DEF IsName, Names!ToSet
<1>3. ASSUME NEW t \in Texts
      PROVE  /\ IsName(t) /\ \E i \in 1..Len(t) : t[i] # "/"
             /\ \A i \in 1..Len(t) : t[i] # "a%2520b"
  <2> DEFINE p == [text |-> t, isPath |-> TRUE]
  <2>1. p \in [text : Texts, isPath : BOOLEAN] /\ p.text = t
    OBVIOUS
  <2>2. Names!IsName(t) /\ Names!ToSet(t) # {"/"} /\ "a%2520b" \notin Names!ToSet(t)
    BY <2>1, NamesAssumption DEF Names!ConstantsAssumption
  <2>3. IsName(t)
    BY <1>1, <2>2 DEF Strings
  <2>4. Names!ToSet(t) = {t[i] : i \in 1..Len(t)} /\ 1 \in 1..Len(t)
    BY <1>2, <2>3 DEF IsName
  <2> QED
    BY <2>2, <2>3, <2>4
<1>4. ASSUME NEW g \in Files
      PROVE  /\ IsName(g) /\ g[Len(g)] # ".metadata" /\ g[Len(g)] # ".metadata.tmp"
  <2>1. /\ Names!IsName(g) /\ g[Len(g)] # ".metadata" /\ g[Len(g)] # ".metadata.tmp"
    BY NamesAssumption DEF Names!ConstantsAssumption, Names!Last
  <2>2. Names!ToSet(g) \subseteq Strings
    BY DEF Strings
  <2> QED
    BY <1>1, <2>1, <2>2
<1> QED
  BY <1>3, <1>4

(* A URI with a bucket: "s3://" and what is not a slash. *)
IsUri(u) ==
  Len(u) >= 4 /\ u[1] = "s3:" /\ u[2] = "/" /\ u[3] = "/" /\ u[4] # "/"

(* parse_s3_uri: what is behind the slash that ends the bucket.            *)
LEMMA ParseFacts ==
  ASSUME NEW u \in Seq(Strings)
  PROVE  /\ ~IsUri(u) => Names!ParseS3Uri(u) = Names!Invalid
         /\ IsUri(u) /\ Len(u) = 4 =>
              Names!ParseS3Uri(u) = [bucket |-> u[4], key |-> <<>>]
         /\ IsUri(u) /\ Len(u) > 4 /\ u[5] = "/" =>
              Names!ParseS3Uri(u) = [bucket |-> u[4], key |-> SubSeq(u, 6, Len(u))]
<1> DEFINE ends == {i \in Names!Slashes(u) : i > 4}
<1>1. Names!IsPrefix(Names!Scheme, u) <=>
        Len(u) >= 3 /\ u[1] = "s3:" /\ u[2] = "/" /\ u[3] = "/"
  <2> DEFINE a == SubSeq(Names!Scheme, 1, 3)
             b == SubSeq(u, 1, 3)
  <2>1. Len(Names!Scheme) = 3 /\ Len(u) \in Nat
    BY ConstantNames
  <2>2. a \in Seq(Strings) /\ Len(a) = 3 /\ a[1] = "s3:" /\ a[2] = "/" /\ a[3] = "/"
    BY <2>1, ConstantNames
  <2>3. Len(u) >= 3 =>
          b \in Seq(Strings) /\ Len(b) = 3 /\ b[1] = u[1] /\ b[2] = u[2] /\ b[3] = u[3]
    BY <2>1
  <2> HIDE DEF a, b
  <2>4. ASSUME Len(u) >= 3, u[1] = "s3:", u[2] = "/", u[3] = "/" PROVE a = b
    <3>1. \A i \in 1..Len(a) : a[i] = b[i]
      BY <2>2, <2>3, <2>4
    <3> QED
      BY <2>2, <2>3, <2>4, <3>1, SeqEqual
  <2>5. Names!IsPrefix(Names!Scheme, u) <=> 3 <= Len(u) /\ a = b
    BY <2>1 DEF Names!IsPrefix, a, b
  <2> QED
    BY <2>1, <2>2, <2>3, <2>4, <2>5
<1>3. IsUri(u) <=> ~(~Names!IsPrefix(Names!Scheme, u) \/ Len(u) = 3 \/ u[4] = "/")
  <2>1. Len(u) >= 4 <=> (Len(u) >= 3 /\ ~(Len(u) = 3))
    <3> DEFINE n == Len(u)
    <3> SUFFICES n >= 4 <=> (n >= 3 /\ ~(n = 3))
      OBVIOUS
    <3>1. n \in Nat
      OBVIOUS
    <3> HIDE DEF n
    <3> QED
      BY <3>1
  <2> QED
    BY <1>1, <2>1, Zenon DEF IsUri
<1>4. ~IsUri(u) => Names!ParseS3Uri(u) = Names!Invalid
  BY <1>3 DEF Names!ParseS3Uri
<1>5. IsUri(u) => Names!ParseS3Uri(u) =
        [bucket |-> u[4],
         key |-> IF ends = {} THEN <<>> ELSE SubSeq(u, Names!Min(ends) + 1, Len(u))]
  BY <1>3 DEF Names!ParseS3Uri
<1>6. Len(u) = 4 => ends = {}
  BY DEF Names!Slashes
<1>7. ASSUME Len(u) > 4, u[5] = "/" PROVE ends # {} /\ Names!Min(ends) = 5
  <2>1. 5 \in ends /\ \A i \in ends : i \in Int /\ 5 <= i
    BY <1>7 DEF Names!Slashes
  <2> HIDE DEF ends
  <2> QED
    BY <2>1 DEF Names!Min
<1> HIDE DEF ends
<1> QED
  BY <1>4, <1>5, <1>6, <1>7, SMTT(30)

(* os.path.join of a directory and a relative name.                        *)
LEMMA JoinFacts ==
  ASSUME NEW t \in Seq(Strings) \ {<<>>}, NEW f \in Seq(Strings) \ {<<>>}, f[1] # "/"
  PROVE  LET u == Names!Join(t, f)
             n == IF t[Len(t)] = "/" THEN Len(t) ELSE Len(t) + 1
         IN  /\ u \in Seq(Strings) /\ Len(u) = n + Len(f)
             /\ \A i \in 1..Len(t) : u[i] = t[i]
             /\ \A i \in 1..Len(f) : u[n + i] = f[i]
             /\ n > Len(t) => u[n] = "/"
<1> DEFINE u == Names!Join(t, f)
           n == IF t[Len(t)] = "/" THEN Len(t) ELSE Len(t) + 1
           s == t \o (IF t[Len(t)] = "/" THEN <<>> ELSE <<"/">>)
<1>1. /\ t \in Seq(Strings) /\ t # <<>> /\ Len(t) \in Nat
      /\ f \in Seq(Strings) /\ f # <<>> /\ Len(f) \in Nat
  OBVIOUS
<1>2. u = s \o f
  BY <1>1 DEF Names!Join, Names!Last
<1>3. s \in Seq(Strings) /\ Len(s) = n /\ n \in Nat /\ n >= Len(t)
      /\ (\A i \in 1..Len(t) : s[i] = t[i]) /\ (n > Len(t) => s[n] = "/")
  <2>1. CASE t[Len(t)] = "/"
    <3>1. s = t
      BY <1>1, <2>1, ConcatEmptySeq
    <3> QED
      BY <1>1, <2>1, <3>1
  <2>2. CASE t[Len(t)] # "/"
    BY <1>1, <2>2, ConstantNames
  <2> QED
    BY <2>1, <2>2
<1> HIDE DEF s, n, u
<1>4. u \in Seq(Strings) /\ Len(u) = n + Len(f) /\ (\A i \in 1..Len(s) : u[i] = s[i])
      /\ \A i \in 1..Len(f) : u[n + i] = f[i]
  <2>1. /\ s \o f \in Seq(Strings) /\ Len(s \o f) = Len(s) + Len(f)
        /\ \A i \in 1..(Len(s) + Len(f)) :
             (s \o f)[i] = IF i <= Len(s) THEN s[i] ELSE f[i - Len(s)]
    BY <1>1, <1>3, ConcatProperties
  <2>2. \A i \in 1..Len(f) : n + i \in 1..(Len(s) + Len(f)) /\ ~(n + i <= Len(s)) /\ (n + i) - Len(s) = i
    BY <1>1, <1>3
  <2>3. \A i \in 1..Len(s) : i \in 1..(Len(s) + Len(f))
    BY <1>1, <1>3
  <2> QED
    BY <1>2, <1>3, <2>1, <2>2, <2>3
<1>5. n > Len(t) => u[n] = "/"
  BY <1>1, <1>3, <1>4
<1>6. \A i \in 1..Len(t) : u[i] = t[i]
  BY <1>1, <1>3, <1>4
<1> QED
  BY <1>4, <1>5, <1>6 DEF u, n

(* The object of a name in a directory with a bucket, ...                  *)
LEMMA ObjectFacts ==
  ASSUME NEW t, IsName(t), IsUri(t), NEW f, IsName(f), f[1] # "/"
  PROVE  LET u == Names!Join(t, f)
             o == Names!ParseS3Uri(u)
         IN  /\ u \in Seq(Strings) /\ Len(u) >= 6 /\ IsUri(u) /\ u[5] = "/"
             /\ o = [bucket |-> t[4], key |-> SubSeq(u, 6, Len(u))]
             /\ o.bucket = t[4] /\ o.key # <<>> /\ o.key[Len(o.key)] = f[Len(f)]
             /\ Names!Scheme \o <<t[4], "/">> \o o.key = u
<1> DEFINE u == Names!Join(t, f)
           n == IF t[Len(t)] = "/" THEN Len(t) ELSE Len(t) + 1
           o == Names!ParseS3Uri(u)
<1>1. /\ t \in Seq(Strings) /\ Len(t) \in Nat /\ Len(t) >= 4
      /\ f \in Seq(Strings) /\ f # <<>> /\ Len(f) \in Nat /\ Len(f) >= 1
  BY DEF IsName, IsUri
<1>2. /\ u \in Seq(Strings) /\ Len(u) = n + Len(f)
      /\ \A i \in 1..Len(t) : u[i] = t[i]
      /\ \A i \in 1..Len(f) : u[n + i] = f[i]
      /\ n > Len(t) => u[n] = "/"
  BY JoinFacts DEF IsName
<1>3. n \in Nat /\ n >= Len(t) /\ n >= 5 /\ n <= Len(t) + 1
  <2>1. Len(t) = 4 => t[Len(t)] # "/"
    BY DEF IsUri
  <2>2. Len(t) = 4 \/ Len(t) >= 5
    BY <1>1, FourOrMore, Zenon
  <2>3. CASE t[Len(t)] = "/"
    BY <1>1, <2>1, <2>2, <2>3
  <2>4. CASE t[Len(t)] # "/"
    BY <1>1, <2>4
  <2> QED
    BY <2>3, <2>4
<1> HIDE DEF u, n
<1>4. u[1] = "s3:" /\ u[2] = "/" /\ u[3] = "/" /\ u[4] = t[4] /\ t[4] # "/"
  BY <1>1, <1>2 DEF IsUri
<1>5. u[5] = "/"
  <2>1. CASE Len(t) = 4
    <3>1. n = 5
      BY <1>3, <2>1
    <3> QED
      BY <1>2, <2>1, <3>1
  <2>2. CASE Len(t) >= 5
    <3>1. 4 \in 1..(Len(t) - 1) /\ 5 \in 1..Len(t)
      BY <1>1, <2>2
    <3>2. "/" \in {t[4], t[4 + 1]} /\ 4 + 1 = 5
      BY <3>1 DEF IsName
    <3> QED
      BY <1>2, <1>4, <3>1, <3>2
  <2> QED
    BY <1>1, <2>1, <2>2, FourOrMore, Zenon
<1>6. Len(u) \in Nat /\ Len(u) >= 6
  BY <1>1, <1>2, <1>3
<1>7. IsUri(u)
  BY <1>4, <1>6 DEF IsUri
<1>8. o = [bucket |-> t[4], key |-> SubSeq(u, 6, Len(u))]
  BY <1>2, <1>4, <1>5, <1>6, <1>7, ParseFacts
<1> DEFINE key == SubSeq(u, 6, Len(u))
<1>9. /\ key \in Seq(Strings) /\ Len(key) = Len(u) - 5
      /\ \A i \in 1..Len(key) : key[i] = u[i + 5]
  BY <1>2, <1>6
<1> HIDE DEF key
<1>10. key # <<>> /\ key[Len(key)] = f[Len(f)]
  <2>1. Len(key) \in 1..Len(key) /\ Len(key) + 5 = Len(u) /\ Len(f) \in 1..Len(f)
    BY <1>1, <1>6, <1>9
  <2>2. u[Len(u)] = f[Len(f)]
    BY <1>2, <2>1
  <2>3. key[Len(key)] = u[Len(key) + 5]
    BY <1>9, <2>1
  <2> QED
    BY <1>6, <1>9, <2>1, <2>2, <2>3
<1>11. Names!Scheme \o <<t[4], "/">> \o key = u
  <2> DEFINE a == <<t[4], "/">>
             b == Names!Scheme \o a
  <2>1. 4 \in 1..Len(t) /\ t[4] \in Strings /\ "/" \in Strings
    BY <1>1, ConstantNames
  <2>2. a \in Seq(Strings) /\ Len(a) = 2 /\ a[1] = t[4] /\ a[2] = "/"
    BY <2>1
  <2> HIDE DEF a
  <2>3. b \in Seq(Strings) /\ Len(b) = 5
        /\ b[1] = "s3:" /\ b[2] = "/" /\ b[3] = "/" /\ b[4] = t[4] /\ b[5] = "/"
    <3>1. /\ b \in Seq(Strings) /\ Len(b) = 3 + 2
          /\ \A i \in 1..(3 + 2) : b[i] = IF i <= 3 THEN Names!Scheme[i] ELSE a[i - 3]
      <4>1. Names!Scheme \in Seq(Strings) /\ a \in Seq(Strings)
            /\ Len(Names!Scheme) = 3 /\ Len(a) = 2
        BY <2>2, ConstantNames
      <4>2. /\ b \in Seq(Strings) /\ Len(b) = Len(Names!Scheme) + Len(a)
            /\ \A i \in 1..(Len(Names!Scheme) + Len(a)) :
                 b[i] = IF i <= Len(Names!Scheme) THEN Names!Scheme[i]
                        ELSE a[i - Len(Names!Scheme)]
        BY <4>1, ConcatProperties
      <4> QED
        BY <4>1, <4>2
    <3>2. b[1] = Names!Scheme[1] /\ b[2] = Names!Scheme[2] /\ b[3] = Names!Scheme[3]
          /\ b[4] = a[1] /\ b[5] = a[2]
      BY <3>1
    <3> QED
      BY <2>2, <3>1, <3>2, ConstantNames
  <2> HIDE DEF b
  <2>4. b \o key \in Seq(Strings) /\ Len(b \o key) = Len(u)
        /\ (\A i \in 1..5 : (b \o key)[i] = b[i])
        /\ \A i \in 1..Len(key) : (b \o key)[i + 5] = key[i]
    <3>1. /\ b \o key \in Seq(Strings) /\ Len(b \o key) = Len(b) + Len(key)
          /\ \A i \in 1..(Len(b) + Len(key)) :
               (b \o key)[i] = IF i <= Len(b) THEN b[i] ELSE key[i - Len(b)]
      <4>1. b \in Seq(Strings) /\ key \in Seq(Strings)
        BY <1>9, <2>3
      <4> QED
        BY ONLY <4>1, ConcatProperties
    <3>2. \A i \in 1..5 : i \in 1..(Len(b) + Len(key)) /\ i <= Len(b)
      BY <1>6, <1>9, <2>3
    <3>3. \A i \in 1..Len(key) :
            i + 5 \in 1..(Len(b) + Len(key)) /\ ~(i + 5 <= Len(b)) /\ (i + 5) - Len(b) = i
      BY <1>6, <1>9, <2>3
    <3>4. Len(b) + Len(key) = Len(u)
      BY <1>6, <1>9, <2>3
    <3> QED
      BY <3>1, <3>2, <3>3, <3>4
  <2>5. \A i \in 1..5 : b[i] = u[i]
    BY <1>4, <1>5, <2>3
  <2>6. ASSUME NEW i \in 1..Len(u) PROVE (b \o key)[i] = u[i]
    <3>1. CASE i <= 5
      <4>1. i \in 1..5
        BY <1>6, <2>6, <3>1
      <4> QED
        BY <2>4, <2>5, <4>1, Zenon
    <3>2. CASE i > 5
      <4>1. i - 5 \in 1..Len(key) /\ (i - 5) + 5 = i
        BY <1>6, <1>9, <2>6, <3>2
      <4>2. (b \o key)[(i - 5) + 5] = key[i - 5] /\ key[i - 5] = u[(i - 5) + 5]
        BY <1>9, <2>4, <4>1
      <4> QED
        BY <4>1, <4>2
    <3>3. i <= 5 \/ i > 5
      BY <1>6, <2>6
    <3> QED
      BY <3>1, <3>2, <3>3
  <2>7. b \o key = u
    BY <1>2, <2>4, <2>6, SeqEqual
  <2> QED
    BY <2>7 DEF a, b
<1>12. o.bucket = t[4] /\ o.key = key
  BY <1>8 DEF key
<1>13. o = [bucket |-> t[4], key |-> SubSeq(u, 6, Len(u))]
  BY <1>8
<1> HIDE DEF o
<1>14. o.key # <<>> /\ o.key[Len(o.key)] = f[Len(f)]
  BY <1>10, <1>12, Zenon
<1>15. Names!Scheme \o <<t[4], "/">> \o o.key = u
  BY <1>11, <1>12, Zenon
<1>16. u \in Seq(Strings) /\ Len(u) >= 6 /\ IsUri(u) /\ u[5] = "/"
  BY <1>2, <1>5, <1>6, <1>7, Zenon
<1> QED
  BY <1>12, <1>13, <1>14, <1>15, <1>16, Zenon DEF u, o

(* ... and the only ones there are in a bucket by a name without slashes.  *)
LEMMA LocatedFacts ==
  ASSUME NEW t, IsName(t), NEW f, IsName(f), Len(f) = 1, f[1] # "/",
         Names!ParseS3Uri(Names!Join(t, f)).key # <<>>
  PROVE  IsUri(t)
<1> DEFINE u == Names!Join(t, f)
           n == IF t[Len(t)] = "/" THEN Len(t) ELSE Len(t) + 1
<1>1. t \in Seq(Strings) /\ t # <<>> /\ Len(t) \in Nat /\ Len(t) >= 1
  BY DEF IsName
<1>2. /\ u \in Seq(Strings) /\ Len(u) = n + 1
      /\ \A i \in 1..Len(t) : u[i] = t[i]
      /\ u[n + 1] = f[1]
      /\ n > Len(t) => u[n] = "/"
  <2>1. f \in Seq(Strings) \ {<<>>} /\ t \in Seq(Strings) \ {<<>>} /\ 1 \in 1..Len(f)
    BY DEF IsName
  <2> HIDE DEF n, u
  <2>2. /\ u \in Seq(Strings) /\ Len(u) = n + Len(f)
        /\ \A i \in 1..Len(t) : u[i] = t[i]
        /\ \A i \in 1..Len(f) : u[n + i] = f[i]
        /\ n > Len(t) => u[n] = "/"
    BY <2>1, JoinFacts DEF n, u
  <2> QED
    BY <2>1, <2>2
<1>3. /\ n \in Nat /\ n \in {Len(t), Len(t) + 1}
      /\ t[Len(t)] = "/" => n = Len(t)
      /\ t[Len(t)] # "/" => n = Len(t) + 1
  BY <1>1
<1> HIDE DEF n
<1>4. IsUri(u) /\ Len(u) # 4
  <2> HIDE DEF u
  <2>1. Names!ParseS3Uri(u).key # <<>>
    BY DEF u
  <2>2. ~IsUri(u) => Names!ParseS3Uri(u).key = <<>>
    <3>1. Names!Invalid.key = <<>>
      BY DEF Names!Invalid
    <3> QED
      BY <1>2, <3>1, ParseFacts
  <2>3. IsUri(u) /\ Len(u) = 4 => Names!ParseS3Uri(u).key = <<>>
    BY <1>2, ParseFacts
  <2> QED
    BY <2>1, <2>2, <2>3
<1> HIDE DEF u
<1>5. Len(u) >= 4 /\ u[1] = "s3:" /\ u[2] = "/" /\ u[3] = "/" /\ u[4] # "/"
  BY <1>4 DEF IsUri
<1>6. CASE Len(t) >= 4
  BY <1>1, <1>2, <1>5, <1>6 DEF IsUri
<1>7. CASE Len(t) = 3
  BY <1>2, <1>3, <1>4, <1>5, <1>7
<1>8. CASE Len(t) = 2
  BY <1>2, <1>3, <1>5, <1>8
<1>9. CASE Len(t) = 1
  BY <1>2, <1>3, <1>5, <1>9
<1> QED
  BY <1>1, <1>6, <1>7, <1>8, <1>9, UpToThree, Zenon

-----------------------------------------------------------------------------
(* The numbers of a finite set, by how many of them there are up to each.  *)
LEMMA RankFacts ==
  ASSUME NEW S, S \subseteq Nat, IsFiniteSet(S)
  PROVE  LET n == Cardinality(S)
             rank == [x \in S |-> Cardinality({y \in S : y <= x})]
         IN  /\ n \in Nat /\ rank \in [S -> 1..n]
             /\ \A x, y \in S : x < y => rank[x] < rank[y]
             /\ \A i \in 1..n : \E x \in S : rank[x] = i
<1> DEFINE n == Cardinality(S)
           UpTo(x) == {y \in S : y <= x}
           rank == [x \in S |-> Cardinality(UpTo(x))]
<1>1. n \in Nat /\ IsFiniteSet(1..n) /\ Cardinality(1..n) = n
  BY FS_CardinalityType, FS_Interval
<1>2. ASSUME NEW x \in S
      PROVE  IsFiniteSet(UpTo(x)) /\ Cardinality(UpTo(x)) \in 1..n
  <2>1. IsFiniteSet(UpTo(x)) /\ Cardinality(UpTo(x)) <= n
    BY FS_Subset
  <2>2. x \in UpTo(x)
    OBVIOUS
  <2>3. Cardinality(UpTo(x)) # 0
    BY <2>1, <2>2, FS_EmptySet
  <2>4. Cardinality(UpTo(x)) \in Nat
    BY <2>1, FS_CardinalityType
  <2> QED
    BY <1>1, <2>1, <2>3, <2>4
<1>3. ASSUME NEW x \in S, NEW y \in S, x < y
      PROVE  rank[x] < rank[y]
  <2>1. UpTo(x) \in SUBSET UpTo(y) /\ y \in UpTo(y) /\ y \notin UpTo(x)
    <3>1. x \in Nat /\ y \in Nat /\ \A z \in S : z \in Nat
      OBVIOUS
    <3>2. \A z \in UpTo(x) : z \in UpTo(y)
      BY <1>3, <3>1
    <3>3. y \in UpTo(y) /\ y \notin UpTo(x)
      BY <1>3, <3>1
    <3> QED
      BY <3>2, <3>3
  <2>2. IsFiniteSet(UpTo(y))
    BY <1>2
  <2>3. Cardinality(UpTo(x)) \in 1..n /\ Cardinality(UpTo(y)) \in 1..n
    BY <1>2
  <2>4. rank[x] = Cardinality(UpTo(x)) /\ rank[y] = Cardinality(UpTo(y))
    OBVIOUS
  <2> HIDE DEF UpTo, rank
  <2>5. Cardinality(UpTo(x)) <= Cardinality(UpTo(y))
        /\ Cardinality(UpTo(x)) # Cardinality(UpTo(y))
    BY <2>1, <2>2, FS_Subset
  <2> QED
    BY <1>1, <2>3, <2>4, <2>5
<1>4. rank \in [S -> 1..n]
  BY <1>2
<1> HIDE DEF n, rank
<1>5. \A x, y \in S : rank[x] = rank[y] => x = y
  <2> SUFFICES ASSUME NEW x \in S, NEW y \in S, rank[x] = rank[y], x # y PROVE FALSE
    OBVIOUS
  <2>1. x \in Nat /\ y \in Nat
    OBVIOUS
  <2>2. rank[x] < rank[y] \/ rank[y] < rank[x]
    BY <1>3, <2>1
  <2> QED
    BY <1>1, <1>4, <2>2
<1>6. rank \in Surjection(S, 1..n)
  <2>1. rank \in Injection(S, 1..n)
    BY <1>4, <1>5, Fun_IsInj
  <2> QED
    BY <1>1, <2>1, FS_Injection DEF n
<1>7. \A i \in 1..n : \E x \in S : rank[x] = i
  BY <1>6, Fun_SurjectionProperties
<1> QED
  BY <1>1, <1>3, <1>4, <1>7 DEF n, rank

(* str() of a pathlib.Path has neither two slashes together nor one at the *)
(* end.                                                                    *)
LEMMA NormalisedFacts ==
  ASSUME NEW t \in Texts
  PROVE  LET n == Names!Normalised(t)
         IN  /\ n \in Seq(Strings) \ {<<>>} /\ n[Len(n)] # "/"
             /\ \A k \in 1..(Len(n) - 1) : n[k] # "/" \/ n[k + 1] # "/"
<1> DEFINE kept == {i \in 1..Len(t) : t[i] # "/" \/ (i < Len(t) /\ t[i + 1] # "/")}
           m == Cardinality(kept)
           rank == [x \in kept |-> Cardinality({y \in kept : y <= x})]
           at(k) == CHOOSE i \in kept : Cardinality({j \in kept : j <= i}) = k
           n == [k \in 1..m |-> t[at(k)]]
<1>1. /\ t \in Seq(Strings) /\ Len(t) \in Nat /\ \E i \in 1..Len(t) : t[i] # "/"
  BY ListsAreNames DEF IsName
<1>3. Names!Normalised(t) = n
  BY Zenon DEF Names!Normalised, Names!Cardinality, Cardinality
<1>4. kept \subseteq Nat /\ kept \subseteq 1..Len(t) /\ IsFiniteSet(kept) /\ kept # {}
  <2>1. kept \subseteq 1..Len(t) /\ kept \subseteq Nat /\ kept # {}
    BY <1>1
  <2> HIDE DEF kept
  <2>2. IsFiniteSet(1..Len(t))
    BY <1>1, FS_Interval
  <2> QED
    BY <2>1, <2>2, FS_Subset
<1>5. \A i \in kept : t[i] = "/" => i + 1 \in kept /\ t[i + 1] # "/"
  BY <1>1
<1>6. /\ m \in Nat /\ rank \in [kept -> 1..m]
      /\ \A x, y \in kept : x < y => rank[x] < rank[y]
      /\ \A i \in 1..m : \E x \in kept : rank[x] = i
  <2> HIDE DEF kept
  <2> QED
    BY <1>4, RankFacts
<1>7. \A k \in 1..m : at(k) \in kept /\ rank[at(k)] = k
  <2> SUFFICES ASSUME NEW k \in 1..m PROVE at(k) \in kept /\ rank[at(k)] = k
    OBVIOUS
  <2>1. at(k) = CHOOSE i \in kept : Cardinality({j \in kept : j <= i}) = k
    OBVIOUS
  <2>2. \A x \in kept : rank[x] = Cardinality({y \in kept : y <= x})
    OBVIOUS
  <2>3. \E x \in kept : Cardinality({y \in kept : y <= x}) = k
    BY <1>6, <2>2
  <2> HIDE DEF kept, rank, m, at
  <2> QED
    BY <2>1, <2>2, <2>3
<1>8. m # 0
  <2> HIDE DEF kept
  <2> QED
    BY <1>4, FS_EmptySet
<1>9. \A k \in 1..m : n[k] = t[at(k)]
  OBVIOUS
<1>10. n \in Seq(Strings) /\ Len(n) = m
  <2>1. \A k \in 1..m : t[at(k)] \in Strings
    <3> HIDE DEF at, kept, m, rank
    <3>1. ASSUME NEW k \in 1..m PROVE t[at(k)] \in Strings
      <4>1. at(k) \in 1..Len(t)
        BY <1>4, <1>7
      <4> QED
        BY <1>1, <4>1
    <3> QED
      BY <3>1
  <2> HIDE DEF at, kept, m
  <2> QED
    BY <1>6, <2>1
<1> HIDE DEF kept, m, rank, at, n
<1>11. n[m] # "/"
  <2> SUFFICES ASSUME n[m] = "/" PROVE FALSE
    OBVIOUS
  <2>1. m \in 1..m
    BY <1>6, <1>8
  <2> DEFINE i == at(m)
  <2>2. i \in kept /\ rank[i] = m /\ t[i] = "/" /\ i \in Nat
    BY <1>4, <1>7, <1>9, <2>1
  <2> HIDE DEF i
  <2>3. i + 1 \in kept /\ i < i + 1
    BY <1>5, <2>2
  <2>4. m < rank[i + 1] /\ rank[i + 1] \in 1..m
    BY <1>6, <2>2, <2>3
  <2> QED
    BY <1>6, <2>4
<1>12. ASSUME NEW k \in 1..(m - 1), n[k] = "/", n[k + 1] = "/" PROVE FALSE
  <2>1. k \in 1..m /\ k + 1 \in 1..m /\ k \in Nat
    BY <1>6
  <2> DEFINE i == at(k)
             j == at(k + 1)
  <2>2. /\ i \in kept /\ rank[i] = k /\ t[i] = "/" /\ i \in Nat
        /\ j \in kept /\ rank[j] = k + 1 /\ t[j] = "/" /\ j \in Nat
    BY <1>4, <1>7, <1>9, <1>12, <2>1
  <2> HIDE DEF i, j
  <2>3. i + 1 \in kept /\ t[i + 1] # "/" /\ i + 1 \in Nat
    BY <1>5, <2>2
  <2>4. i < j
    <3>1. j < i => k + 1 < k
      BY <1>6, <2>2
    <3> QED
      BY <2>1, <2>2, <3>1
  <2>5. i + 1 < j
    <3>1. i + 1 # j
      BY <2>2, <2>3
    <3> QED
      BY <2>2, <2>4, <3>1
  <2>6. k < rank[i + 1] /\ rank[i + 1] < k + 1 /\ rank[i + 1] \in 1..m
    <3>1. i < i + 1
      BY <2>2
    <3> QED
      BY <1>6, <2>2, <2>3, <2>5, <3>1
  <2> QED
    BY <1>6, <2>1, <2>6
<1>13. n # <<>>
  BY <1>8, <1>10
<1> QED
  BY <1>3, <1>10, <1>11, <1>12, <1>13

(* A pathlib.Path is no URI.                                               *)
LEMMA PathlibFacts ==
  ASSUME NEW t \in Texts, NEW f, IsName(f), f[1] # "/"
  PROVE  Names!ParseS3Uri(Names!Join(Names!Normalised(t), f)) = Names!Invalid
<1> DEFINE n == Names!Normalised(t)
           l == IF n[Len(n)] = "/" THEN Len(n) ELSE Len(n) + 1
           u == Names!Join(n, f)
<1>1. /\ n \in Seq(Strings) \ {<<>>} /\ n[Len(n)] # "/"
      /\ \A k \in 1..(Len(n) - 1) : n[k] # "/" \/ n[k + 1] # "/"
  BY NormalisedFacts
<1> HIDE DEF n
<1>2. f \in Seq(Strings) \ {<<>>} /\ 1 \in 1..Len(f)
  BY DEF IsName
<1>3. /\ u \in Seq(Strings) /\ \A i \in 1..Len(n) : u[i] = n[i]
      /\ \A i \in 1..Len(f) : u[l + i] = f[i]
  BY <1>1, <1>2, JoinFacts
<1>4. l = Len(n) + 1 /\ Len(n) \in Nat /\ Len(n) >= 1
  BY <1>1
<1> HIDE DEF l, u
<1>5. ~(u[2] = "/" /\ u[3] = "/")
  <2>1. CASE Len(n) = 1
    <3>1. u[2 + 1] = f[1]
      BY <1>2, <1>3, <1>4, <2>1
    <3> QED
      BY <3>1
  <2>2. CASE Len(n) = 2
    <3>1. u[2] = n[2]
      BY <1>3, <2>2
    <3> QED
      BY <1>1, <2>2, <3>1
  <2>3. CASE Len(n) = 3
    <3>1. u[2] = n[2] /\ u[3] = n[3]
      BY <1>3, <2>3
    <3> QED
      BY <1>1, <2>3, <3>1
  <2>4. CASE Len(n) >= 4
    <3>1. u[2] = n[2] /\ u[3] = n[3] /\ 2 \in 1..(Len(n) - 1)
      BY <1>3, <1>4, <2>4
    <3>2. n[2] # "/" \/ n[2 + 1] # "/"
      BY <1>1, <3>1
    <3> QED
      BY <3>1, <3>2
  <2> QED
    BY <1>4, <2>1, <2>2, <2>3, <2>4, UpToThree, Zenon
<1> QED
  BY <1>3, <1>5, ParseFacts DEF IsUri, u, n

-----------------------------------------------------------------------------
(* A path that names a place in the bucket there is.                       *)
Located(p) == ~p.isPath /\ IsUri(p.text) /\ p.text[4] = "bucket"

PathTypes == [text : Texts, isPath : BOOLEAN]

(* The objects of a path: where they are, ...                              *)
LEMMA LocatedObjects ==
  ASSUME NEW p \in PathTypes, Located(p), NEW f, IsName(f), f[1] # "/"
  PROVE  LET o == Names!Object(p, f)
             u == Names!Join(p.text, f)
         IN  /\ Names!Text(p) = p.text /\ u \in Seq(Strings) /\ Len(u) >= 6
             /\ Names!Storable(o)
             /\ o = [bucket |-> "bucket", key |-> SubSeq(u, 6, Len(u))]
             /\ o.key[Len(o.key)] = f[Len(f)]
             /\ Names!Scheme \o <<o.bucket, "/">> \o o.key = u
<1> DEFINE o == Names!Object(p, f)
           u == Names!Join(p.text, f)
<1>1. Names!Text(p) = p.text /\ p.text \in Texts
  BY DEF Located, Names!Text, PathTypes
<1>2. o = Names!ParseS3Uri(u)
  BY <1>1 DEF Names!Object, Names!ConcatPath
<1>3. IsName(p.text) /\ IsUri(p.text) /\ p.text[4] = "bucket"
  BY <1>1, ListsAreNames DEF Located
<1>4. /\ u \in Seq(Strings) /\ Len(u) >= 6
      /\ o = [bucket |-> "bucket", key |-> SubSeq(u, 6, Len(u))]
      /\ o.bucket = "bucket" /\ o.key # <<>> /\ o.key[Len(o.key)] = f[Len(f)]
      /\ Names!Scheme \o <<"bucket", "/">> \o o.key = u
  <2> DEFINE t == p.text
  <2>1. t[4] = "bucket" /\ IsName(t) /\ IsUri(t) /\ o = Names!ParseS3Uri(Names!Join(t, f))
        /\ u = Names!Join(t, f)
    BY <1>2, <1>3
  <2> HIDE DEF o, u, t
  <2>2. /\ u \in Seq(Strings) /\ Len(u) >= 6
        /\ o = [bucket |-> t[4], key |-> SubSeq(u, 6, Len(u))]
        /\ o.bucket = t[4] /\ o.key # <<>> /\ o.key[Len(o.key)] = f[Len(f)]
        /\ Names!Scheme \o <<t[4], "/">> \o o.key = u
    BY <2>1, ObjectFacts
  <2> QED
    BY <2>1, <2>2
<1>5. Names!Storable(o)
  BY <1>4 DEF Names!Storable
<1> HIDE DEF o, u
<1> QED
  BY <1>1, <1>4, <1>5 DEF o, u

(* ... and that they are nowhere else.                                     *)
LEMMA InvalidKey == Names!Invalid.key = <<>>
  BY DEF Names!Invalid

LEMMA StoredIsLocated ==
  ASSUME NEW p \in PathTypes, NEW f, IsName(f), Len(f) = 1, f[1] # "/",
         Names!Storable(Names!Object(p, f))
  PROVE  Located(p)
<1>1. p.text \in Texts /\ p.isPath \in BOOLEAN /\ IsName(p.text)
  BY ListsAreNames DEF PathTypes
<1>2. ~p.isPath
  <2> SUFFICES ASSUME p.isPath PROVE FALSE
    OBVIOUS
  <2>1. Names!Object(p, f) = Names!Invalid
    BY <1>1, PathlibFacts DEF Names!Object, Names!ConcatPath, Names!Text
  <2> QED
    BY <2>1, InvalidKey DEF Names!Storable
<1>3. Names!Object(p, f) = Names!ParseS3Uri(Names!Join(p.text, f))
  BY <1>2 DEF Names!Object, Names!ConcatPath, Names!Text
<1>4. IsUri(p.text)
  BY <1>1, <1>3, LocatedFacts DEF Names!Storable
<1>5. p.text[4] = "bucket"
  <2>1. Names!ParseS3Uri(Names!Join(p.text, f)).bucket = p.text[4]
    BY <1>1, <1>4, ObjectFacts
  <2>2. Names!Object(p, f).bucket = "bucket"
    BY DEF Names!Storable
  <2> QED
    BY <1>3, <2>1, <2>2
<1> QED
  BY <1>2, <1>4, <1>5 DEF Located

LEMMA AbsoluteIsNowhere ==
  ASSUME NEW p \in PathTypes, NEW f, IsName(f), f[1] = "/"
  PROVE  ~Names!Storable(Names!Object(p, f))
<1>1. Names!Object(p, f) = Names!ParseS3Uri(f)
  BY DEF Names!Object, Names!ConcatPath, Names!Join
<1>2. f \in Seq(Strings) /\ ~IsUri(f)
  BY DEF IsName, IsUri
<1> QED
  BY <1>1, <1>2, InvalidKey, ParseFacts DEF Names!Storable

(* One path in two spellings has the same objects.                         *)
LEMMA SpellingFacts ==
  ASSUME NEW p \in PathTypes, NEW q \in PathTypes, ~p.isPath, ~q.isPath,
         \/ p.text = q.text
         \/ \E t \in {p.text, q.text} :
              Names!Last(t) # "/" /\ {p.text, q.text} = {t, t \o <<"/">>},
         NEW f, IsName(f), f[1] # "/"
  PROVE  Names!Object(p, f) = Names!Object(q, f)
<1>1. /\ p.text \in Texts /\ q.text \in Texts
      /\ Names!Object(p, f) = Names!ParseS3Uri(Names!Join(p.text, f))
      /\ Names!Object(q, f) = Names!ParseS3Uri(Names!Join(q.text, f))
  BY DEF PathTypes, Names!Object, Names!ConcatPath, Names!Text
<1>2. ASSUME NEW t \in Texts, Names!Last(t) # "/"
      PROVE  Names!Join(t \o <<"/">>, f) = Names!Join(t, f)
  <2> DEFINE s == t \o <<"/">>
  <2>1. t \in Seq(Strings) /\ <<"/">> \in Seq(Strings) /\ f \in Seq(Strings)
    BY ListsAreNames, ConstantNames DEF IsName
  <2>2. s \in Seq(Strings) /\ s[Len(s)] = "/"
    BY <2>1, ConstantNames
  <2>3. Names!Join(t, f) = s \o f
    BY <1>2 DEF Names!Join
  <2> HIDE DEF s
  <2>4. Names!Join(s, f) = s \o <<>> \o f
    BY <2>2 DEF Names!Join, Names!Last
  <2>5. s \o <<>> = s
    BY <2>2, ConcatEmptySeq
  <2> QED
    BY <2>3, <2>4, <2>5 DEF s
<1>3. CASE p.text = q.text
  BY <1>1, <1>3
<1>4. ASSUME NEW t \in {p.text, q.text}, Names!Last(t) # "/",
             {p.text, q.text} = {t, t \o <<"/">>}
      PROVE  Names!Join(p.text, f) = Names!Join(q.text, f)
  <2>1. t \in Texts
    BY <1>1, <1>4
  <2>2. Names!Join(t \o <<"/">>, f) = Names!Join(t, f)
    BY <1>2, <1>4, <2>1
  <2> DEFINE s == t \o <<"/">>
  <2> HIDE DEF s
  <2>3. Names!Join(s, f) = Names!Join(t, f) /\ {p.text, q.text} = {t, s}
    BY <1>4, <2>2 DEF s
  <2>4. p.text \in {t, s} /\ q.text \in {t, s}
    BY <2>3
  <2> QED
    BY <2>3, <2>4
<1> QED
  BY <1>1, <1>3, <1>4

(* _escape_path and what S3 makes of it.                                   *)
LEMMA EscapeFacts ==
  ASSUME NEW p \in PathTypes, Located(p)
  PROVE  LET o == Names!Object(p, Names!Tmp)
         IN  [o EXCEPT !.key = Names!CopySource(Names!EscapePath(@))] = o
<1> DEFINE f == Names!Tmp
           u == Names!Join(p.text, f)
           l == IF p.text[Len(p.text)] = "/" THEN Len(p.text) ELSE Len(p.text) + 1
           o == Names!Object(p, f)
           key == SubSeq(u, 6, Len(u))
<1>1. /\ f \in Seq(Strings) \ {<<>>} /\ Len(f) = 1 /\ f[1] = ".metadata.tmp" /\ IsName(f)
      /\ f[1] # "/"
  BY ConstantNames DEF IsName
<1>2. /\ p.text \in Seq(Strings) \ {<<>>} /\ Len(p.text) \in Nat
      /\ \A i \in 1..Len(p.text) : p.text[i] # "a%2520b"
  BY ListsAreNames DEF IsName, PathTypes
<1> HIDE DEF f
<1>3. u \in Seq(Strings) /\ Len(u) >= 6 /\ o = [bucket |-> "bucket", key |-> key]
  BY <1>1, LocatedObjects
<1>4. /\ Len(u) = l + 1 /\ (\A i \in 1..Len(p.text) : u[i] = p.text[i])
      /\ u[l + 1] = f[1] /\ (l > Len(p.text) => u[l] = "/")
  <2>1. /\ Len(u) = l + Len(f) /\ (\A i \in 1..Len(p.text) : u[i] = p.text[i])
        /\ (\A i \in 1..Len(f) : u[l + i] = f[i]) /\ (l > Len(p.text) => u[l] = "/")
    BY <1>1, <1>2, JoinFacts
  <2> HIDE DEF u, l
  <2> QED
    BY <1>1, <2>1
<1>5. l \in Nat /\ (l = Len(p.text) \/ l = Len(p.text) + 1)
  BY <1>2
<1> HIDE DEF u, l, o
<1>6. \A i \in 1..Len(u) : u[i] # "a%2520b"
  <2> SUFFICES ASSUME NEW i \in 1..Len(u) PROVE u[i] # "a%2520b"
    OBVIOUS
  <2>1. i \in 1..Len(p.text) \/ (i = l /\ l > Len(p.text)) \/ i = l + 1
    BY <1>2, <1>4, <1>5
  <2> QED
    BY <1>1, <1>2, <1>4, <2>1
<1>7. /\ key \in Seq(Strings) /\ Len(key) \in Nat
      /\ \A i \in 1..Len(key) : key[i] = u[i + 5] /\ i + 5 \in 1..Len(u)
  BY <1>3
<1> HIDE DEF key
<1>8. \A i \in 1..Len(key) : key[i] # "a%2520b"
  BY <1>6, <1>7
<1>9. \A x : x # "a%2520b" /\ x # "/" => Names!Unquote(Names!Quote(x)) = x
  BY DEF Names!Quote, Names!Unquote
<1>10. Names!Unquote("/") = "/"
  BY DEF Names!Unquote
<1> DEFINE escaped == Names!EscapePath(key)
<1>11. /\ escaped \in [1..Len(key) -> {Names!Quote(key[i]) : i \in 1..Len(key)} \cup {"/"}]
       /\ \A i \in 1..Len(key) :
            escaped[i] = IF key[i] = "/" THEN "/" ELSE Names!Quote(key[i])
  BY DEF Names!EscapePath
<1> HIDE DEF escaped
<1>12. Len(escaped) = Len(key)
  BY <1>7, <1>11
<1>13. Names!CopySource(escaped) = [i \in 1..Len(key) |-> key[i]]
  <2>1. \A i \in 1..Len(key) : Names!Unquote(escaped[i]) = key[i]
    BY <1>8, <1>9, <1>10, <1>11
  <2>2. Names!CopySource(escaped) = [i \in 1..Len(key) |-> Names!Unquote(escaped[i])]
    BY <1>12 DEF Names!CopySource
  <2> QED
    BY <2>1, <2>2
<1>14. [i \in 1..Len(key) |-> key[i]] = key
  BY <1>7
<1> QED
  BY <1>3, <1>13, <1>14 DEF escaped, o, f

-----------------------------------------------------------------------------
(* What was stored is in a place of the bucket, and the objects are those  *)
(* of the stage; what is being loaded was found there, with its ranges.    *)
NamesInv ==
  /\ path \in PathTypes /\ loadPath \in PathTypes /\ file \in Files
  /\ step \in {"commit", "load", "open"} => Located(path) /\ file[1] # "/"
  /\ step = "commit" =>
       objects = {Names!Object(path, file), Names!Object(path, Names!Tmp)}
  /\ step \in {"load", "open"} =>
       objects = {Names!Object(path, file), Names!Object(path, Names!Metadata)}
  /\ step = "open" =>
       Located(loadPath) /\ found = {Names!Join(Names!Text(loadPath), file)}
  /\ Names!SavedIsFound

LEMMA NamesInit == Names!Init => NamesInv
  BY DEF Names!Init, NamesInv, Names!SavedIsFound, PathTypes

LEMMA SaveStep == NamesInv /\ Names!Save => NamesInv'
<1> SUFFICES ASSUME NamesInv, Names!Save PROVE NamesInv'
  OBVIOUS
<1>1. /\ path \in PathTypes /\ loadPath \in PathTypes /\ file \in Files
      /\ path' = path /\ loadPath' = loadPath /\ file' = file
      /\ reader' = reader /\ found' = found /\ IsName(file)
  BY ListsAreNames DEF NamesInv, Names!Save
<1> DEFINE F == Names!Object(path, file)
           T == Names!Object(path, Names!Tmp)
<1>2. CASE Names!Storable(F) /\ Names!Storable(T)
  <2>1. step' = "commit" /\ objects' = {F, T}
    BY <1>2 DEF Names!Save
  <2>2. Located(path)
    BY <1>1, <1>2, ConstantNames, StoredIsLocated
  <2>3. file[1] # "/"
    BY <1>1, <1>2, AbsoluteIsNowhere
  <2>4. Names!SavedIsFound'
    BY <2>1 DEF Names!SavedIsFound
  <2>5. Located(path)' /\ F' = F /\ T' = T
    BY <1>1, <2>2 DEF Located, IsUri, Names!Object, Names!ConcatPath, Names!Text
  <2> HIDE DEF F, T
  <2> QED
    BY <1>1, <2>1, <2>3, <2>4, <2>5 DEF NamesInv, F, T
<1>3. CASE ~(Names!Storable(F) /\ Names!Storable(T))
  <2>1. step' = "rejected"
    BY <1>3 DEF Names!Save
  <2>2. ASSUME Names!ValidateCheckpointId(path), ~path.isPath,
               Names!ParseS3Uri(path.text).bucket = "bucket", file[1] # "/"
        PROVE  FALSE
    <3> DEFINE t == path.text
    <3>1. t \in Texts /\ IsName(t) /\ t \in Seq(Strings) /\ Len(t) \in Nat
      BY <1>1, ListsAreNames DEF PathTypes, IsName
    <3>2. Names!ParseS3Uri(t) # Names!Invalid /\ Names!ParseS3Uri(t).bucket = "bucket"
      BY <2>2 DEF Names!ValidateCheckpointId
    <3> HIDE DEF t
    <3>3. IsUri(t)
      BY <3>1, <3>2, ParseFacts
    <3>4. Names!ParseS3Uri(t).bucket = t[4]
      <4>1. CASE Len(t) = 4
        BY <3>1, <3>3, <4>1, ParseFacts
      <4>2. CASE Len(t) >= 5
        <5>1. 4 \in 1..(Len(t) - 1) /\ Len(t) > 4 /\ t[4] # "/"
          BY <3>1, <3>3, <4>2 DEF IsUri
        <5>2. t[4 + 1] = "/"
          BY <3>1, <5>1 DEF IsName
        <5>3. t[5] = "/"
          BY <5>2
        <5> QED
          BY <3>1, <3>3, <5>1, <5>3, ParseFacts
      <4>3. Len(t) >= 4
        BY <3>3 DEF IsUri
      <4> QED
        BY <3>1, <4>1, <4>2, <4>3, FourOrMore, Zenon
    <3>5. Located(path)
      BY <2>2, <3>2, <3>3, <3>4 DEF Located, t
    <3>6. Names!Storable(F) /\ Names!Storable(T)
      BY <1>1, <2>2, <3>5, ConstantNames, LocatedObjects
    <3> QED
      BY <1>3, <3>6
  <2>3. Names!SavedIsFound'
    BY <1>1, <2>1, <2>2 DEF Names!SavedIsFound, Names!ValidateCheckpointId
  <2> QED
    BY <1>1, <2>1, <2>3 DEF NamesInv
<1> QED
  BY <1>2, <1>3

LEMMA RenameStep == NamesInv /\ Names!Rename => NamesInv'
<1> SUFFICES ASSUME NamesInv, Names!Rename PROVE NamesInv'
  OBVIOUS
<1> DEFINE F == Names!Object(path, file)
           T == Names!Object(path, Names!Tmp)
           M == Names!Object(path, Names!Metadata)
<1>1. /\ path \in PathTypes /\ loadPath \in PathTypes /\ file \in Files
      /\ path' = path /\ loadPath' = loadPath /\ file' = file
      /\ reader' = reader /\ found' = found /\ IsName(file)
      /\ step = "commit" /\ objects = {F, T} /\ Located(path) /\ file[1] # "/"
  BY ListsAreNames DEF NamesInv, Names!Rename
<1>2. [T EXCEPT !.key = Names!CopySource(Names!EscapePath(@))] = T
  BY <1>1, EscapeFacts
<1>3. step' = "load" /\ objects' = (objects \ {T}) \cup {M}
  BY <1>1, <1>2 DEF Names!Rename
<1>4. F # T
  <2>1. F.key[Len(F.key)] = file[Len(file)]
    BY <1>1, LocatedObjects
  <2>2. T.key[Len(T.key)] = ".metadata.tmp"
    <3>1. /\ IsName(Names!Tmp) /\ Names!Tmp[1] # "/"
          /\ Names!Tmp[Len(Names!Tmp)] = ".metadata.tmp"
      BY ConstantNames
    <3> QED
      BY <1>1, <3>1, LocatedObjects
  <2>3. file[Len(file)] # ".metadata.tmp"
    BY <1>1, ListsAreNames
  <2> HIDE DEF F, T
  <2> QED
    BY <2>1, <2>2, <2>3
<1>5. Located(path)' /\ F' = F /\ M' = M
  BY <1>1 DEF Located, IsUri, Names!Object, Names!ConcatPath, Names!Text
<1>6. Names!SavedIsFound'
  BY <1>3 DEF Names!SavedIsFound
<1> HIDE DEF F, T, M
<1>7. objects' = {F, M}
  BY <1>1, <1>3, <1>4
<1> QED
  BY <1>1, <1>3, <1>5, <1>6, <1>7 DEF NamesInv, F, M

(* A file that was stored is where one looks for it.                       *)
LEMMA FoundFacts ==
  ASSUME NamesInv, Located(path), Names!SamePlace, ~loadPath.isPath,
         NEW f, IsName(f), f[1] # "/"
  PROVE  Names!Object(loadPath, f) = Names!Object(path, f)
<1>1. ~path.isPath /\ path \in PathTypes /\ loadPath \in PathTypes
  BY DEF Located, NamesInv
<1> QED
  BY <1>1, SpellingFacts DEF Names!SamePlace

LEMMA InjectStep == NamesInv /\ Names!Inject => NamesInv'
<1> SUFFICES ASSUME NamesInv, Names!Inject PROVE NamesInv'
  OBVIOUS
<1> DEFINE F == Names!Object(path, file)
           M == Names!Object(path, Names!Metadata)
           L == Names!Object(loadPath, Names!Metadata)
<1>1. /\ path \in PathTypes /\ loadPath \in PathTypes /\ file \in Files
      /\ path' = path /\ loadPath' = loadPath /\ file' = file
      /\ reader' = reader /\ objects' = objects /\ IsName(file)
      /\ step = "load" /\ objects = {F, M} /\ Located(path) /\ file[1] # "/"
  BY ListsAreNames DEF NamesInv, Names!Inject
<1>2. Located(path)' /\ F' = F /\ M' = M
  BY <1>1 DEF Located, IsUri, Names!Object, Names!ConcatPath, Names!Text
<1>3. CASE L \in objects
  <2>1. step' = "open" /\ found' = {Names!Join(Names!Text(loadPath), file)}
    BY <1>3 DEF Names!Inject
  <2>2. Names!Storable(F) /\ Names!Storable(M)
    BY <1>1, ConstantNames, LocatedObjects
  <2>3. Names!Storable(L)
    <3> HIDE DEF F, M, L
    <3> QED
      BY <1>1, <1>3, <2>2
  <2>4. Located(loadPath)
    BY <1>1, <2>3, ConstantNames, StoredIsLocated
  <2>5. Located(loadPath)' /\ found' = {Names!Join(Names!Text(loadPath), file)}'
    BY <1>1, <2>1, <2>4 DEF Located, IsUri
  <2>6. Names!SavedIsFound'
    BY <2>1 DEF Names!SavedIsFound
  <2> HIDE DEF F, M
  <2> QED
    BY <1>1, <1>2, <2>1, <2>5, <2>6 DEF NamesInv, F, M
<1>4. CASE L \notin objects
  <2>1. step' = "not found"
    BY <1>4 DEF Names!Inject
  <2>2. ~(Names!SamePlace /\ ~loadPath.isPath)
    <3> SUFFICES ASSUME Names!SamePlace, ~loadPath.isPath PROVE FALSE
      OBVIOUS
    <3>1. L = M
      BY <1>1, ConstantNames, FoundFacts
    <3> HIDE DEF F, L, M
    <3> QED
      BY <1>1, <1>4, <3>1
  <2>3. (Names!SamePlace /\ ~loadPath.isPath)' <=> (Names!SamePlace /\ ~loadPath.isPath)
    BY <1>1 DEF Names!SamePlace
  <2>4. Names!SavedIsFound'
    BY <2>1, <2>2, <2>3 DEF Names!SavedIsFound
  <2> QED
    BY <1>1, <2>1, <2>4 DEF NamesInv
<1> QED
  BY <1>3, <1>4

LEMMA OpenStep == NamesInv /\ Names!Open => NamesInv'
<1> SUFFICES ASSUME NamesInv, Names!Open PROVE NamesInv'
  OBVIOUS
<1> DEFINE F == Names!Object(path, file)
           M == Names!Object(path, Names!Metadata)
           o == Names!Object(loadPath, file)
           u == Names!Join(loadPath.text, file)
<1>1. /\ path \in PathTypes /\ loadPath \in PathTypes /\ file \in Files
      /\ path' = path /\ loadPath' = loadPath /\ file' = file
      /\ IsName(file) /\ file[Len(file)] # ".metadata"
      /\ step = "open" /\ objects = {F, M} /\ Located(path) /\ file[1] # "/"
      /\ Located(loadPath) /\ found = {Names!Join(Names!Text(loadPath), file)}
  BY ListsAreNames DEF NamesInv, Names!Open
<1>2. /\ Names!Text(loadPath) = loadPath.text
      /\ o.key[Len(o.key)] = file[Len(file)]
      /\ Names!Scheme \o <<o.bucket, "/">> \o o.key = u
  BY <1>1, LocatedObjects
<1>3. reader' = Names!ReaderOf(o.bucket, o.key)
      /\ step' = IF o \in objects THEN "opened" ELSE "not found"
  BY DEF Names!Open
<1> HIDE DEF F, M, o, u
<1>4. reader' = "dcp"
  BY <1>1, <1>2, <1>3 DEF Names!ReaderOf, Names!Last, u
<1>5. o \notin objects => ~(Names!SamePlace /\ ~loadPath.isPath)
  <2> SUFFICES ASSUME Names!SamePlace, ~loadPath.isPath PROVE o = F
    BY <1>1
  <2> QED
    BY <1>1, FoundFacts DEF o, F
<1>6. (Names!SamePlace /\ ~loadPath.isPath)' <=> (Names!SamePlace /\ ~loadPath.isPath)
  BY <1>1 DEF Names!SamePlace
<1>7. Names!SavedIsFound'
  BY <1>3, <1>4, <1>5, <1>6 DEF Names!SavedIsFound
<1> QED
  BY <1>1, <1>3, <1>7 DEF NamesInv

(* s3_file_system.py, _s3dataset_common.py and s3reader/constructor.py     *)
(* agree on every path and every file name: what parses is saved, what is  *)
(* escaped is renamed, and what was saved is found, with its ranges, in    *)
(* either spelling of the path.                                            *)
THEOREM SavedNamesAreFound == Spec => []SavedIsFound
<1> DEFINE I == about = "paths" => NamesInv
<1>1. Init => I
  <2> SUFFICES ASSUME Init, about = "paths" PROVE NamesInv
    OBVIOUS
  <2>1. Names!Init
    BY DEF Init
  <2> QED
    BY <2>1, NamesInit
<1>2. I /\ [Next]_vars => I'
  <2> SUFFICES ASSUME I, [Next]_vars, about' = "paths" PROVE NamesInv'
    OBVIOUS
  <2>1. CASE about = "paths" /\ Names!Next
    <3>1. NamesInv
      BY <2>1
    <3> QED
      BY <2>1, <3>1, SaveStep, RenameStep, InjectStep, OpenStep DEF Names!Next
  <2>2. CASE UNCHANGED <<about, pathVars>>
    BY <2>2 DEF pathVars, NamesInv, Located, IsUri, Names!SavedIsFound, Names!SamePlace,
                Names!Object, Names!ConcatPath, Names!Text, Names!ValidateCheckpointId
  <2>3. CASE UNCHANGED vars
    BY <2>2, <2>3 DEF vars
  <2>4. CASE Next
    BY <2>1, <2>2, <2>4 DEF Next, Add, PlanNextRank
  <2> QED
    BY <2>3, <2>4
<1>3. I => SavedIsFound
  BY DEF NamesInv, SavedIsFound
<1> QED
  BY <1>1, <1>2, <1>3, PTL DEF Spec
=============================================================================
