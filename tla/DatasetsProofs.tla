---------------------------- MODULE DatasetsProofs ----------------------------
(***************************************************************************)
(* The datasets over a bucket, for any finite set of keys, any page size   *)
(* and any number of ranks and workers (ShardedListing, MapDataset).       *)
(***************************************************************************)
EXTENDS MCDatasets, RangesProofs

-----------------------------------------------------------------------------
(* What a listing is: the keys of a set, every one once, in order.         *)

Increasing(s) == \A i, j \in 1..Len(s) : i < j => s[i] < s[j]

Lists(s, S) == s \in Seq(S) /\ Increasing(s) /\ ToSet(s) = S

(* Listed(S) is one, for every finite set of keys.                         *)
LEMMA ListedLists ==
  ASSUME NEW S, S \subseteq Nat, IsFiniteSet(S)
  PROVE  Lists(Listed(S), S) /\ Len(Listed(S)) = Cardinality(S)
<1> DEFINE n == Cardinality(S)
           s == Listed(S)
<1>1. /\ n \in Nat /\ s \in [1..n -> S]
      /\ \A i, j \in 1..n : i < j => s[i] < s[j]
      /\ \A x \in S : \E i \in 1..n : s[i] = x
  BY ListedFacts
<1> HIDE DEF n, s
<1>2. s \in Seq(S) /\ Len(s) = n
  BY <1>1
<1>3. DOMAIN s = 1..n /\ \A i \in 1..n : s[i] \in S
  BY <1>1
<1>4. ToSet(s) = S
  BY <1>1, <1>3 DEF ToSet
<1> QED
  BY <1>1, <1>2, <1>4 DEF Lists, Increasing, s, n

LEMMA ListElements ==
  ASSUME NEW S, NEW s, Lists(s, S)
  PROVE  /\ Len(s) \in Nat
         /\ \A k \in 1..Len(s) : s[k] \in S
         /\ \A x \in S : \E k \in 1..Len(s) : s[k] = x
<1>1. DOMAIN s = 1..Len(s) /\ Len(s) \in Nat
  BY DEF Lists
<1> QED
  BY <1>1 DEF Lists, ToSet

(* How many keys of S come up to k.                                        *)
Rank(S, k) == Cardinality({j \in S : j <= k})

(* An element of a listing says how many come up to it.                    *)
LEMMA RankOfElement ==
  ASSUME NEW S, S \subseteq Nat, NEW s, Lists(s, S), NEW i \in 1..Len(s)
  PROVE  Rank(S, s[i]) = i
<1> DEFINE T == {j \in S : j <= s[i]}
           f == [k \in 1..i |-> s[k]]
<1>1. /\ s \in Seq(S) /\ Len(s) \in Nat
      /\ \A k \in 1..Len(s) : s[k] \in S /\ s[k] \in Nat
      /\ \A j, k \in 1..Len(s) : j < k => s[j] < s[k]
      /\ \A x \in S : \E k \in 1..Len(s) : s[k] = x
  <2>1. \A x \in S : x \in Nat
    OBVIOUS
  <2>2. s \in Seq(S) /\ \A j, k \in 1..Len(s) : j < k => s[j] < s[k]
    BY DEF Lists, Increasing
  <2>3. \A k \in 1..Len(s) : s[k] \in S
    BY ListElements
  <2>4. \A x \in S : \E k \in 1..Len(s) : s[k] = x
    BY ListElements
  <2>5. Len(s) \in Nat
    BY <2>2
  <2>6. \A k \in 1..Len(s) : s[k] \in Nat
    BY <2>1, <2>3
  <2> QED
    BY <2>2, <2>3, <2>4, <2>5, <2>6
<1>2. \A k \in 1..i : k \in 1..Len(s) /\ s[k] \in T
  <2> SUFFICES ASSUME NEW k \in 1..i PROVE k \in 1..Len(s) /\ s[k] \in T
    OBVIOUS
  <2>1. k \in 1..Len(s)
    BY <1>1
  <2>2. k = i \/ s[k] < s[i]
    BY <1>1, <2>1
  <2> QED
    BY <1>1, <2>1, <2>2
<1>3. f \in [1..i -> T]
  BY <1>2
<1>4. \A j, k \in 1..i : f[j] = f[k] => j = k
  <2> SUFFICES ASSUME NEW j \in 1..i, NEW k \in 1..i, s[j] = s[k], j # k
               PROVE  FALSE
    OBVIOUS
  <2>1. j \in 1..Len(s) /\ k \in 1..Len(s) /\ (j < k \/ k < j)
    BY <1>1, <1>2
  <2>2. s[j] < s[k] \/ s[k] < s[j]
    BY <1>1, <2>1
  <2> QED
    BY <1>1, <2>1, <2>2
<1>5. ASSUME NEW x \in T
      PROVE  \E k \in 1..i : f[k] = x
  <2>1. PICK k \in 1..Len(s) : s[k] = x
    BY <1>1
  <2>2. s[k] <= s[i] /\ s[k] \in Nat /\ s[i] \in Nat
    BY <1>1, <2>1
  <2>3. ~(i < k)
    BY <1>1, <2>2
  <2>4. k \in 1..i
    BY <2>3
  <2> QED
    BY <2>1, <2>4
<1>6. f \in Bijection(1..i, T)
  <2> HIDE DEF f, T
  <2> QED
    BY <1>3, <1>4, <1>5, Fun_IsBij
<1>7. ExistsBijection(1..i, T)
  BY <1>6 DEF ExistsBijection
<1>8. Cardinality(T) = i
  <2> HIDE DEF T
  <2> QED
    BY <1>7, FS_CountingElements
<1> QED
  BY <1>8 DEF Rank

(* It has as many elements as the set, and there is no other one.          *)
LEMMA ListingUnique ==
  ASSUME NEW S, S \subseteq Nat, IsFiniteSet(S), NEW s, Lists(s, S)
  PROVE  s = Listed(S)
<1> DEFINE t == Listed(S)
<1>1. Lists(t, S)
  BY ListedLists
<1> HIDE DEF t
<1>2. ASSUME NEW u, Lists(u, S), NEW v, Lists(v, S), NEW i \in 1..Len(u)
      PROVE  i \in 1..Len(v) /\ u[i] = v[i]
  <2>1. u[i] \in S
    BY <1>2, ListElements
  <2>2. PICK j \in 1..Len(v) : v[j] = u[i]
    BY <1>2, <2>1, ListElements
  <2>3. Rank(S, u[i]) = i
    BY <1>2, RankOfElement
  <2>4. Rank(S, v[j]) = j
    BY <1>2, RankOfElement
  <2> QED
    BY <2>2, <2>3, <2>4
<1>3. Len(s) \in Nat /\ Len(t) \in Nat /\ s \in Seq(S) /\ t \in Seq(S)
  BY <1>1 DEF Lists
<1>4. Len(s) = Len(t)
  <2>1. Len(s) # 0 => Len(s) <= Len(t)
    BY <1>1, <1>2, <1>3
  <2>2. Len(t) # 0 => Len(t) <= Len(s)
    BY <1>1, <1>2, <1>3
  <2> QED
    BY <1>3, <2>1, <2>2
<1>5. \A i \in 1..Len(s) : s[i] = t[i]
  BY <1>1, <1>2
<1> QED
  BY <1>3, <1>4, <1>5, SeqEqual DEF t

-----------------------------------------------------------------------------
(* The map dataset: what the processes know, and what was dealt so far.    *)

LEMMA KeysFacts ==
  /\ \A S : S \subseteq Keys => S \subseteq Nat /\ IsFiniteSet(S)
  /\ PageSize \in Nat \ {0} /\ WorldSize \in Nat \ {0} /\ NumWorkers \in Nat \ {0}
<1>1. Keys \subseteq Nat \ {0} /\ IsFiniteSet(Keys)
  BY ConstantsAssumption
<1>2. ASSUME NEW S, S \subseteq Keys PROVE S \subseteq Nat /\ IsFiniteSet(S)
  BY <1>1, <1>2, FS_Subset
<1> QED
  BY <1>2, ConstantsAssumption

MapTypes ==
  /\ uris \subseteq Keys /\ bucket \subseteq Keys
  /\ changes \in Nat /\ next \in Nat
  /\ pairs \in [Map!Processes -> Seq(Nat)]
  /\ dealt \subseteq (1..NumWorkers) \X Nat /\ got \subseteq Nat \X Nat

(* Every listing is, or was, of the same keys.                             *)
OneList == changes = 0 \/ source = "uris"

ListsAgree ==
  /\ changes = 0 => bucket = uris
  /\ OneList => \A p \in Map!Processes : pairs[p] \in {Map!Unlisted, Map!Listed(uris)}
  /\ OneList /\ next > 0 => pairs[Map!Main] = Map!Listed(uris)
  /\ inherited => /\ pairs[Map!Main] # Map!Unlisted
                  /\ \A p \in Map!Processes : pairs[p] = pairs[Map!Main]

NotBefore == ~started => ~inherited /\ next = 0

(* An index that was dealt is under way, fetched, missed or lost.          *)
Accounted ==
  /\ \A d \in dealt : d[2] < next
  /\ \A g \in got : g[1] < next
  /\ missed \subseteq 0..(next - 1)
  /\ \A i \in 0..(next - 1) :
       (\E d \in dealt : d[2] = i) \/ (\E g \in got : g[1] = i) \/ i \in missed \cup lost

FromTheList ==
  inherited \/ OneList =>
    /\ missed = {} /\ next <= Len(pairs[Map!Main])
    /\ \A g \in got : g[2] = pairs[Map!Main][g[1] + 1]

MapInv == MapTypes /\ ListsAgree /\ NotBefore /\ Accounted /\ FromTheList

LEMMA ObjectsFacts ==
  ASSUME MapTypes, ListsAgree
  PROVE  /\ Map!Objects \in Seq(Nat)
         /\ OneList => Map!Objects = Map!Listed(uris)
<1> DEFINE S == IF source = "uris" THEN uris ELSE bucket
<1>1. S \subseteq Nat /\ IsFiniteSet(S) /\ Map!Objects = Listed(S) /\ Map!Objects = Map!Listed(S)
  <2>1. S \subseteq Keys
    BY DEF MapTypes
  <2>2. Map!Objects = Map!Listed(S)
    BY DEF Map!Objects
  <2> HIDE DEF S
  <2>3. Map!Listed(S) = Listed(S)
    BY Zenon DEF Map!Listed, Listed, Map!Cardinality, Cardinality
  <2> QED
    BY <2>1, <2>2, <2>3, KeysFacts
<1>2. Listed(S) \in Seq(S)
  BY <1>1, ListedLists DEF Lists
<1>3. OneList => S = uris
  BY DEF OneList, ListsAgree
<1> HIDE DEF S
<1>4. Listed(S) \in Seq(Nat)
  BY <1>1, <1>2, SeqMonotonic
<1> QED
  BY <1>1, <1>3, <1>4

LEMMA ListFacts ==
  ASSUME MapTypes, ListsAgree, NEW p \in Map!Processes, Map!List(p)
  PROVE  /\ pairs' \in [Map!Processes -> Seq(Nat)]
         /\ \A q \in Map!Processes : q # p => pairs'[q] = pairs[q]
         /\ pairs[p] = Map!Unlisted => pairs'[p] = Map!Objects
         /\ pairs[p] # Map!Unlisted => pairs' = pairs
BY ObjectsFacts DEF MapTypes, Map!List

(* Whoever makes the list: the lists go on to agree.                       *)
LEMMA ListKeeps ==
  ASSUME MapTypes, ListsAgree, NEW p \in Map!Processes, Map!List(p),
         UNCHANGED <<source, uris, bucket, inherited, changes>>
  PROVE  /\ changes' = 0 => bucket' = uris'
         /\ OneList' = OneList /\ Map!Listed(uris)' = Map!Listed(uris)
         /\ OneList => /\ \A q \in Map!Processes :
                            pairs'[q] \in {Map!Unlisted, Map!Listed(uris)}
                       /\ pairs'[p] = Map!Listed(uris)
         /\ inherited => pairs' = pairs
<1>1. OneList' = OneList /\ Map!Listed(uris)' = Map!Listed(uris)
  BY DEF OneList, Map!Listed
<1>2. OneList => \A q \in Map!Processes : pairs[q] \in {Map!Unlisted, Map!Listed(uris)}
  BY DEF ListsAgree
<1>3. inherited => pairs[p] # Map!Unlisted
  BY DEF ListsAgree
<1> QED
  BY <1>1, <1>2, <1>3, ListFacts, ObjectsFacts DEF ListsAgree

LEMMA MapInitInvariant ==
  ASSUME Map!Init
  PROVE  MapInv
<1> USE DEF Map!Init
<1>1. <<0>> \in Seq(Nat)
  OBVIOUS
<1>2. MapTypes
  BY <1>1 DEF MapTypes, Map!Unlisted
<1>3. next = 0 /\ dealt = {} /\ got = {} /\ missed = {} /\ inherited = FALSE
  OBVIOUS
<1>4. ListsAgree
  BY DEF ListsAgree
<1>5. Accounted
  BY <1>3 DEF Accounted
<1>6. FromTheList
  <2>1. Map!Main \in Map!Processes
    BY DEF Map!Processes
  <2>2. pairs[Map!Main] \in Seq(Nat)
    BY <1>2, <2>1 DEF MapTypes
  <2>3. Len(pairs[Map!Main]) \in Nat
    BY <2>2
  <2> QED
    BY <1>3, <2>3 DEF FromTheList
<1> QED
  BY <1>2, <1>4, <1>5, <1>6 DEF MapInv, NotBefore

LEMMA MapStepInvariant ==
  ASSUME MapInv, Map!Next
  PROVE  MapInv'
<1>0. /\ MapTypes /\ ListsAgree /\ NotBefore /\ Accounted /\ FromTheList
      /\ Map!Main \in Map!Processes /\ 1..NumWorkers \subseteq Map!Processes
  BY DEF MapInv, Map!Processes
<1>1. CASE Map!Length
  <2>1. /\ ~started /\ Map!List(Map!Main)
        /\ UNCHANGED <<source, uris, bucket, started, inherited, next, dealt, got, missed,
                       lost, raised, changes>>
    BY <1>1 DEF Map!Length
  <2>2. ~inherited /\ next = 0
    BY <1>0, <2>1 DEF NotBefore
  <2>3. MapTypes'
    BY <1>0, <2>1, ListFacts DEF MapTypes
  <2>4. ListsAgree'
    BY <1>0, <2>1, <2>2, ListKeeps DEF ListsAgree
  <2>5. Accounted'
    BY <1>0, <2>1 DEF Accounted
  <2>6. FromTheList'
    <3>1. Len(pairs'[Map!Main]) \in Nat
      BY <1>0, <2>3 DEF MapTypes
    <3>2. \A g \in got : FALSE
      BY <1>0, <2>2 DEF Accounted, MapTypes
    <3>3. missed = {}
      BY <1>0, <2>2 DEF Accounted
    <3> QED
      BY <2>1, <2>2, <3>1, <3>2, <3>3 DEF FromTheList
  <2> QED
    BY <1>0, <2>1, <2>3, <2>4, <2>5, <2>6 DEF MapInv, NotBefore
<1>2. CASE Map!Start
  <2>1. /\ ~started /\ started'
        /\ pairs' = [p \in Map!Processes |-> pairs[Map!Main]]
        /\ inherited' = (pairs[Map!Main] # Map!Unlisted)
        /\ UNCHANGED <<source, uris, bucket, next, dealt, got, missed, lost, raised, changes>>
    BY <1>2 DEF Map!Start
  <2>2. next = 0
    BY <1>0, <2>1 DEF NotBefore
  <2>3. MapTypes'
    BY <1>0, <2>1 DEF MapTypes
  <2>4. ListsAgree'
    <3>1. OneList' = OneList /\ Map!Listed(uris)' = Map!Listed(uris)
      BY <2>1 DEF OneList, Map!Listed
    <3> QED
      BY <1>0, <2>1, <2>2, <3>1 DEF ListsAgree
  <2>5. Accounted'
    BY <1>0, <2>1 DEF Accounted
  <2>6. FromTheList'
    <3>1. Len(pairs'[Map!Main]) \in Nat
      BY <1>0, <2>3 DEF MapTypes
    <3>2. \A g \in got : FALSE
      BY <1>0, <2>2 DEF Accounted, MapTypes
    <3>3. missed = {}
      BY <1>0, <2>2 DEF Accounted
    <3> QED
      BY <2>1, <2>2, <3>1, <3>2, <3>3 DEF FromTheList
  <2> QED
    BY <2>1, <2>3, <2>4, <2>5, <2>6 DEF MapInv, NotBefore
<1>3. CASE Map!ListFails
  BY <1>0, <1>3 DEF Map!ListFails, Map!Raises, MapInv, MapTypes, ListsAgree, OneList,
                    Map!Listed, NotBefore, Accounted, FromTheList
<1>7. ASSUME NEW d \in dealt, Map!FetchFails(d[1], d[2])
      PROVE  MapInv'
  <2>0. d = <<d[1], d[2]>>
    BY <1>0, <1>7 DEF MapTypes
  <2>1. /\ dealt' = dealt \ {d} /\ lost' = lost \cup {d[2]}
        /\ UNCHANGED <<source, uris, bucket, pairs, started, inherited, next, got, missed, changes>>
    BY <1>7, <2>0 DEF Map!FetchFails, Map!Raises
  <2>2. MapTypes' /\ ListsAgree' /\ FromTheList'
    BY <1>0, <2>1 DEF MapTypes, ListsAgree, OneList, Map!Listed, FromTheList
  <2>3. Accounted'
    <3>1. ASSUME NEW j \in 0..(next - 1)
          PROVE  (\E e \in dealt' : e[2] = j) \/ (\E g \in got : g[1] = j)
                 \/ j \in missed \cup lost'
      <4>1. CASE j = d[2]
        BY <2>1, <4>1
      <4>2. CASE j # d[2]
        BY <1>0, <2>1, <4>2 DEF Accounted
      <4> QED
        BY <4>1, <4>2
    <3>2. \A e \in dealt' : e[2] < next
      BY <1>0, <2>1 DEF Accounted
    <3> QED
      BY <1>0, <2>1, <3>1, <3>2 DEF Accounted
  <2> QED
    BY <1>0, <2>1, <2>2, <2>3 DEF MapInv, NotBefore
<1>4. ASSUME NEW w \in 1..NumWorkers, Map!Deal(w)
      PROVE  MapInv'
  <2>1. /\ started /\ Map!List(Map!Main) /\ next < Len(pairs'[Map!Main])
        /\ next' = next + 1 /\ dealt' = dealt \cup {<<w, next>>}
        /\ UNCHANGED <<source, uris, bucket, started, inherited, got, missed, lost, raised, changes>>
    BY <1>4 DEF Map!Deal
  <2>2. MapTypes'
    BY <1>0, <2>1, ListFacts DEF MapTypes
  <2>3. next \in Nat /\ Len(pairs'[Map!Main]) \in Nat
    BY <1>0, <2>2 DEF MapTypes
  <2>4. ListsAgree'
    <3>1. inherited => pairs' = pairs
      BY <1>0, <2>1, ListKeeps
    <3> QED
      BY <1>0, <2>1, <3>1, ListKeeps DEF ListsAgree
  <2>5. Accounted'
    <3>1. <<w, next>> \in dealt' /\ <<w, next>>[2] = next /\ dealt \subseteq dealt'
      BY <2>1
    <3>2. \A e \in dealt' : e[2] < next'
      BY <1>0, <2>1, <2>3 DEF Accounted, MapTypes
    <3>3. \A g \in got' : g[1] < next'
      BY <1>0, <2>1, <2>3 DEF Accounted, MapTypes
    <3>4. missed' \subseteq 0..(next' - 1)
      BY <1>0, <2>1, <2>3 DEF Accounted
    <3>5. ASSUME NEW j \in 0..(next' - 1)
          PROVE  (\E e \in dealt' : e[2] = j) \/ (\E g \in got' : g[1] = j) \/ j \in (missed \cup lost)'
      <4>1. j = next \/ j \in 0..(next - 1)
        BY <2>1, <2>3
      <4> QED
        BY <1>0, <2>1, <3>1, <4>1 DEF Accounted
    <3> QED
      BY <3>2, <3>3, <3>4, <3>5 DEF Accounted
  <2>6. FromTheList'
    <3>1. OneList' = OneList
      BY <2>1 DEF OneList
    <3>2. SUFFICES ASSUME inherited \/ OneList
                   PROVE  /\ missed' = {} /\ next' <= Len(pairs'[Map!Main])
                          /\ \A g \in got : g[2] = pairs'[Map!Main][g[1] + 1]
      BY <2>1, <3>1 DEF FromTheList
    <3>3. missed' = {} /\ \A g \in got : g[2] = pairs[Map!Main][g[1] + 1]
      BY <1>0, <2>1, <3>2 DEF FromTheList
    <3>4. CASE next = 0
      <4>1. got = {}
        BY <1>0, <3>4 DEF Accounted, MapTypes
      <4> QED
        BY <2>1, <2>3, <3>3, <4>1
    <3>5. CASE next # 0
      <4>1. pairs'[Map!Main] = pairs[Map!Main]
        BY <1>0, <2>1, <2>3, <3>2, <3>5, ListKeeps DEF ListsAgree
      <4> QED
        BY <2>1, <2>3, <3>3, <4>1
    <3> QED
      BY <3>4, <3>5
  <2> QED
    BY <1>0, <2>1, <2>2, <2>4, <2>5, <2>6 DEF MapInv, NotBefore
<1>5. ASSUME NEW d \in dealt, Map!Fetch(d[1], d[2])
      PROVE  MapInv'
  <2> DEFINE w == d[1]
             i == d[2]
  <2>1. /\ w \in 1..NumWorkers /\ i \in Nat /\ i < next /\ next \in Nat /\ d = <<w, i>>
    BY <1>0, <1>5 DEF MapTypes, Accounted
  <2>2. /\ dealt' = dealt \ {d} /\ Map!List(w)
        /\ IF i < Len(pairs'[w])
           THEN got' = got \cup {<<i, pairs'[w][i + 1]>>} /\ missed' = missed
           ELSE missed' = missed \cup {i} /\ got' = got
        /\ UNCHANGED <<source, uris, bucket, started, inherited, next, lost, raised, changes>>
    BY <1>5, <2>1 DEF Map!Fetch
  <2> HIDE DEF w, i
  <2>3. w \in Map!Processes
    BY <1>0, <2>1
  <2>4. pairs' \in [Map!Processes -> Seq(Nat)]
    BY <1>0, <2>2, <2>3, ListFacts
  <2>5. pairs'[w] \in Seq(Nat) /\ Len(pairs'[w]) \in Nat
    BY <2>3, <2>4
  <2>6. MapTypes'
    <3>1. i < Len(pairs'[w]) => pairs'[w][i + 1] \in Nat
      <4>1. i < Len(pairs'[w]) => i + 1 \in 1..Len(pairs'[w])
        BY <2>1, <2>5
      <4> QED
        BY <2>5, <4>1, ElementOfSeq
    <3>2. got' \subseteq Nat \X Nat
      BY <1>0, <2>1, <2>2, <3>1 DEF MapTypes
    <3> QED
      BY <1>0, <2>2, <2>4, <3>2 DEF MapTypes
  <2>7. ListsAgree'
    <3>1. inherited => pairs' = pairs
      BY <1>0, <2>2, <2>3, ListKeeps
    <3>2. OneList /\ next > 0 => pairs'[Map!Main] = Map!Listed(uris)
      BY <1>0, <2>2, <2>3, ListKeeps, ListFacts DEF ListsAgree
    <3> QED
      BY <1>0, <2>2, <2>3, <3>1, <3>2, ListKeeps DEF ListsAgree
  <2>8. Accounted'
    <3>1. \A e \in dealt' : e[2] < next'
      BY <1>0, <2>2 DEF Accounted
    <3>2. \A g \in got' : g[1] < next'
      BY <1>0, <2>1, <2>2 DEF Accounted
    <3>3. missed' \subseteq 0..(next' - 1)
      <4>1. missed \subseteq 0..(next - 1) /\ i \in 0..(next - 1)
        BY <1>0, <2>1 DEF Accounted
      <4> QED
        BY <2>2, <4>1
    <3>4. (\E g \in got' : g[1] = i) \/ i \in missed'
      <4>1. ASSUME NEW g, g = <<i, pairs'[w][i + 1]>>, g \in got'
            PROVE  \E h \in got' : h[1] = i
        BY <4>1
      <4> QED
        BY <2>2, <4>1
    <3>5. ASSUME NEW j \in 0..(next' - 1)
          PROVE  (\E e \in dealt' : e[2] = j) \/ (\E g \in got' : g[1] = j) \/ j \in (missed \cup lost)'
      <4>1. got \subseteq got' /\ missed \subseteq missed' /\ lost' = lost
        BY <2>2
      <4>2. CASE j = i
        BY <3>4, <4>2
      <4>3. CASE j # i
        <5>1. \A e \in dealt : e[2] = j => e \in dealt'
          BY <2>2, <4>3 DEF i
        <5> QED
          BY <1>0, <2>2, <4>1, <5>1 DEF Accounted
      <4> QED
        BY <4>2, <4>3
    <3> QED
      BY <3>1, <3>2, <3>3, <3>5 DEF Accounted
  <2>9. FromTheList'
    <3>1. OneList' = OneList
      BY <2>2 DEF OneList
    <3>2. SUFFICES ASSUME inherited \/ OneList
                   PROVE  /\ missed' = {} /\ next' <= Len(pairs'[Map!Main])
                          /\ \A g \in got' : g[2] = pairs'[Map!Main][g[1] + 1]
      BY <2>2, <3>1 DEF FromTheList
    <3>3. /\ missed = {} /\ next <= Len(pairs[Map!Main])
          /\ \A g \in got : g[2] = pairs[Map!Main][g[1] + 1]
      BY <1>0, <3>2 DEF FromTheList
    <3>4. pairs'[Map!Main] = pairs[Map!Main] /\ pairs'[w] = pairs[Map!Main]
      <4>1. CASE inherited
        BY <1>0, <2>2, <2>3, <4>1, ListKeeps DEF ListsAgree
      <4>2. CASE OneList
        <5>1. pairs[Map!Main] = Map!Listed(uris)
          BY <1>0, <2>1, <4>2 DEF ListsAgree
        <5>2. pairs'[w] = Map!Listed(uris)
          BY <1>0, <2>2, <2>3, <4>2, ListKeeps
        <5>3. Map!Main # w => pairs'[Map!Main] = pairs[Map!Main]
          BY <1>0, <2>2, <2>3, ListFacts
        <5> QED
          BY <5>1, <5>2, <5>3
      <4> QED
        BY <3>2, <4>1, <4>2
    <3>5. i < Len(pairs'[w])
      BY <2>1, <2>5, <3>3, <3>4
    <3> QED
      BY <2>2, <3>3, <3>4, <3>5
  <2> QED
    BY <1>0, <2>2, <2>6, <2>7, <2>8, <2>9 DEF MapInv, NotBefore
<1>6. ASSUME NEW k \in Keys, Map!ChangeBucket(k)
      PROVE  MapInv'
  <2>1. /\ changes' = changes + 1
        /\ bucket' = IF k \in bucket THEN bucket \ {k} ELSE bucket \cup {k}
        /\ UNCHANGED <<source, uris, pairs, started, inherited, next, dealt, got, missed, lost, raised>>
    BY <1>6 DEF Map!ChangeBucket
  <2>2. changes' \in Nat /\ changes' # 0
    BY <1>0, <2>1 DEF MapTypes
  <2>3. OneList' => OneList
    BY <2>1, <2>2 DEF OneList
  <2>4. MapTypes'
    BY <1>0, <2>1, <2>2 DEF MapTypes
  <2>5. ListsAgree'
    BY <1>0, <2>1, <2>2, <2>3 DEF ListsAgree, Map!Listed
  <2>6. FromTheList'
    BY <1>0, <2>1, <2>3 DEF FromTheList
  <2>7. Accounted'
    BY <1>0, <2>1 DEF Accounted
  <2> QED
    BY <1>0, <2>1, <2>4, <2>5, <2>6, <2>7 DEF MapInv, NotBefore
<1> QED
  BY <1>1, <1>2, <1>3, <1>4, <1>5, <1>6, <1>7 DEF Map!Next

LEMMA MapGoal ==
  ASSUME MapInv
  PROVE  Map!EpochIsTheList
<1> DEFINE list == pairs[Map!Main]
<1>1. SUFFICES ASSUME inherited \/ OneList
               PROVE  /\ missed = {}
                      /\ \A g \in got : g[2] = list[g[1] + 1]
                      /\ started /\ dealt = {} /\ lost = {} /\ next = Len(list) =>
                           {g[2] : g \in got} = ToSet(list)
  BY DEF Map!EpochIsTheList, OneList, Map!ToSet, ToSet
<1>2. missed = {} /\ \A g \in got : g[2] = list[g[1] + 1]
  BY <1>1 DEF MapInv, FromTheList
<1>3. list \in Seq(Nat)
  BY DEF MapInv, MapTypes, Map!Processes
<1> HIDE DEF list
<1>4. ASSUME dealt = {}, lost = {}, next = Len(list)
      PROVE  {g[2] : g \in got} = ToSet(list)
  <2>1. DOMAIN list = 1..next /\ next \in Nat
    BY <1>3, <1>4
  <2>2. \A g \in got : g[1] \in Nat /\ g[1] < next
    BY DEF MapInv, MapTypes, Accounted
  <2>3. \A g \in got : g[1] + 1 \in DOMAIN list
    BY <2>1, <2>2
  <2>4. ASSUME NEW j \in DOMAIN list
        PROVE  \E g \in got : g[2] = list[j]
    <3>1. j - 1 \in 0..(next - 1) /\ (j - 1) + 1 = j
      BY <2>1
    <3>2. PICK g \in got : g[1] = j - 1
      BY <1>2, <1>4, <3>1 DEF MapInv, Accounted
    <3> QED
      BY <1>2, <3>1, <3>2
  <2> QED
    BY <1>2, <2>3, <2>4 DEF ToSet
<1> QED
  BY <1>2, <1>4

(***************************************************************************)
(* An index of a map dataset means the same object in every process: the   *)
(* workers fetch the list of the process that deals, and all of it unless  *)
(* one could not list, if that list was made before they were started, or  *)
(* if the listings were of the same keys (_dataset_bucket_key_pairs,       *)
(* __getitem__).                                                           *)
(***************************************************************************)
THEOREM EpochsAreTheList == MCSpec => []EpochIsTheList
<1> DEFINE Inv == kind = "map" => MapInv
<1>1. MCInit => Inv
  BY MapInitInvariant DEF MCInit
<1>2. Inv /\ [MCNext]_allVars => Inv'
  <2> SUFFICES ASSUME Inv, [MCNext]_allVars, kind' = "map"
               PROVE  MapInv'
    OBVIOUS
  <2>1. CASE kind = "iterable" /\ Next /\ UNCHANGED <<kind, mapOnly>>
    BY <2>1
  <2>2. CASE kind = "map" /\ Map!Next /\ UNCHANGED <<kind, iterableOnly>>
    BY <2>2, MapStepInvariant
  <2>3. CASE UNCHANGED allVars
    BY <2>3 DEF allVars, vars, dataset, mapOnly, MapInv, MapTypes, ListsAgree, OneList,
                Map!Listed, NotBefore, Accounted, FromTheList
  <2> QED
    BY <2>1, <2>2, <2>3 DEF MCNext
<1>3. Inv => EpochIsTheList
  BY MapGoal DEF EpochIsTheList
<1> QED
  BY <1>1, <1>2, <1>3, PTL DEF MCSpec

-----------------------------------------------------------------------------
(* Pages.  What a listing has after its first p keys, is listed next.      *)

LEMMA ListedAfter ==
  ASSUME NEW S, S \subseteq Nat \ {0}, IsFiniteSet(S), NEW p \in 0..Len(Listed(S)),
         NEW t, t = IF p = 0 THEN 0 ELSE Listed(S)[p]
  PROVE  Listed({k \in S : k > t}) = [i \in 1..(Len(Listed(S)) - p) |-> Listed(S)[p + i]]
<1> DEFINE L == Listed(S)
           T == {k \in S : k > t}
           n == Len(L)
           u == [i \in 1..(n - p) |-> L[p + i]]
<1>1. /\ n \in Nat /\ L \in Seq(S)
      /\ \A k \in 1..n : L[k] \in S /\ L[k] \in Nat \ {0}
      /\ \A j, k \in 1..n : j < k => L[j] < L[k]
      /\ \A x \in S : \E k \in 1..n : L[k] = x
  <2>1. S \subseteq Nat
    OBVIOUS
  <2>2. Lists(L, S)
    BY <2>1, ListedLists
  <2> HIDE DEF L
  <2>3. \A k \in 1..n : L[k] \in S
    BY <2>2, ListElements
  <2>4. \A x \in S : \E k \in 1..n : L[k] = x
    BY <2>2, ListElements
  <2>5. n \in Nat /\ L \in Seq(S) /\ \A j, k \in 1..n : j < k => L[j] < L[k]
    BY <2>2 DEF Lists, Increasing
  <2> QED
    BY <2>3, <2>4, <2>5
<1> HIDE DEF L, n
<1>2. p \in 0..n /\ (p = 0 => t = 0) /\ (p # 0 => t = L[p])
  BY DEF L, n
<1>3. \A k \in 1..n : L[k] > t <=> k > p
  <2> SUFFICES ASSUME NEW k \in 1..n PROVE L[k] > t <=> k > p
    OBVIOUS
  <2>1. CASE p = 0
    BY <1>1, <1>2, <2>1
  <2>2. CASE p # 0
    <3>1. p \in 1..n /\ t = L[p]
      BY <1>1, <1>2, <2>2
    <3>2. L[p] \in Nat /\ L[k] \in Nat
      BY <1>1, <3>1
    <3>3. k > p => L[k] > L[p]
      BY <1>1, <3>1, <3>2
    <3>4. k = p \/ k < p => ~(L[k] > L[p])
      BY <1>1, <3>1, <3>2
    <3> QED
      BY <3>1, <3>3, <3>4
  <2> QED
    BY <2>1, <2>2
<1>4. n - p \in Nat
  BY <1>1, <1>2
<1>5. \A i \in 1..(n - p) : p + i \in 1..n /\ p + i > p
  BY <1>1, <1>2
<1>6. \A i \in 1..(n - p) : L[p + i] \in T
  BY <1>1, <1>3, <1>5
<1>7. u \in Seq(T) /\ Len(u) = n - p /\ \A i \in 1..(n - p) : u[i] = L[p + i]
  <2> HIDE DEF T
  <2> QED
    BY <1>4, <1>6
<1> HIDE DEF u
<1>8. Increasing(u)
  <2> SUFFICES ASSUME NEW i \in 1..(n - p), NEW j \in 1..(n - p), i < j
               PROVE  u[i] < u[j]
    BY <1>7 DEF Increasing
  <2>1. p + i < p + j
    BY <1>2
  <2>2. L[p + i] < L[p + j]
    BY <1>1, <1>5, <2>1
  <2> QED
    BY <1>7, <2>2
<1>9. ToSet(u) = T
  <2>1. DOMAIN u = 1..(n - p)
    BY <1>7
  <2>2. ASSUME NEW x \in T
        PROVE  \E i \in 1..(n - p) : u[i] = x
    <3>1. PICK k \in 1..n : L[k] = x
      BY <1>1
    <3>2. k > p
      BY <1>3, <3>1
    <3>3. k - p \in 1..(n - p) /\ p + (k - p) = k
      BY <1>1, <1>2, <3>2
    <3>4. u[k - p] = x
      BY <1>7, <3>1, <3>3
    <3> QED
      BY <3>3, <3>4
  <2>3. \A i \in 1..(n - p) : u[i] \in T
    BY <1>6, <1>7
  <2> HIDE DEF T
  <2> QED
    BY <2>1, <2>2, <2>3 DEF ToSet
<1>10. T \subseteq Nat /\ IsFiniteSet(T)
  BY FS_Subset
<1> HIDE DEF T
<1>11. u = Listed(T)
  BY <1>7, <1>8, <1>9, <1>10, ListingUnique DEF Lists
<1> QED
  BY <1>11 DEF T, u, n, L

LEMMA IncreasingCardinality ==
  ASSUME NEW S, S \subseteq Nat, NEW s \in Seq(S), Increasing(s)
  PROVE  Cardinality(ToSet(s)) = Len(s)
<1>1. DOMAIN s = 1..Len(s) /\ Len(s) \in Nat
  OBVIOUS
<1>2. \A i \in 1..Len(s) : s[i] \in Nat
  <2>1. \A i \in 1..Len(s) : s[i] \in S
    OBVIOUS
  <2> QED
    BY <2>1
<1>3. s \in [1..Len(s) -> ToSet(s)]
  <2>1. \A i \in 1..Len(s) : s[i] \in ToSet(s)
    BY <1>1 DEF ToSet
  <2> QED
    BY <1>1, <2>1
<1>4. \A i, j \in 1..Len(s) : s[i] = s[j] => i = j
  <2> SUFFICES ASSUME NEW i \in 1..Len(s), NEW j \in 1..Len(s), s[i] = s[j], i # j
               PROVE  FALSE
    OBVIOUS
  <2>1. i < j \/ j < i
    BY <1>1
  <2>2. s[i] < s[j] \/ s[j] < s[i]
    BY <2>1 DEF Increasing
  <2>3. s[i] \in Nat /\ s[j] \in Nat
    BY <1>2
  <2> QED
    BY <2>2, <2>3
<1>5. \A x \in ToSet(s) : \E i \in 1..Len(s) : s[i] = x
  BY <1>1 DEF ToSet
<1>6. s \in Bijection(1..Len(s), ToSet(s))
  BY <1>3, <1>4, <1>5, Fun_IsBij
<1>7. ExistsBijection(1..Len(s), ToSet(s))
  BY <1>6 DEF ExistsBijection
<1> QED
  BY <1>1, <1>7, FS_CountingElements

-----------------------------------------------------------------------------
(* The iterable dataset: what the workers have listed and yielded.         *)

LEMMA WorkerFacts ==
  ASSUME NEW w \in Workers
  PROVE  /\ World \in Nat \ {0} /\ RankOf(w) \in 0..(World - 1)
         /\ NumWorkers \in Nat \ {0} /\ w[2] \in 0..(NumWorkers - 1)
BY KeysFacts DEF Workers, World, RankOf

ShardTypes ==
  /\ uris \subseteq Keys /\ bucket \subseteq Keys
  /\ source \in {"prefix", "uris"} /\ sharded \in BOOLEAN /\ early \in BOOLEAN
  /\ changes \in Nat
  /\ source = "uris" => changes = 0
  /\ changes = 0 => bucket = uris
  /\ token \in [Workers -> Nat] /\ complete \in [Workers -> BOOLEAN]
  /\ page \in [Workers -> Seq(Keys)] /\ out \in [Workers -> Seq(Keys)]
  /\ idx \in [Workers -> Nat] /\ rankIdx \in [Workers -> Nat]
  /\ status \in [Workers -> {"running", "done", "raised"}]

(* What was yielded comes before what is left of the page, and all of it   *)
(* up to the token.                                                        *)
Ordered(o, p, t, c) ==
  /\ Increasing(o) /\ Increasing(p)
  /\ \A i \in 1..Len(o), j \in 1..Len(p) : o[i] < p[j]
  /\ ~c => /\ \A i \in 1..Len(o) : o[i] <= t
           /\ \A j \in 1..Len(p) : p[j] <= t
  /\ ~c /\ source = "uris" => t = 0

(* The page is what comes next in the one listing there is, and what was   *)
(* enumerated is what came before.                                         *)
Positioned(t, c, p, i, st) ==
  LET L == Listed(uris)
  IN  /\ i + Len(p) <= Len(L)
      /\ \A k \in 1..Len(p) : p[k] = L[i + k]
      /\ c => i + Len(p) = Len(L)
      /\ ~c /\ source = "prefix" =>
           t = IF i + Len(p) = 0 THEN 0 ELSE L[i + Len(p)]
      /\ ~c /\ source = "uris" => i = 0 /\ p = <<>>
      /\ st = "done" => c /\ p = <<>>

(* Does the n-th object, from 0, fall to w.                                *)
Falls(w, n) ==
  sharded => n % World = RankOf(w) /\ (n \div World) % NumWorkers = w[2]

(* What w has of the objects before i.                                     *)
Dealt(w, i, r, o) ==
  /\ sharded => /\ r = Share(i, World, RankOf(w))
                /\ Len(o) = Share(r, NumWorkers, w[2])
  /\ ToSet(o) = {Listed(uris)[k] : k \in {m \in 1..i : Falls(w, m - 1)}}

OrderInv == \A w \in Workers : Ordered(out[w], page[w], token[w], complete[w])

ShareInv ==
  changes = 0 => \A w \in Workers :
    /\ Positioned(token[w], complete[w], page[w], idx[w], status[w])
    /\ Dealt(w, idx[w], rankIdx[w], out[w])

ShardInv == ShardTypes /\ OrderInv /\ ShareInv

-----------------------------------------------------------------------------
LEMMA PageFacts ==
  ASSUME ShardTypes, NEW t \in Nat
  PROVE  /\ After(t) \in Seq(Keys) /\ Increasing(After(t))
         /\ \A i \in 1..Len(After(t)) : After(t)[i] > t
         /\ Page(t) \in Seq(Keys)
         /\ Len(Page(t)) = IF Len(After(t)) < PageSize THEN Len(After(t)) ELSE PageSize
         /\ \A i \in 1..Len(Page(t)) : Page(t)[i] = After(t)[i]
         /\ Len(Page(t)) \in 0..Len(After(t))
         /\ NextToken(t) = IF Len(After(t)) <= PageSize THEN 0 ELSE After(t)[Len(Page(t))]
         /\ NextToken(t) \in Nat
         /\ NextToken(t) # 0 => Len(After(t)) > PageSize /\ NextToken(t) > t
         /\ NextToken(t) = 0 => Len(Page(t)) = Len(After(t))
<1> DEFINE S == {k \in bucket : k > t}
           A == After(t)
           n == IF Len(A) < PageSize THEN Len(A) ELSE PageSize
<1>1. S \subseteq Keys /\ S \subseteq Nat /\ IsFiniteSet(S) /\ PageSize \in Nat \ {0}
  BY KeysFacts DEF ShardTypes
<1>2. Lists(A, S)
  BY <1>1, ListedLists DEF After
<1>3. /\ A \in Seq(S) /\ Increasing(A) /\ Len(A) \in Nat
      /\ \A i \in 1..Len(A) : A[i] \in S
  BY <1>2, ListElements DEF Lists
<1>4. \A x \in S : x > t /\ x \in Keys /\ x \in Nat
  BY <1>1
<1>5. Page(t) = SubSeq(A, 1, n)
  BY DEF Page
<1>6. NextToken(t) = IF Len(A) <= PageSize THEN 0 ELSE A[PageSize]
  BY DEF NextToken
<1> HIDE DEF S, A
<1>7. A \in Seq(Keys)
  BY <1>3, <1>4, SeqMonotonic
<1>8. \A i \in 1..Len(A) : A[i] > t /\ A[i] \in Nat
  BY <1>3, <1>4
<1>9. n \in 0..Len(A)
  BY <1>1, <1>3
<1>10. /\ Page(t) \in Seq(Keys) /\ Len(Page(t)) = n
       /\ \A i \in 1..n : Page(t)[i] = A[i]
  <2> HIDE DEF n
  <2>1. SubSeq(A, 1, n) \in Seq(Keys) /\ Len(SubSeq(A, 1, n)) = n
    BY <1>3, <1>7, <1>9
  <2>2. \A i \in 1..n : SubSeq(A, 1, n)[i] = A[i]
    BY <1>3, <1>7, <1>9
  <2> QED
    BY <1>5, <2>1, <2>2
<1>11. Len(A) > PageSize => n = PageSize /\ PageSize \in 1..Len(A)
  BY <1>1, <1>3
<1>12. Len(A) <= PageSize => n = Len(A)
  BY <1>1, <1>3
<1>13. CASE Len(A) <= PageSize
  BY <1>3, <1>6, <1>7, <1>8, <1>9, <1>10, <1>12, <1>13 DEF A
<1>14. CASE Len(A) > PageSize
  <2>1. NextToken(t) = A[PageSize] /\ A[PageSize] \in Nat /\ A[PageSize] > t
    BY <1>1, <1>3, <1>6, <1>8, <1>11, <1>14
  <2> QED
    BY <1>1, <1>3, <1>7, <1>8, <1>9, <1>10, <1>11, <1>14, <2>1 DEF A
<1> QED
  BY <1>1, <1>3, <1>13, <1>14

LEMMA ListingFacts ==
  ASSUME ShardTypes
  PROVE  /\ Listed(uris) \in Seq(Keys) /\ Len(Listed(uris)) \in Nat
         /\ Increasing(Listed(uris)) /\ ToSet(Listed(uris)) = uris
         /\ \A i \in 1..Len(Listed(uris)) : Listed(uris)[i] \in Nat \ {0}
<1>1. uris \subseteq Keys /\ uris \subseteq Nat /\ IsFiniteSet(uris)
  BY KeysFacts DEF ShardTypes
<1> DEFINE L == Listed(uris)
<1>2. Lists(L, uris)
  BY <1>1, ListedLists
<1> HIDE DEF L
<1>3. L \in Seq(uris) /\ Increasing(L) /\ ToSet(L) = uris
  BY <1>2 DEF Lists
<1>4. L \in Seq(Keys)
  BY <1>1, <1>3, SeqMonotonic
<1>5. \A k \in Keys : k \in Nat \ {0}
  BY ConstantsAssumption
<1>6. \A i \in 1..Len(L) : L[i] \in Keys
  BY <1>4
<1> QED
  BY <1>3, <1>4, <1>5, <1>6 DEF L

(* One worker at a time: what holds of the others still does.              *)
LEMMA OtherWorkers ==
  ASSUME ShardInv, ShardTypes', UNCHANGED <<bucket, dataset, changes>>, NEW w \in Workers,
         \A v \in Workers : v # w =>
           /\ token'[v] = token[v] /\ complete'[v] = complete[v] /\ page'[v] = page[v]
           /\ idx'[v] = idx[v] /\ rankIdx'[v] = rankIdx[v] /\ out'[v] = out[v]
           /\ status'[v] = status[v],
         Ordered(out'[w], page'[w], token'[w], complete'[w]),
         changes = 0 => /\ Positioned(token'[w], complete'[w], page'[w], idx'[w], status'[w])
                        /\ Dealt(w, idx'[w], rankIdx'[w], out'[w])
  PROVE  ShardInv'
<1>4. \A v \in Workers : Ordered(out'[v], page'[v], token'[v], complete'[v])
  BY DEF ShardInv, OrderInv
<1>5. changes = 0 => \A v \in Workers :
        /\ Positioned(token'[v], complete'[v], page'[v], idx'[v], status'[v])
        /\ Dealt(v, idx'[v], rankIdx'[v], out'[v])
  BY DEF ShardInv, ShareInv
<1>6. OrderInv'
  BY <1>4 DEF OrderInv, Ordered, dataset
<1>7. ShareInv'
  <2>1. /\ uris' = uris /\ source' = source /\ sharded' = sharded /\ early' = early
        /\ changes' = changes
    BY DEF dataset
  <2>2. ASSUME changes' = 0, NEW v \in Workers
        PROVE  /\ Positioned(token[v], complete[v], page[v], idx[v], status[v])'
               /\ Dealt(v, idx[v], rankIdx[v], out[v])'
    <3>1. Positioned(token'[v], complete'[v], page'[v], idx'[v], status'[v])
      BY <1>5, <2>1, <2>2
    <3>2. Dealt(v, idx'[v], rankIdx'[v], out'[v])
      BY <1>5, <2>1, <2>2
    <3>3. World' = World /\ RankOf(v)' = RankOf(v) /\ Listed(uris)' = Listed(uris)
      BY <2>1 DEF World, RankOf, Listed
    <3>4. \A n : Falls(v, n)' = Falls(v, n)
      BY <2>1, <3>3 DEF Falls
    <3>5. Positioned(token[v], complete[v], page[v], idx[v], status[v])'
      BY <2>1, <3>1, <3>3 DEF Positioned
    <3>6. Dealt(v, idx[v], rankIdx[v], out[v])'
      BY <2>1, <3>2, <3>3, <3>4 DEF Dealt
    <3> QED
      BY <3>5, <3>6
  <2> QED
    BY <2>2 DEF ShareInv
<1> QED
  BY <1>6, <1>7 DEF ShardInv

LEMMA ShardInitInvariant ==
  ASSUME Init
  PROVE  ShardInv
<1>1. ShardTypes
  <2>1. \E d \in [source : {"prefix", "uris"}, sharded : BOOLEAN, early : BOOLEAN] :
          source = d.source /\ sharded = d.sharded /\ early = d.early
    BY ConstantsAssumption DEF Init
  <2>2. source \in {"prefix", "uris"} /\ sharded \in BOOLEAN /\ early \in BOOLEAN
    BY <2>1
  <2>3. <<>> \in Seq(Keys)
    OBVIOUS
  <2> QED
    BY <2>2, <2>3 DEF Init, ShardTypes
<1>2. OrderInv
  BY DEF Init, OrderInv, Ordered, Increasing
<1>3. ASSUME NEW w \in Workers
      PROVE  /\ Positioned(token[w], complete[w], page[w], idx[w], status[w])
             /\ Dealt(w, idx[w], rankIdx[w], out[w])
  <2>1. /\ token[w] = 0 /\ complete[w] = FALSE /\ page[w] = <<>> /\ idx[w] = 0
        /\ rankIdx[w] = 0 /\ out[w] = <<>> /\ status[w] = "running"
    BY DEF Init
  <2>2. Len(Listed(uris)) \in Nat
    BY <1>1, ListingFacts
  <2>3. Positioned(0, FALSE, <<>>, 0, "running")
    BY <2>2 DEF Positioned
  <2>4. Share(0, World, RankOf(w)) = 0 /\ Share(0, NumWorkers, w[2]) = 0
    <3>1. ASSUME NEW d \in Nat \ {0}, NEW r \in 0..(d - 1) PROVE Share(0, d, r) = 0
      <4>1. 0 \in Nat
        OBVIOUS
      <4> QED
        BY <4>1, ShareFacts
    <3> QED
      BY <3>1, WorkerFacts
  <2>5. ToSet(<<>>) = {} /\ {m \in 1..0 : Falls(w, m - 1)} = {}
    BY DEF ToSet
  <2>6. Dealt(w, 0, 0, <<>>)
    BY <2>4, <2>5 DEF Dealt
  <2> QED
    BY <2>1, <2>3, <2>6
<1> QED
  BY <1>1, <1>2, <1>3 DEF ShardInv, ShareInv

LEMMA AppendFacts ==
  ASSUME NEW s \in Seq(Keys), NEW x \in Keys
  PROVE  /\ Append(s, x) \in Seq(Keys) /\ Len(Append(s, x)) = Len(s) + 1 /\ Len(s) \in Nat
         /\ \A i \in 1..Len(s) : Append(s, x)[i] = s[i]
         /\ Append(s, x)[Len(s) + 1] = x
         /\ ToSet(Append(s, x)) = ToSet(s) \cup {x}
<1> DEFINE u == Append(s, x)
<1>1. /\ u \in Seq(Keys) /\ Len(u) = Len(s) + 1 /\ Len(s) \in Nat
      /\ \A i \in 1..Len(s) : u[i] = s[i]
      /\ u[Len(s) + 1] = x
  OBVIOUS
<1>2. DOMAIN u = 1..(Len(s) + 1) /\ DOMAIN s = 1..Len(s)
  BY <1>1
<1> HIDE DEF u
<1>3. 1..(Len(s) + 1) = (1..Len(s)) \cup {Len(s) + 1}
  BY <1>1
<1>4. ToSet(u) = ToSet(s) \cup {x}
  BY <1>1, <1>2, <1>3 DEF ToSet
<1> QED
  BY <1>1, <1>4 DEF u

LEMMA TailFacts ==
  ASSUME NEW p \in Seq(Keys), p # <<>>
  PROVE  /\ Tail(p) \in Seq(Keys) /\ Len(p) \in Nat \ {0} /\ Len(Tail(p)) = Len(p) - 1
         /\ Head(p) = p[1] /\ Head(p) \in Keys
         /\ \A i \in 1..(Len(p) - 1) : Tail(p)[i] = p[i + 1]
OBVIOUS

(* One object: what is yielded, and what is left of the page.              *)
LEMMA EnumerateOrder ==
  ASSUME NEW o \in Seq(Keys), NEW p \in Seq(Keys), p # <<>>, NEW t \in Nat, NEW c,
         Ordered(o, p, t, c), NEW q, q \in {o, Append(o, Head(p))}
  PROVE  Ordered(q, Tail(p), t, c)
<1>1. /\ Len(p) \in Nat \ {0} /\ Len(Tail(p)) = Len(p) - 1
      /\ Head(p) = p[1] /\ Head(p) \in Keys
      /\ \A i \in 1..(Len(p) - 1) : Tail(p)[i] = p[i + 1] /\ i + 1 \in 1..Len(p)
  BY TailFacts
<1>2. \A k \in Keys : k \in Nat
  BY KeysFacts
<1>3. Len(o) \in Nat /\ \A i \in 1..Len(o) : o[i] \in Nat
  <2>1. \A i \in 1..Len(o) : o[i] \in Keys
    OBVIOUS
  <2> QED
    BY <1>2, <2>1
<1>4. \A j \in 1..Len(p) : p[j] \in Nat
  <2>1. \A i \in 1..Len(p) : p[i] \in Keys
    OBVIOUS
  <2> QED
    BY <1>2, <2>1
<1>5. /\ \A i, j \in 1..Len(o) : i < j => o[i] < o[j]
      /\ \A i, j \in 1..Len(p) : i < j => p[i] < p[j]
      /\ \A i \in 1..Len(o), j \in 1..Len(p) : o[i] < p[j]
      /\ ~c => /\ \A i \in 1..Len(o) : o[i] <= t
               /\ \A j \in 1..Len(p) : p[j] <= t
      /\ ~c /\ source = "uris" => t = 0
  BY DEF Ordered, Increasing
<1>6. Increasing(Tail(p))
  <2> SUFFICES ASSUME NEW i \in 1..(Len(p) - 1), NEW j \in 1..(Len(p) - 1), i < j
               PROVE  Tail(p)[i] < Tail(p)[j]
    BY <1>1 DEF Increasing
  <2>1. i + 1 < j + 1
    BY <1>1
  <2> QED
    BY <1>1, <1>5, <2>1
<1>7. \A j \in 1..Len(Tail(p)) : p[1] < Tail(p)[j]
  <2> SUFFICES ASSUME NEW j \in 1..(Len(p) - 1) PROVE p[1] < Tail(p)[j]
    BY <1>1
  <2>1. 1 < j + 1 /\ 1 \in 1..Len(p)
    BY <1>1
  <2> QED
    BY <1>1, <1>5, <2>1
<1>8. ~c => \A j \in 1..Len(Tail(p)) : Tail(p)[j] <= t
  BY <1>1, <1>5
<1>9. CASE q = o
  <2>1. \A i \in 1..Len(o), j \in 1..Len(Tail(p)) : o[i] < Tail(p)[j]
    BY <1>1, <1>5
  <2>2. Increasing(o)
    BY DEF Ordered
  <2> QED
    BY <1>5, <1>6, <1>8, <1>9, <2>1, <2>2 DEF Ordered
<1>10. CASE q = Append(o, Head(p))
  <2>1. /\ Len(q) = Len(o) + 1 /\ q[Len(o) + 1] = p[1]
        /\ \A i \in 1..Len(o) : q[i] = o[i]
    BY <1>1, <1>10, AppendFacts
  <2>2. \A i \in 1..Len(q) : i \in 1..Len(o) \/ i = Len(o) + 1
    BY <1>3, <2>1
  <2>3. 1 \in 1..Len(p) /\ p[1] \in Nat
    BY <1>1, <1>4
  <2>4. Increasing(q)
    <3> SUFFICES ASSUME NEW i \in 1..Len(q), NEW j \in 1..Len(q), i < j
                 PROVE  q[i] < q[j]
      BY DEF Increasing
    <3>1. i \in 1..Len(o)
      BY <1>3, <2>1
    <3>2. CASE j \in 1..Len(o)
      BY <1>5, <2>1, <3>1, <3>2
    <3>3. CASE j = Len(o) + 1
      BY <1>5, <2>1, <2>3, <3>1, <3>3
    <3> QED
      BY <2>2, <3>2, <3>3
  <2>5. ASSUME NEW i \in 1..Len(q), NEW j \in 1..Len(Tail(p))
        PROVE  q[i] < Tail(p)[j]
    <3>1. CASE i \in 1..Len(o)
      BY <1>1, <1>5, <2>1, <3>1
    <3>2. CASE i = Len(o) + 1
      BY <1>7, <2>1, <3>2
    <3> QED
      BY <2>2, <3>1, <3>2
  <2>6. ~c => \A i \in 1..Len(q) : q[i] <= t
    <3>1. ~c => p[1] <= t
      BY <1>5, <2>3
    <3> QED
      BY <1>5, <2>1, <2>2, <3>1
  <2> QED
    BY <1>5, <1>6, <1>8, <2>4, <2>5, <2>6 DEF Ordered
<1> QED
  BY <1>9, <1>10

(* Whom the object falls to.                                               *)
LEMMA EnumerateDealt ==
  ASSUME ShardTypes, NEW w \in Workers, Dealt(w, idx[w], rankIdx[w], out[w]),
         NEW x \in Keys, x = Listed(uris)[idx[w] + 1],
         NEW r, r = IF FallsToRank(w) THEN rankIdx[w] + 1 ELSE rankIdx[w],
         NEW o, o = IF FallsToRank(w) /\ FallsToWorker(w) THEN Append(out[w], x) ELSE out[w]
  PROVE  Dealt(w, idx[w] + 1, r, o)
<1> DEFINE n == idx[w]
<1>1. /\ n \in Nat /\ rankIdx[w] \in Nat /\ out[w] \in Seq(Keys)
  BY DEF ShardTypes
<1>2. /\ World \in Nat \ {0} /\ RankOf(w) \in 0..(World - 1)
      /\ NumWorkers \in Nat \ {0} /\ w[2] \in 0..(NumWorkers - 1)
  BY WorkerFacts
<1>3. /\ ToSet(Append(out[w], x)) = ToSet(out[w]) \cup {x}
      /\ Len(Append(out[w], x)) = Len(out[w]) + 1
  BY <1>1, AppendFacts
<1> DEFINE was == {m \in 1..n : Falls(w, m - 1)}
           is == {m \in 1..(n + 1) : Falls(w, m - 1)}
<1>4. is = IF Falls(w, n) THEN was \cup {n + 1} ELSE was
  <2>1. 1..(n + 1) = (1..n) \cup {n + 1} /\ n + 1 \notin 1..n /\ (n + 1) - 1 = n
    BY <1>1
  <2> HIDE DEF n
  <2> QED
    BY <2>1
<1>5. ToSet(out[w]) = {Listed(uris)[k] : k \in was}
  BY DEF Dealt
<1>6. (sharded => rankIdx[w] = Share(n, World, RankOf(w))) /\
      (sharded => Len(out[w]) = Share(rankIdx[w], NumWorkers, w[2]))
  BY DEF Dealt
<1>7. sharded => r = Share(n + 1, World, RankOf(w))
  <2>1. Share(n + 1, World, RankOf(w)) =
          IF n % World = RankOf(w) THEN Share(n, World, RankOf(w)) + 1
          ELSE Share(n, World, RankOf(w))
    BY <1>1, <1>2, ShareFacts
  <2>2. sharded => (FallsToRank(w) <=> n % World = RankOf(w))
    BY DEF FallsToRank
  <2> QED
    BY <1>6, <2>1, <2>2
<1>8. sharded /\ FallsToRank(w) => rankIdx[w] = n \div World
  BY <1>1, <1>2, <1>6, ShareFacts DEF FallsToRank
<1>9. Falls(w, n) <=> FallsToRank(w) /\ FallsToWorker(w)
  BY <1>8 DEF Falls, FallsToRank, FallsToWorker
<1>10. sharded => Len(o) = Share(r, NumWorkers, w[2])
  <2>1. sharded => Share(rankIdx[w] + 1, NumWorkers, w[2]) =
          IF FallsToWorker(w) THEN Len(out[w]) + 1 ELSE Len(out[w])
    <3>1. Share(rankIdx[w] + 1, NumWorkers, w[2]) =
            IF rankIdx[w] % NumWorkers = w[2] THEN Share(rankIdx[w], NumWorkers, w[2]) + 1
            ELSE Share(rankIdx[w], NumWorkers, w[2])
      BY <1>1, <1>2, ShareFacts
    <3>2. sharded => (FallsToWorker(w) <=> rankIdx[w] % NumWorkers = w[2])
      BY DEF FallsToWorker
    <3> QED
      BY <1>6, <3>1, <3>2
  <2> QED
    BY <1>3, <1>6, <2>1
<1>11. ToSet(o) = {Listed(uris)[k] : k \in is}
  <2> HIDE DEF was, is, n
  <2>1. CASE Falls(w, n)
    BY <1>3, <1>4, <1>5, <1>9, <2>1 DEF n
  <2>2. CASE ~Falls(w, n)
    BY <1>4, <1>5, <1>9, <2>2
  <2> QED
    BY <2>1, <2>2
<1> QED
  BY <1>7, <1>10, <1>11 DEF Dealt

-----------------------------------------------------------------------------
LEMMA ShardStepInvariant ==
  ASSUME ShardInv, Next
  PROVE  ShardInv'
<1>0. ShardTypes
  BY DEF ShardInv
<1>1. ASSUME NEW w \in Workers
      PROVE  /\ token[w] \in Nat /\ complete[w] \in BOOLEAN /\ page[w] \in Seq(Keys)
             /\ out[w] \in Seq(Keys) /\ idx[w] \in Nat /\ rankIdx[w] \in Nat
             /\ status[w] \in {"running", "done", "raised"}
             /\ token = [token EXCEPT ![w] = token[w]]
             /\ complete = [complete EXCEPT ![w] = complete[w]]
             /\ page = [page EXCEPT ![w] = page[w]] /\ out = [out EXCEPT ![w] = out[w]]
             /\ idx = [idx EXCEPT ![w] = idx[w]]
             /\ rankIdx = [rankIdx EXCEPT ![w] = rankIdx[w]]
             /\ status = [status EXCEPT ![w] = status[w]]
             /\ Ordered(out[w], page[w], token[w], complete[w])
             /\ changes = 0 =>
                  /\ Positioned(token[w], complete[w], page[w], idx[w], status[w])
                  /\ Dealt(w, idx[w], rankIdx[w], out[w])
  BY DEF ShardInv, ShardTypes, OrderInv, ShareInv
<1>2. ASSUME NEW w \in Workers, TakeUris(w)
      PROVE  ShardInv'
  <2> DEFINE L == Listed(uris)
  <2>1. /\ source = "uris" /\ status[w] = "running" /\ complete[w] = FALSE
        /\ page' = [page EXCEPT ![w] = L] /\ complete' = [complete EXCEPT ![w] = TRUE]
        /\ UNCHANGED <<bucket, dataset, token, idx, rankIdx, out, status, changes>>
    BY <1>1, <1>2 DEF TakeUris
  <2>2. L \in Seq(Keys) /\ Increasing(L) /\ Len(L) \in Nat
    BY <1>0, ListingFacts
  <2>3. changes = 0
    BY <1>0, <2>1 DEF ShardTypes
  <2>4. idx[w] = 0
    BY <1>1, <2>1, <2>3 DEF Positioned
  <2>5. Len(out[w]) = 0 /\ Increasing(out[w])
    <3>1. Increasing(out[w]) /\ \A i \in 1..Len(out[w]) : out[w][i] <= 0
      BY <1>1, <2>1 DEF Ordered
    <3>2. \A i \in 1..Len(out[w]) : out[w][i] \in Nat \ {0}
      <4>1. \A i \in 1..Len(out[w]) : out[w][i] \in Keys
        BY <1>1
      <4> QED
        BY <4>1, ConstantsAssumption
    <3>3. Len(out[w]) \in Nat
      BY <1>1
    <3>4. ASSUME Len(out[w]) # 0 PROVE FALSE
      <4>1. 1 \in 1..Len(out[w])
        BY <3>3, <3>4
      <4>2. out[w][1] <= 0 /\ out[w][1] \in Nat \ {0}
        BY <3>1, <3>2, <4>1
      <4> QED
        BY <4>2
    <3> QED
      BY <3>1, <3>4
  <2> HIDE DEF L
  <2>6. Ordered(out[w], L, token[w], TRUE)
    BY <2>2, <2>5 DEF Ordered
  <2>7. Positioned(token[w], TRUE, L, 0, "running")
    BY <2>2 DEF Positioned, L
  <2> QED
    <3>1. ShardTypes'
      BY <1>0, <2>1, <2>2 DEF ShardTypes, dataset
    <3>2. page'[w] = L /\ complete'[w] = TRUE
      BY <1>0, <2>1, <2>2 DEF ShardTypes
    <3>3. /\ token'[w] = token[w] /\ idx'[w] = 0 /\ rankIdx'[w] = rankIdx[w]
          /\ out'[w] = out[w] /\ status'[w] = "running"
      BY <2>1, <2>4
    <3>4. \A v \in Workers : v # w =>
            /\ token'[v] = token[v] /\ complete'[v] = complete[v] /\ page'[v] = page[v]
            /\ idx'[v] = idx[v] /\ rankIdx'[v] = rankIdx[v] /\ out'[v] = out[v]
            /\ status'[v] = status[v]
      BY <1>0, <2>1 DEF ShardTypes
    <3>5. Ordered(out'[w], page'[w], token'[w], complete'[w])
      BY <2>6, <3>2, <3>3
    <3>6. Positioned(token'[w], complete'[w], page'[w], idx'[w], status'[w])
      BY <2>7, <3>2, <3>3
    <3>7. changes = 0 => Dealt(w, idx'[w], rankIdx'[w], out'[w])
      BY <1>1, <2>4, <3>3
    <3> QED
      BY <2>1, <3>1, <3>4, <3>5, <3>6, <3>7, OtherWorkers
<1>3. ASSUME NEW w \in Workers, ListPage(w)
      PROVE  ShardInv'
  <2> DEFINE t == token[w]
             A == After(t)
             P == Page(t)
             T == NextToken(t)
             L == Listed(uris)
             i == idx[w]
  <2>1. /\ source = "prefix" /\ status[w] = "running" /\ page[w] = <<>>
        /\ complete[w] = FALSE
        /\ page' = [page EXCEPT ![w] = P] /\ token' = [token EXCEPT ![w] = T]
        /\ complete' = [complete EXCEPT ![w] = (T = 0)]
        /\ UNCHANGED <<bucket, dataset, idx, rankIdx, out, status, changes>>
    BY <1>1, <1>3 DEF ListPage
  <2>2. t \in Nat /\ i \in Nat /\ out[w] \in Seq(Keys)
    BY <1>1
  <2>3. /\ A \in Seq(Keys) /\ Increasing(A) /\ \A k \in 1..Len(A) : A[k] > t
        /\ P \in Seq(Keys)
        /\ Len(P) = IF Len(A) < PageSize THEN Len(A) ELSE PageSize
        /\ \A k \in 1..Len(P) : P[k] = A[k]
        /\ Len(P) \in 0..Len(A)
        /\ T = IF Len(A) <= PageSize THEN 0 ELSE A[Len(P)]
        /\ T \in Nat
        /\ T # 0 => Len(A) > PageSize /\ T > t
        /\ T = 0 => Len(P) = Len(A)
    BY <1>0, <2>2, PageFacts
  <2>4. PageSize \in Nat \ {0}
    BY KeysFacts
  <2>5. Increasing(out[w]) /\ \A k \in 1..Len(out[w]) : out[w][k] <= t
    BY <1>1, <2>1 DEF Ordered
  <2>6. \A k \in 1..Len(out[w]) : out[w][k] \in Nat
    <3>1. \A k \in 1..Len(out[w]) : out[w][k] \in Keys
      BY <1>1
    <3> QED
      BY <3>1, KeysFacts
  <2>7. Len(A) \in Nat /\ \A k \in 1..Len(A) : A[k] \in Nat
    <3>1. Len(A) \in Nat /\ \A k \in 1..Len(A) : A[k] \in Keys
      BY <2>3
    <3> QED
      BY <3>1, KeysFacts
  <2>8. changes = 0 => Positioned(t, FALSE, <<>>, i, "running")
    BY <1>1, <2>1
  <2> HIDE DEF t, A, P, T, L, i
  <2>9. \A k \in 1..Len(P) : k \in 1..Len(A)
    BY <2>3, <2>7
  <2>10. Ordered(out[w], P, T, T = 0)
    <3>1. Increasing(P)
      BY <2>3, <2>9 DEF Increasing
    <3>2. ASSUME NEW k \in 1..Len(out[w]), NEW j \in 1..Len(P)
          PROVE  out[w][k] < P[j]
      <4>1. out[w][k] <= t /\ out[w][k] \in Nat
        BY <2>5, <2>6
      <4>2. P[j] > t /\ P[j] \in Nat
        BY <2>3, <2>7, <2>9
      <4> QED
        BY <2>2, <4>1, <4>2
    <3>3. ASSUME T # 0, NEW k \in 1..Len(out[w])
          PROVE  out[w][k] <= T
      <4>1. out[w][k] <= t /\ out[w][k] \in Nat
        BY <2>5, <2>6
      <4>2. T > t /\ T \in Nat
        BY <2>3, <3>3
      <4> QED
        BY <2>2, <4>1, <4>2
    <3>4. ASSUME T # 0, NEW j \in 1..Len(P)
          PROVE  P[j] <= T
      <4>1. T = A[Len(P)] /\ Len(P) \in 1..Len(A) /\ j \in 1..Len(A) /\ P[j] = A[j]
        BY <2>3, <2>4, <2>7, <2>9, <3>4
      <4>2. A[j] \in Nat /\ A[Len(P)] \in Nat
        BY <2>7, <4>1
      <4>3. j = Len(P) \/ j < Len(P)
        BY <4>1
      <4>4. j < Len(P) => A[j] < A[Len(P)]
        BY <2>3, <4>1 DEF Increasing
      <4> QED
        BY <4>1, <4>2, <4>3, <4>4
    <3> QED
      BY <2>1, <2>5, <3>1, <3>2, <3>3, <3>4 DEF Ordered
  <2>11. ASSUME changes = 0
         PROVE  Positioned(T, T = 0, P, i, "running")
    <3>1. bucket = uris /\ uris \subseteq Nat \ {0} /\ IsFiniteSet(uris)
      BY <1>0, <2>11, KeysFacts, ConstantsAssumption DEF ShardTypes
    <3>2. Len(L) \in Nat /\ L \in Seq(Keys)
      BY <1>0, ListingFacts DEF L
    <3>3. i <= Len(L) /\ t = IF i = 0 THEN 0 ELSE L[i]
      BY <2>1, <2>2, <2>8, <2>11 DEF Positioned, L
    <3>4. i \in 0..Len(L)
      BY <2>2, <3>2, <3>3
    <3>5. A = Listed({k \in uris : k > t})
      BY <3>1 DEF A, After
    <3>6. A = [k \in 1..(Len(L) - i) |-> L[i + k]]
      BY <3>1, <3>3, <3>4, <3>5, ListedAfter DEF L
    <3>7. Len(A) = Len(L) - i /\ \A k \in 1..Len(A) : A[k] = L[i + k]
      <4>1. DOMAIN A = 1..(Len(L) - i) /\ Len(L) - i \in Nat
        BY <3>2, <3>4, <3>6
      <4>2. Len(A) = Len(L) - i
        BY <2>3, <2>7, <4>1
      <4> QED
        BY <3>6, <4>2
    <3>8. /\ i + Len(P) <= Len(L) /\ Len(P) \in Nat
          /\ T = 0 => i + Len(P) = Len(L)
      BY <2>2, <2>3, <2>7, <3>2, <3>7
    <3>9. \A k \in 1..Len(P) : P[k] = L[i + k]
      BY <2>3, <2>9, <3>7
    <3>10. T # 0 => i + Len(P) # 0 /\ T = L[i + Len(P)]
      <4>1. T # 0 => Len(P) \in 1..Len(A) /\ T = A[Len(P)]
        BY <2>3, <2>4, <2>7
      <4> QED
        BY <2>2, <3>7, <4>1
    <3> QED
      BY <2>1, <3>8, <3>9, <3>10 DEF Positioned, L
  <2>12. changes = 0 => Dealt(w, i, rankIdx[w], out[w])
    BY <1>1 DEF i
  <2>13. /\ idx' = [idx EXCEPT ![w] = i] /\ rankIdx' = [rankIdx EXCEPT ![w] = rankIdx[w]]
         /\ out' = [out EXCEPT ![w] = out[w]] /\ status' = [status EXCEPT ![w] = "running"]
         /\ rankIdx[w] \in Nat
    BY <1>1, <2>1 DEF i
  <2>14. (T = 0) \in BOOLEAN
    OBVIOUS
  <2> QED
    <3>1. ShardTypes'
      BY <1>0, <2>1, <2>3, <2>14 DEF ShardTypes, dataset
    <3>2. page'[w] = P /\ token'[w] = T
      BY <1>0, <2>1 DEF ShardTypes
    <3>3. complete'[w] = (T = 0)
      BY <1>0, <2>1 DEF ShardTypes
    <3>4. /\ idx'[w] = i /\ rankIdx'[w] = rankIdx[w] /\ out'[w] = out[w]
          /\ status'[w] = "running"
      BY <2>1 DEF i
    <3>5. \A v \in Workers : v # w =>
            /\ token'[v] = token[v] /\ complete'[v] = complete[v] /\ page'[v] = page[v]
            /\ idx'[v] = idx[v] /\ rankIdx'[v] = rankIdx[v] /\ out'[v] = out[v]
            /\ status'[v] = status[v]
      BY <1>0, <2>1 DEF ShardTypes
    <3>6. Ordered(out'[w], page'[w], token'[w], complete'[w])
      BY <2>10, <3>2, <3>3, <3>4
    <3>7. changes = 0 => /\ Positioned(token'[w], complete'[w], page'[w], idx'[w], status'[w])
                         /\ Dealt(w, idx'[w], rankIdx'[w], out'[w])
      BY <2>11, <2>12, <3>2, <3>3, <3>4
    <3> QED
      BY <2>1, <3>1, <3>5, <3>6, <3>7, OtherWorkers
<1>4. ASSUME NEW w \in Workers, ListFails(w)
      PROVE  ShardInv'
  <2>1. /\ status[w] = "running" /\ status' = [status EXCEPT ![w] = "raised"]
        /\ UNCHANGED <<bucket, dataset, token, complete, page, idx, rankIdx, out, changes>>
    BY <1>4 DEF ListFails
  <2>2. changes = 0 => Positioned(token[w], complete[w], page[w], idx[w], "raised")
    BY <1>1, <2>1 DEF Positioned
  <2> QED
    <3>1. ShardTypes'
      BY <1>0, <2>1 DEF ShardTypes, dataset
    <3>2. status'[w] = "raised"
      BY <1>0, <2>1 DEF ShardTypes
    <3> QED
      BY <1>0, <1>1, <2>1, <2>2, <3>1, <3>2, OtherWorkers DEF ShardTypes, dataset
<1>5. ASSUME NEW w \in Workers, Enumerate(w)
      PROVE  ShardInv'
  <2> DEFINE p == page[w]
             i == idx[w]
             r == IF FallsToRank(w) THEN rankIdx[w] + 1 ELSE rankIdx[w]
             o == IF FallsToRank(w) /\ FallsToWorker(w) THEN Append(out[w], Head(p))
                  ELSE out[w]
  <2>1. /\ status[w] = "running" /\ p # <<>>
        /\ page' = [page EXCEPT ![w] = Tail(p)] /\ idx' = [idx EXCEPT ![w] = i + 1]
        /\ rankIdx' = [rankIdx EXCEPT ![w] = r] /\ out' = [out EXCEPT ![w] = o]
        /\ UNCHANGED <<bucket, dataset, token, complete, status, changes>>
    BY <1>1, <1>5 DEF Enumerate
  <2>2. p \in Seq(Keys) /\ i \in Nat /\ out[w] \in Seq(Keys) /\ token[w] \in Nat
    BY <1>1
  <2>3. /\ Tail(p) \in Seq(Keys) /\ Len(p) \in Nat \ {0} /\ Len(Tail(p)) = Len(p) - 1
        /\ Head(p) = p[1] /\ Head(p) \in Keys
        /\ \A k \in 1..(Len(p) - 1) : Tail(p)[k] = p[k + 1]
    BY <2>1, <2>2, TailFacts
  <2>4. Ordered(out[w], p, token[w], complete[w])
    BY <1>1
  <2>5. changes = 0 => /\ Positioned(token[w], complete[w], p, i, "running")
                       /\ Dealt(w, i, rankIdx[w], out[w])
    BY <1>1, <2>1
  <2>6. r \in Nat
    BY <1>1
  <2>7. o \in Seq(Keys) /\ o \in {out[w], Append(out[w], Head(p))}
    BY <2>2, <2>3, AppendFacts
  <2>8. Ordered(o, Tail(p), token[w], complete[w])
    BY <2>1, <2>2, <2>4, <2>7, EnumerateOrder
  <2>9. ASSUME changes = 0
        PROVE  /\ Positioned(token[w], complete[w], Tail(p), i + 1, "running")
               /\ Dealt(w, i + 1, r, o)
    <3> DEFINE L == Listed(uris)
    <3>1. Positioned(token[w], complete[w], p, i, "running")
      BY <2>5, <2>9
    <3>2. Head(p) = L[i + 1]
      <4>1. 1 \in 1..Len(p)
        BY <2>3
      <4> QED
        BY <2>3, <3>1, <4>1 DEF Positioned
    <3>3. Dealt(w, i + 1, r, o)
      BY <1>0, <2>3, <2>5, <2>9, <3>2, EnumerateDealt
    <3> HIDE DEF L, p, i
    <3>4. \A k \in 1..Len(Tail(p)) : Tail(p)[k] = L[(i + 1) + k]
      <4> SUFFICES ASSUME NEW k \in 1..(Len(p) - 1) PROVE Tail(p)[k] = L[(i + 1) + k]
        BY <2>3
      <4>1. k + 1 \in 1..Len(p) /\ i + (k + 1) = (i + 1) + k
        BY <2>2, <2>3
      <4>2. p[k + 1] = L[i + (k + 1)]
        BY <3>1, <4>1 DEF Positioned, L
      <4> QED
        BY <2>3, <4>1, <4>2
    <3>5. (i + 1) + Len(Tail(p)) = i + Len(p) /\ i + Len(p) # 0
      BY <2>2, <2>3
    <3>6. ~(~complete[w] /\ source = "uris")
      BY <2>1, <3>1 DEF Positioned
    <3>7. Positioned(token[w], complete[w], Tail(p), i + 1, "running")
      BY <3>1, <3>4, <3>5, <3>6 DEF Positioned, L
    <3> QED
      BY <3>3, <3>7
  <2>10. /\ token' = [token EXCEPT ![w] = token[w]]
         /\ complete' = [complete EXCEPT ![w] = complete[w]] /\ complete[w] \in BOOLEAN
         /\ status' = [status EXCEPT ![w] = "running"]
    BY <1>1, <2>1
  <2>11. i + 1 \in Nat
    BY <2>2
  <2> HIDE DEF p, i, r, o
  <2> QED
    <3>1. ShardTypes'
      BY <1>0, <2>1, <2>3, <2>6, <2>7, <2>11 DEF ShardTypes, dataset
    <3>2. page'[w] = Tail(p) /\ idx'[w] = i + 1 /\ rankIdx'[w] = r /\ out'[w] = o
      BY <1>0, <2>1, <2>3, <2>6, <2>7, <2>11 DEF ShardTypes
    <3> QED
      BY <1>0, <1>1, <2>1, <2>8, <2>9, <3>1, <3>2, OtherWorkers DEF ShardTypes, dataset
<1>6. ASSUME NEW w \in Workers, EndOfListing(w)
      PROVE  ShardInv'
  <2>1. /\ page[w] = <<>> /\ complete[w] /\ status' = [status EXCEPT ![w] = "done"]
        /\ UNCHANGED <<bucket, dataset, token, complete, page, idx, rankIdx, out, changes>>
    BY <1>6 DEF EndOfListing
  <2>2. changes = 0 => Positioned(token[w], complete[w], page[w], idx[w], "done")
    BY <1>1, <2>1 DEF Positioned
  <2> QED
    <3>1. ShardTypes'
      BY <1>0, <2>1 DEF ShardTypes, dataset
    <3>2. status'[w] = "done"
      BY <1>0, <2>1 DEF ShardTypes
    <3> QED
      BY <1>0, <1>1, <2>1, <2>2, <3>1, <3>2, OtherWorkers DEF ShardTypes, dataset
<1>7. ASSUME NEW k \in Keys, ChangeBucket(k)
      PROVE  ShardInv'
  <2>1. /\ source = "prefix" /\ changes' = changes + 1
        /\ bucket' = IF k \in bucket THEN bucket \ {k} ELSE bucket \cup {k}
        /\ UNCHANGED <<dataset, token, complete, page, idx, rankIdx, out, status>>
    BY <1>7 DEF ChangeBucket
  <2>2. changes' \in Nat /\ changes' # 0
    BY <1>0, <2>1 DEF ShardTypes
  <2>3. ShardTypes'
    BY <1>0, <2>1, <2>2 DEF ShardTypes, dataset
  <2>4. OrderInv'
    BY <2>1 DEF ShardInv, OrderInv, Ordered, dataset
  <2> QED
    BY <2>2, <2>3, <2>4 DEF ShardInv, ShareInv
<1> QED
  BY <1>2, <1>3, <1>4, <1>5, <1>6, <1>7 DEF Next

-----------------------------------------------------------------------------
(* What the workers have yielded, from what they were dealt.               *)

LEMMA OrderGoal ==
  ASSUME ShardInv
  PROVE  YieldsInOrder
BY DEF ShardInv, OrderInv, Ordered, Increasing, YieldsInOrder

(* Every object falls to somebody, to one worker only if the dataset knows *)
(* the ranks.                                                              *)
LEMMA FallsToSomebody ==
  ASSUME ShardTypes, NEW n \in Nat
  PROVE  \E w \in Workers : Falls(w, n)
<1>1. WorldSize \in Nat \ {0} /\ NumWorkers \in Nat \ {0}
  BY ConstantsAssumption
<1>2. World \in Nat \ {0} /\ World <= WorldSize /\ (early => World = 1)
  BY <1>1 DEF World
<1> DEFINE q == n \div World
           r == n % World
           s == q % NumWorkers
           w == <<r, s>>
<1>3. q \in Nat /\ r \in 0..(World - 1)
  BY <1>2, Divided
<1>4. s \in 0..(NumWorkers - 1)
  <2> HIDE DEF q
  <2> QED
    BY <1>1, <1>3, Divided
<1> HIDE DEF q, r, s
<1>5. w \in Workers
  BY <1>1, <1>2, <1>3, <1>4 DEF Workers
<1>6. RankOf(w) = r
  BY <1>2, <1>3 DEF RankOf
<1>7. Falls(w, n)
  BY <1>6 DEF Falls, q, r, s
<1> QED
  BY <1>5, <1>7

LEMMA FallsToOne ==
  ASSUME ~early, sharded, NEW v \in Workers, NEW w \in Workers, NEW n \in Nat,
         Falls(v, n), Falls(w, n)
  PROVE  v = w
<1>1. v[1] = w[1] /\ v[2] = w[2]
  BY DEF Falls, RankOf
<1>2. v = <<v[1], v[2]>> /\ w = <<w[1], w[2]>>
  BY DEF Workers
<1> QED
  BY <1>1, <1>2

LEMMA DistinctGoal ==
  ASSUME ShardInv
  PROVE  DistinctSubsets
<1> SUFFICES ASSUME OneListing, NEW v \in Workers, NEW w \in Workers
             PROVE  /\ Cardinality(Yielded(v)) = Len(out[v])
                    /\ v # w => Yielded(v) \cap Yielded(w) = {}
  BY DEF DistinctSubsets
<1> DEFINE L == Listed(uris)
<1>1. ShardTypes /\ changes = 0 /\ sharded /\ ~early
  BY DEF ShardInv, OneListing
<1>2. Cardinality(Yielded(v)) = Len(out[v])
  <2>1. out[v] \in Seq(Keys) /\ Increasing(out[v]) /\ Keys \subseteq Nat
    BY <1>1, KeysFacts DEF ShardInv, ShardTypes, OrderInv, Ordered
  <2> QED
    BY <2>1, IncreasingCardinality DEF Yielded
<1>3. /\ Len(L) \in Nat /\ Increasing(L)
      /\ \A k \in 1..Len(L) : L[k] \in Nat
  BY <1>1, ListingFacts
<1>4. ASSUME NEW u \in Workers
      PROVE  /\ Yielded(u) = {L[k] : k \in {m \in 1..idx[u] : Falls(u, m - 1)}}
             /\ \A k \in 1..idx[u] : k \in 1..Len(L)
  <2>1. /\ ToSet(out[u]) = {L[k] : k \in {m \in 1..idx[u] : Falls(u, m - 1)}}
        /\ idx[u] + Len(page[u]) <= Len(L)
    BY <1>1 DEF ShardInv, ShareInv, Dealt, Positioned
  <2>2. idx[u] \in Nat /\ Len(page[u]) \in Nat
    <3>1. page[u] \in Seq(Keys) /\ idx[u] \in Nat
      BY <1>1 DEF ShardTypes
    <3> QED
      BY <3>1
  <2> QED
    BY <1>3, <2>1, <2>2 DEF Yielded
<1> HIDE DEF L
<1>5. ASSUME NEW x, x \in Yielded(v), x \in Yielded(w)
      PROVE  v = w
  <2>1. PICK k \in 1..idx[v] : x = L[k] /\ Falls(v, k - 1)
    BY <1>4, <1>5
  <2>2. PICK m \in 1..idx[w] : x = L[m] /\ Falls(w, m - 1)
    BY <1>4, <1>5
  <2>3. k \in 1..Len(L) /\ m \in 1..Len(L)
    BY <1>4, <2>1, <2>2
  <2>4. k = m
    <3>1. L[k] = L[m] /\ L[k] \in Nat /\ L[m] \in Nat
      BY <1>3, <2>1, <2>2, <2>3
    <3>2. ~(k < m)
      BY <1>3, <2>3, <3>1 DEF Increasing
    <3>3. ~(m < k)
      BY <1>3, <2>3, <3>1 DEF Increasing
    <3> QED
      BY <1>3, <2>3, <3>2, <3>3
  <2>5. k - 1 \in Nat
    BY <1>3, <2>3
  <2> QED
    BY <1>1, <2>1, <2>2, <2>4, <2>5, FallsToOne
<1> QED
  BY <1>2, <1>5

(* The listing of a worker that is done was all of it.                     *)
LEMMA DoneFacts ==
  ASSUME ShardInv, AllDone, changes = 0, NEW w \in Workers
  PROVE  /\ idx[w] = Len(Listed(uris))
         /\ Dealt(w, Len(Listed(uris)), rankIdx[w], out[w])
<1>1. /\ Positioned(token[w], complete[w], page[w], idx[w], "done")
      /\ Dealt(w, idx[w], rankIdx[w], out[w])
      /\ idx[w] \in Nat
  BY DEF ShardInv, ShareInv, AllDone, ShardTypes
<1>2. idx[w] = Len(Listed(uris))
  <2>1. page[w] = <<>> /\ idx[w] + Len(page[w]) = Len(Listed(uris))
    BY <1>1 DEF Positioned
  <2> QED
    BY <1>1, <2>1
<1> QED
  BY <1>1, <1>2

LEMMA MissedGoal ==
  ASSUME ShardInv
  PROVE  NothingIsMissed
<1> SUFFICES ASSUME AllDone, changes = 0
             PROVE  /\ UNION {Yielded(w) : w \in Workers} = bucket
                    /\ ~sharded => \A w \in Workers : Yielded(w) = bucket
  BY DEF NothingIsMissed
<1> DEFINE L == Listed(uris)
           N == Len(L)
<1>1. ShardTypes /\ bucket = uris
  BY DEF ShardInv, ShardTypes
<1>2. L \in Seq(Keys) /\ N \in Nat /\ ToSet(L) = uris
  BY <1>1, ListingFacts
<1>3. uris = {L[k] : k \in 1..N}
  BY <1>2 DEF ToSet
<1>4. \A w \in Workers : Yielded(w) = {L[k] : k \in {m \in 1..N : Falls(w, m - 1)}}
  BY DoneFacts DEF Dealt, Yielded
<1> HIDE DEF L, N
<1>5. \A w \in Workers : Yielded(w) \subseteq uris
  BY <1>3, <1>4
<1>6. ASSUME NEW x \in uris
      PROVE  \E w \in Workers : x \in Yielded(w)
  <2>1. PICK k \in 1..N : x = L[k]
    BY <1>3
  <2>2. k - 1 \in Nat
    BY <1>2
  <2>3. PICK w \in Workers : Falls(w, k - 1)
    BY <1>1, <2>2, FallsToSomebody
  <2> QED
    BY <1>4, <2>1, <2>3
<1>7. UNION {Yielded(w) : w \in Workers} = bucket
  BY <1>1, <1>5, <1>6
<1>8. ASSUME ~sharded, NEW w \in Workers
      PROVE  Yielded(w) = bucket
  <2>1. \A m : Falls(w, m)
    BY <1>8 DEF Falls
  <2> QED
    BY <1>1, <1>3, <1>4, <2>1
<1> QED
  BY <1>7, <1>8

LEMMA EvenGoal ==
  ASSUME ShardInv
  PROVE  EvenShards
<1> SUFFICES ASSUME AllDone, OneListing, NEW v \in Workers, NEW w \in Workers
             PROVE  Len(out[v]) - Len(out[w]) <= 1
  BY DEF EvenShards
<1> DEFINE N == Len(Listed(uris))
           q == N \div World
           d == q \div NumWorkers
<1>1. ShardTypes /\ changes = 0 /\ sharded
  BY DEF ShardInv, OneListing
<1>2. N \in Nat
  BY <1>1, ListingFacts
<1>3. World \in Nat \ {0} /\ NumWorkers \in Nat \ {0}
  BY WorkerFacts
<1>4. q \in Nat
  <2> HIDE DEF N
  <2> QED
    BY <1>2, <1>3, Divided
<1>5. d \in Nat
  <2> HIDE DEF q
  <2> QED
    BY <1>3, <1>4, Divided
<1>6. ASSUME NEW u \in Workers
      PROVE  Len(out[u]) \in {d, d + 1}
  <2>1. /\ rankIdx[u] = Share(N, World, RankOf(u))
        /\ Len(out[u]) = Share(rankIdx[u], NumWorkers, u[2])
    BY <1>1, DoneFacts DEF Dealt
  <2>2. /\ RankOf(u) \in 0..(World - 1) /\ u[2] \in 0..(NumWorkers - 1)
    BY WorkerFacts
  <2>3. rankIdx[u] \in {q, q + 1}
    <3> HIDE DEF N
    <3> QED
      BY <1>2, <1>3, <2>1, <2>2, ShareFacts DEF q
  <2>4. Share(q, NumWorkers, u[2]) \in {d, d + 1} /\ Share(q + 1, NumWorkers, u[2]) \in {d, d + 1}
    <3> HIDE DEF q
    <3> QED
      BY <1>3, <1>4, <2>2, ShareFacts DEF d
  <2> QED
    BY <2>1, <2>3, <2>4
<1> HIDE DEF d
<1>7. Len(out[v]) \in {d, d + 1} /\ Len(out[w]) \in {d, d + 1}
  BY <1>6
<1> QED
  BY <1>5, <1>7

-----------------------------------------------------------------------------
(* Both of them rest on the one invariant.                                 *)
LEMMA ShardInvariant == MCSpec => [](kind = "iterable" => ShardInv)
<1> DEFINE Inv == kind = "iterable" => ShardInv
<1>1. MCInit => Inv
  BY ShardInitInvariant DEF MCInit
<1>2. Inv /\ [MCNext]_allVars => Inv'
  <2> SUFFICES ASSUME Inv, [MCNext]_allVars, kind' = "iterable"
               PROVE  ShardInv'
    OBVIOUS
  <2>1. CASE kind = "iterable" /\ Next /\ UNCHANGED <<kind, mapOnly>>
    BY <2>1, ShardStepInvariant
  <2>2. CASE kind = "map" /\ Map!Next /\ UNCHANGED <<kind, iterableOnly>>
    BY <2>2
  <2>3. CASE UNCHANGED allVars
    <3>1. ShardInv
      BY <2>3 DEF allVars
    <3>2. UNCHANGED vars
      BY <2>3 DEF allVars
    <3>3. ShardTypes'
      BY <3>1, <3>2 DEF ShardInv, ShardTypes, vars, dataset
    <3>4. OrderInv'
      BY <3>1, <3>2 DEF ShardInv, OrderInv, Ordered, vars, dataset
    <3>5. ShareInv'
      <4>1. /\ UNCHANGED <<uris, source, sharded, early, changes>>
            /\ UNCHANGED <<token, complete, page, idx, rankIdx, out, status>>
        BY <3>2 DEF vars, dataset
      <4>2. ASSUME changes' = 0, NEW w \in Workers
            PROVE  /\ Positioned(token[w], complete[w], page[w], idx[w], status[w])
                   /\ Dealt(w, idx[w], rankIdx[w], out[w])
        BY <3>1, <4>1, <4>2 DEF ShardInv, ShareInv
      <4>3. Listed(uris)' = Listed(uris)
        BY <4>1 DEF Listed
      <4>4. \A w, n : Falls(w, n)' = Falls(w, n)
        BY <4>1 DEF Falls, World, RankOf
      <4>5. World' = World /\ \A w : RankOf(w)' = RankOf(w)
        BY <4>1 DEF World, RankOf
      <4>6. ASSUME changes' = 0, NEW w \in Workers
            PROVE  Positioned(token[w], complete[w], page[w], idx[w], status[w])'
        BY <4>1, <4>2, <4>3, <4>6 DEF Positioned
      <4>7. ASSUME changes' = 0, NEW w \in Workers
            PROVE  Dealt(w, idx[w], rankIdx[w], out[w])'
        BY <4>1, <4>2, <4>3, <4>4, <4>5, <4>7 DEF Dealt
      <4> QED
        BY <4>6, <4>7 DEF ShareInv
    <3> QED
      BY <3>3, <3>4, <3>5 DEF ShardInv
  <2> QED
    BY <2>1, <2>2, <2>3 DEF MCNext
<1> QED
  BY <1>1, <1>2, PTL DEF MCSpec

(* Whatever is put into the bucket or deleted from it between two pages, a *)
(* worker yields keys in the order of the listing and none of them twice:  *)
(* what S3 lists after a token comes after all that was listed before it   *)
(* (ListObjectStream.__next__, S3IterableDataset.__iter__).                *)
THEOREM ListingsAreInOrder == MCSpec => []ListingIsInOrder
<1>1. (kind = "iterable" => ShardInv) => ListingIsInOrder
  BY OrderGoal DEF ListingIsInOrder
<1> QED
  BY <1>1, ShardInvariant, PTL

(* For any bucket, page size and numbers of ranks and of workers, as long  *)
(* as the bucket does not change, the workers of all ranks yield disjoint  *)
(* sets of objects, which are the whole bucket when all are done, and none *)
(* of them has two more than another: counting by remainders twice, all    *)
(* objects for the ranks and a rank's own for its workers, is the division *)
(* it is meant to be (S3IterableDataset.__iter__).                         *)
THEOREM ShardsPartition == MCSpec => []ShardsAreThePartition
<1>1. (kind = "iterable" => ShardInv) => ShardsAreThePartition
  BY DistinctGoal, MissedGoal, EvenGoal DEF ShardsAreThePartition
<1> QED
  BY <1>1, ShardInvariant, PTL
=============================================================================
