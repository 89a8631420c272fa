----------------------- MODULE MetadataService_proofs -----------------------
(***************************************************************************)
(* Proofs about MetadataService, for every capacity of the event queue and *)
(* every number of sources and calls.                                      *)
(***************************************************************************)
EXTENDS MetadataService, Integers, FiniteSetTheorems, SequenceTheorems,
        WellFoundedInduction, TLAPS

(* Induction over numbers: what does not hold of all of them has a least    *)
(* exception.                                                              *)
LEMMA LeastOf ==
  ASSUME NEW T \in SUBSET Nat, T # {}
  PROVE  \E n \in T : \A m \in T : n <= m
<1> DEFINE R == {ss \in Nat \X Nat : ss[1] < ss[2]}
<1>1. IsWellFoundedOn(R, Nat)
  BY NatLessThanWellFounded DEF OpToRel
<1>2. PICK n \in T : \A m \in T : ~ (<<m, n>> \in R)
  <2> HIDE DEF R
  <2> QED BY <1>1, WFMin
<1>3. ASSUME NEW m \in T PROVE n <= m
  <2>1. m \in Nat /\ n \in Nat /\ <<m, n>> \in Nat \X Nat
    OBVIOUS
  <2> QED BY <1>2, <2>1
<1> QED BY <1>3

(* A list of S: its members in their order. *)
Lists(S) ==
  {old \in [1 .. Cardinality(S) -> S] :
     \A i, j \in 1 .. Cardinality(S) : i < j => old[i] < old[j]}

(* A set of places has a list: of the least initial part without one, take *)
(* away the last place.                                                    *)
LEMMA Listable ==
  ASSUME NEW n \in Nat, NEW S \in SUBSET (1 .. n)
  PROVE  Lists(S) # {}
<1> DEFINE Upto(k) == S \intersect (1 .. k)
           T == {k \in Nat : Lists(Upto(k)) = {}}
<1>1. ASSUME T # {} PROVE FALSE
  <2>1. PICK k \in T : \A m \in T : k <= m
    <3>1. T \in SUBSET Nat
      OBVIOUS
    <3> HIDE DEF T
    <3> QED BY <1>1, <3>1, LeastOf
  <2>2. k \in Nat /\ Lists(Upto(k)) = {}
    BY <2>1
  <2>3. CASE k = 0
    <3>1. Upto(k) = {} /\ Cardinality(Upto(k)) = 0
      BY <2>3, FS_EmptySet
    <3>2. [i \in 1 .. 0 |-> 0] \in Lists(Upto(k))
      <4>1. \A i \in 1 .. 0 : FALSE
        OBVIOUS
      <4>2. [i \in 1 .. 0 |-> 0] \in [1 .. 0 -> Upto(k)]
        BY <4>1
      <4> HIDE DEF Upto
      <4> QED BY <3>1, <4>1, <4>2 DEF Lists
    <3> QED BY <2>2, <3>2
  <2>4. CASE k # 0
    <3> DEFINE P == Upto(k - 1)
               c == Cardinality(P)
    <3>1. k - 1 \in Nat /\ ~(k <= k - 1)
      BY <2>2, <2>4
    <3>2. Lists(P) # {}
      BY <2>1, <3>1
    <3>3. PICK old \in [1 .. c -> P] : \A i, j \in 1 .. c : i < j => old[i] < old[j]
      BY <3>2 DEF Lists
    <3>4. IsFiniteSet(P) /\ c \in Nat
      <4>1. IsFiniteSet(1 .. n)
        BY FS_Interval
      <4>2. P \subseteq 1 .. n
        OBVIOUS
      <4> QED BY <4>1, <4>2, FS_Subset, FS_CardinalityType
    <3>5. CASE k \notin S
      <4>1. Upto(k) = P
        BY <2>2, <3>1, <3>5
      <4> QED BY <2>2, <3>2, <4>1
    <3>6. CASE k \in S
      <4>1. Upto(k) = P \union {k} /\ k \notin P /\ \A i \in P : i \in Nat /\ i < k
        <5>1. \A i \in 1 .. k : i = k \/ i \in 1 .. (k - 1)
          BY <2>2
        <5>2. \A i \in 1 .. (k - 1) : i \in Nat /\ i < k /\ i \in 1 .. k
          BY <2>2
        <5>3. k \in 1 .. k
          BY <2>2, <2>4
        <5> QED BY <3>6, <5>1, <5>2, <5>3
      <4>2. Cardinality(Upto(k)) = c + 1
        BY <3>4, <4>1, FS_AddElement
      <4> DEFINE new == [i \in 1 .. (c + 1) |-> IF i = c + 1 THEN k ELSE old[i]]
      <4> HIDE DEF P, c, Upto
      <4>3. \A i \in 1 .. (c + 1) : i = c + 1 \/ i \in 1 .. c
        BY <3>4
      <4>4. new \in [1 .. (c + 1) -> Upto(k)]
        BY <3>3, <4>1, <4>3
      <4>5. ASSUME NEW i \in 1 .. (c + 1), NEW j \in 1 .. (c + 1), i < j
            PROVE  new[i] < new[j]
        <5>1. i \in 1 .. c
          BY <3>4, <4>5
        <5>2. i # c + 1
          BY <3>4, <5>1
        <5>3. new[i] = old[i] /\ old[i] \in P
          BY <3>3, <5>1, <5>2
        <5>4. CASE j = c + 1
          BY <4>1, <5>3, <5>4
        <5>5. CASE j \in 1 .. c
          <6>1. j # c + 1
            BY <3>4, <5>5
          <6> QED BY <3>3, <4>5, <5>1, <5>3, <5>5, <6>1
        <5> QED BY <4>3, <5>4, <5>5
      <4>6. new \in Lists(Upto(k))
        <5> HIDE DEF new
        <5> QED BY <4>2, <4>4, <4>5 DEF Lists
      <4> QED BY <2>2, <4>6
    <3> QED BY <3>5, <3>6
  <2> QED BY <2>3, <2>4
<1>2. Upto(n) = S
  OBVIOUS
<1> QED BY <1>1, <1>2

(* And only one: each names all of the set, so at the first difference the *)
(* smaller would come again, or have come before.                          *)
LEMMA OneList ==
  ASSUME NEW n \in Nat, NEW S \in SUBSET (1 .. n), NEW f \in Lists(S), NEW g \in Lists(S)
  PROVE  f = g
<1> DEFINE c == Cardinality(S)
<1>0. \A s \in S : s \in Nat
  OBVIOUS
<1>1. IsFiniteSet(S) /\ c \in Nat /\ IsFiniteSet(1 .. c) /\ Cardinality(1 .. c) = c
  <2>1. IsFiniteSet(S)
    <3>1. IsFiniteSet(1 .. n)
      BY FS_Interval
    <3> QED BY <3>1, FS_Subset
  <2>2. c \in Nat
    BY <2>1, FS_CardinalityType
  <2> HIDE DEF c
  <2> QED BY <2>1, <2>2, FS_Interval
<1>2. ASSUME NEW h \in Lists(S) PROVE \A s \in S : \E i \in 1 .. c : h[i] = s
  <2>1. h \in [1 .. c -> S] /\ \A i, j \in 1 .. c : i < j => h[i] < h[j]
    BY DEF Lists
  <2>2. ASSUME NEW i \in 1 .. c, NEW j \in 1 .. c, h[i] = h[j] PROVE i = j
    <3> HIDE DEF c
    <3>1. h[i] \in Nat /\ h[j] \in Nat
      <4>1. h[i] \in S /\ h[j] \in S
        BY <2>1
      <4> QED BY <4>1, <1>0
    <3>2. ~(i < j) /\ ~(j < i)
      BY <2>1, <2>2, <3>1
    <3> QED BY <1>1, <3>2
  <2> HIDE DEF c
  <2>3. h \in Injection(1 .. c, S)
    BY <2>1, <2>2 DEF Injection, IsInjective
  <2>4. h \in Surjection(1 .. c, S)
    BY <1>1, <2>3, FS_Injection DEF c
  <2> QED BY <2>4 DEF Surjection
<1>3. /\ f \in [1 .. c -> S] /\ \A i, j \in 1 .. c : i < j => f[i] < f[j]
      /\ g \in [1 .. c -> S] /\ \A i, j \in 1 .. c : i < j => g[i] < g[j]
  BY DEF Lists
<1> DEFINE T == {i \in 1 .. c : f[i] # g[i]}
<1>4. ASSUME T # {} PROVE FALSE
  <2>1. PICK i \in T : \A m \in T : i <= m
    <3>1. T \in SUBSET Nat
      OBVIOUS
    <3> HIDE DEF T
    <3> QED BY <1>4, <3>1, LeastOf
  <2>2. i \in 1 .. c /\ f[i] # g[i] /\ f[i] \in Nat /\ g[i] \in Nat
    <3>1. i \in 1 .. c /\ f[i] # g[i]
      BY <2>1
    <3> HIDE DEF c, T
    <3>2. f[i] \in S /\ g[i] \in S
      BY <1>3, <3>1
    <3> QED BY <1>0, <3>1, <3>2
  <2>3. \A m \in 1 .. c : m < i => f[m] = g[m]
    <3> SUFFICES ASSUME NEW m \in 1 .. c, m < i, f[m] # g[m] PROVE FALSE
      OBVIOUS
    <3>1. m \in T
      OBVIOUS
    <3> HIDE DEF T, c
    <3> QED BY <2>1, <2>2, <3>1
  <2>4. PICK a \in 1 .. c : g[a] = f[i]
    BY <1>2, <1>3, <2>2
  <2>5. PICK b \in 1 .. c : f[b] = g[i]
    BY <1>2, <1>3, <2>2
  <2> HIDE DEF T, c
  <2>6. CASE f[i] < g[i]
    <3>1. ~(i < a) /\ a # i
      BY <1>3, <2>2, <2>4, <2>6
    <3>2. a < i
      BY <2>2, <3>1
    <3>3. f[a] = f[i] /\ f[a] < f[i]
      BY <1>3, <2>2, <2>3, <2>4, <3>2
    <3> QED BY <2>2, <3>3
  <2>7. CASE g[i] < f[i]
    <3>1. ~(i < b) /\ b # i
      BY <1>3, <2>2, <2>5, <2>7
    <3>2. b < i
      BY <2>2, <3>1
    <3>3. g[b] = g[i] /\ g[b] < g[i]
      BY <1>3, <2>2, <2>3, <2>5, <3>2
    <3> QED BY <2>2, <3>3
  <2> QED BY <2>2, <2>6, <2>7
<1>5. \A i \in 1 .. c : f[i] = g[i]
  BY <1>4
<1>6. f = [i \in 1 .. c |-> f[i]] /\ g = [i \in 1 .. c |-> g[i]]
  BY <1>3
<1> HIDE DEF c
<1> QED BY <1>5, <1>6

(* The purge has exactly one outcome, for every queue: a call is never kept *)
(* back by it, and leaves nothing to chance (service.cpp:159).             *)
THEOREM PurgeIsExact ==
  ASSUME events \in Seq(Event)
  PROVE  \E kept \in Seq(Event) : \A s : Purges(s) <=> s = kept
<1> DEFINE n == Len(events)
           stay == {i \in 1 .. n : NotCover(events[i])}
           c == Cardinality(stay)
           Kept(old) == [i \in 1 .. c |-> events[old[i]]]
<1>1. n \in Nat /\ stay \in SUBSET (1 .. n)
  OBVIOUS
<1>2. c \in Nat
  <2>1. IsFiniteSet(1 .. n)
    BY <1>1, FS_Interval
  <2> HIDE DEF stay
  <2> QED BY <1>1, <2>1, FS_Subset, FS_CardinalityType
<1>3. PICK old \in Lists(stay) : TRUE
  <2> HIDE DEF stay, n
  <2> QED BY <1>1, Listable
<1>4. \A o \in Lists(stay) : o = old
  <2> HIDE DEF stay, n
  <2> QED BY <1>1, OneList
<1>5. \A s : Purges(s) <=> \E o \in Lists(stay) : s = Kept(o)
  BY DEF Purges, Lists
<1>6. Kept(old) \in Seq(Event)
  <2>1. old \in [1 .. c -> stay]
    BY <1>3 DEF Lists
  <2>2. \A i \in 1 .. c : events[old[i]] \in Event
    <3> SUFFICES ASSUME NEW i \in 1 .. c PROVE events[old[i]] \in Event
      OBVIOUS
    <3>1. old[i] \in stay
      <4> HIDE DEF stay, c
      <4> QED BY <2>1
    <3> QED BY <3>1
  <2> HIDE DEF c
  <2> QED BY <1>2, <2>2
<1> HIDE DEF Kept, stay, c, n
<1> QED BY <1>3, <1>4, <1>5, <1>6

(* The purge of the queue: what it leaves was there, and is not a cover.   *)
LEMMA Purged ==
  ASSUME events \in Seq(Event), PurgeCovers
  PROVE  /\ events' \in Seq(Event) /\ Len(events') <= Len(events)
         /\ \A i \in 1 .. Len(events') : events'[i].type # "cover"
<1> DEFINE stay == {i \in 1 .. Len(events) : NotCover(events[i])}
           n == Cardinality(stay)
<1>1. n \in Nat /\ n <= Len(events)
  <2>1. Len(events) \in Nat
    OBVIOUS
  <2>2. IsFiniteSet(1 .. Len(events)) /\ Cardinality(1 .. Len(events)) = Len(events)
    BY <2>1, FS_Interval
  <2>3. IsFiniteSet(stay) /\ n <= Cardinality(1 .. Len(events))
    BY <2>2, FS_Subset
  <2> QED BY <2>2, <2>3, FS_CardinalityType
<1>2. PICK old \in [1 .. n -> stay] : events' = [i \in 1 .. n |-> events[old[i]]]
  BY DEF PurgeCovers, Purges
<1> HIDE DEF n
<1>3. \A i \in 1 .. n : old[i] \in 1 .. Len(events) /\ NotCover(events[old[i]])
  BY <1>2
<1>4. events' \in Seq(Event) /\ Len(events') = n
  BY <1>1, <1>2, <1>3
<1>5. \A i \in 1 .. n : events'[i].type # "cover"
  BY <1>2, <1>3 DEF NotCover
<1> QED BY <1>1, <1>4, <1>5

-----------------------------------------------------------------------------
(* The types. *)

Jobs == [refresh : BOOLEAN, clear : BOOLEAN, cover : BOOLEAN, enabled : BOOLEAN,
         gen : Nat, cov : Nat]
Outboxes == [event : Event, cancellable : BOOLEAN, return : Places]

Queued == events \in Seq(Event) /\ Len(events) <= MaxEvents
Called ==
  /\ ui \in {"live", "stopping", "joining", "joined"}
  /\ calls \in 0 .. MaxCalls
  /\ generation \in Nat /\ coverGeneration \in Nat
  /\ lock \in {"free", "worker"}
  /\ served \in [gen : Nat, cov : Nat]
Flagged ==
  /\ stop \in BOOLEAN /\ asleep \in BOOLEAN /\ wanted \in BOOLEAN
  /\ enabled \in BOOLEAN /\ refresh \in BOOLEAN /\ coverPending \in BOOLEAN
  /\ clear \in BOOLEAN /\ viewport \in BOOLEAN
Working ==
  /\ pc \in Places /\ source \in 1 .. Sources
  /\ job \in Jobs /\ outbox \in Outboxes
  /\ disk \in {"none", "stale", "fresh"}

LEMMA Parts ==
  /\ TypeOK <=> Queued /\ Called /\ Flagged /\ Working
  /\ TypeOK' <=> Queued' /\ Called' /\ Flagged' /\ Working'
  BY DEF TypeOK, Queued, Called, Flagged, Working, Jobs, Outboxes

LEMMA TypeInit == Init => TypeOK
<1> SUFFICES ASSUME Init PROVE TypeOK
  OBVIOUS
<1>1. NoEvent \in Event
  BY DEF NoEvent, Event
<1>2. outbox \in Outboxes
  BY <1>1 DEF Init, Outboxes, Places
<1>3. job \in Jobs /\ served \in [gen : Nat, cov : Nat]
  BY DEF Init, Jobs
<1>4. events \in Seq(Event) /\ Len(events) <= MaxEvents
  BY MetadataServiceAssumption DEF Init
<1>5. source \in 1 .. Sources /\ calls \in 0 .. MaxCalls
  BY MetadataServiceAssumption DEF Init
<1> QED BY <1>2, <1>3, <1>4, <1>5 DEF Init, TypeOK, Outboxes, Jobs, Places

(* The calls, which may purge the queue but never fill it. *)
LEMMA TypeCalls ==
  ASSUME TypeOK,
         Configure \/ RefreshCatalog \/ RequestCovers \/ ClearCache \/ PollEvents
           \/ SetStop \/ NotifyStop \/ Join
  PROVE  TypeOK'
<1>1. ASSUME Configure \/ RefreshCatalog \/ RequestCovers \/ ClearCache
      PROVE  TypeOK'
  <2>1. Call /\ PurgeCovers
    BY <1>1 DEF Configure, RefreshCatalog, RequestCovers, ClearCache
  <2>2. events' \in Seq(Event) /\ Len(events') <= MaxEvents
    <3>1. events \in Seq(Event) /\ Len(events) <= MaxEvents
      BY DEF TypeOK
    <3>2. events' \in Seq(Event) /\ Len(events') <= Len(events)
      BY <2>1, <3>1, Purged
    <3>3. Len(events) \in Nat /\ Len(events') \in Nat /\ MaxEvents \in Nat
      BY <3>1, <3>2, MetadataServiceAssumption
    <3> QED BY <3>1, <3>2, <3>3
  <2>3. calls' \in 0 .. MaxCalls /\ generation' \in Nat /\ coverGeneration' \in Nat
    BY <1>1, MetadataServiceAssumption
       DEF TypeOK, Configure, RefreshCatalog, RequestCovers, ClearCache, Call
  <2>4. /\ enabled' \in BOOLEAN /\ refresh' \in BOOLEAN /\ coverPending' \in BOOLEAN
        /\ clear' \in BOOLEAN /\ viewport' \in BOOLEAN /\ wanted' \in BOOLEAN
    BY <1>1 DEF TypeOK, Configure, RefreshCatalog, RequestCovers, ClearCache, shared
  <2>5. asleep' \in BOOLEAN /\ UNCHANGED <<ui, stop, lock, pc, work, served>>
    BY <2>1 DEF Call, Notify
  <2> QED BY <2>2, <2>3, <2>4, <2>5 DEF TypeOK, work
<1>2. ASSUME PollEvents PROVE TypeOK'
  <2>1. events' = << >> /\ asleep' = FALSE
        /\ UNCHANGED <<ui, calls, atomics, lock, shared, pc, work, wanted, served>>
    BY <1>2 DEF PollEvents, Notify
  <2>2. events' \in Seq(Event) /\ Len(events') <= MaxEvents
    BY <2>1, MetadataServiceAssumption
  <2>3. Called' /\ Working'
    BY <2>1, Parts DEF Called, Working, atomics, work
  <2>4. Flagged'
    BY <2>1, Parts DEF Flagged, atomics, shared
  <2> QED BY <2>2, <2>3, <2>4, Parts DEF Queued
<1>3. ASSUME SetStop \/ NotifyStop \/ Join PROVE TypeOK'
  <2>1. Queued' /\ Working'
    BY <1>3, Parts DEF SetStop, NotifyStop, Join, Queued, Working, work
  <2>2. Called'
    BY <1>3, Parts DEF SetStop, NotifyStop, Join, Called, atomics
  <2>3. Flagged'
    BY <1>3, Parts DEF SetStop, NotifyStop, Join, Flagged, Notify, atomics, shared
  <2> QED BY <2>1, <2>2, <2>3, Parts
<1> QED BY <1>1, <1>2, <1>3

(* A step of the worker outside of the mutex goes to another place, or to   *)
(* Emit with an event of its job, which for a cover can be dropped as late  *)
(* as when it is put into the queue.                                        *)
Emitting == {"emit", "emit sleep"}

Emits(type, cancellable, return) ==
  Send(type, cancellable, return) /\ (type = "cover" => cancellable)

Onward ==
  \/ \E place \in Places \ Emitting : GoTo(place)
  \/ \E type \in {"catalog", "cover", "error", "cover error"},
        cancellable \in BOOLEAN, return \in Places : Emits(type, cancellable, return)

Apart ==
  /\ Onward
  /\ UNCHANGED <<owner, lock, shared, events, asleep>>
  /\ job' \in Jobs /\ job'.gen = job.gen /\ job'.cov = job.cov
  /\ source' \in 1 .. Sources /\ disk' \in {"none", "stale", "fresh"}
  /\ wanted' \in BOOLEAN /\ served' \in [gen : Nat, cov : Nat]

LEMMA TypeApart == TypeOK /\ Apart => TypeOK'
<1> SUFFICES ASSUME TypeOK, Apart PROVE TypeOK'
  OBVIOUS
<1>1. pc' \in Places /\ outbox' \in Outboxes
  <2>1. ASSUME NEW type \in {"catalog", "cover", "error", "cover error"},
               NEW cancellable \in BOOLEAN, NEW return \in Places,
               Emits(type, cancellable, return)
        PROVE  pc' \in Places /\ outbox' \in Outboxes
    <3>1. [type |-> type, gen |-> job.gen, cov |-> job.cov] \in Event
      BY DEF TypeOK, Event
    <3> QED BY <2>1, <3>1 DEF Emits, Send, Outboxes, Places
  <2>2. ASSUME NEW place \in Places, GoTo(place)
        PROVE  pc' \in Places /\ outbox' \in Outboxes
    BY <2>2 DEF TypeOK, GoTo, Outboxes
  <2> QED BY <2>1, <2>2 DEF Apart, Onward
<1> QED BY <1>1 DEF Apart, TypeOK, owner, atomics, shared, Outboxes, Jobs

(* Starting, clearing and refreshing. *)
LEMMA RefreshSteps ==
  ASSUME TypeOK,
         \/ Start \/ ClearFiles \/ NextSource \/ FetchSource \/ WriteCache \/ Commit
         \/ Publish \/ Failed
  PROVE  Apart
<1> USE DEF Emits, Emitting, Onward, Places
<1>1. UNCHANGED <<owner, lock, shared, events, asleep, job, served>>
  BY DEF Start, ClearFiles, NextSource, FetchSource, WriteCache, Commit, Publish, Failed, At
<1>2. job \in Jobs /\ served \in [gen : Nat, cov : Nat]
  BY DEF TypeOK, Jobs
<1>3. disk' \in {"none", "stale", "fresh"}
  BY DEF TypeOK, Start, ClearFiles, NextSource, FetchSource, WriteCache, Commit, Publish,
         Failed
<1>4. wanted' \in BOOLEAN
  <2>1. CASE Start \/ ClearFiles \/ NextSource \/ FetchSource \/ WriteCache \/ Commit
    BY <2>1 DEF TypeOK, Start, ClearFiles, NextSource, FetchSource, WriteCache, Commit
  <2>2. CASE Publish
    BY <2>2 DEF TypeOK, Publish
  <2>3. CASE Failed
    BY <2>3 DEF TypeOK, Failed
  <2> QED BY <2>1, <2>2, <2>3
<1>5. source' \in 1 .. Sources
  <2>1. source \in 1 .. Sources /\ Sources \in Nat \ {0}
    BY MetadataServiceAssumption DEF TypeOK
  <2>2. \/ source' = source \/ source' = 1
        \/ source' = IF source < Sources THEN source + 1 ELSE source
    <3>1. CASE FetchSource
      BY <3>1 DEF FetchSource
    <3>2. CASE Start \/ ClearFiles \/ NextSource \/ WriteCache \/ Commit \/ Publish \/ Failed
      BY <3>2 DEF Start, ClearFiles, NextSource, WriteCache, Commit, Publish, Failed
    <3> QED BY <3>1, <3>2
  <2> QED BY <2>1, <2>2
<1>6. Onward
  <2>1. CASE Start
    BY <2>1 DEF Start
  <2>2. CASE ClearFiles
    BY <2>2 DEF ClearFiles
  <2>3. CASE NextSource \/ Commit
    BY <2>3 DEF NextSource, Commit
  <2>4. CASE FetchSource
    BY <2>4 DEF FetchSource
  <2>5. CASE WriteCache
    BY <2>5 DEF WriteCache
  <2>6. CASE Publish \/ Failed
    BY <2>6 DEF Publish, Failed
  <2> QED BY <2>1, <2>2, <2>3, <2>4, <2>5, <2>6
<1> QED BY <1>1, <1>2, <1>3, <1>4, <1>5, <1>6 DEF Apart

(* The covers. *)
LEMMA CoverSteps ==
  ASSUME TypeOK, NextCover \/ LoadCover \/ Deliver \/ CoverFailed
  PROVE  Apart
<1> USE DEF Emits, Emitting, Onward, Places
<1>1. /\ UNCHANGED <<owner, lock, shared, events, asleep, source, disk, wanted>>
  BY DEF NextCover, LoadCover, Deliver, CoverFailed, At
<1>2. job \in Jobs
  BY DEF TypeOK, Jobs
<1>3. job' \in Jobs /\ job'.gen = job.gen /\ job'.cov = job.cov
  BY <1>2 DEF NextCover, LoadCover, Deliver, CoverFailed, Jobs
<1>4. served' \in [gen : Nat, cov : Nat]
  <2>1. served \in [gen : Nat, cov : Nat]
    BY DEF TypeOK
  <2>2. served' = served \/ served' = [gen |-> job.gen, cov |-> job.cov]
    BY DEF NextCover, LoadCover, Deliver, CoverFailed
  <2> QED BY <1>2, <2>1, <2>2 DEF Jobs
<1>5. Onward
  <2>1. CASE NextCover
    BY <2>1 DEF NextCover
  <2>2. CASE LoadCover
    BY <2>2 DEF LoadCover
  <2>3. CASE Deliver \/ CoverFailed
    BY <2>3 DEF Deliver, CoverFailed
  <2> QED BY <2>1, <2>2, <2>3
<1> QED BY <1>1, <1>3, <1>4, <1>5 DEF Apart, TypeOK

LEMMA EmitQueued ==
  ASSUME TypeOK, EmitNow
  PROVE  Queued'
<1>1. events \in Seq(Event) /\ Len(events) <= MaxEvents /\ outbox.event \in Event
  BY DEF TypeOK
<1>2. CASE events' = events
  BY <1>1, <1>2 DEF Queued
<1>3. CASE Room /\ events' = Append(events, outbox.event)
  <2>1. /\ events' \in Seq(Event) /\ Len(events') = Len(events) + 1
        /\ Len(events) \in Nat /\ MaxEvents \in Nat
    BY <1>1, <1>3, MetadataServiceAssumption
  <2> QED BY <1>3, <2>1 DEF Room, Queued
<1> QED BY <1>2, <1>3 DEF EmitNow

(* The steps under the mutex. *)
LEMMA TypeLocked ==
  ASSUME TypeOK,
         \/ Flags \/ CheckWait \/ FallAsleep("sleep", "wait") \/ Take \/ Finish
         \/ EmitNow \/ CheckEmit \/ FallAsleep("emit sleep", "emit")
  PROVE  TypeOK'
<1>1. Queued'
  <2>1. CASE EmitNow
    BY <2>1, EmitQueued
  <2>2. CASE Flags \/ CheckWait \/ Take \/ Finish \/ CheckEmit
    BY <2>2, Parts DEF Queued, Flags, CheckWait, Take, Finish, CheckEmit
  <2>3. CASE FallAsleep("sleep", "wait") \/ FallAsleep("emit sleep", "emit")
    BY <2>3, Parts DEF Queued, FallAsleep
  <2> QED BY <2>1, <2>2, <2>3
<1>2. Called'
  BY Parts DEF Called, Flags, CheckWait, FallAsleep, Take, Finish, EmitNow, CheckEmit,
               owner, atomics
<1>3. Flagged'
  <2>1. CASE Flags
    BY <2>1, Parts DEF Flagged, Flags, owner, atomics
  <2>2. CASE Take
    BY <2>2, Parts DEF Flagged, Take, owner, atomics
  <2>3. CASE CheckWait \/ Finish \/ EmitNow \/ CheckEmit
    BY <2>3, Parts DEF Flagged, CheckWait, Finish, EmitNow, CheckEmit, owner, atomics, shared
  <2>4. CASE FallAsleep("sleep", "wait") \/ FallAsleep("emit sleep", "emit")
    BY <2>4, Parts DEF Flagged, FallAsleep, owner, atomics, shared
  <2> QED BY <2>1, <2>2, <2>3, <2>4
<1>4. Working'
  <2>1. CASE Take
    <3>1. job' \in Jobs
      <4>1. /\ (refresh /\ enabled) \in BOOLEAN /\ clear \in BOOLEAN
            /\ viewport \in BOOLEAN /\ enabled \in BOOLEAN
        BY Parts DEF Flagged
      <4>2. generation \in Nat /\ coverGeneration \in Nat
        BY Parts DEF Called
      <4> QED BY <2>1, <4>1, <4>2 DEF Take, Jobs
    <3> QED BY <2>1, <3>1, Parts DEF Take, Working, Places
  <2>2. CASE EmitNow
    <3>1. outbox.return \in Places
      BY Parts DEF Working, Outboxes
    <3> QED BY <2>2, <3>1, Parts DEF EmitNow, Working, work
  <2>3. CASE Flags \/ CheckWait \/ Finish \/ CheckEmit
    BY <2>3, Parts DEF Flags, CheckWait, Finish, CheckEmit, Working, work, Places
  <2>4. CASE FallAsleep("sleep", "wait") \/ FallAsleep("emit sleep", "emit")
    BY <2>4, Parts DEF FallAsleep, Working, work, Places
  <2> QED BY <2>1, <2>2, <2>3, <2>4
<1> QED BY <1>1, <1>2, <1>3, <1>4, Parts

LEMMA TypeStep == TypeOK /\ [Next]_vars => TypeOK'
<1> SUFFICES ASSUME TypeOK, [Next]_vars PROVE TypeOK'
  OBVIOUS
<1>1. CASE UNCHANGED vars
  BY <1>1 DEF TypeOK, vars, atomics, shared, work
<1>2. CASE Worker
  BY <1>2, RefreshSteps, CoverSteps, TypeApart, TypeLocked DEF Worker
<1> QED BY <1>1, <1>2, TypeCalls DEF Next

(* The event queue never holds more than its capacity, whatever the worker *)
(* reports while the interface does not poll, and every part of the        *)
(* service keeps its type (service.cpp:155).                               *)
THEOREM TypeCorrect == Spec => []TypeOK
<1> QED BY TypeInit, TypeStep, PTL DEF Spec

-----------------------------------------------------------------------------
(* The covers in the queue. *)

(* What Emit holds is of the worker's job, and a cover can be dropped.     *)
(* Without it a cover could be put into the queue whose version is not the *)
(* one that Dropped compares.                                              *)
Carried ==
  pc \in Emitting =>
    /\ outbox.event.gen = job.gen /\ outbox.event.cov = job.cov
    /\ outbox.event.type = "cover" => outbox.cancellable

CoversInv == TypeOK /\ Carried /\ CoversCurrent

LEMMA CarriedStep == TypeOK /\ Carried /\ [Next]_vars => Carried'
<1> SUFFICES ASSUME TypeOK, Carried, [Next]_vars PROVE Carried'
  OBVIOUS
<1>1. ASSUME Apart PROVE Carried'
  <2>1. ASSUME NEW type \in {"catalog", "cover", "error", "cover error"},
               NEW cancellable \in BOOLEAN, NEW return \in Places,
               Emits(type, cancellable, return)
        PROVE  Carried'
    BY <1>1, <2>1 DEF Apart, Emits, Send, Carried
  <2>2. ASSUME NEW place \in Places \ Emitting, GoTo(place)
        PROVE  Carried'
    BY <2>2 DEF GoTo, Carried
  <2> QED BY <1>1, <2>1, <2>2 DEF Apart, Onward
<1>2. ASSUME UNCHANGED <<pc, job, outbox>> PROVE Carried'
  BY <1>2 DEF Carried
<1>3. ASSUME UNCHANGED <<job, outbox>>, pc' \in Emitting => pc \in Emitting
      PROVE  Carried'
  BY <1>3 DEF Carried
<1>4. CASE Configure \/ RefreshCatalog \/ RequestCovers \/ ClearCache \/ PollEvents
             \/ SetStop \/ NotifyStop \/ Join
  BY <1>2, <1>4 DEF Configure, RefreshCatalog, RequestCovers, ClearCache, Call, PollEvents,
                    SetStop, NotifyStop, Join, work
<1>5. CASE Flags \/ CheckWait \/ FallAsleep("sleep", "wait") \/ Finish \/ CheckEmit
             \/ FallAsleep("emit sleep", "emit")
  BY <1>3, <1>5 DEF Flags, CheckWait, FallAsleep, Finish, CheckEmit, work, Emitting
<1>6. CASE Take
  BY <1>6 DEF Take, Carried, Emitting
<1>7. CASE EmitNow
  BY <1>3, <1>7 DEF EmitNow, work, Emitting
<1>8. CASE UNCHANGED vars
  BY <1>2, <1>8 DEF vars, work
<1> QED BY <1>1, <1>4, <1>5, <1>6, <1>7, <1>8, RefreshSteps, CoverSteps DEF Next, Worker

LEMMA CurrentStep == CoversInv /\ [Next]_vars => CoversCurrent'
<1> SUFFICES ASSUME CoversInv, [Next]_vars PROVE CoversCurrent'
  OBVIOUS
<1> USE DEF CoversInv
<1>1. CASE Configure \/ RefreshCatalog \/ RequestCovers \/ ClearCache
  <2>1. PurgeCovers
    BY <1>1 DEF Configure, RefreshCatalog, RequestCovers, ClearCache
  <2>2. \A i \in 1 .. Len(events') : events'[i].type # "cover"
    BY <2>1, Purged DEF TypeOK
  <2> QED BY <2>2 DEF CoversCurrent
<1>2. CASE PollEvents
  <2>1. Len(events') = 0
    BY <1>2 DEF PollEvents
  <2> QED BY <2>1 DEF CoversCurrent
<1>3. CASE SetStop \/ NotifyStop \/ Join
  <2>1. ui' # "live"
    BY <1>3 DEF SetStop, NotifyStop, Join
  <2> QED BY <2>1 DEF CoversCurrent
<1>4. ASSUME UNCHANGED <<ui, atomics, events>> PROVE CoversCurrent'
  BY <1>4 DEF CoversCurrent, atomics
<1>5. CASE EmitNow
  <2>1. CASE events' = events
    BY <1>5, <2>1, <1>4 DEF EmitNow, owner
  <2>2. CASE ~Dropped /\ events' = Append(events, outbox.event)
    <3>1. events \in Seq(Event) /\ outbox.event \in Event
      BY DEF TypeOK
    <3>2. UNCHANGED <<ui, generation, coverGeneration>>
      BY <1>5 DEF EmitNow, owner, atomics
    <3>3. outbox.event.type = "cover" =>
            outbox.event.gen = generation /\ outbox.event.cov = coverGeneration
      BY <1>5, <2>2 DEF EmitNow, Carried, Emitting, Dropped, CoverCancelled, Cancelled
    <3>4. /\ Len(events') = Len(events) + 1 /\ Len(events) \in Nat
          /\ \A i \in 1 .. Len(events) : events'[i] = events[i]
          /\ events'[Len(events) + 1] = outbox.event
      BY <2>2, <3>1
    <3> QED BY <3>2, <3>3, <3>4 DEF CoversCurrent
  <2> QED BY <1>5, <2>1, <2>2 DEF EmitNow
<1>6. CASE Flags \/ CheckWait \/ FallAsleep("sleep", "wait") \/ Take \/ Finish
             \/ CheckEmit \/ FallAsleep("emit sleep", "emit")
  BY <1>4, <1>6 DEF Flags, CheckWait, FallAsleep, Take, Finish, CheckEmit, owner
<1>7. ASSUME Apart PROVE CoversCurrent'
  BY <1>4, <1>7 DEF Apart, owner
<1>8. CASE UNCHANGED vars
  BY <1>4, <1>8 DEF vars
<1> QED BY <1>1, <1>2, <1>3, <1>5, <1>6, <1>7, <1>8, RefreshSteps, CoverSteps DEF Next, Worker

(* No picture of a replaced viewport, or of replaced settings, is in the   *)
(* queue, for every capacity and any number of calls: a request purges     *)
(* those that are there, and what the worker holds it compares again, under *)
(* the same mutex, when it puts it into the queue (service.cpp:155).       *)
THEOREM CoversStayCurrent == Spec => []CoversCurrent
<1>1. Init => CoversInv
  <2>1. Init => Carried /\ CoversCurrent
    BY DEF Init, Carried, Emitting, CoversCurrent
  <2> QED BY <2>1, TypeInit DEF CoversInv
<1>2. CoversInv /\ [Next]_vars => CoversInv'
  BY TypeStep, CarriedStep, CurrentStep DEF CoversInv
<1>3. CoversInv => CoversCurrent
  BY DEF CoversInv
<1> QED BY <1>1, <1>2, <1>3, PTL DEF Spec

-----------------------------------------------------------------------------
(* The worker that sleeps.  A call that changes a version leaves a round of *)
(* covers pending, a round that ends records its versions, and between a   *)
(* test and the sleep the mutex is held, so that only the destructor, which *)
(* ends the service, can come in between.                                  *)

Versioned == ui = "live" => coverPending
                              \/ (job.gen = generation /\ job.cov = coverGeneration)
Returns == {"flags", "cover", "deliver", "source", "write"}
Returning == pc \in Emitting => outbox.return \in Returns
Between == pc \in {"start", "flags", "wait", "sleep"}
             \/ (pc \in Emitting /\ outbox.return = "flags")
Recorded == Between => served = [gen |-> job.gen, cov |-> job.cov]
Held == /\ pc \in {"sleep", "emit sleep"} <=> lock = "worker"
        /\ ui = "live" /\ pc = "sleep" => ~Asked
        /\ ui = "live" /\ pc = "emit sleep" => ~Room /\ ~Dropped
Lying == asleep => pc \in {"wait", "emit"}
Up == ui = "live" => ~stop

(* A refresh that is owed an answer is still to be taken, or is being done *)
(* for the present generation.                                             *)
Refreshing == \/ pc \in {"clear", "source", "fetch", "write", "commit", "publish", "failed"}
              \/ pc \in Emitting /\ outbox.return \in {"source", "write"}
Remembered == ui = "live" /\ wanted =>
                /\ enabled /\ ~Starting
                /\ refresh \/ (job.refresh /\ job.gen = generation /\ Refreshing)

RestInv == /\ Versioned /\ Returning /\ Recorded /\ Held /\ Lying
           /\ Up /\ Remembered /\ SleepsServed

(* The steps outside of the mutex neither sleep nor return to the head of  *)
(* the loop without a record of what they went through.                    *)
Unlocked ==
  /\ pc \notin {"wait", "sleep", "emit", "emit sleep"}
  /\ UNCHANGED <<owner, lock, shared, events, asleep>>
  /\ job'.gen = job.gen /\ job'.cov = job.cov
  /\ pc' \notin {"sleep", "emit sleep"}
  /\ Returning' /\ Recorded' /\ Remembered'

LEMMA Sent ==
  ASSUME NEW type, NEW cancellable, NEW return, Send(type, cancellable, return)
  PROVE  pc' = "emit" /\ outbox'.return = return
BY DEF Send

LEMMA RefreshUnlocked ==
  ASSUME TypeOK, Recorded, Up, Remembered,
         \/ Start \/ ClearFiles \/ NextSource \/ FetchSource \/ WriteCache \/ Commit
         \/ Publish \/ Failed
  PROVE  Unlocked
<1>1. UNCHANGED <<owner, lock, shared, events, asleep, job, served>>
  BY DEF Start, ClearFiles, NextSource, FetchSource, WriteCache, Commit, Publish, Failed, At
<1>2. UNCHANGED <<ui, stop, generation, enabled, refresh>>
  BY <1>1 DEF owner, atomics, shared
<1> DEFINE Kept(places, returns) ==
             \/ pc' \in places
             \/ pc' = "emit" /\ outbox'.return \in returns
           Onwards == Kept({"source", "fetch", "write", "commit", "publish", "failed"},
                           {"source", "write"})
           Halted == /\ Kept({"cover"}, {"cover"})
                     /\ ui' = "live" /\ wanted' => Cancelled \/ ~job.refresh
<1>4. CASE Start
  <2>1. pc = "start" /\ UNCHANGED wanted /\ Kept({"flags"}, {"flags"})
    BY <1>4, Sent DEF Start, At, GoTo
  <2>2. ~(ui' = "live" /\ wanted')
    BY <1>2, <2>1 DEF Remembered, Starting
  <2> QED BY <1>1, <2>1, <2>2 DEF Unlocked, Emitting, Returns, Returning, Recorded, Between,
                                  Remembered
<1>5. ASSUME pc \in {"clear", "source", "fetch", "write", "commit", "publish", "failed"},
             Onwards \/ Halted, wanted' => wanted
      PROVE  Unlocked
  <2>1. Returning' /\ Recorded' /\ pc' \notin {"sleep", "emit sleep"}
    BY <1>5 DEF Emitting, Returns, Returning, Recorded, Between
  <2>2. ~Starting'
    BY <1>5 DEF Starting
  <2>3. Remembered'
    <3> SUFFICES ASSUME ui' = "live", wanted'
                 PROVE  enabled' /\ (refresh' \/ (job'.refresh /\ job'.gen = generation'
                                                  /\ Refreshing'))
      BY <2>2 DEF Remembered
    <3>1. enabled /\ (refresh \/ (job.refresh /\ ~Cancelled))
      BY <1>2, <1>5 DEF Remembered, Up, Cancelled
    <3>2. CASE refresh
      BY <1>2, <3>1, <3>2
    <3>3. CASE ~refresh
      <4>1. Refreshing'
        BY <1>5, <3>1, <3>3 DEF Refreshing, Emitting
      <4>2. job.gen = generation
        BY <3>1, <3>3 DEF Cancelled
      <4> QED BY <1>1, <1>2, <3>1, <3>3, <4>1, <4>2
    <3> QED BY <3>2, <3>3
  <2> QED BY <1>1, <1>5, <2>1, <2>3 DEF Unlocked
<1>6. CASE ClearFiles
  <2>1. pc \in {"clear"} /\ (wanted' => wanted)
    BY <1>6 DEF ClearFiles, At
  <2>2. Onwards \/ Halted
    BY <1>6 DEF ClearFiles, GoTo
  <2> QED BY <1>5, <2>1, <2>2
<1>7. CASE NextSource \/ Commit
  <2>1. pc \in {"source", "commit"} /\ (wanted' => wanted)
    BY <1>7 DEF NextSource, Commit, At
  <2>2. Onwards \/ Halted
    BY <1>7 DEF NextSource, Commit, GoTo
  <2> QED BY <1>5, <2>1, <2>2
<1>8. CASE FetchSource
  <2>1. pc \in {"fetch"} /\ (wanted' => wanted)
    BY <1>8 DEF FetchSource, At
  <2>2. Onwards \/ Halted
    BY <1>8, Sent DEF FetchSource, GoTo
  <2> QED BY <1>5, <2>1, <2>2
<1>9. CASE WriteCache
  <2>1. pc \in {"write"} /\ (wanted' => wanted)
    BY <1>9 DEF WriteCache, At
  <2>2. Onwards \/ Halted
    BY <1>9 DEF WriteCache, GoTo
  <2> QED BY <1>5, <2>1, <2>2
<1>10. CASE Publish \/ Failed
  <2>1. pc \in {"publish", "failed"} /\ (wanted' => wanted)
    BY <1>10 DEF Publish, Failed, At
  <2>2. Onwards \/ Halted
    BY <1>10, Sent DEF Publish, Failed, GoTo
  <2> QED BY <1>5, <2>1, <2>2
<1> QED BY <1>4, <1>6, <1>7, <1>8, <1>9, <1>10

LEMMA CoversUnlocked ==
  ASSUME TypeOK, Recorded, Remembered, NextCover \/ LoadCover \/ Deliver \/ CoverFailed
  PROVE  Unlocked
<1>1. /\ UNCHANGED <<owner, lock, shared, events, asleep, wanted>>
      /\ pc \in {"cover", "load", "deliver", "cover failed"}
      /\ job'.gen = job.gen /\ job'.cov = job.cov
  BY DEF TypeOK, NextCover, LoadCover, Deliver, CoverFailed, At
<1>2. \/ pc' \in {"cover", "load", "deliver", "cover failed"}
      \/ pc' = "emit" /\ outbox'.return \in {"cover", "deliver"}
      \/ pc' = "wait" /\ served' = [gen |-> job.gen, cov |-> job.cov]
  <2>1. CASE NextCover
    BY <2>1 DEF NextCover, GoTo
  <2>2. CASE LoadCover
    BY <2>2, Sent DEF LoadCover, GoTo
  <2>3. CASE Deliver \/ CoverFailed
    BY <2>3, Sent DEF Deliver, CoverFailed, GoTo
  <2> QED BY <2>1, <2>2, <2>3
<1>3. Returning' /\ Recorded' /\ pc' \notin {"sleep", "emit sleep"}
  BY <1>1, <1>2 DEF Emitting, Returns, Returning, Recorded, Between
<1>4. Remembered'
  BY <1>1, <1>2 DEF Remembered, Refreshing, Emitting, Starting, owner, atomics, shared
<1> QED BY <1>1, <1>3, <1>4 DEF Unlocked

LEMMA UnlockedRests == RestInv /\ Unlocked => RestInv'
<1> SUFFICES ASSUME RestInv, Unlocked PROVE RestInv'
  OBVIOUS
<1>1. ~asleep /\ ~asleep' /\ lock # "worker" /\ lock' = lock
  BY DEF RestInv, Unlocked, Lying, Held
<1>2. Versioned'
  BY DEF RestInv, Unlocked, Versioned, owner, atomics, shared
<1>3. Up'
  BY DEF RestInv, Unlocked, Up, owner, atomics
<1> QED BY <1>1, <1>2, <1>3 DEF RestInv, Unlocked, Held, Lying, SleepsServed

LEMMA CallsRest ==
  ASSUME RestInv,
         Configure \/ RefreshCatalog \/ RequestCovers \/ ClearCache \/ PollEvents
           \/ SetStop \/ NotifyStop \/ Join
  PROVE  RestInv'
<1>1. UNCHANGED <<pc, lock, job, outbox, served>>
  BY DEF Configure, RefreshCatalog, RequestCovers, ClearCache, Call, PollEvents,
         SetStop, NotifyStop, Join, work
<1>2. Returning' /\ Recorded'
  BY <1>1 DEF RestInv, Returning, Recorded, Between
<1>3. CASE Configure \/ RefreshCatalog \/ RequestCovers \/ ClearCache \/ PollEvents
  <2>1. lock = "free" /\ asleep' = FALSE
    BY <1>3 DEF Configure, RefreshCatalog, RequestCovers, ClearCache, Call, PollEvents, Notify
  <2>2. Versioned'
    BY <1>1, <1>3 DEF RestInv, Versioned, Configure, RefreshCatalog, RequestCovers, ClearCache,
                      PollEvents, Call, shared, atomics
  <2>3. UNCHANGED <<ui, stop, Starting, Refreshing>>
    BY <1>1, <1>3 DEF Configure, RefreshCatalog, RequestCovers, ClearCache, PollEvents, Call,
                      Starting, Refreshing, Emitting, atomics
  <2>4. Up'
    BY <2>3 DEF RestInv, Up
  <2>5. Remembered'
    <3>1. CASE Configure \/ RefreshCatalog \/ ClearCache
      <4>1. wanted' => enabled' /\ ~Starting /\ refresh'
        <5>1. CASE Configure
          <6>1. refresh' = (refresh \/ enabled') /\ wanted' = (enabled' /\ ~Starting)
            BY <5>1 DEF Configure
          <6> QED BY <6>1
        <5>2. CASE RefreshCatalog
          <6>1. /\ refresh' = TRUE /\ enabled' = enabled
                /\ wanted' = (enabled /\ ~Starting)
            BY <5>2 DEF RefreshCatalog
          <6> QED BY <6>1
        <5>3. CASE ClearCache
          <6>1. wanted' = FALSE
            BY <5>3 DEF ClearCache
          <6> QED BY <6>1
        <5> QED BY <3>1, <5>1, <5>2, <5>3
      <4> QED BY <2>3, <4>1 DEF Remembered
    <3>2. CASE RequestCovers \/ PollEvents
      BY <1>1, <2>3, <3>2 DEF RestInv, Remembered, RequestCovers, PollEvents, shared, atomics
    <3> QED BY <1>3, <3>1, <3>2
  <2> QED BY <1>1, <1>2, <2>1, <2>2, <2>4, <2>5 DEF RestInv, Held, Lying, SleepsServed
<1>4. CASE SetStop \/ NotifyStop \/ Join
  <2>1. ui' # "live" /\ (asleep' => asleep)
    BY <1>4 DEF SetStop, NotifyStop, Join, Notify
  <2> QED BY <1>1, <1>2, <2>1
          DEF RestInv, Versioned, Held, Lying, Up, Remembered, SleepsServed
<1> QED BY <1>3, <1>4

(* To its sleep the worker goes with what it tested. *)
LEMMA FallsAsleep ==
  ASSUME TypeOK, RestInv,
         FallAsleep("sleep", "wait") \/ FallAsleep("emit sleep", "emit")
  PROVE  RestInv'
<1>1. UNCHANGED <<owner, shared, events, work, wanted, served>> /\ lock' = "free" /\ asleep' = TRUE
  BY DEF FallAsleep
<1>2. Versioned' /\ Up' /\ Remembered'
  <2>1. Versioned' /\ Up'
    BY <1>1 DEF RestInv, Versioned, Up, owner, atomics, shared, work
  <2>2. Starting' = Starting /\ Refreshing' = Refreshing
    BY <1>1 DEF FallAsleep, Starting, Refreshing, Emitting, work
  <2> QED BY <1>1, <2>1, <2>2 DEF RestInv, Remembered, owner, atomics, shared, work
<1>3. CASE pc = "sleep" /\ pc' = "wait"
  <2>1. Returning' /\ Recorded'
    BY <1>1, <1>3 DEF RestInv, Returning, Recorded, Between, Emitting, work
  <2>2. Held' /\ Lying'
    BY <1>1, <1>3 DEF Held, Lying
  <2>3. ui = "live" => ~Asked /\ ~wanted
                        /\ served = [gen |-> generation, cov |-> coverGeneration]
    BY <1>3 DEF RestInv, Held, Versioned, Recorded, Between, Asked, Remembered, Refreshing,
                Emitting
  <2>4. SleepsServed'
    BY <1>1, <1>3, <2>3 DEF SleepsServed, Asked, owner, atomics, shared
  <2> QED BY <1>2, <2>1, <2>2, <2>4 DEF RestInv
<1>4. CASE pc = "emit sleep" /\ pc' = "emit"
  <2>1. Returning' /\ Recorded'
    BY <1>1, <1>4 DEF RestInv, Returning, Recorded, Between, Emitting, work
  <2>2. Held' /\ Lying'
    BY <1>1, <1>4 DEF Held, Lying
  <2>3. ui = "live" => ~Room /\ ~Dropped
    BY <1>4 DEF RestInv, Held
  <2>4. UNCHANGED <<Room, Dropped, ui>>
    BY <1>1 DEF Room, Dropped, CoverCancelled, Cancelled, owner, atomics, work
  <2>5. SleepsServed'
    BY <1>4, <2>3, <2>4 DEF SleepsServed
  <2> QED BY <1>2, <2>1, <2>2, <2>5 DEF RestInv
<1> QED BY <1>3, <1>4 DEF FallAsleep

LEMMA TestsRest ==
  ASSUME TypeOK, RestInv, Flags \/ CheckWait \/ Take \/ Finish \/ EmitNow \/ CheckEmit
  PROVE  RestInv'
<1>1. ~asleep /\ asleep' = asleep
  BY DEF RestInv, Lying, Flags, CheckWait, Take, Finish, EmitNow, CheckEmit
<1>2. UNCHANGED <<owner, served>>
  BY DEF Flags, CheckWait, Take, Finish, EmitNow, CheckEmit
<1>3. Lying' /\ SleepsServed'
  BY <1>1 DEF Lying, SleepsServed
<1>4. CASE Take
  <2>1. job'.gen = generation /\ job'.cov = coverGeneration
    BY <1>4 DEF Take
  <2>2. pc' = "clear" /\ lock' = "free"
    BY <1>4 DEF Take
  <2>3. Versioned'
    BY <1>2, <2>1 DEF Versioned, owner, atomics
  <2>4. Up'
    BY <1>2 DEF RestInv, Up, owner, atomics
  <2>5. Remembered'
    BY <1>2, <1>4 DEF RestInv, Remembered, Take, Starting, Refreshing, Emitting, owner, atomics
  <2> QED BY <1>3, <2>2, <2>3, <2>4, <2>5
          DEF RestInv, Returning, Recorded, Between, Held, Emitting
<1>5. CASE ~Take
  <2>1. UNCHANGED <<work, coverPending>>
    BY <1>5 DEF Flags, CheckWait, Take, Finish, EmitNow, CheckEmit, shared
  <2>2. Versioned'
    BY <1>2, <2>1 DEF RestInv, Versioned, owner, atomics, work
  <2>3. Returning' /\ Recorded'
    BY <1>2, <1>5, <2>1 DEF RestInv, Returning, Returns, Recorded, Between, Emitting, work,
                            Flags, CheckWait, Finish, EmitNow, CheckEmit
  <2>4. Held'
    <3>1. CASE Flags \/ Finish \/ EmitNow
      <4>1. lock' = "free" /\ pc' \notin {"sleep", "emit sleep"}
        BY <3>1 DEF RestInv, Returning, Returns, Emitting, Flags, Finish, EmitNow
      <4> QED BY <4>1 DEF Held
    <3>2. CASE CheckWait
      <4>1. ~Asked /\ UNCHANGED Asked /\ lock' = "worker" /\ pc' = "sleep"
        BY <3>2 DEF CheckWait, Asked, shared
      <4> QED BY <4>1 DEF Held
    <3>3. CASE CheckEmit
      <4>1. ~Room /\ ~Dropped /\ lock' = "worker" /\ pc' = "emit sleep"
        BY <3>3 DEF CheckEmit
      <4>2. UNCHANGED <<Room, Dropped>>
        BY <3>3 DEF CheckEmit, Room, Dropped, CoverCancelled, Cancelled, owner, atomics, work
      <4> QED BY <4>1, <4>2 DEF Held
    <3> QED BY <1>5, <3>1, <3>2, <3>3
  <2>5. Up'
    BY <1>2 DEF RestInv, Up, owner, atomics
  <2>6. Remembered'
    <3>1. CASE Flags
      <4>1. Starting /\ UNCHANGED <<ui, wanted>>
        BY <3>1 DEF Flags, Starting, owner
      <4> QED BY <4>1 DEF RestInv, Remembered
    <3>2. CASE CheckWait \/ Finish \/ EmitNow \/ CheckEmit
      <4>1. UNCHANGED <<ui, generation, wanted, enabled, refresh, job>>
        BY <3>2 DEF CheckWait, Finish, EmitNow, CheckEmit, owner, atomics, shared, work
      <4>2. (Starting' => Starting) /\ (Refreshing => Refreshing')
        BY <3>2 DEF RestInv, Returning, Returns, Starting, Refreshing, Emitting, work,
                    CheckWait, Finish, EmitNow, CheckEmit
      <4> QED BY <4>1, <4>2 DEF RestInv, Remembered
    <3> QED BY <1>5, <3>1, <3>2
  <2> QED BY <1>3, <2>2, <2>3, <2>4, <2>5, <2>6 DEF RestInv
<1> QED BY <1>4, <1>5

LEMMA RestStep == TypeOK /\ RestInv /\ [Next]_vars => RestInv'
<1> SUFFICES ASSUME TypeOK, RestInv, [Next]_vars PROVE RestInv'
  OBVIOUS
<1>1. CASE UNCHANGED vars
  <2>1. UNCHANGED <<Room, Dropped, Asked, Between, Starting, Refreshing, ui, enabled, refresh, wanted, coverPending, atomics, pc, lock, asleep,
                    job, outbox, served>>
    BY <1>1 DEF vars, Room, Dropped, CoverCancelled, Cancelled, Asked, Between, Starting,
                Refreshing, Emitting, atomics, shared, work
  <2> QED BY <2>1 DEF RestInv, Versioned, Returning, Recorded, Held, Lying, Up, Remembered,
                      SleepsServed, atomics
<1>2. CASE Worker
  <2>1. Recorded /\ Up /\ Remembered
    BY DEF RestInv
  <2> QED BY <1>2, <2>1, RefreshUnlocked, CoversUnlocked, UnlockedRests, FallsAsleep, TestsRest
          DEF Worker
<1> QED BY <1>1, <1>2, CallsRest DEF Next

LEMMA RestStart == Init => RestInv
<1> SUFFICES ASSUME Init PROVE RestInv
  OBVIOUS
<1>1. Versioned /\ Returning /\ Recorded
  BY DEF Init, Versioned, Returning, Recorded, Emitting
<1>2. Held /\ Lying /\ Up /\ Remembered /\ SleepsServed
  BY DEF Init, Held, Lying, Up, Remembered, SleepsServed
<1> QED BY <1>1, <1>2 DEF RestInv

(* No wake-up is lost, for any capacity and any number of calls: a worker  *)
(* that sleeps at the head of its loop has gone through the last viewport  *)
(* under the last settings and owes no refresh, one that sleeps in Emit    *)
(* has no room and holds what nothing has overtaken (service.cpp:155, 285  *)
(* and 287).                                                               *)
THEOREM SleepIsServed == Spec => []SleepsServed
<1>1. RestInv => SleepsServed
  BY DEF RestInv
<1> QED BY <1>1, RestStart, RestStep, TypeCorrect, PTL DEF Spec
=============================================================================
