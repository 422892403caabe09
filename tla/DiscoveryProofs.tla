---------------------------- MODULE DiscoveryProofs ----------------------------
(***************************************************************************)
(* Proofs about the discovery of a fleet, for any groups, any relation     *)
(* between them, any projects and selectors and any number of scanners.    *)
(*                                                                         *)
(* The traversal is right because of the order of its queue: the groups in *)
(* it have one distance from the roots, or two that follow each other      *)
(* (Layers), everything nearer has been seen, and what has been seen is    *)
(* where it should be (Placed) and either waits in the queue or is dealt   *)
(* with (Complete).  The scan is right because each scanner accounts for   *)
(* what its stream has delivered, and none fails unheard (Scanned).        *)
(***************************************************************************)
EXTENDS Discovery, FiniteSetTheorems, SequenceTheorems, WellFoundedInduction, TLAPS

(* Group g is at distance d from the roots. *)
IsAt(g, d) == g \in Within[d] /\ (d > 0 => g \notin Within[d - 1])

(* The subgroups of a group at distance d are wanted. *)
GoesBelow(d) == recursive /\ (maxDepth = 0 \/ d < maxDepth)

Waits(g) == \E k \in 1..Len(queue) : queue[k].group = g

IsDone(g) ==
  /\ g \in excluded \/ \E m \in matched : m.group = g
  /\ \A d \in Nat : IsAt(g, d) /\ GoesBelow(d) => subgroups[g] \subseteq visited

Placements == [group : Groups, depth : Nat]

TreeTypes ==
  /\ subgroups \in [Groups -> SUBSET Groups] /\ roots \subseteq Groups
  /\ excluded \subseteq Groups /\ recursive \in BOOLEAN /\ maxDepth \in Nat
  /\ visited \subseteq Groups /\ queue \in Seq(Placements) /\ matched \subseteq Placements
  /\ pc \in {"resolving", "walking", "ok", "error"}
  /\ pc = "resolving" => visited = {} /\ queue = <<>> /\ matched = {}
  /\ pc = "ok" => queue = <<>>

(* What has been seen lies within the limit.  On the way to a group at     *)
(* distance d there are d others, so that a cycle does not lead further.   *)
Placed ==
  /\ \A g \in visited : \E d \in Nat : /\ IsAt(g, d) /\ d < Cardinality(visited)
                                       /\ d > 0 => GoesBelow(d - 1)
  /\ \A k \in 1..Len(queue) :
       queue[k].group \in visited /\ IsAt(queue[k].group, queue[k].depth)
  /\ \A m \in matched : m.group \in visited \ excluded /\ IsAt(m.group, m.depth)

(* The queue is ordered by distance and spans at most two; what is no      *)
(* further away than its head has been seen.                               *)
Layers ==
  /\ \A j, k \in 1..Len(queue) :
       j <= k => queue[j].depth <= queue[k].depth /\ queue[k].depth <= queue[j].depth + 1
  /\ queue # <<>> => Within[queue[1].depth] \subseteq visited

Complete ==
  /\ pc \in {"walking", "ok"} => roots \subseteq visited
  /\ \A g \in visited : Waits(g) \/ IsDone(g)

(* The inductive invariant of the traversal. *)
TreeInv == TreeTypes /\ Placed /\ Layers /\ Complete

ScanTypes ==
  /\ listing \in [Groups -> SUBSET Projects] /\ filter \in Filters /\ Found \subseteq Groups
  /\ scan \in [Found -> {"new", "streaming", "done", "failed"}]
  /\ todo \in [Found -> SUBSET Projects] /\ errs \in Nat
  /\ main \in {"traversing", "launching", "waiting", "ok", "error"}

(* What the streams have delivered is in the accumulator if it matches,    *)
(* and nothing else is.                                                    *)
Accounted ==
  /\ \A g \in Found : todo[g] \subseteq listing[g] /\ (scan[g] = "done" => todo[g] = {})
  /\ \A g \in Found : \A p \in listing[g] \ todo[g] : Matches(filter, Info[p]) => p \in projects
  /\ \A p \in projects : Matches(filter, Info[p]) /\ \E g \in Found : p \in listing[g]

(* How far Execute is, and what it knows of its scanners. *)
Stages ==
  /\ main = "traversing" => Found = {}
  /\ main \in {"launching", "waiting", "ok"} => pc = "ok" /\ Found = MatchedGroups
  /\ main \in {"waiting", "ok"} => \A g \in Found : scan[g] # "new"
  /\ (\E g \in Found : scan[g] = "failed") => errs > 0
  /\ main = "ok" => fleet.projects = projects /\ \A g \in Found : scan[g] = "done"
  /\ fleet # NoFleet => main = "ok"

(* The inductive invariant of the scan. *)
Scanned == ScanTypes /\ Accounted /\ Stages

-----------------------------------------------------------------------------
(* A set of numbers that is not empty has a least one. *)
LEMMA HasLeast ==
  ASSUME NEW S \in SUBSET Nat, S # {}
  PROVE  \E m \in S : \A k \in S : m <= k
<1>1. PICK m \in S : \A k \in S : ~(<<k, m>> \in OpToRel(<, Nat))
  BY NatLessThanWellFounded, WFMin, Zenon
<1>2. \A k \in S : ~(k < m)
  BY <1>1 DEF OpToRel
<1> QED BY <1>2

(* A path of n steps from a root to g. *)
IsPath(s, n, g) ==
  /\ s \in [0..n -> Groups] /\ s[0] \in roots /\ s[n] = g
  /\ \A j \in 1..n : s[j] \in subgroups[s[j - 1]]
ReachedIn(d) == {g \in Groups : \E n \in 0..d : \E s : IsPath(s, n, g)}

(* The groups on a path of at most d steps are what Within asks for, one   *)
(* layer after the other.                                                  *)
LEMMA PathsMakeLayers ==
  ASSUME subgroups \in [Groups -> SUBSET Groups], roots \subseteq Groups
  PROVE  /\ ReachedIn(0) = roots
         /\ \A d \in Nat \ {0} : ReachedIn(d)
              = ReachedIn(d - 1) \cup UNION {subgroups[g] : g \in ReachedIn(d - 1)}
<1>1. ReachedIn(0) = roots
  <2>1. ASSUME NEW g \in roots PROVE g \in ReachedIn(0)
    <3>1. IsPath([j \in 0..0 |-> g], 0, g)
      BY DEF IsPath
    <3> QED BY <3>1 DEF ReachedIn
  <2>2. ASSUME NEW g \in ReachedIn(0) PROVE g \in roots
    BY <2>2 DEF ReachedIn, IsPath
  <2> QED BY <2>1, <2>2
<1>2. ASSUME NEW d \in Nat \ {0}
      PROVE  ReachedIn(d)
               = ReachedIn(d - 1) \cup UNION {subgroups[g] : g \in ReachedIn(d - 1)}
  <2>1. ASSUME NEW h \in ReachedIn(d), h \notin ReachedIn(d - 1)
        PROVE  \E g \in ReachedIn(d - 1) : h \in subgroups[g]
    <3>1. PICK n, s : n \in 0..d /\ IsPath(s, n, h)
      BY DEF ReachedIn
    <3>2. h \in Groups
      BY DEF ReachedIn
    <3>3. n = d
      BY <2>1, <3>1, <3>2 DEF ReachedIn
    <3>4. IsPath([j \in 0..(d - 1) |-> s[j]], d - 1, s[d - 1])
      BY <3>1, <3>3 DEF IsPath
    <3>5. s[d - 1] \in Groups /\ d - 1 \in 0..(d - 1)
      BY <3>1, <3>3 DEF IsPath
    <3>6. s[d - 1] \in ReachedIn(d - 1)
      BY <3>4, <3>5 DEF ReachedIn
    <3> QED BY <3>1, <3>3, <3>6 DEF IsPath
  <2>2. ASSUME NEW g \in ReachedIn(d - 1), NEW h \in subgroups[g] PROVE h \in ReachedIn(d)
    <3>1. PICK n, s : n \in 0..(d - 1) /\ IsPath(s, n, g)
      BY DEF ReachedIn
    <3>2. g \in Groups /\ h \in Groups
      BY DEF ReachedIn
    <3>3. IsPath([j \in 0..(n + 1) |-> IF j = n + 1 THEN h ELSE s[j]], n + 1, h)
      BY <3>1, <3>2 DEF IsPath
    <3> QED BY <3>1, <3>2, <3>3 DEF ReachedIn
  <2>3. ReachedIn(d - 1) \subseteq ReachedIn(d)
    BY DEF ReachedIn
  <2> QED BY <2>1, <2>2, <2>3
<1> QED BY <1>1, <1>2

(* Within is the function that its definition describes: there is one. *)
LEMMA WithinIsDefined ==
  ASSUME subgroups \in [Groups -> SUBSET Groups], roots \subseteq Groups
  PROVE  Within = [d \in Nat |-> IF d = 0 THEN roots
                                 ELSE Within[d - 1] \cup UNION {subgroups[g] : g \in Within[d - 1]}]
<1> DEFINE IsWithin(f) ==
      f = [d \in Nat |-> IF d = 0 THEN roots
                         ELSE f[d - 1] \cup UNION {subgroups[g] : g \in f[d - 1]}]
           F == [d \in Nat |-> ReachedIn(d)]
<1>1. IsWithin(F)
  <2>1. ASSUME NEW d \in Nat
        PROVE  F[d] = IF d = 0 THEN roots
                      ELSE F[d - 1] \cup UNION {subgroups[g] : g \in F[d - 1]}
    BY PathsMakeLayers
  <2> QED BY <2>1
<1>2. Within = CHOOSE f : IsWithin(f)
  BY DEF Within
<1> HIDE DEF F, IsWithin
<1>3. IsWithin(Within)
  BY <1>1, <1>2
<1> QED BY <1>3 DEF IsWithin

(* The layers, each of which contains the one before. *)
LEMMA WithinLayers ==
  ASSUME subgroups \in [Groups -> SUBSET Groups], roots \subseteq Groups
  PROVE  /\ Within[0] = roots
         /\ \A d \in Nat : /\ Within[d] \subseteq Within[d + 1]
                           /\ \A g \in Within[d] : subgroups[g] \subseteq Within[d + 1]
                           /\ \A h \in Within[d + 1] :
                                h \in Within[d] \/ \E g \in Within[d] : h \in subgroups[g]
<1>1. \A d \in Nat : Within[d] = IF d = 0 THEN roots
                     ELSE Within[d - 1] \cup UNION {subgroups[g] : g \in Within[d - 1]}
  BY WithinIsDefined
<1>2. Within[0] = roots
  BY <1>1
<1>3. ASSUME NEW d \in Nat
      PROVE  Within[d + 1] = Within[d] \cup UNION {subgroups[g] : g \in Within[d]}
  <2>1. d + 1 \in Nat /\ d + 1 # 0 /\ (d + 1) - 1 = d
    OBVIOUS
  <2> QED BY <1>1, <2>1
<1> QED BY <1>2, <1>3

(* Layers only grow. *)
LEMMA WithinGrows ==
  ASSUME subgroups \in [Groups -> SUBSET Groups], roots \subseteq Groups,
         NEW d \in Nat, NEW e \in Nat, d <= e
  PROVE  Within[d] \subseteq Within[e] /\ Within[e] \subseteq Groups
<1>1. \A n \in Nat : d <= n => Within[d] \subseteq Within[n]
  <2> DEFINE Bad == {n \in Nat : d <= n /\ ~(Within[d] \subseteq Within[n])}
  <2> SUFFICES ASSUME Bad # {} PROVE FALSE
    OBVIOUS
  <2>1. PICK m \in Bad : \A k \in Bad : m <= k
    BY HasLeast
  <2>2. m - 1 \in Nat /\ d <= m - 1 /\ m - 1 \notin Bad
    BY <2>1
  <2>3. Within[m - 1] \subseteq Within[(m - 1) + 1]
    BY <2>2, WithinLayers
  <2> QED BY <2>1, <2>2, <2>3
<1>2. \A n \in Nat : Within[n] \subseteq Groups
  <2> DEFINE Bad == {n \in Nat : ~(Within[n] \subseteq Groups)}
  <2> SUFFICES ASSUME Bad # {} PROVE FALSE
    OBVIOUS
  <2>1. PICK m \in Bad : \A k \in Bad : m <= k
    BY HasLeast
  <2>2. m # 0
    BY <2>1, WithinLayers
  <2>3. m - 1 \in Nat /\ m - 1 \notin Bad /\ (m - 1) + 1 = m
    BY <2>1, <2>2
  <2> QED BY <2>1, <2>3, WithinLayers
<1> QED BY <1>1, <1>2

-----------------------------------------------------------------------------
(* A group is in no layer before its distance. *)
LEMMA BeyondLayer ==
  ASSUME TreeTypes, NEW g, NEW d \in Nat, NEW e \in Nat, IsAt(g, e), g \in Within[d]
  PROVE  e <= d
<1> SUFFICES ASSUME e > d PROVE FALSE
  OBVIOUS
<1>1. e - 1 \in Nat /\ d <= e - 1
  OBVIOUS
<1>2. Within[d] \subseteq Within[e - 1]
  BY <1>1, WithinGrows DEF TreeTypes
<1> QED BY <1>2 DEF IsAt

(* A group has no second distance. *)
LEMMA OneDistance ==
  ASSUME TreeTypes, NEW g, NEW d \in Nat, NEW e \in Nat, IsAt(g, d), IsAt(g, e)
  PROVE  d = e
<1>1. d <= e /\ e <= d
  BY BeyondLayer DEF IsAt
<1> QED BY <1>1

(* The reach depends on the inputs alone, which no step changes. *)
LEMMA SameReach ==
  ASSUME UNCHANGED inputs
  PROVE  /\ Within' = Within
         /\ \A g, d : IsAt(g, d)' <=> IsAt(g, d)
         /\ \A d : GoesBelow(d)' <=> GoesBelow(d)
<1>1. Within' = Within
  BY DEF Within, inputs
<1> QED BY <1>1 DEF IsAt, GoesBelow, inputs

(* What the API lists, with its depth, is a part of a queue. *)
LEMMA ListingFacts ==
  ASSUME NEW S \in SUBSET Groups, NEW s \in Listings(S), NEW d \in Nat
  PROVE  /\ At(s, d) \in Seq(Placements)
         /\ \A k \in 1..Len(At(s, d)) : At(s, d)[k].group \in S /\ At(s, d)[k].depth = d
         /\ \A g \in S : \E k \in 1..Len(At(s, d)) : At(s, d)[k].group = g
<1>1. IsFiniteSet(S) /\ Cardinality(S) \in Nat
  BY TreeAssumption, FS_Subset, FS_CardinalityType DEF TreeAssumption
<1>2. PICK n \in Nat : n = Cardinality(S)
  BY <1>1
<1>3. s \in [1..n -> S] /\ \A g \in S : \E k \in 1..n : s[k] = g
  BY <1>2 DEF Listings
<1>4. At(s, d) = [k \in 1..n |-> [group |-> s[k], depth |-> d]]
  BY <1>3 DEF At
<1>5. At(s, d) \in [1..n -> Placements]
  BY <1>3, <1>4 DEF Placements
<1>6. At(s, d) \in Seq(Placements) /\ Len(At(s, d)) = n
  BY <1>5, SeqDef, LenProperties
<1> QED BY <1>3, <1>4, <1>6

(* The queue after a turn of the loop. *)
LEMMA QueueAfter ==
  ASSUME queue \in Seq(Placements), queue # <<>>, NEW new \in Seq(Placements),
         NEW q, q = Tail(queue) \o new
  PROVE  /\ q \in Seq(Placements) /\ Len(q) = Len(queue) - 1 + Len(new)
         /\ \A k \in 1..Len(q) :
              \/ k + 1 \in 1..Len(queue) /\ q[k] = queue[k + 1]
              \/ /\ k >= Len(queue) /\ k - Len(queue) + 1 \in 1..Len(new)
                 /\ q[k] = new[k - Len(queue) + 1]
         /\ \A k \in 1..Len(queue) : k > 1 => k - 1 \in 1..Len(q) /\ q[k - 1] = queue[k]
         /\ \A k \in 1..Len(new) : k + Len(queue) - 1 \in 1..Len(q)
                                   /\ q[k + Len(queue) - 1] = new[k]
<1>1. /\ Tail(queue) \in Seq(Placements) /\ Len(Tail(queue)) = Len(queue) - 1
      /\ \A k \in 1..Len(Tail(queue)) : Tail(queue)[k] = queue[k + 1]
  BY HeadTailProperties
<1>2. /\ q \in Seq(Placements) /\ Len(q) = Len(Tail(queue)) + Len(new)
      /\ \A k \in 1..Len(q) : q[k] = IF k <= Len(Tail(queue)) THEN Tail(queue)[k]
                                     ELSE new[k - Len(Tail(queue))]
  BY <1>1, ConcatProperties
<1>3. Len(queue) \in Nat /\ Len(queue) > 0 /\ Len(new) \in Nat
  BY LenProperties, EmptySeq
<1> QED BY <1>1, <1>2, <1>3

-----------------------------------------------------------------------------
(* The traversal has not begun. *)
LEMMA TreeInvInit ==
  ASSUME TreeInit
  PROVE  TreeInv
<1>1. TreeTypes
  BY TreeAssumption DEF TreeInit, TreeAssumption, TreeTypes
<1>2. Len(queue) = 0
  BY DEF TreeInit
<1> QED BY <1>1, <1>2 DEF TreeInit, TreeInv, Placed, Layers, Complete

(* The roots are queued, at distance zero. *)
LEMMA ResolveRootsStep ==
  ASSUME TreeInv, ResolveRoots
  PROVE  TreeInv'
<1>1. /\ UNCHANGED inputs /\ matched' = {} /\ visited' = roots /\ pc' = "walking"
      /\ TreeTypes
  BY DEF ResolveRoots, TreeInv, TreeTypes
<1>2. PICK s \in Listings(roots) : queue' = At(s, 0)
  BY DEF ResolveRoots
<1>3. /\ queue' \in Seq(Placements)
      /\ \A k \in 1..Len(queue') : queue'[k].group \in roots /\ queue'[k].depth = 0
      /\ \A g \in roots : \E k \in 1..Len(queue') : queue'[k].group = g
  BY <1>1, <1>2, ListingFacts DEF TreeTypes
<1>4. TreeTypes'
  BY <1>1, <1>3 DEF TreeTypes, inputs
<1>5. Within[0] = roots /\ \A g \in roots : IsAt(g, 0)
  BY <1>1, WithinLayers DEF TreeTypes, IsAt
<1>6. \A g \in roots : 0 < Cardinality(roots)
  <2>1. IsFiniteSet(roots)
    BY <1>1, TreeAssumption, FS_Subset DEF TreeAssumption, TreeTypes
  <2> QED BY <2>1, FS_EmptySet, FS_CardinalityType
<1>7. Placed'
  BY <1>1, <1>3, <1>5, <1>6, SameReach DEF Placed
<1>8. Layers'
  <2>1. queue' # <<>> => 1 \in 1..Len(queue')
    BY <1>3, EmptySeq, LenProperties
  <2> QED BY <1>1, <1>3, <1>5, <2>1, SameReach DEF Layers
<1>9. Complete'
  BY <1>1, <1>3 DEF Complete, Waits, inputs
<1> QED BY <1>4, <1>7, <1>8, <1>9 DEF TreeInv

(* The head of the queue. *)
LEMMA HeadFacts ==
  ASSUME TreeInv, queue # <<>>
  PROVE  /\ Current = queue[1] /\ 1 \in 1..Len(queue)
         /\ Current.group \in visited /\ Current.depth \in Nat
         /\ Current = [group |-> Current.group, depth |-> Current.depth]
         /\ IsAt(Current.group, Current.depth)
         /\ Within[Current.depth] \subseteq visited
<1>1. queue \in Seq(Placements) /\ Len(queue) \in Nat /\ Len(queue) > 0
  BY LenProperties, EmptySeq DEF TreeInv, TreeTypes
<1>2. Current = queue[1] /\ queue[1] \in Placements
  BY <1>1, HeadTailProperties, ElementOfSeq DEF Current
<1> QED BY <1>1, <1>2 DEF TreeInv, Placed, Layers, Placements

(* A subgroup that has not been seen is one step further away, since       *)
(* everything as near as the head of the queue has been seen.              *)
LEMMA NewIsNext ==
  ASSUME TreeInv, queue # <<>>, NEW h \in Unseen
  PROVE  IsAt(h, Current.depth + 1)
<1>1. h \in subgroups[Current.group] /\ h \notin visited
  BY DEF Unseen
<1>2. h \in Within[Current.depth + 1]
  BY <1>1, HeadFacts, WithinLayers DEF TreeInv, TreeTypes, IsAt
<1>3. (Current.depth + 1) - 1 = Current.depth
  BY HeadFacts
<1> QED BY <1>1, <1>2, <1>3, HeadFacts DEF IsAt

(* Once the groups within distance d have been dealt with, those within    *)
(* d + 1 have been seen.                                                   *)
LEMMA LayerIsSeen ==
  ASSUME TreeTypes, NEW d \in Nat, GoesBelow(d), NEW V, Within[d] \subseteq V,
         \A g \in V : \E n \in Nat : IsAt(g, n),
         \A g \in Within[d] : \A n \in Nat : IsAt(g, n) /\ GoesBelow(n) => subgroups[g] \subseteq V
  PROVE  Within[d + 1] \subseteq V
<1> SUFFICES ASSUME NEW h \in Within[d + 1], h \notin Within[d] PROVE h \in V
  OBVIOUS
<1>1. PICK g \in Within[d] : h \in subgroups[g]
  BY WithinLayers DEF TreeTypes
<1>2. PICK n \in Nat : IsAt(g, n)
  OBVIOUS
<1>3. n <= d
  BY <1>2, BeyondLayer
<1>4. GoesBelow(n)
  BY <1>3 DEF GoesBelow, TreeTypes
<1> QED BY <1>1, <1>2, <1>4

(* One turn of the loop. *)
LEMMA VisitGroupStep ==
  ASSUME TreeInv, VisitGroup
  PROVE  TreeInv'
<1>1. /\ UNCHANGED inputs /\ pc = "walking" /\ pc' = pc /\ queue # <<>> /\ TreeTypes
  BY DEF VisitGroup, TreeInv
<1>2. PICK g \in visited, d \in Nat :
        /\ g = Current.group /\ d = Current.depth /\ queue[1] = [group |-> g, depth |-> d]
        /\ IsAt(g, d) /\ Within[d] \subseteq visited
  BY <1>1, HeadFacts
<1>3. PICK new \in SUBSET Groups :
        /\ new = IF GoesBelow(d) THEN subgroups[g] \ visited ELSE {}
        /\ visited' = visited \cup new
        /\ \E s \in Listings(new) : queue' = Tail(queue) \o At(s, d + 1)
  <2> DEFINE N == IF Expands THEN Unseen ELSE {}
  <2>1. N \subseteq Groups
    BY <1>1, <1>2 DEF Unseen, TreeTypes
  <2>2. N = IF GoesBelow(d) THEN subgroups[g] \ visited ELSE {}
    BY <1>2 DEF Expands, GoesBelow, Unseen
  <2>3. visited' = visited \cup N /\ \E s \in Listings(N) : queue' = Tail(queue) \o At(s, d + 1)
    BY <1>2 DEF VisitGroup, MarkQueued, Rest
  <2> HIDE DEF N
  <2> QED BY <2>1, <2>2, <2>3
<1>4. PICK more \in Seq(Placements) :
        /\ queue' = Tail(queue) \o more
        /\ \A k \in 1..Len(more) : more[k].group \in new /\ more[k].depth = d + 1
        /\ \A h \in new : \E k \in 1..Len(more) : more[k].group = h
  <2>1. PICK s \in Listings(new) : queue' = Tail(queue) \o At(s, d + 1)
    BY <1>3
  <2>2. PICK m : m = At(s, d + 1)
    OBVIOUS
  <2>3. d + 1 \in Nat
    OBVIOUS
  <2>4. /\ m \in Seq(Placements)
        /\ \A k \in 1..Len(m) : m[k].group \in new /\ m[k].depth = d + 1
        /\ \A h \in new : \E k \in 1..Len(m) : m[k].group = h
    BY <2>2, <2>3, ListingFacts
  <2> QED BY <2>1, <2>2, <2>4
<1>5. /\ queue' \in Seq(Placements) /\ Len(queue') = Len(queue) - 1 + Len(more)
      /\ \A k \in 1..Len(queue') :
           \/ k + 1 \in 1..Len(queue) /\ queue'[k] = queue[k + 1]
           \/ /\ k >= Len(queue) /\ k - Len(queue) + 1 \in 1..Len(more)
              /\ queue'[k] = more[k - Len(queue) + 1]
      /\ \A k \in 1..Len(queue) : k > 1 => k - 1 \in 1..Len(queue') /\ queue'[k - 1] = queue[k]
      /\ \A k \in 1..Len(more) : k + Len(queue) - 1 \in 1..Len(queue')
                                 /\ queue'[k + Len(queue) - 1] = more[k]
  BY <1>1, <1>4, QueueAfter DEF TreeTypes
<1>6. \A h \in new : IsAt(h, d + 1) /\ GoesBelow(d)
  <2> SUFFICES ASSUME NEW h \in new PROVE IsAt(h, d + 1) /\ GoesBelow(d)
    OBVIOUS
  <2>1. GoesBelow(d) /\ h \in Unseen
    BY <1>2, <1>3 DEF Unseen
  <2> QED BY <1>1, <1>2, <2>1, NewIsNext
<1>7. matched' = IF g \in excluded THEN matched ELSE matched \cup {[group |-> g, depth |-> d]}
  BY <1>1, <1>2, HeadFacts DEF VisitGroup
<1>8. TreeTypes'
  <2>1. g \in Groups
    BY <1>1 DEF TreeTypes
  <2> QED BY <1>1, <1>2, <1>3, <1>5, <1>7, <2>1 DEF TreeTypes, Placements, inputs
<1>9. /\ Cardinality(visited) \in Nat /\ Cardinality(visited') \in Nat
      /\ Cardinality(visited) <= Cardinality(visited')
      /\ new # {} => Cardinality(visited) < Cardinality(visited')
  <2>1. IsFiniteSet(visited')
    BY <1>8, TreeAssumption, FS_Subset DEF TreeAssumption, TreeTypes
  <2>2. IsFiniteSet(visited) /\ visited \subseteq visited' /\ (new # {} => visited # visited')
    BY <1>3, <2>1, FS_Subset
  <2> QED BY <2>1, <2>2, FS_Subset, FS_CardinalityType
<1>10. \A h \in visited' : \E n \in Nat : /\ IsAt(h, n) /\ n < Cardinality(visited')
                                          /\ n > 0 => GoesBelow(n - 1)
  <2>1. ASSUME NEW h \in visited
        PROVE  \E n \in Nat : IsAt(h, n) /\ n < Cardinality(visited') /\ (n > 0 => GoesBelow(n - 1))
    BY <1>9 DEF TreeInv, Placed
  <2>2. ASSUME NEW h \in new
        PROVE  \E n \in Nat : IsAt(h, n) /\ n < Cardinality(visited') /\ (n > 0 => GoesBelow(n - 1))
    <3>1. PICK n \in Nat : IsAt(g, n) /\ n < Cardinality(visited)
      BY DEF TreeInv, Placed
    <3>2. n = d
      BY <1>1, <1>2, <3>1, OneDistance
    <3>3. d + 1 \in Nat /\ (d + 1) - 1 = d /\ d + 1 < Cardinality(visited')
      BY <1>9, <3>1, <3>2
    <3> QED BY <1>6, <3>3
  <2> QED BY <1>3, <2>1, <2>2
<1>11. Placed'
  <2>1. \A k \in 1..Len(queue') :
          queue'[k].group \in visited' /\ IsAt(queue'[k].group, queue'[k].depth)
    <3> SUFFICES ASSUME NEW k \in 1..Len(queue')
                 PROVE  queue'[k].group \in visited' /\ IsAt(queue'[k].group, queue'[k].depth)
      OBVIOUS
    <3>1. ASSUME NEW j \in 1..Len(queue), queue'[k] = queue[j]
          PROVE  queue'[k].group \in visited' /\ IsAt(queue'[k].group, queue'[k].depth)
      BY <1>3, <3>1 DEF TreeInv, Placed
    <3>2. ASSUME NEW j \in 1..Len(more), queue'[k] = more[j]
          PROVE  queue'[k].group \in visited' /\ IsAt(queue'[k].group, queue'[k].depth)
      BY <1>3, <1>4, <1>6, <3>2
    <3> QED BY <1>5, <3>1, <3>2
  <2>2. \A m \in matched' : m.group \in visited' \ excluded /\ IsAt(m.group, m.depth)
    BY <1>2, <1>3, <1>7 DEF TreeInv, Placed
  <2>3. excluded' = excluded
    BY <1>1 DEF inputs
  <2> QED BY <1>1, <1>10, <2>1, <2>2, <2>3, SameReach DEF Placed
<1>12. \A k \in 1..Len(queue) : queue[k].depth \in Nat /\ d <= queue[k].depth /\ queue[k].depth <= d + 1
  <2>1. \A k \in 1..Len(queue) : queue[k] \in Placements
    BY <1>1, ElementOfSeq DEF TreeTypes
  <2>2. 1 \in 1..Len(queue)
    BY <1>1, HeadFacts
  <2> QED BY <1>2, <2>1, <2>2 DEF TreeInv, Layers, Placements
<1>13. \A j, k \in 1..Len(queue') :
         j <= k => queue'[j].depth <= queue'[k].depth /\ queue'[k].depth <= queue'[j].depth + 1
  <2> SUFFICES ASSUME NEW j \in 1..Len(queue'), NEW k \in 1..Len(queue'), j <= k
               PROVE  queue'[j].depth <= queue'[k].depth /\ queue'[k].depth <= queue'[j].depth + 1
    OBVIOUS
  <2>1. Len(queue) \in Nat /\ Len(more) \in Nat /\ Len(queue') \in Nat
    BY <1>1, <1>4, <1>5, LenProperties DEF TreeTypes
  <2>2. CASE k + 1 \in 1..Len(queue) /\ queue'[k] = queue[k + 1]
    <3>1. j + 1 \in 1..Len(queue) /\ queue'[j] = queue[j + 1]
      BY <1>5, <2>1, <2>2
    <3> QED BY <2>2, <3>1 DEF TreeInv, Layers
  <2>3. CASE k >= Len(queue) /\ queue'[k].depth = d + 1
    <3>1. CASE j + 1 \in 1..Len(queue) /\ queue'[j] = queue[j + 1]
      BY <1>12, <2>3, <3>1
    <3>2. CASE queue'[j].depth = d + 1
      BY <2>3, <3>2
    <3> QED BY <1>4, <1>5, <3>1, <3>2
  <2> QED BY <1>4, <1>5, <2>2, <2>3
<1>14. \A h \in visited' :
         \/ \E k \in 1..Len(queue') : queue'[k].group = h
         \/ /\ h \in excluded \/ \E m \in matched' : m.group = h
            /\ \A n \in Nat : IsAt(h, n) /\ GoesBelow(n) => subgroups[h] \subseteq visited'
  <2>1. ASSUME NEW h \in new PROVE \E k \in 1..Len(queue') : queue'[k].group = h
    <3>1. PICK k \in 1..Len(more) : more[k].group = h
      BY <1>4
    <3>2. k + Len(queue) - 1 \in 1..Len(queue') /\ queue'[k + Len(queue) - 1] = more[k]
      BY <1>5
    <3> QED BY <3>1, <3>2
  <2>2. /\ g \in excluded \/ \E m \in matched' : m.group = g
        /\ \A n \in Nat : IsAt(g, n) /\ GoesBelow(n) => subgroups[g] \subseteq visited'
    <3>1. ASSUME NEW n \in Nat, IsAt(g, n), GoesBelow(n) PROVE subgroups[g] \subseteq visited'
      <4>1. n = d
        BY <1>1, <1>2, <3>1, OneDistance
      <4> QED BY <1>3, <3>1, <4>1
    <3>2. g \notin excluded => [group |-> g, depth |-> d] \in matched'
      BY <1>7
    <3>3. g \in excluded \/ \E m \in matched' : m.group = g
      BY <3>2
    <3> QED BY <3>1, <3>3
  <2>3. ASSUME NEW h \in visited, h # g, Waits(h)
        PROVE  \E k \in 1..Len(queue') : queue'[k].group = h
    <3>1. PICK k \in 1..Len(queue) : queue[k].group = h
      BY <2>3 DEF Waits
    <3>2. k > 1
      BY <1>2, <2>3, <3>1
    <3> QED BY <1>5, <3>1, <3>2
  <2>4. ASSUME NEW h \in visited, IsDone(h)
        PROVE  /\ h \in excluded \/ \E m \in matched' : m.group = h
               /\ \A n \in Nat : IsAt(h, n) /\ GoesBelow(n) => subgroups[h] \subseteq visited'
    BY <1>3, <1>7, <2>4 DEF IsDone
  <2>5. \A h \in visited : Waits(h) \/ IsDone(h)
    BY DEF TreeInv, Complete
  <2>6. \A h \in visited' : h \in visited \/ h \in new
    BY <1>3
  <2> QED BY <2>1, <2>2, <2>3, <2>4, <2>5, <2>6
<1>15. queue' # <<>> => Within[queue'[1].depth] \subseteq visited'
  <2> SUFFICES ASSUME queue' # <<>> PROVE Within[queue'[1].depth] \subseteq visited'
    OBVIOUS
  <2>1. /\ Len(queue) \in Nat /\ Len(more) \in Nat /\ Len(queue') \in Nat
        /\ 1 \in 1..Len(queue') /\ \A k \in 1..Len(queue') : queue'[k] \in Placements
    BY <1>1, <1>4, <1>5, LenProperties, EmptySeq, ElementOfSeq DEF TreeTypes
  <2>2. queue'[1].depth \in {d, d + 1}
    <3>1. ASSUME NEW j \in 1..Len(queue), queue'[1] = queue[j]
          PROVE  queue'[1].depth \in {d, d + 1}
      BY <1>12, <3>1
    <3>2. ASSUME NEW j \in 1..Len(more), queue'[1] = more[j]
          PROVE  queue'[1].depth \in {d, d + 1}
      BY <1>4, <3>2
    <3> QED BY <1>5, <2>1, <3>1, <3>2
  <2>3. CASE queue'[1].depth = d
    BY <1>2, <1>3, <2>3
  <2>4. CASE queue'[1].depth = d + 1
    <3>1. queue'[1].group \in visited' /\ IsAt(queue'[1].group, d + 1)
      BY <1>1, <1>11, <2>1, <2>4, SameReach DEF Placed
    <3>2. GoesBelow(d)
      <4>1. PICK n \in Nat : IsAt(queue'[1].group, n) /\ (n > 0 => GoesBelow(n - 1))
        BY <1>10, <3>1
      <4>2. n = d + 1
        BY <1>1, <3>1, <4>1, OneDistance
      <4> QED BY <4>1, <4>2
    <3>3. ASSUME NEW h \in Within[d], NEW n \in Nat, IsAt(h, n), GoesBelow(n)
          PROVE  subgroups[h] \subseteq visited'
      <4>1. h \in visited'
        BY <1>2, <1>3
      <4>2. ~\E k \in 1..Len(queue') : queue'[k].group = h
        <5> SUFFICES ASSUME NEW k \in 1..Len(queue'), queue'[k].group = h PROVE FALSE
          OBVIOUS
        <5>1. queue'[k].depth >= d + 1 /\ queue'[k].depth \in Nat
          <6>1. 1 <= k /\ queue'[k].depth \in Nat
            BY <2>1 DEF Placements
          <6>2. queue'[1].depth <= queue'[k].depth
            BY <1>13, <2>1, <6>1
          <6> QED BY <2>4, <6>1, <6>2
        <5>2. IsAt(h, queue'[k].depth)
          BY <1>1, <1>11, SameReach DEF Placed
        <5> QED BY <1>1, <5>1, <5>2, BeyondLayer
      <4> QED BY <1>14, <3>3, <4>1, <4>2
    <3>4. Within[d] \subseteq visited' /\ \A h \in visited' : \E n \in Nat : IsAt(h, n)
      BY <1>2, <1>3, <1>10
    <3> QED BY <1>1, <2>4, <3>2, <3>3, <3>4, LayerIsSeen
  <2> QED BY <2>2, <2>3, <2>4
<1>16. Layers'
  BY <1>1, <1>13, <1>15, SameReach DEF Layers
<1>17. Complete'
  BY <1>1, <1>3, <1>14, SameReach DEF Complete, TreeInv, Waits, IsDone, inputs
<1> QED BY <1>8, <1>11, <1>16, <1>17 DEF TreeInv

(* Traverse returns, with its groups or with an error, or does nothing. *)
LEMMA TreeRestsStep ==
  ASSUME TreeInv, Traversed \/ TraverseFails \/ UNCHANGED treeVars
  PROVE  TreeInv'
<1>1. /\ UNCHANGED <<visited, queue, matched>> /\ UNCHANGED inputs
      /\ pc' = pc \/ (pc' = "ok" /\ pc = "walking" /\ queue = <<>>) \/ pc' = "error"
  BY DEF Traversed, TraverseFails, treeVars
<1>2. TreeTypes'
  BY <1>1 DEF TreeInv, TreeTypes, inputs
<1>3. Placed' /\ Layers'
  BY <1>1, SameReach DEF TreeInv, Placed, Layers, inputs
<1>4. Complete'
  BY <1>1, SameReach DEF TreeInv, Complete, Waits, IsDone, inputs
<1> QED BY <1>2, <1>3, <1>4 DEF TreeInv

(* Every step of a discovery keeps the invariant of the traversal. *)
LEMMA TreeInvNext ==
  ASSUME TreeInv, [Next]_vars
  PROVE  TreeInv'
<1>1. CASE Traverse
  BY <1>1, ResolveRootsStep, VisitGroupStep, TreeRestsStep DEF Traverse, TreeStep
<1>2. CASE FailTraverse
  BY <1>2, TreeRestsStep DEF FailTraverse
<1>3. CASE UNCHANGED treeVars
  BY <1>3, TreeRestsStep
<1> QED
  BY <1>1, <1>2, <1>3 DEF Next, vars, Execute, ScanMatched, GiveUp, CancelDiscovery, ScanGroup

(* The groups that were seen when Traverse returns are those within reach: *)
(* no distance is greater than the number of groups, and the first layer   *)
(* that was missed would have been queued by the one before it.            *)
LEMMA SeenIsReach ==
  ASSUME TreeInv, pc = "ok"
  PROVE  visited = Within[DepthLimit]
<1>1. TreeTypes /\ DepthLimit \in Nat /\ queue = <<>>
  BY TreeAssumption, FS_CardinalityType DEF TreeInv, TreeTypes, DepthLimit, TreeAssumption
<1>2. ASSUME NEW g \in visited PROVE g \in Within[DepthLimit]
  <2>1. PICK d \in Nat : IsAt(g, d) /\ d < Cardinality(visited) /\ (d > 0 => GoesBelow(d - 1))
    BY DEF TreeInv, Placed
  <2>2. /\ Cardinality(visited) \in Nat /\ Cardinality(Groups) \in Nat
        /\ Cardinality(visited) <= Cardinality(Groups)
    BY <1>1, TreeAssumption, FS_Subset, FS_CardinalityType DEF TreeAssumption, TreeTypes
  <2>3. d <= DepthLimit
    BY <1>1, <2>1, <2>2 DEF DepthLimit, GoesBelow, TreeTypes
  <2> QED BY <1>1, <2>1, <2>3, WithinGrows DEF TreeTypes, IsAt
<1>3. \A n \in Nat : n <= DepthLimit => Within[n] \subseteq visited
  <2> DEFINE Bad == {n \in Nat : n <= DepthLimit /\ ~(Within[n] \subseteq visited)}
  <2> SUFFICES ASSUME Bad # {} PROVE FALSE
    OBVIOUS
  <2>1. PICK m \in Bad : \A k \in Bad : m <= k
    BY HasLeast
  <2>2. m # 0
    BY <1>1, <2>1, WithinLayers DEF TreeInv, Complete, TreeTypes
  <2>3. PICK d \in Nat : m = d + 1 /\ d < DepthLimit /\ Within[d] \subseteq visited
    <3>1. m - 1 \in Nat /\ m = (m - 1) + 1 /\ m - 1 < DepthLimit /\ m - 1 \notin Bad
      BY <1>1, <2>1, <2>2
    <3> QED BY <1>1, <3>1
  <2>4. GoesBelow(d)
    BY <1>1, <2>3 DEF GoesBelow, DepthLimit, TreeTypes
  <2>5. \A g \in visited : IsDone(g)
    BY <1>1 DEF TreeInv, Complete, Waits
  <2>6. \A g \in Within[d] : \A n \in Nat :
          IsAt(g, n) /\ GoesBelow(n) => subgroups[g] \subseteq visited
    BY <2>3, <2>5 DEF IsDone
  <2>7. \A g \in visited : \E n \in Nat : IsAt(g, n)
    BY DEF TreeInv, Placed
  <2>8. Within[d + 1] \subseteq visited
    BY <1>1, <2>3, <2>4, <2>6, <2>7, LayerIsSeen
  <2> QED BY <2>1, <2>3, <2>8
<1>4. Within[DepthLimit] \subseteq visited
  BY <1>1, <1>3
<1> QED BY <1>2, <1>4

(* Every group within reach that is not excluded was matched, and no other. *)
LEMMA MatchedIsSeen ==
  ASSUME TreeInv, pc = "ok"
  PROVE  MatchedGroups = Within[DepthLimit] \ excluded
<1>1. visited = Within[DepthLimit]
  BY SeenIsReach
<1>2. ASSUME NEW g \in visited \ excluded PROVE \E m \in matched : m.group = g
  BY DEF TreeInv, TreeTypes, Complete, Waits, IsDone
<1>3. ASSUME NEW m \in matched PROVE m.group \in visited \ excluded
  BY DEF TreeInv, Placed
<1> QED BY <1>1, <1>2, <1>3 DEF MatchedGroups

(* The traversal returns the groups within reach, each at its distance. *)
LEMMA TreeInvGivesReach ==
  ASSUME TreeInv
  PROVE  MatchedIsReach
<1> SUFFICES ASSUME pc = "ok"
             PROVE  /\ {m.group : m \in matched} = Within[DepthLimit] \ excluded
                    /\ \A m \in matched : /\ m.group \in Within[m.depth]
                                          /\ m.depth > 0 => m.group \notin Within[m.depth - 1]
  BY DEF MatchedIsReach
<1>1. {m.group : m \in matched} = Within[DepthLimit] \ excluded
  BY MatchedIsSeen DEF MatchedGroups
<1>2. \A m \in matched : IsAt(m.group, m.depth)
  BY DEF TreeInv, Placed
<1> QED BY <1>1, <1>2 DEF IsAt

(* Traverse returns exactly the groups within reach of the roots that are  *)
(* not excluded, at their distances, whatever the subgroup relation (with  *)
(* cycles and shared subgroups), the depth limit and the listing orders.   *)
THEOREM TraversalIsExact == Spec => []MatchedIsReach
<1>1. Init => TreeInv
  BY TreeInvInit DEF Init
<1>2. TreeInv /\ [Next]_vars => TreeInv'
  BY TreeInvNext
<1>3. TreeInv => MatchedIsReach
  BY TreeInvGivesReach
<1> QED BY <1>1, <1>2, <1>3, PTL DEF Spec

-----------------------------------------------------------------------------
(* A namespace is around a project if and only if MatchNamespace says so. *)
LEMMA NamespaceIsAround ==
  ASSUME NEW p, p.ns \in Seq(STRING), NEW N \in SUBSET Seq(STRING)
  PROVE  Around(p) \cap N # {} <=> \E ns \in Namespaces(N) : MatchNamespace(p.ns, ns)
<1>1. PICK path \in Seq(STRING) : path = p.ns
  OBVIOUS
<1>2. ASSUME NEW n \in 1..Len(path)
      PROVE  Len(SubSeq(path, 1, n)) = n /\ SubSeq(path, 1, n) # <<>>
  <2>1. Len(path) \in Nat
    BY LenProperties
  <2>2. SubSeq(path, 1, n) \in Seq(STRING) /\ Len(SubSeq(path, 1, n)) = n
    BY <2>1, SubSeqProperties
  <2> QED BY <2>1, <2>2
<1>3. ASSUME NEW ns \in Namespaces(N), MatchNamespace(path, ns)
      PROVE  ns \in N /\ \E n \in 1..Len(path) : ns = SubSeq(path, 1, n)
  <2>1. ns \in N /\ ns \in Seq(STRING) /\ ns # <<>>
    BY DEF Namespaces
  <2>2. Len(ns) \in 1..Len(path)
    BY <1>3, <2>1, LenProperties, EmptySeq DEF MatchNamespace
  <2> QED BY <1>3, <2>1, <2>2 DEF MatchNamespace
<1>4. ASSUME NEW n \in 1..Len(path), SubSeq(path, 1, n) \in N
      PROVE  \E ns \in Namespaces(N) : MatchNamespace(path, ns)
  <2>1. PICK ns : ns = SubSeq(path, 1, n)
    OBVIOUS
  <2>2. Len(ns) = n /\ ns \in Namespaces(N)
    BY <1>2, <1>4, <2>1 DEF Namespaces
  <2>3. MatchNamespace(path, ns)
    BY <2>1, <2>2, LenProperties DEF MatchNamespace
  <2> QED BY <2>2, <2>3
<1> QED BY <1>1, <1>3, <1>4 DEF Around

(* The filter decides as the selector says: its order of tests, and the    *)
(* defaults it fills in, make no difference.                               *)
LEMMA MatchesIsInScope ==
  ASSUME NEW f \in Filters, NEW q \in Projects
  PROVE  Matches(f, Info[q]) <=> InScope(f, Info[q])
<1>1. PICK p : p = Info[q]
  OBVIOUS
<1>2. /\ p.id \in Nat /\ p.doomed \in BOOLEAN /\ p.ns \in Seq(STRING)
      /\ f.min \in Nat /\ f.max \in Nat /\ f.excludeMarked \in {NotSet, "yes", "no"}
      /\ f.nsInclude \subseteq Seq(STRING) /\ f.nsExclude \subseteq Seq(STRING)
  BY <1>1, ScanAssumption DEF ScanAssumption
<1>3. PassesStatus(f, p) <=>
        /\ f.archived \in {NotSet, p.archived} /\ f.visibility \in {NotSet, p.visibility}
        /\ p.doomed => f.excludeMarked # "yes" /\ (f.archived = "no" => f.excludeMarked = "no")
        /\ p.id >= f.min /\ (f.max = 0 \/ p.id <= f.max)
  <2>1. InIDRange(f, p) <=> p.id >= f.min /\ (f.max = 0 \/ p.id <= f.max)
    BY <1>2 DEF InIDRange
  <2>2. (ShouldExcludeMarked(f) => ~p.doomed) <=>
          (p.doomed => f.excludeMarked # "yes" /\ (f.archived = "no" => f.excludeMarked = "no"))
    BY <1>2 DEF ShouldExcludeMarked, NotSet
  <2> QED BY <2>1, <2>2 DEF PassesStatus
<1>4. ~IsExcluded(f, p) <=>
        /\ Around(p) \cap f.nsExclude = {} /\ p.names \cap f.regexExclude = {}
        /\ ~\E t \in p.topics \ {""} : t \in f.topicsExclude
  BY <1>2, NamespaceIsAround DEF IsExcluded, MatchProjectRegex, Topics
<1>5. IsIncluded(f, p) <=>
        /\ f.nsInclude \ {<< >>} # {} => Around(p) \cap f.nsInclude # {}
        /\ f.regexInclude # {} => p.names \cap f.regexInclude # {}
        /\ f.topicsInclude \ {""} # {} => \E t \in p.topics \ {""} : t \in f.topicsInclude
  <2>1. Around(p) \cap f.nsInclude # {} <=> \E ns \in Namespaces(f.nsInclude) : MatchNamespace(p.ns, ns)
    BY <1>2, NamespaceIsAround
  <2> QED BY <2>1 DEF IsIncluded, Namespaces, MatchProjectRegex, Topics
<1> QED BY <1>1, <1>3, <1>4, <1>5 DEF Matches, InScope

-----------------------------------------------------------------------------
(* Nothing is scanned yet. *)
LEMMA ScannedInit ==
  ASSUME ScanInit
  PROVE  Scanned
<1>1. Found = {}
  BY DEF ScanInit, Found
<1>2. ScanTypes
  BY <1>1, ScanAssumption DEF ScanInit, ScanTypes, ScanAssumption, Found
<1> QED BY <1>1, <1>2 DEF ScanInit, Scanned, Accounted, Stages

(* While the groups are traversed no scanner runs; afterwards the tree     *)
(* stays as it is.                                                         *)
LEMMA TreeMovesAlone ==
  ASSUME TreeInv, Scanned, Traverse \/ FailTraverse
  PROVE  Scanned'
<1>1. pc # "ok" /\ UNCHANGED fleetVars
  BY DEF Traverse, FailTraverse, TreeStep, ResolveRoots, VisitGroup, Traversed, TraverseFails
<1> QED BY <1>1 DEF Scanned, ScanTypes, Accounted, Stages, fleetVars, scanVars, Found

(* The launch loop begins on the groups that were matched. *)
LEMMA ScanMatchedStep ==
  ASSUME TreeInv, Scanned, ScanMatched
  PROVE  Scanned'
<1>1. /\ pc = "ok" /\ main = "traversing" /\ main' = "launching" /\ UNCHANGED treeVars
      /\ scan' = [g \in MatchedGroups |-> "new"] /\ todo' = [g \in MatchedGroups |-> listing[g]]
      /\ UNCHANGED <<filter, listing, projects, errs, fleet>>
  BY DEF ScanMatched, TraverseReturned, BeginScan
<1>2. MatchedGroups' = MatchedGroups /\ pc' = "ok"
  BY <1>1 DEF MatchedGroups, treeVars
<1>3. Found' = MatchedGroups /\ Found' \subseteq Groups
  BY <1>1 DEF Found, MatchedGroups, TreeInv, TreeTypes, Placements
<1>4. projects = {} /\ fleet = NoFleet
  BY <1>1 DEF Scanned, Accounted, Stages
<1>5. ScanTypes'
  BY <1>1, <1>3 DEF Scanned, ScanTypes
<1>6. Accounted'
  BY <1>1, <1>3, <1>4 DEF Scanned, ScanTypes, Accounted
<1>7. Stages'
  BY <1>1, <1>2, <1>3, <1>4 DEF Scanned, Stages
<1> QED BY <1>5, <1>6, <1>7 DEF Scanned

(* Execute launches its scanners, waits for them, and returns. *)
LEMMA MainStep ==
  ASSUME TreeInv, Scanned, UNCHANGED treeVars, NoScan \/ Main \/ Cancel
  PROVE  Scanned'
<1>1. MatchedGroups' = MatchedGroups /\ pc' = pc
  BY DEF MatchedGroups, treeVars
<1>2. CASE NoScan \/ LaunchCancelled
  BY <1>1, <1>2 DEF NoScan, LaunchCancelled, scanVars, Scanned, ScanTypes, Accounted, Stages, Found
<1>3. CASE LaunchedAll
  BY <1>1, <1>3 DEF LaunchedAll, scanVars, Scanned, ScanTypes, Accounted, Stages, Found
<1>4. CASE Cancel
  BY <1>1, <1>4 DEF Cancel, scanVars, Scanned, ScanTypes, Accounted, Stages, Found
<1>5. ASSUME NEW g \in Found, Launch(g) PROVE Scanned'
  <2>1. /\ main = "launching" /\ scan' = [scan EXCEPT ![g] = "streaming"]
        /\ UNCHANGED <<filter, listing, main, todo, projects, errs, fleet>>
    BY <1>5 DEF Launch
  <2>2. /\ Found' = Found /\ scan'[g] = "streaming"
        /\ \A h \in Found : h # g => scan'[h] = scan[h]
    BY <2>1 DEF Found, Scanned, ScanTypes
  <2>3. ScanTypes'
    BY <2>1, <2>2 DEF Scanned, ScanTypes
  <2>4. Accounted'
    BY <2>1, <2>2 DEF Scanned, Accounted
  <2>5. Stages'
    BY <1>1, <2>1, <2>2 DEF Scanned, Stages
  <2> QED BY <2>3, <2>4, <2>5 DEF Scanned
<1>6. CASE ReturnFleet
  <2>1. /\ main = "waiting" /\ Active = {} /\ UNCHANGED <<filter, listing>> /\ UNCHANGED scanVars
        /\ \/ errs > 0 /\ main' = "error" /\ fleet' = fleet
           \/ ~(errs > 0) /\ main' = "ok" /\ fleet' = [projects |-> projects, scanned |-> scanned]
    BY <1>6 DEF ReturnFleet, ScannersDone
  <2>2. ~(errs > 0) => \A g \in Found : scan[g] = "done"
    BY <2>1 DEF Active, Scanned, ScanTypes, Stages
  <2>3. ScanTypes' /\ Accounted'
    BY <2>1 DEF Scanned, ScanTypes, Accounted, scanVars, Found
  <2>4. Found' = Found /\ scan' = scan /\ errs' = errs /\ projects' = projects
    BY <2>1 DEF scanVars, Found
  <2>5. main' = "ok" => fleet'.projects = projects
    BY <2>1
  <2>6. Stages'
    BY <1>1, <2>1, <2>2, <2>4, <2>5 DEF Scanned, Stages
  <2> QED BY <2>3, <2>6 DEF Scanned
<1> QED BY <1>2, <1>3, <1>4, <1>5, <1>6 DEF Main

(* A scanner takes a project from its stream, or its stream ends. *)
LEMMA ScannerStep ==
  ASSUME TreeInv, Scanned, UNCHANGED treeVars, NEW g \in Found, Scanner(g)
  PROVE  Scanned'
<1>1. MatchedGroups' = MatchedGroups /\ pc' = pc
  BY DEF MatchedGroups, treeVars
<1>2. scan[g] = "streaming" /\ UNCHANGED <<filter, listing, main, fleet>>
  BY DEF Scanner, EndScan, FailScan, AddProject
<1>3. main # "ok" /\ fleet = NoFleet
  BY <1>2 DEF Scanned, Stages
<1>4. CASE EndScan(g)
  <2>1. /\ todo[g] = {} /\ scan' = [scan EXCEPT ![g] = "done"]
        /\ UNCHANGED <<todo, projects, errs>>
    BY <1>4 DEF EndScan
  <2>2. /\ Found' = Found /\ scan'[g] = "done"
        /\ \A h \in Found : h # g => scan'[h] = scan[h]
    BY <2>1 DEF Found, Scanned, ScanTypes
  <2>3. ScanTypes'
    BY <1>2, <2>1, <2>2 DEF Scanned, ScanTypes
  <2>4. Accounted'
    BY <1>2, <2>1, <2>2 DEF Scanned, Accounted
  <2>5. Stages'
    BY <1>1, <1>2, <1>3, <2>1, <2>2 DEF Scanned, Stages
  <2> QED BY <2>3, <2>4, <2>5 DEF Scanned
<1>5. CASE FailScan(g)
  <2>1. /\ scan' = [scan EXCEPT ![g] = "failed"] /\ UNCHANGED <<todo, projects>>
        /\ errs' = IF errs < ErrCap THEN errs + 1 ELSE errs
    BY <1>5 DEF FailScan
  <2>2. /\ Found' = Found /\ scan'[g] = "failed"
        /\ \A h \in Found : h # g => scan'[h] = scan[h]
    BY <2>1 DEF Found, Scanned, ScanTypes
  <2>3. ErrCap \in Nat /\ ErrCap > 0
    <3>1. IsFiniteSet(Found)
      BY TreeAssumption, FS_Subset DEF TreeAssumption, Scanned, ScanTypes
    <3> QED BY <3>1, FS_EmptySet, FS_CardinalityType DEF ErrCap
  <2>4. errs' \in Nat /\ errs' > 0
    BY <2>1, <2>3 DEF Scanned, ScanTypes
  <2>5. ScanTypes'
    BY <1>2, <2>1, <2>2, <2>4 DEF Scanned, ScanTypes
  <2>6. Accounted'
    BY <1>2, <2>1, <2>2 DEF Scanned, Accounted
  <2>7. Stages'
    BY <1>1, <1>2, <1>3, <2>2, <2>4 DEF Scanned, Stages
  <2> QED BY <2>5, <2>6, <2>7 DEF Scanned
<1>6. ASSUME NEW p \in Projects, AddProject(g, p) PROVE Scanned'
  <2>1. /\ p \in todo[g] /\ todo' = [todo EXCEPT ![g] = @ \ {p}] /\ UNCHANGED <<scan, errs>>
        /\ projects' = IF Accepts(p) THEN projects \cup {p} ELSE projects
    BY <1>6 DEF AddProject
  <2>2. /\ Found' = Found /\ todo'[g] = todo[g] \ {p}
        /\ \A h \in Found : h # g => todo'[h] = todo[h]
    BY <2>1 DEF Found, Scanned, ScanTypes
  <2>3. /\ projects \subseteq projects' /\ projects' \subseteq projects \cup {p}
        /\ Matches(filter, Info[p]) => p \in projects'
        /\ p \in projects' => p \in projects \/ Matches(filter, Info[p])
    BY <2>1 DEF Accepts
  <2>4. ScanTypes'
    BY <1>2, <2>1, <2>2 DEF Scanned, ScanTypes
  <2>5. Accounted'
    <3>1. \A h \in Found : todo'[h] \subseteq listing[h] /\ (scan[h] = "done" => todo'[h] = {})
      BY <1>2, <2>2 DEF Scanned, Accounted
    <3>2. \A h \in Found : \A r \in listing[h] \ todo'[h] :
            Matches(filter, Info[r]) => r \in projects'
      BY <2>2, <2>3 DEF Scanned, Accounted
    <3>3. \A r \in projects' : Matches(filter, Info[r]) /\ \E h \in Found : r \in listing[h]
      BY <2>1, <2>3 DEF Scanned, Accounted
    <3> QED BY <1>2, <2>1, <2>2, <3>1, <3>2, <3>3 DEF Accounted
  <2>6. Stages'
    BY <1>1, <1>2, <1>3, <2>1, <2>2 DEF Scanned, Stages
  <2> QED BY <2>4, <2>5, <2>6 DEF Scanned
<1> QED BY <1>4, <1>5, <1>6 DEF Scanner

(* Every step of a discovery keeps the invariant of the scan. *)
LEMMA ScannedNext ==
  ASSUME TreeInv, Scanned, [Next]_vars
  PROVE  Scanned'
<1>1. CASE Traverse \/ FailTraverse
  BY <1>1, TreeMovesAlone
<1>2. CASE Execute
  BY <1>2, ScanMatchedStep, MainStep DEF Execute, GiveUp
<1>3. CASE CancelDiscovery
  BY <1>3, MainStep DEF CancelDiscovery
<1>4. ASSUME NEW g \in Found, ScanGroup(g) PROVE Scanned'
  BY <1>4, ScannerStep DEF ScanGroup
<1>5. CASE UNCHANGED vars
  <2>1. UNCHANGED fleetVars /\ pc' = pc /\ matched' = matched
    BY <1>5 DEF vars, treeVars
  <2> QED BY <2>1 DEF Scanned, ScanTypes, Accounted, Stages, fleetVars, scanVars, Found, MatchedGroups
<1> QED BY <1>1, <1>2, <1>3, <1>4, <1>5 DEF Next

(* A fleet that is returned is the whole fleet. *)
LEMMA ScannedGivesFleet ==
  ASSUME TreeInv, Scanned
  PROVE  FleetIsReach
<1> SUFFICES ASSUME fleet # NoFleet
             PROVE  /\ Found = Within[DepthLimit] \ excluded
                    /\ fleet.projects
                         = {p \in UNION {listing[g] : g \in Found} : InScope(filter, Info[p])}
  BY DEF FleetIsReach
<1>1. /\ pc = "ok" /\ Found = MatchedGroups /\ fleet.projects = projects
      /\ \A g \in Found : todo[g] = {} /\ listing[g] \subseteq Projects
  BY DEF Scanned, Stages, Accounted, ScanTypes
<1>2. Found = Within[DepthLimit] \ excluded
  BY <1>1, MatchedIsSeen
<1>3. \A p \in projects : Matches(filter, Info[p]) /\ \E g \in Found : p \in listing[g]
  BY DEF Scanned, Accounted
<1>4. \A g \in Found : \A p \in listing[g] : Matches(filter, Info[p]) => p \in projects
  BY <1>1 DEF Scanned, Accounted
<1>5. \A p \in Projects : Matches(filter, Info[p]) <=> InScope(filter, Info[p])
  BY MatchesIsInScope DEF Scanned, ScanTypes
<1>6. projects = {p \in UNION {listing[g] : g \in Found} : InScope(filter, Info[p])}
  BY <1>1, <1>3, <1>4, <1>5
<1> QED BY <1>1, <1>2, <1>6

(* A fleet that Execute returns holds the groups within reach and every    *)
(* project of theirs that the selector is about: however the scanners      *)
(* interleave, no failure of a listing or a stream and no cancellation     *)
(* makes a smaller fleet pass for the whole one.                           *)
THEOREM FleetIsComplete == Spec => []FleetIsReach
<1>1. Init => TreeInv /\ Scanned
  BY TreeInvInit, ScannedInit DEF Init
<1>2. TreeInv /\ Scanned /\ [Next]_vars => TreeInv' /\ Scanned'
  BY TreeInvNext, ScannedNext
<1>3. TreeInv /\ Scanned => FleetIsReach
  BY ScannedGivesFleet
<1> QED BY <1>1, <1>2, <1>3, PTL DEF Spec

=============================================================================
