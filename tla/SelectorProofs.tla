--------------------------- MODULE SelectorProofs ---------------------------
(***************************************************************************)
(* What the selector promises to its callers, for any accounts, requests,  *)
(* usage observations and administrators.                                  *)
(***************************************************************************)
EXTENDS Selector, FiniteSetTheorems, TLAPS

-----------------------------------------------------------------------------
(* The inductive invariant *)

\* Two readings of one account agree on which of them is the older.
Ordered(x, y) ==
    /\ x.revision <= y.revision => x.lifecycle <= y.lifecycle
    /\ y.revision <= x.revision => y.lifecycle <= x.lifecycle

(***************************************************************************)
(* A reading of an account that may be out of date: not newer than the     *)
(* store, and the account itself as long as its revision is current.       *)
(***************************************************************************)
Snapshot(rt) ==
    /\ rt \in Runtime
    /\ rt.revision <= nextRevision /\ rt.lifecycle <= nextLifecycle
    /\ accounts[rt.id] # NoAccount =>
         /\ rt.revision <= revisions[rt.id] /\ rt.lifecycle <= lifecycles[rt.id]
         /\ rt.revision = revisions[rt.id] => rt = RuntimeOf(rt.id)

Counted ==
    \A id \in Ids : revisions[id] <= nextRevision /\ lifecycles[id] <= nextLifecycle

\* What a request has listed.
ListsSound ==
    \A r \in Requests, id \in Ids :
        requests[r].list[id] # NoRuntime =>
            requests[r].list[id].id = id /\ Snapshot(requests[r].list[id])

ListsOrdered ==
    \A r, q \in Requests, id \in Ids :
        requests[r].list[id] # NoRuntime /\ requests[q].list[id] # NoRuntime
          => Ordered(requests[r].list[id], requests[q].list[id])

\* A state is of a revision that was, and not ahead of the account.
StatesSound ==
    \A id \in Ids :
        routing[id] # NoState =>
            /\ routing[id].revision <= nextRevision
            /\ routing[id].lifecycle <= nextLifecycle
            /\ routing[id].generation <= nextGeneration
            /\ accounts[id] # NoAccount => /\ routing[id].revision <= revisions[id]
                                           /\ routing[id].lifecycle <= lifecycles[id]
                                           /\ routing[id].revision = revisions[id]
                                                => routing[id].lifecycle = lifecycles[id]

StatesOrdered ==
    \A r \in Requests, id \in Ids :
        requests[r].list[id] # NoRuntime /\ routing[id] # NoState
          => Ordered(requests[r].list[id], routing[id])

Leasing(q) == q.phase \in {"leased", "sending", "streaming"}

\* A dispatch that has a lease does not pick its account again, nor any it
\* has sent on.
LeasesSound ==
    \A r \in Requests :
        LET q == requests[r] IN
        /\ q.served \subseteq q.tried
        /\ Leasing(q) =>
             /\ q.lease # NoLease
             /\ q.lease.id \in q.tried
             /\ q.lease.revision <= nextRevision
             /\ q.lease.generation <= nextGeneration

\* The account has moved on since: the revision, the state or its generation.
Overtaken(l) ==
    \/ accounts[l.id] = NoAccount
    \/ revisions[l.id] # l.revision
    \/ routing[l.id] = NoState
    \/ routing[l.id].generation # l.generation

OutdatedOvertaken ==
    \A r \in Requests :
        requests[r].phase \in {"leased", "sending"} /\ requests[r].lease.outdated
          => Overtaken(requests[r].lease)

\* No state is of the generation a late observation was made for.
LateOvertaken ==
    \A f \in fetches :
        /\ f.generation <= nextGeneration
        /\ f.late => routing[f.id] = NoState \/ routing[f.id].generation # f.generation

IInv ==
    /\ TypeOK
    /\ Counted
    /\ ListsSound /\ ListsOrdered
    /\ StatesSound /\ StatesOrdered
    /\ LeasesSound
    /\ OutdatedOvertaken
    /\ LateOvertaken
    /\ StrictNeedsProof

-----------------------------------------------------------------------------
(* Readings *)

\* What is in somebody's hands of an account, and the account itself.
Readings(id) ==
    {rt \in Runtime : \/ \E r \in Requests : requests[r].list[id] = rt
                      \/ accounts[id] # NoAccount /\ rt = RuntimeOf(id)}

LEMMA ListIsReading ==
    ASSUME IInv, NEW r \in Requests, NEW id \in Ids, requests[r].list[id] # NoRuntime
    PROVE  requests[r].list[id] \in Readings(id)
BY DEF IInv, ListsSound, Snapshot, Readings

LEMMA CurrentIsReading ==
    ASSUME IInv, NEW id \in Ids, accounts[id] # NoAccount
    PROVE  RuntimeOf(id) \in Readings(id)
BY DEF IInv, TypeOK, StoreTypeOK, Runtime, RuntimeOf, Readings

LEMMA CurrentFields ==
    ASSUME NEW id
    PROVE  /\ RuntimeOf(id).id = id /\ RuntimeOf(id).account = accounts[id]
           /\ RuntimeOf(id).revision = revisions[id]
           /\ RuntimeOf(id).lifecycle = lifecycles[id]
BY DEF RuntimeOf

LEMMA StampsNat ==
    ASSUME TypeOK, NEW id \in Ids
    PROVE  /\ revisions[id] \in Nat /\ lifecycles[id] \in Nat
           /\ nextRevision \in Nat /\ nextLifecycle \in Nat /\ nextGeneration \in Nat
           /\ routing[id] # NoState =>
                /\ routing[id] \in State
                /\ routing[id].revision \in Nat /\ routing[id].lifecycle \in Nat
                /\ routing[id].generation \in Nat
BY DEF TypeOK, StoreTypeOK, State

LEMMA ReadingIs ==
    ASSUME IInv, NEW id \in Ids, NEW rt \in Readings(id)
    PROVE  /\ rt.id = id /\ Snapshot(rt)
           /\ rt.revision \in Nat /\ rt.lifecycle \in Nat /\ rt.account \in Account
<1>1. rt \in Runtime
  BY DEF Readings
<1>2. CASE \E r \in Requests : requests[r].list[id] = rt
  <2>1. rt # NoRuntime
    BY <1>1, NullsAreNotStates
  <2> QED
    BY <1>1, <1>2, <2>1 DEF IInv, ListsSound, Runtime
<1>3. CASE accounts[id] # NoAccount /\ rt = RuntimeOf(id)
  BY <1>1, <1>3, CurrentFields, StampsNat DEF Snapshot, IInv, Counted, Runtime
<1> QED
  BY <1>2, <1>3 DEF Readings

LEMMA ReadingsOrdered ==
    ASSUME IInv, NEW id \in Ids, NEW x \in Readings(id), NEW y \in Readings(id)
    PROVE  Ordered(x, y)
<1>1. /\ x.id = id /\ Snapshot(x) /\ x.revision \in Nat /\ x.lifecycle \in Nat
      /\ y.id = id /\ Snapshot(y) /\ y.revision \in Nat /\ y.lifecycle \in Nat
      /\ x # NoRuntime /\ y # NoRuntime
  BY ReadingIs, NullsAreNotStates DEF Readings
<1>2. CASE /\ \E r \in Requests : requests[r].list[id] = x
           /\ \E r \in Requests : requests[r].list[id] = y
  BY <1>1, <1>2 DEF IInv, ListsOrdered
<1>3. CASE accounts[id] # NoAccount /\ x = RuntimeOf(id)
  BY <1>1, <1>3, CurrentFields DEF Snapshot, Ordered
<1>4. CASE accounts[id] # NoAccount /\ y = RuntimeOf(id)
  BY <1>1, <1>4, CurrentFields DEF Snapshot, Ordered
<1> QED
  BY <1>2, <1>3, <1>4 DEF Readings

LEMMA ReadingsAndState ==
    ASSUME IInv, NEW id \in Ids, NEW x \in Readings(id), routing[id] # NoState
    PROVE  Ordered(x, routing[id])
<1>1. x # NoRuntime
  BY NullsAreNotStates DEF Readings
<1>2. CASE \E r \in Requests : requests[r].list[id] = x
  BY <1>1, <1>2 DEF IInv, StatesOrdered
<1>3. CASE accounts[id] # NoAccount /\ x = RuntimeOf(id)
  BY <1>3, CurrentFields, StampsNat DEF IInv, StatesSound, Ordered
<1> QED
  BY <1>2, <1>3 DEF Readings

-----------------------------------------------------------------------------
(* What a step does to the state of an account *)

\* The same state, but for a cooldown that elapsed.
SameState(st, new) ==
    /\ st # NoState /\ new \in State
    /\ new.revision = st.revision /\ new.lifecycle = st.lifecycle
    /\ new.generation = st.generation
    /\ new.quota = st.quota /\ new.reactive = st.reactive

\* A state of a new generation, of the revision it had or of one that was read.
NewState(id, st, new) ==
    /\ new \in State
    /\ new.generation = nextGeneration + 1
    /\ st # NoState => st.revision <= new.revision
    /\ \/ /\ st # NoState
          /\ new.revision = st.revision /\ new.lifecycle = st.lifecycle
       \/ \E rt \in Readings(id) : new.revision = rt.revision /\ new.lifecycle = rt.lifecycle
    /\ /\ accounts[id] # NoAccount
       /\ new.revision = revisions[id]
       /\ new.quota = "base"
       /\ ~accounts[id].overage
       => basis'[id] = revisions[id]
    /\ /\ accounts[id] # NoAccount
       /\ st # NoState
       /\ st.lifecycle = lifecycles[id]
       /\ st.reactive
       /\ st.quota = "depleted" /\ new.quota # "depleted"
       => ~owes'[id]

Moves(id, st, new) ==
    \/ new = st
    \/ new = NoState
    \/ SameState(st, new)
    \/ NewState(id, st, new)

RoutingMoves ==
    /\ routing' \in [Ids -> State \union {NoState}]
    /\ nextGeneration' \in {nextGeneration, nextGeneration + 1}
    /\ \A id \in Ids :
         /\ Moves(id, routing[id], routing'[id])
         /\ routing'[id] # NoState => routing'[id].generation <= nextGeneration'

LEMMA TouchedIs ==
    ASSUME IInv, NEW id \in Ids, NEW rt \in Readings(id), ~IsStale(rt)
    PROVE  LET st == routing[id]
               new == Touched(rt) IN
           /\ new \in State
           /\ \/ st # NoState /\ new = st
              \/ /\ new.generation = nextGeneration + 1
                 /\ new.revision = rt.revision /\ new.lifecycle = rt.lifecycle
                 /\ ~rt.account.overage => new.quota # "base"
           /\ st # NoState => st.revision <= new.revision
           /\ st # NoState /\ st.quota = "depleted" /\ st.lifecycle = rt.lifecycle
                => new.quota = "depleted"
<1> DEFINE st == routing[id]
           new == Touched(rt)
<1>1. rt.id = id /\ rt.revision \in Nat /\ rt.lifecycle \in Nat
  BY ReadingIs
<1>2. nextGeneration + 1 \in Nat
  BY StampsNat DEF IInv
<1>3. CASE st # NoState /\ st.revision = rt.revision /\ st.lifecycle = rt.lifecycle
  <2>1. new = st
    BY <1>1, <1>3 DEF Touched
  <2>2. st \in State /\ st.revision \in Nat
    BY <1>3, StampsNat DEF IInv
  <2> HIDE DEF new, st
  <2>3. st.revision <= new.revision
    BY <2>1, <2>2
  <2> QED
    BY <1>3, <2>1, <2>2, <2>3 DEF new, st
<1>4. CASE st # NoState /\ st.revision # rt.revision /\ st.lifecycle = rt.lifecycle
  <2> DEFINE quota == IF ~rt.account.overage /\ st.quota \in {"base", "overage"}
                        THEN "unknown" ELSE st.quota
  <2>1. new = [st EXCEPT !.revision = rt.revision, !.generation = nextGeneration + 1,
                         !.quota = quota]
    BY <1>1, <1>4 DEF Touched
  <2>2. st \in State /\ st.revision \in Nat /\ st.revision <= rt.revision
    BY <1>1, <1>4, StampsNat DEF IInv, IsStale
  <2>3. /\ quota \in Quotas
        /\ ~rt.account.overage => quota # "base"
        /\ st.quota = "depleted" => quota = "depleted"
    BY <2>2 DEF State, Quotas
  <2> HIDE DEF quota, new
  <2>4. /\ new \in State /\ new.revision = rt.revision /\ new.lifecycle = st.lifecycle
        /\ new.generation = nextGeneration + 1 /\ new.quota = quota
    BY <1>1, <1>2, <2>1, <2>2, <2>3 DEF State
  <2> QED
    BY <1>4, <2>2, <2>3, <2>4 DEF new
<1>5. CASE st = NoState \/ st.lifecycle # rt.lifecycle
  <2>1. new = [revision |-> rt.revision, lifecycle |-> rt.lifecycle,
               generation |-> nextGeneration + 1,
               quota |-> "unknown", cooldown |-> "none", reactive |-> FALSE]
    BY <1>1, <1>5 DEF Touched
  <2>2. st # NoState => st.revision <= rt.revision
    BY <1>1, <1>5, StampsNat DEF IInv, IsStale
  <2> HIDE DEF new
  <2>3. /\ new \in State /\ new.revision = rt.revision /\ new.lifecycle = rt.lifecycle
        /\ new.generation = nextGeneration + 1 /\ new.quota = "unknown"
    BY <1>1, <1>2, <2>1 DEF State, Quotas
  <2> QED
    BY <1>5, <2>2, <2>3 DEF new
<1> QED
  BY <1>3, <1>4, <1>5

LEMMA SetMoves ==
    ASSUME IInv, NEW new \in [Ids -> State \union {NoState}], SetRouting(new),
           \A id \in Ids : Moves(id, routing[id], new[id])
    PROVE  RoutingMoves
<1>1. routing' = new /\ nextGeneration \in Nat
  BY DEF SetRouting, IInv, TypeOK
<1>2. /\ nextGeneration' \in {nextGeneration, nextGeneration + 1}
      /\ \A id \in Ids : new[id] # NoState /\ new[id].generation = nextGeneration + 1
                            => nextGeneration' = nextGeneration + 1
  BY DEF SetRouting
<1>3. ASSUME NEW id \in Ids, new[id] # NoState
      PROVE  new[id].generation <= nextGeneration'
  <2>1. routing[id] # NoState => routing[id].generation \in Nat /\ routing[id].generation <= nextGeneration
    BY StampsNat DEF IInv, StatesSound
  <2>2. CASE NewState(id, routing[id], new[id])
    BY <1>1, <1>2, <1>3, <2>2 DEF NewState
  <2>3. CASE new[id] = routing[id] \/ SameState(routing[id], new[id])
    BY <1>1, <1>2, <1>3, <2>1, <2>3 DEF SameState
  <2> QED
    BY <1>3, <2>2, <2>3 DEF Moves
<1> QED
  BY <1>1, <1>2, <1>3 DEF RoutingMoves

LEMMA TouchMoves ==
    ASSUME IInv, NEW id \in Ids, NEW rt \in Readings(id), ~IsStale(rt), basis' = basis
    PROVE  Touched(rt) \in State /\ Moves(id, routing[id], Touched(rt))
<1> DEFINE st == routing[id]
           new == Touched(rt)
<1>1. /\ new \in State
      /\ \/ st # NoState /\ new = st
         \/ /\ new.generation = nextGeneration + 1
            /\ new.revision = rt.revision /\ new.lifecycle = rt.lifecycle
            /\ ~rt.account.overage => new.quota # "base"
      /\ st # NoState => st.revision <= new.revision
      /\ st # NoState /\ st.quota = "depleted" /\ st.lifecycle = rt.lifecycle
           => new.quota = "depleted"
  BY TouchedIs
<1>2. /\ rt.id = id /\ Snapshot(rt) /\ rt.revision \in Nat /\ rt.lifecycle \in Nat
  BY ReadingIs
<1> HIDE DEF new
<1>3. CASE new = st
  BY <1>1, <1>3 DEF Moves, new
<1>4. CASE new # st
  <2>1. /\ new.generation = nextGeneration + 1
        /\ new.revision = rt.revision /\ new.lifecycle = rt.lifecycle
        /\ ~rt.account.overage => new.quota # "base"
    BY <1>1, <1>4
  <2>2. accounts[id] # NoAccount /\ new.revision = revisions[id] => rt.account = accounts[id]
    BY <1>2, <2>1, CurrentFields DEF Snapshot
  <2>3. accounts[id] # NoAccount /\ st # NoState /\ st.lifecycle = lifecycles[id]
          => st.lifecycle = rt.lifecycle
    <3> SUFFICES ASSUME accounts[id] # NoAccount, st # NoState, st.lifecycle = lifecycles[id]
                 PROVE  st.lifecycle = rt.lifecycle
      OBVIOUS
    <3>1. Ordered(rt, st) /\ st.revision <= rt.revision
      BY <1>1, <2>1, ReadingsAndState
    <3>2. rt.lifecycle <= lifecycles[id]
      BY <1>2 DEF Snapshot
    <3> QED
      BY <1>2, <3>1, <3>2, StampsNat DEF Ordered, IInv
  <2>4. NewState(id, st, new)
    BY <1>1, <2>1, <2>2, <2>3 DEF NewState
  <2> QED
    BY <1>1, <2>4 DEF Moves, new
<1> QED
  BY <1>1, <1>3, <1>4 DEF new

\* An operation that reads list and touches the accounts in T.
LEMMA TouchAllMoves ==
    ASSUME IInv, basis' = basis, NEW list, NEW T \in SUBSET Ids,
           \A id \in T : list[id] \in Readings(id) /\ ~IsStale(list[id]),
           SetRouting(TouchAll(list, T))
    PROVE  RoutingMoves
<1> DEFINE new == TouchAll(list, T)
<1>1. ASSUME NEW id \in Ids
      PROVE  new[id] \in State \union {NoState} /\ Moves(id, routing[id], new[id])
  <2>1. CASE id \in T
    <3>1. new[id] = Touched(list[id])
      BY <2>1 DEF TouchAll
    <3> HIDE DEF new
    <3> QED
      BY <2>1, <3>1, TouchMoves
  <2>2. CASE id \notin T
    <3>1. new[id] = NoState \/ new[id] = routing[id]
      BY <2>2 DEF TouchAll, Pruned
    <3> HIDE DEF new
    <3> QED
      BY <3>1 DEF Moves, IInv, TypeOK
  <2> QED
    BY <2>1, <2>2
<1>2. new \in [Ids -> State \union {NoState}]
  <2>1. new = [id \in Ids |-> new[id]]
    BY DEF TouchAll
  <2> HIDE DEF new
  <2> QED
    BY <1>1, <2>1
<1> HIDE DEF new
<1>3. SetRouting(new)
  BY DEF new
<1> QED
  BY <1>1, <1>2, <1>3, SetMoves

LEMMA PruneMoves ==
    ASSUME IInv, NEW list, SetRouting(Pruned(list))
    PROVE  RoutingMoves
<1>1. Pruned(list) \in [Ids -> State \union {NoState}]
  BY DEF Pruned, IInv, TypeOK
<1>2. \A id \in Ids : Moves(id, routing[id], Pruned(list)[id])
  BY DEF Pruned, Moves
<1> QED
  BY <1>1, <1>2, SetMoves

LEMMA KeepMoves ==
    ASSUME IInv, UNCHANGED <<routing, nextGeneration>>
    PROVE  RoutingMoves
BY DEF IInv, TypeOK, StatesSound, RoutingMoves, Moves

\* A report or an observation changes one state.
LEMMA MutateMoves ==
    ASSUME IInv, NEW id \in Ids, routing[id] # NoState, NEW st \in State, Mutate(id, st),
           st.revision = routing[id].revision, st.lifecycle = routing[id].lifecycle,
           st.quota = "base" => \/ routing[id].quota = "base" /\ basis' = basis
                                \/ basis'[id] = revisions[id],
           routing[id].quota = "depleted" /\ routing[id].reactive /\ st.quota # "depleted"
             => ~owes'[id]
    PROVE  /\ RoutingMoves
           /\ routing'[id] # NoState /\ routing'[id].generation = nextGeneration + 1
<1> DEFINE new == [st EXCEPT !.generation = nextGeneration + 1]
           all == [routing EXCEPT ![id] = new]
<1>1. routing[id] \in State /\ nextGeneration + 1 \in Nat /\ routing[id].revision \in Nat
  BY StampsNat DEF IInv
<1>2. /\ new \in State /\ new.generation = nextGeneration + 1
      /\ new.revision = routing[id].revision /\ new.lifecycle = routing[id].lifecycle
      /\ new.quota = st.quota
  BY <1>1 DEF State
<1> HIDE DEF new
<1>3. /\ accounts[id] # NoAccount /\ new.revision = revisions[id] /\ new.quota = "base"
      /\ ~accounts[id].overage
      => basis'[id] = revisions[id]
  BY <1>2 DEF IInv, StrictNeedsProof, Present
<1>4. NewState(id, routing[id], new)
  BY <1>1, <1>2, <1>3 DEF NewState
<1>5. /\ all \in [Ids -> State \union {NoState}]
      /\ all[id] = new /\ \A j \in Ids \ {id} : all[j] = routing[j]
  BY <1>2 DEF IInv, TypeOK
<1>6. SetRouting(all)
  BY DEF Mutate, new
<1> HIDE DEF all
<1>7. RoutingMoves
  BY <1>4, <1>5, <1>6, SetMoves DEF Moves
<1>8. routing' = all /\ new # NoState
  BY <1>2, <1>6, NullsAreNotStates DEF SetRouting
<1> QED
  BY <1>2, <1>5, <1>7, <1>8

-----------------------------------------------------------------------------
(* What a step does to a request *)

OvertakenNext(l) ==
    \/ accounts'[l.id] = NoAccount
    \/ revisions'[l.id] # l.revision
    \/ routing'[l.id] = NoState
    \/ routing'[l.id].generation # l.generation

\* A request may turn into q: what q lists was listed, or is the account now.
Sound(q) ==
    /\ q \in Request
    /\ \A id \in Ids : q.list[id] # NoRuntime => q.list[id] \in Readings(id)
    /\ q.served \subseteq q.tried
    /\ Leasing(q) =>
         /\ q.lease # NoLease
         /\ q.lease.id \in q.tried
         /\ q.lease.revision <= nextRevision
         /\ q.lease.generation <= nextGeneration'
    /\ q.phase \in {"leased", "sending"} /\ q.lease.outdated => OvertakenNext(q.lease)

RequestsMove ==
    /\ requests' = [r \in Requests |-> requests'[r]]
    /\ \A r \in Requests : Sound(requests'[r])

FetchesMove ==
    /\ fetches' \subseteq Fetch
    /\ \A f \in fetches' :
         /\ f.generation <= nextGeneration'
         /\ f.late => routing'[f.id] = NoState \/ routing'[f.id].generation # f.generation

\* A step of the selector itself: the store stands still.
SelectorMoves ==
    /\ UNCHANGED storeVars
    /\ RoutingMoves
    /\ RequestsMove
    /\ FetchesMove
    /\ forgetting' \subseteq Ids
    /\ owes' \in [Ids -> BOOLEAN]
    /\ basis' \in [Ids -> Nat]
    /\ \A id \in Ids : basis'[id] \in {basis[id], revisions[id]}

LEMMA StoreStands ==
    ASSUME UNCHANGED storeVars
    PROVE  /\ accounts' = accounts /\ revisions' = revisions /\ lifecycles' = lifecycles
           /\ credentials' = credentials
           /\ nextRevision' = nextRevision /\ nextLifecycle' = nextLifecycle
           /\ StoreTypeOK <=> StoreTypeOK'
           /\ \A rt : Snapshot(rt) <=> Snapshot(rt)'
BY DEF storeVars, stamps, StoreTypeOK, Snapshot, RuntimeOf

LEMMA SelectorKeeps ==
    ASSUME IInv, SelectorMoves
    PROVE  IInv'
<1> USE DEF SelectorMoves
<1>1. TypeOK'
  BY StoreStands DEF IInv, TypeOK, RoutingMoves, RequestsMove, Sound, FetchesMove
<1>2. Counted'
  BY StoreStands DEF IInv, Counted
<1>3. ListsSound'
  BY StoreStands, ReadingIs DEF ListsSound, RequestsMove, Sound
<1>4. ListsOrdered'
  BY ReadingsOrdered DEF ListsOrdered, RequestsMove, Sound
<1>5. StatesSound'
  <2> SUFFICES ASSUME NEW id \in Ids, routing'[id] # NoState
               PROVE  /\ routing'[id].revision <= nextRevision
                      /\ routing'[id].lifecycle <= nextLifecycle
                      /\ accounts[id] # NoAccount =>
                           /\ routing'[id].revision <= revisions[id]
                           /\ routing'[id].lifecycle <= lifecycles[id]
                           /\ routing'[id].revision = revisions[id]
                                => routing'[id].lifecycle = lifecycles[id]
    BY StoreStands DEF StatesSound, RoutingMoves
  <2>1. CASE /\ routing[id] # NoState
             /\ routing'[id].revision = routing[id].revision
             /\ routing'[id].lifecycle = routing[id].lifecycle
    BY <2>1 DEF IInv, StatesSound
  <2>2. CASE \E rt \in Readings(id) :
               routing'[id].revision = rt.revision /\ routing'[id].lifecycle = rt.lifecycle
    BY <2>2, ReadingIs, CurrentFields DEF Snapshot
  <2> QED
    BY <2>1, <2>2 DEF RoutingMoves, Moves, SameState, NewState
<1>6. StatesOrdered'
  <2> SUFFICES ASSUME NEW id \in Ids, routing'[id] # NoState, NEW x \in Readings(id)
               PROVE  Ordered(x, routing'[id])
    BY DEF StatesOrdered, RequestsMove, Sound
  <2>1. CASE /\ routing[id] # NoState
             /\ routing'[id].revision = routing[id].revision
             /\ routing'[id].lifecycle = routing[id].lifecycle
    BY <2>1, ReadingsAndState DEF Ordered
  <2>2. CASE \E rt \in Readings(id) :
               routing'[id].revision = rt.revision /\ routing'[id].lifecycle = rt.lifecycle
    BY <2>2, ReadingsOrdered DEF Ordered
  <2> QED
    BY <2>1, <2>2 DEF RoutingMoves, Moves, SameState, NewState
<1>7. LeasesSound'
  BY StoreStands DEF LeasesSound, RequestsMove, Sound
<1>8. OutdatedOvertaken'
  BY DEF OutdatedOvertaken, Overtaken, OvertakenNext, RequestsMove, Sound
<1>9. LateOvertaken'
  BY DEF LateOvertaken, FetchesMove
<1>10. StrictNeedsProof'
  <2> SUFFICES ASSUME NEW id \in Ids, accounts[id] # NoAccount, routing'[id] # NoState,
                      routing'[id].revision = revisions[id],
                      routing'[id].quota = "base", ~accounts[id].overage
               PROVE  basis'[id] = revisions[id]
    BY StoreStands DEF StrictNeedsProof, Present
  <2>1. CASE /\ routing[id] # NoState
             /\ routing'[id].revision = routing[id].revision
             /\ routing'[id].quota = routing[id].quota
    BY <2>1 DEF IInv, StrictNeedsProof, Present
  <2>2. CASE NewState(id, routing[id], routing'[id])
    BY <2>2 DEF NewState
  <2> QED
    BY <2>1, <2>2 DEF RoutingMoves, Moves, SameState
<1> QED
  BY <1>1, <1>2, <1>3, <1>4, <1>5, <1>6, <1>7, <1>8, <1>9, <1>10 DEF IInv

-----------------------------------------------------------------------------
(* Requests and observations a step leaves alone, or starts over *)

LEMMA OvertakenStays ==
    ASSUME IInv, UNCHANGED storeVars, RoutingMoves, NEW r \in Requests,
           Leasing(requests[r]), Overtaken(requests[r].lease)
    PROVE  OvertakenNext(requests[r].lease)
<1> DEFINE l == requests[r].lease
<1>1. /\ l.id \in Ids /\ l.generation \in Nat /\ l.generation <= nextGeneration
  BY DEF IInv, TypeOK, Request, LeasesSound, Lease
<1>2. nextGeneration \in Nat /\ Moves(l.id, routing[l.id], routing'[l.id])
  BY <1>1, StampsNat DEF IInv, RoutingMoves
<1>3. CASE NewState(l.id, routing[l.id], routing'[l.id])
  BY <1>1, <1>2, <1>3 DEF NewState, OvertakenNext
<1> QED
  BY <1>2, <1>3, StoreStands DEF Moves, SameState, Overtaken, OvertakenNext

LEMMA GenerationsGrow ==
    ASSUME IInv, RoutingMoves
    PROVE  nextGeneration \in Nat /\ nextGeneration' \in Nat /\ nextGeneration <= nextGeneration'
BY StampsNat DEF IInv, TypeOK, RoutingMoves

LEMMA SameRequest ==
    ASSUME IInv, UNCHANGED storeVars, RoutingMoves, NEW r \in Requests
    PROVE  Sound(requests[r])
<1>1. requests[r] \in Request
  BY DEF IInv, TypeOK
<1>2. Leasing(requests[r]) => /\ requests[r].lease \in Lease
                              /\ requests[r].lease.generation <= nextGeneration'
  BY <1>1, GenerationsGrow DEF IInv, LeasesSound, Request, Lease
<1> QED
  BY <1>1, <1>2, ListIsReading, OvertakenStays
     DEF Sound, IInv, LeasesSound, OutdatedOvertaken, Leasing

LEMMA AgainSound ==
    ASSUME IInv, NEW r \in Requests, NEW t \in SUBSET Ids, requests[r].served \subseteq t
    PROVE  Sound(Again(r, t))
<1>1. requests[r] \in Request
  BY DEF IInv, TypeOK
<1> DEFINE q == Again(r, t)
<1>2. /\ q.phase = "ready" /\ q.tried = t /\ q.list = NoList /\ q.served = requests[r].served
      /\ q \in Request
  <2>1. Idle \in Request /\ Idle.phase = "ready" /\ Idle.list = NoList
    BY DEF Idle, Request, Lists, NoList
  <2>2. q = [Idle EXCEPT !.tried = t, !.served = requests[r].served]
    BY DEF Again
  <2> HIDE DEF q
  <2> QED
    BY <1>1, <2>1, <2>2 DEF Request
<1> HIDE DEF q
<1>3. Sound(q)
  BY <1>2 DEF Sound, Leasing, NoList
<1> QED
  BY <1>3 DEF q

LEMMA IdleSound == Sound(Idle)
<1>1. Idle \in Request
  BY DEF Idle, Request, Lists, NoList
<1> QED
  BY <1>1 DEF Idle, Sound, Leasing, NoList

LEMMA OneRequest ==
    ASSUME IInv, UNCHANGED storeVars, RoutingMoves, NEW r \in Requests, NEW q, Sound(q),
           requests' = [requests EXCEPT ![r] = q]
    PROVE  RequestsMove
<1>1. requests \in [Requests -> Request]
  BY DEF IInv, TypeOK
<1>2. requests' = [s \in Requests |-> requests'[s]]
  BY <1>1
<1>3. requests'[r] = q /\ \A s \in Requests \ {r} : requests'[s] = requests[s]
  BY <1>1
<1> QED
  BY <1>2, <1>3, SameRequest DEF RequestsMove

LEMMA RequestsStay ==
    ASSUME IInv, UNCHANGED storeVars, RoutingMoves, UNCHANGED requests
    PROVE  RequestsMove
BY SameRequest DEF RequestsMove, IInv, TypeOK

LEMMA FetchesStay ==
    ASSUME IInv, RoutingMoves, NEW f \in fetches
    PROVE  /\ f \in Fetch
           /\ f.generation <= nextGeneration'
           /\ f.late => routing'[f.id] = NoState \/ routing'[f.id].generation # f.generation
<1>1. f \in Fetch /\ f.id \in Ids /\ f.generation \in Nat /\ f.generation <= nextGeneration
  BY DEF IInv, TypeOK, LateOvertaken, Fetch
<1>2. f.late => routing[f.id] = NoState \/ routing[f.id].generation # f.generation
  BY DEF IInv, LateOvertaken
<1>3. Moves(f.id, routing[f.id], routing'[f.id])
  BY <1>1 DEF RoutingMoves
<1>4. CASE NewState(f.id, routing[f.id], routing'[f.id])
  BY <1>1, <1>4, GenerationsGrow DEF NewState
<1> QED
  BY <1>1, <1>2, <1>3, <1>4, GenerationsGrow DEF Moves, SameState

LEMMA FetchesKept ==
    ASSUME IInv, RoutingMoves, fetches' \subseteq fetches
    PROVE  FetchesMove
BY FetchesStay DEF FetchesMove

\* The leases on an account whose state is of a new generation.
LEMMA OutdateMoves ==
    ASSUME IInv, UNCHANGED storeVars, RoutingMoves, NEW id \in Ids, NEW reqs,
           reqs = [r \in Requests |-> reqs[r]],
           \A r \in Requests : /\ Sound(reqs[r])
                               /\ \/ reqs[r] = requests[r]
                                  \/ reqs[r].phase \notin {"leased", "sending"},
           requests' = Outdate(reqs, id),
           routing'[id] # NoState /\ routing'[id].generation = nextGeneration + 1
    PROVE  RequestsMove
<1> SUFFICES ASSUME NEW r \in Requests
             PROVE  Sound(requests'[r])
  BY DEF RequestsMove, Outdate
<1>1. CASE ~(reqs[r].phase \in {"leased", "sending"} /\ reqs[r].lease.id = id)
  BY <1>1 DEF Outdate
<1>2. CASE reqs[r].phase \in {"leased", "sending"} /\ reqs[r].lease.id = id
  <2> DEFINE q == requests[r]
             l == [q.lease EXCEPT !.outdated = TRUE]
             new == [q EXCEPT !.lease = l]
  <2>1. q = reqs[r] /\ Sound(q) /\ q \in Request
    BY <1>2 DEF Sound
  <2>2. /\ q.lease \in Lease /\ q.lease.generation \in Nat
        /\ q.lease.generation <= nextGeneration /\ q.lease.id = id
    BY <1>2, <2>1 DEF IInv, LeasesSound, Leasing, Request, Lease
  <2>3. l \in Lease /\ l.id = id /\ l.revision = q.lease.revision /\ l.generation = q.lease.generation
    BY <2>2 DEF Lease
  <2>4. OvertakenNext(l)
    BY <2>2, <2>3, GenerationsGrow DEF OvertakenNext
  <2>5. requests'[r] = new
    BY <1>2, <2>1 DEF Outdate
  <2> HIDE DEF l
  <2>6. /\ new \in Request /\ new.lease = l /\ new.phase = q.phase /\ new.list = q.list
        /\ new.tried = q.tried /\ new.served = q.served
    BY <2>1, <2>3 DEF Request
  <2> HIDE DEF new
  <2>7. Leasing(q) /\ l # NoLease
    BY <1>2, <2>1, <2>3, NullsAreNotStates DEF Leasing
  <2>8. \A i \in Ids : new.list[i] # NoRuntime => new.list[i] \in Readings(i)
    BY <2>1, <2>6 DEF Sound
  <2>9. new.served \subseteq new.tried /\ new.lease.id \in new.tried
    BY <2>1, <2>2, <2>3, <2>6, <2>7 DEF Sound
  <2>10. new.lease # NoLease /\ new.lease.revision <= nextRevision
         /\ new.lease.generation <= nextGeneration'
    BY <2>1, <2>3, <2>6, <2>7 DEF Sound
  <2>11. OvertakenNext(new.lease)
    BY <2>4, <2>6
  <2>12. Sound(new)
    BY <2>6, <2>8, <2>9, <2>10, <2>11 DEF Sound
  <2> QED
    BY <2>5, <2>12
<1> QED
  BY <1>1, <1>2

-----------------------------------------------------------------------------
(* Dispatching a request *)

\* The rest of a step that is about a request or a state.
LEMMA RestStays ==
    ASSUME IInv, UNCHANGED storeVars, RoutingMoves, RequestsMove,
           UNCHANGED <<fetches, forgetting, basis, owes>>
    PROVE  SelectorMoves
BY FetchesKept DEF SelectorMoves, IInv, TypeOK

LEMMA ReadListMoves ==
    ASSUME IInv, NEW r \in Requests, ReadList(r)
    PROVE  SelectorMoves
<1> DEFINE q == requests[r]
           new == [q EXCEPT !.phase = "listed", !.list = CurrentList]
<1>1. /\ UNCHANGED storeVars /\ RoutingMoves
      /\ UNCHANGED <<fetches, forgetting, basis, owes>>
  BY KeepMoves DEF ReadList
<1>2. /\ CurrentList \in Lists
      /\ \A id \in Ids : CurrentList[id] # NoRuntime => CurrentList[id] \in Readings(id)
  BY CurrentIsReading DEF CurrentList, Lists, Readings
<1>3. q \in Request /\ Sound(q)
  BY <1>1, SameRequest DEF Sound
<1>4. /\ new \in Request /\ new.phase = "listed" /\ new.list = CurrentList
      /\ new.served = q.served /\ new.tried = q.tried
  BY <1>2, <1>3 DEF Request
<1>5. requests' = [requests EXCEPT ![r] = new]
  BY DEF ReadList
<1> HIDE DEF new
<1>6. Sound(new)
  BY <1>2, <1>3, <1>4 DEF Sound, Leasing
<1> QED
  BY <1>1, <1>5, <1>6, OneRequest, RestStays

LEMMA CandidateIsReading ==
    ASSUME IInv, NEW r \in Requests, NEW id \in Candidates(r)
    PROVE  /\ id \in Ids /\ id \notin requests[r].tried
           /\ requests[r].list[id] \in Readings(id)
           /\ ~IsStale(requests[r].list[id])
BY ListIsReading DEF Candidates

LEMMA PickedSound ==
    ASSUME IInv, NEW r \in Requests, NEW id \in Candidates(r),
           UNCHANGED storeVars, RoutingMoves,
           routing'[id] = Touched(requests[r].list[id])
    PROVE  Sound([Again(r, requests[r].tried \union {id}) EXCEPT
                    !.phase = "leased", !.lease = LeaseFor(r, id)])
<1> DEFINE rt == requests[r].list[id]
           q == Again(r, requests[r].tried \union {id})
           l == LeaseFor(r, id)
           new == [q EXCEPT !.phase = "leased", !.lease = l]
<1>1. /\ id \in Ids /\ rt \in Readings(id) /\ ~IsStale(rt)
      /\ rt.revision \in Nat /\ rt.revision <= nextRevision
  BY CandidateIsReading, ReadingIs DEF Snapshot
<1>2. /\ Touched(rt) \in State /\ Touched(rt) # NoState
      /\ Touched(rt).generation \in Nat /\ Touched(rt).generation <= nextGeneration'
  BY <1>1, TouchedIs, NullsAreNotStates DEF RoutingMoves, State
<1>3. /\ l \in Lease /\ l.id = id /\ l.revision = rt.revision
      /\ l.generation = Touched(rt).generation
      /\ l.outdated => revisions[id] # l.revision
  BY <1>1, <1>2 DEF LeaseFor, Lease
<1>4. requests[r] \in Request /\ requests[r].served \subseteq requests[r].tried
  BY DEF IInv, TypeOK, LeasesSound
<1>5. Sound(q) /\ q.tried = requests[r].tried \union {id}
  BY <1>1, <1>4, AgainSound DEF Again, Idle, Request
<1> HIDE DEF l, q
<1>6. /\ new \in Request /\ new.phase = "leased" /\ new.lease = l
      /\ new.list = q.list /\ new.tried = q.tried /\ new.served = q.served
  BY <1>3, <1>5 DEF Sound, Request
<1> HIDE DEF new
<1>7. l # NoLease
  BY <1>3, NullsAreNotStates
<1>8. l.outdated => OvertakenNext(l)
  BY <1>3, StoreStands DEF OvertakenNext
<1>9. \A i \in Ids : new.list[i] # NoRuntime => new.list[i] \in Readings(i)
  BY <1>5, <1>6 DEF Sound
<1>10. new.served \subseteq new.tried /\ new.lease.id \in new.tried
  BY <1>3, <1>5, <1>6 DEF Sound
<1>11. Sound(new)
  BY <1>1, <1>2, <1>3, <1>6, <1>7, <1>8, <1>9, <1>10 DEF Sound
<1> QED
  BY <1>11 DEF new, q, l

\* What pickFor and peekAny touch of the list they read.
LEMMA ListTouchMoves ==
    ASSUME IInv, NEW r \in Requests, NEW T \in SUBSET Ids, basis' = basis,
           \A id \in T : /\ requests[r].list[id] # NoRuntime
                         /\ ~IsStale(requests[r].list[id]),
           SetRouting(TouchAll(requests[r].list, T))
    PROVE  /\ RoutingMoves
           /\ \A id \in T : routing'[id] = Touched(requests[r].list[id])
<1>1. RoutingMoves
  BY ListIsReading, TouchAllMoves
<1>2. routing' = TouchAll(requests[r].list, T)
  BY DEF SetRouting
<1>3. \A id \in T : routing'[id] = Touched(requests[r].list[id])
  BY <1>2 DEF TouchAll
<1> QED
  BY <1>1, <1>3

LEMMA PickMoves ==
    ASSUME IInv, NEW r \in Requests, Pick(r)
    PROVE  SelectorMoves
<1> DEFINE list == requests[r].list
           all == Candidates(r)
           tried == requests[r].tried
<1>1. /\ UNCHANGED storeVars /\ UNCHANGED <<fetches, forgetting, basis, owes>>
  BY DEF Pick
<1>2. /\ all \in SUBSET Ids
      /\ \A id \in all : list[id] # NoRuntime /\ ~IsStale(list[id])
  BY DEF Candidates
<1>3. /\ tried \in SUBSET Ids /\ requests[r].served \subseteq tried
  BY DEF IInv, TypeOK, Request, LeasesSound
<1>4. ASSUME NEW t \in SUBSET Ids, RoutingMoves,
             requests' = [requests EXCEPT ![r] = Again(r, tried \union t)]
      PROVE  SelectorMoves
  <2>1. Sound(Again(r, tried \union t))
    BY <1>3, AgainSound
  <2> QED
    BY <1>1, <1>4, <2>1, OneRequest, RestStays
<1>5. ASSUME NEW id \in all, NEW T \in SUBSET all, id \in T,
             SetRouting(TouchAll(list, T)), TakeLease(r, id)
      PROVE  SelectorMoves
  <2>1. RoutingMoves /\ routing'[id] = Touched(list[id])
    BY <1>1, <1>2, <1>5, ListTouchMoves
  <2> DEFINE new == [Again(r, tried \union {id}) EXCEPT
                       !.phase = "leased", !.lease = LeaseFor(r, id)]
  <2>2. Sound(new)
    BY <1>1, <2>1, PickedSound
  <2>3. requests' = [requests EXCEPT ![r] = new]
    BY <1>5 DEF TakeLease
  <2> QED
    BY <1>1, <2>1, <2>2, <2>3, OneRequest, RestStays
<1>6. CASE /\ list = NoList
           /\ requests' = [requests EXCEPT ![r] = Again(r, tried)]
           /\ UNCHANGED <<routing, nextGeneration>>
  <2>1. RoutingMoves /\ tried = tried \union {}
    BY <1>6, KeepMoves
  <2>2. /\ {} \in SUBSET Ids
        /\ requests' = [requests EXCEPT ![r] = Again(r, tried \union {})]
    BY <1>6, <2>1
  <2> QED
    BY <1>4, <2>1, <2>2
<1>7. CASE \E id \in InTier(r, "preferred") :
             /\ TakeLease(r, id)
             /\ \E T \in SUBSET all : id \in T /\ SetRouting(TouchAll(list, T))
  BY <1>5, <1>7 DEF InTier
<1>8. CASE /\ SetRouting(TouchAll(list, all))
           /\ \E tier \in {"overage", "fallback"}, id \in all :
                id \in InTier(r, tier) /\ TakeLease(r, id)
  BY <1>5, <1>8
<1>9. CASE /\ SetRouting(TouchAll(list, all))
           /\ \E t \in SUBSET Ids : requests' = [requests EXCEPT ![r] = Again(r, tried \union t)]
  <2>1. RoutingMoves
    BY <1>1, <1>2, <1>9, ListTouchMoves
  <2> QED
    BY <1>4, <1>9, <2>1
<1>10. \A tier : InTier(r, tier) \subseteq all
  BY DEF InTier
<1>11. CASE /\ SetRouting(TouchAll(list, all))
            /\ \/ \E id \in InTier(r, "overage") : TakeLease(r, id)
               \/ \E id \in InTier(r, "fallback") : TakeLease(r, id)
  BY <1>8, <1>10, <1>11
<1>12. CASE /\ SetRouting(TouchAll(list, all))
            /\ \/ \E id \in InTier(r, "verify") : \E t \in {{}, {id}} :
                    requests' = [requests EXCEPT ![r] = Again(r, tried \union t)]
               \/ requests' = [requests EXCEPT ![r] = Again(r, tried)]
  <2>1. tried = tried \union {}
    OBVIOUS
  <2>2. \A id \in InTier(r, "verify") : {} \in SUBSET Ids /\ {id} \in SUBSET Ids
    BY <1>2, <1>10
  <2> QED
    BY <1>9, <1>12, <2>1, <2>2
<1> QED
  BY <1>6, <1>7, <1>11, <1>12 DEF Pick

LEMMA PeekMoves ==
    ASSUME IInv, NEW r \in Requests, Peek(r)
    PROVE  SelectorMoves
<1> DEFINE list == requests[r].list
<1>1. /\ UNCHANGED storeVars /\ UNCHANGED <<fetches, forgetting, basis, owes>>
      /\ requests' = [requests EXCEPT ![r] = Again(r, requests[r].tried)]
  BY DEF Peek
<1>2. PICK T \in SUBSET Ids : /\ \A id \in T : list[id] # NoRuntime /\ ~IsStale(list[id])
                              /\ SetRouting(TouchAll(list, T))
  BY DEF Peek
<1>3. RoutingMoves
  BY <1>1, <1>2, ListTouchMoves
<1>4. Sound(Again(r, requests[r].tried))
  BY AgainSound DEF IInv, TypeOK, Request, LeasesSound
<1> QED
  BY <1>1, <1>3, <1>4, OneRequest, RestStays

\* A dispatch that leaves its account, for good or not.
LEMMA LeftSound ==
    ASSUME IInv, NEW r \in Requests, Leasing(requests[r])
    PROVE  Sound(Requeued(r)) /\ Sound(Again(r, requests[r].tried))
BY AgainSound DEF Requeued, IInv, TypeOK, Request, LeasesSound

\* A dispatch that still has its lease, in any phase.
LEMMA PhaseSound ==
    ASSUME IInv, UNCHANGED storeVars, RoutingMoves, NEW r \in Requests, Leasing(requests[r]),
           NEW q \in Request, q.list = requests[r].list, q.tried = requests[r].tried,
           q.served \subseteq q.tried,
           q.phase # "streaming" => requests[r].phase # "streaming",
           \/ q.lease = requests[r].lease
           \/ /\ q.lease \in Lease /\ ~q.lease.outdated
              /\ q.lease.id = requests[r].lease.id
              /\ q.lease.revision = requests[r].lease.revision
              /\ q.lease.generation = requests[r].lease.generation
    PROVE  Sound(q)
<1> DEFINE p == requests[r]
<1>1. /\ Sound(p) /\ p \in Request /\ p.phase \in {"leased", "sending", "streaming"}
      /\ q.lease # NoLease
  BY SameRequest, NullsAreNotStates DEF Sound, Leasing
<1>2. /\ q.lease.id \in q.tried /\ q.lease.revision <= nextRevision
      /\ q.lease.generation <= nextGeneration'
  BY <1>1 DEF Sound
<1>3. ASSUME q.phase \in {"leased", "sending"}, q.lease.outdated
      PROVE  OvertakenNext(q.lease)
  BY <1>1, <1>3 DEF Sound
<1>4. \A id \in Ids : q.list[id] # NoRuntime => q.list[id] \in Readings(id)
  BY <1>1 DEF Sound
<1> QED
  BY <1>1, <1>2, <1>3, <1>4 DEF Sound

LEMMA ValidateMoves ==
    ASSUME IInv, NEW r \in Requests, Validate(r)
    PROVE  SelectorMoves
<1> DEFINE p == requests[r]
           l == p.lease
           others == {id \in Present \ (p.tried \union {l.id}) : Usable(accounts[id])}
           send == [p EXCEPT !.phase = "sending", !.served = @ \union {l.id}]
<1>1. /\ UNCHANGED storeVars /\ UNCHANGED <<fetches, forgetting, basis, owes>>
      /\ p.phase = "leased" /\ Leasing(p)
  BY DEF Validate, Leasing
<1>2. CASE /\ SetRouting(Pruned(CurrentList))
           /\ \E q \in {Requeued(r), Again(r, p.tried)} : requests' = [requests EXCEPT ![r] = q]
  <2>1. RoutingMoves
    BY <1>2, PruneMoves
  <2> QED
    BY <1>1, <1>2, <2>1, LeftSound, OneRequest, RestStays
<1>3. CASE /\ \E T \in SUBSET others : SetRouting(TouchAll(CurrentList, T))
           /\ \E q \in {send, Requeued(r)} : requests' = [requests EXCEPT ![r] = q]
  <2>1. PICK T \in SUBSET others : SetRouting(TouchAll(CurrentList, T))
    BY <1>3
  <2>2. ASSUME NEW id \in T
        PROVE  CurrentList[id] \in Readings(id) /\ ~IsStale(CurrentList[id])
    <3>1. id \in Ids /\ accounts[id] # NoAccount /\ CurrentList[id] = RuntimeOf(id)
      BY DEF Present, CurrentList
    <3>2. routing[id] # NoState => routing[id].revision <= revisions[id]
      BY <3>1 DEF IInv, StatesSound
    <3> QED
      BY <3>1, <3>2, CurrentIsReading, CurrentFields, StampsNat DEF IsStale, IInv
  <2>3. T \in SUBSET Ids
    BY DEF Present
  <2>4. RoutingMoves
    BY <1>1, <2>1, <2>2, <2>3, TouchAllMoves
  <2>5. p \in Request /\ l \in Lease /\ l.id \in p.tried /\ p.served \subseteq p.tried
    BY <1>1 DEF IInv, TypeOK, LeasesSound, Request
  <2>6. /\ send \in Request /\ send.list = p.list /\ send.tried = p.tried /\ send.lease = l
        /\ send.served = p.served \union {l.id} /\ send.phase = "sending"
    BY <2>5 DEF Request, Lease
  <2> HIDE DEF send
  <2>7. Sound(send)
    BY <1>1, <2>4, <2>5, <2>6, PhaseSound
  <2> QED
    BY <1>1, <1>3, <2>4, <2>7, LeftSound, OneRequest, RestStays
<1> QED
  <2>1. others \in SUBSET others
    OBVIOUS
  <2> QED
    BY <1>2, <1>3, <2>1 DEF Validate

LEMMA SkipMoves ==
    ASSUME IInv, NEW r \in Requests, Skip(r)
    PROVE  SelectorMoves
<1>1. /\ UNCHANGED storeVars /\ UNCHANGED <<fetches, forgetting, basis, owes>>
      /\ RoutingMoves
  BY KeepMoves DEF Skip
<1> QED
  BY <1>1, LeftSound, OneRequest, RestStays DEF Skip, Leasing

LEMMA ResendMoves ==
    ASSUME IInv, NEW r \in Requests, Resend(r)
    PROVE  SelectorMoves
<1> DEFINE p == requests[r]
           new == [p EXCEPT !.phase = "leased"]
<1>1. /\ UNCHANGED storeVars /\ UNCHANGED <<fetches, forgetting, basis, owes>>
      /\ RoutingMoves /\ requests' = [requests EXCEPT ![r] = new]
      /\ p.phase = "sending" /\ Leasing(p)
  BY KeepMoves DEF Resend, Leasing
<1>2. p \in Request /\ p.served \subseteq p.tried
  BY DEF IInv, TypeOK, LeasesSound
<1>3. /\ new \in Request /\ new.list = p.list /\ new.tried = p.tried
      /\ new.served = p.served /\ new.lease = p.lease /\ new.phase = "leased"
  BY <1>2 DEF Request
<1> HIDE DEF new
<1>4. Sound(new)
  BY <1>1, <1>2, <1>3, PhaseSound
<1> QED
  BY <1>1, <1>4, OneRequest, RestStays

LEMMA EndMoves ==
    ASSUME IInv, NEW r \in Requests, End(r)
    PROVE  SelectorMoves
<1>1. /\ UNCHANGED storeVars /\ UNCHANGED <<fetches, forgetting, basis, owes>>
      /\ RoutingMoves /\ requests' = [requests EXCEPT ![r] = Idle]
  BY KeepMoves DEF End
<1> QED
  BY <1>1, IdleSound, OneRequest, RestStays

-----------------------------------------------------------------------------
(* Outcomes *)

\* An account a lease may report on: it is there, with a state of its revision.
LEMMA AcceptedState ==
    ASSUME IInv, NEW r \in Requests, Leasing(requests[r]), Accepts(requests[r].lease)
    PROVE  /\ requests[r].lease.id \in Ids
           /\ accounts[requests[r].lease.id] # NoAccount
           /\ routing[requests[r].lease.id] # NoState
           /\ routing[requests[r].lease.id] \in State
BY StampsNat DEF IInv, TypeOK, LeasesSound, Request, Lease, Accepts

LEMMA SucceedMoves ==
    ASSUME IInv, NEW r \in Requests, Succeed(r)
    PROVE  SelectorMoves
<1> DEFINE p == requests[r]
           l == p.lease
           fresh == [l EXCEPT !.outdated = FALSE]
           new == [p EXCEPT !.phase = "streaming", !.lease = fresh]
           old == routing[l.id]
           st == [old EXCEPT !.cooldown = "none"]
<1>1. /\ UNCHANGED storeVars /\ UNCHANGED <<fetches, forgetting, basis, owes>>
      /\ p.phase = "sending" /\ Leasing(p)
  BY DEF Succeed, Leasing
<1>2. p \in Request /\ l \in Lease /\ p.served \subseteq p.tried
  BY <1>1 DEF IInv, TypeOK, LeasesSound, Request
<1>3. /\ fresh \in Lease /\ ~fresh.outdated /\ fresh.id = l.id
      /\ fresh.revision = l.revision /\ fresh.generation = l.generation
  BY <1>2 DEF Lease
<1>4. requests' = [requests EXCEPT ![r] = new]
  BY DEF Succeed
<1> HIDE DEF fresh
<1>5. /\ new \in Request /\ new.list = p.list /\ new.tried = p.tried
      /\ new.served = p.served /\ new.lease = fresh /\ new.phase = "streaming"
  BY <1>2, <1>3 DEF Request
<1> HIDE DEF new
<1>6. RoutingMoves
  <2>1. CASE KeepRouting
    BY <2>1, KeepMoves DEF KeepRouting
  <2>2. CASE Accepts(l) /\ Mutate(l.id, st)
    <3>1. /\ l.id \in Ids /\ old # NoState /\ old \in State
      BY <1>1, <2>2, AcceptedState
    <3>2. /\ st \in State /\ st.revision = old.revision /\ st.lifecycle = old.lifecycle
          /\ st.quota = old.quota
      BY <3>1 DEF State
    <3> HIDE DEF st
    <3> QED
      BY <1>1, <2>2, <3>1, <3>2, MutateMoves
  <2> QED
    BY <2>1, <2>2 DEF Succeed
<1>7. Sound(new)
  BY <1>1, <1>2, <1>3, <1>5, <1>6, PhaseSound
<1> QED
  BY <1>1, <1>4, <1>6, <1>7, OneRequest, RestStays

LEMMA ReportedSound ==
    ASSUME IInv, UNCHANGED storeVars, RoutingMoves, NEW r \in Requests, Leasing(requests[r]),
           NEW kind \in {"failure", "depletion"}
    PROVE  /\ AfterReport(r, kind) = [s \in Requests |-> AfterReport(r, kind)[s]]
           /\ \A s \in Requests :
                /\ Sound(AfterReport(r, kind)[s])
                /\ \/ AfterReport(r, kind)[s] = requests[s]
                   \/ AfterReport(r, kind)[s].phase \notin {"leased", "sending"}
<1> DEFINE p == requests[r]
           new == IF p.phase = "streaming" THEN [p EXCEPT !.reported = @ \union {kind}]
                  ELSE Again(r, p.tried)
<1>1. p \in Request /\ requests \in [Requests -> Request] /\ p.served \subseteq p.tried
  BY DEF IInv, TypeOK, LeasesSound
<1>2. AfterReport(r, kind) = [requests EXCEPT ![r] = new]
  <2>1. CASE p.phase = "streaming"
    <3> DEFINE reported == [p EXCEPT !.reported = @ \union {kind}]
    <3>1. new = reported
      BY <2>1
    <3>2. AfterReport(r, kind) = [requests EXCEPT ![r] = reported]
      BY <2>1 DEF AfterReport
    <3> HIDE DEF reported, new
    <3> QED
      BY <3>1, <3>2
  <2>2. CASE p.phase # "streaming"
    <3>1. new = Again(r, p.tried)
      BY <2>2
    <3>2. AfterReport(r, kind) = [requests EXCEPT ![r] = Again(r, p.tried)]
      BY <2>2 DEF AfterReport
    <3> HIDE DEF new
    <3> QED
      BY <3>1, <3>2
  <2> QED
    BY <2>1, <2>2
<1>3. Sound(new) /\ new.phase \notin {"leased", "sending"}
  <2>1. CASE p.phase = "streaming"
    <3>1. /\ new \in Request /\ new.list = p.list /\ new.tried = p.tried
          /\ new.served = p.served /\ new.lease = p.lease /\ new.phase = "streaming"
      BY <1>1, <2>1 DEF Request
    <3> HIDE DEF new
    <3> QED
      BY <1>1, <2>1, <3>1, PhaseSound
  <2>2. CASE p.phase # "streaming"
    <3>1. new = Again(r, p.tried)
      BY <2>2
    <3>2. Again(r, p.tried).phase = "ready"
      BY DEF Again, Idle
    <3> HIDE DEF new
    <3> QED
      BY <3>1, <3>2, LeftSound
  <2> QED
    BY <2>1, <2>2
<1> HIDE DEF new
<1>4. /\ AfterReport(r, kind)[r] = new
      /\ \A s \in Requests \ {r} : AfterReport(r, kind)[s] = requests[s]
  BY <1>1, <1>2
<1>5. AfterReport(r, kind) = [s \in Requests |-> AfterReport(r, kind)[s]]
  BY <1>1, <1>2
<1>6. ASSUME NEW s \in Requests
      PROVE  /\ Sound(AfterReport(r, kind)[s])
             /\ \/ AfterReport(r, kind)[s] = requests[s]
                \/ AfterReport(r, kind)[s].phase \notin {"leased", "sending"}
  <2>1. CASE s = r
    BY <1>3, <1>4, <2>1
  <2>2. CASE s # r
    BY <1>4, <2>2, SameRequest
  <2> QED
    BY <2>1, <2>2
<1> QED
  BY <1>5, <1>6

LEMMA ReportMoves ==
    ASSUME IInv, UNCHANGED storeVars, NEW r \in Requests, Leasing(requests[r]),
           NEW kind \in {"failure", "depletion"}, RoutingMoves,
           \/ requests' = AfterReport(r, kind)
           \/ /\ requests' = Outdate(AfterReport(r, kind), requests[r].lease.id)
              /\ routing'[requests[r].lease.id] # NoState
              /\ routing'[requests[r].lease.id].generation = nextGeneration + 1
    PROVE  RequestsMove
<1> DEFINE reqs == AfterReport(r, kind)
           id == requests[r].lease.id
<1>1. id \in Ids
  BY DEF IInv, TypeOK, LeasesSound, Request, Lease
<1>2. /\ reqs = [s \in Requests |-> reqs[s]]
      /\ \A s \in Requests : /\ Sound(reqs[s])
                             /\ \/ reqs[s] = requests[s]
                                \/ reqs[s].phase \notin {"leased", "sending"}
  BY ReportedSound
<1> HIDE DEF reqs
<1>3. CASE requests' = reqs
  BY <1>2, <1>3 DEF RequestsMove
<1>4. CASE /\ requests' = Outdate(reqs, id)
           /\ routing'[id] # NoState /\ routing'[id].generation = nextGeneration + 1
  BY <1>1, <1>2, <1>4, OutdateMoves
<1> QED
  BY <1>3, <1>4 DEF reqs

LEMMA FailMoves ==
    ASSUME IInv, NEW r \in Requests, Fail(r)
    PROVE  SelectorMoves
<1> DEFINE l == requests[r].lease
           old == routing[l.id]
           st == [old EXCEPT !.cooldown = "on"]
<1>1. /\ UNCHANGED storeVars /\ UNCHANGED <<fetches, forgetting, basis, owes>>
      /\ Leasing(requests[r])
  BY DEF Fail, Leasing
<1>2. CASE KeepRouting /\ requests' = AfterReport(r, "failure")
  <2>1. RoutingMoves
    BY <1>2, KeepMoves DEF KeepRouting
  <2> QED
    BY <1>1, <1>2, <2>1, ReportMoves, RestStays
<1>3. CASE Accepts(l) /\ Mutate(l.id, st) /\ requests' = Outdate(AfterReport(r, "failure"), l.id)
  <2>1. /\ l.id \in Ids /\ old # NoState /\ old \in State
    BY <1>1, <1>3, AcceptedState
  <2>2. /\ st \in State /\ st.revision = old.revision /\ st.lifecycle = old.lifecycle
        /\ st.quota = old.quota
    BY <2>1 DEF State
  <2> HIDE DEF st
  <2>3. /\ RoutingMoves
        /\ routing'[l.id] # NoState /\ routing'[l.id].generation = nextGeneration + 1
    BY <1>1, <1>3, <2>1, <2>2, MutateMoves
  <2> QED
    BY <1>1, <1>3, <2>3, ReportMoves, RestStays
<1> QED
  BY <1>2, <1>3 DEF Fail

LEMMA DepleteMoves ==
    ASSUME IInv, NEW r \in Requests, Deplete(r)
    PROVE  SelectorMoves
<1> DEFINE l == requests[r].lease
           old == routing[l.id]
           st == [old EXCEPT !.quota = "depleted", !.reactive = TRUE]
<1>1. /\ UNCHANGED storeVars /\ UNCHANGED <<forgetting, basis>>
      /\ Leasing(requests[r])
  BY DEF Deplete, Leasing
<1>2. CASE KeepRouting /\ requests' = AfterReport(r, "depletion") /\ UNCHANGED <<fetches, owes>>
  <2>1. RoutingMoves
    BY <1>2, KeepMoves DEF KeepRouting
  <2> QED
    BY <1>1, <1>2, <2>1, ReportMoves, RestStays
<1>3. CASE /\ Accepts(l) /\ Mutate(l.id, st)
           /\ requests' = Outdate(AfterReport(r, "depletion"), l.id)
           /\ fetches' = {IF f.id = l.id THEN [f EXCEPT !.late = TRUE] ELSE f : f \in fetches}
           /\ owes' = [owes EXCEPT ![l.id] = TRUE]
  <2>1. /\ l.id \in Ids /\ old # NoState /\ old \in State
    BY <1>1, <1>3, AcceptedState
  <2>2. /\ st \in State /\ st.revision = old.revision /\ st.lifecycle = old.lifecycle
        /\ st.quota = "depleted"
    BY <2>1 DEF State, Quotas
  <2> HIDE DEF st
  <2>3. /\ RoutingMoves
        /\ routing'[l.id] # NoState /\ routing'[l.id].generation = nextGeneration + 1
    BY <1>1, <1>3, <2>1, <2>2, MutateMoves
  <2>4. RequestsMove
    BY <1>1, <1>3, <2>3, ReportMoves
  <2>5. FetchesMove
    <3> SUFFICES ASSUME NEW f \in fetches
                 PROVE  LET g == IF f.id = l.id THEN [f EXCEPT !.late = TRUE] ELSE f IN
                        /\ g \in Fetch /\ g.generation <= nextGeneration'
                        /\ g.late => \/ routing'[g.id] = NoState
                                     \/ routing'[g.id].generation # g.generation
      BY <1>3 DEF FetchesMove
    <3>1. /\ f \in Fetch /\ f.generation \in Nat
          /\ f.generation <= nextGeneration /\ f.generation <= nextGeneration'
          /\ f.late => routing'[f.id] = NoState \/ routing'[f.id].generation # f.generation
      BY <2>3, FetchesStay DEF IInv, LateOvertaken, Fetch
    <3>2. CASE f.id # l.id
      BY <3>1, <3>2
    <3>3. CASE f.id = l.id
      <4> DEFINE g == [f EXCEPT !.late = TRUE]
      <4>1. g \in Fetch /\ g.id = f.id /\ g.generation = f.generation
        BY <3>1 DEF Fetch
      <4> QED
        BY <2>3, <3>1, <3>3, <4>1, GenerationsGrow
    <3> QED
      BY <3>2, <3>3
  <2>6. /\ forgetting' \subseteq Ids /\ owes' \in [Ids -> BOOLEAN] /\ basis' = basis
        /\ basis' \in [Ids -> Nat]
    BY <1>1, <1>3 DEF IInv, TypeOK
  <2> QED
    BY <1>1, <2>3, <2>4, <2>5, <2>6 DEF SelectorMoves
<1> QED
  BY <1>2, <1>3 DEF Deplete

LEMMA CooldownMoves ==
    ASSUME IInv, NEW id \in Ids, CooldownElapses(id)
    PROVE  SelectorMoves
<1> DEFINE st == routing[id]
           new == [st EXCEPT !.cooldown = "over"]
<1>1. /\ UNCHANGED storeVars /\ UNCHANGED <<requests, fetches, forgetting, basis, owes>>
      /\ nextGeneration' = nextGeneration /\ st # NoState
      /\ routing' = [routing EXCEPT ![id] = new]
  BY DEF CooldownElapses
<1>2. st \in State /\ st.generation <= nextGeneration
  BY <1>1, StampsNat DEF IInv, StatesSound
<1>3. new \in State /\ SameState(st, new)
  BY <1>1, <1>2 DEF State, SameState
<1> HIDE DEF new
<1>4. /\ routing' \in [Ids -> State \union {NoState}] /\ routing'[id] = new
      /\ \A j \in Ids \ {id} : routing'[j] = routing[j]
  BY <1>1, <1>3 DEF IInv, TypeOK
<1>5. RoutingMoves
  BY <1>1, <1>2, <1>3, <1>4 DEF RoutingMoves, Moves, SameState, IInv, StatesSound
<1> QED
  BY <1>1, <1>5, RequestsStay, RestStays

-----------------------------------------------------------------------------
(* Usage observations *)

LEMMA StampIs ==
    ASSUME IInv, NEW id \in Ids, accounts[id] # NoAccount, ~IsStale(RuntimeOf(id)),
           NEW source \in {"authoritative", "probe"}, RoutingMoves,
           routing'[id] = Touched(RuntimeOf(id))
    PROVE  /\ Stamp(id, source) \in Fetch
           /\ Stamp(id, source).generation <= nextGeneration'
           /\ ~Stamp(id, source).late
<1>1. /\ Touched(RuntimeOf(id)) \in State /\ Touched(RuntimeOf(id)) # NoState
      /\ Touched(RuntimeOf(id)).generation \in Nat
  BY CurrentIsReading, TouchedIs, NullsAreNotStates DEF State
<1>2. accounts[id].overage \in BOOLEAN
  BY DEF IInv, TypeOK, StoreTypeOK, Account
<1> QED
  BY <1>1, <1>2, StampsNat DEF Stamp, Fetch, RoutingMoves, IInv

LEMMA BeginMoves ==
    ASSUME IInv, NEW id \in Ids, BeginUsage(id)
    PROVE  SelectorMoves
<1> DEFINE rt == RuntimeOf(id)
           all == [routing EXCEPT ![id] = Touched(rt)]
<1>1. /\ UNCHANGED storeVars /\ UNCHANGED <<requests, forgetting, basis, owes>>
      /\ accounts[id] # NoAccount /\ ~IsStale(rt) /\ SetRouting(all)
  BY DEF BeginUsage
<1>2. Touched(rt) \in State /\ Moves(id, routing[id], Touched(rt))
  BY <1>1, CurrentIsReading, TouchMoves
<1>3. /\ all \in [Ids -> State \union {NoState}]
      /\ all[id] = Touched(rt) /\ \A j \in Ids \ {id} : all[j] = routing[j]
  BY <1>2 DEF IInv, TypeOK
<1>4. routing' = all
  BY <1>1 DEF SetRouting
<1> HIDE DEF all
<1>5. RoutingMoves
  BY <1>1, <1>2, <1>3, SetMoves DEF Moves
<1>6. RequestsMove
  BY <1>1, <1>5, RequestsStay
<1>7. FetchesMove
  <2>1. PICK source \in {"authoritative", "probe"} : fetches' = fetches \union {Stamp(id, source)}
    BY DEF BeginUsage
  <2>2. /\ Stamp(id, source) \in Fetch /\ Stamp(id, source).generation <= nextGeneration'
        /\ ~Stamp(id, source).late
    BY <1>1, <1>3, <1>4, <1>5, StampIs
  <2> QED
    BY <1>5, <2>1, <2>2, FetchesStay DEF FetchesMove
<1> QED
  BY <1>1, <1>5, <1>6, <1>7 DEF SelectorMoves, IInv, TypeOK

LEMMA ReconcileMoves ==
    ASSUME IInv, Reconcile
    PROVE  SelectorMoves
<1> DEFINE listed == {id \in Present : Usable(accounts[id]) /\ ~IsStale(RuntimeOf(id))}
<1>1. /\ UNCHANGED storeVars /\ UNCHANGED <<requests, forgetting, basis, owes>>
      /\ SetRouting(TouchAll(CurrentList, listed))
  BY DEF Reconcile
<1>2. /\ listed \in SUBSET Ids
      /\ \A id \in listed : /\ accounts[id] # NoAccount /\ ~IsStale(RuntimeOf(id))
                            /\ CurrentList[id] = RuntimeOf(id)
  BY DEF Present, CurrentList
<1> HIDE DEF listed
<1>3. RoutingMoves
  BY <1>1, <1>2, CurrentIsReading, TouchAllMoves
<1>4. \A id \in listed : routing'[id] = Touched(RuntimeOf(id))
  BY <1>1, <1>2 DEF SetRouting, TouchAll
<1>5. RequestsMove
  BY <1>1, <1>3, RequestsStay
<1>6. PICK probed \in SUBSET listed, observed \in SUBSET listed :
        fetches' = fetches \union {Stamp(id, "probe") : id \in probed}
                           \union {Stamp(id, "authoritative") : id \in observed}
  <2>1. \A P, O : /\ P \subseteq listed /\ O \subseteq listed
                  /\ fetches' = fetches \union {Stamp(id, "probe") : id \in P}
                                        \union {Stamp(id, "authoritative") : id \in O}
                  => \E probed \in SUBSET listed, observed \in SUBSET listed :
                       fetches' = fetches \union {Stamp(id, "probe") : id \in probed}
                                          \union {Stamp(id, "authoritative") : id \in observed}
    OBVIOUS
  <2> QED
    BY <2>1 DEF Reconcile, listed
<1>7. FetchesMove
  BY <1>2, <1>3, <1>4, <1>6, StampIs, FetchesStay DEF FetchesMove
<1> QED
  BY <1>1, <1>3, <1>5, <1>7 DEF SelectorMoves, IInv, TypeOK

LEMMA ObserveMoves ==
    ASSUME IInv, NEW f \in fetches, Observe(f)
    PROVE  SelectorMoves
<1>1. /\ UNCHANGED storeVars /\ UNCHANGED <<requests, forgetting, basis, owes>>
      /\ RoutingMoves
  BY KeepMoves DEF Observe
<1>2. RequestsMove
  BY <1>1, RequestsStay
<1>3. PICK reading \in {"base", "overage", "none"} :
        fetches' = (fetches \ {f}) \union {[f EXCEPT !.reading = reading]}
  BY DEF Observe
<1>4. /\ f \in Fetch /\ f.generation <= nextGeneration'
      /\ f.late => routing'[f.id] = NoState \/ routing'[f.id].generation # f.generation
  BY <1>1, FetchesStay
<1> DEFINE g == [f EXCEPT !.reading = reading]
<1>5. g \in Fetch /\ g.id = f.id /\ g.generation = f.generation /\ g.late = f.late
  BY <1>4 DEF Fetch
<1> HIDE DEF g
<1>6. fetches' = (fetches \ {f}) \union {g}
  BY <1>3 DEF g
<1>7. FetchesMove
  BY <1>1, <1>4, <1>5, <1>6, FetchesStay DEF FetchesMove
<1> QED
  BY <1>1, <1>2, <1>7 DEF SelectorMoves, IInv, TypeOK

LEMMA DropMoves ==
    ASSUME IInv, NEW f \in fetches, DropUsage(f)
    PROVE  SelectorMoves
<1>1. /\ UNCHANGED storeVars /\ UNCHANGED <<requests, forgetting, basis, owes>>
      /\ RoutingMoves /\ fetches' \subseteq fetches
  BY KeepMoves DEF DropUsage
<1> QED
  BY <1>1, RequestsStay, FetchesKept DEF SelectorMoves, IInv, TypeOK

LEMMA ApplyMoves ==
    ASSUME IInv, NEW f \in fetches, ApplyUsage(f)
    PROVE  SelectorMoves
<1> DEFINE id == f.id
           st == routing[id]
           base == [st EXCEPT !.quota = "base", !.reactive = FALSE]
           overage == [st EXCEPT !.quota = "overage"]
           depleted == [st EXCEPT !.quota = "depleted"]
<1>1. /\ UNCHANGED storeVars /\ UNCHANGED <<requests, fetches, forgetting>>
      /\ UsageCurrent(f)
  BY DEF ApplyUsage
<1>2. /\ id \in Ids /\ f.revision \in Nat /\ accounts[id] # NoAccount /\ st # NoState
      /\ f.revision = revisions[id] /\ st.generation = f.generation
  BY <1>1 DEF IInv, TypeOK, Fetch, UsageCurrent
<1>3. st \in State /\ ~f.late
  BY <1>2, StampsNat DEF IInv, LateOvertaken
<1>4. /\ base \in State /\ base.revision = st.revision /\ base.lifecycle = st.lifecycle
      /\ overage \in State /\ overage.revision = st.revision /\ overage.lifecycle = st.lifecycle
      /\ depleted \in State /\ depleted.revision = st.revision /\ depleted.lifecycle = st.lifecycle
      /\ overage.quota = "overage" /\ depleted.quota = "depleted"
  BY <1>3 DEF State, Quotas
<1> HIDE DEF base, overage, depleted
<1>5. /\ basis \in [Ids -> Nat] /\ owes \in [Ids -> BOOLEAN] /\ revisions[id] \in Nat
  BY <1>2, StampsNat DEF IInv, TypeOK
<1>6. CASE /\ \/ Mutate(id, base)
              \/ KeepRouting
           /\ basis' = [basis EXCEPT ![id] = f.revision]
           /\ owes' = [owes EXCEPT ![id] = FALSE]
  <2>1. /\ basis' \in [Ids -> Nat] /\ basis'[id] = revisions[id]
        /\ \A j \in Ids : basis'[j] \in {basis[j], revisions[j]}
        /\ owes' \in [Ids -> BOOLEAN] /\ ~owes'[id]
    BY <1>2, <1>5, <1>6
  <2>2. RoutingMoves
    BY <1>2, <1>4, <1>6, <2>1, KeepMoves, MutateMoves DEF KeepRouting
  <2> QED
    BY <1>1, <2>1, <2>2, RequestsStay, FetchesKept DEF SelectorMoves, IInv, TypeOK
<1>7. CASE /\ \/ AdmitsOverage(f) /\ Mutate(id, overage)
              \/ KeepRouting
              \/ Mutate(id, depleted)
           /\ UNCHANGED <<basis, owes>>
  <2>1. AdmitsOverage(f) => ~st.reactive
    BY DEF AdmitsOverage
  <2>2. RoutingMoves
    BY <1>2, <1>4, <1>7, <2>1, KeepMoves, MutateMoves DEF KeepRouting
  <2> QED
    BY <1>1, <1>7, <2>2, RequestsStay, RestStays
<1> QED
  BY <1>3, <1>6, <1>7 DEF ApplyUsage, base, overage, depleted

-----------------------------------------------------------------------------
(* The store changes under the selector *)

\* One account changes and gets a revision of its own, or it goes away.
StoreMoves(id) ==
    /\ StoreTypeOK'
    /\ \A j \in Ids \ {id} :
         /\ accounts'[j] = accounts[j] /\ revisions'[j] = revisions[j]
         /\ lifecycles'[j] = lifecycles[j] /\ credentials'[j] = credentials[j]
    /\ nextRevision <= nextRevision' /\ nextLifecycle <= nextLifecycle'
    /\ revisions'[id] <= nextRevision' /\ lifecycles'[id] <= nextLifecycle'
    /\ \/ accounts'[id] = NoAccount
       \/ /\ nextRevision < revisions'[id]
          /\ \/ accounts[id] # NoAccount /\ lifecycles'[id] = lifecycles[id]
             \/ nextLifecycle < lifecycles'[id]

LEMMA OutdatedRequest ==
    ASSUME IInv, NEW id \in Ids, requests' = Outdate(requests, id), NEW r \in Requests
    PROVE  LET p == requests[r]
               q == requests'[r] IN
           /\ q \in Request
           /\ q.phase = p.phase /\ q.list = p.list /\ q.tried = p.tried /\ q.served = p.served
           /\ Leasing(p) =>
                /\ q.lease \in Lease /\ q.lease # NoLease
                /\ q.lease.id = p.lease.id /\ q.lease.revision = p.lease.revision
                /\ q.lease.generation = p.lease.generation
                /\ q.phase \in {"leased", "sending"} /\ q.lease.outdated
                     => p.lease.outdated \/ q.lease.id = id
<1> DEFINE p == requests[r]
           q == requests'[r]
<1>1. p \in Request
  BY DEF IInv, TypeOK
<1>2. Leasing(p) => p.lease \in Lease /\ p.lease # NoLease
  BY <1>1 DEF IInv, LeasesSound, Request
<1>3. CASE ~(p.phase \in {"leased", "sending"} /\ p.lease.id = id)
  <2>1. q = p
    BY <1>3 DEF Outdate
  <2> QED
    BY <1>1, <1>2, <2>1
<1>4. CASE p.phase \in {"leased", "sending"} /\ p.lease.id = id
  <2> DEFINE l == [p.lease EXCEPT !.outdated = TRUE]
  <2>1. p.lease \in Lease
    BY <1>2, <1>4 DEF Leasing
  <2>2. /\ l \in Lease /\ l # NoLease /\ l.id = p.lease.id /\ l.revision = p.lease.revision
        /\ l.generation = p.lease.generation
    BY <2>1, NullsAreNotStates DEF Lease
  <2>3. q = [p EXCEPT !.lease = l]
    BY <1>4 DEF Outdate
  <2> HIDE DEF l
  <2>4. /\ q \in Request /\ q.phase = p.phase /\ q.list = p.list /\ q.tried = p.tried
        /\ q.served = p.served /\ q.lease = l
    BY <1>1, <2>2, <2>3 DEF Request
  <2> QED
    BY <1>4, <2>2, <2>4
<1> QED
  BY <1>3, <1>4

LEMMA SnapshotStays ==
    ASSUME IInv, NEW id \in Ids, StoreMoves(id), NEW rt, Snapshot(rt)
    PROVE  Snapshot(rt)'
<1>1. /\ rt \in Runtime /\ rt.id \in Ids /\ rt.revision \in Nat /\ rt.lifecycle \in Nat
      /\ rt.revision <= nextRevision /\ rt.lifecycle <= nextLifecycle
  BY DEF Snapshot, Runtime
<1>2. /\ nextRevision \in Nat /\ nextLifecycle \in Nat /\ nextRevision' \in Nat /\ nextLifecycle' \in Nat
      /\ revisions'[id] \in Nat /\ lifecycles'[id] \in Nat
  BY DEF StoreMoves, StoreTypeOK, IInv, TypeOK
<1>3. rt.revision <= nextRevision' /\ rt.lifecycle <= nextLifecycle'
  BY <1>1, <1>2 DEF StoreMoves
<1>4. CASE rt.id # id
  <2>1. RuntimeOf(rt.id)' = RuntimeOf(rt.id)
    BY <1>1, <1>4 DEF RuntimeOf, StoreMoves
  <2> QED
    BY <1>1, <1>3, <1>4, <2>1 DEF Snapshot, StoreMoves
<1>5. CASE rt.id = id
  <2>1. accounts'[id] # NoAccount =>
          rt.revision < revisions'[id] /\ rt.lifecycle <= lifecycles'[id]
    BY <1>1, <1>2, <1>5 DEF Snapshot, StoreMoves
  <2> QED
    BY <1>1, <1>2, <1>3, <1>5, <2>1 DEF Snapshot
<1> QED
  BY <1>4, <1>5

LEMMA StoreKeeps ==
    ASSUME IInv, NEW id \in Ids, StoreMoves(id), requests' = Outdate(requests, id),
           UNCHANGED <<routing, nextGeneration, fetches, basis>>,
           forgetting' \subseteq Ids, owes' \in [Ids -> BOOLEAN]
    PROVE  IInv'
<1>1. /\ nextRevision \in Nat /\ nextLifecycle \in Nat
      /\ nextRevision' \in Nat /\ nextLifecycle' \in Nat
      /\ \A j \in Ids : /\ revisions[j] \in Nat /\ lifecycles[j] \in Nat
                        /\ revisions'[j] \in Nat /\ lifecycles'[j] \in Nat
  BY DEF StoreMoves, StoreTypeOK, IInv, TypeOK
<1>2. \A j \in Ids : routing[j] # NoState =>
        /\ routing[j].revision \in Nat /\ routing[j].lifecycle \in Nat
        /\ routing[j].revision <= nextRevision /\ routing[j].lifecycle <= nextLifecycle
  BY StampsNat DEF IInv, StatesSound
<1>3. TypeOK'
  <2>1. requests' \in [Requests -> Request]
    BY OutdatedRequest DEF Outdate
  <2> QED
    BY <2>1 DEF IInv, TypeOK, StoreMoves
<1>4. Counted'
  BY <1>1 DEF IInv, Counted, StoreMoves
<1>5. ListsSound'
  BY OutdatedRequest, SnapshotStays DEF IInv, ListsSound
<1>6. ListsOrdered'
  BY OutdatedRequest DEF IInv, ListsOrdered
<1>7. StatesSound'
  <2> SUFFICES ASSUME NEW j \in Ids, routing[j] # NoState
               PROVE  /\ routing[j].revision <= nextRevision'
                      /\ routing[j].lifecycle <= nextLifecycle'
                      /\ routing[j].generation <= nextGeneration
                      /\ accounts'[j] # NoAccount =>
                           /\ routing[j].revision <= revisions'[j]
                           /\ routing[j].lifecycle <= lifecycles'[j]
                           /\ routing[j].revision = revisions'[j]
                                => routing[j].lifecycle = lifecycles'[j]
    BY DEF StatesSound
  <2>1. CASE j # id
    BY <1>1, <1>2, <2>1 DEF IInv, StatesSound, StoreMoves
  <2>2. CASE j = id
    BY <1>1, <1>2, <2>2 DEF IInv, StatesSound, StoreMoves
  <2> QED
    BY <2>1, <2>2
<1>8. StatesOrdered'
  BY OutdatedRequest DEF IInv, StatesOrdered
<1>9. LeasesSound'
  <2> SUFFICES ASSUME NEW r \in Requests
               PROVE  /\ requests'[r].served \subseteq requests'[r].tried
                      /\ Leasing(requests'[r]) =>
                           /\ requests'[r].lease # NoLease
                           /\ requests'[r].lease.id \in requests'[r].tried
                           /\ requests'[r].lease.revision <= nextRevision'
                           /\ requests'[r].lease.generation <= nextGeneration'
    BY DEF LeasesSound
  <2>1. Leasing(requests'[r]) <=> Leasing(requests[r])
    BY OutdatedRequest DEF Leasing
  <2>2. Leasing(requests[r]) => requests'[r].lease.revision \in Nat
    BY OutdatedRequest DEF Lease
  <2> QED
    BY <1>1, <2>1, <2>2, OutdatedRequest DEF IInv, LeasesSound, StoreMoves
<1>10. OutdatedOvertaken'
  <2> SUFFICES ASSUME NEW r \in Requests, requests'[r].phase \in {"leased", "sending"},
                      requests'[r].lease.outdated
               PROVE  OvertakenNext(requests'[r].lease)
    BY DEF OutdatedOvertaken, Overtaken, OvertakenNext
  <2> DEFINE p == requests[r]
             l == requests'[r].lease
  <2>1. /\ Leasing(p) /\ p.phase \in {"leased", "sending"}
        /\ l \in Lease /\ l.id = p.lease.id /\ l.revision = p.lease.revision
        /\ l.generation = p.lease.generation
        /\ p.lease.outdated \/ l.id = id
    BY OutdatedRequest DEF Leasing
  <2>2. l.id \in Ids /\ l.revision \in Nat /\ l.revision <= nextRevision
    BY <2>1 DEF IInv, LeasesSound, Lease
  <2>3. CASE l.id = id
    BY <1>1, <2>2, <2>3 DEF OvertakenNext, StoreMoves
  <2>4. CASE l.id # id
    BY <2>1, <2>2, <2>4 DEF IInv, OutdatedOvertaken, Overtaken, OvertakenNext, StoreMoves
  <2> QED
    BY <2>3, <2>4
<1>11. LateOvertaken'
  BY DEF IInv, LateOvertaken
<1>12. StrictNeedsProof'
  <2> SUFFICES ASSUME NEW j \in Ids, accounts'[j] # NoAccount, routing[j] # NoState,
                      routing[j].revision = revisions'[j], routing[j].quota = "base",
                      ~accounts'[j].overage
               PROVE  basis[j] = revisions'[j]
    BY DEF StrictNeedsProof, Present
  <2>1. j # id
    BY <1>1, <1>2 DEF StoreMoves
  <2> QED
    BY <2>1 DEF IInv, StrictNeedsProof, Present, StoreMoves
<1> QED
  BY <1>3, <1>4, <1>5, <1>6, <1>7, <1>8, <1>9, <1>10, <1>11, <1>12 DEF IInv

LEMMA SaveWrites ==
    ASSUME StoreTypeOK, Save, accounts' \in [Ids -> Account \union {NoAccount}]
    PROVE  disk' \in [Ids -> Account \union {NoAccount}] /\ failed' \in BOOLEAN
BY SaveOutcomesAreBoolean DEF Save, StoreTypeOK

LEMMA RuntimeBumps ==
    ASSUME StoreTypeOK, NEW id \in Ids, BumpRuntime(id)
    PROVE  /\ revisions' \in [Ids -> Nat] /\ nextRevision' \in Nat
           /\ nextRevision < revisions'[id] /\ revisions'[id] <= nextRevision'
           /\ nextRevision <= nextRevision'
           /\ \A j \in Ids \ {id} : revisions'[j] = revisions[j]
BY DEF StoreTypeOK, BumpRuntime

LEMMA LifecycleBumps ==
    ASSUME StoreTypeOK, NEW id \in Ids, BumpLifecycle(id)
    PROVE  /\ lifecycles' \in [Ids -> Nat] /\ nextLifecycle' \in Nat
           /\ nextLifecycle < lifecycles'[id] /\ lifecycles'[id] <= nextLifecycle'
           /\ nextLifecycle <= nextLifecycle'
           /\ \A j \in Ids \ {id} : lifecycles'[j] = lifecycles[j]
           /\ BumpRuntime(id)
BY DEF StoreTypeOK, BumpLifecycle

LEMMA CredentialBumps ==
    ASSUME StoreTypeOK, NEW id \in Ids, BumpCredential(id)
    PROVE  /\ credentials' \in [Ids -> Nat] /\ nextCredential' \in Nat
           /\ \A j \in Ids \ {id} : credentials'[j] = credentials[j]
           /\ BumpLifecycle(id)
BY DEF StoreTypeOK, BumpCredential

\* An account is written with a new revision, and a new lifecycle if it was
\* not there.
LEMMA AccountWritten ==
    ASSUME IInv, NEW id \in Ids, NEW a \in Account, accounts' = [accounts EXCEPT ![id] = a], Save,
           \/ BumpCredential(id)
           \/ BumpLifecycle(id) /\ KeepCredential
           \/ BumpRuntime(id) /\ KeepLifecycle /\ KeepCredential /\ accounts[id] # NoAccount
    PROVE  StoreMoves(id)
<1>1. StoreTypeOK /\ lifecycles[id] <= nextLifecycle
  BY DEF IInv, TypeOK, Counted
<1>2. /\ accounts' \in [Ids -> Account \union {NoAccount}]
      /\ \A j \in Ids \ {id} : accounts'[j] = accounts[j]
  BY <1>1 DEF StoreTypeOK
<1>3. disk' \in [Ids -> Account \union {NoAccount}] /\ failed' \in BOOLEAN
  BY <1>1, <1>2, SaveWrites
<1>4. BumpRuntime(id)
  BY <1>1, LifecycleBumps, CredentialBumps
<1>5. /\ credentials' \in [Ids -> Nat] /\ nextCredential' \in Nat
      /\ \A j \in Ids \ {id} : credentials'[j] = credentials[j]
  BY <1>1, CredentialBumps DEF KeepCredential, StoreTypeOK
<1>6. /\ lifecycles' \in [Ids -> Nat] /\ nextLifecycle' \in Nat
      /\ lifecycles'[id] <= nextLifecycle' /\ nextLifecycle <= nextLifecycle'
      /\ \A j \in Ids \ {id} : lifecycles'[j] = lifecycles[j]
      /\ \/ accounts[id] # NoAccount /\ lifecycles'[id] = lifecycles[id]
         \/ nextLifecycle < lifecycles'[id]
  <2>1. CASE BumpLifecycle(id)
    BY <1>1, <2>1, LifecycleBumps
  <2>2. CASE KeepLifecycle /\ accounts[id] # NoAccount
    BY <1>1, <2>2 DEF KeepLifecycle, StoreTypeOK
  <2> QED
    BY <1>1, <2>1, <2>2, CredentialBumps
<1> QED
  BY <1>1, <1>2, <1>3, <1>4, <1>5, <1>6, RuntimeBumps DEF StoreMoves, StoreTypeOK

LEMMA CredentialsUpdate ==
    ASSUME NEW a \in Account, NEW fresh \in Account
    PROVE  WithCredentials(a, fresh) \in Account
<1> DEFINE arn == IF fresh.arn # NoArn THEN fresh.arn ELSE a.arn
<1>1. /\ arn \in Arns \union {NoArn} /\ fresh.reg \in Regs \union {NoReg}
      /\ fresh.tok \in Token
  BY DEF Account
<1>2. WithCredentials(a, fresh)
        = [[[a EXCEPT !.reg = fresh.reg] EXCEPT !.tok = fresh.tok] EXCEPT !.arn = arn]
  BY DEF WithCredentials, Account
<1> HIDE DEF arn
<1> QED
  BY <1>1, <1>2 DEF Account

LEMMA AdministerMoves ==
    ASSUME IInv, NEW id \in Ids, Administer(id)
    PROVE  StoreMoves(id)
<1>1. StoreTypeOK /\ NewAccounts \subseteq Account /\ revisions'[id] # revisions[id]
  BY NewAccountsAreEntries DEF IInv, TypeOK, BundleEntry, Administer
<1>2. ASSUME NEW a \in NewAccounts, Add(id, a)
      PROVE  StoreMoves(id)
  BY <1>1, <1>2, AccountWritten DEF Add
<1>3. ASSUME NEW a \in NewAccounts, ReplaceCredentials(id, a)
      PROVE  StoreMoves(id)
  <2> DEFINE b == WithCredentials(accounts[id], a)
  <2>1. /\ accounts[id] # NoAccount /\ accounts' = [accounts EXCEPT ![id] = b]
        /\ BumpCredential(id) /\ Save
    BY <1>1, <1>3 DEF ReplaceCredentials, NotFound, stamps
  <2>2. b \in Account
    BY <1>1, <2>1, CredentialsUpdate DEF StoreTypeOK
  <2> HIDE DEF b
  <2> QED
    BY <2>1, <2>2, AccountWritten
<1>4. ASSUME NEW on \in BOOLEAN, SetDisabledChanged(id, on)
      PROVE  StoreMoves(id)
  <2> DEFINE b == [accounts[id] EXCEPT !.disabled = on]
  <2>1. /\ accounts[id] # NoAccount /\ accounts' = [accounts EXCEPT ![id] = b]
        /\ BumpRuntime(id) /\ KeepLifecycle /\ KeepCredential /\ Save
    BY <1>1, <1>4 DEF SetDisabledChanged, NotFound, Unchanged, stamps
  <2>2. b \in Account
    BY <1>1, <2>1 DEF StoreTypeOK, Account
  <2> HIDE DEF b
  <2> QED
    BY <2>1, <2>2, AccountWritten
<1>5. ASSUME NEW on \in BOOLEAN, SetOverageEnabledChanged(id, on)
      PROVE  StoreMoves(id)
  <2> DEFINE b == [accounts[id] EXCEPT !.overage = on]
  <2>1. /\ accounts[id] # NoAccount /\ accounts' = [accounts EXCEPT ![id] = b]
        /\ BumpRuntime(id) /\ KeepLifecycle /\ KeepCredential /\ Save
    BY <1>1, <1>5 DEF SetOverageEnabledChanged, NotFound, Unchanged, stamps
  <2>2. b \in Account
    BY <1>1, <2>1 DEF StoreTypeOK, Account
  <2> HIDE DEF b
  <2> QED
    BY <2>1, <2>2, AccountWritten
<1>6. ASSUME NEW arn \in Arns, UpdateIdentity(RuntimeOf(id), arn)
      PROVE  StoreMoves(id)
  <2> DEFINE known == IF arn # NoArn THEN arn ELSE accounts[id].arn
             b == [accounts[id] EXCEPT !.arn = known]
  <2>1. /\ accounts[id] # NoAccount /\ accounts' = [accounts EXCEPT ![id] = b]
        /\ BumpLifecycle(id) /\ KeepCredential /\ Save
    BY <1>1, <1>6, CurrentFields DEF UpdateIdentity, Fenced, stamps
  <2>2. known \in Arns \union {NoArn}
    BY <1>1, <2>1 DEF StoreTypeOK, Account
  <2> HIDE DEF known
  <2>3. b \in Account
    BY <1>1, <2>1, <2>2 DEF StoreTypeOK, Account
  <2> HIDE DEF b
  <2> QED
    BY <2>1, <2>3, AccountWritten
<1> QED
  BY <1>2, <1>3, <1>4, <1>5, <1>6 DEF Administer

LEMMA AdministerKeeps ==
    ASSUME IInv, NEW id \in Ids, Administer(id)
    PROVE  IInv'
<1>1. StoreMoves(id)
  BY AdministerMoves
<1>2. owes' \in [Ids -> BOOLEAN]
  BY DEF Administer, IInv, TypeOK
<1>3. /\ UNCHANGED <<routing, nextGeneration, fetches, basis>> /\ forgetting' \subseteq Ids
      /\ requests' = Outdate(requests, id)
  BY DEF Administer, IInv, TypeOK
<1> QED
  BY <1>1, <1>2, <1>3, StoreKeeps

LEMMA DeleteKeeps ==
    ASSUME IInv, NEW id \in Ids, Delete(id)
    PROVE  IInv'
<1>1. StoreTypeOK
  BY DEF IInv, TypeOK
<1>2. /\ accounts' = [accounts EXCEPT ![id] = NoAccount]
      /\ revisions' = [revisions EXCEPT ![id] = 0]
      /\ lifecycles' = [lifecycles EXCEPT ![id] = 0]
      /\ credentials' = [credentials EXCEPT ![id] = 0]
      /\ Save
      /\ UNCHANGED <<nextRevision, nextLifecycle, nextCredential>>
  BY DEF Delete, Remove
<1>3. accounts' \in [Ids -> Account \union {NoAccount}]
  BY <1>1, <1>2 DEF StoreTypeOK
<1>4. disk' \in [Ids -> Account \union {NoAccount}] /\ failed' \in BOOLEAN
  BY <1>1, <1>2, <1>3, SaveWrites
<1>5. StoreMoves(id)
  BY <1>1, <1>2, <1>3, <1>4 DEF StoreTypeOK, StoreMoves
<1>6. /\ UNCHANGED <<routing, nextGeneration, fetches, basis>> /\ forgetting' \subseteq Ids
      /\ requests' = Outdate(requests, id) /\ owes' \in [Ids -> BOOLEAN]
  BY DEF Delete, IInv, TypeOK
<1> QED
  BY <1>5, <1>6, StoreKeeps

LEMMA ForgetMoves ==
    ASSUME IInv, NEW id \in Ids, Forget(id)
    PROVE  SelectorMoves
<1>1. /\ UNCHANGED storeVars /\ UNCHANGED <<requests, fetches, basis, owes>>
      /\ nextGeneration' = nextGeneration /\ forgetting' \subseteq Ids
      /\ routing' = [routing EXCEPT ![id] = NoState]
  BY DEF Forget, IInv, TypeOK
<1>2. RoutingMoves
  BY <1>1 DEF RoutingMoves, Moves, IInv, TypeOK, StatesSound
<1> QED
  BY <1>1, <1>2, RequestsStay, FetchesKept DEF SelectorMoves, IInv, TypeOK

-----------------------------------------------------------------------------
(* The invariant *)

\* The places the accounts of the file take among the stamps.
LEMMA TurnsInRange ==
    ASSUME NEW S \in SUBSET Ids, NEW turn \in Turns(S)
    PROVE  /\ Cardinality(S) \in Nat
           /\ \A id \in S : turn[id] \in 1..Cardinality(S)
BY IdsFinite, FS_Subset, FS_CardinalityType DEF Turns

LEMMA InitHolds ==
    ASSUME Init
    PROVE  IInv
<1> DEFINE S == {id \in Ids : disk[id] # NoAccount}
           n == Cardinality(S)
<1>1. PICK turn \in Turns(S) :
        /\ revisions = [id \in Ids |-> IF id \in S THEN turn[id] ELSE 0]
        /\ lifecycles = revisions /\ credentials = revisions
        /\ nextRevision = n /\ nextLifecycle = nextRevision /\ nextCredential = nextRevision
  BY DEF Init
<1>2. n \in Nat /\ \A id \in S : turn[id] \in 1..n
  BY TurnsInRange
<1> HIDE DEF S, n
<1>3. revisions \in [Ids -> Nat] /\ \A id \in Ids : revisions[id] <= nextRevision
  <2>1. \A id \in Ids : (IF id \in S THEN turn[id] ELSE 0) \in 0..n
    BY <1>2
  <2>2. revisions \in [Ids -> 0..n]
    BY <1>1, <2>1
  <2> QED
    BY <1>1, <1>2, <2>2
<1>4. StoreTypeOK
  <2>1. disk \in [Ids -> Account \union {NoAccount}] /\ accounts = disk /\ failed = FALSE
    BY InitialFilesAreFiles DEF Init, BundleEntry
  <2> QED
    BY <1>1, <1>2, <1>3, <2>1 DEF StoreTypeOK
<1>5. /\ routing = [id \in Ids |-> NoState] /\ nextGeneration = 0
      /\ requests = [r \in Requests |-> Idle] /\ fetches = {} /\ forgetting = {}
      /\ basis = [id \in Ids |-> 0] /\ owes = [id \in Ids |-> FALSE]
  BY DEF Init
<1>6. /\ Idle \in Request /\ Idle.phase = "ready" /\ Idle.list = NoList
      /\ Idle.served \subseteq Idle.tried
  BY DEF Idle, Request, Lists, NoList
<1>7. TypeOK
  BY <1>4, <1>5, <1>6 DEF TypeOK
<1>8. Counted
  BY <1>1, <1>3 DEF Counted
<1>9. ListsSound /\ ListsOrdered /\ StatesOrdered
  BY <1>5, <1>6 DEF ListsSound, ListsOrdered, StatesOrdered, NoList
<1>10. StatesSound /\ StrictNeedsProof
  BY <1>5 DEF StatesSound, StrictNeedsProof, Present
<1>11. LeasesSound /\ OutdatedOvertaken /\ LateOvertaken
  BY <1>5, <1>6 DEF LeasesSound, OutdatedOvertaken, LateOvertaken, Leasing
<1> QED
  BY <1>7, <1>8, <1>9, <1>10, <1>11 DEF IInv

\* A step is the selector's own, or the store changes under it.
LEMMA StepIs ==
    ASSUME IInv, [Next]_vars
    PROVE  SelectorMoves \/ \E id \in Ids : Administer(id) \/ Delete(id)
<1>1. ASSUME NEW r \in Requests, ReadList(r) \/ Pick(r) \/ Peek(r) \/ Validate(r) \/ Skip(r)
      PROVE  SelectorMoves
  BY <1>1, ReadListMoves, PickMoves, PeekMoves, ValidateMoves, SkipMoves
<1>2. ASSUME NEW r \in Requests, Succeed(r) \/ Fail(r) \/ Deplete(r) \/ Resend(r) \/ End(r)
      PROVE  SelectorMoves
  BY <1>2, SucceedMoves, FailMoves, DepleteMoves, ResendMoves, EndMoves
<1>3. ASSUME NEW id \in Ids, CooldownElapses(id) \/ BeginUsage(id) \/ Forget(id)
      PROVE  SelectorMoves
  BY <1>3, CooldownMoves, BeginMoves, ForgetMoves
<1>4. ASSUME NEW f \in fetches, Observe(f) \/ DropUsage(f) \/ ApplyUsage(f)
      PROVE  SelectorMoves
  BY <1>4, ObserveMoves, DropMoves, ApplyMoves
<1>5. CASE UNCHANGED vars
  <2>1. UNCHANGED storeVars /\ UNCHANGED selectorVars
    BY <1>5 DEF vars
  <2> QED
    BY <2>1, KeepMoves, RequestsStay, RestStays DEF selectorVars
<1> QED
  BY <1>1, <1>2, <1>3, <1>4, <1>5, ReconcileMoves DEF Next

LEMMA NextKeeps ==
    ASSUME IInv, [Next]_vars
    PROVE  IInv'
BY StepIs, SelectorKeeps, AdministerKeeps, DeleteKeeps

\* The invariant holds for any requests, observations and administrators.
THEOREM Invariance == Spec => []IInv
<1>1. Init => IInv
  BY InitHolds
<1>2. IInv /\ [Next]_vars => IInv'
  BY NextKeeps
<1> QED
  BY <1>1, <1>2, PTL DEF Spec

\* The selector's variables hold what the Go types hold.
THEOREM TypeSafety == Spec => []TypeOK
<1>1. IInv => TypeOK
  BY DEF IInv
<1> QED
  BY <1>1, Invariance, PTL

\* A strict account is in the pool only on base credit seen under the policy
\* and credentials it has now.
THEOREM StrictSafety == Spec => []StrictNeedsProof
<1>1. IInv => StrictNeedsProof
  BY DEF IInv
<1> QED
  BY <1>1, Invariance, PTL

-----------------------------------------------------------------------------
(* What a step never does *)

\* A stale list never takes the state of an account back to an older revision.
THEOREM NoRollback == Spec => StateNeverRollsBack
<1> DEFINE Forward ==
      \A id \in Ids :
        routing[id] # NoState /\ routing'[id] # NoState
          => routing[id].revision <= routing'[id].revision
<1>1. ASSUME IInv, [Next]_vars PROVE Forward
  <2> SUFFICES ASSUME NEW id \in Ids, routing[id] # NoState, routing'[id] # NoState
               PROVE  routing[id].revision <= routing'[id].revision
    OBVIOUS
  <2>1. routing[id].revision \in Nat
    BY <1>1, StampsNat DEF IInv
  <2>2. CASE SelectorMoves
    BY <2>1, <2>2 DEF SelectorMoves, RoutingMoves, Moves, SameState, NewState
  <2>3. CASE routing' = routing
    BY <2>1, <2>3
  <2> QED
    BY <1>1, <2>2, <2>3, StepIs DEF Administer, Delete
<1> HIDE DEF Forward
<1>2. IInv /\ [Next]_vars => [Forward]_vars
  BY <1>1
<1>3. Spec => [][Forward]_vars
  BY <1>2, Invariance, PTL DEF Spec
<1> QED
  BY <1>3 DEF StateNeverRollsBack, Forward

\* A reported depletion ends with base credit seen later, and with nothing else.
THEOREM Stickiness == Spec => DepletionIsSticky
<1> DEFINE Sticky ==
      \A id \in Present :
        /\ routing[id] # NoState /\ routing'[id] # NoState
        /\ routing[id].lifecycle = lifecycles[id]
        /\ routing[id].reactive
        /\ routing[id].quota = "depleted" /\ routing'[id].quota # "depleted"
        => lifecycles'[id] # lifecycles[id] \/ ~owes'[id]
<1>1. ASSUME IInv, [Next]_vars PROVE Sticky
  <2>1. CASE SelectorMoves
    BY <2>1 DEF SelectorMoves, RoutingMoves, Moves, SameState, NewState, Present
  <2>2. CASE routing' = routing
    BY <2>2
  <2> QED
    BY <1>1, <2>1, <2>2, StepIs DEF Administer, Delete
<1> HIDE DEF Sticky
<1>2. IInv /\ [Next]_vars => [Sticky]_vars
  BY <1>1
<1>3. Spec => [][Sticky]_vars
  BY <1>2, Invariance, PTL DEF Spec
<1> QED
  BY <1>3 DEF DepletionIsSticky, Sticky

\* Which operation takes a dispatch to which phase.
LEMMA PhaseChanges ==
    ASSUME IInv, [Next]_vars, NEW r \in Requests,
           requests'[r].phase # requests[r].phase,
           requests'[r].phase \in {"leased", "sending", "streaming"}
    PROVE  Pick(r) \/ Validate(r) \/ Succeed(r) \/ Resend(r)
<1>1. /\ requests \in [Requests -> Request]
      /\ \A s \in Requests : \A t : Again(s, t).phase = "ready"
      /\ \A s \in Requests : Requeued(s).phase = "ready"
  BY DEF IInv, TypeOK, Again, Idle, Requeued
<1>2. ASSUME NEW id \in Ids, requests' = Outdate(requests, id)
      PROVE  FALSE
  BY <1>2, OutdatedRequest
<1>3. CASE requests' = requests
  BY <1>3
<1>4. ASSUME NEW s \in Requests, NEW q, requests' = [requests EXCEPT ![s] = q],
             s = r => q.phase \notin {"leased", "sending", "streaming"}
      PROVE  FALSE
  BY <1>1, <1>4
<1>5. ASSUME NEW s \in Requests, ReadList(s)
      PROVE  FALSE
  <2>1. requests[s] \in Request
    BY <1>1
  <2>2. [requests[s] EXCEPT !.phase = "listed", !.list = CurrentList].phase = "listed"
    BY <2>1 DEF Request
  <2> QED
    BY <1>4, <1>5, <2>2 DEF ReadList
<1>6. ASSUME NEW s \in Requests, Peek(s) \/ Skip(s)
      PROVE  FALSE
  BY <1>1, <1>4, <1>6 DEF Peek, Skip
<1>7. ASSUME NEW s \in Requests, End(s)
      PROVE  FALSE
  BY <1>4, <1>7 DEF End, Idle
<1>8. ASSUME NEW s \in Requests, s # r, Pick(s) \/ Validate(s) \/ Succeed(s) \/ Resend(s)
      PROVE  FALSE
  BY <1>1, <1>8 DEF Pick, TakeLease, Validate, Succeed, Resend
<1>9. ASSUME NEW s \in Requests, NEW kind, NEW l,
             requests' = AfterReport(s, kind) \/ requests' = Outdate(AfterReport(s, kind), l)
      PROVE  FALSE
  <2>1. AfterReport(s, kind)[r].phase \in {requests[r].phase, "ready"}
    <3>1. CASE requests[s].phase = "streaming"
      <4> DEFINE reported == [requests[s] EXCEPT !.reported = @ \union {kind}]
      <4>1. AfterReport(s, kind) = [requests EXCEPT ![s] = reported]
        BY <3>1 DEF AfterReport
      <4>2. reported.phase = requests[s].phase
        BY <1>1 DEF Request
      <4> HIDE DEF reported
      <4> QED
        BY <1>1, <4>1, <4>2
    <3>2. CASE requests[s].phase # "streaming"
      <4>1. AfterReport(s, kind) = [requests EXCEPT ![s] = Again(s, requests[s].tried)]
        BY <3>2 DEF AfterReport
      <4> QED
        BY <1>1, <4>1
    <3> QED
      BY <3>1, <3>2
  <2>2. Outdate(AfterReport(s, kind), l)[r].phase = AfterReport(s, kind)[r].phase
    BY DEF Outdate
  <2> QED
    BY <1>9, <2>1, <2>2
<1>10. ASSUME NEW s \in Requests, Fail(s) \/ Deplete(s)
       PROVE  FALSE
  BY <1>9, <1>10 DEF Fail, Deplete
<1>11. ASSUME NEW id \in Ids, \/ CooldownElapses(id) \/ BeginUsage(id)
                              \/ Administer(id) \/ Delete(id) \/ Forget(id)
       PROVE  FALSE
  BY <1>2, <1>3, <1>11 DEF CooldownElapses, BeginUsage, Administer, Delete, Forget
<1>12. CASE \/ Reconcile
            \/ \E f \in fetches : Observe(f) \/ DropUsage(f) \/ ApplyUsage(f)
            \/ UNCHANGED vars
  BY <1>3, <1>12 DEF Reconcile, Observe, DropUsage, ApplyUsage, vars, selectorVars
<1> QED
  BY <1>5, <1>6, <1>7, <1>8, <1>10, <1>11, <1>12 DEF Next

\* No send rests on a decision that has been overtaken since the pick.
THEOREM FreshSend == Spec => NoSendOnOutdatedLease
<1> DEFINE Fresh ==
      \A r \in Requests :
        requests[r].phase = "leased" /\ requests'[r].phase = "sending"
          => ~requests[r].lease.outdated
<1>1. ASSUME IInv, [Next]_vars PROVE Fresh
  <2> SUFFICES ASSUME NEW r \in Requests, requests[r].phase = "leased",
                      requests'[r].phase = "sending"
               PROVE  ~requests[r].lease.outdated
    OBVIOUS
  <2>1. Validate(r)
    <3>1. Pick(r) \/ Validate(r) \/ Succeed(r) \/ Resend(r)
      BY <1>1, PhaseChanges
    <3> QED
      BY <3>1 DEF Pick, Succeed, Resend
  <2>2. ~LeaseValid(requests[r].lease) =>
          requests'[r] = Requeued(r) \/ requests'[r] = Again(r, requests[r].tried)
    BY <1>1, <2>1 DEF Validate, IInv, TypeOK
  <2>3. LeaseValid(requests[r].lease)
    BY <2>2 DEF Requeued, Again, Idle
  <2> QED
    BY <1>1, <2>3 DEF IInv, OutdatedOvertaken, Overtaken, LeaseValid
<1> HIDE DEF Fresh
<1>2. IInv /\ [Next]_vars => [Fresh]_vars
  BY <1>1
<1>3. Spec => [][Fresh]_vars
  BY <1>2, Invariance, PTL DEF Spec
<1> QED
  BY <1>3 DEF NoSendOnOutdatedLease, Fresh

\* A slow success leaves a failure reported after its pick as it is.
THEOREM FailureStands == Spec => SuccessHidesNoFailure
<1> DEFINE Hidden ==
      \A r \in Requests :
        /\ requests[r].phase = "sending" /\ requests'[r].phase = "streaming"
        /\ requests[r].lease.outdated
        => routing' = routing
<1>1. ASSUME IInv, [Next]_vars PROVE Hidden
  <2> SUFFICES ASSUME NEW r \in Requests, requests[r].phase = "sending",
                      requests'[r].phase = "streaming", requests[r].lease.outdated
               PROVE  routing' = routing
    OBVIOUS
  <2>1. Succeed(r)
    <3>1. Pick(r) \/ Validate(r) \/ Succeed(r) \/ Resend(r)
      BY <1>1, PhaseChanges
    <3>2. Resend(r) => requests'[r].phase = "leased"
      BY <1>1 DEF Resend, IInv, TypeOK, Request
    <3> QED
      BY <3>1, <3>2 DEF Pick, Validate
  <2>2. Overtaken(requests[r].lease)
    BY <1>1 DEF IInv, OutdatedOvertaken
  <2> QED
    BY <2>1, <2>2 DEF Succeed, Overtaken, Accepts, KeepRouting
<1> HIDE DEF Hidden
<1>2. IInv /\ [Next]_vars => [Hidden]_vars
  BY <1>1
<1>3. Spec => [][Hidden]_vars
  BY <1>2, Invariance, PTL DEF Spec
<1> QED
  BY <1>3 DEF SuccessHidesNoFailure, Hidden

\* A dispatch never picks an account it has sent on.
THEOREM OneTurn == Spec => NoSecondTurn
<1> DEFINE Once ==
      \A r \in Requests :
        requests[r].phase = "listed" /\ requests'[r].phase = "leased"
          => requests'[r].lease.id \notin requests[r].served
<1>1. ASSUME IInv, [Next]_vars PROVE Once
  <2> SUFFICES ASSUME NEW r \in Requests, requests[r].phase = "listed",
                      requests'[r].phase = "leased"
               PROVE  requests'[r].lease.id \notin requests[r].served
    OBVIOUS
  <2>1. Pick(r)
    <3>1. Pick(r) \/ Validate(r) \/ Succeed(r) \/ Resend(r)
      BY <1>1, PhaseChanges
    <3> QED
      BY <3>1 DEF Validate, Succeed, Resend
  <2>2. /\ requests \in [Requests -> Request] /\ requests[r].served \subseteq requests[r].tried
        /\ \A t : Again(r, t).phase = "ready"
    BY <1>1 DEF IInv, TypeOK, LeasesSound, Again, Idle
  <2>3. \A t : requests' # [requests EXCEPT ![r] = Again(r, t)]
    BY <2>2
  <2>4. PICK id \in Candidates(r) : TakeLease(r, id)
    BY <2>1, <2>3 DEF Pick, InTier
  <2>5. requests'[r].lease = LeaseFor(r, id)
    BY <2>2, <2>4 DEF TakeLease, Again, Idle
  <2> QED
    BY <1>1, <2>2, <2>5, CandidateIsReading DEF LeaseFor
<1> HIDE DEF Once
<1>2. IInv /\ [Next]_vars => [Once]_vars
  BY <1>1
<1>3. Spec => [][Once]_vars
  BY <1>2, Invariance, PTL DEF Spec
<1> QED
  BY <1>3 DEF NoSecondTurn, Once
=============================================================================
