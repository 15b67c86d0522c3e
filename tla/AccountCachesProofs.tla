------------------------ MODULE AccountCachesProofs -------------------------
(***************************************************************************)
(* Proofs about AccountCaches, for any number of callers, fetches and      *)
(* changes.                                                                *)
(***************************************************************************)
EXTENDS AccountCaches, FiniteSetTheorems, TLAPS

USE NoEntryIsNone, BoundsAreNat

-----------------------------------------------------------------------------
(* The inductive invariant *)

CacheTypes ==
    /\ revision \in Nat
    /\ generation \in Nat
    /\ epoch \in Nat
    /\ cache \in Entry \union {NoEntry}
    /\ flights \subseteq Flight
    /\ callers \in [Callers -> Caller]

\* Nothing in the cache is from before the last invalidation.
CacheCurrent ==
    cache # NoEntry => cache.key.epoch = epoch /\ cache.key.revision <= revision

\* A lookup never aims behind the moment it began.
Forward(q) ==
    /\ q.phase \in {"begun", "targeted", "waiting", "fetched"} =>
         q.begun.revision <= revision /\ q.begun.epoch <= epoch
    /\ q.phase = "targeted" => q.want.revision >= q.begun.revision
    /\ q.phase \in {"waiting", "fetched"} => NotOlder(q.want, q.begun)

CallersForward == \A c \in Callers : Forward(callers[c])

IInv == CacheTypes /\ CacheCurrent /\ CallersForward

-----------------------------------------------------------------------------

LEMMA IdleIsCaller == Idle \in Caller /\ Failed \in Caller /\ NoKey \in Key
BY DEF Idle, Failed, Caller, NoKey, Key, ModelCalls, UsageCalls

LEMMA InitIInv == Init => IInv
<1> SUFFICES ASSUME Init PROVE IInv
  OBVIOUS
<1>1. CacheTypes
  BY IdleIsCaller DEF Init, CacheTypes
<1>2. CacheCurrent
  BY DEF Init, CacheCurrent
<1>3. CallersForward
  BY DEF Init, CallersForward, Forward, Idle
<1> QED
  BY <1>1, <1>2, <1>3 DEF IInv

LEMMA NowIsKey == IInv => Now \in Key
BY DEF IInv, CacheTypes, Now, Key

\* A step of one lookup: what it becomes is looked at, and nothing else.
LEMMA BecomesKeeps ==
    ASSUME IInv, NEW c \in Callers, NEW new \in Caller, Becomes(c, new), Forward(new),
           generation' \in Nat, flights' \subseteq Flight, UNCHANGED <<revision, cacheVars>>
    PROVE  IInv'
<1>1. CacheTypes'
  BY DEF IInv, CacheTypes, Becomes, cacheVars
<1>2. CacheCurrent'
  BY DEF IInv, CacheCurrent, cacheVars
<1>3. CallersForward'
  <2> SUFFICES ASSUME NEW d \in Callers PROVE Forward(callers[d])'
    BY DEF CallersForward
  <2>1. callers'[d] = IF d = c THEN new ELSE callers[d]
    BY DEF IInv, CacheTypes, Becomes
  <2>2. Forward(callers[d])
    BY DEF IInv, CallersForward
  <2> QED
    BY <2>1, <2>2 DEF Forward, NotOlder, cacheVars
<1> QED
  BY <1>1, <1>2, <1>3 DEF IInv

LEMMA FailedKeeps == Forward(Failed)
BY DEF Forward, Failed, Idle

\* Looking again keeps the beginning, and wants nothing yet.
LEMMA AgainKeeps ==
    ASSUME NEW q \in Caller, Forward(q), q.phase \in {"waiting", "fetched"}
    PROVE  Again(q) \in Caller /\ Forward(Again(q))
<1>1. CASE q.attempt < MaxRetries /\ q.call \notin {"ensureModels", "refreshUsageTarget"}
  <2>1. Again(q) = [q EXCEPT !.phase = "begun", !.attempt = @ + 1, !.want = NoKey]
    BY <1>1 DEF Again
  <2>2. Again(q) \in Caller
    <3>1. q.attempt \in 0..MaxRetries
      BY DEF Caller
    <3>2. q.attempt + 1 \in 0..MaxRetries
      BY <1>1, <3>1
    <3> QED
      BY <2>1, <3>2, IdleIsCaller DEF Caller
  <2>3. Again(q).phase = "begun" /\ Again(q).begun = q.begun
    BY <2>1 DEF Caller
  <2> QED
    BY <2>2, <2>3 DEF Forward
<1>2. CASE ~(q.attempt < MaxRetries /\ q.call \notin {"ensureModels", "refreshUsageTarget"})
  BY <1>2, IdleIsCaller, FailedKeeps DEF Again
<1> QED
  BY <1>1, <1>2

-----------------------------------------------------------------------------
(* The steps of a lookup *)

LEMMA BeginKeeps ==
    ASSUME IInv, NEW c \in Callers, NEW call \in Calls, Begin(c, call)
    PROVE  IInv'
<1> DEFINE b == IF call = "refreshUsageTarget" THEN Now ELSE [Now EXCEPT !.generation = 0]
           new == [Idle EXCEPT !.phase = "begun", !.call = call, !.begun = b]
<1>1. b \in Key /\ b.revision = revision /\ b.epoch = epoch
  BY NowIsKey DEF Now, Key
<1>2. call \in ModelCalls \union UsageCalls
  BY DEF Calls
<1>3. new \in Caller /\ new.phase = "begun" /\ new.begun = b
  BY <1>1, <1>2, IdleIsCaller DEF Idle, Caller
<1>4. Forward(new)
  BY <1>1, <1>3 DEF Forward, IInv, CacheTypes
<1> HIDE DEF b
<1> QED
  BY <1>3, <1>4, BecomesKeeps DEF Begin, accountVars, fetchVars, IInv, CacheTypes, b

LEMMA TargetKeeps ==
    ASSUME IInv, NEW c \in Callers, Target(c)
    PROVE  IInv'
<1> DEFINE q == callers[c]
<1>1. q \in Caller /\ q.phase = "begun" /\ Forward(q)
  BY DEF IInv, CacheTypes, CallersForward, Target
<1>2. generation' \in Nat /\ flights' \subseteq Flight /\ UNCHANGED <<revision, cacheVars>>
  BY DEF IInv, CacheTypes, Target, accountVars, fetchVars
<1>3. ASSUME NEW want \in Key, want.revision >= q.begun.revision,
             Becomes(c, [q EXCEPT !.phase = "targeted", !.want = want])
      PROVE  IInv'
  <2> DEFINE new == [q EXCEPT !.phase = "targeted", !.want = want]
  <2>1. new \in Caller /\ new.phase = "targeted" /\ new.want = want /\ new.begun = q.begun
    BY <1>1 DEF Caller
  <2>2. Forward(new)
    BY <1>1, <1>3, <2>1 DEF Forward
  <2> QED
    BY <1>2, <1>3, <2>1, <2>2, BecomesKeeps
<1>4. CASE q.call = "ensureModels"
  <2> DEFINE want == [q.begun EXCEPT !.epoch = 0]
  <2>1. want \in Key /\ want.revision = q.begun.revision /\ q.begun.revision \in Nat
    BY <1>1 DEF Caller, Key
  <2>2. Becomes(c, [q EXCEPT !.phase = "targeted", !.want = want])
    BY <1>4 DEF Target
  <2>3. want.revision >= q.begun.revision
    BY <2>1
  <2> HIDE DEF want
  <2> QED
    BY <1>3, <2>1, <2>2, <2>3
<1>5. CASE q.call # "ensureModels" /\ Obsolete(q)
  BY <1>2, <1>5, IdleIsCaller, FailedKeeps, BecomesKeeps DEF Target, Fails
<1>6. CASE q.call # "ensureModels" /\ ~Obsolete(q)
  <2> DEFINE want == [Now EXCEPT !.epoch = 0]
  <2>1. want \in Key /\ want.revision = revision
    BY NowIsKey DEF Key, Now
  <2>2. want.revision >= q.begun.revision
    BY <1>1, <2>1 DEF Forward, Caller, Key, IInv, CacheTypes
  <2> QED
    BY <1>3, <1>6, <2>1, <2>2 DEF Target
<1> QED
  BY <1>4, <1>5, <1>6

\* What the caller is answered from: the cache, or the fetch he waited for.
LEMMA LookKeeps ==
    ASSUME IInv, NEW c \in Callers, Look(c)
    PROVE  IInv'
<1> DEFINE q == callers[c]
           key == [q.want EXCEPT !.epoch = epoch]
<1>1. q \in Caller /\ q.phase = "targeted" /\ Forward(q)
  BY DEF IInv, CacheTypes, CallersForward, Look
<1>2. key \in Key /\ key.revision = q.want.revision /\ key.epoch = epoch
  BY <1>1 DEF Caller, Key, IInv, CacheTypes
<1>3. generation' \in Nat /\ UNCHANGED <<revision, cacheVars>>
  BY DEF IInv, CacheTypes, Look, accountVars
<1>4. CASE Answered(c) /\ UNCHANGED flights
  <2> DEFINE new == [Idle EXCEPT !.phase = "answered"]
  <2>1. new \in Caller /\ new.phase = "answered"
    BY IdleIsCaller DEF Idle, Caller
  <2>2. Forward(new)
    BY <2>1 DEF Forward
  <2> QED
    BY <1>3, <1>4, <2>1, <2>2, BecomesKeeps DEF Answered, IInv, CacheTypes
<1>5. ASSUME Becomes(c, [q EXCEPT !.phase = "waiting", !.want = key]), flights' \subseteq Flight
      PROVE  IInv'
  <2> DEFINE new == [q EXCEPT !.phase = "waiting", !.want = key]
  <2>1. new \in Caller /\ new.phase = "waiting" /\ new.want = key /\ new.begun = q.begun
    BY <1>1, <1>2 DEF Caller
  <2>2. Forward(new)
    BY <1>1, <1>2, <2>1 DEF Forward, NotOlder, IInv, CacheTypes, Caller, Key
  <2> QED
    BY <1>3, <1>5, <2>1, <2>2, BecomesKeeps
<1>6. CASE \E f \in Joins(key) : UNCHANGED flights
             /\ Becomes(c, [q EXCEPT !.phase = "waiting", !.want = f.key])
  BY <1>5, <1>6 DEF Joins, IInv, CacheTypes
<1>7. ASSUME NEW limited \in BOOLEAN, NEW state \in {"queued", "fetching"},
             flights' = flights \union {[key |-> key, limited |-> limited, state |-> state]},
             Becomes(c, [q EXCEPT !.phase = "waiting", !.want = key])
      PROVE  IInv'
  <2>1. [key |-> key, limited |-> limited, state |-> state] \in Flight
    BY <1>2 DEF Flight
  <2> QED
    BY <1>5, <1>7, <2>1 DEF IInv, CacheTypes
<1> QED
  BY <1>4, <1>6, <1>7 DEF Look

LEMMA AnsweredKeeps ==
    ASSUME IInv, NEW c \in Callers, Answered(c) \/ Fails(c), generation' \in Nat,
           UNCHANGED <<revision, cacheVars, flights>>
    PROVE  IInv'
<1> DEFINE new == [Idle EXCEPT !.phase = "answered"]
<1>1. new \in Caller /\ new.phase = "answered"
  BY IdleIsCaller DEF Idle, Caller
<1>2. Forward(new)
  BY <1>1 DEF Forward
<1>3. flights' \subseteq Flight
  BY DEF IInv, CacheTypes
<1>4. CASE Answered(c)
  BY <1>1, <1>2, <1>3, <1>4, BecomesKeeps DEF Answered
<1>5. CASE Fails(c)
  BY <1>3, <1>5, IdleIsCaller, FailedKeeps, BecomesKeeps DEF Fails
<1> QED
  BY <1>4, <1>5

LEMMA TakeKeeps ==
    ASSUME IInv, NEW c \in Callers, TakeModels(c) \/ TakeUsage(c) \/ GiveUp(c)
    PROVE  IInv'
<1>1. UNCHANGED <<revision, cacheVars, flights>>
  BY DEF TakeModels, TakeUsage, GiveUp, accountVars, fetchVars
<1>2. generation' \in Nat
  BY DEF TakeModels, TakeUsage, GiveUp, accountVars, IInv, CacheTypes
<1>3. \/ Answered(c) \/ Fails(c)
      \/ Becomes(c, Again(callers[c])) /\ callers[c].phase = "fetched"
  BY DEF TakeModels, TakeUsage, GiveUp
<1>4. CASE Becomes(c, Again(callers[c])) /\ callers[c].phase = "fetched"
  <2>1. callers[c] \in Caller /\ Forward(callers[c])
    BY DEF IInv, CacheTypes, CallersForward
  <2>2. Again(callers[c]) \in Caller /\ Forward(Again(callers[c]))
    BY <1>4, <2>1, AgainKeeps
  <2> QED
    BY <1>1, <1>2, <1>4, <2>2, BecomesKeeps DEF IInv, CacheTypes
<1> QED
  BY <1>1, <1>2, <1>3, <1>4, AnsweredKeeps

-----------------------------------------------------------------------------
(* The steps of a fetch, and of the account *)

\* A fetch ends: each waiter keeps what he began with and wants.
LEMMA EndsKeeps ==
    ASSUME IInv, NEW f \in flights,
           \/ Ends(f, Again) \/ Ends(f, AfterError) \/ Ends(f, AfterResult),
           UNCHANGED <<accountVars, cacheVars>>
    PROVE  IInv'
<1>1. flights' = flights \ {f}
  BY DEF Ends
<1>2. ASSUME NEW d \in Callers
      PROVE  /\ callers'[d] \in Caller
             /\ Forward(callers'[d])
  <2>1. callers[d] \in Caller /\ Forward(callers[d])
    BY DEF IInv, CacheTypes, CallersForward
  <2>2. \/ callers'[d] = callers[d]
        \/ /\ callers[d].phase = "waiting"
           /\ callers'[d] \in {Again(callers[d]), Failed, AfterResult(callers[d])}
    BY DEF Ends, AfterError
  <2>3. CASE callers[d].phase = "waiting" /\ callers'[d] = AfterResult(callers[d])
    <3>1. /\ AfterResult(callers[d]) \in Caller
          /\ AfterResult(callers[d]).phase = "fetched"
          /\ AfterResult(callers[d]).begun = callers[d].begun
          /\ AfterResult(callers[d]).want = callers[d].want
      BY <2>1 DEF AfterResult, Caller
    <3> QED
      BY <2>1, <2>3, <3>1 DEF Forward
  <2>4. CASE callers[d].phase = "waiting" /\ callers'[d] \in {Again(callers[d]), Failed}
    BY <2>1, <2>4, AgainKeeps, FailedKeeps, IdleIsCaller
  <2> QED
    BY <2>1, <2>2, <2>3, <2>4
<1>3. callers' = [d \in Callers |-> callers'[d]]
  BY DEF Ends
<1>4. callers' \in [Callers -> Caller]
  BY <1>2, <1>3
<1>5. CacheTypes'
  BY <1>1, <1>4 DEF IInv, CacheTypes, accountVars, cacheVars
<1>6. CacheCurrent'
  BY DEF IInv, CacheCurrent, accountVars, cacheVars
<1>7. CallersForward'
  BY <1>2 DEF CallersForward, Forward, NotOlder, accountVars, cacheVars
<1> QED
  BY <1>5, <1>6, <1>7 DEF IInv

\* A step that looks at no lookup: the account, the cache and the fetches
\* move, and none of them back.
LEMMA OthersKeep ==
    ASSUME IInv, UNCHANGED callers,
           revision' \in Nat, revision' >= revision, generation' \in Nat,
           epoch' \in Nat, epoch' >= epoch, flights' \subseteq Flight,
           cache' \in Entry \union {NoEntry}, CacheCurrent'
    PROVE  IInv'
<1>1. CacheTypes'
  BY DEF IInv, CacheTypes
<1>2. CallersForward'
  <2> SUFFICES ASSUME NEW d \in Callers PROVE Forward(callers[d])'
    BY DEF CallersForward
  <2>1. Forward(callers[d]) /\ callers[d] \in Caller
    BY DEF IInv, CallersForward, CacheTypes
  <2>2. callers[d].begun.revision \in Nat /\ callers[d].begun.epoch \in Nat
    BY <2>1 DEF Caller, Key
  <2> QED
    BY <2>1, <2>2 DEF Forward, NotOlder, IInv, CacheTypes
<1> QED
  BY <1>1, <1>2 DEF IInv

LEMMA FlightKeeps ==
    ASSUME IInv, NEW f \in flights, FlightStep(f)
    PROVE  IInv'
<1>1. f \in Flight
  BY DEF IInv, CacheTypes
<1>2. CASE UNCHANGED <<accountVars, cacheVars, callers>>
           /\ flights' = (flights \ {f}) \union {[f EXCEPT !.state = "fetching"]}
  <2>1. [f EXCEPT !.state = "fetching"] \in Flight
    BY <1>1 DEF Flight
  <2> QED
    BY <1>2, <2>1, OthersKeep DEF IInv, CacheTypes, CacheCurrent, accountVars, cacheVars
<1>3. CASE Land(f)
  <2>1. [f EXCEPT !.state = "landed"] \in Flight /\ [key |-> f.key, fresh |-> TRUE] \in Entry
    BY <1>1 DEF Flight, Entry
  <2>2. flights' \subseteq Flight /\ UNCHANGED <<callers, revision, generation, epoch>>
    BY <1>3, <2>1 DEF Land, IInv, CacheTypes, accountVars
  <2>3. cache' \in Entry \union {NoEntry} /\ CacheCurrent'
    <3>1. CASE MayCache(f.key)
      <4>1. cache' = [key |-> f.key, fresh |-> TRUE] /\ f.key.epoch = epoch /\ f.key.revision = revision
        BY <1>3, <3>1 DEF Land, MayCache, IsCurrent
      <4> QED
        BY <2>1, <2>2, <4>1 DEF CacheCurrent, IInv, CacheTypes
    <3>2. CASE ~MayCache(f.key)
      BY <1>3, <2>2, <3>2 DEF Land, CacheCurrent, IInv, CacheTypes
    <3> QED
      BY <3>1, <3>2
  <2> QED
    BY <2>2, <2>3, OthersKeep DEF IInv, CacheTypes
<1> QED
  BY <1>2, <1>3, EndsKeeps DEF FlightStep, Enter, Fail, Publish

LEMMA AccountKeeps ==
    ASSUME IInv,
           Expire \/ InvalidModel \/ RoutingMoves \/ Change \/ Refresh \/ Delete \/ Add \/ GoOn
    PROVE  IInv'
<1>1. UNCHANGED <<callers, flights>>
  BY DEF Expire, InvalidModel, RoutingMoves, Change, Refresh, Delete, Add, GoOn, fetchVars
<1>2. CASE Invalidate /\ UNCHANGED <<revision, generation>>
  BY <1>1, <1>2, OthersKeep DEF Invalidate, CacheCurrent, IInv, CacheTypes
<1>3. CASE UNCHANGED <<revision, epoch>> /\ generation' \in Nat /\ UNCHANGED cache
  BY <1>1, <1>3, OthersKeep DEF CacheCurrent, IInv, CacheTypes
<1>4. CASE NewRevision /\ UNCHANGED <<epoch, cache>>
  BY <1>1, <1>4, OthersKeep DEF NewRevision, CacheCurrent, IInv, CacheTypes, Entry, Key
<1>5. CASE Expire
  <2>1. cache' \in Entry /\ cache'.key = cache.key
    BY <1>5 DEF Expire, Entry, IInv, CacheTypes
  <2> QED
    BY <1>1, <1>5, <2>1, OthersKeep DEF Expire, CacheCurrent, IInv, CacheTypes, accountVars
<1>6. CASE RoutingMoves \/ Refresh \/ Delete
  BY <1>3, <1>6 DEF RoutingMoves, Refresh, Delete, accountVars, cacheVars, IInv, CacheTypes
<1>7. CASE GoOn
  BY <1>2, <1>3, <1>7 DEF GoOn, cacheVars, IInv, CacheTypes
<1> QED
  BY <1>2, <1>4, <1>5, <1>6, <1>7 DEF InvalidModel, Change, Add, accountVars, cacheVars

LEMMA StepKeeps == IInv /\ [Next]_vars => IInv'
<1> SUFFICES ASSUME IInv, [Next]_vars PROVE IInv'
  OBVIOUS
<1>1. ASSUME NEW c \in Callers, NEW call \in Calls, Begin(c, call) PROVE IInv'
  BY <1>1, BeginKeeps
<1>2. ASSUME NEW c \in Callers, CallerStep(c) \/ GiveUp(c) PROVE IInv'
  BY <1>2, TargetKeeps, LookKeeps, TakeKeeps DEF CallerStep
<1>3. ASSUME NEW f \in flights, FlightStep(f) PROVE IInv'
  BY <1>3, FlightKeeps
<1>4. CASE UNCHANGED vars
  BY <1>4, OthersKeep DEF vars, accountVars, cacheVars, fetchVars, IInv, CacheTypes, CacheCurrent
<1> QED
  BY <1>1, <1>2, <1>3, <1>4, AccountKeeps DEF Next

-----------------------------------------------------------------------------

(***************************************************************************)
(* A cache only moves forward, whatever the number of callers, of fetches  *)
(* under way and of changes.                                               *)
(***************************************************************************)
THEOREM CachesForward == Spec => CachesMoveForward
<1>1. IInv /\ [Next]_vars => [cache' # NoEntry /\ cache'.fresh =>
         LET new == cache'.key IN
         /\ new.epoch = epoch'
         /\ new.revision = revision'
         /\ cache # NoEntry =>
              /\ NotOlder(new, cache.key)
              /\ new.revision = cache.key.revision => new.generation >= cache.key.generation]_<<cache>>
  <2> SUFFICES ASSUME IInv, [Next]_vars, cache' # cache, cache' # NoEntry, cache'.fresh
               PROVE  /\ cache'.key.epoch = epoch'
                      /\ cache'.key.revision = revision'
                      /\ cache # NoEntry =>
                           /\ NotOlder(cache'.key, cache.key)
                           /\ cache'.key.revision = cache.key.revision =>
                                cache'.key.generation >= cache.key.generation
    OBVIOUS
  <2>1. PICK f \in flights : Land(f)
    <3>1. cache' = NoEntry \/ ~cache'.fresh \/ UNCHANGED cache \/ \E f \in flights : Land(f)
      <4>1. CASE Expire
        BY <4>1 DEF Expire, Entry, IInv, CacheTypes
      <4>2. CASE GoOn \/ InvalidModel
        BY <4>2 DEF GoOn, InvalidModel, Invalidate, cacheVars
      <4>3. CASE \E f \in flights : FlightStep(f)
        BY <4>3 DEF FlightStep, Enter, Fail, Publish, cacheVars
      <4>4. CASE \E c \in Callers : CallerStep(c) \/ GiveUp(c) \/ \E call \in Calls : Begin(c, call)
        BY <4>4 DEF CallerStep, Target, Look, TakeModels, TakeUsage, GiveUp, Begin, cacheVars
      <4>5. CASE RoutingMoves \/ Change \/ Refresh \/ Delete \/ Add \/ UNCHANGED vars
        BY <4>5 DEF RoutingMoves, Change, Refresh, Delete, Add, vars, cacheVars
      <4> QED
        BY <4>1, <4>2, <4>3, <4>4, <4>5 DEF Next
    <3> QED
      BY <3>1
  <2>2. f.key \in Key
    BY DEF IInv, CacheTypes, Flight
  <2>3. MayCache(f.key) /\ cache'.key = f.key /\ UNCHANGED <<revision, epoch>>
    BY <2>1 DEF Land, accountVars
  <2>4. cache # NoEntry => cache.key.revision <= revision /\ cache.key.epoch = epoch
    BY DEF IInv, CacheCurrent
  <2>5. cache # NoEntry => cache.key \in Key
    BY DEF IInv, CacheTypes, Entry
  <2> QED
    BY <2>2, <2>3, <2>4, <2>5 DEF MayCache, IsCurrent, NotOlder, Key, IInv, CacheTypes
<1> QED
  BY <1>1, InitIInv, StepKeeps, PTL DEF Spec, CachesMoveForward

\* An answer comes from the cache, at a hit, or from the fetch waited for.
LEMMA AnsweredFrom ==
    ASSUME IInv, Next, NEW d \in Callers,
           callers[d].phase # "answered", callers'[d].phase = "answered"
    PROVE  callers[d].phase = "fetched" \/ (callers[d].phase = "targeted" /\ Hit(callers[d]))
<1>1. callers[d] \in Caller /\ \A c \in Callers : callers[c] \in Caller
  BY DEF IInv, CacheTypes
<1>2. ASSUME NEW c \in Callers, NEW new, Becomes(c, new), new.phase # "answered"
      PROVE  FALSE
  BY <1>2 DEF Becomes, IInv, CacheTypes
<1>3. ASSUME NEW c \in Callers, Answered(c) PROVE d = c
  BY <1>3 DEF Answered, Becomes, IInv, CacheTypes
<1>4. ASSUME NEW c \in Callers, Fails(c) PROVE FALSE
  BY <1>2, <1>4 DEF Fails, Failed, Idle
<1>5. ASSUME NEW c \in Callers, NEW call \in Calls, Begin(c, call) PROVE FALSE
  <2> DEFINE b == IF call = "refreshUsageTarget" THEN Now ELSE [Now EXCEPT !.generation = 0]
             new == [Idle EXCEPT !.phase = "begun", !.call = call, !.begun = b]
  <2>1. Becomes(c, new)
    BY <1>5 DEF Begin
  <2>2. new.phase # "answered"
    BY DEF Idle
  <2> QED
    BY <1>2, <2>1, <2>2
<1>6. ASSUME NEW c \in Callers, NEW want, NEW phase \in {"targeted", "waiting"},
             Becomes(c, [callers[c] EXCEPT !.phase = phase, !.want = want])
      PROVE  FALSE
  <2> DEFINE new == [callers[c] EXCEPT !.phase = phase, !.want = want]
  <2>1. new.phase # "answered"
    BY <1>1 DEF Caller
  <2> QED
    BY <1>2, <1>6, <2>1
<1>7. ASSUME NEW c \in Callers, Becomes(c, Again(callers[c])) PROVE FALSE
  <2>1. Again(callers[c]).phase # "answered"
    BY <1>1 DEF Again, Caller, Failed, Idle
  <2> QED
    BY <1>2, <1>7, <2>1
<1>8. ASSUME NEW c \in Callers, Target(c) PROVE FALSE
  BY <1>4, <1>6, <1>8 DEF Target
<1>9. ASSUME NEW c \in Callers, Look(c)
      PROVE  callers[d].phase = "targeted" /\ Hit(callers[d])
  BY <1>3, <1>6, <1>9 DEF Look
<1>10. ASSUME NEW c \in Callers, TakeModels(c) \/ TakeUsage(c)
       PROVE  callers[d].phase = "fetched"
  BY <1>3, <1>4, <1>7, <1>10 DEF TakeModels, TakeUsage
<1>11. ASSUME NEW c \in Callers, GiveUp(c) PROVE FALSE
  BY <1>4, <1>11 DEF GiveUp
<1>12. ASSUME NEW f \in flights,
              Ends(f, Again) \/ Ends(f, AfterError) \/ Ends(f, AfterResult)
       PROVE  FALSE
  <2>1. callers'[d] \in {callers[d], Again(callers[d]), Failed, AfterResult(callers[d])}
    BY <1>12 DEF Ends, AfterError
  <2> QED
    BY <1>1, <2>1 DEF Again, AfterResult, Failed, Idle, Caller
<1>13. ASSUME NEW f \in flights, FlightStep(f) PROVE FALSE
  BY <1>12, <1>13 DEF FlightStep, Enter, Fail, Land, Publish
<1>14. ASSUME UNCHANGED callers PROVE FALSE
  BY <1>14
<1> QED
  BY <1>5, <1>8, <1>9, <1>10, <1>11, <1>13, <1>14
  DEF Next, CallerStep, Expire, InvalidModel, RoutingMoves, Change, Refresh, Delete, Add, GoOn

(***************************************************************************)
(* Nobody is answered with what was true only before he asked, whatever    *)
(* the number of callers, of fetches under way and of changes.             *)
(***************************************************************************)
THEOREM AnswersForward == Spec => AnswersNotOlder
<1>1. IInv /\ [Next]_vars => [\A c \in Callers :
         callers[c].phase # "answered" /\ callers'[c].phase = "answered" =>
             LET answer == IF callers[c].phase = "targeted" THEN cache.key ELSE callers[c].want
             IN NotOlder(answer, callers[c].begun)]_<<callers>>
  <2> SUFFICES ASSUME IInv, [Next]_vars, NEW d \in Callers,
                      callers[d].phase # "answered", callers'[d].phase = "answered"
               PROVE  NotOlder(IF callers[d].phase = "targeted" THEN cache.key ELSE callers[d].want,
                               callers[d].begun)
    OBVIOUS
  <2> DEFINE q == callers[d]
  <2>1. q \in Caller /\ Forward(q)
    BY DEF IInv, CacheTypes, CallersForward
  <2>2. CASE q.phase = "targeted" /\ Hit(q)
    <3>1. cache.key \in Key /\ cache.key.epoch = epoch /\ cache.key.revision = q.want.revision
      BY <2>2 DEF Hit, IInv, CacheTypes, CacheCurrent, Entry
    <3> QED
      BY <2>1, <2>2, <3>1 DEF Forward, NotOlder
  <2>3. CASE q.phase = "fetched"
    BY <2>1, <2>3 DEF Forward
  <2>4. Next
    BY DEF vars
  <2>5. q.phase = "fetched" \/ (q.phase = "targeted" /\ Hit(q))
    BY <2>4, AnsweredFrom
  <2> QED
    BY <2>2, <2>3, <2>5
<1> QED
  BY <1>1, InitIInv, StepKeeps, PTL DEF Spec, AnswersNotOlder

-----------------------------------------------------------------------------
(* The fetches under way: one for each key, and the probe's in the limiter *)

OnePerKey == \A f, g \in flights : f.key = g.key => f = g

\* Only the probe's fetches queue for a place.
ProbesQueue == \A f \in flights : f.state = "queued" => f.limited

PlacesTaken == IsFiniteSet(flights) /\ LimiterExact

FlightsInv == stored \in BOOLEAN /\ kind \in Kinds /\ OnePerKey /\ ProbesQueue /\ PlacesTaken

Fetching == OnePerKey /\ ProbesQueue /\ PlacesTaken

LEMMA PlacesAreFinite ==
    ASSUME FlightsInv
    PROVE  /\ IsFiniteSet(flights) /\ IsFiniteSet(InLimiter)
           /\ places = Cardinality(InLimiter) /\ places \in Nat /\ places <= Limit
<1>1. InLimiter \subseteq flights
  BY DEF InLimiter
<1>2. IsFiniteSet(InLimiter)
  BY <1>1, FS_Subset DEF FlightsInv, PlacesTaken
<1> QED
  BY <1>2, FS_CardinalityType DEF FlightsInv, PlacesTaken, LimiterExact

LEMMA FetchesStay ==
    ASSUME FlightsInv, UNCHANGED fetchVars
    PROVE  Fetching'
<1>1. flights' = flights /\ places' = places
  BY DEF fetchVars
<1>2. InLimiter' = InLimiter
  BY <1>1 DEF InLimiter
<1> QED
  BY <1>1, <1>2
  DEF FlightsInv, Fetching, OnePerKey, ProbesQueue, PlacesTaken, LimiterExact

\* A fetch is over; its place is free, if it had one.
LEMMA FetchEnds ==
    ASSUME FlightsInv, NEW f \in flights, flights' = flights \ {f}, GivesBack(f)
    PROVE  Fetching'
<1>1. InLimiter' = InLimiter \ {f}
  BY DEF InLimiter
<1>2. OnePerKey' /\ ProbesQueue'
  BY DEF FlightsInv, OnePerKey, ProbesQueue
<1>3. IsFiniteSet(flights')
  BY PlacesAreFinite, FS_RemoveElement
<1>4. /\ IsFiniteSet(InLimiter) /\ places = Cardinality(InLimiter)
      /\ places \in Nat /\ places <= Limit
  BY PlacesAreFinite
<1>5. Cardinality(InLimiter \ {f}) = IF f \in InLimiter THEN places - 1 ELSE places
  BY <1>4, FS_RemoveElement
<1>6. places' = Cardinality(InLimiter \ {f}) /\ places' <= Limit
  BY <1>4, <1>5 DEF GivesBack
<1> QED
  BY <1>1, <1>2, <1>3, <1>6 DEF Fetching, PlacesTaken, LimiterExact

\* A new fetch is either in the queue, or none of the probe's.
LEMMA FetchBegins ==
    ASSUME FlightsInv, NEW f, f.limited <=> f.state = "queued",
           \A g \in flights : g.key # f.key, flights' = flights \union {f}, UNCHANGED places
    PROVE  Fetching'
<1>1. InLimiter' = InLimiter
  BY DEF InLimiter
<1>2. IsFiniteSet(flights')
  BY PlacesAreFinite, FS_AddElement
<1>3. OnePerKey' /\ ProbesQueue'
  BY DEF FlightsInv, OnePerKey, ProbesQueue
<1> QED
  BY <1>1, <1>2, <1>3 DEF FlightsInv, Fetching, PlacesTaken, LimiterExact

\* A fetch goes on: into the place that was free, or in the place it has.
LEMMA FetchGoesOn ==
    ASSUME FlightsInv, NEW f \in flights, NEW g,
           g.key = f.key, g.limited = f.limited, g.state # f.state, g.state # "queued",
           flights' = (flights \ {f}) \union {g},
           IF f.state = "queued" THEN PlaceFree /\ places' = places + 1 ELSE places' = places
    PROVE  Fetching'
<1> DEFINE others == InLimiter \ {f}
<1>1. OnePerKey' /\ ProbesQueue'
  BY DEF FlightsInv, OnePerKey, ProbesQueue
<1>2. IsFiniteSet(flights')
  BY PlacesAreFinite, FS_RemoveElement, FS_AddElement
<1>3. /\ IsFiniteSet(InLimiter) /\ places = Cardinality(InLimiter)
      /\ places \in Nat /\ places <= Limit
  BY PlacesAreFinite
<1>4. InLimiter' = IF f.limited THEN others \union {g} ELSE others
  BY DEF InLimiter
<1>5. g \notin others
  BY DEF InLimiter, FlightsInv, OnePerKey
<1>6. /\ IsFiniteSet(others)
      /\ Cardinality(others) = IF f \in InLimiter THEN places - 1 ELSE places
  BY <1>3, FS_RemoveElement
<1>7. Cardinality(others \union {g}) = Cardinality(others) + 1
  BY <1>5, <1>6, FS_AddElement
<1>8. f \in InLimiter <=> f.limited /\ f.state # "queued"
  BY DEF InLimiter
<1>9. f.state = "queued" => f.limited
  BY DEF FlightsInv, ProbesQueue
<1> HIDE DEF others
<1>10. Cardinality(InLimiter') = places' /\ places' <= Limit
  <2>1. CASE f.state = "queued"
    BY <1>3, <1>4, <1>6, <1>7, <1>8, <1>9, <2>1 DEF PlaceFree
  <2>2. CASE f.state # "queued" /\ f.limited
    BY <1>3, <1>4, <1>6, <1>7, <1>8, <2>2
  <2>3. CASE f.state # "queued" /\ ~f.limited
    BY <1>3, <1>4, <1>6, <1>8, <2>3
  <2> QED
    BY <2>1, <2>2, <2>3
<1> QED
  BY <1>1, <1>2, <1>10 DEF Fetching, PlacesTaken, LimiterExact

LEMMA LookKeepsFetches ==
    ASSUME FlightsInv, NEW c \in Callers, Look(c)
    PROVE  Fetching'
<1> DEFINE key == [callers[c].want EXCEPT !.epoch = epoch]
           limited == callers[c].call = "refreshUsageTarget"
           f == [key |-> key, limited |-> limited,
                 state |-> IF limited THEN "queued" ELSE "fetching"]
<1>1. UNCHANGED places
  BY DEF Look
<1>2. CASE UNCHANGED flights
  BY <1>1, <1>2, FetchesStay DEF fetchVars
<1>3. CASE Joins(key) = {} /\ flights' = flights \union {f}
  <2>1. f.limited <=> f.state = "queued"
    OBVIOUS
  <2>2. \A g \in flights : g.key # f.key
    BY <1>3 DEF Joins
  <2> HIDE DEF f
  <2> QED
    BY <1>1, <1>3, <2>1, <2>2, FetchBegins
<1> QED
  BY <1>2, <1>3 DEF Look

LEMMA FlightKeepsFetches ==
    ASSUME IInv, FlightsInv, NEW f \in flights, FlightStep(f)
    PROVE  Fetching'
<1>1. f \in Flight
  BY DEF IInv, CacheTypes
<1>2. CASE GivesBack(f) /\ (Ends(f, Again) \/ Ends(f, AfterError) \/ Ends(f, AfterResult))
  BY <1>2, FetchEnds DEF Ends
<1>3. ASSUME NEW state \in {"fetching", "landed"}, state # f.state,
             flights' = (flights \ {f}) \union {[f EXCEPT !.state = state]},
             IF f.state = "queued" THEN PlaceFree /\ places' = places + 1 ELSE places' = places
      PROVE  Fetching'
  <2> DEFINE g == [f EXCEPT !.state = state]
  <2>1. g.key = f.key /\ g.limited = f.limited /\ g.state = state
    BY <1>1 DEF Flight
  <2> HIDE DEF g
  <2> QED
    BY <1>3, <2>1, FetchGoesOn DEF g
<1>4. CASE Land(f)
  BY <1>3, <1>4 DEF Land
<1>5. CASE Enter(f)
  <2>1. CASE Ends(f, Again) /\ UNCHANGED places
    <3>1. GivesBack(f)
      BY <1>5, <2>1 DEF Enter, GivesBack, InLimiter
    <3> QED
      BY <1>2, <2>1, <3>1
  <2>2. CASE /\ flights' = (flights \ {f}) \union {[f EXCEPT !.state = "fetching"]}
             /\ places' = places + 1
    BY <1>3, <1>5, <2>2 DEF Enter
  <2> QED
    BY <1>5, <2>1, <2>2 DEF Enter
<1> QED
  BY <1>2, <1>4, <1>5 DEF FlightStep, Fail, Publish

LEMMA StepKeepsFetches == IInv /\ FlightsInv /\ [Next]_vars => FlightsInv'
<1> SUFFICES ASSUME IInv, FlightsInv, [Next]_vars PROVE FlightsInv'
  OBVIOUS
<1>1. stored' \in BOOLEAN /\ kind' = kind
  <2>1. CASE \E c \in Callers : CallerStep(c) \/ GiveUp(c) \/ \E call \in Calls : Begin(c, call)
    BY <2>1 DEF FlightsInv, CallerStep, Target, Look, TakeModels, TakeUsage, GiveUp, Begin,
                cacheVars, accountVars
  <2>2. CASE \E f \in flights : FlightStep(f)
    BY <2>2 DEF FlightsInv, FlightStep, Enter, Fail, Land, Publish, cacheVars, accountVars
  <2>3. CASE Expire \/ InvalidModel \/ GoOn \/ RoutingMoves \/ UNCHANGED vars
    BY <2>3 DEF FlightsInv, Expire, InvalidModel, GoOn, RoutingMoves, Invalidate, vars,
                cacheVars, accountVars
  <2>4. CASE Change \/ Refresh \/ Delete \/ Add
    BY <2>4 DEF FlightsInv, Change, Refresh, Delete, Add, cacheVars, accountVars
  <2> QED
    BY <2>1, <2>2, <2>3, <2>4 DEF Next
<1>2. Fetching'
  <2>1. CASE \E c \in Callers : Look(c)
    BY <2>1, LookKeepsFetches
  <2>2. CASE \E f \in flights : FlightStep(f)
    BY <2>2, FlightKeepsFetches
  <2>3. CASE UNCHANGED fetchVars
    BY <2>3, FetchesStay
  <2> QED
    BY <2>1, <2>2, <2>3 DEF Next, CallerStep, Target, TakeModels, TakeUsage, GiveUp, Begin, Expire,
          InvalidModel, RoutingMoves, Change, Refresh, Delete, Add, GoOn, vars
<1> QED
  BY <1>1, <1>2 DEF FlightsInv, Fetching

LEMMA InitFetches == Init => FlightsInv
<1> SUFFICES ASSUME Init PROVE FlightsInv
  OBVIOUS
<1>1. flights = {} /\ InLimiter = {} /\ places = 0
  BY DEF Init, InLimiter
<1> QED
  BY <1>1, FS_EmptySet
  DEF Init, FlightsInv, OnePerKey, ProbesQueue, PlacesTaken, LimiterExact

(***************************************************************************)
(* The types; and for any limit and any number of callers, a key is        *)
(* fetched once at a time.                                                 *)
(***************************************************************************)
THEOREM TypeSafety == Spec => []TypeOK
<1>1. IInv /\ FlightsInv => TypeOK
  BY PlacesAreFinite DEF IInv, CacheTypes, FlightsInv, OnePerKey, TypeOK
<1> QED
  BY <1>1, InitIInv, InitFetches, StepKeeps, StepKeepsFetches, PTL DEF Spec

(***************************************************************************)
(* For any limit, and any number of callers and of scans that are over,    *)
(* the places of the limiter that are taken are those of the probe's       *)
(* fetches past the queue: none is given back before its fetch is over,    *)
(* and none is lost, whoever gave up on it and however it ended.           *)
(***************************************************************************)
THEOREM LimiterSafety == Spec => []LimiterExact
<1>1. FlightsInv => LimiterExact
  BY DEF FlightsInv, PlacesTaken
<1> QED
  BY <1>1, InitIInv, InitFetches, StepKeeps, StepKeepsFetches, PTL DEF Spec
=============================================================================
