--------------------------- MODULE AccountCaches ----------------------------
(***************************************************************************)
(* The usage and the model cache of an account (server.go), and whoever    *)
(* fills and reads them: lookups that share a fetch already under way, the *)
(* quota probe with its limiter (probe.go), and the admin's handlers, that *)
(* change the account and drop what is cached about it (admin.go).         *)
(*                                                                         *)
(* A fetch runs detached from the lookups that wait for it, and its key    *)
(* says under which revision, generation and epoch it was begun.           *)
(*                                                                         *)
(* The two caches work alike and never look at each other: a behaviour is  *)
(* about one of them.                                                      *)
(***************************************************************************)
EXTENDS Naturals, Sequences, FiniteSets

CONSTANTS
    Callers,         \* goroutines that look something up
    Limit,           \* the probe's concurrency
    MaxRetries,      \* maxUsageObservationRetries, maxModelRevisionRetries
    NoEntry,
    MaxMoves,        \* bound of the model: see CanMove
    MaxFlights       \* bound of the model: fetches under way at once

ASSUME BoundsAreNat == Limit \in Nat /\ MaxRetries \in Nat /\ MaxFlights \in Nat

VARIABLES
    stored,          \* the account is in the store
    revision,        \* its revision there
    generation,      \* its generation in the selector
    kind,            \* the cache: "usage" or "models"
    epoch,           \* usageEpoch, modelsEpoch
    cache,           \* usageCache, modelsCache
    flights,         \* fetches under way: usageGroup, modelsGroup
    places,          \* places of the probe's limiter that are taken
    callers,
    todo             \* what the admin's handler has yet to do

accountVars == <<stored, revision, generation>>
cacheVars == <<kind, epoch, cache>>
fetchVars == <<flights, places>>
vars == <<accountVars, cacheVars, fetchVars, callers, todo>>

Kinds == {"usage", "models"}

\* What a fetch is begun under.
Key == [revision : Nat, generation : Nat, epoch : Nat]

\* A cached result; the epoch it was begun in is history.
Entry == [key : Key, fresh : BOOLEAN]

Flight == [key : Key, limited : BOOLEAN, state : {"queued", "fetching", "landed"}]

ASSUME NoEntryIsNone == NoEntry \notin Entry

ModelCalls == {"ensureModels", "ensureModelsCurrent"}
UsageCalls == {"ensureUsage", "ensureUsageReadOnly", "refreshUsage", "refreshUsageTarget"}

Calls == IF kind = "models" THEN ModelCalls ELSE UsageCalls

\* Calls for the account as it was when they began (expectedRevision, creds).
PinsRevision == {"ensureModels", "ensureUsage", "ensureUsageReadOnly"}

\* Calls that apply what they learn to the selector (observeSelector).
Observes == {"ensureUsage", "refreshUsage", "refreshUsageTarget"}

\* A lookup: the stamp it began with, the fetch it wants, its channel.
Caller == [phase : {"ready", "failed", "answered", "begun", "targeted", "waiting", "fetched"},
           call : ModelCalls \union UsageCalls,
           begun : Key, want : Key, attempt : 0..MaxRetries]

\* A model list has nothing to do with the selector's generation.
Now == [revision |-> revision, epoch |-> epoch,
        generation |-> IF kind = "usage" THEN generation ELSE 0]

NoKey == [revision |-> 0, generation |-> 0, epoch |-> 0]

Idle == [phase |-> "ready", call |-> "ensureModels", begun |-> NoKey, want |-> NoKey,
         attempt |-> 0]

\* How often the account, its routing state and the cache may change.
CanMove(n) == revision + generation + epoch + n <= MaxMoves

Init ==
    /\ stored = TRUE
    /\ revision = 1
    /\ generation = 1
    /\ kind \in Kinds
    /\ epoch = 0
    /\ cache = NoEntry
    /\ flights = {}
    /\ places = 0
    /\ callers = [c \in Callers |-> Idle]
    /\ todo = <<>>

-----------------------------------------------------------------------------
(* A lookup: accountUsage and ensureModels, with their retries *)

Becomes(c, new) == callers' = [callers EXCEPT ![c] = new]

Failed == [Idle EXCEPT !.phase = "failed"]
Fails(c) == Becomes(c, Failed)
Answered(c) == Becomes(c, [Idle EXCEPT !.phase = "answered"])

Begin(c, call) ==
    /\ callers[c].phase = "ready"
    /\ stored
    /\ Becomes(c, [Idle EXCEPT !.phase = "begun", !.call = call, !.begun =
         IF call = "refreshUsageTarget" THEN Now ELSE [Now EXCEPT !.generation = 0]])
    /\ UNCHANGED <<accountVars, cacheVars, fetchVars, todo>>

\* usageTarget, byID: the account as it is now, if the call is still for it.
Obsolete(q) ==
    \/ ~stored
    \/ q.call \in PinsRevision /\ revision # q.begun.revision
    \/ /\ q.call = "refreshUsageTarget"
       /\ revision # q.begun.revision \/ generation # q.begun.generation

Target(c) ==
    LET q == callers[c] IN
    /\ q.phase = "begun"
    /\ IF q.call = "ensureModels"
         THEN Becomes(c, [q EXCEPT !.phase = "targeted", !.want = [q.begun EXCEPT !.epoch = 0]])
       ELSE IF Obsolete(q) THEN Fails(c)
       ELSE Becomes(c, [q EXCEPT !.phase = "targeted", !.want = [Now EXCEPT !.epoch = 0]])
    /\ UNCHANGED <<accountVars, cacheVars, fetchVars, todo>>

\* The caches are asked first, by calls that allow it and did not retry.
AllowsCache(q) ==
    \/ q.call \in ModelCalls
    \/ q.call \in {"ensureUsage", "ensureUsageReadOnly"} /\ q.attempt = 0

Hit(q) ==
    /\ AllowsCache(q)
    /\ cache # NoEntry
    /\ cache.fresh
    /\ cache.key.revision = q.want.revision

JoinsAnyEpoch(key) ==   \* mutant: the epoch is not part of the key
    {f \in flights : [f.key EXCEPT !.epoch = 0] = [key EXCEPT !.epoch = 0]}

Joins(key) == {f \in flights : f.key = key}

(***************************************************************************)
(* The cache answers; or a fetch with the same key is joined, or one is    *)
(* begun (DoChan).  The code reads the epoch a moment before it calls      *)
(* DoChan, which is as if an invalidation in between came after both.      *)
(***************************************************************************)
Look(c) ==
    LET q == callers[c]
        key == [q.want EXCEPT !.epoch = epoch]
        limited == q.call = "refreshUsageTarget"
        WaitsFor(k) == Becomes(c, [q EXCEPT !.phase = "waiting", !.want = k]) IN
    /\ q.phase = "targeted"
    /\ \/ Hit(q) /\ Answered(c) /\ UNCHANGED flights
       \/ /\ ~Hit(q)
          /\ \E f \in Joins(key) : WaitsFor(f.key)
          /\ UNCHANGED flights
       \/ /\ ~Hit(q)
          /\ Joins(key) = {}
          /\ Cardinality(flights) < MaxFlights
          /\ flights' = flights \union
                {[key |-> key, limited |-> limited,
                  state |-> IF limited THEN "queued" ELSE "fetching"]}
          /\ WaitsFor(key)
    /\ UNCHANGED <<accountVars, cacheVars, places, todo>>

GiveUpItsPlace(c) ==   \* mutant: who gives up takes the place from its fetch
    /\ callers[c].phase = "waiting"
    /\ Fails(c)
    /\ places' = IF \E f \in Joins(callers[c].want) : f.limited /\ f.state = "fetching"
                   THEN places - 1 ELSE places
    /\ UNCHANGED <<accountVars, cacheVars, flights, todo>>

\* The caller's context ends; the fetch goes on, and keeps its place.
GiveUp(c) ==
    /\ \/ callers[c].phase \in {"waiting", "fetched"}
       \/ callers[c].phase = "targeted" /\ ~Hit(callers[c])
    /\ Fails(c)
    /\ UNCHANGED <<accountVars, cacheVars, fetchVars, todo>>

\* A call that is not pinned looks again; the probe's is.
Again(q) ==
    IF q.attempt < MaxRetries /\ q.call \notin {"ensureModels", "refreshUsageTarget"}
      THEN [q EXCEPT !.phase = "begun", !.attempt = @ + 1, !.want = NoKey]
      ELSE Failed

IsCurrent(key) == stored /\ revision = key.revision

(***************************************************************************)
(* A model list counts while neither its revision nor its epoch moved.  (The *)
(* code reads them one after the other: a change in between has the same   *)
(* outcome as one before or after both.)                                   *)
(***************************************************************************)
TakeModels(c) ==
    LET q == callers[c] IN
    /\ q.phase = "fetched"
    /\ q.call \in ModelCalls
    /\ IF IsCurrent(q.want) /\ epoch = q.want.epoch THEN Answered(c)
                                                    ELSE Becomes(c, Again(q))
    /\ UNCHANGED <<accountVars, cacheVars, fetchVars, todo>>

(***************************************************************************)
(* Usage counts while its revision stands; and to be applied, the selector *)
(* must be as it was: then it may move on.  Usage without credit is        *)
(* answered, and not applied.                                              *)
(***************************************************************************)
TakeUsage(c) ==
    LET q == callers[c] IN
    /\ q.phase = "fetched"
    /\ q.call \in UsageCalls
    /\ \/ /\ ~IsCurrent(q.want)
          /\ IF q.call \in PinsRevision THEN Fails(c) ELSE Becomes(c, Again(q))
          /\ UNCHANGED generation
       \/ /\ IsCurrent(q.want)
          /\ Answered(c)
          /\ UNCHANGED generation
       \/ /\ IsCurrent(q.want)
          /\ q.call \in Observes
          /\ IF generation = q.want.generation
               THEN CanMove(1) /\ generation' = generation + 1 /\ Answered(c)
               ELSE Becomes(c, Again(q)) /\ UNCHANGED generation
    /\ UNCHANGED <<stored, revision, cacheVars, fetchVars, todo>>

-----------------------------------------------------------------------------
(* A fetch *)

\* The key is free again, and every waiter has the outcome in its channel;
\* an error decides at once what becomes of him.
Ends(f, After(_)) ==
    /\ flights' = flights \ {f}
    /\ callers' = [c \in Callers |->
         IF callers[c].phase = "waiting" /\ callers[c].want = f.key
           THEN After(callers[c])
           ELSE callers[c]]

AfterError(q) == Failed
AfterResult(q) == [q EXCEPT !.phase = "fetched"]

\* Fetches of the probe that are past the queue.
InLimiter == {f \in flights : f.limited /\ f.state # "queued"}

\* The limiter's channel has room.
PlaceFree == places < Limit

\* What the fetch took of the limiter is given back, if it took a place.
GivesBack(f) == places' = IF f \in InLimiter THEN places - 1 ELSE places

(***************************************************************************)
(* A probe's fetch gets a place, and looks again at what it is for: if     *)
(* that is no longer so, the place is free at once.                        *)
(***************************************************************************)
Enter(f) ==
    /\ f.state = "queued"
    /\ PlaceFree
    /\ IF IsCurrent(f.key) /\ generation = f.key.generation
         THEN /\ flights' = (flights \ {f}) \union {[f EXCEPT !.state = "fetching"]}
              /\ places' = places + 1
              /\ UNCHANGED callers
         ELSE Ends(f, Again) /\ UNCHANGED places
    /\ UNCHANGED <<accountVars, cacheVars, todo>>

\* Upstream refuses, or the fetch's own context ends, in the queue or later.
Fail(f) ==
    /\ f.state \in {"queued", "fetching"}
    /\ Ends(f, AfterError)
    /\ GivesBack(f)
    /\ UNCHANGED <<accountVars, cacheVars, todo>>

MayCacheAnyEpoch(key) ==   \* mutant: an invalidation meanwhile is not noticed
    /\ IsCurrent(key)
    /\ cache # NoEntry /\ cache.key.revision = key.revision
         => cache.key.generation <= key.generation

\* Still of this revision and epoch, and nothing newer is there.
MayCache(key) ==
    /\ IsCurrent(key)
    /\ epoch = key.epoch
    /\ cache # NoEntry /\ cache.key.revision = key.revision
         => cache.key.generation <= key.generation

\* The answer is there; it is cached before anyone is told.
Land(f) ==
    /\ f.state = "fetching"
    /\ flights' = (flights \ {f}) \union {[f EXCEPT !.state = "landed"]}
    /\ cache' = IF MayCache(f.key) THEN [key |-> f.key, fresh |-> TRUE] ELSE cache
    /\ UNCHANGED <<accountVars, kind, epoch, places, callers, todo>>

Publish(f) ==
    /\ f.state = "landed"
    /\ Ends(f, AfterResult)
    /\ GivesBack(f)
    /\ UNCHANGED <<accountVars, cacheVars, todo>>

\* usageCacheTTL, modelsCacheTTL.
Expire ==
    /\ cache # NoEntry
    /\ cache.fresh
    /\ cache' = [cache EXCEPT !.fresh = FALSE]
    /\ UNCHANGED <<accountVars, kind, epoch, fetchVars, callers, todo>>

-----------------------------------------------------------------------------
(* What changes the account, and what drops the caches *)

\* invalidateUsage, invalidateModels.
Invalidate ==
    /\ CanMove(1)
    /\ epoch' = epoch + 1
    /\ cache' = NoEntry
    /\ UNCHANGED kind

\* Runtime rejects a model id of the list.
InvalidModel ==
    /\ kind = "models"
    /\ Invalidate
    /\ UNCHANGED <<accountVars, fetchVars, callers, todo>>

\* A send's outcome, or an observation from elsewhere, moves the selector.
RoutingMoves ==
    /\ stored
    /\ CanMove(1)
    /\ generation' = generation + 1
    /\ UNCHANGED <<stored, revision, cacheVars, fetchVars, callers, todo>>

\* The selector starts a new state with the next look at a new revision.
NewRevision ==
    /\ CanMove(2)
    /\ revision' = revision + 1
    /\ generation' = generation + 1

(***************************************************************************)
(* An account is changed.  handleAccountOverage goes on to drop its usage; *)
(* a new sign-in and handleAccountDisable drop nothing.                    *)
(***************************************************************************)
Change ==
    /\ todo = <<>>
    /\ stored
    /\ NewRevision
    /\ todo' \in {<<>>} \union IF kind = "usage" THEN {<<"invalidate">>} ELSE {}
    /\ UNCHANGED <<stored, cacheVars, fetchVars, callers>>

\* handleAccountRefresh and handleAccountRefreshIdentity drop the usage,
\* and leave the model list alone.
Refresh ==
    /\ kind = "usage"
    /\ todo = <<>>
    /\ stored
    /\ todo' = <<"invalidate">>
    /\ UNCHANGED <<accountVars, cacheVars, fetchVars, callers>>

\* handleAccountDelete drops both caches and the routing state.
Delete ==
    /\ todo = <<>>
    /\ stored
    /\ stored' = FALSE
    /\ todo' = <<"invalidate", "forget">>
    /\ UNCHANGED <<revision, generation, cacheVars, fetchVars, callers>>

\* A sign-in or an import brings the account, perhaps amid its deletion.
Add ==
    /\ ~stored
    /\ NewRevision
    /\ stored' = TRUE
    /\ UNCHANGED <<cacheVars, fetchVars, callers, todo>>

\* The handler goes on; a state that is forgotten is begun anew.
GoOn ==
    /\ todo # <<>>
    /\ todo' = Tail(todo)
    /\ \/ Head(todo) = "invalidate" /\ Invalidate /\ UNCHANGED generation
       \/ /\ Head(todo) = "forget"
          /\ CanMove(1)
          /\ generation' = generation + 1
          /\ UNCHANGED cacheVars
    /\ UNCHANGED <<stored, revision, fetchVars, callers>>

-----------------------------------------------------------------------------

CallerStep(c) == Target(c) \/ Look(c) \/ TakeModels(c) \/ TakeUsage(c)

FlightStep(f) == Enter(f) \/ Fail(f) \/ Land(f) \/ Publish(f)

Next ==
    \/ \E c \in Callers :
         \/ \E call \in Calls : Begin(c, call)
         \/ CallerStep(c)
         \/ GiveUp(c)
    \/ \E f \in flights : FlightStep(f)
    \/ Expire
    \/ InvalidModel
    \/ RoutingMoves
    \/ Change
    \/ Refresh
    \/ Delete
    \/ Add
    \/ GoOn

Spec == Init /\ [][Next]_vars

-----------------------------------------------------------------------------

\* The variables hold what the Go types hold, and a key is fetched once at a
\* time.
TypeOK ==
    /\ stored \in BOOLEAN
    /\ revision \in Nat /\ generation \in Nat
    /\ kind \in Kinds
    /\ epoch \in Nat
    /\ cache \in Entry \union {NoEntry}
    /\ flights \subseteq Flight
    /\ \A f, g \in flights : f.key = g.key => f = g
    /\ callers \in [Callers -> Caller]
    /\ places \in 0..Limit

NotOlder(key, than) ==
    /\ key.revision >= than.revision
    /\ key.epoch >= than.epoch

(***************************************************************************)
(* A cache only moves forward: what is put there was begun after the last  *)
(* invalidation, under the account's present revision, and no earlier than *)
(* what it replaces, in whatever order the answers come.                   *)
(***************************************************************************)
CachesMoveForward ==
    [][cache' # NoEntry /\ cache'.fresh =>
         LET new == cache'.key IN
         /\ new.epoch = epoch'
         /\ new.revision = revision'
         /\ cache # NoEntry =>
              /\ NotOlder(new, cache.key)
              /\ new.revision = cache.key.revision => new.generation >= cache.key.generation]_<<cache>>

(***************************************************************************)
(* Nobody is answered with what was true only before he asked: a call that *)
(* begins after the account was changed, or its cache dropped, is never    *)
(* answered from a fetch begun before.                                     *)
(***************************************************************************)
AnswersNotOlder ==
    [][\A c \in Callers :
         callers[c].phase # "answered" /\ callers'[c].phase = "answered" =>
             LET answer == IF callers[c].phase = "targeted" THEN cache.key ELSE callers[c].want
             IN NotOlder(answer, callers[c].begun)]_<<callers>>

(***************************************************************************)
(* A place of the limiter is taken by each of the probe's fetches that is  *)
(* past the queue, and by nothing else: it "remains held until the         *)
(* detached singleflight fetch itself completes, not merely until one      *)
(* waiter times out" (usageFetchLimiter).  So upstream never sees more of  *)
(* them than the limit, however many scans are over; and no place is lost  *)
(* for good to a fetch that failed, was abandoned or had become obsolete.  *)
(***************************************************************************)
LimiterExact ==
    /\ places = Cardinality(InLimiter)
    /\ Cardinality(InLimiter) <= Limit
=============================================================================
