------------------------------ MODULE Selector ------------------------------
(***************************************************************************)
(* The account selector (selector.go) over the account store: which        *)
(* account a request is sent on, and how the outcomes of requests and the  *)
(* usage observations of GetUsage flow back into that choice.              *)
(*                                                                         *)
(* Every operation holds the selector's mutex, most of them under the      *)
(* store's, so each is one action.  Three things happen between two        *)
(* operations, without a lock: the account list pickFor and peekAny work   *)
(* on is read before the selector is locked; a lease is used long after it *)
(* was picked; and a usage observation is applied long after its fetch     *)
(* began.                                                                  *)
(*                                                                         *)
(* The round-robin cursor and the affinity hash choose among accounts of   *)
(* the same tier; here any of them may be chosen.  Generations are only    *)
(* ever compared with generations of the same account: states touched by   *)
(* one operation share a new one.                                          *)
(***************************************************************************)
EXTENDS AccountStore

CONSTANTS
    Requests,       \* dispatch loops of requests
    InitialFiles,   \* what the accounts file may hold at start
    NewAccounts,    \* what the admin may add or sign in again with
    MaxFetches,     \* bound: GetUsage calls in flight
    MaxGeneration,  \* bound: no step takes nextGeneration beyond it
    NoState, NoLease, NoRuntime

ASSUME SelectorBoundsAreNat == MaxFetches \in Nat /\ MaxGeneration \in Nat
ASSUME InitialFilesAreFiles == InitialFiles \subseteq [Ids -> BundleEntry \union {NoAccount}]
ASSUME NewAccountsAreEntries == NewAccounts \subseteq BundleEntry

Quotas == {"unknown", "base", "overage", "depleted"}

(***************************************************************************)
(* selectorAccountState.  cooldown is "none" (zero time), "on" (in the     *)
(* future) or "over" (a time that has passed).  retryAfter is left out: it *)
(* is set exactly while quota is depleted.                                 *)
(***************************************************************************)
State == [revision : Nat, lifecycle : Nat, generation : Nat, quota : Quotas,
          cooldown : {"none", "on", "over"}, reactive : BOOLEAN]

(***************************************************************************)
(* accountLease.  outdated is history, up to the first frame: since the    *)
(* pick, another request reported a failure or a depletion of the account, *)
(* or its revision moved.                                                  *)
(***************************************************************************)
Lease == [id : Ids, revision : Nat, generation : Nat, fallback : BOOLEAN,
          outdated : BOOLEAN]

(***************************************************************************)
(* A GetUsage in flight: its usageStamp, the rules of its source, and what *)
(* it read: positive base credit, only overage left, or nothing.  late is  *)
(* history: a depletion of the account was recorded after it began.        *)
(***************************************************************************)
Fetch == [id : Ids, revision : Nat, generation : Nat, overage : BOOLEAN,
          source : {"authoritative", "probe"},
          reading : {"pending", "base", "overage", "none"}, late : BOOLEAN]

ASSUME NullsAreNotStates ==
    /\ NoState \notin State
    /\ NoLease \notin Lease
    /\ NoRuntime \notin Runtime

VARIABLES
    routing,         \* s.states
    nextGeneration,
    requests,        \* per request: phase, tried, the list read, the lease
    fetches,
    forgetting,      \* accounts removed by a handler that has yet to forget them
    basis,           \* history: revision of the last positive observation
    owes             \* history: depleted in this lifecycle, not disproved since

selectorVars == <<routing, nextGeneration, requests, fetches, forgetting, basis, owes>>
vars == <<storeVars, selectorVars>>

Lists == [Ids -> Runtime \union {NoRuntime}]
NoList == [id \in Ids |-> NoRuntime]

(***************************************************************************)
(* A dispatch.  served: the accounts it has physically sent on (for the    *)
(* leased one, runtimeAttempts > leaseRuntimeAttempts); reported: what the *)
(* observer of the committed stream has reported (its two sync.Once).      *)
(***************************************************************************)
Request == [phase : {"ready", "listed", "leased", "sending", "streaming"},
            tried : SUBSET Ids, list : Lists, lease : Lease \union {NoLease},
            served : SUBSET Ids, reported : SUBSET {"failure", "depletion"}]

Idle == [phase |-> "ready", tried |-> {}, list |-> NoList, lease |-> NoLease,
         served |-> {}, reported |-> {}]

\* A process that has just loaded its file, each account stamped in turn.
Init ==
    /\ disk \in InitialFiles
    /\ accounts = disk
    /\ LET S == {id \in Ids : disk[id] # NoAccount} IN
       \E turn \in Turns(S) :
         /\ revisions = [id \in Ids |-> IF id \in S THEN turn[id] ELSE 0]
         /\ lifecycles = revisions /\ credentials = revisions
         /\ nextRevision = Cardinality(S)
         /\ nextLifecycle = nextRevision /\ nextCredential = nextRevision
    /\ failed = FALSE
    /\ routing = [id \in Ids |-> NoState]
    /\ nextGeneration = 0
    /\ requests = [r \in Requests |-> Idle]
    /\ fetches = {}
    /\ forgetting = {}
    /\ basis = [id \in Ids |-> 0]
    /\ owes = [id \in Ids |-> FALSE]

-----------------------------------------------------------------------------

\* accountUsable
Usable(a) == ~a.disabled /\ (a.arn # NoArn \/ a.reg # NoReg)

CurrentList == [id \in Ids |-> IF accounts[id] = NoAccount THEN NoRuntime ELSE RuntimeOf(id)]

\* pruneStatesLocked
Pruned(list) == [id \in Ids |-> IF list[id] = NoRuntime THEN NoState ELSE routing[id]]

(***************************************************************************)
(* stateForRuntimeLocked.  It answers nil for a snapshot older than the    *)
(* state; otherwise the state, brought to the revision of the snapshot: a  *)
(* policy change keeps depletion and cooldown, but strict accounts must    *)
(* prove base credit again; a new lifecycle starts over.                   *)
(***************************************************************************)
NeverStale(rt) == FALSE   \* mutant: no snapshot is older than the state

IsStale(rt) == routing[rt.id] # NoState /\ routing[rt.id].revision > rt.revision

TouchedKeepingBase(rt) ==   \* mutant: base credit outlives overage
    LET st == routing[rt.id]
        g  == nextGeneration + 1 IN
    IF st # NoState /\ st.revision = rt.revision /\ st.lifecycle = rt.lifecycle THEN st
    ELSE IF st # NoState /\ st.lifecycle = rt.lifecycle
      THEN [st EXCEPT !.revision = rt.revision, !.generation = g]
    ELSE [revision |-> rt.revision, lifecycle |-> rt.lifecycle, generation |-> g,
          quota |-> "unknown", cooldown |-> "none", reactive |-> FALSE]

Touched(rt) ==
    LET st == routing[rt.id]
        g  == nextGeneration + 1 IN
    IF st # NoState /\ st.revision = rt.revision /\ st.lifecycle = rt.lifecycle THEN st
    ELSE IF st # NoState /\ st.lifecycle = rt.lifecycle
      THEN [st EXCEPT !.revision = rt.revision,
                      !.generation = g,
                      !.quota = IF ~rt.account.overage /\ @ \in {"base", "overage"}
                                  THEN "unknown" ELSE @]
    ELSE [revision |-> rt.revision, lifecycle |-> rt.lifecycle, generation |-> g,
          quota |-> "unknown", cooldown |-> "none", reactive |-> FALSE]

\* The states after an operation on list has touched the accounts in T.
TouchAll(list, T) ==
    [id \in Ids |-> IF id \in T THEN Touched(list[id]) ELSE Pruned(list)[id]]

SetRouting(new) ==
    /\ routing' = new
    /\ nextGeneration' = IF \E id \in Ids : new[id] # NoState
                              /\ new[id].generation = nextGeneration + 1
                           THEN nextGeneration + 1 ELSE nextGeneration
    /\ nextGeneration' <= MaxGeneration

(***************************************************************************)
(* The tier of an account in state st, as pickFor and validateForSend see  *)
(* it: a strict account is routable only in base, a depleted one never.    *)
(***************************************************************************)
Tier(st, a) ==
    CASE st.quota = "depleted" -> "depleted"
      [] st.quota = "unknown" /\ ~a.overage -> "verify"
      [] st.cooldown = "on" -> "fallback"
      [] st.quota = "overage" -> "overage"
      [] OTHER -> "preferred"

Rank == [fallback |-> 0, overage |-> 1, preferred |-> 2]

-----------------------------------------------------------------------------
(* Dispatching a request *)

\* RuntimeList, read before the selector is locked.
ReadList(r) ==
    /\ requests[r].phase = "ready"
    /\ requests' = [requests EXCEPT ![r] = [@ EXCEPT !.phase = "listed", !.list = CurrentList]]
    /\ UNCHANGED <<storeVars, routing, nextGeneration, fetches, forgetting, basis, owes>>

\* Back to pickFor, the accounts in tried not to be picked again.
Again(r, tried) == [Idle EXCEPT !.tried = tried, !.served = requests[r].served]

\* Accounts of the list pickFor has a state for.
Candidates(r) ==
    {id \in Ids : /\ requests[r].list[id] # NoRuntime
                  /\ id \notin requests[r].tried
                  /\ Usable(requests[r].list[id].account)
                  /\ ~IsStale(requests[r].list[id])}

TierOf(r, id) == LET rt == requests[r].list[id] IN Tier(Touched(rt), rt.account)

InTier(r, tier) == {id \in Candidates(r) : TierOf(r, id) = tier}

LeaseFor(r, id) ==
    LET rt == requests[r].list[id] IN
    [id |-> id, revision |-> rt.revision, generation |-> Touched(rt).generation,
     fallback |-> TierOf(r, id) = "fallback",
     outdated |-> revisions[id] # rt.revision]

TakeLease(r, id) ==
    requests' = [requests EXCEPT ![r] =
        [Again(r, @.tried \union {id}) EXCEPT !.phase = "leased", !.lease = LeaseFor(r, id)]]

(***************************************************************************)
(* pickFor: preferred before overage, overage before a strict account that *)
(* must be verified, that before a cooling one.  Without affinity the scan *)
(* ends at the first preferred account and leaves the rest untouched.  A   *)
(* strict account that fails its verification is not asked again.          *)
(***************************************************************************)
Pick(r) ==
    LET list == requests[r].list
        all  == Candidates(r) IN
    /\ requests[r].phase = "listed"
    /\ \/ /\ list = NoList
          /\ requests' = [requests EXCEPT ![r] = Again(r, @.tried)]
          /\ UNCHANGED <<routing, nextGeneration>>
       \/ \E id \in InTier(r, "preferred") :
            /\ TakeLease(r, id)
            /\ \E T \in SUBSET all : id \in T /\ SetRouting(TouchAll(list, T))
       \/ /\ list # NoList
          /\ InTier(r, "preferred") = {}
          /\ SetRouting(TouchAll(list, all))
          /\ \/ \E id \in InTier(r, "overage") : TakeLease(r, id)
             \/ /\ InTier(r, "overage") = {}
                /\ \E id \in InTier(r, "verify") : \E t \in {{}, {id}} :
                     requests' = [requests EXCEPT ![r] = Again(r, @.tried \union t)]
             \/ /\ InTier(r, "overage") = {} /\ InTier(r, "verify") = {}
                /\ \E id \in InTier(r, "fallback") : TakeLease(r, id)
             \/ /\ \A tier \in {"overage", "verify", "fallback"} : InTier(r, tier) = {}
                /\ requests' = [requests EXCEPT ![r] = Again(r, @.tried)]
    /\ UNCHANGED <<storeVars, fetches, forgetting, basis, owes>>

\* peekAny, for a control-plane call: the first usable account not cooling.
Peek(r) ==
    LET list == requests[r].list
        all  == {id \in Ids : /\ list[id] # NoRuntime
                              /\ Usable(list[id].account)
                              /\ ~IsStale(list[id])} IN
    /\ requests[r].phase = "listed"
    /\ list # NoList
    /\ \E T \in SUBSET all :
         /\ T = all \/ \E id \in T : Touched(list[id]).cooldown # "on"
         /\ SetRouting(TouchAll(list, T))
    /\ requests' = [requests EXCEPT ![r] = Again(r, @.tried)]
    /\ UNCHANGED <<storeVars, fetches, forgetting, basis, owes>>

(***************************************************************************)
(* validateForSend, under both locks, immediately before every physical    *)
(* send.  A valid lease is superseded by an account in a strictly higher   *)
(* tier, until the dispatch has spent its budget of refreshes.  A lease    *)
(* refused before its first send gives its account back to pickFor; so     *)
(* does an invalid one, but only while the budget lasts (openStream).      *)
(***************************************************************************)
LeaseValidAnyGeneration(l) ==   \* mutant: the generation is not compared
    LET st == routing[l.id] IN
    /\ accounts[l.id] # NoAccount
    /\ revisions[l.id] = l.revision
    /\ Usable(accounts[l.id])
    /\ st # NoState
    /\ st.revision = l.revision
    /\ st.quota # "depleted"
    /\ accounts[l.id].overage \/ st.quota = "base"
    /\ l.fallback = (st.cooldown = "on")

LeaseValid(l) ==
    LET st == routing[l.id] IN
    /\ accounts[l.id] # NoAccount
    /\ revisions[l.id] = l.revision
    /\ Usable(accounts[l.id])
    /\ st # NoState
    /\ st.revision = l.revision
    /\ st.generation = l.generation
    /\ st.quota # "depleted"
    /\ accounts[l.id].overage \/ st.quota = "base"
    /\ l.fallback = (st.cooldown = "on")

Superseders(r) ==
    LET l == requests[r].lease
        own == Tier(routing[l.id], accounts[l.id]) IN
    {id \in Present \ (requests[r].tried \union {l.id}) :
        /\ Usable(accounts[id])
        /\ LET tier == Tier(Touched(RuntimeOf(id)), accounts[id]) IN
           /\ tier \in {"overage", "preferred"}
           /\ Rank[tier] > Rank[own]}

RequeuedThoughSent(r) ==   \* mutant: the sends of this lease are not counted
    Again(r, requests[r].tried \ {requests[r].lease.id})

\* requeueUnsent: an account that was only picked may be picked again.
Requeued(r) ==
    LET q == requests[r] IN
    Again(r, IF q.lease.id \in q.served THEN q.tried ELSE q.tried \ {q.lease.id})

Validate(r) ==
    LET l == requests[r].lease
        others == {id \in Present \ (requests[r].tried \union {l.id}) : Usable(accounts[id])}
        send == [requests[r] EXCEPT !.phase = "sending", !.served = @ \union {l.id}] IN
    /\ requests[r].phase = "leased"
    /\ \/ /\ ~LeaseValid(l)
          /\ SetRouting(Pruned(CurrentList))
          /\ \E q \in {Requeued(r), Again(r, requests[r].tried)} :
               requests' = [requests EXCEPT ![r] = q]
       \/ /\ LeaseValid(l)
          /\ Superseders(r) = {}
          /\ SetRouting(TouchAll(CurrentList, others))
          /\ requests' = [requests EXCEPT ![r] = send]
       \/ /\ LeaseValid(l)
          /\ \E T \in SUBSET others :
               /\ T \intersect Superseders(r) # {}
               /\ SetRouting(TouchAll(CurrentList, T))
          /\ \E q \in {send, Requeued(r)} : requests' = [requests EXCEPT ![r] = q]
    /\ UNCHANGED <<storeVars, fetches, forgetting, basis, owes>>

(***************************************************************************)
(* The account is left without a report: it does not serve the model, or   *)
(* its profile or model list changed under the dispatch, or it rejected    *)
(* the model id.                                                           *)
(***************************************************************************)
Skip(r) ==
    /\ requests[r].phase \in {"leased", "sending"}
    /\ \E q \in {Requeued(r), Again(r, requests[r].tried)} :
         requests' = [requests EXCEPT ![r] = q]
    /\ UNCHANGED <<storeVars, routing, nextGeneration, fetches, forgetting, basis, owes>>

-----------------------------------------------------------------------------
(* Outcomes.  A report is taken only while the lease's revision is current *)
(* (withLeaseState); success also needs its generation.                    *)

Accepts(l) ==
    /\ accounts[l.id] # NoAccount
    /\ revisions[l.id] = l.revision
    /\ routing[l.id] # NoState
    /\ routing[l.id].revision = l.revision

Mutate(id, st) == SetRouting([routing EXCEPT ![id] = [st EXCEPT !.generation = nextGeneration + 1]])

\* The leases other requests hold on the account, after a change to it.
Outdate(reqs, id) ==
    [r \in Requests |->
       IF reqs[r].phase \in {"leased", "sending"} /\ reqs[r].lease.id = id
         THEN [reqs[r] EXCEPT !.lease.outdated = TRUE] ELSE reqs[r]]

KeepRouting == UNCHANGED <<routing, nextGeneration>>

SucceedAnyGeneration(r) ==   \* mutant: the generation is not compared
    LET l == requests[r].lease IN
    /\ requests[r].phase = "sending"
    /\ IF Accepts(l) /\ routing[l.id].cooldown # "none"
         THEN Mutate(l.id, [routing[l.id] EXCEPT !.cooldown = "none"])
         ELSE KeepRouting
    /\ requests' = [requests EXCEPT ![r] = [@ EXCEPT !.phase = "streaming", !.lease.outdated = FALSE]]
    /\ UNCHANGED <<storeVars, fetches, forgetting, basis, owes>>

\* recordSuccess at the first frame; the stream goes on.
Succeed(r) ==
    LET l == requests[r].lease IN
    /\ requests[r].phase = "sending"
    /\ IF /\ Accepts(l)
          /\ routing[l.id].generation = l.generation
          /\ routing[l.id].cooldown # "none"
         THEN Mutate(l.id, [routing[l.id] EXCEPT !.cooldown = "none"])
         ELSE KeepRouting
    /\ requests' = [requests EXCEPT ![r] = [@ EXCEPT !.phase = "streaming", !.lease.outdated = FALSE]]
    /\ UNCHANGED <<storeVars, fetches, forgetting, basis, owes>>

ReactivelyDepleted(l) ==
    /\ routing[l.id] # NoState
    /\ routing[l.id].revision = l.revision
    /\ routing[l.id].quota = "depleted"
    /\ routing[l.id].reactive

\* The dispatch leaves the account; a committed stream goes on.
AfterReport(r, kind) ==
    IF requests[r].phase = "streaming"
      THEN [requests EXCEPT ![r].reported = @ \union {kind}]
      ELSE [requests EXCEPT ![r] = Again(r, @.tried)]

(***************************************************************************)
(* recordFailure: the profile or the token cannot be resolved before the   *)
(* send, the send fails, or the observer of the committed stream sees a    *)
(* failure (once, and not after a depletion).                              *)
(***************************************************************************)
Fail(r) ==
    LET l == requests[r].lease IN
    /\ requests[r].phase \in {"leased", "sending", "streaming"}
    /\ requests[r].phase = "streaming" =>
          "failure" \notin requests[r].reported /\ ~ReactivelyDepleted(l)
    /\ IF Accepts(l)
         THEN /\ Mutate(l.id, [routing[l.id] EXCEPT !.cooldown = "on"])
              /\ requests' = Outdate(AfterReport(r, "failure"), l.id)
         ELSE KeepRouting /\ requests' = AfterReport(r, "failure")
    /\ UNCHANGED <<storeVars, fetches, forgetting, basis, owes>>

\* recordDepleted, after a 402, a 423 or a quota event in the stream.
Deplete(r) ==
    LET l == requests[r].lease IN
    /\ requests[r].phase \in {"sending", "streaming"}
    /\ "depletion" \notin requests[r].reported
    /\ IF Accepts(l)
         THEN /\ Mutate(l.id, [routing[l.id] EXCEPT !.quota = "depleted", !.reactive = TRUE])
              /\ requests' = Outdate(AfterReport(r, "depletion"), l.id)
              /\ fetches' = {IF f.id = l.id THEN [f EXCEPT !.late = TRUE] ELSE f : f \in fetches}
              /\ owes' = [owes EXCEPT ![l.id] = TRUE]
         ELSE KeepRouting /\ requests' = AfterReport(r, "depletion") /\ UNCHANGED <<fetches, owes>>
    /\ UNCHANGED <<storeVars, forgetting, basis>>

\* The same account again: a refreshed token, a trimmed prompt, a history
\* without its reasoning.
Resend(r) ==
    /\ requests[r].phase = "sending"
    /\ requests' = [requests EXCEPT ![r].phase = "leased"]
    /\ UNCHANGED <<storeVars, routing, nextGeneration, fetches, forgetting, basis, owes>>

\* The response ends, or the dispatch gives up; the next request begins.
End(r) ==
    /\ requests[r] # Idle
    /\ requests' = [requests EXCEPT ![r] = Idle]
    /\ UNCHANGED <<storeVars, routing, nextGeneration, fetches, forgetting, basis, owes>>

CooldownElapses(id) ==
    /\ routing[id] # NoState
    /\ routing[id].cooldown = "on"
    /\ routing' = [routing EXCEPT ![id].cooldown = "over"]
    /\ UNCHANGED <<storeVars, nextGeneration, requests, fetches, forgetting, basis, owes>>

-----------------------------------------------------------------------------
(* Usage observations *)

Stamp(id, source) ==
    [id |-> id, revision |-> revisions[id],
     generation |-> Touched(RuntimeOf(id)).generation,
     overage |-> accounts[id].overage, source |-> source,
     reading |-> "pending", late |-> FALSE]

\* usageTarget: the stamp taken before GetUsage starts.
BeginUsage(id) ==
    /\ accounts[id] # NoAccount
    /\ ~IsStale(RuntimeOf(id))
    /\ SetRouting([routing EXCEPT ![id] = Touched(RuntimeOf(id))])
    /\ \E source \in {"authoritative", "probe"} :
         fetches' = fetches \union {Stamp(id, source)}
    /\ Cardinality(fetches') <= MaxFetches
    /\ UNCHANGED <<storeVars, requests, forgetting, basis, owes>>

\* reconcileTargets: depleted and strict unknown accounts are probed, the
\* routable ones with overage observed authoritatively.
Reconcile ==
    LET listed == {id \in Present : Usable(accounts[id]) /\ ~IsStale(RuntimeOf(id))}
        tier(id) == Touched(RuntimeOf(id)).quota
        probed == {id \in listed : \/ tier(id) = "depleted"
                                   \/ tier(id) = "unknown" /\ ~accounts[id].overage}
        observed == {id \in listed \ probed : accounts[id].overage} IN
    /\ SetRouting(TouchAll(CurrentList, listed))
    /\ fetches' = fetches \union {Stamp(id, "probe") : id \in probed}
                          \union {Stamp(id, "authoritative") : id \in observed}
    /\ Cardinality(fetches') <= MaxFetches
    /\ UNCHANGED <<storeVars, requests, forgetting, basis, owes>>

\* Upstream answers.
Observe(f) ==
    /\ f.reading = "pending"
    /\ \E reading \in {"base", "overage", "none"} :
         fetches' = (fetches \ {f}) \union {[f EXCEPT !.reading = reading]}
    /\ UNCHANGED <<storeVars, routing, nextGeneration, requests, forgetting, basis, owes>>

\* The fetch fails, answers without credit, or its waiters leave.
DropUsage(f) ==
    /\ fetches' = fetches \ {f}
    /\ UNCHANGED <<storeVars, routing, nextGeneration, requests, forgetting, basis, owes>>

(***************************************************************************)
(* applyUsage.  Every caller that waited on the fetch applies it, so it    *)
(* may be applied again.  An observation that changes nothing leaves the   *)
(* generation alone.                                                       *)
(***************************************************************************)
UsageCurrentAnyGeneration(f) ==   \* mutant: the generation is not compared
    /\ accounts[f.id] # NoAccount
    /\ revisions[f.id] = f.revision
    /\ accounts[f.id].overage = f.overage
    /\ routing[f.id] # NoState
    /\ routing[f.id].revision = f.revision

UsageCurrent(f) ==
    /\ accounts[f.id] # NoAccount
    /\ revisions[f.id] = f.revision
    /\ accounts[f.id].overage = f.overage
    /\ routing[f.id] # NoState
    /\ routing[f.id].revision = f.revision
    /\ routing[f.id].generation = f.generation

AdmitsOverage(f) ==
    /\ f.reading = "overage"
    /\ ~routing[f.id].reactive
    /\ f.source # "probe"
    /\ f.overage

ApplyUsage(f) ==
    LET st == routing[f.id] IN
    /\ f.reading # "pending"
    /\ UsageCurrent(f)
    /\ \/ /\ f.reading = "base"
          /\ IF st.quota # "base" \/ st.reactive
               THEN Mutate(f.id, [st EXCEPT !.quota = "base", !.reactive = FALSE])
               ELSE KeepRouting
          /\ basis' = [basis EXCEPT ![f.id] = f.revision]
          /\ owes' = IF f.late THEN owes ELSE [owes EXCEPT ![f.id] = FALSE]
       \/ /\ AdmitsOverage(f)
          /\ IF st.quota # "overage"
               THEN Mutate(f.id, [st EXCEPT !.quota = "overage"])
               ELSE KeepRouting
          /\ UNCHANGED <<basis, owes>>
       \/ /\ f.reading # "base"
          /\ ~AdmitsOverage(f)
          /\ Mutate(f.id, [st EXCEPT !.quota = "depleted"])
          /\ UNCHANGED <<basis, owes>>
    /\ UNCHANGED <<storeVars, requests, fetches, forgetting>>

-----------------------------------------------------------------------------
(* The account store changes under the selector *)

Administer(id) ==
    /\ \/ \E a \in NewAccounts : accounts[id] = NoAccount /\ Add(id, a)
       \/ \E a \in NewAccounts : ReplaceCredentials(id, a)
       \/ \E on \in BOOLEAN : SetDisabledChanged(id, on) \/ SetOverageEnabledChanged(id, on)
       \/ \E arn \in Arns : UpdateIdentity(RuntimeOf(id), arn)
    /\ revisions'[id] # revisions[id]
    /\ requests' = Outdate(requests, id)
    /\ owes' = [owes EXCEPT ![id] = @ /\ lifecycles'[id] = lifecycles[id]]
    /\ UNCHANGED <<routing, nextGeneration, fetches, forgetting, basis>>

\* handleAccountDelete: the removal, and later forget.
Delete(id) ==
    /\ accounts[id] # NoAccount
    /\ Remove(id)
    /\ forgetting' = forgetting \union {id}
    /\ requests' = Outdate(requests, id)
    /\ owes' = [owes EXCEPT ![id] = FALSE]
    /\ UNCHANGED <<routing, nextGeneration, fetches, basis>>

Forget(id) ==
    /\ id \in forgetting
    /\ forgetting' = forgetting \ {id}
    /\ routing' = [routing EXCEPT ![id] = NoState]
    /\ UNCHANGED <<storeVars, nextGeneration, requests, fetches, basis, owes>>

Next ==
    \/ \E r \in Requests :
         \/ ReadList(r) \/ Pick(r) \/ Peek(r) \/ Validate(r) \/ Skip(r)
         \/ Succeed(r) \/ Fail(r) \/ Deplete(r) \/ Resend(r) \/ End(r)
    \/ \E id \in Ids :
         \/ CooldownElapses(id) \/ BeginUsage(id)
         \/ Administer(id) \/ Delete(id) \/ Forget(id)
    \/ Reconcile
    \/ \E f \in fetches : Observe(f) \/ DropUsage(f) \/ ApplyUsage(f)

Spec == Init /\ [][Next]_vars

-----------------------------------------------------------------------------

\* The selector's variables hold what the Go types hold.
TypeOK ==
    /\ StoreTypeOK
    /\ routing \in [Ids -> State \union {NoState}]
    /\ nextGeneration \in Nat
    /\ requests \in [Requests -> Request]
    /\ fetches \in SUBSET Fetch
    /\ forgetting \in SUBSET Ids
    /\ basis \in [Ids -> Nat]
    /\ owes \in [Ids -> BOOLEAN]

(***************************************************************************)
(* A strict account (overage off) is in the pool only on a positive base   *)
(* observation whose fetch began under the very policy and credentials the *)
(* account has now: neither a policy switched off and on nor an answer     *)
(* from before a switch admits it.                                         *)
(***************************************************************************)
StrictNeedsProof ==
    \A id \in Present :
        LET st == routing[id] IN
        /\ st # NoState
        /\ st.revision = revisions[id]
        /\ st.quota = "base"
        /\ ~accounts[id].overage
        => basis[id] = revisions[id]

(***************************************************************************)
(* No request is sent on a decision another request or the admin has since *)
(* overtaken: at the moment of the send, no failure or depletion of the    *)
(* account was reported after the pick, and its revision has not moved.    *)
(***************************************************************************)
NoSendOnOutdatedLease ==
    [][\A r \in Requests :
         requests[r].phase = "leased" /\ requests'[r].phase = "sending"
           => ~requests[r].lease.outdated]_vars

(***************************************************************************)
(* A success never lifts a cooldown reported after its own pick: a slow    *)
(* good answer does not hide a later failure of the account.               *)
(***************************************************************************)
SuccessHidesNoFailure ==
    [][\A r \in Requests :
         /\ requests[r].phase = "sending" /\ requests'[r].phase = "streaming"
         /\ requests[r].lease.outdated
         => routing' = routing]_vars

(***************************************************************************)
(* A reactive depletion, as long as the selector keeps its state and the   *)
(* account its lifecycle, ends only with a positive base observation whose *)
(* fetch began after it was recorded: not with overage, with a policy      *)
(* switch, with success, or with the late answer of an earlier fetch.      *)
(***************************************************************************)
DepletionIsSticky ==
    [][\A id \in Present :
         /\ routing[id] # NoState /\ routing'[id] # NoState
         /\ routing[id].lifecycle = lifecycles[id]
         /\ routing[id].reactive
         /\ routing[id].quota = "depleted" /\ routing'[id].quota # "depleted"
         => lifecycles'[id] # lifecycles[id] \/ ~owes'[id]]_vars

(***************************************************************************)
(* A stale store snapshot never rolls the state of an account back to an   *)
(* older revision.                                                         *)
(***************************************************************************)
StateNeverRollsBack ==
    [][\A id \in Ids :
         routing[id] # NoState /\ routing'[id] # NoState
           => routing[id].revision <= routing'[id].revision]_vars

(***************************************************************************)
(* A dispatch never comes back to an account it has sent on: an account    *)
(* superseded or invalidated between two of its sends (a token refresh, a  *)
(* trimmed prompt) is not picked again, one refused before its first is.   *)
(***************************************************************************)
NoSecondTurn ==
    [][\A r \in Requests :
         requests[r].phase = "listed" /\ requests'[r].phase = "leased"
           => requests'[r].lease.id \notin requests[r].served]_vars

(***************************************************************************)
(* recordDepleted: "sticky until a fresh, matching usage observation       *)
(* reports positive base Remaining".  No request is sent on an account     *)
(* that owes such an observation.                                          *)
(***************************************************************************)
NoSendWhileDepleted ==
    [][\A r \in Requests :
         requests[r].phase = "leased" /\ requests'[r].phase = "sending"
           => ~owes[requests[r].lease.id]]_vars
=============================================================================
