----------------------------- MODULE Background -----------------------------
(***************************************************************************)
(* The background work of the serving process: the loop that refreshes     *)
(* tokens (refresher.go), the probe with its workers (probe.go), the       *)
(* registry's sweeper (conversation_registry.go), and the warmups with     *)
(* their slots (server.go).  All of it lives under one service context,    *)
(* which a signal cancels at any moment.                                   *)
(*                                                                         *)
(* The parts never look at each other: a behaviour is about one of them.   *)
(* What each does for an account is modelled where it acts; here it begins *)
(* and ends.                                                               *)
(***************************************************************************)
EXTENDS Naturals, FiniteSets

CONSTANTS
    Accounts,
    Admins,          \* admin requests that have an account warmed
    Slots,           \* warmupConcurrency
    Workers          \* the probe's concurrency

VARIABLES
    part,            \* the part the behaviour is about
    stopping,        \* ctx is cancelled
    loop,            \* where its loop is; the warmups have none
    due,             \* accounts the refresher's scan has yet to look at
    jobs,            \* accounts no worker of the probe has taken yet
    workers,         \* workers of the scan, by place: at the head of their loop, past it
    probing,         \* accounts being probed, one worker each
    pool,            \* accounts the start-up warmup has yet to hand out
    warmups          \* warmups begun: waiting for a slot, or holding one

scanVars == <<due, jobs, workers, probing>>
warmVars == <<pool, warmups>>
vars == <<part, stopping, loop, scanVars, warmVars>>

Parts == {"refresher", "probe", "sweeper", "warmup"}

\* A warmup: the account, and the request that asked for it or the pool.
Warmup == [account : Accounts, by : Admins \union {"pool"}, state : {"waiting", "warming"}]

NoWorkers == [head |-> 0, past |-> 0]

\* reconcileTargets, and a worker for each as far as they go.
Staff(targets) == IF Cardinality(targets) < Workers THEN Cardinality(targets) ELSE Workers

\* Run begins with a scan; warmAllAccounts takes the accounts that are usable.
Init ==
    /\ part \in Parts
    /\ stopping = FALSE
    /\ loop = CASE part = "warmup" -> "stopped"
               [] part = "sweeper" -> "ticking"
               [] OTHER -> "scanning"
    /\ due = IF part = "refresher" THEN Accounts ELSE {}
    /\ jobs \in IF part = "probe" THEN SUBSET Accounts ELSE {{}}
    /\ workers = [NoWorkers EXCEPT !.head = Staff(jobs)]
    /\ probing = {}
    /\ pool \in IF part = "warmup" THEN SUBSET Accounts ELSE {{}}
    /\ warmups = {}

\* Nothing is begun.
Idle ==
    /\ loop = "stopped"
    /\ due = {} /\ jobs = {} /\ workers = NoWorkers /\ probing = {}
    /\ pool = {} /\ warmups = {}

\* SIGINT or SIGTERM.
Stop ==
    /\ ~stopping
    /\ stopping' = TRUE
    /\ UNCHANGED <<part, loop, scanVars, warmVars>>

-----------------------------------------------------------------------------
(* The loops *)

Turns(to) == loop' = to /\ UNCHANGED <<part, stopping, warmVars>>

StopLoopButSweeper ==   \* mutant: the registry runs without the service context
    /\ loop = "ticking"
    /\ stopping /\ part # "sweeper"
    /\ Turns("stopped")
    /\ UNCHANGED scanVars

\* select between the ticker and ctx.Done: either, when both are ready.
StopLoop ==
    /\ loop = "ticking"
    /\ stopping
    /\ Turns("stopped")
    /\ UNCHANGED scanVars

\* The sweeper's turn is Sweep of ConversationRegistry, and changes nothing here.
Tick ==
    /\ loop = "ticking"
    /\ part \in {"refresher", "probe"}
    /\ Turns("scanning")
    /\ due' = IF part = "refresher" THEN Accounts ELSE {}
    /\ jobs' \in IF part = "probe" THEN SUBSET Accounts ELSE {{}}
    /\ workers' = [NoWorkers EXCEPT !.head = Staff(jobs')]
    /\ UNCHANGED probing

\* The refresher's scan looks at an account, which is due for a refresh or not.
LookAt(a) ==
    /\ loop = "scanning"
    /\ a \in due
    /\ ~stopping
    /\ \E to \in {"scanning", "waiting"} : Turns(to)
    /\ due' = due \ {a}
    /\ UNCHANGED <<jobs, workers, probing>>

\* RefreshToken returns: with the shared refresh, or because ctx is done.
Refreshed ==
    /\ loop = "waiting"
    /\ Turns("scanning")
    /\ UNCHANGED scanVars

\* The scan is over: nothing is left, or ctx is done.  The probe's waits for
\* its workers.
Scanned ==
    /\ loop = "scanning"
    /\ due = {} \/ stopping
    /\ workers = NoWorkers /\ probing = {}
    /\ Turns("ticking")
    /\ due' = {} /\ jobs' = {}
    /\ UNCHANGED <<workers, probing>>

-----------------------------------------------------------------------------
(* The probe's workers *)

WorkerStep == UNCHANGED <<part, stopping, loop, due, warmVars>>

\* A worker at the head of its loop asks for ctx.Err.
Look ==
    /\ workers.head > 0
    /\ workers' = [workers EXCEPT !.head = @ - 1, !.past = IF stopping THEN @ ELSE @ + 1]
    /\ WorkerStep /\ UNCHANGED <<jobs, probing>>

\* Then it selects between ctx.Done and the next job.
Take(a) ==
    /\ workers.past > 0
    /\ a \in jobs
    /\ workers' = [workers EXCEPT !.past = @ - 1]
    /\ jobs' = jobs \ {a}
    /\ probing' = probing \union {a}
    /\ WorkerStep

Leave ==
    /\ workers.past > 0
    /\ jobs = {} \/ stopping
    /\ workers' = [workers EXCEPT !.past = @ - 1]
    /\ WorkerStep /\ UNCHANGED <<jobs, probing>>

ReconciledForGood(a) ==   \* mutant: a worker ends with its first job
    /\ a \in probing
    /\ probing' = probing \ {a}
    /\ WorkerStep /\ UNCHANGED <<jobs, workers>>

\* reconcileAccount: answered, timed out or cancelled.
Reconciled(a) ==
    /\ a \in probing
    /\ probing' = probing \ {a}
    /\ workers' = [workers EXCEPT !.head = @ + 1]
    /\ WorkerStep /\ UNCHANGED jobs

-----------------------------------------------------------------------------
(* The warmups *)

WarmupStep(new) == warmups' = new /\ UNCHANGED <<part, stopping, loop, scanVars>>

\* The workers of the pool take one account each.
HandOut(a) ==
    /\ a \in pool
    /\ Cardinality({w \in warmups : w.by = "pool"}) < Slots
    /\ WarmupStep(warmups \union {[account |-> a, by |-> "pool", state |-> "waiting"]})
    /\ pool' = pool \ {a}

DropPool ==
    /\ pool # {}
    /\ stopping
    /\ WarmupStep(warmups)
    /\ pool' = {}

\* warmAccount: an account was added, enabled or refreshed.
AskWarmup(r, a) ==
    /\ part = "warmup"
    /\ ~stopping
    /\ \A w \in warmups : w.by # r
    /\ WarmupStep(warmups \union {[account |-> a, by |-> r, state |-> "waiting"]})
    /\ UNCHANGED pool

SlotFreeAtLimit ==   \* mutant: one account too many
    Cardinality({w \in warmups : w.state = "warming"}) <= Slots

SlotFree == Cardinality({w \in warmups : w.state = "warming"}) < Slots

\* select between a slot and ctx.Done.
TakeSlot(w) ==
    /\ w.state = "waiting"
    /\ SlotFree
    /\ WarmupStep((warmups \ {w}) \union {[w EXCEPT !.state = "warming"]})
    /\ UNCHANGED pool

\* Both halves are over (each has a timeout and ctx), or none was begun.
Warmed(w) ==
    /\ w.state = "warming" \/ stopping
    /\ WarmupStep(warmups \ {w})
    /\ UNCHANGED pool

-----------------------------------------------------------------------------
Scanning == Tick \/ Refreshed \/ Scanned \/ \E a \in Accounts : LookAt(a)

Probing == Look \/ Leave \/ \E a \in Accounts : Take(a) \/ Reconciled(a)

Warming ==
    \/ \E a \in Accounts : HandOut(a)
    \/ \E w \in warmups : TakeSlot(w) \/ Warmed(w)
    \/ DropPool

Next ==
    \/ Stop \/ StopLoop \/ Scanning \/ Probing \/ Warming
    \/ \E r \in Admins, a \in Accounts : AskWarmup(r, a)

(***************************************************************************)
(* Goroutines run; what they wait for upstream has a timeout.  A select    *)
(* picks evenly among what is ready, so a loop that is told to stop at     *)
(* every turn does.  Nothing is assumed of signals and of admins.          *)
(***************************************************************************)
Fairness == SF_vars(StopLoop) /\ WF_vars(Scanning) /\ WF_vars(Probing) /\ WF_vars(Warming)

Spec == Init /\ [][Next]_vars /\ Fairness

-----------------------------------------------------------------------------
(***************************************************************************)
(* The type invariant; with it, that no more accounts are warmed at once   *)
(* than there are slots, whether the pool or an admin asked, and that a    *)
(* scan has no more workers than the probe may have.                       *)
(***************************************************************************)
TypeOK ==
    /\ stopping \in BOOLEAN
    /\ loop \in {"scanning", "waiting", "ticking", "stopped"}
    /\ due \subseteq Accounts
    /\ jobs \subseteq Accounts /\ probing \subseteq Accounts
    /\ workers \in [head : 0..Workers, past : 0..Workers]
    /\ workers.head + workers.past + Cardinality(probing) <= Workers
    /\ pool \subseteq Accounts
    /\ warmups \subseteq Warmup
    /\ Cardinality({w \in warmups : w.state = "warming"}) <= Slots

(***************************************************************************)
(* Once the service context is cancelled, the background work comes to     *)
(* rest and stays there: no worker waits for a job, no warmup for a slot,  *)
(* no scan for an account that nobody looks at any more.                   *)
(***************************************************************************)
AtRest == loop = "stopped" /\ pool = {} /\ warmups = {}

BackgroundStops == stopping ~> []AtRest

(***************************************************************************)
(* A scan of the probe leaves no target out: each is probed, unless the    *)
(* service stops, however few workers there are for them.                  *)
(***************************************************************************)
TargetsAreProbed ==
    \A a \in Accounts : part = "probe" /\ a \in jobs ~> (stopping \/ a \in probing)
=============================================================================
