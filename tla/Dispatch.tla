------------------------------ MODULE Dispatch ------------------------------
(***************************************************************************)
(* One request's dispatch across the accounts (openStream in server.go,    *)
(* Send in kiro.go): the budgets of sends, lease refreshes and trims, the  *)
(* request that is rebuilt, trimmed and stripped on the way, and the error *)
(* that is answered when no account served it.                             *)
(*                                                                         *)
(* The selector is seen through what it may answer: quota says how each    *)
(* account stands with it, and other requests and the admin may change     *)
(* that between any two steps.  What the send gate finds is open, as are   *)
(* the answers of upstream.  Reports to the selector are left out: they    *)
(* concern accounts this dispatch does not return to (module Selector).    *)
(***************************************************************************)
EXTENDS Naturals, Sequences

CONSTANTS
    Ids,
    MaxSends,       \* maxAccountAttempts
    MaxRefreshes,   \* maxPreSendLeaseRefreshes
    MaxTrims,       \* maxPromptTooLongRetries
    MaxUnits,       \* bound: units of conversation a request begins with
    MaxChanges,     \* bound: changes others make to the accounts
    None

ASSUME BudgetsAreNat ==
    /\ MaxSends \in Nat /\ MaxRefreshes \in Nat /\ MaxTrims \in Nat
    /\ MaxUnits \in Nat \ {0} /\ MaxChanges \in Nat

VARIABLES
    pc,        \* where the dispatch is
    at,        \* the account leased or under verification
    tried,     \* accounts that are not picked again
    sends, refreshes, trims,   \* what is used up of the three budgets
    before,    \* the sends made before the present lease
    areq,      \* the conversation, oldest unit first: does it carry reasoning
    kreq,      \* the same, as built for the present account
    stripped,  \* reasoningStripped
    again,     \* the next send is the one after a token refresh (Send)
    sendErr,   \* lastSendErr
    lastErr, modelSkipped, knownDepleted,   \* what decides the error answered
    answer,    \* what openStream returned
    quota,     \* how an account stands with the selector
    changes,   \* changes others have made so far
    fate,      \* history: what became of each account in this dispatch
    refused    \* history: what upstream has refused to take

progressVars == <<tried, sends, refreshes, trims, before>>
requestVars == <<areq, kreq, stripped, again>>
errorVars == <<sendErr, lastErr, modelSkipped, knownDepleted>>
accountVars == <<quota, changes>>
historyVars == <<fate, refused>>
dispatchVars == <<pc, at, progressVars, requestVars, errorVars, answer, accountVars, historyVars>>

\* What upstream, or the transport, answers to a send: 400 by three reasons
\* or another, 402 or 423, and any other failure of the account.
Faults == {"too_long", "signature", "bad_model", "request", "depleted", "account"}

Errors == Faults \union {"auth", "revision", "usage", "profile", "stale_models"}

PoolErrors == {"pool_depleted", "model_unavailable", "no_account"}

Answers == Errors \union PoolErrors \union {"stream", "canceled", "unbuildable"}

ASSUME NoneIsNoAnswer == None \notin Answers

Conversations == UNION {[1..n -> BOOLEAN] : n \in 0..MaxUnits}

Quotas == {"ready", "unproven", "cooling", "depleted", "off"}

DispatchInit ==
    /\ pc = "pick"
    /\ at = None
    /\ tried = {}
    /\ sends = 0 /\ refreshes = 0 /\ trims = 0 /\ before = 0
    /\ areq \in Conversations /\ areq # <<>> /\ kreq = areq
    /\ stripped = FALSE
    /\ again = FALSE
    /\ sendErr = None /\ lastErr = None
    /\ modelSkipped = FALSE /\ knownDepleted = FALSE
    /\ answer = None
    /\ quota \in [Ids -> Quotas]
    /\ changes = 0
    /\ fate = [id \in Ids |-> "none"]
    /\ refused = [reasoning |-> FALSE, length |-> MaxUnits + 1]

HasReasoning(units) == \E i \in DOMAIN units : units[i]

WithoutReasoning(units) == [i \in DOMAIN units |-> FALSE]

Returned(a) ==
    /\ pc' = "done"
    /\ answer' = a

Becomes(id, f) == fate' = [fate EXCEPT ![id] = f]

-----------------------------------------------------------------------------
(* Picking an account *)

StandingAs(q) == {id \in Ids \ tried : quota[id] = q}

SomeDepleted == knownDepleted \/ StandingAs("depleted") # {}

LeaseOn(id) ==
    /\ pc' = "prepare"
    /\ at' = id
    /\ tried' = tried \union {id}

\* A ready account; the list need not be read to its end.
PickReady ==
    /\ pc = "pick" /\ sends < MaxSends
    /\ \E id \in StandingAs("ready") : LeaseOn(id)
    /\ knownDepleted' \in {knownDepleted, SomeDepleted}
    /\ UNCHANGED <<sends, refreshes, trims, before, requestVars, sendErr, lastErr,
                   modelSkipped, answer, accountVars, historyVars>>

\* No account is ready: one of unproven quota is verified first.
PickUnproven ==
    /\ pc = "pick" /\ sends < MaxSends
    /\ StandingAs("ready") = {}
    /\ at' \in StandingAs("unproven")
    /\ pc' = "verify"
    /\ knownDepleted' = SomeDepleted
    /\ UNCHANGED <<progressVars, requestVars, sendErr, lastErr, modelSkipped, answer,
                   accountVars, historyVars>>

\* Nor is one unproven: one in cooldown is a last resort.
PickCooling ==
    /\ pc = "pick" /\ sends < MaxSends
    /\ StandingAs("ready") \union StandingAs("unproven") = {}
    /\ \E id \in StandingAs("cooling") : LeaseOn(id)
    /\ knownDepleted' = SomeDepleted
    /\ UNCHANGED <<sends, refreshes, trims, before, requestVars, sendErr, lastErr,
                   modelSkipped, answer, accountVars, historyVars>>

Verdict(depleted) ==
    CASE lastErr # None -> lastErr
      [] lastErr = None /\ depleted -> "pool_depleted"
      [] lastErr = None /\ ~depleted /\ modelSkipped -> "model_unavailable"
      [] OTHER -> "no_account"

\* Nobody is left, or no send.
GiveUp ==
    /\ pc = "pick"
    /\ \/ sends >= MaxSends /\ UNCHANGED knownDepleted
       \/ /\ sends < MaxSends
          /\ \A q \in {"ready", "unproven", "cooling"} : StandingAs(q) = {}
          /\ knownDepleted' = SomeDepleted
    /\ Returned(Verdict(knownDepleted'))
    /\ UNCHANGED <<at, progressVars, requestVars, sendErr, lastErr, modelSkipped,
                   accountVars, historyVars>>

RequeueUncounted(id) ==   \* mutant: giving an account back costs nothing
    /\ refreshes < MaxRefreshes
    /\ tried' = tried \ {id}
    /\ UNCHANGED refreshes

\* requeueUnsent: the account is given back, against the budget.
Requeue(id) ==
    /\ refreshes < MaxRefreshes
    /\ tried' = tried \ {id}
    /\ refreshes' = refreshes + 1

Keep == UNCHANGED <<tried, refreshes>>

\* refreshUsage with the authoritative source.
Verify ==
    /\ pc = "verify"
    /\ pc' = "pick"
    /\ \/ \* positive base credit
          /\ quota' = [quota EXCEPT ![at] = "ready"]
          /\ Keep
          /\ UNCHANGED <<lastErr, knownDepleted, fate>>
       \/ \* no positive credit, or no credit at all
          /\ knownDepleted' \in {knownDepleted, TRUE}
          /\ tried' = tried \union {at}
          /\ Becomes(at, "unproven")
          /\ UNCHANGED <<refreshes, lastErr, quota>>
       \/ \* the account changed meanwhile
          /\ lastErr' = "usage"
          /\ Requeue(at)
          /\ UNCHANGED <<knownDepleted, quota, fate>>
       \/ \* any other failure, or that one with no budget left
          /\ lastErr' = "usage"
          /\ tried' = tried \union {at}
          /\ Becomes(at, "failed")
          /\ UNCHANGED <<refreshes, knownDepleted, quota>>
    /\ UNCHANGED <<at, sends, trims, before, requestVars, sendErr, modelSkipped,
                   answer, changes, refused>>

-----------------------------------------------------------------------------
(* Before the first send on an account: its profile, its models *)

ToSend ==
    /\ pc' = "gate"
    /\ again' = FALSE

\* The request for the present account.
Rebuild(units) ==
    kreq' = IF stripped THEN WithoutReasoning(units) ELSE units

\* The lease is left behind before anything was sent on it.
LeaveLease ==
    /\ pc = "prepare"
    /\ pc' = "pick"
    /\ \/ \* the account changed, or its model list was invalidated
          /\ Requeue(at)
          /\ UNCHANGED <<lastErr, modelSkipped, fate>>
       \/ \* that, with no budget left, or any failure to get the profile
          /\ lastErr' \in {"profile", "stale_models"}
          /\ lastErr' = "stale_models" => refreshes >= MaxRefreshes
          /\ Becomes(at, "failed")
          /\ Keep
          /\ UNCHANGED modelSkipped
       \/ \* it does not serve the model
          /\ modelSkipped' = TRUE
          /\ Becomes(at, "no_model")
          /\ Keep
          /\ UNCHANGED lastErr
    /\ UNCHANGED <<at, sends, trims, before, requestVars, sendErr, knownDepleted,
                   answer, accountVars, refused>>

\* The model is served, or guessed since the list could not be fetched.
Prepare ==
    /\ pc = "prepare"
    /\ Rebuild(areq)
    /\ ToSend
    /\ before' = sends
    /\ sendErr' = None
    /\ UNCHANGED <<at, tried, sends, refreshes, trims, areq, stripped, lastErr,
                   modelSkipped, knownDepleted, answer, accountVars, historyVars>>

\* The client has gone.
Cancel ==
    /\ pc \in {"verify", "prepare", "gate", "sent"}
    /\ Returned("canceled")
    /\ UNCHANGED <<at, progressVars, requestVars, errorVars, accountVars, historyVars>>

\* The conversation, as it is or trimmed, cannot be translated.
Unbuildable ==
    /\ pc \in {"prepare", "sent"}
    /\ Returned("unbuildable")
    /\ UNCHANGED <<at, progressVars, requestVars, errorVars, accountVars, historyVars>>

-----------------------------------------------------------------------------
(* Sending *)

Unsent == sends = before

MetForgotten == UNCHANGED lastErr   \* mutant: the error met is dropped

\* An error that a send of this lease has met outlives the gate's refusal.
Met == IF sendErr # None THEN lastErr' = sendErr ELSE UNCHANGED lastErr

SupersededForGood ==   \* mutant: a superseded account is not given back
    /\ pc = "gate"
    /\ StandingAs("ready") # {} /\ refreshes < MaxRefreshes
    /\ refreshes' = refreshes + 1 /\ UNCHANGED tried
    /\ Met
    /\ pc' = "pick"
    /\ UNCHANGED <<at, sends, trims, before, requestVars, sendErr, modelSkipped,
                   knownDepleted, answer, accountVars, historyVars>>

\* The gate finds a better account that is ready.
Superseded ==
    /\ pc = "gate"
    /\ StandingAs("ready") # {} /\ refreshes < MaxRefreshes
    /\ IF Unsent THEN Requeue(at) ELSE refreshes' = refreshes + 1 /\ UNCHANGED tried
    /\ Met
    /\ pc' = "pick"
    /\ UNCHANGED <<at, sends, trims, before, requestVars, sendErr, modelSkipped,
                   knownDepleted, answer, accountVars, historyVars>>

\* The gate finds the lease outdated.
Invalid ==
    /\ pc = "gate"
    /\ IF Unsent /\ refreshes < MaxRefreshes THEN Requeue(at) ELSE Keep
    /\ Met
    /\ pc' = "pick"
    /\ UNCHANGED <<at, sends, trims, before, requestVars, sendErr, modelSkipped,
                   knownDepleted, answer, accountVars, historyVars>>

\* The lease is good but no send is left.
Exhausted ==
    /\ pc = "gate"
    /\ sends >= MaxSends
    /\ LET err == IF sendErr # None THEN sendErr ELSE lastErr IN
         /\ lastErr' = err
         /\ Returned(err)
    /\ UNCHANGED <<at, progressVars, requestVars, sendErr, modelSkipped, knownDepleted,
                   accountVars, historyVars>>

\* The physical send.
SendOnce ==
    /\ pc = "gate"
    /\ sends < MaxSends
    /\ sends' = sends + 1
    /\ pc' = "sent"
    /\ Becomes(at, "sent")
    /\ UNCHANGED <<at, tried, refreshes, trims, before, requestVars, errorVars, answer,
                   accountVars, refused>>

\* 401 or 403 to a first send, and the token could be refreshed.
AuthRetry ==
    /\ pc = "sent" /\ ~again
    /\ again' = TRUE
    /\ sendErr' = "auth"
    /\ pc' = "gate"
    /\ UNCHANGED <<at, progressVars, areq, kreq, stripped, lastErr, modelSkipped,
                   knownDepleted, answer, accountVars, historyVars>>

\* The stream opens and its first frames are sound.
Open ==
    /\ pc = "sent"
    /\ Returned("stream")
    /\ UNCHANGED <<at, progressVars, requestVars, errorVars, accountVars, historyVars>>

NoteRefusal(err) ==
    refused' = CASE err = "signature" -> [refused EXCEPT !.reasoning = TRUE]
                 [] err = "too_long"  -> [refused EXCEPT !.length = Len(kreq)]
                 [] OTHER             -> refused

StripForOneSend ==   \* mutant: that the retry has stripped is not recorded
    /\ kreq' = WithoutReasoning(kreq)
    /\ UNCHANGED stripped

Strip ==
    /\ kreq' = WithoutReasoning(kreq)
    /\ stripped' = TRUE

(***************************************************************************)
(* A rejected signature is retried without reasoning: within the send when *)
(* the send itself was refused (withReasoningRetry), by openStream when    *)
(* the first frames say so.                                                *)
(***************************************************************************)
RetryStripped ==
    /\ pc = "sent"
    /\ HasReasoning(kreq)
    /\ NoteRefusal("signature")
    /\ Strip
    /\ ToSend
    /\ \/ \* within one call of withReasoningRetry
          /\ sendErr' = "signature"
          /\ UNCHANGED lastErr
       \/ \* a new one
          /\ ~stripped
          /\ sendErr' = None
          /\ lastErr' = "signature"
    /\ UNCHANGED <<at, progressVars, areq, modelSkipped, knownDepleted, answer,
                   accountVars, fate>>

\* trimOldestCompleteTurn, then the rebuild.
Trim ==
    /\ Len(areq) > 1
    /\ areq' = Tail(areq)
    /\ Rebuild(areq')

\* The prompt is too long: the oldest unit goes, on the same account.
RetryTrimmed ==
    /\ pc = "sent"
    /\ trims < MaxTrims
    /\ NoteRefusal("too_long")
    /\ Trim
    /\ trims' = trims + 1
    /\ lastErr' = "too_long"
    /\ sendErr' = None
    /\ ToSend
    /\ UNCHANGED <<at, tried, sends, refreshes, before, stripped, modelSkipped,
                   knownDepleted, answer, accountVars, fate>>

\* The account failed, or does not know the model: on to the next.
NextAccount ==
    /\ pc = "sent"
    /\ lastErr' \in {"auth", "bad_model", "depleted", "account"}
    /\ pc' = "pick"
    /\ UNCHANGED <<at, progressVars, requestVars, sendErr, modelSkipped, knownDepleted,
                   answer, accountVars, historyVars>>

\* The request itself is refused, and nothing can be trimmed or stripped.
Surface ==
    /\ pc = "sent"
    /\ \E err \in {"request", "too_long", "signature"} :
         /\ err = "signature" => stripped \/ ~HasReasoning(kreq)
         /\ NoteRefusal(err)
         /\ lastErr' = err
         /\ Returned(err)
    /\ UNCHANGED <<at, progressVars, requestVars, sendErr, modelSkipped, knownDepleted,
                   accountVars, fate>>

(***************************************************************************)
(* No token could be had for a send (accessToken): if the credentials were *)
(* replaced and nothing was sent, the account is given back.               *)
(***************************************************************************)
NoToken ==
    /\ pc = "gate"
    /\ lastErr' \in {"revision", "account"}
    /\ IF lastErr' = "revision" /\ Unsent
         THEN /\ IF refreshes < MaxRefreshes THEN Requeue(at) ELSE Keep
              /\ UNCHANGED fate
         ELSE Keep /\ Becomes(at, "failed")
    /\ pc' = "pick"
    /\ UNCHANGED <<at, sends, trims, before, requestVars, sendErr, modelSkipped,
                   knownDepleted, answer, accountVars, refused>>

-----------------------------------------------------------------------------

\* Other requests, observations or the admin change how an account stands.
ChangeElsewhere ==
    /\ pc # "done" /\ changes < MaxChanges
    /\ \E id \in Ids, q \in Quotas : quota' = [quota EXCEPT ![id] = q]
    /\ changes' = changes + 1
    /\ UNCHANGED <<pc, at, progressVars, requestVars, errorVars, answer, historyVars>>

Step ==
    \/ PickReady \/ PickUnproven \/ PickCooling \/ GiveUp
    \/ Verify
    \/ LeaveLease \/ Prepare \/ Unbuildable
    \/ Superseded \/ Invalid \/ Exhausted \/ NoToken \/ SendOnce
    \/ AuthRetry \/ RetryStripped \/ RetryTrimmed \/ NextAccount
    \/ Open \/ Surface \/ Cancel

DispatchNext == Step \/ ChangeElsewhere

\* Every call the dispatch waits for ends, by its timeout if by nothing else.
DispatchSpec == DispatchInit /\ [][DispatchNext]_dispatchVars /\ WF_dispatchVars(Step)

-----------------------------------------------------------------------------

\* The variables hold what the locals of openStream hold, and no budget is
\* exceeded, by retries within a lease either.
DispatchTypeOK ==
    /\ pc \in {"pick", "verify", "prepare", "gate", "sent", "done"}
    /\ at \in Ids \union {None}
    /\ pc \in {"verify", "prepare", "gate", "sent"} => at \in Ids
    /\ tried \in SUBSET Ids
    /\ sends \in 0..MaxSends
    /\ refreshes \in 0..MaxRefreshes
    /\ trims \in 0..MaxTrims
    /\ before \in 0..MaxSends
    /\ areq \in Seq(BOOLEAN) /\ kreq \in Seq(BOOLEAN)
    /\ stripped \in BOOLEAN /\ again \in BOOLEAN
    /\ modelSkipped \in BOOLEAN /\ knownDepleted \in BOOLEAN
    /\ sendErr \in Errors \union {None} /\ lastErr \in Errors \union {None}
    /\ answer \in Answers \union {None}
    /\ quota \in [Ids -> Quotas]
    /\ changes \in 0..MaxChanges
    /\ fate \in [Ids -> {"none", "sent", "no_model", "unproven", "failed"}]
    /\ refused \in [reasoning : BOOLEAN, length : Nat]

(***************************************************************************)
(* What upstream has refused is never sent again in the same request, on   *)
(* whichever account and after whatever rebuild: no reasoning once a       *)
(* signature was rejected, no conversation as long as one that was too     *)
(* long.                                                                   *)
(***************************************************************************)
NeverResendsRefused ==
    pc = "sent" =>
        /\ refused.reasoning => ~HasReasoning(kreq)
        /\ Len(kreq) < refused.length

(***************************************************************************)
(* The pool is blamed only if no account was ever sent on: an error that   *)
(* upstream has given is never lost to a gate's refusal, a repick or a     *)
(* retry.                                                                  *)
(***************************************************************************)
PoolErrorMeansUnsent == answer \in PoolErrors => sends = 0

(***************************************************************************)
(* A dispatch that runs out of accounts has found out something about each *)
(* that could be picked, unless the budget of lease refreshes is spent: no *)
(* superseded or outdated lease loses its account.                         *)
(***************************************************************************)
NoneLeftBehind ==
    [][pc = "pick" /\ pc' = "done" /\ sends < MaxSends =>
         \A id \in Ids : quota[id] \in {"ready", "unproven", "cooling"} =>
             fate[id] # "none" \/ refreshes = MaxRefreshes]_dispatchVars

\* Every dispatch returns, if others change the accounts finitely often.
Returns == <>(answer # None)
=============================================================================
