---------------------------- MODULE StoreCallers ----------------------------
(***************************************************************************)
(* The account store under its asynchronous callers.  A caller (a request, *)
(* the token refresher, an identity lookup, a usage or model fetch) copies *)
(* an account together with its stamps, works on the copy without the      *)
(* lock, and writes back or compares later.  What those callers rely on is *)
(* that an unchanged stamp means an unchanged account, for as much of the  *)
(* account as the stamp covers.                                            *)
(***************************************************************************)
EXTENDS AccountStore

CONSTANT MaxSnapshots   \* bound: snapshots in callers' hands at a time

ASSUME MaxSnapshotsIsNat == MaxSnapshots \in Nat

VARIABLE snapshots      \* the copies in callers' hands

vars == <<storeVars, snapshots>>

Init == StoreInit /\ snapshots = {}

\* Runtime, RuntimeList or withRuntime: a caller leaves with a copy.
Read(id) ==
    /\ accounts[id] # NoAccount
    /\ snapshots' = snapshots \union {RuntimeOf(id)}
    /\ Cardinality(snapshots') <= MaxSnapshots
    /\ UNCHANGED storeVars

\* A caller comes back with the profile it resolved with its copy.
ResolveIdentity ==
    /\ \E s \in snapshots, arn \in Arns \union {NoArn} : UpdateIdentity(s, arn)
    /\ UNCHANGED snapshots

\* A caller comes back with the token CreateToken gave for its copy.
RefreshToken ==
    /\ \E s \in snapshots :
         /\ s.account.reg # NoReg
         /\ s.account.tok.n < Rotations
         /\ UpdateTokens(s, [s.account.tok EXCEPT !.n = @ + 1])
    /\ UNCHANGED snapshots

\* The admin API.  A sign-in or a Kiro import that is no duplicate comes
\* with a new UUID.
AddAccount ==
    /\ \E id \in Ids, a \in SignIn : accounts[id] = NoAccount /\ Add(id, a)
    /\ UNCHANGED snapshots

SignInAgain ==
    /\ \E id \in Ids, a \in SignIn : ReplaceCredentials(id, a)
    /\ UNCHANGED snapshots

ImportBundle ==
    /\ \E S \in SUBSET Ids : \E bundle \in [S -> BundleEntry], turn \in Turns(S) :
         ImportAccounts(S, bundle, turn)
    /\ UNCHANGED snapshots

SetDisabled ==
    /\ \E id \in Ids, on \in BOOLEAN : SetDisabledChanged(id, on)
    /\ UNCHANGED snapshots

SetOverage ==
    /\ \E id \in Ids, on \in BOOLEAN : SetOverageEnabledChanged(id, on)
    /\ UNCHANGED snapshots

RemoveAccount ==
    /\ \E id \in Ids : Remove(id)
    /\ UNCHANGED snapshots

\* A crash takes the callers with it.
Crash == Restart /\ snapshots' = {}

Next ==
    \/ \E id \in Ids : Read(id)
    \/ ResolveIdentity
    \/ RefreshToken
    \/ AddAccount
    \/ SignInAgain
    \/ RemoveAccount
    \/ SetDisabled
    \/ SetOverage
    \/ ImportBundle
    \/ Crash

Spec == Init /\ [][Next]_vars

-----------------------------------------------------------------------------

\* The store's and the callers' variables hold what the Go types hold.
TypeOK ==
    /\ StoreTypeOK
    /\ snapshots \in SUBSET Runtime

\* What routing looks at: everything but the token.
Routing(a) == <<a.disabled, a.overage, a.arn, a.reg>>

(***************************************************************************)
(* A caller whose revision is still current holds the account's current    *)
(* policy, profile and registration.  A lease that passes the revision     *)
(* check before a send relies on it; so does every cached model list and   *)
(* usage observation.                                                      *)
(***************************************************************************)
RevisionPinsRouting ==
    \A s \in snapshots :
        s.revision = revisions[s.id] =>
            /\ accounts[s.id] # NoAccount
            /\ Routing(s.account) = Routing(accounts[s.id])

(***************************************************************************)
(* A caller whose lifecycle is still current holds the current profile and *)
(* registration: the selector keeps quota and cooldown across a revision   *)
(* exactly when the lifecycle is unchanged.                                *)
(***************************************************************************)
LifecyclePinsIdentity ==
    \A s \in snapshots :
        s.lifecycle = lifecycles[s.id] =>
            /\ accounts[s.id] # NoAccount
            /\ s.account.arn = accounts[s.id].arn
            /\ s.account.reg = accounts[s.id].reg

(***************************************************************************)
(* A caller whose credential is still current refreshes with the current   *)
(* registration: a token it obtained belongs to the current chain.         *)
(***************************************************************************)
CredentialPinsChain ==
    \A s \in snapshots :
        s.credential = credentials[s.id] =>
            /\ accounts[s.id] # NoAccount
            /\ s.account.reg = accounts[s.id].reg

(***************************************************************************)
(* An account never holds a token of another registration than its own: a  *)
(* refresh begun before the credentials were replaced, or before the       *)
(* account was removed and added again, cannot store its answer.           *)
(***************************************************************************)
TokenOfItsRegistration ==
    \A id \in Present : accounts[id].tok.chain = accounts[id].reg

(***************************************************************************)
(* The three stamps order the copies of an account alike: a copy with a    *)
(* newer revision never carries an older lifecycle or credential.  The     *)
(* selector calls a snapshot stale by its revision alone.                  *)
(***************************************************************************)
StampsAgree ==
    \A s, t \in snapshots \union {RuntimeOf(id) : id \in Present} :
        s.id = t.id /\ s.revision <= t.revision =>
            /\ s.lifecycle <= t.lifecycle
            /\ s.credential <= t.credential

(***************************************************************************)
(* A switch of a stored account that reports success is in the file        *)
(* (SetDisabledChanged "toggles whether an account participates in the     *)
(* round-robin pool, persists the store and reports whether the policy     *)
(* changed"): a restart does not undo it.                                  *)
(***************************************************************************)
SwitchIsPersisted ==
    [][\A id \in Ids, on \in BOOLEAN :
         disk[id] # NoAccount /\ SetDisabledChanged(id, on) /\ ~failed'
           => disk'[id].disabled = on]_vars
=============================================================================
