---------------------------- MODULE AccountStore ----------------------------
(***************************************************************************)
(* The account store (accounts.go): the accounts in memory, the three      *)
(* process-unique stamps that fence every asynchronous user of an account, *)
(* and the file the accounts are saved to.  Each exported operation holds  *)
(* the store's mutex from its first read to the end of its save, so each   *)
(* is one action.  What is asynchronous is the callers: they take a        *)
(* runtime snapshot, do network I/O without the lock, and come back with   *)
(* the stamp of the snapshot.                                              *)
(***************************************************************************)
EXTENDS Naturals, FiniteSets

CONSTANTS
    Ids,          \* account ids
    Regs,         \* client registrations, each the start of a token chain
    Arns,         \* Kiro profiles
    NoReg, NoArn, \* not known
    NoAccount,
    Rotations,    \* a token is numbered 0..Rotations within its chain
    SaveOutcomes, \* what saveLocked can report: TRUE is success
    MaxRevision   \* bound: no stamp is issued once nextRevision has reached it

ASSUME IdsFinite == IsFiniteSet(Ids)
ASSUME BoundsAreNat == Rotations \in Nat /\ MaxRevision \in Nat
ASSUME SaveOutcomesAreBoolean == SaveOutcomes \subseteq BOOLEAN

(***************************************************************************)
(* An account.  reg is the client registration (clientId, clientSecret,    *)
(* region, start URL) with the first refresh token obtained for it; tok    *)
(* the token held now: a token belongs to the chain of one registration    *)
(* and upstream rotates it on every refresh.  NoReg is an account that     *)
(* carries an access token alone.  Labels, display order, email and the    *)
(* other identity fields are left out: no stamp depends on them.           *)
(***************************************************************************)
Token == [chain : Regs \union {NoReg}, n : 0..Rotations]
Account == [disabled : BOOLEAN, overage : BOOLEAN, arn : Arns \union {NoArn},
            reg : Regs \union {NoReg}, tok : Token]

ASSUME NoAccountIsNone == NoAccount \notin Account
ASSUME NoArnIsNone == NoArn \notin Arns
ASSUME NoRegIsNone == NoReg \notin Regs

VARIABLES
    accounts,        \* NoAccount where the id is missing
    revisions, lifecycles, credentials,   \* 0 is the unset stamp
    nextRevision, nextLifecycle, nextCredential,
    disk,            \* the accounts in the file
    failed           \* the last operation returned an error

stamps == <<revisions, lifecycles, credentials,
            nextRevision, nextLifecycle, nextCredential>>
storeVars == <<accounts, stamps, disk, failed>>

Present == {id \in Ids : accounts[id] # NoAccount}

Runtime == [id : Ids, account : Account,
            revision : Nat, lifecycle : Nat, credential : Nat]

\* runtimeLocked
RuntimeOf(id) == [id |-> id, account |-> accounts[id], revision |-> revisions[id],
                  lifecycle |-> lifecycles[id], credential |-> credentials[id]]

-----------------------------------------------------------------------------

(***************************************************************************)
(* The bumps.  A new credential starts a new lifecycle, a new lifecycle a  *)
(* new revision; the counters only ever grow while the process lives.      *)
(***************************************************************************)
BumpRuntime(id) ==
    /\ nextRevision' = nextRevision + 1
    /\ revisions' = [revisions EXCEPT ![id] = nextRevision + 1]

LifecycleBumpAlone(id) ==   \* mutant: the revision does not follow
    /\ nextLifecycle' = nextLifecycle + 1
    /\ lifecycles' = [lifecycles EXCEPT ![id] = nextLifecycle + 1]
    /\ UNCHANGED <<revisions, nextRevision>>

LifecyclePerAccount(id) ==   \* mutant: a counter per account
    /\ UNCHANGED nextLifecycle
    /\ lifecycles' = [lifecycles EXCEPT ![id] = @ + 1]
    /\ BumpRuntime(id)

BumpLifecycle(id) ==
    /\ nextLifecycle' = nextLifecycle + 1
    /\ lifecycles' = [lifecycles EXCEPT ![id] = nextLifecycle + 1]
    /\ BumpRuntime(id)

CredentialPerAccount(id) ==   \* mutant: a counter per account
    /\ UNCHANGED nextCredential
    /\ credentials' = [credentials EXCEPT ![id] = @ + 1]
    /\ BumpLifecycle(id)

BumpCredential(id) ==
    /\ nextCredential' = nextCredential + 1
    /\ credentials' = [credentials EXCEPT ![id] = nextCredential + 1]
    /\ BumpLifecycle(id)

KeepLifecycle == UNCHANGED <<lifecycles, nextLifecycle>>
KeepCredential == UNCHANGED <<credentials, nextCredential>>

\* saveLocked writes a temporary file and renames it: all or nothing.  The
\* change in memory stands whatever it reports.
Save ==
    \E ok \in SaveOutcomes :
        /\ disk' = IF ok THEN accounts' ELSE disk
        /\ failed' = ~ok

Room == nextRevision < MaxRevision

\* An operation that finds nothing to change succeeds without a save.
Unchanged ==
    /\ failed' = FALSE
    /\ UNCHANGED <<accounts, stamps, disk>>

\* An operation on an id that does not exist.
NotFound(id) ==
    /\ accounts[id] = NoAccount
    /\ failed' = TRUE
    /\ UNCHANGED <<accounts, stamps, disk>>

(***************************************************************************)
(* What the admin hands in: a sign-in or a Kiro import starts in the pool, *)
(* without overage and with the first token of its registration; an entry  *)
(* of an export bundle carries the policy and the token of the server it   *)
(* was exported from.                                                      *)
(***************************************************************************)
BundleEntry == {a \in Account : a.tok.chain = a.reg}
SignIn == {a \in BundleEntry : ~a.disabled /\ ~a.overage /\ a.tok.n = 0}

\* applyCredentialsLocked: an empty profileArn does not erase the known one.
WithCredentials(a, fresh) ==
    [a EXCEPT !.reg = fresh.reg, !.tok = fresh.tok,
              !.arn = IF fresh.arn # NoArn THEN fresh.arn ELSE @]

Add(id, a) ==
    /\ Room
    /\ accounts' = [accounts EXCEPT ![id] = a]
    /\ BumpCredential(id)
    /\ Save

ReplaceCredentials(id, fresh) ==
    \/ NotFound(id)
    \/ /\ Room
       /\ accounts[id] # NoAccount
       /\ accounts' = [accounts EXCEPT ![id] = WithCredentials(@, fresh)]
       /\ BumpCredential(id)
       /\ Save

(***************************************************************************)
(* ImportAccounts applies a bundle entry by entry and saves once.  bundle  *)
(* gives each id the entry that ends up on it, merged into an account that *)
(* exists (findDuplicateLocked found it and something changed) and         *)
(* inserted otherwise; an account bumps once and turn is its place among   *)
(* the bumps.  A bundle that only matches unchanged accounts still saves,  *)
(* one without any usable entry does not.                                  *)
(***************************************************************************)
Turns(S) == {f \in [S -> 1..Cardinality(S)] :
               \A i, j \in S : f[i] = f[j] => i = j}

ImportAccounts(S, bundle, turn) ==
    LET n == Cardinality(S)
        Stamped(f, next) == [id \in Ids |-> IF id \in S THEN next + turn[id] ELSE f[id]]
    IN  \/ S = {} /\ Unchanged
        \/ /\ nextRevision + n <= MaxRevision
           /\ accounts' = [id \in Ids |->
                             IF id \notin S THEN accounts[id]
                             ELSE IF accounts[id] = NoAccount THEN bundle[id]
                             ELSE WithCredentials(accounts[id], bundle[id])]
           /\ revisions' = Stamped(revisions, nextRevision)
           /\ lifecycles' = Stamped(lifecycles, nextLifecycle)
           /\ credentials' = Stamped(credentials, nextCredential)
           /\ nextRevision' = nextRevision + n
           /\ nextLifecycle' = nextLifecycle + n
           /\ nextCredential' = nextCredential + n
           /\ Save

SetDisabledChanged(id, disabled) ==
    \/ NotFound(id)
    \/ /\ accounts[id] # NoAccount
       /\ accounts[id].disabled = disabled
       /\ Unchanged
    \/ /\ Room
       /\ accounts[id] # NoAccount
       /\ accounts[id].disabled # disabled
       /\ accounts' = [accounts EXCEPT ![id].disabled = disabled]
       /\ BumpRuntime(id) /\ KeepLifecycle /\ KeepCredential
       /\ Save

SetOverageEnabledChanged(id, enabled) ==
    \/ NotFound(id)
    \/ /\ accounts[id] # NoAccount
       /\ accounts[id].overage = enabled
       /\ Unchanged
    \/ /\ Room
       /\ accounts[id] # NoAccount
       /\ accounts[id].overage # enabled
       /\ accounts' = [accounts EXCEPT ![id].overage = enabled]
       /\ BumpRuntime(id) /\ KeepLifecycle /\ KeepCredential
       /\ Save

\* errAccountRevisionChanged: the account is not the one the caller read.
Fenced ==
    /\ failed' = TRUE
    /\ UNCHANGED <<accounts, stamps, disk>>

(***************************************************************************)
(* updateIdentityAtRevision, by a caller that resolved the profile of the  *)
(* account it read in snapshot s.  A profile that differs from the stored  *)
(* one, an empty one included, starts a new lifecycle.                     *)
(***************************************************************************)
UpdateIdentity(s, arn) ==
    \/ /\ accounts[s.id] = NoAccount \/ revisions[s.id] # s.revision
       /\ Fenced
    \/ /\ Room
       /\ accounts[s.id] # NoAccount
       /\ revisions[s.id] = s.revision
       /\ accounts' = [accounts EXCEPT ![s.id].arn = IF arn # NoArn THEN arn ELSE @]
       /\ IF arn # NoArn /\ accounts[s.id].arn # arn
            THEN BumpLifecycle(s.id)
            ELSE UNCHANGED <<revisions, nextRevision>> /\ KeepLifecycle
       /\ KeepCredential
       /\ Save

UpdateTokensUnfenced(s, tok) ==   \* mutant: the credential is not compared
    /\ accounts[s.id] # NoAccount
    /\ accounts' = [accounts EXCEPT ![s.id].tok = tok]
    /\ Save
    /\ UNCHANGED stamps

(***************************************************************************)
(* updateTokensAtCredential, by a caller that refreshed the token it read  *)
(* in snapshot s.  No stamp moves.                                         *)
(***************************************************************************)
UpdateTokens(s, tok) ==
    \/ /\ accounts[s.id] = NoAccount \/ credentials[s.id] # s.credential
       /\ Fenced
    \/ /\ accounts[s.id] # NoAccount
       /\ credentials[s.id] = s.credential
       /\ accounts' = [accounts EXCEPT ![s.id].tok = tok]
       /\ Save
       /\ UNCHANGED stamps

\* Removing a missing account succeeds without a save.
Remove(id) ==
    \/ /\ accounts[id] = NoAccount
       /\ Unchanged
    \/ /\ accounts[id] # NoAccount
       /\ accounts' = [accounts EXCEPT ![id] = NoAccount]
       /\ revisions' = [revisions EXCEPT ![id] = 0]
       /\ lifecycles' = [lifecycles EXCEPT ![id] = 0]
       /\ credentials' = [credentials EXCEPT ![id] = 0]
       /\ Save
       /\ UNCHANGED <<nextRevision, nextLifecycle, nextCredential>>

-----------------------------------------------------------------------------

(***************************************************************************)
(* The process ends, at any moment, and starts again: NewAccountStore and  *)
(* load.  Accounts are stamped in the order of the file.                   *)
(***************************************************************************)
Restart ==
    /\ accounts' = disk
    /\ LET S == {id \in Ids : disk[id] # NoAccount}
           n == Cardinality(S)
       IN  \E turn \in Turns(S) :
             LET Stamped == [id \in Ids |-> IF id \in S THEN turn[id] ELSE 0] IN
             /\ revisions' = Stamped
             /\ lifecycles' = Stamped
             /\ credentials' = Stamped
             /\ nextRevision' = n
             /\ nextLifecycle' = n
             /\ nextCredential' = n
    /\ failed' = FALSE
    /\ UNCHANGED disk

\* A first start, without a file.
StoreInit ==
    /\ accounts = [id \in Ids |-> NoAccount]
    /\ revisions = [id \in Ids |-> 0]
    /\ lifecycles = [id \in Ids |-> 0]
    /\ credentials = [id \in Ids |-> 0]
    /\ nextRevision = 0 /\ nextLifecycle = 0 /\ nextCredential = 0
    /\ disk = accounts
    /\ failed = FALSE

\* The store's variables hold what the Go types hold.
StoreTypeOK ==
    /\ accounts \in [Ids -> Account \union {NoAccount}]
    /\ disk \in [Ids -> Account \union {NoAccount}]
    /\ revisions \in [Ids -> Nat]
    /\ lifecycles \in [Ids -> Nat]
    /\ credentials \in [Ids -> Nat]
    /\ nextRevision \in Nat /\ nextLifecycle \in Nat /\ nextCredential \in Nat
    /\ failed \in BOOLEAN
=============================================================================
