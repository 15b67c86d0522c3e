------------------------- MODULE StoreCallersProofs -------------------------
(***************************************************************************)
(* The stamps of the account store do what its asynchronous callers rely   *)
(* on, for any ids, registrations and profiles, any number of snapshots in *)
(* callers' hands, and whatever the saves report.                          *)
(***************************************************************************)
EXTENDS StoreCallers, FiniteSetTheorems, TLAPS

Files == [Ids -> Account \union {NoAccount}]

\* Every token in f belongs to the chain of its account's registration.
OwnTokens(f) == \A id \in Ids : f[id] # NoAccount => f[id].tok.chain = f[id].reg

-----------------------------------------------------------------------------
(* What one step does to one account.  Every operation of the store does   *)
(* one of these five things to every id.                                   *)

FreshRevision(id) == nextRevision < revisions'[id] /\ revisions'[id] <= nextRevision'
FreshLifecycle(id) == nextLifecycle < lifecycles'[id] /\ lifecycles'[id] <= nextLifecycle'
FreshCredential(id) == nextCredential < credentials'[id] /\ credentials'[id] <= nextCredential'

SameRevision(id) == revisions'[id] = revisions[id]
SameLifecycle(id) == lifecycles'[id] = lifecycles[id]
SameCredential(id) == credentials'[id] = credentials[id]

Stays(id) == accounts[id] # NoAccount /\ accounts'[id] # NoAccount

\* Missing before and after, or the same but for its token.
Same(id) ==
    /\ SameRevision(id) /\ SameLifecycle(id) /\ SameCredential(id)
    /\ \/ accounts[id] = NoAccount /\ accounts'[id] = NoAccount
       \/ Stays(id) /\ Routing(accounts'[id]) = Routing(accounts[id])

NewPolicy(id) ==
    /\ Stays(id)
    /\ accounts'[id].arn = accounts[id].arn /\ accounts'[id].reg = accounts[id].reg
    /\ FreshRevision(id) /\ SameLifecycle(id) /\ SameCredential(id)

NewIdentity(id) ==
    /\ Stays(id)
    /\ accounts'[id].reg = accounts[id].reg
    /\ FreshRevision(id) /\ FreshLifecycle(id) /\ SameCredential(id)

NewCredential(id) ==
    /\ accounts'[id] # NoAccount
    /\ FreshRevision(id) /\ FreshLifecycle(id) /\ FreshCredential(id)

Gone(id) ==
    /\ accounts'[id] = NoAccount
    /\ revisions'[id] = 0 /\ lifecycles'[id] = 0 /\ credentials'[id] = 0

Growing ==
    /\ nextRevision <= nextRevision'
    /\ nextLifecycle <= nextLifecycle'
    /\ nextCredential <= nextCredential'

(***************************************************************************)
(* What every step of a living process is: typed, its tokens on their own  *)
(* chains, its counters growing, and one of the five for every id.         *)
(***************************************************************************)
Orderly ==
    /\ StoreTypeOK'
    /\ OwnTokens(accounts)' /\ OwnTokens(disk)'
    /\ Growing
    /\ \A id \in Ids : \/ Same(id) \/ NewPolicy(id) \/ NewIdentity(id)
                       \/ NewCredential(id) \/ Gone(id)

\* The store between two operations.
StoreInv == StoreTypeOK /\ OwnTokens(accounts) /\ OwnTokens(disk)

-----------------------------------------------------------------------------
(* Accounts *)

LEMMA AccountIsSome ==
    ASSUME NEW a \in Account
    PROVE  a # NoAccount
BY NoAccountIsNone

LEMMA PolicyUpdate ==
    ASSUME NEW a \in Account, NEW on \in BOOLEAN, NEW b,
           b = [a EXCEPT !.disabled = on] \/ b = [a EXCEPT !.overage = on]
    PROVE  /\ b \in Account
           /\ b.arn = a.arn /\ b.reg = a.reg /\ b.tok = a.tok
<1>1. CASE b = [a EXCEPT !.disabled = on]
  BY <1>1 DEF Account
<1>2. CASE b = [a EXCEPT !.overage = on]
  BY <1>2 DEF Account
<1> QED
  BY <1>1, <1>2

LEMMA ArnUpdate ==
    ASSUME NEW a \in Account, NEW arn \in Arns \union {NoArn}
    PROVE  LET b == [a EXCEPT !.arn = arn] IN
           /\ b \in Account
           /\ b.arn = arn /\ b.reg = a.reg /\ b.tok = a.tok
           /\ b.disabled = a.disabled /\ b.overage = a.overage
BY DEF Account

LEMMA TokenUpdate ==
    ASSUME NEW a \in Account, NEW tok \in Token
    PROVE  LET b == [a EXCEPT !.tok = tok] IN
           /\ b \in Account
           /\ b.tok = tok /\ Routing(b) = Routing(a) /\ b.reg = a.reg
BY DEF Account, Routing

LEMMA CredentialsUpdate ==
    ASSUME NEW a \in Account, NEW fresh \in Account
    PROVE  /\ WithCredentials(a, fresh) \in Account
           /\ WithCredentials(a, fresh).reg = fresh.reg
           /\ WithCredentials(a, fresh).tok = fresh.tok
<1> DEFINE arn == IF fresh.arn # NoArn THEN fresh.arn ELSE a.arn
<1>1. /\ arn \in Arns \union {NoArn} /\ fresh.reg \in Regs \union {NoReg}
      /\ fresh.tok \in Token
  BY DEF Account
<1>2. WithCredentials(a, fresh) = [disabled |-> a.disabled, overage |-> a.overage,
                                   arn |-> arn, reg |-> fresh.reg, tok |-> fresh.tok]
  <2>1. WithCredentials(a, fresh)
          = [[[a EXCEPT !.reg = fresh.reg] EXCEPT !.tok = fresh.tok] EXCEPT !.arn = arn]
    BY DEF WithCredentials, Account
  <2> HIDE DEF arn
  <2> QED
    BY <2>1, <1>1 DEF Account
<1> HIDE DEF arn
<1> QED
  BY <1>1, <1>2 DEF Account

LEMMA SaveWrites ==
    ASSUME StoreTypeOK, Save, accounts' \in Files, OwnTokens(accounts)', OwnTokens(disk)
    PROVE  disk' \in Files /\ failed' \in BOOLEAN /\ OwnTokens(disk)'
<1>1. disk' = accounts' \/ disk' = disk
  BY DEF Save
<1>2. failed' \in BOOLEAN
  BY SaveOutcomesAreBoolean DEF Save
<1> QED
  BY <1>1, <1>2 DEF StoreTypeOK, Files, OwnTokens

-----------------------------------------------------------------------------
(* Stamps *)

LEMMA RuntimeBumps ==
    ASSUME StoreTypeOK, NEW id \in Ids, BumpRuntime(id)
    PROVE  /\ revisions' \in [Ids -> Nat] /\ nextRevision' \in Nat
           /\ nextRevision <= nextRevision'
           /\ FreshRevision(id)
           /\ \A j \in Ids \ {id} : SameRevision(j)
BY DEF StoreTypeOK, BumpRuntime, FreshRevision, SameRevision

LEMMA LifecycleBumps ==
    ASSUME StoreTypeOK, NEW id \in Ids, BumpLifecycle(id)
    PROVE  /\ lifecycles' \in [Ids -> Nat] /\ nextLifecycle' \in Nat
           /\ nextLifecycle <= nextLifecycle'
           /\ FreshLifecycle(id)
           /\ \A j \in Ids \ {id} : SameLifecycle(j)
           /\ BumpRuntime(id)
BY DEF StoreTypeOK, BumpLifecycle, FreshLifecycle, SameLifecycle

LEMMA CredentialBumps ==
    ASSUME StoreTypeOK, NEW id \in Ids, BumpCredential(id)
    PROVE  /\ credentials' \in [Ids -> Nat] /\ nextCredential' \in Nat
           /\ nextCredential <= nextCredential'
           /\ FreshCredential(id)
           /\ \A j \in Ids \ {id} : SameCredential(j)
           /\ BumpLifecycle(id)
BY DEF StoreTypeOK, BumpCredential, FreshCredential, SameCredential

\* An account nothing touches.
LEMMA Untouched ==
    ASSUME NEW j \in Ids, accounts'[j] = accounts[j],
           SameRevision(j), SameLifecycle(j), SameCredential(j)
    PROVE  Same(j)
BY DEF Same, Stays

LEMMA NothingChanges ==
    ASSUME StoreInv, UNCHANGED <<accounts, stamps, disk>>, failed' \in BOOLEAN
    PROVE  Orderly
<1>1. StoreTypeOK' /\ OwnTokens(accounts)' /\ OwnTokens(disk)'
  BY DEF StoreInv, StoreTypeOK, OwnTokens, stamps
<1>2. Growing
  BY DEF StoreInv, StoreTypeOK, Growing, stamps
<1>3. ASSUME NEW id \in Ids PROVE Same(id)
  BY Untouched DEF SameRevision, SameLifecycle, SameCredential, stamps
<1> QED
  BY <1>1, <1>2, <1>3 DEF Orderly

\* One account gets new credentials, or is added.
LEMMA CredentialsReplaced ==
    ASSUME StoreInv, NEW id \in Ids, NEW a \in Account, a.tok.chain = a.reg,
           accounts' = [accounts EXCEPT ![id] = a],
           BumpCredential(id), Save
    PROVE  Orderly
<1>1. /\ accounts' \in Files /\ accounts'[id] = a
      /\ \A j \in Ids \ {id} : accounts'[j] = accounts[j]
  BY DEF StoreInv, StoreTypeOK, Files
<1>2. OwnTokens(accounts)'
  BY <1>1 DEF StoreInv, OwnTokens
<1>3. /\ StoreTypeOK
      /\ disk' \in Files /\ failed' \in BOOLEAN /\ OwnTokens(disk)'
  BY <1>1, <1>2, SaveWrites DEF StoreInv
<1>4. /\ StoreTypeOK' /\ Growing
      /\ FreshRevision(id) /\ FreshLifecycle(id) /\ FreshCredential(id)
      /\ \A j \in Ids \ {id} : SameRevision(j) /\ SameLifecycle(j) /\ SameCredential(j)
  BY <1>1, <1>3, CredentialBumps, LifecycleBumps, RuntimeBumps DEF StoreTypeOK, Growing, Files
<1>5. NewCredential(id)
  BY <1>1, <1>4, AccountIsSome DEF NewCredential
<1>6. ASSUME NEW j \in Ids \ {id} PROVE Same(j)
  BY <1>1, <1>4, Untouched
<1> QED
  BY <1>2, <1>3, <1>4, <1>5, <1>6 DEF Orderly

\* One account gets a new policy.
LEMMA PolicyReplaced ==
    ASSUME StoreInv, NEW id \in Ids, accounts[id] # NoAccount,
           NEW b, NEW on \in BOOLEAN,
           b = [accounts[id] EXCEPT !.disabled = on] \/ b = [accounts[id] EXCEPT !.overage = on],
           accounts' = [accounts EXCEPT ![id] = b],
           BumpRuntime(id), KeepLifecycle, KeepCredential, Save
    PROVE  Orderly
<1>1. StoreTypeOK /\ accounts[id] \in Account
  BY DEF StoreInv, StoreTypeOK
<1>2. /\ b \in Account
      /\ b.arn = accounts[id].arn /\ b.reg = accounts[id].reg /\ b.tok = accounts[id].tok
  BY <1>1, PolicyUpdate
<1>3. /\ accounts' \in Files /\ accounts'[id] = b
      /\ \A j \in Ids \ {id} : accounts'[j] = accounts[j]
  BY <1>1, <1>2 DEF StoreTypeOK, Files
<1>4. OwnTokens(accounts)'
  BY <1>2, <1>3 DEF StoreInv, OwnTokens
<1>5. disk' \in Files /\ failed' \in BOOLEAN /\ OwnTokens(disk)'
  BY <1>1, <1>3, <1>4, SaveWrites DEF StoreInv
<1>6. /\ StoreTypeOK' /\ Growing
      /\ FreshRevision(id) /\ SameLifecycle(id) /\ SameCredential(id)
      /\ \A j \in Ids \ {id} : SameRevision(j) /\ SameLifecycle(j) /\ SameCredential(j)
  BY <1>1, <1>3, <1>5, RuntimeBumps
  DEF StoreTypeOK, Growing, Files, KeepLifecycle, KeepCredential, SameLifecycle, SameCredential
<1>7. NewPolicy(id)
  BY <1>2, <1>3, <1>6, AccountIsSome DEF NewPolicy, Stays
<1>8. ASSUME NEW j \in Ids \ {id} PROVE Same(j)
  BY <1>3, <1>6, Untouched
<1> QED
  BY <1>4, <1>5, <1>6, <1>7, <1>8 DEF Orderly

-----------------------------------------------------------------------------
(* The operations *)

LEMMA PolicyOrderly ==
    ASSUME StoreInv, NEW id \in Ids, NEW on \in BOOLEAN,
           SetDisabledChanged(id, on) \/ SetOverageEnabledChanged(id, on)
    PROVE  Orderly
<1>1. CASE UNCHANGED <<accounts, stamps, disk>> /\ failed' \in BOOLEAN
  BY <1>1, NothingChanges
<1>2. CASE /\ accounts[id] # NoAccount
           /\ accounts' = [accounts EXCEPT ![id].disabled = on]
           /\ BumpRuntime(id) /\ KeepLifecycle /\ KeepCredential /\ Save
  <2> DEFINE b == [accounts[id] EXCEPT !.disabled = on]
  <2>1. accounts' = [accounts EXCEPT ![id] = b]
    BY <1>2
  <2> QED
    BY <1>2, <2>1, PolicyReplaced
<1>3. CASE /\ accounts[id] # NoAccount
           /\ accounts' = [accounts EXCEPT ![id].overage = on]
           /\ BumpRuntime(id) /\ KeepLifecycle /\ KeepCredential /\ Save
  <2> DEFINE b == [accounts[id] EXCEPT !.overage = on]
  <2>1. accounts' = [accounts EXCEPT ![id] = b]
    BY <1>3
  <2> QED
    BY <1>3, <2>1, PolicyReplaced
<1> QED
  BY <1>1, <1>2, <1>3 DEF SetDisabledChanged, SetOverageEnabledChanged, NotFound, Unchanged

LEMMA AddOrderly ==
    ASSUME StoreInv, NEW id \in Ids, NEW a \in SignIn, Add(id, a)
    PROVE  Orderly
<1>1. a \in Account /\ a.tok.chain = a.reg
  BY DEF SignIn, BundleEntry
<1> QED
  BY <1>1, CredentialsReplaced DEF Add

LEMMA ReplaceOrderly ==
    ASSUME StoreInv, NEW id \in Ids, NEW a \in SignIn, ReplaceCredentials(id, a)
    PROVE  Orderly
<1>1. a \in Account /\ a.tok.chain = a.reg
  BY DEF SignIn, BundleEntry
<1>2. CASE NotFound(id)
  BY <1>2, NothingChanges DEF NotFound
<1>3. CASE /\ accounts[id] # NoAccount
           /\ accounts' = [accounts EXCEPT ![id] = WithCredentials(@, a)]
           /\ BumpCredential(id) /\ Save
  <2> DEFINE b == WithCredentials(accounts[id], a)
  <2>1. accounts[id] \in Account
    BY <1>3 DEF StoreInv, StoreTypeOK
  <2>2. b \in Account /\ b.tok.chain = b.reg
    BY <1>1, <2>1, CredentialsUpdate
  <2>3. accounts' = [accounts EXCEPT ![id] = b]
    BY <1>3
  <2> HIDE DEF b
  <2> QED
    BY <1>3, <2>2, <2>3, CredentialsReplaced
<1> QED
  BY <1>2, <1>3 DEF ReplaceCredentials

LEMMA RemoveOrderly ==
    ASSUME StoreInv, NEW id \in Ids, Remove(id)
    PROVE  Orderly
<1>1. CASE accounts[id] = NoAccount /\ Unchanged
  BY <1>1, NothingChanges DEF Unchanged
<1>2. CASE /\ accounts' = [accounts EXCEPT ![id] = NoAccount]
           /\ revisions' = [revisions EXCEPT ![id] = 0]
           /\ lifecycles' = [lifecycles EXCEPT ![id] = 0]
           /\ credentials' = [credentials EXCEPT ![id] = 0]
           /\ Save
           /\ UNCHANGED <<nextRevision, nextLifecycle, nextCredential>>
  <2>1. accounts' \in Files /\ OwnTokens(accounts)'
    BY <1>2 DEF StoreInv, StoreTypeOK, Files, OwnTokens
  <2>2. disk' \in Files /\ failed' \in BOOLEAN /\ OwnTokens(disk)'
    BY <1>2, <2>1, SaveWrites DEF StoreInv
  <2>3. StoreTypeOK' /\ Growing
    BY <1>2, <2>1, <2>2 DEF StoreInv, StoreTypeOK, Files, Growing
  <2>4. Gone(id)
    BY <1>2 DEF StoreInv, StoreTypeOK, Gone
  <2>5. ASSUME NEW j \in Ids \ {id} PROVE Same(j)
    <3>1. /\ accounts'[j] = accounts[j]
          /\ SameRevision(j) /\ SameLifecycle(j) /\ SameCredential(j)
      BY <1>2 DEF StoreInv, StoreTypeOK, SameRevision, SameLifecycle, SameCredential
    <3> QED
      BY <3>1, Untouched
  <2> QED
    BY <2>1, <2>2, <2>3, <2>4, <2>5 DEF Orderly
<1> QED
  BY <1>1, <1>2 DEF Remove

LEMMA IdentityOrderly ==
    ASSUME StoreInv, NEW s \in Runtime, NEW arn \in Arns \union {NoArn},
           UpdateIdentity(s, arn)
    PROVE  Orderly
<1> DEFINE id == s.id
           kept == IF arn # NoArn THEN arn ELSE accounts[id].arn
           b == [accounts[id] EXCEPT !.arn = kept]
<1>1. id \in Ids
  BY DEF Runtime
<1>2. CASE Fenced
  BY <1>2, NothingChanges DEF Fenced
<1>3. CASE /\ accounts[id] # NoAccount
           /\ accounts' = [accounts EXCEPT ![id].arn = IF arn # NoArn THEN arn ELSE @]
           /\ IF arn # NoArn /\ accounts[id].arn # arn
                THEN BumpLifecycle(id)
                ELSE UNCHANGED <<revisions, nextRevision>> /\ KeepLifecycle
           /\ KeepCredential
           /\ Save
  <2>1. /\ StoreTypeOK /\ accounts[id] \in Account
        /\ accounts[id].arn \in Arns \union {NoArn} /\ kept \in Arns \union {NoArn}
    BY <1>1, <1>3 DEF StoreInv, StoreTypeOK, Account
  <2>2. accounts' = [accounts EXCEPT ![id] = b]
    BY <1>3
  <2>3. /\ b \in Account
        /\ b.arn = kept /\ b.reg = accounts[id].reg /\ b.tok = accounts[id].tok
        /\ b.disabled = accounts[id].disabled /\ b.overage = accounts[id].overage
    <3> HIDE DEF kept
    <3> QED
      BY <2>1, ArnUpdate
  <2>4. /\ accounts' \in Files /\ accounts'[id] = b
        /\ \A j \in Ids \ {id} : accounts'[j] = accounts[j]
    <3> HIDE DEF b
    <3> QED
      BY <1>1, <2>1, <2>2, <2>3 DEF StoreTypeOK, Files
  <2>5. OwnTokens(accounts)'
    <3> HIDE DEF b
    <3> QED
      BY <1>3, <2>3, <2>4 DEF StoreInv, OwnTokens
  <2>6. disk' \in Files /\ failed' \in BOOLEAN /\ OwnTokens(disk)'
    BY <1>3, <2>1, <2>4, <2>5, SaveWrites DEF StoreInv
  <2>7. SameCredential(id) /\ \A j \in Ids \ {id} : SameCredential(j)
    BY <1>3 DEF KeepCredential, SameCredential
  <2>8. CASE arn # NoArn /\ accounts[id].arn # arn
    <3>1. /\ FreshRevision(id) /\ FreshLifecycle(id)
          /\ \A j \in Ids \ {id} : SameRevision(j) /\ SameLifecycle(j)
          /\ StoreTypeOK' /\ Growing
      BY <1>1, <1>3, <2>1, <2>4, <2>6, <2>8, LifecycleBumps, RuntimeBumps
      DEF StoreTypeOK, Growing, Files, KeepCredential
    <3>2. NewIdentity(id)
      <4> HIDE DEF b
      <4> QED
        BY <1>3, <2>3, <2>4, <2>7, <3>1, AccountIsSome DEF NewIdentity, Stays
    <3>3. ASSUME NEW j \in Ids \ {id} PROVE Same(j)
      BY <2>4, <2>7, <3>1, Untouched
    <3> QED
      BY <2>5, <2>6, <3>1, <3>2, <3>3 DEF Orderly
  <2>9. CASE ~(arn # NoArn /\ accounts[id].arn # arn)
    <3>1. kept = accounts[id].arn
      BY <2>9
    <3>2. /\ StoreTypeOK' /\ Growing
          /\ \A j \in Ids : SameRevision(j) /\ SameLifecycle(j) /\ SameCredential(j)
      BY <1>3, <2>1, <2>4, <2>6, <2>9
      DEF StoreTypeOK, Growing, Files, KeepLifecycle, KeepCredential,
          SameRevision, SameLifecycle, SameCredential
    <3>3. Same(id)
      <4> HIDE DEF b, kept
      <4> QED
        BY <1>1, <1>3, <2>3, <2>4, <3>1, <3>2, AccountIsSome DEF Same, Stays, Routing
    <3>4. ASSUME NEW j \in Ids \ {id} PROVE Same(j)
      BY <2>4, <3>2, Untouched
    <3> QED
      BY <2>5, <2>6, <3>2, <3>3, <3>4 DEF Orderly
  <2> QED
    BY <2>8, <2>9
<1> QED
  BY <1>2, <1>3 DEF UpdateIdentity

LEMMA TokensOrderly ==
    ASSUME StoreInv, NEW s \in Runtime, NEW tok \in Token, UpdateTokens(s, tok),
           accounts[s.id] # NoAccount /\ credentials[s.id] = s.credential
             => tok.chain = accounts[s.id].reg
    PROVE  Orderly
<1> DEFINE id == s.id
           b == [accounts[id] EXCEPT !.tok = tok]
<1>1. id \in Ids
  BY DEF Runtime
<1>2. CASE Fenced
  BY <1>2, NothingChanges DEF Fenced
<1>3. CASE /\ accounts[id] # NoAccount
           /\ credentials[id] = s.credential
           /\ accounts' = [accounts EXCEPT ![id].tok = tok]
           /\ Save
           /\ UNCHANGED stamps
  <2>1. StoreTypeOK /\ accounts[id] \in Account
    BY <1>1, <1>3 DEF StoreInv, StoreTypeOK
  <2>2. accounts' = [accounts EXCEPT ![id] = b]
    BY <1>3
  <2>3. /\ b \in Account /\ b.tok = tok
        /\ b.reg = accounts[id].reg /\ Routing(b) = Routing(accounts[id])
    BY <2>1, TokenUpdate
  <2> HIDE DEF b
  <2>4. /\ accounts' \in Files /\ accounts'[id] = b
        /\ \A j \in Ids \ {id} : accounts'[j] = accounts[j]
    BY <1>1, <2>1, <2>2, <2>3 DEF StoreTypeOK, Files
  <2>5. OwnTokens(accounts)'
    BY <1>3, <2>3, <2>4 DEF StoreInv, OwnTokens
  <2>6. disk' \in Files /\ failed' \in BOOLEAN /\ OwnTokens(disk)'
    BY <1>3, <2>1, <2>4, <2>5, SaveWrites DEF StoreInv
  <2>7. /\ StoreTypeOK' /\ Growing
        /\ \A j \in Ids : SameRevision(j) /\ SameLifecycle(j) /\ SameCredential(j)
    BY <1>3, <2>1, <2>4, <2>6
    DEF StoreTypeOK, Growing, Files, stamps, SameRevision, SameLifecycle, SameCredential
  <2>8. Same(id)
    BY <1>1, <1>3, <2>3, <2>4, <2>7, AccountIsSome DEF Same, Stays
  <2>9. ASSUME NEW j \in Ids \ {id} PROVE Same(j)
    BY <2>4, <2>7, Untouched
  <2> QED
    BY <2>5, <2>6, <2>7, <2>8, <2>9 DEF Orderly
<1> QED
  BY <1>2, <1>3 DEF UpdateTokens

\* The places a bundle's accounts take among the bumps.
LEMMA TurnsInRange ==
    ASSUME NEW S \in SUBSET Ids, NEW turn \in Turns(S)
    PROVE  /\ Cardinality(S) \in Nat
           /\ \A id \in S : turn[id] \in 1..Cardinality(S)
BY IdsFinite, FS_Subset, FS_CardinalityType DEF Turns

LEMMA ImportOrderly ==
    ASSUME StoreInv, NEW S \in SUBSET Ids, NEW bundle \in [S -> BundleEntry],
           NEW turn \in Turns(S), ImportAccounts(S, bundle, turn)
    PROVE  Orderly
<1> DEFINE n == Cardinality(S)
           merged(id) == IF accounts[id] = NoAccount THEN bundle[id]
                         ELSE WithCredentials(accounts[id], bundle[id])
           Stamped(f, next) == [id \in Ids |-> IF id \in S THEN next + turn[id] ELSE f[id]]
<1>1. CASE Unchanged
  BY <1>1, NothingChanges DEF Unchanged
<1>2. CASE /\ accounts' = [id \in Ids |-> IF id \notin S THEN accounts[id]
                                          ELSE IF accounts[id] = NoAccount THEN bundle[id]
                                          ELSE WithCredentials(accounts[id], bundle[id])]
           /\ revisions' = Stamped(revisions, nextRevision)
           /\ lifecycles' = Stamped(lifecycles, nextLifecycle)
           /\ credentials' = Stamped(credentials, nextCredential)
           /\ nextRevision' = nextRevision + n
           /\ nextLifecycle' = nextLifecycle + n
           /\ nextCredential' = nextCredential + n
           /\ Save
  <2>1. n \in Nat /\ \A id \in S : turn[id] \in 1..n
    BY TurnsInRange
  <2>2. ASSUME NEW id \in S
        PROVE  merged(id) \in Account /\ merged(id).tok.chain = merged(id).reg
    <3>1. bundle[id] \in Account /\ bundle[id].tok.chain = bundle[id].reg
      BY DEF BundleEntry
    <3>2. accounts[id] # NoAccount => accounts[id] \in Account
      BY DEF StoreInv, StoreTypeOK
    <3> QED
      BY <3>1, <3>2, CredentialsUpdate
  <2>3. \A id \in Ids : accounts'[id] = IF id \in S THEN merged(id) ELSE accounts[id]
    BY <1>2
  <2> HIDE DEF merged
  <2>4. accounts' \in Files /\ OwnTokens(accounts)'
    <3>1. DOMAIN accounts' = Ids /\ accounts' = [id \in Ids |-> accounts'[id]]
      BY <1>2
    <3> QED
      BY <2>2, <2>3, <3>1 DEF StoreInv, StoreTypeOK, Files, OwnTokens
  <2>5. disk' \in Files /\ failed' \in BOOLEAN /\ OwnTokens(disk)'
    BY <1>2, <2>4, SaveWrites DEF StoreInv
  <2> HIDE DEF n
  <2>6. /\ revisions' \in [Ids -> Nat] /\ lifecycles' \in [Ids -> Nat]
        /\ credentials' \in [Ids -> Nat]
    BY <1>2, <2>1 DEF StoreInv, StoreTypeOK
  <2>7. StoreTypeOK' /\ Growing
    BY <1>2, <2>1, <2>4, <2>5, <2>6 DEF StoreInv, StoreTypeOK, Files, Growing
  <2>8. ASSUME NEW id \in S PROVE NewCredential(id)
    <3>1. accounts'[id] # NoAccount
      BY <2>2, <2>3, AccountIsSome
    <3>2. FreshRevision(id) /\ FreshLifecycle(id) /\ FreshCredential(id)
      BY <1>2, <2>1 DEF StoreInv, StoreTypeOK, FreshRevision, FreshLifecycle, FreshCredential
    <3> QED
      BY <3>1, <3>2 DEF NewCredential
  <2>9. ASSUME NEW id \in Ids \ S PROVE Same(id)
    <3>1. /\ accounts'[id] = accounts[id]
          /\ SameRevision(id) /\ SameLifecycle(id) /\ SameCredential(id)
      BY <1>2, <2>3 DEF SameRevision, SameLifecycle, SameCredential
    <3> QED
      BY <3>1, Untouched
  <2> QED
    BY <2>4, <2>5, <2>7, <2>8, <2>9 DEF Orderly
<1> QED
  BY <1>1, <1>2 DEF ImportAccounts

-----------------------------------------------------------------------------
(* The inductive invariant *)

\* Stamps are zero exactly for missing ids, and never ahead of the counters.
Stamped ==
    \A id \in Ids :
        /\ revisions[id] <= nextRevision /\ lifecycles[id] <= nextLifecycle
        /\ credentials[id] <= nextCredential
        /\ accounts[id] = NoAccount =>
             revisions[id] = 0 /\ lifecycles[id] = 0 /\ credentials[id] = 0
        /\ accounts[id] # NoAccount =>
             revisions[id] > 0 /\ lifecycles[id] > 0 /\ credentials[id] > 0

\* A copy carries stamps that were issued, and a token of its own chain.
CopiesStamped ==
    \A s \in snapshots :
        /\ s.revision \in 1..nextRevision /\ s.lifecycle \in 1..nextLifecycle
        /\ s.credential \in 1..nextCredential
        /\ s.account.tok.chain = s.account.reg

\* No copy is ahead of the account it was taken of.
CopiesOlder ==
    \A s \in snapshots : accounts[s.id] # NoAccount =>
        /\ s.revision <= revisions[s.id] /\ s.lifecycle <= lifecycles[s.id]
        /\ s.credential <= credentials[s.id]

\* The revision is the finest of the three stamps.
RevisionFinest ==
    \A s \in snapshots : s.revision = revisions[s.id] =>
        s.lifecycle = lifecycles[s.id] /\ s.credential = credentials[s.id]

CopiesAgree ==
    \A s, t \in snapshots :
        s.id = t.id /\ s.revision <= t.revision =>
            s.lifecycle <= t.lifecycle /\ s.credential <= t.credential

(***************************************************************************)
(* A stamp pins what it covers because whatever changes that moves the     *)
(* stamp to a value no copy carries: copies only carry stamps already      *)
(* issued, and the counters do not go back while a caller lives.           *)
(***************************************************************************)
IInv ==
    /\ TypeOK
    /\ OwnTokens(accounts) /\ OwnTokens(disk)
    /\ Stamped
    /\ CopiesStamped /\ CopiesOlder /\ RevisionFinest /\ CopiesAgree
    /\ RevisionPinsRouting /\ LifecyclePinsIdentity /\ CredentialPinsChain

LEMMA OrderlyKeepsIInv ==
    ASSUME IInv, Orderly, UNCHANGED snapshots
    PROVE  IInv'
<1> USE DEF IInv, TypeOK
<1>1. /\ TypeOK' /\ OwnTokens(accounts)' /\ OwnTokens(disk)' /\ Growing
      /\ snapshots' = snapshots
  BY DEF Orderly
<1>2. /\ nextRevision \in Nat /\ nextRevision' \in Nat
      /\ nextLifecycle \in Nat /\ nextLifecycle' \in Nat
      /\ nextCredential \in Nat /\ nextCredential' \in Nat
      /\ nextRevision <= nextRevision' /\ nextLifecycle <= nextLifecycle'
      /\ nextCredential <= nextCredential'
  BY <1>1 DEF StoreTypeOK, Growing
<1>3. ASSUME NEW id \in Ids
      PROVE  /\ revisions[id] \in Nat /\ lifecycles[id] \in Nat /\ credentials[id] \in Nat
             /\ revisions'[id] \in Nat /\ lifecycles'[id] \in Nat /\ credentials'[id] \in Nat
  BY <1>1 DEF StoreTypeOK
<1>4. ASSUME NEW id \in Ids
      PROVE  Same(id) \/ NewPolicy(id) \/ NewIdentity(id) \/ NewCredential(id) \/ Gone(id)
  BY DEF Orderly
<1>5. ASSUME NEW s \in snapshots
      PROVE  /\ s.id \in Ids
             /\ s.revision \in 1..nextRevision /\ s.lifecycle \in 1..nextLifecycle
             /\ s.credential \in 1..nextCredential
  BY DEF Runtime, CopiesStamped
<1> USE DEF SameRevision, SameLifecycle, SameCredential,
            FreshRevision, FreshLifecycle, FreshCredential
<1>6. Stamped'
  <2> SUFFICES ASSUME NEW id \in Ids
               PROVE  /\ revisions'[id] <= nextRevision' /\ lifecycles'[id] <= nextLifecycle'
                      /\ credentials'[id] <= nextCredential'
                      /\ accounts'[id] = NoAccount =>
                           revisions'[id] = 0 /\ lifecycles'[id] = 0 /\ credentials'[id] = 0
                      /\ accounts'[id] # NoAccount =>
                           revisions'[id] > 0 /\ lifecycles'[id] > 0 /\ credentials'[id] > 0
    BY DEF Stamped
  <2> QED
    BY <1>2, <1>3, <1>4 DEF Stamped, Same, NewPolicy, NewIdentity, NewCredential, Gone, Stays
<1>7. CopiesStamped' /\ CopiesAgree'
  BY <1>1, <1>2, <1>5 DEF CopiesStamped, CopiesAgree
<1>8. CopiesOlder'
  <2> SUFFICES ASSUME NEW s \in snapshots, accounts'[s.id] # NoAccount
               PROVE  /\ s.revision <= revisions'[s.id] /\ s.lifecycle <= lifecycles'[s.id]
                      /\ s.credential <= credentials'[s.id]
    BY <1>1 DEF CopiesOlder
  <2> QED
    BY <1>2, <1>3, <1>4, <1>5
    DEF CopiesOlder, Same, NewPolicy, NewIdentity, NewCredential, Gone, Stays
<1>9. RevisionFinest'
  BY <1>1, <1>2, <1>3, <1>4, <1>5
  DEF RevisionFinest, Same, NewPolicy, NewIdentity, NewCredential, Gone
<1>10. RevisionPinsRouting'
  BY <1>1, <1>2, <1>3, <1>4, <1>5
  DEF RevisionPinsRouting, Same, NewPolicy, NewIdentity, NewCredential, Gone, Stays
<1>11. LifecyclePinsIdentity'
  <2> SUFFICES ASSUME NEW s \in snapshots, s.lifecycle = lifecycles'[s.id]
               PROVE  /\ accounts'[s.id] # NoAccount
                      /\ s.account.arn = accounts'[s.id].arn
                      /\ s.account.reg = accounts'[s.id].reg
    BY <1>1 DEF LifecyclePinsIdentity
  <2>1. CASE Same(s.id)
    BY <1>5, <2>1 DEF LifecyclePinsIdentity, Same, Stays, Routing
  <2>2. CASE ~Same(s.id)
    BY <1>2, <1>3, <1>4, <1>5, <2>2
    DEF LifecyclePinsIdentity, NewPolicy, NewIdentity, NewCredential, Gone, Stays
  <2> QED
    BY <2>1, <2>2
<1>12. CredentialPinsChain'
  <2> SUFFICES ASSUME NEW s \in snapshots, s.credential = credentials'[s.id]
               PROVE  accounts'[s.id] # NoAccount /\ s.account.reg = accounts'[s.id].reg
    BY <1>1 DEF CredentialPinsChain
  <2>1. CASE Same(s.id)
    BY <1>5, <2>1 DEF CredentialPinsChain, Same, Stays, Routing
  <2>2. CASE ~Same(s.id)
    BY <1>2, <1>3, <1>4, <1>5, <2>2
    DEF CredentialPinsChain, NewPolicy, NewIdentity, NewCredential, Gone, Stays
  <2> QED
    BY <2>1, <2>2
<1> QED
  BY <1>1, <1>6, <1>7, <1>8, <1>9, <1>10, <1>11, <1>12

\* A copy of an account as it is.
LEMMA ReadKeepsIInv ==
    ASSUME IInv, NEW id \in Ids, Read(id)
    PROVE  IInv'
<1> USE DEF IInv, TypeOK
<1> DEFINE c == RuntimeOf(id)
<1>1. /\ accounts[id] \in Account /\ accounts[id] # NoAccount
      /\ revisions[id] \in Nat /\ lifecycles[id] \in Nat /\ credentials[id] \in Nat
      /\ nextRevision \in Nat /\ nextLifecycle \in Nat /\ nextCredential \in Nat
  BY DEF Read, StoreTypeOK
<1>2. /\ c.id = id /\ c.account = accounts[id] /\ c.revision = revisions[id]
      /\ c.lifecycle = lifecycles[id] /\ c.credential = credentials[id]
      /\ c \in Runtime
  BY <1>1 DEF RuntimeOf, Runtime
<1>3. snapshots' = snapshots \union {c} /\ UNCHANGED storeVars
  BY DEF Read
<1> HIDE DEF c
<1>4. TypeOK' /\ OwnTokens(accounts)' /\ OwnTokens(disk)' /\ Stamped'
  BY <1>2, <1>3 DEF storeVars, stamps, StoreTypeOK, OwnTokens, Stamped
<1>5. /\ revisions[id] \in 1..nextRevision /\ lifecycles[id] \in 1..nextLifecycle
      /\ credentials[id] \in 1..nextCredential
      /\ accounts[id].tok.chain = accounts[id].reg
  BY <1>1 DEF Stamped, OwnTokens
<1>6. CopiesStamped'
  BY <1>2, <1>3, <1>5 DEF CopiesStamped, storeVars, stamps
<1>7. CopiesOlder' /\ RevisionFinest'
  BY <1>1, <1>2, <1>3 DEF CopiesOlder, RevisionFinest, storeVars, stamps
<1>8. CopiesAgree'
  <2> SUFFICES ASSUME NEW s \in snapshots', NEW t \in snapshots',
                      s.id = t.id, s.revision <= t.revision
               PROVE  s.lifecycle <= t.lifecycle /\ s.credential <= t.credential
    BY DEF CopiesAgree
  <2>1. CASE s \in snapshots /\ t \in snapshots
    BY <2>1 DEF CopiesAgree
  <2>2. CASE t = c /\ s \in snapshots
    BY <1>1, <1>2, <2>2 DEF CopiesOlder
  <2>3. CASE s = c /\ t \in snapshots
    <3>1. t.revision <= revisions[id] /\ t.revision \in Nat
      BY <1>1, <1>2, <2>3 DEF CopiesOlder, CopiesStamped
    <3>2. t.revision = revisions[t.id]
      BY <1>1, <1>2, <2>3, <3>1
    <3> QED
      BY <1>1, <1>2, <2>3, <3>2 DEF RevisionFinest
  <2>4. CASE s = c /\ t = c
    BY <1>1, <1>2, <2>4
  <2> QED
    BY <1>3, <2>1, <2>2, <2>3, <2>4
<1>9. RevisionPinsRouting' /\ LifecyclePinsIdentity' /\ CredentialPinsChain'
  BY <1>1, <1>2, <1>3
  DEF RevisionPinsRouting, LifecyclePinsIdentity, CredentialPinsChain, storeVars, stamps
<1> QED
  BY <1>4, <1>6, <1>7, <1>8, <1>9

\* Without callers only the store itself matters.
LEMMA NoCallers ==
    ASSUME StoreTypeOK, OwnTokens(accounts), OwnTokens(disk), Stamped, snapshots = {}
    PROVE  IInv
BY DEF IInv, TypeOK, CopiesStamped, CopiesOlder, RevisionFinest, CopiesAgree,
       RevisionPinsRouting, LifecyclePinsIdentity, CredentialPinsChain

LEMMA InitIInv == Init => IInv
<1> SUFFICES ASSUME Init PROVE IInv
  OBVIOUS
<1>1. StoreTypeOK
  BY DEF Init, StoreInit, StoreTypeOK
<1>2. OwnTokens(accounts) /\ OwnTokens(disk)
  BY DEF Init, StoreInit, OwnTokens
<1>3. Stamped
  BY DEF Init, StoreInit, Stamped
<1>4. snapshots = {}
  BY DEF Init
<1> QED
  BY <1>1, <1>2, <1>3, <1>4, NoCallers

LEMMA CrashKeepsIInv ==
    ASSUME IInv, Crash
    PROVE  IInv'
<1> DEFINE S == {id \in Ids : disk[id] # NoAccount}
           n == Cardinality(S)
<1>1. PICK turn \in Turns(S) :
        /\ revisions' = [id \in Ids |-> IF id \in S THEN turn[id] ELSE 0]
        /\ lifecycles' = revisions' /\ credentials' = revisions'
        /\ nextRevision' = n /\ nextLifecycle' = n /\ nextCredential' = n
  BY DEF Crash, Restart
<1>2. n \in Nat /\ \A id \in S : turn[id] \in 1..n
  BY TurnsInRange
<1>3. accounts' = disk /\ disk' = disk /\ failed' = FALSE /\ snapshots' = {}
  BY DEF Crash, Restart
<1> HIDE DEF n
<1>4. /\ revisions' \in [Ids -> Nat]
      /\ \A id \in Ids : /\ revisions'[id] <= n
                         /\ disk[id] = NoAccount => revisions'[id] = 0
                         /\ disk[id] # NoAccount => revisions'[id] > 0
  BY <1>1, <1>2
<1>5. StoreTypeOK' /\ OwnTokens(accounts)' /\ OwnTokens(disk)' /\ Stamped'
  BY <1>1, <1>2, <1>3, <1>4 DEF IInv, TypeOK, StoreTypeOK, OwnTokens, Stamped
<1> QED
  BY <1>3, <1>5
  DEF IInv, TypeOK, CopiesStamped, CopiesOlder, RevisionFinest, CopiesAgree,
      RevisionPinsRouting, LifecyclePinsIdentity, CredentialPinsChain

LEMMA NextKeepsIInv ==
    ASSUME IInv, [Next]_vars
    PROVE  IInv'
<1>1. StoreInv
  BY DEF IInv, TypeOK, StoreInv
<1>2. ASSUME NEW id \in Ids, Read(id) PROVE IInv'
  BY <1>2, ReadKeepsIInv
<1>3. CASE ResolveIdentity
  <2>1. PICK s \in snapshots, arn \in Arns \union {NoArn} : UpdateIdentity(s, arn)
    BY <1>3 DEF ResolveIdentity
  <2>2. Orderly
    BY <1>1, <2>1, IdentityOrderly DEF IInv, TypeOK
  <2> QED
    BY <1>3, <2>2, OrderlyKeepsIInv DEF ResolveIdentity
<1>4. CASE RefreshToken
  <2>1. PICK s \in snapshots :
          /\ s.account.tok.n < Rotations
          /\ UpdateTokens(s, [s.account.tok EXCEPT !.n = @ + 1])
    BY <1>4 DEF RefreshToken
  <2> DEFINE tok == [s.account.tok EXCEPT !.n = @ + 1]
  <2>2. /\ s \in Runtime /\ s.account.tok \in Token
        /\ s.account.tok.chain = s.account.reg
    BY DEF IInv, TypeOK, Runtime, Account, CopiesStamped
  <2>3. tok \in Token /\ tok.chain = s.account.reg
    BY <2>1, <2>2, BoundsAreNat DEF Token
  <2>4. accounts[s.id] # NoAccount /\ credentials[s.id] = s.credential
          => tok.chain = accounts[s.id].reg
    BY <2>3 DEF IInv, CredentialPinsChain
  <2> HIDE DEF tok
  <2>5. UpdateTokens(s, tok)
    BY <2>1 DEF tok
  <2>6. Orderly
    BY <1>1, <2>2, <2>3, <2>4, <2>5, TokensOrderly
  <2> QED
    BY <1>4, <2>6, OrderlyKeepsIInv DEF RefreshToken
<1>5. CASE AddAccount
  BY <1>1, <1>5, AddOrderly, OrderlyKeepsIInv DEF AddAccount
<1>6. CASE SignInAgain
  BY <1>1, <1>6, ReplaceOrderly, OrderlyKeepsIInv DEF SignInAgain
<1>7. CASE ImportBundle
  BY <1>1, <1>7, ImportOrderly, OrderlyKeepsIInv DEF ImportBundle
<1>8. CASE SetDisabled \/ SetOverage
  BY <1>1, <1>8, PolicyOrderly, OrderlyKeepsIInv DEF SetDisabled, SetOverage
<1>9. CASE RemoveAccount
  BY <1>1, <1>9, RemoveOrderly, OrderlyKeepsIInv DEF RemoveAccount
<1>10. CASE Crash
  BY <1>10, CrashKeepsIInv
<1>11. CASE UNCHANGED vars
  BY <1>11
  DEF vars, storeVars, stamps, IInv, TypeOK, StoreTypeOK, OwnTokens, Stamped,
      CopiesStamped, CopiesOlder, RevisionFinest, CopiesAgree,
      RevisionPinsRouting, LifecyclePinsIdentity, CredentialPinsChain
<1> QED
  BY <1>2, <1>3, <1>4, <1>5, <1>6, <1>7, <1>8, <1>9, <1>10, <1>11 DEF Next

-----------------------------------------------------------------------------
(* The theorems *)

THEOREM Inductive == Spec => []IInv
<1>1. Init => IInv
  BY InitIInv
<1>2. IInv /\ [Next]_vars => IInv'
  BY NextKeepsIInv
<1> QED
  BY <1>1, <1>2, PTL DEF Spec

\* The store's and the callers' variables keep their types.
THEOREM TypeSafety == Spec => []TypeOK
<1>1. IInv => TypeOK
  BY DEF IInv
<1> QED
  BY <1>1, Inductive, PTL

\* A current revision means current policy, profile and registration.
THEOREM RevisionSafety == Spec => []RevisionPinsRouting
<1>1. IInv => RevisionPinsRouting
  BY DEF IInv
<1> QED
  BY <1>1, Inductive, PTL

\* A current lifecycle means current profile and registration.
THEOREM LifecycleSafety == Spec => []LifecyclePinsIdentity
<1>1. IInv => LifecyclePinsIdentity
  BY DEF IInv
<1> QED
  BY <1>1, Inductive, PTL

\* A current credential means a current registration.
THEOREM CredentialSafety == Spec => []CredentialPinsChain
<1>1. IInv => CredentialPinsChain
  BY DEF IInv
<1> QED
  BY <1>1, Inductive, PTL

(***************************************************************************)
(* No account ever holds a token of another registration, whenever its     *)
(* credentials were replaced under a refresh.                              *)
(***************************************************************************)
THEOREM TokenSafety == Spec => []TokenOfItsRegistration
<1>1. IInv => TokenOfItsRegistration
  BY DEF IInv, OwnTokens, TokenOfItsRegistration, Present
<1> QED
  BY <1>1, Inductive, PTL

\* The three stamps order any two copies of an account alike.
THEOREM OrderSafety == Spec => []StampsAgree
<1>1. ASSUME IInv PROVE StampsAgree
  <2> SUFFICES ASSUME NEW s \in snapshots \union {RuntimeOf(id) : id \in Present},
                      NEW t \in snapshots \union {RuntimeOf(id) : id \in Present},
                      s.id = t.id, s.revision <= t.revision
               PROVE  s.lifecycle <= t.lifecycle /\ s.credential <= t.credential
    BY DEF StampsAgree
  <2>1. ASSUME NEW c \in {RuntimeOf(id) : id \in Present}
        PROVE  /\ c.id \in Ids /\ accounts[c.id] # NoAccount
               /\ c.revision = revisions[c.id] /\ c.lifecycle = lifecycles[c.id]
               /\ c.credential = credentials[c.id]
               /\ c.revision \in Nat /\ c.lifecycle \in Nat /\ c.credential \in Nat
    BY <1>1 DEF RuntimeOf, Present, IInv, TypeOK, StoreTypeOK
  <2>2. CASE s \in snapshots /\ t \in snapshots
    BY <1>1, <2>2 DEF IInv, CopiesAgree
  <2>3. CASE s \in snapshots /\ t \in {RuntimeOf(id) : id \in Present}
    BY <1>1, <2>1, <2>3 DEF IInv, CopiesOlder
  <2>4. CASE s \in {RuntimeOf(id) : id \in Present} /\ t \in snapshots
    <3>1. t.revision <= revisions[t.id] /\ t.revision \in Nat
      BY <1>1, <2>1, <2>4 DEF IInv, CopiesOlder, CopiesStamped
    <3>2. t.revision = revisions[t.id]
      BY <2>1, <2>4, <3>1
    <3> QED
      BY <1>1, <2>1, <2>4, <3>2 DEF IInv, RevisionFinest
  <2>5. CASE /\ s \in {RuntimeOf(id) : id \in Present}
             /\ t \in {RuntimeOf(id) : id \in Present}
    BY <2>1, <2>5
  <2> QED
    BY <2>2, <2>3, <2>4, <2>5
<1> QED
  BY <1>1, Inductive, PTL
=============================================================================
