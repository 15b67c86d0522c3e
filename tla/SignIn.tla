------------------------------- MODULE SignIn -------------------------------
(***************************************************************************)
(* How an account gets into the pool: the browser sign-in (login.go), the  *)
(* import of the desktop client's credentials and the import of an export  *)
(* bundle (admin.go), and how each recognises an account that is already   *)
(* there (AccountStore.FindDuplicate).  The login manager's table and the  *)
(* store have a lock each, and a handler takes them one after the other:   *)
(* a sign-in consumes its state, talks to the identity provider with no    *)
(* lock held, looks for a duplicate, and only then replaces or adds.       *)
(*                                                                         *)
(* Only what tells accounts apart is kept of an account.  Everybody        *)
(* belongs to one organisation, whose members share one Kiro profile, and  *)
(* the address of a person can change upstream.  owner is history: whose   *)
(* tokens the account holds.                                               *)
(***************************************************************************)
EXTENDS Naturals, FiniteSets

CONSTANTS
    Ids,        \* account ids; a minted one was never used before
    Users,      \* people
    States,     \* sign-ins that can be started; each registers a client of its own
    Requests,   \* callbacks and imports that can be under way at once
    Desktops,   \* registrations of desktop clients, None if the file is missing
    None,
    MaxMoves    \* bound: bundles, resolutions, removals, new addresses, expiries

ASSUME MaxMovesIsNat == MaxMoves \in Nat

VARIABLES
    stored,     \* the accounts
    used,       \* ids used so far
    pending,    \* the login manager's table: "unused", "fresh", "old" or "gone"
    spent,      \* history: how often a state was taken for an exchange
    requests,   \* the handlers under way
    address,    \* the number of each person's present address
    moves       \* the bounded moves made so far

vars == <<stored, used, pending, spent, requests, address, moves>>

Move == moves < MaxMoves /\ moves' = moves + 1

Email == [of : Users, n : 0..1]
Account == [user : Users \union {None}, email : Email \union {None}, arn : BOOLEAN,
            client : States \union Desktops \union {None}, owner : Users]

ASSUME NoneIsNothing == None \notin Ids /\ None \notin Users /\ None \notin Email
ASSUME NoneIsNoAccount == None \notin Account

Whose(a) == [user |-> a.user, owner |-> a.owner]

Present == {id \in Ids : stored[id] # None}
Known == {stored[id].user : id \in Present} \ {None}

(***************************************************************************)
(* An account of p as the identity provider describes it now: the profile  *)
(* and the pair of address and user id are looked up best effort, and the  *)
(* pair comes from one answer.                                             *)
(***************************************************************************)
Resolved(p, client) ==
    {[user |-> p, email |-> [of |-> p, n |-> address[p]], arn |-> arn,
      client |-> client, owner |-> p] : arn \in BOOLEAN}

Unresolved(p, client) ==
    {[user |-> None, email |-> None, arn |-> arn, client |-> client, owner |-> p]
        : arn \in BOOLEAN}

Candidates(p, client) == Resolved(p, client) \union Unresolved(p, client)

\* An exported account: it may be older than the user id, or the address.
Exported(p) ==
    {[user |-> None, email |-> [of |-> p, n |-> n], arn |-> TRUE,
      client |-> None, owner |-> p] : n \in 0..1}
        \union UNION {Candidates(p, client) : client \in Desktops}

SameAddressFirst(cand, a) ==   \* mutant: the address decides before the user id
    IF cand.email # None /\ a.email # None THEN cand.email = a.email
    ELSE \/ cand.email = None /\ a.email = None /\ cand.arn /\ a.arn
         \/ ~a.arn /\ a.email = None /\ cand.client # None /\ a.client = cand.client

SameProfileWithoutBothAddresses(cand, a) ==   \* mutant: one address unknown is enough
    IF cand.user # None /\ a.user # None THEN cand.user = a.user
    ELSE IF cand.email # None /\ a.email # None THEN cand.email = a.email
    ELSE \/ cand.arn /\ a.arn
         \/ ~a.arn /\ a.email = None /\ cand.client # None /\ a.client = cand.client

(***************************************************************************)
(* Whether a candidate is the account a: the user id decides if both have  *)
(* one, else the address if both have one, else a profile in common when   *)
(* neither has an address, or a client in common when a has no identity.   *)
(***************************************************************************)
SameAccount(cand, a) ==
    IF cand.user # None /\ a.user # None THEN cand.user = a.user
    ELSE IF cand.email # None /\ a.email # None THEN cand.email = a.email
    ELSE \/ cand.email = None /\ a.email = None /\ cand.arn /\ a.arn
         \/ ~a.arn /\ a.email = None /\ cand.client # None /\ a.client = cand.client

\* findDuplicateLocked ranges over a map: with several matches, any of them.
Duplicates(cand) == {id \in Present : SameAccount(cand, stored[id])}

\* applyCredentialsLocked: what the candidate does not know is not erased.
WithCredentials(a, cand) ==
    [user |-> IF cand.user # None THEN cand.user ELSE a.user,
     email |-> IF cand.email # None THEN cand.email ELSE a.email,
     arn |-> cand.arn \/ a.arn, client |-> cand.client, owner |-> cand.owner]

Replace(id, cand) ==
    /\ stored' = [stored EXCEPT ![id] = WithCredentials(@, cand)]
    /\ UNCHANGED used

Insert(id, cand) ==
    /\ stored' = [stored EXCEPT ![id] = cand]
    /\ used' = used \union {id}

-----------------------------------------------------------------------------

\* What stays in the table after gcLocked.
Swept == [s \in States |-> IF pending[s] = "old" THEN "gone" ELSE pending[s]]

\* loginTTL passes for a sign-in that is still in the table.
GrowOld(s) ==
    /\ pending[s] = "fresh"
    /\ pending' = [pending EXCEPT ![s] = "old"]
    /\ Move
    /\ UNCHANGED <<stored, used, spent, requests, address>>

\* handleLoginStart, once the client is registered.
StartLogin(s) ==
    /\ pending[s] = "unused"
    /\ pending' = [Swept EXCEPT ![s] = "fresh"]
    /\ UNCHANGED <<stored, used, spent, requests, address, moves>>

TakeNothing(s) == Swept   \* mutant: the state is not consumed

Take(s) == [Swept EXCEPT ![s] = "gone"]

(***************************************************************************)
(* handleLoginCallback up to the token exchange: the browser comes back    *)
(* with the state of a sign-in, for the first time or again.               *)
(***************************************************************************)
Callback(r, s) ==
    /\ requests[r] = None
    /\ pending[s] # "unused"
    /\ IF Swept[s] = "fresh"
       THEN /\ pending' = Take(s)
            /\ spent' = [spent EXCEPT ![s] = @ + 1]
            /\ requests' = [requests EXCEPT ![r] = [phase |-> "exchanging", state |-> s]]
       ELSE /\ pending' = Swept
            /\ UNCHANGED <<spent, requests>>
    /\ UNCHANGED <<stored, used, address, moves>>

\* The code is missing or the exchange fails: the state is spent all the same.
ExchangeFails(r) ==
    /\ requests[r] # None /\ requests[r].phase = "exchanging"
    /\ requests' = [requests EXCEPT ![r] = None]
    /\ UNCHANGED <<stored, used, pending, spent, address, moves>>

\* The handler has its candidate and what FindDuplicate answered.
Found(cand, target) ==
    [phase |-> "saving", cand |-> cand, target |-> target,
     saw |-> IF target = None THEN None ELSE Whose(stored[target]),
     twin |-> cand.user \in Known]

(***************************************************************************)
(* The provider answers and the handler looks for a duplicate.  The two    *)
(* are one step: nothing of the store is read between them.                *)
(***************************************************************************)
SignedIn(r) ==
    /\ requests[r] # None /\ requests[r].phase = "exchanging"
    /\ \E p \in Users : \E cand \in Candidates(p, requests[r].state) :
         \E target \in IF Duplicates(cand) = {} THEN {None} ELSE Duplicates(cand) :
            requests' = [requests EXCEPT ![r] = Found(cand, target)]
    /\ UNCHANGED <<stored, used, pending, spent, address, moves>>

\* handleAccountImport: a duplicate is left alone.
ImportLocal(r) ==
    /\ requests[r] = None
    /\ \E p \in Users, client \in Desktops : \E cand \in Candidates(p, client) :
         /\ Duplicates(cand) = {}
         /\ requests' = [requests EXCEPT ![r] = Found(cand, None)]
    /\ UNCHANGED <<stored, used, pending, spent, address, moves>>

\* handleLoginCallback's ReplaceCredentials or Add, and handleAccountImport's Add.
SaveAccount(r) ==
    /\ requests[r] # None /\ requests[r].phase = "saving"
    /\ LET cand == requests[r].cand
           target == requests[r].target
       IN  \/ target = None /\ \E id \in Ids \ used : Insert(id, cand)
           \/ target \in Present /\ Replace(target, cand)
           \/ target \in Ids \ Present /\ UNCHANGED <<stored, used>>   \* not found
    /\ requests' = [requests EXCEPT ![r] = None]
    /\ UNCHANGED <<pending, spent, address, moves>>

(***************************************************************************)
(* ImportAccounts, for a bundle of one: it holds the store's lock from     *)
(* the lookup to the save, so a longer bundle is several of these in a     *)
(* row.  An entry keeps the id it came with unless an account has it.      *)
(***************************************************************************)
ImportBundle ==
    /\ \E p \in Users : \E cand \in Exported(p) :
         \/ \E id \in Duplicates(cand) : Replace(id, cand)
         \/ /\ Duplicates(cand) = {}
            /\ \E id \in Ids \ Present : Insert(id, cand)
    /\ Move
    /\ UNCHANGED <<pending, spent, requests, address>>

(***************************************************************************)
(* The lazy resolution at request time and the admin's refresh write back  *)
(* who the tokens belong to.  The write is pinned to the revision of the   *)
(* tokens it used, so it is about the owner of the tokens held now.        *)
(***************************************************************************)
Resolve(id) ==
    /\ id \in Present
    /\ LET p == stored[id].owner
       IN  \/ stored' = [stored EXCEPT ![id].arn = TRUE]
           \/ stored' = [stored EXCEPT ![id].arn = TRUE, ![id].user = p,
                                       ![id].email = [of |-> p, n |-> address[p]]]
    /\ Move
    /\ UNCHANGED <<used, pending, spent, requests, address>>

Remove(id) ==
    /\ id \in Present
    /\ stored' = [stored EXCEPT ![id] = None]
    /\ Move
    /\ UNCHANGED <<used, pending, spent, requests, address>>

\* The organisation changes a person's address.
Rename(p) ==
    /\ address[p] = 0
    /\ address' = [address EXCEPT ![p] = 1]
    /\ Move
    /\ UNCHANGED <<stored, used, pending, spent, requests>>

Init ==
    /\ stored = [id \in Ids |-> None]
    /\ used = {}
    /\ pending = [s \in States |-> "unused"]
    /\ spent = [s \in States |-> 0]
    /\ requests = [r \in Requests |-> None]
    /\ address = [p \in Users |-> 0]
    /\ moves = 0

Next ==
    \/ \E s \in States : GrowOld(s) \/ StartLogin(s)
    \/ \E r \in Requests, s \in States : Callback(r, s)
    \/ \E r \in Requests : \/ ExchangeFails(r) \/ SignedIn(r)
                           \/ ImportLocal(r) \/ SaveAccount(r)
    \/ ImportBundle
    \/ \E id \in Ids : Resolve(id) \/ Remove(id)
    \/ \E p \in Users : Rename(p)

Spec == Init /\ [][Next]_vars

-----------------------------------------------------------------------------

Saving == [phase : {"saving"}, cand : Account, target : Ids \union {None},
           saw : [user : Users \union {None}, owner : Users] \union {None},
           twin : BOOLEAN]

(***************************************************************************)
(* The types.  With them: the state of a sign-in is exchanged once at      *)
(* most, however often the browser calls back (completeLogin), and         *)
(* whoever's user id is stored has an address stored with it, which the    *)
(* last two rules of findDuplicateLocked rely on.                          *)
(***************************************************************************)
TypeOK ==
    /\ stored \in [Ids -> Account \union {None}]
    /\ used \in SUBSET Ids /\ Present \subseteq used
    /\ pending \in [States -> {"unused", "fresh", "old", "gone"}]
    /\ spent \in [States -> 0..1]
    /\ requests \in [Requests -> [phase : {"exchanging"}, state : States]
                                   \union Saving \union {None}]
    /\ address \in [Users -> 0..1]
    /\ moves \in 0..MaxMoves
    /\ \A id \in Present : stored[id].email = None => stored[id].user = None

(***************************************************************************)
(* Somebody who is already in the pool under their user id is added a      *)
(* second time only by a request that looked before they were there:       *)
(* FindDuplicate and Add are two acquisitions of the store's lock, but     *)
(* that window is the only way, a changed address included.                *)
(***************************************************************************)
TwinsOverlapped ==
    [][\A id \in Ids :
          (stored[id] = None /\ stored'[id] # None /\ stored'[id].user \in Known) =>
             \E r \in Requests : /\ requests[r] # None /\ requests'[r] = None
                                 /\ ~requests[r].twin]_vars

Consistent(a) == a = None \/ a.user \in {None, a.owner}

(***************************************************************************)
(* One person's tokens come to be stored under another person's user id    *)
(* only when a sign-in replaces the credentials of an account that is no   *)
(* longer the one its lookup saw.  In particular a candidate that could    *)
(* not be resolved never overwrites an account that is known to be         *)
(* somebody, whatever profile or client they share.                        *)
(***************************************************************************)
TokensUnderOwnName ==
    [][\A id \in Ids :
          (Consistent(stored[id]) /\ ~Consistent(stored'[id])) =>
             \E r \in Requests : /\ requests[r] # None /\ requests'[r] = None
                                 /\ requests[r].target = id
                                 /\ requests[r].saw # Whose(stored[id])]_vars
=============================================================================
