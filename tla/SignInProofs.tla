---------------------------- MODULE SignInProofs ----------------------------
(***************************************************************************)
(* Proofs about SignIn, for any number of people, accounts, sign-ins and   *)
(* requests.                                                               *)
(***************************************************************************)
EXTENDS SignIn, TLAPS

USE NoneIsNothing, NoneIsNoAccount, MaxMovesIsNat

-----------------------------------------------------------------------------
(* The inductive invariant *)

\* Whoever is known is known with an address of theirs.
Named(a) == a.user # None => a.email # None /\ a.email.of = a.user

\* An account as a sign-in or an import of local credentials offers it.
Offered(a) ==
    /\ Named(a)
    /\ a.user \in {None, a.owner}
    /\ a.user = None => a.email = None

Shared ==
    /\ stored \in [Ids -> Account \union {None}]
    /\ used \in SUBSET Ids /\ Present \subseteq used
    /\ pending \in [States -> {"unused", "fresh", "old", "gone"}]
    /\ spent \in [States -> 0..1]
    /\ address \in [Users -> 0..1]
    /\ moves \in 0..MaxMoves

Request == [phase : {"exchanging"}, state : States] \union Saving \union {None}

\* A state is spent when it leaves the table, not before.
SpentIsGone == \A s \in States : spent[s] = 1 => pending[s] = "gone"

StoredNamed == \A id \in Present : Named(stored[id])

\* What a handler that is about to save knows of its lookup.
Sound(q) ==
    (q # None /\ q.phase = "saving") =>
        /\ Offered(q.cand)
        /\ q.target = None => ~q.twin
        /\ (q.target # None /\ q.cand.user = None /\ q.saw.user # None) =>
               q.saw.user = q.cand.owner

RequestsSound == \A r \in Requests : Sound(requests[r])

IInv ==
    /\ Shared
    /\ requests \in [Requests -> Request]
    /\ SpentIsGone
    /\ StoredNamed
    /\ RequestsSound

-----------------------------------------------------------------------------
(* The operators *)

LEMMA SavingRequest ==
    ASSUME NEW q \in Request, q # None, q.phase = "saving"
    PROVE  q \in Saving
BY DEF Request, Saving

LEMMA ExchangingRequest ==
    ASSUME NEW q \in Request, q # None, q.phase = "exchanging"
    PROVE  q.state \in States
BY DEF Request, Saving

LEMMA SweptIsTable ==
    ASSUME Shared
    PROVE  /\ Swept \in [States -> {"unused", "fresh", "old", "gone"}]
           /\ \A s \in States : pending[s] = "gone" => Swept[s] = "gone"
           /\ \A s \in States : Swept[s] = "fresh" => pending[s] = "fresh"
BY DEF Shared, Swept

\* What the provider tells of a person.
LEMMA CandidateIsOffered ==
    ASSUME Shared, NEW p \in Users, NEW client \in States \union Desktops \union {None},
           NEW cand \in Candidates(p, client)
    PROVE  cand \in Account /\ Offered(cand)
<1>1. CASE cand \in Resolved(p, client)
  <2>1. [of |-> p, n |-> address[p]] \in Email
    BY DEF Email, Shared
  <2> QED
    BY <1>1, <2>1 DEF Resolved, Account, Offered, Named
<1>2. CASE cand \in Unresolved(p, client)
  BY <1>2 DEF Unresolved, Account, Offered, Named
<1> QED
  BY <1>1, <1>2 DEF Candidates

\* What a bundle tells of a person: the address may come without the user id.
LEMMA ExportedIsAccount ==
    ASSUME Shared, NEW p \in Users, NEW cand \in Exported(p)
    PROVE  /\ cand \in Account
           /\ Named(cand)
           /\ cand.user \in {None, cand.owner}
           /\ cand.email # None => cand.email.of = cand.owner
<1>1. CASE \E client \in Desktops : cand \in Candidates(p, client)
  <2>1. cand \in Account /\ Offered(cand)
    BY <1>1, CandidateIsOffered
  <2> QED
    BY <2>1 DEF Offered, Named
<1>2. CASE \E n \in 0..1 : cand = [user |-> None, email |-> [of |-> p, n |-> n],
                                   arn |-> TRUE, client |-> None, owner |-> p]
  BY <1>2 DEF Account, Email, Named
<1> QED
  BY <1>1, <1>2 DEF Exported

\* A match with somebody known, by somebody who is not, is a match by address.
LEMMA MatchByAddress ==
    ASSUME NEW cand \in Account, NEW a \in Account, Named(a), SameAccount(cand, a),
           cand.user = None, a.user # None
    PROVE  cand.email # None /\ cand.email = a.email
BY DEF SameAccount, Named

LEMMA WithCredentialsIsAccount ==
    ASSUME NEW cand \in Account, NEW a \in Account
    PROVE  WithCredentials(a, cand) \in Account
BY DEF WithCredentials, Account

LEMMA WithCredentialsNamed ==
    ASSUME NEW cand \in Account, NEW a \in Account, Named(cand), Named(a),
           cand.user = None /\ cand.email # None /\ a.user # None => cand.email = a.email
    PROVE  Named(WithCredentials(a, cand))
BY DEF WithCredentials, Named

\* The store after an account was changed or inserted.
LEMMA StoredAfter ==
    ASSUME Shared, StoredNamed, NEW id \in Ids, NEW a \in Account, Named(a),
           stored' = [stored EXCEPT ![id] = a], used' \in SUBSET Ids,
           used \subseteq used', id \in used',
           pending' \in [States -> {"unused", "fresh", "old", "gone"}],
           spent' \in [States -> 0..1], address' \in [Users -> 0..1],
           moves' \in 0..MaxMoves
    PROVE  Shared' /\ StoredNamed'
BY DEF Shared, StoredNamed, Present

\* The requests after one of them moved on.
LEMMA RequestsAfter ==
    ASSUME requests \in [Requests -> Request], RequestsSound,
           NEW r \in Requests, NEW q \in Request, Sound(q),
           requests' = [requests EXCEPT ![r] = q]
    PROVE  requests' \in [Requests -> Request] /\ RequestsSound'
BY DEF RequestsSound

LEMMA NoRequest == None \in Request /\ Sound(None)
BY DEF Request, Sound

\* What a lookup found is what the handler may rely on.
LEMMA FoundIsSound ==
    ASSUME Shared, StoredNamed, NEW cand \in Account, Offered(cand),
           NEW target \in Ids \union {None},
           target = None => Duplicates(cand) = {},
           target # None => target \in Duplicates(cand)
    PROVE  Found(cand, target) \in Request /\ Sound(Found(cand, target))
<1> DEFINE q == Found(cand, target)
<1>1. target # None => target \in Present /\ stored[target] \in Account
                         /\ SameAccount(cand, stored[target]) /\ Named(stored[target])
  BY DEF Duplicates, Present, Shared, StoredNamed
<1>2. q \in Saving
  <2>1. target # None => Whose(stored[target]) \in [user : Users \union {None}, owner : Users]
    BY <1>1 DEF Whose, Account
  <2> QED
    BY <2>1 DEF Found, Saving
<1>3. target = None => ~q.twin
  <2> SUFFICES ASSUME target = None, cand.user \in Known PROVE FALSE
    BY DEF Found
  <2>1. PICK id \in Present : stored[id].user = cand.user /\ cand.user # None
    BY DEF Known
  <2>2. id \in Duplicates(cand)
    BY <2>1 DEF Duplicates, SameAccount
  <2> QED
    BY <2>2
<1>4. (target # None /\ cand.user = None /\ q.saw.user # None) => q.saw.user = cand.owner
  <2> SUFFICES ASSUME target # None, cand.user = None, stored[target].user # None PROVE FALSE
    BY DEF Found, Whose
  <2>1. cand.email # None
    BY <1>1, MatchByAddress
  <2> QED
    BY <2>1 DEF Offered
<1> QED
  BY <1>2, <1>3, <1>4 DEF Request, Sound, Found

-----------------------------------------------------------------------------
(* The invariant is inductive *)

LEMMA InitIInv == Init => IInv
BY DEF Init, IInv, Shared, Request, SpentIsGone, StoredNamed, RequestsSound, Sound, Present

LEMMA MoveCounts == ASSUME Shared, Move PROVE moves' \in 0..MaxMoves
BY DEF Shared, Move

LEMMA TableKeeps ==
    ASSUME IInv, NEW s \in States, GrowOld(s) \/ StartLogin(s)
    PROVE  IInv'
<1>1. StoredNamed'
  BY DEF IInv, StoredNamed, Present, GrowOld, StartLogin
<1>2. requests' \in [Requests -> Request] /\ RequestsSound'
  BY DEF IInv, RequestsSound, GrowOld, StartLogin
<1>3. CASE GrowOld(s)
  <2>1. Shared' /\ SpentIsGone'
    BY <1>3, MoveCounts DEF IInv, Shared, SpentIsGone, Present, GrowOld
  <2> QED
    BY <1>1, <1>2, <2>1 DEF IInv
<1>4. CASE StartLogin(s)
  <2>1. Shared' /\ SpentIsGone'
    BY <1>4, SweptIsTable DEF IInv, Shared, SpentIsGone, Present, StartLogin
  <2> QED
    BY <1>1, <1>2, <2>1 DEF IInv
<1> QED
  BY <1>3, <1>4

LEMMA CallbackKeeps ==
    ASSUME IInv, NEW r \in Requests, NEW s \in States, Callback(r, s)
    PROVE  IInv'
<1>1. StoredNamed'
  BY DEF IInv, StoredNamed, Present, Callback
<1>2. CASE Swept[s] = "fresh"
  <2>1. Shared' /\ SpentIsGone'
    <3>1. pending[s] = "fresh" /\ spent[s] = 0
      BY <1>2, SweptIsTable DEF IInv, SpentIsGone, Shared
    <3>2. pending' = [Swept EXCEPT ![s] = "gone"] /\ spent' = [spent EXCEPT ![s] = @ + 1]
      BY <1>2 DEF Callback, Take
    <3> QED
      BY <3>1, <3>2, SweptIsTable DEF IInv, Shared, SpentIsGone, Present, Callback
  <2>2. requests' \in [Requests -> Request] /\ RequestsSound'
    <3> DEFINE q == [phase |-> "exchanging", state |-> s]
    <3>1. q \in Request /\ Sound(q)
      BY DEF Request, Sound
    <3>2. requests' = [requests EXCEPT ![r] = q]
      BY <1>2 DEF Callback
    <3> HIDE DEF q
    <3> QED
      BY <3>1, <3>2, RequestsAfter DEF IInv
  <2> QED
    BY <1>1, <2>1, <2>2 DEF IInv
<1>3. CASE Swept[s] # "fresh"
  <2>1. pending' = Swept /\ UNCHANGED <<spent, requests>>
    BY <1>3 DEF Callback
  <2>2. Shared' /\ SpentIsGone'
    BY <2>1, SweptIsTable DEF IInv, Shared, SpentIsGone, Present, Callback
  <2>3. requests' \in [Requests -> Request] /\ RequestsSound'
    BY <2>1 DEF IInv, RequestsSound
  <2> QED
    BY <1>1, <2>2, <2>3 DEF IInv
<1> QED
  BY <1>2, <1>3

LEMMA LookupKeeps ==
    ASSUME IInv, NEW r \in Requests, ExchangeFails(r) \/ SignedIn(r) \/ ImportLocal(r)
    PROVE  IInv'
<1>1. Shared' /\ SpentIsGone' /\ StoredNamed'
  BY DEF IInv, Shared, SpentIsGone, StoredNamed, Present, ExchangeFails, SignedIn, ImportLocal
<1>2. \E q \in Request : Sound(q) /\ requests' = [requests EXCEPT ![r] = q]
  <2>1. CASE ExchangeFails(r)
    BY <2>1, NoRequest DEF ExchangeFails
  <2>2. CASE SignedIn(r)
    <3>1. requests[r].state \in States
      BY <2>2, ExchangingRequest DEF SignedIn, IInv
    <3>2. PICK p \in Users : \E cand \in Candidates(p, requests[r].state) :
             \E target \in IF Duplicates(cand) = {} THEN {None} ELSE Duplicates(cand) :
                requests' = [requests EXCEPT ![r] = Found(cand, target)]
      BY <2>2 DEF SignedIn
    <3>3. PICK cand \in Candidates(p, requests[r].state) :
             \E target \in IF Duplicates(cand) = {} THEN {None} ELSE Duplicates(cand) :
                requests' = [requests EXCEPT ![r] = Found(cand, target)]
      BY <3>2
    <3>4. PICK target \in IF Duplicates(cand) = {} THEN {None} ELSE Duplicates(cand) :
             requests' = [requests EXCEPT ![r] = Found(cand, target)]
      BY <3>3
    <3>5. cand \in Account /\ Offered(cand)
      BY <3>1, CandidateIsOffered DEF IInv
    <3>6. /\ target \in Ids \union {None}
          /\ target = None => Duplicates(cand) = {}
          /\ target # None => target \in Duplicates(cand)
      BY DEF Duplicates, Present
    <3>7. Found(cand, target) \in Request /\ Sound(Found(cand, target))
      BY <3>5, <3>6, FoundIsSound DEF IInv
    <3> QED
      BY <3>4, <3>7
  <2>3. CASE ImportLocal(r)
    <3>1. PICK p \in Users, client \in Desktops : \E cand \in Candidates(p, client) :
             /\ Duplicates(cand) = {}
             /\ requests' = [requests EXCEPT ![r] = Found(cand, None)]
      BY <2>3 DEF ImportLocal
    <3>2. PICK cand \in Candidates(p, client) :
             /\ Duplicates(cand) = {}
             /\ requests' = [requests EXCEPT ![r] = Found(cand, None)]
      BY <3>1
    <3>3. cand \in Account /\ Offered(cand)
      BY CandidateIsOffered DEF IInv
    <3>4. Found(cand, None) \in Request /\ Sound(Found(cand, None))
      BY <3>2, <3>3, FoundIsSound DEF IInv
    <3> QED
      BY <3>2, <3>4
  <2> QED
    BY <2>1, <2>2, <2>3
<1>3. requests' \in [Requests -> Request] /\ RequestsSound'
  BY <1>2, RequestsAfter DEF IInv
<1> QED
  BY <1>1, <1>3 DEF IInv

LEMMA SaveKeeps ==
    ASSUME IInv, NEW r \in Requests, SaveAccount(r)
    PROVE  IInv'
<1> DEFINE cand == requests[r].cand
           target == requests[r].target
<1>1. requests' \in [Requests -> Request] /\ RequestsSound'
  BY NoRequest, RequestsAfter DEF IInv, SaveAccount
<1>2. SpentIsGone'
  BY DEF IInv, SpentIsGone, SaveAccount
<1>3. requests[r] \in Saving /\ Sound(requests[r])
  BY SavingRequest DEF IInv, RequestsSound, SaveAccount
<1>4. cand \in Account /\ Offered(cand)
  BY <1>3 DEF Saving, Sound, SaveAccount
<1>5. /\ pending' \in [States -> {"unused", "fresh", "old", "gone"}]
      /\ spent' \in [States -> 0..1] /\ address' \in [Users -> 0..1]
      /\ moves' \in 0..MaxMoves
  BY DEF IInv, Shared, SaveAccount
<1>6. Shared' /\ StoredNamed'
  <2>1. CASE target = None /\ \E id \in Ids \ used : Insert(id, cand)
    <3>1. PICK id \in Ids \ used : Insert(id, cand)
      BY <2>1
    <3> QED
      BY <3>1, <1>4, <1>5, StoredAfter DEF IInv, Insert, Offered, Shared
  <2>2. CASE target \in Present /\ Replace(target, cand)
    <3>1. stored[target] \in Account /\ Named(stored[target]) /\ target \in Ids
            /\ target \in used
      BY <2>2 DEF IInv, Shared, StoredNamed, Present
    <3>2. WithCredentials(stored[target], cand) \in Account
      BY <1>4, <3>1, WithCredentialsIsAccount
    <3>3. Named(WithCredentials(stored[target], cand))
      BY <1>4, <3>1, WithCredentialsNamed DEF Offered
    <3>4. stored' = [stored EXCEPT ![target] = WithCredentials(stored[target], cand)]
            /\ used' = used
      BY <2>2 DEF Replace
    <3> QED
      BY <3>1, <3>2, <3>3, <3>4, <1>5, StoredAfter DEF IInv, Shared
  <2>3. CASE target \in Ids \ Present /\ UNCHANGED <<stored, used>>
    BY <2>3, <1>5 DEF IInv, Shared, StoredNamed, Present
  <2> QED
    BY <2>1, <2>2, <2>3 DEF SaveAccount
<1> QED
  BY <1>1, <1>2, <1>6 DEF IInv

\* An entry of a bundle takes over an account or becomes one of its own.
LEMMA BundleCases ==
    ASSUME IInv, ImportBundle
    PROVE  \E p \in Users : \E cand \in Exported(p) :
              \/ \E id \in Duplicates(cand) :
                    /\ stored[id] \in Account /\ Named(stored[id]) /\ id \in Present
                    /\ SameAccount(cand, stored[id])
                    /\ Replace(id, cand)
              \/ /\ Duplicates(cand) = {}
                 /\ \E id \in Ids \ Present : Insert(id, cand)
BY DEF ImportBundle, Duplicates, IInv, Shared, StoredNamed, Present

LEMMA BundleKeeps ==
    ASSUME IInv, ImportBundle
    PROVE  IInv'
<1>1. PICK p \in Users : \E cand \in Exported(p) :
              \/ \E id \in Duplicates(cand) :
                    /\ stored[id] \in Account /\ Named(stored[id]) /\ id \in Present
                    /\ SameAccount(cand, stored[id])
                    /\ Replace(id, cand)
              \/ /\ Duplicates(cand) = {}
                 /\ \E id \in Ids \ Present : Insert(id, cand)
  BY BundleCases
<1>2. PICK cand \in Exported(p) :
              \/ \E id \in Duplicates(cand) :
                    /\ stored[id] \in Account /\ Named(stored[id]) /\ id \in Present
                    /\ SameAccount(cand, stored[id])
                    /\ Replace(id, cand)
              \/ /\ Duplicates(cand) = {}
                 /\ \E id \in Ids \ Present : Insert(id, cand)
  BY <1>1
<1>3. cand \in Account /\ Named(cand)
  BY ExportedIsAccount DEF IInv
<1>4. /\ pending' \in [States -> {"unused", "fresh", "old", "gone"}]
      /\ spent' \in [States -> 0..1] /\ address' \in [Users -> 0..1]
      /\ moves' \in 0..MaxMoves
  BY MoveCounts DEF IInv, Shared, ImportBundle
<1>5. Shared' /\ StoredNamed'
  <2>1. ASSUME NEW id \in Ids, id \in Present, Replace(id, cand),
               stored[id] \in Account, Named(stored[id]), SameAccount(cand, stored[id])
        PROVE  Shared' /\ StoredNamed'
    <3>1. WithCredentials(stored[id], cand) \in Account
      BY <1>3, <2>1, WithCredentialsIsAccount
    <3>2. Named(WithCredentials(stored[id], cand))
      BY <1>3, <2>1, WithCredentialsNamed, MatchByAddress
    <3>3. stored' = [stored EXCEPT ![id] = WithCredentials(stored[id], cand)] /\ used' = used
      BY <2>1 DEF Replace
    <3>4. id \in used
      BY <2>1 DEF IInv, Shared
    <3> QED
      BY <3>1, <3>2, <3>3, <3>4, <1>4, StoredAfter DEF IInv, Shared
  <2>2. ASSUME NEW id \in Ids, Insert(id, cand)
        PROVE  Shared' /\ StoredNamed'
    BY <2>2, <1>3, <1>4, StoredAfter DEF IInv, Insert, Shared
  <2> QED
    BY <1>2, <2>1, <2>2 DEF Duplicates, Present
<1>6. SpentIsGone' /\ requests' \in [Requests -> Request] /\ RequestsSound'
  BY DEF IInv, SpentIsGone, RequestsSound, ImportBundle
<1> QED
  BY <1>5, <1>6 DEF IInv

\* The account the lazy resolution leaves.
LEMMA ResolvedAccount ==
    ASSUME IInv, NEW id \in Ids, Resolve(id)
    PROVE  \E a \in Account :
              /\ Named(a)
              /\ stored' = [stored EXCEPT ![id] = a]
              /\ a.owner = stored[id].owner
              /\ a.user \in {stored[id].user, a.owner}
<1> DEFINE old == stored[id]
           p == old.owner
<1>1. old \in Account /\ Named(old)
  BY DEF IInv, Shared, StoredNamed, Present, Resolve
<1>2. CASE stored' = [stored EXCEPT ![id].arn = TRUE]
  <2> DEFINE a == [old EXCEPT !.arn = TRUE]
  <2>1. a \in Account /\ Named(a) /\ a.owner = p /\ a.user = old.user
    BY <1>1 DEF Account, Named
  <2>2. stored' = [stored EXCEPT ![id] = a]
    BY <1>2
  <2> QED
    BY <2>1, <2>2
<1>3. CASE stored' = [stored EXCEPT ![id].arn = TRUE, ![id].user = p,
                                    ![id].email = [of |-> p, n |-> address[p]]]
  <2> DEFINE a == [old EXCEPT !.arn = TRUE, !.user = p,
                              !.email = [of |-> p, n |-> address[p]]]
  <2>1. p \in Users /\ [of |-> p, n |-> address[p]] \in Email
    BY <1>1 DEF Account, Email, IInv, Shared
  <2>2. a \in Account /\ Named(a) /\ a.owner = p /\ a.user = p
    BY <1>1, <2>1 DEF Account, Named
  <2>3. stored' = [stored EXCEPT ![id] = a]
    BY <1>3 DEF IInv, Shared
  <2> QED
    BY <2>2, <2>3
<1> QED
  BY <1>2, <1>3 DEF Resolve

LEMMA UpkeepKeeps ==
    ASSUME IInv, \/ \E id \in Ids : Resolve(id) \/ Remove(id)
                 \/ \E p \in Users : Rename(p)
    PROVE  IInv'
<1>1. SpentIsGone' /\ requests' \in [Requests -> Request] /\ RequestsSound'
  BY DEF IInv, SpentIsGone, RequestsSound, Resolve, Remove, Rename
<1>2. ASSUME NEW id \in Ids, Resolve(id)
      PROVE  Shared' /\ StoredNamed'
  <2>1. PICK a \in Account : Named(a) /\ stored' = [stored EXCEPT ![id] = a]
    BY <1>2, ResolvedAccount
  <2>2. id \in used /\ used' = used
    BY <1>2 DEF Resolve, IInv, Shared
  <2> QED
    BY <1>2, <2>1, <2>2, MoveCounts, StoredAfter DEF IInv, Shared, Resolve
<1>3. ASSUME NEW id \in Ids, Remove(id)
      PROVE  Shared' /\ StoredNamed'
  BY <1>3, MoveCounts DEF IInv, Shared, StoredNamed, Present, Remove
<1>4. ASSUME NEW p \in Users, Rename(p)
      PROVE  Shared' /\ StoredNamed'
  BY <1>4, MoveCounts DEF IInv, Shared, StoredNamed, Present, Rename
<1>5. Shared' /\ StoredNamed'
  BY <1>2, <1>3, <1>4
<1> QED
  BY <1>1, <1>5 DEF IInv

LEMMA StepIInv == IInv /\ [Next]_vars => IInv'
<1> SUFFICES ASSUME IInv, [Next]_vars PROVE IInv'
  OBVIOUS
<1>1. CASE Next
  BY <1>1, TableKeeps, CallbackKeeps, LookupKeeps, SaveKeeps, BundleKeeps, UpkeepKeeps
     DEF Next
<1>2. CASE UNCHANGED vars
  BY <1>2 DEF vars, IInv, Shared, SpentIsGone, StoredNamed, RequestsSound, Present
<1> QED
  BY <1>1, <1>2

THEOREM InvariantHolds == Spec => []IInv
BY InitIInv, StepIInv, PTL DEF Spec

(***************************************************************************)
(* The types, and with them: a sign-in's state is exchanged at most once,  *)
(* and no user id is stored without an address.                            *)
(***************************************************************************)
THEOREM TypesHold == Spec => []TypeOK
<1>1. IInv => TypeOK
  <2> SUFFICES ASSUME IInv PROVE TypeOK
    OBVIOUS
  <2>1. \A id \in Present : stored[id].email = None => stored[id].user = None
    BY DEF IInv, StoredNamed, Named
  <2> QED
    BY <2>1 DEF IInv, Shared, Request, TypeOK
<1> QED
  BY <1>1, InvariantHolds, PTL

-----------------------------------------------------------------------------
(* What a step may not do *)

LEMMA RequestEnds ==
    ASSUME IInv, NEW r \in Requests, SaveAccount(r)
    PROVE  requests[r] # None /\ requests'[r] = None
BY DEF IInv, SaveAccount

TwinStep(id) ==
    (stored[id] = None /\ stored'[id] # None /\ stored'[id].user \in Known) =>
       \E r \in Requests : /\ requests[r] # None /\ requests'[r] = None
                           /\ ~requests[r].twin

LEMMA NoUnseenTwin ==
    ASSUME IInv, [Next]_vars, NEW id \in Ids
    PROVE  TwinStep(id)
<1> SUFFICES ASSUME stored[id] = None, stored'[id] # None, stored'[id].user \in Known
             PROVE  \E r \in Requests : /\ requests[r] # None /\ requests'[r] = None
                                        /\ ~requests[r].twin
  BY DEF TwinStep
<1>1. ASSUME NEW r \in Requests, SaveAccount(r)
      PROVE  ~requests[r].twin
  <2>1. requests[r] \in Saving /\ Sound(requests[r])
    BY <1>1, SavingRequest DEF IInv, RequestsSound, SaveAccount
  <2>2. requests[r].target = None
    <3> SUFFICES ASSUME requests[r].target # None PROVE FALSE
      OBVIOUS
    <3>1. requests[r].target \in Ids
      BY <2>1 DEF Saving
    <3>2. \/ requests[r].target \in Present /\ Replace(requests[r].target, requests[r].cand)
          \/ UNCHANGED stored
      BY <1>1 DEF SaveAccount
    <3> QED
      BY <3>1, <3>2 DEF Replace, Present, IInv, Shared
  <2> QED
    BY <1>1, <2>1, <2>2 DEF Sound, SaveAccount
<1>2. CASE \E r \in Requests : SaveAccount(r)
  BY <1>1, <1>2, RequestEnds
<1>3. CASE ImportBundle
  <2>1. PICK p \in Users : \E cand \in Exported(p) :
              \/ \E twin \in Duplicates(cand) : Replace(twin, cand)
              \/ /\ Duplicates(cand) = {}
                 /\ \E new \in Ids \ Present : Insert(new, cand)
    BY <1>3 DEF ImportBundle
  <2>2. PICK cand \in Exported(p) :
              \/ \E twin \in Duplicates(cand) : Replace(twin, cand)
              \/ /\ Duplicates(cand) = {}
                 /\ \E new \in Ids \ Present : Insert(new, cand)
    BY <2>1
  <2>3. Duplicates(cand) = {} /\ stored'[id] = cand
    BY <2>2 DEF Replace, Insert, Duplicates, Present, IInv, Shared
  <2>4. PICK known \in Present : stored[known].user = cand.user /\ cand.user # None
    BY <2>3 DEF Known
  <2>5. known \in Duplicates(cand)
    BY <2>4 DEF Duplicates, SameAccount
  <2> QED
    BY <2>3, <2>5
<1>4. CASE \E other \in Ids : Resolve(other) \/ Remove(other)
  BY <1>4 DEF Resolve, Remove, Present, IInv, Shared
<1>5. CASE UNCHANGED stored
  BY <1>5
<1> QED
  BY <1>2, <1>3, <1>4, <1>5
     DEF Next, vars, GrowOld, StartLogin, Callback, ExchangeFails, SignedIn, ImportLocal, Rename

(***************************************************************************)
(* Whoever is in the pool under their user id is added again only by a     *)
(* request that looked for them before they were there.                    *)
(***************************************************************************)
THEOREM TwinsOverlap == Spec => TwinsOverlapped
<1>1. IInv /\ [Next]_vars => \A id \in Ids : TwinStep(id)
  BY NoUnseenTwin
<1>2. Spec => [][\A id \in Ids : TwinStep(id)]_vars
  BY <1>1, InvariantHolds, PTL DEF Spec
<1> QED
  BY <1>2 DEF TwinStep, TwinsOverlapped

-----------------------------------------------------------------------------

NameStep(id) ==
    (Consistent(stored[id]) /\ ~Consistent(stored'[id])) =>
       \E r \in Requests : /\ requests[r] # None /\ requests'[r] = None
                           /\ requests[r].target = id
                           /\ requests[r].saw # Whose(stored[id])

\* Taking over an account puts it under the wrong name only if the candidate
\* is not known and the account is somebody else's.
LEMMA WrongName ==
    ASSUME NEW cand \in Account, NEW a \in Account, cand.user \in {None, cand.owner},
           ~Consistent(WithCredentials(a, cand))
    PROVE  cand.user = None /\ a.user # None /\ a.user # cand.owner
BY DEF Consistent, WithCredentials

LEMMA NoUnseenName ==
    ASSUME IInv, [Next]_vars, NEW id \in Ids
    PROVE  NameStep(id)
<1> SUFFICES ASSUME Consistent(stored[id]), ~Consistent(stored'[id])
             PROVE  \E r \in Requests : /\ requests[r] # None /\ requests'[r] = None
                                        /\ requests[r].target = id
                                        /\ requests[r].saw # Whose(stored[id])
  BY DEF NameStep
<1>1. CASE \E r \in Requests : SaveAccount(r)
  <2>1. PICK r \in Requests : SaveAccount(r)
    BY <1>1
  <2> DEFINE cand == requests[r].cand
             target == requests[r].target
  <2>2. requests[r] \in Saving /\ Sound(requests[r])
    BY <2>1, SavingRequest DEF IInv, RequestsSound, SaveAccount
  <2>3. cand \in Account /\ Offered(cand)
    BY <2>1, <2>2 DEF Saving, Sound, SaveAccount
  <2>4. target \in Present /\ Replace(target, cand) /\ target = id
    <3>1. CASE target = None /\ \E new \in Ids \ used : Insert(new, cand)
      <4>1. stored'[id] = cand
        BY <3>1 DEF Insert, IInv, Shared
      <4> QED
        BY <2>3, <4>1 DEF Offered, Consistent
    <3>2. CASE target \in Present /\ Replace(target, cand)
      BY <3>2 DEF Replace, IInv, Shared, Present
    <3>3. CASE UNCHANGED stored
      BY <3>3
    <3> QED
      BY <2>1, <3>1, <3>2, <3>3 DEF SaveAccount
  <2>5. stored[id] \in Account /\ stored'[id] = WithCredentials(stored[id], cand)
    BY <2>4 DEF Replace, Present, IInv, Shared
  <2>6. cand.user = None /\ stored[id].user # None /\ stored[id].user # cand.owner
    BY <2>3, <2>5, WrongName DEF Offered
  <2>7. requests[r].saw # Whose(stored[id])
    <3> SUFFICES ASSUME requests[r].saw = Whose(stored[id]) PROVE FALSE
      OBVIOUS
    <3>1. requests[r].saw.user = stored[id].user
      BY DEF Whose
    <3>2. requests[r].saw.user = cand.owner
      BY <2>1, <2>2, <2>4, <2>6, <3>1 DEF Sound, SaveAccount
    <3> QED
      BY <2>6, <3>1, <3>2
  <2> QED
    BY <2>1, <2>4, <2>7, RequestEnds
<1>2. CASE ImportBundle
  <2>1. PICK p \in Users : \E cand \in Exported(p) :
              \/ \E other \in Duplicates(cand) :
                    /\ stored[other] \in Account /\ Named(stored[other]) /\ other \in Present
                    /\ SameAccount(cand, stored[other])
                    /\ Replace(other, cand)
              \/ /\ Duplicates(cand) = {}
                 /\ \E new \in Ids \ Present : Insert(new, cand)
    BY <1>2, BundleCases
  <2>2. PICK cand \in Exported(p) :
              \/ \E other \in Duplicates(cand) :
                    /\ stored[other] \in Account /\ Named(stored[other]) /\ other \in Present
                    /\ SameAccount(cand, stored[other])
                    /\ Replace(other, cand)
              \/ /\ Duplicates(cand) = {}
                 /\ \E new \in Ids \ Present : Insert(new, cand)
    BY <2>1
  <2>3. cand \in Account /\ cand.user \in {None, cand.owner}
          /\ (cand.email # None => cand.email.of = cand.owner)
    BY ExportedIsAccount DEF IInv
  <2>4. stored'[id] # cand
    BY <2>3 DEF Consistent
  <2>5. /\ stored[id] \in Account /\ Named(stored[id])
        /\ SameAccount(cand, stored[id])
        /\ stored'[id] = WithCredentials(stored[id], cand)
    BY <2>2, <2>4 DEF Replace, Insert, IInv, Shared
  <2>6. cand.user = None /\ stored[id].user # None /\ stored[id].user # cand.owner
    BY <2>3, <2>5, WrongName
  <2>7. cand.email # None /\ cand.email = stored[id].email
    BY <2>3, <2>5, <2>6, MatchByAddress
  <2> QED
    BY <2>3, <2>5, <2>6, <2>7 DEF Named
<1>3. CASE \E other \in Ids : Resolve(other)
  <2>1. PICK other \in Ids : Resolve(other)
    BY <1>3
  <2>2. PICK a \in Account : /\ stored' = [stored EXCEPT ![other] = a]
                             /\ a.owner = stored[other].owner
                             /\ a.user \in {stored[other].user, a.owner}
    BY <2>1, ResolvedAccount
  <2>3. other = id /\ stored'[id] = a
    BY <2>2 DEF IInv, Shared
  <2>4. stored[id] # None
    BY <2>1, <2>3 DEF Resolve, Present
  <2> QED
    BY <2>2, <2>3, <2>4 DEF Consistent
<1>4. CASE \E other \in Ids : Remove(other)
  BY <1>4 DEF Remove, Consistent, IInv, Shared
<1>5. CASE UNCHANGED stored
  BY <1>5
<1> QED
  BY <1>1, <1>2, <1>3, <1>4, <1>5
     DEF Next, vars, GrowOld, StartLogin, Callback, ExchangeFails, SignedIn, ImportLocal, Rename

(***************************************************************************)
(* One person's tokens come under another's user id only when a sign-in    *)
(* replaces an account that changed hands, or became known, after it was   *)
(* looked up.                                                              *)
(***************************************************************************)
THEOREM NamesFollowTokens == Spec => TokensUnderOwnName
<1>1. IInv /\ [Next]_vars => \A id \in Ids : NameStep(id)
  BY NoUnseenName
<1>2. Spec => [][\A id \in Ids : NameStep(id)]_vars
  BY <1>1, InvariantHolds, PTL DEF Spec
<1> QED
  BY <1>2 DEF NameStep, TokensUnderOwnName
=============================================================================
