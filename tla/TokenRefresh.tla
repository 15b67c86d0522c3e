---------------------------- MODULE TokenRefresh ----------------------------
(***************************************************************************)
(* The coalesced token refresh (refreshTokenAtCredential in accounts.go),  *)
(* its callers (the credentials of a request in selector.go, the admin     *)
(* API, the background refresher) and upstream, which rotates the refresh  *)
(* token and refuses one it has replaced.                                  *)
(*                                                                         *)
(* A refresh is a flight, one per account and credential (singleflight).   *)
(* It reads the account when it starts, calls CreateToken without a lock,  *)
(* writes back under the credential fence, and hands its result to all who *)
(* wait.  A caller may give up; the flight goes on.  A flight may time out *)
(* after upstream has rotated, a save may fail, the process may crash:     *)
(* then a rotation is lost.  And a chain may get into a second hand: a     *)
(* sign-in starts one of its own, but an import copies one.                *)
(***************************************************************************)
EXTENDS AccountStore

CONSTANTS
    Callers,
    NoCopy

\* What a refresh looks at of a runtime snapshot.
Copy == [id : Ids, credential : Nat, tok : Token]

ASSUME NoCopyIsNone == NoCopy \notin Copy

VARIABLES
    flights,   \* refreshes under way
    callers,   \* per caller: its phase and its copy of the account
    newest,    \* upstream: the number of the newest token of each chain
    broken,    \* history: chains a rotation of which may have been lost, or
               \* that were in two hands at once
    behind     \* history: chains whose last rotation was stored, not saved

refreshVars == <<flights, callers, newest, broken, behind>>
vars == <<storeVars, refreshVars>>

(***************************************************************************)
(* tok is the token the flight has read, answer what CreateToken gave;     *)
(* each means something from the phase that sets it.                       *)
(***************************************************************************)
Flight == [id : Ids, credential : Nat, phase : {"started", "asked", "answered", "stored"},
           tok : Token, answer : Token]

NoToken == [chain |-> NoReg, n |-> 0]

\* A caller holds a copy (the credentials of a lease, or the account as
\* RefreshToken has read it), or waits for a flight.
Caller == [phase : {"idle", "holding", "waiting"},
           copy : Copy \union {NoCopy}]

Idle == [phase |-> "idle", copy |-> NoCopy]

Init ==
    /\ StoreInit
    /\ flights = {}
    /\ callers = [c \in Callers |-> Idle]
    /\ newest = [r \in Regs |-> 0]
    /\ broken = {}
    /\ behind = {}

-----------------------------------------------------------------------------
(* Callers *)

CopyOf(id) == [id |-> id, credential |-> credentials[id], tok |-> accounts[id].tok]

\* A request is given the account's credentials (credsFor), or a caller of
\* RefreshToken reads the account.
Take(c) ==
    /\ callers[c].phase = "idle"
    /\ \E id \in Present :
         callers' = [callers EXCEPT ![c] = [phase |-> "holding", copy |-> CopyOf(id)]]
    /\ UNCHANGED <<storeVars, flights, newest, broken, behind>>

Of(c) == {f \in flights : /\ f.id = callers[c].copy.id
                          /\ f.credential = callers[c].copy.credential}

NewFlight(c) ==
    [id |-> callers[c].copy.id, credential |-> callers[c].copy.credential,
     phase |-> "started", tok |-> NoToken, answer |-> NoToken]

JoinAlone(c) ==   \* mutant: every caller has a flight of its own
    /\ callers[c].phase = "holding"
    /\ flights' = flights \union {NewFlight(c)}
    /\ callers' = [callers EXCEPT ![c].phase = "waiting"]
    /\ UNCHANGED <<storeVars, newest, broken, behind>>

\* DoChan: the flight of this credential, or a new one.
Join(c) ==
    /\ callers[c].phase = "holding"
    /\ flights' = IF Of(c) = {} THEN flights \union {NewFlight(c)} ELSE flights
    /\ callers' = [callers EXCEPT ![c].phase = "waiting"]
    /\ UNCHANGED <<storeVars, newest, broken, behind>>

\* A caller gives up, or is done with its copy.
Leave(c) ==
    /\ callers[c].phase # "idle"
    /\ callers' = [callers EXCEPT ![c] = Idle]
    /\ UNCHANGED <<storeVars, flights, newest, broken, behind>>

Waiters(f) == {c \in Callers : callers[c].phase = "waiting" /\ f \in Of(c)}

\* The flight fails: its waiters keep the copy they had.
Failed(f) ==
    /\ flights' = flights \ {f}
    /\ callers' = [c \in Callers |->
                     IF c \in Waiters(f) THEN [callers[c] EXCEPT !.phase = "holding"]
                     ELSE callers[c]]

\* The flight succeeds: its waiters go on with its token.
Succeeded(f) ==
    /\ flights' = flights \ {f}
    /\ callers' = [c \in Callers |->
                     IF c \in Waiters(f)
                       THEN [phase |-> "holding", copy |-> [callers[c].copy EXCEPT !.tok = f.answer]]
                       ELSE callers[c]]

-----------------------------------------------------------------------------
(* The flight *)

Advanced(f, g) == flights' = (flights \ {f}) \union {g}

Advances(f, tok) ==
    /\ Advanced(f, [f EXCEPT !.phase = "asked", !.tok = tok])
    /\ UNCHANGED callers

HasClient(id) == accounts[id] # NoAccount /\ accounts[id].reg # NoReg

BeginUnchecked(f) ==   \* mutant: the flight does not compare the credential
    /\ f.phase = "started"
    /\ IF HasClient(f.id) THEN Advances(f, accounts[f.id].tok) ELSE Failed(f)
    /\ UNCHANGED <<storeVars, newest, broken, behind>>

\* The flight reads the account; it needs a client registration to go on.
Begin(f) ==
    /\ f.phase = "started"
    /\ IF HasClient(f.id) /\ credentials[f.id] = f.credential
         THEN Advances(f, accounts[f.id].tok)
         ELSE Failed(f)
    /\ UNCHANGED <<storeVars, newest, broken, behind>>

(***************************************************************************)
(* CreateToken: upstream grants the newest token of a chain, with a new    *)
(* refresh token or without one, and refuses any other.                    *)
(***************************************************************************)
Answer(f) ==
    LET tok == f.tok IN
    /\ f.phase = "asked"
    /\ \/ /\ tok.n = newest[tok.chain]
          /\ \E n \in {tok.n, tok.n + 1} :
               /\ n <= Rotations
               /\ newest' = [newest EXCEPT ![tok.chain] = n]
               /\ Advanced(f, [f EXCEPT !.phase = "answered", !.answer = [tok EXCEPT !.n = n]])
          /\ UNCHANGED callers
       \/ /\ tok.n # newest[tok.chain]
          /\ Failed(f)
          /\ UNCHANGED newest
    /\ UNCHANGED <<storeVars, broken, behind>>

\* The call fails, or its context ends: upstream may have rotated.
TimeOut(f) ==
    /\ f.phase \in {"asked", "answered"}
    /\ Failed(f)
    /\ broken' = broken \union {f.tok.chain}
    /\ UNCHANGED <<storeVars, newest, behind>>

StoreStaleToken(f) ==   \* mutant: the token that was read is written back
    LET current == accounts[f.id] # NoAccount /\ credentials[f.id] = f.credential
        chain   == f.answer.chain IN
    /\ f.phase = "answered"
    /\ UpdateTokens(f, f.tok)
    /\ IF current THEN Advanced(f, [f EXCEPT !.phase = "stored"]) /\ UNCHANGED callers
                  ELSE Failed(f)
    /\ broken' = IF current THEN broken ELSE broken \union {chain}
    /\ behind' = IF ~current THEN behind
                 ELSE IF failed' THEN behind \union {chain} ELSE {}
    /\ UNCHANGED newest

(***************************************************************************)
(* The answer is written back.  A save that fails is no error of the       *)
(* refresh; an account that was replaced or removed is.                    *)
(***************************************************************************)
Store(f) ==
    LET current == accounts[f.id] # NoAccount /\ credentials[f.id] = f.credential
        chain   == f.answer.chain IN
    /\ f.phase = "answered"
    /\ UpdateTokens(f, f.answer)
    /\ IF current THEN Advanced(f, [f EXCEPT !.phase = "stored"]) /\ UNCHANGED callers
                  ELSE Failed(f)
    /\ broken' = IF current THEN broken ELSE broken \union {chain}
    /\ behind' = IF ~current THEN behind
                 ELSE IF failed' THEN behind \union {chain} ELSE {}
    /\ UNCHANGED newest

\* The flight returns what it has stored; until then callers still join it.
Deliver(f) ==
    /\ f.phase = "stored"
    /\ Succeeded(f)
    /\ UNCHANGED <<storeVars, newest, broken, behind>>

-----------------------------------------------------------------------------
(* The account changes under the flight *)

\* A browser sign-in registers a client of its own: its chain is new.
FreshSignIn ==
    {a \in SignIn :
            /\ a.reg # NoReg
            /\ newest[a.reg] = 0
            /\ \A id \in Ids : /\ accounts[id] # NoAccount => accounts[id].reg # a.reg
                               /\ disk[id] # NoAccount => disk[id].reg # a.reg
            /\ \A f \in flights : f.tok.chain # a.reg}

SignsIn ==
    /\ \E id \in Ids, a \in FreshSignIn :
         \/ accounts[id] = NoAccount /\ Add(id, a)
         \/ accounts[id] # NoAccount /\ ReplaceCredentials(id, a)
    /\ UNCHANGED refreshVars

(***************************************************************************)
(* An import copies a chain, with any token of it upstream ever gave: the  *)
(* desktop client's, another server's, or one this server exported before; *)
(* an account with an access token alone has none.  The policy of an entry *)
(* is left out: no refresh looks at it.                                    *)
(***************************************************************************)
Importable ==
    {a \in BundleEntry : /\ ~a.disabled /\ ~a.overage
                         /\ a.tok.n <= (IF a.reg = NoReg THEN 0 ELSE newest[a.reg])}

\* Upstream owes the flight an answer, or the flight has it in hand.
Open(f) == f.phase \in {"asked", "answered"}

\* The chains in two hands once the accounts S are imported: upstream has replaced
\* the token, a flight works on it, or another account has the chain.
DividedBy(S) ==
    {r \in Regs : \E id \in S :
        /\ accounts'[id].reg = r
        /\ \/ accounts'[id].tok.n # newest[r]
           \/ \E f \in flights : Open(f) /\ f.tok.chain = r
           \/ \E other \in Ids \ {id} : accounts'[other] # NoAccount /\ accounts'[other].reg = r}

\* A bundle is merged into the accounts.  An entry that differs from its
\* account in the access token alone is a replacement too; an account that
\* no entry changes is not of S, and keeps its stamps.
ImportsBundle ==
    /\ \E S \in SUBSET Ids :
         /\ \E bundle \in [S -> Importable], turn \in Turns(S) : ImportAccounts(S, bundle, turn)
         /\ broken' = broken \union DividedBy(S)
    /\ UNCHANGED <<flights, callers, newest, behind>>

\* The desktop client's account is added, but for one that is known already.
ImportsLocal ==
    /\ \E id \in Ids, a \in Importable :
         /\ accounts[id] = NoAccount
         /\ Add(id, a)
         /\ broken' = broken \union DividedBy({id})
    /\ UNCHANGED <<flights, callers, newest, behind>>

\* Who else has the chain refreshes: the desktop client, or another server.
OthersRotate ==
    /\ \E r \in Regs :
         /\ newest[r] < Rotations
         /\ newest' = [newest EXCEPT ![r] = @ + 1]
         /\ broken' = broken \union {r}
    /\ UNCHANGED <<storeVars, flights, callers, behind>>

SwitchPolicy ==
    /\ \E id \in Ids, on \in BOOLEAN : SetDisabledChanged(id, on)
    /\ UNCHANGED refreshVars

RemoveAccount ==
    /\ \E id \in Ids : Remove(id)
    /\ UNCHANGED refreshVars

Crash ==
    /\ Restart
    /\ flights' = {}
    /\ callers' = [c \in Callers |-> Idle]
    /\ broken' = broken \union behind
                 \union {f.tok.chain : f \in {g \in flights : g.phase \in {"asked", "answered"}}}
    /\ behind' = {}
    /\ UNCHANGED newest

Next ==
    \/ \E c \in Callers : Take(c) \/ Join(c) \/ Leave(c)
    \/ \E f \in flights : Begin(f) \/ Answer(f) \/ TimeOut(f) \/ Store(f) \/ Deliver(f)
    \/ SignsIn
    \/ ImportsBundle
    \/ ImportsLocal
    \/ OthersRotate
    \/ SwitchPolicy
    \/ RemoveAccount
    \/ Crash

Spec == Init /\ [][Next]_vars

-----------------------------------------------------------------------------

\* The variables hold what the Go types hold; a call to CreateToken has a
\* client to call for, and a caller under way has a copy.
TypeOK ==
    /\ StoreTypeOK
    /\ flights \in SUBSET Flight
    /\ \A f \in flights :
         /\ f.phase # "started" => f.tok.chain \in Regs
         /\ f.phase \in {"answered", "stored"} => f.answer.chain = f.tok.chain
    /\ \A c \in Callers : callers[c].phase # "idle" => callers[c].copy # NoCopy
    /\ callers \in [Callers -> Caller]
    /\ newest \in [Regs -> 0..Rotations]
    /\ broken \in SUBSET Regs
    /\ behind \in SUBSET Regs

(***************************************************************************)
(* A chain is whole while no rotation of it was lost and it was never in   *)
(* two hands.  A chain that is imported stays whole if the token is the    *)
(* newest one, nobody here refreshes it at that moment, and nobody         *)
(* elsewhere does from then on.                                            *)
(***************************************************************************)
Whole == Regs \ broken

(***************************************************************************)
(* No refresh of a chain that is whole is asked for with a token upstream  *)
(* has replaced: however callers, sign-ins, imports, removals and policy   *)
(* changes interleave, refreshes of it never overtake one another.         *)
(***************************************************************************)
AsksWithNewest ==
    \A f \in flights :
        f.phase = "asked" /\ f.tok.chain \in Whole
          => f.tok.n = newest[f.tok.chain]

(***************************************************************************)
(* No rotation of a chain that is whole is dropped while its account is    *)
(* there to take it: the account holds the newest token of its chain, or   *)
(* the flight that brings it is on its way under the credential the        *)
(* account still has.                                                      *)
(***************************************************************************)
NoRotationDropped ==
    \A id \in Present :
        LET tok == accounts[id].tok IN
        tok.chain \in Whole /\ tok.n # newest[tok.chain] =>
            \E f \in flights : /\ f.phase = "answered"
                               /\ f.id = id
                               /\ f.credential = credentials[id]
                               /\ f.answer.chain = tok.chain
                               /\ f.answer.n = newest[tok.chain]

(***************************************************************************)
(* "Refreshes are coordinated by the store's singleflight, so this cannot  *)
(* double-spend a rotating refresh token" (handleAccountRefresh): no token *)
(* is with upstream twice.  A bundle that brings the chain in use back, in *)
(* the middle of a refresh of it, gives the account a new credential, and  *)
(* the next refresh a flight of its own.                                   *)
(***************************************************************************)
NeverDoubleSpends ==
    \A f, g \in flights :
        f.phase = "asked" /\ g.phase = "asked" /\ f.tok = g.tok => f = g

(***************************************************************************)
(* A caller whose refresh succeeds goes on with the token of its own       *)
(* registration, and with the very one the store holds unless the          *)
(* credentials were replaced meanwhile: no later refresh has overtaken     *)
(* the one it waited for.                                                  *)
(***************************************************************************)
ServedIsStored ==
    [][\A c \in Callers :
         LET copy == callers[c].copy
             tok  == callers'[c].copy.tok IN
         /\ callers[c].phase = "waiting" /\ callers'[c].phase = "holding"
         /\ tok # copy.tok
         => /\ tok.chain = copy.tok.chain
            /\ credentials'[copy.id] = copy.credential
                 => accounts'[copy.id].tok = tok]_vars
=============================================================================
