------------------------- MODULE TokenRefreshProofs -------------------------
(***************************************************************************)
(* The coalesced refresh keeps a chain that is in one hand in one hand,    *)
(* for any ids, registrations and callers, any number of rotations,        *)
(* whatever is imported and whatever the saves report.                     *)
(***************************************************************************)
EXTENDS TokenRefresh, FiniteSetTheorems, TLAPS

USE NoAccountIsNone, NoArnIsNone, NoRegIsNone, NoCopyIsNone, BoundsAreNat

-----------------------------------------------------------------------------
(* The inductive invariant *)

Files == [Ids -> Account \union {NoAccount}]

\* The flight has read its account.
HasRead(f) == f.phase # "started"

FlightsTyped ==
    /\ flights \in SUBSET Flight
    /\ \A f \in flights :
         /\ HasRead(f) => f.tok.chain \in Regs
         /\ f.phase \in {"answered", "stored"} => f.answer.chain = f.tok.chain

CallersTyped ==
    /\ callers \in [Callers -> Caller]
    /\ \A c \in Callers : callers[c].phase # "idle" => callers[c].copy # NoCopy

UpstreamTyped ==
    /\ newest \in [Regs -> 0..Rotations]
    /\ broken \in SUBSET Regs
    /\ behind \in SUBSET Regs

\* In memory and in the file, a token is of its account's registration, and
\* no two accounts have the same registration, if its chain is whole.
Sound(file) ==
    /\ \A id \in Ids : file[id] # NoAccount => file[id].tok.chain = file[id].reg
    /\ \A i, j \in Ids : /\ file[i] # NoAccount /\ file[j] # NoAccount
                         /\ file[i].reg = file[j].reg /\ file[i].reg \in Whole
                         => i = j

\* A credential stamp in anybody's hands was issued, and is not the unset one.
Issued(n) == n \in 1..nextCredential

StampsIssued ==
    /\ \A id \in Ids : IF accounts[id] = NoAccount THEN credentials[id] = 0
                                                   ELSE Issued(credentials[id])
    /\ \A f \in flights : Issued(f.credential)
    /\ \A c \in Callers : callers[c].phase # "idle" => Issued(callers[c].copy.credential)

\* singleflight: one flight per account and credential.
OnePerKey ==
    \A f, g \in flights : f.id = g.id /\ f.credential = g.credential => f = g

Current(f) == accounts[f.id] # NoAccount /\ credentials[f.id] = f.credential

\* A credential stamp stands for one registration, whoever holds it.
StampPinsChain ==
    /\ \A f \in flights : HasRead(f) /\ Current(f) => accounts[f.id].reg = f.tok.chain
    /\ \A c \in Callers :
         LET copy == callers[c].copy IN
         callers[c].phase # "idle" =>
            /\ Current(copy) => accounts[copy.id].reg = copy.tok.chain
            /\ \A f \in flights :
                 HasRead(f) /\ f.id = copy.id /\ f.credential = copy.credential
                   => f.tok.chain = copy.tok.chain

\* And a registration for one credential, while a flight works on its chain.
ChainPinsStamp ==
    \A f \in flights, id \in Ids :
        /\ Open(f) /\ f.tok.chain \in Whole
        /\ accounts[id] # NoAccount /\ accounts[id].reg = f.tok.chain
        => id = f.id /\ credentials[id] = f.credential

\* Two flights never work on one chain that is whole.
OnePerChain ==
    \A f, g \in flights :
        Open(f) /\ Open(g) /\ f.tok.chain \in Whole /\ f.tok.chain = g.tok.chain => f = g

AnswerIsNewest ==
    \A f \in flights :
        f.phase = "answered" /\ f.tok.chain \in Whole
          => f.answer.n = newest[f.tok.chain]

\* What a flight has stored is there until it is replaced.
StoredIsHeld ==
    \A f \in flights : f.phase = "stored" /\ Current(f) => accounts[f.id].tok = f.answer

\* The file has the newest token of a chain, or it is known who does.
FileFollows ==
    \A id \in Ids :
        LET r == disk[id].tok.chain IN
        /\ disk[id] # NoAccount
        /\ r \in Whole \ behind
        /\ \A f \in flights : Open(f) => f.tok.chain # r
        => disk[id].tok.n = newest[r]

Types == StoreTypeOK /\ FlightsTyped /\ CallersTyped /\ UpstreamTyped

\* Who has which flight and which chain.
Links == StampsIssued /\ OnePerKey /\ StampPinsChain /\ ChainPinsStamp /\ OnePerChain

\* Where the newest token of a chain is.
Ledger == AsksWithNewest /\ AnswerIsNewest /\ StoredIsHeld /\ NoRotationDropped /\ FileFollows

IInv ==
    /\ Types
    /\ Sound(accounts) /\ Sound(disk)
    /\ Links
    /\ Ledger

-----------------------------------------------------------------------------
(* The operators *)

\* What callers hold is still theirs: the same account, stamp and chain.
CopiesKept ==
    \A c \in Callers :
        callers'[c].phase # "idle" =>
            /\ callers[c].phase # "idle"
            /\ callers'[c].copy.id = callers[c].copy.id
            /\ callers'[c].copy.credential = callers[c].copy.credential
            /\ callers'[c].copy.tok.chain = callers[c].copy.tok.chain

LEMMA CallerHasCopy ==
    ASSUME CallersTyped, NEW c \in Callers, callers[c].phase # "idle"
    PROVE  /\ callers[c].copy \in Copy
           /\ callers[c].copy.id \in Ids
           /\ callers[c].copy.credential \in Nat
           /\ callers[c].copy.tok \in Token
BY DEF CallersTyped, Caller, Copy

LEMMA PhaseChange ==
    ASSUME NEW q \in Caller, NEW phase \in {"idle", "holding", "waiting"}
    PROVE  LET p == [q EXCEPT !.phase = phase] IN
           p \in Caller /\ p.phase = phase /\ p.copy = q.copy
BY DEF Caller

LEMMA TokenServed ==
    ASSUME NEW copy \in Copy, NEW tok \in Token
    PROVE  LET p == [copy EXCEPT !.tok = tok] IN
           /\ p \in Copy /\ p.tok = tok
           /\ p.id = copy.id /\ p.credential = copy.credential
BY DEF Copy

LEMMA CallersFail ==
    ASSUME CallersTyped, NEW f, Failed(f)
    PROVE  CallersTyped' /\ CopiesKept
<1>1. ASSUME NEW c \in Callers
      PROVE  /\ callers'[c] \in Caller
             /\ callers'[c].copy = callers[c].copy
             /\ callers'[c].phase # "idle" => callers[c].phase # "idle"
  <2>1. callers[c] \in Caller
    BY DEF CallersTyped
  <2>2. callers'[c] = callers[c] \/ callers'[c] = [callers[c] EXCEPT !.phase = "holding"]
    BY DEF Failed
  <2>3. callers'[c] # callers[c] => callers[c].phase = "waiting"
    BY DEF Failed, Waiters
  <2> QED
    BY <2>1, <2>2, <2>3, PhaseChange
<1>2. callers' = [c \in Callers |-> callers'[c]]
  BY DEF Failed
<1> QED
  BY <1>1, <1>2 DEF CallersTyped, CopiesKept

\* Who waits for a flight wants its account and its stamp.
LEMMA WaiterWants ==
    ASSUME NEW f, NEW c \in Waiters(f)
    PROVE  /\ c \in Callers /\ f \in flights
           /\ callers[c].phase = "waiting"
           /\ f.id = callers[c].copy.id /\ f.credential = callers[c].copy.credential
BY DEF Waiters, Of

LEMMA CallersSucceed ==
    ASSUME CallersTyped, FlightsTyped, StampPinsChain,
           NEW f \in flights, f.phase = "stored", Succeeded(f)
    PROVE  /\ CallersTyped' /\ CopiesKept
           /\ \A c \in Callers :
                \/ callers'[c] = callers[c]
                \/ /\ c \in Waiters(f)
                   /\ callers'[c].phase = "holding"
                   /\ callers'[c].copy.tok = f.answer
<1>1. f.answer \in Token /\ f.answer.chain = f.tok.chain /\ HasRead(f)
  BY DEF FlightsTyped, Flight, HasRead
<1>2. ASSUME NEW c \in Callers, c \notin Waiters(f)
      PROVE  callers'[c] = callers[c] /\ callers'[c] \in Caller
  BY <1>2 DEF Succeeded, CallersTyped
<1>3. ASSUME NEW c \in Callers, c \in Waiters(f)
      PROVE  /\ callers'[c] \in Caller /\ callers'[c].phase = "holding"
             /\ callers[c].phase # "idle"
             /\ callers'[c].copy # NoCopy
             /\ callers'[c].copy.id = callers[c].copy.id
             /\ callers'[c].copy.credential = callers[c].copy.credential
             /\ callers'[c].copy.tok = f.answer
             /\ callers'[c].copy.tok.chain = callers[c].copy.tok.chain
  <2>1. /\ callers[c].phase = "waiting"
        /\ f.id = callers[c].copy.id /\ f.credential = callers[c].copy.credential
    BY <1>3, WaiterWants
  <2>2. callers[c] \in Caller /\ callers[c].copy \in Copy
    BY <2>1, CallerHasCopy DEF CallersTyped
  <2>3. f.tok.chain = callers[c].copy.tok.chain
    BY <1>1, <2>1 DEF StampPinsChain
  <2> DEFINE copy == [callers[c].copy EXCEPT !.tok = f.answer]
  <2>4. callers'[c] = [phase |-> "holding", copy |-> copy]
    BY <1>3 DEF Succeeded
  <2>5. /\ copy \in Copy /\ copy.tok = f.answer
        /\ copy.id = callers[c].copy.id /\ copy.credential = callers[c].copy.credential
    BY <1>1, <2>2, TokenServed
  <2> HIDE DEF copy
  <2> QED
    BY <1>1, <2>1, <2>3, <2>4, <2>5 DEF Caller
<1>4. callers' = [c \in Callers |-> callers'[c]]
  BY DEF Succeeded
<1>5. CallersTyped'
  BY <1>2, <1>3, <1>4 DEF CallersTyped
<1>6. CopiesKept
  BY <1>2, <1>3 DEF CopiesKept
<1> QED
  BY <1>2, <1>3, <1>5, <1>6

LEMMA FlightAsks ==
    ASSUME NEW f \in Flight, NEW tok \in Token
    PROVE  LET g == [f EXCEPT !.phase = "asked", !.tok = tok] IN
           /\ g \in Flight /\ g.phase = "asked" /\ g.tok = tok
           /\ g.id = f.id /\ g.credential = f.credential
BY DEF Flight

LEMMA FlightHears ==
    ASSUME NEW f \in Flight, NEW n \in 0..Rotations
    PROVE  LET g == [f EXCEPT !.phase = "answered", !.answer = [f.tok EXCEPT !.n = n]] IN
           /\ g \in Flight /\ g.phase = "answered" /\ g.tok = f.tok
           /\ g.id = f.id /\ g.credential = f.credential
           /\ g.answer.chain = f.tok.chain /\ g.answer.n = n
<1>1. [f.tok EXCEPT !.n = n] = [chain |-> f.tok.chain, n |-> n]
  BY DEF Flight, Token
<1>2. f.tok.chain \in Regs \union {NoReg}
  BY DEF Flight, Token
<1> QED
  BY <1>1, <1>2 DEF Flight, Token

LEMMA FlightStores ==
    ASSUME NEW f \in Flight
    PROVE  LET g == [f EXCEPT !.phase = "stored"] IN
           /\ g \in Flight /\ g.phase = "stored"
           /\ g.tok = f.tok /\ g.answer = f.answer
           /\ g.id = f.id /\ g.credential = f.credential
BY DEF Flight

-----------------------------------------------------------------------------
(* Steps that leave every account with its registration and its stamp, and *)
(* every flight with its account, stamp and chain.                         *)

AccountsAlike ==
    /\ UNCHANGED <<credentials, nextCredential>>
    /\ \A id \in Ids :
         /\ accounts'[id] = NoAccount <=> accounts[id] = NoAccount
         /\ accounts[id] # NoAccount => accounts'[id].reg = accounts[id].reg

SameKey(f, g) == f.id = g.id /\ f.credential = g.credential

\* g is the flight f, further on.
Later(f, g) ==
    /\ SameKey(f, g)
    /\ HasRead(g) => HasRead(f) /\ g.tok.chain = f.tok.chain
    /\ Open(g) => Open(f)

FlightsAlike ==
    /\ \A g \in flights' : \E f \in flights : Later(f, g)
    /\ \A g, h \in flights' : SameKey(g, h) => g = h

LEMMA LinksKept ==
    ASSUME Types, CallersTyped', Links, AccountsAlike, FlightsAlike, CopiesKept,
           broken \subseteq broken'
    PROVE  Links'
<1>1. StampsIssued'
  <2>1. \A id \in Ids : IF accounts'[id] = NoAccount THEN credentials'[id] = 0
                                                     ELSE Issued(credentials[id])
    BY DEF Links, StampsIssued, AccountsAlike
  <2>2. \A g \in flights' : Issued(g.credential)
    BY DEF Links, StampsIssued, FlightsAlike, Later, SameKey
  <2>3. \A c \in Callers : callers'[c].phase # "idle" => Issued(callers'[c].copy.credential)
    BY DEF Links, StampsIssued, CopiesKept
  <2> QED
    BY <2>1, <2>2, <2>3 DEF StampsIssued, Issued, AccountsAlike
<1>2. OnePerKey'
  BY DEF FlightsAlike, SameKey, OnePerKey
<1>3. ASSUME NEW g \in flights', HasRead(g),
             accounts'[g.id] # NoAccount, credentials'[g.id] = g.credential
      PROVE  accounts'[g.id].reg = g.tok.chain
  <2>1. PICK f \in flights : Later(f, g)
    BY DEF FlightsAlike
  <2>2. f.id \in Ids
    BY DEF Types, FlightsTyped, Flight
  <2> QED
    BY <1>3, <2>1, <2>2 DEF Later, SameKey, Links, StampPinsChain, Current, AccountsAlike
<1>4. ASSUME NEW c \in Callers, callers'[c].phase # "idle"
      PROVE  LET copy == callers'[c].copy IN
             /\ accounts'[copy.id] # NoAccount /\ credentials'[copy.id] = copy.credential
                  => accounts'[copy.id].reg = copy.tok.chain
             /\ \A g \in flights' :
                  HasRead(g) /\ g.id = copy.id /\ g.credential = copy.credential
                    => g.tok.chain = copy.tok.chain
  <2>1. /\ callers[c].phase # "idle"
        /\ callers'[c].copy.id = callers[c].copy.id
        /\ callers'[c].copy.credential = callers[c].copy.credential
        /\ callers'[c].copy.tok.chain = callers[c].copy.tok.chain
    BY <1>4 DEF CopiesKept
  <2>2. callers[c].copy.id \in Ids
    BY <2>1, CallerHasCopy DEF Types
  <2>3. ASSUME NEW g \in flights', HasRead(g), g.id = callers[c].copy.id,
               g.credential = callers[c].copy.credential
        PROVE  g.tok.chain = callers[c].copy.tok.chain
    <3>1. PICK f \in flights : Later(f, g)
      BY DEF FlightsAlike
    <3> QED
      BY <2>1, <2>3, <3>1 DEF Later, SameKey, Links, StampPinsChain
  <2> QED
    BY <2>1, <2>2, <2>3 DEF Links, StampPinsChain, Current, AccountsAlike
<1>5. StampPinsChain'
  BY <1>3, <1>4 DEF StampPinsChain, Current, HasRead
<1>6. ChainPinsStamp'
  <2> SUFFICES ASSUME NEW g \in flights', NEW id \in Ids, Open(g),
                      g.tok.chain \in Regs \ broken',
                      accounts'[id] # NoAccount, accounts'[id].reg = g.tok.chain
               PROVE  id = g.id /\ credentials'[id] = g.credential
    BY DEF ChainPinsStamp, Open, Whole
  <2>1. PICK f \in flights : Later(f, g)
    BY DEF FlightsAlike
  <2>2. SameKey(f, g) /\ Open(f) /\ f.tok.chain = g.tok.chain /\ f.tok.chain \in Whole
    BY <2>1 DEF Later, Open, HasRead, Whole
  <2> QED
    BY <2>2 DEF SameKey, Links, ChainPinsStamp, AccountsAlike
<1>7. OnePerChain'
  <2> SUFFICES ASSUME NEW g \in flights', NEW h \in flights', Open(g), Open(h),
                      g.tok.chain \in Regs \ broken', g.tok.chain = h.tok.chain
               PROVE  g = h
    BY DEF OnePerChain, Open, Whole
  <2>1. PICK f \in flights : Later(f, g)
    BY DEF FlightsAlike
  <2>2. PICK e \in flights : Later(e, h)
    BY DEF FlightsAlike
  <2>3. f = e
    <3>1. /\ Open(f) /\ Open(e) /\ f.tok.chain = g.tok.chain /\ e.tok.chain = h.tok.chain
          /\ f.tok.chain \in Whole
      BY <2>1, <2>2 DEF Later, Open, HasRead, Whole
    <3> QED
      BY <3>1 DEF Links, OnePerChain
  <2> QED
    BY <2>1, <2>2, <2>3 DEF Later, SameKey, FlightsAlike
<1> QED
  BY <1>1, <1>2, <1>5, <1>6, <1>7 DEF Links

LEMMA FlightMoves ==
    ASSUME OnePerKey, NEW f \in flights, NEW g, Later(f, g),
           flights' = (flights \ {f}) \union {g}
    PROVE  FlightsAlike
<1>1. \A h \in flights : Later(h, h)
  BY DEF Later, SameKey
<1> QED
  BY <1>1 DEF FlightsAlike, OnePerKey, Later, SameKey

LEMMA FlightEnds ==
    ASSUME OnePerKey, NEW f, flights' = flights \ {f}
    PROVE  FlightsAlike
BY DEF FlightsAlike, OnePerKey, Later, SameKey

LEMMA FlightsStay ==
    ASSUME OnePerKey, flights' = flights
    PROVE  FlightsAlike
BY DEF FlightsAlike, OnePerKey, Later, SameKey

LEMMA CopiesStay ==
    ASSUME callers' = callers
    PROVE  CopiesKept
BY DEF CopiesKept

LEMMA StoreStays ==
    ASSUME StoreTypeOK, Sound(accounts), Sound(disk), broken \subseteq broken',
           \/ UNCHANGED storeVars
           \/ UNCHANGED <<accounts, stamps, disk>> /\ failed' \in BOOLEAN
    PROVE  /\ AccountsAlike /\ StoreTypeOK' /\ Sound(accounts)' /\ Sound(disk)'
           /\ accounts' = accounts /\ credentials' = credentials /\ disk' = disk
BY DEF storeVars, stamps, AccountsAlike, StoreTypeOK, Sound, Whole

-----------------------------------------------------------------------------
(* The file *)

LEMMA FileSaved ==
    ASSUME NoRotationDropped', FlightsTyped', disk' = accounts',
           accounts' \in Files
    PROVE  FileFollows'
<1> SUFFICES ASSUME NEW id \in Ids, disk'[id] # NoAccount,
                    disk'[id].tok.chain \in Regs \ (broken' \union behind'),
                    \A f \in flights' : Open(f) => f.tok.chain # disk'[id].tok.chain
             PROVE  disk'[id].tok.n = newest'[disk'[id].tok.chain]
  BY DEF FileFollows, Open, Whole
<1> SUFFICES ASSUME accounts'[id].tok.n # newest'[accounts'[id].tok.chain]
             PROVE  FALSE
  OBVIOUS
<1>1. PICK f \in flights' : f.phase = "answered" /\ f.answer.chain = accounts'[id].tok.chain
  BY DEF NoRotationDropped, Present, Whole
<1> QED
  BY <1>1 DEF FlightsTyped, Open

LEMMA FileKept ==
    ASSUME FileFollows, disk' = disk, newest' = newest,
           broken \subseteq broken', behind \subseteq behind',
           \A f \in flights : Open(f) /\ f.tok.chain \notin broken' \union behind'
              => \E g \in flights' : Open(g) /\ g.tok.chain = f.tok.chain
    PROVE  FileFollows'
<1> SUFFICES ASSUME NEW id \in Ids, disk[id] # NoAccount,
                    disk[id].tok.chain \in Regs \ (broken' \union behind'),
                    \A f \in flights' : Open(f) => f.tok.chain # disk[id].tok.chain
             PROVE  disk[id].tok.n = newest[disk[id].tok.chain]
  BY DEF FileFollows, Open, Whole
<1>1. \A f \in flights : Open(f) => f.tok.chain # disk[id].tok.chain
  OBVIOUS
<1> QED
  BY <1>1 DEF FileFollows, Whole

-----------------------------------------------------------------------------
(* Callers *)

\* The ledger is about the store and the flights.
LEMMA LedgerStays ==
    ASSUME Ledger, accounts' = accounts, credentials' = credentials, disk' = disk,
           flights' = flights, newest' = newest, broken' = broken, behind' = behind
    PROVE  Ledger'
BY DEF Ledger, AsksWithNewest, AnswerIsNewest, StoredIsHeld, NoRotationDropped, FileFollows,
       Current, Present, Open, Whole

LEMMA TakeKeeps ==
    ASSUME IInv, NEW c \in Callers, Take(c)
    PROVE  IInv'
<1>1. PICK id \in Present :
        callers' = [callers EXCEPT ![c] = [phase |-> "holding", copy |-> CopyOf(id)]]
  BY DEF Take
<1>2. /\ UNCHANGED storeVars /\ flights' = flights /\ newest' = newest
      /\ broken' = broken /\ behind' = behind
  BY DEF Take
<1>3. /\ AccountsAlike /\ StoreTypeOK' /\ Sound(accounts)' /\ Sound(disk)'
      /\ accounts' = accounts /\ credentials' = credentials /\ disk' = disk
  BY <1>2, StoreStays DEF IInv, Types
<1>4. /\ id \in Ids /\ accounts[id] # NoAccount
      /\ accounts[id] \in Account /\ credentials[id] \in Nat
  BY DEF Present, IInv, Types, StoreTypeOK
<1>5. /\ CopyOf(id) \in Copy /\ CopyOf(id) # NoCopy
      /\ CopyOf(id).id = id /\ CopyOf(id).credential = credentials[id]
      /\ CopyOf(id).tok.chain = accounts[id].reg
  BY <1>4 DEF CopyOf, Copy, Account, IInv, Sound
<1>6. CallersTyped'
  BY <1>1, <1>5 DEF IInv, Types, CallersTyped, Caller
<1>7. /\ \A d \in Callers \ {c} : callers'[d] = callers[d]
      /\ callers'[c].copy = CopyOf(id)
  BY <1>1 DEF IInv, Types, CallersTyped
<1>8. StampsIssued'
  BY <1>2, <1>3, <1>4, <1>5, <1>7 DEF IInv, Links, StampsIssued, Issued, AccountsAlike
<1>9. StampPinsChain'
  <2>1. \A f \in flights : HasRead(f) /\ f.id = id /\ f.credential = credentials[id]
                             => f.tok.chain = accounts[id].reg
    BY <1>4 DEF IInv, Links, StampPinsChain, Current
  <2>2. ASSUME NEW d \in Callers, d # c, callers'[d].phase # "idle"
        PROVE  LET copy == callers'[d].copy IN
               /\ Current(copy) => accounts[copy.id].reg = copy.tok.chain
               /\ \A f \in flights :
                    HasRead(f) /\ f.id = copy.id /\ f.credential = copy.credential
                      => f.tok.chain = copy.tok.chain
    BY <1>7, <2>2 DEF IInv, Links, StampPinsChain
  <2>3. LET copy == callers'[c].copy IN
        /\ Current(copy) => accounts[copy.id].reg = copy.tok.chain
        /\ \A f \in flights :
             HasRead(f) /\ f.id = copy.id /\ f.credential = copy.credential
               => f.tok.chain = copy.tok.chain
    BY <1>5, <1>7, <2>1
  <2>4. \A f \in flights : HasRead(f) /\ Current(f) => accounts[f.id].reg = f.tok.chain
    BY DEF IInv, Links, StampPinsChain
  <2> QED
    BY <1>2, <1>3, <2>2, <2>3, <2>4 DEF StampPinsChain, Current, HasRead
<1>10. OnePerKey' /\ ChainPinsStamp' /\ OnePerChain'
  BY <1>2, <1>3 DEF IInv, Links, OnePerKey, ChainPinsStamp, OnePerChain, Open, Whole
<1>11. Types'
  BY <1>2, <1>3, <1>6 DEF IInv, Types, FlightsTyped, UpstreamTyped, HasRead
<1>12. Ledger'
  BY <1>2, <1>3, LedgerStays DEF IInv
<1> QED
  BY <1>3, <1>8, <1>9, <1>10, <1>11, <1>12 DEF IInv, Links

LEMMA JoinKeeps ==
    ASSUME IInv, NEW c \in Callers, Join(c)
    PROVE  IInv'
<1> DEFINE copy == callers[c].copy
           g == NewFlight(c)
<1>1. /\ UNCHANGED storeVars /\ newest' = newest /\ broken' = broken /\ behind' = behind
      /\ callers' = [callers EXCEPT ![c].phase = "waiting"]
      /\ callers[c].phase = "holding"
  BY DEF Join
<1>2. /\ AccountsAlike /\ StoreTypeOK' /\ Sound(accounts)' /\ Sound(disk)'
      /\ accounts' = accounts /\ credentials' = credentials /\ disk' = disk
  BY <1>1, StoreStays DEF IInv, Types
<1>3. CallersTyped' /\ CopiesKept
  <2>1. callers[c] \in Caller
    BY DEF IInv, Types, CallersTyped
  <2>2. /\ callers'[c] \in Caller /\ callers'[c].copy = callers[c].copy
        /\ callers'[c].phase = "waiting"
        /\ \A d \in Callers \ {c} : callers'[d] = callers[d]
        /\ callers' = [d \in Callers |-> callers'[d]]
    BY <1>1, <2>1, PhaseChange DEF IInv, Types, CallersTyped
  <2> QED
    BY <1>1, <2>2 DEF IInv, Types, CallersTyped, CopiesKept
<1>4. CASE flights' = flights
  <2>1. FlightsAlike
    BY <1>4, FlightsStay DEF IInv, Links
  <2>2. Links'
    BY <1>1, <1>2, <1>3, <2>1, LinksKept DEF IInv
  <2>3. Types'
    BY <1>1, <1>2, <1>3, <1>4 DEF IInv, Types, FlightsTyped, UpstreamTyped, HasRead
  <2>4. Ledger'
    BY <1>1, <1>2, <1>4, LedgerStays DEF IInv
  <2> QED
    BY <1>2, <2>2, <2>3, <2>4 DEF IInv
<1>5. CASE Of(c) = {} /\ flights' = flights \union {g}
  <2>1. copy.id \in Ids /\ copy.credential \in Nat /\ Issued(copy.credential)
    BY <1>1, CallerHasCopy DEF IInv, Types, Links, StampsIssued
  <2>2. NoToken \in Token
    BY DEF NoToken, Token
  <2>3. /\ g \in Flight /\ g.phase = "started"
        /\ g.id = copy.id /\ g.credential = copy.credential
    BY <2>1, <2>2 DEF NewFlight, Flight
  <2>4. \A f \in flights : ~SameKey(f, g)
    BY <1>5, <2>3 DEF Of, SameKey
  <2> HIDE DEF g, copy
  <2>5. Types'
    BY <1>1, <1>2, <1>3, <1>5, <2>3 DEF IInv, Types, FlightsTyped, UpstreamTyped, HasRead
  <2>6. StampsIssued'
    BY <1>2, <1>3, <1>5, <2>1, <2>3
    DEF IInv, Links, StampsIssued, Issued, AccountsAlike, CopiesKept
  <2>7. OnePerKey'
    BY <1>5, <2>4 DEF IInv, Links, OnePerKey, SameKey
  <2>8. StampPinsChain'
    <3>1. \A f \in flights' : HasRead(f) => f \in flights
      BY <1>5, <2>3 DEF HasRead
    <3>2. \A f \in flights' : HasRead(f) /\ Current(f)' => accounts'[f.id].reg = f.tok.chain
      BY <1>2, <3>1 DEF IInv, Links, StampPinsChain, Current
    <3>3. ASSUME NEW d \in Callers, callers'[d].phase # "idle"
          PROVE  /\ (accounts'[callers'[d].copy.id] # NoAccount
                      /\ credentials'[callers'[d].copy.id] = callers'[d].copy.credential)
                       => accounts'[callers'[d].copy.id].reg = callers'[d].copy.tok.chain
                 /\ \A f \in flights' :
                      HasRead(f) /\ f.id = callers'[d].copy.id
                        /\ f.credential = callers'[d].copy.credential
                        => f.tok.chain = callers'[d].copy.tok.chain
      BY <1>2, <1>3, <3>1, <3>3 DEF IInv, Links, StampPinsChain, Current, CopiesKept
    <3> QED
      BY <3>2, <3>3 DEF StampPinsChain, Current, HasRead
  <2>9. ChainPinsStamp' /\ OnePerChain'
    BY <1>1, <1>2, <1>5, <2>3 DEF IInv, Links, ChainPinsStamp, OnePerChain, Open, Whole
  <2>10. AsksWithNewest' /\ AnswerIsNewest' /\ StoredIsHeld'
    BY <1>1, <1>2, <1>5, <2>3
    DEF IInv, Ledger, AsksWithNewest, AnswerIsNewest, StoredIsHeld, Current, Whole
  <2>11. NoRotationDropped'
    BY <1>1, <1>2, <1>5 DEF IInv, Ledger, NoRotationDropped, Present, Whole
  <2>12. FileFollows'
    BY <1>1, <1>2, <1>5, FileKept DEF IInv, Ledger
  <2> QED
    BY <1>2, <2>5, <2>6, <2>7, <2>8, <2>9, <2>10, <2>11, <2>12 DEF IInv, Links, Ledger
<1> QED
  BY <1>4, <1>5 DEF Join

LEMMA LeaveKeeps ==
    ASSUME IInv, NEW c \in Callers, Leave(c)
    PROVE  IInv'
<1>1. /\ UNCHANGED storeVars /\ flights' = flights /\ newest' = newest
      /\ broken' = broken /\ behind' = behind
      /\ callers' = [callers EXCEPT ![c] = Idle]
  BY DEF Leave
<1>2. /\ AccountsAlike /\ StoreTypeOK' /\ Sound(accounts)' /\ Sound(disk)'
      /\ accounts' = accounts /\ credentials' = credentials /\ disk' = disk
  BY <1>1, StoreStays DEF IInv, Types
<1>3. CallersTyped' /\ CopiesKept
  BY <1>1 DEF IInv, Types, CallersTyped, Caller, Idle, CopiesKept
<1>4. Links'
  BY <1>1, <1>2, <1>3, FlightsStay, LinksKept DEF IInv, Links
<1>5. Types'
  BY <1>1, <1>2, <1>3 DEF IInv, Types, FlightsTyped, UpstreamTyped, HasRead
<1>6. Ledger'
  BY <1>1, <1>2, LedgerStays DEF IInv
<1> QED
  BY <1>2, <1>4, <1>5, <1>6 DEF IInv

-----------------------------------------------------------------------------
(* Flights *)

\* The end of a flight that leaves its account alone.
Fails(f) ==
    /\ Failed(f)
    /\ UNCHANGED <<accounts, stamps, disk>> /\ failed' \in BOOLEAN
    /\ newest' = newest /\ behind' = behind
    /\ \/ broken' = broken
       \/ HasRead(f) /\ broken' = broken \union {f.tok.chain}
    /\ Open(f) => f.tok.chain \in broken'

LEMMA FailKeeps ==
    ASSUME IInv, NEW f \in flights, Fails(f)
    PROVE  IInv'
<1> USE DEF Fails
<1>1. broken \subseteq broken' /\ broken' \in SUBSET Regs
  BY DEF IInv, Types, FlightsTyped, UpstreamTyped
<1>2. /\ AccountsAlike /\ StoreTypeOK' /\ Sound(accounts)' /\ Sound(disk)'
      /\ accounts' = accounts /\ credentials' = credentials /\ disk' = disk
  BY <1>1, StoreStays DEF IInv, Types
<1>3. CallersTyped' /\ CopiesKept
  BY CallersFail DEF IInv, Types
<1>4. flights' = flights \ {f}
  BY DEF Failed
<1>5. Links'
  BY <1>2, <1>3, <1>4, <1>1, FlightEnds, LinksKept DEF IInv, Links
<1>6. Types'
  BY <1>2, <1>3, <1>4, <1>1 DEF IInv, Types, FlightsTyped, UpstreamTyped, HasRead
<1>7. AsksWithNewest' /\ AnswerIsNewest' /\ StoredIsHeld'
  BY <1>2, <1>4, <1>1
  DEF IInv, Ledger, AsksWithNewest, AnswerIsNewest, StoredIsHeld, Current, Whole
<1>8. NoRotationDropped'
  <2>1. f.phase = "answered" => f.answer.chain \in broken'
    BY DEF IInv, Types, FlightsTyped, Open
  <2>2. ASSUME NEW id \in Ids, accounts[id] # NoAccount,
               accounts[id].tok.chain \in Regs \ broken',
               accounts[id].tok.n # newest[accounts[id].tok.chain]
        PROVE  \E g \in flights' : /\ g.phase = "answered"
                                   /\ g.id = id
                                   /\ g.credential = credentials[id]
                                   /\ g.answer.chain = accounts[id].tok.chain
                                   /\ g.answer.n = newest[accounts[id].tok.chain]
    <3>1. PICK g \in flights : /\ g.phase = "answered"
                               /\ g.id = id
                               /\ g.credential = credentials[id]
                               /\ g.answer.chain = accounts[id].tok.chain
                               /\ g.answer.n = newest[accounts[id].tok.chain]
      BY <1>1, <2>2 DEF IInv, Ledger, NoRotationDropped, Present, Whole
    <3> QED
      BY <1>4, <2>1, <2>2, <3>1
  <2> QED
    BY <1>2, <2>2 DEF NoRotationDropped, Present, Whole
<1>9. FileFollows'
  <2>1. ASSUME NEW g \in flights, Open(g), g.tok.chain \notin broken'
        PROVE  g \in flights'
    BY <1>4, <2>1
  <2> QED
    BY <1>2, <1>1, <2>1, FileKept DEF IInv, Ledger
<1> QED
  BY <1>2, <1>5, <1>6, <1>7, <1>8, <1>9 DEF IInv, Ledger

LEMMA BeginKeeps ==
    ASSUME IInv, NEW f \in flights, Begin(f)
    PROVE  IInv'
<1>1. /\ f.phase = "started" /\ f \in Flight /\ f.id \in Ids
      /\ UNCHANGED storeVars /\ newest' = newest /\ broken' = broken /\ behind' = behind
  BY DEF Begin, IInv, Types, FlightsTyped, Flight
<1>2. CASE Failed(f)
  <2>1. UNCHANGED <<accounts, stamps, disk>> /\ failed' \in BOOLEAN
    BY <1>1 DEF storeVars, IInv, Types, StoreTypeOK
  <2>2. Fails(f)
    BY <1>1, <1>2, <2>1 DEF Fails, Open
  <2> QED
    BY <2>2, FailKeeps
<1>3. CASE HasClient(f.id) /\ credentials[f.id] = f.credential /\ Advances(f, accounts[f.id].tok)
  <2> DEFINE tok == accounts[f.id].tok
             g == [f EXCEPT !.phase = "asked", !.tok = tok]
  <2>1. /\ AccountsAlike /\ StoreTypeOK' /\ Sound(accounts)' /\ Sound(disk)'
        /\ accounts' = accounts /\ credentials' = credentials /\ disk' = disk
    BY <1>1, StoreStays DEF IInv, Types
  <2>2. /\ accounts[f.id] \in Account /\ accounts[f.id] # NoAccount /\ tok \in Token
        /\ tok.chain = accounts[f.id].reg /\ tok.chain \in Regs
    BY <1>1, <1>3 DEF HasClient, IInv, Types, StoreTypeOK, Account, Sound
  <2>3. flights' = (flights \ {f}) \union {g} /\ callers' = callers
    BY <1>3 DEF Advances, Advanced
  <2>4. /\ g \in Flight /\ g.phase = "asked" /\ g.tok = tok
        /\ g.id = f.id /\ g.credential = f.credential
    BY <1>1, <2>2, FlightAsks
  <2> HIDE DEF g, tok
  <2>5. Types'
    BY <1>1, <2>1, <2>2, <2>3, <2>4
    DEF IInv, Types, FlightsTyped, CallersTyped, UpstreamTyped, HasRead
  <2>6. \A h \in flights \ {f} : ~SameKey(f, h)
    BY DEF IInv, Links, OnePerKey, SameKey
  <2>7. StampsIssued' /\ OnePerKey'
    BY <2>1, <2>3, <2>4
    DEF IInv, Links, StampsIssued, OnePerKey, Issued, AccountsAlike
  <2>8. StampPinsChain'
    <3>1. ASSUME NEW c \in Callers, callers[c].phase # "idle", g.id = callers[c].copy.id,
                 g.credential = callers[c].copy.credential
          PROVE  g.tok.chain = callers[c].copy.tok.chain
      BY <1>3, <2>2, <2>4, <3>1 DEF HasClient, IInv, Links, StampPinsChain, Current
    <3> QED
      BY <2>1, <2>2, <2>3, <2>4, <3>1 DEF IInv, Links, StampPinsChain, Current, HasRead
  <2>9. ChainPinsStamp'
    <3>1. \A id \in Ids : /\ accounts[id] # NoAccount /\ accounts[id].reg = g.tok.chain
                         /\ g.tok.chain \in Whole
                         => id = f.id
      BY <1>1, <2>2, <2>4 DEF IInv, Sound
    <3> QED
      BY <1>1, <1>3, <2>1, <2>3, <2>4, <3>1 DEF IInv, Links, ChainPinsStamp, Open, Whole
  <2>10. OnePerChain'
    <3>1. ASSUME NEW h \in flights, h # f, Open(h), h.tok.chain \in Whole
          PROVE  h.tok.chain # g.tok.chain
      <4>1. h.tok.chain = g.tok.chain => SameKey(f, h)
        BY <1>1, <1>3, <2>2, <2>4, <3>1 DEF IInv, Links, ChainPinsStamp, SameKey
      <4> QED
        BY <2>6, <3>1, <4>1
    <3> QED
      BY <1>1, <2>3, <3>1 DEF IInv, Links, OnePerChain, Open, Whole
  <2>11. AsksWithNewest'
    <3>1. g.tok.chain \in Whole => g.tok.n = newest[g.tok.chain]
      <4> SUFFICES ASSUME tok.chain \in Whole, tok.n # newest[tok.chain]
                   PROVE  FALSE
        BY <2>4
      <4>1. PICK h \in flights : /\ h.phase = "answered"
                                 /\ h.id = f.id
                                 /\ h.credential = credentials[f.id]
        BY <1>1, <2>2 DEF tok, IInv, Ledger, NoRotationDropped, Present
      <4> QED
        BY <1>1, <1>3, <2>6, <4>1 DEF SameKey
    <3> QED
      BY <1>1, <2>3, <3>1 DEF IInv, Ledger, AsksWithNewest, Whole
  <2>12. AnswerIsNewest' /\ StoredIsHeld'
    BY <1>1, <2>1, <2>3, <2>4 DEF IInv, Ledger, AnswerIsNewest, StoredIsHeld, Current, Whole
  <2>13. NoRotationDropped'
    <3>1. \A h \in flights : h.phase = "answered" => h \in flights'
      BY <1>1, <2>3
    <3> QED
      BY <1>1, <2>1, <3>1 DEF IInv, Ledger, NoRotationDropped, Present, Whole
  <2>14. FileFollows'
    <3>1. \A h \in flights : Open(h) => h \in flights'
      BY <1>1, <2>3 DEF Open
    <3> QED
      BY <1>1, <2>1, <3>1, FileKept DEF IInv, Ledger
  <2> QED
    BY <2>1, <2>5, <2>7, <2>8, <2>9, <2>10, <2>11, <2>12, <2>13, <2>14 DEF IInv, Links, Ledger
<1> QED
  BY <1>2, <1>3 DEF Begin

LEMMA AnswerKeeps ==
    ASSUME IInv, NEW f \in flights, Answer(f)
    PROVE  IInv'
<1> DEFINE r == f.tok.chain
<1>1. /\ f.phase = "asked" /\ f \in Flight /\ f.id \in Ids /\ r \in Regs
      /\ UNCHANGED storeVars /\ broken' = broken /\ behind' = behind
  BY DEF Answer, IInv, Types, FlightsTyped, Flight, HasRead
<1>2. CASE f.tok.n # newest[r] /\ Failed(f) /\ UNCHANGED newest
  <2>1. UNCHANGED <<accounts, stamps, disk>> /\ failed' \in BOOLEAN
    BY <1>1 DEF storeVars, IInv, Types, StoreTypeOK
  <2>2. r \in broken
    BY <1>1, <1>2 DEF IInv, Ledger, AsksWithNewest, Whole
  <2>3. Fails(f)
    BY <1>1, <1>2, <2>1, <2>2 DEF Fails, Open
  <2> QED
    BY <2>3, FailKeeps
<1>3. ASSUME f.tok.n = newest[r], NEW n \in {f.tok.n, f.tok.n + 1}, n <= Rotations,
             newest' = [newest EXCEPT ![r] = n],
             Advanced(f, [f EXCEPT !.phase = "answered", !.answer = [f.tok EXCEPT !.n = n]]),
             UNCHANGED callers
      PROVE  IInv'
  <2> DEFINE g == [f EXCEPT !.phase = "answered", !.answer = [f.tok EXCEPT !.n = n]]
  <2>1. /\ AccountsAlike /\ StoreTypeOK' /\ Sound(accounts)' /\ Sound(disk)'
        /\ accounts' = accounts /\ credentials' = credentials /\ disk' = disk
    BY <1>1, StoreStays DEF IInv, Types
  <2>2. n \in 0..Rotations
    <3>1. f.tok.n \in Nat
      BY <1>1 DEF Flight, Token
    <3> QED
      BY <1>3, <3>1
  <2>3. /\ newest' \in [Regs -> 0..Rotations] /\ newest'[r] = n
        /\ \A q \in Regs \ {r} : newest'[q] = newest[q]
    BY <1>1, <1>3, <2>2 DEF IInv, Types, UpstreamTyped
  <2>4. flights' = (flights \ {f}) \union {g}
    BY <1>3 DEF Advanced
  <2>5. /\ g \in Flight /\ g.phase = "answered" /\ g.tok = f.tok
        /\ g.id = f.id /\ g.credential = f.credential
        /\ g.answer.chain = r /\ g.answer.n = n
    BY <1>1, <2>2, FlightHears
  <2> HIDE DEF g
  <2>6. Types'
    BY <1>1, <1>3, <2>1, <2>3, <2>4, <2>5
    DEF IInv, Types, FlightsTyped, CallersTyped, UpstreamTyped, HasRead
  <2>7. Links'
    <3>1. Later(f, g)
      BY <1>1, <2>5 DEF Later, SameKey, HasRead, Open
    <3>2. FlightsAlike
      BY <2>4, <3>1, FlightMoves DEF IInv, Links
    <3>3. CallersTyped' /\ CopiesKept
      BY <1>3, <2>6, CopiesStay DEF Types
    <3> QED
      BY <1>1, <2>1, <3>2, <3>3, LinksKept DEF IInv
  <2>8. \A h \in flights \ {f} : Open(h) /\ h.tok.chain \in Whole => h.tok.chain # r
    BY <1>1 DEF IInv, Links, OnePerChain, Open
  <2>9. \A h \in flights \ {f} : Open(h) /\ h.tok.chain \in Whole
                                  => h.tok.chain \in Regs \ {r}
    BY <2>8 DEF Whole
  <2>10. AsksWithNewest' /\ AnswerIsNewest' /\ StoredIsHeld'
    <3>1. ASSUME NEW h \in flights', h # g
          PROVE  /\ h \in flights \ {f}
                 /\ Open(h) /\ h.tok.chain \in Whole
                      => newest'[h.tok.chain] = newest[h.tok.chain]
      BY <2>3, <2>4, <2>9, <3>1
    <3> QED
      BY <1>1, <2>1, <2>3, <2>5, <3>1
      DEF IInv, Ledger, AsksWithNewest, AnswerIsNewest, StoredIsHeld, Current, Open, Whole
  <2>11. NoRotationDropped'
    <3> SUFFICES ASSUME NEW id \in Ids, accounts[id] # NoAccount,
                        accounts[id].tok.chain \in Regs \ broken,
                        accounts[id].tok.n # newest'[accounts[id].tok.chain]
                 PROVE  \E h \in flights' : /\ h.phase = "answered"
                                            /\ h.id = id
                                            /\ h.credential = credentials[id]
                                            /\ h.answer.chain = accounts[id].tok.chain
                                            /\ h.answer.n = newest'[accounts[id].tok.chain]
      BY <1>1, <2>1 DEF NoRotationDropped, Present, Whole
    <3>1. CASE accounts[id].tok.chain = r
      <4>1. id = f.id /\ credentials[id] = f.credential
        BY <1>1, <3>1 DEF IInv, Sound, Links, ChainPinsStamp, Open, Whole
      <4> QED
        BY <2>3, <2>4, <2>5, <3>1, <4>1
    <3>2. CASE accounts[id].tok.chain # r
      <4>1. newest'[accounts[id].tok.chain] = newest[accounts[id].tok.chain]
        BY <2>3, <3>2
      <4>2. PICK h \in flights : /\ h.phase = "answered"
                                 /\ h.id = id
                                 /\ h.credential = credentials[id]
                                 /\ h.answer.chain = accounts[id].tok.chain
                                 /\ h.answer.n = newest[accounts[id].tok.chain]
        BY <4>1 DEF IInv, Ledger, NoRotationDropped, Present, Whole
      <4>3. h \in flights'
        BY <1>1, <2>4, <4>2
      <4> QED
        BY <4>1, <4>2, <4>3
    <3> QED
      BY <3>1, <3>2
  <2>12. FileFollows'
    <3> SUFFICES ASSUME NEW id \in Ids, disk[id] # NoAccount,
                        disk[id].tok.chain \in Regs \ (broken \union behind),
                        \A h \in flights' : Open(h) => h.tok.chain # disk[id].tok.chain
                 PROVE  disk[id].tok.n = newest'[disk[id].tok.chain]
      BY <1>1, <2>1 DEF FileFollows, Open, Whole
    <3>1. disk[id].tok.chain # r
      BY <2>4, <2>5 DEF Open
    <3>2. \A h \in flights : Open(h) => h.tok.chain # disk[id].tok.chain
      BY <2>4, <3>1
    <3> QED
      BY <2>3, <3>1, <3>2 DEF IInv, Ledger, FileFollows, Whole
  <2> QED
    BY <2>1, <2>6, <2>7, <2>10, <2>11, <2>12 DEF IInv, Ledger
<1> QED
  BY <1>2, <1>3 DEF Answer

LEMMA TimeOutKeeps ==
    ASSUME IInv, NEW f \in flights, TimeOut(f)
    PROVE  IInv'
<1>1. UNCHANGED <<accounts, stamps, disk>> /\ failed' \in BOOLEAN
  BY DEF TimeOut, storeVars, IInv, Types, StoreTypeOK
<1>2. Fails(f)
  BY <1>1 DEF TimeOut, Fails, HasRead
<1> QED
  BY <1>2, FailKeeps

\* The write-back, when the account is still the one that was read.
LEMMA TokenWritten ==
    ASSUME StoreTypeOK, NEW f, f.id \in Ids, NEW tok \in Token, UpdateTokens(f, tok), Current(f)
    PROVE  /\ StoreTypeOK' /\ AccountsAlike
           /\ accounts'[f.id].tok = tok /\ accounts'[f.id].reg = accounts[f.id].reg
           /\ \A id \in Ids \ {f.id} : accounts'[id] = accounts[id]
           /\ \/ disk' = accounts' /\ ~failed'
              \/ disk' = disk /\ failed'
<1> DEFINE b == [accounts[f.id] EXCEPT !.tok = tok]
<1>1. /\ accounts' = [accounts EXCEPT ![f.id].tok = tok]
      /\ Save /\ UNCHANGED stamps
  BY DEF UpdateTokens, Current
<1>2. accounts[f.id] \in Account
  BY DEF Current, StoreTypeOK
<1>3. b \in Account /\ b.tok = tok /\ b.reg = accounts[f.id].reg
  BY <1>2 DEF Account
<1>4. accounts' = [accounts EXCEPT ![f.id] = b]
  BY <1>1
<1> HIDE DEF b
<1>5. /\ accounts' \in Files /\ accounts'[f.id] = b
      /\ \A id \in Ids \ {f.id} : accounts'[id] = accounts[id]
  BY <1>3, <1>4 DEF StoreTypeOK, Files
<1>6. /\ failed' \in BOOLEAN
      /\ \/ disk' = accounts' /\ ~failed'
         \/ disk' = disk /\ failed'
  <2>1. PICK ok \in BOOLEAN : /\ disk' = IF ok THEN accounts' ELSE disk
                              /\ failed' = ~ok
    BY <1>1, SaveOutcomesAreBoolean DEF Save
  <2>2. failed' \in BOOLEAN
    BY <2>1
  <2>3. CASE ok = TRUE
    BY <2>1, <2>3
  <2>4. CASE ok = FALSE
    BY <2>1, <2>4
  <2> QED
    BY <2>2, <2>3, <2>4
<1>7. StoreTypeOK'
  BY <1>1, <1>5, <1>6 DEF StoreTypeOK, Files, stamps
<1>8. AccountsAlike
  BY <1>1, <1>3, <1>5 DEF AccountsAlike, stamps, Current
<1> QED
  BY <1>3, <1>5, <1>6, <1>7, <1>8

LEMMA StoreKeeps ==
    ASSUME IInv, NEW f \in flights, Store(f)
    PROVE  IInv'
<1> DEFINE r == f.tok.chain
           g == [f EXCEPT !.phase = "stored"]
<1>1. /\ f.phase = "answered" /\ f \in Flight /\ f.id \in Ids /\ r \in Regs
      /\ f.answer \in Token /\ f.answer.chain = r
      /\ newest' = newest /\ UpdateTokens(f, f.answer)
  BY DEF Store, IInv, Types, FlightsTyped, Flight, HasRead
<1>2. CASE ~Current(f)
  <2>1. Fenced
    BY <1>1, <1>2 DEF UpdateTokens, Current
  <2>2. Fails(f)
    BY <1>1, <1>2, <2>1 DEF Store, Fenced, Fails, Current, HasRead
  <2> QED
    BY <2>2, FailKeeps
<1>3. CASE Current(f)
  <2>1. /\ flights' = (flights \ {f}) \union {g}
        /\ callers' = callers /\ broken' = broken
        /\ behind' = IF failed' THEN behind \union {r} ELSE {}
    BY <1>1, <1>3 DEF Store, Advanced, Current
  <2>2. /\ StoreTypeOK' /\ AccountsAlike
        /\ accounts'[f.id].tok = f.answer /\ accounts'[f.id].reg = accounts[f.id].reg
        /\ \A id \in Ids \ {f.id} : accounts'[id] = accounts[id]
        /\ \/ disk' = accounts' /\ ~failed'
           \/ disk' = disk /\ failed'
    BY <1>1, <1>3, TokenWritten DEF IInv, Types
  <2>3. /\ g \in Flight /\ g.phase = "stored" /\ g.tok = f.tok
        /\ g.id = f.id /\ g.credential = f.credential
        /\ g.answer = f.answer
    BY <1>1, FlightStores
  <2> HIDE DEF g
  <2>4. Types'
    <3>1. behind' \in SUBSET Regs
      BY <1>1, <2>1 DEF IInv, Types, UpstreamTyped
    <3>2. FlightsTyped'
      BY <1>1, <2>1, <2>3 DEF IInv, Types, FlightsTyped, HasRead
    <3> QED
      BY <1>1, <2>1, <2>2, <3>1, <3>2 DEF IInv, Types, CallersTyped, UpstreamTyped
  <2>5. Sound(accounts)' /\ Sound(disk)'
    <3>1. accounts[f.id].reg = r /\ accounts[f.id] # NoAccount
      BY <1>1, <1>3 DEF IInv, Links, StampPinsChain, Current, HasRead
    <3>2. Sound(accounts)'
      BY <1>1, <2>1, <2>2, <3>1 DEF IInv, Sound, AccountsAlike, Whole
    <3> QED
      BY <2>1, <2>2, <3>2 DEF IInv, Sound, Whole
  <2>6. Links'
    <3>1. Later(f, g)
      BY <1>1, <2>3 DEF Later, SameKey, HasRead, Open
    <3>2. FlightsAlike
      BY <2>1, <3>1, FlightMoves DEF IInv, Links
    <3>3. CallersTyped' /\ CopiesKept
      BY <2>1, <2>4, CopiesStay DEF Types
    <3> QED
      BY <2>1, <2>2, <3>2, <3>3, LinksKept DEF IInv
  <2>7. AsksWithNewest' /\ AnswerIsNewest'
    BY <1>1, <2>1, <2>3 DEF IInv, Ledger, AsksWithNewest, AnswerIsNewest, Whole
  <2>8. StoredIsHeld'
    <3>1. ASSUME NEW h \in flights, h # f, h.phase = "stored", Current(h)'
          PROVE  accounts'[h.id].tok = h.answer
      <4>1. h.id \in Ids /\ Current(h)
        BY <2>2, <3>1 DEF Current, AccountsAlike, IInv, Types, FlightsTyped, Flight
      <4>2. h.id # f.id
        BY <1>3, <3>1, <4>1 DEF Current, IInv, Links, OnePerKey
      <4> QED
        BY <2>2, <3>1, <4>1, <4>2 DEF IInv, Ledger, StoredIsHeld
    <3> QED
      BY <2>1, <2>2, <2>3, <3>1 DEF StoredIsHeld, Current
  <2>9. NoRotationDropped'
    <3> SUFFICES ASSUME NEW id \in Ids, accounts'[id] # NoAccount,
                        accounts'[id].tok.chain \in Regs \ broken,
                        accounts'[id].tok.n # newest[accounts'[id].tok.chain]
                 PROVE  \E h \in flights' : /\ h.phase = "answered"
                                            /\ h.id = id
                                            /\ h.credential = credentials[id]
                                            /\ h.answer.chain = accounts'[id].tok.chain
                                            /\ h.answer.n = newest[accounts'[id].tok.chain]
      BY <1>1, <2>1, <2>2 DEF NoRotationDropped, Present, AccountsAlike, Whole
    <3>1. id # f.id
      BY <1>1, <2>2 DEF IInv, Ledger, AnswerIsNewest, Whole
    <3>2. accounts'[id] = accounts[id]
      BY <2>2, <3>1
    <3>3. PICK h \in flights : /\ h.phase = "answered"
                               /\ h.id = id
                               /\ h.credential = credentials[id]
                               /\ h.answer.chain = accounts[id].tok.chain
                               /\ h.answer.n = newest[accounts[id].tok.chain]
      BY <3>2 DEF IInv, Ledger, NoRotationDropped, Present, Whole
    <3> QED
      BY <2>1, <3>1, <3>2, <3>3
  <2>10. FileFollows'
    <3>1. CASE disk' = accounts'
      BY <2>2, <2>4, <2>9, <3>1, FileSaved DEF Types, StoreTypeOK, Files
    <3>2. CASE disk' = disk /\ failed'
      <4>1. broken \subseteq broken' /\ behind \subseteq behind' /\ r \in behind'
        BY <2>1, <3>2
      <4>2. ASSUME NEW h \in flights, Open(h), h.tok.chain \notin broken' \union behind'
            PROVE  h \in flights'
        BY <2>1, <4>1, <4>2
      <4> QED
        BY <1>1, <3>2, <4>1, <4>2, FileKept DEF IInv, Ledger
    <3> QED
      BY <2>2, <3>1, <3>2
  <2> QED
    BY <2>4, <2>5, <2>6, <2>7, <2>8, <2>9, <2>10 DEF IInv, Ledger
<1> QED
  BY <1>2, <1>3

LEMMA DeliverKeeps ==
    ASSUME IInv, NEW f \in flights, Deliver(f)
    PROVE  IInv'
<1>1. /\ f.phase = "stored" /\ flights' = flights \ {f} /\ Succeeded(f)
      /\ UNCHANGED storeVars /\ newest' = newest /\ broken' = broken /\ behind' = behind
  BY DEF Deliver, Succeeded
<1>2. /\ AccountsAlike /\ StoreTypeOK' /\ Sound(accounts)' /\ Sound(disk)'
      /\ accounts' = accounts /\ credentials' = credentials /\ disk' = disk
  BY <1>1, StoreStays DEF IInv, Types
<1>3. CallersTyped' /\ CopiesKept
  BY <1>1, CallersSucceed DEF IInv, Types, Links
<1>4. Links'
  BY <1>1, <1>2, <1>3, FlightEnds, LinksKept DEF IInv, Links
<1>5. Types'
  BY <1>1, <1>2, <1>3 DEF IInv, Types, FlightsTyped, UpstreamTyped, HasRead
<1>6. AsksWithNewest' /\ AnswerIsNewest' /\ StoredIsHeld'
  <2>1. flights' \subseteq flights
    BY <1>1
  <2> QED
    BY <1>1, <1>2, <2>1
    DEF IInv, Ledger, AsksWithNewest, AnswerIsNewest, StoredIsHeld, Current, Whole
<1>7. NoRotationDropped'
  <2>1. \A h \in flights : h.phase = "answered" => h \in flights'
    BY <1>1
  <2> QED
    BY <1>1, <1>2, <2>1 DEF IInv, Ledger, NoRotationDropped, Present, Whole
<1>8. FileFollows'
  <2>1. \A h \in flights : Open(h) => h \in flights'
    BY <1>1 DEF Open
  <2> QED
    BY <1>1, <1>2, <2>1, FileKept DEF IInv, Ledger
<1> QED
  BY <1>2, <1>4, <1>5, <1>6, <1>7, <1>8 DEF IInv, Ledger

-----------------------------------------------------------------------------
(* The admin *)

\* The flights and upstream stay as they are; a chain may turn out divided.
LEMMA LedgerUnder ==
    ASSUME Ledger, FlightsTyped, accounts' \in Files,
           flights' = flights, newest' = newest, broken \subseteq broken', behind' = behind,
           disk' = accounts' \/ disk' = disk,
           \A f \in flights : Current(f)' => Current(f),
           \A id \in Ids :
              accounts'[id] # NoAccount =>
                 \/ /\ accounts[id] # NoAccount
                    /\ accounts'[id].tok = accounts[id].tok
                    /\ credentials'[id] = credentials[id]
                 \/ /\ accounts'[id].tok.chain \in Regs \ broken'
                         => newest[accounts'[id].tok.chain] = accounts'[id].tok.n
                    /\ \A f \in flights : f.id = id => ~Current(f)',
           \A f \in flights : f.id \in Ids
    PROVE  Ledger'
<1>1. AsksWithNewest' /\ AnswerIsNewest'
  BY DEF Ledger, AsksWithNewest, AnswerIsNewest, Whole
<1>2. StoredIsHeld'
  <2> SUFFICES ASSUME NEW f \in flights, f.phase = "stored", Current(f)'
               PROVE  accounts'[f.id].tok = f.answer
    BY DEF StoredIsHeld, Current
  <2>1. accounts'[f.id] # NoAccount /\ f.id \in Ids
    BY DEF Current
  <2> QED
    BY <2>1 DEF Ledger, StoredIsHeld
<1>3. NoRotationDropped'
  <2> SUFFICES ASSUME NEW id \in Ids, accounts'[id] # NoAccount,
                      accounts'[id].tok.chain \in Regs \ broken',
                      accounts'[id].tok.n # newest[accounts'[id].tok.chain]
               PROVE  \E f \in flights : /\ f.phase = "answered"
                                         /\ f.id = id
                                         /\ f.credential = credentials'[id]
                                         /\ f.answer.chain = accounts'[id].tok.chain
                                         /\ f.answer.n = newest[accounts'[id].tok.chain]
    BY DEF NoRotationDropped, Present, Whole
  <2>1. /\ accounts[id] # NoAccount
        /\ accounts'[id].tok = accounts[id].tok
        /\ credentials'[id] = credentials[id]
    OBVIOUS
  <2> QED
    BY <2>1 DEF Ledger, NoRotationDropped, Present, Whole
<1>4. FileFollows'
  <2>1. FlightsTyped'
    BY DEF FlightsTyped, HasRead
  <2>2. CASE disk' = accounts'
    BY <1>3, <2>1, <2>2, FileSaved
  <2>3. CASE disk' = disk
    BY <2>3, FileKept DEF Ledger
  <2> QED
    BY <2>2, <2>3
<1> QED
  BY <1>1, <1>2, <1>3, <1>4 DEF Ledger

LEMMA SaveWrites ==
    ASSUME Save
    PROVE  failed' \in BOOLEAN /\ (disk' = accounts' \/ disk' = disk)
BY SaveOutcomesAreBoolean DEF Save

LEMMA SoundSaved ==
    ASSUME Sound(accounts)', Sound(disk), broken \subseteq broken',
           disk' = accounts' \/ disk' = disk
    PROVE  Sound(disk)'
BY DEF Sound, Whole

LEMMA SwitchKeeps ==
    ASSUME IInv, SwitchPolicy
    PROVE  IInv'
<1>1. PICK id \in Ids, on \in BOOLEAN : SetDisabledChanged(id, on)
  BY DEF SwitchPolicy
<1>2. /\ flights' = flights /\ callers' = callers /\ newest' = newest
      /\ broken' = broken /\ behind' = behind
  BY DEF SwitchPolicy, refreshVars
<1>3. CallersTyped' /\ CopiesKept /\ FlightsAlike
  BY <1>2, CopiesStay, FlightsStay DEF IInv, Types, CallersTyped, Links
<1>4. /\ AccountsAlike /\ StoreTypeOK'
      /\ \A i \in Ids : accounts[i] # NoAccount => accounts'[i].tok = accounts[i].tok
      /\ disk' = accounts' \/ disk' = disk
  <2>1. CASE UNCHANGED <<accounts, stamps, disk>> /\ failed' \in BOOLEAN
    BY <1>2, <2>1, StoreStays DEF IInv, Types
  <2>2. CASE /\ accounts[id] # NoAccount
             /\ accounts' = [accounts EXCEPT ![id].disabled = on]
             /\ BumpRuntime(id) /\ KeepLifecycle /\ KeepCredential /\ Save
    <3> DEFINE b == [accounts[id] EXCEPT !.disabled = on]
    <3>1. accounts[id] \in Account
      BY <2>2 DEF IInv, Types, StoreTypeOK
    <3>2. b \in Account /\ b.reg = accounts[id].reg /\ b.tok = accounts[id].tok
      BY <3>1 DEF Account
    <3>3. accounts' = [accounts EXCEPT ![id] = b]
      BY <2>2
    <3> HIDE DEF b
    <3>4. /\ accounts' \in Files /\ accounts'[id] = b /\ b # NoAccount
          /\ \A i \in Ids \ {id} : accounts'[i] = accounts[i]
      BY <3>2, <3>3 DEF IInv, Types, StoreTypeOK, Files
    <3>5. failed' \in BOOLEAN /\ (disk' = accounts' \/ disk' = disk)
      BY <2>2, SaveWrites
    <3>6. StoreTypeOK'
      BY <2>2, <3>4, <3>5
      DEF IInv, Types, StoreTypeOK, Files, BumpRuntime, KeepLifecycle, KeepCredential
    <3>7. AccountsAlike
      BY <2>2, <3>2, <3>4 DEF AccountsAlike, KeepCredential
    <3> QED
      BY <3>2, <3>4, <3>5, <3>6, <3>7
  <2> QED
    BY <1>1, <2>1, <2>2 DEF SetDisabledChanged, NotFound, Unchanged
<1>5. Sound(accounts)' /\ Sound(disk)'
  <2>1. Sound(accounts)'
    BY <1>2, <1>4 DEF IInv, Sound, AccountsAlike, Whole
  <2> QED
    BY <1>2, <1>4, <2>1, SoundSaved DEF IInv
<1>6. Links'
  BY <1>2, <1>3, <1>4, LinksKept DEF IInv
<1>7. Types'
  BY <1>2, <1>3, <1>4 DEF IInv, Types, FlightsTyped, UpstreamTyped, HasRead
<1>8. Ledger'
  <2>1. \A f \in flights : f.id \in Ids
    BY DEF IInv, Types, FlightsTyped, Flight
  <2>2. \A f \in flights : Current(f)' => Current(f)
    BY <1>4, <2>1 DEF Current, AccountsAlike
  <2>3. \A i \in Ids : accounts'[i] # NoAccount =>
                          /\ accounts[i] # NoAccount
                          /\ accounts'[i].tok = accounts[i].tok
                          /\ credentials'[i] = credentials[i]
    BY <1>4 DEF AccountsAlike
  <2>4. accounts' \in Files
    BY <1>4 DEF StoreTypeOK, Files
  <2> QED
    BY <1>2, <1>4, <2>1, <2>2, <2>3, <2>4, LedgerUnder DEF IInv, Types
<1> QED
  BY <1>5, <1>6, <1>7, <1>8 DEF IInv

\* The places the accounts of the file, or of a bundle, take among the stamps.
LEMMA TurnsInRange ==
    ASSUME NEW S \in SUBSET Ids, NEW turn \in Turns(S)
    PROVE  /\ Cardinality(S) \in Nat
           /\ \A id \in S : turn[id] \in 1..Cardinality(S)
BY IdsFinite, FS_Subset, FS_CardinalityType DEF Turns

(***************************************************************************)
(* The accounts S get new credentials, or are new.  A chain that stays     *)
(* whole comes with its newest token, to nobody's flight, and to one       *)
(* account alone.                                                          *)
(***************************************************************************)
LEMMA CredentialsKeep ==
    ASSUME IInv, NEW S \in SUBSET Ids,
           flights' = flights, callers' = callers, newest' = newest, behind' = behind,
           broken \subseteq broken', broken' \in SUBSET Regs,
           StoreTypeOK', nextCredential' >= nextCredential,
           disk' = accounts' \/ disk' = disk,
           \A i \in Ids \ S : accounts'[i] = accounts[i] /\ credentials'[i] = credentials[i],
           \A i \in S : /\ accounts'[i] # NoAccount
                        /\ accounts'[i].tok.chain = accounts'[i].reg
                        /\ credentials'[i] \in nextCredential + 1 .. nextCredential',
           \A i \in S : accounts'[i].reg \in Regs \ broken' =>
              /\ accounts'[i].tok.n = newest[accounts'[i].reg]
              /\ \A f \in flights : Open(f) => f.tok.chain # accounts'[i].reg
              /\ \A j \in Ids \ {i} : accounts'[j] # NoAccount => accounts'[j].reg # accounts'[i].reg
    PROVE  IInv'
<1>1. nextCredential \in Nat /\ nextCredential' \in Nat
  BY DEF IInv, Types, StoreTypeOK
<1>2. \A m, i : Issued(m) /\ i \in S => m # credentials'[i]
  BY <1>1 DEF Issued
<1>3. \A f \in flights : f.id \in Ids /\ (Current(f)' => f.id \notin S /\ Current(f))
  <2>1. \A f \in flights : f.id \in Ids /\ Issued(f.credential)
    BY DEF IInv, Types, FlightsTyped, Flight, Links, StampsIssued
  <2>2. \A f \in flights : Current(f)' => f.id \notin S
    BY <1>2, <2>1 DEF Current
  <2> QED
    BY <2>1, <2>2 DEF Current
<1>4. Sound(accounts)' /\ Sound(disk)'
  <2>1. \A j \in Ids : accounts'[j] # NoAccount => accounts'[j].tok.chain = accounts'[j].reg
    BY DEF IInv, Sound
  <2>2. ASSUME NEW i \in Ids, NEW j \in Ids, accounts'[i] # NoAccount, accounts'[j] # NoAccount,
               accounts'[i].reg = accounts'[j].reg, accounts'[i].reg \in Regs \ broken'
        PROVE  i = j
    <3>1. CASE i \in S \/ j \in S
      BY <2>2, <3>1
    <3>2. CASE i \notin S /\ j \notin S
      BY <2>2, <3>2 DEF IInv, Sound, Whole
    <3> QED
      BY <3>1, <3>2
  <2>3. Sound(accounts)'
    BY <2>1, <2>2 DEF Sound, Whole
  <2> QED
    BY <2>3, SoundSaved DEF IInv
<1>5. StampsIssued'
  <2>1. \A m : Issued(m) => m \in 1..nextCredential'
    BY <1>1 DEF Issued
  <2>2. \A i \in S : credentials'[i] \in 1..nextCredential'
    BY <1>1
  <2> QED
    BY <2>1, <2>2 DEF IInv, Links, StampsIssued, Issued
<1>6. OnePerKey' /\ OnePerChain'
  BY DEF IInv, Links, OnePerKey, OnePerChain, Open, Whole
<1>7. StampPinsChain'
  <2>1. \A f \in flights : HasRead(f) /\ Current(f)' => accounts'[f.id].reg = f.tok.chain
    BY <1>3 DEF IInv, Links, StampPinsChain
  <2>2. ASSUME NEW c \in Callers, callers[c].phase # "idle"
        PROVE  LET copy == callers[c].copy IN
               /\ accounts'[copy.id] # NoAccount /\ credentials'[copy.id] = copy.credential
                    => accounts'[copy.id].reg = copy.tok.chain
               /\ \A f \in flights :
                    HasRead(f) /\ f.id = copy.id /\ f.credential = copy.credential
                      => f.tok.chain = copy.tok.chain
    <3>1. callers[c].copy.id \in Ids /\ Issued(callers[c].copy.credential)
      BY <2>2, CallerHasCopy DEF IInv, Types, Links, StampsIssued
    <3>2. credentials'[callers[c].copy.id] = callers[c].copy.credential => callers[c].copy.id \notin S
      BY <1>2, <3>1
    <3> QED
      BY <2>2, <3>1, <3>2 DEF IInv, Links, StampPinsChain, Current
  <2> QED
    BY <2>1, <2>2 DEF StampPinsChain, Current, HasRead
<1>8. ChainPinsStamp'
  <2> SUFFICES ASSUME NEW f \in flights, NEW id \in Ids, Open(f),
                      f.tok.chain \in Regs \ broken',
                      accounts'[id] # NoAccount, accounts'[id].reg = f.tok.chain
               PROVE  id = f.id /\ credentials'[id] = f.credential
    BY DEF ChainPinsStamp, Open, Whole
  <2>1. id \notin S
    OBVIOUS
  <2> QED
    BY <2>1 DEF IInv, Links, ChainPinsStamp, Whole
<1>9. Types'
  BY DEF IInv, Types, FlightsTyped, CallersTyped, UpstreamTyped, HasRead
<1>10. Ledger'
  <2>1. accounts' \in Files
    BY DEF StoreTypeOK, Files
  <2>2. ASSUME NEW i \in Ids, accounts'[i] # NoAccount
        PROVE  \/ /\ accounts[i] # NoAccount
                  /\ accounts'[i].tok = accounts[i].tok
                  /\ credentials'[i] = credentials[i]
               \/ /\ accounts'[i].tok.chain \in Regs \ broken'
                       => newest[accounts'[i].tok.chain] = accounts'[i].tok.n
                  /\ \A f \in flights : f.id = i => ~Current(f)'
    BY <1>3, <2>2
  <2> QED
    BY <1>3, <2>1, <2>2, LedgerUnder DEF IInv, Types
<1> QED
  BY <1>4, <1>5, <1>6, <1>7, <1>8, <1>9, <1>10 DEF IInv, Links

\* The three ways to put credentials on one account, or on new ones.
LEMMA OneStamped ==
    ASSUME Types, NEW id \in Ids, NEW b \in Account,
           accounts' = [accounts EXCEPT ![id] = b], BumpCredential(id), Save
    PROVE  /\ StoreTypeOK' /\ (disk' = accounts' \/ disk' = disk)
           /\ accounts'[id] = b /\ b # NoAccount
           /\ credentials'[id] = nextCredential + 1 /\ nextCredential' = nextCredential + 1
           /\ nextCredential \in Nat
           /\ \A i \in Ids \ {id} : accounts'[i] = accounts[i] /\ credentials'[i] = credentials[i]
<1>1. /\ accounts' \in Files /\ accounts'[id] = b
      /\ \A i \in Ids \ {id} : accounts'[i] = accounts[i]
  BY DEF Types, StoreTypeOK, Files
<1>2. failed' \in BOOLEAN /\ (disk' = accounts' \/ disk' = disk)
  BY SaveWrites
<1>3. /\ nextCredential' = nextCredential + 1 /\ credentials'[id] = nextCredential + 1
      /\ \A i \in Ids \ {id} : credentials'[i] = credentials[i]
      /\ nextCredential \in Nat
  BY DEF BumpCredential, Types, StoreTypeOK
<1>4. StoreTypeOK'
  BY <1>1, <1>2
  DEF Types, StoreTypeOK, Files, BumpCredential, BumpLifecycle, BumpRuntime
<1> QED
  BY <1>1, <1>2, <1>3, <1>4

LEMMA WithCredentialsTyped ==
    ASSUME NEW old \in Account, NEW a \in Account
    PROVE  LET b == WithCredentials(old, a) IN
           b \in Account /\ b.reg = a.reg /\ b.tok = a.tok
<1> DEFINE b == WithCredentials(old, a)
           arn == IF a.arn # NoArn THEN a.arn ELSE old.arn
<1>1. arn \in Arns \union {NoArn}
  BY DEF Account
<1>2. b = [[[old EXCEPT !.reg = a.reg] EXCEPT !.tok = a.tok] EXCEPT !.arn = arn]
  BY DEF WithCredentials, Account
<1> HIDE DEF arn, b
<1>3. b \in Account /\ b.reg = a.reg /\ b.tok = a.tok
  BY <1>1, <1>2 DEF Account
<1> QED
  BY <1>3 DEF b

LEMMA SignsInKeeps ==
    ASSUME IInv, SignsIn
    PROVE  IInv'
<1>1. /\ flights' = flights /\ callers' = callers /\ newest' = newest
      /\ broken' = broken /\ behind' = behind
  BY DEF SignsIn, refreshVars
<1>2. PICK id \in Ids, a \in FreshSignIn :
        \/ accounts[id] = NoAccount /\ Add(id, a)
        \/ accounts[id] # NoAccount /\ ReplaceCredentials(id, a)
  BY DEF SignsIn
<1>3. /\ a \in Account /\ a.reg \in Regs /\ a.tok.chain = a.reg
      /\ a.tok.n = 0 /\ newest[a.reg] = 0
      /\ \A i \in Ids : accounts[i] # NoAccount => accounts[i].reg # a.reg
      /\ \A f \in flights : f.tok.chain # a.reg
  BY DEF FreshSignIn, SignIn, BundleEntry, Account
<1>4. \E b \in Account : /\ b.reg = a.reg /\ b.tok = a.tok
                         /\ accounts' = [accounts EXCEPT ![id] = b]
                         /\ BumpCredential(id) /\ Save
  <2>1. CASE Add(id, a)
    BY <1>3, <2>1 DEF Add
  <2>2. CASE accounts[id] # NoAccount /\ ReplaceCredentials(id, a)
    <3> DEFINE b == WithCredentials(accounts[id], a)
    <3>1. /\ accounts' = [accounts EXCEPT ![id] = WithCredentials(@, a)]
          /\ BumpCredential(id) /\ Save
      BY <2>2 DEF ReplaceCredentials, NotFound
    <3>2. accounts' = [accounts EXCEPT ![id] = b]
      BY <3>1
    <3>3. accounts[id] \in Account
      BY <2>2 DEF IInv, Types, StoreTypeOK
    <3>4. b \in Account /\ b.reg = a.reg /\ b.tok = a.tok
      BY <1>3, <3>3, WithCredentialsTyped
    <3> HIDE DEF b
    <3> QED
      BY <3>1, <3>2, <3>4
  <2> QED
    BY <1>2, <2>1, <2>2
<1>5. PICK b \in Account : /\ b.reg = a.reg /\ b.tok = a.tok
                           /\ accounts' = [accounts EXCEPT ![id] = b]
                           /\ BumpCredential(id) /\ Save
  BY <1>4
<1>6. /\ StoreTypeOK' /\ (disk' = accounts' \/ disk' = disk)
      /\ accounts'[id] = b /\ b # NoAccount
      /\ credentials'[id] = nextCredential + 1 /\ nextCredential' = nextCredential + 1
      /\ nextCredential \in Nat
      /\ \A i \in Ids \ {id} : accounts'[i] = accounts[i] /\ credentials'[i] = credentials[i]
  BY <1>5, OneStamped DEF IInv
<1> DEFINE S == {id}
<1>7. /\ nextCredential' >= nextCredential
      /\ \A i \in S : credentials'[i] \in nextCredential + 1 .. nextCredential'
  BY <1>6
<1>8. \A i \in S : /\ accounts'[i] # NoAccount /\ accounts'[i] = b
                   /\ accounts'[i].tok.chain = accounts'[i].reg
                   /\ accounts'[i].tok.n = newest[accounts'[i].reg]
                   /\ \A f \in flights : Open(f) => f.tok.chain # accounts'[i].reg
                   /\ \A j \in Ids \ {i} : accounts'[j] # NoAccount
                                             => accounts'[j].reg # accounts'[i].reg
  BY <1>3, <1>5, <1>6
<1>9. S \in SUBSET Ids /\ broken \subseteq broken' /\ broken' \in SUBSET Regs
  BY <1>1 DEF IInv, Types, UpstreamTyped
<1>10. \A i \in Ids \ S : accounts'[i] = accounts[i] /\ credentials'[i] = credentials[i]
  BY <1>6
<1> HIDE DEF S
<1> QED
  BY <1>1, <1>6, <1>7, <1>8, <1>9, <1>10, CredentialsKeep

\* A chain of an import that is not divided is one the account has alone.
LEMMA ImportedWhole ==
    ASSUME NEW S \in SUBSET Ids, NEW i \in S, accounts'[i].reg \in Regs,
           accounts'[i].reg \notin DividedBy(S)
    PROVE  /\ accounts'[i].tok.n = newest[accounts'[i].reg]
           /\ \A f \in flights : Open(f) => f.tok.chain # accounts'[i].reg
           /\ \A j \in Ids \ {i} : accounts'[j] # NoAccount => accounts'[j].reg # accounts'[i].reg
BY DEF DividedBy

LEMMA ImportsLocalKeeps ==
    ASSUME IInv, ImportsLocal
    PROVE  IInv'
<1>1. /\ flights' = flights /\ callers' = callers /\ newest' = newest /\ behind' = behind
  BY DEF ImportsLocal
<1>2. PICK id \in Ids, a \in Importable :
        Add(id, a) /\ broken' = broken \union DividedBy({id})
  BY DEF ImportsLocal
<1>3. a \in Account /\ a.tok.chain = a.reg
  BY DEF Importable, BundleEntry
<1>4. accounts' = [accounts EXCEPT ![id] = a] /\ BumpCredential(id) /\ Save
  BY <1>2 DEF Add
<1>5. /\ StoreTypeOK' /\ (disk' = accounts' \/ disk' = disk)
      /\ accounts'[id] = a /\ a # NoAccount
      /\ credentials'[id] = nextCredential + 1 /\ nextCredential' = nextCredential + 1
      /\ nextCredential \in Nat
      /\ \A i \in Ids \ {id} : accounts'[i] = accounts[i] /\ credentials'[i] = credentials[i]
  BY <1>3, <1>4, OneStamped DEF IInv
<1> DEFINE S == {id}
<1>6. /\ nextCredential' >= nextCredential
      /\ \A i \in S : /\ accounts'[i] # NoAccount
                      /\ accounts'[i].tok.chain = accounts'[i].reg
                      /\ credentials'[i] \in nextCredential + 1 .. nextCredential'
  BY <1>3, <1>5
<1>7. S \in SUBSET Ids /\ broken' = broken \union DividedBy(S)
  BY <1>2
<1>8. \A i \in Ids \ S : accounts'[i] = accounts[i] /\ credentials'[i] = credentials[i]
  BY <1>5
<1> HIDE DEF S
<1>9. broken \subseteq broken' /\ broken' \in SUBSET Regs
  BY <1>7 DEF DividedBy, IInv, Types, UpstreamTyped
<1>10. \A i \in S : accounts'[i].reg \in Regs \ broken' =>
              /\ accounts'[i].tok.n = newest[accounts'[i].reg]
              /\ \A f \in flights : Open(f) => f.tok.chain # accounts'[i].reg
              /\ \A j \in Ids \ {i} : accounts'[j] # NoAccount => accounts'[j].reg # accounts'[i].reg
  BY <1>7, ImportedWhole
<1> QED
  BY <1>1, <1>5, <1>6, <1>7, <1>8, <1>9, <1>10, CredentialsKeep

LEMMA ImportsBundleKeeps ==
    ASSUME IInv, ImportsBundle
    PROVE  IInv'
<1>1. /\ flights' = flights /\ callers' = callers /\ newest' = newest /\ behind' = behind
  BY DEF ImportsBundle
<1>2. PICK S \in SUBSET Ids :
        /\ \E bundle \in [S -> Importable], turn \in Turns(S) : ImportAccounts(S, bundle, turn)
        /\ broken' = broken \union DividedBy(S)
  BY DEF ImportsBundle
<1>3. PICK bundle \in [S -> Importable], turn \in Turns(S) : ImportAccounts(S, bundle, turn)
  BY <1>2
<1>4. broken \subseteq broken' /\ broken' \in SUBSET Regs
  BY <1>2 DEF DividedBy, IInv, Types, UpstreamTyped
<1>5. \A i \in S : accounts'[i].reg \in Regs \ broken' =>
              /\ accounts'[i].tok.n = newest[accounts'[i].reg]
              /\ \A f \in flights : Open(f) => f.tok.chain # accounts'[i].reg
              /\ \A j \in Ids \ {i} : accounts'[j] # NoAccount => accounts'[j].reg # accounts'[i].reg
  BY <1>2, ImportedWhole
<1>6. nextCredential \in Nat /\ StoreTypeOK
  BY DEF IInv, Types, StoreTypeOK
<1>7. CASE S = {} /\ Unchanged
  <2>1. StoreTypeOK' /\ UNCHANGED <<accounts, credentials, nextCredential, disk>>
    BY <1>6, <1>7 DEF Unchanged, StoreTypeOK, stamps
  <2>2. nextCredential' >= nextCredential
    BY <1>6, <2>1
  <2> QED
    BY <1>1, <1>4, <1>7, <2>1, <2>2, CredentialsKeep
<1>8. CASE ~(S = {} /\ Unchanged)
  <2> DEFINE n == Cardinality(S)
             Stamped(f, next) == [id \in Ids |-> IF id \in S THEN next + turn[id] ELSE f[id]]
  <2>1. /\ accounts' = [id \in Ids |->
                             IF id \notin S THEN accounts[id]
                             ELSE IF accounts[id] = NoAccount THEN bundle[id]
                             ELSE WithCredentials(accounts[id], bundle[id])]
        /\ revisions' = Stamped(revisions, nextRevision)
        /\ lifecycles' = Stamped(lifecycles, nextLifecycle)
        /\ credentials' = Stamped(credentials, nextCredential)
        /\ nextRevision' = nextRevision + n
        /\ nextLifecycle' = nextLifecycle + n
        /\ nextCredential' = nextCredential + n
        /\ Save
    BY <1>3, <1>8 DEF ImportAccounts
  <2>2. n \in Nat /\ \A id \in S : turn[id] \in 1..n
    BY TurnsInRange
  <2> HIDE DEF n
  <2>3. /\ revisions' \in [Ids -> Nat] /\ lifecycles' \in [Ids -> Nat]
        /\ credentials' \in [Ids -> Nat]
        /\ nextRevision' \in Nat /\ nextLifecycle' \in Nat /\ nextCredential' \in Nat
    BY <1>6, <2>1, <2>2 DEF StoreTypeOK
  <2>4. \A id \in S : bundle[id] \in Account /\ bundle[id].tok.chain = bundle[id].reg
    BY DEF Importable, BundleEntry
  <2>5. ASSUME NEW id \in S
        PROVE  accounts'[id] \in Account /\ accounts'[id].tok.chain = accounts'[id].reg
    <3>1. CASE accounts[id] = NoAccount
      BY <2>1, <2>4, <3>1
    <3>2. CASE accounts[id] # NoAccount
      <4>1. accounts[id] \in Account /\ accounts'[id] = WithCredentials(accounts[id], bundle[id])
        BY <1>6, <2>1, <3>2 DEF StoreTypeOK
      <4> QED
        BY <2>4, <4>1, WithCredentialsTyped
    <3> QED
      BY <3>1, <3>2
  <2>6. \A i \in Ids \ S : accounts'[i] = accounts[i] /\ credentials'[i] = credentials[i]
    BY <2>1
  <2>7. accounts' \in Files
    BY <1>6, <2>1, <2>5, <2>6 DEF StoreTypeOK, Files
  <2>8. failed' \in BOOLEAN /\ (disk' = accounts' \/ disk' = disk)
    BY <2>1, SaveWrites
  <2>9. StoreTypeOK'
    BY <1>6, <2>3, <2>7, <2>8 DEF StoreTypeOK, Files
  <2>10. \A i \in S : credentials'[i] \in nextCredential + 1 .. nextCredential'
    BY <1>6, <2>1, <2>2
  <2>11. nextCredential' >= nextCredential
    BY <1>6, <2>1, <2>2
  <2>12. \A i \in S : /\ accounts'[i] # NoAccount
                      /\ accounts'[i].tok.chain = accounts'[i].reg
                      /\ credentials'[i] \in nextCredential + 1 .. nextCredential'
    BY <2>5, <2>10
  <2> HIDE DEF Stamped
  <2> QED
    BY <1>1, <1>4, <1>5, <2>6, <2>8, <2>9, <2>11, <2>12, CredentialsKeep
<1> QED
  BY <1>7, <1>8

LEMMA OthersRotateKeeps ==
    ASSUME IInv, OthersRotate
    PROVE  IInv'
<1>1. PICK r \in Regs : /\ newest[r] < Rotations
                        /\ newest' = [newest EXCEPT ![r] = @ + 1]
                        /\ broken' = broken \union {r}
  BY DEF OthersRotate
<1>2. /\ UNCHANGED storeVars
      /\ flights' = flights /\ callers' = callers /\ behind' = behind
  BY DEF OthersRotate
<1>3. broken \subseteq broken' /\ broken' \in SUBSET Regs
  BY <1>1 DEF IInv, Types, UpstreamTyped
<1>4. /\ AccountsAlike /\ StoreTypeOK' /\ Sound(accounts)' /\ Sound(disk)'
      /\ accounts' = accounts /\ credentials' = credentials /\ disk' = disk
  BY <1>2, <1>3, StoreStays DEF IInv, Types
<1>5. /\ newest' \in [Regs -> 0..Rotations]
      /\ \A q \in Regs \ broken' : q \in Whole /\ newest'[q] = newest[q]
  <2>1. newest[r] \in 0..Rotations /\ newest \in [Regs -> 0..Rotations]
    BY DEF IInv, Types, UpstreamTyped
  <2>2. newest[r] + 1 \in 0..Rotations
    BY <1>1, <2>1
  <2> QED
    BY <1>1, <2>1, <2>2 DEF Whole
<1>6. Types'
  BY <1>2, <1>3, <1>4, <1>5
  DEF IInv, Types, FlightsTyped, CallersTyped, UpstreamTyped, HasRead
<1>7. Links'
  BY <1>2, <1>3, <1>4, <1>6, CopiesStay, FlightsStay, LinksKept DEF IInv, Types, Links
<1>8. AsksWithNewest' /\ AnswerIsNewest' /\ StoredIsHeld'
  BY <1>2, <1>4, <1>5
  DEF IInv, Ledger, AsksWithNewest, AnswerIsNewest, StoredIsHeld, Current, Whole
<1>9. NoRotationDropped'
  <2> SUFFICES ASSUME NEW id \in Ids, accounts[id] # NoAccount,
                      accounts[id].tok.chain \in Regs \ broken',
                      accounts[id].tok.n # newest'[accounts[id].tok.chain]
               PROVE  \E f \in flights : /\ f.phase = "answered"
                                         /\ f.id = id
                                         /\ f.credential = credentials[id]
                                         /\ f.answer.chain = accounts[id].tok.chain
                                         /\ f.answer.n = newest'[accounts[id].tok.chain]
    BY <1>2, <1>4 DEF NoRotationDropped, Present, Whole
  <2> QED
    BY <1>5 DEF IInv, Ledger, NoRotationDropped, Present
<1>10. FileFollows'
  BY <1>2, <1>4, <1>5 DEF IInv, Ledger, FileFollows, Open, Whole
<1> QED
  BY <1>4, <1>6, <1>7, <1>8, <1>9, <1>10 DEF IInv, Ledger

LEMMA RemoveKeeps ==
    ASSUME IInv, RemoveAccount
    PROVE  IInv'
<1>1. PICK id \in Ids : Remove(id)
  BY DEF RemoveAccount
<1>2. /\ flights' = flights /\ callers' = callers /\ newest' = newest
      /\ broken' = broken /\ behind' = behind
  BY DEF RemoveAccount, refreshVars
<1>3. /\ StoreTypeOK' /\ nextCredential' = nextCredential
      /\ disk' = accounts' \/ disk' = disk
      /\ \A i \in Ids : \/ accounts'[i] = accounts[i] /\ credentials'[i] = credentials[i]
                        \/ accounts'[i] = NoAccount /\ credentials'[i] = 0
  <2>1. CASE Unchanged
    BY <1>2, <2>1, StoreStays DEF Unchanged, IInv, Types, stamps
  <2>2. CASE /\ accounts' = [accounts EXCEPT ![id] = NoAccount]
             /\ revisions' = [revisions EXCEPT ![id] = 0]
             /\ lifecycles' = [lifecycles EXCEPT ![id] = 0]
             /\ credentials' = [credentials EXCEPT ![id] = 0]
             /\ Save
             /\ UNCHANGED <<nextRevision, nextLifecycle, nextCredential>>
    <3>1. failed' \in BOOLEAN /\ (disk' = accounts' \/ disk' = disk)
      BY <2>2, SaveWrites
    <3>2. StoreTypeOK'
      BY <2>2, <3>1 DEF IInv, Types, StoreTypeOK
    <3> QED
      BY <2>2, <3>1, <3>2 DEF IInv, Types, StoreTypeOK
  <2> QED
    BY <1>1, <2>1, <2>2 DEF Remove
<1>4. Sound(accounts)' /\ Sound(disk)'
  <2>1. Sound(accounts)'
    BY <1>2, <1>3 DEF IInv, Sound, Whole
  <2> QED
    BY <1>2, <1>3, <2>1, SoundSaved DEF IInv
<1>5. \A f \in flights : f.id \in Ids /\ (Current(f)' => Current(f) /\ accounts'[f.id] = accounts[f.id])
  <2>1. \A f \in flights : f.id \in Ids
    BY DEF IInv, Types, FlightsTyped, Flight
  <2> QED
    BY <1>3, <2>1 DEF Current
<1>6. StampsIssued'
  BY <1>2, <1>3 DEF IInv, Links, StampsIssued, Issued
<1>7. OnePerKey' /\ OnePerChain'
  BY <1>2 DEF IInv, Links, OnePerKey, OnePerChain, Open, Whole
<1>8. StampPinsChain'
  <2>1. \A f \in flights : HasRead(f) /\ Current(f)' => accounts'[f.id].reg = f.tok.chain
    BY <1>5 DEF IInv, Links, StampPinsChain
  <2>2. ASSUME NEW c \in Callers, callers[c].phase # "idle"
        PROVE  LET copy == callers[c].copy IN
               /\ accounts'[copy.id] # NoAccount /\ credentials'[copy.id] = copy.credential
                    => accounts'[copy.id].reg = copy.tok.chain
               /\ \A f \in flights :
                    HasRead(f) /\ f.id = copy.id /\ f.credential = copy.credential
                      => f.tok.chain = copy.tok.chain
    <3>1. callers[c].copy.id \in Ids
      BY <2>2, CallerHasCopy DEF IInv, Types
    <3> QED
      BY <1>3, <2>2, <3>1 DEF IInv, Links, StampPinsChain, Current
  <2> QED
    BY <1>2, <2>1, <2>2 DEF StampPinsChain, Current, HasRead
<1>9. ChainPinsStamp'
  BY <1>2, <1>3 DEF IInv, Links, ChainPinsStamp, Open, Whole
<1>10. Types'
  BY <1>2, <1>3 DEF IInv, Types, FlightsTyped, CallersTyped, UpstreamTyped, HasRead
<1>11. Ledger'
  <2>1. accounts' \in Files
    BY <1>3 DEF StoreTypeOK, Files
  <2>2. \A i \in Ids : accounts'[i] # NoAccount =>
                          /\ accounts[i] # NoAccount
                          /\ accounts'[i].tok = accounts[i].tok
                          /\ credentials'[i] = credentials[i]
    BY <1>3
  <2> QED
    BY <1>2, <1>3, <1>5, <2>1, <2>2, LedgerUnder DEF IInv, Types
<1> QED
  BY <1>4, <1>6, <1>7, <1>8, <1>9, <1>10, <1>11 DEF IInv, Links

-----------------------------------------------------------------------------
(* Start and crash *)

LEMMA InitHolds ==
    ASSUME Init
    PROVE  IInv
<1>1. Types
  <2>1. StoreTypeOK
    BY DEF Init, StoreInit, StoreTypeOK
  <2>2. UpstreamTyped
    BY DEF Init, UpstreamTyped
  <2>3. FlightsTyped /\ CallersTyped
    BY DEF Init, FlightsTyped, CallersTyped, Caller, Idle
  <2> QED
    BY <2>1, <2>2, <2>3 DEF Types
<1>2. Sound(accounts) /\ Sound(disk)
  BY DEF Init, StoreInit, Sound
<1>3. Links
  BY DEF Init, StoreInit, Links, StampsIssued, OnePerKey, StampPinsChain, ChainPinsStamp,
         OnePerChain, Idle
<1>4. Ledger
  BY DEF Init, StoreInit, Ledger, AsksWithNewest, AnswerIsNewest, StoredIsHeld,
         NoRotationDropped, FileFollows, Present
<1> QED
  BY <1>1, <1>2, <1>3, <1>4 DEF IInv

LEMMA CrashKeeps ==
    ASSUME IInv, Crash
    PROVE  IInv'
<1> DEFINE S == {id \in Ids : disk[id] # NoAccount}
           n == Cardinality(S)
<1>1. /\ accounts' = disk /\ disk' = disk /\ failed' = FALSE
      /\ flights' = {} /\ callers' = [c \in Callers |-> Idle]
      /\ newest' = newest /\ behind' = {}
      /\ broken' = broken \union behind \union {f.tok.chain : f \in {g \in flights : g.phase \in {"asked", "answered"}}}
  BY DEF Crash, Restart
<1>2. PICK turn \in Turns(S) :
        LET Stamped == [id \in Ids |-> IF id \in S THEN turn[id] ELSE 0] IN
        /\ revisions' = Stamped /\ lifecycles' = Stamped /\ credentials' = Stamped
        /\ nextRevision' = n /\ nextLifecycle' = n /\ nextCredential' = n
  BY DEF Crash, Restart
<1>3. n \in Nat /\ \A id \in S : turn[id] \in 1..n
  BY TurnsInRange
<1> HIDE DEF n
<1>4. /\ credentials' \in [Ids -> Nat] /\ revisions' \in [Ids -> Nat]
      /\ lifecycles' \in [Ids -> Nat]
      /\ \A id \in Ids : IF disk[id] = NoAccount THEN credentials'[id] = 0
                                                 ELSE credentials'[id] \in 1..n
  BY <1>2, <1>3
<1>5. StoreTypeOK'
  BY <1>1, <1>2, <1>3, <1>4 DEF IInv, Types, StoreTypeOK
<1>6. /\ broken' \in SUBSET Regs
      /\ broken \subseteq broken' /\ behind \subseteq broken'
      /\ \A f \in flights : Open(f) => f.tok.chain \in broken'
  <2>1. \A f \in flights : Open(f) => f.tok.chain \in Regs
    BY DEF IInv, Types, FlightsTyped, Open, HasRead
  <2> QED
    BY <1>1, <2>1 DEF IInv, Types, UpstreamTyped, Open
<1>7. Types'
  BY <1>1, <1>5, <1>6 DEF IInv, Types, FlightsTyped, CallersTyped, Caller, Idle, UpstreamTyped
<1>8. Sound(accounts)' /\ Sound(disk)'
  BY <1>1, <1>6 DEF IInv, Sound, Whole
<1>9. Links'
  <2>1. \A c \in Callers : callers'[c].phase = "idle"
    BY <1>1 DEF Idle
  <2>2. StampsIssued'
    BY <1>1, <1>2, <1>4, <2>1 DEF StampsIssued, Issued
  <2>3. OnePerKey' /\ ChainPinsStamp' /\ OnePerChain'
    BY <1>1 DEF OnePerKey, ChainPinsStamp, OnePerChain
  <2>4. StampPinsChain'
    BY <1>1, <2>1 DEF StampPinsChain
  <2> QED
    BY <2>2, <2>3, <2>4 DEF Links
<1>10. Ledger'
  <2>1. AsksWithNewest' /\ AnswerIsNewest' /\ StoredIsHeld'
    BY <1>1 DEF AsksWithNewest, AnswerIsNewest, StoredIsHeld
  <2>2. ASSUME NEW id \in Ids, disk[id] # NoAccount, disk[id].tok.chain \in Regs \ broken'
        PROVE  disk[id].tok.n = newest[disk[id].tok.chain]
    BY <1>6, <2>2 DEF IInv, Ledger, FileFollows, Whole
  <2>3. NoRotationDropped' /\ FileFollows'
    BY <1>1, <2>2 DEF NoRotationDropped, FileFollows, Present, Whole
  <2> QED
    BY <2>1, <2>3 DEF Ledger
<1> QED
  BY <1>7, <1>8, <1>9, <1>10 DEF IInv

-----------------------------------------------------------------------------
(* The theorems *)

LEMMA NextKeeps ==
    ASSUME IInv, [Next]_vars
    PROVE  IInv'
<1>1. ASSUME NEW c \in Callers, Take(c) PROVE IInv'
  BY <1>1, TakeKeeps
<1>2. ASSUME NEW c \in Callers, Join(c) PROVE IInv'
  BY <1>2, JoinKeeps
<1>3. ASSUME NEW c \in Callers, Leave(c) PROVE IInv'
  BY <1>3, LeaveKeeps
<1>4. ASSUME NEW f \in flights, Begin(f) PROVE IInv'
  BY <1>4, BeginKeeps
<1>5. ASSUME NEW f \in flights, Answer(f) PROVE IInv'
  BY <1>5, AnswerKeeps
<1>6. ASSUME NEW f \in flights, TimeOut(f) PROVE IInv'
  BY <1>6, TimeOutKeeps
<1>7. ASSUME NEW f \in flights, Store(f) PROVE IInv'
  BY <1>7, StoreKeeps
<1>8. ASSUME NEW f \in flights, Deliver(f) PROVE IInv'
  BY <1>8, DeliverKeeps
<1>9. CASE SignsIn
  BY <1>9, SignsInKeeps
<1>10. CASE SwitchPolicy
  BY <1>10, SwitchKeeps
<1>11. CASE RemoveAccount
  BY <1>11, RemoveKeeps
<1>12. CASE Crash
  BY <1>12, CrashKeeps
<1>13. CASE ImportsBundle
  BY <1>13, ImportsBundleKeeps
<1>14. CASE ImportsLocal
  BY <1>14, ImportsLocalKeeps
<1>15. CASE OthersRotate
  BY <1>15, OthersRotateKeeps
<1>16. CASE UNCHANGED vars
  <2>1. UNCHANGED storeVars /\ UNCHANGED refreshVars
    BY <1>16 DEF vars
  <2>2. /\ AccountsAlike /\ StoreTypeOK' /\ Sound(accounts)' /\ Sound(disk)'
        /\ accounts' = accounts /\ credentials' = credentials /\ disk' = disk
    BY <2>1, StoreStays DEF IInv, Types, refreshVars
  <2>3. Types'
    BY <2>1, <2>2 DEF IInv, Types, FlightsTyped, CallersTyped, UpstreamTyped, HasRead, refreshVars
  <2>4. CopiesKept /\ FlightsAlike
    BY <2>1, CopiesStay, FlightsStay DEF IInv, Links, refreshVars
  <2>5. Links'
    BY <2>1, <2>2, <2>3, <2>4, LinksKept DEF IInv, Types, refreshVars
  <2>6. Ledger'
    BY <2>1, <2>2, LedgerStays DEF IInv, refreshVars
  <2> QED
    BY <2>2, <2>3, <2>5, <2>6 DEF IInv
<1> QED
  BY <1>1, <1>2, <1>3, <1>4, <1>5, <1>6, <1>7, <1>8, <1>9, <1>10, <1>11, <1>12, <1>13,
     <1>14, <1>15, <1>16 DEF Next

\* The invariant holds whatever callers, upstream, the admin and crashes do.
THEOREM Invariance == Spec => []IInv
<1>1. Init => IInv
  BY InitHolds
<1>2. IInv /\ [Next]_vars => IInv'
  BY NextKeeps
<1> QED
  BY <1>1, <1>2, PTL DEF Spec

\* The variables of a refresh hold what the Go types hold.
THEOREM TypeSafety == Spec => []TypeOK
<1>1. IInv => TypeOK
  BY DEF IInv, Types, FlightsTyped, CallersTyped, UpstreamTyped, HasRead, TypeOK
<1> QED
  BY <1>1, Invariance, PTL

\* No refresh of a chain that is whole asks with a token upstream has
\* replaced, whatever is signed in, imported or removed under the flights.
THEOREM NewestSafety == Spec => []AsksWithNewest
<1>1. IInv => AsksWithNewest
  BY DEF IInv, Ledger
<1> QED
  BY <1>1, Invariance, PTL

\* No rotation of a chain that is whole is dropped while its account is
\* there to take it.
THEOREM RotationSafety == Spec => []NoRotationDropped
<1>1. IInv => NoRotationDropped
  BY DEF IInv, Ledger
<1> QED
  BY <1>1, Invariance, PTL

\* Whoever goes on with another token was served by a flight.
LEMMA OnlyDeliverServes ==
    ASSUME IInv, [Next]_vars, \A f \in flights : ~Deliver(f),
           NEW c \in Callers, callers[c].phase = "waiting", callers'[c].phase = "holding"
    PROVE  callers'[c].copy = callers[c].copy
<1>1. CASE \E d \in Callers : Take(d) \/ Join(d) \/ Leave(d)
  <2>1. PICK d \in Callers : Take(d) \/ Join(d) \/ Leave(d)
    BY <1>1
  <2>2. CASE d # c
    BY <2>1, <2>2 DEF Take, Join, Leave, IInv, Types, CallersTyped
  <2>3. CASE d = c
    BY <2>1, <2>3 DEF Take, Join, Leave, Idle, IInv, Types, CallersTyped
  <2> QED
    BY <2>2, <2>3
<1>2. ASSUME NEW f \in flights, Failed(f) PROVE callers'[c].copy = callers[c].copy
  <2>1. callers[c] \in Caller
    BY DEF IInv, Types, CallersTyped
  <2>2. callers'[c] = callers[c] \/ callers'[c] = [callers[c] EXCEPT !.phase = "holding"]
    BY <1>2 DEF Failed
  <2> QED
    BY <2>1, <2>2, PhaseChange
<1>3. CASE callers' = callers
  BY <1>3
<1>4. CASE \E f \in flights : Begin(f) \/ Answer(f) \/ TimeOut(f) \/ Store(f)
  BY <1>2, <1>3, <1>4 DEF Begin, Advances, Answer, TimeOut, Store
<1>5. CASE \/ SignsIn \/ ImportsBundle \/ ImportsLocal \/ OthersRotate
           \/ SwitchPolicy \/ RemoveAccount \/ UNCHANGED vars
  BY <1>3, <1>5
  DEF SignsIn, ImportsBundle, ImportsLocal, OthersRotate, SwitchPolicy, RemoveAccount,
      vars, refreshVars
<1>6. CASE Crash
  BY <1>6 DEF Crash, Idle
<1> QED
  BY <1>1, <1>4, <1>5, <1>6 DEF Next

LEMMA DeliverServes ==
    ASSUME IInv, NEW f \in flights, Deliver(f), NEW c \in Callers,
           callers'[c] # callers[c]
    PROVE  /\ callers'[c].copy.tok.chain = callers[c].copy.tok.chain
           /\ credentials'[callers[c].copy.id] = callers[c].copy.credential
                => accounts'[callers[c].copy.id].tok = callers'[c].copy.tok
<1>1. /\ f.phase = "stored" /\ Succeeded(f)
      /\ accounts' = accounts /\ credentials' = credentials
  BY DEF Deliver, storeVars, stamps
<1>2. /\ c \in Waiters(f) /\ callers'[c].copy.tok = f.answer
      /\ callers'[c].phase = "holding" /\ CopiesKept
  BY <1>1, CallersSucceed DEF IInv, Types, Links
<1>3. /\ f.id = callers[c].copy.id /\ f.credential = callers[c].copy.credential
      /\ f.id \in Ids /\ Issued(f.credential)
  BY <1>2, WaiterWants DEF IInv, Types, FlightsTyped, Flight, Links, StampsIssued
<1>4. credentials[f.id] = f.credential => Current(f)
  BY <1>3 DEF Current, IInv, Links, StampsIssued, Issued
<1> QED
  BY <1>1, <1>2, <1>3, <1>4 DEF CopiesKept, IInv, Ledger, StoredIsHeld

\* Whoever waited for a refresh goes on with the token the store holds.
THEOREM ServingSafety == Spec => ServedIsStored
<1> DEFINE Served ==
      \A c \in Callers :
         LET copy == callers[c].copy
             tok  == callers'[c].copy.tok IN
         /\ callers[c].phase = "waiting" /\ callers'[c].phase = "holding"
         /\ tok # copy.tok
         => /\ tok.chain = copy.tok.chain
            /\ credentials'[copy.id] = copy.credential
                 => accounts'[copy.id].tok = tok
<1>1. ASSUME IInv, [Next]_vars PROVE Served
  <2>1. CASE \E f \in flights : Deliver(f)
    BY <1>1, <2>1, DeliverServes
  <2>2. CASE \A f \in flights : ~Deliver(f)
    BY <1>1, <2>2, OnlyDeliverServes
  <2> QED
    BY <2>1, <2>2
<1> HIDE DEF Served
<1>2. IInv /\ [Next]_vars => [Served]_vars
  BY <1>1
<1>3. Spec => [][Served]_vars
  BY <1>2, Invariance, PTL DEF Spec
<1> QED
  BY <1>3 DEF ServedIsStored, Served
=============================================================================
