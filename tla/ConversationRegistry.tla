------------------------ MODULE ConversationRegistry ------------------------
(***************************************************************************)
(* The process-local registry that binds a Claude Code session to one Kiro *)
(* conversation id (conversation_registry.go), together with the requests  *)
(* that use it (handleMessages in server.go).  Every operation of the      *)
(* registry runs under its mutex and reads the clock there, so each is one *)
(* action; between the two acquisitions of one request (at entry, and      *)
(* after the body was parsed and the images fetched) anything may happen.  *)
(***************************************************************************)
EXTENDS Naturals, FiniteSets

CONSTANTS
    Sessions,    \* digests of the session header
    Requests,    \* handler goroutines, reused once a request has ended
    Convs,       \* conversation ids newID can return
    MaxEntries,  \* r.maxEntries
    TTL,         \* r.ttl in clock ticks
    NoEntry, NoSession, NoConv

ASSUME RequestsFinite == IsFiniteSet(Requests)
ASSUME SessionsFinite == IsFiniteSet(Sessions)
ASSUME LimitsAreNat == MaxEntries \in Nat \ {0} /\ TTL \in Nat \ {0}

(***************************************************************************)
(* idle is now - lastActivity, cut off at TTL: the code only ever asks     *)
(* whether the difference has reached the ttl.                             *)
(***************************************************************************)
Entry == [conv : Convs, idle : 0..TTL, inFlight : Nat]

ASSUME NullsAreNotValues ==
    /\ NoEntry \notin Entry
    /\ NoSession \notin Sessions
    /\ NoConv \notin Convs

VARIABLES
    entries,   \* the map, NoEntry where the key is missing
    requests,  \* per request: where its handler is, and the pin it holds
    quiet      \* history: ticks since a request of the session took or left
               \* its pin, read by the properties only

registryVars == <<entries, requests, quiet>>

Idle == [phase |-> "idle", session |-> NoSession, conv |-> NoConv]

Request == [phase : {"idle", "parsing", "holding"},
            session : Sessions \union {NoSession},
            conv : Convs \union {NoConv}]

RegistryInit ==
    /\ entries = [s \in Sessions |-> NoEntry]
    /\ requests = [r \in Requests |-> Idle]
    /\ quiet = [s \in Sessions |-> TTL]

-----------------------------------------------------------------------------

Live == {s \in Sessions : entries[s] # NoEntry}

Holders(s) == {r \in Requests :
                 requests[r].phase = "holding" /\ requests[r].session = s}

CollectableThoughPinned(s) ==   \* mutant: inFlight is not consulted
    entries[s] # NoEntry /\ entries[s].idle >= TTL

\* Nobody is on it and its inactivity has reached the ttl.
Collectable(s) ==
    /\ entries[s] # NoEntry
    /\ entries[s].inFlight = 0
    /\ entries[s].idle >= TTL

SweptWhenFull ==   \* mutant: only a full map is swept
    [s \in Sessions |->
       IF Collectable(s) /\ Cardinality(Live) >= MaxEntries THEN NoEntry ELSE entries[s]]

\* sweepLocked
Swept == [s \in Sessions |-> IF Collectable(s) THEN NoEntry ELSE entries[s]]

\* A new UUID is not the id of any entry nor of any request under way.
Fresh(c) ==
    /\ \A s \in Live : entries[s].conv # c
    /\ \A r \in Requests : requests[r].conv # c

PinUncounted(r, s) ==   \* mutant: inFlight is not incremented
    /\ entries[s] # NoEntry
    /\ ~Collectable(s)
    /\ entries' = [entries EXCEPT ![s].idle = 0]
    /\ requests' = [requests EXCEPT ![r] =
                      [phase |-> "holding", session |-> s, conv |-> entries[s].conv]]
    /\ quiet' = [quiet EXCEPT ![s] = 0]

\* acquireExistingLocked on a live entry: touch it and pin it.
PinExisting(r, s) ==
    /\ entries[s] # NoEntry
    /\ ~Collectable(s)
    /\ entries' = [entries EXCEPT ![s].idle = 0, ![s].inFlight = @ + 1]
    /\ requests' = [requests EXCEPT ![r] =
                      [phase |-> "holding", session |-> s, conv |-> entries[s].conv]]
    /\ quiet' = [quiet EXCEPT ![s] = 0]

\* AcquireExisting at request entry: pin a live entry, drop an expired one.
Enter(r, s) ==
    /\ requests[r].phase = "idle"
    /\ \/ PinExisting(r, s)
       \/ /\ entries[s] = NoEntry \/ Collectable(s)
          /\ entries' = [entries EXCEPT ![s] = NoEntry]
          /\ requests' = [requests EXCEPT ![r] =
                            [phase |-> "parsing", session |-> s, conv |-> NoConv]]
          /\ UNCHANGED quiet

Size(es) == Cardinality({s \in Sessions : es[s] # NoEntry})

Full(es) == Size(es) >= MaxEntries

MadeRoomUnswept(s) == [entries EXCEPT ![s] = NoEntry]   \* mutant: no sweep

(***************************************************************************)
(* What Acquire has left of the map when s has no live entry: an expired   *)
(* one is dropped, and a map that is still full is swept.                  *)
(***************************************************************************)
MadeRoom(s) ==
    LET without == [entries EXCEPT ![s] = NoEntry] IN
    IF Full(without) THEN Swept ELSE without

\* Acquire, once the request is parsed: the live entry, or a new one.
Acquire(r) ==
    LET s == requests[r].session IN
    /\ requests[r].phase = "parsing"
    /\ \/ PinExisting(r, s)
       \/ /\ entries[s] = NoEntry \/ Collectable(s)
          /\ ~Full(MadeRoom(s))
          /\ \E c \in Convs :
               /\ Fresh(c)
               /\ entries' = [MadeRoom(s) EXCEPT
                                ![s] = [conv |-> c, idle |-> 0, inFlight |-> 1]]
               /\ requests' = [requests EXCEPT ![r] =
                                 [phase |-> "holding", session |-> s, conv |-> c]]
          /\ quiet' = [quiet EXCEPT ![s] = 0]

\* Acquire returning errConversationRegistryFull: the handler answers 503.
Refuse(r) ==
    LET s == requests[r].session IN
    /\ requests[r].phase = "parsing"
    /\ entries[s] = NoEntry \/ Collectable(s)
    /\ Full(MadeRoom(s))
    /\ entries' = MadeRoom(s)
    /\ requests' = [requests EXCEPT ![r] = Idle]
    /\ UNCHANGED quiet

\* A malformed or cancelled request leaves before it has acquired anything.
Abandon(r) ==
    /\ requests[r].phase = "parsing"
    /\ requests' = [requests EXCEPT ![r] = Idle]
    /\ UNCHANGED <<entries, quiet>>

ReleaseUntouched(r) ==   \* mutant: lastActivity is not renewed
    LET s == requests[r].session IN
    /\ requests[r].phase = "holding"
    /\ entries' = [entries EXCEPT ![s].inFlight = @ - 1]
    /\ requests' = [requests EXCEPT ![r] = Idle]
    /\ quiet' = [quiet EXCEPT ![s] = 0]

\* The handler returns, for whatever reason: its deferred release runs.
Release(r) ==
    LET s == requests[r].session IN
    /\ requests[r].phase = "holding"
    /\ IF entries[s] # NoEntry /\ entries[s].conv = requests[r].conv
         THEN entries' = [entries EXCEPT
                 ![s].inFlight = IF @ > 0 THEN @ - 1 ELSE @, ![s].idle = 0]
         ELSE UNCHANGED entries
    /\ requests' = [requests EXCEPT ![r] = Idle]
    /\ quiet' = [quiet EXCEPT ![s] = 0]

\* Sweep, from the ticker of Run.
Sweep ==
    /\ entries' = Swept
    /\ UNCHANGED <<requests, quiet>>

\* The clock: one tick passes for every entry.
Tick ==
    /\ entries' = [s \in Sessions |->
                     IF entries[s] = NoEntry THEN NoEntry
                     ELSE [entries[s] EXCEPT !.idle = IF @ < TTL THEN @ + 1 ELSE @]]
    /\ quiet' = [s \in Sessions |-> IF quiet[s] < TTL THEN quiet[s] + 1 ELSE TTL]
    /\ UNCHANGED requests

RegistryNext ==
    \/ \E r \in Requests, s \in Sessions : Enter(r, s)
    \/ \E r \in Requests : Acquire(r)
    \/ \E r \in Requests : Refuse(r)
    \/ \E r \in Requests : Abandon(r)
    \/ \E r \in Requests : Release(r)
    \/ Sweep
    \/ Tick

RegistrySpec == RegistryInit /\ [][RegistryNext]_registryVars

(***************************************************************************)
(* Run's ticker keeps firing until shutdown, time passes, and a handler    *)
(* returns (the server bounds nothing here, but every body read, send and  *)
(* stream is tied to the client's connection).  New requests are not fair. *)
(***************************************************************************)
RegistryFairness ==
    /\ WF_registryVars(Sweep)
    /\ WF_registryVars(Tick)
    /\ \A r \in Requests : WF_registryVars(Release(r)) /\ WF_registryVars(Abandon(r))

RegistryFairSpec == RegistrySpec /\ RegistryFairness

-----------------------------------------------------------------------------

\* The variables hold what the Go types hold.
RegistryTypeOK ==
    /\ entries \in [Sessions -> Entry \union {NoEntry}]
    /\ requests \in [Requests -> Request]
    /\ quiet \in [Sessions -> 0..TTL]

(***************************************************************************)
(* While a request holds a session, that session's entry is still there    *)
(* and still carries the conversation id the request was given: neither a  *)
(* sweep, an expiry nor another request's Acquire can rebind it, so every  *)
(* request of a session that overlaps another speaks in one conversation.  *)
(***************************************************************************)
PinnedConversation ==
    \A r \in Requests : requests[r].phase = "holding" =>
        LET s == requests[r].session IN
        /\ s \in Sessions
        /\ entries[s] # NoEntry
        /\ entries[s].conv = requests[r].conv

(***************************************************************************)
(* inFlight is exactly the number of requests whose release has not run:   *)
(* an entry is neither leaked by a lost decrement nor freed by an extra.   *)
(***************************************************************************)
InFlightExact ==
    \A s \in Sessions : entries[s] # NoEntry =>
        entries[s].inFlight = Cardinality(Holders(s))

\* The registry never outgrows maxEntries.
WithinCapacity == Cardinality(Live) <= MaxEntries

(***************************************************************************)
(* A session loses or changes its conversation only after a full ttl in    *)
(* which no request of it took or left its pin, and with none under way:   *)
(* a request longer than the ttl does not cost its session the             *)
(* conversation the moment it ends.                                        *)
(***************************************************************************)
RebindsOnlyWhenIdle ==
    [][\A s \in Live :
         (entries'[s] = NoEntry \/ entries'[s].conv # entries[s].conv)
           => quiet[s] >= TTL /\ Holders(s) = {}]_registryVars

(***************************************************************************)
(* Once requests stop, every entry is eventually swept: no session keeps   *)
(* its place in the registry for ever.                                     *)
(***************************************************************************)
QuietRegistryDrains ==
    <>[](\A r \in Requests : requests[r].phase = "idle") => <>[](Live = {})

(***************************************************************************)
(* A request is refused for want of room only when every place is held by  *)
(* a session with a request under way or active within the last ttl.       *)
(***************************************************************************)
RefusedOnlyWhenFull ==
    [][(\E r \in Requests : Refuse(r)) =>
         Cardinality({s \in Live : ~Collectable(s)}) >= MaxEntries]_registryVars
=============================================================================
