---------------------------- MODULE RequestProofs -----------------------------
(***************************************************************************)
(* Safety of what a request goes through before it is answered: the        *)
(* conversation its session is bound to (ConversationRegistry), the choice *)
(* of an account (PickFor), and the dispatch across accounts (Dispatch).   *)
(* Three independent parts, each for any values of its module's constants. *)
(***************************************************************************)
EXTENDS ConversationRegistry, PickFor, Dispatch, FiniteSetTheorems,
        SequenceTheorems, WellFoundedInduction, TLAPS

-----------------------------------------------------------------------------
(* The conversation registry: for any sets of sessions, requests and       *)
(* conversation ids, any capacity and any ttl.                             *)

\* A handler past its entry knows the session of its request.
HandlerKnowsSession ==
    \A r \in Requests : requests[r].phase # "idle" => requests[r].session \in Sessions

\* An entry's lastActivity is the last time a request took or left its pin.
IdleMatchesQuiet == \A s \in Live : entries[s].idle = quiet[s]

(***************************************************************************)
(* The inductive invariant.  A pin survives because inFlight counts it     *)
(* exactly; the count is exact because a release finds the entry it was    *)
(* taken on; and that entry is there because a pin survives.  None of the  *)
(* three is inductive alone.                                               *)
(***************************************************************************)
RegistryInv ==
    /\ RegistryTypeOK
    /\ HandlerKnowsSession
    /\ PinnedConversation
    /\ InFlightExact
    /\ IdleMatchesQuiet

-----------------------------------------------------------------------------

LEMMA HoldersFinite ==
    ASSUME NEW s
    PROVE  IsFiniteSet(Holders(s)) /\ Cardinality(Holders(s)) \in Nat
<1>1. Holders(s) \in SUBSET Requests
  BY DEF Holders
<1>2. IsFiniteSet(Holders(s))
  BY <1>1, RequestsFinite, FS_Subset
<1> QED
  BY <1>2, FS_CardinalityType

\* A request that holds nothing takes a pin on s.
LEMMA TakePin ==
    ASSUME requests \in [Requests -> Request],
           NEW r \in Requests, NEW s \in Sessions, NEW c,
           requests[r].phase # "holding",
           requests' = [requests EXCEPT ![r] =
                          [phase |-> "holding", session |-> s, conv |-> c]]
    PROVE  /\ Cardinality(Holders(s))' = Cardinality(Holders(s)) + 1
           /\ \A t \in Sessions \ {s} : Holders(t)' = Holders(t)
<1>1. Holders(s)' = Holders(s) \union {r} /\ r \notin Holders(s)
  BY DEF Holders
<1>2. Cardinality(Holders(s) \union {r}) = Cardinality(Holders(s)) + 1
  <2> DEFINE H == Holders(s)
  <2>1. IsFiniteSet(H) /\ r \notin H
    BY <1>1, HoldersFinite
  <2> HIDE DEF H
  <2>2. Cardinality(H \union {r}) = Cardinality(H) + 1
    BY ONLY <2>1, FS_AddElement
  <2> QED
    BY <2>2 DEF H
<1>3. ASSUME NEW t \in Sessions \ {s} PROVE Holders(t)' = Holders(t)
  BY DEF Holders
<1> QED
  BY <1>1, <1>2, <1>3

\* A request lets go of the pin it holds.
LEMMA LeavePin ==
    ASSUME requests \in [Requests -> Request],
           NEW r \in Requests, NEW s \in Sessions,
           requests[r].phase = "holding", requests[r].session = s,
           requests' = [requests EXCEPT ![r] = Idle]
    PROVE  /\ Cardinality(Holders(s)) \in Nat \ {0}
           /\ Cardinality(Holders(s))' = Cardinality(Holders(s)) - 1
           /\ \A t \in Sessions \ {s} : Holders(t)' = Holders(t)
<1>1. Holders(s)' = Holders(s) \ {r} /\ r \in Holders(s)
  BY DEF Holders, Idle
<1>2. Cardinality(Holders(s) \ {r}) = Cardinality(Holders(s)) - 1
  <2> DEFINE H == Holders(s)
  <2>1. IsFiniteSet(H) /\ r \in H
    BY <1>1, HoldersFinite
  <2> HIDE DEF H
  <2>2. Cardinality(H \ {r}) = Cardinality(H) - 1
    BY ONLY <2>1, FS_RemoveElement
  <2> QED
    BY <2>2 DEF H
<1>3. Cardinality(Holders(s)) # 0
  BY <1>1, HoldersFinite, FS_EmptySet
<1>4. ASSUME NEW t \in Sessions \ {s} PROVE Holders(t)' = Holders(t)
  BY DEF Holders, Idle
<1> QED
  BY <1>1, <1>2, <1>3, <1>4, HoldersFinite

\* A request that holds nothing changes without taking a pin.
LEMMA NoPin ==
    ASSUME requests \in [Requests -> Request],
           NEW r \in Requests, NEW q,
           requests[r].phase # "holding", q.phase # "holding",
           requests' = [requests EXCEPT ![r] = q]
    PROVE  \A t : Holders(t)' = Holders(t)
BY DEF Holders

\* An entry nobody is counted on has no holder, and a holder keeps its entry
\* from being collected.
LEMMA CollectableUnheld ==
    ASSUME RegistryInv, NEW s \in Sessions, Collectable(s) \/ entries[s] = NoEntry
    PROVE  Holders(s) = {}
<1>1. CASE entries[s] = NoEntry
  BY <1>1 DEF Holders, RegistryInv, PinnedConversation
<1>2. CASE Collectable(s)
  <2>1. Cardinality(Holders(s)) = 0
    BY <1>2 DEF Collectable, RegistryInv, InFlightExact
  <2> QED
    BY <2>1, HoldersFinite, FS_EmptySet
<1> QED
  BY <1>1, <1>2

LEMMA EntryFields ==
    ASSUME RegistryTypeOK, NEW s \in Sessions, entries[s] # NoEntry
    PROVE  entries[s] \in Entry
BY DEF RegistryTypeOK

-----------------------------------------------------------------------------

LEMMA RegistryInitInv == RegistryInit => RegistryInv
<1> SUFFICES ASSUME RegistryInit PROVE RegistryInv
  OBVIOUS
<1>1. RegistryTypeOK
  BY LimitsAreNat DEF RegistryInit, RegistryTypeOK, Idle, Request
<1>2. \A r \in Requests : requests[r].phase = "idle"
  BY DEF RegistryInit, Idle
<1>3. Live = {}
  BY DEF RegistryInit, Live
<1> QED
  BY <1>1, <1>2, <1>3
  DEF RegistryInv, HandlerKnowsSession, PinnedConversation, InFlightExact, IdleMatchesQuiet, RegistryInit, Live

\* A pin on a live entry, at request entry or in Acquire.
LEMMA PinExistingKeepsInv ==
    ASSUME RegistryInv, NEW r \in Requests, NEW s \in Sessions,
           requests[r].phase # "holding", PinExisting(r, s)
    PROVE  RegistryInv'
<1> DEFINE e == entries[s]
           pin == [phase |-> "holding", session |-> s, conv |-> e.conv]
<1>1. /\ RegistryTypeOK /\ e # NoEntry /\ e \in Entry
      /\ entries' = [entries EXCEPT ![s].idle = 0, ![s].inFlight = @ + 1]
      /\ requests' = [requests EXCEPT ![r] = pin]
      /\ quiet' = [quiet EXCEPT ![s] = 0]
  BY EntryFields DEF RegistryInv, PinExisting
<1>2. /\ entries'[s] = [conv |-> e.conv, idle |-> 0, inFlight |-> e.inFlight + 1]
      /\ entries'[s] \in Entry
      /\ \A t \in Sessions \ {s} : entries'[t] = entries[t]
  BY <1>1, LimitsAreNat DEF RegistryTypeOK, Entry
<1>3. /\ requests'[r] = pin /\ pin \in Request
      /\ \A q \in Requests \ {r} : requests'[q] = requests[q]
  BY <1>1 DEF RegistryTypeOK, Request, Entry
<1>4. RegistryTypeOK'
  BY <1>1, <1>2, <1>3, LimitsAreNat DEF RegistryTypeOK
<1>5. HandlerKnowsSession'
  BY <1>3 DEF RegistryInv, HandlerKnowsSession
<1>6. entries'[s] # NoEntry
  BY <1>2, NullsAreNotValues
<1>7. PinnedConversation'
  <2> SUFFICES ASSUME NEW q \in Requests, requests'[q].phase = "holding"
               PROVE  /\ requests'[q].session \in Sessions
                      /\ entries'[requests'[q].session] # NoEntry
                      /\ entries'[requests'[q].session].conv = requests'[q].conv
    BY DEF PinnedConversation
  <2>1. CASE q = r
    BY <2>1, <1>2, <1>3, <1>6
  <2>2. CASE q # r
    BY <2>2, <1>2, <1>3, <1>6 DEF RegistryInv, PinnedConversation
  <2> QED
    BY <2>1, <2>2
<1>8. InFlightExact'
  <2>1. /\ Cardinality(Holders(s))' = Cardinality(Holders(s)) + 1
        /\ \A t \in Sessions \ {s} : Holders(t)' = Holders(t)
    BY <1>1, TakePin DEF RegistryTypeOK
  <2>2. e.inFlight = Cardinality(Holders(s))
    BY <1>1 DEF RegistryInv, InFlightExact
  <2>3. entries'[s].inFlight = Cardinality(Holders(s))'
    BY <2>1, <2>2, <1>2
  <2>4. ASSUME NEW t \in Sessions \ {s}, entries'[t] # NoEntry
        PROVE  entries'[t].inFlight = Cardinality(Holders(t))'
    <3>1. entries[t].inFlight = Cardinality(Holders(t))
      BY <2>4, <1>2 DEF RegistryInv, InFlightExact
    <3> QED
      BY <3>1, <2>1, <2>4, <1>2
  <2> QED
    BY <2>3, <2>4 DEF InFlightExact
<1>9. IdleMatchesQuiet'
  BY <1>1, <1>2 DEF RegistryInv, IdleMatchesQuiet, Live, RegistryTypeOK
<1> QED
  BY <1>4, <1>5, <1>7, <1>8, <1>9 DEF RegistryInv

\* Collecting entries nobody is on disturbs no pin.
LEMMA CollectKeepsInv ==
    ASSUME RegistryInv,
           entries' \in [Sessions -> Entry \union {NoEntry}],
           \A s \in Sessions :
              entries'[s] = entries[s] \/ (entries'[s] = NoEntry /\ Collectable(s)),
           requests' \in [Requests -> Request],
           \A r \in Requests :
              \/ requests'[r] = requests[r]
              \/ /\ requests[r].phase # "holding"
                 /\ requests'[r].phase # "holding"
                 /\ requests'[r].phase # "idle" => requests'[r].session \in Sessions,
           quiet' = quiet
    PROVE  RegistryInv'
<1>1. RegistryTypeOK'
  BY DEF RegistryInv, RegistryTypeOK
<1>2. HandlerKnowsSession'
  BY DEF RegistryInv, HandlerKnowsSession
<1>3. \A s : Holders(s)' = Holders(s)
  BY DEF Holders
<1>4. PinnedConversation'
  <2> SUFFICES ASSUME NEW q \in Requests, requests'[q].phase = "holding"
               PROVE  /\ requests'[q].session \in Sessions
                      /\ entries'[requests'[q].session] # NoEntry
                      /\ entries'[requests'[q].session].conv = requests'[q].conv
    BY DEF PinnedConversation
  <2>1. requests'[q] = requests[q] /\ requests[q].session \in Sessions
    BY DEF RegistryInv, PinnedConversation
  <2>2. q \in Holders(requests[q].session)
    BY <2>1 DEF Holders
  <2>3. ~Collectable(requests[q].session)
    BY <2>1, <2>2, CollectableUnheld
  <2> QED
    BY <2>1, <2>3 DEF RegistryInv, PinnedConversation
<1>5. InFlightExact'
  BY <1>3 DEF RegistryInv, InFlightExact
<1>6. IdleMatchesQuiet'
  BY DEF RegistryInv, IdleMatchesQuiet, Live
<1> QED
  BY <1>1, <1>2, <1>4, <1>5, <1>6 DEF RegistryInv

\* What Acquire keeps of the map, and the map it adds its entry to.
LEMMA MadeRoomCollects ==
    ASSUME RegistryInv, NEW s \in Sessions, entries[s] = NoEntry \/ Collectable(s)
    PROVE  /\ MadeRoom(s) \in [Sessions -> Entry \union {NoEntry}]
           /\ MadeRoom(s)[s] = NoEntry
           /\ \A t \in Sessions :
                MadeRoom(s)[t] = entries[t] \/ (MadeRoom(s)[t] = NoEntry /\ Collectable(t))
<1> DEFINE without == [entries EXCEPT ![s] = NoEntry]
<1>1. MadeRoom(s) = IF Full(without) THEN Swept ELSE without
  BY DEF MadeRoom
<1>2. entries \in [Sessions -> Entry \union {NoEntry}]
  BY DEF RegistryInv, RegistryTypeOK
<1>3. /\ without \in [Sessions -> Entry \union {NoEntry}]
      /\ \A t \in Sessions : without[t] = entries[t] \/ (without[t] = NoEntry /\ Collectable(t))
      /\ without[s] = NoEntry
  BY <1>2
<1>4. /\ Swept \in [Sessions -> Entry \union {NoEntry}]
      /\ \A t \in Sessions : Swept[t] = entries[t] \/ (Swept[t] = NoEntry /\ Collectable(t))
      /\ Swept[s] = NoEntry
  BY <1>2 DEF Swept
<1> QED
  BY <1>1, <1>3, <1>4

LEMMA EnterKeepsInv ==
    ASSUME RegistryInv, NEW r \in Requests, NEW s \in Sessions, Enter(r, s)
    PROVE  RegistryInv'
<1>1. CASE PinExisting(r, s)
  BY <1>1, PinExistingKeepsInv DEF Enter
<1>2. CASE /\ entries[s] = NoEntry \/ Collectable(s)
           /\ entries' = [entries EXCEPT ![s] = NoEntry]
           /\ requests' = [requests EXCEPT ![r] =
                             [phase |-> "parsing", session |-> s, conv |-> NoConv]]
           /\ UNCHANGED quiet
  <2>1. /\ entries' \in [Sessions -> Entry \union {NoEntry}]
        /\ \A t \in Sessions :
             entries'[t] = entries[t] \/ (entries'[t] = NoEntry /\ Collectable(t))
    BY <1>2 DEF RegistryInv, RegistryTypeOK
  <2>2. requests' \in [Requests -> Request]
    BY <1>2 DEF RegistryInv, RegistryTypeOK, Request
  <2>3. \A q \in Requests :
          \/ requests'[q] = requests[q]
          \/ /\ requests[q].phase # "holding"
             /\ requests'[q].phase # "holding"
             /\ requests'[q].phase # "idle" => requests'[q].session \in Sessions
    BY <1>2 DEF RegistryInv, RegistryTypeOK, Enter
  <2> QED
    BY <2>1, <2>2, <2>3, <1>2, CollectKeepsInv
<1> QED
  BY <1>1, <1>2 DEF Enter

LEMMA AcquireKeepsInv ==
    ASSUME RegistryInv, NEW r \in Requests, Acquire(r)
    PROVE  RegistryInv'
<1>1. PICK s \in Sessions : s = requests[r].session /\ requests[r].phase = "parsing"
  BY DEF Acquire, RegistryInv, HandlerKnowsSession
<1>2. CASE PinExisting(r, s)
  BY <1>1, <1>2, PinExistingKeepsInv
<1>3. ASSUME NEW c \in Convs,
             entries[s] = NoEntry \/ Collectable(s),
             entries' = [MadeRoom(s) EXCEPT ![s] = [conv |-> c, idle |-> 0, inFlight |-> 1]],
             requests' = [requests EXCEPT ![r] =
                            [phase |-> "holding", session |-> s, conv |-> c]],
             quiet' = [quiet EXCEPT ![s] = 0]
      PROVE  RegistryInv'
  <2> DEFINE new == [conv |-> c, idle |-> 0, inFlight |-> 1]
             pin == [phase |-> "holding", session |-> s, conv |-> c]
  <2>1. new \in Entry /\ pin \in Request /\ new # NoEntry
    BY <1>1, LimitsAreNat, NullsAreNotValues DEF Entry, Request
  <2>2. /\ MadeRoom(s) \in [Sessions -> Entry \union {NoEntry}]
        /\ \A t \in Sessions :
             MadeRoom(s)[t] = entries[t] \/ (MadeRoom(s)[t] = NoEntry /\ Collectable(t))
    BY <1>1, <1>3, MadeRoomCollects
  <2>3. /\ entries' \in [Sessions -> Entry \union {NoEntry}]
        /\ entries'[s] = new
        /\ \A t \in Sessions \ {s} :
             entries'[t] = entries[t] \/ (entries'[t] = NoEntry /\ Collectable(t))
    BY <1>1, <1>3, <2>1, <2>2
  <2>4. /\ requests \in [Requests -> Request]
        /\ requests' \in [Requests -> Request]
        /\ requests'[r] = pin
        /\ \A q \in Requests \ {r} : requests'[q] = requests[q]
    BY <1>3, <2>1 DEF RegistryInv, RegistryTypeOK
  <2>5. /\ quiet' \in [Sessions -> 0..TTL]
        /\ quiet'[s] = 0
        /\ \A t \in Sessions \ {s} : quiet'[t] = quiet[t]
    BY <1>1, <1>3, LimitsAreNat DEF RegistryInv, RegistryTypeOK
  <2>6. RegistryTypeOK'
    BY <2>3, <2>4, <2>5 DEF RegistryTypeOK
  <2>7. HandlerKnowsSession'
    BY <1>1, <2>4 DEF RegistryInv, HandlerKnowsSession
  <2>8. Holders(s) = {}
    BY <1>1, <1>3, CollectableUnheld
  <2>9. PinnedConversation'
    <3> SUFFICES ASSUME NEW q \in Requests, requests'[q].phase = "holding"
                 PROVE  /\ requests'[q].session \in Sessions
                        /\ entries'[requests'[q].session] # NoEntry
                        /\ entries'[requests'[q].session].conv = requests'[q].conv
      BY DEF PinnedConversation
    <3>1. CASE q = r
      BY <3>1, <1>1, <2>1, <2>3, <2>4
    <3>2. CASE q # r
      <4>1. /\ requests'[q] = requests[q]
            /\ requests[q].session \in Sessions
            /\ q \in Holders(requests[q].session)
        BY <3>2, <2>4 DEF RegistryInv, PinnedConversation, Holders
      <4>2. requests[q].session # s /\ ~Collectable(requests[q].session)
        BY <4>1, <2>8, CollectableUnheld
      <4> QED
        BY <4>1, <4>2, <2>3 DEF RegistryInv, PinnedConversation
    <3> QED
      BY <3>1, <3>2
  <2>10. InFlightExact'
    <3>1. /\ Cardinality(Holders(s))' = Cardinality(Holders(s)) + 1
          /\ \A t \in Sessions \ {s} : Holders(t)' = Holders(t)
      BY <1>1, <1>3, <2>4, TakePin
    <3>2. entries'[s].inFlight = Cardinality(Holders(s))'
      BY <3>1, <2>3, <2>8, FS_EmptySet
    <3>3. ASSUME NEW t \in Sessions \ {s}, entries'[t] # NoEntry
          PROVE  entries'[t].inFlight = Cardinality(Holders(t))'
      <4>1. entries'[t] = entries[t] /\ entries[t].inFlight = Cardinality(Holders(t))
        BY <3>3, <2>3 DEF RegistryInv, InFlightExact
      <4> QED
        BY <4>1, <3>1
    <3> QED
      BY <3>2, <3>3 DEF InFlightExact
  <2>11. IdleMatchesQuiet'
    <3> SUFFICES ASSUME NEW t \in Sessions, entries'[t] # NoEntry
                 PROVE  entries'[t].idle = quiet'[t]
      BY DEF IdleMatchesQuiet, Live
    <3>1. CASE t = s
      BY <3>1, <2>3, <2>5
    <3>2. CASE t # s
      BY <3>2, <2>3, <2>5 DEF RegistryInv, IdleMatchesQuiet, Live
    <3> QED
      BY <3>1, <3>2
  <2> QED
    BY <2>6, <2>7, <2>9, <2>10, <2>11 DEF RegistryInv
<1> QED
  BY <1>1, <1>2, <1>3 DEF Acquire

LEMMA RefuseKeepsInv ==
    ASSUME RegistryInv, NEW r \in Requests, Refuse(r)
    PROVE  RegistryInv'
<1>1. PICK s \in Sessions : s = requests[r].session /\ requests[r].phase = "parsing"
  BY DEF Refuse, RegistryInv, HandlerKnowsSession
<1>2. /\ entries' = MadeRoom(s)
      /\ MadeRoom(s) \in [Sessions -> Entry \union {NoEntry}]
      /\ \A t \in Sessions :
           MadeRoom(s)[t] = entries[t] \/ (MadeRoom(s)[t] = NoEntry /\ Collectable(t))
  BY <1>1, MadeRoomCollects DEF Refuse
<1>3. /\ requests' \in [Requests -> Request]
      /\ requests'[r].phase = "idle"
      /\ \A q \in Requests \ {r} : requests'[q] = requests[q]
  BY DEF Refuse, RegistryInv, RegistryTypeOK, Idle, Request
<1>4. quiet' = quiet
  BY DEF Refuse
<1> QED
  BY <1>1, <1>2, <1>3, <1>4, CollectKeepsInv

LEMMA AbandonKeepsInv ==
    ASSUME RegistryInv, NEW r \in Requests, Abandon(r)
    PROVE  RegistryInv'
<1>1. /\ requests' \in [Requests -> Request]
      /\ requests[r].phase = "parsing"
      /\ requests'[r].phase = "idle"
      /\ \A q \in Requests \ {r} : requests'[q] = requests[q]
  BY DEF Abandon, RegistryInv, RegistryTypeOK, Idle, Request
<1>2. entries' \in [Sessions -> Entry \union {NoEntry}] /\ entries' = entries /\ quiet' = quiet
  BY DEF Abandon, RegistryInv, RegistryTypeOK
<1> QED
  BY <1>1, <1>2, CollectKeepsInv

\* A release finds its entry, and inFlight above zero.
LEMMA ReleaseKeepsInv ==
    ASSUME RegistryInv, NEW r \in Requests, Release(r)
    PROVE  RegistryInv'
<1>1. PICK s \in Sessions :
        /\ s = requests[r].session
        /\ requests[r].phase = "holding"
        /\ entries[s] # NoEntry
        /\ entries[s].conv = requests[r].conv
  BY DEF Release, RegistryInv, PinnedConversation
<1> DEFINE e == entries[s]
<1>2. /\ Cardinality(Holders(s)) \in Nat \ {0}
      /\ Cardinality(Holders(s))' = Cardinality(Holders(s)) - 1
      /\ \A t \in Sessions \ {s} : Holders(t)' = Holders(t)
  BY <1>1, LeavePin DEF Release, RegistryInv, RegistryTypeOK
<1>3. e.inFlight = Cardinality(Holders(s)) /\ e \in Entry
  BY <1>1, EntryFields DEF RegistryInv, InFlightExact
<1>4. entries' = [entries EXCEPT ![s].inFlight = IF @ > 0 THEN @ - 1 ELSE @, ![s].idle = 0]
  BY <1>1 DEF Release
<1>5. /\ entries'[s] = [conv |-> e.conv, idle |-> 0, inFlight |-> e.inFlight - 1]
      /\ \A t \in Sessions \ {s} : entries'[t] = entries[t]
  <2> DEFINE n == IF e.inFlight > 0 THEN e.inFlight - 1 ELSE e.inFlight
  <2>1. entries'[s] = [[e EXCEPT !.inFlight = n] EXCEPT !.idle = 0]
    BY <1>4 DEF RegistryInv, RegistryTypeOK
  <2>2. n = e.inFlight - 1 /\ n \in Nat
    BY <1>2, <1>3
  <2>3. \A t \in Sessions \ {s} : entries'[t] = entries[t]
    BY <1>4 DEF RegistryInv, RegistryTypeOK
  <2> HIDE DEF n
  <2>4. entries'[s] = [conv |-> e.conv, idle |-> 0, inFlight |-> n]
    BY <1>3, <2>1, <2>2 DEF Entry
  <2> QED
    BY <2>2, <2>3, <2>4
<1>6. entries' \in [Sessions -> Entry \union {NoEntry}] /\ entries'[s] # NoEntry
  <2>1. entries'[s] \in Entry
    BY <1>2, <1>3, <1>5, LimitsAreNat DEF Entry
  <2> QED
    BY <2>1, <1>4, <1>5, NullsAreNotValues DEF RegistryInv, RegistryTypeOK
<1>7. /\ requests' \in [Requests -> Request]
      /\ requests'[r].phase = "idle"
      /\ \A q \in Requests \ {r} : requests'[q] = requests[q]
  BY DEF Release, RegistryInv, RegistryTypeOK, Idle, Request
<1>8. /\ quiet' \in [Sessions -> 0..TTL]
      /\ quiet'[s] = 0
      /\ \A t \in Sessions \ {s} : quiet'[t] = quiet[t]
  BY <1>1, LimitsAreNat DEF Release, RegistryInv, RegistryTypeOK
<1>9. RegistryTypeOK'
  BY <1>6, <1>7, <1>8 DEF RegistryTypeOK
<1>10. HandlerKnowsSession'
  BY <1>7 DEF RegistryInv, HandlerKnowsSession
<1>11. PinnedConversation'
  BY <1>1, <1>5, <1>6, <1>7 DEF RegistryInv, PinnedConversation
<1>12. InFlightExact'
  <2>1. entries'[s].inFlight = Cardinality(Holders(s))'
    BY <1>2, <1>3, <1>5
  <2>2. ASSUME NEW t \in Sessions \ {s}, entries'[t] # NoEntry
        PROVE  entries'[t].inFlight = Cardinality(Holders(t))'
    <3>1. entries'[t] = entries[t] /\ entries[t].inFlight = Cardinality(Holders(t))
      BY <2>2, <1>5 DEF RegistryInv, InFlightExact
    <3> QED
      BY <3>1, <1>2
  <2> QED
    BY <2>1, <2>2 DEF InFlightExact
<1>13. IdleMatchesQuiet'
  BY <1>5, <1>8 DEF RegistryInv, IdleMatchesQuiet, Live
<1> QED
  BY <1>9, <1>10, <1>11, <1>12, <1>13 DEF RegistryInv

LEMMA SweepKeepsInv ==
    ASSUME RegistryInv, Sweep
    PROVE  RegistryInv'
<1>1. /\ entries' \in [Sessions -> Entry \union {NoEntry}]
      /\ \A t \in Sessions :
           entries'[t] = entries[t] \/ (entries'[t] = NoEntry /\ Collectable(t))
  BY DEF Sweep, Swept, RegistryInv, RegistryTypeOK
<1>2. requests' \in [Requests -> Request] /\ requests' = requests /\ quiet' = quiet
  BY DEF Sweep, RegistryInv, RegistryTypeOK
<1> QED
  BY <1>1, <1>2, CollectKeepsInv

LEMMA TickKeepsInv ==
    ASSUME RegistryInv, Tick
    PROVE  RegistryInv'
<1>1. requests' = requests /\ \A t : Holders(t)' = Holders(t)
  BY DEF Tick, Holders
<1>2. ASSUME NEW s \in Sessions, entries[s] = NoEntry
      PROVE  entries'[s] = NoEntry
  BY <1>2 DEF Tick
<1>3. ASSUME NEW s \in Sessions, entries[s] # NoEntry
      PROVE  /\ entries'[s] \in Entry
             /\ entries'[s] # NoEntry
             /\ entries'[s].conv = entries[s].conv
             /\ entries'[s].inFlight = entries[s].inFlight
             /\ entries'[s].idle = IF entries[s].idle < TTL THEN entries[s].idle + 1 ELSE entries[s].idle
  <2>1. entries[s] \in Entry
    BY <1>3, EntryFields DEF RegistryInv
  <2>2. entries'[s] = [entries[s] EXCEPT !.idle = IF @ < TTL THEN @ + 1 ELSE @]
    BY <1>3 DEF Tick
  <2>3. entries'[s] \in Entry
    BY <2>1, <2>2, LimitsAreNat DEF Entry
  <2> QED
    BY <2>1, <2>2, <2>3, NullsAreNotValues DEF Entry
<1>4. /\ quiet' \in [Sessions -> 0..TTL]
      /\ \A s \in Sessions : quiet'[s] = IF quiet[s] < TTL THEN quiet[s] + 1 ELSE TTL
  BY LimitsAreNat DEF Tick, RegistryInv, RegistryTypeOK
<1>5. entries' \in [Sessions -> Entry \union {NoEntry}]
  BY <1>2, <1>3 DEF Tick
<1>6. RegistryTypeOK'
  BY <1>1, <1>4, <1>5 DEF RegistryInv, RegistryTypeOK
<1>7. HandlerKnowsSession' /\ PinnedConversation'
  BY <1>1, <1>3 DEF RegistryInv, HandlerKnowsSession, PinnedConversation
<1>8. InFlightExact'
  BY <1>1, <1>2, <1>3 DEF RegistryInv, InFlightExact
<1>9. IdleMatchesQuiet'
  <2> SUFFICES ASSUME NEW s \in Sessions, entries'[s] # NoEntry
               PROVE  entries'[s].idle = quiet'[s]
    BY DEF IdleMatchesQuiet, Live
  <2>1. entries[s] # NoEntry /\ entries[s].idle = quiet[s]
    BY <1>2 DEF RegistryInv, IdleMatchesQuiet, Live
  <2>2. quiet[s] \in 0..TTL
    BY DEF RegistryInv, RegistryTypeOK
  <2> QED
    BY <2>1, <2>2, <1>3, <1>4, LimitsAreNat
<1> QED
  BY <1>6, <1>7, <1>8, <1>9 DEF RegistryInv

LEMMA NextKeepsInv ==
    ASSUME RegistryInv, [RegistryNext]_registryVars
    PROVE  RegistryInv'
<1>1. ASSUME NEW r \in Requests, NEW s \in Sessions, Enter(r, s) PROVE RegistryInv'
  BY <1>1, EnterKeepsInv
<1>2. ASSUME NEW r \in Requests, Acquire(r) PROVE RegistryInv'
  BY <1>2, AcquireKeepsInv
<1>3. ASSUME NEW r \in Requests, Refuse(r) PROVE RegistryInv'
  BY <1>3, RefuseKeepsInv
<1>4. ASSUME NEW r \in Requests, Abandon(r) PROVE RegistryInv'
  BY <1>4, AbandonKeepsInv
<1>5. ASSUME NEW r \in Requests, Release(r) PROVE RegistryInv'
  BY <1>5, ReleaseKeepsInv
<1>6. CASE Sweep
  BY <1>6, SweepKeepsInv
<1>7. CASE Tick
  BY <1>7, TickKeepsInv
<1>8. CASE UNCHANGED registryVars
  BY <1>8 DEF registryVars, RegistryInv, RegistryTypeOK, HandlerKnowsSession, PinnedConversation,
              InFlightExact, IdleMatchesQuiet, Live, Holders
<1> QED
  BY <1>1, <1>2, <1>3, <1>4, <1>5, <1>6, <1>7, <1>8 DEF RegistryNext

THEOREM RegistryInductive == RegistrySpec => []RegistryInv
<1>1. RegistryInit => RegistryInv
  BY RegistryInitInv
<1>2. RegistryInv /\ [RegistryNext]_registryVars => RegistryInv'
  BY NextKeepsInv
<1> QED
  BY <1>1, <1>2, PTL DEF RegistrySpec

(***************************************************************************)
(* Whatever requests, sweeps and the clock do, a request that has been     *)
(* given a conversation keeps it until its release.                        *)
(***************************************************************************)
THEOREM PinSafety == RegistrySpec => []PinnedConversation
<1>1. RegistryInv => PinnedConversation
  BY DEF RegistryInv
<1> QED
  BY <1>1, RegistryInductive, PTL

\* inFlight counts the requests whose release has not run, at any time.
THEOREM CountSafety == RegistrySpec => []InFlightExact
<1>1. RegistryInv => InFlightExact
  BY DEF RegistryInv
<1> QED
  BY <1>1, RegistryInductive, PTL

\* The registry's variables keep their types.
THEOREM RegistryTypeSafety == RegistrySpec => []RegistryTypeOK
<1>1. RegistryInv => RegistryTypeOK
  BY DEF RegistryInv
<1> QED
  BY <1>1, RegistryInductive, PTL

-----------------------------------------------------------------------------

\* A step keeps the conversation of an entry unless it could be collected.
LEMMA KeptOrCollectable ==
    ASSUME RegistryInv, [RegistryNext]_registryVars, NEW s \in Live
    PROVE  \/ entries'[s] # NoEntry /\ entries'[s].conv = entries[s].conv
           \/ Collectable(s)
<1> DEFINE Kept == entries'[s] # NoEntry /\ entries'[s].conv = entries[s].conv
<1>1. /\ s \in Sessions /\ entries[s] # NoEntry /\ entries[s] \in Entry
      /\ entries \in [Sessions -> Entry \union {NoEntry}]
  BY EntryFields DEF Live, RegistryInv, RegistryTypeOK
<1>2. ASSUME NEW r \in Requests, NEW t \in Sessions, PinExisting(r, t) PROVE Kept
  <2>1. CASE t = s
    <3>1. entries'[s] = [[entries[s] EXCEPT !.idle = 0] EXCEPT !.inFlight = @ + 1]
      BY <1>1, <1>2, <2>1 DEF PinExisting
    <3>2. entries'[s] = [conv |-> entries[s].conv, idle |-> 0,
                         inFlight |-> entries[s].inFlight + 1]
      BY <3>1, <1>1 DEF Entry
    <3>3. entries'[s] \in Entry
      BY <3>2, <1>1, LimitsAreNat DEF Entry
    <3> QED
      BY <3>2, <3>3, NullsAreNotValues
  <2>2. CASE t # s
    BY <1>1, <1>2, <2>2 DEF PinExisting
  <2> QED
    BY <2>1, <2>2
<1>3. ASSUME NEW r \in Requests, NEW t \in Sessions, Enter(r, t) PROVE Kept \/ Collectable(s)
  <2>1. CASE PinExisting(r, t)
    BY <1>2, <2>1
  <2>2. CASE (entries[t] = NoEntry \/ Collectable(t)) /\ entries' = [entries EXCEPT ![t] = NoEntry]
    BY <1>1, <2>2
  <2> QED
    BY <1>3, <2>1, <2>2 DEF Enter
<1>4. ASSUME NEW r \in Requests, Acquire(r) PROVE Kept \/ Collectable(s)
  <2>1. PICK t \in Sessions : t = requests[r].session
    BY <1>4 DEF Acquire, RegistryInv, HandlerKnowsSession
  <2>2. CASE PinExisting(r, t)
    BY <1>2, <2>2
  <2>3. ASSUME entries[t] = NoEntry \/ Collectable(t), NEW c \in Convs,
               entries' = [MadeRoom(t) EXCEPT ![t] = [conv |-> c, idle |-> 0, inFlight |-> 1]]
        PROVE  Kept \/ Collectable(s)
    <3>1. /\ MadeRoom(t) \in [Sessions -> Entry \union {NoEntry}]
          /\ MadeRoom(t)[s] = entries[s] \/ Collectable(s)
      BY <1>1, <2>3, MadeRoomCollects
    <3> QED
      BY <1>1, <2>3, <3>1
  <2> QED
    BY <1>4, <2>1, <2>2, <2>3 DEF Acquire
<1>5. ASSUME NEW r \in Requests, Refuse(r) PROVE Kept \/ Collectable(s)
  <2>1. PICK t \in Sessions : t = requests[r].session
    BY <1>5 DEF Refuse, RegistryInv, HandlerKnowsSession
  <2>2. entries' = MadeRoom(t) /\ (entries[t] = NoEntry \/ Collectable(t))
    BY <1>5, <2>1 DEF Refuse
  <2> QED
    BY <1>1, <2>2, MadeRoomCollects
<1>6. ASSUME NEW r \in Requests, Release(r) PROVE Kept
  <2>1. RegistryInv'
    BY <1>6, ReleaseKeepsInv
  <2>2. PICK t \in Sessions :
          entries' = [entries EXCEPT ![t].inFlight = IF @ > 0 THEN @ - 1 ELSE @, ![t].idle = 0]
    BY <1>6 DEF Release, RegistryInv, PinnedConversation
  <2>3. CASE t = s
    <3> DEFINE n == IF entries[s].inFlight > 0 THEN entries[s].inFlight - 1
                    ELSE entries[s].inFlight
    <3>1. entries'[s] = [[entries[s] EXCEPT !.inFlight = n] EXCEPT !.idle = 0]
      BY <1>1, <2>2, <2>3
    <3>2. n \in Nat
      BY <1>1 DEF Entry
    <3> HIDE DEF n
    <3>3. entries'[s] = [conv |-> entries[s].conv, idle |-> 0, inFlight |-> n]
      BY <1>1, <3>1 DEF Entry
    <3>4. entries'[s] \in Entry
      BY <3>2, <3>3, <1>1, LimitsAreNat DEF Entry
    <3> QED
      BY <3>3, <3>4, NullsAreNotValues
  <2>4. CASE t # s
    BY <1>1, <2>2, <2>4
  <2> QED
    BY <2>3, <2>4
<1>7. CASE Sweep
  BY <1>1, <1>7 DEF Sweep, Swept
<1>8. CASE Tick
  <2>1. entries'[s] = [entries[s] EXCEPT !.idle = IF @ < TTL THEN @ + 1 ELSE @]
    BY <1>1, <1>8 DEF Tick
  <2>2. entries'[s].conv = entries[s].conv /\ entries'[s] \in Entry
    BY <1>1, <2>1, LimitsAreNat DEF Entry
  <2> QED
    BY <2>2, NullsAreNotValues
<1>9. CASE UNCHANGED registryVars \/ \E r \in Requests : Abandon(r)
  BY <1>1, <1>9 DEF registryVars, Abandon
<1> QED
  BY <1>3, <1>4, <1>5, <1>6, <1>7, <1>8, <1>9 DEF RegistryNext

(***************************************************************************)
(* A session keeps its conversation through any step unless a full ttl has *)
(* passed since a request of it took or left its pin, and none is under    *)
(* way.                                                                    *)
(***************************************************************************)
THEOREM RebindSafety == RegistrySpec => RebindsOnlyWhenIdle
<1>1. ASSUME RegistryInv, NEW s \in Live, Collectable(s)
      PROVE  quiet[s] >= TTL /\ Holders(s) = {}
  BY <1>1, CollectableUnheld DEF Collectable, RegistryInv, IdleMatchesQuiet, Live
<1>2. ASSUME RegistryInv, [RegistryNext]_registryVars
      PROVE  \A s \in Live :
               entries'[s] = NoEntry \/ entries'[s].conv # entries[s].conv
                 => quiet[s] >= TTL /\ Holders(s) = {}
  BY <1>1, <1>2, KeptOrCollectable
<1> QED
  BY <1>2, RegistryInductive, PTL DEF RegistrySpec, RebindsOnlyWhenIdle

-----------------------------------------------------------------------------

\* Finitely many sessions have finitely many entries.
LEMMA SizeOfSubset ==
    ASSUME NEW S \in SUBSET Sessions, NEW T \in SUBSET S
    PROVE  /\ Cardinality(S) \in Nat /\ Cardinality(T) \in Nat
           /\ Cardinality(T) <= Cardinality(S)
BY SessionsFinite, FS_Subset, FS_CardinalityType

(***************************************************************************)
(* The registry stays within maxEntries.                                   *)
(***************************************************************************)
THEOREM CapacitySafety == RegistrySpec => []WithinCapacity
<1>1. RegistryInit => WithinCapacity
  <2> SUFFICES ASSUME RegistryInit PROVE WithinCapacity
    OBVIOUS
  <2>1. Live = {}
    BY DEF RegistryInit, Live
  <2> QED
    BY <2>1, FS_EmptySet, LimitsAreNat DEF WithinCapacity
<1>2. ASSUME RegistryInv, WithinCapacity, [RegistryNext]_registryVars
      PROVE  WithinCapacity'
  <2>1. ASSUME Live' \subseteq Live PROVE WithinCapacity'
    BY <1>2, <2>1, SizeOfSubset, LimitsAreNat DEF WithinCapacity, Live
  <2>2. ASSUME NEW r \in Requests, NEW s \in Sessions, PinExisting(r, s)
        PROVE  WithinCapacity'
    BY <1>2, <2>1, <2>2 DEF PinExisting, Live, RegistryInv, RegistryTypeOK
  <2>3. ASSUME NEW r \in Requests, NEW s \in Sessions, Enter(r, s)
        PROVE  WithinCapacity'
    BY <1>2, <2>1, <2>2, <2>3 DEF Enter, Live, RegistryInv, RegistryTypeOK
  <2>4. ASSUME NEW r \in Requests, Acquire(r)
        PROVE  WithinCapacity'
    <3>1. PICK s \in Sessions : s = requests[r].session
      BY <1>2, <2>4 DEF Acquire, RegistryInv, HandlerKnowsSession
    <3>2. CASE PinExisting(r, s)
      BY <2>2, <3>2
    <3>3. ASSUME entries[s] = NoEntry \/ Collectable(s), ~Full(MadeRoom(s)), NEW c \in Convs,
                 entries' = [MadeRoom(s) EXCEPT ![s] = [conv |-> c, idle |-> 0, inFlight |-> 1]]
          PROVE  WithinCapacity'
      <4> DEFINE left == {t \in Sessions : MadeRoom(s)[t] # NoEntry}
      <4>1. MadeRoom(s) \in [Sessions -> Entry \union {NoEntry}]
        BY <1>2, <3>3, MadeRoomCollects
      <4>2. Live' \subseteq left \union {s}
        BY <3>3, <4>1 DEF Live
      <4>3. Cardinality(left) < MaxEntries /\ Cardinality(left) \in Nat
        BY <3>3, SizeOfSubset, LimitsAreNat DEF Full, Size
      <4>4. IsFiniteSet(left)
        BY SessionsFinite, FS_Subset
      <4>5. Cardinality(left \union {s}) <= MaxEntries
        <5> HIDE DEF left
        <5>1. Cardinality(left \union {s}) \in {Cardinality(left), Cardinality(left) + 1}
          BY <4>4, FS_AddElement
        <5> QED
          BY <4>3, <5>1, LimitsAreNat
      <4>6. Cardinality(Live') <= Cardinality(left \union {s})
        BY <4>2, SizeOfSubset DEF Live
      <4>7. Cardinality(Live') \in Nat /\ Cardinality(left \union {s}) \in Nat
        BY <4>2, SizeOfSubset DEF Live
      <4> QED
        BY <4>5, <4>6, <4>7, LimitsAreNat DEF WithinCapacity
    <3> QED
      BY <2>4, <3>1, <3>2, <3>3 DEF Acquire
  <2>5. ASSUME NEW r \in Requests, Refuse(r)
        PROVE  WithinCapacity'
    <3>1. PICK s \in Sessions : s = requests[r].session
      BY <1>2, <2>5 DEF Refuse, RegistryInv, HandlerKnowsSession
    <3>2. entries' = MadeRoom(s) /\ (entries[s] = NoEntry \/ Collectable(s))
      BY <2>5, <3>1 DEF Refuse
    <3> QED
      BY <1>2, <2>1, <3>2, MadeRoomCollects DEF Live
  <2>6. ASSUME NEW r \in Requests, Release(r)
        PROVE  WithinCapacity'
    <3>1. PICK s \in Sessions : s = requests[r].session /\ entries[s] # NoEntry
      BY <1>2, <2>6 DEF Release, RegistryInv, PinnedConversation
    <3>2. \A t \in Sessions \ {s} : entries'[t] = entries[t]
      BY <1>2, <2>6, <3>1 DEF Release, RegistryInv, RegistryTypeOK
    <3> QED
      BY <2>1, <3>1, <3>2 DEF Live
  <2>7. CASE Sweep
    BY <2>1, <2>7 DEF Sweep, Swept, Live
  <2>8. CASE Tick
    BY <2>1, <2>8 DEF Tick, Live
  <2>9. CASE UNCHANGED registryVars \/ \E r \in Requests : Abandon(r)
    BY <2>1, <2>9 DEF registryVars, Abandon, Live
  <2> QED
    BY <1>2, <2>3, <2>4, <2>5, <2>6, <2>7, <2>8, <2>9 DEF RegistryNext
<1> QED
  BY <1>1, <1>2, RegistryInductive, PTL DEF RegistrySpec

(***************************************************************************)
(* For any number of sessions and requests, and any capacity, a request is *)
(* refused for want of room only when every place is held by a session     *)
(* with a request under way or active within the last ttl: what can be     *)
(* collected has been collected before the map counts as full.             *)
(***************************************************************************)
THEOREM RefusedWhenFullSafety == RegistrySpec => RefusedOnlyWhenFull
<1>1. ASSUME RegistryInv, NEW r \in Requests, Refuse(r)
      PROVE  Cardinality({s \in Live : ~Collectable(s)}) >= MaxEntries
  <2> DEFINE s == requests[r].session
             kept == {t \in Live : ~Collectable(t)}
             left == {t \in Sessions : MadeRoom(s)[t] # NoEntry}
             without == [entries EXCEPT ![s] = NoEntry]
  <2>1. Cardinality(left) >= MaxEntries
    BY <1>1 DEF Refuse, Full, Size
  <2>2. MadeRoom(s) = Swept
    BY <1>1 DEF Refuse, MadeRoom
  <2>3. left \subseteq kept /\ kept \subseteq Sessions
    BY <2>2 DEF Swept, Live
  <2>4. Cardinality(left) <= Cardinality(kept) /\ Cardinality(left) \in Nat /\ Cardinality(kept) \in Nat
    BY <2>3, SizeOfSubset
  <2> QED
    BY <2>1, <2>4, LimitsAreNat
<1>2. RegistryInv => [(\E r \in Requests : Refuse(r)) =>
                  Cardinality({s \in Live : ~Collectable(s)}) >= MaxEntries]_registryVars
  BY <1>1
<1> QED
  BY <1>2, RegistryInductive, PTL DEF RegistrySpec, RefusedOnlyWhenFull

-----------------------------------------------------------------------------
(* The choice of an account: for any accounts, any standings they may take *)
(* and any scores.                                                         *)

(***************************************************************************)
(* The inductive invariant: the picks that passed the watched account, and *)
(* those that can still do so before the cursor comes to it, are together  *)
(* fewer than the list is long.                                            *)
(***************************************************************************)
ListIsProper ==
    /\ list \in Seq(Accounts)
    /\ \A i, j \in 1..Len(list) : list[i] = list[j] => i = j

TurnComes ==
    IF Watched \in Range(list) THEN passed + Distance(Watched) < Len(list) ELSE passed = 0

PickInv == ListIsProper /\ index \in Nat /\ passed \in Nat /\ TurnComes

-----------------------------------------------------------------------------
(* Numbers: remainders, and the least number of a set *)

LEMMA Remainder ==
    ASSUME NEW n \in Nat \ {0}, NEW x \in Nat
    PROVE  /\ x % n \in 0..(n - 1)
           /\ x < n => x % n = x
           /\ n <= x /\ x < 2 * n => x % n = x - n
<1>1. x % n \in 0..(n - 1)
  OBVIOUS
<1>2. x < n => x % n = x
  OBVIOUS
<1>3. n <= x /\ x < 2 * n => x % n = x - n
  OBVIOUS
<1> QED
  BY <1>1, <1>2, <1>3

LEMMA LeastOfSet ==
    ASSUME NEW T, T \subseteq Nat, T # {}
    PROVE  \E x \in T : \A y \in T : x <= y
<1> DEFINE R == OpToRel(<, Nat)
<1>1. IsWellFoundedOn(R, Nat)
  BY NatLessThanWellFounded
<1>2. \A x, y \in Nat : <<x, y>> \in R <=> x < y
  BY DEF OpToRel
<1> HIDE DEF R
<1>3. PICK x \in T : \A y \in T : ~(<<y, x>> \in R)
  BY <1>1, WFMin
<1>4. ASSUME NEW y \in T PROVE x <= y
  <2>1. x \in Nat /\ y \in Nat
    OBVIOUS
  <2>2. ~(y < x)
    BY <1>2, <1>3, <2>1
  <2> QED
    BY <2>1, <2>2
<1> QED
  BY <1>4

LEMMA InductionOnSet ==
    ASSUME NEW S, 0 \in S, \A n \in Nat : n \in S => n + 1 \in S
    PROVE  Nat \subseteq S
<1> SUFFICES ASSUME Nat \ S # {} PROVE FALSE
  OBVIOUS
<1>1. PICK x \in Nat \ S : \A y \in Nat \ S : x <= y
  BY LeastOfSet
<1>2. x # 0 /\ x - 1 \in Nat /\ x = (x - 1) + 1
  BY <1>1
<1> QED
  BY <1>1, <1>2

-----------------------------------------------------------------------------
(* The place of an account, and how far the cursor is from it *)

LEMMA PlaceIn ==
    ASSUME NEW l \in Seq(Accounts), NEW id \in Range(l)
    PROVE  /\ Len(l) \in Nat \ {0} /\ id \in Accounts
           /\ (CHOOSE i \in DOMAIN l : l[i] = id) \in 1..Len(l)
           /\ l[CHOOSE i \in DOMAIN l : l[i] = id] = id
<1>1. \E i \in DOMAIN l : l[i] = id
  BY DEF Range
<1>2. DOMAIN l = 1..Len(l) /\ Len(l) \in Nat
  OBVIOUS
<1> QED
  BY <1>1, <1>2

LEMMA DistanceFrom ==
    ASSUME NEW n \in Nat \ {0}, NEW p \in 0..(n - 1), NEW x \in Nat
    PROVE  /\ x % n \in 0..(n - 1)
           /\ (p + n - (x % n)) % n = IF p >= x % n THEN p - (x % n) ELSE p + n - (x % n)
<1> DEFINE c == x % n
           y == p + n - c
<1>1. c \in 0..(n - 1)
  BY Remainder
<1> HIDE DEF c
<1>2. y \in Nat /\ y < 2 * n /\ (y < n <=> p < c)
  BY <1>1
<1>3. y % n = IF y < n THEN y ELSE y - n
  <2> HIDE DEF y
  <2>1. CASE y < n
    BY <1>2, <2>1, Remainder
  <2>2. CASE n <= y
    BY <1>2, <2>2, Remainder
  <2> QED
    BY <1>2, <2>1, <2>2
<1>4. y % n = IF p >= c THEN p - c ELSE p + n - c
  BY <1>1, <1>2, <1>3
<1> QED
  BY <1>1, <1>4 DEF c

LEMMA PositionInList ==
    ASSUME ListIsProper, NEW id \in Range(list)
    PROVE  /\ Len(list) \in Nat \ {0} /\ id \in Accounts
           /\ Position(id) \in 0..(Len(list) - 1)
           /\ list[Position(id) + 1] = id
<1> DEFINE i == CHOOSE i \in DOMAIN list : list[i] = id
<1>1. Len(list) \in Nat \ {0} /\ id \in Accounts /\ i \in 1..Len(list) /\ list[i] = id
  BY PlaceIn DEF ListIsProper
<1>2. Position(id) = i - 1
  BY DEF Position
<1> HIDE DEF i
<1>3. Position(id) + 1 = i
  BY <1>1, <1>2
<1> QED
  BY <1>1, <1>2, <1>3

LEMMA DistanceInList ==
    ASSUME ListIsProper, index \in Nat, NEW id \in Range(list)
    PROVE  /\ index % Len(list) \in 0..(Len(list) - 1)
           /\ Distance(id) = IF Position(id) >= index % Len(list)
                               THEN Position(id) - (index % Len(list))
                               ELSE Position(id) + Len(list) - (index % Len(list))
           /\ Distance(id) \in 0..(Len(list) - 1)
<1> DEFINE n == Len(list)
           p == Position(id)
<1>1. n \in Nat \ {0} /\ p \in 0..(n - 1)
  BY PositionInList
<1>2. Distance(id) = (p + n - (index % n)) % n
  BY DEF Distance
<1> HIDE DEF n, p
<1>3. /\ index % n \in 0..(n - 1)
      /\ (p + n - (index % n)) % n = IF p >= index % n THEN p - (index % n)
                                                       ELSE p + n - (index % n)
  BY <1>1, DistanceFrom
<1>4. Distance(id) \in 0..(n - 1)
  BY <1>1, <1>2, <1>3
<1> QED
  BY <1>2, <1>3, <1>4 DEF n, p

\* No two accounts are as far away.
LEMMA DistancesDiffer ==
    ASSUME ListIsProper, index \in Nat, NEW id \in Range(list), NEW other \in Range(list),
           id # other
    PROVE  Distance(id) # Distance(other)
<1>1. Position(id) # Position(other)
  BY PositionInList
<1> DEFINE c == index % Len(list)
<1>2. c \in 0..(Len(list) - 1) /\ Len(list) \in Nat
  BY DistanceInList, PositionInList
<1>3. /\ Distance(id) = IF Position(id) >= c THEN Position(id) - c ELSE Position(id) + Len(list) - c
      /\ Distance(other) = IF Position(other) >= c THEN Position(other) - c
                                                   ELSE Position(other) + Len(list) - c
  BY DistanceInList
<1>4. Position(id) \in 0..(Len(list) - 1) /\ Position(other) \in 0..(Len(list) - 1)
  BY PositionInList
<1> HIDE DEF c
<1> QED
  BY <1>1, <1>2, <1>3, <1>4

\* A set of accounts of the list has one that comes first.
LEMMA SomeoneIsNext ==
    ASSUME ListIsProper, index \in Nat, NEW S, S \subseteq Range(list), S # {}
    PROVE  \E id \in S : \A other \in S \ {id} : Distance(id) < Distance(other)
<1> DEFINE T == {Distance(id) : id \in S}
<1>1. \A id \in S : Distance(id) \in Nat
  BY DistanceInList, PositionInList
<1>2. T \subseteq Nat /\ T # {}
  BY <1>1
<1>3. PICK d \in T : \A e \in T : d <= e
  BY <1>2, LeastOfSet
<1>4. PICK id \in S : d = Distance(id)
  BY <1>3
<1>5. ASSUME NEW other \in S \ {id} PROVE Distance(id) < Distance(other)
  BY <1>1, <1>3, <1>4, DistancesDiffer
<1> QED
  BY <1>5

-----------------------------------------------------------------------------
(* The steps *)

\* The round-robin pick of a tier is nearer than any other account of it.
LEMMA PickIsNearest ==
    ASSUME ListIsProper, index \in Nat, NEW seen, NEW tier \in {"preferred", "overage"},
           In(tier, seen) # {}
    PROVE  LET best == BestOf(tier, seen, NoKey) IN
           /\ best.tier = tier
           /\ best.id \in In(tier, seen)
           /\ \A other \in In(tier, seen) \ {best.id} : Distance(best.id) < Distance(other)
<1> DEFINE S == In(tier, seen)
<1>1. S \subseteq Range(list) /\ S # {}
  BY DEF In
<1>2. \E id \in S : \A other \in S \ {id} : Distance(id) < Distance(other)
  BY <1>1, SomeoneIsNext
<1>3. BestOf(tier, seen, NoKey) =
        [tier |-> tier,
         id |-> CHOOSE id \in S : \A other \in S \ {id} : Distance(id) < Distance(other)]
  BY DEF BestOf, Before
<1> HIDE DEF S
<1> QED
  BY <1>2, <1>3 DEF S

LEMMA PickedFrom ==
    ASSUME NEW seen, NEW session, NEW tier \in {"preferred", "overage"},
           PickFor(seen, session).tier = tier
    PROVE  /\ PickFor(seen, session) = BestOf(tier, seen, session)
           /\ In(tier, seen) # {}
           /\ tier = "overage" => In("preferred", seen) = {}
BY DEF PickFor, BestOf

\* The list as it was, the cursor anywhere.
LEMMA DistanceAfter ==
    ASSUME ListIsProper, NEW id \in Range(list), list' = list, index' \in Nat
    PROVE  LET c == index' % Len(list) IN
           /\ c \in 0..(Len(list) - 1)
           /\ Distance(id)' = IF Position(id) >= c THEN Position(id) - c
                                                   ELSE Position(id) + Len(list) - c
           /\ Distance(id)' \in 0..(Len(list) - 1)
<1> DEFINE n == Len(list)
           p == Position(id)
           x == index'
<1>1. n \in Nat \ {0} /\ p \in 0..(n - 1) /\ x \in Nat
  BY PositionInList
<1>2. Distance(id)' = (p + n - (x % n)) % n
  BY DEF Distance, Position
<1> HIDE DEF n, p, x
<1>3. /\ x % n \in 0..(n - 1)
      /\ (p + n - (x % n)) % n = IF p >= x % n THEN p - (x % n) ELSE p + n - (x % n)
  BY <1>1, DistanceFrom
<1>4. Distance(id)' \in 0..(n - 1)
  BY <1>1, <1>2, <1>3
<1> QED
  BY <1>2, <1>3, <1>4 DEF n, p, x

\* The cursor behind an account of the list.
LEMMA CursorBehind ==
    ASSUME ListIsProper, NEW id \in Range(list)
    PROVE  /\ CursorAfter(id) = IF Position(id) + 1 = Len(list) THEN 0 ELSE Position(id) + 1
           /\ CursorAfter(id) \in 0..(Len(list) - 1)
           /\ CursorAfter(id) % Len(list) = CursorAfter(id)
<1> DEFINE n == Len(list)
           p == Position(id)
           d == (p + 1) % n
<1>1. n \in Nat \ {0} /\ p \in 0..(n - 1)
  BY PositionInList
<1>2. CursorAfter(id) = d
  BY DEF CursorAfter
<1>3. d = IF p + 1 = n THEN 0 ELSE p + 1
  <2> HIDE DEF n, p
  <2> DEFINE m == p + 1
  <2>1. m \in Nat /\ m <= n /\ m < 2 * n /\ d = m % n
    BY <1>1
  <2> HIDE DEF m, d
  <2>2. m < n => d = m
    BY <1>1, <2>1, Remainder
  <2>3. m = n => d = m - n
    BY <1>1, <2>1, Remainder
  <2> QED
    BY <1>1, <2>1, <2>2, <2>3 DEF m
<1> HIDE DEF n, p, d
<1>4. d \in 0..(n - 1)
  BY <1>1, <1>3
<1>5. d % n = d
  BY <1>1, <1>4, Remainder
<1> QED
  BY <1>2, <1>3, <1>4, <1>5 DEF n, p

\* The account passed over is nearer by as many places as the cursor goes.
LEMMA CursorAdvances ==
    ASSUME ListIsProper, index \in Nat, NEW far \in Range(list), NEW id \in Range(list),
           Distance(id) < Distance(far),
           index' = CursorAfter(id), list' = list
    PROVE  Distance(far)' < Distance(far)
<1> DEFINE n == Len(list)
           p == Position(id)
           w == Position(far)
           c == index % n
           d == CursorAfter(id)
<1>1. n \in Nat \ {0} /\ p \in 0..(n - 1) /\ w \in 0..(n - 1)
  BY PositionInList
<1>2. c \in 0..(n - 1)
  BY DistanceInList
<1>3. /\ Distance(id) = IF p >= c THEN p - c ELSE p + n - c
      /\ Distance(far) = IF w >= c THEN w - c ELSE w + n - c
  BY DistanceInList
<1>4. d = (IF p + 1 = n THEN 0 ELSE p + 1) /\ d \in 0..(n - 1) /\ d % n = d
  BY CursorBehind
<1>5. Distance(far)' = IF w >= d THEN w - d ELSE w + n - d
  <2>1. index' \in Nat /\ index' % n = d
    BY <1>4
  <2> QED
    BY <2>1, DistanceAfter
<1> HIDE DEF n, p, w, c, d
<1> QED
  BY <1>1, <1>2, <1>3, <1>4, <1>5

LEMMA PickKeepsTurn ==
    ASSUME PickInv, NEW seen, NEW session, Pick(seen, session)
    PROVE  PickInv'
<1> DEFINE picked == PickFor(seen, session)
           n == Len(list)
<1>1. ListIsProper' /\ ListIsProper /\ list' = list
  BY DEF Pick, PickInv, ListIsProper
<1>2. n \in Nat \ {0}
  BY DEF Pick, PickInv, ListIsProper
<1>3. CASE session # NoKey
  BY <1>1, <1>3 DEF Pick, PickInv, TurnComes, Distance, Position
<1>4. ASSUME index' \in Nat, passed' = 0 PROVE PickInv'
  <2>1. Watched \in Range(list) => Distance(Watched)' \in 0..(n - 1)
    BY <1>1, <1>4, DistanceAfter
  <2> QED
    BY <1>1, <1>2, <1>4, <2>1 DEF PickInv, TurnComes
<1>5. CASE session = NoKey /\ picked.tier \notin {"preferred", "overage"}
  BY <1>4, <1>5 DEF Pick, PickInv
<1>6. CASE session = NoKey /\ picked.tier \in {"preferred", "overage"}
  <2> DEFINE S == In(picked.tier, seen)
  <2>1. /\ picked.id \in S
        /\ \A other \in S \ {picked.id} : Distance(picked.id) < Distance(other)
    BY <1>6, PickedFrom, PickIsNearest DEF PickInv
  <2>2. picked.id \in Range(list)
    BY <2>1 DEF In
  <2>3. index' = CursorAfter(picked.id) /\ index' \in Nat
    <3>1. index' = CursorAfter(picked.id)
      BY <1>6 DEF Pick
    <3>2. CursorAfter(picked.id) \in 0..(n - 1)
      BY <1>1, <2>2, CursorBehind
    <3> QED
      BY <1>2, <3>1, <3>2
  <2>4. CASE Watched \in Range(list) \ {picked.id} /\ TierOf(Watched, seen) = picked.tier
    <3>1. passed' = passed + 1
      BY <1>6, <2>4 DEF Pick
    <3>2. Watched \in S \ {picked.id}
      BY <2>4 DEF In
    <3>3. Distance(Watched)' < Distance(Watched)
      BY <1>1, <2>1, <2>2, <2>3, <2>4, <3>2, CursorAdvances DEF PickInv
    <3>4. Distance(Watched) \in 0..(n - 1) /\ passed + Distance(Watched) < n
      BY <2>4, DistanceInList DEF PickInv, TurnComes
    <3>5. Distance(Watched)' \in 0..(n - 1)
      BY <1>1, <2>3, <2>4, DistanceAfter
    <3> QED
      BY <1>1, <1>2, <2>3, <2>4, <3>1, <3>3, <3>4, <3>5 DEF PickInv, TurnComes
  <2>5. CASE ~(Watched \in Range(list) \ {picked.id} /\ TierOf(Watched, seen) = picked.tier)
    <3>1. passed' = 0
      BY <1>6, <2>5 DEF Pick
    <3> QED
      BY <1>4, <2>3, <3>1
  <2> QED
    BY <2>4, <2>5
<1> QED
  BY <1>3, <1>5, <1>6

\* The sequences of a finite set's elements, each once.
LEMMA SequencesOfSet ==
    ASSUME NEW S \in SUBSET Accounts, NEW l \in SetToSeqs(S)
    PROVE  l \in Seq(Accounts) /\ \A i, j \in 1..Len(l) : l[i] = l[j] => i = j
<1> DEFINE n == Cardinality(S)
<1>1. n \in Nat
  BY PoolFinite, FS_Subset, FS_CardinalityType
<1>2. l \in [1..n -> S] /\ \A i, j \in 1..n : i # j => l[i] # l[j]
  BY DEF SetToSeqs
<1> HIDE DEF n
<1>3. l \in Seq(Accounts) /\ Len(l) = n
  BY <1>1, <1>2
<1> QED
  BY <1>2, <1>3

LEMMA PickInitInv == PickInit => PickInv
<1> SUFFICES ASSUME PickInit PROVE PickInv
  OBVIOUS
<1>1. ListIsProper /\ index \in Nat /\ passed = 0
  BY SequencesOfSet DEF PickInit, ListIsProper
<1>2. Watched \in Range(list) => Distance(Watched) \in 0..(Len(list) - 1)
  BY <1>1, DistanceInList
<1>3. Len(list) \in Nat
  BY <1>1 DEF ListIsProper
<1> QED
  BY <1>1, <1>2, <1>3 DEF PickInv, TurnComes

LEMMA RelistKeepsTurn ==
    ASSUME PickInv, NEW new \in Seq(Accounts), Relist(new),
           \A i, j \in 1..Len(new) : new[i] = new[j] => i = j
    PROVE  PickInv'
<1>1. list' = new /\ passed' = 0 /\ index' \in Nat
  BY DEF Relist, PickInv
<1>2. ListIsProper'
  BY <1>1 DEF ListIsProper
<1>3. ASSUME Watched \in Range(new) PROVE Distance(Watched)' \in 0..(Len(new) - 1)
  <2> DEFINE n == Len(new)
             p == (CHOOSE i \in DOMAIN new : new[i] = Watched) - 1
             x == index'
  <2>1. n \in Nat \ {0} /\ p \in 0..(n - 1) /\ x \in Nat
    <3> DEFINE i == CHOOSE i \in DOMAIN new : new[i] = Watched
    <3>1. n \in Nat \ {0} /\ i \in 1..n /\ p = i - 1
      BY <1>3, PlaceIn
    <3> HIDE DEF n, i, p
    <3> QED
      BY <1>1, <3>1
  <2>2. Distance(Watched)' = (p + n - (x % n)) % n
    BY <1>1 DEF Distance, Position
  <2> HIDE DEF n, p, x
  <2>3. /\ x % n \in 0..(n - 1)
        /\ (p + n - (x % n)) % n = IF p >= x % n THEN p - (x % n) ELSE p + n - (x % n)
    BY <2>1, DistanceFrom
  <2>4. Distance(Watched)' \in 0..(n - 1)
    BY <2>1, <2>2, <2>3
  <2> QED
    BY <2>4 DEF n
<1>4. TurnComes'
  <2>1. Len(new) \in Nat
    OBVIOUS
  <2> QED
    BY <1>1, <1>3, <2>1 DEF TurnComes
<1> QED
  BY <1>1, <1>2, <1>4 DEF PickInv

\* A list that lost one of its accounts.
LEMMA RemovedIsProper ==
    ASSUME ListIsProper, NEW i \in DOMAIN list
    PROVE  LET l == RemoveAt(list, i) IN
           /\ l \in Seq(Accounts)
           /\ \A j, k \in 1..Len(l) : l[j] = l[k] => j = k
<1> DEFINE l == RemoveAt(list, i)
           n == Len(list)
<1>1. n \in Nat /\ i \in 1..n /\ list \in Seq(Accounts)
  BY DEF ListIsProper
<1>2. /\ l \in Seq(Accounts)
      /\ Len(l) = n - 1
      /\ \A j \in 1..(n - 1) : l[j] = IF j < i THEN list[j] ELSE list[j + 1]
  <2> DEFINE a == SubSeq(list, 1, i - 1)
             b == SubSeq(list, i + 1, n)
  <2>1. a \in Seq(Accounts) /\ Len(a) = i - 1 /\ \A j \in 1..(i - 1) : a[j] = list[j]
    BY <1>1
  <2>2. b \in Seq(Accounts) /\ Len(b) = n - i /\ \A j \in 1..(n - i) : b[j] = list[i + j]
    BY <1>1
  <2>3. /\ a \o b \in Seq(Accounts)
        /\ Len(a \o b) = Len(a) + Len(b)
        /\ \A j \in 1..(Len(a) + Len(b)) :
             (a \o b)[j] = IF j <= Len(a) THEN a[j] ELSE b[j - Len(a)]
    <3> HIDE DEF a, b
    <3> QED
      BY <2>1, <2>2, ConcatProperties
  <2>4. l = a \o b
    BY DEF RemoveAt
  <2> HIDE DEF a, b, l, n
  <2>5. l \in Seq(Accounts) /\ Len(l) = n - 1
    <3>1. (i - 1) + (n - i) = n - 1
      BY <1>1
    <3> QED
      BY <2>1, <2>2, <2>3, <2>4, <3>1
  <2>6. ASSUME NEW j \in 1..(n - 1) PROVE l[j] = IF j < i THEN list[j] ELSE list[j + 1]
    <3>1. (i - 1) + (n - i) = n - 1 /\ j \in 1..((i - 1) + (n - i))
      BY <1>1
    <3>2. l[j] = IF j <= i - 1 THEN a[j] ELSE b[j - (i - 1)]
      BY <2>1, <2>2, <2>3, <2>4, <3>1
    <3>3. CASE j < i
      BY <1>1, <2>1, <3>2, <3>3
    <3>4. CASE i <= j
      <4>1. j - (i - 1) \in 1..(n - i) /\ i + (j - (i - 1)) = j + 1
        BY <1>1, <3>4
      <4> QED
        BY <1>1, <2>2, <3>2, <3>4, <4>1
    <3> QED
      BY <1>1, <3>3, <3>4
  <2> QED
    BY <2>5, <2>6
<1> HIDE DEF l, n
<1>3. ASSUME NEW j \in 1..(n - 1), NEW k \in 1..(n - 1), l[j] = l[k] PROVE j = k
  BY <1>1, <1>2, <1>3 DEF ListIsProper, n
<1> QED
  BY <1>2, <1>3 DEF l

LEMMA PickStepKeeps == PickInv /\ [PickNext]_pickVars => PickInv'
<1> SUFFICES ASSUME PickInv, [PickNext]_pickVars PROVE PickInv'
  OBVIOUS
<1>1. ASSUME NEW seen, NEW session, Pick(seen, session) PROVE PickInv'
  BY <1>1, PickKeepsTurn
<1>2. CASE UNCHANGED <<list, index, passed>>
  BY <1>2 DEF PickInv, ListIsProper, TurnComes, Distance, Position
<1>3. ASSUME NEW id \in Accounts \ Range(list), Relist(Append(list, id)) PROVE PickInv'
  <2> DEFINE l == Append(list, id)
             n == Len(list)
  <2>1. n \in Nat /\ list \in Seq(Accounts) /\ \A i \in 1..n : list[i] # id
    BY <1>3 DEF PickInv, ListIsProper, Range
  <2>2. l \in Seq(Accounts) /\ Len(l) = n + 1
        /\ \A i \in 1..(n + 1) : l[i] = IF i = n + 1 THEN id ELSE list[i]
    BY <2>1
  <2> HIDE DEF l
  <2>3. \A i, j \in 1..Len(l) : l[i] = l[j] => i = j
    BY <2>1, <2>2 DEF PickInv, ListIsProper
  <2> QED
    BY <1>3, <2>2, <2>3, RelistKeepsTurn DEF l
<1>4. ASSUME NEW i \in DOMAIN list, Relist(RemoveAt(list, i)) PROVE PickInv'
  BY <1>4, RemovedIsProper, RelistKeepsTurn DEF PickInv
<1>5. ASSUME NEW new \in SetToSeqs(Range(list)), Relist(new) PROVE PickInv'
  <2>1. Range(list) \subseteq Accounts
    BY DEF Range, PickInv, ListIsProper
  <2> QED
    BY <1>5, <2>1, SequencesOfSet, RelistKeepsTurn
<1> QED
  BY <1>1, <1>2, <1>3, <1>4, <1>5 DEF PickNext, Change, pickVars

(***************************************************************************)
(* Round robin, for any number of accounts: while the list stays as it is, *)
(* an account of the tier that wins is passed over less often than the     *)
(* list is long.                                                           *)
(***************************************************************************)
THEOREM TurnSafety == PickSpec => []TakesItsTurn
<1>1. PickInv => TakesItsTurn
  <2> SUFFICES ASSUME PickInv, Watched \in Range(list) PROVE passed < Len(list)
    BY DEF PickInv, TurnComes, TakesItsTurn
  <2>1. Distance(Watched) \in 0..(Len(list) - 1) /\ Len(list) \in Nat
    BY DistanceInList DEF PickInv, ListIsProper
  <2> QED
    BY <2>1 DEF PickInv, TurnComes
<1> QED
  BY <1>1, PickInitInv, PickStepKeeps, PTL DEF PickSpec

-----------------------------------------------------------------------------
(* The affinity of sessions *)

\* Every set of accounts of the list has a best one for a session.
LEMMA SomeoneIsBest ==
    ASSUME ListIsProper, NEW k \in Keys, NEW S, S \subseteq Range(list), S # {}
    PROVE  \E id \in S : \A other \in S \ {id} : Beats(id, other, k)
<1> DEFINE n == Len(list)
           score == [id \in Accounts |-> Score[k][id]]
<1>1. n \in Nat /\ list \in [1..n -> Accounts]
  BY DEF ListIsProper
<1>2. score \in [Accounts -> Nat]
  BY KeysScore
<1>3. \E b \in Nat : \A i \in 1..n : score[list[i]] <= b
  <2> DEFINE T == {m \in Nat : m <= n => \E b \in Nat : \A i \in 1..m : score[list[i]] <= b}
  <2> HIDE DEF score
  <2>1. 0 \in T
    BY <1>1
  <2>2. ASSUME NEW m \in Nat, m \in T PROVE m + 1 \in T
    <3> SUFFICES ASSUME m + 1 <= n
                 PROVE  \E b \in Nat : \A i \in 1..(m + 1) : score[list[i]] <= b
      OBVIOUS
    <3>1. PICK b \in Nat : \A i \in 1..m : score[list[i]] <= b
      BY <1>1, <2>2
    <3> DEFINE last == score[list[m + 1]]
    <3>2. last \in Nat
      BY <1>1, <1>2
    <3> DEFINE c == IF b < last THEN last ELSE b
    <3>3. c \in Nat /\ b <= c /\ last <= c
      BY <3>2
    <3>4. ASSUME NEW i \in 1..(m + 1) PROVE score[list[i]] <= c
      <4>1. CASE i = m + 1
        BY <3>3, <4>1
      <4>2. CASE i \in 1..m
        <5>1. score[list[i]] <= b /\ score[list[i]] \in Nat
          BY <1>1, <1>2, <3>1, <4>2
        <5> HIDE DEF c
        <5> QED
          BY <3>3, <5>1
      <4> QED
        BY <4>1, <4>2
    <3> QED
      BY <3>3, <3>4
  <2>3. n \in T
    BY <1>1, <2>1, <2>2, InductionOnSet
  <2> QED
    BY <1>1, <2>3
<1>4. PICK b \in Nat : \A id \in S : id \in Accounts /\ score[id] <= b
  BY <1>1, <1>3 DEF Range
<1> HIDE DEF score
<1> DEFINE Gaps == {b - score[id] : id \in S}
<1>5. Gaps \subseteq Nat /\ Gaps # {}
  BY <1>2, <1>4
<1>6. PICK g \in Gaps : \A h \in Gaps : g <= h
  BY <1>5, LeastOfSet
<1> DEFINE Top == {id \in S : b - score[id] = g}
<1>7. Top \subseteq Nat /\ Top # {}
  BY <1>4, <1>6, IdsAreNumbers
<1>8. PICK id \in Top : \A other \in Top : id <= other
  BY <1>7, LeastOfSet
<1>9. ASSUME NEW other \in S \ {id} PROVE Beats(id, other, k)
  <2>1. /\ score[id] = Score[k][id] /\ score[other] = Score[k][other]
        /\ score[id] \in Nat /\ score[other] \in Nat
        /\ id \in Nat /\ other \in Nat
    BY <1>2, <1>4, <1>7, <1>8, IdsAreNumbers DEF score
  <2>2. b - score[id] = g /\ g <= b - score[other]
    BY <1>6, <1>8
  <2>3. score[id] > score[other] \/ other \in Top
    BY <2>1, <2>2
  <2>4. other \in Top => id < other /\ score[id] = score[other]
    BY <1>8, <1>9, <2>1, <2>2
  <2> QED
    BY <2>1, <2>3, <2>4 DEF Beats
<1> QED
  BY <1>8, <1>9

LEMMA NotBothBeat ==
    ASSUME NEW k \in Keys, NEW id \in Accounts, NEW other \in Accounts
    PROVE  ~(Beats(id, other, k) /\ Beats(other, id, k))
<1>1. Score[k][id] \in Nat /\ Score[k][other] \in Nat /\ id \in Nat /\ other \in Nat
  BY KeysScore, IdsAreNumbers
<1> QED
  BY <1>1 DEF Beats

\* What the pick of a session in a tier is, now and after a step.
LEMMA BestIsBest ==
    ASSUME ListIsProper, NEW k \in Keys, NEW tier \in {"preferred", "overage"},
           In(tier, {}) # {}
    PROVE  LET best == BestOf(tier, {}, k).id IN
           best \in In(tier, {}) /\ \A other \in In(tier, {}) \ {best} : Beats(best, other, k)
<1> DEFINE S == In(tier, {})
<1>1. S \subseteq Range(list) /\ S # {}
  BY DEF In
<1>2. \E id \in S : \A other \in S \ {id} : Beats(id, other, k)
  BY <1>1, SomeoneIsBest
<1>3. BestOf(tier, {}, k).id = CHOOSE id \in S : \A other \in S \ {id} : Beats(id, other, k)
  BY KeysScore DEF BestOf, Before
<1> HIDE DEF S
<1> QED
  BY <1>2, <1>3 DEF S

Routed == {"preferred", "overage"}

\* What each session would be given, and who stands in each tier.
Choice == [k \in Keys |-> PickFor({}, k)]
Tiers == [t \in Routed |-> In(t, {})]

\* A session's choice is its best account of the first tier that has one.
BestFor(k, tiers, choice) ==
    /\ tiers["preferred"] # {} => choice.tier = "preferred"
    /\ tiers["preferred"] = {} /\ tiers["overage"] # {} => choice.tier = "overage"
    /\ choice.tier \in Routed =>
         /\ choice.id \in tiers[choice.tier]
         /\ \A other \in tiers[choice.tier] \ {choice.id} : Beats(choice.id, other, k)

LEMMA ChoiceIsBest ==
    PickInv => /\ Tiers \in [Routed -> SUBSET Accounts]
               /\ \A k \in Keys : BestFor(k, Tiers, Choice[k])
<1> SUFFICES ASSUME PickInv
             PROVE  /\ Tiers \in [Routed -> SUBSET Accounts]
                    /\ \A k \in Keys : BestFor(k, Tiers, Choice[k])
  OBVIOUS
<1>1. Tiers \in [Routed -> SUBSET Accounts]
  BY DEF Tiers, Routed, In, PickInv, ListIsProper, Range
<1>2. ASSUME NEW k \in Keys PROVE BestFor(k, Tiers, Choice[k])
  <2> DEFINE choice == PickFor({}, k)
  <2>1. Choice[k] = choice /\ \A t \in Routed : Tiers[t] = In(t, {})
    BY DEF Choice, Tiers
  <2>2. /\ In("preferred", {}) # {} => choice.tier = "preferred"
        /\ In("preferred", {}) = {} /\ In("overage", {}) # {} => choice.tier = "overage"
    BY DEF PickFor, BestOf
  <2>3. ASSUME choice.tier \in Routed
        PROVE  /\ choice.id \in In(choice.tier, {})
               /\ \A other \in In(choice.tier, {}) \ {choice.id} : Beats(choice.id, other, k)
    BY <2>3, PickedFrom, BestIsBest DEF Routed, PickInv
  <2> HIDE DEF choice
  <2> QED
    BY <2>1, <2>2, <2>3 DEF BestFor, Routed
<1> QED
  BY <1>1, <1>2

\* Two tables of tiers, and the account chosen before in the same tier after.
LEMMA SameBest ==
    ASSUME NEW k \in Keys,
           NEW tiers \in [Routed -> SUBSET Accounts], NEW old, BestFor(k, tiers, old),
           NEW tiers2 \in [Routed -> SUBSET Accounts], NEW new, BestFor(k, tiers2, new),
           old.tier \in Routed, old.id \in tiers2[old.tier],
           \A t \in Routed : new.id \in tiers2[t] => new.id \in tiers[t]
    PROVE  new.id = old.id
<1>1. new.tier \in Routed /\ new.id \in tiers2[new.tier]
  BY DEF BestFor, Routed
<1>2. new.tier = old.tier
  BY <1>1 DEF BestFor, Routed
<1>3. new.id \in Accounts /\ old.id \in Accounts
  BY <1>1
<1> QED
  BY <1>1, <1>2, <1>3, NotBothBeat DEF BestFor

(***************************************************************************)
(* A session stays with its account, for any accounts, scores and          *)
(* standings, however the list is reordered: as long as the account keeps  *)
(* its tier, the session changes only to one that was added or has changed *)
(* tiers.                                                                  *)
(***************************************************************************)
THEOREM AffinitySafety == PickSpec => SessionStays
<1> DEFINE Best == /\ Tiers \in [Routed -> SUBSET Accounts]
                   /\ \A k \in Keys : BestFor(k, Tiers, Choice[k])
<1>1. PickInv => Best
  BY ChoiceIsBest
<1>2. ASSUME Best, Best', NEW k \in Keys, NEW old, old = Choice[k], NEW new, new = Choice'[k],
             old.tier \in Routed, Keeps(old.id), Keeps(new.id)
      PROVE  new.id = old.id
  <2>1. BestFor(k, Tiers, old) /\ BestFor(k, Tiers', new)
    BY <1>2 DEF BestFor, Beats
  <2>2. \A id, t : Keeps(id) /\ t \in Routed => (id \in Tiers[t] <=> id \in Tiers'[t])
    BY DEF Keeps, Tiers, In
  <2>3. old.id \in Tiers'[old.tier]
    BY <1>2, <2>1, <2>2 DEF BestFor
  <2>4. \A t \in Routed : new.id \in Tiers'[t] => new.id \in Tiers[t]
    BY <1>2, <2>2
  <2> QED
    BY <1>2, <2>1, <2>3, <2>4, SameBest
<1>3. Best /\ Best' =>
        [\A s \in Keys :
           \E old \in {PickFor({}, s)}, new \in {PickFor({}, s)'} :
              old.tier \in {"preferred", "overage"} /\ Keeps(old.id)
                => new.id = old.id \/ ~Keeps(new.id)]_pickVars
  <2> HIDE DEF Best
  <2> SUFFICES ASSUME Best, Best', NEW s \in Keys,
                      NEW old, old = Choice[s], NEW new, new = Choice'[s]
               PROVE  old.tier \in Routed /\ Keeps(old.id) => new.id = old.id \/ ~Keeps(new.id)
    BY DEF Choice, Routed
  <2> QED
    BY <1>2
<1> QED
  BY <1>1, <1>3, PickInitInv, PickStepKeeps, PTL DEF PickSpec, SessionStays

-----------------------------------------------------------------------------
(* The dispatch: for any accounts, any budgets and any conversation. *)

OnLease == pc \in {"prepare", "gate", "sent"}

(***************************************************************************)
(* Something was sent: there is an error to answer with, in lastErr or, at *)
(* the gate, in sendErr.                                                   *)
(***************************************************************************)
ErrorKept ==
    /\ pc # "done" => answer = None
    /\ pc \in {"pick", "verify", "prepare"} /\ sends > 0 => lastErr # None
    /\ pc = "gate" /\ sends > 0 => lastErr # None \/ sendErr # None
    /\ pc = "gate" /\ sends # before => sends > 0
    /\ pc = "sent" => sends > 0

(***************************************************************************)
(* The request built is the conversation, without reasoning once it was    *)
(* stripped; and what was refused is out of both.                          *)
(***************************************************************************)
RequestFits ==
    /\ areq \in Seq(BOOLEAN) /\ kreq \in Seq(BOOLEAN)
    /\ pc # "done" =>
         /\ refused.reasoning => stripped
         /\ Len(areq) < refused.length
    /\ pc \in {"gate", "sent"} =>
         /\ stripped => ~HasReasoning(kreq)
         /\ Len(kreq) = Len(areq)

(***************************************************************************)
(* An account that is not picked again has a fate, or is the one at hand,  *)
(* or the budget of lease refreshes is spent.                              *)
(***************************************************************************)
TriedHasFate ==
    /\ pc # "done" =>
         \A id \in tried : \/ fate[id] # "none"
                           \/ refreshes = MaxRefreshes
                           \/ OnLease /\ id = at
    /\ pc = "gate" /\ sends # before => fate[at] # "none"
    /\ pc = "sent" => fate[at] # "none"

DispatchInv == DispatchTypeOK /\ ErrorKept /\ RequestFits /\ TriedHasFate /\ PoolErrorMeansUnsent

USE BudgetsAreNat, NoneIsNoAnswer

-----------------------------------------------------------------------------

\* A conversation stripped of its reasoning is as long as before.
LEMMA StrippedFits ==
    ASSUME NEW units \in Seq(BOOLEAN)
    PROVE  /\ WithoutReasoning(units) \in Seq(BOOLEAN)
           /\ Len(WithoutReasoning(units)) = Len(units)
           /\ ~HasReasoning(WithoutReasoning(units))
<1> DEFINE w == WithoutReasoning(units)
<1>1. DOMAIN units = 1..Len(units) /\ Len(units) \in Nat
  OBVIOUS
<1>2. w \in [1..Len(units) -> BOOLEAN]
  BY <1>1 DEF WithoutReasoning
<1>3. w \in Seq(BOOLEAN) /\ Len(w) = Len(units)
  BY <1>1, <1>2
<1>4. \A i \in DOMAIN w : w[i] = FALSE
  BY DEF WithoutReasoning
<1> QED
  BY <1>3, <1>4 DEF HasReasoning

\* The conversation less its oldest unit.
LEMMA TailFits ==
    ASSUME NEW units \in Seq(BOOLEAN), Len(units) > 1
    PROVE  Tail(units) \in Seq(BOOLEAN) /\ Len(Tail(units)) = Len(units) - 1
  OBVIOUS

\* Initially.
LEMMA DispatchInitInv == DispatchInit => DispatchInv
<1> SUFFICES ASSUME DispatchInit PROVE DispatchInv
  OBVIOUS
<1>1. areq \in Seq(BOOLEAN) /\ Len(areq) < MaxUnits + 1
  <2>1. PICK n \in 0..MaxUnits : areq \in [1..n -> BOOLEAN]
    BY DEF DispatchInit, Conversations
  <2>2. areq \in Seq(BOOLEAN) /\ Len(areq) = n
    BY <2>1
  <2> QED
    BY <2>1, <2>2
<1>2. DispatchTypeOK
  <2>1. sends \in 0..MaxSends /\ refreshes \in 0..MaxRefreshes /\ trims \in 0..MaxTrims
        /\ before \in 0..MaxSends /\ changes \in 0..MaxChanges
    BY DEF DispatchInit
  <2>2. refused \in [reasoning : BOOLEAN, length : Nat]
    BY DEF DispatchInit
  <2>3. fate \in [Ids -> {"none", "sent", "no_model", "unproven", "failed"}]
    BY DEF DispatchInit
  <2> QED
    BY <1>1, <2>1, <2>2, <2>3 DEF DispatchInit, DispatchTypeOK
<1> QED
  BY <1>1, <1>2 DEF DispatchInit, DispatchInv, ErrorKept, RequestFits, TriedHasFate, OnLease,
                    PoolErrorMeansUnsent, PoolErrors

-----------------------------------------------------------------------------

(* Each part of the invariant, action by action *)

\* No step loses the error to answer with.
LEMMA ErrorKeptStep == DispatchTypeOK /\ ErrorKept /\ [DispatchNext]_dispatchVars => ErrorKept'
<1> SUFFICES ASSUME DispatchTypeOK /\ ErrorKept, [DispatchNext]_dispatchVars PROVE ErrorKept'
  OBVIOUS
<1>1. CASE PickReady
  BY <1>1 DEF PickReady, LeaseOn, StandingAs, SomeDepleted, progressVars,
     requestVars, errorVars, accountVars, historyVars, ErrorKept, DispatchTypeOK,
     Answers, Errors, Faults, PoolErrors
<1>2. CASE PickUnproven
  BY <1>2 DEF PickUnproven, StandingAs, SomeDepleted, progressVars,
     requestVars, errorVars, accountVars, historyVars, ErrorKept, DispatchTypeOK,
     Answers, Errors, Faults, PoolErrors
<1>3. CASE PickCooling
  BY <1>3 DEF PickCooling, LeaseOn, StandingAs, SomeDepleted, progressVars,
     requestVars, errorVars, accountVars, historyVars, ErrorKept, DispatchTypeOK,
     Answers, Errors, Faults, PoolErrors
<1>4. CASE GiveUp
  BY <1>4 DEF GiveUp, Returned, Verdict, StandingAs, SomeDepleted,
     progressVars, requestVars, errorVars, accountVars, historyVars,
     ErrorKept, DispatchTypeOK, Answers, Errors, Faults, PoolErrors
<1>5. CASE Verify
  BY <1>5 DEF Verify, Requeue, Keep, Becomes, progressVars, requestVars,
     errorVars, accountVars, historyVars, ErrorKept, DispatchTypeOK, Answers,
     Errors, Faults, PoolErrors
<1>6. CASE LeaveLease
  BY <1>6 DEF LeaveLease, Requeue, Keep, Becomes, progressVars,
     requestVars, errorVars, accountVars, historyVars, ErrorKept, DispatchTypeOK,
     Answers, Errors, Faults, PoolErrors
<1>7. CASE Prepare
  BY <1>7 DEF Prepare, ToSend, Rebuild, progressVars, requestVars,
     errorVars, accountVars, historyVars, ErrorKept, DispatchTypeOK, Answers,
     Errors, Faults, PoolErrors
<1>8. CASE Unbuildable
  BY <1>8 DEF Unbuildable, Returned, progressVars, requestVars, errorVars,
     accountVars, historyVars, ErrorKept, DispatchTypeOK, Answers, Errors, Faults,
     PoolErrors
<1>9. CASE Superseded
  BY <1>9 DEF Superseded, Unsent, Requeue, Met, StandingAs, progressVars,
     requestVars, errorVars, accountVars, historyVars, ErrorKept, DispatchTypeOK,
     Answers, Errors, Faults, PoolErrors
<1>10. CASE Invalid
  BY <1>10 DEF Invalid, Unsent, Requeue, Keep, Met, progressVars,
     requestVars, errorVars, accountVars, historyVars, ErrorKept, DispatchTypeOK,
     Answers, Errors, Faults, PoolErrors
<1>11. CASE Exhausted
  BY <1>11 DEF Exhausted, Returned, progressVars, requestVars, errorVars,
     accountVars, historyVars, ErrorKept, DispatchTypeOK, Answers, Errors, Faults,
     PoolErrors
<1>12. CASE NoToken
  BY <1>12 DEF NoToken, Unsent, Requeue, Keep, Becomes, progressVars,
     requestVars, errorVars, accountVars, historyVars, ErrorKept, DispatchTypeOK,
     Answers, Errors, Faults, PoolErrors
<1>13. CASE SendOnce
  BY <1>13 DEF SendOnce, Becomes, progressVars, requestVars, errorVars,
     accountVars, historyVars, ErrorKept, DispatchTypeOK, Answers, Errors, Faults,
     PoolErrors
<1>14. CASE AuthRetry
  BY <1>14 DEF AuthRetry, progressVars, requestVars, errorVars,
     accountVars, historyVars, ErrorKept, DispatchTypeOK, Answers, Errors, Faults,
     PoolErrors
<1>15. CASE RetryStripped
  BY <1>15 DEF RetryStripped, ToSend, NoteRefusal, Strip, progressVars,
     requestVars, errorVars, accountVars, historyVars, ErrorKept, DispatchTypeOK,
     Answers, Errors, Faults, PoolErrors
<1>16. CASE RetryTrimmed
  BY <1>16 DEF RetryTrimmed, ToSend, NoteRefusal, Trim, Rebuild,
     progressVars, requestVars, errorVars, accountVars, historyVars,
     ErrorKept, DispatchTypeOK, Answers, Errors, Faults, PoolErrors
<1>17. CASE NextAccount
  BY <1>17 DEF NextAccount, progressVars, requestVars, errorVars,
     accountVars, historyVars, ErrorKept, DispatchTypeOK, Answers, Errors, Faults,
     PoolErrors
<1>18. CASE Open
  BY <1>18 DEF Open, Returned, progressVars, requestVars, errorVars,
     accountVars, historyVars, ErrorKept, DispatchTypeOK, Answers, Errors, Faults,
     PoolErrors
<1>19. CASE Surface
  BY <1>19 DEF Surface, Returned, NoteRefusal, progressVars, requestVars,
     errorVars, accountVars, historyVars, ErrorKept, DispatchTypeOK, Answers,
     Errors, Faults, PoolErrors
<1>20. CASE Cancel
  BY <1>20 DEF Cancel, Returned, progressVars, requestVars, errorVars,
     accountVars, historyVars, ErrorKept, DispatchTypeOK, Answers, Errors, Faults,
     PoolErrors
<1>21. CASE ChangeElsewhere
  BY <1>21 DEF ChangeElsewhere, progressVars, requestVars, errorVars, accountVars,
     historyVars, ErrorKept, DispatchTypeOK, Answers, Errors, Faults, PoolErrors
<1>22. CASE UNCHANGED dispatchVars
  BY <1>22 DEF dispatchVars, progressVars, requestVars, errorVars, accountVars,
     historyVars, ErrorKept, DispatchTypeOK, Answers, Errors, Faults, PoolErrors
<1> QED
  BY <1>1, <1>2, <1>3, <1>4, <1>5, <1>6, <1>7, <1>8, <1>9, <1>10, <1>11,
     <1>12, <1>13, <1>14, <1>15, <1>16, <1>17, <1>18, <1>19, <1>20, <1>21,
     <1>22 DEF DispatchNext, Step

\* No step puts an account aside without a reason.
LEMMA FateStep == DispatchTypeOK /\ TriedHasFate /\ [DispatchNext]_dispatchVars => TriedHasFate'
<1> SUFFICES ASSUME DispatchTypeOK /\ TriedHasFate, [DispatchNext]_dispatchVars PROVE TriedHasFate'
  OBVIOUS
<1>1. CASE PickReady
  BY <1>1 DEF PickReady, LeaseOn, StandingAs, SomeDepleted, progressVars,
     requestVars, errorVars, accountVars, historyVars, TriedHasFate,
     OnLease, DispatchTypeOK
<1>2. CASE PickUnproven
  BY <1>2 DEF PickUnproven, StandingAs, SomeDepleted, progressVars,
     requestVars, errorVars, accountVars, historyVars, TriedHasFate,
     OnLease, DispatchTypeOK
<1>3. CASE PickCooling
  BY <1>3 DEF PickCooling, LeaseOn, StandingAs, SomeDepleted, progressVars,
     requestVars, errorVars, accountVars, historyVars, TriedHasFate,
     OnLease, DispatchTypeOK
<1>4. CASE GiveUp
  BY <1>4 DEF GiveUp, Returned, Verdict, StandingAs, SomeDepleted,
     progressVars, requestVars, errorVars, accountVars, historyVars,
     TriedHasFate, OnLease, DispatchTypeOK
<1>5. CASE Verify
  <2>1. \A id \in tried' : id # at => id \in tried /\ fate'[id] = fate[id]
    BY <1>5 DEF Verify, Requeue, Keep, Becomes, DispatchTypeOK
  <2>2. at \in tried' => \/ fate'[at] # "none"
                         \/ at \in tried /\ fate' = fate
    BY <1>5 DEF Verify, Requeue, Keep, Becomes, DispatchTypeOK
  <2>3. refreshes < MaxRefreshes \/ refreshes' = refreshes
    BY <1>5, Zenon DEF Verify, Requeue, Keep
  <2> QED
    BY <1>5, <2>1, <2>2, <2>3 DEF Verify, TriedHasFate, OnLease, DispatchTypeOK
<1>6. CASE LeaveLease
  BY <1>6 DEF LeaveLease, Requeue, Keep, Becomes, progressVars,
     requestVars, errorVars, accountVars, historyVars, TriedHasFate,
     OnLease, DispatchTypeOK
<1>7. CASE Prepare
  BY <1>7 DEF Prepare, ToSend, Rebuild, progressVars, requestVars,
     errorVars, accountVars, historyVars, TriedHasFate, OnLease, DispatchTypeOK
<1>8. CASE Unbuildable
  BY <1>8 DEF Unbuildable, Returned, progressVars, requestVars, errorVars,
     accountVars, historyVars, TriedHasFate, OnLease, DispatchTypeOK
<1>9. CASE Superseded
  BY <1>9 DEF Superseded, Unsent, Requeue, Met, StandingAs, progressVars,
     requestVars, errorVars, accountVars, historyVars, TriedHasFate,
     OnLease, DispatchTypeOK
<1>10. CASE Invalid
  <2>1. \A id \in tried' : id # at => id \in tried
    BY <1>10 DEF Invalid, Requeue, Keep
  <2>2. at \in tried' => refreshes = MaxRefreshes \/ sends # before
    BY <1>10 DEF Invalid, Unsent, Requeue, Keep, DispatchTypeOK
  <2>3. refreshes = MaxRefreshes => refreshes' = refreshes
    BY <1>10 DEF Invalid, Requeue, Keep
  <2> QED
    BY <1>10, <2>1, <2>2, <2>3 DEF Invalid, Met, TriedHasFate, OnLease, DispatchTypeOK,
       requestVars, accountVars, historyVars
<1>11. CASE Exhausted
  BY <1>11 DEF Exhausted, Returned, progressVars, requestVars, errorVars,
     accountVars, historyVars, TriedHasFate, OnLease, DispatchTypeOK
<1>12. CASE NoToken
  BY <1>12 DEF NoToken, Unsent, Requeue, Keep, Becomes, progressVars,
     requestVars, errorVars, accountVars, historyVars, TriedHasFate,
     OnLease, DispatchTypeOK
<1>13. CASE SendOnce
  BY <1>13 DEF SendOnce, Becomes, progressVars, requestVars, errorVars,
     accountVars, historyVars, TriedHasFate, OnLease, DispatchTypeOK
<1>14. CASE AuthRetry
  BY <1>14 DEF AuthRetry, progressVars, requestVars, errorVars,
     accountVars, historyVars, TriedHasFate, OnLease, DispatchTypeOK
<1>15. CASE RetryStripped
  BY <1>15 DEF RetryStripped, ToSend, NoteRefusal, Strip, progressVars,
     requestVars, errorVars, accountVars, historyVars, TriedHasFate,
     OnLease, DispatchTypeOK
<1>16. CASE RetryTrimmed
  BY <1>16 DEF RetryTrimmed, ToSend, NoteRefusal, Trim, Rebuild,
     progressVars, requestVars, errorVars, accountVars, historyVars,
     TriedHasFate, OnLease, DispatchTypeOK
<1>17. CASE NextAccount
  BY <1>17 DEF NextAccount, progressVars, requestVars, errorVars,
     accountVars, historyVars, TriedHasFate, OnLease, DispatchTypeOK
<1>18. CASE Open
  BY <1>18 DEF Open, Returned, progressVars, requestVars, errorVars,
     accountVars, historyVars, TriedHasFate, OnLease, DispatchTypeOK
<1>19. CASE Surface
  BY <1>19 DEF Surface, Returned, NoteRefusal, progressVars, requestVars,
     errorVars, accountVars, historyVars, TriedHasFate, OnLease, DispatchTypeOK
<1>20. CASE Cancel
  BY <1>20 DEF Cancel, Returned, progressVars, requestVars, errorVars,
     accountVars, historyVars, TriedHasFate, OnLease, DispatchTypeOK
<1>21. CASE ChangeElsewhere
  BY <1>21 DEF ChangeElsewhere, progressVars, requestVars, errorVars, accountVars,
     historyVars, TriedHasFate, OnLease, DispatchTypeOK
<1>22. CASE UNCHANGED dispatchVars
  BY <1>22 DEF dispatchVars, progressVars, requestVars, errorVars, accountVars,
     historyVars, TriedHasFate, OnLease, DispatchTypeOK
<1> QED
  BY <1>1, <1>2, <1>3, <1>4, <1>5, <1>6, <1>7, <1>8, <1>9, <1>10, <1>11,
     <1>12, <1>13, <1>14, <1>15, <1>16, <1>17, <1>18, <1>19, <1>20, <1>21,
     <1>22 DEF DispatchNext, Step

\* No step blames the pool after a send.
LEMMA PoolErrorStep == DispatchTypeOK /\ ErrorKept /\ PoolErrorMeansUnsent /\ [DispatchNext]_dispatchVars => PoolErrorMeansUnsent'
<1> SUFFICES ASSUME DispatchTypeOK /\ ErrorKept /\ PoolErrorMeansUnsent, [DispatchNext]_dispatchVars PROVE PoolErrorMeansUnsent'
  OBVIOUS
<1>1. CASE PickReady
  BY <1>1 DEF PickReady, LeaseOn, StandingAs, SomeDepleted, progressVars,
     requestVars, errorVars, accountVars, historyVars,
     PoolErrorMeansUnsent, ErrorKept, DispatchTypeOK, PoolErrors, Errors, Faults,
     Answers
<1>2. CASE PickUnproven
  BY <1>2 DEF PickUnproven, StandingAs, SomeDepleted, progressVars,
     requestVars, errorVars, accountVars, historyVars,
     PoolErrorMeansUnsent, ErrorKept, DispatchTypeOK, PoolErrors, Errors, Faults,
     Answers
<1>3. CASE PickCooling
  BY <1>3 DEF PickCooling, LeaseOn, StandingAs, SomeDepleted, progressVars,
     requestVars, errorVars, accountVars, historyVars,
     PoolErrorMeansUnsent, ErrorKept, DispatchTypeOK, PoolErrors, Errors, Faults,
     Answers
<1>4. CASE GiveUp
  BY <1>4 DEF GiveUp, Returned, Verdict, StandingAs, SomeDepleted,
     progressVars, requestVars, errorVars, accountVars, historyVars,
     PoolErrorMeansUnsent, ErrorKept, DispatchTypeOK, PoolErrors, Errors, Faults,
     Answers
<1>5. CASE Verify
  BY <1>5 DEF Verify, Requeue, Keep, Becomes, progressVars, requestVars,
     errorVars, accountVars, historyVars, PoolErrorMeansUnsent, ErrorKept,
     DispatchTypeOK, PoolErrors, Errors, Faults, Answers
<1>6. CASE LeaveLease
  BY <1>6 DEF LeaveLease, Requeue, Keep, Becomes, progressVars,
     requestVars, errorVars, accountVars, historyVars,
     PoolErrorMeansUnsent, ErrorKept, DispatchTypeOK, PoolErrors, Errors, Faults,
     Answers
<1>7. CASE Prepare
  BY <1>7 DEF Prepare, ToSend, Rebuild, progressVars, requestVars,
     errorVars, accountVars, historyVars, PoolErrorMeansUnsent, ErrorKept,
     DispatchTypeOK, PoolErrors, Errors, Faults, Answers
<1>8. CASE Unbuildable
  BY <1>8 DEF Unbuildable, Returned, progressVars, requestVars, errorVars,
     accountVars, historyVars, PoolErrorMeansUnsent, ErrorKept, DispatchTypeOK,
     PoolErrors, Errors, Faults, Answers
<1>9. CASE Superseded
  BY <1>9 DEF Superseded, Unsent, Requeue, Met, StandingAs, progressVars,
     requestVars, errorVars, accountVars, historyVars,
     PoolErrorMeansUnsent, ErrorKept, DispatchTypeOK, PoolErrors, Errors, Faults,
     Answers
<1>10. CASE Invalid
  BY <1>10 DEF Invalid, Unsent, Requeue, Keep, Met, progressVars,
     requestVars, errorVars, accountVars, historyVars,
     PoolErrorMeansUnsent, ErrorKept, DispatchTypeOK, PoolErrors, Errors, Faults,
     Answers
<1>11. CASE Exhausted
  BY <1>11 DEF Exhausted, Returned, progressVars, requestVars, errorVars,
     accountVars, historyVars, PoolErrorMeansUnsent, ErrorKept, DispatchTypeOK,
     PoolErrors, Errors, Faults, Answers
<1>12. CASE NoToken
  BY <1>12 DEF NoToken, Unsent, Requeue, Keep, Becomes, progressVars,
     requestVars, errorVars, accountVars, historyVars,
     PoolErrorMeansUnsent, ErrorKept, DispatchTypeOK, PoolErrors, Errors, Faults,
     Answers
<1>13. CASE SendOnce
  BY <1>13 DEF SendOnce, Becomes, progressVars, requestVars, errorVars,
     accountVars, historyVars, PoolErrorMeansUnsent, ErrorKept, DispatchTypeOK,
     PoolErrors, Errors, Faults, Answers
<1>14. CASE AuthRetry
  BY <1>14 DEF AuthRetry, progressVars, requestVars, errorVars,
     accountVars, historyVars, PoolErrorMeansUnsent, ErrorKept, DispatchTypeOK,
     PoolErrors, Errors, Faults, Answers
<1>15. CASE RetryStripped
  BY <1>15 DEF RetryStripped, ToSend, NoteRefusal, Strip, progressVars,
     requestVars, errorVars, accountVars, historyVars,
     PoolErrorMeansUnsent, ErrorKept, DispatchTypeOK, PoolErrors, Errors, Faults,
     Answers
<1>16. CASE RetryTrimmed
  BY <1>16 DEF RetryTrimmed, ToSend, NoteRefusal, Trim, Rebuild,
     progressVars, requestVars, errorVars, accountVars, historyVars,
     PoolErrorMeansUnsent, ErrorKept, DispatchTypeOK, PoolErrors, Errors, Faults,
     Answers
<1>17. CASE NextAccount
  BY <1>17 DEF NextAccount, progressVars, requestVars, errorVars,
     accountVars, historyVars, PoolErrorMeansUnsent, ErrorKept, DispatchTypeOK,
     PoolErrors, Errors, Faults, Answers
<1>18. CASE Open
  BY <1>18 DEF Open, Returned, progressVars, requestVars, errorVars,
     accountVars, historyVars, PoolErrorMeansUnsent, ErrorKept, DispatchTypeOK,
     PoolErrors, Errors, Faults, Answers
<1>19. CASE Surface
  BY <1>19 DEF Surface, Returned, NoteRefusal, progressVars, requestVars,
     errorVars, accountVars, historyVars, PoolErrorMeansUnsent, ErrorKept,
     DispatchTypeOK, PoolErrors, Errors, Faults, Answers
<1>20. CASE Cancel
  BY <1>20 DEF Cancel, Returned, progressVars, requestVars, errorVars,
     accountVars, historyVars, PoolErrorMeansUnsent, ErrorKept, DispatchTypeOK,
     PoolErrors, Errors, Faults, Answers
<1>21. CASE ChangeElsewhere
  BY <1>21 DEF ChangeElsewhere, progressVars, requestVars, errorVars, accountVars,
     historyVars, PoolErrorMeansUnsent, ErrorKept, DispatchTypeOK, PoolErrors,
     Errors, Faults, Answers
<1>22. CASE UNCHANGED dispatchVars
  BY <1>22 DEF dispatchVars, progressVars, requestVars, errorVars, accountVars,
     historyVars, PoolErrorMeansUnsent, ErrorKept, DispatchTypeOK, PoolErrors,
     Errors, Faults, Answers
<1> QED
  BY <1>1, <1>2, <1>3, <1>4, <1>5, <1>6, <1>7, <1>8, <1>9, <1>10, <1>11,
     <1>12, <1>13, <1>14, <1>15, <1>16, <1>17, <1>18, <1>19, <1>20, <1>21,
     <1>22 DEF DispatchNext, Step

\* No step sends again what was refused.
LEMMA RequestStep == DispatchTypeOK /\ RequestFits /\ [DispatchNext]_dispatchVars => RequestFits'
<1> SUFFICES ASSUME DispatchTypeOK /\ RequestFits, [DispatchNext]_dispatchVars PROVE RequestFits'
  OBVIOUS
<1>1. CASE PickReady
  BY <1>1 DEF PickReady, LeaseOn, StandingAs, SomeDepleted, progressVars,
     requestVars, errorVars, accountVars, historyVars, RequestFits, DispatchTypeOK
<1>2. CASE PickUnproven
  BY <1>2 DEF PickUnproven, StandingAs, SomeDepleted, progressVars,
     requestVars, errorVars, accountVars, historyVars, RequestFits, DispatchTypeOK
<1>3. CASE PickCooling
  BY <1>3 DEF PickCooling, LeaseOn, StandingAs, SomeDepleted, progressVars,
     requestVars, errorVars, accountVars, historyVars, RequestFits, DispatchTypeOK
<1>4. CASE GiveUp
  BY <1>4 DEF GiveUp, Returned, Verdict, StandingAs, SomeDepleted,
     progressVars, requestVars, errorVars, accountVars, historyVars,
     RequestFits, DispatchTypeOK
<1>5. CASE Verify
  BY <1>5 DEF Verify, Requeue, Keep, Becomes, progressVars, requestVars,
     errorVars, accountVars, historyVars, RequestFits, DispatchTypeOK
<1>6. CASE LeaveLease
  BY <1>6 DEF LeaveLease, Requeue, Keep, Becomes, progressVars,
     requestVars, errorVars, accountVars, historyVars, RequestFits, DispatchTypeOK
<1>7. CASE Prepare
  BY <1>7, StrippedFits DEF Prepare, ToSend, Rebuild, historyVars, RequestFits, DispatchTypeOK
<1>8. CASE Unbuildable
  BY <1>8 DEF Unbuildable, Returned, progressVars, requestVars, errorVars,
     accountVars, historyVars, RequestFits, DispatchTypeOK
<1>9. CASE Superseded
  BY <1>9 DEF Superseded, Unsent, Requeue, Met, StandingAs, progressVars,
     requestVars, errorVars, accountVars, historyVars, RequestFits, DispatchTypeOK
<1>10. CASE Invalid
  BY <1>10 DEF Invalid, Unsent, Requeue, Keep, Met, progressVars,
     requestVars, errorVars, accountVars, historyVars, RequestFits, DispatchTypeOK
<1>11. CASE Exhausted
  BY <1>11 DEF Exhausted, Returned, progressVars, requestVars, errorVars,
     accountVars, historyVars, RequestFits, DispatchTypeOK
<1>12. CASE NoToken
  BY <1>12 DEF NoToken, Unsent, Requeue, Keep, Becomes, progressVars,
     requestVars, errorVars, accountVars, historyVars, RequestFits, DispatchTypeOK
<1>13. CASE SendOnce
  BY <1>13 DEF SendOnce, Becomes, progressVars, requestVars, errorVars,
     accountVars, historyVars, RequestFits, DispatchTypeOK
<1>14. CASE AuthRetry
  BY <1>14 DEF AuthRetry, progressVars, requestVars, errorVars,
     accountVars, historyVars, RequestFits, DispatchTypeOK
<1>15. CASE RetryStripped
  BY <1>15, StrippedFits DEF RetryStripped, ToSend, NoteRefusal, Strip, RequestFits, DispatchTypeOK
<1>16. CASE RetryTrimmed
  <2>1. /\ areq' \in Seq(BOOLEAN) /\ Len(areq') = Len(areq) - 1
        /\ stripped' = stripped
    BY <1>16, TailFits DEF RetryTrimmed, Trim, RequestFits
  <2>2. /\ kreq' \in Seq(BOOLEAN) /\ Len(kreq') = Len(areq')
        /\ stripped => ~HasReasoning(kreq')
    BY <1>16, <2>1, StrippedFits DEF RetryTrimmed, Trim, Rebuild
  <2>3. refused' = [refused EXCEPT !.length = Len(kreq)]
    BY <1>16 DEF RetryTrimmed, NoteRefusal
  <2>4. /\ refused'.length = Len(kreq)
        /\ refused'.reasoning = refused.reasoning
    BY <2>3 DEF DispatchTypeOK
  <2>5. Len(kreq) = Len(areq) /\ Len(areq) \in Nat
    BY <1>16 DEF RetryTrimmed, RequestFits
  <2> QED
    BY <1>16, <2>1, <2>2, <2>4, <2>5 DEF RetryTrimmed, ToSend, RequestFits
<1>17. CASE NextAccount
  BY <1>17 DEF NextAccount, progressVars, requestVars, errorVars,
     accountVars, historyVars, RequestFits, DispatchTypeOK
<1>18. CASE Open
  BY <1>18 DEF Open, Returned, progressVars, requestVars, errorVars,
     accountVars, historyVars, RequestFits, DispatchTypeOK
<1>19. CASE Surface
  BY <1>19 DEF Surface, Returned, NoteRefusal, progressVars, requestVars,
     errorVars, accountVars, historyVars, RequestFits, DispatchTypeOK
<1>20. CASE Cancel
  BY <1>20 DEF Cancel, Returned, progressVars, requestVars, errorVars,
     accountVars, historyVars, RequestFits, DispatchTypeOK
<1>21. CASE ChangeElsewhere
  BY <1>21 DEF ChangeElsewhere, progressVars, requestVars, errorVars, accountVars,
     historyVars, RequestFits, DispatchTypeOK
<1>22. CASE UNCHANGED dispatchVars
  BY <1>22 DEF dispatchVars, progressVars, requestVars, errorVars, accountVars,
     historyVars, RequestFits, DispatchTypeOK
<1> QED
  BY <1>1, <1>2, <1>3, <1>4, <1>5, <1>6, <1>7, <1>8, <1>9, <1>10, <1>11,
     <1>12, <1>13, <1>14, <1>15, <1>16, <1>17, <1>18, <1>19, <1>20, <1>21,
     <1>22 DEF DispatchNext, Step

\* No step leaves the types.
LEMMA TypeStep == DispatchTypeOK /\ ErrorKept /\ [DispatchNext]_dispatchVars => DispatchTypeOK'
<1> SUFFICES ASSUME DispatchTypeOK /\ ErrorKept, [DispatchNext]_dispatchVars PROVE DispatchTypeOK'
  OBVIOUS
<1>1. CASE PickReady
  <2>1. SomeDepleted \in BOOLEAN
    BY DEF SomeDepleted, DispatchTypeOK
  <2>2. knownDepleted' \in BOOLEAN
    BY <1>1, <2>1 DEF PickReady, DispatchTypeOK
  <2> QED
    BY <1>1, <2>2 DEF PickReady, LeaseOn, StandingAs, requestVars, accountVars, historyVars, DispatchTypeOK
<1>2. CASE PickUnproven
  BY <1>2 DEF PickUnproven, StandingAs, SomeDepleted, progressVars,
     requestVars, errorVars, accountVars, historyVars, DispatchTypeOK, ErrorKept,
     Errors, Faults, PoolErrors, Answers
<1>3. CASE PickCooling
  BY <1>3 DEF PickCooling, LeaseOn, StandingAs, SomeDepleted, progressVars,
     requestVars, errorVars, accountVars, historyVars, DispatchTypeOK, ErrorKept,
     Errors, Faults, PoolErrors, Answers
<1>4. CASE GiveUp
  <2>1. SomeDepleted \in BOOLEAN
    BY DEF SomeDepleted, DispatchTypeOK
  <2>2. knownDepleted' \in BOOLEAN
    BY <1>4, <2>1 DEF GiveUp, DispatchTypeOK
  <2>3. Verdict(knownDepleted') \in Answers
    BY DEF Verdict, Answers, PoolErrors, DispatchTypeOK
  <2> QED
    BY <1>4, <2>2, <2>3 DEF GiveUp, Returned, progressVars, requestVars, accountVars,
       historyVars, DispatchTypeOK
<1>5. CASE Verify
  <2>1. knownDepleted' \in BOOLEAN
    BY <1>5 DEF Verify, DispatchTypeOK
  <2>2. tried' \in SUBSET Ids /\ refreshes' \in 0..MaxRefreshes
    <3>1. \/ refreshes' = refreshes
          \/ refreshes < MaxRefreshes /\ refreshes' = refreshes + 1
      BY <1>5, Zenon DEF Verify, Requeue, Keep
    <3>2. tried' \in {tried, tried \union {at}, tried \ {at}}
      BY <1>5, Zenon DEF Verify, Requeue, Keep
    <3> QED
      BY <1>5, <3>1, <3>2 DEF Verify, DispatchTypeOK
  <2>3. quota' \in [Ids -> Quotas]
    BY <1>5 DEF Verify, Quotas, DispatchTypeOK
  <2>4. fate' \in [Ids -> {"none", "sent", "no_model", "unproven", "failed"}]
    BY <1>5 DEF Verify, Becomes, DispatchTypeOK
  <2>5. lastErr' \in Errors \union {None}
    BY <1>5 DEF Verify, Errors, DispatchTypeOK
  <2> QED
    BY <1>5, <2>1, <2>2, <2>3, <2>4, <2>5 DEF Verify, requestVars, DispatchTypeOK
<1>6. CASE LeaveLease
  <2>1. modelSkipped' \in BOOLEAN
    BY <1>6 DEF LeaveLease, DispatchTypeOK
  <2>2. tried' \in SUBSET Ids /\ refreshes' \in 0..MaxRefreshes
    BY <1>6 DEF LeaveLease, Requeue, Keep, DispatchTypeOK
  <2>3. fate' \in [Ids -> {"none", "sent", "no_model", "unproven", "failed"}]
    BY <1>6 DEF LeaveLease, Becomes, DispatchTypeOK
  <2>4. lastErr' \in Errors \union {None}
    BY <1>6 DEF LeaveLease, Errors, DispatchTypeOK
  <2> QED
    BY <1>6, <2>1, <2>2, <2>3, <2>4 DEF LeaveLease, requestVars, accountVars, DispatchTypeOK
<1>7. CASE Prepare
  <2>1. kreq' \in Seq(BOOLEAN)
    BY <1>7, StrippedFits DEF Prepare, Rebuild, DispatchTypeOK
  <2> QED
    BY <1>7, <2>1 DEF Prepare, ToSend, accountVars, historyVars, DispatchTypeOK
<1>8. CASE Unbuildable
  BY <1>8 DEF Unbuildable, Returned, progressVars, requestVars, errorVars,
     accountVars, historyVars, DispatchTypeOK, ErrorKept, Errors, Faults,
     PoolErrors, Answers
<1>9. CASE Superseded
  BY <1>9 DEF Superseded, Unsent, Requeue, Met, StandingAs, progressVars,
     requestVars, errorVars, accountVars, historyVars, DispatchTypeOK, ErrorKept,
     Errors, Faults, PoolErrors, Answers
<1>10. CASE Invalid
  BY <1>10 DEF Invalid, Unsent, Requeue, Keep, Met, progressVars,
     requestVars, errorVars, accountVars, historyVars, DispatchTypeOK, ErrorKept,
     Errors, Faults, PoolErrors, Answers
<1>11. CASE Exhausted
  BY <1>11 DEF Exhausted, Returned, progressVars, requestVars, errorVars,
     accountVars, historyVars, DispatchTypeOK, ErrorKept, Errors, Faults,
     PoolErrors, Answers
<1>12. CASE NoToken
  BY <1>12 DEF NoToken, Unsent, Requeue, Keep, Becomes, progressVars,
     requestVars, errorVars, accountVars, historyVars, DispatchTypeOK, ErrorKept,
     Errors, Faults, PoolErrors, Answers
<1>13. CASE SendOnce
  BY <1>13 DEF SendOnce, Becomes, progressVars, requestVars, errorVars,
     accountVars, historyVars, DispatchTypeOK, ErrorKept, Errors, Faults,
     PoolErrors, Answers
<1>14. CASE AuthRetry
  BY <1>14 DEF AuthRetry, progressVars, requestVars, errorVars,
     accountVars, historyVars, DispatchTypeOK, ErrorKept, Errors, Faults,
     PoolErrors, Answers
<1>15. CASE RetryStripped
  <2>1. kreq' \in Seq(BOOLEAN)
    BY <1>15, StrippedFits DEF RetryStripped, Strip, DispatchTypeOK
  <2>2. refused' \in [reasoning : BOOLEAN, length : Nat]
    <3>1. refused' = [refused EXCEPT !.reasoning = TRUE]
      BY <1>15 DEF RetryStripped, NoteRefusal
    <3> QED
      BY <3>1 DEF DispatchTypeOK
  <2> QED
    BY <1>15, <2>1, <2>2 DEF RetryStripped, ToSend, Strip, progressVars, accountVars,
       Errors, Faults, DispatchTypeOK
<1>16. CASE RetryTrimmed
  <2>1. areq' \in Seq(BOOLEAN)
    BY <1>16, TailFits DEF RetryTrimmed, Trim, DispatchTypeOK
  <2>2. kreq' \in Seq(BOOLEAN)
    BY <1>16, <2>1, StrippedFits DEF RetryTrimmed, Trim, Rebuild, DispatchTypeOK
  <2>3. refused' \in [reasoning : BOOLEAN, length : Nat]
    <3>1. refused' = [refused EXCEPT !.length = Len(kreq)]
      BY <1>16 DEF RetryTrimmed, NoteRefusal
    <3>2. Len(kreq) \in Nat
      <4>1. kreq \in Seq(BOOLEAN)
        BY DEF DispatchTypeOK
      <4> QED
        BY <4>1
    <3> QED
      BY <3>1, <3>2 DEF DispatchTypeOK
  <2>4. trims' \in 0..MaxTrims
    BY <1>16 DEF RetryTrimmed, DispatchTypeOK
  <2>5. lastErr' \in Errors \union {None} /\ sendErr' \in Errors \union {None}
    BY <1>16 DEF RetryTrimmed, Errors, Faults
  <2> QED
    BY <1>16, <2>1, <2>2, <2>3, <2>4, <2>5 DEF RetryTrimmed, ToSend, accountVars, DispatchTypeOK
<1>17. CASE NextAccount
  BY <1>17 DEF NextAccount, progressVars, requestVars, errorVars,
     accountVars, historyVars, DispatchTypeOK, ErrorKept, Errors, Faults,
     PoolErrors, Answers
<1>18. CASE Open
  BY <1>18 DEF Open, Returned, progressVars, requestVars, errorVars,
     accountVars, historyVars, DispatchTypeOK, ErrorKept, Errors, Faults,
     PoolErrors, Answers
<1>19. CASE Surface
  <2>1. PICK err \in {"request", "too_long", "signature"} :
          NoteRefusal(err) /\ lastErr' = err /\ Returned(err)
    BY <1>19 DEF Surface
  <2>2. refused' \in [reasoning : BOOLEAN, length : Nat]
    <3>1. Len(kreq) \in Nat
      BY DEF DispatchTypeOK
    <3>2. CASE err = "signature"
      <4>1. refused' = [refused EXCEPT !.reasoning = TRUE]
        BY <2>1, <3>2 DEF NoteRefusal
      <4> QED
        BY <4>1 DEF DispatchTypeOK
    <3>3. CASE err = "too_long"
      <4>1. refused' = [refused EXCEPT !.length = Len(kreq)]
        BY <2>1, <3>3 DEF NoteRefusal
      <4> QED
        BY <3>1, <4>1 DEF DispatchTypeOK
    <3>4. CASE err = "request"
      BY <2>1, <3>4 DEF NoteRefusal, DispatchTypeOK
    <3> QED
      BY <2>1, <3>2, <3>3, <3>4
  <2> QED
    BY <1>19, <2>1, <2>2 DEF Surface, Returned, progressVars, requestVars, accountVars,
       Answers, Errors, Faults, DispatchTypeOK
<1>20. CASE Cancel
  BY <1>20 DEF Cancel, Returned, progressVars, requestVars, errorVars,
     accountVars, historyVars, DispatchTypeOK, ErrorKept, Errors, Faults,
     PoolErrors, Answers
<1>21. CASE ChangeElsewhere
  BY <1>21 DEF ChangeElsewhere, progressVars, requestVars, errorVars, accountVars,
     historyVars, DispatchTypeOK, ErrorKept, Errors, Faults, PoolErrors, Answers
<1>22. CASE UNCHANGED dispatchVars
  BY <1>22 DEF dispatchVars, progressVars, requestVars, errorVars, accountVars,
     historyVars, DispatchTypeOK, ErrorKept, Errors, Faults, PoolErrors, Answers
<1> QED
  BY <1>1, <1>2, <1>3, <1>4, <1>5, <1>6, <1>7, <1>8, <1>9, <1>10, <1>11,
     <1>12, <1>13, <1>14, <1>15, <1>16, <1>17, <1>18, <1>19, <1>20, <1>21,
     <1>22 DEF DispatchNext, Step

-----------------------------------------------------------------------------

\* The invariant, of every reachable state.
THEOREM DispatchInductive == DispatchSpec => []DispatchInv
<1>1. DispatchInv /\ [DispatchNext]_dispatchVars => DispatchInv'
  BY TypeStep, ErrorKeptStep, RequestStep, FateStep, PoolErrorStep DEF DispatchInv
<1> QED
  BY DispatchInitInv, <1>1, PTL DEF DispatchSpec

\* The variables keep their types, and no budget is ever exceeded.
THEOREM DispatchTypeSafety == DispatchSpec => []DispatchTypeOK
  BY DispatchInductive, PTL DEF DispatchInv

\* What upstream has refused is not sent again.
THEOREM RefusalSafety == DispatchSpec => []NeverResendsRefused
<1>1. DispatchInv => NeverResendsRefused
  BY DEF DispatchInv, RequestFits, NeverResendsRefused
<1> QED
  BY DispatchInductive, <1>1, PTL

\* The pool is blamed only when nothing was sent.
THEOREM PoolErrorSafety == DispatchSpec => []PoolErrorMeansUnsent
  BY DispatchInductive, PTL DEF DispatchInv

\* A dispatch runs out of accounts only when each has a fate.
THEOREM FateSafety == DispatchSpec => NoneLeftBehind
<1>1. DispatchInv /\ [DispatchNext]_dispatchVars =>
        [pc = "pick" /\ pc' = "done" /\ sends < MaxSends =>
           \A id \in Ids : quota[id] \in {"ready", "unproven", "cooling"} =>
               fate[id] # "none" \/ refreshes = MaxRefreshes]_dispatchVars
  <2> SUFFICES ASSUME DispatchInv, DispatchNext, pc = "pick", pc' = "done", sends < MaxSends,
                      NEW id \in Ids, quota[id] \in {"ready", "unproven", "cooling"}
               PROVE  fate[id] # "none" \/ refreshes = MaxRefreshes
    BY DEF dispatchVars
  <2>1. GiveUp
    BY DEF DispatchNext, Step, PickReady, PickUnproven, PickCooling, LeaseOn, Verify, LeaveLease,
       Prepare, Unbuildable, Superseded, Invalid, Exhausted, NoToken, SendOnce, AuthRetry,
       RetryStripped, RetryTrimmed, NextAccount, Open, Surface, Cancel, ChangeElsewhere
  <2>2. id \in tried
    BY <2>1 DEF GiveUp, StandingAs, DispatchInv, DispatchTypeOK
  <2> QED
    BY <2>2 DEF DispatchInv, TriedHasFate, OnLease
<1> QED
  BY DispatchInductive, <1>1, PTL DEF DispatchSpec, NoneLeftBehind
=============================================================================
