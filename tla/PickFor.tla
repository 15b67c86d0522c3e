------------------------------- MODULE PickFor --------------------------------
(***************************************************************************)
(* The choice of an account (selector.go, pickFor): the round-robin cursor *)
(* over a list that changes under it, and the affinity of a session by     *)
(* rendezvous hashing.  Selector leaves both open and lets any account of  *)
(* the winning tier be picked; here the scan itself is modelled, with      *)
(* accounts whose standing changes as it likes between picks.              *)
(***************************************************************************)
EXTENDS Naturals, SequencesExt

CONSTANTS
    Accounts,        \* account ids: numbers, for they are compared
    Standings,       \* the standings an account may have
    Keys,            \* affinity keys
    Score,           \* accountAffinityScore: of each session and account
    NoKey,           \* a pick without an affinity key
    NoAccount,
    Watched          \* the account whose turns are counted

AccountStanding ==
    [usable : BOOLEAN, strict : BOOLEAN, cooldown : Nat,
     quota : {"base", "overage", "unknown", "depleted"}]

ASSUME IdsAreNumbers ==
    Accounts \subseteq Nat /\ NoAccount \notin Accounts /\ Watched \in Accounts
ASSUME PoolFinite == IsFiniteSet(Accounts)
ASSUME KeysScore == NoKey \notin Keys /\ Score \in [Keys -> [Accounts -> Nat]]

\* A strict account whose quota has run into overage is depleted.
ASSUME StandingsExist ==
    \A st \in Standings : st \in AccountStanding /\ (st.strict => st.quota # "overage")

VARIABLES
    list,            \* RuntimeList: ids by time of creation
    standing,        \* of each account, in store and selector
    index,           \* the cursor
    passed           \* history: round-robin picks that passed the watched account over

pickVars == <<list, standing, index, passed>>

PickInit ==
    /\ list \in SetToSeqs(Accounts)
    /\ standing \in [Accounts -> Standings]
    /\ index = 0
    /\ passed = 0

-----------------------------------------------------------------------------
(* pickFor *)

\* Where an account stands in a pick.
TierOf(id, tried) ==
    LET st == standing[id] IN
    CASE id \in tried \/ ~st.usable -> "skipped"
      [] id \notin tried /\ st.usable /\ st.quota = "depleted" -> "depleted"
      [] id \notin tried /\ st.usable /\ st.quota = "unknown" /\ st.strict -> "verify"
      [] OTHER -> IF st.cooldown > 0 THEN "fallback"
                  ELSE IF st.quota = "overage" THEN "overage" ELSE "preferred"

\* Where an account stands in the list, counted from 0 as the cursor is, and how
\* far the cursor is from it.
Position(id) == (CHOOSE i \in DOMAIN list : list[i] = id) - 1
Distance(id) == (Position(id) + Len(list) - (index % Len(list))) % Len(list)

BeatsInPlace(id, other, session) ==   \* mutant: among equal scores the first in the list wins
    \/ Score[session][id] > Score[session][other]
    \/ Score[session][id] = Score[session][other] /\ Position(id) < Position(other)

\* The highest score wins, among equal ones the smaller id.
Beats(id, other, session) ==
    \/ Score[session][id] > Score[session][other]
    \/ Score[session][id] = Score[session][other] /\ id < other

Before(id, other, session) ==
    IF session = NoKey THEN Distance(id) < Distance(other) ELSE Beats(id, other, session)

Sooner(id, other, session) ==
    \/ standing[id].cooldown < standing[other].cooldown
    \/ standing[id].cooldown = standing[other].cooldown /\ Before(id, other, session)

In(tier, tried) == {id \in Range(list) : TierOf(id, tried) = tier}

\* The loop keeps the best of each tier it meets; the first tier that has one wins.
BestOf(tier, tried, session) ==
    LET S == In(tier, tried) IN
    [tier |-> tier,
     id |-> CHOOSE id \in S : \A other \in S \ {id} :
              IF tier = "fallback" THEN Sooner(id, other, session) ELSE Before(id, other, session)]

PickFor(tried, session) ==
    IF In("preferred", tried) # {} THEN BestOf("preferred", tried, session)
    ELSE IF In("overage", tried) # {} THEN BestOf("overage", tried, session)
    ELSE IF In("verify", tried) # {} THEN BestOf("verify", tried, session)
    ELSE IF In("fallback", tried) # {} THEN BestOf("fallback", tried, session)
    ELSE [tier |-> "none", id |-> NoAccount]

CursorAt(id) == Position(id)   \* mutant: the cursor stays at the account

\* (pos + 1) % n
CursorAfter(id) == (Position(id) + 1) % Len(list)

Pick(tried, session) ==
    LET picked == PickFor(tried, session) IN
    /\ list # <<>>
    /\ index' = IF session = NoKey /\ picked.tier \in {"preferred", "overage"}
                THEN CursorAfter(picked.id) ELSE index
    /\ passed' = IF session # NoKey THEN passed
                 ELSE IF /\ picked.tier \in {"preferred", "overage"}
                         /\ Watched \in Range(list) \ {picked.id}
                         /\ TierOf(Watched, tried) = picked.tier
                      THEN passed + 1 ELSE 0
    /\ UNCHANGED <<list, standing>>

-----------------------------------------------------------------------------
(* What happens to the accounts between picks *)

Change(id, st) ==
    /\ standing' = [standing EXCEPT ![id] = st]
    /\ UNCHANGED <<list, index, passed>>

(***************************************************************************)
(* An account is added or removed; the cursor does not move with those     *)
(* that stay.  The admin's Reorder does not touch this list.  But creation *)
(* times have a resolution of a second, an imported account keeps its own, *)
(* and the list is sorted anew, from a map, for each pick: accounts of the *)
(* same second change places from one pick to the next.  The model lets    *)
(* any accounts do so.                                                     *)
(***************************************************************************)
Relist(new) ==
    /\ list' = new
    /\ passed' = 0
    /\ UNCHANGED <<standing, index>>

PickNext ==
    \/ \E tried \in SUBSET Accounts, session \in Keys \union {NoKey} : Pick(tried, session)
    \/ \E id \in Accounts, st \in Standings : Change(id, st)
    \/ \E id \in Accounts \ Range(list) : Relist(Append(list, id))
    \/ \E i \in DOMAIN list : Relist(RemoveAt(list, i))
    \/ \E new \in SetToSeqs(Range(list)) : Relist(new)

PickSpec == PickInit /\ [][PickNext]_pickVars

-----------------------------------------------------------------------------
(***************************************************************************)
(* Round robin: as long as the list stays as it is, an account of the tier *)
(* that wins is passed over less often than the list is long, whatever     *)
(* becomes of the other accounts and whichever sessions pick in between.   *)
(***************************************************************************)
TakesItsTurn == passed = 0 \/ passed < Len(list)

(***************************************************************************)
(* "With affinityKey ... one client session returns to the same eligible   *)
(* account": as long as its account keeps its tier, a session changes to   *)
(* another one only if that was added or has changed tiers, in whatever    *)
(* order the list comes and wherever the cursor stands.                    *)
(***************************************************************************)
Keeps(id) == id \in Range(list) /\ id \in Range(list') /\ TierOf(id, {})' = TierOf(id, {})

SessionStays ==
    [][\A s \in Keys :
         \E old \in {PickFor({}, s)}, new \in {PickFor({}, s)'} :
            old.tier \in {"preferred", "overage"} /\ Keeps(old.id)
              => new.id = old.id \/ ~Keeps(new.id)]_pickVars
=============================================================================
