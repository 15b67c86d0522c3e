----------------------------- MODULE RequestPath ------------------------------
(***************************************************************************)
(* What a request goes through in the server: the conversation its session *)
(* is bound to (handleMessages), the choice of an account (pickFor), and   *)
(* the exchange that answers it.  The dispatch across accounts in between  *)
(* (openStream) is checked on its own, in Dispatch.                        *)
(*                                                                         *)
(* The parts share no state: the registry and the selector have a mutex    *)
(* each, and a stream belongs to its handler.  So a behaviour is about one *)
(* part, and the others are at rest.  Init, Next and vars without a prefix *)
(* are Exchange's.                                                         *)
(***************************************************************************)
EXTENDS ConversationRegistry, PickFor, Exchange

VARIABLE part

pathVars == <<part, registryVars, pickVars, vars>>

\* At rest: no session has come, the pool is empty, and nothing is sent.
NoConversation == RegistryInit

NoPick ==
    /\ list = <<>>
    /\ standing = [id \in Accounts |-> CHOOSE st \in Standings : TRUE]
    /\ index = 0 /\ passed = 0

NoExchange ==
    /\ StreamInit
    /\ messages = <<>> /\ trims = 0
    /\ mode = CHOOSE m \in Modes : TRUE
    /\ asm = NewAssembler /\ client = NewClient
    /\ fed = [settled |-> <<>>, run |-> <<>>]

PathInit ==
    \/ part = "conversation" /\ RegistryInit /\ NoPick /\ NoExchange
    \/ part = "pick" /\ PickInit /\ NoConversation /\ NoExchange
    \/ part = "exchange" /\ Init /\ NoConversation /\ NoPick

PathNext ==
    \/ part = "conversation" /\ RegistryNext /\ UNCHANGED <<part, pickVars, vars>>
    \/ part = "pick" /\ PickNext /\ UNCHANGED <<part, registryVars, vars>>
    \/ part = "exchange" /\ Next /\ UNCHANGED <<part, registryVars, pickVars>>

PathSpec == PathInit /\ [][PathNext]_pathVars /\ RegistryFairness /\ Fairness
=============================================================================
