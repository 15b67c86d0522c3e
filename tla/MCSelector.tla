----------------------------- MODULE MCSelector -----------------------------
(***************************************************************************)
(* TLC instances of Selector.                                              *)
(***************************************************************************)
EXTENDS Selector, TLC

CONSTANTS a, b, r1

\* An account as a bundle, or a file, carries it.
Entry(overage) ==
    [disabled |-> FALSE, overage |-> overage, arn |-> NoArn, reg |-> r1,
     tok |-> [chain |-> r1, n |-> 0]]

\* One account with overage; the other is still to be added.
OneOfTwo == {[id \in {a, b} |-> IF id = a THEN Entry(TRUE) ELSE NoAccount]}

\* What comes in later carries overage only when it was exported with it.
Newcomers == {Entry(TRUE), Entry(FALSE)}

Symmetry == Permutations(Requests)

-----------------------------------------------------------------------------
(***************************************************************************)
(* Three small instances that overlap, each explored to its end: what is   *)
(* about two requests needs one account and no usage calls, what is about  *)
(* usage calls one request, and what is about two accounts neither a       *)
(* second request nor long histories.                                      *)
(***************************************************************************)

\* The other account was never added.
Alone == accounts[b] = NoAccount /\ (lifecycles[a] = nextLifecycle \/ accounts[a] = NoAccount)

OneRequest == Cardinality({r \in Requests : requests[r] # Idle}) <= 1

WithoutProfiles == \A id \in {a, b} : accounts[id] # NoAccount => accounts[id].arn = NoArn

\* No usage was ever observed.
Unobserved ==
    /\ fetches = {}
    /\ basis = [id \in Ids |-> 0]
    /\ \A id \in Ids : routing[id] # NoState => routing[id].quota = "unknown" \/ routing[id].reactive

TwoRequests == Alone /\ WithoutProfiles /\ Unobserved /\ nextGeneration <= 3

UsageCalls == Alone /\ OneRequest

\* The first with overage, the other strict.
TwoAccounts ==
    /\ OneRequest /\ WithoutProfiles
    /\ \A id \in {a, b} : accounts[id] # NoAccount => accounts[id].overage = (id = a)
    /\ nextGeneration <= 3

SmallInstances == TwoRequests \/ UsageCalls \/ TwoAccounts
=============================================================================
