------------------------------ MODULE TurnTrim ------------------------------
(***************************************************************************)
(* Cutting the oldest complete turn off a conversation that is too long    *)
(* (trimOldestCompleteTurn in anthropic.go).  A message is its role, the   *)
(* ids of the tool calls and of the tool results in it, and whether these  *)
(* are well-formed: present, and none twice.                               *)
(***************************************************************************)
EXTENDS Sequences, Naturals

Turn(end, uses, results, valid) ==
    [end |-> end, uses |-> uses, results |-> results, valid |-> valid]

(***************************************************************************)
(* logicalTurnEnd: messages of one role in a row are one turn.  Its end    *)
(* and ids, with the ids of one kind all different.                        *)
(***************************************************************************)
TurnEnd(m, start) ==
    CHOOSE e \in start..Len(m) :
        /\ \A i \in start..e : m[i].role = m[start].role
        /\ e < Len(m) => m[e + 1].role # m[start].role

LogicalTurn(m, start) ==
    LET end   == TurnEnd(m, start)
        part  == start..end
        twice == \E i, j \in part : /\ i # j
                                    /\ \/ m[i].uses \intersect m[j].uses # {}
                                       \/ m[i].results \intersect m[j].results # {}
    IN Turn(end, UNION {m[i].uses : i \in part}, UNION {m[i].results : i \in part},
            ~twice /\ \A i \in part : m[i].valid)

\* A user turn that answers no tool call, so begins a unit.
IsFresh(m, start) ==
    LET t == LogicalTurn(m, start)
    IN t.valid /\ m[start].role = "user" /\ t.uses = {} /\ t.results = {}

AnsweredInPart(m, start, uses) ==   \* mutant: some of the results will do
    LET t == LogicalTurn(m, start)
    IN t.valid /\ m[start].role = "user" /\ t.uses = {} /\ t.results \subseteq uses

\* A user turn with the results of these calls, and of no others.
Answers(m, start, uses) ==
    LET t == LogicalTurn(m, start)
    IN t.valid /\ m[start].role = "user" /\ t.uses = {} /\ t.results = uses

(***************************************************************************)
(* The loop of oldestCompleteTurnEnd, from a turn that should be the       *)
(* assistant's: without tool calls it ends the unit if a fresh user turn   *)
(* follows; else their results must follow, and the loop goes on.          *)
(* 0 is "nothing can be cut".                                              *)
(***************************************************************************)
UnitEnd(m) ==
    LET end[i \in 1..(Len(m) + 1)] ==
          IF i > Len(m) THEN 0
          ELSE LET t      == LogicalTurn(m, i)
                   next   == t.end + 1
                   proper == /\ t.valid /\ m[i].role = "assistant" /\ t.results = {}
                             /\ next <= Len(m)
               IN CASE proper /\ t.uses = {} /\ IsFresh(m, next) -> t.end
                    [] proper /\ t.uses # {} /\ Answers(m, next, t.uses) ->
                         end[TurnEnd(m, next) + 1]
                    [] OTHER -> 0
    IN end

\* oldestCompleteTurnEnd: the number of messages to cut, 0 if none can be.
OldestCompleteTurnEnd(m) ==
    IF Len(m) < 3 \/ ~IsFresh(m, 1) THEN 0 ELSE UnitEnd(m)[TurnEnd(m, 1) + 1]

\* trimOldestCompleteTurn
TrimOldestCompleteTurn(m) == SubSeq(m, OldestCompleteTurnEnd(m) + 1, Len(m))
=============================================================================
