---------------------------- MODULE MCRequestPath -----------------------------
(***************************************************************************)
(* RequestPath for TLC.                                                    *)
(***************************************************************************)
EXTENDS RequestPath

CONSTANTS t1, t2, MaxMessages

(***************************************************************************)
(* The pick: an account of each tier, cooling ones of two kinds and two    *)
(* lengths, and sessions whose scores tell all accounts apart, or two, or  *)
(* none.  A disabled account is skipped as a tried one is.                 *)
(***************************************************************************)
At(strict, quota, cooldown) ==
    [usable |-> TRUE, strict |-> strict, quota |-> quota, cooldown |-> cooldown]

MixedStandings ==
    {At(TRUE, "base", 0), At(FALSE, "overage", 0), At(TRUE, "unknown", 0), At(FALSE, "depleted", 0),
     At(FALSE, "base", 1), At(FALSE, "overage", 2)}

Scores ==
    [s1 |-> [id \in Accounts |-> id], s2 |-> [id \in Accounts |-> 0],
     s3 |-> [id \in Accounts |-> IF id = 2 THEN 0 ELSE 1]]

ScoredKeys == DOMAIN Scores

-----------------------------------------------------------------------------
(* The exchange *)

Event(kind, data, id, stop) == [kind |-> kind, data |-> data, id |-> id, stop |-> stop]

\* Texts that join into markers in more than one way, and into near misses.
Texts == {<<"a">>, <<"a", "<">>, <<"<", "DSML">>, <<"calls">>, <<"calls", ">">>, <<">">>}

AllPieces == {"a", "<", "calls", ">", "DSML", "thought", "sealed", "input", "{}", "_raw"}

\* A tool call's input comes in pieces, its last frame has none.
AllEvents ==
    {Event("text", data, NoId, FALSE) : data \in Texts}
    \union {Event("reasoning", data, NoId, FALSE) : data \in {<<>>, <<"thought">>, <<"sealed">>}}
    \union {Event("tool", <<"input">>, id, FALSE) : id \in {t1, t2, NoId}}
    \union {Event("tool", <<>>, id, TRUE) : id \in {t1, NoId}}
    \union {Event(kind, <<>>, NoId, FALSE) : kind \in {"metadata", "error", "other"}}

AllEnds == {Event(kind, <<>>, NoId, FALSE) : kind \in {"eof", "broken"}}

AllModes ==
    {[format |-> f, thinking |-> t, streaming |-> s] :
        f \in {"messages", "responses"}, t \in BOOLEAN, s \in BOOLEAN}

MessageOf(role, uses, results, valid) ==
    [role |-> role, uses |-> uses, results |-> results, valid |-> valid]

AllMessages ==
    {MessageOf("user", {}, results, TRUE) : results \in SUBSET {t1, t2}}
    \union {MessageOf("assistant", uses, {}, TRUE) : uses \in SUBSET {t1, t2}}
    \union {MessageOf("user", {}, {}, FALSE)}

AllConversations == UNION {[1..n -> AllMessages] : n \in 1..MaxMessages}
=============================================================================
