----------------------------- MODULE FrameQueue -----------------------------
(***************************************************************************)
(* What a stream of upstream frames promises to its consumer: the frames,  *)
(* numbered as they come off the wire, arrive in that order, each once and *)
(* none left out, however many are read ahead.  After Close nothing moves. *)
(***************************************************************************)
EXTENDS Naturals

VARIABLES
    decoded,     \* frames read off the wire
    delivered,   \* frames the consumer has been given
    state         \* "open" or "closed"

queueVars == <<decoded, delivered, state>>

Init ==
    /\ decoded = 0
    /\ delivered = 0
    /\ state = "open"

\* A frame is read ahead.
ReadAhead ==
    /\ state = "open"
    /\ decoded' = decoded + 1
    /\ UNCHANGED <<delivered, state>>

\* The oldest frame read ahead goes to the consumer, who may close then.
Deliver ==
    /\ state = "open"
    /\ delivered < decoded
    /\ delivered' = delivered + 1
    /\ state' \in {"open", "closed"}
    /\ UNCHANGED decoded

\* With nothing read ahead, the consumer reads the wire.
PassOn ==
    /\ state = "open"
    /\ delivered = decoded
    /\ decoded' = decoded + 1
    /\ delivered' = delivered + 1
    /\ state' \in {"open", "closed"}

Close ==
    /\ state' = "closed"
    /\ UNCHANGED <<decoded, delivered>>

Next == ReadAhead \/ Deliver \/ PassOn \/ Close

Spec == Init /\ [][Next]_queueVars
=============================================================================
