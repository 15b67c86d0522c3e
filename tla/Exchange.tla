------------------------------ MODULE Exchange ------------------------------
(***************************************************************************)
(* One exchange: the conversation a client sends, cut at its oldest turns  *)
(* while upstream finds it too long; the stream that answers it; and the   *)
(* handler (streamMessages, aggregateMessages, consumeResponsesStream)     *)
(* that receives the frames and assembles the client's answer.             *)
(***************************************************************************)
EXTENDS KiroStream, Assembly, TurnTrim

CONSTANTS
    Conversations,   \* what a client may send
    MaxTrims,        \* maxPromptTooLongRetries
    Modes            \* formats and options asked for

ASSUME ModesAreModes == Modes \subseteq Mode /\ Modes # {}
ASSUME TrimsAreNat == MaxTrims \in Nat

\* An anthropicMessage, as TurnTrim sees it.
Message == [role : {"user", "assistant"}, uses : SUBSET ToolIds, results : SUBSET ToolIds,
             valid : BOOLEAN]

ASSUME ConversationsAreMessages == Conversations \subseteq Seq(Message)

Frames(kinds) == [kind : kinds, data : Text, id : ToolIds \union {NoId}, stop : BOOLEAN]

\* kiroEvent, and the two ways a stream ends.
ASSUME EventsAreFrames ==
    /\ Events \subseteq Frames({"text", "reasoning", "tool", "metadata", "error", "other"})
    /\ Ends \subseteq Frames({"eof", "broken"})

VARIABLES
    messages,    \* the request's conversation
    trims,       \* turns cut
    mode,
    asm,         \* the assembler
    client,      \* the client's view of the answer
    fed          \* history: the text upstream has sent, see Feed

requestVars == <<messages, trims>>
answerVars == <<mode, asm, client, fed>>
vars == <<streamVars, requestVars, answerVars>>

Init ==
    /\ StreamInit
    /\ messages \in Conversations
    /\ trims = 0
    /\ mode = CHOOSE m \in Modes : TRUE
    /\ asm = NewAssembler
    /\ client = NewClient
    /\ fed = [settled |-> <<>>, run |-> <<>>]

-----------------------------------------------------------------------------
(* The request *)

\* Upstream finds the prompt too long: the oldest unit is cut, if it can be.
TooLong ==
    /\ phase = "idle"
    /\ trims < MaxTrims
    /\ TrimOldestCompleteTurn(messages) # messages
    /\ messages' = TrimOldestCompleteTurn(messages)
    /\ trims' = trims + 1
    /\ UNCHANGED <<streamVars, answerVars>>

\* The request is accepted; the conversation is not looked at again.
Accepted ==
    /\ OpenStream
    /\ messages' = <<>>
    /\ trims' = 0
    /\ mode' \in Modes
    /\ UNCHANGED <<asm, client, fed>>

-----------------------------------------------------------------------------
(* Before the response is committed: firstFrameFailure *)

\* Events that prove nothing: protocol frames, and reasoning the client
\* does not want.
Invisible ==
    {ev \in Events : ev.kind = "other" \/ (ev.kind = "reasoning" /\ ~mode.thinking)}

Failures == Ends \union {ev \in Events : ev.kind = "error"}

Probe ==
    /\ TakePrimed(Failures, Events \ (Invisible \union Failures))
    /\ UNCHANGED <<requestVars, answerVars>>

Background ==
    /\ StartRead \/ Read \/ ReadFails \/ TimeOut
    /\ UNCHANGED <<requestVars, answerVars>>

-----------------------------------------------------------------------------
(* The handler *)

Now == [mode |-> mode, asm |-> asm, client |-> client]

\* What the handler does with a frame.
Handled(ev) ==
    CASE ev.kind = "text"      -> IngestText(Now, ev.data)
      [] ev.kind = "reasoning" -> AddReasoning(Now, ev)
      [] ev.kind = "tool"      -> AddToolUse(Now, ev)
      [] ev.kind = "eof"       -> Complete(Finish(Now))
      [] ev.kind \in {"error", "broken"} -> Fail(Now)
      [] OTHER                 -> Now

IsLast(ev) == ev.kind \in {"eof", "error", "broken"}

\* A text run lasts until the filter is flushed.
EndsRun(ev) ==
    \/ ev.kind \in {"tool", "eof"}
    \/ ev.kind = "reasoning" /\ (mode.thinking \/ mode.format = "responses")

WithoutMarker(run) ==
    IF \E m \in Markers : IsSuffix(m, run)
      THEN SubSeq(run, 1, Len(run) - Len(CHOOSE m \in Markers : IsSuffix(m, run)))
      ELSE run

\* History: the text of runs that have ended, as the client should have it,
\* and the text of the run under way.
Feed(ev) ==
    fed' = CASE ev.kind = "text" -> [fed EXCEPT !.run = @ \o ev.data]
             [] EndsRun(ev)      -> [settled |-> fed.settled \o WithoutMarker(fed.run), run |-> <<>>]
             [] OTHER            -> fed

Handle(ev) ==
    LET after == Handled(ev)
    IN /\ asm' = after.asm
       /\ client' = after.client
       /\ Feed(ev)
       /\ UNCHANGED <<requestVars, mode>>

Receive ==
    \/ primed # <<>> /\ RecvPrimed(IsLast(Head(primed).ev)) /\ Handle(Head(primed).ev)
    \/ channel # NoResult /\ RecvPending(IsLast(channel.ev)) /\ Handle(channel.ev)
    \/ \E ev \in Readable : RecvDirect(IsLast(ev)) /\ Handle(ev)

\* The client goes away: the probe, a read or a write fails, and whoever
\* has the stream closes it.
ClientLeaves ==
    /\ Close
    /\ UNCHANGED <<requestVars, answerVars>>

Next ==
    \/ TooLong
    \/ Accepted
    \/ Background
    \/ Probe
    \/ Receive
    \/ ClientLeaves

(***************************************************************************)
(* The read of a goroutine fails once the body is closed.                  *)
(***************************************************************************)
Fairness == WF_vars(ReadFails /\ UNCHANGED <<requestVars, answerVars>>)

Spec == Init /\ [][Next]_vars /\ Fairness

-----------------------------------------------------------------------------

\* The variables hold what the Go types hold.
TypeOK ==
    /\ StreamTypeOK
    /\ messages = <<>> \/ phase = "idle"
    /\ trims \in 0..MaxTrims
    /\ mode \in Mode
    /\ asm.index = Len(asm.blocks)
         + IF Messages(Now) \/ asm.open = NoBlock THEN 0 ELSE 1
    /\ asm.open.kind \in {"", "text", "thinking", "redacted", "tool"}
    /\ client.told \in {"nothing", "done", "failed"}

(***************************************************************************)
(* A streaming client never sees an event out of place (a block opened in  *)
(* another, data for a closed one, a number skipped, an item whose end     *)
(* does not repeat its deltas, anything after the end), and has at every   *)
(* step rebuilt exactly the blocks the whole answer would consist of.      *)
(***************************************************************************)
ClientInStep ==
    mode.streaming => client.orderly /\ client.blocks = asm.blocks

TextOf(blocks) ==
    FlattenSeq([i \in 1..Len(blocks) |-> IF blocks[i].kind = "text" THEN blocks[i].data ELSE <<>>])

BeginsMarker(s) == \E m \in Markers : IsPrefix(s, m)

(***************************************************************************)
(* However a text is split over frames and mixed with reasoning and tool   *)
(* calls, the client gets all of it in order, but for a marker that a run  *)
(* of text ends with; and what is held back is what may still be such a    *)
(* marker, no more and no less.                                            *)
(***************************************************************************)
TextIntact ==
    LET k == Len(asm.carry)
        run == fed.run
    IN /\ TextOf(Append(asm.blocks, asm.open)) \o asm.carry = fed.settled \o run
       /\ k <= Len(run)
       /\ BeginsMarker(Ending(run, k))
       /\ \A j \in (k + 1)..Len(run) : ~BeginsMarker(Ending(run, j))

(***************************************************************************)
(* A conversation is cut after the first turns that form a closed unit:    *)
(* a fresh question, calls each answered by exactly their results, an      *)
(* answer without calls, and a fresh question next; and if no beginning of *)
(* it is closed, it is not cut.                                            *)
(***************************************************************************)
Starts(m) == {s \in 1..Len(m) : s > 1 => m[s - 1].role # m[s].role}

UsesBefore(m, s) == UNION {m[i].uses : i \in {i \in 1..(s - 1) : TurnEnd(m, i) = s - 1}}

InPlace(m, s) ==
    LET t == LogicalTurn(m, s)
    IN /\ t.valid
       /\ m[s].role = "user" => t.uses = {} /\ t.results = UsesBefore(m, s)
       /\ m[s].role = "assistant" => t.results = {}

ClosedUnit(m, e) ==
    /\ e + 1 \in Starts(m)
    /\ IsFresh(m, 1)
    /\ IsFresh(m, e + 1)
    /\ \A s \in Starts(m) : s <= e =>
         InPlace(m, s) /\ (TurnEnd(m, s) = e => LogicalTurn(m, s).uses = {})

FirstClosedUnit(m, cut) ==
    LET closed == {e \in 1..(Len(m) - 1) : ClosedUnit(m, e)}
    IN IF closed = {} THEN cut = 0
       ELSE cut \in closed /\ \A e \in closed : cut <= e

CutsFirstClosedUnit == FirstClosedUnit(messages, OldestCompleteTurnEnd(messages))

\* A goroutine of the probe that is still reading when the stream is closed
\* ends: it does not wait for a receiver that is gone.
ReaderEnds == reader = "reading" /\ phase = "closed" ~> reader = "none"
=============================================================================
