------------------------------ MODULE Assembly ------------------------------
(***************************************************************************)
(* How upstream events become the answer's blocks: blockAssembler in       *)
(* anthropic.go ("messages") and responsesAssembler in responses.go        *)
(* ("responses"), with the filter that keeps back what may become a leaked *)
(* tool-call marker, and the client that rebuilds the blocks from the      *)
(* events it is sent.                                                      *)
(*                                                                         *)
(* The operators work on r = [mode, asm, client]: the request's mode, the  *)
(* assembler and the client.  A text is a sequence of pieces; the markers  *)
(* are shortened to a few pieces each, with the same common beginning.     *)
(***************************************************************************)
EXTENDS SequencesExt, Naturals

CONSTANTS
    ToolIds, NoId,
    Pieces           \* what texts are made of

ASSUME NoIdIsNone == NoId \notin ToolIds

\* Those the code itself writes: the markers' and normalizeToolInput's.
ASSUME CodeHasPieces == {"<", "calls", ">", "DSML", "{}", "_raw"} \subseteq Pieces

\* toolOpenMarkers: "<function_calls>" and "<|DSML|function_calls".
Markers == {<<"<", "calls", ">">>, <<"<", "DSML", "calls">>}

Text == Seq(Pieces)

\* What a request asks for.
Mode == [format : {"messages", "responses"}, thinking : BOOLEAN, streaming : BOOLEAN]

Block(kind, id, data) == [kind |-> kind, id |-> id, data |-> data]
NoBlock == Block("", NoId, <<>>)

Blocks == [kind : {"", "text", "thinking", "redacted", "tool"}, id : ToolIds \union {NoId}, data : Text]

\* index counts the blocks closed (messages) or opened (responses).
NewAssembler == [open |-> NoBlock, index |-> 0, blocks |-> <<>>, carry |-> <<>>]

\* What the client has rebuilt; orderly turns false with the first event
\* that breaks the protocol.
NewClient == [open |-> NoBlock, blocks |-> <<>>, told |-> "nothing", orderly |-> TRUE]

-----------------------------------------------------------------------------
(* The client *)

\* normalizeToolInput: a tool's input is one JSON value, an empty object
\* when nothing came, and wrapped when the pieces make no JSON.
Normalized(block) ==
    CASE block.kind = "tool" /\ block.data = <<>>    -> [block EXCEPT !.data = <<"{}">>]
      [] block.kind = "tool" /\ Len(block.data) > 1  -> [block EXCEPT !.data = <<"_raw">> \o @]
      [] OTHER                                       -> block

Start(index, block) == [type |-> "start", index |-> index, block |-> block]
Delta(index, data)  == [type |-> "delta", index |-> index, block |-> Block("", NoId, data)]
Stop(index, block)  == [type |-> "stop", index |-> index, block |-> block]
Final(told, blocks) == [type |-> told, index |-> Len(blocks), block |-> NoBlock]

\* Blocks are numbered from 0; one is open at a time; a stop repeats what
\* the deltas said; nothing follows the end, and the end leaves none open.
\* (Only a responses item repeats it on the wire, tool input as normalised.
\* content_block_stop names the block alone: there it is the client that
\* makes the deltas into the block, and what it makes is taken for granted.)
Expected(client, e) ==
    /\ client.told = "nothing"
    /\ CASE e.type = "start" -> client.open = NoBlock /\ e.index = Len(client.blocks)
         [] e.type = "delta" -> client.open # NoBlock /\ e.index = Len(client.blocks)
         [] e.type = "stop"  -> /\ e.index = Len(client.blocks)
                                /\ e.block = Normalized(client.open)
         [] e.type = "done"  -> client.open = NoBlock /\ e.index = Len(client.blocks)
         [] OTHER            -> TRUE

Received(client, e) ==
    IF ~Expected(client, e) THEN [client EXCEPT !.orderly = FALSE]
    ELSE CASE e.type = "start" -> [client EXCEPT !.open = e.block]
           [] e.type = "delta" -> [client EXCEPT !.open.data = @ \o e.block.data]
           [] e.type = "stop"  -> [client EXCEPT !.blocks = Append(@, e.block), !.open = NoBlock]
           [] OTHER            -> [client EXCEPT !.told = e.type]

\* emit: one event of the stream; nothing when the answer is sent whole.
Emit(r, e) == IF r.mode.streaming THEN [r EXCEPT !.client = Received(@, e)] ELSE r

-----------------------------------------------------------------------------
(* Opening and closing blocks *)

Messages(r) == r.mode.format = "messages"

\* A messages block keeps its number until it closes, a responses item has
\* it from the moment it opens.
IndexOf(r) == IF Messages(r) THEN r.asm.index ELSE r.asm.index - 1

Opened(r, block) ==
    [r EXCEPT !.asm.open = block, !.asm.index = IF Messages(r) THEN @ ELSE @ + 1]

ShutUncounted(r) ==   \* mutant: the next block has the number of this one
    [r EXCEPT !.asm.blocks = Append(@, Normalized(r.asm.open)), !.asm.open = NoBlock]

Shut(r) ==
    [r EXCEPT !.asm.blocks = Append(@, Normalized(r.asm.open)),
              !.asm.open = NoBlock,
              !.asm.index = IF Messages(r) THEN @ + 1 ELSE @]

CloseOpenQuietly(r) ==   \* mutant: redacted reasoning is closed unannounced
    IF r.asm.open = NoBlock THEN r
    ELSE Shut(Emit(r, Stop(IndexOf(r), Normalized(r.asm.open))))

\* closeOpen: redacted reasoning has no deltas, it is sent whole now.
CloseOpen(r) ==
    LET open   == r.asm.open
        begun  == IF open.kind = "redacted" THEN Emit(r, Start(IndexOf(r), open)) ELSE r
    IN IF open = NoBlock THEN r
       ELSE Shut(Emit(begun, Stop(IndexOf(r), Normalized(open))))

\* A new block, after the one before.
Open(r, kind, id) ==
    LET opened == Opened(CloseOpen(r), Block(kind, id, <<>>))
    IN IF kind = "redacted" THEN opened
       ELSE Emit(opened, Start(IndexOf(opened), opened.asm.open))

\* Data for the open block.
Grow(r, data) ==
    LET grown == [r EXCEPT !.asm.open.data = @ \o data]
    IN IF data = <<>> \/ r.asm.open.kind = "redacted" THEN grown
       ELSE Emit(grown, Delta(IndexOf(r), data))

\* addText
AddText(r, text) ==
    CASE text = <<>>                                -> r
      [] text # <<>> /\ r.asm.open.kind = "text"    -> Grow(r, text)
      [] OTHER                                      -> Grow(Open(r, "text", NoId), text)

-----------------------------------------------------------------------------
(* The leak filter *)

Ending(s, k) == SubSeq(s, Len(s) - k + 1, Len(s))

Longest(S) == CHOOSE n \in S \union {0} : \A k \in S : k <= n

\* How much of the end of s is the beginning of the marker, not all of it.
PartOf(tag, s) ==
    Longest({k \in 1..(Len(tag) - 1) : k <= Len(s) /\ Ending(s, k) = SubSeq(tag, 1, k)})

PendingPartsOnly(s) ==   \* mutant: a complete marker is not held back
    Longest({PartOf(tag, s) : tag \in Markers})

\* pendingMarkerTail: what may yet become a marker, or is one.
PendingMarkerTail(s) ==
    Longest({PartOf(tag, s) : tag \in Markers}
            \union {Len(tag) : tag \in {m \in Markers : IsSuffix(m, s)}})

\* ingestText, feedText: what cannot be a marker any more goes on.
IngestText(r, text) ==
    LET all  == r.asm.carry \o text
        hold == PendingMarkerTail(all)
    IN IF text = <<>> THEN r
       ELSE [AddText(r, SubSeq(all, 1, Len(all) - hold)) EXCEPT !.asm.carry = Ending(all, hold)]

\* stripOpenerSuffix, on what was held back.
StripOpenerSuffix(s) ==
    LET marked == {m \in Markers : IsSuffix(m, s)}
    IN IF marked = {} THEN s ELSE SubSeq(s, 1, Len(s) - Longest({Len(m) : m \in marked}))

\* flushLeakCarry
FlushLeakCarry(r) ==
    AddText([r EXCEPT !.asm.carry = <<>>], StripOpenerSuffix(r.asm.carry))

-----------------------------------------------------------------------------
(* Events of the other kinds *)

\* addReasoning; the responses loop drops reasoning after a flush.
AddReasoning(r, ev) ==
    LET flushed == FlushLeakCarry(r)
        kind    == IF ev.data = <<"sealed">> THEN "redacted" ELSE "thinking"
    IN CASE ~Messages(r)                                -> flushed
         [] Messages(r) /\ ~r.mode.thinking             -> r
         [] Messages(r) /\ r.mode.thinking /\ ev.data = <<>> -> flushed
         [] OTHER ->
              IF flushed.asm.open.kind = kind THEN Grow(flushed, ev.data)
              ELSE Grow(Open(flushed, kind, NoId), ev.data)

\* addToolUse: a new id is a new tool call; without one, the call that is
\* open goes on, and if none is open the event is ignored.
AddToolUse(r, ev) ==
    LET flushed == FlushLeakCarry(r)
        isOpen  == flushed.asm.open.kind = "tool"
        isNew   == ev.id # NoId /\ (~isOpen \/ ev.id # flushed.asm.open.id)
        begun   == IF isNew THEN Open(flushed, "tool", ev.id) ELSE flushed
        grown   == Grow(begun, ev.data)
    IN CASE ~isNew /\ ~isOpen -> flushed
         [] ev.stop /\ (isNew \/ isOpen) -> CloseOpen(grown)
         [] OTHER -> grown

\* finish
Finish(r) == CloseOpen(FlushLeakCarry(r))

(***************************************************************************)
(* The last word of the answer: the terminal events of a stream, or the    *)
(* whole answer; an answer without blocks has one empty text (messages).   *)
(***************************************************************************)
Complete(r) ==
    LET blocks == IF Messages(r) /\ r.asm.blocks = <<>>
                    THEN <<Block("text", NoId, <<>>)>> ELSE r.asm.blocks
    IN IF r.mode.streaming THEN Emit(r, Final("done", r.asm.blocks))
       ELSE [r EXCEPT !.client.told = "done", !.client.blocks = blocks]

\* A failure of the stream: an error event, or an HTTP error.
Fail(r) ==
    IF r.mode.streaming THEN Emit(r, Final("failed", r.asm.blocks))
    ELSE [r EXCEPT !.client.told = "failed"]
=============================================================================
