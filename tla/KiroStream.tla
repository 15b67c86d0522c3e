----------------------------- MODULE KiroStream -----------------------------
(***************************************************************************)
(* An upstream event stream (kiroStream in kiro.go).  Before the response  *)
(* is committed, the first frames are read ahead on a goroutine per read   *)
(* until one shows that the stream is healthy, or a short budget runs out; *)
(* a read still under way then is handed over to Recv.  Recv replays what  *)
(* was read ahead, then takes the handed-over read, then reads the wire.   *)
(*                                                                         *)
(* Each operation is an operator here; who calls Recv, and what for, is in *)
(* Exchange.  A frame has a number, its place on the wire.                 *)
(***************************************************************************)
EXTENDS Sequences, Naturals

CONSTANTS
    Events,      \* what a frame parses to (kiroEvent)
    Ends,        \* how a read fails: the stream is over, or it broke
    NoResult,
    MaxFrames    \* bound of the model: frames on the wire

ASSUME MaxFramesIsNat == MaxFrames \in Nat

\* A streamRecvResult, with its place on the wire.
Result == [n : Nat, ev : Events \union Ends]

ASSUME NoResultIsNone == NoResult \notin Result

VARIABLES
    phase,       \* "idle", "priming", "committed", "closed"; "handed" is
                 \* committed with a read handed over (pendingRead is set)
    decoded,     \* frames read off the wire
    primed,      \* the frames read ahead and not replayed yet
    reader,      \* the goroutine of readAsync: "none" or "reading"
    channel,     \* its channel, of capacity 1
    delivered    \* history: the number of the last frame given to the handler

streamVars == <<phase, decoded, primed, reader, channel, delivered>>

StreamInit ==
    /\ phase = "idle"
    /\ decoded = 0
    /\ primed = <<>>
    /\ reader = "none"
    /\ channel = NoResult
    /\ delivered = 0

\* What the wire may give next.
Readable == Ends \union IF decoded < MaxFrames THEN Events ELSE {}

NextFrame(ev) == [n |-> decoded + 1, ev |-> ev]

-----------------------------------------------------------------------------
(* Before the response is committed *)

\* sendOnce got a 2xx: a stream, nothing read yet.
OpenStream ==
    /\ phase = "idle"
    /\ phase' = "priming"
    /\ UNCHANGED <<decoded, primed, reader, channel, delivered>>

\* The probe loop starts a read.
StartRead ==
    /\ phase = "priming"
    /\ reader = "none"
    /\ channel = NoResult
    /\ reader' = "reading"
    /\ UNCHANGED <<phase, decoded, primed, channel, delivered>>

ReadUnbuffered ==   \* mutant: the channel has no room, the sender waits
    /\ reader = "reading" /\ channel = NoResult
    /\ phase # "closed"
    /\ \E ev \in Readable : channel' = NextFrame(ev)
    /\ decoded' = decoded + 1
    /\ UNCHANGED <<phase, primed, reader, delivered>>

\* The goroutine has its frame, leaves it in the channel and ends.
Read ==
    /\ reader = "reading"
    /\ phase # "closed"
    /\ \E ev \in Readable : channel' = NextFrame(ev)
    /\ decoded' = decoded + 1
    /\ reader' = "none"
    /\ UNCHANGED <<phase, primed, delivered>>

\* The body was closed under the goroutine: its read fails, nobody receives.
ReadFails ==
    /\ reader = "reading" /\ channel = NoResult
    /\ phase = "closed"
    /\ reader' = "none"
    /\ UNCHANGED <<phase, decoded, primed, channel, delivered>>

\* Close; what is left in the channel is garbage.
Closed ==
    /\ phase' = "closed"
    /\ primed' = <<>>

(***************************************************************************)
(* The probe takes a frame.  A failed read, or an event that fails the     *)
(* stream, closes it; an event the client will see commits the response;   *)
(* any other lets the probe read on.                                       *)
(***************************************************************************)
TakePrimed(fails, visible) ==
    /\ phase = "priming"
    /\ channel # NoResult
    /\ \/ /\ channel.ev \in fails
          /\ Closed
       \/ /\ channel.ev \notin fails
          /\ primed' = Append(primed, channel)
          /\ phase' = IF channel.ev \in visible THEN "committed" ELSE "priming"
    /\ channel' = NoResult
    /\ reader' = "none"
    /\ UNCHANGED <<decoded, delivered>>

TimeOutDropping ==   \* mutant: the read under way is not handed over
    /\ phase = "priming"
    /\ reader = "reading" \/ channel # NoResult
    /\ phase' = "committed"
    /\ UNCHANGED <<decoded, primed, reader, channel, delivered>>

\* The budget runs out: the read under way is handed to Recv.
TimeOut ==
    /\ phase = "priming"
    /\ reader = "reading" \/ channel # NoResult
    /\ phase' = "handed"
    /\ UNCHANGED <<decoded, primed, reader, channel, delivered>>

\* The client goes away during the probe, or the handler returns.
Close ==
    /\ phase \in {"priming", "handed", "committed"}
    /\ Closed
    /\ UNCHANGED <<decoded, reader, channel, delivered>>

-----------------------------------------------------------------------------
(* Recv.  After the last frame it wants, the handler returns and closes. *)

RecvPrimed(last) ==
    /\ phase \in {"handed", "committed"}
    /\ primed # <<>>
    /\ delivered' = Head(primed).n
    /\ IF last THEN Closed ELSE primed' = Tail(primed) /\ UNCHANGED phase
    /\ UNCHANGED <<decoded, reader, channel>>

RecvPending(last) ==
    /\ phase = "handed"
    /\ primed = <<>>
    /\ channel # NoResult
    /\ delivered' = channel.n
    /\ IF last THEN Closed ELSE phase' = "committed" /\ UNCHANGED primed
    /\ channel' = NoResult
    /\ reader' = "none"
    /\ UNCHANGED decoded

RecvDirect(last) ==
    /\ phase = "committed"
    /\ primed = <<>>
    /\ decoded' = decoded + 1
    /\ delivered' = decoded + 1
    /\ IF last THEN Closed ELSE UNCHANGED <<phase, primed>>
    /\ UNCHANGED <<reader, channel>>

-----------------------------------------------------------------------------

StreamTypeOK ==
    /\ phase \in {"idle", "priming", "handed", "committed", "closed"}
    /\ decoded \in 0..(MaxFrames + 1)
    /\ primed \in Seq(Result)
    /\ reader \in {"none", "reading"}
    /\ channel \in Result \union {NoResult}
    /\ delivered \in 0..(MaxFrames + 1)

Queue == INSTANCE FrameQueue WITH state <- IF phase = "closed" THEN "closed" ELSE "open"

(***************************************************************************)
(* However the probe ends and whatever it has read ahead, the handler is   *)
(* given every frame, once, in the order of the wire, until it closes.     *)
(***************************************************************************)
EveryFrameInOrder == Queue!Spec
=============================================================================
