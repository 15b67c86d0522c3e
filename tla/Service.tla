------------------------------- MODULE Service -------------------------------
(***************************************************************************)
(* The life of the serving process (main.go, runServe; listen.go): start-  *)
(* up, the two listeners, signals, the draining of requests, and the exit, *)
(* which takes everything with it that is still under way.  The workers    *)
(* that live under the service context are in Background.                  *)
(*                                                                         *)
(* A signal reaches the program through channels of capacity one, one for  *)
(* each NotifyContext.                                                     *)
(***************************************************************************)
CONSTANTS
    Requests,
    AdminRequests    \* those that come to the admin listener

VARIABLES
    main,            \* where runServe is
    signals,         \* the channels of the two NotifyContexts
    stopping,        \* ctx is cancelled
    forced,          \* shutdownCtx is cancelled
    servers,         \* httpServer and adminServer with their listeners
    serveErrors,     \* the servers whose error is in serveErr
    requests,
    insisted         \* history: a signal came after "press Ctrl+C again"

signalVars == <<signals, stopping, forced, insisted>>
serverVars == <<servers, serveErrors>>
vars == <<main, signalVars, serverVars, requests>>

Servers == {"api", "admin"}
ServerOf(r) == IF r \in AdminRequests THEN "admin" ELSE "api"

Alive == main # "exited"
Announced == main \in {"announced", "draining"}
InFlight(r) == requests[r] = "open"

Init ==
    /\ main = "boot"
    /\ signals = {}
    /\ stopping = FALSE
    /\ forced = FALSE
    /\ servers = [s \in Servers |-> "unbound"]
    /\ serveErrors = {}
    /\ requests = [r \in Requests |-> "none"]
    /\ insisted = FALSE

\* No process runs.
Idle ==
    /\ main = "exited"
    /\ signals = {} /\ forced = FALSE /\ insisted = FALSE
    /\ servers = [s \in Servers |-> "unbound"] /\ serveErrors = {}
    /\ requests = [r \in Requests |-> "none"]

\* The process ends and takes with it whatever is under way.
Exit ==
    /\ main' = "exited"
    /\ requests' = [r \in Requests |-> IF InFlight(r) THEN "cut" ELSE requests[r]]

-----------------------------------------------------------------------------
(* Signals *)

Registered == {"first"} \union IF main = "draining" THEN {"second"} ELSE {}

\* Before the first NotifyContext a signal ends the process.
Kill ==
    /\ main = "boot"
    /\ Exit
    /\ UNCHANGED <<signalVars, serverVars>>

\* Afterwards it goes to every channel there is, and is dropped where one waits.
Signal ==
    /\ Alive
    /\ main # "boot"
    /\ signals' = signals \union Registered
    /\ insisted' = (insisted \/ Announced)
    /\ UNCHANGED <<main, stopping, forced, serverVars, requests>>

\* The goroutine of a NotifyContext takes one signal, cancels, and is gone.
Cancel ==
    /\ Alive
    /\ "first" \in signals /\ ~stopping
    /\ stopping' = TRUE
    /\ signals' = signals \ {"first"}
    /\ UNCHANGED <<main, forced, insisted, serverVars, requests>>

Force ==
    /\ Alive
    /\ "second" \in signals /\ ~forced
    /\ forced' = TRUE
    /\ signals' = signals \ {"second"}
    /\ UNCHANGED <<main, stopping, insisted, serverVars, requests>>

-----------------------------------------------------------------------------
(* runServe *)

Goes(from, to) == main = from /\ main' = to /\ UNCHANGED <<signalVars, requests>>

Start == Goes("boot", "registered") /\ UNCHANGED serverVars

\* listenWithAutoIncrement finds a port; the admin's comes after the API's.
Bind(s, from, to) ==
    /\ Goes(from, to)
    /\ servers' = [servers EXCEPT ![s] = "bound"]
    /\ UNCHANGED serveErrors

BindAPI == Bind("api", "registered", "apiBound")
BindAdmin == Bind("admin", "apiBound", "bound")

\* No port is free, or the log file cannot be opened.
StartFails ==
    /\ main \in {"registered", "apiBound"}
    /\ Exit
    /\ servers' = [s \in Servers |-> "unbound"]
    /\ UNCHANGED <<signalVars, serveErrors>>

Launch == Goes("bound", "serving") /\ UNCHANGED serverVars

\* select: both may be ready, then either is taken.
GiveUp ==
    /\ main = "serving"
    /\ serveErrors # {}
    /\ Exit
    /\ UNCHANGED <<signalVars, serverVars>>

Announce == stopping /\ Goes("serving", "announced") /\ UNCHANGED serverVars

Drain == Goes("announced", "draining") /\ UNCHANGED serverVars

BothDown == \A s \in Servers : servers[s] = "down"

FinishReported ==   \* mutant: both Serve goroutines are to report an error first
    /\ main = "draining"
    /\ BothDown /\ serveErrors = Servers
    /\ Exit
    /\ UNCHANGED <<signalVars, serverVars>>

\* wg.Wait: both Shutdowns have returned.
Finish ==
    /\ main = "draining"
    /\ BothDown
    /\ Exit
    /\ UNCHANGED <<signalVars, serverVars>>

-----------------------------------------------------------------------------
(* The servers and their requests.  A request begins with its connection. *)

Turns(s, to) == servers' = [servers EXCEPT ![s] = to] /\ UNCHANGED <<main, signalVars, requests>>

\* The goroutine that calls Serve; after Shutdown it would find it too late.
Serve(s) ==
    /\ main \in {"serving", "announced", "draining"}
    /\ servers[s] = "bound"
    /\ Turns(s, "serving")
    /\ UNCHANGED serveErrors

\* Accept fails for good; the error goes to serveErr.
Break(s) ==
    /\ Alive
    /\ servers[s] = "serving"
    /\ Turns(s, "broken")
    /\ serveErrors' = serveErrors \union {s}

Moves(r, from, to) ==
    /\ Alive
    /\ requests[r] = from
    /\ requests' = [requests EXCEPT ![r] = to]
    /\ UNCHANGED <<main, signalVars, serverVars>>

Arrive(r) == servers[ServerOf(r)] = "serving" /\ Moves(r, "none", "open")

End(r) == Moves(r, "open", "ended")

\* Shutdown: the listener is closed at once, the return waits.
Close(s) ==
    /\ main = "draining"
    /\ servers[s] \notin {"closed", "down"}
    /\ Turns(s, "closed")
    /\ UNCHANGED serveErrors

DrainedAtOnce(s) ==   \* mutant: it waits under the first context, which is over
    stopping \/ \A r \in Requests : InFlight(r) => ServerOf(r) # s

DrainedAtLast(s) ==   \* mutant: it waits under no context
    \A r \in Requests : InFlight(r) => ServerOf(r) # s

Drained(s) == forced \/ \A r \in Requests : InFlight(r) => ServerOf(r) # s

Shutdown(s) ==
    /\ main = "draining"
    /\ servers[s] = "closed"
    /\ Drained(s)
    /\ Turns(s, "down")
    /\ UNCHANGED serveErrors

-----------------------------------------------------------------------------
Main ==
    \/ Start \/ BindAPI \/ BindAdmin \/ StartFails \/ Launch
    \/ GiveUp \/ Announce \/ Drain \/ Finish

Next ==
    \/ Kill \/ Signal \/ Cancel \/ Force \/ Main
    \/ \E s \in Servers : Serve(s) \/ Break(s) \/ Close(s) \/ Shutdown(s)
    \/ \E r \in Requests : Arrive(r) \/ End(r)

(***************************************************************************)
(* Goroutines run.  Nothing is assumed of signals, of listeners, and of    *)
(* requests, which may go on for ever.                                     *)
(***************************************************************************)
Fairness ==
    /\ WF_vars(Main) /\ WF_vars(Cancel) /\ WF_vars(Force)
    /\ \A s \in Servers : WF_vars(Close(s)) /\ WF_vars(Shutdown(s))

Spec == Init /\ [][Next]_vars /\ Fairness

-----------------------------------------------------------------------------
(***************************************************************************)
(* The type invariant; with it, that a listener is closed only by a        *)
(* shutdown, and a shutdown begins only after a signal.                    *)
(***************************************************************************)
TypeOK ==
    /\ main \in {"boot", "registered", "apiBound", "bound", "serving", "announced", "draining",
                 "exited"}
    /\ signals \subseteq {"first", "second"}
    /\ stopping \in BOOLEAN /\ forced \in BOOLEAN /\ insisted \in BOOLEAN
    /\ servers \in [Servers -> {"unbound", "bound", "serving", "broken", "closed", "down"}]
    /\ serveErrors \subseteq Servers
    /\ requests \in [Requests -> {"none", "open", "ended", "cut"}]
    /\ \A s \in Servers : servers[s] \in {"closed", "down"} => stopping

(***************************************************************************)
(* A request under way is cut off only by a listener that broke, or by a   *)
(* second signal given after the first was acknowledged: neither by the    *)
(* first signal, nor by two that came in a row, nor because the other      *)
(* listener had nothing to wait for.                                       *)
(***************************************************************************)
NoRequestCut ==
    [][\A r \in Requests :
         InFlight(r) /\ requests'[r] = "cut" => serveErrors # {} \/ (forced /\ insisted)]_vars

(***************************************************************************)
(* Once told to stop, the process ends unless requests go on: no listener  *)
(* that broke or never served, and no signal that was dropped, keeps it.   *)
(***************************************************************************)
DrainsUnlessHeld == []<>(~stopping \/ ~Alive \/ \E r \in Requests : InFlight(r))

(***************************************************************************)
(* A signal taken as the second one ends the process although requests go  *)
(* on for ever.                                                            *)
(***************************************************************************)
ForceQuits == "second" \in signals ~> ~Alive
=============================================================================
