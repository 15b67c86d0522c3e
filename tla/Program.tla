------------------------------- MODULE Program --------------------------------
(***************************************************************************)
(* What main starts (main.go): the serving process, the work in the        *)
(* background of it, and upgrade commands, each a process of its own.      *)
(* Service and Background share the service context, which either sees as  *)
(* a flag that a signal sets at any moment, and nothing else; a binary     *)
(* that is replaced does not change a process that runs.  So a behaviour   *)
(* is about one part, and the others are at rest.                          *)
(***************************************************************************)
EXTENDS Naturals, FiniteSets

CONSTANTS
    Requests, AdminRequests,                                       \* of Service
    Accounts, Admins, Slots, Workers,                              \* of Background
    Commands, Bare, Lost, Unversioned, MaxVersion, MaxBuild        \* of Upgrade

ASSUME AdminsAreRequests == AdminRequests \subseteq Requests
ASSUME LimitsArePositive == Slots \in Nat \ {0} /\ Workers \in Nat \ {0}
ASSUME PoolFinite == IsFiniteSet(Accounts)
ASSUME SomeBuild == MaxBuild \in Nat \ {0} /\ MaxVersion \in Nat \ {0}

VARIABLES
    part,            \* "service", "upgrade", or what of the background is looked at
    stopping,        \* the service context is cancelled
    main, signals, forced, servers, serveErrors, requests, insisted,
    loop, due, jobs, workers, probing, pool, warmups,
    releases, installed, commands, moved, listed

S == INSTANCE Service
B == INSTANCE Background
U == INSTANCE Upgrade

\* What is no version is none, and a binary that is lost is no binary.
ASSUME NoVersionIsNone == Unversioned \notin 1..MaxVersion /\ Lost \notin U!Binary

serviceVars == <<main, signals, forced, servers, serveErrors, requests, insisted>>
backgroundVars == <<loop, due, jobs, workers, probing, pool, warmups>>
upgradeVars == <<releases, installed, commands, moved, listed>>
vars == <<part, stopping, serviceVars, backgroundVars, upgradeVars>>

\* At rest, a process is over, a worker gone, and nobody upgrades.
NoService == S!Idle
NoBackground == B!Idle
NoUpgrade == U!Init /\ installed.version = 1

Init ==
    \/ part = "service" /\ S!Init /\ NoBackground /\ NoUpgrade
    \/ B!Init /\ NoService /\ NoUpgrade
    \/ part = "upgrade" /\ stopping = FALSE /\ U!Init /\ NoService /\ NoBackground

Next ==
    \/ part = "service" /\ S!Next /\ UNCHANGED <<part, backgroundVars, upgradeVars>>
    \/ part \in B!Parts /\ B!Next /\ UNCHANGED <<serviceVars, upgradeVars>>
    \/ part = "upgrade" /\ U!Next /\ UNCHANGED <<part, stopping, serviceVars, backgroundVars>>

\* Of an upgrade nothing is assumed: the network may fail it, and the user leave it.
Spec == Init /\ [][Next]_vars /\ S!Fairness /\ B!Fairness

-----------------------------------------------------------------------------
(***************************************************************************)
(* The types of the parts, with what each adds to them: listeners close    *)
(* only after a signal, warmups keep to their slots and a scan to its      *)
(* workers, and only a newer archive is downloaded.                        *)
(***************************************************************************)
TypeOK ==
    /\ part \in {"service", "upgrade"} \union B!Parts
    /\ S!TypeOK /\ B!TypeOK /\ U!TypeOK

(***************************************************************************)
(* A request under way is cut off only by a listener that broke, or by a   *)
(* second signal given after the first was acknowledged (runServe).        *)
(***************************************************************************)
NoRequestCut == S!NoRequestCut

(***************************************************************************)
(* Once told to stop, everything ends that does not serve a request, and a *)
(* signal taken as the second one ends that too: no listener, dropped      *)
(* signal, worker, warmup or loop is left waiting.                         *)
(***************************************************************************)
ComesToRest == S!DrainsUnlessHeld /\ S!ForceQuits /\ B!BackgroundStops /\ B!TargetsAreProbed

(***************************************************************************)
(* Whoever asked for verification gets an archive that was listed, whole,  *)
(* and an older version than was installed only who asked for a version,   *)
(* or by a command that another one has overtaken (runUpgrade).            *)
(***************************************************************************)
SafeReplacement == []U!OnlyWhatWasListed /\ U!BackOnlyWhenOvertaken
=============================================================================
