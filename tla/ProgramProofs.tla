---------------------------- MODULE ProgramProofs -----------------------------
(***************************************************************************)
(* Safety of the program: the serving process, its background work and the *)
(* upgrade command, each for any values of its constants.                  *)
(***************************************************************************)
EXTENDS Program, Sequences, FiniteSetTheorems, TLAPS

-----------------------------------------------------------------------------
(* The serving process *)

\* Nothing is served before the listeners are.
Early == main \in {"boot", "registered", "apiBound", "bound"}

ServesLate ==
    Early => /\ \A s \in S!Servers : servers[s] \in {"unbound", "bound"}
             /\ \A r \in Requests : requests[r] = "none"

\* The shutdown begins with a signal, its end is forced by one that insists.
StopsOnSignal == main \in {"announced", "draining"} => stopping

ForcedByInsisting == "second" \in signals \/ forced => insisted

\* A listener has gone down with its requests over, or by force.
DownIsDrained ==
    \A r \in Requests : servers[S!ServerOf(r)] = "down" /\ S!InFlight(r) => forced

ServiceInv == S!TypeOK /\ ServesLate /\ StopsOnSignal /\ ForcedByInsisting /\ DownIsDrained

LEMMA ServiceInitInv == S!Init \/ (S!Idle /\ stopping \in BOOLEAN) => ServiceInv
BY DEF S!Init, S!Idle, ServiceInv, S!TypeOK, ServesLate, StopsOnSignal, ForcedByInsisting,
       DownIsDrained, S!Servers, S!InFlight, Early

LEMMA ServerOfRequest == \A r \in Requests : S!ServerOf(r) \in S!Servers
BY DEF S!ServerOf, S!Servers

\* Whatever is under way when the process exits is cut.
LEMMA ExitKeeps ==
    ASSUME ServiceInv, S!Exit, UNCHANGED <<signals, stopping, forced, insisted>>,
           serveErrors' = serveErrors,
           servers' = servers \/ servers' = [s \in S!Servers |-> "unbound"]
    PROVE  ServiceInv'
BY DEF S!Exit, ServiceInv, S!TypeOK, ServesLate, StopsOnSignal, ForcedByInsisting,
       DownIsDrained, S!Servers, S!InFlight, Early

LEMMA ServiceStep ==
    ASSUME ServiceInv, S!Next
    PROVE  ServiceInv'
<1> USE DEF S!signalVars, S!serverVars
<1>1. CASE S!Kill
  BY <1>1, ExitKeeps DEF S!Kill
<1>2. CASE S!Signal
  BY <1>2 DEF S!Signal, S!Registered, S!Announced, ServiceInv, S!TypeOK, ServesLate,
         StopsOnSignal, ForcedByInsisting, DownIsDrained, S!InFlight, Early
<1>3. CASE S!Cancel
  BY <1>3 DEF S!Cancel, ServiceInv, S!TypeOK, ServesLate,
         StopsOnSignal, ForcedByInsisting, DownIsDrained, S!InFlight, Early
<1>4. CASE S!Force
  BY <1>4 DEF S!Force, ServiceInv, S!TypeOK, ServesLate,
         StopsOnSignal, ForcedByInsisting, DownIsDrained, S!InFlight, Early
<1>5. CASE S!Main
  <2>1. CASE S!Start \/ S!Launch \/ S!Drain \/ S!Announce
    <3>1. UNCHANGED <<signals, stopping, forced, insisted, servers, serveErrors, requests>>
      BY <2>1 DEF S!Start, S!Launch, S!Drain, S!Announce, S!Goes
    <3>2. S!TypeOK' /\ ForcedByInsisting' /\ DownIsDrained'
      BY <2>1, <3>1 DEF S!Start, S!Launch, S!Drain, S!Announce, S!Goes, ServiceInv, S!TypeOK,
             ForcedByInsisting, DownIsDrained, S!InFlight
    <3>3. ServesLate' /\ StopsOnSignal'
      BY <2>1, <3>1 DEF S!Start, S!Launch, S!Drain, S!Announce, S!Goes, ServiceInv, ServesLate,
             StopsOnSignal, Early
    <3> QED
      BY <3>2, <3>3 DEF ServiceInv
  <2>2. ASSUME NEW s \in S!Servers, S!Bind(s, "registered", "apiBound") \/ S!Bind(s, "apiBound", "bound")
        PROVE  ServiceInv'
    <3>1. S!TypeOK'
      <4>1. /\ servers' \in [S!Servers -> {"unbound", "bound", "serving", "broken", "closed", "down"}]
            /\ \A t \in S!Servers : servers'[t] \in {"closed", "down"} => servers[t] \in {"closed", "down"}
        BY <2>2 DEF S!Bind, ServiceInv, S!TypeOK
      <4> QED
        BY <2>2, <4>1 DEF S!Bind, S!Goes, ServiceInv, S!TypeOK
    <3>2. ServesLate' /\ StopsOnSignal' /\ ForcedByInsisting'
      BY <2>2 DEF S!Bind, S!Goes, ServiceInv, S!TypeOK, ServesLate, StopsOnSignal,
             ForcedByInsisting, Early
    <3>3. DownIsDrained'
      BY <2>2, ServerOfRequest DEF S!Bind, S!Goes, ServiceInv, S!TypeOK, ServesLate, Early,
             DownIsDrained, S!InFlight
    <3> QED
      BY <3>1, <3>2, <3>3 DEF ServiceInv
  <2>3. CASE S!StartFails \/ S!GiveUp \/ S!Finish
    BY <2>3, ExitKeeps DEF S!StartFails, S!GiveUp, S!Finish
  <2> QED
    BY <1>5, <2>1, <2>2, <2>3 DEF S!Main, S!BindAPI, S!BindAdmin, S!Servers
<1>6. ASSUME NEW s \in S!Servers, S!Serve(s) \/ S!Break(s) \/ S!Close(s) \/ S!Shutdown(s)
      PROVE  ServiceInv'
  <2>1. CASE S!Serve(s) \/ S!Break(s) \/ S!Close(s)
    <3>1. S!TypeOK' /\ StopsOnSignal' /\ ForcedByInsisting'
      <4>1. /\ servers' \in [S!Servers -> {"unbound", "bound", "serving", "broken", "closed", "down"}]
            /\ \A t \in S!Servers :
                 servers'[t] \in {"closed", "down"} => servers[t] \in {"closed", "down"} \/ S!Close(s)
        BY <2>1 DEF S!Serve, S!Break, S!Turns, S!Close, ServiceInv, S!TypeOK
      <4>2. serveErrors' \subseteq S!Servers
        BY <2>1 DEF S!Serve, S!Break, S!Close, ServiceInv, S!TypeOK
      <4>3. S!Close(s) => stopping
        BY DEF S!Close, ServiceInv, StopsOnSignal
      <4>4. UNCHANGED <<main, signals, stopping, forced, insisted, requests>>
        BY <2>1 DEF S!Serve, S!Break, S!Close, S!Turns
      <4> QED
        BY <4>1, <4>2, <4>3, <4>4 DEF ServiceInv, S!TypeOK, StopsOnSignal, ForcedByInsisting
    <3>2. ServesLate'
      BY <2>1 DEF S!Serve, S!Break, S!Close, S!Turns, ServiceInv, S!TypeOK, ServesLate, Early
    <3>3. DownIsDrained'
      BY <2>1, ServerOfRequest DEF S!Serve, S!Break, S!Close, S!Turns, ServiceInv, S!TypeOK,
             DownIsDrained, S!InFlight
    <3> QED
      BY <3>1, <3>2, <3>3 DEF ServiceInv
  <2>2. CASE S!Shutdown(s)
    BY <2>2, ServerOfRequest DEF S!Shutdown, S!Drained, S!Turns, ServiceInv, S!TypeOK,
         ServesLate, StopsOnSignal, ForcedByInsisting, DownIsDrained, S!InFlight, Early
  <2> QED
    BY <1>6, <2>1, <2>2
<1>7. ASSUME NEW r \in Requests, S!Arrive(r) \/ S!End(r)
      PROVE  ServiceInv'
  <2>1. CASE S!Arrive(r)
    BY <2>1, ServerOfRequest DEF S!Arrive, S!Moves, ServiceInv, S!TypeOK, ServesLate,
         StopsOnSignal, ForcedByInsisting, DownIsDrained, S!InFlight, Early
  <2>2. CASE S!End(r)
    BY <2>2 DEF S!End, S!Moves, ServiceInv, S!TypeOK, ServesLate,
         StopsOnSignal, ForcedByInsisting, DownIsDrained, S!InFlight, Early
  <2> QED
    BY <1>7, <2>1, <2>2
<1> QED
  BY <1>1, <1>2, <1>3, <1>4, <1>5, <1>6, <1>7 DEF S!Next

\* Only an exit cuts a request, and only of a listener that broke or was forced down.
LEMMA CutOnlyByForce ==
    ASSUME ServiceInv, S!Next, NEW r \in Requests, S!InFlight(r), requests'[r] = "cut"
    PROVE  serveErrors # {} \/ (forced /\ insisted)
<1> USE DEF S!signalVars, S!serverVars
<1>1. CASE S!Exit
  <2>1. ~Early
    BY DEF ServiceInv, ServesLate, S!InFlight
  <2>2. CASE S!GiveUp
    BY <2>2 DEF S!GiveUp
  <2>3. CASE S!Finish
    <3>1. servers[S!ServerOf(r)] = "down"
      BY <2>3, ServerOfRequest DEF S!Finish, S!BothDown
    <3> QED
      BY <3>1 DEF ServiceInv, DownIsDrained, ForcedByInsisting
  <2> QED
    BY <1>1, <2>1, <2>2, <2>3 DEF S!Next, S!Exit, S!Main, S!Kill, S!Signal, S!Cancel, S!Force,
         S!Start, S!BindAPI, S!BindAdmin, S!Bind, S!StartFails, S!Launch, S!Announce, S!Drain,
         S!Goes, S!Serve, S!Break, S!Close, S!Shutdown, S!Turns, S!Arrive, S!End, S!Moves,
         S!Alive, Early, S!InFlight
<1>2. CASE ~S!Exit
  BY <1>2 DEF S!Next, S!Exit, S!Main, S!Kill, S!Signal, S!Cancel, S!Force, S!GiveUp, S!Finish,
         S!Start, S!BindAPI, S!BindAdmin, S!Bind, S!StartFails, S!Launch, S!Announce, S!Drain,
         S!Goes, S!Serve, S!Break, S!Close, S!Shutdown, S!Turns, S!Arrive, S!End, S!Moves,
         S!InFlight, ServiceInv, S!TypeOK
<1> QED
  BY <1>1, <1>2

-----------------------------------------------------------------------------
(* The upgrade command *)

Active(c) == commands[c].phase # "idle"
Resolved(c) == Active(c) /\ commands[c].phase # "lookup"

\* An archive, once uploaded, stays or is replaced by a later build.
TargetsExist ==
    \A c \in Commands : Resolved(c) =>
        /\ commands[c].target \in DOMAIN releases
        /\ "archive" \in commands[c].assets \/ commands[c].phase = "chosen"
             => releases[commands[c].target].archive # 0
        /\ commands[c].phase # "resolved" => ~U!UpToDate(c)
        /\ commands[c].phase \in {"downloaded", "verified"} => commands[c].archive.build # 0

\* The digests a release gives are on record.
SumsAreListed ==
    \A v \in DOMAIN releases :
        releases[v].sums # 0 => [version |-> v, build |-> releases[v].sums] \in listed

\* What passed the verification is whole and was listed.
VerifiedWasListed ==
    \A c \in Commands : commands[c].phase = "verified" /\ ~commands[c].opts.allowUnverified =>
        /\ commands[c].archive.intact
        /\ [version |-> commands[c].target, build |-> commands[c].archive.build] \in listed

\* A command nobody overtook was started from the binary on disk.
StartedFromInstalled ==
    \A c \in Commands \ moved :
        Active(c) => installed = Lost \/ installed.version = commands[c].running

UpgradeTypes ==
    /\ releases \in Seq(U!Release) /\ Len(releases) \in 1..MaxVersion
    /\ installed \in U!Binary \union {Lost}
    /\ commands \in [Commands -> U!Command]
    /\ moved \subseteq Commands
    /\ listed \subseteq U!Archives

UpgradeInv ==
    /\ UpgradeTypes
    /\ TargetsExist
    /\ SumsAreListed
    /\ VerifiedWasListed
    /\ StartedFromInstalled
    /\ U!OnlyWhatWasListed

LEMMA UpgradeTypeOK == UpgradeInv => U!TypeOK
BY SomeBuild DEF UpgradeInv, UpgradeTypes, U!TypeOK, U!Latest, TargetsExist, Resolved, Active

LEMMA UpgradeInitInv == U!Init => UpgradeInv
<1> SUFFICES ASSUME U!Init PROVE UpgradeInv
  OBVIOUS
<1>1. /\ releases = <<[archive |-> 1, hasSums |-> TRUE, sums |-> 1]>>
      /\ releases \in Seq(U!Release) /\ Len(releases) = 1 /\ DOMAIN releases = {1}
  BY SomeBuild DEF U!Init, U!Release
<1>2. U!Idle \in U!Command /\ U!Idle.phase = "idle"
  BY SomeBuild DEF U!Idle, U!Command, U!NoOptions, U!Options, U!NoArchive, U!Versions
<1>3. installed \in U!Binary /\ installed.build = 0
  <2>1. PICK x \in U!Versions :
          installed = [version |-> x, build |-> 0, intact |-> TRUE, unverified |-> FALSE]
    BY DEF U!Init
  <2>2. x \in U!Versions /\ 0 \in 0..MaxBuild
    BY SomeBuild DEF U!Versions, U!Valid
  <2> QED
    BY <2>1, <2>2 DEF U!Binary
<1>4. listed = {[version |-> 1, build |-> 1]} /\ listed \subseteq U!Archives
  BY SomeBuild DEF U!Init, U!Archives, U!Valid
<1>5. UpgradeTypes
  BY <1>1, <1>2, <1>3, <1>4, SomeBuild DEF U!Init, UpgradeTypes
<1>6. \A c \in Commands : commands[c].phase = "idle"
  BY <1>2 DEF U!Init
<1>7. SumsAreListed
  BY <1>1, <1>4 DEF SumsAreListed
<1> QED
  BY <1>3, <1>5, <1>6, <1>7 DEF UpgradeInv, TargetsExist, VerifiedWasListed,
     StartedFromInstalled, U!OnlyWhatWasListed, Active, Resolved

\* A command changes alone: the invariant holds of the others as before.
LEMMA CommandKeeps ==
    ASSUME UpgradeInv, NEW c \in Commands, NEW command \in U!Command,
           U!Becomes(c, command), U!Keeps,
           command.phase \notin {"idle", "lookup"} =>
             /\ command.target \in DOMAIN releases
             /\ "archive" \in command.assets \/ command.phase = "chosen"
                  => releases[command.target].archive # 0
             /\ command.phase # "resolved" => ~U!UpToDate(c)'
             /\ command.phase \in {"downloaded", "verified"} => command.archive.build # 0,
           command.phase = "verified" /\ ~command.opts.allowUnverified =>
             /\ command.archive.intact
             /\ [version |-> command.target, build |-> command.archive.build] \in listed,
           command.phase # "idle" => Active(c) /\ command.running = commands[c].running
    PROVE  UpgradeInv'
<1>1. /\ commands' \in [Commands -> U!Command]
      /\ commands'[c] = command
      /\ \A d \in Commands \ {c} : commands'[d] = commands[d]
  BY DEF U!Becomes, UpgradeInv, UpgradeTypes
<1>2. UNCHANGED <<releases, installed, moved, listed>>
  BY DEF U!Keeps
<1>3. UpgradeTypes' /\ SumsAreListed' /\ U!OnlyWhatWasListed'
  BY <1>1, <1>2 DEF UpgradeInv, UpgradeTypes, SumsAreListed, U!OnlyWhatWasListed
<1>4. TargetsExist'
  <2>1. \A d \in Commands \ {c} : U!UpToDate(d)' = U!UpToDate(d)
    BY <1>1 DEF U!UpToDate, U!AtMost
  <2> QED
    BY <1>1, <1>2, <2>1 DEF UpgradeInv, TargetsExist, Resolved, Active
<1>5. VerifiedWasListed'
  BY <1>1, <1>2 DEF UpgradeInv, VerifiedWasListed
<1>6. StartedFromInstalled'
  BY <1>1, <1>2 DEF UpgradeInv, StartedFromInstalled, Active
<1> QED
  BY <1>3, <1>4, <1>5, <1>6 DEF UpgradeInv

\* What an upload adds to a release leaves the commands their targets.
LEMMA PublishKeeps ==
    ASSUME UpgradeInv, NEW v \in DOMAIN releases, NEW release \in U!Release,
           U!Publishes(v, release), releases[v].archive # 0 => release.archive # 0,
           release.sums \in {0, releases[v].sums} \/ release.sums \in 1..MaxBuild
    PROVE  UpgradeInv'
<1>1. /\ releases' \in Seq(U!Release) /\ Len(releases') = Len(releases)
      /\ DOMAIN releases' = DOMAIN releases
      /\ releases'[v] = release
      /\ \A w \in DOMAIN releases \ {v} : releases'[w] = releases[w]
  BY DEF U!Publishes, UpgradeInv, UpgradeTypes
<1>2. UNCHANGED <<installed, commands, moved>>
  BY DEF U!Publishes
<1>3. /\ listed \subseteq listed' /\ listed' \subseteq U!Archives
      /\ release.sums # 0 => [version |-> v, build |-> release.sums] \in listed'
  <2>1. v \in U!Valid
    BY SomeBuild DEF UpgradeInv, UpgradeTypes, U!Valid
  <2>2. release.sums \in 0..MaxBuild
    BY DEF U!Release
  <2> QED
    BY <2>1, <2>2, SomeBuild DEF U!Publishes, UpgradeInv, UpgradeTypes, U!Archives
<1>4. UpgradeTypes' /\ SumsAreListed'
  BY <1>1, <1>2, <1>3 DEF UpgradeInv, UpgradeTypes, SumsAreListed
<1>5. TargetsExist'
  <2>1. \A d \in Commands : U!UpToDate(d)' = U!UpToDate(d)
    BY <1>2 DEF U!UpToDate, U!AtMost
  <2> QED
    BY <1>1, <1>2, <2>1 DEF UpgradeInv, TargetsExist, Resolved, Active
<1>6. VerifiedWasListed' /\ StartedFromInstalled' /\ U!OnlyWhatWasListed'
  BY <1>2, <1>3 DEF UpgradeInv, VerifiedWasListed, StartedFromInstalled, U!OnlyWhatWasListed, Active
<1> QED
  BY <1>4, <1>5, <1>6 DEF UpgradeInv

\* Replacing the binary, or losing it, overtakes every other command.
LEMMA InstallKeeps ==
    ASSUME UpgradeInv, NEW c \in Commands, U!Install(c) \/ U!InstallLosing(c)
    PROVE  UpgradeInv'
<1>1. commands[c].phase = "verified" /\ Resolved(c) /\ commands[c] \in U!Command
  BY DEF U!Install, U!InstallLosing, U!InstallAs, Resolved, Active, UpgradeInv, UpgradeTypes
<1>2. /\ U!Idle \in U!Command /\ U!Idle.phase = "idle"
  BY SomeBuild DEF U!Idle, U!Command, U!NoOptions, U!Options, U!NoArchive, U!Versions
<1>3. /\ commands' \in [Commands -> U!Command]
      /\ commands'[c].phase = "idle"
      /\ \A d \in Commands \ {c} : commands'[d] = commands[d]
      /\ moved' = {d \in Commands \ {c} : commands[d].phase # "idle"}
      /\ UNCHANGED <<releases, listed>>
  BY <1>2 DEF U!Install, U!InstallLosing, U!InstallAs, U!Becomes, UpgradeInv, UpgradeTypes
<1>4. installed' \in U!Binary \union {Lost} /\ U!OnlyWhatWasListed'
  <2>1. CASE U!InstallLosing(c)
    BY <2>1 DEF U!InstallLosing, U!InstallAs, U!OnlyWhatWasListed
  <2>2. CASE U!Install(c)
    <3>1. commands[c].target \in 1..MaxVersion
      BY <1>1, SomeBuild DEF UpgradeInv, UpgradeTypes, TargetsExist
    <3>2. installed' = U!Extracted(c) /\ U!Extracted(c) \in U!Binary
      BY <1>1, <2>2, <3>1 DEF U!Install, U!InstallAs, U!Extracted, U!Binary, U!Command, U!Options,
         U!Versions, U!Valid
    <3> QED
      BY <1>1, <1>3, <3>2 DEF UpgradeInv, VerifiedWasListed, U!OnlyWhatWasListed, U!Extracted
  <2> QED
    BY <2>1, <2>2
<1>5. UpgradeTypes' /\ SumsAreListed'
  BY <1>3, <1>4 DEF UpgradeInv, UpgradeTypes, SumsAreListed
<1>6. TargetsExist'
  <2>1. \A d \in Commands \ {c} : U!UpToDate(d)' = U!UpToDate(d)
    BY <1>3 DEF U!UpToDate, U!AtMost
  <2> QED
    BY <1>3, <2>1 DEF UpgradeInv, TargetsExist, Resolved, Active
<1>7. VerifiedWasListed' /\ StartedFromInstalled'
  BY <1>3 DEF UpgradeInv, VerifiedWasListed, StartedFromInstalled, Active
<1> QED
  BY <1>4, <1>5, <1>6, <1>7 DEF UpgradeInv

LEMMA UpgradeStep ==
    ASSUME UpgradeInv, U!Next
    PROVE  UpgradeInv'
<1>1. U!Idle \in U!Command /\ U!Idle.phase = "idle"
  BY SomeBuild DEF U!Idle, U!Command, U!NoOptions, U!Options, U!NoArchive, U!Versions
<1>2. ASSUME NEW c \in Commands, NEW opts \in U!OptionsOf(c), U!Start(c, opts)
      PROVE  UpgradeInv'
  <2> DEFINE command == [U!Idle EXCEPT !.phase = "lookup", !.opts = opts, !.running = installed.version]
  <2>1. installed \in U!Binary
    BY <1>2 DEF U!Start, UpgradeInv, UpgradeTypes
  <2>2. opts \in U!Options
    <3>1. U!NoOptions \in U!Options
      BY SomeBuild DEF U!NoOptions, U!Options
    <3> QED
      BY <3>1 DEF U!OptionsOf
  <2>3. command \in U!Command /\ command.phase = "lookup" /\ command.running = installed.version
    BY <1>1, <2>1, <2>2 DEF U!Idle, U!Command, U!Binary
  <2>4. /\ commands' \in [Commands -> U!Command]
        /\ commands'[c] = command
        /\ \A d \in Commands \ {c} : commands'[d] = commands[d]
        /\ moved' = moved \ {c} /\ UNCHANGED <<releases, installed, listed>>
    BY <1>2, <2>3 DEF U!Start, U!Becomes, UpgradeInv, UpgradeTypes
  <2> HIDE DEF command
  <2>5. UpgradeTypes' /\ SumsAreListed' /\ U!OnlyWhatWasListed'
    BY <2>4 DEF UpgradeInv, UpgradeTypes, SumsAreListed, U!OnlyWhatWasListed
  <2>6. TargetsExist'
    <3>1. \A d \in Commands \ {c} : U!UpToDate(d)' = U!UpToDate(d)
      BY <2>4 DEF U!UpToDate, U!AtMost
    <3> QED
      BY <2>3, <2>4, <3>1 DEF UpgradeInv, TargetsExist, Resolved, Active
  <2>7. VerifiedWasListed' /\ StartedFromInstalled'
    BY <2>3, <2>4 DEF UpgradeInv, VerifiedWasListed, StartedFromInstalled, Active
  <2> QED
    BY <2>5, <2>6, <2>7 DEF UpgradeInv
<1>3. ASSUME NEW c \in Commands, U!Current(c) \/ U!Stay(c) \/ U!Fail(c)
      PROVE  UpgradeInv'
  <2>1. U!Becomes(c, U!Idle) /\ U!Keeps
    BY <1>3 DEF U!Current, U!Stay, U!Fail
  <2> QED
    BY <1>1, <2>1, CommandKeeps
<1>4. ASSUME NEW c \in Commands, U!LookUp(c) \/ U!LookUpByRedirect(c)
      PROVE  UpgradeInv'
  <2>1. PICK tag, assets :
          /\ U!Resolve(c, tag, assets)
          /\ commands[c].phase = "lookup"
          /\ tag \in DOMAIN releases
          /\ assets \in {{}, U!Assets(releases[tag])}
    BY <1>4 DEF U!LookUp, U!LookUpByRedirect, U!Latest, UpgradeInv, UpgradeTypes
  <2> DEFINE command == [commands[c] EXCEPT !.phase = "resolved", !.target = tag, !.assets = assets]
  <2>2. /\ assets \subseteq {"archive", "sums"}
        /\ "archive" \in assets => releases[tag].archive # 0
    BY <2>1 DEF U!Assets
  <2>3. tag \in 0..MaxVersion
    BY <2>1, SomeBuild DEF UpgradeInv, UpgradeTypes
  <2>4. /\ command \in U!Command /\ command.phase = "resolved" /\ command.target = tag
        /\ command.assets = assets /\ command.running = commands[c].running
    <3>1. commands[c] \in U!Command
      BY DEF UpgradeInv, UpgradeTypes
    <3> QED
      BY <2>2, <2>3, <3>1 DEF U!Command
  <2>5. U!Becomes(c, command) /\ U!Keeps /\ Active(c)
    BY <2>1 DEF U!Resolve, Active
  <2> HIDE DEF command
  <2> QED
    BY <2>1, <2>2, <2>4, <2>5, CommandKeeps
<1>5. ASSUME NEW c \in Commands, U!Choose(c)
      PROVE  UpgradeInv'
  <2> DEFINE command == [commands[c] EXCEPT !.phase = "chosen"]
  <2>1. /\ command \in U!Command /\ command.phase = "chosen"
        /\ command.target = commands[c].target /\ command.running = commands[c].running
    BY DEF UpgradeInv, UpgradeTypes, U!Command
  <2>2. U!Becomes(c, command) /\ U!Keeps /\ Resolved(c) /\ Active(c)
    BY <1>5 DEF U!Choose, Resolved, Active
  <2>3. releases[command.target].archive # 0 /\ command.target \in DOMAIN releases
    BY <1>5, <2>1, <2>2 DEF U!Choose, UpgradeInv, TargetsExist
  <2> HIDE DEF command
  <2>4. commands'[c].running = commands[c].running /\ commands'[c].target = commands[c].target
    BY <2>1, <2>2 DEF U!Becomes, UpgradeInv, UpgradeTypes
  <2>5. ~U!UpToDate(c)'
    BY <1>5, <2>4 DEF U!Choose, U!UpToDate, U!AtMost
  <2> QED
    BY <2>1, <2>2, <2>3, <2>5, CommandKeeps
<1>6. ASSUME NEW c \in Commands, NEW intact \in BOOLEAN, U!Download(c, intact)
      PROVE  UpgradeInv'
  <2> DEFINE command == [commands[c] EXCEPT !.phase = "downloaded",
                 !.archive = [build |-> releases[commands[c].target].archive, intact |-> intact]]
  <2>1. commands[c].phase = "chosen" /\ Resolved(c) /\ Active(c)
    BY <1>6 DEF U!Download, Resolved, Active
  <2>2. /\ commands[c].target \in DOMAIN releases
        /\ releases[commands[c].target].archive # 0
        /\ ~U!UpToDate(c)
    BY <2>1 DEF UpgradeInv, TargetsExist
  <2>3. /\ command \in U!Command /\ command.phase = "downloaded"
        /\ command.target = commands[c].target /\ command.running = commands[c].running
        /\ command.archive.build # 0
    <3>1. releases[commands[c].target] \in U!Release
      BY <2>2 DEF UpgradeInv, UpgradeTypes
    <3>2. [build |-> releases[commands[c].target].archive, intact |-> intact]
            \in [build : 0..MaxBuild, intact : BOOLEAN]
      BY <3>1 DEF U!Release
    <3>3. commands[c] \in U!Command
      BY DEF UpgradeInv, UpgradeTypes
    <3> QED
      BY <2>2, <3>2, <3>3 DEF U!Command
  <2>4. U!Becomes(c, command) /\ U!Keeps
    BY <1>6 DEF U!Download
  <2> HIDE DEF command
  <2>5. commands'[c].running = commands[c].running /\ commands'[c].target = commands[c].target
    BY <2>3, <2>4 DEF U!Becomes, UpgradeInv, UpgradeTypes
  <2>6. ~U!UpToDate(c)'
    BY <2>2, <2>5 DEF U!UpToDate, U!AtMost
  <2>7. releases[command.target].archive # 0
    BY <2>2, <2>3
  <2> QED
    BY <2>1, <2>2, <2>3, <2>4, <2>6, <2>7, CommandKeeps
<1>7. ASSUME NEW c \in Commands, U!Verify(c)
      PROVE  UpgradeInv'
  <2> DEFINE command == [commands[c] EXCEPT !.phase = "verified"]
  <2>1. commands[c].phase = "downloaded" /\ Resolved(c) /\ Active(c)
    BY <1>7 DEF U!Verify, Resolved, Active
  <2>2. /\ commands[c].target \in DOMAIN releases
        /\ commands[c].archive.build # 0
        /\ "archive" \in commands[c].assets => releases[commands[c].target].archive # 0
        /\ ~U!UpToDate(c)
    BY <2>1 DEF UpgradeInv, TargetsExist
  <2>3. /\ command \in U!Command /\ command.phase = "verified"
        /\ command.target = commands[c].target /\ command.running = commands[c].running
        /\ command.archive = commands[c].archive /\ command.opts = commands[c].opts
        /\ command.assets = commands[c].assets
    BY DEF UpgradeInv, UpgradeTypes, U!Command
  <2>4. U!Becomes(c, command) /\ U!Keeps
    BY <1>7 DEF U!Verify
  <2>5. ~command.opts.allowUnverified =>
          /\ command.archive.intact
          /\ [version |-> command.target, build |-> command.archive.build] \in listed
    BY <1>7, <2>2, <2>3 DEF U!Verify, UpgradeInv, SumsAreListed
  <2> HIDE DEF command
  <2>6. commands'[c].running = commands[c].running /\ commands'[c].target = commands[c].target
    BY <2>3, <2>4 DEF U!Becomes, UpgradeInv, UpgradeTypes
  <2>7. ~U!UpToDate(c)'
    BY <2>2, <2>6 DEF U!UpToDate, U!AtMost
  <2> QED
    BY <2>1, <2>2, <2>3, <2>4, <2>5, <2>7, CommandKeeps
<1>8. CASE U!Tag
  <2>1. /\ releases' \in Seq(U!Release) /\ Len(releases') = Len(releases) + 1
        /\ DOMAIN releases' = DOMAIN releases \union {Len(releases) + 1}
        /\ releases'[Len(releases) + 1] = U!Unpublished
        /\ \A v \in DOMAIN releases : releases'[v] = releases[v]
    BY <1>8, SomeBuild DEF U!Tag, U!Unpublished, U!Release, UpgradeInv, UpgradeTypes
  <2>2. Len(releases) \in Nat /\ Len(releases) + 1 \in 1..MaxVersion
    BY <1>8, SomeBuild DEF U!Tag, U!Latest, UpgradeInv, UpgradeTypes
  <2>3. UNCHANGED <<installed, commands, moved, listed>>
    BY <1>8 DEF U!Tag
  <2>4. UpgradeTypes' /\ SumsAreListed'
    BY <2>1, <2>2, <2>3 DEF UpgradeInv, UpgradeTypes, SumsAreListed, U!Unpublished
  <2>5. TargetsExist'
    <3>1. \A d \in Commands : U!UpToDate(d)' = U!UpToDate(d)
      BY <2>3 DEF U!UpToDate, U!AtMost
    <3> QED
      BY <2>1, <2>3, <3>1 DEF UpgradeInv, TargetsExist, Resolved, Active
  <2> QED
    BY <2>3, <2>4, <2>5 DEF UpgradeInv, VerifiedWasListed, StartedFromInstalled,
       U!OnlyWhatWasListed, Active
<1>9. ASSUME NEW v \in DOMAIN releases, U!UploadArchive(v) \/ U!UploadSums(v)
      PROVE  UpgradeInv'
  <2>1. releases[v] \in U!Release
    BY DEF UpgradeInv, UpgradeTypes
  <2>2. CASE U!UploadArchive(v)
    <3>1. [releases[v] EXCEPT !.archive = @ + 1] \in U!Release
      BY <2>1, <2>2, SomeBuild DEF U!UploadArchive, U!Release
    <3> QED
      BY <2>1, <2>2, <3>1, PublishKeeps DEF U!UploadArchive, U!Release
  <2>3. CASE U!UploadSums(v)
    <3> DEFINE release == [releases[v] EXCEPT !.hasSums = TRUE, !.sums = releases[v].archive]
    <3>1. /\ release \in U!Release /\ release.sums = releases[v].archive
          /\ release.archive = releases[v].archive
      BY <2>1 DEF U!Release
    <3>2. release.sums \in 1..MaxBuild \/ release.sums = 0
      BY <2>1, <3>1, SomeBuild DEF U!Release
    <3>3. U!Publishes(v, release)
      BY <2>3 DEF U!UploadSums
    <3> HIDE DEF release
    <3> QED
      BY <3>1, <3>2, <3>3, PublishKeeps
  <2> QED
    BY <1>9, <2>2, <2>3
<1> QED
  BY <1>2, <1>3, <1>4, <1>5, <1>6, <1>7, <1>8, <1>9, InstallKeeps DEF U!Next

\* A command that installs something older than what is there was overtaken.
LEMMA OlderOnlyWhenOvertaken ==
    ASSUME UpgradeInv, U!Next, installed # Lost, installed' # Lost,
           U!Compare(installed'.version, installed.version) = "less"
    PROVE  \E c \in Commands :
              commands[c].phase = "verified" /\ commands'[c].phase = "idle" /\ c \in moved
<1>1. U!Compare(installed.version, installed.version) # "less"
  BY SomeBuild DEF U!Compare, U!Valid
<1>2. PICK c \in Commands : U!Install(c)
  BY <1>1 DEF U!Next, U!Start, U!LookUp, U!LookUpByRedirect, U!Resolve, U!Current, U!Stay, U!Choose,
     U!Download, U!Verify, U!InstallLosing, U!InstallAs, U!Fail, U!Keeps, U!Tag, U!UploadArchive,
     U!UploadSums, U!Publishes
<1>3. /\ commands[c].phase = "verified" /\ Resolved(c) /\ Active(c)
      /\ installed'.version = commands[c].target
  BY <1>2 DEF U!Install, U!InstallAs, U!Extracted, Resolved, Active
<1>4. commands'[c].phase = "idle"
  BY <1>2 DEF U!Install, U!InstallAs, U!Becomes, U!Idle, UpgradeInv, UpgradeTypes
<1>5. c \in moved
  <2> SUFFICES ASSUME c \notin moved PROVE FALSE
    OBVIOUS
  <2>1. installed.version = commands[c].running
    BY <1>3 DEF UpgradeInv, StartedFromInstalled
  <2>2. ~U!UpToDate(c) /\ commands[c].target \in U!Valid
    BY <1>3, SomeBuild DEF UpgradeInv, UpgradeTypes, TargetsExist, U!Valid
  <2> QED
    BY <1>3, <2>1, <2>2, SomeBuild DEF U!UpToDate, U!AtMost, U!Compare, U!Valid
<1> QED
  BY <1>3, <1>4, <1>5

-----------------------------------------------------------------------------
(* The background work *)

\* Between two scans no worker is left.
NoWorkerBetweenScans == loop = "ticking" => workers = B!NoWorkers /\ probing = {}

BackgroundInv == B!TypeOK /\ IsFiniteSet(warmups) /\ NoWorkerBetweenScans

\* Background counts as this module does.
LEMMA SameCardinality == \A T : B!Cardinality(T) = Cardinality(T)
BY DEF B!Cardinality, Cardinality

LEMMA OneMore ==
    ASSUME NEW T, NEW x, IsFiniteSet(T)
    PROVE  /\ IsFiniteSet(T \union {x}) /\ Cardinality(T \union {x}) \in Nat
           /\ Cardinality(T \union {x}) <= Cardinality(T) + 1
<1>1. /\ IsFiniteSet(T \union {x})
      /\ Cardinality(T \union {x}) = Cardinality(T) \/ Cardinality(T \union {x}) = Cardinality(T) + 1
  BY FS_AddElement
<1>2. Cardinality(T) \in Nat
  BY FS_CardinalityType
<1> QED
  BY <1>1, <1>2

LEMMA StaffIsLimited ==
    ASSUME NEW targets \in SUBSET Accounts
    PROVE  B!Staff(targets) \in 0..Workers
<1>1. Cardinality(targets) \in Nat
  BY PoolFinite, FS_Subset, FS_CardinalityType
<1> QED
  BY <1>1, LimitsArePositive, SameCardinality DEF B!Staff

\* A scan begins with nobody at work, so its workers are all there are.
LEMMA StaffedWithinLimit ==
    ASSUME NEW targets \in SUBSET Accounts, NEW staffed,
           staffed = [B!NoWorkers EXCEPT !.head = B!Staff(targets)]
    PROVE  /\ staffed \in [head : 0..Workers, past : 0..Workers]
           /\ staffed.head + staffed.past + Cardinality({}) <= Workers
<1>1. staffed = [head |-> B!Staff(targets), past |-> 0]
  BY DEF B!NoWorkers
<1> DEFINE n == B!Staff(targets)
<1>2. n \in 0..Workers /\ Cardinality({}) = 0
  BY StaffIsLimited, FS_EmptySet
<1> HIDE DEF n
<1>3. 0 \in 0..Workers /\ n + 0 + 0 <= Workers
  BY <1>2, LimitsArePositive
<1>4. staffed.head = n /\ staffed.past = 0 /\ staffed \in [head : 0..Workers, past : 0..Workers]
  <2>1. staffed = [head |-> n, past |-> 0]
    BY <1>1 DEF n
  <2>2. [head |-> n, past |-> 0] \in [head : 0..Workers, past : 0..Workers]
    BY <1>2, <1>3
  <2> QED
    BY ONLY <2>1, <2>2
<1> QED
  BY <1>2, <1>3, <1>4

\* Nobody warms where nobody waits.
LEMMA NothingBegun ==
    ASSUME warmups = {}
    PROVE  /\ warmups \subseteq B!Warmup /\ IsFiniteSet(warmups)
           /\ Cardinality({w \in warmups : w.state = "warming"}) <= Slots
<1>1. {w \in warmups : w.state = "warming"} = {} /\ IsFiniteSet({}) /\ Cardinality({}) = 0
  BY FS_EmptySet
<1> QED
  BY <1>1, LimitsArePositive

LEMMA BackgroundInitInv == B!Init \/ (B!Idle /\ stopping \in BOOLEAN) => BackgroundInv
<1>1. ASSUME B!Init PROVE BackgroundInv
  <2>1. /\ jobs \in SUBSET Accounts /\ pool \subseteq Accounts /\ due \subseteq Accounts
        /\ probing = {} /\ warmups = {} /\ stopping \in BOOLEAN
        /\ workers = [B!NoWorkers EXCEPT !.head = B!Staff(jobs)]
    BY <1>1 DEF B!Init
  <2>2. loop \in {"scanning", "stopped", "ticking"}
    BY <1>1 DEF B!Init
  <2>3. NoWorkerBetweenScans
    <3>1. CASE part = "probe"
      BY <1>1, <3>1 DEF B!Init, NoWorkerBetweenScans
    <3>2. CASE part # "probe"
      <4>1. jobs = {} /\ B!Staff({}) = 0
        BY <1>1, <3>2, FS_EmptySet, LimitsArePositive, SameCardinality DEF B!Init, B!Staff
      <4> QED
        BY <2>1, <4>1 DEF NoWorkerBetweenScans, B!NoWorkers
    <3> QED
      BY <3>1, <3>2
  <2>4. /\ workers \in [head : 0..Workers, past : 0..Workers]
        /\ workers.head + workers.past + Cardinality(probing) <= Workers
    BY <2>1, StaffedWithinLimit
  <2> QED
    BY <2>1, <2>2, <2>3, <2>4, NothingBegun, SameCardinality DEF BackgroundInv, B!TypeOK
<1>2. ASSUME B!Idle, stopping \in BOOLEAN PROVE BackgroundInv
  <2>1. /\ workers \in [head : 0..Workers, past : 0..Workers]
        /\ workers.head + workers.past + Cardinality(probing) <= Workers
    BY <1>2, FS_EmptySet, LimitsArePositive DEF B!Idle, B!NoWorkers
  <2> QED
    BY <1>2, <2>1, NothingBegun, SameCardinality DEF B!Idle, BackgroundInv, B!TypeOK, NoWorkerBetweenScans
<1> QED
  BY <1>1, <1>2

\* What the loops do: the warmups stay as they are.
LEMMA ScanKeeps ==
    ASSUME BackgroundInv, B!Stop \/ B!StopLoop \/ B!Scanning
    PROVE  BackgroundInv'
<1> USE DEF B!warmVars, B!scanVars
<1>1. UNCHANGED warmups
  BY DEF B!Stop, B!StopLoop, B!Scanning, B!Tick, B!LookAt, B!Refreshed, B!Scanned, B!Turns
<1>2. /\ warmups' \subseteq B!Warmup /\ IsFiniteSet(warmups)'
      /\ Cardinality({w \in warmups : w.state = "warming"})' <= Slots
  BY <1>1, SameCardinality DEF BackgroundInv, B!TypeOK
<1>3. CASE B!Tick
  <2>1. /\ jobs' \in SUBSET Accounts /\ due' \subseteq Accounts
        /\ workers' = [B!NoWorkers EXCEPT !.head = B!Staff(jobs')]
        /\ probing' = {} /\ loop' = "scanning" /\ UNCHANGED <<stopping, pool>>
    BY <1>3 DEF B!Tick, B!Turns, BackgroundInv, NoWorkerBetweenScans
  <2>2. /\ workers' \in [head : 0..Workers, past : 0..Workers]
        /\ workers'.head + workers'.past + Cardinality(probing') <= Workers
    BY <2>1, StaffedWithinLimit
  <2> QED
    BY <1>2, <2>1, <2>2, SameCardinality DEF BackgroundInv, B!TypeOK, NoWorkerBetweenScans
<1>4. CASE ~B!Tick
  <2>1. /\ UNCHANGED <<workers, probing, pool>>
        /\ due' \subseteq Accounts /\ jobs' \subseteq Accounts /\ stopping' \in BOOLEAN
        /\ loop' \in {"scanning", "waiting", "ticking", "stopped"}
    BY <1>4, SameCardinality DEF B!Stop, B!StopLoop, B!Scanning, B!LookAt, B!Refreshed, B!Scanned, B!Turns,
       BackgroundInv, B!TypeOK
  <2>2. loop' = "ticking" => loop = "ticking" \/ (workers = B!NoWorkers /\ probing = {})
    BY <1>4 DEF B!Stop, B!StopLoop, B!Scanning, B!LookAt, B!Refreshed, B!Scanned, B!Turns
  <2> QED
    BY <1>2, <2>1, <2>2, SameCardinality DEF BackgroundInv, B!TypeOK, NoWorkerBetweenScans
<1> QED
  BY <1>3, <1>4

\* What the probe's workers do.
LEMMA ProbeKeeps ==
    ASSUME BackgroundInv, B!Probing
    PROVE  BackgroundInv'
<1> DEFINE limit == workers.head + workers.past + Cardinality(probing)
<1> USE DEF B!warmVars
<1>1. /\ workers \in [head : 0..Workers, past : 0..Workers] /\ Workers \in Nat
      /\ workers.head \in Nat /\ workers.past \in Nat
      /\ workers.head + workers.past + Cardinality(probing) <= Workers
  BY LimitsArePositive, SameCardinality DEF BackgroundInv, B!TypeOK
<1>2. IsFiniteSet(probing) /\ Cardinality(probing) \in Nat
  BY PoolFinite, FS_Subset, FS_CardinalityType, SameCardinality DEF BackgroundInv, B!TypeOK
<1>3. /\ UNCHANGED <<part, stopping, loop, due, pool, warmups>>
      /\ jobs' \subseteq Accounts /\ probing' \subseteq Accounts
      /\ ~(workers = B!NoWorkers /\ probing = {})
  BY SameCardinality DEF B!Probing, B!Look, B!Leave, B!Take, B!Reconciled, B!WorkerStep, B!NoWorkers,
     BackgroundInv, B!TypeOK
<1>4. /\ workers' \in [head : 0..Workers, past : 0..Workers]
      /\ workers'.head + workers'.past + Cardinality(probing') <= Workers
  <2>1. CASE B!Look
    <3>1. /\ workers' = [head |-> workers.head - 1,
                         past |-> IF stopping THEN workers.past ELSE workers.past + 1]
          /\ workers.head > 0 /\ probing' = probing
      BY <1>1, <2>1 DEF B!Look
    <3> QED
      BY <1>1, <1>2, <3>1
  <2>2. CASE B!Leave
    <3>1. /\ workers' = [head |-> workers.head, past |-> workers.past - 1]
          /\ workers.past > 0 /\ probing' = probing
      BY <1>1, <2>2 DEF B!Leave
    <3> QED
      BY <1>1, <1>2, <3>1
  <2>3. ASSUME NEW a \in Accounts, B!Take(a)
        PROVE  /\ workers' \in [head : 0..Workers, past : 0..Workers]
               /\ workers'.head + workers'.past + Cardinality(probing') <= Workers
    <3>1. /\ workers' = [head |-> workers.head, past |-> workers.past - 1]
          /\ workers.past > 0 /\ probing' = probing \union {a}
      BY <1>1, <2>3 DEF B!Take
    <3>2. Cardinality(probing') \in Nat /\ Cardinality(probing') <= Cardinality(probing) + 1
      BY <1>2, <3>1, OneMore
    <3> QED
      BY <1>1, <1>2, <3>1, <3>2
  <2>4. ASSUME NEW a \in Accounts, B!Reconciled(a)
        PROVE  /\ workers' \in [head : 0..Workers, past : 0..Workers]
               /\ workers'.head + workers'.past + Cardinality(probing') <= Workers
    <3>1. /\ workers' = [head |-> workers.head + 1, past |-> workers.past]
          /\ a \in probing /\ probing' = probing \ {a}
      BY <1>1, <2>4 DEF B!Reconciled
    <3>2. Cardinality(probing') = Cardinality(probing) - 1 /\ Cardinality(probing') \in Nat
      BY <1>2, <3>1, FS_RemoveElement, FS_CardinalityType
    <3> QED
      BY <1>1, <1>2, <3>1, <3>2
  <2> QED
    BY <2>1, <2>2, <2>3, <2>4 DEF B!Probing
<1>5. B!TypeOK'
  BY <1>3, <1>4, SameCardinality DEF BackgroundInv, B!TypeOK
<1> QED
  BY <1>3, <1>5 DEF BackgroundInv, NoWorkerBetweenScans

\* What the warmups do: one takes a slot only while one is free.
LEMMA WarmupKeeps ==
    ASSUME BackgroundInv, B!Warming \/ \E r \in Admins, a \in Accounts : B!AskWarmup(r, a)
    PROVE  BackgroundInv'
<1> DEFINE warming == {w \in warmups : w.state = "warming"}
<1> USE DEF B!scanVars
<1>1. UNCHANGED <<part, stopping, loop, due, jobs, workers, probing>>
  BY DEF B!Warming, B!HandOut, B!TakeSlot, B!Warmed, B!DropPool, B!AskWarmup, B!WarmupStep
<1>2. pool' \subseteq Accounts
  BY SameCardinality DEF B!Warming, B!HandOut, B!TakeSlot, B!Warmed, B!DropPool, B!AskWarmup, BackgroundInv, B!TypeOK
<1>3. IsFiniteSet(warmups) /\ IsFiniteSet(warming) /\ Cardinality(warming) \in Nat
  BY FS_Subset, FS_CardinalityType DEF BackgroundInv
<1>4. /\ warmups' \subseteq B!Warmup /\ IsFiniteSet(warmups')
      /\ Cardinality(warming') <= Slots
  <2>1. ASSUME NEW a \in Accounts, NEW r \in Admins \union {"pool"},
               warmups' = warmups \union {[account |-> a, by |-> r, state |-> "waiting"]}
        PROVE  <1>4
    <3>1. warming' = warming
      BY <2>1
    <3>2. warmups' \subseteq B!Warmup
      BY <2>1, SameCardinality DEF B!Warmup, BackgroundInv, B!TypeOK
    <3> QED
      BY <1>3, <2>1, <3>1, <3>2, FS_AddElement, SameCardinality DEF BackgroundInv, B!TypeOK
  <2>2. ASSUME NEW w \in warmups, B!TakeSlot(w)
        PROVE  <1>4
    <3> DEFINE v == [w EXCEPT !.state = "warming"]
    <3>1. v \in B!Warmup
      BY SameCardinality DEF B!Warmup, BackgroundInv, B!TypeOK
    <3>2. warmups' = (warmups \ {w}) \union {v} /\ Cardinality(warming) < Slots
      BY <2>2, SameCardinality DEF B!TakeSlot, B!WarmupStep, B!SlotFree
    <3> HIDE DEF v
    <3>3. warming' \subseteq warming \union {v}
      BY <3>2
    <3>4. IsFiniteSet(warming \union {v}) /\ Cardinality(warming \union {v}) <= Slots
      <4>1. /\ IsFiniteSet(warming \union {v}) /\ Cardinality(warming \union {v}) \in Nat
            /\ Cardinality(warming \union {v}) <= Cardinality(warming) + 1
        BY <1>3, OneMore
      <4> QED
        BY <1>3, <3>2, <4>1, LimitsArePositive
    <3>5. Cardinality(warming') <= Cardinality(warming \union {v})
          /\ Cardinality(warming') \in Nat /\ Cardinality(warming \union {v}) \in Nat
      BY <3>3, <3>4, FS_Subset, FS_CardinalityType
    <3>6. IsFiniteSet(warmups')
      BY <1>3, <3>2, FS_AddElement, FS_Subset
    <3> QED
      BY <3>1, <3>2, <3>4, <3>5, <3>6, LimitsArePositive, SameCardinality DEF BackgroundInv, B!TypeOK
  <2>3. ASSUME warmups' \subseteq warmups
        PROVE  <1>4
    <3>1. warming' \subseteq warming
      BY <2>3
    <3>2. Cardinality(warming') <= Cardinality(warming) /\ Cardinality(warming') \in Nat
      BY <1>3, <3>1, FS_Subset, FS_CardinalityType
    <3> QED
      BY <1>3, <2>3, <3>2, FS_Subset, LimitsArePositive, SameCardinality DEF BackgroundInv, B!TypeOK
  <2> QED
    BY <2>1, <2>2, <2>3 DEF B!Warming, B!HandOut, B!Warmed, B!DropPool, B!AskWarmup, B!WarmupStep
<1> QED
  BY <1>1, <1>2, <1>4, SameCardinality DEF BackgroundInv, B!TypeOK, NoWorkerBetweenScans

LEMMA BackgroundStep == BackgroundInv /\ B!Next => BackgroundInv'
BY ScanKeeps, ProbeKeeps, WarmupKeeps DEF B!Next

-----------------------------------------------------------------------------
(* The program: one part at a time, while the others are at rest. *)

ProgramInv ==
    /\ part \in {"service", "upgrade"} \union B!Parts
    /\ ServiceInv /\ BackgroundInv /\ UpgradeInv

LEMMA ProgramInitInv == Init => ProgramInv
<1> SUFFICES ASSUME Init PROVE ProgramInv
  OBVIOUS
<1>1. part \in {"service", "upgrade"} \union B!Parts /\ stopping \in BOOLEAN
  BY DEF Init, B!Init, S!Init
<1>2. (S!Init \/ S!Idle) /\ (B!Init \/ B!Idle) /\ U!Init
  BY DEF Init, NoService, NoBackground, NoUpgrade
<1> QED
  BY <1>1, <1>2, ServiceInitInv, BackgroundInitInv, UpgradeInitInv DEF ProgramInv

\* A signal reaches the background; what does not run does not mind.
LEMMA StoppingIsHarmless ==
    ASSUME ProgramInv, stopping' \in BOOLEAN, stopping => stopping'
    PROVE  /\ UNCHANGED backgroundVars => BackgroundInv'
           /\ UNCHANGED serviceVars => ServiceInv'
<1>1. ASSUME UNCHANGED backgroundVars PROVE BackgroundInv'
  BY <1>1, SameCardinality DEF backgroundVars, ProgramInv, BackgroundInv, B!TypeOK, NoWorkerBetweenScans
<1>2. ASSUME UNCHANGED serviceVars PROVE ServiceInv'
  BY <1>2 DEF serviceVars, ProgramInv, ServiceInv, S!TypeOK, ServesLate, Early, StopsOnSignal,
     ForcedByInsisting, DownIsDrained, S!InFlight
<1> QED
  BY <1>1, <1>2

LEMMA UpgradeAtRest == UpgradeInv /\ UNCHANGED upgradeVars => UpgradeInv'
BY DEF upgradeVars, UpgradeInv, UpgradeTypes, TargetsExist, SumsAreListed, VerifiedWasListed,
   StartedFromInstalled, U!OnlyWhatWasListed, Active, Resolved, U!UpToDate, U!AtMost

LEMMA ProgramStep == ProgramInv /\ [Next]_vars => ProgramInv'
<1> SUFFICES ASSUME ProgramInv, [Next]_vars PROVE ProgramInv'
  OBVIOUS
<1>1. CASE part = "service" /\ S!Next /\ UNCHANGED <<part, backgroundVars, upgradeVars>>
  <2>1. ServiceInv'
    BY <1>1, ServiceStep DEF ProgramInv
  <2>2. stopping' \in BOOLEAN
    BY <2>1 DEF ServiceInv, S!TypeOK
  <2>3. stopping => stopping'
    BY <1>1 DEF S!Next, S!Exit, S!Main, S!Kill, S!Signal, S!Cancel, S!Force, S!GiveUp, S!Finish,
       S!Start, S!BindAPI, S!BindAdmin, S!Bind, S!StartFails, S!Launch, S!Announce, S!Drain,
       S!Goes, S!Serve, S!Break, S!Close, S!Shutdown, S!Turns, S!Arrive, S!End, S!Moves,
       S!signalVars
  <2> QED
    BY <1>1, <2>1, <2>2, <2>3, StoppingIsHarmless, UpgradeAtRest DEF ProgramInv
<1>2. CASE part \in B!Parts /\ B!Next /\ UNCHANGED <<serviceVars, upgradeVars>>
  <2>1. BackgroundInv'
    BY <1>2, BackgroundStep DEF ProgramInv
  <2>2. stopping' \in BOOLEAN
    BY <2>1 DEF BackgroundInv, B!TypeOK
  <2>3. (stopping => stopping') /\ part' = part
    <3>1. CASE B!Stop \/ B!StopLoop \/ B!Scanning
      BY <3>1 DEF B!Stop, B!StopLoop, B!Scanning, B!Tick, B!LookAt, B!Refreshed, B!Scanned, B!Turns
    <3>2. CASE B!Probing
      BY <3>2 DEF B!Probing, B!Look, B!Leave, B!Take, B!Reconciled, B!WorkerStep
    <3>3. CASE B!Warming \/ \E r \in Admins, a \in Accounts : B!AskWarmup(r, a)
      <4>1. UNCHANGED <<part, stopping>>
        BY <3>3 DEF B!Warming, B!HandOut, B!TakeSlot, B!Warmed, B!DropPool, B!AskWarmup, B!WarmupStep
      <4> QED
        BY <4>1
    <3> QED
      BY <1>2, <3>1, <3>2, <3>3 DEF B!Next
  <2> QED
    BY <1>2, <2>1, <2>2, <2>3, StoppingIsHarmless, UpgradeAtRest DEF ProgramInv
<1>3. CASE part = "upgrade" /\ U!Next /\ UNCHANGED <<part, stopping, serviceVars, backgroundVars>>
  <2>1. stopping \in BOOLEAN
    BY DEF ProgramInv, ServiceInv, S!TypeOK
  <2> QED
    BY <1>3, <2>1, UpgradeStep, StoppingIsHarmless DEF ProgramInv
<1>4. CASE UNCHANGED vars
  <2>1. stopping \in BOOLEAN /\ UNCHANGED <<part, stopping, serviceVars, backgroundVars, upgradeVars>>
    BY <1>4 DEF vars, ProgramInv, ServiceInv, S!TypeOK
  <2> QED
    BY <2>1, StoppingIsHarmless, UpgradeAtRest DEF ProgramInv
<1> QED
  BY <1>1, <1>2, <1>3, <1>4 DEF Next

LEMMA ProgramInductive == Spec => []ProgramInv
BY ProgramInitInv, ProgramStep, PTL DEF Spec

(***************************************************************************)
(* The types of the three parts, for any requests, accounts and commands,  *)
(* and any number of slots and workers: the warmups keep to their slots, a *)
(* scan to its workers, and only a newer archive is downloaded.            *)
(***************************************************************************)
THEOREM ProgramTypes == Spec => []TypeOK
<1>1. ProgramInv => TypeOK
  BY UpgradeTypeOK DEF ProgramInv, ServiceInv, BackgroundInv, TypeOK
<1> QED
  BY <1>1, ProgramInductive, PTL

(***************************************************************************)
(* No request is cut off but by a listener that broke, or by a second      *)
(* signal given after the first was acknowledged, however many requests    *)
(* there are.                                                              *)
(***************************************************************************)
THEOREM CutSafety == Spec => NoRequestCut
<1>1. ProgramInv /\ [Next]_vars =>
        [\A r \in Requests :
           S!InFlight(r) /\ requests'[r] = "cut" => serveErrors # {} \/ (forced /\ insisted)]_(S!vars)
  <2> SUFFICES ASSUME ProgramInv, [Next]_vars, NEW r \in Requests, S!InFlight(r), requests'[r] = "cut"
               PROVE  serveErrors # {} \/ (forced /\ insisted)
    OBVIOUS
  <2>1. CASE S!Next
    BY <2>1, CutOnlyByForce DEF ProgramInv
  <2>2. CASE requests' = requests
    BY <2>2 DEF S!InFlight
  <2> QED
    BY <2>1, <2>2 DEF Next, vars, serviceVars
<1> QED
  BY <1>1, ProgramInductive, PTL DEF Spec, NoRequestCut, S!NoRequestCut

(***************************************************************************)
(* Whoever asked for verification gets an archive that was listed, whole,  *)
(* and an older version only who asked for a version, or by a command      *)
(* another one has overtaken, for any number of commands, versions and     *)
(* builds.                                                                 *)
(***************************************************************************)
THEOREM ReplacementSafety == Spec => SafeReplacement
<1>1. ProgramInv => U!OnlyWhatWasListed
  BY DEF ProgramInv, UpgradeInv
<1>2. ProgramInv /\ [Next]_vars =>
        [installed # Lost /\ installed' # Lost /\ U!Compare(installed'.version, installed.version) = "less"
           => \E c \in Commands :
                /\ commands[c].phase = "verified" /\ commands'[c].phase = "idle"
                /\ (c \in moved \/ commands[c].opts.pinned # 0)]_(U!vars)
  <2> SUFFICES ASSUME ProgramInv, [Next]_vars, installed # Lost, installed' # Lost,
                      U!Compare(installed'.version, installed.version) = "less"
               PROVE  \E c \in Commands :
                        /\ commands[c].phase = "verified" /\ commands'[c].phase = "idle"
                        /\ (c \in moved \/ commands[c].opts.pinned # 0)
    OBVIOUS
  <2>1. CASE U!Next
    BY <2>1, OlderOnlyWhenOvertaken DEF ProgramInv
  <2>2. CASE installed' = installed
    BY <2>2, SomeBuild DEF U!Compare, U!Valid
  <2> QED
    BY <2>1, <2>2 DEF Next, vars, upgradeVars
<1> QED
  BY <1>1, <1>2, ProgramInductive, PTL DEF Spec, SafeReplacement, U!BackOnlyWhenOvertaken
=============================================================================
