------------------------------- MODULE Upgrade -------------------------------
(***************************************************************************)
(* The upgrade command (upgrade.go, runUpgrade): look up the latest        *)
(* release, or the one asked for, compare it with the version compiled     *)
(* into the process, download the archive of this platform, verify it      *)
(* against the release's checksums.txt, and replace the binary it was      *)
(* started from.                                                           *)
(*                                                                         *)
(* Several commands may run on one binary, and the release may be under    *)
(* publication, or built again, while they do.  Archive and checksums are  *)
(* downloads of their own, each at its own time.  Replacing the file is    *)
(* selfupdate's: external, one step with the outcomes runUpgrade tells     *)
(* apart.                                                                  *)
(***************************************************************************)
EXTENDS Naturals, Sequences

CONSTANTS
    Unversioned,     \* a build, or a tag, that is no semantic version
    MaxVersion,      \* bound of the model: versions are numbers, in order of precedence
    Commands,        \* processes of the upgrade command
    Bare,            \* those that are given no options
    Lost,            \* no binary is left on disk
    MaxBuild         \* bound of the model: how often one release is built

Valid == 1..MaxVersion
Versions == Valid \union {Unversioned}

\* compareVersions: what is no version comes before every release.
Compare(a, b) ==
    CASE a \in Valid /\ b \in Valid -> IF a < b THEN "less" ELSE IF a = b THEN "equal" ELSE "greater"
      [] a \in Valid /\ b \notin Valid -> "greater"
      [] a \notin Valid /\ b \in Valid -> "less"
      [] a \notin Valid /\ b \notin Valid -> "equal"

VARIABLES
    releases,        \* GitHub's releases in order, and what each has to download
    installed,       \* the binary on disk
    commands,
    moved,           \* history: the commands since whose start the binary was replaced
    listed           \* history: the archives a checksums.txt ever listed

vars == <<releases, installed, commands, moved, listed>>

\* What a release has of this platform: the build of its archive, 0 for none, and
\* the build whose digest its checksums.txt gives, if it has the file and a line.
Release == [archive : 0..MaxBuild, hasSums : BOOLEAN, sums : 0..MaxBuild]
Unpublished == [archive |-> 0, hasSums |-> FALSE, sums |-> 0]

Archives == [version : Valid, build : 1..MaxBuild]

Binary == [version : Versions, build : 0..MaxBuild, intact : BOOLEAN, unverified : BOOLEAN]
NoArchive == [build |-> 0, intact |-> FALSE]

\* --version, or 0; --check and --yes decide what Stay and Choose leave to the user.
Options == [pinned : 0..MaxVersion, allowUnverified : BOOLEAN]

NoOptions == [pinned |-> 0, allowUnverified |-> FALSE]

\* Bound of the model: one option at a time, and the bare commands have none.
OptionsOf(c) ==
    IF c \in Bare THEN {NoOptions}
    ELSE {opts \in Options : opts.pinned = 0 \/ ~opts.allowUnverified}

Command == [phase : {"idle", "lookup", "resolved", "chosen", "downloaded", "verified"},
            opts : Options,
            running : Versions,                      \* version, compiled in
            target : 0..MaxVersion,                  \* rel.TagName
            assets : SUBSET {"archive", "sums"},     \* rel.Assets, of this platform
            archive : [build : 0..MaxBuild, intact : BOOLEAN]]

Idle == [phase |-> "idle", opts |-> NoOptions, running |-> Unversioned, target |-> 0,
         assets |-> {}, archive |-> NoArchive]

\* The first release is out; the binary is of it, of a version that is not released
\* or not any more, or built from the sources.
Init ==
    /\ releases = <<[archive |-> 1, hasSums |-> TRUE, sums |-> 1]>>
    /\ installed \in [version : Versions, build : {0}, intact : {TRUE}, unverified : {FALSE}]
    /\ commands = [c \in Commands |-> Idle]
    /\ moved = {}
    /\ listed = {[version |-> 1, build |-> 1]}

Latest == Len(releases)

Becomes(c, command) == commands' = [commands EXCEPT ![c] = command]
Keeps == UNCHANGED <<releases, installed, moved, listed>>

\* A command is a process of the binary on disk; a damaged one does not start.
Start(c, opts) ==
    /\ commands[c] = Idle
    /\ installed # Lost /\ installed.intact
    /\ Becomes(c, [Idle EXCEPT !.phase = "lookup", !.opts = opts, !.running = installed.version])
    /\ moved' = moved \ {c}
    /\ UNCHANGED <<releases, installed, listed>>

Assets(release) == {"archive" : x \in {release.archive} \ {0}}
                     \union {"sums" : x \in {release.hasSums} \ {FALSE}}

Resolve(c, tag, assets) ==
    /\ Becomes(c, [commands[c] EXCEPT !.phase = "resolved", !.target = tag, !.assets = assets])
    /\ Keeps

\* fetchRelease
LookUp(c) ==
    LET pinned == commands[c].opts.pinned
        tag == IF pinned = 0 THEN Latest ELSE pinned
    IN  /\ commands[c].phase = "lookup"
        /\ tag \in DOMAIN releases
        /\ Resolve(c, tag, Assets(releases[tag]))

\* The API refuses; the redirect still tells the tag of the latest, and only that.
LookUpByRedirect(c) ==
    /\ commands[c].phase = "lookup"
    /\ commands[c].opts.pinned = 0
    /\ Resolve(c, Latest, {})

AtMost(c) == Compare(commands[c].running, commands[c].target) # "less"
UpToDateWhenEqual(c) ==   \* mutant: a release other than the one that runs counts as newer
    commands[c].running = commands[c].target
UpToDate(c) == commands[c].running \in Valid /\ AtMost(c)

\* Nothing newer, for the process that asks: done, whichever version was asked for.
Current(c) ==
    /\ commands[c].phase = "resolved"
    /\ UpToDate(c)
    /\ Becomes(c, Idle)
    /\ Keeps

\* --check, or the user is asked and does not confirm.
Stay(c) ==
    /\ commands[c].phase = "resolved"
    /\ ~UpToDate(c)
    /\ Becomes(c, Idle)
    /\ Keeps

\* pickAsset finds the archive, and the user confirms or need not.
Choose(c) ==
    /\ commands[c].phase = "resolved"
    /\ ~UpToDate(c)
    /\ "archive" \in commands[c].assets
    /\ Becomes(c, [commands[c] EXCEPT !.phase = "chosen"])
    /\ Keeps

\* download: what the URL gives now, at times damaged on the way.
Download(c, intact) ==
    /\ commands[c].phase = "chosen"
    /\ Becomes(c, [commands[c] EXCEPT !.phase = "downloaded",
                     !.archive = [build |-> releases[commands[c].target].archive, intact |-> intact]])
    /\ Keeps

VerifyByTag(c) ==   \* mutant: the name is looked up, its digest not compared
    /\ commands[c].phase = "downloaded"
    /\ commands[c].opts.allowUnverified
         \/ ("sums" \in commands[c].assets /\ releases[commands[c].target].sums # 0)
    /\ Becomes(c, [commands[c] EXCEPT !.phase = "verified"])
    /\ Keeps

\* parseChecksums, verifySHA256: the digest listed is the archive's.
Verify(c) ==
    /\ commands[c].phase = "downloaded"
    /\ \/ commands[c].opts.allowUnverified
       \/ /\ "sums" \in commands[c].assets
          /\ releases[commands[c].target].sums = commands[c].archive.build
          /\ commands[c].archive.intact
    /\ Becomes(c, [commands[c] EXCEPT !.phase = "verified"])
    /\ Keeps

Extracted(c) ==
    [version |-> commands[c].target, build |-> commands[c].archive.build,
     intact |-> commands[c].archive.intact, unverified |-> commands[c].opts.allowUnverified]

\* What is extracted of a damaged archive, if anything, is damaged.  The binary on
\* disk is replaced, whichever it is by now; or, in the worst case, the new one is
\* not moved in and the old one not back.
InstallAs(c, binary) ==
    /\ commands[c].phase = "verified"
    /\ installed' = binary
    /\ Becomes(c, Idle)
    /\ moved' = {d \in Commands \ {c} : commands[d].phase # "idle"}
    /\ UNCHANGED <<releases, listed>>

Install(c) == InstallAs(c, Extracted(c))
InstallLosing(c) == InstallAs(c, Lost)

\* Any call fails, a download is refused, the digest is not listed or another, the
\* archive cannot be extracted, the file not be replaced; or the process is killed.
Fail(c) ==
    /\ commands[c].phase # "idle"
    /\ Becomes(c, Idle)
    /\ Keeps

-----------------------------------------------------------------------------
\* The publication of releases, external: the tag comes first, the files follow in
\* either order, and a release may be built again.
Publishes(v, release) ==
    /\ releases' = [releases EXCEPT ![v] = release]
    /\ listed' = IF release.sums \in 1..MaxBuild
                 THEN listed \union {[version |-> v, build |-> release.sums]} ELSE listed
    /\ UNCHANGED <<installed, commands, moved>>

Tag ==
    /\ Latest < MaxVersion
    /\ releases' = Append(releases, Unpublished)
    /\ UNCHANGED <<installed, commands, moved, listed>>

UploadArchive(v) ==
    /\ releases[v].archive < MaxBuild
    /\ Publishes(v, [releases[v] EXCEPT !.archive = @ + 1])

UploadSums(v) ==
    /\ ~releases[v].hasSums \/ releases[v].sums # releases[v].archive
    /\ Publishes(v, [releases[v] EXCEPT !.hasSums = TRUE, !.sums = releases[v].archive])

Next ==
    \/ \E c \in Commands :
         \/ \E opts \in OptionsOf(c) : Start(c, opts)
         \/ LookUp(c) \/ LookUpByRedirect(c) \/ Current(c) \/ Stay(c) \/ Choose(c)
         \/ \E intact \in BOOLEAN : Download(c, intact)
         \/ Verify(c) \/ Install(c) \/ InstallLosing(c) \/ Fail(c)
    \/ Tag
    \/ \E v \in DOMAIN releases : UploadArchive(v) \/ UploadSums(v)

Spec == Init /\ [][Next]_vars

-----------------------------------------------------------------------------
(***************************************************************************)
(* The type invariant; with it, that what was downloaded was an archive    *)
(* and newer than the process that asked for it.                           *)
(***************************************************************************)
TypeOK ==
    /\ releases \in Seq(Release) /\ Latest <= MaxVersion
    /\ installed \in Binary \union {Lost}
    /\ commands \in [Commands -> Command]
    /\ moved \subseteq Commands
    /\ listed \subseteq Archives
    /\ \A c \in Commands : commands[c].phase \in {"downloaded", "verified"}
         => commands[c].archive.build # 0 /\ ~UpToDate(c)

(***************************************************************************)
(* Nobody who asked for verification gets a binary other than one whose    *)
(* archive a checksums.txt of its release listed, unharmed: whether the    *)
(* release was published, or built again, between the two downloads, and   *)
(* whichever of them failed.                                               *)
(***************************************************************************)
OnlyWhatWasListed ==
    installed # Lost /\ ~installed.unverified /\ installed.build # 0
      => installed.intact /\ [version |-> installed.version, build |-> installed.build] \in listed

(***************************************************************************)
(* The version installed goes back only when somebody has asked for a      *)
(* version, or a command replaces a binary that is not any more the one it *)
(* was started from and compared.                                          *)
(***************************************************************************)
BackOnlyWhenOvertaken ==
    [][installed # Lost /\ installed' # Lost /\ Compare(installed'.version, installed.version) = "less"
         => \E c \in Commands :
              /\ commands[c].phase = "verified" /\ commands'[c].phase = "idle"
              /\ (c \in moved \/ commands[c].opts.pinned # 0)]_vars

(***************************************************************************)
(* "upgrade --version ... installs the tag given (can downgrade or roll    *)
(* back)" (README.md): a command that was given a version has nothing to   *)
(* do only where that version runs.                                        *)
(***************************************************************************)
RollsBackWhenAsked ==
    [][\A c \in Commands : Current(c) =>
         commands[c].opts.pinned = 0 \/ commands[c].running = commands[c].target]_vars
=============================================================================
