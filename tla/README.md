# kiro-anthropic in TLA+

kiro-anthropic is a Go HTTP server that speaks the Anthropic Messages API (and
OpenAI's Responses API) to its clients and Kiro's runtime API upstream.  It
keeps a pool of signed-in Kiro accounts and sends each request on one of them.
This directory holds TLA+ modules of its stateful parts, the TLC runs that
check them, and TLAPS proofs of what matters most.  `PROJECT.json` maps every
definition to the lines it stands for and lists the runs, the mutants, the
theorems, the findings and the hazards.

## 1. Inventory

| Component | State it keeps | Operations | Talks to |
|---|---|---|---|
| Account store (`accounts.go`) | accounts by id; three stamps per account (revision, lifecycle, credential) and their process-wide counters; the JSON file | Add, ReplaceCredentials, ImportAccounts, SetDisabled, SetOverageEnabled, UpdateIdentity, UpdateTokens, Remove, Runtime/RuntimeList, load, save | everyone; one mutex, held over the save |
| Selector (`selector.go`) | per account: revision and lifecycle last seen, generation, quota tier, reactive flag, cooldown, retry time; round-robin cursor | pickFor, peekAny, validateForSend, recordSuccess/Failure/Depleted, usageTarget, applyUsage, reconcileTargets, forget | store (its lock is taken first); dispatch; usage |
| Dispatch (`openStream`, `server.go`) | per request: tried accounts, attempt and refresh budgets, last error | pick, verify, resolve the model, send through the gate, classify the outcome | selector, model and usage caches, upstream client |
| Usage and model caches (`server.go`) | entry per account with revision and generation; invalidation epoch; coalesced flights | accountUsage, ensureModels, invalidateUsage, invalidateModels | store, selector, upstream |
| Token refresh (`accounts.go`, `selector.go`, `refresher.go`) | one coalesced flight per credential | refreshTokenAtCredential, accessToken, the background scan | store, AWS SSO-OIDC |
| Usage probe and warmup (`probe.go`, `server.go`) | worker pool, fetch limiter | scan, reconcileAccount, warmAccount, warmAllAccounts | usage cache, selector |
| Conversation registry (`conversation_registry.go`) | session digest -> conversation id, last activity, requests in flight | AcquireExisting, Acquire, release, Sweep | request handler |
| Upstream stream (`kiro.go`, `eventstream.go`) | primed frames, a pending read | primeUntil, Recv, Close | dispatch, assemblers |
| Request translation (`anthropic.go`, `responses.go`, `image.go`) | none | conversion, turn trimming, model matching | dispatch |
| Response assembly (`anthropic.go`, `responses.go`) | the open block, the held-back text | addText, addReasoning, addToolUse, finish | client |
| Browser sign-in (`login.go`) | pending sign-ins by state, with expiry | startLogin, completeLogin, importLocalCredentials | admin API, SSO-OIDC |
| Admin API (`admin.go`) | none of its own | the mutations above, status pages | store, caches, selector |
| Process (`main.go`, `listen.go`) | listeners, the service context, two signal channels, background workers | runServe, drain, forced exit | all |
| Update check, self-upgrade (`upgrade.go`, `server.go`) | cached status and failure; the binary on disk | ensureUpdateStatus, runUpgrade | GitHub |

What makes each correct:

* **Store**: a caller that kept a stamp can tell from it alone whether what it
  read still holds; late write-backs never mix two credentials; what is reported
  as saved is in the file.
* **Selector**: no request is sent on a decision that was overtaken; a late
  outcome or observation never undoes a later one; an account whose overage is
  off is used only on proof of base credit; depletion ends only on proof.
* **Dispatch**: ends within its budgets, never returns to an account it has
  sent on, and answers with the failure that explains the request's fate.
* **Caches**: nothing fetched before an invalidation is cached after it or served
  to who asks after it; the probe's fetches keep their places in its limiter exactly
  as long as they run, whoever still waits for them.
* **Token refresh**: one rotation at a time per credential; a chain that is in
  this server's hands alone is always refreshed with its newest token, and no
  rotation of it is dropped.
* **Registry**: overlapping requests of a session share one conversation; places
  are neither leaked nor given away early.
* **Stream and assembly**: every frame once, in order; blocks well nested; no
  text lost, doubled or moved by the filter for leaked markers.
* **Trimming**: a conversation is cut only between turns that belong together.
* **Sign-in**: a sign-in is exchanged once; one person has one account, and it
  holds that person's tokens.
* **Process**: a signal cuts off no request by itself and never fails to end the
  process in the end; the background work ends with it.
* **Update**: what is installed was verified against its own release, and is not
  older than what it replaces unless its version was asked for.

The hard behaviours are the same everywhere: the work is done without locks on
copies, with network I/O between the read and the write-back, and correctness
rests on stamps compared at the end.  Only the accounts file survives a crash.
The full list, line by line, is `hazards` in `PROJECT.json`.

## 2. The modules

| Module | Models | Used by |
|---|---|---|
| `ConversationRegistry` | the registry and the request handler's two acquisitions, deferred release, sweeper and clock | extended by `RequestPath` and `RequestProofs` |
| `AccountStore` | the store's variables and one operator per operation | extended by `StoreCallers`, `Selector` and `TokenRefresh` |
| `StoreCallers` | the store under callers that read a copy, do I/O, and come back | `MCStoreCallers`, `StoreCallersProofs` |
| `Selector` | the selector over the store, dispatches that drive it, usage fetches in flight, the admin | `MCSelector`, `SelectorProofs` |
| `TokenRefresh` | the coalesced refresh over the store, its callers, and upstream's rotating refresh token, which others may share | `MCTokenRefresh`, `TokenRefreshProofs` |
| `Dispatch` | one request's dispatch: budgets, rebuilds and retries of the request, the error answered | `RequestProofs` |
| `AccountCaches` | the usage or model cache of one account: epochs, shared fetches, every kind of lookup, the probe's limiter, the admin | `MCAccountCaches`, `AccountCachesProofs` |
| `FrameQueue` | what a stream promises: the frames of the wire, each once, in order, read ahead at will | `KiroStream` (refinement) |
| `KiroStream` | an upstream stream: priming on goroutines, hand-over of a read under way, Recv, Close | extended by `Exchange` |
| `Assembly` | both block assemblers, the leak filter, and a client that rebuilds the answer | extended by `Exchange` |
| `TurnTrim` | cutting the oldest complete turn | extended by `Exchange` |
| `Exchange` | one exchange: the conversation cut, the stream probed, its frames received and assembled | extended by `RequestPath` and `ExchangeProofs` |
| `PickFor` | the choice of `pickFor` itself: cursor, affinity, tiers | extended by `RequestPath` and `RequestProofs` |
| `RequestPath` | what a request goes through in the server: the three of them in one state machine | `MCRequestPath` |
| `Service` | the serving process: start-up, two listeners, signals, drain, exit | `Program` |
| `Background` | refresher, probe workers, sweeper and warmups under the service context | `Program` |
| `Upgrade` | versions and how they compare; upgrade commands on one binary, and a release being published | run by itself, and by `Program` |
| `Program` | what main starts: the three of them in one state machine | `ProgramProofs` |
| `SignIn` | the browser sign-in, both imports, the search for duplicates | `MCSignIn`, `SignInProofs` |
| `...Proofs` | the theorems; `RequestProofs` has those of the three parts a request goes through before it is answered | |

The names of `ConversationRegistry`, `PickFor` and `Dispatch` carry the module's
(`RegistrySpec`, `PickSpec`, `DispatchSpec`) because `RequestProofs` extends all three;
in `RequestPath` the names without a prefix are `Exchange`'s.

### ConversationRegistry

`entries` is the map (`NoEntry` = key missing).  `lastActivity` is kept as
`idle`, the ticks since, cut off at `TTL`: the code asks only whether the
difference has reached the ttl.  `requests` is where each handler is: `parsing`
between `AcquireExisting` and `Acquire` (the body is parsed and images are
fetched there, so anything may happen in between), `holding` until its deferred
release.  `Enter`, `Acquire`, `Refuse`, `Release` and `Sweep` are the registry's
operations, each atomic under its mutex; `Abandon` is a request that fails or is
cancelled before it acquired.  `quiet` is history, read by a property only.

A session whose first acquisition already succeeded does not acquire again
(`handleMessages` keeps the release of the first), so `Enter` leads straight to
`holding`.  A request without a session header never touches the registry and is
not modelled.  Conversation ids are UUIDs; `Fresh` is that they do not collide.

### AccountStore and StoreCallers

`accounts`, `revisions`, `lifecycles`, `credentials` and the three counters are
the store's fields; stamp 0 is "not in the map".  An account is its policy
(`disabled`, `overage`), its profile (`arn`), its client registration with the
first refresh token obtained for it (`reg`), and its current token, written as
the chain it belongs to and its number within it.  Labels, display order and
e-mail are left out: no stamp depends on them.

Each operation holds the mutex from first read to the end of its save, so it is
one action.  `Save` is the rename of a complete temporary file: it happens or
not, and the change in memory stands either way, as in the code.  `failed` is
the error result.  `Restart` is the crash of the process at any point and the
reload; callers' copies die with it (stamps are process-local and start over,
so this is the case that would be unsound if copies survived).

`StoreCallers` adds `snapshots`, the copies in callers' hands: every runtime
snapshot ever read may come back later (`ResolveIdentity`, `RefreshToken`), in
any order and more than once.  `ImportBundle` merges or inserts any set of
entries with one save, the stamps in bundle order; which stored account an entry
matches (the duplicate rules) is left open, so every match is covered.

### Selector

`routing` is the map of states.  `cooldown` has three values because time is only
compared with now; the retry time is left out since it never decides eligibility.  The cursor and the affinity
hash choose among accounts of the best tier; the model lets any be chosen and
any set of others be touched on the way, which covers both; `PickFor` has that
choice itself.

A dispatch is `ready` -> `listed` (the list is read, the selector is not yet
locked) -> `leased` -> `sending` -> `streaming`.  `Pick` is `pickFor`, with the
tiers preferred, overage, verify and fallback; `Validate` is the gate that runs
before every physical send, with the requeue rules of `openStream`; `Skip` is a
leased account left without a report (model not served, stale model list, invalid model);
`Fail`, `Deplete` and `Succeed` are the reports, also from the observer of the
committed stream (each at most once); `Resend` is another send on the same lease.
`served` is the comparison of `runtimeAttempts` with `leaseRuntimeAttempts`,
kept for the whole dispatch.
The budget of pre-send refreshes is a choice: the gate may let a superseded
lease pass, and may or may not requeue an invalid one.

`fetches` are usage calls in flight, with the stamp taken before they began;
`Observe`, `ApplyUsage` (possibly repeated: every waiter applies the shared
result) and `DropUsage` may come arbitrarily late.  `Administer` and `Delete`
are the store's operations as the admin API calls them; `Forget` comes after
`Delete`, not atomically.

`Lease.outdated`, `Fetch.late`, `basis` and `owes` are history variables: no
action's guard reads them.

### PickFor

`list` is what `RuntimeList` returns, `index` the cursor.  `TierOf` is what the
loop finds out about one account, `BestOf` the one of a tier it keeps, `Pick`
the whole function.  The loop over positions becomes a choice of the first by
`Distance` from the cursor, or the best by `Beats`.  Scores of the rendezvous
hash are a constant function, with ties, which the code breaks by id.  What
other operations do to an account between two picks is `Change`: to any standing
whatsoever.  `Relist` is Add and Remove, under which the cursor stays where it is, and a new
order.  `RuntimeList` is in order of creation and knows nothing of the admin's
display order, so `Reorder` never moves it; but creation times have a resolution
of one second, imported accounts keep theirs, and the list is sorted anew from a
map for each call, by a sort that is not stable: accounts of one second may come
in another order each time.  The model lets any accounts change places, which is
more than the code does.  `passed` is history.  That a pick reports a depleted account is
left to `Dispatch`.

### TokenRefresh

`flights` are the refreshes under way, at most one per account and credential
(the singleflight key).  A flight has `started` its goroutine, has `asked`
upstream with the token it read from the store, is `answered`, and has `stored`
the answer before it delivers it; until then callers join it.  `Begin` compares
the credential and needs a client registration; `Store` is the fenced
`updateTokens` with a save that may fail; `TimeOut` is any failure of the call,
before or after upstream has rotated.  A caller has
a copy of the account (`holding`: the credentials of a lease, or what
`RefreshToken` has read) or waits; it may leave at any time.

Upstream is external: it grants the newest token of a chain, with or without a
new refresh token, and refuses one it has replaced.  When a caller refreshes (the
expiry time, the background ticker) is left out: it may at any time.

Credentials come in three ways.  A browser sign-in (`SignsIn`) registers a client
of its own, so its chain is new (`FreshSignIn`).  A bundle (`ImportsBundle`) adds
or replaces any accounts with any token upstream ever gave of any chain
(`Importable`): the newest one, an older one, the one in use here, also amid a
refresh of it, or none but an access token; an entry that differs in the access
token alone replaces the credential too.  The local import (`ImportsLocal`) adds
the desktop client's account, and passes by one that is known.  Chains that came
this way have another owner, who refreshes on their own (`OthersRotate`); the
comment in `handleAccountImport` says so.

With a chain in two hands nothing can be promised: each refresh invalidates the
other's token.  So the properties are about chains that are *whole* (`Whole`), and
the history variable `broken` has the others: a rotation may have been lost (a
timeout, a refused write-back, a crash before the save), an import divided the
chain (`DividedBy`: its token was replaced already, a refresh of it was asked
for and not yet stored, or another account has it), or somebody else rotated it.  An import of a chain's
newest token that meets nobody keeps it whole; so does every sign-in, removal and
change of policy.  `behind` has the chains whose last rotation is only in memory.
`NeverDoubleSpends` asks for more, for all chains, and fails (section 5).

### Dispatch

The locals of `openStream`, with the abstract side of the selector: `quota` says
how each account stands with it and changes under the dispatch's feet.  `pc` is
the place in the loop: `pick`, `verify`, `prepare` (profile, models), `gate`
(before each physical send), `sent`, `done`.  Each branch after an answer is an
action: `RetryStripped` (both `withReasoningRetry` and the retry in the loop),
`AuthRetry` (inside `Send`), `RetryTrimmed`, `NextAccount`, `Surface`, `Open`,
`Cancel`.  `before` is `leaseRuntimeAttempts`.  A conversation is a sequence of
units of which only "carries reasoning" is kept; `kreq` is its rebuilt form.
Whether the oldest unit can be cut alone, which the code decides from the tool
calls in it, is open, as is what the gate finds: `Selector` models the gate.
Reports to the selector are left out, since they concern accounts that stay in
`tried`.  A call with a nil `areq` occurs in tests only.  `fate` and `refused`
are history.

### AccountCaches

One account, and one of its two caches (`kind`): the two share their design and
differ in which calls look things up and what drops them.  A fetch is begun
under a `Key`: the account's revision, the selector's generation (usage only)
and the cache's epoch.  `flights` are the entries of the singleflight group;
`callers` are lookups, each at the step it has reached: `begun` (the call has
its stamp), `targeted` (`usageTarget` or `byID` was read), `waiting` on a
flight's channel, `fetched` (the result is in the channel and has yet to be
judged).  Every mode of `accountUsage` is a call: the status page's
(`ensureUsage`), the aggregate's (`ensureUsageReadOnly`), the warmup's
(`refreshUsage`) and the probe's (`refreshUsageTarget`, pinned to its whole
stamp, and the only one whose flight takes a place in the limiter); so are
`ensureModels` and `ensureModelsCurrent`.

A flight that many share was begun by one of them: whether it holds a place in
the limiter is decided by the first, and what is done with its result by each
waiter for himself.  `Land` (the cache is written under the store's and the
cache's locks) and `Publish` (the key is freed and the waiters are told) are two
steps, so a lookup may join in between.  `Ends` is what singleflight does.
`GiveUp` is a caller whose context ends; the flight goes on.  `places` counts what
is taken of the limiter's channel: by `Enter`, and given back by the flight's own
end alone (`GivesBack`).

The admin's handlers are the change in the store followed by what each drops
(`todo`), step by step, with anything in between: `handleAccountDelete` drops
both caches and then the routing state, `handleAccountOverage` the usage,
`handleAccountDisable` nothing.  Of the account only its stamps are kept.

### KiroStream, FrameQueue and Exchange

`phase` is where the stream is: `priming` until the response is committed,
`committed`, `handed` (committed with `pendingRead` set) or `closed`.  A frame
carries its place on the wire as history.  `reader` and `channel` are the
goroutine of `readAsync` and its channel of capacity one: when the body is closed
under the goroutine its read fails and it ends without a receiver.  `TimeOut` may
come when the frame is already in the channel: `select` picks either.

`FrameQueue` is the abstract stream: frames leave the wire and are delivered in
order, and closing may lose what was read ahead and not delivered.  `KiroStream`
implements it with `decoded` and `delivered` as they are and `state` read off
`phase`; the run checks it as the property `EveryFrameInOrder`, and
`ExchangeProofs` proves it.

`Exchange` composes the stream with a request before it (`TooLong` cuts the
conversation, `Accepted` opens the stream) and a handler after it.  `mode` is the
API format, whether thinking is surfaced, and whether the answer is streamed, so
the three event loops (`streamMessages`, `aggregateMessages`,
`consumeResponsesStream`) are one operator, `Handled`, as they are one loop
written three times in the code.  Taking a frame and handling it is one step:
nothing else has access to the assembler.  After the last frame it wants a
handler returns, and its deferred `Close` closes the stream.

`Assembly` keeps of a block its kind, its id and its data as a sequence of
pieces.  The two markers are shortened to three pieces with a common first one,
so a frame may still end anywhere in a marker and two markers may be confused.
`Pieces` is whatever texts are made of; that it has the ones the code writes
itself is an assumption (`CodeHasPieces`).  A frame is any record of `kiroEvent`'s
fields (`Frames`), a conversation any sequence of `Message`s.
The client is external: it rebuilds blocks from the events, and turns
`orderly` to false with the first event out of place.  In the messages format
`content_block_stop` carries no block: that a client joins the deltas of a tool
call to the same input as the assembler (`Normalized`) is taken for granted there;
a responses item does repeat its input, and is compared.  A responses item's
several events (part added, text done, part done, item done) are one start and
one stop, since they are sent one right after the other.  `fed` is history: the
text upstream has sent, with the marker that ends a run removed.

`TurnTrim` is the algorithm over messages of which only the role, the tool ids
and their well-formedness are kept; its loop is a recursive function.
`CutsFirstClosedUnit` compares it with a definition of a closed unit that does
not walk the conversation.

### SignIn

`pending` is the login manager's table, where `old` is an entry past its
lifetime that has not been swept.  A request is `exchanging` after it took its
state, and `saving` once it knows its candidate and what `FindDuplicate`
answered: the save is a step of its own, because the lookup and the save take
the store's lock separately.  `ImportBundle` holds the lock throughout.  An
account is its user id, its address, whether its profile is known, and its
client registration; everybody belongs to one organisation, so all profiles are
the same one, which is the case the rules are about.  `owner` is history: whose
tokens the account holds.  A candidate is what the identity provider says now:
profile and identity are looked up best effort, and a person's address may
change (`Rename`).  `saw` and `twin` are history: what the lookup saw.

`Resolve` stands for the lazy resolution at request time and for the admin's
refresh of an identity; its write-back is pinned to the revision of the tokens
it was made with (`AccountStore` models that fence), so it is about the owner of
the tokens held at that moment.

### Service and Background

`main` is how far `runServe` has come.  The runtime hands a signal to a channel of
capacity one for each `NotifyContext` and drops it where one waits (`Signal`);
its goroutine takes one, cancels its context and is gone (`Cancel`, `Force`), and
its channel stays registered until the function returns.  Before the first
registration a signal kills (`Kill`).  A request belongs to a listener and is
cut when the process exits under it; a connection that has not sent its request
yet counts as one.  `Close` and `Shutdown` are the two halves of
`http.Server.Shutdown`, run for both servers at once.  A server may break at any
time, and Serve may be called after Shutdown.  `insisted` is history.

`Background` has the work that runs under the service context.  Its four parts do not
share state, so a behaviour is about one of them (`part`, a variable of `Program`).  A worker of the
probe is at the head of its loop, past its look at `ctx.Err`, or probing; the
jobs are a closed channel.  The refresher's and the sweeper's loops are the same
`select` between ticker and context.  A warmup waits for one of `Slots`, or
holds one, whether the start-up pool began it or an admin request.  What a
refresh, a probe or a warmup does to an account is in `TokenRefresh`,
`AccountCaches` and `Selector`.

### Upgrade and Program

A version is a number, or `Unversioned` for a development build, or a tag, that is
no semantic version.
In `Upgrade` a command is a process with its own `running` version, which is
what the binary on disk was when it started.  `LookUp` is `fetchRelease` and
`LookUpByRedirect` the fallback that knows no assets; `Download` takes what the
release has at that moment, perhaps damaged; `Verify` fetches and compares
`checksums.txt`, at another moment; `Install` replaces the binary, and
`InstallLosing` is the case for which the code says "recover manually".  All
other ends are `Fail`.  Archives are known by the build they are of, their
digests too.  `--yes` and the prompt are the user's choice between `Stay` and
`Choose`, `--check` is `Stay`.  The publication of a release (`Tag`,
`UploadArchive`, `UploadSums`) and `selfupdate` are external.  A command is given one option at a time, the `Bare`
ones none (`OptionsOf`).  The binary at the start is of any version that may be
asked for, or of none.  `moved` (whom another replacement overtook) and
`listed` (every archive a `checksums.txt` ever gave the digest of) are history.

`Program` instantiates the three.  They share the service context
(`stopping`), which `Service` and `Background` each see set at any
moment, and nothing else, so their interleavings would say nothing that each
does not say by itself: a behaviour is about one `part`, and the others are at
rest (`NoService`, `NoBackground`, `NoUpgrade`).

### RequestPath

`RequestPath` puts `ConversationRegistry`, `PickFor` and `Exchange` into one state
machine in the same way: a handler goes through the registry, the pick and the
exchange, each of which has state of its own under a lock of its own, and a
behaviour is about one `part`.  `Dispatch`, between the pick and the exchange, has a
run of its own.

## 3. The runs

| Run | Question | Instance |
|---|---|---|
| `request` | pins, counting, capacity, expiry, refusals; entries of quiet sessions go; round robin leaves nobody out; sessions keep their account; frames in order, the client in step, text intact, the cut, the reader's end | registry: 3 sessions, 2 places, 3 requests, ttl 2; pick: 3 accounts, 6 standings, 3 sessions, any set tried; exchange: conversations of up to 5 messages over 2 tool ids, 4 frames of 17 kinds, 8 modes; with fairness |
| `store_one_account` | stamps pin what callers read; tokens stay in their chain | 1 id, 2 registrations, 2 profiles, 1 rotation, 3 revisions, 2 copies |
| `selector` | outdated leases, late successes, stale lists, strict accounts, sticky depletion | three instances that overlap, see below; 2 revisions |
| `token_refresh` | a chain that is whole is refreshed with its newest token, and no rotation of it is dropped; nobody is served an overtaken token | 1 id, 2 registrations, 2 callers, 1 rotation, 2 revisions, saves succeed or fail |
| `dispatch` | budgets, resent refusals, the error answered, forgotten accounts; every dispatch returns | 2 accounts, 3 sends, 2 refreshes, 1 trim, 2 units, 1 change by others, with fairness |
| `caches` | what is cached and answered is never older than it may be; the limiter's places are held by its fetches, all of them and nothing else | 2 callers, 2 flights, 1 place, 1 retry, stamps and epoch up to 5 in sum (they begin at 2) |
| `signin` | no second exchange; duplicates and foreign tokens only through the one window | 2 ids, 2 people, 2 sign-ins, 2 requests, 1 desktop registration, 2 moves |
| `program` | no request is cut by a signal, the drain ends, forcing works; everything stops with the service, the probe's scan is complete, slots; only what was listed is installed, versions move forward | 3 requests on 2 listeners; 3 accounts, 2 workers, 2 slots, 2 admins; 2 commands, 2 versions of 2 builds; with fairness |
| `store_durability`, `selector_forgets`, `token_double_spend`, `upgrade_rollback` | the findings below | the smallest instances that show them |

The type invariants of the registry, the store, the selector, the refresh, the
dispatch and the caches are theorems (section 4) and not run again.

Why these bounds are enough.  A stamp is compared for equality or order with one
other stamp of the same account, so a property fails, if at all, with one
account, one or two copies, and the mutations between them: read, mutate, mutate
back, return.  In the store three revisions give the start, a change and the change
undone.
Where accounts share the counters the theorems speak for any number of them, and
where they compete (`selector`, `dispatch`) there are two. In the
registry three sessions for two places give a full map, an expired entry and a
newcomer; ttl 2 separates "touched now", "a tick ago" and "expired". Each
property has a mutant, a plausible bug at the place it guards, that TLC finds
within the same bounds.

`selector` is three instances under one state constraint (`SmallInstances` in
`MCSelector`), each explored to its end: two requests on one account without
usage calls and 3 generations; one request on one account with a usage call at a
time, a profile to fill in and 4 generations; and one request on two accounts, one
of them strict, with 3 generations.  The bounds are the smallest in which each
property's mutant is found and each action taken; all of the run's properties
are proved for every value as well.

In `caches` the same argument holds for one account: a lookup compares its key
with the present one, so two callers (one who begins a flight and one who joins
it or overtakes it) and two flights show every order; the three moves that remain of
the bound of five allow a removal and what its handler drops (epoch and
generation), or a new account (revision and generation), and one more.  In the
exchange part of `request` four frames give a marker split over frames, something after it, and
the end; five messages are the shortest conversation with a tool call, its
result, an answer and a fresh question.  In `signin` two requests overlap over
two people; with three moves, and with a second kind of desktop client, the
properties hold as well, in a few million states.

In `token_refresh` one id and two registrations give a chain in use and another to
replace it with; one rotation makes a newest and a replaced token; two revisions
let the account be replaced, imported over itself, or removed and added again under a
flight of either caller.

In the pick of `request` three accounts have one that wins, one that is passed over and one that
changes; the cursor may point at each and past a list that shrank, and the
standings hold one of every tier and two lengths of cooldown.  In `program` two
requests share a listener and the third has its own, so one server is down while
the other drains; there are more targets than workers and more warmups than
slots; and the second release is tagged, its two files come and are replaced once
by a second build, while two commands, one with options, are at any step.

But for `selector`, the state constraint of a run is in the guards: no stamp is issued beyond
`MaxRevision` (`Room`), no generation beyond `MaxGeneration`, no more than
`MaxSnapshots` copies or `MaxFetches` fetches at a time, and no more than
`MaxMoves` changes by others, `MaxFlights` flights or `MaxFrames` frames.  The guards of
`MaxRevision` and `MaxGeneration` stop the admin and the selector at the edge of
the instance, never the property.  In `Dispatch` the budgets of the code (8, 8 and 5)
are constants: three sends leave room for a retry within a lease and a second
account, and two refreshes for a supersession before a send and one after it.
The theorems hold for the code's own values.

`NoSendOnOutdatedLease`, `SuccessHidesNoFailure` and `NoSecondTurn` speak of
pairs of states with primes of variables that many actions change; they are
written over the phases of a request rather than over action names, so that a
new action cannot escape them.

Deadlock is checked in the runs of the store, the selector and the refresh.  It is
not in `dispatch` and `request`, where the end of the request is the end of the
behaviour (`Returns` shows that a dispatch ends nowhere else; the registry's clock
and sweeper never stop) or a list may be empty,
nor in `caches` and `signin`, where every lookup or sign-in may be over and the
moves used up, nor in `program` and `upgrade_rollback`, where everything has stopped, or a binary is lost or damaged and no command starts any
more.

### Fairness

Three runs need it.  `request`, of the registry (`RegistryFairness`): `WF(Sweep)` and `WF(Tick)`: `Run`'s ticker
fires until shutdown.  `WF(Release(r))` and `WF(Abandon(r))`: a handler returns,
its release is deferred, and everything it waits on is tied to the connection of
the client or to a timeout.  New requests are not fair; the property is about
what happens when they stop.  `dispatch`: weak
fairness of the dispatch's next step.  Every call it waits for has a timeout of
its own, or the response header timeout and pings of the HTTP client.  The
number of changes others make is bounded there, and has to be: an account whose
quota is verified and lost again before each pick makes the loop verify for
ever, since a successful verification is charged to no budget.  `request`, of the exchange: weak
fairness of the failing read alone: a read of a closed body returns.  Nothing is
assumed of upstream or of the client.  `program`, of the service: weak fairness of the main
function, of the goroutines of the two `NotifyContext`s and of the two Shutdowns;
none of signals, of listeners and of requests, which may go on for ever.
Of the background: weak fairness of the loops, the workers and the warmups (what
they wait for has a timeout), and strong fairness of `StopLoop` alone: a scan
may be over so late that the ticker is ready again each time, but a `select`
picks evenly among what is ready.  Of an upgrade nothing is assumed.

## 4. What is proved

Three proofs are about what a request goes through before it is answered, one
after the other in `RequestProofs`.

*The registry*, for every set of sessions, requests and ids, every number of
places and every ttl: `PinSafety`, `CountSafety`, `CapacitySafety`,
`RebindSafety`, `RefusedWhenFullSafety`, `RegistryTypeSafety`.  `RequestsFinite`
and `SessionsFinite` are assumed, because cardinalities are taken.  The
inductive invariant `RegistryInv` adds two facts to the checked ones: a handler
past its entry knows its session (`HandlerKnowsSession`), and an entry nobody
holds has been idle exactly as long as its session has been quiet
(`IdleMatchesQuiet`).  `PinnedConversation` alone is not inductive: that a sweep
spares a held entry follows only from the count (`InFlightExact`), and that a
release cannot drive the count of another below its holders needs the pin.
`RebindSafety` and `RefusedWhenFullSafety` are about steps, and follow from the
invariant of the state before.

*The choice of an account*, for any finite set of accounts, any standings and
any scores: `TurnSafety` and `AffinitySafety`.  Of round robin the invariant
`PickInv` says that the picks that have passed the watched account and those
that can still do so before the cursor comes to it (its `Distance`) are together
fewer than the list is long.  A pick from the winning tier goes no further than
the nearest account of it (`PickIsNearest`), so it shortens the distance by what it
passes; the arithmetic is that of positions modulo the length of a list, which a
cursor left over from a longer list may exceed.  `AffinitySafety` needs no
invariant but that the list names nobody twice: the best of a tier under a
session's scores depends on the set of the tier, not on the list's order
(`BestIsBest`, `SameBest`).

*The dispatch*, for every set of accounts, every three budgets and every
conversation: `RefusalSafety`, `PoolErrorSafety`, `FateSafety`,
`DispatchTypeSafety` (with it that no budget is exceeded).  The inductive
invariant `DispatchInv` has a part per question: `ErrorKept` follows the error
from `sendErr` at the gate to `lastErr` everywhere else, `RequestFits` ties the
built request to the conversation and to what was refused, `TriedHasFate` gives
each account that is not picked again a fate, unless it is the one at hand.
None of the checked properties is inductive without its part: each speaks of one
place in the loop.

`StoreCallersProofs`, for every set of ids, registrations and profiles, any
number of copies, rotations and revisions, and any outcome of any save:
`RevisionSafety`, `LifecycleSafety`, `CredentialSafety`, `TokenSafety`,
`OrderSafety`, `TypeSafety`.  The argument: every operation is *orderly*: to each
account it does one of five things (nothing a stamp covers, a new policy, a new
identity, a new credential, removal), each with the stamps that belong to
it taken beyond the counters (`...IsOrderly`).  An orderly step keeps
`IInv` (`OrderlyKeepsIInv`), which says that stamps in use lie within the
counters and are nonzero, that no copy is newer than the account, that a copy
of the current revision has the current lifecycle, and so on outwards, that two
copies agree on the order of their stamps, and that tokens belong to their
registration in memory and in the file.  Reading and crashing are separate
lemmas.  The invariant is over every reachable state, so it includes the crash.

`ExchangeProofs` is about all four parts of an exchange.

*The cut*, for conversations of any length and any tool ids: `TrimSafety`.  The
code walks the conversation turn by turn, two turns at a time; the property says
what it should find without walking.  The loop is a recursive function.  That it
has a value at each turn, given by what follows, is `DownwardRecursion` and
`UnitEndIs`.  The loop's invariant `At(m, i)` says that all turns before `i` are in
place and that no unit closes before it: where the loop stops its answer is the
first closed unit or there is none (`LoopStops`), where it goes on the invariant
holds two turns later (`LoopGoesOn`), and so `LoopFindsUnit`, by induction on how much
of the conversation is left.  The rest is that a cut conversation is a conversation
(`ConversationsStay`).

*The assembler*, for any request, any frames and texts over any pieces:
`InStepSafety` and `TextSafety`.  An answer `[mode, asm, client]` is *sound* if its
blocks are numbered as its format numbers them and its client, if it is
streamed, has the same blocks, with the same one open (`Sound`; `Shown`: redacted
reasoning is sent when it is closed).  It is *live* if its end has not been told.
Every operation of the assembler maps live answers to live ones and says what it
adds to the text (`CloseOpenLives`, `GrowLives`, `AddTextLives`, `FlushLives`,
`IngestLives`, `ReasoningLives`, `ToolUseLives`, `FinishLives`).  The text is `Kept`
if what the blocks say, with the carry, is all that upstream has sent, and the
carry is the longest ending of the run that begins a marker.  That a text fed
piecemeal holds back the same as the text fed whole (`HeldOfJoin`) is why the
places at which frames split a marker do not matter: an ending of the joined
text that is longer than the new frame begins with an ending of the old run, and
that was in the carry.

*The stream*, for all events, any number of frames and whatever the handler does
with them: `StreamIsQueue`, that the stream implements `FrameQueue`.  The
inductive invariant `IInv` says where every frame read and not delivered is:
`primed` follows what was delivered without a gap (`PrimedFollows`), the channel
holds the newest frame or nothing is missing (`ChannelFollows`), a goroutine at
work has an empty channel, and where Recv reads the wire itself there is neither
(`OneRead`).  Each action is then shown to read ahead, deliver, pass on, close or
stutter.

The three come together in `ExchangeInv`, of the whole state machine: the stream's
invariant, the conversation's, and the answer's (`AnswerInv`: sound, kept, and
live until the stream is closed, because every frame that tells the end closes
it); `ExchangeTypes` follows from it as well.

`AccountCachesProofs`, for any number of callers, retries, places and moves:
`CachesForward`, `AnswersForward`, `LimiterSafety` and `TypeSafety`.  The invariant
of the first two: what is cached is of the present epoch and of no later revision
than the account's (`CacheCurrent`), and the fetch a lookup wants is no older than
the moment the lookup began (`CallersForward`).  The second part is what makes a
shared flight safe: its key is the joiner's own, whoever began it.
`LimiterSafety` follows each fetch of the probe from the queue to its end: that no
two fetches of a key are under way (`OnePerKey`) and that a probe's alone waits in
the queue (`ProbesQueue`) is what makes one fetch's end the end of one place.

`SignInProofs`, for any people, ids, sign-ins and requests: `TypesHold`,
`TwinsOverlap`, `NamesFollowTokens`.  The invariant says that a state that was
taken is gone from the table (`SpentIsGone`), that whoever is stored with a user
id has an address of theirs stored with it (`StoredNamed`), and of a request
about to save (`RequestsSound`) that its candidate names its owner or nobody, that
it found nothing only if nobody known had its user id, and that a candidate
without a user id targets an account with one only if it is the same person's.  The
rules that compare profiles or clients never meet an account with a user id,
because an account without an address has none.

`TokenRefreshProofs`, for any callers, accounts, registrations and rotations:
`TypeSafety`, `NewestSafety`, `RotationSafety`, `ServingSafety`, through sign-ins,
imports of both kinds, rotations by others, removals, timeouts, failing saves and
crashes.  `NewestSafety` and `RotationSafety` are about chains that are whole; the
others about all.  `AsksWithNewest` is about what
upstream knows and is far from inductive.  It needs one flight per key
(`OnePerKey`), and of a whole chain that one account has it, in memory and in the
file (`Sound`), and that one flight works on it (`OnePerChain`); which need that a
credential stamp pins the chain and, while a flight works on a whole chain, the
chain the stamp (`StampPinsChain`, `ChainPinsStamp`); then the *ledger*: an answer
under way is the newest token (`AnswerIsNewest`), a stored one is in the store
until another comes (`StoredIsHeld`), what the store holds is the newest while the
chain is whole, and the file lags the store by at most what is `behind`
(`FileFollows`), which is what a crash turns into `broken`.  An import is the
delicate step (`CredentialsKeep`): a chain it leaves whole comes with its newest
token, to one account, while no flight owes an answer on it.  `ServingSafety` is
then about `Deliver` alone, after a lemma that no other step hands out a token.

`SelectorProofs`, for any accounts, requests, bounds and administrators:
`StrictSafety`, `Stickiness`, `NoRollback`, `FreshSend`, `FailureStands`,
`OneTurn` and `TypeSafety`.  A *reading* of an account is what some request has
listed of it, or the account itself.  The invariant orders readings and states:
two readings agree on which is older, in revision and lifecycle alike
(`ListsOrdered`, `StatesOrdered`), neither is ahead of the account, and one of
the account's revision is the account (`Snapshot`).  Without that a touch with a
stale list could reset the lifecycle of a state, and with it a depletion.  A
step of the selector then does to each state one of four things (nothing,
forget, let a cooldown elapse, or give it a new generation at a revision it had
or that was read: `Moves`), and each such step keeps the invariant
(`SelectorKeeps`); a step of the store gives one account a revision nobody has
seen, or removes it (`StoreKeeps`).  That a lease or an observation is out of
date shows in its generation or revision (`OutdatedOvertaken`, `LateOvertaken`),
which is what makes the comparison at the gate enough.

`ProgramProofs`, for any number of requests, slots, workers, accounts, commands,
versions and builds: `ProgramTypes`, `CutSafety` and `ReplacementSafety`.  Each
part of the program has its invariant, and a step of one leaves the others as
they are (`ProgramInv`).  Of the service (`ServiceInv`): the end is only forced by a
signal given after the first was acknowledged (`ForcedByInsisting`), a listener that
went down in a drain has no request under way (`DownIsDrained`), and nothing is
served before the registration (`ServesLate`).  Of the background: between two
scans no worker is left (`NoWorkerBetweenScans`), without which a new scan could
exceed the workers.  Of the upgrade (`UpgradeInv`): a version that was resolved is
in the list of releases, with what its assets promised (`TargetsExist`), every
`checksums.txt` is listed as it is published (`SumsAreListed`), what is verified is
listed (`VerifiedWasListed`), and a command nobody overtook still
runs what is on disk (`StartedFromInstalled`), which is what makes the comparison
of its own version with the release enough.

The constants these need (`NoRegIsNone`, `InitialFilesAreFiles`,
`NewAccountsAreEntries`, `CodeHasPieces`, `EventsAreFrames`,
`ConversationsAreMessages`, `PoolFinite`, `NoVersionIsNone` and the like) say that a
missing value is not a value, that files, bundles, frames and conversations are
what their types say, and that what is counted is finite; TLC evaluates them on
each run.

Recursive data (the loop of the trim, joined texts, numbers of turns) is
reasoned about with induction in the form of sets: a set of numbers that has 0,
and `n + 1` whenever it has `n`, has every number (`InductionOnSet`), which follows
from the well-foundedness of `<`.

Proving `Exchange` showed two places where its model said less than it seemed
to, neither of which changed a run.  Two arms of the `CASE` of `AddText` overlapped (an
empty text while a text block is open), and which of them TLA+ takes is not
defined; the code tests for the empty text first, and so does the model now.  And
nothing said what frames and conversations are beyond the instance TLC was
given; these are assumptions now.

What only TLC has checked: the liveness properties `QuietRegistryDrains`,
`Returns`, `ReaderEnds` and `ComesToRest`, which are out of the prover's reach.
Every other property of a passing run is a theorem.

## 5. Findings

1. **A switch is reported as saved when it is not** (`store_durability`).
   `SetDisabledChanged` changes memory, then saves; when the save fails the
   change stands.  The retry finds nothing to change and succeeds without a
   save; a restart restores the old policy.  `SetOverageEnabledChanged` and
   `Remove` share the pattern.
2. **A depletion can be forgotten** (`selector_forgets`).  `pickFor` and
   `peekAny` read the account list before they lock the selector and drop the
   states of accounts that list lacks.  If an account is added in between and
   depleted by another request, the drop wipes the depletion, and the next pick
   sends on the account again before any fresh usage observation.
3. **A refresh token can be spent twice** (`token_double_spend`).  The singleflight
   key has the credential stamp, and `ImportAccounts` bumps the stamp whenever an
   entry changes anything of its account (`accounts.go` 301).  A bundle that has
   the refresh token in use with another access token (exported before a refresh
   that did not rotate) gives the account a new stamp amid a refresh, and the
   next refresh sends the same refresh token beside the first.  The comment at
   `admin.go` 399-401 says that the singleflight rules this out.
4. **A requested downgrade does nothing** (`upgrade_rollback`).  The repository's
   README (326) offers `upgrade --version v0.2.0` to downgrade or roll back; the
   command (`upgrade.go` 108) says that the version "is already installed" and ends
   with success.  `SafeReplacement` accepts a downgrade to a version that was asked for,
   so it holds for the code as it is and for one that does what the README says.

Observations met while modelling, smaller than a finding or without a run:

* "press Ctrl+C again to force quit" is printed (`main.go` 335) before the second
  `NotifyContext` registers (341).  A signal in between goes to the first
  one's channel, which nobody reads any more; a third signal works.  The model has
  the step (`Signal` while `main` is between the two).
* `ensureUpdateStatus` (`server.go` 1043) does not hold its mutex, nor leave a
  mark, while it asks GitHub, so polls that overlap each ask; the comment at
  1021 says at most once per ttl.
* The text of `--allow-unverified` (`upgrade.go` 65) speaks of a missing or
  incomplete `checksums.txt`; the flag turns off the comparison of an archive that
  is listed, too (150; `Verify`).
* `updateIdentity` (`accounts.go` 456) advances the revision when an empty
  profile is filled; the comment at 565 says it does not, the one in
  `selector.go` 94 says what the code does.
* `errModelUnavailable` (`server.go` 1671) may be answered although the models
  of an account whose quota could not be verified were never fetched; 1332-1334
  says every usable account's list was.
* The comment on `FindDuplicate` (`accounts.go` 746) lets a shared profile decide
  when the address is unknown "on at least one side"; the code requires both
  (788).  The code is right: the comment's rule gives one person's account to a
  colleague, and is the mutant of `TokensUnderOwnName`.
* `compareVersions` (`upgrade.go` 529) is said to rank "0.1.0-3-gabcdef" below
  any release.  It is a valid semantic version, a pre-release of 0.1.0, and ranks
  above 0.0.9.
* The update check runs under the context of the admin's request: a page that is
  left while it runs is remembered as a failure of GitHub for ten minutes.
* `FindDuplicate` ranges over a Go map: when several accounts match (a person
  stored twice) any of them is taken.
* A sign-in looks for a duplicate and saves under separate acquisitions of the
  store's lock.  The window is real: two sign-ins of one person add two accounts, and
  a sign-in may replace the credentials of an account that has become known as
  somebody else in between.  The two action properties say that this is the only way.
* `pendingMarkerTail` (`anthropic.go` 1430) holds nothing back when white space,
  or for the DSML marker a `>`, follows a complete marker in the same or the next
  frame; the marker is then sent, although `toolOpenerRe` (1381) would strip it.

## 6. Not modelled

The wire formats (event-stream frames, SSE, JSON conversion, images), the
matching of model names, HTTP routing and authorisation, the admin page and labels: stateless, or of
no consequence for the rest.  Of the upgrade: archive formats, and what the
selfupdate library does to the file, which two commands may be doing at the
same instant; the model replaces it in one step.  Of the process: flags and the
log file; the search for a free port is one step.  Wrap-around of the 64-bit stamps (the code skips 0 when a counter wraps, which takes 2^64
mutations) is left out.  `updateTokens` and `updateIdentity` also have unfenced
forms; no code outside the tests calls them.  Imports in `TokenRefresh` carry no
policy, which no refresh looks at; `AccountStore` has them whole.  The cached update check
(`ensureUpdateStatus`) only tells the admin page that a release is out; nothing is done on its
answer, so of the updates only the command is modelled.
