# Model Wiring: formal models, model checking and proofs

Model Wiring keeps a catalogue of AI models, the credentials that reach them and
the choice a user made, and forwards requests with the credential injected at
egress.  This directory holds TLA+ models of its stateful parts and of the rules they
decide by, the TLC runs that check them on small instances and the TLAPS proofs that
hold for every instance.

`packages/core/src/model_wiring/` is abbreviated `core/` and
`packages/surfaces/src/model_wiring_surfaces/` is abbreviated `surfaces/` below.

## 1. Inventory of the system

| Part | Source | State it keeps | Operations | What makes it correct |
|---|---|---|---|---|
| Refresh lease | `core/profiles.py` `refresh_lease` | one row of `refresh_leases` per profile: owner, expires_at | acquire by polling, release, expire | at most one live owner; a live lease is never disturbed; waits end |
| Profile store | `core/profiles.py`, `pool.py` | SQLite tables of profiles, usage counts, pool cursors | upsert, get, list, delete, claim_from_pool | claims are fair and atomic; no silent substitution |
| Credential broker | `core/broker.py` | none of its own: profiles and secrets | resolve, lease, refresh, refresh_due, enable, disable, snapshot | one refresh at a time; a spent refresh token is never presented; billing kinds never mixed; a sweep leaves nothing due behind |
| Auth broker | `core/auth.py` | secret stores (memory, keyring, environment); leased material | lease, `_refresh` | leases only unexpired material of the profile asked for; gives the lease back |
| Sign-in and sign-out | `core/login.py`, `oauth_login.py`, `oauth.py` | login sessions, loopback listener, device authorization | routes, offered drivers, begin, advance, promote_environment, logout | terms gate every sign-in; a profile has its secret; a removed profile leaves none; only the own callback's code is sent |
| Probe | `core/probe.py` | last probe state, in the profile's metadata | probe, probe_all | a check changes nothing but what it records |
| Inference gateway | `core/gateway.py` | routes, bearer token, recent records | forward, refuse | no credential without authentication; one upstream call per request; one status per response |
| Catalogue | `core/catalog.py` | the document with overlays, aliases and roles; a cache file with date and digest | load, fetch, write, serve stale, overlay, look up, search | never a torn file; what is served is whole, recent by its date or the best there is; a search or a plain id stays with the provider asked for |
| Selection | `core/selection.py` | none | resolve an intent to a plan | no choice between billing kinds by default; the profile it names is the one the broker takes |
| Routes, discovery | `core/access.py`, `discovery.py` | none | routes of a provider, credential state, environment profiles | |
| Selection surfaces | `surfaces/controller.py`, `tui.py`, `ansi.py`, `web/` | active provider, selected model, modes, profile, search text, cursors, filters | browse, search, move, choose, cycle, confirm | the choice belongs to what is shown; what is shown as ready resolves; a plan is for what was shown |
| Catalogue service, ordering | `core/api.py`, `popularity.py` | none | read-only views, a sort key | |
| Command line | `core/cli.py` | none | login, logout, profile add/remove/discover, access, catalog | |
| Data classes, errors | `core/contracts.py`, `errors.py` | none | | |

Interactions.  `CredentialBroker.lease` runs `refresh` and then `AuthBroker.lease`,
which may refresh once more.  Both refresh under `ProfileRegistry.refresh_lease`,
which lives in the same SQLite file as the profiles; the secrets live in another
store, so a profile and its secret share no transaction.  `LoginBroker` and `Prober`
write profiles and secrets without that lease.  The gateway leases through the
broker once per request, in one thread per connection.  Surfaces call the core in
process: a plan is made by `Selector` from the profile table as it is then, and the
broker resolves a request for a credential by rules of its own.  The catalogue is read
from a file that every process may replace.  Processes share the SQLite file, the
keyring and the cache file; a memory store lives and ends with its process.

Hard behaviour: leases that run out under a slow body; a caller that waited for a
lease and finds the work done; refresh-token rotation (a refresh spends the token it
presents, so presenting one twice ends the sign-in); read-modify-write of a profile
row around a network call; two stores written one after the other; one row read three
times on the way to a lease; a sweep over profiles that come and go; a screen that shows
what was read earlier; a file written by processes without a lock; crashes between
any two of these; a rotation cursor whose members change.  `PROJECT.json` lists each
of these hazards with its line and the properties that catch it.

## 2. Modules

| Module | Models |
|---|---|
| `ExclusiveGrant` | abstract: a lock with at most one holder, granted when free, which ends by release or expiry |
| `RefreshLease` | `ProfileRegistry.refresh_lease`, step by step, with a clock |
| `RefreshLeaseProofs` | its theorems |
| `CredentialRefresh` | `CredentialBroker.refresh`/`lease` and `AuthBroker.lease`/`_refresh` over profile, secret, lease and provider; the lease is the abstract lock of `ExclusiveGrant` |
| `ProfileLifecycle` | `CredentialRefresh` together with sign-in, sign-out, enable, disable and probe |
| `CredentialRefreshProofs` | the theorems of both |
| `CredentialPool` | pools and `claim_from_pool` over the profile table |
| `CredentialPoolProofs` | its theorems |
| `Gateway` | `InferenceGateway`, its HTTP handler and its transport, one handler thread per connection |
| `GatewayProofs` | its theorems |
| `DeviceSignIn` | `OAuthDeviceDriver` over `OAuthClient`, with the provider's side, the user and a clock |
| `DeviceSignInProofs` | its theorems |
| `LoopbackSignIn` | `OAuthPkceDriver` and `LoopbackRedirect`: browser sign-ins that share a pinned port |
| `LoopbackSignInProofs` | its theorems |
| `Catalogue` | operators: `Catalog.from_models_dev` with overlays, lookups by id, alias, role and words |
| `Access` | operators: the routes of a provider, states of credentials, environment profiles |
| `Selection` | operators: `Selector.select` and `CredentialBroker.resolve` |
| `Picker` | `SelectionController` under the keys of the terminal picker, while the profile table changes |
| `CatalogCache` | `ModelsDevSource` and `Catalog.from_cache_or_sync`: fetch, atomic write, digest, stale fallback; serves the catalogues of `Catalogue` |
| `CatalogueProofs` | the theorems of `CatalogCache` and of `Picker`, and those about the operators both are built from |
| `Accounts` | the profile table and the secret stores under sign-ins by every driver, sign-outs, edits, the refresh sweep and leases of several processes |
| `AccountsProofs` | its theorems, and that the broker takes the profile the selector names |
| `MC*` | one instance of each for TLC: symmetry, and constants that are functions |

`Selection` extends `Access`, which extends `Catalogue`; `Picker`, `CatalogCache` and `Accounts` are
built on the three.  `ProfileLifecycle` extends `CredentialRefresh`.

### RefreshLease
`lease` is the set of rows for one profile; `pc`, `calls`, `deadline`, `seen` are one
caller's locals (owner, deadline and `now`).  `Call` computes owner and deadline,
`ReadClock` the time before `BEGIN IMMEDIATE`, `Acquire` and `Refused` are the two ends of
the transaction, `TimeOut` the end of the loop, `Release` the `finally` block, and
`Abandon` a dying process or a failing DELETE.  The transaction is one step because
SQLite's write lock is held from `BEGIN IMMEDIATE` on; time may pass before it.
`time.time()` and `time.monotonic()` are one clock that is never set back.

### CredentialRefresh
One call per member of `Callers`, at a place `at`, in an operation `op`, with a local
material `hand`.  The two `_due` checks, the load, the token request, the put and the
release of `refresh` are the actions `CheckDue`, `Recheck`, `Load`, `Exchange` (or
`Refused`, `AnswerLost`), `Put` (or `PutFails`), `Release`; an exception under the lease goes
through `Raise` and `Unwind`.  `EnterLease`, `Fetch`, `Close` are those of `AuthBroker.lease`,
whose `_refresh` shares the actions under the lease.  A material is the number of its
token; its distance to expiry is `fresh`, `due` (inside the broker's skew) or `expired`.
`Lapse` ends a lease while its holder is still inside, which the code allows:
`ttl_seconds` bounds nothing that `driver.refresh` does.  The constant `Overrun` allows that
step, and the history `overran` remembers it: three promises (one refresh at a time, no
spent token presented, no request for a token that is not due) are made until it
happens, the others also after it.

### ProfileLifecycle
`Admins` perform `Tasks`.  A sign-in is `Authorize`, `StoreSecret`, `RecordProfile`; a
sign-out `Read`, `ForgetSecret`, `EraseProfile`; enable, disable and probe are `Read` and a
write of the whole row.  `AdminCrash` may end any of them in between.  One profile of one
driver, but every step of a refresh; `Accounts` is the other way round.

### CredentialPool
`BeginImmediate` takes the write lock, `Choose` evaluates the query and the strategy,
`Commit` makes usage and cursor visible, `Rollback` makes nothing visible.  `SetEnabled`,
`Delete`, `Store` and `Reorder` are what others do to the profiles between transactions.

### Gateway
`at` is where a connection's handler thread stands.  `Receive` is the server reading a
request; `UndeclaredBody`, `Authorize`, `Route`, `Lease` and `NoCredential` are the stages of
`_forward` and `forward` in their order, `Transport` the one upstream request,
`BeginResponse`, `StreamChunk`, `EndOfStream` the sink, `Record` the bounded history.  A failure
leads to `Refuse` (a status of the gateway's own, unless one was written) or, if
it is no exception the handler catches, to `Escape`, where the server drops the connection.
The broker appears by the ways a lease can end, the provider and `http.client` by the
ways they answer, fail and break off.  A body cut short of its
Content-Length ends either with an error or, as `read1` of Python 3.11's `http.client` does,
without one; the history `short` remembers the second.  A request body is absent, of declared
length, chunked, of a malformed length, or `misframed`: chunked, but spelt so that `_forward` does
not see it (section 6); the history `misframed` remembers the last.  `KeptInStep` is promised of
every connection without a misframed body whose last response was not cut short so.

### DeviceSignIn
`at` is where the driver stands: in `begin`'s request, with the prompt shown, about to poll,
polling, judging a pending answer, sleeping, storing, recording.  Variables named as in the
code are the driver's (`expires_at`, `interval`); `validUntil`, `demand`, `earliest`, `slows` and
`redeemed` are what the provider keeps by RFC 8628.  The two sides read the clock at
different moments: the provider when it answers, the driver when the answer has
arrived.  `Tick` passes time only where the driver waits: before `advance` is called, during
a request (for at most `Timeout`) and during a sleep.

### LoopbackSignIn
A session is one sign-in in a process of its own, at a place `at`; `port` is the session
whose listener is bound.  `result`, `received` and `values` are the code's.  `Arrive` is a
request for the callback path, `Test`, `Set` and `Signal` the three lines of `_capture` in the
request's thread, `Receive` and `TimeOut` the two ends of `wait`, `Check` what `advance` and
`exchange_code` look at before they send anything, `Exchange` the token request, `Close` the
`finally`.  A callback says which session's state it carries and whether it carries that
session's code; the user may decide, and reload, after the session has ended, and
then the callback reaches whoever has the port.  Requests for other paths are answered
404 and change nothing.

### Catalogue, Access, Selection
Pure operators, named for the functions they stand for.  A qualified id is a sequence of
segments, `<<"acme", "luna">>` for `acme/luna`; a name without its provider is a suffix of it.
`_normalize_identifier` is the function `Normalized`, given by the constant `NormalForm` for the
segments that are not in lower case or have blanks around them: `provider` looks up the
normal form of what it is asked for among ids as they are spelt, `model` normalises only
to find an alias, and aliases are kept in normal form.
Labels, prices, limits and dates are left out, and the score of a search hit is the
constant `Score`: the properties hold for the ranks given, ties and near ties included.
`None` is what the code writes `None`, and `ProfileRank` is the order of profile ids.

### Picker
`ui` is what the controller read and shows (query, active provider, provider order, models,
cursors, focus), `pick` the selection (model, three modes, billing, profile), `error` whether
the screen shows one, `plan` the result.  There is one action per key of `handle_key`, and
`Narrow` for the `browse` call of an embedding surface.  `choose` and the next profile read
the table twice, once for the profile and once in `_derive_access_route`: the second reading
is the action `Derive`, and other processes may write in between (`Upsert`, `Delete`).
`ReadyResolves` ties `SelectionView.route_ready` to `resolve`, which decide by separate rules.
`PickerInv` is the inductive invariant; its part `ChoiceSettled` says that a choice is listed under
its own provider whatever is searched for, and that without a profile it names no way to
pay.  `ChoiceFollows` is about a choice that is no longer on the screen (`Stray`): only narrowing
the list to what can be run makes one.

### CatalogCache
`cache` is the file, `temps[p]` the temporary file of `write_cache`, `call[p]` a call: `load` is
`from_cache_or_sync`, `sync` the command of that name.  `LoadCache`, `Fetch`, `MakeTemp`, `WriteTemp`,
`Replace` and `Fallback` are its steps in order; `SourceDown`, `EmptyAnswer` and `DiskFails` the ways
they fail, each with the handler the code has for it or without one.  `Crash` ends a
process anywhere; `Damage` is what is done to the file from outside, by a disk or a hand: removed,
torn, made unreadable as text, its document changed under its digest, or its date changed, which
the digest does not cover.  The history `redated` remembers the last, in the file and in
the call that serves it; that a served date is one by which the document had been
published is promised only without it (`ServedIsHonest`).  A hand that writes a document of its
own with the digest that goes with it is left out: that is what the source may publish.  A
document is its place in the list of those published, so a digest matches if it names
the document in the file.

### Accounts
A process does one thing at a time: `job[p]` is its place, the sign-in begun, the row in hand,
the profiles a sweep still has to refresh, what a lease asked for and what it was lent.
`Begin` is `LoginBroker.begin` for any route, driver and findings of other tools' sign-ins;
`Paste`, `Approve` and `Choose` are `advance` of the five drivers and `Record` the upsert that
follows; `Promote` is `promote_environment`; `Forget` and `Erase` are `logout`; `SetEnabled` is
`enable` and `disable`; `AddProfile` and `RemoveProfile` are the command line's.  `BeginSweep` lists
the enabled profiles and `EnterRefresh` and `Renew` refresh one after the other; `BeginLease`
resolves, `EnterRefresh` and `Renew` refresh if due, `Take` is `AuthBroker.lease`, which reads the
row once more.  A row and its secret are read in one step and a refresh under its lease
is one step: `CredentialRefresh` takes those apart.  The browser and device sign-ins are
one step too, since `LoopbackSignIn` and `DeviceSignIn` take them apart.  `Drivers` are the five built
in, `Registered` those an application registers; a route may name any driver at all.  A
credential supplied with a call (`RuntimeCredential`) has the kind, billing and expiry its
caller gives it, and is lent as it is: `LentAsAsked` says "not expired" of everything else.  A login broker and
an auth broker of one process share its memory store.  What is found of other
tools' sign-ins may change at any moment, so it is chosen anew at each `Begin`.

## 3. Runs

| Run | Question |
|---|---|
| `lease` | do expiry, late release, crash and stale clocks leave at most one live owner whose row nobody touches, is it a lock, and does every wait end? |
| `refresh` | two calls of any kind, one fault, leases that may run out: is there one refresh at a time, with a good token, only when due, is the lease given back, and does every call end? |
| `lifecycle` | do the token promises, and "a profile has its secret", survive sign-in, sign-out, enable, disable, probe and a crash? |
| `pool` | are two concurrent claimers served evenly, from the least used member, and never from a part of a pool? |
| `gateway` | two connections failing at every stage: one provider request and one status each, no connection out of step, every delivered response recorded once? |
| `device` | does a device sign-in keep the provider's pace, and give up neither early nor late? |
| `loopback` | two sign-ins on one port, callbacks of either, bare visits, reloads: is only the own code sent, the port given back, and does the wait end? |
| `picker` | every sequence of keys while the profile table changes: do list, cursors, choice and modes fit together, does "ready" resolve, is a plan for what was shown, and do selector and broker choose the same profile? |
| `catalog_cache` | two processes, a source and a disk that fail, crashes and damage: is the file only ever replaced whole, is what is served a published document, honestly dated unless the date was changed, recent by that date or the best there is, and well formed under the overlays, and does every call end? |
| `accounts` | one process administers, one sweeps and leases: do terms gate every sign-in, has a sweep that returns dealt with all that was due, and is what is lent the profile chosen, in service and not expired unless supplied so? |
| `sign_out_secret`, `billing_crossed` | each exhibits one disagreement between code and document (section 6) |

Bounds.  `RefreshLease`: two callers with two calls each, TTL 2 and a clock to 4 are
enough for a grant, its expiry, a second grant and a late release of the first.
`CredentialRefresh`: two callers give a winner and a waiter, or, after an overrun, two
holders; three tokens give two refreshes, so a token can be spent, and its successor
too; one fault is enough to strand a token.  The theorems cover every number of callers.
`ProfileLifecycle`: two calls and one admin; every violation found needs no
more than that.  `CredentialPool`: four claims take a rotation of three once around.
`Gateway`: two connections with two requests each, so that one request can follow another
on a kept connection; a history that the four responses overflow.
`DeviceSignIn`: a code that lives five instants, polled every one to three, so that it
sees several polls, two slow_downs and answers that arrive after its end; the clock
stops long after that.
`LoopbackSignIn`: two sessions, an earlier and a later one; two requests, so that two threads
can be inside `_capture` together.  The theorems cover every number of both.
`Picker`: two providers, one that needs no credential; three models, one of which the
application cannot run; seven rows of three profiles that differ in kind, billing,
probe and flag, any set of them in the table; two characters to type, one of them a command
once a model is chosen, and the queries one of them makes; a model with two variants to cycle
through, and one to which a correction gave an effort it cannot use.  Its list of providers is
never empty, so the key that ends the picker there (`Enter`, section 6) is covered by the
theorems only.
`CatalogCache`: two processes, so that an older fetch can be written over a newer one; two
documents, the second without a provider an overlay derives from; a cache good for one
instant and a clock to two, so that it grows stale and is refreshed; one damage
(`MaxDamages`), enough to date a document before it was published or in the future; overlays that
derive, correct, add and chain, one of them for a provider spelt in capitals.
`Accounts`: two processes, one administering and one serving; a provider that takes a key or a
sign-in and one whose own tool's sign-in can be reused and whose route bills through a
marketplace and names a driver nobody registers; four of the five drivers registered; a call
that supplies an OAuth credential which has expired; one hand-written profile that is
written anew with another kind and billing; two rows and two secrets, which is enough
for a profile that cannot be refreshed next to one that can, and for a secret that is
replaced.
Deadlock checking is off for `RefreshLease`, whose clock and calls are bounded, for
`Gateway`, whose requests are, for the two sign-ins, which end, and for `Picker`, which closes.

Fairness.  `RefreshLease!FairSpec` assumes that time passes and that a polling caller
keeps polling; nothing about holders.  `CredentialRefresh!FairSpec` assumes that a call
which can take a step by itself eventually does: the wait for the lease is bounded by
`wait_seconds` (so `GiveUp` is always possible, and no fairness of the grant is
assumed), the token request by its HTTP timeout, the leased block by its caller.
`LoopbackSignIn!FairSpec` assumes that a driver which can take a step takes it; the wait is
bounded by its 300 seconds, the exchange by the HTTP timeout.  `CatalogCache!Spec` assumes that a
running call goes on: it waits for no other process, and its request has a timeout.  Nothing is assumed of
users, browsers and handler threads.
None assumes anything about crashes, timeouts of leases or other callers.

## 4. Proofs

`RefreshLeaseProofs`, for every number of callers, calls, TTL, wait and clock:
`LeaseInvariant` proves the inductive invariant `IInv`, whose core is `LiveHolderOwnsRow`:
who believes to hold a live lease is the owner in the row, with the expiry it was
granted.  `AtMostOneLiveHolder` alone is not inductive: it does not say why a claim
based on an old clock reading is refused.  With it come `LeaseExclusion`,
`LiveLeaseStable` (no step of anybody changes the row of a live holder) and
`LeaseImplementsLock` (every step is a step of `ExclusiveGrant` or leaves it unchanged).

`CredentialRefreshProofs`, for every number of calls, tokens and faults and any subset
of the operations.  `IInv` adds to the promises that who is in a body owns the lease
(`BodyOwnsLease`), that what was found due under the lease stays due until it is loaded
(`DueUnderLease`), that the store has one material per reference, and that the token in
the hand of a refreshing call is the good one (`HandHonoured`).  The last needs, in turn,
that only issued tokens are anywhere (`OnlyIssued`) and that the provider's last token is
not lost while no fault has happened (`LastTokenKept`).  `RefreshExclusion`, `OnlyDueRefreshed` and
`SpentTokensStayHidden` hold until a lease runs out under its holder; `ProfileNotStranded`
and `LeaseAlwaysGivenBack` hold whatever happens.  That the first three end there is no
weakness of the proof: with `Overrun` allowed, a second call is granted the lease while
the first still refreshes.

The second half of that module is about `ProfileLifecycle`, where administrators write the
same profile and secret.  `AdministeredTokenHonoured` holds for any number of them.  That
the stored token is good is not inductive there, because a refresh and several sign-ins
may each be about to store: `TokensKept` says that what each of them has in hand is good and
the only copy, so that whoever stores last leaves a good one, in whatever order they
do.  `AdministeredExclusion` carries over, for no administrator touches the lease.
`ProfileKeepsSecret` has the hypothesis `OneAdmin`: two administrators can undo each other's
sign-out halfway (section 6), and then it is false.  `RowSettled` is what it needs besides
itself: a secret is stored before its profile is recorded, and the row that someone
is about to write back is still there.

`CredentialPoolProofs`, for every set of pools, members, callers and claims:
`PoolsServeEvenly`, `LeastUsedServed` and `WholePoolAnswers`.  That counts differ by one at most is
not inductive, for it forgets who is next.  `InRounds` says it: there is a number of whole
rounds and a number d below the pool's size, and the members served once more are
just the d that the cursor has passed last.  That the next claim moves this on by
one is arithmetic on places, so the proof first shows that the places of the rows in
the order of the query are 0 to n - 1, each held by one row (`Places`, by the pigeonhole
principle), and that the strategy always finds a row (`Least`, by well-founded
induction on counts).  `ClaimAlone` says what SQLite's write lock gives: the row chosen is
still the strategy's choice when it is recorded.

`GatewayProofs`, for every number of connections, requests and chunks and every length of
history: `SingleStatusLine`, `SingleAuthorizedRequest`, `ConnectionsInStep` and `ResponsesRecorded`.
`IInv` adds to the first three what the place of a handler says of
its request: nothing is sent or written before its turn (`NothingAhead`), who is past a
check has passed it (`ChecksPassed`), the body is passed on before the response begins
(`BodyPassedOn`), and what is about to be recorded has been ended (`RecordedEnded`).  The last
is a count over connections: each step adds one handler to those that are recording,
takes one away, or leaves them as they are, and the history follows.

`CatalogueProofs`, about `CatalogCache`, for every number of processes and documents and every
age, time and number of damages:
`HonestlyServed`, `CacheReplacedWhole` and `ServedWellFormed`.  `IInv` says of every file and
call what `Honest` says of a document and its date, unless that date was changed in the
file: it had been published by then.  It
holds of the cache because it holds of the temporary file that replaces it (`TempsWhole`), and of that because it
holds of the call that writes it (`FilesHonest`); `Dated` adds that what was fetched is no older
than the call; a crash or a failing disk leaves at most a torn temporary file,
which no call takes up again.  `ServedWellFormed` is about `Catalogue`: for all documents and all
lists of overlays.  `Listed` (a provider is under its id, its models under theirs, each with
the provider's) holds of a document without overlays, and every entry of an overlay keeps
it, whether it derives, corrects or adds (`EntryListed`).  The rest is induction over the
entries and the overlays; it is written out over sets of places in the list (`UpTo`, the
least place that fails), which is why `ApplyEntries` and `FromModelsDev` are recursive
functions, and comes with the proof that such a function exists (`EntriesApplied`).  From `Listed`
follow the lookups, under the conditions they need: `catalog.py` resolves an alias first, so what
is asked for must not be spelt like one, and an alias for a bare model name may be ambiguous;
and it looks up providers in lower case, so a model is found by its qualified id if its provider's
id is spelt so (section 6).  That a lookup stays with the provider asked for is proved of plain ids
and of searches; a qualified id names its own.

The second half of that module is about `Picker`, for every well-formed catalogue, every set of
profile rows, every limit and every alphabet: `PickerInvariant`, `ChoiceIsFollowed`,
`SelectorAndBrokerAgreed`, `PlanIsAsShown` and `ReadyIsKept`.  Lists come first: what `AtPlaces` takes of a
list is a list of just those elements (`AtPlacesIs`), sorting providers loses none and adds none
(`SortedIs`), a cursor that is looked up is on what was looked for (`PositionIs`).  From these,
`ModelsRefreshed`, `ProvidersRefreshed` and `ActiveSet` say what the three helpers of the controller make
of any view: cursors on something, the models of the provider that is active, and which
provider that is.  `Shown` then carries the invariant over every call that shows such a view and
keeps the choice only while it is still listed under its provider; the calls of each key follow.
`PickerInv` without `ChoiceSettled` would not do: that typing a space keeps both the choice and
the provider needs that the choice matches what was typed before.  For the plan, the
qualified id of the chosen model means that model alone (`MeantIs`, from `WellFormed`), and who pays is
the profile on the screen or the first of rows that bill alike (`Payer`); that a first row
exists is induction over the number of rows (`FirstThere`).

`AccountsProofs`, for every number of processes, profiles and materials and every catalogue:
`AccountsInvariant` (rows and secrets keep their keys, terms gate every sign-in, what is
offered is accepted), `SweepDealsWithAll` and `LentIsChosen`.  What a process has in hand was read
steps ago and may be gone; `HandsFull` and two more invariants say what is still true
of it.  `SweepOwes`: whatever was due when a sweep began is replaced, or its profile is still to
be refreshed and its row still leads there; a write by anybody else takes it off the
sweep's account.  `LeaseAsks`: a lease goes for the one profile chosen, and that one was
asked for.  The proof goes job by job (`JobFine`): what a step of one process does to table
and stores must leave the jobs of the others fine (`WriteFine`, `OwedLasts`), and
that is proved once for all steps that write.  `SelectorMatchesBroker` is about `Selection`:
over a table with unique keys, the profile that the selector names is the one that the broker takes, and the
table has unique keys in every state.  The converse does not hold: where the selector
refuses, for want of a billing kind among several or of such a credential among those the
provider declares, the broker still takes the first stored profile.

`DeviceSignInProofs`, for every lifetime, interval, backoff and timeout: `DriverOutlastsCode`,
`PollsKeepPace`, `ApprovalHeard` and `ExpiryEndsWait`.  `IInv` carries what ties the two clocks:
the driver's expiry is not before the provider's (`ExpiryNotBefore`), its interval is the
one demanded as soon as it has judged an answer (`IntervalKept`), when the provider
answered last relative to the poll, the sleep and now (`PollsBetween`), and that who
approved has not been polled for since (`ApprovedSincePoll`).

`LoopbackSignInProofs`, for every number of sessions and requests: `OnlyOwnCode`, `PortFree` and
`FirstCallbackStands`.  `IInv` adds that the port belongs to the one session between bind
and close (`PortFollowsSession`), that a code is sent only after its state was compared
(`CheckedBeforeSent`), that every result was set by a thread that is past setting it
(`ResultFromThread`), so that a thread which was alone when served has set it itself,
and that nobody is then about to replace it (`FirstSettled`).

`LeaseGivenBack`, `NoRequestForFreshToken`, `OneStatusLine`, `PollsPaced` and `FirstServedCounts`, which
some of these theorems state, are conjuncts of the `IInv` that the runs check.

Assumptions.  Each module names what it assumes of its constants, and TLC evaluates it on
every run: bounds are natural numbers, sets of profiles and connections are finite
where something is counted, model values such as `None` are no data.  Some say more:
`PoolAssumption`, that a pool has a member and that no two profiles share a place in the
initial order (`priority`, then the primary key `id`); in `Accounts`, `CatalogAssumption`, that a
catalogue lists providers under their own ids, spelt in normal form and unlike an alias, that
their routes are of the kinds there are and bill in one of the five ways
`contracts.py` knows, whatever driver they name, that the
drivers registered are some of those built in, and that every profile that can be written has a place
in the order of ids; `NormalAssumption`, that the normal form of a segment is its own normal form; `CacheAssumption`
and `DocumentsAssumption`, that there is a document and that ids of providers and models are not
empty.  In `Picker`, `ListsAssumption` says that the two orders list every provider and every model and
that what was typed can be taken back; `RowsAssumption`, that ids order the rows; and
`CatalogAssumption`, that the catalogue is `WellFormed`, that ids of providers are in normal form and that
no alias is spelt like a provider or like a qualified id.  The first part is what `ServedWellFormed` proves of
every catalogue the program builds.  The others are conditions on documents and overlays that the
program does not check: the picker lists
a model and resolves it by name, and an alias of that name would lead it elsewhere, a provider in
capitals nowhere.  The aliases
shipped (`codex/luna`, `openai/luna`) are spelt like no provider, and like a model only if models.dev
lists one of that name.

Only model-checked: termination (`WaitEnds`, `CallEnds`, `SignInEnds`), since liveness under fairness
is beyond the prover.  Every invariant and every action property that a run checks is also stated by
a theorem, except the two that fail (section 6).

## 5. What is not modelled, and the plan

Left out for good: the read-only views of `core/api.py` and the sort key of
`core/popularity.py`, which keep no state; the fields of the data classes and the exception
types, which appear as records and as ways a step can fail; parsing of models.dev
documents, fuzzy search scores, rendering, argument parsing and logging (data and layout,
no protocol); the wiping of secrets in memory; the operating system's keyring (a map with
atomic get, put and delete).  The picker for browsers, `web/model-wiring-picker.js`, keeps a copy
of the controller's state in another language and is not modelled; nor are the
prompts a sign-in shows and the URLs it builds.

Possible next steps: the picker for browsers as a second implementation of what `Picker`
promises; the wait for the SQLite lock itself, which every module takes as one step; and the
command line's remaining commands.

## 6. Where code and documents disagree

With a run that shows it:

- A sign-out during a refresh leaves the refreshed secret behind, against "Remove the
  profile and any secret it referenced" in `logout` (`sign_out_secret`).
- `CredentialBroker.lease` chooses a profile by how it bills and then reads it again by id,
  twice, without comparing: if the row was replaced in between (`profile add` with the same
  id), the credential bills otherwise than asked, against `openspec/specs/credential-broker/spec.md:64` (`billing_crossed`).

Without a run of their own, met while modelling.  Refresh and lease:

- A lease that runs out under `driver.refresh` admits a second refresh, against the class
  comment of `CredentialBroker`.  That class calls itself the one place that writes
  refreshed material; `AuthBroker.lease` refreshes and stores too, under the same lease.
- `enabled` is not looked at again after the wait for the lease (`broker.py:272`), so a profile
  disabled meanwhile is refreshed; it is not lent (`LentAsAsked`).
- A credential supplied with the call is lent without a look at the expiry it says it has
  (`broker.py:70-94`, `252-264`), while a stored one that has expired is refused.
- Selector and broker agree where the selector names a profile (`SelectorMatchesBroker`); where it
  refuses to choose between billing kinds, the broker, asked for none, takes the first profile.
- A sign-in anew that stores its secret while a refresh of the one before is talking to the
  provider loses it: the put of the refresh replaces it (`broker.py:303`).

Sign-in and sign-out:

- `docs/specs/onboarding-architecture.md:78` lets the listener accept "a single state-checked
  callback"; `_capture` takes the first callback whatever its state, so a stale tab's
  callback uses up the capture and the sign-in fails, although it sends nothing
  (`OwnCodeOnly`).
- `enable`, `disable` and recording a probe write back the whole row they read: with two
  administrators they undo a sign-out in between, but not its removal of the secret
  (`ProfileKeepsSecret` needs `OneAdmin`), and a probe undoes a disabling.  Signing
  in anew resets `enabled` and `priority`, and into another store leaves the first secret.
- A sign-out leaves the secret where it is if its store is not registered or fails to
  delete it.  A secret put into the memory store by a command ends with the command.
- Some sign-ins write rows the selector then refuses, for it compares a profile's kind
  with the provider's declared methods: the OAuth route of `openai-codex`, whose methods
  declare only "delegated", and the "delegated" route added for `github-copilot`.
- `begin(driver=...)` accepts drivers that `offered_drivers` does not list; only the reverse
  (`OfferedAccepted`) and the terms (`ClientsPermitted`) hold.  `offered_drivers` lists the
  delegated import also where there is nothing to import, and then `begin` raises.
- Profile ids are `provider-route`, so hyphenated names can meet in one id; the model keeps
  the two apart.

Gateway: a chunked body is refused only if there is no Content-Length and the coding is
spelt in lower case (`gateway.py:567`); with both headers, or with "Chunked", the handler
passes on as many bytes as Content-Length says, or none, keeps the connection, and what is
left is read as the next request (the body kind `misframed`, which `KeptInStep` excepts); a
provider response cut short of its Content-Length leaves the client waiting on
an open connection (`gateway.py:498`); a request for a profile that is unknown or was removed
meanwhile is dropped without the error the specification promises, because `ProfileError` is
not caught (`gateway.py:593`).

Catalogue: a disk that fails while the cache is written fails the call although the document
is in hand; a digest that does not match is an error for every command until `catalog sync`
replaces the file; a file that is not UTF-8 text, or whose `fetched_at` is no date, is an error that
`load_cache` does not turn into `CatalogUnavailable`, so there is no fallback to the source
(`catalog.py:109-121`); the digest covers the document only, so a changed `fetched_at` is served as it
stands, and one in the future never counts as stale (`catalog.py:96-101`, `117`); of two
fetches the older may be written last; a process that dies leaves
its temporary file behind.  `Catalog.model("a/b", provider="p")` does not look at `provider`.
`provider` looks up in lower case what is listed as it is spelt (`catalog.py:255`, `565` against `168`,
`445`): an overlay's provider "Mine" is listed, and neither it nor its models' qualified ids are found.

Picker: with no provider listed, Enter, Tab and the right arrow raise a ValueError nobody catches, and
the picker ends (`controller.py:351`; `tui.py:154`, `179`); a search of several words cannot be typed, since `search` strips the space; narrowing
the list to what can be run may leave the choice of a model whose provider is no longer
shown, and widening it again does not bring the provider back (`ChoiceFollows` allows just that);
an overlay may patch efforts onto a model that does not declare reasoning, and then the picker
offers and sets them and shows "ready", but `Selector.select` refuses the plan (`selection.py:44`;
`EffortReasoned` excludes it from `ReadyResolves`); `route_ready` is shown for a provider without
credentials whose enabled profiles bill in several ways, and for a profile of a kind its
provider does not declare, although `resolve` refuses both (`ShownStillTrue` excludes them).
