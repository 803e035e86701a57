# Menagerai: a verification project

TLA+ models of the access portal menagerai (`src/src`, TypeScript), the TLC
runs that check them on small instances, and TLAPS proofs of the properties
that matter most for every instance. The code is the reference: every
definition is translated from it, and `PROJECT.json` says from which lines.

## The system

Menagerai is a portal in front of a set of internal apps. A reverse proxy asks
`/gateway/verify` about every request to an app (ForwardAuth); the answer rests
on the user's session, the user's document, the app's document and the roles
that grant the app. Administrators change users, roles and apps through a UI
and a JSON API, which call the same handlers. State is kept in SQLite or
MongoDB collections, without transactions: a handler is a sequence of awaited
calls, and everything else in the process may run at each await. One process
may serve everything (`server-all.ts`), or the portal (`server-web.ts`) and the
verifier (`server-gateway.ts`) may be two processes on one store.

### Inventory

| component (source) | state | operations | what is hard | what makes it correct |
|---|---|---|---|---|
| access decision (`decide.ts`) | none | `decideFrom` | the order of precedence | a deny beats everything; default deny |
| access registry (`services/users, roles, apps`) | `users`, `roles`, `apps` collections | set roles and overrides; disable, enable, delete a user; create, rename, delete roles and apps; grants; new secret | check, then act; cascades over several documents; a step that fails, or a restart, half way | no reference dangles, one override for an app, renames keep access and holders, nobody is locked out |
| gateway (`routes/gateway.ts`, `decide.ts`, `ttl-cache.ts`, `middleware/auth.ts`) | three in-process TTL caches | `verify`, `loadUser`, fills, evictions | fills that cross evictions, staleness that adds up, caches of another process | an allow was justified within a known time; a finished change is effective at once |
| sessions (`sessions.ts`) | `sessions` collection | create, touch (slide), revoke (tombstone), destroy, sweep | fire-and-forget slides, deletions and tombstones that race | accepted only while alive; a revoked session never comes back; the absolute cap |
| sign-in (`routes/auth.ts`) | a transaction cookie | `login`, `callback`, `logout` | an account changed during the callback | only an active account gets a session |
| start (`server-*.ts`, `bootstrap.ts`, `startup.ts`) | none of its own | preflight, `ensureSuperadmin`, `ensureDemoApp` | a restart at any point of a handler | the superadmin and the structural role exist before the portal listens |
| identity provider (`idp/*`, `rules.ts`, `emailRules.ts`) | accounts at Logto, the email rules | provision, suspend, delete, rename, import a roster, link at sign-in | a call that fails, or whose answer is lost, between two writes; rules read long before they are used | both sides agree where nothing interfered; only admitted emails become users |
| usage (`usage.ts`) | `usage_daily` collection, the set `seen` | `recordUsage`, statistics | suppressed writes after deletions, renames, failures; days of 23 and 25 hours | only what is written, or on its way, is suppressed; rankings are fair, lists full, the grid is the window |
| demo reset (`demo/reset.ts`, `demo/auth.ts`) | a timer, `resetAtMs`, `resetting` | arm, reset, demo sign-in | sign-ins and requests during the wipe | after a reset the store is as seeded; a session's end is armed, and comes |
| app groups (`services/app-groups.ts`) and launcher (`routes/portal.ts`) | `app_groups`, `apps.group` | create, move, reorder, delete | positions written one by one | the order asked for; no app names a group that is gone; every app is drawn once |
| LLM usage (`llm.ts`) | shared pulls, a cache of them | pull, page by page, under a deadline | pages that share pulls, a proxy that fails or stays silent | one pull per key, no failure cached, no row lost without a word within the cap of pages, every page answers |
| API keys (`apiKeys.ts`, `apiKeyAuth.ts`) | `api_keys` | create, revoke, check, stamp | revocation during a check | a revoked key, or one of a user who is no longer admin, opens nothing |
| access check (`routes/access.ts`) | a token cache | `checkOne` | as the gateway, without the caches | the same decision |
| pure helpers (`gateway-logic.ts`, `admin-logic.ts`) | none | path normalisation, public-path globs, CSV roster | edge cases | agreement with a reference definition |
| store (`db.ts`, `store/*`) | the collections | `find`, `insertOne`, `update`, `delete`, `aggregate`, interpreted from MongoDB's language | filters in SQL and in memory, upserts, unique indexes, arrays | each call does to the facts what its name says |
| admin UI, JSON API, pages, audit, i18n, configuration | - | parse, call a handler, render | - | out of scope |

Interactions: requests and handlers share the store and, in one process, the
caches (the handlers evict at the end of their work). Sign-in reads the
registry and writes sessions; `disableUser` and `deleteUser` delete sessions.
An allowed request fires `recordUsage`; `deleteUser`, `renameApp`, `deleteApp`
and the demo reset change the usage rows. Bootstrap writes the registry before
the portal listens.

## The modules

* **`AccessPolicy`** - the documents and `decideFrom`, pure. `Registry` and `Gateway`
  decide with it, on a stored or a cached document.
* **`Registry`** - the collections and the administrators' handlers. A handler
  is a program, a sequence of sets of store calls (a set of two for a
  `Promise.all`); each of up to `Proc` handlers in flight makes one call per
  step, so every interleaving at an `await` is a behaviour. A failed
  precondition throws and drops the rest. `RestartPortal` stops the process at
  any step: the handlers in flight are lost, what they wrote stays, and the
  bootstrap runs before anything else.
* **`Gateway`** extends `Registry` with the verifier: a clock, the three TTL
  caches, and requests whose look-up, store read and cache set are separate
  steps. `EvictUserEntries` and `EvictAllEntries` give the handlers' last steps
  their effect when both run in one process (`SameProcess`). `Restart` and
  `RestartWeb` stop the verifier's process or the portal's.
* **`SessionLife`** - what the sessions promise, without clocks, documents or
  writes in flight: opened once, closed for good, a request let in only if its
  session was open when it arrived and turned away only if it is closed.
* **`Sessions`** - the `sessions` collection: `touchSession` as the store calls
  it makes (`Read`, `Judge`, `DeleteExpired`) and `sessionIsRevoked` after it, the
  slide it sends and does not wait for (`Slide`, `LoseSlide`), creation,
  destruction, revocation to a tombstone, the store's sweep, restarts and a
  clock. It implements `SessionLife` (`ImplementsLife`).
* **`Documents`** - the SQLite store's interpreter of queries and updates
  (`store/mongoql.ts`, `store/sqlite.ts`) as pure operators on documents: filters,
  update operators, upserts, the SQL prefilter, unique indexes, sort, limit, group.
* **`FactBase`** - what the calls on a collection promise, as sets of facts
  (who holds what, which role grants what, who used what when).
* **`Store`** - the calls the code makes, each the filter and the update it
  passes, run by `Documents` on the rows of one collection, in any order. It
  implements `FactBase` (`ImplementsFacts`), which is what `Registry`, `Usage` and
  the rest take a call to do.
* **`Activity`** - the statistics (`usage.ts`, `llm.ts`) as operators: the days of a
  time zone whose days have 23 to 25 hours, rankings with their boost, top
  lists, daily counts, the heatmap, the totals of the proxy's rows. They run on
  `Documents`, by the aggregations the code passes to the store.
* **`Dashboard`** extends it with the pages that show them (`buildDashboard`,
  `buildActivity` of `routes/admin.ts`): several requests, the pulls they share, the
  caches of the pulls, a proxy that answers a page, fails or stays silent
  until the deadline. Two listings are pulled, page by page and each up to the cap: the
  spend log and the keys that tell whose a row is. The proxy lists them in any order, and
  an entry that comes between two pages moves those behind it.
* **`Usage`** - the write side: `recordUsage`'s set, its writes in flight,
  and the handlers that remove or move rows.
* **`Launcher`** - the app groups and `launcherSections`; two administrators'
  handlers, a step per awaited call (the look-up of a group and the list of the groups are
  two, so a group may go in between).
* **`Demo`** - the demo mode: `performReset` step by step, its timer, the sign-ins with
  their healing, crashes, and what a visitor does as an administrator: documents added,
  edited and deleted, the seeded ones too, personas disabled and deleted, all of it
  while a reset may be under way. Of a collection it keeps whether what is seeded is there as
  it was seeded, and whether there is anything else.
* **`Accounts`** - portal users and provider accounts: `createUser`,
  `importRoster`, `updateProfile`, `disableUser`, `enableUser`, `deleteUser` as far as
  they call the provider, the sign-in callback that links the two, the email
  rules. A provider call may fail, or take effect and its answer be lost.
* **`Collections`** - the places a condition picks of a sequence, in order, and sums over
  finite sets: what the code's `filter` and `reduce` do, in a form that can be proved about.
* **`RegistryProofs`, `GatewayProofs`, `SessionsProofs`, `AccountsProofs`** (of
  `Accounts` and `Usage`), **`StoreProofs`, `DashboardProofs`, `PortalProofs`** (of `Launcher` and
  `Demo`) - the theorems. **`CollectionsProofs`** holds the lemmas about sequences, sorting,
  sums and the folds of updates that several of them cite.
* **`MCRegistry`, `MCGateway`, `MCStore`, `MCDashboard`** - the instances TLC checks.
  **`MCParts`** (`Launcher`, `Demo` and `Store`) and **`MCAccounts`** (`Accounts` and `Usage`) put
  modules that share no state into one instance each: the variable `part` says
  which of them a behaviour is of, and the others stand still.

Correspondence of state: `users`, `roles`, `apps` are the collections, a
missing document is `Null`; arrays of roles, overrides and grants are sets, as
the code only asks whether some element matches. `sessions` is the set of users
with a session document. `ops[p]` is the continuation of a handler: the calls
still to make and the document it read. `userCache`, `appCache` and
`decisionCache` hold a value and the time it was set. `reqs[r]` is the
continuation of a request.

History variables, which no step of the program reads: `torn` (handlers that a
restart cut off while they owed a cascade), `let0` and `held0` in a handler
(who had access, or held the role, when a rename started), the `last...`
functions of `Gateway` (when each fact an access rests on was last true in the
store) and `quiet` in a request (no handler was in flight when it arrived). In
`Sessions`: `lastUse`, `past` (what happened to a session), and `open` and
`tomb` in a request. In `Usage`: `rekeyed` (keys deleted or renamed since the set
was empty). In `Launcher`: `alone` in a handler and `overlap`. In `Demo`: `late`
(collections written since the last reset came to them) and `overlapped` (sessions whose sign-in
ended during a reset). In `Accounts`: `admitted` (the emails some active rule has
matched since a handler began), `apart` (users whose two sides need not agree), `alone`
in a handler (no other was on its user or its account while it was) and `outside`. In `Store`: `touched`.

`Registry` knows of a session only whether a user has one, `Sessions` knows of a
user nothing: what joins them is that `disableUser` and `deleteUser` call
`destroyUserSessions` and that `loadUser` reads the user after a session was
accepted, which `Gateway` models.

## What the runs check

| run | instance | shows |
|---|---|---|
| `registry_serial` | 2 users, 3 roles, 2 apps, 2 secrets; one handler at a time, restarts anywhere | the cascades: `NoDanglingApp`, `OneOverridePerApp`, `AppRenameKeepsAccess`, `RoleChangeReachesHolders`, `InactiveHasNoSession`; `NoLockout` |
| `gateway_bounds` | verifier in its own process; 1 user, 1 app, 1 request and 1 handler that overlap; user TTL 2, the others 1, a request takes up to 1 tick | `AllowIsJustified`, `DisabledWithinUserTtl`, `PublicIsJustified`: the exact bounds of the staleness |
| `gateway_serial` | one process, TTLs 2, requests and handlers do not overlap, every handler but the renames, the creations and the new secret | `NextRequestSeesDenial`, `NextRequestSeesApp`: the evictions make a finished change effective on the next request |
| `gateway_race` | one process, a request that overlaps one `setOverride` | violated: `NextRequestSeesDenial` - a fill that crosses an eviction |
| `gateway_rename` | one process, no overlap, `renameApp`, a denied user | violated: `NextRequestSeesDenial` - the user cache keeps the deny under the old key |
| `registry_overlap` | as `registry_serial`, two overlapping `setOverride` of one user | violated: `OneOverridePerApp` - both pull, then both push |
| `sessions` | 1 session, 2 requests; idle 6, cap 9, slack 2, a request and a slide take up to 1 tick | `AcceptedIsFresh`, `ActiveKeepsSession`, `TombstoneForces`; `ImplementsLife`: the refinement; `EveryDocumentGoes`: liveness |
| `store_stamp` | one key and its owner | violated: `PresentedKeyIsStamped` - `$or` is taken for a field's name |
| `dashboard` | two pages open at once, two users and apps; five rows and four keys at the proxy, some of which come while they are read, two pages of two rows and two of one key within the cap; days of 23, 24 and 25 hours | `PullsAreShared`, `CacheHoldsPulls`, `SectionFailsOnce`, `NoSilentLoss`, `RankingIsFair`, `TopListsAreFull`, `HeatmapDrawsWindow`; `EveryPageAnswers`: liveness |
| `parts` | launcher: two groups, apps and administrators; demo: one persona and a collection visitors write; store: two users, roles, apps, keys and days, arrays of two, three rows | `LauncherShowsEveryApp`, `OrderIsAsked`; `ResetLeavesOnlySeed`, `SignedInMeansArmed`, and `ArmedResetHappens`: liveness; `OneRowPerKey`, `PrefilterKeepsMatches`, and `ImplementsFacts`: the refinement |
| `demo_groups` | one persona, an administrator who writes app groups | violated: `EveryCollectionIsWiped` - the app groups are not on the reset's list |
| `accounts` | two emails, two handlers at once, three handlers in all, from a linked, a disabled and an unlinked user; two users, two apps and two days of usage | `IdentityAgrees`, `NewcomersWereAllowed`, `SeenMeansWritten` |

The five violated ones are disagreements of the code with its documentation or its
comments; `PROJECT.json`, "findings", quotes both.

**Bounds.** Two keys of each kind, one of them free, give every rename, creation
and deletion its cases, and a key that is freed and taken again; a third role is
the structural one. One user and one app are enough for the caches, whose
entries for different keys only meet in evictions. `MaxTime` bounds the clock at
100. The views of `MCGateway` identify two states that differ in the absolute
time only: entries and facts are compared by age, an expired entry is as good as
none (`get` deletes it and every read goes through `get`), a fact older than
every bound is as good as one never seen. Steps and properties read the clock
through these ages alone, so the search closes (at a depth of about 60) before the bound
of the clock is met and covers runs of any length. `MCBoundsView` also
leaves out `quiet` and the arrival time of an answered request, which the
properties checked with it do not read. `MCView` of `MCRegistry` identifies
states that differ in proxy secrets and public paths, which no property there
reads. In `sessions` the clock runs to 10, one tick after the cap, when the sweep
takes the last document; one session is enough because a session's steps read
and write its own document only.

In `parts` the store's behaviours read and write one collection each, as every call does; three rows and
arrays of two let an upsert meet a row of its key and one of another, and a cascade meet
duplicates; its view leaves out the last call's outcome, which no call reads. Of the demo, `Visited` keeps
the visitors' documents to the apps (a collection that is seeded; the users change by personas disabled and deleted),
and `Ids` counts the ids of a persona's row modulo 2, so that an old session may
even seem live again. In `dashboard` `Clock` is the instants the pages are opened at and the
pulls go on at (midnights, the hour before one, the days around both clock
changes), `Horizon` the last one at which a page is open, `Wanted` which pages (the dashboard, and an app's card),
`Served` the uses and users there are when a page opens (one use; its user there, or deleted), so that the
pages' interleavings are not multiplied by usage histories that the other properties go through;
usage stands still while a page is open, since a page reads it in one go of awaited calls and no statement relates
them; two pages are enough for pulls to be shared, and one cache entry for
evictions. Of the four keys two are past the cap (another two before
the third has come) and two are of one alias; two rows and a key come while the pages are read. In `accounts` three handlers, two at a time, reach
every pair that overlaps and the next handler on what they leave (what takes longer to
arise, the proofs of `AccountsProofs` cover: below); after `MaxStarts` nothing is begun,
so that behaviours end there, and the run checks no deadlock. The superadmin,
whom `Registry` guards, is left out of `Accounts`, and in `Usage` one user
follows the other, as no statement is about two. `dashboard` checks no deadlock
either: its clock ends. Deadlock is checked in all the others.

**What `sessions` says in numbers.** `ActiveKeepsSession` holds for users whose
requests come at most `Regular` ticks after one another, and `Regular` is exact:
with one tick more TLC finds a user turned away (tried with several values of
the constants). With `Slack` (five minutes) above what a request and a write
take, it is the idle time less five minutes and less a request and a write. The
session of an active user may end up to `Slack` before its cap, because the
throttle compares with the capped expiry. A tombstone does not outlive the idle
expiry its document had when it was revoked (or one that a slide in flight
gives it), and one narrow interleaving loses it earlier: a touch reads a document
that is about to expire, a slide and a revocation come in between, and the touch
deletes by id what has become a tombstone (`"crossed"` in `TombstoneForces`).

**Why one handler at a time in `registry_serial`.** With two handlers in flight
several of these properties do not hold - the handlers check and then act, with
awaits between (see the hazards) - so the run says what each handler keeps on
its own, restarts included. `NoLockout` and the types hold for any overlap; of the
other properties the proofs say which overlaps harm them, and that no other does
(`RegistryProofs`, below).

**Fairness.** None but in `Sessions`, `Dashboard` and `Demo`: the other properties are
safety properties, and the specifications allow stopping anywhere. `Fairness` in `Sessions` is weak
fairness of the clock, of the sweep (an interval timer, or MongoDB's TTL
monitor), of each request's next store call, and of the slides sent at each
time (a driver call ends, with an error if need be). Nothing says that users
come back or that anybody revokes anything. The slides are taken by the time
they were sent, since one that never ends would otherwise be hidden by newer
ones that do. In `Dashboard` the clock goes on, a request that can take its next step
takes it, and a pull whose deadline is over fails (the `AbortController`'s timer);
nothing says that the proxy answers. `DemoFairness` is weak fairness of the timer's
firing and of the steps of a reset and of a start: the process runs. Nothing is assumed of
sign-ins, and crashes may come as often as they like.

## What is proved

The proofs are for every value of the constants that satisfies the stated
assumptions (`NullAssumption`, `RegistryAssumption`, `BootstrapAssumption`,
`StoresAssumption`, `GatewayAssumption`, `SessionsAssumption`, `UsageAssumption`,
`NoneIsNoRule`, `StoreAssumption`, `ActivityAssumption`, `DashboardAssumption`, `LogAssumption`,
`LnAssumption`, `LauncherAssumption`, `BoundsAssumption`, `NoneAssumption`, `BeginningsAssumption`): any number of users, roles, apps, overlapping handlers and
requests, any calls, any TTLs. `StoresAssumption` says of the stores an instance
starts from what handlers leave behind: a new install has an empty registry. `ActivityAssumption` says that the local
midnights and the table of logarithms grow and that null is no number; `LogAssumption` that a row is told
from every other by its request's id and a key by its token, and that no time zone is a day from UTC (nothing of the order in which
the proxy lists them); `LnAssumption` that the table reaches as far as any count and any
sum of the log, a row counted once for each page, as `Math.log` does.

* `RegistryTypeCorrect`. The invariant `RInv` adds to the types what a
  handler in flight is: its call is one of `Call`, it awaits `findApp` alone, and
  a write of the app comes only with the app's document in hand or right after
  the `findApp` of an `updateApp` (`Planned`). Without this the steps' writes
  have no type.
* `PortalNeverLocked`: `NoLockout`, with any overlap and any restart. It is not
  inductive alone: `disableUser` writes without looking. `LockInv` adds, for
  every handler (`Careful`), that one with a dangerous step pending has either
  not asked yet, or names neither the superadmin nor the structural role. The
  guard of one call thus protects a write several awaits later, because the
  call's arguments do not change and a user's email and the role's key are
  never changed by another handler.
* The cascades: every property of `registry_serial`, for any number of
  overlapping handlers and restarts anywhere, *as long as calls that clash do not overlap*.
  Which calls clash is the hypothesis of each theorem (`AppsApart` and so on, over the
  calls in flight), and the corollaries `Serial...` are the case of one handler at a time,
  where nothing clashes. The hypotheses are what the code does not guard against:
  - `ReferencesStand`: `NoDanglingApp`, unless a call that takes an app away (`deleteApp`, and
    `renameApp` for both its keys) overlaps with another that counts on it (`addGrant`, `setOverride`,
    or one more that takes it away).
  - `OverridesUnique`: `OneOverridePerApp`, unless moreover two `setOverride` of the same user and
    app overlap - the finding that `registry_overlap` shows.
  - `SessionsOfActive`: `InactiveHasNoSession`, unless a sign-in overlaps with the disabling or the
    deletion of the same user.
  - `HoldersReached`: `RoleChangeReachesHolders`, unless `setRoles`, for a rename the deletion
    of a user, or the rename or deletion of a role of the same key comes in between. (The property is about
    calls that have returned, and their call counts until the next one.)
  - `AccessKept`: `AppRenameKeepsAccess`, if a rename runs alone and the rest is `AppsApart`.

  All rest on `ControlInv`: a handler in flight follows its program, and what is left of it
  is the end of the program but for the calls of one `Promise.all` that are done. So the number
  of steps left says what a handler has found out, and each invariant says that
  this is still true (`KnowsApp`, `Pulled`, `KnowsUser`, `KnowsRole`, `KnowsAccess`): nobody else may make it
  false but a call that clashes. The rest is what is owed: a reference is to an app that
  exists, or to one whose cascade is still to come (`Owed`); a session is of an active user, or
  of one whose disabling has still to drop it (`OwesSessions`); half way through a rename the app
  goes by one key and its grants and overrides by another (`KeyNow`). A restart
  leaves exactly that debt behind, which is why the properties except those torn calls.
  TLC checked the invariants, on the instance of `registry_serial` and at random with two
  handlers, before they were proved.
* `AccessIsJustified`, `DisablingIsBounded`, `PublicAccessIsJustified`, and
  `GatewayTypeCorrect`, from `GatewayInvariant`. The idea of `GInv`: every copy
  of a document carries a time at which it was true. A document in a cache was
  true at most one request's duration before the entry was set; the one a
  request holds, at most a TTL and a request's duration before; a decision's
  facts, all of that before its entry. The bounds of the properties are the sums
  along these chains: `DecisionTtl + UserTtl + 2 * MaxRequest - 2` for the
  user's facts, `DecisionTtl + MaxRequest - 1` for the role's,
  `UserTtl + 2 * MaxRequest - 1` for the account's being active (looked up
  outside the decision cache) and `AppTtl + 2 * MaxRequest - 1` for the app.
  The evictions and restarts only remove copies, which is why the bounds hold
  in both deployments.
* `NextRequestIsDenied` and `NextRequestIsServed`: `NextRequestSeesDenial` and `NextRequestSeesApp`,
  the two properties of `gateway_serial`, for any users, apps, handlers (which may overlap with
  one another) and requests, any TTLs, and restarts anywhere. Assumed: one process (`SameProcess`),
  no handler runs while a request does (`Serial`; `gateway_race` shows why), no rename of an app
  (`NoAppRename`; `gateway_rename` shows why), for the app's side no new secret (`NoNewSecret`: it evicts
  nothing), and for the user's side that no call makes a role or an app of a key that another call of the
  instance frees (`KeysStay`: see the key made again, below). The instance of `gateway_serial` is one of these.
  Time is no part of this argument, as an eviction must do its work at once: what a cache or a
  request holds is true in the store still (`AppStands`, `UserStands`), or a
  handler in flight *must* evict it, being past its last step that can throw
  (`UserOwed`, `AllOwed`; the table `PlaceOfEvictions` says where in each program this begins). Two things
  do not fit into this, and the invariant says why they do no harm. `evictAll` does not evict the
  users, so a cached user may keep a role or an override that a handler took from everybody: but then
  its role or app is gone (`RoleGone`, `AppGone`), and what is gone grants nothing - until somebody
  makes its key again. And `deleteUser` evicts *before* it removes the user: while it
  runs no request fills the caches again (`Forgotten`). TLC checked the
  invariant on the instance of `gateway_serial`, with two handlers, before it was proved.
* `AcceptingIsFresh` and `SessionsRefineLife`, from `SessionsInvariant`. `SInv` has
  two ideas. A document, stored or in a request's hands, or a slide in flight,
  sets an expiry at most the idle time after the *present* last use, because
  the last use only grows: that is why slides may come late and out of order.
  And sessions close for good, since a slide is an update of what is there:
  so a request that holds a usable document had an open session when it arrived
  (`open`), and one that found none, or a tombstone, still finds it closed when
  it answers. With that every step is a step of `SessionLife`: most of them close
  some set of sessions, often the empty one. For any number of sessions and
  requests and any idle time, cap and slack, with slides of any delay.
* `RevokedSignsInAgain`: `TombstoneForces`, wherever the idle time is at most the cap
  (a new session's expiry is not capped: with a longer idle time a touch past the cap
  deletes a tombstone that has not expired). `TInv` adds that no expiry is past
  the cap, and that the document a request may delete by its id still expires when
  it did at the read, unless a slide crossed (`Rereads`): the tombstone such a
  deletion takes has expired too.
* `InUseIsKept`: `ActiveKeepsSession`, for any idle time, cap, slack and delays. `LInv` bounds
  what a stored expiry may fall short of the one the last use asks for: by the slack of the
  throttle, or by what a late slide takes off, which is a request and a write
  (`Margin`); or else a slide is in flight whose use came `Regular` at most after
  the one that the stored expiry does for (`Lasting`). `HasRead` carries this to the
  document in a request's hands, which slides may have overtaken since.
* `SuppressedIsWritten`: `SeenMeansWritten`, for any users, apps, days and writes in flight.
  It is inductive with two facts: writes in flight are counted (`Counted`), and a use in
  the set is one of a user who exists or is gone for good (`Known`) - without which a
  new user could inherit the set of a deleted one.
* `NobodyUninvited`: `NewcomersWereAllowed`, for any emails, rules, rosters and handlers.
  `AccountsInv` says what a handler carries across its awaits (`Carries`): a creation
  an email that was admitted, an import a snapshot of rules each of which was in
  force since it began, the one it added itself included. What was admitted only
  grows while a handler runs, so that whatever the others do in between, the insert
  many calls later is of an admitted email.
* `SidesAgree`: `IdentityAgrees`, where the portal manages the provider's accounts
  (`Provisioning`; without it a disabled user's account is never suspended, and no agreement
  is promised), for any emails, names, ids and number of overlapping handlers, calls that fail or
  lose their answer, crashes and renames at the provider. Assumed of the constants: `None` is
  no document and no number (`NoneAssumption`), the bounds are numbers, and an instance
  starts from a user and an account that agree, if they are linked (`BeginningsAssumption`).
  `IdentityInv` says of the stores what the indexes and the provider keep (`Unique`: no
  two users of one account, no two accounts of one email, a user's account has his email);
  of every handler what it holds (`Held`, `Typed`) and that the email it carries with an
  account or a user is theirs, emails being changed by nobody (`Claims`); of a
  handler that is alone, that what it looked up several awaits ago is still so
  (`Knows`: the account is there, not suspended and of nobody else, the user active and of
  the name it compared with); and of a user who is not apart, that one handler at most is
  on him and his account, and what this one still owes him (`InStep`: between the store's write and the provider's
  call the sides differ in what the call will set, and in nothing else).
  The proof found two behaviours that the run's three handlers are too few for, and the exception was too
  narrow for both. A creation that waits with its new account for its insert is not on any user
  yet: when another user of this email is imported meanwhile, linked to the account by a
  sign-in and deleted together with it, the insert links the newcomer to an account that
  is gone. So overlap is now counted on accounts as well as on users (`With`), and a creation
  whose account others came to leaves its user apart; likewise a sign-in heals only if
  no handler came to its account. A sign-in looks its user up by the subject, and in a later step by the email. That it finds by the email
  no user of another account takes a third invariant, `MailInv`: between two look-ups others may link,
  delete and create, but a user of an account has its email, and so has every handler that works
  for the account (`UserMail`, `PeerMail`). Before it was proved, TLC checked `IdentityInv` on the run's
  instance, and at random with three handlers at a time and nine in all.
* `KeysAreUnique`, `PrefilterIsSound` and `StoreTypes`: `OneRowPerKey`, `PrefilterKeepsMatches` and
  `StoreTypeOK`, for any names, days and times, arrays and collections of any size and any sequence of
  the code's calls. `StoreInv` says of every document (`GoodDoc`) that a field with a column holds one value, and a
  field of the unique index one that is not null; and the documents differ on the index (`Distinct`).
  The first is why the SQL condition loses nothing: what `matches` finds after flattening is the column's
  own value. The second is why the index, which ignores null, guards every document, and
  upserts are what could break it: the document made for want of a match has its key from
  the filter (`GivenAll`) or from `$setOnInsert`. `StoreAssumption` says that names, days and times are integers,
  which null is not. The folds of the updates are unfolded for the lengths the code has, one to three
  (`AllOfOne` and so on, in `CollectionsProofs`); deletions pick the rows that stay (`PickedMembers`).
* `StoreImplementsFacts`: `ImplementsFacts`, the refinement. What the rows say is a set of facts, and every call
  of the code changes it as the step of its name in `FactBase`, or not at all: so the other modules
  may take a call of the store for that step, whatever the query and update language makes of it,
  for any names, effects, days and times, arrays of any length and with any duplicates, any number of
  rows, any sequence of calls. `FactInv` is `StoreInv` with the shapes (`Shapes`): the arrays of users and roles
  are there and hold names, overrides and grants, a key's document has its three values and its id for its hash.
  The argument has three layers. Of arrays: what an update of each kind makes of the *set* of its
  members (`Replaced`, `EachSet`, `Pulled`, `Appended`), duplicates included, so that `$`, which here replaces every
  element that equals the filter's value and not the first, is a renaming of facts. Of rows: which rows a filter
  selects (`SelectedBy`, `SelectedByThree`: the SQL condition takes nothing away), and that a call on the unique key is
  about one row at most (`OneOfAKey`, `OneUse`, `OneOfAName`), so that a first match is all there is. Of facts: a call
  whose selected rows give up some facts for others, while no other row says any of the first, does just that to
  all the facts (`FactsChanged`, `FactsMapped`, `FactsDeleted`, `FactsInserted`). A refusal is an equivalence, since the facts say
  when it happens: a rename meets a row of the new key (`MoveRoleStep`, `MoveUsageStep`), an insert one of the
  same (`InsertRefused`). That a second `revokeKey` selects nothing is right because the fact is
  there already (`RevokeKeyStep`).
* `SessionsHaveAnEnd`: `SignedInMeansArmed`, for any personas. `DemoInv` follows a session from
  the wipe on: those found later in the reset are of sign-ins that ended in it or are about
  to arm (`PastTheWipe`), which is what the end of the reset leaves (`EndInSight`).
* `ResetIsComplete`: `ResetLeavesOnlySeed`, for any personas and any writes between, of seeded documents too. `ResetInv`
  follows a collection that no visitor has written since the reset came to it (`Clean`): it holds nothing
  but what is seeded (`NothingElse`), all of it once the reset has seeded it (`SeedThere`), and then the personas are
  all there and active (`PersonasBack`). A sign-in that heals in between only adds what is seeded.
* `OrderStands`: `OrderIsAsked`, for any integers as groups and apps and any number of administrators.
  First that a list in order is the only one there is (`TheSortedList`): the place of a group in it is the
  number of groups before it (`Place`). Then `LauncherInv`: a handler that is alone has
  nobody at work beside it, and if it reorders, its keys are still all the groups, each once, and those
  it has come to stand where it wrote them (`Ordering`); and as long as none has overlapped, what
  a handler has found when it began is still so when it writes (`Finds`): a new group's position is
  beyond all others, the group an app is put in exists, and the one to be removed has no app any more.
* `OnePullOfAKey` and `OneFailureOfASection`: `PullsAreShared` and `SectionFailsOnce`, for any number of
  pages, pulls, keys and rows. `DashInv` says that two pulls in flight have different keys, and of every section of
  a page that is served that it is down with one failure and waits for nothing, or has counted none: a
  failure comes once to all that wait for a pull, and who asks again (the overlay) asks only for the
  sections that are not down.
* `DashboardTypes`: `DashboardTypeOK`, and of it `NobodyWaitsInVain` alone: every pull that a section waits for is
  in flight (`WaitsInFlight`). Assumed: `Null` is no function (`NullIsNoObject`: no object of the code is null), and
  `PullId` is infinite (`Unbounded`) - the model picks an idle pull for a new one, the code makes a promise, and only
  an instance can run out of them. `WaitInv` adds that the pulls in flight are finitely many. That the caches
  keep to their capacity is of `KeptInv`, that usage keeps to its bound of `RowsInv` (below).
* `CachesHoldPulls`: `CacheHoldsPulls`, for any listings in any order, page sizes, cap and timeout. What a pull is sure
  to read (`Sure`) is what was listed when it began and is still listed within the cap of pages when it
  ends. `KeptInv` follows a pull from page to page (`HasRead`): whatever comes between two pages only moves entries towards the
  end, so one that was there from the beginning and has a place before the page has been read (`PageReads`). A pull that
  ends well therefore holds what it was sure to read (`Held`), and began a timeout before its end at most; a cache's
  entry was held when it was set, and setting, pruning and expiry only take entries away (`CacheSetGood`). If nothing
  came meanwhile no entry was read twice (`Calm`), and in any case a pull reads each row once per page at most (`Weighs`), which bounds the sums.
* `NothingIsLostSilently`: `NoSilentLoss`, under the two assumptions of `DashboardTypes`: the property the others lead to.
  `FedInv` says of each section of a page that asks the proxy, as long as it has not failed, that it has
  its rows, and the apps' section its keys, or waits for a pull of them (`Fed`): of the window the page wants, and as of a time no
  earlier than the page's beginning less a cache's and a pull's lifetime (`OldestPull`). A pull that ends is
  taken out of the sections' waits and, being what `KeptInv` says, gives each of them just this
  (`HeardFed`); one that fails takes the section down, and a section that is down is a
  warning. When the page is drawn nobody waits, so each section that is up has its rows and keys, and the rest
  is arithmetic: the overlay groups a card's rows by days and sums the days again (`OverlaySums`, `SumOfGroups`),
  which is the sum of the card's rows in what is held (`OverlayIsWhole`), no less than what must be there, by the keys that must be there
  (`KeysAgree`: a key that is held has the alias it has at the proxy), and no
  more than what may (sums of naturals grow with the set: `SumGrows`). That the card and its
  overlay are of one key comes from the ranking (`RankedAreKeyed`). Once a page is done, its lower bound
  only falls and the upper one only grows with time (`WholeLater`).
* `RankingsAreFair`: `RankingIsFair`, for any rows there can be, any log and table of logarithms. `RowsInv` says that the
  rows of usage are uses, no more than their bound, of days not to come. The order of the ranking is a weak order
  (`RankOrders`), a stable sort puts each candidate at a place of its own in it (`SortsAll`, `SortsOnce`), and the score grows with each of
  the three measures (`StandingGrows`, from `LogNormGrows`: the rounding of the logarithms keeps the order).
* `ListsOfUsersAreFull`: `TopListsAreFull`. Grouping gives each key of the rows once (`GroupsAre`), so a list is as long as its
  limit or as the set of keys; the dashboard's drops the deleted before it cuts (`ExistingAre`), an app's
  after, and so loses at most those.
* `HeatmapsDrawTheWindow`: `HeatmapDrawsWindow`, for any midnights, any instant and any number of days. The days drawn are
  those of instants 24 hours apart, each once and in order, from the cutoff to today (`WindowIs`, `LabelsAre`). When the
  days behind today are of 24 hours they are all the days of the window (`OrdinaryDays`), `days` of them,
  so a label stands at its weekday (`ThreeInARow`, `GridIs`), and the counts drawn are all the counts (`CountsAddUp`).
* `EveryAppHasItsTile`: `LauncherShowsEveryApp`, for any groups, apps and orders and whichever of the groups were
  read: each visible app is drawn once, in its group's section or the last one, and sections and tiles
  come in their order. Of the state this needs the types alone; the rest is that the sections part the places of
  the tiles (`SectionsPartition`), and what is picked of a sequence keeps its order.

Model-checked only: the liveness properties `EveryDocumentGoes`, `EveryPageAnswers` and `ArmedResetHappens`. Liveness
under fairness and `ENABLED` are out of the provers' reach, and so are induction over data and recursive operators;
every invariant and action property that a passing run checks is also proved.

## What reading showed and no run states

* The decision TTL and the user TTL add up when the verifier runs in a process of its
  own: `AllowIsJustified` states the sum. `design/deployment-and-gateway.md:290` says that the
  worst case of a revoked grant, a deny or a disabled user is "the 30 s gateway TTL" (that the two
  caches it names before, the gateway's and the apps' own, do not stack is another matter, and so).
* Where the clocks change the heatmap is not what `usage.ts` says of it: "a trailing window of exactly
  `days` days INCLUDING today" (`usage.ts:256-260`), "one week column, Mon..Sun" (`:279`), "the trailing `days` calendar
  days" (`:343`). It steps back by 24 hours (`:371`): in the first hour of a day, a day of 23 hours behind it is
  skipped, its usage is not drawn and the days after it stand a row too high; in the last
  hour of a day, a day of 25 hours in the window comes twice, is drawn once, and the window is
  a day short. `HeatmapDrawsWindow` promises number, rows and counts for days of 24 hours only.
* What the dashboard loses or counts twice without a warning: rows past `LLM_PROXY_MAX_PAGES`, which
  `README.md:102` and `design/llm-usage-plan.md:145` name as the bound of the spend-log pull; *all* rows of keys that `/key/list` has past
  the same cap (`llm.ts:133`), of which they say nothing; and rows that move to the next page
  while the log is read, which are counted again (`llm.ts:109-110`).
* A key made again: `evictAll` leaves the users' cache (`decide.ts:120`). When a role or an app is deleted
  and another of the same key is created while a user's document is cached, his old slot or
  his old override counts for the new one, for one user TTL at most. TLC finds
  `NextRequestSeesDenial` violated, without any overlap, once the calls of `gateway_serial` also have `createRole` or
  `createApp` on the key that a deletion frees; `KeysStay` excludes it from the proof.
* `regenerateSecret` evicts nothing: the old secret is handed out until the app TTL is over.
* `deleteUser` revokes the sessions first, "so access is dead even if a later step
  fails" (`users.ts:183`); when the provider then refuses, the account stays
  active and a sign-in opens a session again.
* `importRoster` promises failures that are "tallied, never thrown" (`users.ts:206`), but an
  `insertOne` that meets a user made meanwhile throws, and so does on MongoDB every second
  user without an account: `logto_user_id: null` is an explicit null, which a sparse unique
  index (`db.ts:57`) takes for a value. `NullsCollide` in `Accounts` is this
  difference; the run is of SQLite's index.
* `createUser` cut off between the provider and the insert can never be repeated: the
  email is taken at the provider.
* A creation that waits for its insert while its email's user is imported, signs in and is
  deleted makes a user who is linked to an account that is gone (`users.ts:49-62`).
* A sign-in of the demo that ends while a reset is under way: its `armReset` is ignored, or undone at the
  reset's end, and its session, minted after the wipe of the sessions, has no reset ahead of it (`overlapped`).

## What the models leave out

* A user's `pending` status behaves as `disabled` in every check and is not a
  value of its own. `editRole` and `editGroup` (display names), audit writes.
* `requireApiKey`, the access check endpoint and its token, the OIDC exchange and the
  provider's management token: chains of look-ups whose parts are modelled, or the
  libraries' work. `clearLlmCache`, which only tests call.
* `Accounts` knows of sessions nothing. An import makes users without names.
* The superadmin's guard in `Demo`: any persona may be disabled or deleted there, which only adds behaviours.
* The stop of the server around a demo reset, the text of the seed.
* Path normalisation, public-path globs and the roster's CSV: string work
  without state, which their unit tests enumerate.
* The order and the multiplicity of arrays. `updateMany` is atomic over all
  documents: true of SQLite, not promised by MongoDB.
* The bootstrap's writes are one step: nothing else of the portal runs then. In
  the two-process deployment the verifier might read between them. A failed
  preflight (no bootstrap, a configuration screen) is not modelled.
* Failing store calls, other than refusals of a unique index and lost slides.
* The device fingerprint of a session. `createSession` is one step: the document
  appears at the time its expiry is counted from.
* The caches' capacity, path parsing, redirects and headers other than the
  proxy secret.
* `setRoles` may take `system_admin` from the superadmin; `NoLockout` says the
  account is active and the role exists, the next start gives it back.

## Plan

Done: the modules above and their proofs. What would come next, in this order:

1. More of overlapping handlers (`registry_overlap` is the first such instance):
   runs that show the clashes the theorems about the cascades exclude - the references of
   a deleted app, sign-in against `disableUser` - where a doc promises otherwise.
2. `requireApiKey` against the handlers of `Registry`: a revoked key, or one of a user who
   is no longer an administrator, opens nothing.
3. The capacity of the gateway's caches.
4. Path normalisation, public-path matching and the roster parser, against reference
   definitions over bounded inputs.
