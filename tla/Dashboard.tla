------------------------------ MODULE Dashboard ------------------------------
(***************************************************************************)
(* The activity pages of src/src/routes/admin.ts (the dashboard, its LLM    *)
(* fragment, an app's and a user's fragment) over the pulls of              *)
(* src/src/llm.ts, while usage is recorded, users are deleted and time      *)
(* passes.  A request is a sequence of steps between awaits; a pull is      *)
(* shared by the requests that wait for it.  The proxy is external: the     *)
(* spend log and the list of keys that it pages through only grow, by the   *)
(* entries whose time has come, each at its place of an order nobody asks   *)
(* for: an entry that comes between two pages moves those behind it.        *)
(***************************************************************************)
EXTENDS Activity

CONSTANTS
  User, App,       \* integers
  Request,         \* integers, in the order in which they come
  PullId,
  Log,             \* external: the rows of /spend/logs/v2, as it lists them
  Keys,            \* external: the keys of /key/list, [at, token, alias]
  PageSize,        \* rows and keys of a page
  Clock,           \* bound: the instants that are looked at
  RankDays, HeatDays, TopLimit,            \* DASHBOARD_RANK_DAYS, USAGE_HEATMAP_DAYS, ..._LIMIT
  MaxPages, CacheTtl, Timeout, MaxEntries, \* of llm.ts
  PerUser,         \* llmUserConfigured()
  MaxRows,         \* bound: usage rows
  Served,          \* bound: the uses and the users there are while pages are open
  Horizon,         \* bound: the last instant at which a page is open
  Wanted           \* bound: the pages asked for, [of, key, llm]

ASSUME DashboardAssumption ==
  /\ User \cup App \subseteq Int /\ Clock \subseteq Nat /\ Clock # {} /\ PerUser \in BOOLEAN
  /\ {RankDays, HeatDays, TopLimit, MaxPages, CacheTtl, Timeout} \subseteq Nat \ {0}
  /\ PageSize \in [{"rows", "keys"} -> Nat \ {0}]
  /\ {MaxRows, MaxEntries} \subseteq Nat /\ \A w \in Wanted : w.key \in Int

(* A row is told from every other (by its request id) and a key by its      *)
(* token; a key may have no alias; no timezone is a day from UTC.           *)
ASSUME LogAssumption ==
  /\ Log \in Seq(Range(Log)) /\ IsInjective(Log)
  /\ \A i \in DOMAIN Log : {Log[i].at, Log[i].spend, Log[i].tokens} \subseteq Nat
  /\ Keys \in Seq(Range(Keys))
  /\ \A i \in DOMAIN Keys : Keys[i].at \in Nat
  /\ \A i, j \in DOMAIN Keys : Keys[i].token = Keys[j].token => i = j
  /\ \A t \in Clock : t \div Step <= UsageDay(t) + 1

(* The table of logarithms reaches as far as anything that is counted: a    *)
(* row is counted once for each page that it is on.                         *)
ASSUME LnAssumption ==
  {MaxRows, MaxPages * SumOf([i \in DOMAIN Log |-> Log[i].spend]),
            MaxPages * SumOf([i \in DOMAIN Log |-> Log[i].tokens])} \subseteq 0..Len(Ln)

VARIABLES
  now,
  rows,    \* usage_daily
  users,   \* the users that exist
  pulls,   \* PullId -> the pull in flight, or Null
  done,    \* kind of pull -> its TTL cache, in insertion order
  reqs

vars == <<now, rows, users, pulls, done, reqs>>
Kinds    == {"rows", "keys"}
Sections == {"apps", "users"}

------------------------------------------------------------------------------
(* The pulls.                                                               *)

CacheGet(cache, key) == {e \in Range(cache) : e.key = key /\ now - e.at < CacheTtl}

(* A mutant of CacheSet: nothing is pruned.                                 *)
CacheGrows(cache, key, value) ==
  Append(Picked(cache, {i \in DOMAIN cache : cache[i].key # key}),
         [key |-> key, value |-> value, at |-> now])

(* entries.set, then prune: the expired ones, then the first to be inserted.*)
CacheSet(cache, key, value) ==
  LET e == [key |-> key, value |-> value, at |-> now]
      old == {i \in DOMAIN cache : cache[i].key = key}
      set == IF old = {} THEN Append(cache, e)
             ELSE [i \in DOMAIN cache |-> IF i \in old THEN e ELSE cache[i]]
      live == Picked(set, {i \in DOMAIN set : now - set[i].at < CacheTtl})
  IN IF Len(set) <= MaxEntries THEN set
     ELSE SubSeq(live, 1 + Max({0, Len(live) - MaxEntries}), Len(live))

(* get: an entry that has expired is deleted.                               *)
Fresh(cache, key) ==
  Picked(cache, {i \in DOMAIN cache : cache[i].key # key \/ now - cache[i].at < CacheTtl})

Going(c, key) == {p \in PullId : c.pulls[p] # Null /\ c.pulls[p].key = key}
Idle(c)       == {p \in PullId : c.pulls[p] = Null}
NewPull(key)  == [key |-> key, page |-> 1, rows |-> <<>>, deadline |-> now + Timeout,
                  until |-> UsageDay(now) + 1]

(* A mutant of SharedPull: only the cache is looked at.                     *)
PullEach(c, key) ==
  LET hit == CacheGet(c.done[key[1]], key)
      kept == [c.done EXCEPT ![key[1]] = Fresh(@, key)]
      p == CHOOSE q \in Idle(c) : TRUE
  IN IF hit # {} THEN [c |-> c, wait |-> {}, value |-> (CHOOSE e \in hit : TRUE).value]
     ELSE [c |-> [pulls |-> [c.pulls EXCEPT ![p] = NewPull(key)], done |-> kept],
           wait |-> {p}, value |-> <<>>]

(* What the caller gets: the value of the cache, or a pull to wait for.     *)
SharedPull(c, key) ==
  LET hit == CacheGet(c.done[key[1]], key)
      kept == [c.done EXCEPT ![key[1]] = Fresh(@, key)]
      going == Going(c, key)
      p == CHOOSE q \in IF going = {} THEN Idle(c) ELSE going : TRUE
      started == IF going = {} THEN [c.pulls EXCEPT ![p] = NewPull(key)] ELSE c.pulls
  IN IF hit # {} THEN [c |-> c, wait |-> {}, value |-> (CHOOSE e \in hit : TRUE).value]
     ELSE [c |-> [pulls |-> started, done |-> kept], wait |-> {p}, value |-> <<>>]

(* loadRows, and for the apps loadAliasMap: Promise.all waits for both.     *)
On(s) == s = "apps" \/ PerUser
Fetch(a, s, since) ==
  LET log  == SharedPull(a.c, <<"rows", since>>)
      keys == IF s = "apps" THEN SharedPull(log.c, <<"keys", 0>>)
              ELSE [c |-> log.c, wait |-> {}, value |-> <<>>]
      sec  == [a.secs[s] EXCEPT !.wait = log.wait \cup keys.wait,
                                !.log = log.value, !.keys = keys.value]
  IN IF ~ On(s) \/ ~ a.secs[s].ok THEN a ELSE [c |-> keys.c, secs |-> [a.secs EXCEPT ![s] = sec]]

(* What is listed now: every key, and the rows of a window in UTC days      *)
(* (shiftUtcDay widens the local ones).                                     *)
Source(kind) == IF kind = "rows" THEN Log ELSE Keys
UtcDay(i)    == Log[i].at \div Step
Listed(kind, days) ==
  Picked(Source(kind), {i \in DOMAIN Source(kind) :
                          Source(kind)[i].at <= now /\ (kind = "rows" => UtcDay(i) \in days)})

(* A mutant of Query: the days are not widened.                             *)
QueryNarrow(pull) == Listed(pull.key[1], pull.key[2]..pull.until)

Query(pull) == Listed(pull.key[1], (pull.key[2] - 1)..pull.until)
Pages(n, size) == (n + size - 1) \div size

(* A mutant of Keep: a failure is cached too.                               *)
KeepFailure(pull, ok, value) == [done EXCEPT ![pull.key[1]] = CacheSet(@, pull.key, value)]

Keep(pull, ok, value) ==
  IF ok THEN [done EXCEPT ![pull.key[1]] = CacheSet(@, pull.key, value)] ELSE done

(* A mutant of Heard: those that wait never hear of a failure.              *)
HeardSuccess(sec, p, ok, value) ==
  IF p \notin sec.wait \/ ~ ok THEN sec
  ELSE [sec EXCEPT !.wait = @ \ {p},
                   !.log  = IF pulls[p].key[1] = "rows" THEN value ELSE @,
                   !.keys = IF pulls[p].key[1] = "keys" THEN value ELSE @]

(* A pull ends: it leaves the map, a success enters the cache, and those    *)
(* that wait go on; one failure ends the wait for both.                     *)
Heard(sec, p, ok, value) ==
  IF p \notin sec.wait THEN sec
  ELSE IF ~ ok THEN [sec EXCEPT !.wait = {}, !.ok = FALSE, !.fails = @ + 1]
  ELSE [sec EXCEPT !.wait = @ \ {p},
                   !.log  = IF pulls[p].key[1] = "rows" THEN value ELSE @,
                   !.keys = IF pulls[p].key[1] = "keys" THEN value ELSE @]
Settle(p, ok, value) ==
  /\ pulls' = [pulls EXCEPT ![p] = Null]
  /\ done' = Keep(pulls[p], ok, value)
  /\ reqs' = [r \in Request |->
                [reqs[r] EXCEPT !.secs = [s \in Sections |-> Heard(@[s], p, ok, value)]]]

Page(p) ==
  LET pull == pulls[p]
      size == PageSize[pull.key[1]]
      q    == Query(pull)
      got  == pull.rows \o SubSeq(q, (pull.page - 1) * size + 1, Min({pull.page * size, Len(q)}))
  IN /\ now <= pull.deadline
     /\ IF pull.page < Pages(Len(q), size) /\ pull.page < MaxPages
        THEN /\ pulls' = [pulls EXCEPT ![p] = [pull EXCEPT !.page = @ + 1, !.rows = got]]
             /\ UNCHANGED <<done, reqs>>
        ELSE Settle(p, TRUE, got)

(* Any status but 2xx, no answer, or the deadline of the whole pull.        *)
Fail(p) == Settle(p, FALSE, <<>>)

Answer(p) ==
  /\ pulls[p] # Null
  /\ Page(p) \/ Fail(p)
  /\ UNCHANGED <<now, rows, users>>

------------------------------------------------------------------------------
(* The pages.  A section of a page waits for pulls, has rows and keys of    *)
(* the proxy, and counts the failed pulls it has waited for.                *)

Section == [wait |-> {}, log |-> <<>>, keys |-> <<>>, ok |-> TRUE, fails |-> 0,
            top |-> <<>>, counts |-> <<>>]
NoPage  == [pc |-> "idle", dash |-> FALSE, at |-> 0, llm |-> FALSE, warning |-> FALSE,
            secs |-> [s \in Sections |-> Section],
            totals |-> [s \in Sections |-> <<>>], cards |-> [s \in Sections |-> <<>>]]

RankSince(r) == HeatmapSinceDay(reqs[r].at, RankDays)
HeatSince(r) == HeatmapSinceDay(reqs[r].at, HeatDays)
(* The dashboard loads the wider window, a fragment of one card its own.    *)
LoadSince(dash, at) ==
  Min({HeatmapSinceDay(at, HeatDays)} \cup IF dash THEN {HeatmapSinceDay(at, RankDays)} ELSE {})
(* Whose a row is, as far as the keys that were read tell.                  *)
AliasOf(keys, token) ==
  LET of == {e \in keys : e.token = token} IN IF of = {} THEN Null ELSE (CHOOSE e \in of : TRUE).alias
Key(s, row, keys) == IF s = "apps" THEN AliasOf(keys, row.key) ELSE row.user
KeysOf(s, log, keys) == [i \in DOMAIN log |-> Key(s, log[i], keys)]
SectionTotals(s, sec, since) == AllTotals(sec.log, KeysOf(s, sec.log, Range(sec.keys)), since)
By(s)        == IF s = "apps" THEN "app_key" ELSE "user_id"
Waiting(r)   == \E s \in Sections : reqs[r].secs[s].wait # {}

InFlight(secs) == [c |-> [pulls |-> pulls, done |-> done], secs |-> secs]
Ask(r, since, q) ==
  LET a == Fetch(Fetch(InFlight(q.secs), "apps", since), "users", since)
  IN /\ pulls' = a.c.pulls /\ done' = a.c.done
     /\ reqs' = [reqs EXCEPT ![r] = [q EXCEPT !.secs = a.secs]]

Quiet      == \A r \in Request : reqs[r].pc = "idle"
CanOpen(r) ==
  /\ reqs[r].pc = "idle" /\ now <= Horizon
  /\ \A q \in Request : q < r => reqs[q].pc # "idle"
  /\ <<{<<Get(d, "user_id"), Get(d, "app_key")>> : d \in Range(rows)}, users>> \in Served

(* buildDashboard up to its first await: GET /dashboard, /dashboard/llm.    *)
Open(r, llm) ==
  LET q == [NoPage EXCEPT !.pc = "totals", !.dash = TRUE, !.at = now, !.llm = llm] IN
  /\ CanOpen(r)
  /\ IF llm THEN Ask(r, LoadSince(TRUE, now), q)
     ELSE reqs' = [reqs EXCEPT ![r] = q] /\ UNCHANGED <<pulls, done>>
  /\ UNCHANGED <<now, rows, users>>

(* The fragment of one app or one user: buildActivity of its only card.     *)
OpenCard(r, s, x, llm) ==
  /\ CanOpen(r)
  /\ s = "users" => x \in users
  /\ reqs' = [reqs EXCEPT ![r] =
       [NoPage EXCEPT !.pc = "counts", !.at = now, !.llm = llm,
                      !.secs = [@ EXCEPT ![s].top = <<[key |-> x, active |-> 0, llmKey |-> x]>>]]]
  /\ UNCHANGED <<now, rows, users, pulls, done>>

(* A mutant of TotalsArrive: a section that is down is asked again.         *)
TotalsForgotten(r) ==
  /\ reqs[r].pc = "totals" /\ ~ Waiting(r)
  /\ LET q == reqs[r]
         T(s) == IF q.llm /\ On(s) /\ q.secs[s].ok
                 THEN SectionTotals(s, q.secs[s], RankSince(r)) ELSE <<>>
     IN reqs' = [reqs EXCEPT ![r] =
          [q EXCEPT !.pc = "rank", !.totals = [s \in Sections |-> T(s)],
                    !.secs = [s \in Sections |-> [@[s] EXCEPT !.log = <<>>, !.keys = <<>>, !.ok = TRUE]]]]
  /\ UNCHANGED <<now, rows, users, pulls, done>>

TotalsArrive(r) ==
  /\ reqs[r].pc = "totals" /\ ~ Waiting(r)
  /\ LET q == reqs[r]
         T(s) == IF q.llm /\ On(s) /\ q.secs[s].ok
                 THEN SectionTotals(s, q.secs[s], RankSince(r)) ELSE <<>>
     IN reqs' = [reqs EXCEPT ![r] = [q EXCEPT
          !.pc = "rank", !.totals = [s \in Sections |-> T(s)],
          !.secs = [s \in Sections |-> [@[s] EXCEPT !.log = <<>>, !.keys = <<>>]],
          !.warning = \E s \in Sections : ~ q.secs[s].ok]]
  /\ UNCHANGED <<now, rows, users, pulls, done>>

Rank(r) ==
  /\ reqs[r].pc = "rank"
  /\ LET q == reqs[r]
         top(s) == IF s = "apps" THEN TopAppsByActivity(rows, RankSince(r), TopLimit, q.totals[s])
                   ELSE TopUsersByActivity(rows, users, RankSince(r), TopLimit, q.totals[s])
     IN reqs' = [reqs EXCEPT ![r] =
          [q EXCEPT !.pc = "counts", !.totals = NoPage.totals,
                    !.secs = [s \in Sections |-> [@[s] EXCEPT !.top = top(s)]]]]
  /\ UNCHANGED <<now, rows, users, pulls, done>>

(* The counts of the cards; then the overlays are asked for, at once, by    *)
(* the sections that have cards and are not down.                           *)
Counts(r) ==
  LET q == reqs[r]
      counted == [s \in Sections |->
        [q.secs[s] EXCEPT !.counts = [i \in DOMAIN q.secs[s].top |->
           DailyCounts(rows, By(s), q.secs[s].top[i].key, HeatSince(r))]]]
      Asked(x, s) == IF q.secs[s].top = <<>> THEN x ELSE Fetch(x, s, LoadSince(q.dash, q.at))
      a == Asked(Asked(InFlight(counted), "apps"), "users")
  IN /\ q.pc = "counts"
     /\ pulls' = IF q.llm THEN a.c.pulls ELSE pulls
     /\ done'  = IF q.llm THEN a.c.done ELSE done
     /\ reqs'  = [reqs EXCEPT ![r] = [q EXCEPT !.pc = "overlay",
                                        !.secs = IF q.llm THEN a.secs ELSE counted]]
     /\ UNCHANGED <<now, rows, users>>

Daily(r, s, i) ==
  LET q == reqs[r] IN
  IF q.llm /\ On(s) /\ q.secs[s].ok
  THEN LET log == q.secs[s].log
           mine == {j \in DOMAIN log :
                      Key(s, log[j], Range(q.secs[s].keys)) = q.secs[s].top[i].llmKey}
       IN FetchDaily(log, mine, HeatSince(r))
  ELSE Null

Cards(r, s) ==
  LET sec   == reqs[r].secs[s]
      daily == [i \in DOMAIN sec.top |-> Daily(r, s, i)]
      Card(i) == [key |-> sec.top[i].key, scoreFull |-> SumCounts(sec.counts[i]),
                  heatmap |-> BuildHeatmap(sec.counts[i], reqs[r].at, HeatDays, MaxCount(sec.counts),
                                           daily[i], LlmPeaks(daily)),
                  llm |-> LlmScore(daily[i], RankSince(r), HeatSince(r))]
  IN [i \in DOMAIN sec.top |-> Card(i)]

Render(r) ==
  /\ reqs[r].pc = "overlay" /\ ~ Waiting(r)
  /\ LET q == reqs[r] IN
     reqs' = [reqs EXCEPT ![r] =
       [q EXCEPT !.pc = "done", !.cards = [s \in Sections |-> Cards(r, s)],
                 !.secs = [s \in Sections |-> [Section EXCEPT !.fails = q.secs[s].fails]],
                 !.warning = q.warning \/ \E s \in Sections : ~ q.secs[s].ok]]
  /\ UNCHANGED <<now, rows, users, pulls, done>>

Serve(r) == TotalsArrive(r) \/ Rank(r) \/ Counts(r) \/ Render(r)

------------------------------------------------------------------------------
(* The rest of the system: time, and usage, which stands still while a page *)
(* is open.  A use may be recorded of a user who is just deleted.           *)

Advance ==
  /\ now' \in {t \in Clock : t > now /\ \A x \in Clock : x > now => t <= x}
  /\ Quiet \/ now' <= Horizon
  /\ UNCHANGED <<rows, users, pulls, done, reqs>>

RecordUse(u, a) ==
  /\ rows' = Update(rows, UsageColumns, {"user_id", "app_key", "day"},
                    <<Is("user_id", u), Is("app_key", a), Is("day", UsageDay(now))>>,
                    <<Set("last_at", One(now))>>, FALSE, TRUE).rows
  /\ Quiet /\ Len(rows') <= MaxRows
  /\ UNCHANGED <<now, users, pulls, done, reqs>>

DeleteUser(u) ==
  /\ Quiet /\ u \in users
  /\ users' = users \ {u}
  /\ UNCHANGED <<now, rows, pulls, done, reqs>>
DropUsage(u) ==
  /\ Quiet /\ u \notin users
  /\ rows' = Delete(rows, UsageColumns, <<Is("user_id", u)>>, TRUE)
  /\ UNCHANGED <<now, users, pulls, done, reqs>>

Init ==
  /\ now = Min(Clock) /\ rows = <<>> /\ users = User
  /\ pulls = [p \in PullId |-> Null] /\ done = [k \in Kinds |-> <<>>]
  /\ reqs = [r \in Request |-> NoPage]

Next ==
  \/ Advance
  \/ \E u \in User : DeleteUser(u) \/ DropUsage(u) \/ \E a \in App : RecordUse(u, a)
  \/ \E p \in PullId : Answer(p)
  \/ \E r \in Request :
       \/ Serve(r)
       \/ \E w \in Wanted : w.of = "all" /\ Open(r, w.llm)
       \/ \E w \in Wanted : w.of \in Sections /\ OpenCard(r, w.of, w.key, w.llm)

(* The handlers run, and the abort timer of a pull ends it if nothing else  *)
(* does: WF_vars(Serve(r)) and WF_vars(Answer(p)), written out (a request   *)
(* that can go on moves its pc, a pull that is answered changes), because   *)
(* TLC cannot evaluate their ENABLED in a reasonable time.                  *)
CanServe(r) ==
  reqs[r].pc \in {"rank", "counts"} \/ (reqs[r].pc \in {"totals", "overlay"} /\ ~ Waiting(r))
Fairness ==
  /\ \A r \in Request : []<>(~ CanServe(r)) \/ []<><<reqs'[r].pc # reqs[r].pc>>_vars
  /\ \A p \in PullId : []<>(pulls[p] = Null) \/ []<><<pulls'[p] # pulls[p]>>_vars
Spec == Init /\ [][Next]_vars /\ Fairness

------------------------------------------------------------------------------
(* Properties.                                                              *)

(* Nobody waits for a pull that has ended: nothing would ever wake him.     *)
WaitsInFlight ==
  \A r \in Request : \A s \in Sections :
    \A p \in reqs[r].secs[s].wait : p \in PullId /\ pulls[p] # Null

(* Every pull has a deadline and a page within the cap, every request waits *)
(* for pulls in flight only, and no cache outgrows its capacity.            *)
DashboardTypeOK ==
  /\ now \in Clock /\ users \subseteq User /\ Len(rows) <= MaxRows
  /\ \A p \in PullId : pulls[p] # Null => pulls[p].page \in 1..MaxPages
  /\ \A k \in Kinds : Len(done[k]) <= MaxEntries
  /\ WaitsInFlight

(* llm.ts: "all await one pull instead of each paginating the proxy         *)
(* independently": whoever asks, no two pulls of a key are in flight.       *)
PullsAreShared ==
  \A p, q \in PullId : pulls[p] # Null /\ pulls[q] # Null /\ pulls[p].key = pulls[q].key => p = q

(* What a pull is sure to have read that began at `from` or later and has   *)
(* ended by t: what was there when it began and is listed by t before the   *)
(* end of its last page.                                                    *)
Sought(kind, since) == {i \in DOMAIN Source(kind) : kind = "rows" => UtcDay(i) >= since - 1}
Place(kind, since, t, i) ==
  Cardinality({j \in Sought(kind, since) : j <= i /\ Source(kind)[j].at <= t})
Sure(kind, since, from, t) ==
  {i \in Sought(kind, since) : Source(kind)[i].at <= from
                              /\ Place(kind, since, t, i) <= MaxPages * PageSize[kind]}

(* "only a successful pull enters the cache": an entry holds what the pull  *)
(* was sure to read, nothing that was not there yet, and never the empty    *)
(* hands of a failed pull.                                                  *)
CacheHoldsPulls ==
  \A kind \in Kinds : \A e \in Range(done[kind]) :
    LET since == e.key[2] IN
    /\ {Source(kind)[i] : i \in Sure(kind, since, e.at - Timeout, e.at)} \subseteq Range(e.value)
    /\ Range(e.value) \subseteq {Source(kind)[i] : i \in {j \in Sought(kind, since) : Source(kind)[j].at <= e.at}}

(* admin.ts: "re-fetching it for the overlay below would incur a *second*   *)
(* timeout in the same request": a section waits out one failure at most.   *)
SectionFailsOnce == \A r \in Request : \A s \in Sections : reqs[r].secs[s].fails <= 1

(* A page without a warning counts, on every card, each row of the window   *)
(* that the oldest pulls it may have used were sure to read, of a key that  *)
(* they were sure to read; only what lies past LLM_PROXY_MAX_PAGES, of the  *)
(* rows or of the keys, is missing without a word.  Unless the log grew     *)
(* meanwhile (a row that moves to the next page is counted again) it counts *)
(* no more than there is.  A failure takes the overlay, never the activity. *)
OldestPull(q) == q.at - CacheTtl - Timeout
Needed(q, s, k) ==
  LET keys == {Keys[i] : i \in Sure("keys", 0, OldestPull(q), now)} IN
  {i \in Sure("rows", LoadSince(q.dash, q.at), OldestPull(q), now) :
     UsageDay(Log[i].at) >= HeatmapSinceDay(q.at, HeatDays) /\ Key(s, Log[i], keys) = k}
Allowed(q, s, k) ==
  {i \in DOMAIN Log : /\ Log[i].at <= now /\ UsageDay(Log[i].at) >= HeatmapSinceDay(q.at, HeatDays)
                      /\ Key(s, Log[i], Range(Keys)) = k}
StoodStill(q) ==
  \A i \in Sought("rows", LoadSince(q.dash, q.at)) : Log[i].at \notin (OldestPull(q) + 1)..now
NoSilentLoss ==
  \A r \in Request : \A s \in Sections : \A i \in DOMAIN reqs[r].cards[s] :
    LET q == reqs[r]  card == q.cards[s][i]
        least == SumOf([j \in Needed(q, s, card.key) |-> Log[j].spend])
        most  == SumOf([j \in Allowed(q, s, card.key) |-> Log[j].spend])
        shown == IF card.llm = Null THEN 0 ELSE card.llm.full.spend
    IN /\ q.llm /\ On(s) /\ ~ q.warning => shown >= least
       /\ StoodStill(q) => shown <= most

(* The ranking, of any rows and any totals of the proxy: a candidate that   *)
(* is ahead in all three measures is ahead in the list, and what the proxy  *)
(* says of keys that are no candidates changes nothing.                     *)
Totals(t) == LET log == Picked(Log, {i \in DOMAIN Log : Log[i].at <= t}) IN
             AllTotals(log, KeysOf("apps", log, Range(Keys)), 0)
RankingIsFair ==
  LET apps   == Active(rows, 0, "app_key")
      totals == Totals(now)
      mine   == {e.key : e \in Range(apps)} \cap DOMAIN totals
      ranked == RankByActivity(apps, Len(apps), totals)
      Of(e)  == IF e.key \in mine THEN totals[e.key] ELSE [spend |-> 0, tokens |-> 0]
  IN Quiet =>
     /\ \A i, j \in DOMAIN ranked :
          LET e == ranked[i]  f == ranked[j] IN
          /\ e.active > f.active /\ Of(e).spend >= Of(f).spend /\ Of(e).tokens >= Of(f).tokens
          => i < j
     /\ ranked = RankByActivity(apps, Len(apps), [k \in mine |-> totals[k]])

(* The lists of users are as full as they can be, of users that exist: the  *)
(* dashboard's drops the deleted before it cuts, and that of an app, which  *)
(* cuts first, is short by no more than the deleted who still have rows.    *)
TopListsAreFull ==
  LET active(filter) == {Get(d, "user_id") : d \in Range(Usage(rows, filter))}
      top == TopUsersByActivity(rows, users, 0, TopLimit, <<>>)
  IN Quiet =>
     /\ {e.key : e \in Range(top)} \subseteq users
     /\ Len(top) = Min({TopLimit, Cardinality(active(<<>>) \cap users)})
     /\ \A a \in App :
          LET used == active(<<Is("app_key", a)>>) IN
          Len(TopUsersForApp(rows, users, a, TopLimit))
            >= Min({TopLimit, Cardinality(used)}) - Cardinality(used \ users)

(* usage.ts: "a trailing window of exactly `days` days INCLUDING today",    *)
(* "each inner array is one week column, Mon..Sun".  The grid begins at the *)
(* cutoff, ends today, draws no day twice and is whole weeks.  When the     *)
(* days behind today were of 24 hours, today among them so far, it draws    *)
(* exactly `days` days, each in the row of its weekday, and all the usage   *)
(* since the cutoff.                                                        *)
Ordinary(days) ==
  LET today == UsageDay(now) IN
  /\ now < Midnight[today] + Step
  /\ \A i \in 0..(days - 1) : today - i \in DOMAIN Midnight /\ Midnight[today - i] = Midnight[today] - i * Step
WindowIsDrawn(days, a) ==
  LET since  == HeatmapSinceDay(now, days)
      counts == DailyCounts(rows, "app_key", a, since)
      grid   == BuildHeatmap(counts, now, days, 0, Null, [spend |-> 0, tokens |-> 0])
      drawn  == Picked(grid, {i \in DOMAIN grid : grid[i].day # Null})
  IN /\ drawn[1].day = since /\ Last(drawn).day = UsageDay(now) /\ Len(grid) % 7 = 0
     /\ \A i \in DOMAIN drawn : i > 1 => drawn[i - 1].day < drawn[i].day
     /\ Ordinary(days) =>
          /\ Len(drawn) = days
          /\ \A i \in DOMAIN grid : grid[i].day # Null => (i - 1) % 7 = WeekdayOf(grid[i].day)
          /\ SumCounts(counts) = SumOf([i \in DOMAIN drawn |-> drawn[i].count])
HeatmapDrawsWindow == Quiet => \A days \in 1..HeatDays, a \in App : WindowIsDrawn(days, a)

(* Every page that is opened is answered, whatever the proxy does: "they    *)
(* answer with a status even on an unexpected error" (admin.ts).            *)
EveryPageAnswers == \A r \in Request : reqs[r].pc # "idle" ~> reqs[r].pc = "done"
==============================================================================
