------------------------------ MODULE Activity ------------------------------
(***************************************************************************)
(* The read side of the usage statistics, as operators: the days, rankings  *)
(* and heatmaps of src/src/usage.ts, the sums of src/src/llm.ts and what    *)
(* src/src/routes/admin.ts makes of them.                                   *)
(*                                                                          *)
(* Time is an integer and Step of it are 24 hours.  The days are numbered;  *)
(* day d begins in UTC at d * Step and in the portal's timezone at          *)
(* Midnight[d], so that a day of 23 or 25 hours is one that is not Step     *)
(* long.  Logarithms and scores are in thousandths, spend is in cents.      *)
(***************************************************************************)
EXTENDS Documents

CONSTANTS
  Step,
  Midnight,   \* the local midnights, a sequence
  Ln,         \* logarithms of 1, 2, ... in thousandths, a sequence
  BoostMax, CostShare,   \* LLM_BOOST_MAX and LLM_BOOST_COST_SHARE, in tenths
  MinScaleMax            \* MIN_SCALE_MAX

ASSUME ActivityAssumption ==
  /\ Step \in Nat \ {0} /\ BoostMax \in Nat /\ CostShare \in 0..10 /\ MinScaleMax \in Nat
  /\ Midnight \in Seq(Int) /\ Ln \in Seq(Nat) /\ Null \notin Int
  /\ \A d \in DOMAIN Midnight : d > 1 => Midnight[d - 1] < Midnight[d]
  /\ Ln[1] = 0 /\ \A i \in DOMAIN Ln : i > 1 => Ln[i - 1] < Ln[i]

UsageDay(t) == Cardinality({d \in DOMAIN Midnight : Midnight[d] <= t})

(* A mutant of HeatmapSinceDay: `days` days back, one too many.             *)
SinceDayTooFar(now, days) == UsageDay(now - days * Step)

HeatmapSinceDay(now, days) == UsageDay(now - (days - 1) * Step)

------------------------------------------------------------------------------
(* The sums of spend logs.  A row is [at, key, user, spend, tokens]; a      *)
(* total is [spend, tokens]; daily usage maps days to totals; "of" and      *)
(* "mine" are places in the log, and key[i] is whose row i is, or Null.     *)

Total(log, of) ==
  [spend  |-> SumOf([i \in of |-> log[i].spend]),
   tokens |-> SumOf([i \in of |-> log[i].tokens])]

Bucket(log, mine, since) ==
  [d \in {x \in {UsageDay(log[i].at) : i \in mine} : x >= since} |->
     Total(log, {i \in mine : UsageDay(log[i].at) = d})]

FetchDaily(log, mine, since) ==
  LET daily == Bucket(log, mine, since) IN IF DOMAIN daily = {} THEN Null ELSE daily

AllTotals(log, key, since) ==
  LET within == {i \in DOMAIN log : UsageDay(log[i].at) >= since /\ key[i] # Null}
  IN [k \in {key[i] : i \in within} |-> Total(log, {i \in within : key[i] = k})]

SumWindow(daily, since) ==
  LET days == {d \in DOMAIN daily : d >= since} IN
  [spend  |-> SumOf([d \in days |-> daily[d].spend]),
   tokens |-> SumOf([d \in days |-> daily[d].tokens])]

LlmScore(daily, recentSince, fullSince) ==
  IF daily = Null THEN Null
  ELSE [recent |-> SumWindow(daily, recentSince), full |-> SumWindow(daily, fullSince)]

MaxOrZero(xs) == IF xs = {} THEN 0 ELSE Max(xs)
LlmPeaks(cards) ==
  LET on == {i \in DOMAIN cards : cards[i] # Null}
      totals == UNION {Range(cards[i]) : i \in on}
  IN [spend  |-> MaxOrZero({x.spend : x \in totals}),
      tokens |-> MaxOrZero({x.tokens : x \in totals})]

------------------------------------------------------------------------------
(* Ranking.  A candidate is [key, active, llmKey].                          *)

LogNorm(value, peak) ==
  IF value <= 0 THEN 0
  ELSE IF peak <= 1 \/ value >= peak THEN 1000
  ELSE (1000 * Ln[value]) \div Ln[peak]

CompositeBoost(x, peak) ==
  (BoostMax * (CostShare * LogNorm(x.spend, peak.spend)
               + (10 - CostShare) * LogNorm(x.tokens, peak.tokens))) \div 100

(* A mutant of Peaks: over every key of the proxy, candidate or not.        *)
PeaksOverAll(entities, totals) ==
  [active |-> MaxOrZero({e.active : e \in Range(entities)}),
   spend  |-> MaxOrZero({totals[k].spend : k \in DOMAIN totals}),
   tokens |-> MaxOrZero({totals[k].tokens : k \in DOMAIN totals})]

Peaks(entities, totals) ==
  LET boosted == {e.llmKey : e \in Range(entities)} \cap DOMAIN totals IN
  [active |-> MaxOrZero({e.active : e \in Range(entities)}),
   spend  |-> MaxOrZero({totals[k].spend : k \in boosted}),
   tokens |-> MaxOrZero({totals[k].tokens : k \in boosted})]

Score(e, peak, totals) ==
  LogNorm(e.active, peak.active)
  + (IF e.llmKey \in DOMAIN totals THEN CompositeBoost(totals[e.llmKey], peak) ELSE 0)

RankByActivity(entities, limit, totals) ==
  LET peak == Peaks(entities, totals)
      S(e) == Score(e, peak, totals)
      Before(e, f) == \/ S(e) > S(f)
                      \/ S(e) = S(f) /\ e.active > f.active
                      \/ S(e) = S(f) /\ e.active = f.active /\ e.key < f.key
  IN Limit(StableSort(entities, Before), limit)

------------------------------------------------------------------------------
(* The reads of usage_daily.  A row has user_id, app_key, day and last_at.  *)

UsageColumns == {"_id", "user_id", "app_key", "day"}
Usage(rows, filter) == SelectMatching(rows, UsageColumns, filter)
Since(day)          == Clause(<<"day">>, "gte", day)

Top(rows, filter, by, limit) ==
  Limit(SortDocs(GroupStage(Usage(rows, filter), by, "last_at"),
                 <<[field |-> "n", dir |-> -1], [field |-> "last", dir |-> -1]>>), limit)

TopAppsForUser(rows, u, limit) == Top(rows, <<Is("user_id", u)>>, "app_key", limit)
TopUsersForApp(rows, users, a, limit) ==
  LET top == Top(rows, <<Is("app_key", a)>>, "user_id", limit)
  IN Picked(top, {i \in DOMAIN top : Get(top[i], "_id") \in users})

Active(rows, since, by) ==
  LET groups == GroupStage(Usage(rows, <<Since(since)>>), by, "last_at")
      Candidate(g) == [key |-> Get(g, "_id"), llmKey |-> Get(g, "_id"), active |-> Get(g, "n")]
  IN [i \in DOMAIN groups |-> Candidate(groups[i])]

TopAppsByActivity(rows, since, limit, totals) ==
  RankByActivity(Active(rows, since, "app_key"), limit, totals)

Existing(entities, users) ==
  Picked(entities, {i \in DOMAIN entities : entities[i].key \in users})

(* A mutant of TopUsersByActivity: the deleted users are dropped last.      *)
CutBeforeDrop(rows, users, since, limit, totals) ==
  Existing(RankByActivity(Active(rows, since, "user_id"), limit, totals), users)

TopUsersByActivity(rows, users, since, limit, totals) ==
  RankByActivity(Existing(Active(rows, since, "user_id"), users), limit, totals)

DailyCounts(rows, by, x, since) ==
  LET groups == GroupStage(Usage(rows, <<Is(by, x), Since(since)>>), "day", "last_at")
  IN [d \in {Get(g, "_id") : g \in Range(groups)} |->
        Get(CHOOSE g \in Range(groups) : Get(g, "_id") = d, "n")]

SumCounts(counts) == SumOf(counts)
MaxCount(cards)   == MaxOrZero(UNION {Range(cards[i]) : i \in DOMAIN cards})

------------------------------------------------------------------------------
(* The heatmap: the days of the window, padded to weeks of Monday to Sunday *)
(* (day 0 is a Monday).                                                     *)

Labels(now, days) == Ascending({UsageDay(now - i * Step) : i \in 0..(days - 1)})

WeekdayOf(d)         == d % 7
Intensity(n, scale)  == (LogNorm(n, scale) + 5) \div 10
At(counts, d)        == IF d \in DOMAIN counts THEN counts[d] ELSE 0
Padding(n)           == [i \in 1..n |-> [day |-> Null, count |-> 0, intensity |-> 0, llm |-> Null]]

BuildHeatmap(counts, now, days, scaleMax, daily, peak) ==
  LET labels == Labels(now, days)
      scale  == Max({scaleMax, MinScaleMax})
      Shade(x) == [spend |-> Intensity(x.spend, Max({peak.spend, MinScaleMax})),
                   tokens |-> Intensity(x.tokens, Max({peak.tokens, MinScaleMax}))]
      Cell(d) == [day |-> d, count |-> At(counts, d), intensity |-> Intensity(At(counts, d), scale),
                  llm |-> IF daily = Null THEN Null
                          ELSE IF d \in DOMAIN daily THEN Shade(daily[d]) ELSE Null]
      cells == Padding(WeekdayOf(labels[1])) \o [i \in DOMAIN labels |-> Cell(labels[i])]
  IN cells \o Padding((-Len(cells)) % 7)
==============================================================================
