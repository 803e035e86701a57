-------------------------- MODULE DashboardProofs --------------------------
(***************************************************************************)
(* Proofs about Dashboard: a key has one pull in flight, a section of a     *)
(* page waits out one failure, what is waited for is in flight, and the     *)
(* caches hold whole pulls; what the rankings, the lists of users and the   *)
(* heatmaps show of any usage; and that no page loses a row of the proxy    *)
(* without a word.                                                          *)
(***************************************************************************)
EXTENDS Dashboard, CollectionsProofs

PullFields    == {"key", "page", "rows", "deadline", "until"}
SectionFields == {"wait", "log", "keys", "ok", "fails", "top", "counts"}
PageFields    == {"pc", "dash", "at", "llm", "warning", "secs", "totals", "cards"}

Flights(P) == {p \in PullId : P[p] # Null}

(* One pull of a key.                                                       *)
Shared(P) ==
  /\ DOMAIN P = PullId
  /\ \A p \in PullId : P[p] # Null => DOMAIN P[p] = PullFields
  /\ \A p, q \in PullId : P[p] # Null /\ P[q] # Null /\ P[p].key = P[q].key => p = q

(* A section counts no failure before it is down, and waits for nothing     *)
(* afterwards.                                                              *)
SectionInv(sec) ==
  /\ DOMAIN sec = SectionFields
  /\ sec.ok \in BOOLEAN /\ sec.fails \in {0, 1}
  /\ sec.wait # {} => sec.ok /\ sec.fails = 0

Sound(sec) == sec.ok => sec.fails = 0
SectionsInv(secs) == DOMAIN secs = Sections /\ \A s \in Sections : SectionInv(secs[s])
PageInv(q) ==
  /\ DOMAIN q = PageFields /\ SectionsInv(q.secs)
  /\ q.pc # "done" => \A s \in Sections : Sound(q.secs[s])
  /\ q.pc = "done" => \A s \in Sections : q.secs[s].wait = {}

DashInv ==
  /\ Shared(pulls)
  /\ DOMAIN reqs = Request
  /\ \A r \in Request : PageInv(reqs[r])

------------------------------------------------------------------------------
(* A shared pull: one that is in flight is joined, so a second of its key   *)
(* is not begun.                                                            *)
LEMMA SharedPullShares ==
  ASSUME NEW P, NEW D, NEW key, Shared(P)
  PROVE  Shared(SharedPull([pulls |-> P, done |-> D], key).c.pulls)
<1> DEFINE c == [pulls |-> P, done |-> D]
           hit == CacheGet(D[key[1]], key)
           kept == [D EXCEPT ![key[1]] = Fresh(@, key)]
           going == Going(c, key)
           p == CHOOSE q \in IF going = {} THEN Idle(c) ELSE going : TRUE
           started == IF going = {} THEN [P EXCEPT ![p] = NewPull(key)] ELSE P
<1>1. SharedPull(c, key) = IF hit # {} THEN [c |-> c, wait |-> {}, value |-> (CHOOSE e \in hit : TRUE).value]
                           ELSE [c |-> [pulls |-> started, done |-> kept], wait |-> {p}, value |-> <<>>]
  BY DEF SharedPull
<1>2. going = {q \in PullId : P[q] # Null /\ P[q].key = key}
  BY DEF Going
<1>3. ASSUME going = {} PROVE Shared([P EXCEPT ![p] = NewPull(key)])
  <2> HIDE DEF p
  <2>1. \A q \in PullId : P[q] # Null => P[q].key # key
    BY <1>2, <1>3
  <2>2. DOMAIN NewPull(key) = PullFields /\ NewPull(key).key = key
    BY DEF NewPull, PullFields
  <2> QED BY <2>1, <2>2 DEF Shared
<1>4. Shared(started)
  BY <1>3
<1>5. SharedPull(c, key).c.pulls \in {P, started}
  <2> HIDE DEF started, kept, p, hit
  <2> QED BY <1>1
<1> QED BY <1>4, <1>5

(* What a handler carries from one pull that it asks for to the next.       *)
Carrier(c) == c = [pulls |-> c.pulls, done |-> c.done] /\ Shared(c.pulls)

LEMMA SharedPullCarries ==
  ASSUME NEW c, NEW key, Carrier(c)
  PROVE  Carrier(SharedPull(c, key).c)
<1>1. c = [pulls |-> c.pulls, done |-> c.done] /\ Shared(c.pulls)
  BY DEF Carrier
<1>2. Shared(SharedPull([pulls |-> c.pulls, done |-> c.done], key).c.pulls)
  BY <1>1, SharedPullShares
<1>3. Shared(SharedPull(c, key).c.pulls)
  BY <1>1, <1>2
<1>4. SharedPull(c, key).c = [pulls |-> SharedPull(c, key).c.pulls, done |-> SharedPull(c, key).c.done]
  BY <1>1 DEF SharedPull
<1> QED BY <1>3, <1>4 DEF Carrier

(* A section that is not down asks for its pulls.                           *)
LEMMA FetchKeeps ==
  ASSUME NEW a, NEW s \in Sections, NEW since,
         a = [c |-> a.c, secs |-> a.secs],
         Carrier(a.c), SectionsInv(a.secs), \A t \in Sections : Sound(a.secs[t])
  PROVE  LET b == Fetch(a, s, since) IN
         /\ b = [c |-> b.c, secs |-> b.secs]
         /\ Carrier(b.c) /\ SectionsInv(b.secs) /\ \A t \in Sections : Sound(b.secs[t])
<1> DEFINE log   == SharedPull(a.c, <<"rows", since>>)
           alias == IF s = "apps" THEN SharedPull(log.c, <<"keys", 0>>) ELSE [c |-> log.c, wait |-> {}, value |-> <<>>]
           sec   == [a.secs[s] EXCEPT !.wait = log.wait \cup alias.wait, !.log = log.value, !.keys = alias.value]
           asked == [c |-> alias.c, secs |-> [a.secs EXCEPT ![s] = sec]]
<1>1. Fetch(a, s, since) = IF ~ On(s) \/ ~ a.secs[s].ok THEN a ELSE asked
  BY DEF Fetch
<1>2. CASE ~ On(s) \/ ~ a.secs[s].ok
  <2>1. Fetch(a, s, since) = a
    BY <1>1, <1>2
  <2> QED BY <2>1
<1>3. CASE ~ (~ On(s) \/ ~ a.secs[s].ok)
  <2>1. Carrier(log.c)
    BY SharedPullCarries
  <2>2. Carrier(alias.c)
    <3>1. Carrier(SharedPull(log.c, <<"keys", 0>>).c)
      BY <2>1, SharedPullCarries
    <3> QED BY <2>1, <3>1
  <2> DEFINE W == log.wait \cup alias.wait
             L == log.value
             K == alias.value
  <2>3. sec = [a.secs[s] EXCEPT !.wait = W, !.log = L, !.keys = K]
    OBVIOUS
  <2> HIDE DEF log, alias
  <2>4. a.secs[s].ok = TRUE
    BY <1>3 DEF SectionsInv, SectionInv
  <2>5. DOMAIN a.secs[s] = SectionFields /\ a.secs[s].fails \in {0, 1} /\ DOMAIN a.secs = Sections
    BY DEF SectionsInv, SectionInv
  <2>6. a.secs[s].fails = 0
    BY <2>4 DEF Sound
  <2>7. DOMAIN sec = SectionFields /\ sec.ok = TRUE /\ sec.fails = 0
    <3> HIDE DEF W, L, K
    <3> QED BY <2>3, <2>4, <2>5, <2>6 DEF SectionFields
  <2>8. SectionInv(sec) /\ Sound(sec)
    BY <2>7 DEF SectionInv, Sound
  <2>9. Fetch(a, s, since) = asked
    BY <1>1, <1>3
  <2> HIDE DEF sec
  <2>10. SectionsInv([a.secs EXCEPT ![s] = sec]) /\ \A t \in Sections : Sound([a.secs EXCEPT ![s] = sec][t])
    BY <2>5, <2>8 DEF SectionsInv
  <2> QED BY <2>2, <2>9, <2>10
<1> QED BY <1>2, <1>3

LEMMA InFlightCarries ==
  ASSUME DashInv, NEW secs, SectionsInv(secs), \A t \in Sections : Sound(secs[t])
  PROVE  LET a == InFlight(secs) IN
         /\ a = [c |-> a.c, secs |-> a.secs]
         /\ Carrier(a.c) /\ SectionsInv(a.secs) /\ \A t \in Sections : Sound(a.secs[t])
  BY DEF InFlight, Carrier, DashInv

(* What a page does to itself does nothing to the others.                   *)
LEMMA OnePageMoves ==
  ASSUME DashInv, NEW r \in Request, NEW q, PageInv(q), reqs' = [reqs EXCEPT ![r] = q],
         Shared(pulls')
  PROVE  DashInv'
<1>1. DOMAIN reqs' = Request /\ \A x \in Request : PageInv(reqs'[x])
  BY DEF DashInv
<1> QED BY <1>1 DEF DashInv, PageInv, SectionsInv, SectionInv, Sound, Shared

------------------------------------------------------------------------------
(* The steps of a page.                                                     *)

LEMMA AskKeeps ==
  ASSUME DashInv, NEW r \in Request, NEW since, NEW q, PageInv(q), q.pc # "done", Ask(r, since, q)
  PROVE  DashInv'
<1> DEFINE a0 == InFlight(q.secs)
           a1 == Fetch(a0, "apps", since)
           a2 == Fetch(a1, "users", since)
<1>1. SectionsInv(q.secs) /\ \A t \in Sections : Sound(q.secs[t])
  BY DEF PageInv
<1>2. /\ a0 = [c |-> a0.c, secs |-> a0.secs]
      /\ Carrier(a0.c) /\ SectionsInv(a0.secs) /\ \A t \in Sections : Sound(a0.secs[t])
  BY <1>1, InFlightCarries
<1> HIDE DEF a0
<1>3. /\ a1 = [c |-> a1.c, secs |-> a1.secs]
      /\ Carrier(a1.c) /\ SectionsInv(a1.secs) /\ \A t \in Sections : Sound(a1.secs[t])
  <2>1. "apps" \in Sections
    BY DEF Sections
  <2> QED BY <1>2, <2>1, FetchKeeps
<1> HIDE DEF a1
<1>4. /\ a2 = [c |-> a2.c, secs |-> a2.secs]
      /\ Carrier(a2.c) /\ SectionsInv(a2.secs) /\ \A t \in Sections : Sound(a2.secs[t])
  <2>1. "users" \in Sections
    BY DEF Sections
  <2> QED BY <1>3, <2>1, FetchKeeps
<1>5. /\ pulls' = a2.c.pulls
      /\ reqs' = [reqs EXCEPT ![r] = [q EXCEPT !.secs = a2.secs]]
  BY DEF Ask, a0, a1
<1> HIDE DEF a2
<1>6. PageInv([q EXCEPT !.secs = a2.secs])
  <2>1. DOMAIN q = PageFields
    BY DEF PageInv
  <2>2. /\ DOMAIN [q EXCEPT !.secs = a2.secs] = PageFields
        /\ [q EXCEPT !.secs = a2.secs].pc = q.pc /\ [q EXCEPT !.secs = a2.secs].secs = a2.secs
    BY <2>1 DEF PageFields
  <2> HIDE <2>1
  <2> QED BY <1>4, <2>2 DEF PageInv
<1>7. Shared(pulls')
  BY <1>4, <1>5 DEF Carrier
<1> QED BY <1>5, <1>6, <1>7, OnePageMoves

LEMMA FreshSection == SectionInv(Section) /\ Sound(Section) /\ Section.wait = {} /\ Section.ok = TRUE
  BY DEF Section, SectionInv, SectionFields, Sound

LEMMA FreshPage ==
  /\ DOMAIN NoPage = PageFields /\ NoPage.pc = "idle"
  /\ NoPage.secs = [s \in Sections |-> Section]
  BY DEF NoPage, PageFields

LEMMA OpenKeeps ==
  ASSUME DashInv, NEW r \in Request, NEW llm, Open(r, llm)
  PROVE  DashInv'
<1> DEFINE q == [NoPage EXCEPT !.pc = "totals", !.dash = TRUE, !.at = now, !.llm = llm]
<1>1. DOMAIN q = PageFields /\ q.pc = "totals" /\ q.secs = [s \in Sections |-> Section]
  BY FreshPage DEF PageFields
<1>2. \/ Ask(r, LoadSince(TRUE, now), q)
      \/ reqs' = [reqs EXCEPT ![r] = q] /\ pulls' = pulls
  BY DEF Open
<1> HIDE DEF q
<1>3. PageInv(q) /\ q.pc # "done"
  BY <1>1, FreshSection DEF PageInv, SectionsInv
<1>4. CASE Ask(r, LoadSince(TRUE, now), q)
  BY <1>3, <1>4, AskKeeps
<1>5. CASE reqs' = [reqs EXCEPT ![r] = q] /\ pulls' = pulls
  <2>1. Shared(pulls')
    BY <1>5 DEF DashInv
  <2> QED BY <1>3, <1>5, <2>1, OnePageMoves
<1> QED BY <1>2, <1>4, <1>5

LEMMA OpenCardKeeps ==
  ASSUME DashInv, NEW r \in Request, NEW s \in Sections, NEW x, NEW llm, OpenCard(r, s, x, llm)
  PROVE  DashInv'
<1> DEFINE q == [NoPage EXCEPT !.pc = "counts", !.at = now, !.llm = llm,
                   !.secs = [@ EXCEPT ![s].top = <<[key |-> x, active |-> 0, llmKey |-> x]>>]]
           top == <<[key |-> x, active |-> 0, llmKey |-> x]>>
           secs == [NoPage.secs EXCEPT ![s].top = top]
<1>1. reqs' = [reqs EXCEPT ![r] = q] /\ pulls' = pulls
  BY DEF OpenCard
<1>2. q = [NoPage EXCEPT !.pc = "counts", !.at = now, !.llm = llm, !.secs = secs]
  OBVIOUS
<1> HIDE DEF q, top
<1>3. SectionsInv(secs) /\ \A t \in Sections : Sound(secs[t]) /\ secs[t].wait = {}
  BY FreshPage, FreshSection DEF SectionsInv, SectionInv, SectionFields, Sound
<1> HIDE DEF secs
<1>4. DOMAIN q = PageFields /\ q.pc = "counts" /\ q.secs = secs
  BY <1>2, FreshPage DEF PageFields
<1>5. PageInv(q)
  BY <1>3, <1>4 DEF PageInv
<1>6. Shared(pulls')
  BY <1>1 DEF DashInv
<1> QED BY <1>1, <1>5, <1>6, OnePageMoves

LEMMA TotalsArriveKeeps ==
  ASSUME DashInv, NEW r \in Request, TotalsArrive(r)
  PROVE  DashInv'
<1> DEFINE q == reqs[r]
           T(s) == IF q.llm /\ On(s) /\ q.secs[s].ok
                   THEN SectionTotals(s, q.secs[s], RankSince(r)) ELSE <<>>
           totals == [s \in Sections |-> T(s)]
           secs == [s \in Sections |-> [q.secs[s] EXCEPT !.log = <<>>, !.keys = <<>>]]
           warning == \E s \in Sections : ~ q.secs[s].ok
           new == [q EXCEPT !.pc = "rank", !.totals = totals, !.secs = secs, !.warning = warning]
<1>1. reqs' = [reqs EXCEPT ![r] = new] /\ pulls' = pulls /\ q.pc = "totals"
  BY DEF TotalsArrive
<1>2. PageInv(q)
  BY DEF DashInv
<1> HIDE DEF q, totals, warning
<1>3. SectionsInv(secs) /\ \A t \in Sections : Sound(secs[t])
  <2>1. SectionsInv(q.secs) /\ \A t \in Sections : Sound(q.secs[t])
    BY <1>1, <1>2 DEF PageInv
  <2>2. ASSUME NEW t \in Sections
        PROVE  /\ DOMAIN secs[t] = SectionFields /\ secs[t].wait = q.secs[t].wait
               /\ secs[t].ok = q.secs[t].ok /\ secs[t].fails = q.secs[t].fails
    <3> DEFINE sec == q.secs[t]
    <3>1. DOMAIN sec = SectionFields
      BY <2>1 DEF SectionsInv, SectionInv
    <3>2. secs[t] = [sec EXCEPT !.log = <<>>, !.keys = <<>>]
      OBVIOUS
    <3> HIDE DEF sec, secs
    <3>3. /\ DOMAIN secs[t] = SectionFields /\ secs[t].wait = sec.wait
          /\ secs[t].ok = sec.ok /\ secs[t].fails = sec.fails
      BY <3>1, <3>2 DEF SectionFields
    <3> QED BY <3>3 DEF sec
  <2>3. DOMAIN secs = Sections
    OBVIOUS
  <2> HIDE DEF secs
  <2> QED BY <2>1, <2>2, <2>3 DEF SectionsInv, SectionInv, Sound
<1> HIDE DEF secs
<1>4. DOMAIN new = PageFields /\ new.pc = "rank" /\ new.secs = secs
  BY <1>2 DEF PageInv, PageFields
<1> HIDE DEF new
<1>5. PageInv(new)
  BY <1>3, <1>4 DEF PageInv
<1>6. Shared(pulls')
  BY <1>1 DEF DashInv
<1> QED BY <1>1, <1>5, <1>6, OnePageMoves

LEMMA RankKeeps ==
  ASSUME DashInv, NEW r \in Request, Rank(r)
  PROVE  DashInv'
<1> DEFINE q == reqs[r]
           top(s) == IF s = "apps" THEN TopAppsByActivity(rows, RankSince(r), TopLimit, q.totals[s])
                     ELSE TopUsersByActivity(rows, users, RankSince(r), TopLimit, q.totals[s])
           secs == [s \in Sections |-> [q.secs[s] EXCEPT !.top = top(s)]]
           new == [q EXCEPT !.pc = "counts", !.totals = NoPage.totals, !.secs = secs]
<1>1. reqs' = [reqs EXCEPT ![r] = new] /\ pulls' = pulls /\ q.pc = "rank"
  BY DEF Rank
<1>2. PageInv(q)
  BY DEF DashInv
<1> HIDE DEF q, top
<1>3. SectionsInv(secs) /\ \A t \in Sections : Sound(secs[t])
  BY <1>1, <1>2 DEF PageInv, SectionsInv, SectionInv, SectionFields, Sound
<1> HIDE DEF secs
<1>4. DOMAIN new = PageFields /\ new.pc = "counts" /\ new.secs = secs
  BY <1>2 DEF PageInv, PageFields
<1> HIDE DEF new
<1>5. PageInv(new)
  BY <1>3, <1>4 DEF PageInv
<1>6. Shared(pulls')
  BY <1>1 DEF DashInv
<1> QED BY <1>1, <1>5, <1>6, OnePageMoves

LEMMA CountsKeeps ==
  ASSUME DashInv, NEW r \in Request, Counts(r)
  PROVE  DashInv'
<1> DEFINE q == reqs[r]
           cards(s) == [i \in DOMAIN q.secs[s].top |->
                          DailyCounts(rows, By(s), q.secs[s].top[i].key, HeatSince(r))]
           counted == [s \in Sections |-> [q.secs[s] EXCEPT !.counts = cards(s)]]
           Asked(x, s) == IF q.secs[s].top = <<>> THEN x ELSE Fetch(x, s, LoadSince(q.dash, q.at))
           a0 == InFlight(counted)
           a1 == Asked(a0, "apps")
           a2 == Asked(a1, "users")
           secs == IF q.llm THEN a2.secs ELSE counted
           new == [q EXCEPT !.pc = "overlay", !.secs = secs]
<1>1. /\ reqs' = [reqs EXCEPT ![r] = new]
      /\ pulls' = IF q.llm THEN a2.c.pulls ELSE pulls
      /\ q.pc = "counts"
  BY ZenonT(60) DEF Counts
<1>2. PageInv(q)
  BY DEF DashInv
<1> HIDE DEF cards
<1>3. SectionsInv(counted) /\ \A t \in Sections : Sound(counted[t])
  <2> HIDE DEF q
  <2> QED BY <1>1, <1>2 DEF PageInv, SectionsInv, SectionInv, SectionFields, Sound
<1> HIDE DEF q, counted
<1>4. /\ a0 = [c |-> a0.c, secs |-> a0.secs]
      /\ Carrier(a0.c) /\ SectionsInv(a0.secs) /\ \A t \in Sections : Sound(a0.secs[t])
  BY <1>3, InFlightCarries
<1> HIDE DEF a0
<1>5. /\ a1 = [c |-> a1.c, secs |-> a1.secs]
      /\ Carrier(a1.c) /\ SectionsInv(a1.secs) /\ \A t \in Sections : Sound(a1.secs[t])
  <2>1. "apps" \in Sections
    BY DEF Sections
  <2> QED BY <1>4, <2>1, FetchKeeps
<1> HIDE DEF a1
<1>6. /\ a2 = [c |-> a2.c, secs |-> a2.secs]
      /\ Carrier(a2.c) /\ SectionsInv(a2.secs) /\ \A t \in Sections : Sound(a2.secs[t])
  <2>1. "users" \in Sections
    BY DEF Sections
  <2> QED BY <1>5, <2>1, FetchKeeps
<1> HIDE DEF a2
<1>7. SectionsInv(secs) /\ \A t \in Sections : Sound(secs[t])
  BY <1>3, <1>6
<1> HIDE DEF secs
<1>8. DOMAIN new = PageFields /\ new.pc = "overlay" /\ new.secs = secs
  BY <1>2 DEF PageInv, PageFields
<1> HIDE DEF new
<1>9. PageInv(new)
  BY <1>7, <1>8 DEF PageInv
<1>10. Shared(pulls')
  BY <1>1, <1>6 DEF DashInv, Carrier
<1>11. reqs' = [reqs EXCEPT ![r] = new]
  BY <1>1
<1> QED BY <1>9, <1>10, <1>11, OnePageMoves

LEMMA RenderKeeps ==
  ASSUME DashInv, NEW r \in Request, Render(r)
  PROVE  DashInv'
<1> DEFINE q == reqs[r]
           cards == [s \in Sections |-> Cards(r, s)]
           secs == [s \in Sections |-> [Section EXCEPT !.fails = q.secs[s].fails]]
           warning == q.warning \/ \E s \in Sections : ~ q.secs[s].ok
           new == [q EXCEPT !.pc = "done", !.cards = cards, !.secs = secs, !.warning = warning]
<1>1. reqs' = [reqs EXCEPT ![r] = new] /\ pulls' = pulls
  BY DEF Render
<1>2. PageInv(q)
  BY DEF DashInv
<1> HIDE DEF q, cards, warning
<1>3. SectionsInv(secs) /\ \A t \in Sections : secs[t].wait = {}
  BY <1>2, FreshSection DEF PageInv, SectionsInv, SectionInv, SectionFields, Section
<1> HIDE DEF secs
<1>4. DOMAIN new = PageFields /\ new.pc = "done" /\ new.secs = secs
  BY <1>2 DEF PageInv, PageFields
<1> HIDE DEF new
<1>5. PageInv(new)
  BY <1>3, <1>4 DEF PageInv
<1>6. Shared(pulls')
  BY <1>1 DEF DashInv
<1> QED BY <1>1, <1>5, <1>6, OnePageMoves
------------------------------------------------------------------------------
(* The answers of the proxy.                                                *)

(* A failure is counted by those that still waited, who wait no more.       *)
LEMMA HeardKeeps ==
  ASSUME NEW sec, SectionInv(sec), NEW p, NEW ok \in BOOLEAN, NEW value
  PROVE  /\ SectionInv(Heard(sec, p, ok, value))
         /\ Sound(sec) => Sound(Heard(sec, p, ok, value))
         /\ Heard(sec, p, ok, value).wait \subseteq sec.wait
<1> DEFINE log == IF pulls[p].key[1] = "rows" THEN value ELSE sec.log
           keys == IF pulls[p].key[1] = "keys" THEN value ELSE sec.keys
<1>1. Heard(sec, p, ok, value) =
        IF p \notin sec.wait THEN sec
        ELSE IF ~ ok THEN [sec EXCEPT !.wait = {}, !.ok = FALSE, !.fails = sec.fails + 1]
        ELSE [sec EXCEPT !.wait = sec.wait \ {p}, !.log = log, !.keys = keys]
  BY DEF Heard
<1> HIDE DEF log, keys
<1>2. CASE p \notin sec.wait
  BY <1>1, <1>2
<1>3. CASE p \in sec.wait /\ ~ ok
  <2>1. Heard(sec, p, ok, value) = [sec EXCEPT !.wait = {}, !.ok = FALSE, !.fails = sec.fails + 1]
    BY <1>1, <1>3
  <2> QED BY <1>3, <2>1 DEF SectionInv, SectionFields, Sound
<1>4. CASE p \in sec.wait /\ ok
  <2>1. Heard(sec, p, ok, value) = [sec EXCEPT !.wait = sec.wait \ {p}, !.log = log, !.keys = keys]
    BY <1>1, <1>4
  <2> QED BY <1>4, <2>1 DEF SectionInv, SectionFields, Sound
<1> QED BY <1>2, <1>3, <1>4

LEMMA SettleKeeps ==
  ASSUME DashInv, NEW p \in PullId, NEW ok \in BOOLEAN, NEW value, Settle(p, ok, value)
  PROVE  DashInv'
<1>1. /\ pulls' = [pulls EXCEPT ![p] = Null]
      /\ reqs' = [r \in Request |->
                    [reqs[r] EXCEPT !.secs = [s \in Sections |-> Heard(reqs[r].secs[s], p, ok, value)]]]
  BY DEF Settle
<1>2. Shared(pulls')
  <2>1. Shared(pulls)
    BY DEF DashInv
  <2> QED BY <1>1, <2>1 DEF Shared
<1>3. ASSUME NEW r \in Request PROVE PageInv(reqs'[r])
  <2> DEFINE q == reqs[r]
             secs == [s \in Sections |-> Heard(q.secs[s], p, ok, value)]
             new == [q EXCEPT !.secs = secs]
  <2>1. reqs'[r] = new
    BY <1>1
  <2>2. PageInv(q)
    BY DEF DashInv
  <2> HIDE DEF q
  <2>3. \A s \in Sections : /\ SectionInv(secs[s])
                            /\ Sound(q.secs[s]) => Sound(secs[s])
                            /\ secs[s].wait \subseteq q.secs[s].wait
    BY <2>2, HeardKeeps DEF PageInv, SectionsInv
  <2>4. DOMAIN secs = Sections
    OBVIOUS
  <2> HIDE DEF secs
  <2>5. DOMAIN new = PageFields /\ new.pc = q.pc /\ new.secs = secs
    BY <2>2 DEF PageInv, PageFields
  <2> HIDE DEF new
  <2>6. PageInv(new)
    <3>1. SectionsInv(secs)
      BY <2>3, <2>4 DEF SectionsInv
    <3>2. q.pc # "done" => \A s \in Sections : Sound(secs[s])
      BY <2>2, <2>3 DEF PageInv
    <3>3. q.pc = "done" => \A s \in Sections : secs[s].wait = {}
      <4>1. q.pc = "done" => \A s \in Sections : q.secs[s].wait = {}
        BY <2>2 DEF PageInv
      <4> QED BY <2>3, <4>1
    <3> QED BY <2>5, <3>1, <3>2, <3>3 DEF PageInv
  <2> QED BY <2>1, <2>6
<1>4. DOMAIN reqs' = Request
  BY <1>1
<1> QED BY <1>2, <1>3, <1>4 DEF DashInv, PageInv, SectionsInv, SectionInv, Sound, Shared

(* A page of the proxy's: the pull goes on to the next, or ends.            *)
More(pull, got) == [pull EXCEPT !.page = @ + 1, !.rows = got]
GoesOn(p, got)  == pulls' = [pulls EXCEPT ![p] = More(pulls[p], got)] /\ UNCHANGED <<done, reqs>>

LEMMA PageStep ==
  ASSUME NEW p \in PullId, Page(p)
  PROVE  \E got : GoesOn(p, got) \/ Settle(p, TRUE, got)
<1> DEFINE q == Query(pulls[p])
           size == PageSize[pulls[p].key[1]]
           got == pulls[p].rows \o
              SubSeq(q, (pulls[p].page - 1) * size + 1, Min({pulls[p].page * size, Len(q)}))
<1>1. \/ /\ pulls' = [pulls EXCEPT ![p] = [pulls[p] EXCEPT !.page = @ + 1, !.rows = got]]
         /\ UNCHANGED <<done, reqs>>
      \/ Settle(p, TRUE, got)
  BY DEF Page
<1>2. GoesOn(p, got) \/ Settle(p, TRUE, got)
  BY <1>1 DEF GoesOn, More
<1> QED BY <1>2

LEMMA AnswerKeeps ==
  ASSUME DashInv, NEW p \in PullId, Answer(p)
  PROVE  DashInv'
<1>1. CASE Page(p)
  <2>1. ASSUME NEW got, GoesOn(p, got) PROVE DashInv'
    <3> DEFINE more == More(pulls[p], got)
    <3>1. pulls[p] # Null /\ Shared(pulls)
      BY DEF Answer, DashInv
    <3>2. DOMAIN more = PullFields /\ more.key = pulls[p].key
      BY <3>1 DEF Shared, PullFields, More
    <3>3. pulls' = [pulls EXCEPT ![p] = more] /\ UNCHANGED <<done, reqs>>
      BY <2>1 DEF GoesOn
    <3> HIDE DEF more
    <3>4. Shared(pulls')
      BY <3>1, <3>2, <3>3 DEF Shared
    <3> QED BY <3>3, <3>4 DEF DashInv, PageInv, SectionsInv, SectionInv, Sound, Shared
  <2>2. ASSUME NEW got, Settle(p, TRUE, got) PROVE DashInv'
    BY <2>2, SettleKeeps
  <2>3. PICK got : GoesOn(p, got) \/ Settle(p, TRUE, got)
    BY <1>1, PageStep
  <2> QED BY <2>1, <2>2, <2>3
<1>2. CASE Fail(p)
  BY <1>2, SettleKeeps DEF Fail
<1> QED BY <1>1, <1>2 DEF Answer

------------------------------------------------------------------------------
LEMMA DashInit == Init => DashInv
<1> SUFFICES ASSUME Init PROVE DashInv
  OBVIOUS
<1>1. pulls = [p \in PullId |-> Null] /\ reqs = [r \in Request |-> NoPage]
  BY DEF Init
<1>2. Shared(pulls)
  BY <1>1 DEF Shared
<1>3. PageInv(NoPage)
  BY FreshPage, FreshSection DEF PageInv, SectionsInv
<1> QED BY <1>1, <1>2, <1>3 DEF DashInv

LEMMA DashNext == DashInv /\ [Next]_vars => DashInv'
<1> SUFFICES ASSUME DashInv, [Next]_vars PROVE DashInv'
  OBVIOUS
<1>1. CASE UNCHANGED <<pulls, reqs>>
  BY <1>1 DEF DashInv, PageInv, SectionsInv, SectionInv, Sound, Shared
<1>2. CASE Advance
  BY <1>1, <1>2 DEF Advance
<1>3. ASSUME NEW u \in User, DeleteUser(u) \/ DropUsage(u) \/ \E a \in App : RecordUse(u, a)
      PROVE  DashInv'
  BY <1>1, <1>3 DEF DeleteUser, DropUsage, RecordUse
<1>4. ASSUME NEW p \in PullId, Answer(p) PROVE DashInv'
  BY <1>4, AnswerKeeps
<1>5. ASSUME NEW r \in Request, Serve(r) PROVE DashInv'
  BY <1>5, TotalsArriveKeeps, RankKeeps, CountsKeeps, RenderKeeps DEF Serve
<1>6. ASSUME NEW r \in Request, NEW w \in Wanted, w.of = "all", Open(r, w.llm) PROVE DashInv'
  BY <1>6, OpenKeeps
<1>7. ASSUME NEW r \in Request, NEW w \in Wanted, w.of \in Sections, OpenCard(r, w.of, w.key, w.llm)
      PROVE  DashInv'
  BY <1>7, OpenCardKeeps
<1>8. CASE UNCHANGED vars
  BY <1>1, <1>8 DEF vars
<1> QED BY <1>2, <1>3, <1>4, <1>5, <1>6, <1>7, <1>8 DEF Next

LEMMA DashboardInvariant == Spec => []DashInv
  BY DashInit, DashNext, PTL DEF Spec

(* sharedPull: whoever asks for a key, and in whatever order the pulls end, *)
(* no two pulls of it are in flight.                                        *)
THEOREM OnePullOfAKey == Spec => []PullsAreShared
<1>1. DashInv => PullsAreShared
  BY DEF DashInv, Shared, PullsAreShared
<1> QED BY <1>1, DashboardInvariant, PTL

(* buildDashboard: a section that has waited out a failure is not asked     *)
(* again, so that a page waits for one timeout at most in each.             *)
THEOREM OneFailureOfASection == Spec => []SectionFailsOnce
<1>1. DashInv => SectionFailsOnce
  BY DEF DashInv, PageInv, SectionsInv, SectionInv, SectionFailsOnce
<1> QED BY <1>1, DashboardInvariant, PTL
------------------------------------------------------------------------------
(* What is waited for is in flight.  PullId is a bound of the model: the    *)
(* code's map of pulls has none, so that a new pull always finds a place.   *)
(* Null is no function, as no object of the code is null.                   *)

NullIsNoObject == Null # [x \in DOMAIN Null |-> Null[x]]
Unbounded    == ~ IsFiniteSet(PullId)

WaitInv ==
  /\ IsFiniteSet(Flights(pulls))
  /\ \A r \in Request : \A s \in Sections : reqs[r].secs[s].wait \subseteq Flights(pulls)

(* What a handler has asked for so far: nothing that was in flight is lost. *)
Flown(a) ==
  /\ a = [c |-> a.c, secs |-> a.secs] /\ Carrier(a.c) /\ SectionsInv(a.secs)
  /\ IsFiniteSet(Flights(a.c.pulls)) /\ Flights(pulls) \subseteq Flights(a.c.pulls)
  /\ \A s \in Sections : a.secs[s].wait \subseteq Flights(a.c.pulls)

LEMMA SharedPullFlies ==
  ASSUME NullIsNoObject, Unbounded, NEW c, NEW key, Carrier(c), IsFiniteSet(Flights(c.pulls))
  PROVE  LET y == SharedPull(c, key) IN
         /\ IsFiniteSet(Flights(y.c.pulls)) /\ Flights(c.pulls) \subseteq Flights(y.c.pulls)
         /\ y.wait \subseteq Flights(y.c.pulls)
<1> DEFINE hit == CacheGet(c.done[key[1]], key)
           kept == [c.done EXCEPT ![key[1]] = Fresh(@, key)]
           going == Going(c, key)
           p == CHOOSE q \in IF going = {} THEN Idle(c) ELSE going : TRUE
           started == IF going = {} THEN [c.pulls EXCEPT ![p] = NewPull(key)] ELSE c.pulls
           y == SharedPull(c, key)
<1>1. y = IF hit # {} THEN [c |-> c, wait |-> {}, value |-> (CHOOSE e \in hit : TRUE).value]
          ELSE [c |-> [pulls |-> started, done |-> kept], wait |-> {p}, value |-> <<>>]
  BY DEF SharedPull
<1> HIDE DEF kept, hit
<1>2. going \subseteq Flights(c.pulls) /\ Idle(c) = PullId \ Flights(c.pulls)
  BY DEF Going, Idle, Flights
<1>3. Idle(c) # {}
  <2> SUFFICES ASSUME Idle(c) = {} PROVE FALSE
    OBVIOUS
  <2>1. PullId \in SUBSET Flights(c.pulls)
    BY <1>2
  <2> QED BY <2>1, FS_Subset DEF Unbounded
<1>4. p \in IF going = {} THEN Idle(c) ELSE going
  BY <1>3
<1> HIDE DEF p
<1>5. CASE going # {}
  <2>1. p \in Flights(c.pulls) /\ started = c.pulls
    BY <1>2, <1>4, <1>5
  <2> QED BY <1>1, <2>1
<1>6. CASE going = {}
  <2>1. p \in PullId /\ started = [c.pulls EXCEPT ![p] = NewPull(key)]
    BY <1>2, <1>4, <1>6
  <2>2. NewPull(key) # Null
    <3> DEFINE pull == NewPull(key)
    <3>1. pull = [x \in DOMAIN pull |-> pull[x]]
      BY DEF NewPull
    <3> HIDE DEF pull
    <3> QED BY <3>1 DEF NullIsNoObject, pull
  <2>3. DOMAIN c.pulls = PullId
    BY DEF Carrier, Shared
  <2>4. Flights(started) = Flights(c.pulls) \cup {p}
    BY <2>1, <2>2, <2>3 DEF Flights
  <2>5. IsFiniteSet(Flights(started))
    BY <2>4, FS_AddElement
  <2> HIDE DEF started
  <2>6. \/ y.c.pulls = c.pulls /\ y.wait = {}
        \/ y.c.pulls = started /\ y.wait = {p}
    BY <1>1
  <2> HIDE DEF y
  <2>7. /\ IsFiniteSet(Flights(y.c.pulls)) /\ Flights(c.pulls) \subseteq Flights(y.c.pulls)
        /\ y.wait \subseteq Flights(y.c.pulls)
    BY <2>4, <2>5, <2>6
  <2> QED BY <2>7 DEF y
<1> QED BY <1>5, <1>6

LEMMA FetchFlies ==
  ASSUME NullIsNoObject, Unbounded, NEW a, NEW s \in Sections, NEW since, Flown(a),
         \A t \in Sections : Sound(a.secs[t])
  PROVE  Flown(Fetch(a, s, since))
<1> DEFINE log   == SharedPull(a.c, <<"rows", since>>)
           alias == IF s = "apps" THEN SharedPull(log.c, <<"keys", 0>>) ELSE [c |-> log.c, wait |-> {}, value |-> <<>>]
           sec   == [a.secs[s] EXCEPT !.wait = log.wait \cup alias.wait, !.log = log.value, !.keys = alias.value]
           asked == [c |-> alias.c, secs |-> [a.secs EXCEPT ![s] = sec]]
           b     == Fetch(a, s, since)
<1>1. b = IF ~ On(s) \/ ~ a.secs[s].ok THEN a ELSE asked
  BY DEF Fetch
<1>2. b = [c |-> b.c, secs |-> b.secs] /\ Carrier(b.c) /\ SectionsInv(b.secs)
  BY FetchKeeps DEF Flown
<1>3. CASE ~ On(s) \/ ~ a.secs[s].ok
  BY <1>1, <1>3
<1>4. CASE ~ (~ On(s) \/ ~ a.secs[s].ok)
  <2>1. Carrier(log.c)
    BY SharedPullCarries DEF Flown
  <2>2. /\ IsFiniteSet(Flights(log.c.pulls)) /\ Flights(a.c.pulls) \subseteq Flights(log.c.pulls)
        /\ log.wait \subseteq Flights(log.c.pulls)
    BY SharedPullFlies DEF Flown
  <2>3. /\ IsFiniteSet(Flights(alias.c.pulls)) /\ Flights(log.c.pulls) \subseteq Flights(alias.c.pulls)
        /\ alias.wait \subseteq Flights(alias.c.pulls)
    <3> DEFINE keys == SharedPull(log.c, <<"keys", 0>>)
    <3>1. /\ IsFiniteSet(Flights(keys.c.pulls)) /\ Flights(log.c.pulls) \subseteq Flights(keys.c.pulls)
          /\ keys.wait \subseteq Flights(keys.c.pulls)
      BY <2>1, <2>2, SharedPullFlies
    <3>2. alias = IF s = "apps" THEN keys ELSE [c |-> log.c, wait |-> {}, value |-> <<>>]
      OBVIOUS
    <3> HIDE DEF keys, log, alias
    <3> QED BY <2>2, <3>1, <3>2
  <2> DEFINE W == log.wait \cup alias.wait
  <2>4. W \subseteq Flights(alias.c.pulls)
    BY <2>2, <2>3
  <2>5. b = asked
    BY <1>1, <1>4
  <2>6. sec.wait = W
    <3>1. DOMAIN a.secs[s] = SectionFields
      BY DEF Flown, SectionsInv, SectionInv
    <3> HIDE DEF log, alias
    <3> QED BY <3>1 DEF SectionFields
  <2>7. DOMAIN a.secs = Sections
    BY DEF Flown, SectionsInv
  <2> HIDE DEF sec, alias, log, W
  <2>8. \A t \in Sections : [a.secs EXCEPT ![s] = sec][t].wait \subseteq Flights(alias.c.pulls)
    BY <2>2, <2>3, <2>4, <2>6, <2>7 DEF Flown
  <2>9. Flights(pulls) \subseteq Flights(alias.c.pulls)
    BY <2>2, <2>3 DEF Flown
  <2>10. b.c = alias.c /\ b.secs = [a.secs EXCEPT ![s] = sec]
    BY <2>5
  <2> HIDE DEF b
  <2>11. Flown(b)
    BY <1>2, <2>3, <2>8, <2>9, <2>10 DEF Flown
  <2> QED BY <2>11 DEF b
<1> QED BY <1>3, <1>4
LEMMA OneWaitMoves ==
  ASSUME DashInv, WaitInv, NEW r \in Request, NEW q, reqs' = [reqs EXCEPT ![r] = q],
         IsFiniteSet(Flights(pulls')), Flights(pulls) \subseteq Flights(pulls'),
         \A s \in Sections : q.secs[s].wait \subseteq Flights(pulls')
  PROVE  WaitInv'
<1>1. \A x \in Request, s \in Sections : reqs'[x].secs[s].wait \subseteq Flights(pulls')
  BY DEF DashInv, WaitInv
<1> QED BY <1>1 DEF WaitInv, Flights

LEMMA InFlightFlown ==
  ASSUME DashInv, WaitInv, NEW r \in Request, NEW secs, SectionsInv(secs),
         \A t \in Sections : Sound(secs[t]) /\ secs[t].wait \subseteq Flights(pulls)
  PROVE  Flown(InFlight(secs)) /\ \A t \in Sections : Sound(InFlight(secs).secs[t])
  BY InFlightCarries DEF Flown, InFlight, WaitInv

LEMMA AskWaits ==
  ASSUME NullIsNoObject, Unbounded, DashInv, WaitInv, NEW r \in Request, NEW since, NEW q, PageInv(q),
         q.pc # "done", \A s \in Sections : q.secs[s].wait \subseteq Flights(pulls),
         Ask(r, since, q)
  PROVE  WaitInv'
<1> DEFINE a0 == InFlight(q.secs)
           a1 == Fetch(a0, "apps", since)
           a2 == Fetch(a1, "users", since)
<1>1. SectionsInv(q.secs) /\ \A t \in Sections : Sound(q.secs[t])
  BY DEF PageInv
<1>2. Flown(a0) /\ \A t \in Sections : Sound(a0.secs[t])
  BY <1>1, InFlightFlown
<1>3. "apps" \in Sections /\ "users" \in Sections
  BY DEF Sections
<1> HIDE DEF a0
<1>4. Flown(a1) /\ \A t \in Sections : Sound(a1.secs[t])
  <2>1. Flown(a1)
    BY <1>2, <1>3, FetchFlies
  <2>2. \A t \in Sections : Sound(a1.secs[t])
    BY <1>2, <1>3, FetchKeeps DEF Flown
  <2> QED BY <2>1, <2>2
<1> HIDE DEF a1
<1>5. Flown(a2)
  BY <1>3, <1>4, FetchFlies
<1>6. /\ pulls' = a2.c.pulls
      /\ reqs' = [reqs EXCEPT ![r] = [q EXCEPT !.secs = a2.secs]]
  BY DEF Ask, a0, a1
<1> HIDE DEF a2
<1>7. [q EXCEPT !.secs = a2.secs].secs = a2.secs
  BY DEF PageInv, PageFields
<1> QED BY <1>5, <1>6, <1>7, OneWaitMoves DEF Flown

LEMMA OpenWaits ==
  ASSUME NullIsNoObject, Unbounded, DashInv, WaitInv, NEW r \in Request, NEW llm, Open(r, llm)
  PROVE  WaitInv'
<1> DEFINE q == [NoPage EXCEPT !.pc = "totals", !.dash = TRUE, !.at = now, !.llm = llm]
<1>1. DOMAIN q = PageFields /\ q.pc = "totals" /\ q.secs = [s \in Sections |-> Section]
  BY FreshPage DEF PageFields
<1>2. \/ Ask(r, LoadSince(TRUE, now), q)
      \/ reqs' = [reqs EXCEPT ![r] = q] /\ pulls' = pulls
  BY DEF Open
<1> HIDE DEF q
<1>3. PageInv(q) /\ q.pc # "done" /\ \A s \in Sections : q.secs[s].wait \subseteq Flights(pulls)
  BY <1>1, FreshSection DEF PageInv, SectionsInv
<1>4. CASE Ask(r, LoadSince(TRUE, now), q)
  BY <1>3, <1>4, AskWaits
<1>5. CASE reqs' = [reqs EXCEPT ![r] = q] /\ pulls' = pulls
  BY <1>3, <1>5, OneWaitMoves DEF WaitInv
<1> QED BY <1>2, <1>4, <1>5

(* The steps that ask for nothing.                                          *)
LEMMA LookWaits ==
  ASSUME DashInv, WaitInv, NEW r \in Request, NEW q, reqs' = [reqs EXCEPT ![r] = q], pulls' = pulls,
         \A s \in Sections : q.secs[s].wait \subseteq reqs[r].secs[s].wait
  PROVE  WaitInv'
<1>1. \A s \in Sections : q.secs[s].wait \subseteq Flights(pulls')
  BY DEF WaitInv
<1> QED BY <1>1, OneWaitMoves DEF WaitInv

LEMMA OpenCardWaits ==
  ASSUME DashInv, WaitInv, NEW r \in Request, NEW s \in Sections, NEW x, NEW llm, OpenCard(r, s, x, llm)
  PROVE  WaitInv'
<1> DEFINE top == <<[key |-> x, active |-> 0, llmKey |-> x]>>
           secs == [NoPage.secs EXCEPT ![s].top = top]
           q == [NoPage EXCEPT !.pc = "counts", !.at = now, !.llm = llm, !.secs = secs]
<1>1. reqs' = [reqs EXCEPT ![r] = q] /\ pulls' = pulls
  BY DEF OpenCard
<1> HIDE DEF top
<1>2. \A t \in Sections : secs[t].wait = {}
  BY FreshPage, FreshSection DEF SectionInv, SectionFields
<1> HIDE DEF secs
<1>3. q.secs = secs
  BY FreshPage DEF PageFields
<1> HIDE DEF q
<1> QED BY <1>1, <1>2, <1>3, LookWaits

LEMMA TotalsArriveWaits ==
  ASSUME DashInv, WaitInv, NEW r \in Request, TotalsArrive(r)
  PROVE  WaitInv'
<1> DEFINE q == reqs[r]
           T(s) == IF q.llm /\ On(s) /\ q.secs[s].ok
                   THEN SectionTotals(s, q.secs[s], RankSince(r)) ELSE <<>>
           totals == [s \in Sections |-> T(s)]
           secs == [s \in Sections |-> [q.secs[s] EXCEPT !.log = <<>>, !.keys = <<>>]]
           warning == \E s \in Sections : ~ q.secs[s].ok
           new == [q EXCEPT !.pc = "rank", !.totals = totals, !.secs = secs, !.warning = warning]
<1>1. reqs' = [reqs EXCEPT ![r] = new] /\ pulls' = pulls
  BY DEF TotalsArrive
<1>2. PageInv(q)
  BY DEF DashInv
<1> HIDE DEF totals, warning
<1>3. \A t \in Sections : secs[t].wait = q.secs[t].wait
  <2> HIDE DEF q
  <2> QED BY <1>2 DEF PageInv, SectionsInv, SectionInv, SectionFields
<1> HIDE DEF secs
<1>4. new.secs = secs
  BY <1>2 DEF PageInv, PageFields
<1> HIDE DEF new
<1>5. \A s \in Sections : new.secs[s].wait \subseteq reqs[r].secs[s].wait
  BY <1>3, <1>4
<1> QED BY <1>1, <1>5, LookWaits

LEMMA RankWaits ==
  ASSUME DashInv, WaitInv, NEW r \in Request, Rank(r)
  PROVE  WaitInv'
<1> DEFINE q == reqs[r]
           top(s) == IF s = "apps" THEN TopAppsByActivity(rows, RankSince(r), TopLimit, q.totals[s])
                     ELSE TopUsersByActivity(rows, users, RankSince(r), TopLimit, q.totals[s])
           secs == [s \in Sections |-> [q.secs[s] EXCEPT !.top = top(s)]]
           new == [q EXCEPT !.pc = "counts", !.totals = NoPage.totals, !.secs = secs]
<1>1. reqs' = [reqs EXCEPT ![r] = new] /\ pulls' = pulls
  BY DEF Rank
<1>2. PageInv(q)
  BY DEF DashInv
<1> HIDE DEF top
<1>3. \A t \in Sections : secs[t].wait = q.secs[t].wait
  <2> HIDE DEF q
  <2> QED BY <1>2 DEF PageInv, SectionsInv, SectionInv, SectionFields
<1> HIDE DEF secs
<1>4. new.secs = secs
  BY <1>2 DEF PageInv, PageFields
<1> HIDE DEF new
<1>5. \A s \in Sections : new.secs[s].wait \subseteq reqs[r].secs[s].wait
  BY <1>3, <1>4
<1> QED BY <1>1, <1>5, LookWaits

LEMMA RenderWaits ==
  ASSUME DashInv, WaitInv, NEW r \in Request, Render(r)
  PROVE  WaitInv'
<1> DEFINE q == reqs[r]
           cards == [s \in Sections |-> Cards(r, s)]
           secs == [s \in Sections |-> [Section EXCEPT !.fails = q.secs[s].fails]]
           warning == q.warning \/ \E s \in Sections : ~ q.secs[s].ok
           new == [q EXCEPT !.pc = "done", !.cards = cards, !.secs = secs, !.warning = warning]
<1>1. reqs' = [reqs EXCEPT ![r] = new] /\ pulls' = pulls
  BY DEF Render
<1>2. PageInv(q)
  BY DEF DashInv
<1> HIDE DEF cards, warning
<1>3. \A t \in Sections : secs[t].wait = {}
  BY FreshSection DEF SectionInv, SectionFields, Section
<1> HIDE DEF secs
<1>4. new.secs = secs
  BY <1>2 DEF PageInv, PageFields
<1> HIDE DEF new
<1> QED BY <1>1, <1>3, <1>4, LookWaits

LEMMA CountsWaits ==
  ASSUME NullIsNoObject, Unbounded, DashInv, WaitInv, NEW r \in Request, Counts(r)
  PROVE  WaitInv'
<1> DEFINE q == reqs[r]
           cards(s) == [i \in DOMAIN q.secs[s].top |->
                          DailyCounts(rows, By(s), q.secs[s].top[i].key, HeatSince(r))]
           counted == [s \in Sections |-> [q.secs[s] EXCEPT !.counts = cards(s)]]
           Asked(x, s) == IF q.secs[s].top = <<>> THEN x ELSE Fetch(x, s, LoadSince(q.dash, q.at))
           a0 == InFlight(counted)
           a1 == Asked(a0, "apps")
           a2 == Asked(a1, "users")
           secs == IF q.llm THEN a2.secs ELSE counted
           new == [q EXCEPT !.pc = "overlay", !.secs = secs]
<1>1. /\ reqs' = [reqs EXCEPT ![r] = new]
      /\ pulls' = IF q.llm THEN a2.c.pulls ELSE pulls
      /\ q.pc = "counts"
  BY ZenonT(60) DEF Counts
<1>2. PageInv(q) /\ \A t \in Sections : q.secs[t].wait \subseteq Flights(pulls)
  BY DEF DashInv, WaitInv
<1> HIDE DEF cards
<1>3. SectionsInv(counted) /\ \A t \in Sections : Sound(counted[t]) /\ counted[t].wait = q.secs[t].wait
  <2> HIDE DEF q
  <2> QED BY <1>1, <1>2 DEF PageInv, SectionsInv, SectionInv, SectionFields, Sound
<1>4. "apps" \in Sections /\ "users" \in Sections
  BY DEF Sections
<1> HIDE DEF q, counted
<1>5. Flown(a0) /\ \A t \in Sections : Sound(a0.secs[t])
  BY <1>2, <1>3, InFlightFlown
<1> HIDE DEF a0
<1>6. Flown(a1) /\ \A t \in Sections : Sound(a1.secs[t])
  <2>1. Flown(a1)
    BY <1>4, <1>5, FetchFlies
  <2>2. \A t \in Sections : Sound(a1.secs[t])
    BY <1>4, <1>5, FetchKeeps DEF Flown
  <2> QED BY <2>1, <2>2
<1> HIDE DEF a1
<1>7. Flown(a2)
  BY <1>4, <1>6, FetchFlies
<1> HIDE DEF a2
<1>8. /\ IsFiniteSet(Flights(pulls')) /\ Flights(pulls) \subseteq Flights(pulls')
      /\ \A t \in Sections : secs[t].wait \subseteq Flights(pulls')
  <2>1. CASE q.llm
    BY <1>1, <1>7, <2>1 DEF Flown
  <2>2. CASE ~ q.llm
    BY <1>1, <1>2, <1>3, <2>2 DEF WaitInv
  <2> QED BY <2>1, <2>2
<1> HIDE DEF secs
<1>9. new.secs = secs
  BY <1>2 DEF PageInv, PageFields
<1> HIDE DEF new
<1> QED BY <1>1, <1>8, <1>9, OneWaitMoves, ZenonT(60)

LEMMA SettleWaits ==
  ASSUME DashInv, WaitInv, NEW p \in PullId, NEW ok \in BOOLEAN, NEW value, Settle(p, ok, value)
  PROVE  WaitInv'
<1>1. /\ pulls' = [pulls EXCEPT ![p] = Null]
      /\ reqs' = [r \in Request |->
                    [reqs[r] EXCEPT !.secs = [s \in Sections |-> Heard(reqs[r].secs[s], p, ok, value)]]]
  BY DEF Settle
<1>2. Flights(pulls') = Flights(pulls) \ {p}
  BY <1>1 DEF DashInv, Shared, Flights
<1>3. IsFiniteSet(Flights(pulls'))
  BY <1>2, FS_RemoveElement DEF WaitInv
<1>4. ASSUME NEW r \in Request, NEW s \in Sections
      PROVE  reqs'[r].secs[s].wait \subseteq Flights(pulls')
  <2> DEFINE sec == reqs[r].secs[s]
             heard == Heard(sec, p, ok, value)
  <2>1. SectionInv(sec) /\ DOMAIN reqs[r] = PageFields
    BY DEF DashInv, PageInv, SectionsInv
  <2>2. reqs'[r].secs[s] = heard
    BY <1>1, <2>1 DEF PageFields
  <2>3. heard.wait \subseteq sec.wait \ {p}
    <3> DEFINE log == IF pulls[p].key[1] = "rows" THEN value ELSE sec.log
           keys == IF pulls[p].key[1] = "keys" THEN value ELSE sec.keys
    <3>1. heard = IF p \notin sec.wait THEN sec
                  ELSE IF ~ ok THEN [sec EXCEPT !.wait = {}, !.ok = FALSE, !.fails = sec.fails + 1]
                  ELSE [sec EXCEPT !.wait = sec.wait \ {p}, !.log = log, !.keys = keys]
      BY DEF Heard
    <3> HIDE DEF log, heard, sec
    <3> QED BY <2>1, <3>1 DEF SectionInv, SectionFields
  <2>4. sec.wait \subseteq Flights(pulls)
    BY DEF WaitInv
  <2> QED BY <1>2, <2>2, <2>3, <2>4
<1> QED BY <1>3, <1>4 DEF WaitInv, Flights

LEMMA AnswerWaits ==
  ASSUME NullIsNoObject, DashInv, WaitInv, NEW p \in PullId, Answer(p)
  PROVE  WaitInv'
<1>1. CASE Page(p)
  <2>1. ASSUME NEW got, GoesOn(p, got) PROVE WaitInv'
    <3> DEFINE more == More(pulls[p], got)
    <3>1. pulls[p] # Null /\ Shared(pulls)
      BY DEF Answer, DashInv
    <3>2. more # Null
      <4>1. more = [x \in DOMAIN more |-> more[x]]
        BY DEF More
      <4> HIDE DEF more
      <4> QED BY <4>1 DEF NullIsNoObject
    <3>3. pulls' = [pulls EXCEPT ![p] = more] /\ UNCHANGED <<done, reqs>>
      BY <2>1 DEF GoesOn
    <3> HIDE DEF more
    <3>4. Flights(pulls') = Flights(pulls)
      BY <3>1, <3>2, <3>3 DEF Shared, Flights
    <3> QED BY <3>3, <3>4 DEF WaitInv, Flights
  <2>2. ASSUME NEW got, Settle(p, TRUE, got) PROVE WaitInv'
    BY <2>2, SettleWaits
  <2>3. PICK got : GoesOn(p, got) \/ Settle(p, TRUE, got)
    BY <1>1, PageStep
  <2> QED BY <2>1, <2>2, <2>3
<1>2. CASE Fail(p)
  BY <1>2, SettleWaits DEF Fail
<1> QED BY <1>1, <1>2 DEF Answer

LEMMA WaitNext ==
  ASSUME NullIsNoObject, Unbounded, DashInv, WaitInv, [Next]_vars
  PROVE  WaitInv'
<1>1. CASE UNCHANGED <<pulls, reqs>>
  BY <1>1 DEF WaitInv, Flights
<1>2. CASE Advance
  BY <1>1, <1>2 DEF Advance
<1>3. ASSUME NEW u \in User, DeleteUser(u) \/ DropUsage(u) \/ \E a \in App : RecordUse(u, a)
      PROVE  WaitInv'
  BY <1>1, <1>3 DEF DeleteUser, DropUsage, RecordUse
<1>4. ASSUME NEW p \in PullId, Answer(p) PROVE WaitInv'
  BY <1>4, AnswerWaits
<1>5. ASSUME NEW r \in Request, Serve(r) PROVE WaitInv'
  BY <1>5, TotalsArriveWaits, RankWaits, CountsWaits, RenderWaits DEF Serve
<1>6. ASSUME NEW r \in Request, NEW w \in Wanted, w.of = "all", Open(r, w.llm) PROVE WaitInv'
  BY <1>6, OpenWaits
<1>7. ASSUME NEW r \in Request, NEW w \in Wanted, w.of \in Sections, OpenCard(r, w.of, w.key, w.llm)
      PROVE  WaitInv'
  BY <1>7, OpenCardWaits
<1>8. CASE UNCHANGED vars
  BY <1>1, <1>8 DEF vars
<1> QED BY <1>2, <1>3, <1>4, <1>5, <1>6, <1>7, <1>8 DEF Next

LEMMA WaitInit == Init => WaitInv
<1> SUFFICES ASSUME Init PROVE WaitInv
  OBVIOUS
<1>1. pulls = [p \in PullId |-> Null] /\ reqs = [r \in Request |-> NoPage]
  BY DEF Init
<1>2. Flights(pulls) = {}
  BY <1>1 DEF Flights
<1>3. IsFiniteSet(Flights(pulls))
  BY <1>2, FS_EmptySet
<1> QED BY <1>1, <1>3, FreshPage, FreshSection DEF WaitInv

(* What DashboardTypeOK says of the requests: nobody waits for a pull that  *)
(* has ended, be it that it succeeded, failed or timed out while others     *)
(* were about to join it.                                                   *)
THEOREM NobodyWaitsInVain ==
  ASSUME NullIsNoObject, Unbounded
  PROVE  Spec => []WaitsInFlight
<1>1. WaitInv => WaitsInFlight
  BY DEF WaitInv, Flights, WaitsInFlight
<1>2. WaitInv /\ DashInv /\ [Next]_vars => WaitInv'
  BY WaitNext
<1> QED BY <1>1, <1>2, WaitInit, DashboardInvariant, PTL DEF Spec

------------------------------------------------------------------------------
(* What the proxy lists.                                                    *)

Entry(kind, i) == Source(kind)[i]
Size(kind)     == Len(Source(kind))
Cap(kind)      == MaxPages * PageSize[kind]

LEMMA SourceIs ==
  ASSUME NEW kind \in Kinds
  PROVE  /\ Size(kind) \in Nat /\ DOMAIN Source(kind) = 1..Size(kind)
         /\ \A i \in 1..Size(kind) : Entry(kind, i).at \in Nat
         /\ \A i, j \in 1..Size(kind) : Entry(kind, i) = Entry(kind, j) => i = j
<1>1. CASE kind = "rows"
  <2>1. Source(kind) = Log
    BY <1>1 DEF Source
  <2>2. Len(Log) \in Nat /\ DOMAIN Log = 1..Len(Log)
    BY LogAssumption
  <2>3. \A i \in 1..Len(Log) : Log[i].at \in Nat
    BY <2>2, LogAssumption
  <2>4. \A i, j \in 1..Len(Log) : Log[i] = Log[j] => i = j
    BY <2>2, LogAssumption DEF IsInjective
  <2> QED BY <2>1, <2>2, <2>3, <2>4 DEF Size, Entry
<1>2. CASE kind = "keys"
  <2>1. Source(kind) = Keys
    BY <1>2 DEF Source
  <2>2. Len(Keys) \in Nat /\ DOMAIN Keys = 1..Len(Keys)
    BY LogAssumption
  <2>3. \A i \in 1..Len(Keys) : Keys[i].at \in Nat
    BY <2>2, LogAssumption
  <2>4. \A i, j \in 1..Len(Keys) : Keys[i] = Keys[j] => i = j
    BY <2>2, LogAssumption
  <2> QED BY <2>1, <2>2, <2>3, <2>4 DEF Size, Entry
<1> QED BY <1>1, <1>2 DEF Kinds

LEMMA LogIs ==
  /\ Len(Log) \in Nat /\ DOMAIN Log = 1..Len(Log)
  /\ \A i \in 1..Len(Log) : Log[i].at \in Nat /\ Log[i].spend \in Nat /\ UtcDay(i) \in Int
  /\ \A i, j \in 1..Len(Log) : Log[i] = Log[j] => i = j
<1>1. Len(Log) \in Nat /\ DOMAIN Log = 1..Len(Log)
  BY LogAssumption
<1>2. \A i \in 1..Len(Log) : Log[i].at \in Nat /\ Log[i].spend \in Nat
  BY <1>1, LogAssumption
<1>3. Step \in Nat \ {0}
  BY ActivityAssumption
<1>4. \A i \in 1..Len(Log) : UtcDay(i) \in Int
  BY <1>2, <1>3, DivBounds DEF UtcDay
<1>5. \A i, j \in 1..Len(Log) : Log[i] = Log[j] => i = j
  BY <1>1, LogAssumption DEF IsInjective
<1> QED BY <1>1, <1>2, <1>4, <1>5

LEMMA UsageDays ==
  /\ \A t : UsageDay(t) \in Nat
  /\ \A t, u \in Int : t <= u => UsageDay(t) <= UsageDay(u)
<1> DEFINE before(t) == {d \in DOMAIN Midnight : Midnight[d] <= t}
<1>1. IsFiniteSet(DOMAIN Midnight) /\ \A d \in DOMAIN Midnight : Midnight[d] \in Int
  BY ActivityAssumption, FS_Interval
<1>2. \A t : IsFiniteSet(before(t))
  BY <1>1, FS_Subset
<1>3. \A t, u \in Int : t <= u => before(t) \subseteq before(u)
  BY <1>1
<1>4. \A t : Cardinality(before(t)) \in Nat
  BY <1>2, FS_CardinalityType
<1> HIDE DEF before
<1>5. \A t, u \in Int : t <= u => Cardinality(before(t)) <= Cardinality(before(u))
  BY <1>2, <1>3, FS_Subset
<1> QED BY <1>4, <1>5 DEF UsageDay, before

(* The rank of a place among some places.                                   *)
Rank1(V, i) == Cardinality({j \in V : j <= i})

LEMMA RankGrows ==
  ASSUME NEW n \in Nat, NEW W \in SUBSET (1..n), NEW V \in SUBSET W, NEW i
  PROVE  Rank1(V, i) \in Nat /\ Rank1(W, i) \in Nat /\ Rank1(V, i) <= Rank1(W, i)
<1> DEFINE D == 1..n
           v == {j \in V : j <= i}
           w == {j \in W : j <= i}
<1>1. IsFiniteSet(D)
  BY FS_Interval
<1>4. w \in SUBSET D /\ v \in SUBSET w
  OBVIOUS
<1> HIDE DEF D, v, w
<1>2. IsFiniteSet(w) /\ IsFiniteSet(v) /\ Cardinality(v) <= Cardinality(w)
  BY <1>1, <1>4, FS_Subset
<1>3. Cardinality(v) \in Nat /\ Cardinality(w) \in Nat
  BY <1>2, FS_CardinalityType
<1> QED BY <1>2, <1>3 DEF Rank1, v, w

(* One page of what is listed at some places, from the m-th to the x-th, is *)
(* added to what was read before.                                           *)
NoRepeats(v) == \A j, k \in 1..Len(v) : v[j] = v[k] => j = k
Among(v, s, V, lo, hi) == \A y \in Range(v) : \E i \in V : Rank1(V, i) \in lo..hi /\ y = s[i]
PageOf(s, V, m, x) == LET q == Picked(s, V) IN SubSeq(q, m + 1, Min({x, Len(q)}))

LEMMA PageHas ==
  ASSUME NEW s, NEW n \in Nat, DOMAIN s = 1..n, \A i, j \in 1..n : s[i] = s[j] => i = j,
         NEW V \in SUBSET (1..n), NEW m \in Nat, NEW x \in Nat, m <= x
  PROVE  LET p == PageOf(s, V, m, x) IN
         /\ IsSequence(p) /\ NoRepeats(p) /\ Among(p, s, V, m + 1, x)
         /\ \A i \in V : Rank1(V, i) \in (m + 1)..x => s[i] \in Range(p)
<1> DEFINE q == Picked(s, V)
           a == Ascending(V)
           l == Cardinality(V)
           k == Min({x, Len(q)})
           p == SubSeq(q, m + 1, k)
           L == Len(p)
<1>1. /\ l \in Nat /\ Len(q) = l /\ q = [j \in 1..l |-> q[j]]
      /\ \A j \in 1..l : a[j] \in V /\ q[j] = s[a[j]]
      /\ \A i, j \in 1..l : i < j => a[i] < a[j]
  BY PickedPlaces
<1>2. /\ \A j \in 1..l : Rank1(V, a[j]) = j
      /\ \A i \in V : Rank1(V, i) \in 1..l /\ a[Rank1(V, i)] = i
  <2>1. V \in SUBSET Int /\ IsFiniteSet(V)
    <3> DEFINE D == 1..n
    <3>1. IsFiniteSet(D) /\ V \in SUBSET D /\ D \subseteq Int
      BY FS_Interval
    <3> HIDE DEF D
    <3> QED BY <3>1, FS_Subset
  <2> QED BY <2>1, AscendingOrder DEF Rank1
<1> HIDE DEF q, a, l
<1>3. k \in Nat /\ k <= l /\ k <= x /\ (k = x \/ k = l)
  <2> DEFINE y == IF x <= l THEN x ELSE l
  <2>1. y \in {x, l} /\ \A z \in {x, l} : y <= z
    BY <1>1
  <2>2. k = CHOOSE u \in {x, l} : \A z \in {x, l} : u <= z
    BY <1>1 DEF Min
  <2> HIDE DEF k, y
  <2>3. k \in {x, l} /\ \A z \in {x, l} : k <= z
    BY <2>1, <2>2
  <2> QED BY <1>1, <2>3
<1> HIDE DEF k
<1>4. /\ IsSequence(p) /\ L = IF m + 1 <= k THEN k - (m + 1) + 1 ELSE 0
      /\ \A j \in 1..L : p[j] = q[(m + 1) + j - 1] /\ (m + 1) + j - 1 \in 1..l
  <2>1. IsSequence(q) /\ m + 1 \in Nat \ {0} /\ k <= Len(q)
    BY <1>1, <1>3 DEF IsSequence
  <2> QED BY <1>1, <1>3, <2>1, PartsAre
<1>5. DOMAIN p = 1..L /\ L \in Nat
  BY <1>4, SequencesGrow DEF IsSequence
<1> HIDE DEF p, L
<1>6. \A j \in 1..L : /\ p[j] = s[a[m + j]] /\ m + j \in 1..l /\ m + j <= k
                      /\ a[m + j] \in V /\ a[m + j] \in 1..n /\ Rank1(V, a[m + j]) = m + j
  <2> SUFFICES ASSUME NEW j \in 1..L
               PROVE  /\ p[j] = s[a[m + j]] /\ m + j \in 1..l /\ m + j <= k
                      /\ a[m + j] \in V /\ a[m + j] \in 1..n /\ Rank1(V, a[m + j]) = m + j
    OBVIOUS
  <2>1. (m + 1) + j - 1 = m + j
    BY <1>5
  <2>2. p[j] = q[m + j] /\ m + j \in 1..l
    BY <1>4, <2>1
  <2>3. m + j <= k
    BY <1>3, <1>4, <1>5
  <2>4. a[m + j] \in V /\ q[m + j] = s[a[m + j]] /\ Rank1(V, a[m + j]) = m + j
    BY <1>1, <1>2, <2>2
  <2> QED BY <2>2, <2>3, <2>4
<1>7. NoRepeats(p)
  <2> SUFFICES ASSUME NEW i \in 1..L, NEW j \in 1..L, p[i] = p[j] PROVE i = j
    BY DEF NoRepeats, L
  <2>1. a[m + i] = a[m + j]
    BY <1>6
  <2>2. m + i = m + j
    BY <1>6, <2>1
  <2> QED BY <1>5, <2>2
<1>8. Among(p, s, V, m + 1, x)
  <2> SUFFICES ASSUME NEW j \in 1..L
               PROVE  \E i \in V : Rank1(V, i) \in (m + 1)..x /\ p[j] = s[i]
    BY <1>5 DEF Among, Range
  <2>1. m + j \in (m + 1)..x
    BY <1>3, <1>5, <1>6
  <2> QED BY <1>6, <2>1
<1>9. ASSUME NEW i \in V, Rank1(V, i) \in (m + 1)..x PROVE s[i] \in Range(p)
  <2> DEFINE r == Rank1(V, i)
             j == r - m
  <2>1. r \in 1..l /\ a[r] = i /\ r \in Nat /\ m + 1 <= r /\ r <= x
    BY <1>1, <1>2, <1>9
  <2> HIDE DEF r
  <2>2. r <= k
    BY <1>1, <1>3, <2>1
  <2>3. j \in 1..L /\ m + j = r
    BY <1>3, <1>4, <2>1, <2>2
  <2> HIDE DEF j
  <2>4. p[j] = s[i]
    BY <1>6, <2>1, <2>3
  <2> QED BY <1>5, <2>3, <2>4 DEF Range
<1> QED BY <1>4, <1>7, <1>8, <1>9 DEF p, PageOf, q, k

LEMMA PageAdds ==
  ASSUME NEW s, NEW n \in Nat, DOMAIN s = 1..n, \A i, j \in 1..n : s[i] = s[j] => i = j,
         NEW V \in SUBSET (1..n), NEW m \in Nat, NEW x \in Nat, m <= x,
         NEW rows1, IsSequence(rows1)
  PROVE  LET p == PageOf(s, V, m, x)  got == rows1 \o p IN
         /\ IsSequence(got) /\ Range(got) = Range(rows1) \cup Range(p)
         /\ NoRepeats(rows1) /\ Among(rows1, s, V, 1, m) => NoRepeats(got) /\ Among(got, s, V, 1, x)
<1> DEFINE p == PageOf(s, V, m, x)
           got == rows1 \o p
           a == Len(rows1)
           b == Len(p)
<1>1. IsSequence(p) /\ NoRepeats(p) /\ Among(p, s, V, m + 1, x)
  BY PageHas
<1> HIDE DEF p
<1>2. a \in Nat /\ b \in Nat /\ DOMAIN rows1 = 1..a /\ DOMAIN p = 1..b
  BY <1>1, SequencesGrow DEF IsSequence
<1>3. /\ IsSequence(got) /\ Len(got) = a + b /\ DOMAIN got = 1..(a + b)
      /\ \A i \in 1..(a + b) : got[i] = IF i <= a THEN rows1[i] ELSE p[i - a]
  <2> DEFINE S == Range(rows1) \cup Range(p)
  <2>1. rows1 \in Seq(S) /\ p \in Seq(S)
    BY <1>1, <1>2, SequencesAre DEF Range
  <2> HIDE DEF S
  <2>2. got \in Seq(S) /\ Len(got) = a + b
        /\ \A i \in 1..(a + b) : got[i] = IF i <= a THEN rows1[i] ELSE p[i - a]
    BY <2>1, ConcatProperties
  <2> HIDE DEF got
  <2>3. got = [i \in 1..(a + b) |-> got[i]]
    BY <2>2
  <2> QED BY <1>2, <2>2, <2>3 DEF IsSequence
<1> HIDE DEF got, a, b
<1>4. \A i \in 1..a : i \in 1..(a + b) /\ got[i] = rows1[i]
  BY <1>2, <1>3
<1>5. \A j \in 1..b : a + j \in 1..(a + b) /\ got[a + j] = p[j]
  <2> SUFFICES ASSUME NEW j \in 1..b PROVE a + j \in 1..(a + b) /\ got[a + j] = p[j]
    OBVIOUS
  <2> DEFINE i == a + j
  <2>1. i \in 1..(a + b) /\ ~ (i <= a) /\ i - a = j
    BY <1>2
  <2> HIDE DEF i
  <2>2. got[i] = p[i - a]
    BY <1>3, <2>1
  <2> QED BY <2>1, <2>2 DEF i
<1>6. \A i \in 1..(a + b) : i \in 1..a \/ (i - a \in 1..b /\ got[i] = p[i - a])
  <2> SUFFICES ASSUME NEW i \in 1..(a + b), ~ (i <= a) PROVE i - a \in 1..b /\ got[i] = p[i - a]
    BY <1>2
  <2> QED BY <1>2, <1>3
<1>7. Range(got) = Range(rows1) \cup Range(p)
  <2>1. \A y \in Range(got) : y \in Range(rows1) \cup Range(p)
    <3> SUFFICES ASSUME NEW i \in 1..(a + b) PROVE got[i] \in Range(rows1) \cup Range(p)
      BY <1>3 DEF Range
    <3> QED BY <1>2, <1>4, <1>6 DEF Range
  <2>2. \A y \in Range(rows1) : y \in Range(got)
    BY <1>2, <1>3, <1>4 DEF Range
  <2>3. \A y \in Range(p) : y \in Range(got)
    <3> SUFFICES ASSUME NEW y \in Range(p) PROVE y \in Range(got)
      OBVIOUS
    <3>1. PICK j \in 1..b : y = p[j]
      BY <1>2 DEF Range
    <3> DEFINE i == a + j
    <3>2. i \in DOMAIN got /\ got[i] = y
      BY <1>3, <1>5, <3>1
    <3> HIDE DEF i
    <3> QED BY <3>2 DEF Range
  <2> QED BY <2>1, <2>2, <2>3
<1>8. ASSUME NoRepeats(rows1), Among(rows1, s, V, 1, m) PROVE NoRepeats(got) /\ Among(got, s, V, 1, x)
  <2>1. \A i \in V : i \in 1..n /\ Rank1(V, i) \in Nat
    BY RankGrows
  <2>2. ASSUME NEW i \in 1..a, NEW j \in 1..b PROVE rows1[i] # p[j]
    <3>1. rows1[i] \in Range(rows1) /\ p[j] \in Range(p)
      BY <1>2 DEF Range
    <3>2. PICK u \in V : Rank1(V, u) \in 1..m /\ rows1[i] = s[u]
      BY <1>8, <3>1 DEF Among
    <3>3. PICK v \in V : Rank1(V, v) \in (m + 1)..x /\ p[j] = s[v]
      BY <1>1, <3>1 DEF Among
    <3>4. u # v
      BY <2>1, <3>2, <3>3
    <3> QED BY <2>1, <3>2, <3>3, <3>4
  <2>3. NoRepeats(got)
    <3> SUFFICES ASSUME NEW i \in 1..(a + b), NEW j \in 1..(a + b), got[i] = got[j] PROVE i = j
      BY <1>3 DEF NoRepeats
    <3>1. CASE i \in 1..a /\ j \in 1..a
      BY <1>4, <1>8, <3>1 DEF NoRepeats, a
    <3>2. CASE i \in 1..a /\ j \notin 1..a
      BY <1>4, <1>6, <2>2, <3>2
    <3>3. CASE i \notin 1..a /\ j \in 1..a
      BY <1>4, <1>6, <2>2, <3>3
    <3>4. CASE i \notin 1..a /\ j \notin 1..a
      <4>1. i - a \in 1..b /\ j - a \in 1..b /\ p[i - a] = p[j - a]
        BY <1>6, <3>4
      <4>2. i - a = j - a
        BY <1>1, <4>1 DEF NoRepeats, b
      <4> QED BY <1>2, <4>2
    <3> QED BY <3>1, <3>2, <3>3, <3>4
  <2>4. Among(got, s, V, 1, x)
    <3> SUFFICES ASSUME NEW y \in Range(got) PROVE \E i \in V : Rank1(V, i) \in 1..x /\ y = s[i]
      BY DEF Among
    <3>1. CASE y \in Range(rows1)
      <4>1. PICK i \in V : Rank1(V, i) \in 1..m /\ y = s[i]
        BY <1>8, <3>1 DEF Among
      <4> QED BY <4>1
    <3>2. CASE y \in Range(p)
      <4>1. PICK i \in V : Rank1(V, i) \in (m + 1)..x /\ y = s[i]
        BY <1>1, <3>2 DEF Among
      <4> QED BY <4>1
    <3> QED BY <1>7, <3>1, <3>2
  <2> QED BY <2>3, <2>4
<1> QED BY <1>3, <1>7, <1>8 DEF got, p

------------------------------------------------------------------------------
(* The sums of the log.                                                     *)

Countable   == 0..Len(Ln)
Measured(x) == x.spend \in Countable /\ x.tokens \in Countable
Spends == [i \in DOMAIN Log |-> Log[i].spend]
Tokens == [i \in DOMAIN Log |-> Log[i].tokens]

LEMMA LogSums ==
  /\ DOMAIN Spends = DOMAIN Log /\ DOMAIN Tokens = DOMAIN Log
  /\ IsFiniteSet(DOMAIN Log) /\ Summable(Spends) /\ Summable(Tokens)
  /\ \A i \in DOMAIN Log : Spends[i] \in Nat /\ Tokens[i] \in Nat /\ Spends[i] = Log[i].spend /\ Tokens[i] = Log[i].tokens
  /\ \A S \in SUBSET DOMAIN Log : SumOf(Terms(Spends, S)) \in Countable /\ SumOf(Terms(Tokens, S)) \in Countable
<1>1. DOMAIN Log = 1..Len(Log) /\ Len(Log) \in Nat
  BY LogIs
<1>2. IsFiniteSet(DOMAIN Log)
  BY <1>1, FS_Interval
<1>3. \A i \in DOMAIN Log : Log[i].spend \in Nat /\ Log[i].tokens \in Nat
  BY LogAssumption
<1>4. /\ DOMAIN Spends = DOMAIN Log /\ DOMAIN Tokens = DOMAIN Log
      /\ \A i \in DOMAIN Log : Spends[i] \in Nat /\ Tokens[i] \in Nat /\ Spends[i] = Log[i].spend /\ Tokens[i] = Log[i].tokens
  BY <1>3 DEF Spends, Tokens
<1>5. Summable(Spends) /\ Summable(Tokens)
  BY <1>2, <1>4 DEF Summable
<1>6. SumOf(Spends) \in Countable /\ SumOf(Tokens) \in Countable
  <2>1. SumOf(Spends) \in Nat /\ SumOf(Tokens) \in Nat
    <3> DEFINE D == DOMAIN Log
    <3>1. D \in SUBSET DOMAIN Spends /\ D \in SUBSET DOMAIN Tokens /\ D \in SUBSET D
      BY <1>4
    <3>2. SumOf(Terms(Spends, D)) \in Nat /\ SumOf(Terms(Tokens, D)) \in Nat
      BY <1>2, <1>4, <3>1, SumGrows
    <3>3. Terms(Spends, D) = Spends /\ Terms(Tokens, D) = Tokens
      BY DEF Terms, Spends, Tokens
    <3> QED BY <3>2, <3>3
  <2>2. Len(Ln) \in Nat /\ MaxPages \in Nat \ {0}
    BY ActivityAssumption, DashboardAssumption
  <2>3. MaxPages * SumOf(Spends) <= Len(Ln) /\ MaxPages * SumOf(Tokens) <= Len(Ln)
    BY <2>2, LnAssumption DEF Spends, Tokens
  <2>4. ASSUME NEW x \in Nat, NEW m \in Nat \ {0} PROVE x <= m * x
    OBVIOUS
  <2>5. SumOf(Spends) <= MaxPages * SumOf(Spends) /\ SumOf(Tokens) <= MaxPages * SumOf(Tokens)
    BY <2>1, <2>2, <2>4
  <2>6. ASSUME NEW x \in Nat, NEW u, u = MaxPages * x, u <= Len(Ln), x <= u PROVE x \in 0..Len(Ln)
    <3>1. u \in Int
      BY <2>2, <2>6
    <3>2. x <= Len(Ln)
      BY <2>2, <2>6, <3>1
    <3> QED BY <2>2, <3>2
  <2>7. SumOf(Spends) \in 0..Len(Ln)
    BY <2>1, <2>3, <2>5, <2>6
  <2>8. SumOf(Tokens) \in 0..Len(Ln)
    BY <2>1, <2>3, <2>5, <2>6
  <2> QED BY <2>7, <2>8 DEF Countable
<1>7. Terms(Spends, DOMAIN Log) = Spends /\ Terms(Tokens, DOMAIN Log) = Tokens
  BY DEF Terms, Spends, Tokens
<1>8. ASSUME NEW S \in SUBSET DOMAIN Log
      PROVE  SumOf(Terms(Spends, S)) \in Countable /\ SumOf(Terms(Tokens, S)) \in Countable
  <2> DEFINE D == DOMAIN Log
  <2>1. D \in SUBSET DOMAIN Spends /\ D \in SUBSET DOMAIN Tokens /\ S \in SUBSET D
        /\ IsFiniteSet(DOMAIN Spends) /\ IsFiniteSet(DOMAIN Tokens)
        /\ (\A i \in DOMAIN Spends : Spends[i] \in Nat) /\ (\A i \in DOMAIN Tokens : Tokens[i] \in Nat)
    BY <1>2, <1>4
  <2> HIDE DEF D
  <2>2. SumOf(Terms(Spends, S)) <= SumOf(Terms(Spends, D)) /\ SumOf(Terms(Tokens, S)) <= SumOf(Terms(Tokens, D))
    BY <2>1, SumGrows
  <2>3. SumOf(Terms(Spends, S)) \in Nat /\ SumOf(Terms(Tokens, S)) \in Nat
    <3>1. S \in SUBSET DOMAIN Spends /\ S \in SUBSET DOMAIN Tokens /\ S \in SUBSET S
      BY <2>1
    <3> QED BY <2>1, <3>1, SumGrows
  <2>4. SumOf(Terms(Spends, D)) \in Countable /\ SumOf(Terms(Tokens, D)) \in Countable
    BY <1>6, <1>7 DEF D
  <2>5. Len(Ln) \in Nat
    BY ActivityAssumption
  <2>6. PICK x \in Nat, y \in Nat, x1 \in Nat, y1 \in Nat :
          /\ x = SumOf(Terms(Spends, S)) /\ y = SumOf(Terms(Tokens, S))
          /\ x1 = SumOf(Terms(Spends, D)) /\ y1 = SumOf(Terms(Tokens, D))
    BY <2>3, <2>4 DEF Countable
  <2> QED BY <2>2, <2>4, <2>5, <2>6 DEF Countable
<1> QED BY <1>2, <1>4, <1>5, <1>8

LEMMA WholeLog == SumOf(Spends) \in Nat /\ SumOf(Tokens) \in Nat
<1> DEFINE D == DOMAIN Log
<1>1. D \in SUBSET DOMAIN Spends /\ D \in SUBSET DOMAIN Tokens /\ D \in SUBSET D
      /\ (\A i \in DOMAIN Spends : Spends[i] \in Nat) /\ (\A i \in DOMAIN Tokens : Tokens[i] \in Nat)
      /\ IsFiniteSet(DOMAIN Spends) /\ IsFiniteSet(DOMAIN Tokens)
  BY LogSums
<1>2. SumOf(Terms(Spends, D)) \in Nat /\ SumOf(Terms(Tokens, D)) \in Nat
  BY <1>1, SumGrows
<1>3. Terms(Spends, D) = Spends /\ Terms(Tokens, D) = Tokens
  BY DEF Terms, Spends, Tokens
<1> QED BY <1>2, <1>3

(* What is counted of rows that are taken from the log is a sum of the log. *)
LEMMA TotalIs ==
  ASSUME NEW log, NEW of, IsFiniteSet(of), NEW a \in [of -> DOMAIN Log],
         \A i, j \in of : a[i] = a[j] => i = j, \A i \in of : log[i] = Log[a[i]]
  PROVE  /\ Total(log, of).spend = SumOf(Terms(Spends, {a[i] : i \in of}))
         /\ Total(log, of).tokens = SumOf(Terms(Tokens, {a[i] : i \in of}))
         /\ Measured(Total(log, of))
<1>1. a \in [of -> DOMAIN Spends] /\ a \in [of -> DOMAIN Tokens] /\ Summable(Spends) /\ Summable(Tokens)
  BY LogSums
<1>2. /\ SumOf([i \in of |-> Spends[a[i]]]) = SumOf(Terms(Spends, {a[i] : i \in of}))
      /\ SumOf([i \in of |-> Tokens[a[i]]]) = SumOf(Terms(Tokens, {a[i] : i \in of}))
  BY <1>1, SumMoves
<1>3. \A i \in of : Spends[a[i]] = log[i].spend /\ Tokens[a[i]] = log[i].tokens
  BY LogSums
<1>4. /\ [i \in of |-> Spends[a[i]]] = [i \in of |-> log[i].spend]
      /\ [i \in of |-> Tokens[a[i]]] = [i \in of |-> log[i].tokens]
  BY <1>3
<1>5. {a[i] : i \in of} \in SUBSET DOMAIN Log
  OBVIOUS
<1>6. /\ Total(log, of).spend = SumOf([i \in of |-> log[i].spend])
      /\ Total(log, of).tokens = SumOf([i \in of |-> log[i].tokens])
  BY DEF Total
<1> DEFINE S == {a[i] : i \in of}
<1>7. Total(log, of).spend = SumOf(Terms(Spends, S)) /\ Total(log, of).tokens = SumOf(Terms(Tokens, S))
  BY <1>2, <1>4, <1>6
<1> HIDE DEF S
<1>8. Measured(Total(log, of))
  BY <1>5, <1>7, LogSums DEF Measured, S
<1> QED BY <1>7, <1>8 DEF S

(* What a list of rows weighs: no more than so many times the whole log.    *)
Weighs(v, m) ==
  /\ \A j \in 1..Len(v) : v[j].spend \in Nat /\ v[j].tokens \in Nat
  /\ SumOf([j \in 1..Len(v) |-> v[j].spend]) <= m * SumOf(Spends)
  /\ SumOf([j \in 1..Len(v) |-> v[j].tokens]) <= m * SumOf(Tokens)

LEMMA SumsJoin ==
  ASSUME NEW f, NEW a \in Nat, NEW b \in Nat, DOMAIN f = 1..(a + b), f = Terms(f, 1..(a + b)),
         \A i \in 1..(a + b) : f[i] \in Int
  PROVE  SumOf(f) = SumOf([i \in 1..a |-> f[i]]) + SumOf([i \in 1..b |-> f[a + i]])
<1> DEFINE D == 1..(a + b)
           S == 1..a
           T == {a + i : i \in 1..b}
           h == [i \in 1..b |-> a + i]
<1>1. IsFiniteSet(D)
  BY FS_Interval
<1>2. Summable(f)
  BY <1>1 DEF Summable
<1>3. S \in SUBSET D /\ T \in SUBSET D /\ S \cap T = {}
  OBVIOUS
<1>4. S \cup T = D
  <2>1. \A i \in D : i \in S \cup T
    <3> SUFFICES ASSUME NEW i \in D, ~ (i <= a) PROVE i \in T
      OBVIOUS
    <3>1. i - a \in 1..b /\ i = a + (i - a)
      OBVIOUS
    <3> QED BY <3>1
  <2> QED BY <1>3, <2>1
<1>5. S \in SUBSET DOMAIN f /\ T \in SUBSET DOMAIN f
  BY <1>3
<1>6. Terms(f, S) = [i \in 1..a |-> f[i]]
  BY DEF Terms
<1>7. SumOf([i \in 1..b |-> f[a + i]]) = SumOf(Terms(f, T))
  <2> DEFINE B == 1..b
  <2>1. IsFiniteSet(B)
    BY FS_Interval
  <2>2. h \in [B -> DOMAIN f] /\ \A i, j \in B : h[i] = h[j] => i = j
    OBVIOUS
  <2>3. {h[i] : i \in B} = T /\ [i \in B |-> f[h[i]]] = [i \in 1..b |-> f[a + i]]
    OBVIOUS
  <2> HIDE DEF B, h, T
  <2>4. SumOf([i \in B |-> f[h[i]]]) = SumOf(Terms(f, {h[i] : i \in B}))
    BY <1>2, <2>1, <2>2, SumMoves
  <2> QED BY <2>3, <2>4
<1> HIDE DEF S, T
<1>8. SumOf(Terms(f, S \cup T)) = SumOf(Terms(f, S)) + SumOf(Terms(f, T))
  BY <1>2, <1>3, <1>5, SumSplits
<1> QED BY <1>4, <1>6, <1>7, <1>8

(* Another list adds its own weight.                                        *)
LEMMA WeightsAdd ==
  ASSUME NEW v, IsSequence(v), NEW p, IsSequence(p), NEW m \in Nat, Weighs(v, m), Weighs(p, 1)
  PROVE  Weighs(v \o p, m + 1)
<1> DEFINE a == Len(v)
           b == Len(p)
           got == v \o p
           X == SumOf(Spends)
           Y == SumOf(Tokens)
           f == [j \in 1..(a + b) |-> got[j].spend]
           g == [j \in 1..(a + b) |-> got[j].tokens]
<1>1. a \in Nat /\ b \in Nat /\ DOMAIN v = 1..a /\ DOMAIN p = 1..b
  BY SequencesGrow DEF IsSequence
<1>2. Len(got) = a + b /\ \A i \in 1..(a + b) : got[i] = IF i <= a THEN v[i] ELSE p[i - a]
  <2> DEFINE S == Range(v) \cup Range(p)
  <2>1. v \in Seq(S) /\ p \in Seq(S)
    BY <1>1, SequencesAre DEF Range
  <2> HIDE DEF S
  <2> QED BY <2>1, ConcatProperties
<1> HIDE DEF a, b, got
<1>3. \A i \in 1..a : i \in 1..(a + b) /\ got[i] = v[i]
  BY <1>1, <1>2
<1>4. \A j \in 1..b : a + j \in 1..(a + b) /\ got[a + j] = p[j]
  <2> SUFFICES ASSUME NEW j \in 1..b PROVE a + j \in 1..(a + b) /\ got[a + j] = p[j]
    OBVIOUS
  <2> DEFINE i == a + j
  <2>1. i \in 1..(a + b) /\ ~ (i <= a) /\ i - a = j
    BY <1>1
  <2> HIDE DEF i
  <2>2. got[i] = p[i - a]
    BY <1>2, <2>1
  <2> QED BY <2>1, <2>2 DEF i
<1>5. /\ \A i \in 1..a : v[i].spend \in Nat /\ v[i].tokens \in Nat
      /\ \A i \in 1..b : p[i].spend \in Nat /\ p[i].tokens \in Nat
      /\ SumOf([j \in 1..a |-> v[j].spend]) <= m * X /\ SumOf([j \in 1..a |-> v[j].tokens]) <= m * Y
      /\ SumOf([j \in 1..b |-> p[j].spend]) <= 1 * X /\ SumOf([j \in 1..b |-> p[j].tokens]) <= 1 * Y
  BY DEF Weighs, a, b
<1>6. \A i \in 1..(a + b) : got[i].spend \in Nat /\ got[i].tokens \in Nat
  <2> SUFFICES ASSUME NEW i \in 1..(a + b) PROVE got[i].spend \in Nat /\ got[i].tokens \in Nat
    OBVIOUS
  <2>1. CASE i <= a
    <3>1. i \in 1..a
      BY <1>1, <2>1
    <3> QED BY <1>3, <1>5, <3>1
  <2>2. CASE ~ (i <= a)
    <3>1. i - a \in 1..b /\ got[i] = p[i - a]
      BY <1>1, <1>2, <2>2
    <3> QED BY <1>5, <3>1
  <2> QED BY <2>1, <2>2
<1>7. X \in Nat /\ Y \in Nat
  BY WholeLog
<1>8. /\ SumOf(f) = SumOf([j \in 1..a |-> v[j].spend]) + SumOf([j \in 1..b |-> p[j].spend])
      /\ SumOf(g) = SumOf([j \in 1..a |-> v[j].tokens]) + SumOf([j \in 1..b |-> p[j].tokens])
  <2>1. /\ DOMAIN f = 1..(a + b) /\ f = Terms(f, 1..(a + b)) /\ \A i \in 1..(a + b) : f[i] \in Int
        /\ DOMAIN g = 1..(a + b) /\ g = Terms(g, 1..(a + b)) /\ \A i \in 1..(a + b) : g[i] \in Int
    BY <1>6 DEF Terms
  <2>2. /\ [i \in 1..a |-> f[i]] = [j \in 1..a |-> v[j].spend] /\ [i \in 1..b |-> f[a + i]] = [j \in 1..b |-> p[j].spend]
        /\ [i \in 1..a |-> g[i]] = [j \in 1..a |-> v[j].tokens] /\ [i \in 1..b |-> g[a + i]] = [j \in 1..b |-> p[j].tokens]
    BY <1>3, <1>4
  <2> HIDE DEF f, g
  <2>3. /\ SumOf(f) = SumOf([i \in 1..a |-> f[i]]) + SumOf([i \in 1..b |-> f[a + i]])
        /\ SumOf(g) = SumOf([i \in 1..a |-> g[i]]) + SumOf([i \in 1..b |-> g[a + i]])
    BY <1>1, <2>1, SumsJoin
  <2> QED BY <2>2, <2>3
<1>9. \A i \in 1..a : v[i].spend \in Int /\ v[i].tokens \in Int
  BY <1>5
<1>10. \A i \in 1..b : p[i].spend \in Int /\ p[i].tokens \in Int
  BY <1>5
<1>11. ASSUME NEW n \in Nat, NEW w, \A i \in 1..n : w[i].spend \in Int /\ w[i].tokens \in Int
       PROVE  SumOf([j \in 1..n |-> w[j].spend]) \in Int /\ SumOf([j \in 1..n |-> w[j].tokens]) \in Int
  <2> DEFINE D == 1..n
             u1 == [j \in D |-> w[j].spend]
             u2 == [j \in D |-> w[j].tokens]
  <2>1. IsFiniteSet(D)
    BY FS_Interval
  <2>2. Summable(u1) /\ Summable(u2) /\ D \in SUBSET DOMAIN u1 /\ D \in SUBSET DOMAIN u2
        /\ Terms(u1, D) = u1 /\ Terms(u2, D) = u2
    BY <1>11, <2>1 DEF Summable, Terms
  <2> HIDE DEF u1, u2, D
  <2>3. SumOf(Terms(u1, D)) \in Int /\ SumOf(Terms(u2, D)) \in Int
    BY <2>2, SumTakes
  <2> QED BY <2>2, <2>3 DEF u1, u2, D
<1>12. PICK x1 \in Int, x2 \in Int, y1 \in Int, y2 \in Int :
         /\ x1 = SumOf([j \in 1..a |-> v[j].spend]) /\ x2 = SumOf([j \in 1..a |-> v[j].tokens])
         /\ y1 = SumOf([j \in 1..b |-> p[j].spend]) /\ y2 = SumOf([j \in 1..b |-> p[j].tokens])
  BY <1>1, <1>9, <1>10, <1>11
<1> HIDE DEF f, g, X, Y
<1>13. x1 <= m * X /\ y1 <= 1 * X /\ x2 <= m * Y /\ y2 <= 1 * Y
       /\ SumOf(f) = x1 + y1 /\ SumOf(g) = x2 + y2
  BY <1>5, <1>8, <1>12
<1>14. (m + 1) * X = m * X + X /\ (m + 1) * Y = m * Y + Y /\ m * X \in Int /\ m * Y \in Int
  BY <1>7
<1>15. SumOf(f) <= (m + 1) * X /\ SumOf(g) <= (m + 1) * Y
  BY <1>7, <1>13, <1>14
<1> QED BY <1>2, <1>6, <1>15 DEF Weighs, f, g, X, Y, got

(* A page repeats nothing, so it weighs no more than the log.               *)
LEMMA PageWeighs ==
  ASSUME NEW p, IsSequence(p), NoRepeats(p), \A j \in 1..Len(p) : \E i \in DOMAIN Log : p[j] = Log[i]
  PROVE  Weighs(p, 1)
<1> DEFINE n == Len(p)
           D == 1..n
           a == [j \in D |-> CHOOSE i \in DOMAIN Log : p[j] = Log[i]]
           S == {a[j] : j \in D}
<1>1. n \in Nat /\ IsFiniteSet(D)
  <2>1. n \in Nat
    BY DEF IsSequence
  <2> HIDE DEF n
  <2> QED BY <2>1, FS_Interval
<1>2. a \in [D -> DOMAIN Log] /\ \A j \in D : p[j] = Log[a[j]]
  OBVIOUS
<1> HIDE DEF a
<1>3. \A i, j \in D : a[i] = a[j] => i = j
  BY <1>2 DEF NoRepeats
<1> HIDE DEF D, S
<1>4. /\ SumOf([j \in D |-> Spends[a[j]]]) = SumOf(Terms(Spends, {a[j] : j \in D}))
      /\ SumOf([j \in D |-> Tokens[a[j]]]) = SumOf(Terms(Tokens, {a[j] : j \in D}))
  <2>1. a \in [D -> DOMAIN Spends] /\ a \in [D -> DOMAIN Tokens] /\ Summable(Spends) /\ Summable(Tokens)
    BY <1>2, LogSums
  <2>2. SumOf([j \in D |-> Spends[a[j]]]) = SumOf(Terms(Spends, {a[j] : j \in D}))
    BY <1>1, <1>3, <2>1, SumMoves
  <2>3. SumOf([j \in D |-> Tokens[a[j]]]) = SumOf(Terms(Tokens, {a[j] : j \in D}))
    BY <1>1, <1>3, <2>1, SumMoves
  <2> QED BY <2>2, <2>3
<1>5. S \in SUBSET DOMAIN Log
  BY <1>2 DEF S
<1>6. /\ IsFiniteSet(DOMAIN Spends) /\ (\A i \in DOMAIN Spends : Spends[i] \in Nat)
      /\ IsFiniteSet(DOMAIN Tokens) /\ (\A i \in DOMAIN Tokens : Tokens[i] \in Nat)
      /\ DOMAIN Spends = DOMAIN Log /\ DOMAIN Tokens = DOMAIN Log
      /\ \A i \in DOMAIN Log : Spends[i] = Log[i].spend /\ Tokens[i] = Log[i].tokens
  BY LogSums
<1>7. /\ SumOf(Terms(Spends, S)) <= SumOf(Terms(Spends, DOMAIN Log))
      /\ SumOf(Terms(Tokens, S)) <= SumOf(Terms(Tokens, DOMAIN Log))
  <2> DEFINE T == DOMAIN Log
  <2>1. T \in SUBSET DOMAIN Spends /\ T \in SUBSET DOMAIN Tokens /\ S \in SUBSET T
    BY <1>5, <1>6
  <2> HIDE DEF T
  <2>2. SumOf(Terms(Spends, S)) <= SumOf(Terms(Spends, T)) /\ SumOf(Terms(Tokens, S)) <= SumOf(Terms(Tokens, T))
    BY <1>6, <2>1, SumGrows
  <2> QED BY <2>2 DEF T
<1>8. Terms(Spends, DOMAIN Log) = Spends /\ Terms(Tokens, DOMAIN Log) = Tokens
  BY DEF Terms, Spends, Tokens
<1>9. Total(p, D).spend <= 1 * SumOf(Spends) /\ Total(p, D).tokens <= 1 * SumOf(Tokens)
  <2>1. 1 * SumOf(Spends) = SumOf(Spends) /\ 1 * SumOf(Tokens) = SumOf(Tokens)
    BY WholeLog
  <2>2. Total(p, D).spend = SumOf([j \in D |-> p[j].spend]) /\ Total(p, D).tokens = SumOf([j \in D |-> p[j].tokens])
    BY DEF Total
  <2>3. [j \in D |-> p[j].spend] = [j \in D |-> Spends[a[j]]] /\ [j \in D |-> p[j].tokens] = [j \in D |-> Tokens[a[j]]]
    BY <1>2, <1>6
  <2> QED BY <1>4, <1>7, <1>8, <2>1, <2>2, <2>3 DEF S
<1>10. \A j \in D : p[j].spend \in Nat /\ p[j].tokens \in Nat
  BY <1>2, <1>6
<1> QED BY <1>9, <1>10 DEF Weighs, Total, D

(* Whatever part of it is counted, the table of logarithms reaches as far.  *)
LEMMA WeighedTotals ==
  ASSUME NEW v, IsSequence(v), Weighs(v, MaxPages), NEW of \in SUBSET (1..Len(v))
  PROVE  Measured(Total(v, of))
<1> DEFINE n == Len(v)
           D == 1..n
           f == [j \in D |-> v[j].spend]
           g == [j \in D |-> v[j].tokens]
<1>1. n \in Nat /\ IsFiniteSet(D)
  <2>1. n \in Nat
    BY DEF IsSequence
  <2> HIDE DEF n
  <2> QED BY <2>1, FS_Interval
<1>2. /\ \A j \in D : v[j].spend \in Nat /\ v[j].tokens \in Nat
      /\ SumOf(f) <= MaxPages * SumOf(Spends) /\ SumOf(g) <= MaxPages * SumOf(Tokens)
  BY DEF Weighs
<1>3. Len(Ln) \in Nat /\ MaxPages * SumOf(Spends) \in 0..Len(Ln) /\ MaxPages * SumOf(Tokens) \in 0..Len(Ln)
  BY LnAssumption, ActivityAssumption DEF Spends, Tokens
<1>4. /\ IsFiniteSet(DOMAIN f) /\ (\A j \in DOMAIN f : f[j] \in Nat) /\ D \in SUBSET DOMAIN f /\ Terms(f, D) = f
      /\ IsFiniteSet(DOMAIN g) /\ (\A j \in DOMAIN g : g[j] \in Nat) /\ D \in SUBSET DOMAIN g /\ Terms(g, D) = g
      /\ of \in SUBSET D
  BY <1>1, <1>2 DEF Terms
<1>5. Terms(f, of) = [i \in of |-> v[i].spend] /\ Terms(g, of) = [i \in of |-> v[i].tokens]
  BY <1>4 DEF Terms
<1> HIDE DEF f, g, D
<1>6. of \in SUBSET DOMAIN f /\ of \in SUBSET DOMAIN g /\ of \in SUBSET of
  BY <1>4
<1>7. /\ SumOf(Terms(f, of)) \in Nat /\ SumOf(Terms(g, of)) \in Nat
  BY <1>4, <1>6, SumGrows
<1>8. /\ SumOf(Terms(f, D)) \in Nat /\ SumOf(Terms(f, of)) <= SumOf(Terms(f, D))
      /\ SumOf(Terms(g, D)) \in Nat /\ SumOf(Terms(g, of)) <= SumOf(Terms(g, D))
  BY <1>4, SumGrows
<1>9. SumOf(Terms(f, of)) \in Countable /\ SumOf(Terms(g, of)) \in Countable
  <2>1. PICK x \in Nat, y \in Nat : x = MaxPages * SumOf(Spends) /\ y = MaxPages * SumOf(Tokens)
    BY <1>3
  <2> QED BY <1>2, <1>3, <1>4, <1>7, <1>8, <2>1 DEF Countable
<1> QED BY <1>5, <1>9 DEF Measured, Total

LEMMA NothingWeighs == Weighs(<<>>, 0)
<1> DEFINE f == [j \in {} |-> 0]
<1>1. Len(<<>>) = 0 /\ 1..0 = {}
  OBVIOUS
<1>2. Summable(f) /\ Terms(f, {}) = f
  BY FS_EmptySet DEF Summable, Terms
<1>3. SumOf(f) = 0
  BY <1>2, SumOfNone
<1>4. /\ [j \in 1..0 |-> <<>>[j].spend] = f
      /\ [j \in 1..0 |-> <<>>[j].tokens] = f
  OBVIOUS
<1> HIDE DEF f
<1>5. 0 * SumOf(Spends) = 0 /\ 0 * SumOf(Tokens) = 0
  BY WholeLog
<1> QED BY <1>1, <1>3, <1>4, <1>5 DEF Weighs

LEMMA WeighsMore ==
  ASSUME NEW v, NEW m \in Nat, NEW n \in Nat, m <= n, Weighs(v, m), IsSequence(v)
  PROVE  Weighs(v, n)
<1> DEFINE x == SumOf([j \in 1..Len(v) |-> v[j].spend])
           y == SumOf([j \in 1..Len(v) |-> v[j].tokens])
           D == 1..Len(v)
           f == [j \in D |-> v[j].spend]
           g == [j \in D |-> v[j].tokens]
<1>1. IsFiniteSet(D)
  <2>1. PICK l \in Nat : l = Len(v)
    BY DEF IsSequence
  <2>2. IsFiniteSet(1..l)
    BY FS_Interval
  <2> QED BY <2>1, <2>2
<1>2. \A j \in D : v[j].spend \in Nat /\ v[j].tokens \in Nat
  BY DEF Weighs
<1>3. x \in Nat /\ y \in Nat
  <2>1. /\ IsFiniteSet(DOMAIN f) /\ (\A j \in DOMAIN f : f[j] \in Nat) /\ D \in SUBSET DOMAIN f /\ Terms(f, D) = f
        /\ IsFiniteSet(DOMAIN g) /\ (\A j \in DOMAIN g : g[j] \in Nat) /\ D \in SUBSET DOMAIN g /\ Terms(g, D) = g
        /\ D \in SUBSET D /\ x = SumOf(f) /\ y = SumOf(g)
    BY <1>1, <1>2 DEF Terms
  <2> HIDE DEF f, g, D, x, y
  <2>2. SumOf(Terms(f, D)) \in Nat /\ SumOf(Terms(g, D)) \in Nat
    BY <2>1, SumGrows
  <2> QED BY <2>1, <2>2
<1>4. x <= m * SumOf(Spends) /\ y <= m * SumOf(Tokens)
  BY DEF Weighs
<1> HIDE DEF x, y
<1>5. ASSUME NEW z \in Nat PROVE m * z <= n * z /\ m * z \in Nat /\ n * z \in Nat
  <2>1. PICK d \in Nat : n = m + d
    OBVIOUS
  <2>2. n * z = m * z + d * z /\ d * z \in Nat /\ m * z \in Nat
    BY <2>1
  <2> QED BY <2>2
<1>6. x <= n * SumOf(Spends) /\ y <= n * SumOf(Tokens)
  <2>1. PICK s \in Nat, t \in Nat : s = SumOf(Spends) /\ t = SumOf(Tokens)
    BY WholeLog
  <2>2. m * s <= n * s /\ m * t <= n * t /\ {m * s, n * s, m * t, n * t} \subseteq Nat
    BY <1>5
  <2>3. PICK a1 \in Nat, a2 \in Nat, b1 \in Nat, b2 \in Nat :
          a1 = m * s /\ a2 = n * s /\ b1 = m * t /\ b2 = n * t
    BY <2>2
  <2> QED BY <1>3, <1>4, <2>1, <2>2, <2>3
<1> QED BY <1>2, <1>6 DEF Weighs, x, y

------------------------------------------------------------------------------
(* The caches.                                                              *)

Stored(cache, G) ==
  IsSequence(cache) /\ Len(cache) <= MaxEntries /\ \A i \in 1..Len(cache) : cache[i] \in G

LEMMA FreshStored ==
  ASSUME NEW cache, NEW G, Stored(cache, G), NEW key
  PROVE  Stored(Fresh(cache, key), G)
<1> DEFINE at == {i \in DOMAIN cache : cache[i].key # key \/ now - cache[i].at < CacheTtl}
           p == Picked(cache, at)
<1>1. IsSequence(cache) /\ at \in SUBSET DOMAIN cache /\ DOMAIN cache = 1..Len(cache)
  BY SequencesGrow DEF Stored
<1> HIDE DEF at
<1>2. /\ IsSequence(p) /\ Len(p) <= Len(cache)
      /\ \A k \in 1..Len(p) : Ascending(at)[k] \in at /\ p[k] = cache[Ascending(at)[k]]
  BY <1>1, PickedMembers
<1>3. Fresh(cache, key) = p
  BY DEF Fresh, at
<1> HIDE DEF p
<1>4. Len(p) <= MaxEntries
  BY <1>2, DashboardAssumption DEF IsSequence, Stored
<1> QED BY <1>1, <1>2, <1>3, <1>4 DEF Stored

LEMMA CacheSetStored ==
  ASSUME NEW cache, NEW G, Stored(cache, G), NEW key, NEW value, [key |-> key, value |-> value, at |-> now] \in G
  PROVE  Stored(CacheSet(cache, key, value), G)
<1> DEFINE e == [key |-> key, value |-> value, at |-> now]
           old == {i \in DOMAIN cache : cache[i].key = key}
           set == IF old = {} THEN Append(cache, e)
                  ELSE [i \in DOMAIN cache |-> IF i \in old THEN e ELSE cache[i]]
           at == {i \in DOMAIN set : now - set[i].at < CacheTtl}
           live == Picked(set, at)
           cut == Max({0, Len(live) - MaxEntries})
           kept == SubSeq(live, 1 + cut, Len(live))
<1>1. /\ IsSequence(cache) /\ Len(cache) \in Nat /\ DOMAIN cache = 1..Len(cache)
      /\ \A i \in 1..Len(cache) : cache[i] \in G
  BY SequencesGrow DEF Stored, IsSequence
<1>2. MaxEntries \in Nat
  BY DashboardAssumption
<1>3. CacheSet(cache, key, value) = IF Len(set) <= MaxEntries THEN set ELSE kept
  BY DEF CacheSet
<1> HIDE DEF e
<1>4. IsSequence(set) /\ Len(set) \in Nat /\ \A i \in 1..Len(set) : set[i] \in G
  <2>1. CASE old = {}
    <3>1. set = Append(cache, e)
      BY <2>1
    <3> HIDE DEF set
    <3>2. /\ IsSequence(set) /\ Len(set) = Len(cache) + 1
          /\ set[Len(cache) + 1] = e /\ \A i \in 1..Len(cache) : set[i] = cache[i]
      BY <1>1, <3>1, SequencesGrow
    <3>3. \A i \in 1..(Len(cache) + 1) : i \in 1..Len(cache) \/ i = Len(cache) + 1
      BY <1>1
    <3> QED BY <1>1, <3>2, <3>3 DEF e
  <2>2. CASE old # {}
    <3>1. set = [i \in 1..Len(cache) |-> IF i \in old THEN e ELSE cache[i]]
      <4>1. set = [i \in DOMAIN cache |-> IF i \in old THEN e ELSE cache[i]]
        BY <2>2
      <4> HIDE DEF old, set
      <4> QED BY <1>1, <4>1
    <3> HIDE DEF set, old
    <3>2. Len(set) = Len(cache)
      BY <1>1, <3>1
    <3>3. \A i \in 1..Len(cache) : set[i] \in G
      BY <1>1, <3>1 DEF e
    <3>4. set = [i \in 1..Len(set) |-> set[i]]
      BY <3>1, <3>2
    <3> QED BY <1>1, <3>2, <3>3, <3>4 DEF IsSequence
  <2> QED BY <2>1, <2>2
<1> HIDE DEF set
<1>5. DOMAIN set = 1..Len(set) /\ at \in SUBSET DOMAIN set
  BY <1>4, SequencesGrow
<1> HIDE DEF at
<1>6. IsSequence(live) /\ Len(live) \in Nat /\ \A i \in 1..Len(live) : live[i] \in G
  <2>1. /\ IsSequence(live)
        /\ \A k \in 1..Len(live) : Ascending(at)[k] \in at /\ live[k] = set[Ascending(at)[k]]
    BY <1>4, <1>5, PickedMembers
  <2> HIDE DEF live
  <2> QED BY <1>4, <1>5, <2>1 DEF IsSequence
<1> HIDE DEF live
<1>7. cut \in Nat /\ Len(live) - cut <= MaxEntries
  <2> DEFINE d == Len(live) - MaxEntries
             m == IF d > 0 THEN d ELSE 0
  <2>1. m \in {0, d} /\ \A y \in {0, d} : m >= y
    BY <1>2, <1>6
  <2>2. cut = CHOOSE x \in {0, d} : \A y \in {0, d} : x >= y
    BY DEF Max
  <2>3. cut \in {0, d} /\ \A y \in {0, d} : cut >= y
    <3> HIDE DEF m, d, cut
    <3> QED BY <2>1, <2>2
  <2> HIDE DEF cut
  <2> QED BY <1>2, <1>6, <2>3
<1> HIDE DEF cut
<1>8. Stored(kept, G)
  <2>1. /\ IsSequence(kept) /\ Len(kept) = IF 1 + cut <= Len(live) THEN Len(live) - (1 + cut) + 1 ELSE 0
        /\ \A i \in 1..Len(kept) : kept[i] = live[1 + cut + i - 1] /\ 1 + cut + i - 1 \in 1..Len(live)
    <3>1. 1 + cut \in Nat \ {0} /\ Len(live) <= Len(live)
      BY <1>6, <1>7
    <3> QED BY <1>6, <3>1, PartsAre
  <2> HIDE DEF kept
  <2>2. Len(kept) <= MaxEntries
    BY <1>2, <1>6, <1>7, <2>1
  <2> QED BY <1>6, <2>1, <2>2 DEF Stored
<1> QED BY <1>3, <1>4, <1>8 DEF Stored

------------------------------------------------------------------------------
(* What a pull has read, and what the caches keep of it, as of time t.      *)

Seen(kind, since, t) == {j \in Sought(kind, since) : Entry(kind, j).at <= t}

Begin(pull)   == pull.deadline - Timeout
Started(pull) == pull.deadline \in Nat /\ Begin(pull) \in Clock /\ pull.until = UsageDay(Begin(pull)) + 1
View(pull, t) ==
  {i \in DOMAIN Source(pull.key[1]) :
     /\ Entry(pull.key[1], i).at <= t
     /\ pull.key[1] = "rows" => UtcDay(i) \in (pull.key[2] - 1)..pull.until}
Calm(pull, t) == \A i \in View(pull, t) : Entry(pull.key[1], i).at <= Begin(pull)

(* The first m of what it asks for: nothing but what is there, all that was *)
(* there when it began, and nothing twice unless something came meanwhile.  *)
HasRead(value, pull, m, t) ==
  /\ IsSequence(value)
  /\ \A y \in Range(value) : \E i \in View(pull, t) : y = Entry(pull.key[1], i)
  /\ \A i \in View(pull, Begin(pull)) :
       Rank1(View(pull, t), i) <= m => Entry(pull.key[1], i) \in Range(value)
  /\ Calm(pull, t) => NoRepeats(value) /\ Among(value, Source(pull.key[1]), View(pull, t), 1, m)
PullOk(pull, t) ==
  /\ pull.key \in Kinds \X Int /\ pull.page \in 1..MaxPages
  /\ Started(pull) /\ Begin(pull) <= t
  /\ HasRead(pull.rows, pull, (pull.page - 1) * PageSize[pull.key[1]], t)
  /\ pull.key[1] = "rows" => Weighs(pull.rows, pull.page - 1)
PullsOk(P, t) == \A p \in PullId : P[p] # Null => PullOk(P[p], t)

(* All that a pull was sure to read which began at `from` or later and has  *)
(* ended by t.                                                              *)
Stood(kind, since, from, t) == \A i \in Sought(kind, since) : Entry(kind, i).at \notin (from + 1)..t
Held(kind, value, since, from, t) ==
  /\ IsSequence(value)
  /\ \A y \in Range(value) : \E i \in Seen(kind, since, t) : y = Entry(kind, i)
  /\ \A i \in Sure(kind, since, from, t) : Entry(kind, i) \in Range(value)
  /\ Stood(kind, since, from, t) => NoRepeats(value)
  /\ kind = "rows" => Weighs(value, MaxPages)

EntryOk(e, k, t) ==
  /\ e.key \in Kinds \X Int /\ e.key[1] = k /\ e.at \in Nat /\ e.at <= t
  /\ Held(k, e.value, e.key[2], e.at - Timeout, e.at)
GoodCache(cache, k, t) ==
  IsSequence(cache) /\ Len(cache) <= MaxEntries /\ \A i \in 1..Len(cache) : EntryOk(cache[i], k, t)
DoneOk(D, t) == DOMAIN D = Kinds /\ \A k \in Kinds : GoodCache(D[k], k, t)

(* As time passes.                                                          *)
LEMMA SeenGrows ==
  ASSUME NEW kind \in Kinds, NEW since, NEW t \in Int, NEW u \in Int, t <= u
  PROVE  /\ Seen(kind, since, t) \in SUBSET Seen(kind, since, u)
         /\ Seen(kind, since, u) \in SUBSET (1..Size(kind))
         /\ \A i : Place(kind, since, u, i) = Rank1(Seen(kind, since, u), i)
<1>1. /\ Sought(kind, since) \in SUBSET (1..Size(kind))
      /\ \A i \in 1..Size(kind) : Entry(kind, i).at \in Nat
  BY SourceIs DEF Sought
<1>2. \A i \in Seen(kind, since, t) : i \in Seen(kind, since, u)
  BY <1>1 DEF Seen
<1>3. ASSUME NEW i PROVE Place(kind, since, u, i) = Rank1(Seen(kind, since, u), i)
  <2>1. {j \in Sought(kind, since) : j <= i /\ Source(kind)[j].at <= u} = {j \in Seen(kind, since, u) : j <= i}
    BY DEF Seen, Entry
  <2> QED BY <2>1 DEF Place, Rank1
<1> QED BY <1>1, <1>2, <1>3 DEF Seen

(* What a pull is sure to read is less as it begins earlier and ends later. *)
LEMMA SureShrinks ==
  ASSUME NEW kind \in Kinds, NEW since, NEW from \in Int, NEW before \in Int, before <= from,
         NEW t \in Int, NEW u \in Int, t <= u
  PROVE  /\ Sure(kind, since, before, u) \in SUBSET Sure(kind, since, from, t)
         /\ Stood(kind, since, before, u) => Stood(kind, since, from, t)
<1>1. /\ Seen(kind, since, t) \in SUBSET Seen(kind, since, u)
      /\ Seen(kind, since, u) \in SUBSET (1..Size(kind))
      /\ \A i : Place(kind, since, u, i) = Rank1(Seen(kind, since, u), i)
  BY SeenGrows
<1>2. \A i : Place(kind, since, t, i) = Rank1(Seen(kind, since, t), i)
  <2>1. t <= t
    OBVIOUS
  <2> QED BY <2>1, SeenGrows
<1>3. Cap(kind) \in Nat /\ Size(kind) \in Nat
  BY SourceIs, DashboardAssumption DEF Cap, Kinds
<1>4. \A i : /\ Place(kind, since, t, i) <= Place(kind, since, u, i)
             /\ Place(kind, since, t, i) \in Nat /\ Place(kind, since, u, i) \in Nat
  <2> SUFFICES ASSUME NEW i PROVE /\ Rank1(Seen(kind, since, t), i) <= Rank1(Seen(kind, since, u), i)
                                  /\ Rank1(Seen(kind, since, t), i) \in Nat
                                  /\ Rank1(Seen(kind, since, u), i) \in Nat
    BY <1>1, <1>2
  <2> QED BY <1>1, <1>3, RankGrows
<1>5. /\ Sought(kind, since) \in SUBSET (1..Size(kind))
      /\ \A i \in 1..Size(kind) : Entry(kind, i).at \in Nat
  BY SourceIs DEF Sought
<1>6. ASSUME NEW i \in Sure(kind, since, before, u) PROVE i \in Sure(kind, since, from, t)
  <2>1. i \in Sought(kind, since) /\ Entry(kind, i).at <= before /\ Place(kind, since, u, i) <= Cap(kind)
    BY DEF Sure, Entry, Cap
  <2>2. Entry(kind, i).at <= from
    BY <1>5, <2>1
  <2>3. Place(kind, since, t, i) <= Cap(kind)
    BY <1>3, <1>4, <2>1
  <2> QED BY <2>1, <2>2, <2>3 DEF Sure, Entry, Cap
<1>7. Stood(kind, since, before, u) => Stood(kind, since, from, t)
  <2> SUFFICES ASSUME Stood(kind, since, before, u), NEW i \in Sought(kind, since)
               PROVE  Entry(kind, i).at \notin (from + 1)..t
    BY DEF Stood
  <2>1. Entry(kind, i).at \notin (before + 1)..u /\ Entry(kind, i).at \in Nat
    BY <1>5 DEF Stood
  <2> QED BY <2>1
<1> QED BY <1>6, <1>7

LEMMA HeldLater ==
  ASSUME NEW kind \in Kinds, NEW value, NEW since, NEW from \in Int, NEW before \in Int, before <= from,
         NEW t \in Int, NEW u \in Int, t <= u, Held(kind, value, since, from, t)
  PROVE  Held(kind, value, since, before, u)
<1>1. /\ Seen(kind, since, t) \in SUBSET Seen(kind, since, u)
      /\ Sure(kind, since, before, u) \in SUBSET Sure(kind, since, from, t)
      /\ Stood(kind, since, before, u) => Stood(kind, since, from, t)
  BY SeenGrows, SureShrinks
<1> QED BY <1>1 DEF Held

LEMMA DoneLater ==
  ASSUME NEW D, NEW t \in Nat, NEW u \in Nat, t <= u, DoneOk(D, t)
  PROVE  DoneOk(D, u)
<1> SUFFICES ASSUME NEW k \in Kinds PROVE GoodCache(D[k], k, u)
  BY DEF DoneOk
<1>1. GoodCache(D[k], k, t)
  BY DEF DoneOk
<1>2. ASSUME NEW e, EntryOk(e, k, t) PROVE EntryOk(e, k, u)
  <2>1. e.at \in Nat /\ e.at <= t
    BY <1>2 DEF EntryOk
  <2>2. e.at <= u
    BY <2>1
  <2> QED BY <1>2, <2>2 DEF EntryOk
<1> QED BY <1>1, <1>2 DEF GoodCache

(* A pull's view: it grows, and has all that was there when it began.       *)
LEMMA ViewGrows ==
  ASSUME NEW pull, pull.key[1] \in Kinds, NEW t \in Int, NEW u \in Int, t <= u
  PROVE  /\ View(pull, t) \in SUBSET View(pull, u)
         /\ View(pull, u) \in SUBSET (1..Size(pull.key[1]))
         /\ View(pull, u) \in SUBSET Seen(pull.key[1], pull.key[2], u)
<1> DEFINE kind == pull.key[1]
<1>1. DOMAIN Source(kind) = 1..Size(kind) /\ \A i \in 1..Size(kind) : Entry(kind, i).at \in Nat
  BY SourceIs
<1>2. \A i \in View(pull, t) : i \in View(pull, u)
  BY <1>1 DEF View
<1>3. ASSUME NEW i \in View(pull, u) PROVE i \in Seen(kind, pull.key[2], u)
  <2>1. i \in DOMAIN Source(kind) /\ Entry(kind, i).at <= u
    BY DEF View
  <2>2. ASSUME kind = "rows" PROVE UtcDay(i) >= pull.key[2] - 1
    BY <2>2 DEF View
  <2> QED BY <2>1, <2>2 DEF Seen, Sought
<1> QED BY <1>1, <1>2, <1>3 DEF View

LEMMA BeganWith ==
  ASSUME NEW pull, pull.key \in Kinds \X Int, Started(pull),
         NEW i \in Sought(pull.key[1], pull.key[2]), Entry(pull.key[1], i).at <= Begin(pull)
  PROVE  i \in View(pull, Begin(pull))
<1> DEFINE kind == pull.key[1]
           start == Begin(pull)
<1>1. start \in Clock /\ start \in Nat /\ pull.until = UsageDay(start) + 1 /\ kind \in Kinds
  BY DashboardAssumption DEF Started
<1>2. i \in DOMAIN Source(kind) /\ i \in 1..Size(kind)
  BY <1>1, SourceIs DEF Sought
<1>3. Entry(kind, i).at \in Nat
  BY <1>1, <1>2, SourceIs
<1>4. ASSUME kind = "rows" PROVE UtcDay(i) \in (pull.key[2] - 1)..pull.until
  <2>1. Entry(kind, i) = Log[i] /\ Step \in Nat \ {0}
    BY <1>4, ActivityAssumption DEF Entry, Source
  <2> DEFINE x == Entry(kind, i).at
  <2>2. x \in Int /\ start \in Int /\ x <= start
    BY <1>1, <1>3
  <2>3. UtcDay(i) = x \div Step
    BY <2>1 DEF UtcDay
  <2> HIDE DEF x, start
  <2>4. x \div Step <= start \div Step
    BY <2>1, <2>2, DivGrows
  <2>5. x \div Step \in Int /\ start \div Step \in Int
    BY <2>1, <2>2, DivBounds
  <2>6. start \div Step <= pull.until /\ pull.until \in Int
    <3>1. start \div Step <= UsageDay(start) + 1
      BY <1>1, LogAssumption DEF start
    <3> QED BY <1>1, <3>1, UsageDays
  <2>7. UtcDay(i) >= pull.key[2] - 1 /\ pull.key[2] \in Int
    BY <1>4 DEF Sought
  <2> QED BY <2>3, <2>4, <2>5, <2>6, <2>7
<1> QED BY <1>2, <1>4 DEF View

LEMMA ReadLater ==
  ASSUME NEW pull, pull.key[1] \in Kinds, NEW value, NEW m \in Int, NEW t \in Nat, NEW u \in Nat, t <= u,
         Begin(pull) \in Nat, Begin(pull) <= t, HasRead(value, pull, m, t)
  PROVE  HasRead(value, pull, m, u)
<1> DEFINE kind == pull.key[1]
           V == View(pull, t)
           W == View(pull, u)
           B == View(pull, Begin(pull))
           n == Size(kind)
<1>1. V \in SUBSET W /\ W \in SUBSET (1..n) /\ n \in Nat
  <2>1. t \in Int /\ u \in Int
    OBVIOUS
  <2>2. V \in SUBSET W /\ W \in SUBSET (1..n)
    BY <2>1, ViewGrows
  <2> QED BY <2>2, SourceIs
<1>2. \A i : Rank1(V, i) \in Nat /\ Rank1(W, i) \in Nat /\ Rank1(V, i) <= Rank1(W, i)
  <2> SUFFICES ASSUME NEW i
               PROVE  Rank1(V, i) \in Nat /\ Rank1(W, i) \in Nat /\ Rank1(V, i) <= Rank1(W, i)
    OBVIOUS
  <2> HIDE DEF V, W, n
  <2> QED BY <1>1, RankGrows
<1>3. ASSUME Calm(pull, u) PROVE Calm(pull, t) /\ V = W
  <2>1. \A i \in W : Entry(kind, i).at <= Begin(pull) /\ Entry(kind, i).at \in Nat
    BY <1>1, <1>3, SourceIs DEF Calm
  <2>2. \A i \in W : i \in V
    <3> SUFFICES ASSUME NEW i \in W PROVE i \in V
      OBVIOUS
    <3>1. Entry(kind, i).at <= t
      BY <2>1
    <3> QED BY <3>1 DEF View
  <2> QED BY <1>1, <2>1, <2>2 DEF Calm
<1>4. \A y \in Range(value) : \E i \in W : y = Entry(kind, i)
  BY <1>1 DEF HasRead
<1>5. ASSUME NEW i \in B, Rank1(W, i) <= m PROVE Entry(kind, i) \in Range(value)
  <2>1. Rank1(V, i) <= m
    <3> HIDE DEF V, W
    <3> QED BY <1>2, <1>5
  <2> QED BY <2>1 DEF HasRead
<1>6. Calm(pull, u) => NoRepeats(value) /\ Among(value, Source(kind), W, 1, m)
  BY <1>3 DEF HasRead
<1> QED BY <1>4, <1>5, <1>6 DEF HasRead

LEMMA PullsLater ==
  ASSUME NEW P, NEW t \in Nat, NEW u \in Nat, t <= u, PullsOk(P, t)
  PROVE  PullsOk(P, u)
<1> SUFFICES ASSUME NEW p \in PullId, P[p] # Null PROVE PullOk(P[p], u)
  BY DEF PullsOk
<1> DEFINE pull == P[p]
           m == (pull.page - 1) * PageSize[pull.key[1]]
<1>1. PullOk(pull, t)
  BY DEF PullsOk
<1> HIDE DEF pull
<1>2. /\ pull.key \in Kinds \X Int /\ pull.key[1] \in Kinds /\ pull.page \in 1..MaxPages
      /\ Started(pull) /\ Begin(pull) <= t /\ HasRead(pull.rows, pull, m, t)
      /\ pull.key[1] = "rows" => Weighs(pull.rows, pull.page - 1)
  BY <1>1 DEF PullOk
<1>3. Begin(pull) \in Nat /\ m \in Int
  <2>1. PageSize[pull.key[1]] \in Nat /\ Clock \subseteq Nat
    BY <1>2, DashboardAssumption DEF Kinds
  <2>2. pull.page - 1 \in Int
    BY <1>2
  <2>3. PICK y \in Int : y = pull.page - 1
    BY <2>2
  <2>4. y * PageSize[pull.key[1]] \in Int
    BY <2>1
  <2>5. m = y * PageSize[pull.key[1]]
    BY <2>3
  <2> HIDE DEF m
  <2> QED BY <1>2, <2>1, <2>4, <2>5 DEF Started
<1>4. Begin(pull) <= u
  BY <1>2, <1>3
<1> HIDE DEF m
<1>5. HasRead(pull.rows, pull, m, u)
  BY <1>2, <1>3, ReadLater
<1> QED BY <1>2, <1>4, <1>5 DEF PullOk, pull, m

------------------------------------------------------------------------------
(* A section asks.                                                          *)

Loaded(c) == DoneOk(c.done, now) /\ PullsOk(c.pulls, now)

LEMMA FreshGood ==
  ASSUME NEW cache, NEW k, NEW t, GoodCache(cache, k, t), NEW key
  PROVE  GoodCache(Fresh(cache, key), k, t)
<1> DEFINE G == {e \in Range(cache) : EntryOk(e, k, t)}
<1>1. DOMAIN cache = 1..Len(cache)
  BY SequencesGrow DEF GoodCache
<1>2. Stored(cache, G)
  BY <1>1 DEF GoodCache, Stored, Range
<1>3. \A x \in G : EntryOk(x, k, t)
  OBVIOUS
<1> HIDE DEF G
<1>4. Stored(Fresh(cache, key), G)
  BY <1>2, FreshStored
<1> QED BY <1>3, <1>4 DEF Stored, GoodCache

LEMMA CacheSetGood ==
  ASSUME NEW cache, NEW k, NEW t, GoodCache(cache, k, t), NEW key, NEW value,
         EntryOk([key |-> key, value |-> value, at |-> now], k, t)
  PROVE  GoodCache(CacheSet(cache, key, value), k, t)
<1> DEFINE new == [key |-> key, value |-> value, at |-> now]
           G == {e \in Range(cache) \cup {new} : EntryOk(e, k, t)}
<1>1. DOMAIN cache = 1..Len(cache)
  BY SequencesGrow DEF GoodCache
<1>2. Stored(cache, G)
  BY <1>1 DEF GoodCache, Stored, Range
<1>3. \A x \in G : EntryOk(x, k, t)
  OBVIOUS
<1>4. new \in G
  OBVIOUS
<1> HIDE DEF G
<1>5. Stored(CacheSet(cache, key, value), G)
  BY <1>2, <1>4, CacheSetStored
<1> QED BY <1>3, <1>5 DEF Stored, GoodCache

LEMMA NewPullOk ==
  ASSUME now \in Clock, NEW key \in Kinds \X Int
  PROVE  PullOk(NewPull(key), now)
<1> DEFINE pull == NewPull(key)
           m == (pull.page - 1) * PageSize[pull.key[1]]
           V == View(pull, now)
<1>1. /\ pull.key = key /\ pull.page = 1 /\ pull.rows = <<>>
      /\ pull.deadline = now + Timeout /\ pull.until = UsageDay(now) + 1
  BY DEF NewPull
<1> HIDE DEF pull
<1>2. now \in Nat /\ Timeout \in Nat /\ 1 \in 1..MaxPages /\ PageSize[key[1]] \in Nat
  BY DashboardAssumption DEF Kinds
<1>3. Begin(pull) = now /\ Begin(pull) <= now /\ Started(pull)
  BY <1>1, <1>2 DEF Begin, Started
<1>4. m = 0
  BY <1>1, <1>2
<1>5. V \in SUBSET (1..Size(key[1])) /\ Size(key[1]) \in Nat
  BY <1>1, <1>2, ViewGrows, SourceIs
<1> HIDE DEF m, V
<1>6. ASSUME NEW i \in V PROVE ~ (Rank1(V, i) <= 0)
  <2> DEFINE D == 1..Size(key[1])
             R == {j \in V : j <= i}
  <2>5. IsFiniteSet(D)
    BY <1>5, FS_Interval
  <2>6. R \in SUBSET D
    BY <1>5
  <2>1. IsFiniteSet(D) /\ R \in SUBSET D
    BY <2>5, <2>6
  <2>2. i \in R
    BY <1>5
  <2> HIDE DEF D, R
  <2>3. IsFiniteSet(R) /\ R # {}
    BY <2>1, <2>2, FS_Subset
  <2>4. Cardinality(R) \in Nat /\ Cardinality(R) # 0
    BY <2>3, FS_CardinalityType, FS_EmptySet
  <2> QED BY <2>4 DEF Rank1, R
<1>7. IsSequence(<<>>) /\ Range(<<>>) = {} /\ NoRepeats(<<>>)
  BY DEF IsSequence, Range, NoRepeats
<1>8. HasRead(pull.rows, pull, m, now)
  BY <1>1, <1>3, <1>4, <1>6, <1>7 DEF HasRead, Among, V
<1>9. Weighs(pull.rows, pull.page - 1)
  <2>1. pull.rows = <<>> /\ pull.page - 1 = 0
    BY <1>1
  <2> QED BY <2>1, NothingWeighs
<1> QED BY <1>1, <1>2, <1>3, <1>8, <1>9 DEF PullOk, pull, m

(* What is read from the cache was pulled before it has expired.            *)
LEMMA SharedPullLoads ==
  ASSUME now \in Clock, NEW c, Carrier(c), Loaded(c), NEW key \in Kinds \X Int
  PROVE  LET y == SharedPull(c, key) IN
         /\ Loaded(y.c)
         /\ y.wait = {} => Held(key[1], y.value, key[2], now - CacheTtl - Timeout, now)
<1> DEFINE hit == CacheGet(c.done[key[1]], key)
           kept == [c.done EXCEPT ![key[1]] = Fresh(@, key)]
           going == Going(c, key)
           p == CHOOSE q \in IF going = {} THEN Idle(c) ELSE going : TRUE
           started == IF going = {} THEN [c.pulls EXCEPT ![p] = NewPull(key)] ELSE c.pulls
           e == CHOOSE x \in hit : TRUE
           y == SharedPull(c, key)
<1>1. y = IF hit # {} THEN [c |-> c, wait |-> {}, value |-> e.value]
          ELSE [c |-> [pulls |-> started, done |-> kept], wait |-> {p}, value |-> <<>>]
  BY DEF SharedPull
<1> HIDE DEF p
<1>2. PullsOk(started, now)
  <2>1. PullsOk([c.pulls EXCEPT ![p] = NewPull(key)], now)
    <3>1. PullOk(NewPull(key), now) /\ PullsOk(c.pulls, now)
      BY NewPullOk DEF Loaded
    <3>2. DOMAIN c.pulls = PullId
      BY DEF Carrier, Shared
    <3> HIDE DEF PullOk
    <3> QED BY <3>1, <3>2 DEF PullsOk
  <2> QED BY <2>1 DEF Loaded
<1>3. DoneOk(kept, now)
  <2>1. DoneOk(c.done, now) /\ key[1] \in Kinds
    BY DEF Loaded
  <2>2. GoodCache(Fresh(c.done[key[1]], key), key[1], now)
    BY <2>1, FreshGood DEF DoneOk
  <2> QED BY <2>1, <2>2 DEF DoneOk
<1>4. ASSUME hit # {} PROVE Held(key[1], e.value, key[2], now - CacheTtl - Timeout, now)
  <2>1. e \in Range(c.done[key[1]]) /\ e.key = key /\ now - e.at < CacheTtl
    BY <1>4 DEF CacheGet
  <2>2. GoodCache(c.done[key[1]], key[1], now)
    BY DEF Loaded, DoneOk
  <2>3. EntryOk(e, key[1], now)
    <3>1. DOMAIN c.done[key[1]] = 1..Len(c.done[key[1]])
      BY <2>2, SequencesGrow DEF GoodCache
    <3> HIDE DEF e, hit
    <3> QED BY <2>1, <2>2, <3>1 DEF GoodCache, Range
  <2> HIDE DEF e, hit
  <2>4. e.at \in Nat /\ e.at <= now /\ Held(key[1], e.value, key[2], e.at - Timeout, e.at)
    BY <2>1, <2>3 DEF EntryOk
  <2>5. /\ now - CacheTtl - Timeout <= e.at - Timeout /\ now \in Int /\ e.at \in Int
        /\ now - CacheTtl - Timeout \in Int /\ e.at - Timeout \in Int
    BY <2>1, <2>4, DashboardAssumption
  <2> QED BY <2>4, <2>5, HeldLater
<1> HIDE DEF e, hit, kept, started
<1>5. CASE hit # {}
  BY <1>1, <1>4, <1>5
<1>6. CASE hit = {}
  <2>1. y.c.pulls = started /\ y.c.done = kept /\ y.wait # {}
    BY <1>1, <1>6
  <2> QED BY <1>2, <1>3, <2>1 DEF Loaded
<1> QED BY <1>5, <1>6

LEMMA FetchLoads ==
  ASSUME now \in Clock, NEW a, Carrier(a.c), Loaded(a.c), NEW s, NEW since \in Int
  PROVE  Carrier(Fetch(a, s, since).c) /\ Loaded(Fetch(a, s, since).c)
<1> DEFINE log   == SharedPull(a.c, <<"rows", since>>)
           keys  == SharedPull(log.c, <<"keys", 0>>)
           alias == IF s = "apps" THEN keys ELSE [c |-> log.c, wait |-> {}, value |-> <<>>]
           sec   == [a.secs[s] EXCEPT !.wait = log.wait \cup alias.wait, !.log = log.value, !.keys = alias.value]
           asked == [c |-> alias.c, secs |-> [a.secs EXCEPT ![s] = sec]]
<1>1. Fetch(a, s, since) = IF ~ On(s) \/ ~ a.secs[s].ok THEN a ELSE asked
  BY DEF Fetch
<1>2. <<"rows", since>> \in Kinds \X Int /\ <<"keys", 0>> \in Kinds \X Int
  BY DEF Kinds
<1>3. Carrier(log.c) /\ Loaded(log.c)
  BY <1>2, SharedPullCarries, SharedPullLoads
<1> HIDE DEF log
<1>4. Carrier(keys.c) /\ Loaded(keys.c)
  BY <1>2, <1>3, SharedPullCarries, SharedPullLoads
<1> HIDE DEF keys
<1>5. Carrier(alias.c) /\ Loaded(alias.c)
  <2>1. alias.c \in {keys.c, log.c}
    OBVIOUS
  <2> HIDE DEF alias
  <2> QED BY <1>3, <1>4, <2>1
<1> HIDE DEF alias, sec
<1>6. Fetch(a, s, since).c \in {a.c, alias.c}
  BY <1>1
<1> QED BY <1>5, <1>6

KeptInv == now \in Clock /\ DoneOk(done, now) /\ PullsOk(pulls, now)

LEMMA InFlightLoads ==
  ASSUME DashInv, KeptInv, NEW secs
  PROVE  Carrier(InFlight(secs).c) /\ Loaded(InFlight(secs).c)
<1>1. InFlight(secs).c = [pulls |-> pulls, done |-> done]
  BY DEF InFlight
<1>2. Carrier([pulls |-> pulls, done |-> done])
  BY DEF Carrier, DashInv
<1>3. Loaded([pulls |-> pulls, done |-> done])
  BY DEF KeptInv, Loaded
<1> QED BY <1>1, <1>2, <1>3

LEMMA Windows ==
  ASSUME NEW dash, NEW at
  PROVE  LoadSince(dash, at) \in Int /\ HeatmapSinceDay(at, HeatDays) \in Int
         /\ LoadSince(dash, at) <= HeatmapSinceDay(at, HeatDays)
<1> DEFINE x == HeatmapSinceDay(at, HeatDays)
           y == HeatmapSinceDay(at, RankDays)
           W == {x} \cup IF dash THEN {y} ELSE {}
           m == IF dash /\ y < x THEN y ELSE x
<1>1. x \in Int /\ y \in Int
  BY UsageDays DEF HeatmapSinceDay
<1> HIDE DEF x, y
<1>2. m \in W /\ \A z \in W : m <= z
  BY <1>1
<1>3. LoadSince(dash, at) = CHOOSE z \in W : \A u \in W : z <= u
  BY DEF LoadSince, Min, x, y
<1> HIDE DEF W, m
<1>4. LoadSince(dash, at) \in W /\ \A u \in W : LoadSince(dash, at) <= u
  BY <1>2, <1>3
<1>5. x \in W /\ W \subseteq Int
  BY <1>1 DEF W
<1> QED BY <1>4, <1>5 DEF x

LEMMA AskKept ==
  ASSUME DashInv, KeptInv, NEW r \in Request, NEW since \in Int, NEW q, Ask(r, since, q), now' = now
  PROVE  KeptInv'
<1> DEFINE a0 == InFlight(q.secs)
           a1 == Fetch(a0, "apps", since)
           a2 == Fetch(a1, "users", since)
<1>1. Carrier(a0.c) /\ Loaded(a0.c) /\ now \in Clock
  BY InFlightLoads DEF KeptInv
<1> HIDE DEF a0
<1>2. Carrier(a1.c) /\ Loaded(a1.c)
  BY <1>1, FetchLoads
<1> HIDE DEF a1
<1>3. Loaded(a2.c)
  BY <1>1, <1>2, FetchLoads
<1>4. pulls' = a2.c.pulls /\ done' = a2.c.done
  BY DEF Ask, a0, a1
<1> HIDE DEF a2
<1> QED BY <1>1, <1>3, <1>4 DEF Loaded, KeptInv

LEMMA CountsKept ==
  ASSUME DashInv, KeptInv, NEW r \in Request, Counts(r)
  PROVE  KeptInv'
<1> DEFINE q == reqs[r]
           cards(s) == [i \in DOMAIN q.secs[s].top |->
                          DailyCounts(rows, By(s), q.secs[s].top[i].key, HeatSince(r))]
           counted == [s \in Sections |-> [q.secs[s] EXCEPT !.counts = cards(s)]]
           Asked(x, s) == IF q.secs[s].top = <<>> THEN x ELSE Fetch(x, s, LoadSince(q.dash, q.at))
           a0 == InFlight(counted)
           a1 == Asked(a0, "apps")
           a2 == Asked(a1, "users")
<1>1. /\ q.pc = "counts"
      /\ pulls' = IF q.llm THEN a2.c.pulls ELSE pulls
      /\ done' = IF q.llm THEN a2.c.done ELSE done
      /\ UNCHANGED <<now, rows, users>>
  <2>1. /\ reqs' = [reqs EXCEPT ![r] = [q EXCEPT !.pc = "overlay", !.secs = IF q.llm THEN a2.secs ELSE counted]]
        /\ pulls' = IF q.llm THEN a2.c.pulls ELSE pulls
        /\ q.pc = "counts"
    BY ZenonT(60) DEF Counts
  <2>2. done' = IF q.llm THEN a2.c.done ELSE done
    BY ZenonT(60) DEF Counts
  <2>3. UNCHANGED <<now, rows, users>>
    BY ZenonT(60) DEF Counts
  <2> HIDE DEF q, counted, a0, a1, a2
  <2> QED BY <2>1, <2>2, <2>3
<1>2. Carrier(a0.c) /\ Loaded(a0.c) /\ now \in Clock
  BY InFlightLoads DEF KeptInv
<1>3. LoadSince(q.dash, q.at) \in Int
  BY Windows
<1> HIDE DEF q, counted, a0
<1>4. Carrier(a1.c) /\ Loaded(a1.c)
  BY <1>2, <1>3, FetchLoads
<1> HIDE DEF a1
<1>5. Loaded(a2.c)
  BY <1>2, <1>3, <1>4, FetchLoads
<1> HIDE DEF a2
<1> QED BY <1>1, <1>2, <1>5 DEF Loaded, KeptInv

------------------------------------------------------------------------------
(* A pull is answered.                                                      *)

Got(pull) ==
  LET size == PageSize[pull.key[1]]  q == Query(pull)
  IN pull.rows \o SubSeq(q, (pull.page - 1) * size + 1, Min({pull.page * size, Len(q)}))
Continues(pull) == pull.page < Pages(Len(Query(pull)), PageSize[pull.key[1]]) /\ pull.page < MaxPages

LEMMA QueryIs ==
  ASSUME NEW pull, pull.key \in Kinds \X Int
  PROVE  Query(pull) = Picked(Source(pull.key[1]), View(pull, now))
BY DEF Query, Listed, View, Entry

LEMMA Sizes ==
  ASSUME NEW pull, pull.key \in Kinds \X Int, pull.page \in 1..MaxPages
  PROVE  /\ PageSize[pull.key[1]] \in Nat \ {0}
         /\ (pull.page - 1) * PageSize[pull.key[1]] \in Nat /\ pull.page * PageSize[pull.key[1]] \in Nat
         /\ (pull.page - 1) * PageSize[pull.key[1]] <= pull.page * PageSize[pull.key[1]]
<1>1. PICK z \in Nat \ {0} : z = PageSize[pull.key[1]]
  BY DashboardAssumption DEF Kinds
<1>2. pull.page - 1 \in Nat /\ pull.page \in Nat /\ pull.page - 1 <= pull.page
  BY DashboardAssumption
<1>3. PICK x \in Nat, y \in Nat : x = pull.page - 1 /\ y = pull.page /\ x <= y
  BY <1>2
<1>4. z * x <= z * y /\ z * x = x * z /\ z * y = y * z /\ x * z \in Nat /\ y * z \in Nat
  BY <1>1, <1>3, TimesGrows
<1> QED BY <1>1, <1>3, <1>4

(* A page more is read of what is listed now,                               *)
LEMMA PageReads ==
  ASSUME now \in Nat, NEW pull, PullOk(pull, now)
  PROVE  HasRead(Got(pull), pull, pull.page * PageSize[pull.key[1]], now)
<1> DEFINE kind == pull.key[1]
           s == Source(kind)
           n == Size(kind)
           V == View(pull, now)
           B == View(pull, Begin(pull))
           m == (pull.page - 1) * PageSize[kind]
           x == pull.page * PageSize[kind]
           p == PageOf(s, V, m, x)
<1>1. /\ pull.key \in Kinds \X Int /\ kind \in Kinds /\ pull.page \in 1..MaxPages
      /\ Started(pull) /\ Begin(pull) <= now /\ HasRead(pull.rows, pull, m, now)
  BY DEF PullOk
<1>2. m \in Nat /\ x \in Nat /\ m <= x
  BY <1>1, Sizes
<1>3. Got(pull) = pull.rows \o p
  BY <1>1, QueryIs DEF Got, PageOf
<1>4. n \in Nat /\ DOMAIN s = 1..n /\ \A i, j \in 1..n : s[i] = s[j] => i = j
  BY <1>1, SourceIs DEF Entry
<1>5. V \in SUBSET (1..n) /\ B \in SUBSET V
  <2>2. Begin(pull) \in Clock /\ Clock \subseteq Nat
    BY <1>1, DashboardAssumption DEF Started
  <2>3. Begin(pull) \in Nat
    BY <2>2
  <2>4. PICK b \in Nat : b = Begin(pull)
    BY <2>3
  <2>1. Begin(pull) \in Int /\ now \in Int
    BY <2>4
  <2> QED BY <1>1, <2>1, ViewGrows
<1>6. /\ IsSequence(pull.rows)
      /\ \A y \in Range(pull.rows) : \E i \in V : y = s[i]
      /\ \A i \in B : Rank1(V, i) <= m => s[i] \in Range(pull.rows)
      /\ Calm(pull, now) => NoRepeats(pull.rows) /\ Among(pull.rows, s, V, 1, m)
  BY <1>1 DEF HasRead, Entry
<1> HIDE DEF s, n, V, B, m, x
<1>7. IsSequence(p) /\ Among(p, s, V, m + 1, x) /\ \A i \in V : Rank1(V, i) \in (m + 1)..x => s[i] \in Range(p)
  BY <1>2, <1>4, <1>5, PageHas
<1>8. /\ IsSequence(pull.rows \o p) /\ Range(pull.rows \o p) = Range(pull.rows) \cup Range(p)
      /\ NoRepeats(pull.rows) /\ Among(pull.rows, s, V, 1, m)
           => NoRepeats(pull.rows \o p) /\ Among(pull.rows \o p, s, V, 1, x)
  BY <1>2, <1>4, <1>5, <1>6, PageAdds
<1> HIDE DEF p
<1>9. \A y \in Range(Got(pull)) : \E i \in V : y = s[i]
  BY <1>3, <1>6, <1>7, <1>8 DEF Among
<1>10. ASSUME NEW i \in B, Rank1(V, i) <= x PROVE s[i] \in Range(Got(pull))
  <2>1. i \in V /\ Rank1(V, i) \in Nat
    BY <1>4, <1>5, RankGrows
  <2>2. CASE Rank1(V, i) <= m
    BY <1>3, <1>6, <1>8, <2>2
  <2>3. CASE ~ (Rank1(V, i) <= m)
    <3>1. Rank1(V, i) \in (m + 1)..x
      BY <1>2, <1>10, <2>1, <2>3
    <3> QED BY <1>3, <1>7, <1>8, <2>1, <3>1
  <2> QED BY <2>2, <2>3
<1>11. Calm(pull, now) => NoRepeats(Got(pull)) /\ Among(Got(pull), s, V, 1, x)
  BY <1>3, <1>6, <1>8
<1>12. IsSequence(Got(pull))
  BY <1>3, <1>8
<1> QED BY <1>9, <1>10, <1>11, <1>12 DEF HasRead, Entry, s, V, B, x

LEMMA GotWeighs ==
  ASSUME now \in Nat, NEW pull, PullOk(pull, now), pull.key[1] = "rows"
  PROVE  Weighs(Got(pull), pull.page)
<1> DEFINE n == Size("rows")
           V == View(pull, now)
           m == (pull.page - 1) * PageSize["rows"]
           x == pull.page * PageSize["rows"]
           p == PageOf(Log, V, m, x)
<1>1. /\ pull.key \in Kinds \X Int /\ "rows" \in Kinds /\ pull.page \in 1..MaxPages /\ Source("rows") = Log
      /\ HasRead(pull.rows, pull, m, now) /\ Weighs(pull.rows, pull.page - 1)
  BY DEF PullOk, Kinds, Source
<1>2. m \in Nat /\ x \in Nat /\ m <= x
  BY <1>1, Sizes
<1>3. Got(pull) = pull.rows \o p
  BY <1>1, QueryIs DEF Got, PageOf
<1>4. n \in Nat /\ DOMAIN Log = 1..n /\ \A i, j \in 1..n : Log[i] = Log[j] => i = j
  BY <1>1, SourceIs DEF Entry
<1>5. V \in SUBSET (1..n)
  BY <1>4, <1>1 DEF View
<1> HIDE DEF n, V, m, x
<1>6. IsSequence(p) /\ NoRepeats(p) /\ Among(p, Log, V, m + 1, x)
  BY <1>2, <1>4, <1>5, PageHas
<1> HIDE DEF p
<1>7. \A j \in 1..Len(p) : \E i \in DOMAIN Log : p[j] = Log[i]
  <2>1. DOMAIN p = 1..Len(p)
    BY <1>6, SequencesGrow
  <2> QED BY <1>4, <1>5, <1>6, <2>1 DEF Among, Range
<1>8. Weighs(p, 1)
  BY <1>6, <1>7, PageWeighs
<1>9. pull.page - 1 \in Nat /\ (pull.page - 1) + 1 = pull.page /\ IsSequence(pull.rows)
  BY <1>1, DashboardAssumption DEF HasRead
<1>10. PICK k \in Nat : k = pull.page - 1 /\ k + 1 = pull.page
  BY <1>9
<1>11. Weighs(pull.rows \o p, k + 1)
  BY <1>1, <1>6, <1>8, <1>9, <1>10, WeightsAdd
<1> QED BY <1>3, <1>10, <1>11

(* and when it ends, all that it was sure to read.                          *)
LEMMA PullEnds ==
  ASSUME now \in Nat, NEW pull, PullOk(pull, now), now <= pull.deadline, ~ Continues(pull)
  PROVE  Held(pull.key[1], Got(pull), pull.key[2], now - Timeout, now)
<1> DEFINE kind == pull.key[1]
           since == pull.key[2]
           from == now - Timeout
           n == Size(kind)
           V == View(pull, now)
           S == Seen(kind, since, now)
           z == PageSize[kind]
           x == pull.page * z
           got == Got(pull)
<1>1. /\ pull.key \in Kinds \X Int /\ kind \in Kinds /\ since \in Int /\ pull.page \in 1..MaxPages
      /\ Started(pull) /\ Begin(pull) <= now
  BY DEF PullOk
<1>2. Begin(pull) \in Nat /\ Timeout \in Nat /\ from \in Int /\ from <= Begin(pull)
  <2>1. Begin(pull) \in Clock /\ Clock \subseteq Nat /\ Timeout \in Nat /\ pull.deadline \in Nat
    BY <1>1, DashboardAssumption DEF Started
  <2> QED BY <2>1 DEF Begin
<1>3. HasRead(got, pull, x, now)
  BY PageReads
<1>4. x \in Nat /\ z \in Nat \ {0}
  BY <1>1, Sizes
<1>5. V \in SUBSET S /\ S \in SUBSET (1..n) /\ n \in Nat
  <2>1. now \in Int
    OBVIOUS
  <2>2. V \in SUBSET S
    BY <1>1, <2>1, ViewGrows
  <2>3. S \in SUBSET (1..n)
    BY <1>1, <2>1, SeenGrows
  <2> QED BY <1>1, <2>2, <2>3, SourceIs
<1>6. \A i : /\ Rank1(V, i) \in Nat /\ Rank1(S, i) \in Nat /\ Rank1(V, i) <= Rank1(S, i)
             /\ Place(kind, since, now, i) = Rank1(S, i)
  <2> SUFFICES ASSUME NEW i
               PROVE  /\ Rank1(V, i) \in Nat /\ Rank1(S, i) \in Nat /\ Rank1(V, i) <= Rank1(S, i)
                      /\ Place(kind, since, now, i) = Rank1(S, i)
    OBVIOUS
  <2>1. Place(kind, since, now, i) = Rank1(S, i)
    <3>1. now \in Int
      OBVIOUS
    <3> QED BY <1>1, <3>1, SeenGrows
  <2> HIDE DEF V, S, n
  <2>2. Rank1(V, i) \in Nat /\ Rank1(S, i) \in Nat /\ Rank1(V, i) <= Rank1(S, i)
    BY <1>5, RankGrows
  <2> QED BY <2>1, <2>2
<1>7. ASSUME NEW i \in V, Rank1(V, i) <= MaxPages * z PROVE Rank1(V, i) <= x
  <2>1. CASE pull.page = MaxPages
    BY <1>7, <2>1
  <2>2. CASE pull.page # MaxPages
    <3>1. PICK l \in Nat : l = Len(Query(pull)) /\ Rank1(V, i) <= l
      <4>1. Query(pull) = Picked(Source(kind), V)
        BY <1>1, QueryIs
      <4>2. DOMAIN Source(kind) = 1..n /\ V \in SUBSET (1..n)
        BY <1>1, <1>5, SourceIs
      <4> HIDE DEF V, n
      <4>3. Len(Picked(Source(kind), V)) = Cardinality(V) /\ Cardinality(V) \in Nat
        BY <1>5, <4>2, PickedPlaces
      <4>4. Rank1(V, i) <= Cardinality(V)
        <5> DEFINE D == 1..n
                   R == {j \in V : j <= i}
        <5>1. IsFiniteSet(D) /\ V \in SUBSET D
          BY <1>5, <4>2, FS_Interval
        <5> HIDE DEF D
        <5>2. IsFiniteSet(V)
          BY <5>1, FS_Subset
        <5>3. R \in SUBSET V
          OBVIOUS
        <5> HIDE DEF R
        <5>4. Cardinality(R) <= Cardinality(V)
          BY <5>2, <5>3, FS_Subset
        <5> QED BY <5>4 DEF Rank1, R
      <4> QED BY <4>1, <4>3, <4>4
    <3>2. ~ (pull.page < Pages(l, z))
      BY <1>1, <2>2, <3>1, DashboardAssumption DEF Continues
    <3>3. pull.page \in Nat
      BY <1>1, DashboardAssumption
    <3>4. PICK y \in Nat : y = pull.page
      BY <3>3
    <3>5. y < Pages(l, z) <=> y * z < l
      BY <1>4, <3>1, <3>4, RoundedUp DEF Pages
    <3>6. x = y * z
      BY <3>4
    <3> HIDE DEF x, z
    <3>7. ~ (x < l)
      BY <3>2, <3>4, <3>5, <3>6
    <3> QED BY <1>4, <1>6, <3>1, <3>7
  <2> QED BY <2>1, <2>2
<1>8. ASSUME NEW i \in Sure(kind, since, from, now) PROVE Entry(kind, i) \in Range(got)
  <2>1. i \in Sought(kind, since) /\ Entry(kind, i).at <= from /\ Place(kind, since, now, i) <= MaxPages * z
    BY DEF Sure, Entry
  <2>2. Entry(kind, i).at \in Nat
    BY <1>1, <2>1, SourceIs DEF Sought
  <2>3. Entry(kind, i).at <= Begin(pull)
    BY <1>2, <2>1, <2>2
  <2>4. i \in View(pull, Begin(pull))
    BY <1>1, <2>1, <2>3, BeganWith
  <2>5. i \in V
    BY <1>1, <1>2, <2>4, ViewGrows
  <2>6. Rank1(V, i) <= MaxPages * z
    <3>1. PICK c \in Int : c = MaxPages * z
      BY <1>4, DashboardAssumption
    <3> HIDE DEF V, S, z
    <3> QED BY <1>6, <2>1, <3>1
  <2>7. Rank1(V, i) <= x
    BY <1>7, <2>5, <2>6
  <2> HIDE DEF V, x, got
  <2> QED BY <1>3, <2>4, <2>7 DEF HasRead, V, x, got
<1>9. ASSUME Stood(kind, since, from, now) PROVE Calm(pull, now)
  <2> SUFFICES ASSUME NEW i \in V PROVE Entry(kind, i).at <= Begin(pull)
    BY DEF Calm
  <2>1. i \in Sought(kind, since) /\ Entry(kind, i).at <= now
    BY <1>5 DEF Seen
  <2>2. Entry(kind, i).at \in Nat /\ Entry(kind, i).at \notin (from + 1)..now
    BY <1>1, <1>9, <2>1, SourceIs DEF Stood, Sought
  <2> QED BY <1>2, <2>1, <2>2
<1>10. IsSequence(got) /\ \A y \in Range(got) : \E i \in S : y = Entry(kind, i)
  BY <1>3, <1>5 DEF HasRead
<1>11. Stood(kind, since, from, now) => NoRepeats(got)
  BY <1>3, <1>9 DEF HasRead
<1>12. ASSUME kind = "rows" PROVE Weighs(got, MaxPages)
  <2>1. Weighs(got, pull.page)
    BY <1>12, GotWeighs
  <2>2. pull.page \in Nat /\ MaxPages \in Nat /\ pull.page <= MaxPages
    BY <1>1, DashboardAssumption
  <2> HIDE DEF got
  <2> QED BY <1>10, <2>1, <2>2, WeighsMore
<1> QED BY <1>8, <1>10, <1>11, <1>12 DEF Held

LEMMA SettleKept ==
  ASSUME DashInv, KeptInv, NEW p \in PullId, pulls[p] # Null, NEW ok \in BOOLEAN, NEW value,
         Settle(p, ok, value), now' = now,
         ok => Held(pulls[p].key[1], value, pulls[p].key[2], now - Timeout, now)
  PROVE  KeptInv'
<1> DEFINE pull == pulls[p]
           k == pull.key[1]
           e == [key |-> pull.key, value |-> value, at |-> now]
<1>1. pulls' = [pulls EXCEPT ![p] = Null] /\ done' = Keep(pull, ok, value)
  BY DEF Settle
<1>2. now \in Clock /\ now \in Nat /\ DoneOk(done, now) /\ PullsOk(pulls, now)
  BY DashboardAssumption DEF KeptInv
<1>3. pull.key \in Kinds \X Int
  BY <1>2 DEF PullsOk, PullOk
<1>4. PullsOk(pulls', now)
  <2>1. DOMAIN pulls = PullId
    BY DEF DashInv, Shared
  <2> HIDE DEF PullOk
  <2> QED BY <1>1, <1>2, <2>1 DEF PullsOk
<1> HIDE DEF pull
<1>5. ASSUME ok PROVE DoneOk([done EXCEPT ![k] = CacheSet(done[k], pull.key, value)], now)
  <2>1. EntryOk(e, k, now)
    <3>1. e.key = pull.key /\ e.at = now /\ e.value = value /\ now <= now
      BY <1>2
    <3>2. Held(k, e.value, e.key[2], e.at - Timeout, e.at)
      BY <1>5, <3>1 DEF pull
    <3> HIDE DEF e, Held
    <3> QED BY <1>2, <1>3, <3>1, <3>2 DEF EntryOk
  <2>2. k \in Kinds /\ GoodCache(done[k], k, now) /\ DOMAIN done = Kinds
    BY <1>2, <1>3 DEF DoneOk
  <2> HIDE DEF k, EntryOk
  <2>3. GoodCache(CacheSet(done[k], pull.key, value), k, now)
    BY <2>1, <2>2, CacheSetGood
  <2> QED BY <1>2, <2>2, <2>3 DEF DoneOk
<1>6. DoneOk(done', now)
  <2>1. CASE ok
    <3>1. done' = [done EXCEPT ![k] = CacheSet(done[k], pull.key, value)]
      BY <1>1, <2>1 DEF Keep
    <3> QED BY <1>5, <2>1, <3>1
  <2>2. CASE ~ ok
    BY <1>1, <1>2, <2>2 DEF Keep
  <2> QED BY <2>1, <2>2
<1> QED BY <1>2, <1>4, <1>6 DEF KeptInv

(* The step of a page in these words.                                       *)
LEMMA PageIs ==
  ASSUME NEW p \in PullId, Page(p)
  PROVE  /\ now <= pulls[p].deadline
         /\ Continues(pulls[p]) => GoesOn(p, Got(pulls[p]))
         /\ ~ Continues(pulls[p]) => Settle(p, TRUE, Got(pulls[p]))
BY DEF Page, Continues, Got, GoesOn, More

LEMMA AnswerKept ==
  ASSUME DashInv, KeptInv, NEW p \in PullId, Answer(p)
  PROVE  KeptInv'
<1> DEFINE pull == pulls[p]
           got == Got(pull)
           more == More(pull, got)
<1>1. pull # Null /\ now' = now
  BY DEF Answer
<1>2. CASE Fail(p)
  <2>1. Settle(p, FALSE, <<>>)
    BY <1>2 DEF Fail
  <2> QED BY <1>1, <2>1, SettleKept
<1>3. CASE Page(p)
  <2>1. /\ now <= pull.deadline
        /\ Continues(pull) => GoesOn(p, got)
        /\ ~ Continues(pull) => Settle(p, TRUE, got)
    BY <1>3, PageIs
  <2>2. PullOk(pull, now) /\ DOMAIN pull = PullFields /\ now \in Nat
    BY <1>1, DashboardAssumption DEF KeptInv, PullsOk, DashInv, Shared
  <2>3. HasRead(got, pull, pull.page * PageSize[pull.key[1]], now)
    BY <2>2, PageReads
  <2>4. CASE Continues(pull)
    <3>1. /\ more.key = pull.key /\ more.page = pull.page + 1 /\ more.rows = got
          /\ more.deadline = pull.deadline /\ more.until = pull.until
      <4> HIDE DEF pull, got
      <4> QED BY <2>2 DEF PullFields, More
    <3>2. /\ pull.page \in 1..MaxPages /\ pull.page < MaxPages /\ pull.key \in Kinds \X Int
          /\ Started(pull) /\ Begin(pull) <= now
      BY <2>2, <2>4 DEF PullOk, Continues
    <3>3. more.page \in 1..MaxPages /\ more.page - 1 = pull.page
      BY <3>1, <3>2, DashboardAssumption
    <3>4. Begin(more) = Begin(pull) /\ \A t : View(more, t) = View(pull, t)
      BY <3>1 DEF Begin, View
    <3>5. Started(more) /\ Begin(more) <= now
      BY <3>1, <3>2, <3>4 DEF Started
    <3> HIDE DEF more, got, pull
    <3>6. Calm(more, now) <=> Calm(pull, now)
      BY <3>1, <3>4 DEF Calm
    <3>7. HasRead(more.rows, more, (more.page - 1) * PageSize[more.key[1]], now)
      <4> DEFINE m == pull.page * PageSize[pull.key[1]]
      <4>1. HasRead(got, pull, m, now) /\ more.rows = got
        BY <2>3, <3>1
      <4>2. (more.page - 1) * PageSize[more.key[1]] = m
        BY <3>1, <3>3
      <4> HIDE DEF m
      <4>3. HasRead(got, more, m, now)
        BY <3>1, <3>4, <3>6, <4>1 DEF HasRead
      <4> QED BY <4>1, <4>2, <4>3
    <3>11. ASSUME more.key[1] = "rows" PROVE Weighs(more.rows, more.page - 1)
      <4>1. Weighs(Got(pull), pull.page)
        BY <2>2, <3>1, <3>11, GotWeighs
      <4> QED BY <3>1, <3>3, <4>1 DEF got
    <3>8. PullOk(more, now)
      BY <3>1, <3>2, <3>3, <3>5, <3>7, <3>11 DEF PullOk
    <3>9. pulls' = [pulls EXCEPT ![p] = more] /\ done' = done
      BY <2>1, <2>4 DEF GoesOn, more, pull
    <3>10. PullsOk(pulls', now)
      <4>1. DOMAIN pulls = PullId /\ PullsOk(pulls, now)
        BY DEF DashInv, Shared, KeptInv
      <4> HIDE DEF PullOk
      <4> QED BY <3>8, <3>9, <4>1 DEF PullsOk
    <3> QED BY <1>1, <3>9, <3>10 DEF KeptInv
  <2>5. CASE ~ Continues(pull)
    <3>1. Settle(p, TRUE, got)
      BY <2>1, <2>5
    <3>2. Held(pull.key[1], got, pull.key[2], now - Timeout, now)
      BY <2>1, <2>2, <2>5, PullEnds
    <3> QED BY <1>1, <3>1, <3>2, SettleKept
  <2> QED BY <2>4, <2>5
<1> QED BY <1>2, <1>3 DEF Answer

LEMMA FirstInstant == Min(Clock) \in Clock
<1>1. \E m \in Clock : \A x \in Clock : m <= x
  BY DashboardAssumption, LeastNatural
<1>2. Min(Clock) = CHOOSE x \in Clock : \A y \in Clock : x <= y
  BY DEF Min
<1> QED BY <1>1, <1>2

LEMMA KeptInit == Init => KeptInv
<1> SUFFICES ASSUME Init PROVE KeptInv
  OBVIOUS
<1>1. now \in Clock /\ pulls = [p \in PullId |-> Null] /\ done = [k \in Kinds |-> <<>>]
  BY FirstInstant DEF Init
<1>2. IsSequence(<<>>) /\ Len(<<>>) = 0 /\ 0 <= MaxEntries
  BY DashboardAssumption DEF IsSequence
<1> QED BY <1>1, <1>2 DEF KeptInv, DoneOk, GoodCache, PullsOk

LEMMA KeptNext == DashInv /\ KeptInv /\ [Next]_vars => KeptInv'
<1> SUFFICES ASSUME DashInv, KeptInv, [Next]_vars PROVE KeptInv'
  OBVIOUS
<1> HIDE DEF DashInv
<1>1. CASE UNCHANGED <<now, pulls, done>>
  <2> HIDE DEF DoneOk, PullsOk
  <2> QED BY <1>1 DEF KeptInv
<1>2. CASE Advance
  <2>1. now' \in Clock /\ now' > now /\ pulls' = pulls /\ done' = done
    BY <1>2 DEF Advance
  <2>2. now \in Nat /\ now' \in Nat /\ now <= now' /\ DoneOk(done, now) /\ PullsOk(pulls, now)
    BY <2>1, DashboardAssumption DEF KeptInv
  <2> HIDE DEF DoneOk, PullsOk
  <2>3. DoneOk(done, now') /\ PullsOk(pulls, now')
    BY <2>2, DoneLater, PullsLater
  <2> QED BY <2>1, <2>3 DEF KeptInv
<1>3. ASSUME NEW u \in User, DeleteUser(u) \/ DropUsage(u) \/ \E a \in App : RecordUse(u, a)
      PROVE  KeptInv'
  BY <1>1, <1>3 DEF DeleteUser, DropUsage, RecordUse
<1>4. ASSUME NEW p \in PullId, Answer(p) PROVE KeptInv'
  BY <1>4, AnswerKept
<1>5. ASSUME NEW r \in Request, Serve(r) PROVE KeptInv'
  <2>1. CASE Counts(r)
    BY <2>1, CountsKept
  <2>2. CASE TotalsArrive(r) \/ Rank(r) \/ Render(r)
    BY <1>1, <2>2 DEF TotalsArrive, Rank, Render
  <2> QED BY <1>5, <2>1, <2>2 DEF Serve
<1>6. ASSUME NEW r \in Request, NEW w \in Wanted, w.of = "all", Open(r, w.llm) PROVE KeptInv'
  <2> DEFINE q == [NoPage EXCEPT !.pc = "totals", !.dash = TRUE, !.at = now, !.llm = w.llm]
             since == LoadSince(TRUE, now)
  <2>1. /\ IF w.llm THEN Ask(r, since, q) ELSE reqs' = [reqs EXCEPT ![r] = q] /\ UNCHANGED <<pulls, done>>
        /\ now' = now
    BY <1>6 DEF Open
  <2>2. since \in Int
    BY Windows
  <2> HIDE DEF q, since
  <2> QED BY <1>1, <2>1, <2>2, AskKept
<1>7. ASSUME NEW r \in Request, NEW w \in Wanted, w.of \in Sections, OpenCard(r, w.of, w.key, w.llm)
      PROVE  KeptInv'
  BY <1>1, <1>7 DEF OpenCard
<1>8. CASE UNCHANGED vars
  BY <1>1, <1>8 DEF vars
<1> QED BY <1>2, <1>3, <1>4, <1>5, <1>6, <1>7, <1>8 DEF Next

LEMMA KeptInvariant == Spec => []KeptInv
  BY KeptInit, KeptNext, DashboardInvariant, PTL DEF Spec

(* An entry of a cache holds all that its pull was sure to read, the rows   *)
(* or keys that were there a timeout ago up to the cap, whatever came       *)
(* between two pages; a pull that failed half way never gets there, and     *)
(* nothing is in it that was not there yet.                                 *)
THEOREM CachesHoldPulls == Spec => []CacheHoldsPulls
<1>1. ASSUME KeptInv PROVE CacheHoldsPulls
  <2> SUFFICES ASSUME NEW kind \in Kinds, NEW e \in Range(done[kind])
               PROVE  /\ \A i \in Sure(kind, e.key[2], e.at - Timeout, e.at) : Source(kind)[i] \in Range(e.value)
                      /\ \A y \in Range(e.value) :
                           \E i \in {j \in Sought(kind, e.key[2]) : Source(kind)[j].at <= e.at} : y = Source(kind)[i]
    BY DEF CacheHoldsPulls
  <2>1. EntryOk(e, kind, now)
    <3>1. GoodCache(done[kind], kind, now)
      BY <1>1 DEF KeptInv, DoneOk
    <3>2. DOMAIN done[kind] = 1..Len(done[kind])
      BY <3>1, SequencesGrow DEF GoodCache
    <3> QED BY <3>1, <3>2 DEF GoodCache, Range
  <2>2. Held(kind, e.value, e.key[2], e.at - Timeout, e.at)
    BY <2>1 DEF EntryOk
  <2> QED BY <2>2 DEF Held, Entry, Seen
<1> QED BY <1>1, KeptInvariant, PTL

------------------------------------------------------------------------------
(* The rows of usage_daily.                                                 *)

UseFields == {"user_id", "app_key", "day", "last_at"}
UseDoc(d, k) ==
  /\ DOMAIN d = UseFields
  /\ \E u \in User : d["user_id"] = One(u)
  /\ \E a \in App : d["app_key"] = One(a)
  /\ \E n \in 0..k : d["day"] = One(n)
  /\ \E n \in Nat : d["last_at"] = One(n)
Uses(rs, k) == IsSequence(rs) /\ Len(rs) <= MaxRows /\ \A i \in 1..Len(rs) : UseDoc(rs[i], k)
RowsInv == users \subseteq User /\ Uses(rows, UsageDay(now))

LEMMA UseDocIs ==
  ASSUME NEW d, NEW k \in Nat, UseDoc(d, k)
  PROVE  /\ DOMAIN d = UseFields /\ \A f \in UseFields : d[f] = One(Get(d, f)) /\ d[f].array = FALSE
         /\ Get(d, "user_id") \in User /\ Get(d, "app_key") \in App /\ Get(d, "day") \in 0..k
         /\ Get(d, "last_at") \in Nat
<1>1. \A v : One(v).array = FALSE /\ One(v).of[1] = v
  BY DEF One
<1>2. "user_id" \in UseFields /\ "app_key" \in UseFields /\ "day" \in UseFields /\ "last_at" \in UseFields
      /\ \A f \in UseFields : f = "user_id" \/ f = "app_key" \/ f = "day" \/ f = "last_at"
  BY DEF UseFields
<1> QED BY <1>1, <1>2 DEF UseDoc, Get

(* What recordActivity sets on a row that is there,                         *)
LEMMA UseSeen ==
  ASSUME NEW d, NEW k, UseDoc(d, k), NEW t \in Nat, NEW filter
  PROVE  UseDoc(ApplyAll(d, filter, <<Set("last_at", One(t))>>), k)
<1> DEFINE u == Set("last_at", One(t))
<1>1. u.op = "set" /\ u.field = "last_at" /\ u.v = One(t)
  BY DEF Set
<1> HIDE DEF u
<1>2. ApplyUpdate(d, filter, u) = Put(d, "last_at", One(t))
  BY <1>1 DEF ApplyUpdate
<1>3. UseDoc(Put(d, "last_at", One(t)), k)
  BY DEF UseDoc, UseFields, Put
<1> QED BY <1>2, <1>3, AllOfOne DEF u

(* and the row that it inserts.                                             *)
LEMMA UseBegun ==
  ASSUME NEW v \in User, NEW a \in App, NEW k \in Nat, NEW n \in 0..k, NEW t \in Nat
  PROVE  UseDoc(BuildUpsertDoc(<<Is("user_id", v), Is("app_key", a), Is("day", n)>>,
                               <<Set("last_at", One(t))>>), k)
<1> DEFINE x == Is("user_id", v)
           y == Is("app_key", a)
           z == Is("day", n)
           u == Set("last_at", One(t))
           d1 == Put(<<>>, "user_id", One(v))
           d2 == Put(d1, "app_key", One(a))
           d3 == Put(d2, "day", One(n))
           d4 == Put(d3, "last_at", One(t))
           filter == <<x, y, z>>
<1>1. \A d, f, w : Given(d, Is(f, w)) = Put(d, f, One(w))
  BY DEF Given, Is, Clause
<1>2. GivenAll(filter) = d3
  BY <1>1, GivenThree
<1>3. u.op = "set" /\ u.field = "last_at" /\ u.v = One(t)
  BY DEF Set
<1> HIDE DEF u, d3, filter
<1>4. InsertAll(d3, <<u>>) = d3
  <2>1. Insertion(d3, u) = d3
    BY <1>3 DEF Insertion
  <2> QED BY <2>1, InsertOnce
<1>5. ApplyAll(d3, filter, <<u>>) = d4
  <2>1. ApplyUpdate(d3, filter, u) = d4
    BY <1>3 DEF ApplyUpdate
  <2> QED BY <2>1, AllOfOne
<1>6. BuildUpsertDoc(filter, <<u>>) = d4
  BY <1>2, <1>4, <1>5 DEF BuildUpsertDoc
<1>7. UseDoc(d4, k)
  <2>1. /\ DOMAIN d1 = {"user_id"} /\ d1["user_id"] = One(v)
    BY DEF Put
  <2> HIDE DEF d1
  <2>2. /\ DOMAIN d2 = {"user_id", "app_key"} /\ d2["user_id"] = One(v) /\ d2["app_key"] = One(a)
    BY <2>1 DEF Put
  <2> HIDE DEF d2
  <2>3. /\ DOMAIN d3 = {"user_id", "app_key", "day"} /\ d3["user_id"] = One(v) /\ d3["app_key"] = One(a)
        /\ d3["day"] = One(n)
    BY <2>2 DEF Put, d3
  <2>4. /\ DOMAIN d4 = UseFields /\ d4["user_id"] = One(v) /\ d4["app_key"] = One(a)
        /\ d4["day"] = One(n) /\ d4["last_at"] = One(t)
    BY <2>3 DEF Put, UseFields
  <2> HIDE DEF d4
  <2> QED BY <2>4 DEF UseDoc
<1> QED BY <1>6, <1>7 DEF filter, u

LEMMA RecordUseKeepsRows ==
  ASSUME RowsInv, now \in Nat, NEW u \in User, NEW a \in App, RecordUse(u, a)
  PROVE  RowsInv'
<1> DEFINE k == UsageDay(now)
           filter == <<Is("user_id", u), Is("app_key", a), Is("day", k)>>
           us == <<Set("last_at", One(now))>>
           index == {"user_id", "app_key", "day"}
           at == Targets(rows, UsageColumns, filter, FALSE)
           patched == [i \in DOMAIN rows |-> IF i \in at THEN ApplyAll(rows[i], filter, us) ELSE rows[i]]
           doc == BuildUpsertDoc(filter, us)
           longer == Append(rows, doc)
<1>1. users' = users /\ now' = now /\ Len(rows') <= MaxRows
  BY DEF RecordUse
<1>2. rows' = Update(rows, UsageColumns, index, filter, us, FALSE, TRUE).rows
  BY DEF RecordUse
<1>3. \A d : UseDoc(d, k) => UseDoc(ApplyAll(d, filter, us), k)
  BY UseSeen
<1>4. UseDoc(doc, k)
  <2>1. k \in Nat /\ k \in 0..k
    BY UsageDays
  <2> HIDE DEF k
  <2> QED BY <2>1, UseBegun
<1> HIDE DEF k, filter, us, at, index
<1>5. rows' \in {rows, patched, longer}
  <2>1. \A old, new, n : Checked(old, new, n, index).rows \in {new, old}
    BY DEF Checked, Ok
  <2>2. InsertOne(rows, index, doc).rows \in {longer, rows}
    BY <2>1 DEF InsertOne
  <2>3. Checked(rows, patched, Cardinality(at), index).rows \in {patched, rows}
    BY <2>1
  <2> HIDE DEF doc, longer
  <2>4. Update(rows, UsageColumns, index, filter, us, FALSE, TRUE)
          = IF at = {} THEN InsertOne(rows, index, doc) ELSE Checked(rows, patched, Cardinality(at), index)
    BY DEF Update, at, doc
  <2> HIDE DEF patched
  <2> QED BY <1>2, <2>2, <2>3, <2>4
<1> HIDE DEF doc
<1>6. IsSequence(rows) /\ DOMAIN rows = 1..Len(rows) /\ Len(rows) \in Nat /\ \A i \in 1..Len(rows) : UseDoc(rows[i], k)
  BY SequencesGrow DEF RowsInv, Uses, IsSequence, k
<1>7. IsSequence(patched) /\ \A i \in 1..Len(patched) : UseDoc(patched[i], k)
  <2>1. patched = [i \in 1..Len(rows) |-> IF i \in at THEN ApplyAll(rows[i], filter, us) ELSE rows[i]]
    BY <1>6
  <2> HIDE DEF patched, UseDoc
  <2>2. Len(patched) = Len(rows)
    BY <1>6, <2>1
  <2>3. \A i \in 1..Len(rows) : UseDoc(patched[i], k)
    BY <1>3, <1>6, <2>1
  <2>4. patched = [i \in 1..Len(patched) |-> patched[i]]
    BY <2>1, <2>2
  <2> QED BY <1>6, <2>2, <2>3, <2>4 DEF IsSequence
<1>8. IsSequence(longer) /\ \A i \in 1..Len(longer) : UseDoc(longer[i], k)
  <2>1. /\ IsSequence(longer) /\ Len(longer) = Len(rows) + 1
        /\ longer[Len(rows) + 1] = doc /\ \A i \in 1..Len(rows) : longer[i] = rows[i]
    BY <1>6, SequencesGrow
  <2> HIDE DEF longer, UseDoc
  <2>2. \A i \in 1..(Len(rows) + 1) : i \in 1..Len(rows) \/ i = Len(rows) + 1
    BY <1>6
  <2> QED BY <1>4, <1>6, <2>1, <2>2
<1> HIDE DEF patched, longer, UseDoc
<1>9. IsSequence(rows') /\ \A i \in 1..Len(rows') : UseDoc(rows'[i], k)
  BY <1>5, <1>6, <1>7, <1>8
<1> QED BY <1>1, <1>9 DEF RowsInv, Uses, UseDoc, k

LEMMA DropUsageKeepsRows ==
  ASSUME RowsInv, NEW u \in User, DropUsage(u)
  PROVE  RowsInv'
<1> DEFINE at == DOMAIN rows \ Targets(rows, UsageColumns, <<Is("user_id", u)>>, TRUE)
           p == Picked(rows, at)
<1>1. rows' = p /\ users' = users /\ now' = now
  BY DEF DropUsage, Delete
<1>2. IsSequence(rows) /\ Len(rows) \in Nat /\ Len(rows) <= MaxRows /\ DOMAIN rows = 1..Len(rows) /\ MaxRows \in Nat
      /\ at \in SUBSET DOMAIN rows
  BY SequencesGrow, DashboardAssumption DEF RowsInv, Uses, IsSequence
<1> HIDE DEF at
<1>3. /\ IsSequence(p) /\ Len(p) <= Len(rows)
      /\ \A k \in 1..Len(p) : Ascending(at)[k] \in at /\ p[k] = rows[Ascending(at)[k]]
  BY <1>2, PickedMembers
<1> HIDE DEF p
<1>4. Len(p) <= MaxRows
  BY <1>2, <1>3 DEF IsSequence
<1>5. \A k \in 1..Len(p) : UseDoc(p[k], UsageDay(now))
  <2> HIDE DEF UseDoc
  <2> QED BY <1>2, <1>3 DEF RowsInv, Uses
<1> QED BY <1>1, <1>3, <1>4, <1>5 DEF RowsInv, Uses, UseDoc

LEMMA RowsInit == Init => RowsInv
<1>1. IsSequence(<<>>) /\ Len(<<>>) = 0 /\ 0 <= MaxRows
  BY DashboardAssumption DEF IsSequence
<1> QED BY <1>1 DEF Init, RowsInv, Uses

LEMMA RowsNext == KeptInv /\ RowsInv /\ [Next]_vars => RowsInv'
<1> SUFFICES ASSUME KeptInv, RowsInv, [Next]_vars PROVE RowsInv'
  OBVIOUS
<1>1. CASE UNCHANGED <<now, rows, users>>
  BY <1>1 DEF RowsInv, Uses, UseDoc
<1>2. CASE Advance
  <2> DEFINE j == UsageDay(now)
             k == UsageDay(now')
  <2>1. now \in Int /\ now' \in Int /\ now <= now' /\ rows' = rows /\ users' = users
    BY <1>2, DashboardAssumption DEF Advance, KeptInv
  <2>2. j \in Nat /\ k \in Nat /\ j <= k
    BY <2>1, UsageDays
  <2> HIDE DEF j, k
  <2>3. ASSUME NEW d, UseDoc(d, j) PROVE UseDoc(d, k)
    BY <2>2, <2>3 DEF UseDoc
  <2>4. users \subseteq User /\ Uses(rows, j)
    BY DEF RowsInv, j
  <2>5. Uses(rows, k)
    <3> HIDE DEF UseDoc
    <3> QED BY <2>3, <2>4 DEF Uses
  <2> QED BY <2>1, <2>4, <2>5 DEF RowsInv, Uses, UseDoc, k
<1>3. ASSUME NEW u \in User, DeleteUser(u) PROVE RowsInv'
  <2>1. users' = users \ {u} /\ rows' = rows /\ now' = now
    BY <1>3 DEF DeleteUser
  <2> HIDE DEF UseDoc
  <2>2. users' \subseteq User /\ Uses(rows, UsageDay(now))
    BY <2>1 DEF RowsInv
  <2> HIDE DEF Uses
  <2> QED BY <2>1, <2>2 DEF RowsInv, Uses, UseDoc
<1>4. ASSUME NEW u \in User, DropUsage(u) PROVE RowsInv'
  BY <1>4, DropUsageKeepsRows
<1>5. ASSUME NEW u \in User, NEW a \in App, RecordUse(u, a) PROVE RowsInv'
  <2>1. now \in Nat
    BY DashboardAssumption DEF KeptInv
  <2> QED BY <1>5, <2>1, RecordUseKeepsRows
<1>6. ASSUME NEW p \in PullId, Answer(p) PROVE RowsInv'
  BY <1>1, <1>6 DEF Answer
<1>7. ASSUME NEW r \in Request, Serve(r) PROVE RowsInv'
  <2>1. CASE TotalsArrive(r) \/ Rank(r) \/ Render(r)
    BY <1>1, <2>1 DEF TotalsArrive, Rank, Render
  <2>2. CASE Counts(r)
    <3>1. UNCHANGED <<now, rows, users>>
      BY <2>2, ZenonT(60) DEF Counts
    <3> QED BY <1>1, <3>1
  <2> QED BY <1>7, <2>1, <2>2 DEF Serve
<1>8. ASSUME NEW r \in Request, NEW w \in Wanted, Open(r, w.llm) \/ OpenCard(r, w.of, w.key, w.llm) PROVE RowsInv'
  BY <1>1, <1>8 DEF Open, OpenCard
<1>9. CASE UNCHANGED vars
  BY <1>1, <1>9 DEF vars
<1> QED BY <1>2, <1>3, <1>4, <1>5, <1>6, <1>7, <1>8, <1>9 DEF Next

LEMMA RowsInvariant == Spec => []RowsInv
  BY RowsInit, RowsNext, KeptInvariant, PTL DEF Spec

(* Every pull reads a page within the cap, no cache outgrows its capacity,  *)
(* whichever keys are asked for and in whatever order, and every request    *)
(* waits for pulls that are in flight.                                      *)
THEOREM DashboardTypes ==
  ASSUME NullIsNoObject, Unbounded
  PROVE  Spec => []DashboardTypeOK
<1>1. ASSUME KeptInv, RowsInv, WaitsInFlight PROVE DashboardTypeOK
  <2>1. now \in Clock /\ users \subseteq User /\ Len(rows) <= MaxRows
    BY <1>1 DEF KeptInv, RowsInv, Uses
  <2>2. \A p \in PullId : pulls[p] # Null => pulls[p].page \in 1..MaxPages
    BY <1>1 DEF KeptInv, PullsOk, PullOk
  <2>3. \A k \in Kinds : Len(done[k]) <= MaxEntries
    BY <1>1 DEF KeptInv, DoneOk, GoodCache
  <2> QED BY <1>1, <2>1, <2>2, <2>3 DEF DashboardTypeOK
<1> QED BY <1>1, KeptInvariant, RowsInvariant, NobodyWaitsInVain, PTL

------------------------------------------------------------------------------
(* Sorted lists.                                                            *)

WeakOrder(R, n) ==
  /\ \A i, j \in 1..n : <<i, j>> \in R => <<j, i>> \notin R
  /\ \A i, j, k \in 1..n : <<i, j>> \in R => <<i, k>> \in R \/ <<k, j>> \in R

(* Where a stable sort takes the k-th from.                                 *)
Sorts(h, R, n) == h \in [1..n -> 1..n] /\ \A k \in 1..n : SortPlace(R, n, h[k]) = k

LEMMA SortsAll ==
  ASSUME NEW n \in Nat, NEW R, WeakOrder(R, n), NEW h, Sorts(h, R, n)
  PROVE  /\ \A j, k \in 1..n : h[j] = h[k] => j = k
         /\ \A i \in 1..n : \E k \in 1..n : h[k] = i
         /\ \A j, k \in 1..n : <<h[j], h[k]>> \in R => j < k
<1>1. /\ \A i \in 1..n : SortPlace(R, n, i) \in 1..n
      /\ \A i, j \in 1..n : SortsBefore(R, i, j) <=> SortPlace(R, n, i) < SortPlace(R, n, j)
      /\ \A i, j \in 1..n : SortPlace(R, n, i) = SortPlace(R, n, j) => i = j
  BY SortPlaces DEF WeakOrder
<1>2. h \in [1..n -> 1..n] /\ \A k \in 1..n : SortPlace(R, n, h[k]) = k
  BY DEF Sorts
<1>3. \A i \in 1..n : \E k \in 1..n : h[k] = i
  <2> SUFFICES ASSUME NEW i \in 1..n PROVE \E k \in 1..n : h[k] = i
    OBVIOUS
  <2> DEFINE k == SortPlace(R, n, i)
  <2>1. k \in 1..n
    BY <1>1
  <2>2. h[k] \in 1..n /\ SortPlace(R, n, h[k]) = k
    BY <1>2, <2>1
  <2>3. h[k] = i
    BY <1>1, <2>2
  <2> QED BY <2>1, <2>3
<1>4. \A j, k \in 1..n : <<h[j], h[k]>> \in R => j < k
  <2> SUFFICES ASSUME NEW j \in 1..n, NEW k \in 1..n, <<h[j], h[k]>> \in R PROVE j < k
    OBVIOUS
  <2>1. h[j] \in 1..n /\ h[k] \in 1..n
    BY <1>2
  <2>2. SortsBefore(R, h[j], h[k])
    BY DEF SortsBefore
  <2>3. SortPlace(R, n, h[j]) < SortPlace(R, n, h[k])
    BY <1>1, <2>1, <2>2
  <2> QED BY <1>2, <2>3
<1> QED BY <1>2, <1>3, <1>4

LEMMA SortsOnce ==
  ASSUME NEW n \in Nat, NEW R, WeakOrder(R, n), NEW h, Sorts(h, R, n), NEW g, Sorts(g, R, n)
  PROVE  h = g
<1>1. \A i, j \in 1..n : SortPlace(R, n, i) = SortPlace(R, n, j) => i = j
  BY SortPlaces DEF WeakOrder
<1>2. \A k \in 1..n : h[k] = g[k]
  BY <1>1 DEF Sorts
<1>3. h = [k \in 1..n |-> h[k]] /\ g = [k \in 1..n |-> g[k]]
  BY DEF Sorts
<1> QED BY <1>2, <1>3

(* The order of the ranking: what RankByActivity sorts by.                  *)
Standing(e, ents, totals) == Score(e, Peaks(ents, totals), totals)
Outranks(e, f, ents, totals) ==
  \/ Standing(e, ents, totals) > Standing(f, ents, totals)
  \/ Standing(e, ents, totals) = Standing(f, ents, totals) /\ e.active > f.active
  \/ Standing(e, ents, totals) = Standing(f, ents, totals) /\ e.active = f.active /\ e.key < f.key
Arranged(ents, h, n) == [k \in 1..n |-> ents[h[k]]]
RankOrder(ents, totals, n) ==
  {p \in (1..n) \X (1..n) : Outranks(ents[p[1]], ents[p[2]], ents, totals)}

LEMMA RankIs ==
  ASSUME NEW ents, NEW n \in Nat, DOMAIN ents = 1..n, NEW totals, WeakOrder(RankOrder(ents, totals, n), n),
         NEW limit
  PROVE  \E h : /\ Sorts(h, RankOrder(ents, totals, n), n)
                /\ RankByActivity(ents, limit, totals) = Limit(Arranged(ents, h, n), limit)
<1> DEFINE D == 1..n
           R == RankOrder(ents, totals, n)
           Less(e, f) == Outranks(e, f, ents, totals)
           place(i) == 1 + Cardinality({j \in D : Less(ents[j], ents[i]) \/ (~ Less(ents[i], ents[j]) /\ j < i)})
           h == [k \in D |-> CHOOSE i \in D : place(i) = k]
           sorted == [k \in D |-> ents[CHOOSE i \in D : place(i) = k]]
<1>1. RankByActivity(ents, limit, totals) = Limit(sorted, limit)
  BY DEF RankByActivity, StableSort, Outranks, Standing
<1>2. \A i, j \in D : <<i, j>> \in R <=> Less(ents[i], ents[j])
  BY DEF RankOrder
<1> HIDE DEF Less
<1>3. \A i \in D : place(i) = SortPlace(R, n, i)
  <2> SUFFICES ASSUME NEW i \in D PROVE place(i) = SortPlace(R, n, i)
    OBVIOUS
  <2>1. {j \in D : Less(ents[j], ents[i]) \/ (~ Less(ents[i], ents[j]) /\ j < i)} = {j \in D : SortsBefore(R, j, i)}
    BY <1>2 DEF SortsBefore
  <2> QED BY <2>1 DEF SortPlace
<1>4. \A k \in D : \E i \in D : SortPlace(R, n, i) = k
  BY SortPlaces DEF WeakOrder
<1> HIDE DEF R, place
<1>5. \A k \in D : h[k] \in D /\ place(h[k]) = k
  BY <1>3, <1>4
<1>6. Sorts(h, R, n)
  BY <1>3, <1>5 DEF Sorts
<1>7. sorted = [k \in D |-> ents[h[k]]]
  OBVIOUS
<1> HIDE DEF h, sorted
<1>8. RankByActivity(ents, limit, totals) = Limit(Arranged(ents, h, n), limit)
  BY <1>1, <1>7 DEF Arranged
<1> QED BY <1>6, <1>8 DEF R

LEMMA RankOrders ==
  ASSUME NEW ents, NEW n \in Nat, NEW totals,
         \A i \in 1..n : Standing(ents[i], ents, totals) \in Int /\ ents[i].active \in Int /\ ents[i].key \in Int
  PROVE  WeakOrder(RankOrder(ents, totals, n), n)
<1> DEFINE S(i) == Standing(ents[i], ents, totals)
           a(i) == ents[i].active
           k(i) == ents[i].key
           R == RankOrder(ents, totals, n)
<1>1. \A i, j \in 1..n : <<i, j>> \in R <=> \/ S(i) > S(j)
                                            \/ S(i) = S(j) /\ a(i) > a(j)
                                            \/ S(i) = S(j) /\ a(i) = a(j) /\ k(i) < k(j)
  BY DEF RankOrder, Outranks
<1>2. \A i \in 1..n : S(i) \in Int /\ a(i) \in Int /\ k(i) \in Int
  OBVIOUS
<1> HIDE DEF S, a, k, R
<1> QED BY <1>1, <1>2 DEF WeakOrder, R

(* Logarithms and scores.                                                   *)
LEMMA LnGrows ==
  /\ Len(Ln) \in Nat /\ \A i \in 1..Len(Ln) : Ln[i] \in Nat
  /\ \A i, j \in 1..Len(Ln) : i <= j => Ln[i] <= Ln[j]
  /\ \A i \in 1..Len(Ln) : i > 1 => Ln[i] > 0
<1> DEFINE L == Len(Ln)
<1>1. L \in Nat /\ DOMAIN Ln = 1..L /\ \A i \in 1..L : Ln[i] \in Nat
  BY ActivityAssumption
<1>2. /\ \A i \in 1..L : i > 1 => Ln[i - 1] < Ln[i]
      /\ Ln[1] = 0
  BY <1>1, ActivityAssumption
<1> HIDE DEF L
<1>3. \A i, j \in 1..L : i <= j => Ln[i] <= Ln[j]
  <2> SUFFICES ASSUME NEW i \in 1..L PROVE \A j \in 1..L : i <= j => Ln[i] <= Ln[j]
    OBVIOUS
  <2> DEFINE P == {d \in 0..(L - i) : Ln[i] <= Ln[i + d]}
  <2>1. 0 \in P /\ L - i \in Nat
    <3>1. i + 0 = i /\ 0 \in 0..(L - i) /\ Ln[i] <= Ln[i]
      BY <1>1
    <3> QED BY <1>1, <3>1
  <2>2. ASSUME NEW d \in 0..((L - i) - 1), d \in P PROVE d + 1 \in P
    <3>1. i + d \in 1..L /\ i + (d + 1) \in 1..L /\ i + (d + 1) > 1 /\ (i + (d + 1)) - 1 = i + d /\ d + 1 \in 0..(L - i)
      BY <1>1
    <3>2. Ln[i + d] < Ln[i + (d + 1)]
      BY <1>2, <3>1
    <3>3. Ln[i] <= Ln[i + d] /\ Ln[i] \in Nat /\ Ln[i + d] \in Nat /\ Ln[i + (d + 1)] \in Nat
      BY <1>1, <2>2, <3>1
    <3>4. Ln[i] <= Ln[i + (d + 1)]
      BY <3>2, <3>3
    <3> QED BY <3>1, <3>4
  <2> HIDE DEF P
  <2>3. \A d \in 0..(L - i) : d \in P
    BY <2>1, <2>2, UpTo
  <2> SUFFICES ASSUME NEW j \in 1..L, i <= j PROVE Ln[i] <= Ln[j]
    OBVIOUS
  <2>4. j - i \in 0..(L - i) /\ i + (j - i) = j
    BY <1>1
  <2>5. Ln[i] <= Ln[i + (j - i)]
    BY <2>3, <2>4 DEF P
  <2> QED BY <2>4, <2>5
<1>5. ASSUME NEW i \in 1..L, i > 1 PROVE Ln[i] > 0
  <2>1. i - 1 \in 1..L
    BY <1>1, <1>5
  <2>2. Ln[i - 1] < Ln[i] /\ Ln[i - 1] \in Nat /\ Ln[i] \in Nat
    BY <1>1, <1>2, <1>5, <2>1
  <2> QED BY <2>2
<1> QED BY <1>1, <1>3, <1>5 DEF L

LEMMA LogNormIs ==
  ASSUME NEW v \in Countable, NEW peak \in Countable
  PROVE  LogNorm(v, peak) \in Nat /\ LogNorm(v, peak) <= 1000
<1>1. Len(Ln) \in Nat /\ v \in Nat /\ peak \in Nat
  BY LnGrows DEF Countable
<1>2. CASE v <= 0 \/ peak <= 1 \/ v >= peak
  BY <1>2 DEF LogNorm
<1>3. CASE ~ (v <= 0 \/ peak <= 1 \/ v >= peak)
  <2> DEFINE x == Ln[v]
             y == Ln[peak]
  <2>1. v \in 1..Len(Ln) /\ peak \in 1..Len(Ln) /\ peak > 1 /\ v <= peak
    BY <1>1, <1>3 DEF Countable
  <2>2. x \in Nat /\ y \in Nat \ {0} /\ x <= y
    BY <2>1, LnGrows
  <2>3. LogNorm(v, peak) = (1000 * x) \div y
    BY <1>3 DEF LogNorm
  <2> HIDE DEF x, y
  <2>4. 1000 * x \in Nat /\ 1000 * y \in Nat /\ 1000 * x <= 1000 * y
    BY <2>2
  <2> DEFINE a == 1000 * x
             b == 1000 * y
  <2>5. a \div y <= b \div y /\ a \div y \in Int /\ b \div y \in Int
    <3> HIDE DEF a, b
    <3>1. a \in Int /\ b \in Int /\ a <= b
      BY <2>4 DEF a, b
    <3> QED BY <2>2, <3>1, DivGrows, DivBounds
  <2>6. b \div y = 1000
    BY <2>2
  <2>7. a \div y >= 0
    <3>1. 0 \div y = 0
      BY <2>2
    <3>2. 0 \div y <= a \div y
      <4> HIDE DEF a
      <4>1. 0 \in Int /\ a \in Int /\ 0 <= a
        BY <2>4 DEF a
      <4> QED BY <2>2, <4>1, DivGrows
    <3> HIDE DEF a
    <3> QED BY <2>5, <3>1, <3>2
  <2> HIDE DEF a, b
  <2>8. LogNorm(v, peak) = a \div y
    BY <2>3 DEF a
  <2> QED BY <2>5, <2>6, <2>7, <2>8
<1> QED BY <1>2, <1>3

(* The logarithm grows with the value.                                      *)
LEMMA LogNormGrows ==
  ASSUME NEW v \in Countable, NEW w \in Countable, NEW peak \in Countable, v <= w
  PROVE  LogNorm(v, peak) <= LogNorm(w, peak)
<1>1. /\ Len(Ln) \in Nat /\ v \in Nat /\ w \in Nat /\ peak \in Nat
      /\ LogNorm(v, peak) \in Nat /\ LogNorm(v, peak) <= 1000 /\ LogNorm(w, peak) \in Nat
  BY LnGrows, LogNormIs DEF Countable
<1>2. CASE v <= 0
  <2>1. LogNorm(v, peak) = 0
    BY <1>2 DEF LogNorm
  <2> QED BY <1>1, <2>1
<1>3. CASE v > 0 /\ (peak <= 1 \/ w >= peak)
  <2>1. LogNorm(w, peak) = 1000
    BY <1>1, <1>3 DEF LogNorm
  <2> QED BY <1>1, <2>1
<1>4. CASE v > 0 /\ ~ (peak <= 1 \/ w >= peak)
  <2> DEFINE x == Ln[v]
             y == Ln[w]
             z == Ln[peak]
  <2>1. v \in 1..Len(Ln) /\ w \in 1..Len(Ln) /\ peak \in 1..Len(Ln) /\ peak > 1
    BY <1>1, <1>4 DEF Countable
  <2>2. x \in Nat /\ y \in Nat /\ x <= y /\ z \in Nat \ {0}
    BY <2>1, LnGrows
  <2>3. LogNorm(v, peak) = (1000 * x) \div z /\ LogNorm(w, peak) = (1000 * y) \div z
    BY <1>1, <1>4 DEF LogNorm
  <2> HIDE DEF x, y, z
  <2> DEFINE a == 1000 * x
             b == 1000 * y
  <2>4. a \in Int /\ b \in Int /\ a <= b
    BY <2>2
  <2> HIDE DEF a, b
  <2>5. a \div z <= b \div z
    BY <2>2, <2>4, DivGrows
  <2> QED BY <2>3, <2>5 DEF a, b
<1> QED BY <1>1, <1>2, <1>3, <1>4

LEMMA BoostIs ==
  ASSUME NEW x, Measured(x), NEW peak, Measured(peak)
  PROVE  CompositeBoost(x, peak) \in Nat
<1> DEFINE a == LogNorm(x.spend, peak.spend)
           b == LogNorm(x.tokens, peak.tokens)
           c == BoostMax * (CostShare * a + (10 - CostShare) * b)
<1>1. a \in Nat /\ b \in Nat
  BY LogNormIs DEF Measured
<1>2. BoostMax \in Nat /\ CostShare \in Nat /\ 10 - CostShare \in Nat
  BY ActivityAssumption
<1>3. CompositeBoost(x, peak) = c \div 100
  BY DEF CompositeBoost
<1> HIDE DEF a, b
<1>4. c \in Nat
  <2>1. CostShare * a \in Nat /\ (10 - CostShare) * b \in Nat
    BY <1>1, <1>2
  <2> QED BY <1>2, <2>1
<1> HIDE DEF c
<1> QED BY <1>3, <1>4

LEMMA BoostGrows ==
  ASSUME NEW x, Measured(x), NEW y, Measured(y), NEW peak, Measured(peak),
         x.spend <= y.spend, x.tokens <= y.tokens
  PROVE  CompositeBoost(x, peak) <= CompositeBoost(y, peak)
<1> DEFINE a == LogNorm(x.spend, peak.spend)
           b == LogNorm(x.tokens, peak.tokens)
           c == LogNorm(y.spend, peak.spend)
           d == LogNorm(y.tokens, peak.tokens)
           m == CostShare
           k == 10 - CostShare
           p == m * a + k * b
           q == m * c + k * d
           s == BoostMax * p
           t == BoostMax * q
<1>1. a \in Nat /\ b \in Nat /\ c \in Nat /\ d \in Nat /\ a <= c /\ b <= d
  BY LogNormIs, LogNormGrows DEF Measured
<1>2. BoostMax \in Nat /\ m \in Nat /\ k \in Nat
  BY ActivityAssumption
<1>3. CompositeBoost(x, peak) = s \div 100 /\ CompositeBoost(y, peak) = t \div 100
  BY DEF CompositeBoost
<1> HIDE DEF a, b, c, d, m, k
<1>4. /\ m * a \in Int /\ m * c \in Int /\ m * a <= m * c
      /\ k * b \in Int /\ k * d \in Int /\ k * b <= k * d
  BY <1>1, <1>2, TimesGrows
<1>5. p \in Int /\ q \in Int /\ p <= q
  BY <1>4
<1> HIDE DEF p, q
<1>6. s \in Int /\ t \in Int /\ s <= t
  BY <1>2, <1>5, TimesGrows
<1> HIDE DEF s, t
<1>7. s \div 100 <= t \div 100
  BY <1>6, DivGrows
<1> QED BY <1>3, <1>7

(* A function of a finite set has finitely many values.                     *)
LEMMA ValuesAre ==
  ASSUME NEW S, IsFiniteSet(S), NEW f, DOMAIN f = S
  PROVE  IsFiniteSet({f[x] : x \in S})
<1> DEFINE T == {f[x] : x \in S}
           g == [x \in S |-> f[x]]
<1>1. g \in Surjection(S, T)
  BY DEF Surjection
<1> HIDE DEF g, T
<1>2. IsFiniteSet(T)
  BY <1>1, FS_Surjection
<1> QED BY <1>2 DEF T

(* The greatest of finitely many.                                           *)
LEMMA GreatestOf ==
  ASSUME NEW S \in SUBSET Int, IsFiniteSet(S), S # {}
  PROVE  \E m \in S : \A y \in S : y <= m
<1> DEFINE n == Cardinality(S)
           a == Ascending(S)
<1>1. /\ n \in Nat /\ \A k \in 1..n : a[k] \in S
      /\ \A x \in S : \E k \in 1..n : a[k] = x
  BY AscendingPlaces
<1>2. \A j, k \in 1..n : j < k => a[j] < a[k]
  BY AscendingOrder
<1> HIDE DEF n, a
<1>3. n \in 1..n
  <2>1. PICK x \in S : TRUE
    OBVIOUS
  <2>2. \E k \in 1..n : a[k] = x
    BY <1>1
  <2> QED BY <1>1, <2>2
<1>4. \A y \in S : y <= a[n]
  <2> SUFFICES ASSUME NEW k \in 1..n PROVE a[k] <= a[n]
    BY <1>1
  <2>1. a[k] \in Int /\ a[n] \in Int
    BY <1>1, <1>3
  <2>2. CASE k = n
    BY <2>1, <2>2
  <2>3. CASE k # n
    <3>1. k < n
      BY <1>1, <2>3
    <3> QED BY <1>2, <1>3, <2>1, <3>1
  <2> QED BY <2>2, <2>3
<1> QED BY <1>1, <1>3, <1>4

LEMMA PeakIs ==
  ASSUME NEW S \in SUBSET Countable, IsFiniteSet(S)
  PROVE  MaxOrZero(S) \in Countable
<1>1. CASE S = {}
  BY <1>1, LnGrows DEF MaxOrZero, Countable
<1>2. CASE S # {}
  <2>1. S \in SUBSET Int
    BY DEF Countable
  <2>2. PICK m \in S : \A y \in S : y <= m
    BY <1>2, <2>1, GreatestOf
  <2>3. \A y \in S : m >= y
    BY <2>1, <2>2
  <2>4. MaxOrZero(S) = CHOOSE x \in S : \A y \in S : x >= y
    BY <1>2 DEF MaxOrZero, Max
  <2> QED BY <2>3, <2>4
<1> QED BY <1>1, <1>2

(* What is ranked: candidates of their key's totals.                        *)
Candidates(ents, n) ==
  /\ n \in Nat /\ DOMAIN ents = 1..n
  /\ \A i \in 1..n : ents[i].key \in Int /\ ents[i].llmKey = ents[i].key /\ ents[i].active \in Countable
AllMeasured(totals) == \A k \in DOMAIN totals : Measured(totals[k])

LEMMA PeaksAre ==
  ASSUME NEW ents, NEW n, Candidates(ents, n), NEW totals, AllMeasured(totals)
  PROVE  Measured(Peaks(ents, totals)) /\ Peaks(ents, totals).active \in Countable
<1> DEFINE R == Range(ents)
           boosted == {e.llmKey : e \in R} \cap DOMAIN totals
           A == {e.active : e \in R}
           B == {totals[k].spend : k \in boosted}
           C == {totals[k].tokens : k \in boosted}
<1>1. Peaks(ents, totals) = [active |-> MaxOrZero(A), spend |-> MaxOrZero(B), tokens |-> MaxOrZero(C)]
  BY DEF Peaks
<1>2. IsFiniteSet(R)
  <2>1. R = {ents[i] : i \in DOMAIN ents} /\ IsFiniteSet(DOMAIN ents)
    BY FS_Interval DEF Candidates, Range
  <2> HIDE DEF R
  <2> QED BY <2>1, ValuesAre
<1>3. A \in SUBSET Countable
  BY DEF Candidates, Range
<1> HIDE DEF R
<1>4. IsFiniteSet(A) /\ IsFiniteSet({e.llmKey : e \in R})
  <2> DEFINE f == [e \in R |-> e.active]
             g == [e \in R |-> e.llmKey]
  <2>1. IsFiniteSet({f[e] : e \in R}) /\ IsFiniteSet({g[e] : e \in R})
    BY <1>2, ValuesAre
  <2>2. {f[e] : e \in R} = A /\ {g[e] : e \in R} = {e.llmKey : e \in R}
    OBVIOUS
  <2> QED BY <2>1, <2>2
<1>5. IsFiniteSet(boosted) /\ boosted \subseteq DOMAIN totals
  BY <1>4, FS_Intersection
<1> HIDE DEF boosted
<1>6. IsFiniteSet(B) /\ IsFiniteSet(C)
  <2> DEFINE f == [k \in boosted |-> totals[k].spend]
             g == [k \in boosted |-> totals[k].tokens]
  <2>1. IsFiniteSet({f[k] : k \in boosted}) /\ IsFiniteSet({g[k] : k \in boosted})
    BY <1>5, ValuesAre
  <2>2. {f[k] : k \in boosted} = B /\ {g[k] : k \in boosted} = C
    OBVIOUS
  <2> QED BY <2>1, <2>2
<1>7. B \in SUBSET Countable /\ C \in SUBSET Countable
  BY <1>5 DEF AllMeasured, Measured
<1> HIDE DEF A, B, C
<1>8. MaxOrZero(A) \in Countable /\ MaxOrZero(B) \in Countable /\ MaxOrZero(C) \in Countable
  BY <1>3, <1>4, <1>6, <1>7, PeakIs
<1> QED BY <1>1, <1>8 DEF Measured

LEMMA StandingIs ==
  ASSUME NEW ents, NEW n, Candidates(ents, n), NEW totals, AllMeasured(totals), NEW i \in 1..n
  PROVE  Standing(ents[i], ents, totals) \in Int
<1> DEFINE peak == Peaks(ents, totals)
           e == ents[i]
<1>1. Measured(peak) /\ peak.active \in Countable
  BY PeaksAre
<1>2. e.active \in Countable
  BY DEF Candidates
<1> HIDE DEF peak, e
<1>3. LogNorm(e.active, peak.active) \in Nat
  BY <1>1, <1>2, LogNormIs
<1>4. e.llmKey \in DOMAIN totals => CompositeBoost(totals[e.llmKey], peak) \in Nat
  BY <1>1, BoostIs DEF AllMeasured
<1> DEFINE b == IF e.llmKey \in DOMAIN totals THEN CompositeBoost(totals[e.llmKey], peak) ELSE 0
<1>5. b \in Nat
  BY <1>4
<1>6. Standing(e, ents, totals) = LogNorm(e.active, peak.active) + b
  BY DEF Standing, Score, peak
<1> HIDE DEF b
<1>7. Standing(e, ents, totals) \in Int
  BY <1>3, <1>5, <1>6
<1> QED BY <1>7 DEF e

(* What is ahead in every measure stands no lower.                          *)
Has(e, totals) == IF e.key \in DOMAIN totals THEN totals[e.key] ELSE [spend |-> 0, tokens |-> 0]
LEMMA StandingGrows ==
  ASSUME NEW ents, NEW n, Candidates(ents, n), NEW totals, AllMeasured(totals), NEW i \in 1..n, NEW j \in 1..n,
         ents[i].active >= ents[j].active,
         Has(ents[i], totals).spend >= Has(ents[j], totals).spend,
         Has(ents[i], totals).tokens >= Has(ents[j], totals).tokens
  PROVE  Standing(ents[i], ents, totals) >= Standing(ents[j], ents, totals)
<1> DEFINE peak == Peaks(ents, totals)
           none == [spend |-> 0, tokens |-> 0]
           e == ents[i]
           f == ents[j]
           x == Has(e, totals)
           y == Has(f, totals)
<1>1. Measured(peak) /\ peak.active \in Countable
  BY PeaksAre
<1>2. /\ e.active \in Countable /\ f.active \in Countable /\ e.llmKey = e.key /\ f.llmKey = f.key
      /\ f.active <= e.active
  <2>1. e.active \in Countable /\ f.active \in Countable /\ e.llmKey = e.key /\ f.llmKey = f.key
    BY DEF Candidates
  <2>2. f.active <= e.active
    BY <2>1 DEF Countable
  <2> QED BY <2>1, <2>2
<1>3. Measured(none) /\ none.spend = 0 /\ none.tokens = 0
  BY LnGrows DEF Measured, Countable
<1>4. Measured(x) /\ Measured(y)
  BY <1>3 DEF Has, AllMeasured
<1>5. y.spend <= x.spend /\ y.tokens <= x.tokens
  <2>1. {x.spend, y.spend, x.tokens, y.tokens} \subseteq Int
    BY <1>4 DEF Measured, Countable
  <2> QED BY <2>1
<1> HIDE DEF peak, e, f
<1>6. CompositeBoost(none, peak) = 0
  <2>1. LogNorm(0, peak.spend) = 0 /\ LogNorm(0, peak.tokens) = 0
    BY DEF LogNorm
  <2>2. CompositeBoost(none, peak) = (BoostMax * (CostShare * 0 + (10 - CostShare) * 0)) \div 100
    BY <1>3, <2>1 DEF CompositeBoost
  <2>3. BoostMax \in Nat /\ CostShare \in Nat
    BY ActivityAssumption
  <2> QED BY <2>2, <2>3
<1>7. /\ Standing(e, ents, totals) = LogNorm(e.active, peak.active) + CompositeBoost(x, peak)
      /\ Standing(f, ents, totals) = LogNorm(f.active, peak.active) + CompositeBoost(y, peak)
  <2> HIDE DEF none
  <2> QED BY <1>2, <1>6 DEF Standing, Score, Has, peak, none
<1> HIDE DEF x, y, none
<1>8. LogNorm(f.active, peak.active) <= LogNorm(e.active, peak.active)
  BY <1>1, <1>2, LogNormGrows
<1>9. CompositeBoost(y, peak) <= CompositeBoost(x, peak)
  BY <1>1, <1>4, <1>5, BoostGrows
<1>10. /\ LogNorm(e.active, peak.active) \in Nat /\ LogNorm(f.active, peak.active) \in Nat
       /\ CompositeBoost(x, peak) \in Nat /\ CompositeBoost(y, peak) \in Nat
  BY <1>1, <1>2, <1>4, LogNormIs, BoostIs
<1>11. Standing(e, ents, totals) >= Standing(f, ents, totals)
  BY <1>7, <1>8, <1>9, <1>10
<1> QED BY <1>11 DEF e, f

------------------------------------------------------------------------------
(* Groups.                                                                  *)

GroupKeys(rs, n, field) == {Get(rs[i], field) : i \in 1..n}
Groups(G, id, rs, n, field, max) ==
  LET m == Cardinality(GroupKeys(rs, n, field)) IN
  /\ m \in Nat /\ m <= n /\ DOMAIN G = 1..m /\ Len(G) = m
  /\ \A k \in 1..m : /\ id[k] \in GroupKeys(rs, n, field)
                     /\ Get(G[k], "_id") = id[k] /\ Get(G[k], "n") = Count(rs, field, id[k])
                     /\ Get(G[k], "last") = MaxOf(rs, field, id[k], max)
  /\ \A j, k \in 1..m : id[j] = id[k] => j = k
  /\ \A v \in GroupKeys(rs, n, field) : \E k \in 1..m : id[k] = v

LEMMA BucketIs ==
  ASSUME NEW v, NEW c, NEW l
  PROVE  LET b == Put(Put(Put(<<>>, "_id", One(v)), "n", One(c)), "last", One(l)) IN
         Get(b, "_id") = v /\ Get(b, "n") = c /\ Get(b, "last") = l
<1> DEFINE b1 == Put(<<>>, "_id", One(v))
           b2 == Put(b1, "n", One(c))
           b3 == Put(b2, "last", One(l))
<1>1. DOMAIN b1 = {"_id"} /\ b1["_id"] = One(v)
  BY DEF Put
<1> HIDE DEF b1
<1>2. DOMAIN b2 = {"_id", "n"} /\ b2["_id"] = One(v) /\ b2["n"] = One(c)
  BY <1>1 DEF Put
<1> HIDE DEF b2
<1>3. DOMAIN b3 = {"_id", "n", "last"} /\ b3["_id"] = One(v) /\ b3["n"] = One(c) /\ b3["last"] = One(l)
  BY <1>2 DEF Put
<1> HIDE DEF b3
<1>4. \A x : One(x).of[1] = x
  BY DEF One
<1>5. Get(b3, "_id") = v /\ Get(b3, "n") = c /\ Get(b3, "last") = l
  BY <1>3, <1>4 DEF Get
<1> QED BY <1>5 DEF b1, b2, b3

(* A group for each value of the field, once.                               *)
LEMMA GroupsAre ==
  ASSUME NEW rs, NEW n \in Nat, DOMAIN rs = 1..n, NEW field, NEW max
  PROVE  \E id : Groups(GroupStage(rs, field, max), id, rs, n, field, max)
<1> DEFINE of(i) == Get(rs[i], field)
           first == {i \in 1..n : \A j \in 1..(i - 1) : of(j) # of(i)}
           a == Ascending(first)
           m == Cardinality(first)
           K == GroupKeys(rs, n, field)
           id == [k \in 1..m |-> of(a[k])]
           bucket(v) == Put(Put(Put(<<>>, "_id", One(v)), "n", One(Count(rs, field, v))),
                            "last", One(MaxOf(rs, field, v, max)))
           G == [k \in 1..m |-> bucket(id[k])]
<1>1. GroupStage(rs, field, max) = G
  <2>1. DOMAIN id = 1..m
    OBVIOUS
  <2> QED BY <2>1 DEF GroupStage
<1>2. first \in SUBSET (1..n) /\ first \in SUBSET Int /\ IsFiniteSet(first) /\ m <= n
  <2>1. first \in SUBSET (1..n)
    OBVIOUS
  <2> DEFINE D == 1..n
  <2>2. IsFiniteSet(D) /\ Cardinality(D) = n
    BY FS_Interval
  <2> HIDE DEF first
  <2>3. first \in SUBSET D
    BY <2>1
  <2> HIDE DEF D
  <2>4. IsFiniteSet(first) /\ m <= n
    BY <2>2, <2>3, FS_Subset
  <2> QED BY <2>1, <2>4
<1>3. K = {of(i) : i \in 1..n}
  BY DEF GroupKeys
<1>4. ASSUME NEW i \in first, NEW j \in first, of(i) = of(j) PROVE i = j
  <2>1. i \in 1..n /\ j \in 1..n
    OBVIOUS
  <2>2. ~ (i < j)
    <3> SUFFICES ASSUME i < j PROVE FALSE
      OBVIOUS
    <3>1. i \in 1..(j - 1)
      BY <2>1
    <3> QED BY <1>4, <3>1
  <2>3. ~ (j < i)
    <3> SUFFICES ASSUME j < i PROVE FALSE
      OBVIOUS
    <3>1. j \in 1..(i - 1)
      BY <2>1
    <3> QED BY <1>4, <3>1
  <2> QED BY <2>1, <2>2, <2>3
<1>5. \A v \in K : \E i \in first : of(i) = v
  <2> SUFFICES ASSUME NEW v \in K PROVE \E i \in first : of(i) = v
    OBVIOUS
  <2> DEFINE at == {i \in 1..n : of(i) = v}
  <2>1. at \in SUBSET Nat /\ at # {}
    BY <1>3
  <2>2. PICK i \in at : \A x \in at : i <= x
    BY <2>1, LeastNatural
  <2>3. i \in 1..n /\ of(i) = v
    OBVIOUS
  <2>4. ASSUME NEW j \in 1..(i - 1) PROVE of(j) # of(i)
    <3>1. j \in 1..n /\ j < i
      BY <2>3
    <3>2. j \notin at
      BY <2>2, <2>3, <3>1
    <3> HIDE DEF of
    <3> QED BY <2>3, <3>1, <3>2
  <2>5. i \in first
    BY <2>3, <2>4
  <2> QED BY <2>3, <2>5
<1>6. \A i \in first : of(i) \in K
  BY <1>2, <1>3
<1> HIDE DEF first, of, K
<1>7. /\ m \in Nat
      /\ \A k \in 1..m : a[k] \in first
      /\ \A j, k \in 1..m : a[j] = a[k] => j = k
      /\ \A x \in first : \E k \in 1..m : a[k] = x
  BY <1>2, AscendingPlaces
<1> HIDE DEF a, m
<1>8. /\ \A k \in 1..m : id[k] \in K
      /\ \A j, k \in 1..m : id[j] = id[k] => j = k
  BY <1>4, <1>6, <1>7
<1>9. \A v \in K : \E k \in 1..m : id[k] = v
  <2> SUFFICES ASSUME NEW v \in K PROVE \E k \in 1..m : id[k] = v
    OBVIOUS
  <2>1. PICK i \in first : of(i) = v
    BY <1>5
  <2>2. PICK k \in 1..m : a[k] = i
    BY <1>7
  <2> QED BY <2>1, <2>2
<1>10. Cardinality(K) = m
  <2> DEFINE D == 1..m
  <2>1. id \in [D -> K]
    BY <1>8
  <2>2. id \in Injection(D, K) /\ id \in Surjection(D, K)
    <3> HIDE DEF id
    <3> QED BY <1>8, <1>9, <2>1 DEF Injection, IsInjective, Surjection
  <2>3. IsFiniteSet(D) /\ Cardinality(D) = m
    BY <1>7, FS_Interval
  <2> HIDE DEF D, id
  <2> QED BY <2>2, <2>3, FS_Surjection
<1>11. \A k \in 1..m : /\ Get(G[k], "_id") = id[k] /\ Get(G[k], "n") = Count(rs, field, id[k])
                       /\ Get(G[k], "last") = MaxOf(rs, field, id[k], max)
  <2> SUFFICES ASSUME NEW k \in 1..m
               PROVE  /\ Get(G[k], "_id") = id[k] /\ Get(G[k], "n") = Count(rs, field, id[k])
                      /\ Get(G[k], "last") = MaxOf(rs, field, id[k], max)
    OBVIOUS
  <2>1. G[k] = bucket(id[k])
    OBVIOUS
  <2> HIDE DEF G, id
  <2> QED BY <2>1, BucketIs
<1>12. DOMAIN G = 1..m /\ Len(G) = m
  <2> HIDE DEF bucket, id
  <2> QED BY <1>7
<1> HIDE DEF G, id
<1>13. Groups(G, id, rs, n, field, max)
  BY <1>2, <1>7, <1>8, <1>9, <1>10, <1>11, <1>12 DEF Groups, K
<1> QED BY <1>1, <1>13

LEMMA UsageIs ==
  ASSUME RowsInv, NEW filter
  PROVE  LET u == Usage(rows, filter) IN
         /\ Len(u) \in Nat /\ Len(u) <= MaxRows /\ DOMAIN u = 1..Len(u)
         /\ \A i \in 1..Len(u) : UseDoc(u[i], UsageDay(now))
<1> DEFINE at == {i \in DOMAIN rows : Selected(rows[i], UsageColumns, filter)}
           p == Picked(rows, at)
<1>1. /\ IsSequence(rows) /\ Len(rows) \in Nat /\ Len(rows) <= MaxRows /\ DOMAIN rows = 1..Len(rows)
      /\ MaxRows \in Nat /\ at \in SUBSET DOMAIN rows
  BY SequencesGrow, DashboardAssumption DEF RowsInv, Uses, IsSequence
<1>2. Usage(rows, filter) = p
  BY DEF Usage, SelectMatching
<1> HIDE DEF at
<1>3. /\ IsSequence(p) /\ Len(p) <= Len(rows)
      /\ \A k \in 1..Len(p) : Ascending(at)[k] \in at /\ p[k] = rows[Ascending(at)[k]]
  BY <1>1, PickedMembers
<1> HIDE DEF p
<1>4. Len(p) \in Nat /\ Len(p) <= MaxRows
  BY <1>1, <1>3 DEF IsSequence
<1>5. \A k \in 1..Len(p) : UseDoc(p[k], UsageDay(now))
  <2> HIDE DEF UseDoc
  <2> QED BY <1>1, <1>3 DEF RowsInv, Uses
<1>6. DOMAIN p = 1..Len(p)
  BY <1>3, SequencesGrow
<1> QED BY <1>2, <1>4, <1>5, <1>6

(* The entities that were active: each key of the rows once, with the count *)
(* of its rows.                                                             *)
Once(ents, n, K) ==
  /\ K \subseteq Int /\ IsFiniteSet(K) /\ Cardinality(K) = n
  /\ \A i \in 1..n : ents[i].key \in K
  /\ \A i, j \in 1..n : ents[i].key = ents[j].key => i = j
  /\ \A v \in K : \E i \in 1..n : ents[i].key = v

LEMMA CountIs ==
  ASSUME NEW rs, NEW n \in Nat, n <= MaxRows, DOMAIN rs = 1..n, NEW field, NEW v
  PROVE  Count(rs, field, v) \in Nat /\ Count(rs, field, v) <= n /\ Count(rs, field, v) \in Countable
<1> DEFINE D == 1..n
           at == {i \in DOMAIN rs : Get(rs[i], field) = v}
<1>1. IsFiniteSet(D) /\ Cardinality(D) = n /\ at \in SUBSET D
  BY FS_Interval
<1> HIDE DEF D, at
<1>2. IsFiniteSet(at) /\ Cardinality(at) <= n
  BY <1>1, FS_Subset
<1>3. Cardinality(at) \in Nat
  BY <1>2, FS_CardinalityType
<1>4. MaxRows \in Nat /\ MaxRows <= Len(Ln) /\ Len(Ln) \in Nat
  BY DashboardAssumption, LnAssumption, LnGrows
<1>5. Count(rs, field, v) = Cardinality(at)
  BY DEF Count, at
<1> QED BY <1>2, <1>3, <1>4, <1>5 DEF Countable

LEMMA ActiveIs ==
  ASSUME RowsInv, NEW since, NEW by, by \in {"user_id", "app_key"}
  PROVE  LET ents == Active(rows, since, by)
             u == Usage(rows, <<Since(since)>>)
             K == {Get(d, by) : d \in Range(u)}
         IN Candidates(ents, Cardinality(K)) /\ Once(ents, Cardinality(K), K) /\ Len(ents) = Cardinality(K)
<1> DEFINE u == Usage(rows, <<Since(since)>>)
           n == Len(u)
           G == GroupStage(u, by, "last_at")
           K == GroupKeys(u, n, by)
           m == Cardinality(K)
           Candidate(g) == [key |-> Get(g, "_id"), llmKey |-> Get(g, "_id"), active |-> Get(g, "n")]
           ents == [i \in DOMAIN G |-> Candidate(G[i])]
<1>1. n \in Nat /\ n <= MaxRows /\ DOMAIN u = 1..n /\ \A i \in 1..n : UseDoc(u[i], UsageDay(now))
  BY UsageIs
<1>2. Active(rows, since, by) = ents
  BY DEF Active
<1> HIDE DEF u
<1>3. K = {Get(d, by) : d \in Range(u)}
  BY <1>1 DEF GroupKeys, Range
<1>4. K \subseteq Int
  <2> SUFFICES ASSUME NEW i \in 1..n PROVE Get(u[i], by) \in Int
    BY DEF GroupKeys
  <2>1. Get(u[i], "user_id") \in User /\ Get(u[i], "app_key") \in App
    BY <1>1, UseDocIs, UsageDays
  <2> QED BY <2>1, DashboardAssumption
<1>5. IsFiniteSet(K)
  <2> DEFINE f == [i \in 1..n |-> Get(u[i], by)]
             D == 1..n
  <2>1. IsFiniteSet(D)
    BY <1>1, FS_Interval
  <2>2. IsFiniteSet({f[i] : i \in D})
    <3>1. DOMAIN f = D
      OBVIOUS
    <3> HIDE DEF f, D
    <3> QED BY <2>1, <3>1, ValuesAre
  <2>3. K = {f[i] : i \in D}
    BY DEF GroupKeys
  <2> QED BY <2>2, <2>3
<1>6. \A v : Count(u, by, v) \in Countable
  <2> HIDE DEF n
  <2> QED BY <1>1, CountIs
<1>7. PICK id : Groups(G, id, u, n, by, "last_at")
  <2> HIDE DEF n
  <2> QED BY <1>1, GroupsAre
<1> HIDE DEF n, G, K
<1>8. /\ m \in Nat /\ DOMAIN G = 1..m
      /\ \A k \in 1..m : id[k] \in K /\ Get(G[k], "_id") = id[k] /\ Get(G[k], "n") = Count(u, by, id[k])
      /\ \A j, k \in 1..m : id[j] = id[k] => j = k
      /\ \A v \in K : \E k \in 1..m : id[k] = v
  BY <1>7 DEF Groups, K
<1> HIDE DEF m
<1>9. DOMAIN ents = 1..m /\ Len(ents) = m
  BY <1>8
<1>10. \A i \in 1..m : ents[i].key = id[i] /\ ents[i].llmKey = id[i] /\ ents[i].active \in Countable
  BY <1>6, <1>8
<1> HIDE DEF ents
<1>11. Candidates(ents, m)
  BY <1>4, <1>8, <1>9, <1>10 DEF Candidates
<1>12. Once(ents, m, K)
  BY <1>4, <1>5, <1>8, <1>10 DEF Once, m
<1> QED BY <1>2, <1>3, <1>9, <1>11, <1>12 DEF m, u

------------------------------------------------------------------------------
(* The totals of the log.                                                   *)

(* What is picked of the log is measured, whatever part of it is counted.   *)
LEMMA PickedTotals ==
  ASSUME NEW at \in SUBSET DOMAIN Log, NEW of \in SUBSET DOMAIN Picked(Log, at)
  PROVE  Measured(Total(Picked(Log, at), of))
<1> DEFINE n == Len(Log)
           log == Picked(Log, at)
           m == Cardinality(at)
           b == Ascending(at)
           a == [i \in of |-> b[i]]
<1>1. n \in Nat /\ DOMAIN Log = 1..n
  BY LogIs
<1> HIDE DEF n
<1>2. /\ m \in Nat /\ DOMAIN log = 1..m
      /\ \A k \in 1..m : b[k] \in at /\ log[k] = Log[b[k]]
      /\ \A j, k \in 1..m : j < k => b[j] < b[k]
  BY <1>1, PickedPlaces
<1>3. of \in SUBSET (1..m)
  BY <1>2
<1>4. IsFiniteSet(of)
  <2> DEFINE D == 1..m
  <2>1. IsFiniteSet(D)
    BY <1>2, FS_Interval
  <2>2. of \in SUBSET D
    BY <1>3
  <2> HIDE DEF D
  <2> QED BY <2>1, <2>2, FS_Subset
<1> HIDE DEF m, b, log
<1>5. a \in [of -> DOMAIN Log] /\ \A i \in of : log[i] = Log[a[i]]
  BY <1>2, <1>3
<1>6. \A i, j \in of : a[i] = a[j] => i = j
  <2> SUFFICES ASSUME NEW i \in of, NEW j \in of, b[i] = b[j] PROVE i = j
    OBVIOUS
  <2>1. i \in 1..m /\ j \in 1..m /\ b[i] \in 1..n
    BY <1>1, <1>2, <1>3
  <2>2. ~ (i < j) /\ ~ (j < i)
    BY <1>1, <1>2, <2>1
  <2> QED BY <1>2, <2>1, <2>2
<1> HIDE DEF a
<1>7. Measured(Total(log, of))
  BY <1>4, <1>5, <1>6, TotalIs
<1> QED BY <1>7 DEF log

LEMMA TotalsAre ==
  ASSUME NEW t
  PROVE  AllMeasured(Totals(t))
<1> DEFINE at == {i \in DOMAIN Log : Log[i].at <= t}
           log == Picked(Log, at)
           key == KeysOf("apps", log, Range(Keys))
           within == {i \in DOMAIN log : UsageDay(log[i].at) >= 0 /\ key[i] # Null}
           K == {key[i] : i \in within}
           of(k) == {i \in within : key[i] = k}
<1>1. Totals(t) = [k \in K |-> Total(log, of(k))]
  BY DEF Totals, AllTotals
<1>2. at \in SUBSET DOMAIN Log
  OBVIOUS
<1>3. \A k \in K : of(k) \in SUBSET DOMAIN log
  OBVIOUS
<1> HIDE DEF at, K, of
<1>4. \A k \in K : Measured(Total(log, of(k)))
  BY <1>2, <1>3, PickedTotals
<1> HIDE DEF log
<1> QED BY <1>1, <1>4 DEF AllMeasured

------------------------------------------------------------------------------
(* The ranking.                                                             *)

(* The first of a sequence.                                                 *)
LEMMA BeginsWith ==
  ASSUME NEW s, IsSequence(s), NEW l \in Nat, l <= Len(s)
  PROVE  LET p == SubSeq(s, 1, l) IN
         IsSequence(p) /\ Len(p) = l /\ DOMAIN p = 1..l /\ \A k \in 1..l : p[k] = s[k]
<1> DEFINE p == SubSeq(s, 1, l)
<1>1. /\ IsSequence(p) /\ Len(p) = IF 1 <= l THEN l - 1 + 1 ELSE 0
      /\ \A i \in 1..Len(p) : p[i] = s[1 + i - 1] /\ 1 + i - 1 \in 1..Len(s)
  BY PartsAre
<1> HIDE DEF p
<1>2. Len(p) = l
  BY <1>1
<1>3. \A k \in 1..l : p[k] = s[k]
  <2> SUFFICES ASSUME NEW k \in 1..l PROVE p[k] = s[k]
    OBVIOUS
  <2>1. 1 + k - 1 = k
    OBVIOUS
  <2> QED BY <1>1, <1>2, <2>1
<1>4. DOMAIN p = 1..l
  BY <1>1, <1>2 DEF IsSequence
<1> QED BY <1>1, <1>2, <1>3, <1>4 DEF p

(* The first of the candidates in the order of the ranking.                 *)
Ranking(r, h, l, ents, n, totals) ==
  /\ Sorts(h, RankOrder(ents, totals, n), n) /\ l \in Nat /\ l <= n
  /\ Len(r) = l /\ DOMAIN r = 1..l /\ r = [k \in 1..l |-> r[k]] /\ \A k \in 1..l : r[k] = ents[h[k]]

LEMMA CandidatesOrder ==
  ASSUME NEW ents, NEW n, Candidates(ents, n), NEW totals, AllMeasured(totals)
  PROVE  WeakOrder(RankOrder(ents, totals, n), n)
<1>1. n \in Nat /\ \A i \in 1..n : ents[i].key \in Int /\ ents[i].active \in Int
  BY LnGrows DEF Candidates, Countable
<1>2. \A i \in 1..n : Standing(ents[i], ents, totals) \in Int
  BY StandingIs
<1> QED BY <1>1, <1>2, RankOrders

LEMMA Ranked ==
  ASSUME NEW ents, NEW n, Candidates(ents, n), NEW totals, AllMeasured(totals), NEW limit \in Nat
  PROVE  \E h : Ranking(RankByActivity(ents, limit, totals), h, IF n < limit THEN n ELSE limit, ents, n, totals)
<1> DEFINE R == RankOrder(ents, totals, n)
           l == IF n < limit THEN n ELSE limit
<1>1. n \in Nat /\ DOMAIN ents = 1..n /\ l \in Nat /\ l <= n
  BY DEF Candidates
<1>2. PICK h : /\ Sorts(h, R, n)
               /\ RankByActivity(ents, limit, totals) = Limit(Arranged(ents, h, n), limit)
  <2>1. WeakOrder(R, n)
    BY CandidatesOrder
  <2>2. n \in Nat /\ DOMAIN ents = 1..n
    BY <1>1
  <2>3. \E h : /\ Sorts(h, R, n)
               /\ RankByActivity(ents, limit, totals) = Limit(Arranged(ents, h, n), limit)
    BY ONLY <2>1, <2>2, RankIs
  <2> QED BY <2>3
<1> DEFINE s == [k \in 1..n |-> ents[h[k]]]
           r == SubSeq(s, 1, l)
<1>3. Len(s) = n /\ IsSequence(s)
  BY <1>1 DEF IsSequence
<1>4. RankByActivity(ents, limit, totals) = r
  BY <1>2, <1>3 DEF Limit, Arranged
<1>5. \A k \in 1..n : s[k] = ents[h[k]]
  OBVIOUS
<1> HIDE DEF s, R
<1>6. IsSequence(r) /\ Len(r) = l /\ DOMAIN r = 1..l /\ \A k \in 1..l : r[k] = s[k]
  <2> HIDE DEF l
  <2> QED BY <1>1, <1>3, BeginsWith
<1> HIDE DEF r, l
<1>7. DOMAIN r = 1..l /\ r = [k \in 1..l |-> r[k]]
  BY <1>1, <1>6 DEF IsSequence
<1>8. \A k \in 1..l : r[k] = ents[h[k]]
  BY <1>1, <1>5, <1>6
<1>9. Ranking(r, h, l, ents, n, totals)
  BY <1>1, <1>2, <1>6, <1>7, <1>8 DEF Ranking, R
<1> QED BY <1>4, <1>9 DEF l

(* Only the totals of the candidates' keys count.                           *)
LEMMA OthersCountNothing ==
  ASSUME NEW ents, NEW n, Candidates(ents, n), NEW totals, NEW mine,
         mine = {e.key : e \in Range(ents)} \cap DOMAIN totals
  PROVE  RankOrder(ents, [k \in mine |-> totals[k]], n) = RankOrder(ents, totals, n)
<1> DEFINE M == [k \in mine |-> totals[k]]
           P(t) == Peaks(ents, t)
<1>1. DOMAIN ents = 1..n /\ \A i \in 1..n : ents[i].llmKey = ents[i].key
  BY DEF Candidates
<1>2. {e.llmKey : e \in Range(ents)} = {e.key : e \in Range(ents)}
  BY <1>1 DEF Range
<1>3. \A i \in 1..n : ents[i].llmKey \in DOMAIN totals <=> ents[i].llmKey \in mine
  BY <1>1 DEF Range
<1>4. DOMAIN M = mine /\ \A k \in mine : M[k] = totals[k]
  OBVIOUS
<1> HIDE DEF M
<1>5. {e.llmKey : e \in Range(ents)} \cap DOMAIN M = mine /\ {e.llmKey : e \in Range(ents)} \cap DOMAIN totals = mine
  BY <1>2, <1>4
<1>6. {M[k].spend : k \in mine} = {totals[k].spend : k \in mine} /\ {M[k].tokens : k \in mine} = {totals[k].tokens : k \in mine}
  BY <1>4
<1>7. P(M) = P(totals)
  BY <1>5, <1>6 DEF Peaks
<1> HIDE DEF P
<1>8. \A i \in 1..n : Standing(ents[i], ents, M) = Standing(ents[i], ents, totals)
  <2> SUFFICES ASSUME NEW i \in 1..n PROVE Standing(ents[i], ents, M) = Standing(ents[i], ents, totals)
    OBVIOUS
  <2> DEFINE e == ents[i]
  <2>1. e.llmKey \in DOMAIN totals <=> e.llmKey \in DOMAIN M
    BY <1>3, <1>4
  <2>2. e.llmKey \in DOMAIN M => M[e.llmKey] = totals[e.llmKey]
    BY <1>4
  <2> HIDE DEF e
  <2>3. Score(e, P(M), M) = Score(e, P(totals), totals)
    BY <1>7, <2>1, <2>2 DEF Score
  <2> QED BY <2>3 DEF Standing, P, e
<1>9. \A i, j \in 1..n : Outranks(ents[i], ents[j], ents, M) <=> Outranks(ents[i], ents[j], ents, totals)
  BY <1>8 DEF Outranks
<1>10. RankOrder(ents, M, n) = RankOrder(ents, totals, n)
  BY <1>9 DEF RankOrder
<1> QED BY <1>10 DEF M

(* A candidate that is ahead in every measure is ahead in the list.         *)
LEMMA AheadIsAhead ==
  ASSUME NEW ents, NEW n, Candidates(ents, n), NEW totals, AllMeasured(totals),
         NEW r, NEW h, NEW l, Ranking(r, h, l, ents, n, totals), NEW i \in 1..l, NEW j \in 1..l,
         r[i].active > r[j].active,
         Has(r[i], totals).spend >= Has(r[j], totals).spend,
         Has(r[i], totals).tokens >= Has(r[j], totals).tokens
  PROVE  i < j
<1> DEFINE R == RankOrder(ents, totals, n)
<1>1. n \in Nat /\ l \in Nat /\ l <= n /\ Sorts(h, R, n) /\ r[i] = ents[h[i]] /\ r[j] = ents[h[j]]
  BY DEF Ranking, Candidates
<1>2. i \in 1..n /\ j \in 1..n /\ h[i] \in 1..n /\ h[j] \in 1..n
  BY <1>1 DEF Sorts
<1>3. ents[h[i]].active \in Int /\ ents[h[j]].active \in Int
  BY <1>2, LnGrows DEF Candidates, Countable
<1>4. ents[h[i]].active > ents[h[j]].active /\ ents[h[i]].active >= ents[h[j]].active
  BY <1>1, <1>3
<1>5. Standing(ents[h[i]], ents, totals) >= Standing(ents[h[j]], ents, totals)
  BY <1>1, <1>2, <1>4, StandingGrows
<1>6. Standing(ents[h[i]], ents, totals) \in Int /\ Standing(ents[h[j]], ents, totals) \in Int
  BY <1>2, StandingIs
<1>7. Outranks(ents[h[i]], ents[h[j]], ents, totals)
  BY <1>4, <1>5, <1>6 DEF Outranks
<1>8. <<h[i], h[j]>> \in R
  BY <1>2, <1>7 DEF RankOrder
<1>9. WeakOrder(R, n)
  BY CandidatesOrder
<1> HIDE DEF R
<1> QED BY <1>1, <1>2, <1>8, <1>9, SortsAll

(* RankingIsFair: the score grows with each of its measures and the sort is *)
(* by it, so that no candidate overtakes one that is ahead in all of them,  *)
(* whatever rows and whatever totals of the proxy the lists are made of.    *)
THEOREM RankingsAreFair == Spec => []RankingIsFair
<1>1. RowsInv => RankingIsFair
  <2> SUFFICES ASSUME RowsInv PROVE RankingIsFair
    OBVIOUS
  <2> DEFINE apps == Active(rows, 0, "app_key")
             totals == Totals(now)
             mine == {e.key : e \in Range(apps)} \cap DOMAIN totals
             M == [k \in mine |-> totals[k]]
             K == {Get(d, "app_key") : d \in Range(Usage(rows, <<Since(0)>>))}
             n == Cardinality(K)
             r == RankByActivity(apps, Len(apps), totals)
             s == RankByActivity(apps, Len(apps), M)
             Of(e) == IF e.key \in mine THEN totals[e.key] ELSE [spend |-> 0, tokens |-> 0]
  <2>1. Candidates(apps, n) /\ Len(apps) = n
    BY ActiveIs
  <2>2. AllMeasured(totals)
    BY TotalsAre
  <2> HIDE DEF apps, totals, n
  <2>3. n \in Nat /\ DOMAIN apps = 1..n
    BY <2>1 DEF Candidates
  <2>4. AllMeasured(M)
    BY <2>2 DEF AllMeasured
  <2>5. RankOrder(apps, M, n) = RankOrder(apps, totals, n)
    BY <2>1, OthersCountNothing
  <2> HIDE DEF M
  <2>6. PICK h : Ranking(r, h, n, apps, n, totals)
    BY <2>1, <2>2, <2>3, Ranked
  <2>7. PICK g : Ranking(s, g, n, apps, n, M)
    BY <2>1, <2>3, <2>4, Ranked
  <2> HIDE DEF r, s
  <2>8. h = g
    <3>1. Sorts(h, RankOrder(apps, totals, n), n) /\ Sorts(g, RankOrder(apps, totals, n), n)
      BY <2>5, <2>6, <2>7 DEF Ranking
    <3>2. WeakOrder(RankOrder(apps, totals, n), n)
      BY <2>1, <2>2, CandidatesOrder
    <3> QED BY <2>3, <3>1, <3>2, SortsOnce
  <2>9. r = s
    BY <2>6, <2>7, <2>8 DEF Ranking
  <2>10. ASSUME NEW i \in DOMAIN r, NEW j \in DOMAIN r, r[i].active > r[j].active,
                Of(r[i]).spend >= Of(r[j]).spend, Of(r[i]).tokens >= Of(r[j]).tokens
         PROVE  i < j
    <3>1. i \in 1..n /\ j \in 1..n /\ r[i] = apps[h[i]] /\ r[j] = apps[h[j]] /\ h[i] \in 1..n /\ h[j] \in 1..n
      BY <2>6 DEF Ranking, Sorts
    <3>2. r[i] \in Range(apps) /\ r[j] \in Range(apps)
      BY <2>3, <3>1 DEF Range
    <3>3. Of(r[i]) = Has(r[i], totals) /\ Of(r[j]) = Has(r[j], totals)
      BY <3>2 DEF Has
    <3> HIDE DEF Of
    <3>4. /\ Has(r[i], totals).spend >= Has(r[j], totals).spend
          /\ Has(r[i], totals).tokens >= Has(r[j], totals).tokens
      BY <2>10, <3>3
    <3> QED BY <2>1, <2>2, <2>6, <2>10, <3>1, <3>4, AheadIsAhead
  <2> HIDE DEF Of
  <2>11. \A i, j \in DOMAIN r : /\ r[i].active > r[j].active
                               /\ Of(r[i]).spend >= Of(r[j]).spend /\ Of(r[i]).tokens >= Of(r[j]).tokens => i < j
    BY <2>10
  <2> QED BY <2>9, <2>11 DEF RankingIsFair, apps, totals, M, r, s, Of
<1> QED BY <1>1, RowsInvariant, PTL

------------------------------------------------------------------------------
(* The lists of users.                                                      *)

(* No row of usage is older than day 0.                                     *)
LEMMA EveryDay ==
  ASSUME RowsInv
  PROVE  Usage(rows, <<Since(0)>>) = Usage(rows, <<>>)
<1> DEFINE since == <<Since(0)>>
           S == {i \in DOMAIN rows : Selected(rows[i], UsageColumns, since)}
           T == {i \in DOMAIN rows : Selected(rows[i], UsageColumns, <<>>)}
<1>1. \A i \in DOMAIN rows : UseDoc(rows[i], UsageDay(now))
  BY SequencesGrow DEF RowsInv, Uses, IsSequence
<1>2. T = DOMAIN rows
  BY DEF Selected, Matches
<1>3. ASSUME NEW d, UseDoc(d, UsageDay(now)) PROVE Selected(d, UsageColumns, since)
  <2> DEFINE c == Since(0)
             x == Get(d, "day")
  <2>1. /\ c.path = <<"day">> /\ c.op = "gte" /\ c.v = 0 /\ c.path[1] = "day" /\ Len(c.path) = 1
        /\ DOMAIN since = {1} /\ since[1] = c
    BY DEF Since, Clause
  <2>2. x \in Nat /\ x # Null /\ d["day"] = One(x) /\ DOMAIN d = UseFields /\ "day" \in DOMAIN d
    <3>1. "day" \in UseFields
      BY DEF UseFields
    <3>2. x \in Nat /\ d["day"] = One(x) /\ DOMAIN d = UseFields
      <4> DEFINE k == UsageDay(now)
      <4>1. k \in Nat /\ UseDoc(d, k)
        BY <1>3, UsageDays
      <4> HIDE DEF k
      <4>2. x \in 0..k
        BY <4>1, UseDocIs DEF x
      <4>3. d["day"] = One(Get(d, "day")) /\ DOMAIN d = UseFields
        BY <3>1, <4>1, UseDocIs
      <4> QED BY <4>1, <4>2, <4>3 DEF x
    <3>3. Null \notin Nat
      BY ActivityAssumption
    <3> QED BY <3>1, <3>2, <3>3
  <2> HIDE DEF c, x, since
  <2>3. ResolveValues(d, c.path) = {x}
    BY <2>1, <2>2 DEF ResolveValues, One, Range
  <2>4. x >= 0
    BY <2>2
  <2>5. MatchField(d, c)
    <3>1. {x} \ {Null} = {x}
      BY <2>2
    <3> QED BY <2>1, <2>3, <2>4, <3>1 DEF MatchField
  <2>6. Prefilter(d, c, UsageColumns)
    BY <2>1, <2>2, <2>4 DEF Prefilter, x
  <2> QED BY <2>1, <2>5, <2>6 DEF Selected, Matches
<1>4. S = DOMAIN rows
  BY <1>1, <1>3
<1>5. Usage(rows, since) = Picked(rows, S) /\ Usage(rows, <<>>) = Picked(rows, T)
  BY DEF Usage, SelectMatching
<1> QED BY <1>2, <1>4, <1>5

(* The candidates that exist are the keys that do, once.                    *)
LEMMA ExistingAre ==
  ASSUME NEW ents, NEW n, NEW K, Candidates(ents, n), Once(ents, n, K)
  PROVE  LET c == Cardinality(K \cap users) IN
         /\ Candidates(Existing(ents, users), c)
         /\ \A k \in 1..c : Existing(ents, users)[k].key \in users
<1> DEFINE at == {i \in DOMAIN ents : ents[i].key \in users}
           m == Cardinality(at)
           a == Ascending(at)
           p == Picked(ents, at)
           key == [i \in at |-> ents[i].key]
           T == K \cap users
<1>1. n \in Nat /\ DOMAIN ents = 1..n
  BY DEF Candidates
<1>2. at \in SUBSET (1..n)
  BY <1>1
<1>3. \A i \in at : ents[i].key \in users
  OBVIOUS
<1>4. key \in Injection(at, T) /\ key \in Surjection(at, T)
  <2>1. key \in [at -> T]
    BY <1>2, <1>3 DEF Once
  <2>2. \A i, j \in at : key[i] = key[j] => i = j
    BY <1>2 DEF Once
  <2>3. \A v \in T : \E i \in at : key[i] = v
    <3> SUFFICES ASSUME NEW v \in T PROVE \E i \in at : key[i] = v
      OBVIOUS
    <3>1. PICK i \in 1..n : ents[i].key = v
      BY DEF Once
    <3>2. i \in at
      BY <1>1, <3>1
    <3> QED BY <3>1, <3>2
  <2> HIDE DEF key
  <2> QED BY <2>1, <2>2, <2>3 DEF Injection, IsInjective, Surjection
<1>5. Existing(ents, users) = p
  BY DEF Existing
<1> HIDE DEF at
<1>6. /\ m \in Nat /\ DOMAIN p = 1..m
      /\ \A k \in 1..m : a[k] \in at /\ p[k] = ents[a[k]]
  BY <1>1, <1>2, PickedPlaces
<1> HIDE DEF p
<1>7. IsFiniteSet(at)
  <2> DEFINE D == 1..n
  <2>1. IsFiniteSet(D) /\ at \in SUBSET D
    BY <1>1, <1>2, FS_Interval
  <2> HIDE DEF D
  <2> QED BY <2>1, FS_Subset
<1> HIDE DEF key, T
<1>8. Cardinality(T) = m
  BY <1>4, <1>7, FS_Surjection
<1>9. Candidates(p, m)
  BY <1>2, <1>6 DEF Candidates
<1>10. \A k \in 1..m : p[k].key \in users
  BY <1>3, <1>6
<1> QED BY <1>5, <1>8, <1>9, <1>10 DEF T

LEMMA LesserOf ==
  ASSUME NEW a \in Nat, NEW b \in Nat
  PROVE  Min({a, b}) = IF b < a THEN b ELSE a
<1> DEFINE l == IF b < a THEN b ELSE a
<1>1. l \in {a, b} /\ \A x \in {a, b} : l <= x
  OBVIOUS
<1>2. \A x \in {a, b} : (\A y \in {a, b} : x <= y) => x = l
  OBVIOUS
<1> HIDE DEF l
<1>3. (CHOOSE x \in {a, b} : \A y \in {a, b} : x <= y) = l
  BY <1>1, <1>2
<1> QED BY <1>3 DEF Min, l

(* The list of the dashboard.                                               *)
LEMMA RankedUsersAreFull ==
  ASSUME RowsInv
  PROVE  LET top == TopUsersByActivity(rows, users, 0, TopLimit, <<>>)
             K == {Get(d, "user_id") : d \in Range(Usage(rows, <<>>))}
         IN /\ {e.key : e \in Range(top)} \subseteq users
            /\ Len(top) = Min({TopLimit, Cardinality(K \cap users)})
<1> DEFINE top == TopUsersByActivity(rows, users, 0, TopLimit, <<>>)
           K == {Get(d, "user_id") : d \in Range(Usage(rows, <<>>))}
           ents == Active(rows, 0, "user_id")
           live == Existing(ents, users)
           c == Cardinality(K \cap users)
           l == IF c < TopLimit THEN c ELSE TopLimit
<1>1. Candidates(ents, Cardinality(K)) /\ Once(ents, Cardinality(K), K)
  BY ActiveIs, EveryDay
<1>2. top = RankByActivity(live, TopLimit, <<>>)
  BY DEF TopUsersByActivity
<1> HIDE DEF top, K, ents
<1>3. Candidates(live, c) /\ \A k \in 1..c : live[k].key \in users
  BY <1>1, ExistingAre
<1> HIDE DEF live, c
<1>4. AllMeasured(<<>>)
  BY DEF AllMeasured
<1>5. TopLimit \in Nat
  BY DashboardAssumption
<1>6. PICK h : Ranking(top, h, l, live, c, <<>>)
  BY <1>2, <1>3, <1>4, <1>5, Ranked
<1>7. c \in Nat
  BY <1>3 DEF Candidates
<1>8. Len(top) = Min({TopLimit, c})
  BY <1>5, <1>6, <1>7, LesserOf DEF Ranking
<1> HIDE DEF l
<1>9. ASSUME NEW k \in DOMAIN top PROVE top[k].key \in users
  <2>1. k \in 1..l /\ l \in Nat /\ l <= c /\ h \in [1..c -> 1..c] /\ top[k] = live[h[k]]
    BY <1>6 DEF Ranking, Sorts
  <2>2. k \in 1..c
    BY <1>7, <2>1
  <2> QED BY <1>3, <2>1, <2>2
<1>10. {e.key : e \in Range(top)} \subseteq users
  BY <1>9 DEF Range
<1> QED BY <1>8, <1>10 DEF top, c, K

(* The order of a list of groups, and what a sort by it makes.              *)
DocOrder(docs, spec, n) == {p \in (1..n) \X (1..n) : Precedes(docs[p[1]], docs[p[2]], spec)}

LEMMA SortDocsIs ==
  ASSUME NEW docs, NEW n \in Nat, DOMAIN docs = 1..n, NEW spec, WeakOrder(DocOrder(docs, spec, n), n)
  PROVE  \E h : Sorts(h, DocOrder(docs, spec, n), n) /\ SortDocs(docs, spec) = Arranged(docs, h, n)
<1> DEFINE D == 1..n
           R == DocOrder(docs, spec, n)
           Less(a, b) == Precedes(a, b, spec)
           place(i) == 1 + Cardinality({j \in D : Less(docs[j], docs[i]) \/ (~ Less(docs[i], docs[j]) /\ j < i)})
           h == [k \in D |-> CHOOSE i \in D : place(i) = k]
           sorted == [k \in D |-> docs[CHOOSE i \in D : place(i) = k]]
<1>1. SortDocs(docs, spec) = sorted
  BY DEF SortDocs, StableSort
<1>2. \A i, j \in D : <<i, j>> \in R <=> Less(docs[i], docs[j])
  BY DEF DocOrder
<1> HIDE DEF Less
<1>3. \A i \in D : place(i) = SortPlace(R, n, i)
  <2> SUFFICES ASSUME NEW i \in D PROVE place(i) = SortPlace(R, n, i)
    OBVIOUS
  <2>1. {j \in D : Less(docs[j], docs[i]) \/ (~ Less(docs[i], docs[j]) /\ j < i)} = {j \in D : SortsBefore(R, j, i)}
    BY <1>2 DEF SortsBefore
  <2> QED BY <2>1 DEF SortPlace
<1>4. \A k \in D : \E i \in D : SortPlace(R, n, i) = k
  BY SortPlaces DEF WeakOrder
<1> HIDE DEF R, place
<1>5. \A k \in D : h[k] \in D /\ place(h[k]) = k
  BY <1>3, <1>4
<1>6. Sorts(h, R, n)
  BY <1>3, <1>5 DEF Sorts
<1>7. sorted = [k \in D |-> docs[h[k]]]
  OBVIOUS
<1> HIDE DEF h, sorted
<1>8. SortDocs(docs, spec) = Arranged(docs, h, n)
  BY <1>1, <1>7 DEF Arranged
<1> QED BY <1>6, <1>8 DEF R

(* The last use of a group is an instant.                                   *)
LEMMA LatestIs ==
  ASSUME NEW rs, NEW n \in Nat, DOMAIN rs = 1..n, \A i \in 1..n : UseDoc(rs[i], UsageDay(now)),
         NEW v \in GroupKeys(rs, n, "user_id")
  PROVE  MaxOf(rs, "user_id", v, "last_at") \in Int
<1> DEFINE D == 1..n
           at == {j \in DOMAIN rs : Get(rs[j], "user_id") = v}
           f == [i \in at |-> Get(rs[i], "last_at")]
           S == {f[i] : i \in at}
           xs == {Get(rs[i], "last_at") : i \in at} \ {Null}
<1>1. at \in SUBSET D /\ at # {}
  BY DEF GroupKeys
<1>2. IsFiniteSet(D)
  BY FS_Interval
<1>3. \A i \in at : Get(rs[i], "last_at") \in Nat
  BY <1>1, UseDocIs, UsageDays
<1>4. DOMAIN f = at /\ S = {Get(rs[i], "last_at") : i \in at}
  OBVIOUS
<1>5. MaxOf(rs, "user_id", v, "last_at") = IF xs = {} THEN Null ELSE CHOOSE x \in xs : \A y \in xs : y <= x
  BY DEF MaxOf
<1> HIDE DEF D, at, f
<1>6. IsFiniteSet(S)
  <2>1. IsFiniteSet(at)
    BY <1>1, <1>2, FS_Subset
  <2> QED BY <1>4, <2>1, ValuesAre
<1>7. S \in SUBSET Int /\ S # {} /\ Null \notin S
  <2>1. S \in SUBSET Nat
    BY <1>3, <1>4
  <2>2. S # {}
    BY <1>1
  <2> QED BY <2>1, <2>2, ActivityAssumption
<1>8. xs = S
  BY <1>4, <1>7
<1> HIDE DEF S, xs
<1>9. PICK m \in S : \A y \in S : y <= m
  BY <1>6, <1>7, GreatestOf
<1>10. (CHOOSE x \in S : \A y \in S : y <= x) \in S
  BY <1>9
<1> QED BY <1>5, <1>7, <1>8, <1>10

(* The order of the top lists: by the count, then by the last use.          *)
TopSpec == <<[field |-> "n", dir |-> -1], [field |-> "last", dir |-> -1]>>

LEMMA TopOrders ==
  ASSUME NEW G, NEW m \in Nat, \A k \in 1..m : Get(G[k], "n") \in Int /\ Get(G[k], "last") \in Int
  PROVE  WeakOrder(DocOrder(G, TopSpec, m), m)
<1> DEFINE c(k) == Get(G[k], "n")
           l(k) == Get(G[k], "last")
           R == DocOrder(G, TopSpec, m)
           Before(i, j) == c(i) > c(j) \/ (c(i) = c(j) /\ l(i) > l(j))
<1>1. \A k \in 1..m : c(k) \in Int /\ l(k) \in Int /\ c(k) # Null /\ l(k) # Null
  BY ActivityAssumption
<1>2. /\ DOMAIN TopSpec = {1, 2} /\ TopSpec[1].field = "n" /\ TopSpec[2].field = "last"
      /\ TopSpec[1].dir # 1 /\ TopSpec[2].dir # 1
  BY DEF TopSpec
<1>3. ASSUME NEW a, NEW b
      PROVE  Precedes(a, b, TopSpec) <=> \/ Below(b, a, TopSpec[1])
                                         \/ Get(a, "n") = Get(b, "n") /\ Below(b, a, TopSpec[2])
  <2>1. Precedes(a, b, TopSpec) <=>
          \E i \in {1, 2} : /\ \A j \in 1..(i - 1) : Get(a, TopSpec[j].field) = Get(b, TopSpec[j].field)
                            /\ Below(b, a, TopSpec[i])
    BY <1>2 DEF Precedes
  <2>2. 1..(1 - 1) = {} /\ 1..(2 - 1) = {1}
    OBVIOUS
  <2> QED BY <1>2, <2>1, <2>2
<1>4. \A i, j \in 1..m : <<i, j>> \in R <=> Precedes(G[i], G[j], TopSpec)
  BY DEF DocOrder
<1> HIDE DEF c, l, R, Before
<1>5. ASSUME NEW i \in 1..m, NEW j \in 1..m PROVE <<i, j>> \in R <=> Before(i, j)
  <2>1. Below(G[j], G[i], TopSpec[1]) <=> c(j) # c(i) /\ c(j) < c(i)
    BY <1>1, <1>2 DEF Below, c, l
  <2>2. Below(G[j], G[i], TopSpec[2]) <=> l(j) # l(i) /\ l(j) < l(i)
    BY <1>1, <1>2 DEF Below, c, l
  <2>3. <<i, j>> \in R <=> Below(G[j], G[i], TopSpec[1]) \/ (c(i) = c(j) /\ Below(G[j], G[i], TopSpec[2]))
    BY <1>3, <1>4 DEF c
  <2>4. c(i) \in Int /\ c(j) \in Int /\ l(i) \in Int /\ l(j) \in Int
    BY <1>1
  <2> QED BY <2>1, <2>2, <2>3, <2>4 DEF Before
<1> QED BY <1>1, <1>5 DEF WeakOrder, R, Before

(* The list of an app: the most active of its users, cut, then without      *)
(* those that are gone.                                                     *)
LEMMA ListedUsersAreFull ==
  ASSUME RowsInv, NEW x
  PROVE  LET used == {Get(d, "user_id") : d \in Range(Usage(rows, <<Is("app_key", x)>>))}
         IN Len(TopUsersForApp(rows, users, x, TopLimit))
              >= Min({TopLimit, Cardinality(used)}) - Cardinality(used \ users)
<1> DEFINE u == Usage(rows, <<Is("app_key", x)>>)
           n == Len(u)
           used == {Get(d, "user_id") : d \in Range(u)}
           K == GroupKeys(u, n, "user_id")
           m == Cardinality(K)
           G == GroupStage(u, "user_id", "last_at")
           s == SortDocs(G, TopSpec)
           l == IF m < TopLimit THEN m ELSE TopLimit
           top == Limit(s, TopLimit)
<1>1. n \in Nat /\ n <= MaxRows /\ DOMAIN u = 1..n /\ \A i \in 1..n : UseDoc(u[i], UsageDay(now))
  BY UsageIs
<1>2. Top(rows, <<Is("app_key", x)>>, "user_id", TopLimit) = top
  BY DEF Top, TopSpec
<1> HIDE DEF u
<1>3. used = K
  BY <1>1 DEF GroupKeys, Range
<1>4. PICK id : Groups(G, id, u, n, "user_id", "last_at")
  <2> HIDE DEF n
  <2> QED BY <1>1, GroupsAre
<1>5. \A v \in K : MaxOf(u, "user_id", v, "last_at") \in Int
  <2> HIDE DEF n
  <2> QED BY <1>1, LatestIs DEF K
<1>6. \A v : Count(u, "user_id", v) \in Nat
  <2> HIDE DEF n
  <2> QED BY <1>1, CountIs
<1> HIDE DEF n, G, K, used
<1>7. /\ m \in Nat /\ m <= n /\ DOMAIN G = 1..m
      /\ \A k \in 1..m : id[k] \in K /\ Get(G[k], "_id") = id[k] /\ Get(G[k], "n") = Count(u, "user_id", id[k])
                         /\ Get(G[k], "last") = MaxOf(u, "user_id", id[k], "last_at")
      /\ \A j, k \in 1..m : id[j] = id[k] => j = k
      /\ \A v \in K : \E k \in 1..m : id[k] = v
  BY <1>4 DEF Groups, K
<1>8. IsFiniteSet(K)
  <2> DEFINE D == 1..m
             f == [k \in D |-> id[k]]
  <2>1. IsFiniteSet(D) /\ DOMAIN f = D
    BY <1>7, FS_Interval
  <2>2. K = {f[k] : k \in D}
    BY <1>7
  <2> HIDE DEF D, f
  <2> QED BY <2>1, <2>2, ValuesAre
<1> HIDE DEF m
<1>9. \A k \in 1..m : Get(G[k], "n") \in Int /\ Get(G[k], "last") \in Int
  BY <1>5, <1>6, <1>7
<1>10. PICK h : Sorts(h, DocOrder(G, TopSpec, m), m) /\ s = Arranged(G, h, m)
  BY <1>7, <1>9, TopOrders, SortDocsIs
<1>11. /\ h \in [1..m -> 1..m] /\ \A j, k \in 1..m : h[j] = h[k] => j = k
  <2>1. WeakOrder(DocOrder(G, TopSpec, m), m)
    BY <1>7, <1>9, TopOrders
  <2>2. \A j, k \in 1..m : h[j] = h[k] => j = k
    BY <1>7, <1>10, <2>1, SortsAll
  <2> QED BY <1>10, <2>2 DEF Sorts
<1> HIDE DEF s
<1>12. IsSequence(s) /\ Len(s) = m /\ \A k \in 1..m : s[k] = G[h[k]]
  BY <1>7, <1>10 DEF Arranged, IsSequence
<1>13. TopLimit \in Nat /\ l \in Nat /\ l <= m /\ l = Min({TopLimit, m})
  BY <1>7, DashboardAssumption, LesserOf
<1>14. top = SubSeq(s, 1, l)
  BY <1>12 DEF Limit
<1> HIDE DEF l, top
<1>15. DOMAIN top = 1..l /\ \A k \in 1..l : top[k] = s[k]
  <2> DEFINE p == SubSeq(s, 1, l)
  <2>1. DOMAIN p = 1..l /\ \A k \in 1..l : p[k] = s[k]
    BY <1>12, <1>13, BeginsWith
  <2> HIDE DEF p
  <2> QED BY <1>14, <2>1 DEF p
<1>15a. \A k \in 1..l : k \in 1..m /\ h[k] \in 1..m
  <2>1. \A k \in 1..l : k \in 1..m
    BY <1>7, <1>13
  <2> QED BY <1>11, <2>1
<1> DEFINE who == [k \in 1..l |-> id[h[k]]]
           D == 1..l
           stay == {k \in D : who[k] \in users}
           gone == D \ stay
<1>16. \A k \in D : Get(top[k], "_id") = who[k] /\ who[k] \in K
  BY <1>7, <1>12, <1>15, <1>15a
<1>17. \A j, k \in D : who[j] = who[k] => j = k
  <2> SUFFICES ASSUME NEW j \in D, NEW k \in D, id[h[j]] = id[h[k]] PROVE j = k
    OBVIOUS
  <2>1. j \in 1..m /\ k \in 1..m /\ h[j] \in 1..m /\ h[k] \in 1..m
    BY <1>15a
  <2> QED BY <1>7, <1>11, <2>1
<1> HIDE DEF who
<1>18. TopUsersForApp(rows, users, x, TopLimit) = Picked(top, stay)
  <2>1. {i \in DOMAIN top : Get(top[i], "_id") \in users} = stay
    BY <1>15, <1>16
  <2> QED BY <1>2, <2>1 DEF TopUsersForApp
<1>19. Len(Picked(top, stay)) = Cardinality(stay)
  BY <1>13, <1>15, PickedPlaces
<1>20. IsFiniteSet(D) /\ Cardinality(D) = l
  BY <1>13, FS_Interval
<1> HIDE DEF D
<1>21. IsFiniteSet(stay) /\ IsFiniteSet(gone)
  BY <1>20, FS_Subset
<1>22. Cardinality(stay) \in Nat /\ Cardinality(gone) \in Nat /\ Cardinality(stay) + Cardinality(gone) = l
  <2>1. stay \cup gone = D /\ stay \cap gone = {}
    OBVIOUS
  <2> HIDE DEF stay, gone
  <2>2. Cardinality(D) = Cardinality(stay) + Cardinality(gone) - Cardinality({})
    BY <1>21, <2>1, FS_Union
  <2> QED BY <1>20, <1>21, <2>2, FS_EmptySet, FS_CardinalityType
<1>23. Cardinality(gone) <= Cardinality(used \ users) /\ Cardinality(used \ users) \in Nat
  <2> DEFINE T == used \ users
             f == [k \in gone |-> who[k]]
  <2>1. IsFiniteSet(T)
    BY <1>3, <1>8, FS_Subset
  <2>2. f \in [gone -> T]
    BY <1>3, <1>16
  <2>3. \A j, k \in gone : f[j] = f[k] => j = k
    BY <1>17
  <2> HIDE DEF f, T, gone
  <2>4. f \in Injection(gone, T)
    BY <2>2, <2>3 DEF Injection, IsInjective
  <2>5. Cardinality(gone) <= Cardinality(T) /\ Cardinality(T) \in Nat
    BY <2>1, <2>4, FS_Injection, FS_CardinalityType
  <2> QED BY <2>5 DEF T
<1>24. Cardinality(stay) >= l - Cardinality(used \ users)
  <2> HIDE DEF stay, gone
  <2> QED BY <1>13, <1>22, <1>23
<1>25. Cardinality(used) = m
  BY <1>3 DEF m
<1> HIDE DEF stay, top
<1>26. Len(TopUsersForApp(rows, users, x, TopLimit)) >= Min({TopLimit, Cardinality(used)}) - Cardinality(used \ users)
  BY <1>13, <1>18, <1>19, <1>24, <1>25
<1> QED BY <1>26 DEF used, u

(* TopListsAreFull: the dashboard's list is as long as its limit and the    *)
(* users that exist allow, for it drops the others before it cuts; that of  *)
(* an app, which cuts first, misses no more than the others.                *)
THEOREM ListsOfUsersAreFull == Spec => []TopListsAreFull
<1>1. RowsInv => TopListsAreFull
  <2> SUFFICES ASSUME RowsInv PROVE TopListsAreFull
    OBVIOUS
  <2> DEFINE active(filter) == {Get(d, "user_id") : d \in Range(Usage(rows, filter))}
             top == TopUsersByActivity(rows, users, 0, TopLimit, <<>>)
  <2>1. {e.key : e \in Range(top)} \subseteq users /\ Len(top) = Min({TopLimit, Cardinality(active(<<>>) \cap users)})
    BY RankedUsersAreFull
  <2>2. \A x \in App : Len(TopUsersForApp(rows, users, x, TopLimit))
                         >= Min({TopLimit, Cardinality(active(<<Is("app_key", x)>>))})
                              - Cardinality(active(<<Is("app_key", x)>>) \ users)
    BY ListedUsersAreFull
  <2> HIDE DEF active, top
  <2> QED BY <2>1, <2>2 DEF TopListsAreFull, active, top
<1> QED BY <1>1, RowsInvariant, PTL

------------------------------------------------------------------------------
(* The days of the heatmap.                                                 *)

LEMMA MidnightsGrow ==
  /\ Len(Midnight) \in Nat /\ DOMAIN Midnight = 1..Len(Midnight)
  /\ \A d \in 1..Len(Midnight) : Midnight[d] \in Int
  /\ \A c, d \in 1..Len(Midnight) : c <= d => Midnight[c] <= Midnight[d]
<1> DEFINE L == Len(Midnight)
<1>1. L \in Nat /\ DOMAIN Midnight = 1..L /\ \A d \in 1..L : Midnight[d] \in Int
  BY ActivityAssumption
<1>2. \A d \in 1..L : d > 1 => Midnight[d - 1] < Midnight[d]
  BY <1>1, ActivityAssumption
<1> HIDE DEF L
<1>3. \A c, d \in 1..L : c <= d => Midnight[c] <= Midnight[d]
  <2> SUFFICES ASSUME NEW c \in 1..L PROVE \A d \in 1..L : c <= d => Midnight[c] <= Midnight[d]
    OBVIOUS
  <2> DEFINE P == {e \in 0..(L - c) : Midnight[c] <= Midnight[c + e]}
  <2>1. 0 \in P /\ L - c \in Nat
    <3>1. c + 0 = c /\ 0 \in 0..(L - c) /\ Midnight[c] <= Midnight[c]
      BY <1>1
    <3> QED BY <1>1, <3>1
  <2>2. ASSUME NEW e \in 0..((L - c) - 1), e \in P PROVE e + 1 \in P
    <3>1. c + e \in 1..L /\ c + (e + 1) \in 1..L /\ c + (e + 1) > 1 /\ (c + (e + 1)) - 1 = c + e /\ e + 1 \in 0..(L - c)
      BY <1>1
    <3>2. Midnight[c + e] < Midnight[c + (e + 1)]
      BY <1>2, <3>1
    <3>3. /\ Midnight[c] <= Midnight[c + e]
          /\ Midnight[c] \in Int /\ Midnight[c + e] \in Int /\ Midnight[c + (e + 1)] \in Int
      BY <1>1, <2>2, <3>1
    <3>4. Midnight[c] <= Midnight[c + (e + 1)]
      BY <3>2, <3>3
    <3> QED BY <3>1, <3>4
  <2> HIDE DEF P
  <2>3. \A e \in 0..(L - c) : e \in P
    BY <2>1, <2>2, UpTo
  <2> SUFFICES ASSUME NEW d \in 1..L, c <= d PROVE Midnight[c] <= Midnight[d]
    OBVIOUS
  <2>4. d - c \in 0..(L - c) /\ c + (d - c) = d
    BY <1>1
  <2>5. Midnight[c] <= Midnight[c + (d - c)]
    BY <2>3, <2>4 DEF P
  <2> QED BY <2>4, <2>5
<1> QED BY <1>1, <1>3 DEF L

(* A day has come when its midnight has.                                    *)
LEMMA DayBegins ==
  ASSUME NEW t \in Int
  PROVE  /\ UsageDay(t) \in 0..Len(Midnight)
         /\ \A d \in 1..Len(Midnight) : d <= UsageDay(t) <=> Midnight[d] <= t
<1> DEFINE L == Len(Midnight)
           S == {d \in DOMAIN Midnight : Midnight[d] <= t}
           D == 1..L
<1>1. /\ L \in Nat /\ DOMAIN Midnight = 1..L /\ \A d \in 1..L : Midnight[d] \in Int
      /\ \A c, d \in 1..L : c <= d => Midnight[c] <= Midnight[d]
  BY MidnightsGrow
<1> HIDE DEF L
<1>2. UsageDay(t) = Cardinality(S)
  BY DEF UsageDay
<1>3. IsFiniteSet(D) /\ Cardinality(D) = L
  BY <1>1, FS_Interval
<1>4. S \in SUBSET D
  BY <1>1
<1>5. IsFiniteSet(S) /\ Cardinality(S) \in Nat /\ Cardinality(S) <= L
  <2> HIDE DEF S, D
  <2> QED BY <1>3, <1>4, FS_Subset, FS_CardinalityType
<1>6. ASSUME NEW d \in 1..L, Midnight[d] <= t PROVE d <= Cardinality(S)
  <2> DEFINE E == 1..d
  <2>1. IsFiniteSet(E) /\ Cardinality(E) = d
    BY <1>1, FS_Interval
  <2>2. E \in SUBSET S
    <3> SUFFICES ASSUME NEW c \in 1..d PROVE c \in S
      OBVIOUS
    <3>1. c \in 1..L /\ Midnight[c] <= Midnight[d] /\ Midnight[c] \in Int /\ Midnight[d] \in Int
      BY <1>1
    <3> QED BY <1>1, <1>6, <3>1
  <2> HIDE DEF E, S
  <2> QED BY <1>5, <2>1, <2>2, FS_Subset
<1>7. ASSUME NEW d \in 1..L, ~ (Midnight[d] <= t) PROVE Cardinality(S) < d
  <2> DEFINE E == 1..(d - 1)
  <2>1. IsFiniteSet(E) /\ Cardinality(E) = d - 1
    BY <1>1, FS_Interval
  <2>2. S \in SUBSET E
    <3> SUFFICES ASSUME NEW c \in S PROVE c \in E
      OBVIOUS
    <3>1. c \in 1..L /\ Midnight[c] <= t /\ Midnight[c] \in Int /\ Midnight[d] \in Int
      BY <1>1
    <3>2. ~ (d <= c)
      BY <1>1, <1>7, <3>1
    <3> QED BY <1>1, <3>1, <3>2
  <2> HIDE DEF E, S
  <2>3. Cardinality(S) <= Cardinality(E)
    BY <2>1, <2>2, FS_Subset
  <2> QED BY <1>1, <1>5, <2>1, <2>3
<1> HIDE DEF S
<1>8. \A d \in 1..L : d <= Cardinality(S) <=> Midnight[d] <= t
  <2> SUFFICES ASSUME NEW d \in 1..L PROVE d <= Cardinality(S) <=> Midnight[d] <= t
    OBVIOUS
  <2>1. Midnight[d] <= t => d <= Cardinality(S)
    BY <1>6
  <2>2. ~ (Midnight[d] <= t) => ~ (d <= Cardinality(S))
    BY <1>1, <1>5, <1>7
  <2> QED BY <2>1, <2>2
<1> QED BY <1>1, <1>2, <1>5, <1>8 DEF L

(* The days that are looked at.                                             *)
Drawn(t, days) == {UsageDay(t - i * Step) : i \in 0..(days - 1)}

LEMMA WindowIs ==
  ASSUME NEW t \in Int, NEW days \in Nat \ {0}
  PROVE  /\ HeatmapSinceDay(t, days) \in Nat /\ UsageDay(t) \in Nat /\ HeatmapSinceDay(t, days) <= UsageDay(t)
         /\ Drawn(t, days) \in SUBSET (HeatmapSinceDay(t, days)..UsageDay(t))
         /\ IsFiniteSet(Drawn(t, days)) /\ UsageDay(t) \in Drawn(t, days)
         /\ HeatmapSinceDay(t, days) \in Drawn(t, days)
<1> DEFINE back(i) == t - i * Step
           D == 0..(days - 1)
           lo == HeatmapSinceDay(t, days)
<1>1. \A i \in D : back(i) \in Int /\ back(days - 1) <= back(i) /\ back(i) <= t
  <2> SUFFICES ASSUME NEW i \in D PROVE back(i) \in Int /\ back(days - 1) <= back(i) /\ back(i) <= t
    OBVIOUS
  <2>1. Step \in Nat /\ i \in Nat /\ days - 1 \in Nat /\ i <= days - 1
    BY ActivityAssumption
  <2>2. Step * i \in Int /\ Step * (days - 1) \in Int /\ Step * i <= Step * (days - 1)
    BY <2>1, TimesGrows
  <2>3. Step * 0 <= Step * i
    BY <2>1, TimesGrows
  <2>4. i * Step = Step * i /\ (days - 1) * Step = Step * (days - 1) /\ Step * 0 = 0
    BY <2>1
  <2> QED BY <2>2, <2>3, <2>4
<1>2. 0 \in D /\ days - 1 \in D /\ back(0) = t
  BY ActivityAssumption
<1>3. lo = UsageDay(back(days - 1))
  BY DEF HeatmapSinceDay
<1>4. Drawn(t, days) = {UsageDay(back(i)) : i \in D}
  BY DEF Drawn
<1>5. IsFiniteSet(D)
  BY FS_Interval
<1> HIDE DEF D, lo, back
<1>6. \A i \in D : UsageDay(back(i)) \in Nat /\ lo <= UsageDay(back(i)) /\ UsageDay(back(i)) <= UsageDay(t)
  BY <1>1, <1>2, <1>3, UsageDays
<1>7. lo \in Nat /\ UsageDay(t) \in Nat /\ lo <= UsageDay(t)
  BY <1>2, <1>3, <1>6, UsageDays
<1>8. IsFiniteSet(Drawn(t, days))
  <2> DEFINE f == [i \in D |-> UsageDay(back(i))]
  <2>1. DOMAIN f = D /\ Drawn(t, days) = {f[i] : i \in D}
    BY <1>4
  <2> HIDE DEF f
  <2> QED BY <1>5, <2>1, ValuesAre
<1>9. UsageDay(t) \in Drawn(t, days) /\ lo \in Drawn(t, days)
  BY <1>2, <1>3, <1>4
<1>10. Drawn(t, days) \in SUBSET (lo..UsageDay(t))
  BY <1>4, <1>6, <1>7
<1> QED BY <1>7, <1>8, <1>9, <1>10 DEF lo

(* On ordinary days the instants are one in each day, back to the cutoff.   *)
LEMMA OrdinaryDays ==
  ASSUME now \in Int, NEW days \in Nat \ {0}, Ordinary(days)
  PROVE  /\ Drawn(now, days) = HeatmapSinceDay(now, days)..UsageDay(now)
         /\ UsageDay(now) - HeatmapSinceDay(now, days) = days - 1
<1> DEFINE hi == UsageDay(now)
           M == Len(Midnight)
           D == 0..(days - 1)
<1>1. Step \in Nat /\ M \in Nat /\ DOMAIN Midnight = 1..M /\ \A d \in 1..M : Midnight[d] \in Int
  BY ActivityAssumption
<1>2. /\ hi \in Nat /\ now < Midnight[hi] + Step
      /\ \A i \in D : hi - i \in 1..M /\ Midnight[hi - i] = Midnight[hi] - i * Step
  BY <1>1, UsageDays DEF Ordinary
<1>3. ASSUME NEW t \in Int
      PROVE  UsageDay(t) \in Nat /\ \A d \in 1..M : d <= UsageDay(t) <=> Midnight[d] <= t
  BY UsageDays, DayBegins
<1>4. 0 \in D /\ days - 1 \in D /\ hi \in 1..M
  <2>1. 0 \in D /\ days - 1 \in D /\ hi - 0 = hi
    BY <1>2
  <2> QED BY <1>2, <2>1
<1>5. HeatmapSinceDay(now, days) = UsageDay(now - (days - 1) * Step)
  BY DEF HeatmapSinceDay
<1>6. Drawn(now, days) = {UsageDay(now - i * Step) : i \in D}
  BY DEF Drawn
<1> HIDE DEF M, D
<1>7. Midnight[hi] <= now
  <2>1. hi <= UsageDay(now) <=> Midnight[hi] <= now
    <3> HIDE DEF hi
    <3> QED BY <1>3, <1>4
  <2> QED BY <1>2, <2>1
<1> HIDE DEF hi
<1>13. PICK y \in Int : y = Midnight[hi]
  BY <1>1, <1>4
<1>14. y <= now /\ now < y + Step /\ now \in Int /\ Step \in Nat
  BY <1>1, <1>2, <1>7, <1>13
<1>8. ASSUME NEW i \in D PROVE UsageDay(now - i * Step) = hi - i
  <2>1. PICK z \in Int : z = i * Step
    BY <1>1 DEF D
  <2>2. PICK t \in Int : t = now - z
    BY <1>14
  <2>3. PICK d \in Int : d = hi - i
    BY <1>2 DEF D
  <2>4. d \in 1..M /\ Midnight[d] = y - z /\ i \in Nat /\ M \in Nat
    BY <1>1, <1>2, <1>13, <2>1, <2>3 DEF D
  <2>5. UsageDay(t) \in Nat /\ \A e \in 1..M : e <= UsageDay(t) <=> Midnight[e] <= t
    BY <1>3
  <2>6. y - z <= t
    BY ONLY <1>14, <2>2
  <2>7. d <= UsageDay(t)
    BY <2>4, <2>5, <2>6
  <2>8. ASSUME d < UsageDay(t) PROVE FALSE
    <3>1. CASE i = 0
      <4>1. z = 0
        BY <1>1, <2>1, <3>1
      <4>2. t = now
        BY ONLY <1>14, <2>2, <4>1
      <4>3. d = hi
        BY <1>2, <2>3, <3>1
      <4> QED BY <1>2, <2>8, <4>2, <4>3 DEF hi
    <3>2. CASE i # 0
      <4>1. i - 1 \in D /\ (i - 1) * Step = z - Step
        BY <1>1, <2>1, <2>4, <3>2 DEF D
      <4>2. hi - (i - 1) = d + 1
        BY <1>2, <2>3, <2>4
      <4>3. d + 1 \in 1..M /\ Midnight[d + 1] = y - (z - Step)
        BY <1>2, <1>13, <4>1, <4>2
      <4>4. d + 1 <= UsageDay(t)
        BY <2>4, <2>5, <2>8
      <4>5. y - (z - Step) <= t
        BY <2>5, <4>3, <4>4
      <4> QED BY ONLY <1>14, <2>2, <4>5
    <3> QED BY <3>1, <3>2
  <2>9. UsageDay(t) = d
    BY <2>4, <2>5, <2>7, <2>8
  <2> QED BY <2>1, <2>2, <2>3, <2>9
<1>9. HeatmapSinceDay(now, days) = hi - (days - 1)
  BY <1>4, <1>5, <1>8
<1>10. Drawn(now, days) = {hi - i : i \in D}
  BY <1>6, <1>8
<1>11. {hi - i : i \in D} = (hi - (days - 1))..hi
  <2>1. \A x \in (hi - (days - 1))..hi : hi - x \in D /\ hi - (hi - x) = x
    BY <1>2 DEF D
  <2>2. \A i \in D : hi - i \in (hi - (days - 1))..hi
    BY <1>2 DEF D
  <2> QED BY <2>1, <2>2
<1>12. hi - (hi - (days - 1)) = days - 1
  BY <1>2
<1> QED BY <1>9, <1>10, <1>11, <1>12 DEF hi

(* The days of the grid, from the cutoff to today.                          *)
LEMMA LabelsAre ==
  ASSUME NEW t \in Int, NEW days \in Nat \ {0}
  PROVE  LET L == Labels(t, days)  n == Cardinality(Drawn(t, days)) IN
         /\ n \in Nat /\ n > 0 /\ DOMAIN L = 1..n
         /\ \A k \in 1..n : L[k] \in Drawn(t, days)
         /\ \A j, k \in 1..n : j < k => L[j] < L[k]
         /\ \A d \in Drawn(t, days) : \E k \in 1..n : L[k] = d
         /\ L[1] = HeatmapSinceDay(t, days) /\ L[n] = UsageDay(t)
<1> DEFINE S == Drawn(t, days)
           n == Cardinality(S)
           a == Ascending(S)
           lo == HeatmapSinceDay(t, days)
           hi == UsageDay(t)
<1>1. Labels(t, days) = a
  BY DEF Labels, Drawn
<1>2. /\ lo \in Nat /\ hi \in Nat /\ S \in SUBSET (lo..hi) /\ S \in SUBSET Int /\ IsFiniteSet(S)
      /\ lo \in S /\ hi \in S
  BY WindowIs
<1>3. DOMAIN a = 1..n
  BY DEF Ascending
<1> HIDE DEF S
<1>4. /\ n \in Nat /\ \A k \in 1..n : a[k] \in S
      /\ \A x \in S : \E k \in 1..n : a[k] = x
      /\ \A j, k \in 1..n : j < k => a[j] < a[k]
  BY <1>2, AscendingPlaces, AscendingOrder
<1> HIDE DEF n, a, lo, hi
<1>5. \A k \in 1..n : a[k] \in Int /\ lo <= a[k] /\ a[k] <= hi
  <2> SUFFICES ASSUME NEW k \in 1..n PROVE a[k] \in Int /\ lo <= a[k] /\ a[k] <= hi
    OBVIOUS
  <2>1. a[k] \in lo..hi
    BY <1>2, <1>4
  <2> QED BY <1>2, <2>1
<1>6. PICK j \in 1..n : a[j] = lo
  BY <1>2, <1>4
<1>7. n > 0 /\ 1 \in 1..n /\ n \in 1..n
  BY <1>4, <1>6
<1>8. a[1] = lo
  <2>1. ~ (1 < j)
    BY <1>2, <1>4, <1>5, <1>6, <1>7
  <2> QED BY <1>4, <1>6, <2>1
<1>9. a[n] = hi
  <2>1. PICK k \in 1..n : a[k] = hi
    BY <1>2, <1>4
  <2>2. ~ (k < n)
    BY <1>2, <1>4, <1>5, <1>7, <2>1
  <2> QED BY <1>4, <2>1, <2>2
<1> QED BY <1>1, <1>3, <1>4, <1>7, <1>8, <1>9 DEF n, S, a, lo, hi

(* Three sequences, one after the other.                                    *)
InARow(r, s, v, g) ==
  /\ IsSequence(g) /\ Len(g) = Len(r) + Len(s) + Len(v)
  /\ \A i \in 1..Len(r) : g[i] = r[i]
  /\ \A i \in 1..Len(s) : g[Len(r) + i] = s[i]
  /\ \A i \in 1..Len(v) : g[Len(r) + Len(s) + i] = v[i]

LEMMA ThreeInARow ==
  ASSUME NEW r, IsSequence(r), NEW s, IsSequence(s), NEW v, IsSequence(v)
  PROVE  /\ IsSequence(r \o s) /\ Len(r \o s) = Len(r) + Len(s)
         /\ InARow(r, s, v, (r \o s) \o v)
<1> DEFINE S == {r[i] : i \in 1..Len(r)} \cup {s[i] : i \in 1..Len(s)} \cup {v[i] : i \in 1..Len(v)}
           a == Len(r)
           b == Len(s)
           c == Len(v)
           q == r \o s
           g == q \o v
<1>1. r \in Seq(S) /\ s \in Seq(S) /\ v \in Seq(S)
  BY SequencesAre
<1>2. a \in Nat /\ b \in Nat /\ c \in Nat
  BY DEF IsSequence
<1> HIDE DEF S
<1>3. /\ q \in Seq(S) /\ Len(q) = a + b
      /\ \A i \in 1..(a + b) : q[i] = IF i <= a THEN r[i] ELSE s[i - a]
  BY <1>1, ConcatProperties
<1> HIDE DEF q
<1>4. /\ g \in Seq(S) /\ Len(g) = (a + b) + c
      /\ \A i \in 1..((a + b) + c) : g[i] = IF i <= a + b THEN q[i] ELSE v[i - (a + b)]
  <2>1. /\ g \in Seq(S) /\ Len(g) = Len(q) + Len(v)
        /\ \A i \in 1..(Len(q) + Len(v)) : g[i] = IF i <= Len(q) THEN q[i] ELSE v[i - Len(q)]
    <3>1. q \in Seq(S) /\ v \in Seq(S)
      BY <1>1, <1>3
    <3> QED BY ONLY <3>1, ConcatProperties
  <2> HIDE DEF g
  <2> QED BY <1>3, <2>1
<1> HIDE DEF g
<1>5. IsSequence(q) /\ IsSequence(g)
  BY <1>3, <1>4, SequencesAre
<1> HIDE DEF a, b, c
<1>6. \A i \in 1..a : g[i] = r[i]
  <2> SUFFICES ASSUME NEW i \in 1..a PROVE g[i] = r[i]
    OBVIOUS
  <2>1. i \in 1..(a + b) /\ i \in 1..((a + b) + c) /\ i <= a /\ i <= a + b
    BY <1>2
  <2> QED BY <1>3, <1>4, <2>1
<1>7. \A i \in 1..b : g[a + i] = s[i]
  <2> SUFFICES ASSUME NEW i \in 1..b PROVE g[a + i] = s[i]
    OBVIOUS
  <2>1. a + i \in 1..(a + b) /\ a + i \in 1..((a + b) + c) /\ ~ (a + i <= a) /\ a + i <= a + b /\ (a + i) - a = i
    BY <1>2
  <2>2. g[a + i] = q[a + i] /\ q[a + i] = s[(a + i) - a]
    BY <1>3, <1>4, <2>1
  <2> QED BY <2>1, <2>2
<1>8. \A i \in 1..c : g[a + b + i] = v[i]
  <2> SUFFICES ASSUME NEW i \in 1..c PROVE g[a + b + i] = v[i]
    OBVIOUS
  <2>1. a + b + i \in 1..((a + b) + c) /\ ~ (a + b + i <= a + b) /\ (a + b + i) - (a + b) = i
    BY <1>2
  <2>2. g[a + b + i] = v[(a + b + i) - (a + b)]
    BY <1>4, <2>1
  <2> QED BY <2>1, <2>2
<1>9. Len(g) = a + b + c
  BY <1>2, <1>4
<1>10. InARow(r, s, v, g)
  BY <1>5, <1>6, <1>7, <1>8, <1>9 DEF InARow, a, b, c
<1> QED BY <1>3, <1>5, <1>10 DEF g, q, a, b

(* The grid: the days of the window, at the weekday of its first, and no    *)
(* day before or after them.                                                *)
Grid(g, L, n, w, counts) ==
  /\ w \in Nat /\ w + n <= Len(g) /\ IsSequence(g) /\ DOMAIN g = 1..Len(g) /\ Len(g) % 7 = 0
  /\ \A k \in 1..n : g[w + k].day = L[k] /\ g[w + k].count = At(counts, L[k])
  /\ \A i \in 1..Len(g) : i <= w \/ w + n < i => g[i].day = Null

LEMMA GridIs ==
  ASSUME NEW t \in Int, NEW days \in Nat \ {0}, NEW counts, NEW scale, NEW daily, NEW peak
  PROVE  LET L == Labels(t, days) IN
         Grid(BuildHeatmap(counts, t, days, scale, daily, peak), L, Cardinality(Drawn(t, days)), L[1] % 7, counts)
<1> DEFINE L == Labels(t, days)
           n == Cardinality(Drawn(t, days))
           w == L[1] % 7
           top == Max({scale, MinScaleMax})
           Shade(x) == [spend |-> Intensity(x.spend, Max({peak.spend, MinScaleMax})),
                        tokens |-> Intensity(x.tokens, Max({peak.tokens, MinScaleMax}))]
           Cell(d) == [day |-> d, count |-> At(counts, d), intensity |-> Intensity(At(counts, d), top),
                       llm |-> IF daily = Null THEN Null
                               ELSE IF d \in DOMAIN daily THEN Shade(daily[d]) ELSE Null]
           r == Padding(w)
           s == [i \in DOMAIN L |-> Cell(L[i])]
           z == (- Len(r \o s)) % 7
           v == Padding(z)
           g == (r \o s) \o v
<1>1. BuildHeatmap(counts, t, days, scale, daily, peak) = g
  BY DEF BuildHeatmap, WeekdayOf
<1>2. /\ n \in Nat /\ DOMAIN L = 1..n /\ L[1] \in Nat
  BY LabelsAre, WindowIs
<1>3. \A i \in 1..n : s[i].day = L[i] /\ s[i].count = At(counts, L[i])
  BY <1>2
<1>4. IsSequence(s) /\ Len(s) = n
  <2> HIDE DEF Cell, L, n
  <2> QED BY <1>2 DEF IsSequence
<1> HIDE DEF L, n, s
<1>5. w \in Nat
  BY <1>2
<1>6. ASSUME NEW m \in Nat
      PROVE  IsSequence(Padding(m)) /\ Len(Padding(m)) = m /\ \A i \in 1..m : Padding(m)[i].day = Null
  BY DEF Padding, IsSequence
<1>7. IsSequence(r) /\ Len(r) = w /\ \A i \in 1..w : r[i].day = Null
  BY <1>5, <1>6
<1> HIDE DEF w, r
<1>8. IsSequence(r \o s) /\ Len(r \o s) = w + n
  <2>1. IsSequence(<<>>)
    BY DEF IsSequence
  <2> QED BY <1>4, <1>7, <2>1, ThreeInARow
<1>9. z \in Nat /\ (w + n + z) % 7 = 0
  <2>1. z = (- (w + n)) % 7
    BY <1>8
  <2> HIDE DEF z
  <2> QED BY <1>2, <1>5, <2>1
<1> HIDE DEF z
<1>10. IsSequence(v) /\ Len(v) = z /\ \A i \in 1..z : v[i].day = Null
  BY <1>6, <1>9
<1> HIDE DEF v
<1>11. /\ IsSequence(g) /\ Len(g) = w + n + z
       /\ \A i \in 1..w : g[i] = r[i]
       /\ \A i \in 1..n : g[w + i] = s[i]
       /\ \A i \in 1..z : g[w + n + i] = v[i]
  <2>1. InARow(r, s, v, g)
    BY <1>4, <1>7, <1>10, ThreeInARow
  <2> HIDE DEF g
  <2> QED BY <1>4, <1>7, <1>10, <2>1 DEF InARow
<1> HIDE DEF g
<1>12. ASSUME NEW i \in 1..Len(g), i <= w \/ w + n < i PROVE g[i].day = Null
  <2>1. CASE i <= w
    <3>1. i \in 1..w
      BY <1>5, <1>11, <2>1
    <3> QED BY <1>7, <1>11, <3>1
  <2>2. CASE w + n < i
    <3> DEFINE j == i - (w + n)
    <3>1. j \in 1..z /\ w + n + j = i
      BY <1>2, <1>5, <1>9, <1>11, <2>2
    <3> HIDE DEF j
    <3>2. g[w + n + j] = v[j]
      BY <1>11, <3>1
    <3> QED BY <1>10, <3>1, <3>2
  <2> QED BY <1>12, <2>1, <2>2
<1>13. w + n <= Len(g) /\ DOMAIN g = 1..Len(g) /\ Len(g) % 7 = 0
  BY <1>2, <1>5, <1>9, <1>11, SequencesGrow
<1>14. \A k \in 1..n : g[w + k].day = L[k] /\ g[w + k].count = At(counts, L[k])
  BY <1>3, <1>11
<1>15. Grid(g, L, n, w, counts)
  BY <1>5, <1>11, <1>12, <1>13, <1>14 DEF Grid
<1> QED BY <1>1, <1>15 DEF L, n, w

(* What is drawn: the days, in their order.                                 *)
Shown(g) == Picked(g, {i \in DOMAIN g : g[i].day # Null})

LEMMA DrawnAre ==
  ASSUME NEW g, NEW L, NEW n \in Nat, NEW w, NEW counts, Grid(g, L, n, w, counts), \A k \in 1..n : L[k] \in Int
  PROVE  /\ Len(Shown(g)) = n /\ DOMAIN Shown(g) = 1..n
         /\ \A k \in 1..n : Shown(g)[k] = g[w + k]
<1> DEFINE at == {i \in DOMAIN g : g[i].day # Null}
           I == (w + 1)..(w + n)
           p == Picked(g, at)
           a == Ascending(I)
<1>1. /\ w \in Nat /\ w + n <= Len(g) /\ DOMAIN g = 1..Len(g) /\ Len(g) \in Nat
      /\ \A k \in 1..n : g[w + k].day = L[k]
      /\ \A i \in 1..Len(g) : i <= w \/ w + n < i => g[i].day = Null
  BY DEF Grid, IsSequence
<1>2. \A i \in I : i \in 1..Len(g) /\ g[i].day # Null
  <2> SUFFICES ASSUME NEW i \in I PROVE i \in 1..Len(g) /\ g[i].day # Null
    OBVIOUS
  <2>1. i - w \in 1..n /\ w + (i - w) = i /\ i \in 1..Len(g)
    BY <1>1
  <2>2. g[w + (i - w)].day = L[i - w] /\ L[i - w] \in Int
    BY <1>1, <2>1
  <2> QED BY <2>1, <2>2, ActivityAssumption
<1>3. \A i \in 1..Len(g) : g[i].day # Null => i \in I
  <2> SUFFICES ASSUME NEW i \in 1..Len(g), g[i].day # Null PROVE i \in I
    OBVIOUS
  <2>1. ~ (i <= w) /\ ~ (w + n < i)
    BY <1>1
  <2> QED BY <1>1, <2>1
<1>4. at = I
  BY <1>1, <1>2, <1>3
<1>5. IsFiniteSet(I) /\ Cardinality(I) = n /\ I \in SUBSET Int /\ I \in SUBSET (1..Len(g))
  <2>1. IsFiniteSet(I) /\ Cardinality(I) = n
    BY <1>1, FS_Interval
  <2>2. I \in SUBSET Int
    BY <1>1
  <2>3. I \in SUBSET (1..Len(g))
    BY <1>2
  <2> QED BY <2>1, <2>2, <2>3
<1>6. \A k \in 1..n : a[k] = w + k
  <2> SUFFICES ASSUME NEW k \in 1..n PROVE a[k] = w + k
    OBVIOUS
  <2> DEFINE x == w + k
             J == (w + 1)..x
  <2>1. x \in I /\ x \in Int
    BY <1>1
  <2>2. {y \in I : y <= x} = J
    BY <1>1
  <2>3. Cardinality(J) = k
    BY <1>1, FS_Interval
  <2> HIDE DEF I, J, x
  <2>4. a[Cardinality({y \in I : y <= x})] = x
    BY <1>5, <2>1, AscendingOrder
  <2> QED BY <2>2, <2>3, <2>4 DEF x
<1> HIDE DEF at, a, p
<1>7. Len(p) = n /\ DOMAIN p = 1..n /\ \A k \in 1..n : p[k] = g[a[k]]
  <2> HIDE DEF I
  <2>1. LET q == Picked(g, I) IN Len(q) = n /\ DOMAIN q = 1..n /\ \A k \in 1..n : q[k] = g[a[k]]
    <3> DEFINE q == Picked(g, I)
    <3>1. Len(g) \in Nat /\ DOMAIN g = 1..Len(g) /\ I \in SUBSET (1..Len(g))
      BY <1>1, <1>5
    <3> DEFINE m == Len(g)
    <3> HIDE DEF m
    <3>2. m \in Nat /\ DOMAIN g = 1..m /\ I \in SUBSET (1..m)
      BY <3>1 DEF m
    <3>3. /\ Len(q) = Cardinality(I) /\ DOMAIN q = 1..Cardinality(I)
          /\ \A k \in 1..Cardinality(I) : q[k] = g[a[k]]
      BY <3>2, PickedPlaces DEF a
    <3> HIDE DEF q
    <3> QED BY <1>5, <3>3 DEF q
  <2> QED BY <1>4, <2>1 DEF p
<1>8. \A k \in 1..n : p[k] = g[w + k]
  BY <1>6, <1>7
<1> QED BY <1>7, <1>8 DEF p, at, Shown

(* The counts of a card: of days of its window, none of them to come.       *)
LEMMA DailyAre ==
  ASSUME RowsInv, NEW x, NEW since \in Int
  PROVE  LET c == DailyCounts(rows, "app_key", x, since) IN
         /\ IsFiniteSet(DOMAIN c) /\ DOMAIN c \in SUBSET (since..UsageDay(now))
         /\ c = [d \in DOMAIN c |-> c[d]] /\ \A d \in DOMAIN c : c[d] \in Int
<1> DEFINE filter == <<Is("app_key", x), Since(since)>>
           u == Usage(rows, filter)
           n == Len(u)
           G == GroupStage(u, "day", "last_at")
           K == GroupKeys(u, n, "day")
           top == UsageDay(now)
           c == [d \in {Get(y, "_id") : y \in Range(G)} |->
                   Get(CHOOSE y \in Range(G) : Get(y, "_id") = d, "n")]
<1>1. DailyCounts(rows, "app_key", x, since) = c
  BY DEF DailyCounts
<1>2. n \in Nat /\ n <= MaxRows /\ DOMAIN u = 1..n
  BY UsageIs
<1>3. \A i \in 1..n : Get(u[i], "day") \in since..top
  <2> DEFINE at == {i \in DOMAIN rows : Selected(rows[i], UsageColumns, filter)}
             p == Picked(rows, at)
  <2>1. /\ IsSequence(rows) /\ Len(rows) \in Nat /\ DOMAIN rows = 1..Len(rows) /\ at \in SUBSET DOMAIN rows
    BY SequencesGrow DEF RowsInv, Uses, IsSequence
  <2>2. u = p
    BY DEF Usage, SelectMatching
  <2> HIDE DEF u, filter
  <2>3. \A i \in at : Selected(rows[i], UsageColumns, filter)
    OBVIOUS
  <2> HIDE DEF at
  <2>4. \A k \in 1..Len(p) : Ascending(at)[k] \in at /\ p[k] = rows[Ascending(at)[k]]
    BY <2>1, PickedMembers
  <2> HIDE DEF p
  <2>5. \A i \in at : UseDoc(rows[i], top)
    <3> HIDE DEF UseDoc
    <3> QED BY <2>1 DEF RowsInv, Uses
  <2>6. ASSUME NEW d, UseDoc(d, top), Selected(d, UsageColumns, filter) PROVE Get(d, "day") \in since..top
    <3> DEFINE e == Since(since)
               y == Get(d, "day")
    <3>1. /\ e.path = <<"day">> /\ e.op = "gte" /\ e.v = since /\ e.path[1] = "day" /\ Len(e.path) = 1
          /\ DOMAIN filter = {1, 2} /\ filter[2] = e
      BY DEF Since, Clause, filter
    <3>2. top \in Nat
      BY UsageDays
    <3>3. "day" \in UseFields
      BY DEF UseFields
    <3> HIDE DEF top
    <3>4. y \in 0..top
      BY <2>6, <3>2, UseDocIs
    <3>5. d["day"] = One(Get(d, "day")) /\ DOMAIN d = UseFields
      BY <2>6, <3>2, <3>3, UseDocIs
    <3> HIDE DEF e, y
    <3>6. ResolveValues(d, e.path) = {y}
      BY <3>1, <3>3, <3>5 DEF ResolveValues, One, Range, y
    <3>7. MatchField(d, e)
      BY <2>6, <3>1 DEF Selected, Matches
    <3>8. \E z \in {y} \ {Null} : z >= since
      BY <3>1, <3>6, <3>7 DEF MatchField
    <3>9. y >= since
      BY <3>8
    <3> QED BY <3>2, <3>4, <3>9 DEF y
  <2>7. \A i \in at : Get(rows[i], "day") \in since..top
    BY <2>3, <2>5, <2>6
  <2> HIDE DEF top
  <2> QED BY <2>2, <2>4, <2>7
<1>4. \A v : Count(u, "day", v) \in Int
  <2> HIDE DEF n, u
  <2> QED BY <1>2, CountIs
<1>5. PICK id : Groups(G, id, u, n, "day", "last_at")
  <2> HIDE DEF n, u
  <2> QED BY <1>2, GroupsAre
<1>6. K \in SUBSET (since..top)
  BY <1>3 DEF GroupKeys
<1> HIDE DEF n, u, G, K
<1> DEFINE m == Cardinality(K)
<1>7. /\ m \in Nat /\ DOMAIN G = 1..m
      /\ \A k \in 1..m : id[k] \in K /\ Get(G[k], "_id") = id[k] /\ Get(G[k], "n") = Count(u, "day", id[k])
  BY <1>5 DEF Groups, K
<1> HIDE DEF m
<1>8. Range(G) = {G[k] : k \in 1..m}
  BY <1>7 DEF Range
<1>9. \A y \in Range(G) : Get(y, "_id") \in K /\ Get(y, "n") \in Int
  BY <1>4, <1>7, <1>8
<1>10. IsFiniteSet(K)
  <2> DEFINE I == since..top
  <2>1. IsFiniteSet(I)
    <3>1. top \in Int
      BY UsageDays
    <3> QED BY <3>1, FS_Interval
  <2>2. K \in SUBSET I
    BY <1>6
  <2> HIDE DEF I
  <2> QED BY <2>1, <2>2, FS_Subset
<1>11. DOMAIN c = {Get(y, "_id") : y \in Range(G)} /\ c = [d \in DOMAIN c |-> c[d]]
  OBVIOUS
<1>12. ASSUME NEW d \in DOMAIN c PROVE c[d] \in Int
  <2>1. \E y \in Range(G) : Get(y, "_id") = d
    OBVIOUS
  <2>2. (CHOOSE y \in Range(G) : Get(y, "_id") = d) \in Range(G)
    BY <2>1
  <2>3. c[d] = Get(CHOOSE y \in Range(G) : Get(y, "_id") = d, "n")
    OBVIOUS
  <2> HIDE DEF c
  <2> QED BY <1>9, <2>2, <2>3
<1> HIDE DEF c
<1>13. DOMAIN c \in SUBSET K
  BY <1>9, <1>11
<1>14. IsFiniteSet(DOMAIN c)
  BY <1>10, <1>13, FS_Subset
<1>15. DOMAIN c \in SUBSET (since..top)
  BY <1>6, <1>13
<1> QED BY <1>1, <1>11, <1>12, <1>14, <1>15 DEF c, G, u, top

(* When every day of the window is drawn, so is every count.                *)
CountsOf(c, lo, hi) ==
  DOMAIN c \in SUBSET (lo..hi) /\ c = [d \in DOMAIN c |-> c[d]] /\ \A d \in DOMAIN c : c[d] \in Int
Numbers(L, n, S) ==
  /\ n \in Nat /\ \A k \in 1..n : L[k] \in S
  /\ \A d \in S : \E k \in 1..n : L[k] = d
  /\ \A j, k \in 1..n : L[j] = L[k] => j = k
Shows(p, n, L, c) == DOMAIN p = 1..n /\ \A k \in 1..n : p[k].count = At(c, L[k])

LEMMA CountsAddUp ==
  ASSUME NEW lo \in Int, NEW hi \in Int, NEW c, CountsOf(c, lo, hi),
         NEW n, NEW L, Numbers(L, n, lo..hi), NEW p, Shows(p, n, L, c)
  PROVE  SumOf(c) = SumOf([i \in DOMAIN p |-> p[i].count])
<1> DEFINE I == lo..hi
           D == DOMAIN c
           N == 1..n
           f == [d \in I |-> At(c, d)]
           h == [k \in N |-> L[k]]
<1>1. IsFiniteSet(I) /\ IsFiniteSet(N)
  BY FS_Interval DEF Numbers
<1>2. D \in SUBSET I
  BY DEF CountsOf
<1>3. \A d \in I : f[d] = At(c, d) /\ f[d] \in Int
  BY DEF At, CountsOf
<1>4. DOMAIN f = I /\ Summable(f)
  BY <1>1, <1>3 DEF Summable
<1>5. \A d \in D : f[d] = c[d]
  BY <1>2 DEF At
<1>6. \A d \in I \ D : f[d] = 0
  BY DEF At
<1>7. h \in [N -> I] /\ \A j, k \in N : h[j] = h[k] => j = k
  BY DEF Numbers
<1>8. {h[k] : k \in N} = I
  <2>1. /\ \A k \in N : h[k] \in I
        /\ \A d \in I : \E k \in N : h[k] = d
    BY DEF Numbers
  <2> HIDE DEF h, N, I
  <2> QED BY <2>1
<1>9. [i \in DOMAIN p |-> p[i].count] = [k \in N |-> f[h[k]]]
  <2>1. DOMAIN p = N /\ \A k \in N : p[k].count = At(c, L[k]) /\ h[k] = L[k] /\ L[k] \in I
    BY DEF Shows, Numbers
  <2> HIDE DEF N, h, f, I
  <2> QED BY <1>3, <2>1
<1>10. Terms(f, I) = f
  <2> HIDE DEF I
  <2> QED BY <1>4, AllTerms
<1>11. Terms(f, D) = c
  <2> HIDE DEF f
  <2> QED BY <1>5 DEF Terms, CountsOf
<1> HIDE DEF f, h, I, N
<1>12. SumOf(Terms(f, D \cup (I \ D))) = SumOf(Terms(f, D)) + SumOf(Terms(f, I \ D))
  BY <1>2, <1>4, SumSplits
<1>13. SumOf(Terms(f, I \ D)) = 0 /\ SumOf(Terms(f, D)) \in Int
  BY <1>2, <1>4, <1>6, SumOfZeros, SumTakes
<1>14. D \cup (I \ D) = I
  BY <1>2
<1>15. SumOf([k \in N |-> f[h[k]]]) = SumOf(Terms(f, I))
  <2>1. h \in [N -> DOMAIN f]
    BY <1>4, <1>7
  <2> QED BY <1>1, <1>4, <1>7, <1>8, <2>1, SumMoves
<1>16. SumOf(Terms(f, I)) = SumOf(Terms(f, D)) + 0
  BY <1>12, <1>13, <1>14
<1> QED BY <1>9, <1>11, <1>13, <1>15, <1>16

(* HeatmapDrawsWindow: a grid of whole weeks from the cutoff to today,      *)
(* whatever the timezone, the instant, the width of the window and the      *)
(* usage; and on ordinary days the very window, each day in the row of its  *)
(* weekday, with all the usage in it.                                       *)
THEOREM HeatmapsDrawTheWindow == Spec => []HeatmapDrawsWindow
<1>1. ASSUME KeptInv, RowsInv, NEW days \in 1..HeatDays, NEW a \in App
      PROVE  WindowIsDrawn(days, a)
  <2> DEFINE S == Drawn(now, days)
             L == Labels(now, days)
             n == Cardinality(S)
             w == L[1] % 7
             lo == HeatmapSinceDay(now, days)
             hi == UsageDay(now)
             c == DailyCounts(rows, "app_key", a, lo)
             g == BuildHeatmap(c, now, days, 0, Null, [spend |-> 0, tokens |-> 0])
             p == Picked(g, {i \in DOMAIN g : g[i].day # Null})
             Begins == p[1].day = lo /\ Last(p).day = hi /\ Len(g) % 7 = 0
             Climbs == \A i \in DOMAIN p : i > 1 => p[i - 1].day < p[i].day
             Width == Len(p) = days
             Weeks == \A i \in DOMAIN g : g[i].day # Null => (i - 1) % 7 = g[i].day % 7
             AllIn == SumOf(c) = SumOf([i \in DOMAIN p |-> p[i].count])
  <2>1. now \in Int /\ days \in Nat \ {0}
    BY <1>1, DashboardAssumption DEF KeptInv
  <2>2. lo \in Nat /\ hi \in Nat /\ lo <= hi /\ S \in SUBSET (lo..hi)
    BY <2>1, WindowIs
  <2>3. /\ n \in Nat /\ n > 0 /\ DOMAIN L = 1..n /\ \A k \in 1..n : L[k] \in S
        /\ \A j, k \in 1..n : j < k => L[j] < L[k]
        /\ \A d \in S : \E k \in 1..n : L[k] = d
        /\ L[1] = lo /\ L[n] = hi
    BY <2>1, LabelsAre
  <2>4. Grid(g, L, n, w, c)
    BY <2>1, GridIs
  <2>5. CountsOf(c, lo, hi)
    BY <1>1, <2>2, DailyAre DEF CountsOf
  <2>6. \A k \in 1..n : LowerGaps(S, lo, hi, L[k]) \in Nat /\ L[k] - lo = k - 1 + LowerGaps(S, lo, hi, L[k])
    <3>1. L = Ascending(S)
      BY DEF Labels, Drawn
    <3> HIDE DEF L, S, lo, hi
    <3> QED BY <2>2, <3>1, Gaps
  <2>7. Ordinary(days) => S = lo..hi /\ hi - lo = days - 1
    BY <2>1, OrdinaryDays
  <2>8. p = Shown(g)
    BY DEF Shown
  <2>9. Begins /\ Climbs /\ (Ordinary(days) => Width /\ Weeks /\ AllIn) => WindowIsDrawn(days, a)
    BY DEF WindowIsDrawn, SumCounts, WeekdayOf
  <2> HIDE DEF S, L, n, lo, hi, c, g, p
  <2>10. \A k \in 1..n : L[k] \in Int /\ lo <= L[k] /\ L[k] <= hi
    <3> SUFFICES ASSUME NEW k \in 1..n PROVE L[k] \in Int /\ lo <= L[k] /\ L[k] <= hi
      OBVIOUS
    <3>1. L[k] \in lo..hi
      BY <2>2, <2>3
    <3> QED BY <2>2, <3>1
  <2>11. Len(p) = n /\ DOMAIN p = 1..n /\ \A k \in 1..n : p[k] = g[w + k]
    <3> HIDE DEF w
    <3> QED BY <2>3, <2>4, <2>8, <2>10, DrawnAre
  <2>12. /\ w \in Nat /\ w + n <= Len(g) /\ Len(g) \in Nat /\ DOMAIN g = 1..Len(g) /\ Len(g) % 7 = 0
         /\ \A k \in 1..n : g[w + k].day = L[k] /\ g[w + k].count = At(c, L[k])
         /\ \A i \in 1..Len(g) : i <= w \/ w + n < i => g[i].day = Null
    <3> HIDE DEF w
    <3> QED BY <2>4 DEF Grid, IsSequence
  <2>13. w = lo % 7
    BY <2>3
  <2> HIDE DEF w
  <2>14. \A k \in 1..n : p[k].day = L[k] /\ p[k].count = At(c, L[k])
    BY <2>11, <2>12
  <2>15. Begins
    <3>1. 1 \in 1..n /\ n \in 1..n
      BY <2>3
    <3>2. Last(p) = p[n]
      BY <2>11 DEF Last
    <3> QED BY <2>3, <2>12, <2>14, <3>1, <3>2
  <2>16. Climbs
    <3> SUFFICES ASSUME NEW i \in 1..n, i > 1 PROVE p[i - 1].day < p[i].day
      BY <2>11
    <3>1. i - 1 \in 1..n /\ i - 1 < i
      BY <2>3
    <3> QED BY <2>3, <2>14, <3>1
  <2>17. ASSUME Ordinary(days) PROVE Width
    <3>1. S = lo..hi /\ hi - lo = days - 1
      BY <2>7, <2>17
    <3>2. n = hi - lo + 1
      BY <2>2, <3>1, FS_Interval DEF n
    <3> QED BY <2>1, <2>2, <2>11, <3>1, <3>2
  <2>18. ASSUME Ordinary(days) PROVE Weeks
    <3> SUFFICES ASSUME NEW i \in 1..Len(g), g[i].day # Null PROVE (i - 1) % 7 = g[i].day % 7
      BY <2>12
    <3> DEFINE k == i - w
    <3>1. k \in 1..n /\ w + k = i
      <4>1. ~ (i <= w) /\ ~ (w + n < i)
        BY <2>12
      <4> QED BY <2>3, <2>12, <4>1
    <3> HIDE DEF k
    <3>2. g[i].day = L[k]
      BY <2>12, <3>1
    <3> DEFINE x == L[k]
    <3>3. LowerGaps(S, lo, hi, x) = 0
      <4>1. {d \in (lo..hi) \ S : d < x} = {}
        BY <2>7, <2>18
      <4> QED BY <4>1, FS_EmptySet DEF LowerGaps
    <3>4. x - lo = k - 1
      BY <2>6, <3>1, <3>3
    <3>5. x \in Int /\ k \in Int /\ i = w + k /\ w \in Int
      BY <2>10, <2>12, <3>1
    <3> HIDE DEF x
    <3>6. i - 1 = w + (x - lo)
      BY <2>2, <3>4, <3>5
    <3>7. (w + (x - lo)) % 7 = x % 7
      BY <2>2, <2>13, <3>5
    <3> QED BY <3>2, <3>6, <3>7 DEF x
  <2>19. ASSUME Ordinary(days) PROVE AllIn
    <3>1. \A j, k \in 1..n : L[j] = L[k] => j = k
      <4> SUFFICES ASSUME NEW j \in 1..n, NEW k \in 1..n, L[j] = L[k] PROVE j = k
        OBVIOUS
      <4>1. ~ (j < k) /\ ~ (k < j)
        BY <2>3, <2>10
      <4> QED BY <2>3, <4>1
    <3>2. Numbers(L, n, S) /\ Shows(p, n, L, c)
      BY <2>3, <2>11, <2>14, <3>1 DEF Numbers, Shows
    <3>3. S = lo..hi
      BY <2>7, <2>19
    <3> QED BY <2>2, <2>5, <3>2, <3>3, CountsAddUp
  <2> HIDE DEF Begins, Climbs, Width, Weeks, AllIn
  <2> QED BY <2>9, <2>15, <2>16, <2>17, <2>18, <2>19
<1>2. KeptInv /\ RowsInv => HeatmapDrawsWindow
  BY <1>1 DEF HeatmapDrawsWindow
<1> QED BY <1>2, KeptInvariant, RowsInvariant, PTL

------------------------------------------------------------------------------
(* What the cards show of the proxy's rows.                                 *)

SpendsOf(log, n) == [i \in 1..n |-> log[i].spend]
Recent(log, mine, since) == {i \in mine : UsageDay(log[i].at) >= since}
ShownOf(score) == IF score = Null THEN 0 ELSE score.full.spend

(* The overlay of a card sums up the spend of its rows since the first day  *)
(* of the heatmap: what is grouped by days is summed up again.              *)
LEMMA OverlaySums ==
  ASSUME NullIsNoObject, NEW log, NEW n \in Nat, DOMAIN log = 1..n, \A i \in 1..n : log[i].spend \in Nat,
         NEW mine \in SUBSET (1..n), NEW rank, NEW heat \in Int
  PROVE  ShownOf(LlmScore(FetchDaily(log, mine, heat), rank, heat))
           = SumOf(Terms(SpendsOf(log, n), Recent(log, mine, heat)))
<1> DEFINE day == [i \in 1..n |-> UsageDay(log[i].at)]
           K == {x \in {UsageDay(log[i].at) : i \in mine} : x >= heat}
           of(d) == {i \in mine : UsageDay(log[i].at) = d}
           daily == [d \in K |-> Total(log, of(d))]
           f == SpendsOf(log, n)
           since == {i \in mine : UsageDay(log[i].at) >= heat}
           score == [recent |-> SumWindow(daily, rank), full |-> SumWindow(daily, heat)]
<1>1. Bucket(log, mine, heat) = daily
  BY DEF Bucket
<1>2. FetchDaily(log, mine, heat) = IF K = {} THEN Null ELSE daily
  BY <1>1 DEF FetchDaily
<1>3. DOMAIN f = 1..n /\ Summable(f) /\ \A i \in 1..n : f[i] = log[i].spend
  <2>1. IsFiniteSet(1..n)
    BY FS_Interval
  <2> QED BY <2>1 DEF SpendsOf, Summable
<1>4. CASE K = {}
  <2>1. since = {}
    BY <1>4
  <2>2. SumOf(Terms(f, since)) = 0
    BY <2>1, SumOfNone DEF Terms
  <2>3. ShownOf(LlmScore(FetchDaily(log, mine, heat), rank, heat)) = 0
    BY <1>2, <1>4 DEF LlmScore, ShownOf
  <2> QED BY <2>2, <2>3 DEF Recent
<1>5. CASE K # {}
  <2>1. daily # Null /\ score # Null
    <3>1. daily = [x \in DOMAIN daily |-> daily[x]] /\ score = [x \in DOMAIN score |-> score[x]]
      OBVIOUS
    <3> HIDE DEF daily, score
    <3> QED BY <3>1 DEF NullIsNoObject
  <2>2. FetchDaily(log, mine, heat) = daily
    BY <1>2, <1>5
  <2>3. ShownOf(LlmScore(daily, rank, heat)) = SumWindow(daily, heat).spend
    <3>1. LlmScore(daily, rank, heat) = score
      BY <2>1 DEF LlmScore
    <3>2. ShownOf(score) = score.full.spend
      BY <2>1 DEF ShownOf
    <3>3. score.full.spend = SumWindow(daily, heat).spend
      OBVIOUS
    <3> QED BY <3>1, <3>2, <3>3
  <2>4. {d \in DOMAIN daily : d >= heat} = K
    OBVIOUS
  <2>5. SumWindow(daily, heat).spend = SumOf([d \in K |-> daily[d].spend])
    <3> HIDE DEF daily, K
    <3> QED BY <2>4 DEF SumWindow
  <2>6. [d \in K |-> daily[d].spend] = GroupSums(f, mine, day, K)
    <3> SUFFICES ASSUME NEW d \in K PROVE daily[d].spend = SumOf(Terms(f, {i \in mine : day[i] = d}))
      BY DEF GroupSums
    <3>1. {i \in mine : day[i] = d} = of(d)
      OBVIOUS
    <3>2. of(d) \in SUBSET (1..n)
      OBVIOUS
    <3>3. daily[d].spend = SumOf([i \in of(d) |-> log[i].spend])
      BY DEF Total
    <3> HIDE DEF of, f
    <3>4. [i \in of(d) |-> log[i].spend] = Terms(f, of(d))
      BY <1>3, <3>2 DEF Terms
    <3> QED BY <3>1, <3>3, <3>4
  <2>7. IsFiniteSet(K)
    <3> DEFINE D == 1..n
    <3>1. IsFiniteSet(D) /\ mine \in SUBSET D
      BY FS_Interval
    <3> HIDE DEF D
    <3>2. IsFiniteSet(mine)
      BY <3>1, FS_Subset
    <3> DEFINE g == [i \in mine |-> UsageDay(log[i].at)]
    <3>3. IsFiniteSet({g[i] : i \in mine})
      BY <3>2, ValuesAre
    <3>4. K \in SUBSET {g[i] : i \in mine}
      OBVIOUS
    <3> HIDE DEF K, g
    <3> QED BY <3>3, <3>4, FS_Subset
  <2>8. SumOf(GroupSums(f, mine, day, K)) = SumOf(Terms(f, OfKeys(mine, day, K)))
    <3>1. mine \in SUBSET DOMAIN f
      BY <1>3
    <3> HIDE DEF K, f, day
    <3> QED BY <1>3, <2>7, <3>1, SumOfGroups
  <2>9. OfKeys(mine, day, K) = since
    BY DEF OfKeys
  <2> HIDE DEF K, f, day, daily, since
  <2> QED BY <2>2, <2>3, <2>5, <2>6, <2>8, <2>9 DEF since, f, Recent
<1> QED BY <1>4, <1>5

(* The rows that a card must show and those that it may.                    *)
FirstDay(q) == HeatmapSinceDay(q.at, HeatDays)
LoadOf(q)   == LoadSince(q.dash, q.at)
SureKeys(q, t) == {Keys[i] : i \in Sure("keys", 0, OldestPull(q), t)}
MustShow(q, s, k, t) ==
  {i \in Sure("rows", LoadOf(q), OldestPull(q), t) :
     UsageDay(Log[i].at) >= FirstDay(q) /\ Key(s, Log[i], SureKeys(q, t)) = k}
MayShow(q, s, k, t) ==
  {i \in DOMAIN Log : Log[i].at <= t /\ UsageDay(Log[i].at) >= FirstDay(q) /\ Key(s, Log[i], Range(Keys)) = k}
Least(q, s, k, t) == SumOf([j \in MustShow(q, s, k, t) |-> Log[j].spend])
Most(q, s, k, t)  == SumOf([j \in MayShow(q, s, k, t) |-> Log[j].spend])
Quietly(q, t)     == Stood("rows", LoadOf(q), OldestPull(q), t)

(* A key has one token: whoever knows it says the same of whose a row is.   *)
LEMMA KeysAgree ==
  ASSUME NEW s, NEW row, NEW K, NEW L, s = "apps" => K \subseteq L /\ L \subseteq Range(Keys),
         Key(s, row, K) # Null
  PROVE  Key(s, row, L) = Key(s, row, K)
<1>1. CASE s # "apps"
  BY <1>1 DEF Key
<1>2. CASE s = "apps"
  <2> DEFINE of(M) == {e \in M : e.token = row.key}
  <2>1. AliasOf(K, row.key) # Null /\ Key(s, row, K) = AliasOf(K, row.key) /\ Key(s, row, L) = AliasOf(L, row.key)
    BY <1>2 DEF Key
  <2>2. \A x, y \in Range(Keys) : x.token = y.token => x = y
    BY LogAssumption DEF Range
  <2>3. PICK e : e \in of(K)
    BY <2>1 DEF AliasOf
  <2>4. of(K) = {e} /\ of(L) = {e}
    BY <1>2, <2>2, <2>3
  <2> HIDE DEF of
  <2>5. AliasOf(K, row.key) = (IF of(K) = {} THEN Null ELSE (CHOOSE x \in of(K) : TRUE).alias)
        /\ AliasOf(L, row.key) = (IF of(L) = {} THEN Null ELSE (CHOOSE x \in of(L) : TRUE).alias)
    BY DEF AliasOf, of
  <2> QED BY <2>1, <2>4, <2>5
<1> QED BY <1>1, <1>2

(* As time passes the least is less and the most is more.                   *)
LEMMA LeastShrinks ==
  ASSUME NEW q, q.at \in Nat, NEW s, NEW k, k # Null, NEW t \in Nat, NEW u \in Nat, t <= u
  PROVE  Least(q, s, k, u) \in Nat /\ Least(q, s, k, u) <= Least(q, s, k, t)
<1> DEFINE T == MustShow(q, s, k, t)
           U == MustShow(q, s, k, u)
           from == OldestPull(q)
<1>1. from \in Int /\ t \in Int /\ u \in Int /\ "rows" \in Kinds /\ "keys" \in Kinds /\ from <= from
  BY DashboardAssumption DEF Kinds, OldestPull
<1> HIDE DEF from
<1>2. Sure("rows", LoadOf(q), from, u) \in SUBSET Sure("rows", LoadOf(q), from, t)
  BY <1>1, SureShrinks
<1>3. Sure("keys", 0, from, u) \in SUBSET Sure("keys", 0, from, t)
  BY <1>1, SureShrinks
<1>4. SureKeys(q, u) \subseteq SureKeys(q, t) /\ SureKeys(q, t) \subseteq Range(Keys)
  BY <1>3 DEF SureKeys, Sure, Sought, Source, Range, from
<1>5. T \in SUBSET DOMAIN Log
  BY DEF MustShow, Sure, Sought, Source
<1>6. U \in SUBSET T
  <2> SUFFICES ASSUME NEW i \in U PROVE i \in T
    OBVIOUS
  <2>1. i \in Sure("rows", LoadOf(q), from, u) /\ UsageDay(Log[i].at) >= FirstDay(q)
        /\ Key(s, Log[i], SureKeys(q, u)) = k
    BY DEF MustShow, from
  <2>2. Key(s, Log[i], SureKeys(q, t)) = k
    BY <1>4, <2>1, KeysAgree
  <2> QED BY <1>2, <2>1, <2>2 DEF MustShow, from
<1>7. Least(q, s, k, t) = SumOf(Terms(Spends, T)) /\ Least(q, s, k, u) = SumOf(Terms(Spends, U))
  <2>1. U \in SUBSET DOMAIN Log
    BY <1>5, <1>6
  <2> HIDE DEF T, U
  <2>2. /\ [j \in T |-> Log[j].spend] = Terms(Spends, T)
        /\ [j \in U |-> Log[j].spend] = Terms(Spends, U)
    BY <1>5, <2>1, LogSums DEF Terms
  <2> QED BY <2>2 DEF Least, T, U
<1> HIDE DEF T, U
<1>8. IsFiniteSet(DOMAIN Spends) /\ (\A i \in DOMAIN Spends : Spends[i] \in Nat) /\ T \in SUBSET DOMAIN Spends
  BY <1>5, LogSums
<1>9. SumOf(Terms(Spends, U)) <= SumOf(Terms(Spends, T))
  BY <1>6, <1>8, SumGrows
<1>10. U \in SUBSET DOMAIN Spends /\ U \in SUBSET U
  BY <1>6, <1>8
<1>11. SumOf(Terms(Spends, U)) \in Nat
  BY <1>8, <1>10, SumGrows
<1> QED BY <1>7, <1>9, <1>11

LEMMA MostGrows ==
  ASSUME NEW q, NEW s, NEW k, NEW t \in Nat, NEW u \in Nat, t <= u
  PROVE  Most(q, s, k, t) \in Nat /\ Most(q, s, k, t) <= Most(q, s, k, u)
<1> DEFINE T == MayShow(q, s, k, t)
           U == MayShow(q, s, k, u)
<1>1. DOMAIN Log = 1..Len(Log) /\ \A i \in DOMAIN Log : Log[i].at \in Nat
  BY LogIs
<1>2. U \in SUBSET DOMAIN Log /\ T \in SUBSET U
  <2>1. \A i \in DOMAIN Log : Log[i].at <= t => Log[i].at <= u
    BY <1>1
  <2> QED BY <2>1 DEF MayShow
<1>3. Most(q, s, k, t) = SumOf(Terms(Spends, T)) /\ Most(q, s, k, u) = SumOf(Terms(Spends, U))
  <2>1. T \in SUBSET DOMAIN Log
    BY <1>2
  <2> HIDE DEF T, U
  <2>2. /\ [j \in T |-> Log[j].spend] = Terms(Spends, T)
        /\ [j \in U |-> Log[j].spend] = Terms(Spends, U)
    BY <1>2, <2>1, LogSums DEF Terms
  <2> QED BY <2>2 DEF Most, T, U
<1> HIDE DEF T, U
<1>4. IsFiniteSet(DOMAIN Spends) /\ (\A i \in DOMAIN Spends : Spends[i] \in Nat) /\ U \in SUBSET DOMAIN Spends
  BY <1>2, LogSums
<1>5. SumOf(Terms(Spends, U)) \in Nat /\ SumOf(Terms(Spends, T)) <= SumOf(Terms(Spends, U))
  BY <1>2, <1>4, SumGrows
<1>6. T \in SUBSET DOMAIN Spends /\ T \in SUBSET T
  BY <1>2, <1>4
<1>7. SumOf(Terms(Spends, T)) \in Nat
  BY <1>4, <1>6, SumGrows
<1> QED BY <1>3, <1>5, <1>7

(* The overlay of what a section holds.                                     *)
MineIn(s, value, K, k) == {j \in DOMAIN value : Key(s, value[j], K) = k}
OverlayOf(q, s, value, K, k, rank) ==
  LlmScore(FetchDaily(value, MineIn(s, value, K, k), FirstDay(q)), rank, FirstDay(q))
HasKeys(q, s, keys, t) == s = "apps" => Held("keys", keys, 0, OldestPull(q), t)

LEMMA KnownKeys ==
  ASSUME NEW q, NEW s, NEW keys, NEW t, HasKeys(q, s, keys, t), s = "apps"
  PROVE  SureKeys(q, t) \subseteq Range(keys) /\ Range(keys) \subseteq Range(Keys)
<1>1. Held("keys", keys, 0, OldestPull(q), t)
  BY DEF HasKeys
<1>2. \A y \in Range(keys) : \E i \in DOMAIN Keys : y = Keys[i]
  <2>1. \A y \in Range(keys) : \E i \in Seen("keys", 0, t) : y = Entry("keys", i)
    BY <1>1 DEF Held
  <2>2. \A i \in Seen("keys", 0, t) : i \in DOMAIN Keys /\ Entry("keys", i) = Keys[i]
    BY DEF Seen, Sought, Source, Entry
  <2> QED BY <2>1, <2>2
<1>3. \A i \in Sure("keys", 0, OldestPull(q), t) : Entry("keys", i) = Keys[i] /\ Entry("keys", i) \in Range(keys)
  BY <1>1 DEF Held, Source, Entry
<1> QED BY <1>2, <1>3 DEF SureKeys, Range

(* A section that has what it asked for shows no less than it must, and, if *)
(* the log stood still, no more than it may.                                *)
LEMMA OverlayIsWhole ==
  ASSUME NullIsNoObject, NEW q, q.at \in Nat, NEW t \in Nat, NEW s, NEW k, k # Null, NEW rank,
         NEW value, Held("rows", value, LoadOf(q), OldestPull(q), t), NEW keys, HasKeys(q, s, keys, t)
  PROVE  LET x == ShownOf(OverlayOf(q, s, value, Range(keys), k, rank)) IN
         x \in Nat /\ Least(q, s, k, t) <= x /\ (Quietly(q, t) => x <= Most(q, s, k, t))
<1> DEFINE K == Range(keys)
           n == Len(value)
           B == 1..n
           heat == FirstDay(q)
           mine == MineIn(s, value, K, k)
           M == Recent(value, mine, heat)
           F == SpendsOf(value, n)
           x == SumOf(Terms(F, M))
<1>1. /\ IsSequence(value) /\ n \in Nat /\ DOMAIN value = B
      /\ \A j \in B : value[j].spend \in Nat
      /\ \A j \in B : \E i \in DOMAIN Log : Log[i].at <= t /\ value[j] = Log[i]
      /\ \A i \in Sure("rows", LoadOf(q), OldestPull(q), t) : i \in DOMAIN Log /\ \E j \in B : value[j] = Log[i]
      /\ Quietly(q, t) => \A i, j \in B : value[i] = value[j] => i = j
  <2>1. /\ IsSequence(value) /\ Weighs(value, MaxPages)
        /\ \A y \in Range(value) : \E i \in Seen("rows", LoadOf(q), t) : y = Entry("rows", i)
        /\ \A i \in Sure("rows", LoadOf(q), OldestPull(q), t) : Entry("rows", i) \in Range(value)
        /\ Quietly(q, t) => NoRepeats(value)
    BY DEF Held, Quietly
  <2>2. n \in Nat /\ DOMAIN value = B
    BY <2>1, SequencesGrow DEF IsSequence
  <2>3. \A i \in Seen("rows", LoadOf(q), t) : i \in DOMAIN Log /\ Entry("rows", i) = Log[i] /\ Log[i].at <= t
    BY DEF Seen, Sought, Source, Entry
  <2>4. \A i \in Sure("rows", LoadOf(q), OldestPull(q), t) : i \in DOMAIN Log /\ Entry("rows", i) = Log[i]
    BY DEF Sure, Sought, Source, Entry
  <2>5. \A j \in B : value[j].spend \in Nat
    BY <2>1 DEF Weighs
  <2>6. \A j \in B : \E i \in DOMAIN Log : Log[i].at <= t /\ value[j] = Log[i]
    <3> SUFFICES ASSUME NEW j \in B PROVE \E i \in DOMAIN Log : Log[i].at <= t /\ value[j] = Log[i]
      OBVIOUS
    <3>1. value[j] \in Range(value)
      BY <2>2 DEF Range
    <3> QED BY <2>1, <2>3, <3>1
  <2>7. \A i \in Sure("rows", LoadOf(q), OldestPull(q), t) : \E j \in B : value[j] = Log[i]
    <3> SUFFICES ASSUME NEW i \in Sure("rows", LoadOf(q), OldestPull(q), t) PROVE \E j \in B : value[j] = Log[i]
      OBVIOUS
    <3>1. Log[i] \in Range(value)
      BY <2>1, <2>4
    <3> QED BY <2>2, <3>1 DEF Range
  <2>8. Quietly(q, t) => \A i, j \in B : value[i] = value[j] => i = j
    BY <2>1 DEF NoRepeats
  <2> QED BY <2>1, <2>2, <2>4, <2>5, <2>6, <2>7, <2>8
<1>2. mine \in SUBSET B /\ M \in SUBSET B
      /\ \A j \in B : j \in M <=> UsageDay(value[j].at) >= heat /\ Key(s, value[j], K) = k
  BY <1>1 DEF MineIn, Recent
<1>3. IsFiniteSet(B)
  <2> HIDE DEF n
  <2> QED BY <1>1, FS_Interval
<1>4. /\ DOMAIN F = B /\ Summable(F) /\ IsFiniteSet(DOMAIN F) /\ M \in SUBSET DOMAIN F
      /\ \A j \in B : F[j] = value[j].spend /\ F[j] \in Nat
  BY <1>1, <1>2, <1>3 DEF SpendsOf, Summable
<1>5. ShownOf(OverlayOf(q, s, value, K, k, rank)) = x
  <2>1. heat \in Int
    BY Windows DEF FirstDay
  <2>2. n \in Nat /\ DOMAIN value = 1..n /\ \A i \in 1..n : value[i].spend \in Nat
    BY <1>1
  <2> HIDE DEF mine, heat, n
  <2>3. mine \in SUBSET (1..n)
    BY <1>2
  <2>4. ShownOf(LlmScore(FetchDaily(value, mine, heat), rank, heat))
          = SumOf(Terms(SpendsOf(value, n), Recent(value, mine, heat)))
    BY <2>1, <2>2, <2>3, OverlaySums
  <2> QED BY <2>4 DEF OverlayOf, mine, heat
<1>6. s = "apps" => SureKeys(q, t) \subseteq K /\ K \subseteq Range(Keys) /\ Range(Keys) \subseteq Range(Keys)
  BY KnownKeys
<1> HIDE DEF K, heat, mine, M, F, B, n
<1>7. x \in Nat
  <2>1. (\A i \in DOMAIN F : F[i] \in Nat) /\ M \in SUBSET M
    BY <1>4
  <2> QED BY <1>4, <2>1, SumGrows
<1>8. Least(q, s, k, t) <= x
  <2> DEFINE D == MustShow(q, s, k, t)
             b == [i \in D |-> CHOOSE j \in B : value[j] = Log[i]]
             S == {b[i] : i \in D}
  <2>1. \A i \in D : i \in DOMAIN Log /\ (\E j \in B : value[j] = Log[i]) /\ UsageDay(Log[i].at) >= heat
                    /\ Key(s, Log[i], SureKeys(q, t)) = k
    BY <1>1 DEF MustShow, heat
  <2>2. \A i \in D : b[i] \in B /\ value[b[i]] = Log[i]
    BY <2>1
  <2>3. b \in [D -> DOMAIN F]
    BY <1>4, <2>2
  <2>4. \A i \in D : b[i] \in M
    <3> SUFFICES ASSUME NEW i \in D PROVE b[i] \in M
      OBVIOUS
    <3>1. Key(s, Log[i], K) = k
      BY <1>6, <2>1, KeysAgree
    <3> QED BY <1>2, <2>1, <2>2, <3>1
  <2>5. IsFiniteSet(D)
    <3>1. D \in SUBSET DOMAIN Log /\ IsFiniteSet(DOMAIN Log)
      BY <2>1, LogSums
    <3> QED BY <3>1, FS_Subset
  <2> HIDE DEF b, D
  <2>6. \A i, j \in D : b[i] = b[j] => i = j
    <3> SUFFICES ASSUME NEW i \in D, NEW j \in D, b[i] = b[j] PROVE i = j
      OBVIOUS
    <3>1. Log[i] = Log[j] /\ i \in DOMAIN Log /\ j \in DOMAIN Log
      BY <2>1, <2>2
    <3> QED BY <3>1, LogIs
  <2>7. SumOf([i \in D |-> F[b[i]]]) = SumOf(Terms(F, {b[i] : i \in D}))
    BY <1>4, <2>3, <2>5, <2>6, SumMoves
  <2>8. [i \in D |-> F[b[i]]] = [i \in D |-> Log[i].spend]
    BY <1>4, <2>2
  <2>9. S \in SUBSET M
    BY <2>4
  <2> HIDE DEF S
  <2>10. SumOf(Terms(F, S)) <= SumOf(Terms(F, M))
    <3>1. \A i \in DOMAIN F : F[i] \in Nat
      BY <1>4
    <3> QED BY <1>4, <2>9, <3>1, SumGrows
  <2> QED BY <2>7, <2>8, <2>10 DEF Least, D, S
<1>9. ASSUME Quietly(q, t) PROVE x <= Most(q, s, k, t)
  <2> DEFINE a == [j \in M |-> CHOOSE i \in DOMAIN Log : Log[i].at <= t /\ value[j] = Log[i]]
             U == MayShow(q, s, k, t)
             S == {a[j] : j \in M}
  <2>1. \A j \in M : j \in B /\ \E i \in DOMAIN Log : Log[i].at <= t /\ value[j] = Log[i]
    BY <1>1, <1>2
  <2>2. \A j \in M : a[j] \in DOMAIN Log /\ Log[a[j]].at <= t /\ value[j] = Log[a[j]]
    BY <2>1
  <2>3. /\ Summable(Spends) /\ DOMAIN Spends = DOMAIN Log /\ IsFiniteSet(DOMAIN Spends)
        /\ \A i \in DOMAIN Log : Spends[i] \in Nat /\ Spends[i] = Log[i].spend
    BY LogSums
  <2>4. a \in [M -> DOMAIN Spends]
    BY <2>2, <2>3
  <2> HIDE DEF a
  <2>5. \A i, j \in M : a[i] = a[j] => i = j
    BY <1>1, <1>9, <2>1, <2>2
  <2>6. IsFiniteSet(M)
    BY <1>2, <1>3, FS_Subset
  <2>7. SumOf([j \in M |-> Spends[a[j]]]) = SumOf(Terms(Spends, {a[j] : j \in M}))
    BY <2>3, <2>4, <2>5, <2>6, SumMoves
  <2>8. Terms(F, M) = [j \in M |-> Spends[a[j]]]
    <3>1. \A j \in M : F[j] = Spends[a[j]]
      BY <1>4, <2>1, <2>2, <2>3
    <3>2. Terms(F, M) = [j \in M |-> F[j]]
      BY DEF Terms
    <3> QED BY <3>1, <3>2
  <2>9. U \in SUBSET DOMAIN Log
    BY DEF MayShow
  <2>10. S \in SUBSET U
    <3> SUFFICES ASSUME NEW j \in M PROVE a[j] \in U
      OBVIOUS
    <3>1. Key(s, value[j], K) = k /\ UsageDay(value[j].at) >= heat
      BY <1>2, <2>1
    <3>2. Key(s, value[j], Range(Keys)) = k
      BY <1>6, <3>1, KeysAgree
    <3> QED BY <2>2, <3>1, <3>2 DEF MayShow, heat
  <2>11. Most(q, s, k, t) = SumOf(Terms(Spends, U))
    <3> HIDE DEF U
    <3>1. [j \in U |-> Log[j].spend] = Terms(Spends, U)
      BY <2>3, <2>9 DEF Terms
    <3> QED BY <3>1 DEF Most, U
  <2> HIDE DEF U, S
  <2>12. SumOf(Terms(Spends, S)) <= SumOf(Terms(Spends, U))
    <3>1. (\A i \in DOMAIN Spends : Spends[i] \in Nat) /\ U \in SUBSET DOMAIN Spends
      BY <2>3, <2>9
    <3> QED BY <2>3, <2>10, <3>1, SumGrows
  <2> QED BY <2>7, <2>8, <2>11, <2>12 DEF S
<1> HIDE DEF x
<1> QED BY <1>5, <1>7, <1>8, <1>9 DEF K

(* A card says all of this of what it shows, and as time passes.            *)
Whole(q, s, card, t) ==
  /\ card.key # Null /\ ShownOf(card.llm) \in Nat
  /\ q.llm /\ On(s) /\ ~ q.warning => ShownOf(card.llm) >= Least(q, s, card.key, t)
  /\ Quietly(q, t) => ShownOf(card.llm) <= Most(q, s, card.key, t)

LEMMA WholeLater ==
  ASSUME NEW q, q.at \in Nat, NEW s, NEW card, NEW t \in Nat, NEW u \in Nat, t <= u, Whole(q, s, card, t)
  PROVE  Whole(q, s, card, u)
<1> DEFINE k == card.key
           x == ShownOf(card.llm)
<1>1. k # Null /\ x \in Nat
  BY DEF Whole
<1> HIDE DEF k, x
<1>2. Most(q, s, k, t) \in Nat /\ Most(q, s, k, t) <= Most(q, s, k, u) /\ Most(q, s, k, u) \in Nat
  <2>1. u <= u
    OBVIOUS
  <2> QED BY <2>1, MostGrows
<1>3. Least(q, s, k, u) \in Nat /\ Least(q, s, k, u) <= Least(q, s, k, t) /\ Least(q, s, k, t) \in Nat
  <2>1. t <= t
    OBVIOUS
  <2> QED BY <1>1, <2>1, LeastShrinks
<1>4. Quietly(q, u) => Quietly(q, t)
  <2>1. OldestPull(q) \in Int /\ OldestPull(q) <= OldestPull(q) /\ t \in Int /\ u \in Int /\ "rows" \in Kinds
    BY DashboardAssumption DEF OldestPull, Kinds
  <2> QED BY <2>1, SureShrinks DEF Quietly
<1>5. q.llm /\ On(s) /\ ~ q.warning => x >= Least(q, s, k, u)
  <2>1. q.llm /\ On(s) /\ ~ q.warning => x >= Least(q, s, k, t)
    BY DEF Whole, k, x
  <2> QED BY <1>1, <1>3, <2>1
<1>6. Quietly(q, u) => x <= Most(q, s, k, u)
  <2>1. Quietly(q, t) => x <= Most(q, s, k, t)
    BY DEF Whole, k, x
  <2> QED BY <1>1, <1>2, <1>4, <2>1
<1> QED BY <1>1, <1>5, <1>6 DEF Whole, k, x

------------------------------------------------------------------------------
(* What the sections of a page wait for and have.                           *)

(* A section that has not failed has, or waits for, the rows since its day, *)
(* and that of the apps the keys.                                           *)
WaitsFor(P, sec, key) == \E p \in sec.wait : P[p].key = key
Fed(P, s, sec, since, from, t) ==
  /\ \A p \in sec.wait : P[p].key \in {<<"rows", since>>, <<"keys", 0>>}
  /\ sec.ok => WaitsFor(P, sec, <<"rows", since>>) \/ Held("rows", sec.log, since, from, t)
  /\ sec.ok /\ s = "apps" => WaitsFor(P, sec, <<"keys", 0>>) \/ Held("keys", sec.keys, 0, from, t)
Asks(q, s) ==
  q.llm /\ On(s) /\ (q.pc = "totals" \/ (q.pc = "overlay" /\ q.secs[s].top # <<>>))
Keyed(top) == \A i \in DOMAIN top : top[i].llmKey = top[i].key /\ top[i].key \in Int

PageFed(q, P, t) ==
  /\ q.at \in Nat /\ q.at <= t
  /\ \A s \in Sections : Keyed(q.secs[s].top)
  /\ \A s \in Sections : Asks(q, s) => Fed(P, s, q.secs[s], LoadOf(q), OldestPull(q), t)
  /\ q.pc = "rank" => \A s \in Sections : AllMeasured(q.totals[s])
  /\ q.pc # "done" => \A s \in Sections : q.cards[s] = <<>>
  /\ q.pc = "done" => \A s \in Sections : \A i \in DOMAIN q.cards[s] : Whole(q, s, q.cards[s][i], t)
FedInv == \A r \in Request : PageFed(reqs[r], pulls, now)

LEMMA FedLater ==
  ASSUME NEW P, NEW s, NEW sec, NEW since \in Int, NEW from \in Int, NEW t \in Nat, NEW u \in Nat, t <= u,
         Fed(P, s, sec, since, from, t)
  PROVE  Fed(P, s, sec, since, from, u)
<1>1. /\ Held("rows", sec.log, since, from, t) => Held("rows", sec.log, since, from, u)
      /\ Held("keys", sec.keys, 0, from, t) => Held("keys", sec.keys, 0, from, u)
  <2>1. from <= from /\ t \in Int /\ u \in Int /\ "rows" \in Kinds /\ "keys" \in Kinds
    BY DEF Kinds
  <2> HIDE DEF Held
  <2> QED BY <2>1, HeldLater
<1> HIDE DEF Held
<1> QED BY <1>1 DEF Fed

LEMMA WindowsAre ==
  ASSUME NEW q, q.at \in Nat
  PROVE  LoadOf(q) \in Int /\ OldestPull(q) \in Int /\ FirstDay(q) \in Int
  BY Windows, DashboardAssumption DEF LoadOf, OldestPull, FirstDay

LEMMA PageLater ==
  ASSUME NEW q, NEW P, NEW t \in Nat, NEW u \in Nat, t <= u, PageFed(q, P, t)
  PROVE  PageFed(q, P, u)
<1>1. q.at \in Nat /\ q.at <= u
  BY DEF PageFed
<1>2. ASSUME NEW s \in Sections, Asks(q, s) PROVE Fed(P, s, q.secs[s], LoadOf(q), OldestPull(q), u)
  <2>1. Fed(P, s, q.secs[s], LoadOf(q), OldestPull(q), t)
    BY <1>2 DEF PageFed
  <2> QED BY <1>1, <2>1, WindowsAre, FedLater
<1>3. ASSUME q.pc = "done", NEW s \in Sections, NEW i \in DOMAIN q.cards[s]
      PROVE  Whole(q, s, q.cards[s][i], u)
  <2>1. Whole(q, s, q.cards[s][i], t)
    BY <1>3 DEF PageFed
  <2> QED BY <1>1, <2>1, WholeLater
<1> QED BY <1>1, <1>2, <1>3 DEF PageFed

(* The pulls that a section waits for keep their keys.                      *)
LEMMA FedKept ==
  ASSUME NEW P, NEW s, NEW sec, NEW since, NEW from, NEW t, Fed(P, s, sec, since, from, t),
         NEW Q, \A p \in sec.wait : Q[p].key = P[p].key
  PROVE  Fed(Q, s, sec, since, from, t)
<1> HIDE DEF Held
<1> QED BY DEF Fed, WaitsFor

LEMMA PageKept ==
  ASSUME NEW q, NEW P, NEW t, PageFed(q, P, t), NEW Q,
         \A s \in Sections : \A p \in q.secs[s].wait : Q[p].key = P[p].key
  PROVE  PageFed(q, Q, t)
<1>1. ASSUME NEW s \in Sections, Asks(q, s) PROVE Fed(Q, s, q.secs[s], LoadOf(q), OldestPull(q), t)
  <2>1. Fed(P, s, q.secs[s], LoadOf(q), OldestPull(q), t)
    BY <1>1 DEF PageFed
  <2> QED BY <2>1, FedKept
<1> QED BY <1>1 DEF PageFed

(* What a page does to itself does nothing to the others.                   *)
Lasting(P, Q) == \A p \in Flights(P) : Q[p].key = P[p].key

LEMMA OnePageFed ==
  ASSUME DashInv, WaitInv, FedInv, NEW r \in Request, NEW q, reqs' = [reqs EXCEPT ![r] = q], now' = now,
         Lasting(pulls, pulls'), PageFed(q, pulls', now)
  PROVE  FedInv'
<1>1. ASSUME NEW x \in Request PROVE PageFed(reqs'[x], pulls', now)
  <2>1. DOMAIN reqs = Request
    BY DEF DashInv
  <2>2. CASE x = r
    BY <2>1, <2>2
  <2>3. CASE x # r
    <3>1. reqs'[x] = reqs[x]
      BY <2>1, <2>3
    <3>2. \A s \in Sections : \A p \in reqs[x].secs[s].wait : pulls'[p].key = pulls[p].key
      BY DEF WaitInv, Lasting
    <3>3. PageFed(reqs[x], pulls, now)
      BY DEF FedInv
    <3>4. PageFed(reqs[x], pulls', now)
      BY <3>2, <3>3, PageKept
    <3> QED BY <3>1, <3>4
  <2> QED BY <2>2, <2>3
<1>2. \A x \in Request : PageFed(reqs'[x], pulls', now')
  BY <1>1
<1> QED BY <1>2 DEF FedInv

------------------------------------------------------------------------------
(* A section asks for its rows.                                             *)

(* A pull is begun where none is, and who waits, waits for his key.         *)
LEMMA SharedPullLasts ==
  ASSUME NullIsNoObject, Unbounded, NEW c, NEW key, Carrier(c), IsFiniteSet(Flights(c.pulls))
  PROVE  LET y == SharedPull(c, key) IN
         /\ Lasting(c.pulls, y.c.pulls) /\ \A p \in y.wait : y.c.pulls[p].key = key
<1> DEFINE hit == CacheGet(c.done[key[1]], key)
           kept == [c.done EXCEPT ![key[1]] = Fresh(@, key)]
           going == Going(c, key)
           p == CHOOSE q \in IF going = {} THEN Idle(c) ELSE going : TRUE
           started == IF going = {} THEN [c.pulls EXCEPT ![p] = NewPull(key)] ELSE c.pulls
           y == SharedPull(c, key)
<1>1. y = IF hit # {} THEN [c |-> c, wait |-> {}, value |-> (CHOOSE e \in hit : TRUE).value]
          ELSE [c |-> [pulls |-> started, done |-> kept], wait |-> {p}, value |-> <<>>]
  BY DEF SharedPull
<1> HIDE DEF kept, hit
<1>2. Idle(c) = PullId \ Flights(c.pulls) /\ DOMAIN c.pulls = PullId
  BY DEF Idle, Flights, Carrier, Shared
<1>3. Idle(c) # {}
  <2> SUFFICES ASSUME Idle(c) = {} PROVE FALSE
    OBVIOUS
  <2>1. PullId \in SUBSET Flights(c.pulls)
    BY <1>2
  <2> QED BY <2>1, FS_Subset DEF Unbounded
<1>4. p \in IF going = {} THEN Idle(c) ELSE going
  BY <1>3
<1>5. started[p].key = key /\ Lasting(c.pulls, started)
  <2>1. CASE going = {}
    <3>1. p \in Idle(c) /\ started = [c.pulls EXCEPT ![p] = NewPull(key)]
      BY <1>4, <2>1
    <3> HIDE DEF p, started
    <3>2. NewPull(key).key = key
      BY DEF NewPull
    <3>3. p \in PullId /\ p \notin Flights(c.pulls)
      BY <1>2, <3>1
    <3>4. started[p].key = key
      BY <1>2, <3>1, <3>2, <3>3
    <3>5. \A x \in Flights(c.pulls) : started[x].key = c.pulls[x].key
      <4>1. \A x \in Flights(c.pulls) : x \in PullId /\ x # p
        BY <3>3 DEF Flights
      <4> QED BY <1>2, <3>1, <4>1
    <3> QED BY <3>4, <3>5 DEF Lasting
  <2>2. CASE going # {}
    <3>1. p \in going /\ started = c.pulls
      BY <1>4, <2>2
    <3> HIDE DEF p, started
    <3> QED BY <3>1 DEF Going, Lasting
  <2> QED BY <2>1, <2>2
<1>6. Lasting(c.pulls, c.pulls)
  BY DEF Lasting
<1> HIDE DEF p, started
<1>7. \/ y.c.pulls = c.pulls /\ y.wait = {}
      \/ y.c.pulls = started /\ y.wait = {p}
  BY <1>1
<1> HIDE DEF y
<1>8. Lasting(c.pulls, y.c.pulls) /\ \A x \in y.wait : y.c.pulls[x].key = key
  BY <1>5, <1>6, <1>7
<1> QED BY <1>8 DEF y

LEMMA LastingOn ==
  ASSUME NEW P, NEW Q, NEW R, Lasting(P, Q), Lasting(Q, R), Flights(P) \subseteq Flights(Q)
  PROVE  Lasting(P, R)
  BY DEF Lasting

(* A section that asks is fed, by the cache or by a pull, and disturbs      *)
(* neither the pulls in flight nor the other section.                       *)
Feeding(a) == Flown(a) /\ Loaded(a.c) /\ (\A t \in Sections : Sound(a.secs[t])) /\ Lasting(pulls, a.c.pulls)

LEMMA LoadsAKey ==
  ASSUME now \in Clock, NEW c, Carrier(c), Loaded(c), NEW kind, NEW since, <<kind, since>> \in Kinds \X Int,
         <<kind, since>>[1] = kind, <<kind, since>>[2] = since
  PROVE  LET y == SharedPull(c, <<kind, since>>) IN
         /\ Loaded(y.c)
         /\ y.wait = {} => Held(kind, y.value, since, now - CacheTtl - Timeout, now)
<1> SUFFICES ASSUME NEW key, key = <<kind, since>>
             PROVE  /\ Loaded(SharedPull(c, key).c)
                    /\ SharedPull(c, key).wait = {}
                         => Held(kind, SharedPull(c, key).value, since, now - CacheTtl - Timeout, now)
  OBVIOUS
<1>1. key \in Kinds \X Int /\ key[1] = kind /\ key[2] = since
  OBVIOUS
<1> HIDE DEF Held
<1>2. /\ Loaded(SharedPull(c, key).c)
      /\ SharedPull(c, key).wait = {}
           => Held(key[1], SharedPull(c, key).value, key[2], now - CacheTtl - Timeout, now)
  BY <1>1, SharedPullLoads
<1> QED BY <1>1, <1>2

LEMMA FetchFeeds ==
  ASSUME NullIsNoObject, Unbounded, now \in Clock, NEW a, Feeding(a), NEW s \in Sections, NEW since \in Int
  PROVE  LET b == Fetch(a, s, since) IN
         /\ Feeding(b) /\ Lasting(a.c.pulls, b.c.pulls) /\ Flights(a.c.pulls) \subseteq Flights(b.c.pulls)
         /\ \A t \in Sections : b.secs[t].top = a.secs[t].top
         /\ \A t \in Sections : t # s => b.secs[t] = a.secs[t]
         /\ On(s) => Fed(b.c.pulls, s, b.secs[s], since, now - CacheTtl - Timeout, now)
<1> DEFINE log   == SharedPull(a.c, <<"rows", since>>)
           keys  == SharedPull(log.c, <<"keys", 0>>)
           alias == IF s = "apps" THEN keys ELSE [c |-> log.c, wait |-> {}, value |-> <<>>]
           W     == log.wait \cup alias.wait
           L     == log.value
           A     == alias.value
           sec   == [a.secs[s] EXCEPT !.wait = log.wait \cup alias.wait, !.log = log.value, !.keys = alias.value]
           asked == [c |-> alias.c, secs |-> [a.secs EXCEPT ![s] = sec]]
           from  == now - CacheTtl - Timeout
           b     == Fetch(a, s, since)
<1>1. b = IF ~ On(s) \/ ~ a.secs[s].ok THEN a ELSE asked
  BY DEF Fetch
<1>2. Flown(a) /\ Carrier(a.c) /\ SectionsInv(a.secs) /\ IsFiniteSet(Flights(a.c.pulls)) /\ Loaded(a.c)
      /\ \A t \in Sections : Sound(a.secs[t])
  BY DEF Feeding, Flown
<1>3. Flown(b) /\ \A t \in Sections : Sound(b.secs[t])
  <2>1. Flown(b)
    BY <1>2, FetchFlies
  <2>2. \A t \in Sections : Sound(b.secs[t])
    BY <1>2, FetchKeeps DEF Flown
  <2> QED BY <2>1, <2>2
<1>4. Loaded(b.c)
  BY <1>2, FetchLoads
<1>5. DOMAIN a.secs = Sections /\ SectionInv(a.secs[s])
  BY <1>2 DEF SectionsInv
<1>6. CASE ~ On(s) \/ ~ a.secs[s].ok
  <2>1. b = a
    BY <1>1, <1>6
  <2>2. On(s) => a.secs[s].wait = {} /\ ~ a.secs[s].ok
    BY <1>5, <1>6 DEF SectionInv
  <2>3. Lasting(a.c.pulls, a.c.pulls)
    BY DEF Lasting
  <2>4. On(s) => Fed(a.c.pulls, s, a.secs[s], since, from, now)
    BY <2>2 DEF Fed
  <2> HIDE DEF b, from
  <2>5. Feeding(b)
    BY <2>1
  <2> QED BY <2>1, <2>3, <2>4, <2>5 DEF b, from
<1>7. CASE ~ (~ On(s) \/ ~ a.secs[s].ok)
  <2>1. /\ <<"rows", since>> \in Kinds \X Int /\ <<"rows", since>>[1] = "rows" /\ <<"rows", since>>[2] = since
        /\ <<"keys", 0>> \in Kinds \X Int /\ <<"keys", 0>>[1] = "keys" /\ <<"keys", 0>>[2] = 0
    BY DEF Kinds
  <2>2. Carrier(log.c)
    BY <1>2, SharedPullCarries
  <2>3. /\ IsFiniteSet(Flights(log.c.pulls)) /\ Flights(a.c.pulls) \subseteq Flights(log.c.pulls)
        /\ log.wait \subseteq Flights(log.c.pulls)
    BY <1>2, SharedPullFlies
  <2>4. Lasting(a.c.pulls, log.c.pulls) /\ \A p \in log.wait : log.c.pulls[p].key = <<"rows", since>>
    BY <1>2, SharedPullLasts
  <2>5. Loaded(log.c) /\ (log.wait = {} => Held("rows", L, since, from, now))
    BY <1>2, <2>1, LoadsAKey
  <2> HIDE DEF log
  <2>6. /\ IsFiniteSet(Flights(keys.c.pulls)) /\ Flights(log.c.pulls) \subseteq Flights(keys.c.pulls)
        /\ keys.wait \subseteq Flights(keys.c.pulls)
    BY <2>2, <2>3, SharedPullFlies
  <2>7. Lasting(log.c.pulls, keys.c.pulls) /\ \A p \in keys.wait : keys.c.pulls[p].key = <<"keys", 0>>
    BY <2>2, <2>3, SharedPullLasts
  <2>19. keys.wait = {} => Held("keys", keys.value, 0, from, now)
    BY <2>1, <2>2, <2>5, LoadsAKey
  <2> HIDE DEF keys
  <2>8. /\ \/ alias = keys
           \/ alias.c = log.c /\ alias.wait = {}
        /\ s = "apps" => alias = keys
    OBVIOUS
  <2>9. Lasting(log.c.pulls, log.c.pulls)
    BY DEF Lasting
  <2> HIDE DEF alias
  <2>10. /\ Lasting(log.c.pulls, alias.c.pulls) /\ Flights(log.c.pulls) \subseteq Flights(alias.c.pulls)
         /\ \A p \in alias.wait : alias.c.pulls[p].key = <<"keys", 0>>
    BY <2>6, <2>7, <2>8, <2>9
  <2>11. Lasting(a.c.pulls, alias.c.pulls) /\ Flights(a.c.pulls) \subseteq Flights(alias.c.pulls)
    BY <2>3, <2>4, <2>10, LastingOn
  <2>12. \A p \in log.wait : alias.c.pulls[p].key = <<"rows", since>>
    BY <2>3, <2>4, <2>10 DEF Lasting
  <2>20. s = "apps" /\ alias.wait = {} => Held("keys", A, 0, from, now)
    BY <2>8, <2>19
  <2>13. sec.wait = W /\ sec.log = L /\ sec.keys = A /\ sec.top = a.secs[s].top
    <3>1. DOMAIN a.secs[s] = SectionFields
      BY <1>5 DEF SectionInv
    <3> QED BY <3>1 DEF SectionFields
  <2>14. b.c = alias.c /\ b.secs = [a.secs EXCEPT ![s] = sec]
    BY <1>1, <1>7
  <2> HIDE DEF b, sec, W, L, A, from
  <2>15. Fed(alias.c.pulls, s, sec, since, from, now)
    <3>1. \A p \in W : alias.c.pulls[p].key \in {<<"rows", since>>, <<"keys", 0>>}
      BY <2>10, <2>12 DEF W
    <3>2. (\E p \in W : alias.c.pulls[p].key = <<"rows", since>>) \/ Held("rows", L, since, from, now)
      BY <2>5, <2>12 DEF W
    <3>3. s = "apps" => (\E p \in W : alias.c.pulls[p].key = <<"keys", 0>>) \/ Held("keys", A, 0, from, now)
      BY <2>10, <2>20 DEF W
    <3> HIDE DEF Held
    <3> QED BY <2>13, <3>1, <3>2, <3>3 DEF Fed, WaitsFor
  <2>16. /\ \A t \in Sections : b.secs[t].top = a.secs[t].top
         /\ \A t \in Sections : t # s => b.secs[t] = a.secs[t]
         /\ b.secs[s] = sec
    BY <1>5, <2>13, <2>14
  <2>17. Lasting(pulls, b.c.pulls)
    <3>1. Lasting(pulls, a.c.pulls) /\ Flights(pulls) \subseteq Flights(a.c.pulls)
      BY DEF Feeding, Flown
    <3> QED BY <2>11, <2>14, <3>1, LastingOn
  <2>18. Feeding(b)
    BY <1>3, <1>4, <2>17 DEF Feeding
  <2> QED BY <2>11, <2>14, <2>15, <2>16, <2>18 DEF b, from
<1> QED BY <1>6, <1>7

LEMMA BothFeed ==
  ASSUME NullIsNoObject, Unbounded, now \in Clock, NEW a, Feeding(a), NEW since \in Int,
         NEW b, b \in {a, Fetch(a, "apps", since)}, NEW d, d \in {b, Fetch(b, "users", since)}
  PROVE  LET from == now - CacheTtl - Timeout IN
         /\ Feeding(d) /\ \A t \in Sections : d.secs[t].top = a.secs[t].top
         /\ b = Fetch(a, "apps", since) /\ On("apps") => Fed(d.c.pulls, "apps", d.secs["apps"], since, from, now)
         /\ d = Fetch(b, "users", since) /\ On("users") => Fed(d.c.pulls, "users", d.secs["users"], since, from, now)
<1> DEFINE from == now - CacheTtl - Timeout
           fb == Fetch(a, "apps", since)
           fd == Fetch(b, "users", since)
<1>1. "apps" \in Sections /\ "users" \in Sections /\ "apps" # "users"
  BY DEF Sections
<1>2. /\ Feeding(fb)
      /\ \A t \in Sections : fb.secs[t].top = a.secs[t].top
      /\ On("apps") => Fed(fb.c.pulls, "apps", fb.secs["apps"], since, from, now)
  BY <1>1, FetchFeeds
<1> HIDE DEF fb
<1>3. /\ Feeding(b) /\ \A t \in Sections : b.secs[t].top = a.secs[t].top
      /\ b = fb /\ On("apps") => Fed(b.c.pulls, "apps", b.secs["apps"], since, from, now)
  BY <1>2 DEF fb
<1>4. /\ Feeding(fd) /\ Lasting(b.c.pulls, fd.c.pulls)
      /\ \A t \in Sections : fd.secs[t].top = b.secs[t].top
      /\ \A t \in Sections : t # "users" => fd.secs[t] = b.secs[t]
      /\ On("users") => Fed(fd.c.pulls, "users", fd.secs["users"], since, from, now)
  BY <1>1, <1>3, FetchFeeds
<1>5. Lasting(b.c.pulls, b.c.pulls)
  BY DEF Lasting
<1> HIDE DEF fd, from
<1>6. d \in {b, fd}
  BY DEF fd
<1>7. /\ Feeding(d) /\ Lasting(b.c.pulls, d.c.pulls)
      /\ \A t \in Sections : d.secs[t].top = b.secs[t].top
      /\ d.secs["apps"] = b.secs["apps"]
      /\ d = fd /\ On("users") => Fed(d.c.pulls, "users", d.secs["users"], since, from, now)
  BY <1>1, <1>3, <1>4, <1>5, <1>6
<1>8. b.secs["apps"].wait \subseteq Flights(b.c.pulls)
  BY <1>1, <1>3 DEF Feeding, Flown
<1>9. \A p \in b.secs["apps"].wait : d.c.pulls[p].key = b.c.pulls[p].key
  BY <1>7, <1>8 DEF Lasting
<1>10. b = fb /\ On("apps") => Fed(d.c.pulls, "apps", d.secs["apps"], since, from, now)
  BY <1>3, <1>7, <1>9, FedKept
<1> QED BY <1>3, <1>7, <1>10 DEF fb, fd, from

LEMMA InFlightFeeds ==
  ASSUME DashInv, WaitInv, KeptInv, NEW r \in Request, NEW secs, SectionsInv(secs),
         \A t \in Sections : Sound(secs[t]) /\ secs[t].wait \subseteq Flights(pulls)
  PROVE  Feeding(InFlight(secs)) /\ InFlight(secs).secs = secs
<1>1. Flown(InFlight(secs)) /\ \A t \in Sections : Sound(InFlight(secs).secs[t])
  BY InFlightFlown
<1>2. Loaded(InFlight(secs).c)
  BY InFlightLoads
<1>3. InFlight(secs).c.pulls = pulls /\ InFlight(secs).secs = secs /\ Lasting(pulls, pulls)
  BY DEF InFlight, Lasting
<1> QED BY <1>1, <1>2, <1>3 DEF Feeding

------------------------------------------------------------------------------
(* The steps of a page.                                                     *)

Blank(q) == \A s \in Sections : Keyed(q.secs[s].top) /\ q.cards[s] = <<>>

LEMMA AskFed ==
  ASSUME NullIsNoObject, Unbounded, DashInv, WaitInv, KeptInv, FedInv, NEW r \in Request,
         NEW q, PageInv(q), q.pc = "totals", q.at = now, Blank(q),
         \A s \in Sections : q.secs[s].wait \subseteq Flights(pulls),
         Ask(r, LoadOf(q), q), now' = now
  PROVE  FedInv'
<1> DEFINE since == LoadOf(q)
           from == now - CacheTtl - Timeout
           a == InFlight(q.secs)
           b == Fetch(a, "apps", since)
           d == Fetch(b, "users", since)
           new == [q EXCEPT !.secs = d.secs]
<1>1. SectionsInv(q.secs) /\ \A t \in Sections : Sound(q.secs[t])
  BY DEF PageInv
<1>2. now \in Clock /\ now \in Nat
  BY DashboardAssumption DEF KeptInv
<1>3. since \in Int /\ OldestPull(q) = from
  BY <1>2, WindowsAre DEF OldestPull
<1>4. Feeding(a) /\ a.secs = q.secs
  BY <1>1, InFlightFeeds
<1>5. /\ pulls' = d.c.pulls
      /\ reqs' = [reqs EXCEPT ![r] = new]
  BY DEF Ask
<1> HIDE DEF a, since, from
<1>6. /\ Feeding(d) /\ \A t \in Sections : d.secs[t].top = a.secs[t].top
      /\ On("apps") => Fed(d.c.pulls, "apps", d.secs["apps"], since, from, now)
      /\ On("users") => Fed(d.c.pulls, "users", d.secs["users"], since, from, now)
  <2>1. b \in {a, Fetch(a, "apps", since)} /\ d \in {b, Fetch(b, "users", since)}
    OBVIOUS
  <2> HIDE DEF b, d
  <2>2. b = Fetch(a, "apps", since) /\ d = Fetch(b, "users", since)
    BY DEF b, d
  <2> QED BY <1>2, <1>3, <1>4, <2>1, <2>2, BothFeed DEF from
<1> HIDE DEF b, d
<1>7. new.secs = d.secs /\ new.pc = "totals" /\ new.at = now /\ new.cards = q.cards /\ new.dash = q.dash
  BY DEF PageInv, PageFields
<1> HIDE DEF new
<1>8. LoadOf(new) = since /\ OldestPull(new) = from
  BY <1>3, <1>7 DEF LoadOf, OldestPull, since
<1>9. \A s \in Sections : Keyed(new.secs[s].top) /\ new.cards[s] = <<>>
  BY <1>4, <1>6, <1>7 DEF Blank
<1>10. \A s \in Sections : Asks(new, s) => Fed(pulls', s, new.secs[s], LoadOf(new), OldestPull(new), now)
  <2>1. \A s \in Sections : On(s) => Fed(d.c.pulls, s, d.secs[s], since, from, now)
    BY <1>6 DEF Sections
  <2> QED BY <1>5, <1>7, <1>8, <2>1 DEF Asks
<1>11. PageFed(new, pulls', now)
  BY <1>2, <1>7, <1>9, <1>10 DEF PageFed
<1>12. Lasting(pulls, pulls')
  BY <1>5, <1>6 DEF Feeding
<1> QED BY <1>5, <1>11, <1>12, OnePageFed

LEMMA OpenFed ==
  ASSUME NullIsNoObject, Unbounded, DashInv, WaitInv, KeptInv, FedInv, NEW r \in Request, NEW llm,
         Open(r, llm)
  PROVE  FedInv'
<1> DEFINE q == [NoPage EXCEPT !.pc = "totals", !.dash = TRUE, !.at = now, !.llm = llm]
<1>1. /\ DOMAIN q = PageFields /\ q.pc = "totals" /\ q.secs = [s \in Sections |-> Section]
      /\ q.dash = TRUE /\ q.at = now /\ q.llm = llm /\ q.cards = [s \in Sections |-> <<>>]
  BY FreshPage DEF PageFields, NoPage
<1>2. /\ IF llm THEN Ask(r, LoadSince(TRUE, now), q)
         ELSE reqs' = [reqs EXCEPT ![r] = q] /\ UNCHANGED <<pulls, done>>
      /\ now' = now
  BY DEF Open
<1> HIDE DEF q
<1>3. PageInv(q) /\ \A s \in Sections : q.secs[s].wait \subseteq Flights(pulls)
  BY <1>1, FreshSection DEF PageInv, SectionsInv
<1>4. Blank(q)
  <2>1. \A s \in Sections : q.secs[s].top = <<>> /\ q.cards[s] = <<>>
    BY <1>1 DEF Section
  <2> QED BY <2>1 DEF Blank, Keyed
<1>5. CASE llm
  <2>1. LoadOf(q) = LoadSince(TRUE, now)
    BY <1>1 DEF LoadOf
  <2> QED BY <1>1, <1>2, <1>3, <1>4, <1>5, <2>1, AskFed
<1>6. CASE ~ llm
  <2>1. now \in Nat /\ now <= now
    BY DashboardAssumption DEF KeptInv
  <2>2. PageFed(q, pulls', now)
    BY <1>1, <1>4, <1>6, <2>1 DEF PageFed, Asks, Blank
  <2>3. Lasting(pulls, pulls')
    BY <1>2, <1>6 DEF Lasting
  <2> QED BY <1>2, <1>6, <2>2, <2>3, OnePageFed
<1> QED BY <1>5, <1>6

LEMMA OpenCardFed ==
  ASSUME DashInv, WaitInv, KeptInv, FedInv, NEW r \in Request, NEW s \in Sections, NEW x \in Int, NEW llm,
         OpenCard(r, s, x, llm)
  PROVE  FedInv'
<1> DEFINE top == <<[key |-> x, active |-> 0, llmKey |-> x]>>
           secs == [NoPage.secs EXCEPT ![s].top = top]
           q == [NoPage EXCEPT !.pc = "counts", !.at = now, !.llm = llm, !.secs = secs]
<1>1. reqs' = [reqs EXCEPT ![r] = q] /\ pulls' = pulls /\ now' = now
  BY DEF OpenCard
<1>2. Keyed(top) /\ Keyed(<<>>)
  BY DEF Keyed
<1> HIDE DEF top
<1>3. \A t \in Sections : Keyed(secs[t].top)
  <2>1. \A t \in Sections : secs[t].top \in {top, <<>>}
    BY FreshPage DEF Section
  <2> QED BY <1>2, <2>1
<1> HIDE DEF secs
<1>4. q.secs = secs /\ q.pc = "counts" /\ q.at = now /\ q.cards = [t \in Sections |-> <<>>]
  BY FreshPage DEF PageFields, NoPage
<1> HIDE DEF q
<1>5. now \in Nat /\ now <= now
  BY DashboardAssumption DEF KeptInv
<1>6. PageFed(q, pulls', now)
  BY <1>3, <1>4, <1>5 DEF PageFed, Asks
<1>7. Lasting(pulls, pulls')
  BY <1>1 DEF Lasting
<1> QED BY <1>1, <1>6, <1>7, OnePageFed

(* The totals of what a section holds can be ranked by.                     *)
LEMMA HeldTotals ==
  ASSUME NEW value, NEW since, NEW from, NEW t, Held("rows", value, since, from, t), NEW key, NEW rank
  PROVE  AllMeasured(AllTotals(value, key, rank))
<1> DEFINE within == {i \in DOMAIN value : UsageDay(value[i].at) >= rank /\ key[i] # Null}
           K == {key[i] : i \in within}
           of(k) == {i \in within : key[i] = k}
<1>1. IsSequence(value) /\ Weighs(value, MaxPages) /\ DOMAIN value = 1..Len(value)
  <2>1. IsSequence(value) /\ Weighs(value, MaxPages)
    BY DEF Held
  <2> QED BY <2>1, SequencesGrow
<1>2. AllTotals(value, key, rank) = [k \in K |-> Total(value, of(k))]
  BY DEF AllTotals
<1>3. \A k \in K : of(k) \in SUBSET (1..Len(value))
  BY <1>1
<1> HIDE DEF K, of
<1>4. \A k \in K : Measured(Total(value, of(k)))
  BY <1>1, <1>3, WeighedTotals
<1> QED BY <1>2, <1>4 DEF AllMeasured

(* The steps that ask for nothing.                                          *)
LEMMA LookFed ==
  ASSUME DashInv, WaitInv, FedInv, NEW r \in Request, NEW q, reqs' = [reqs EXCEPT ![r] = q],
         pulls' = pulls, now' = now, PageFed(q, pulls, now)
  PROVE  FedInv'
<1>1. Lasting(pulls, pulls') /\ PageFed(q, pulls', now)
  BY DEF Lasting
<1> QED BY <1>1, OnePageFed

LEMMA TotalsArriveFed ==
  ASSUME DashInv, WaitInv, FedInv, NEW r \in Request, TotalsArrive(r)
  PROVE  FedInv'
<1> DEFINE q == reqs[r]
           T(s) == IF q.llm /\ On(s) /\ q.secs[s].ok
                   THEN SectionTotals(s, q.secs[s], RankSince(r)) ELSE <<>>
           totals == [s \in Sections |-> T(s)]
           secs == [s \in Sections |-> [q.secs[s] EXCEPT !.log = <<>>, !.keys = <<>>]]
           warning == \E s \in Sections : ~ q.secs[s].ok
           new == [q EXCEPT !.pc = "rank", !.totals = totals, !.secs = secs, !.warning = warning]
<1>1. reqs' = [reqs EXCEPT ![r] = new] /\ pulls' = pulls /\ now' = now
      /\ q.pc = "totals" /\ \A s \in Sections : q.secs[s].wait = {}
  BY DEF TotalsArrive, Waiting
<1>2. PageInv(q) /\ PageFed(q, pulls, now)
  BY DEF DashInv, FedInv
<1>3. ASSUME NEW s \in Sections PROVE AllMeasured(T(s))
  <2>1. CASE q.llm /\ On(s) /\ q.secs[s].ok
    <3>1. Asks(q, s)
      BY <1>1, <2>1 DEF Asks
    <3>2. Fed(pulls, s, q.secs[s], LoadOf(q), OldestPull(q), now)
      BY <1>2, <3>1 DEF PageFed
    <3>3. Held("rows", q.secs[s].log, LoadOf(q), OldestPull(q), now)
      <4> HIDE DEF Held
      <4> QED BY <1>1, <2>1, <3>2 DEF Fed, WaitsFor
    <3> HIDE DEF q, Held
    <3>5. AllMeasured(SectionTotals(s, q.secs[s], RankSince(r)))
      BY <3>3, HeldTotals DEF SectionTotals
    <3> QED BY <2>1, <3>5
  <2>2. CASE ~ (q.llm /\ On(s) /\ q.secs[s].ok)
    BY <2>2 DEF AllMeasured
  <2> QED BY <2>1, <2>2
<1> HIDE DEF T
<1>4. \A s \in Sections : AllMeasured(totals[s])
  BY <1>3
<1> HIDE DEF totals, warning
<1>5. \A s \in Sections : secs[s].top = q.secs[s].top
  <2> HIDE DEF q
  <2> QED BY <1>2 DEF PageInv, SectionsInv, SectionInv, SectionFields
<1> HIDE DEF secs
<1>6. new.pc = "rank" /\ new.totals = totals /\ new.secs = secs /\ new.at = q.at /\ new.cards = q.cards
  BY <1>2 DEF PageInv, PageFields
<1> HIDE DEF new, q
<1>7. PageFed(new, pulls, now)
  BY <1>1, <1>2, <1>4, <1>5, <1>6 DEF PageFed, Asks
<1> QED BY <1>1, <1>7, LookFed

(* Who is ranked has the overlay of his own key.                            *)
LEMMA RankedAreKeyed ==
  ASSUME NEW ents, NEW n, Candidates(ents, n), NEW totals, AllMeasured(totals)
  PROVE  Keyed(RankByActivity(ents, TopLimit, totals))
<1> DEFINE top == RankByActivity(ents, TopLimit, totals)
           l == IF n < TopLimit THEN n ELSE TopLimit
<1>1. TopLimit \in Nat
  BY DashboardAssumption
<1>2. PICK h : Ranking(top, h, l, ents, n, totals)
  BY <1>1, Ranked
<1> HIDE DEF top, l
<1>3. ASSUME NEW k \in DOMAIN top PROVE top[k].llmKey = top[k].key /\ top[k].key \in Int
  <2>1. k \in 1..l /\ l \in Nat /\ l <= n /\ h \in [1..n -> 1..n] /\ top[k] = ents[h[k]] /\ n \in Nat
    BY <1>2 DEF Ranking, Sorts, Candidates
  <2>2. k \in 1..n
    BY <2>1
  <2> QED BY <2>1, <2>2 DEF Candidates
<1> QED BY <1>3 DEF Keyed, top

LEMMA RankFed ==
  ASSUME DashInv, WaitInv, RowsInv, FedInv, NEW r \in Request, Rank(r)
  PROVE  FedInv'
<1> DEFINE q == reqs[r]
           top(s) == IF s = "apps" THEN TopAppsByActivity(rows, RankSince(r), TopLimit, q.totals[s])
                     ELSE TopUsersByActivity(rows, users, RankSince(r), TopLimit, q.totals[s])
           secs == [s \in Sections |-> [q.secs[s] EXCEPT !.top = top(s)]]
           new == [q EXCEPT !.pc = "counts", !.totals = NoPage.totals, !.secs = secs]
<1>1. reqs' = [reqs EXCEPT ![r] = new] /\ pulls' = pulls /\ now' = now /\ q.pc = "rank"
  BY DEF Rank
<1>2. PageInv(q) /\ PageFed(q, pulls, now)
  BY DEF DashInv, FedInv
<1>3. ASSUME NEW s \in Sections PROVE Keyed(top(s))
  <2> DEFINE since == RankSince(r)
             apps == Active(rows, since, "app_key")
             ents == Active(rows, since, "user_id")
             live == Existing(ents, users)
  <2>1. AllMeasured(q.totals[s])
    BY <1>1, <1>2 DEF PageFed
  <2>2. \E n : Candidates(apps, n)
    BY ActiveIs
  <2>3. \E n, K : Candidates(ents, n) /\ Once(ents, n, K)
    BY ActiveIs
  <2> HIDE DEF apps, ents, since, q
  <2>4. \E n : Candidates(live, n)
    BY <2>3, ExistingAre
  <2> HIDE DEF live
  <2>5. /\ Keyed(RankByActivity(apps, TopLimit, q.totals[s]))
        /\ Keyed(RankByActivity(live, TopLimit, q.totals[s]))
    BY <2>1, <2>2, <2>4, RankedAreKeyed
  <2>6. top(s) \in {RankByActivity(apps, TopLimit, q.totals[s]), RankByActivity(live, TopLimit, q.totals[s])}
    BY DEF TopAppsByActivity, TopUsersByActivity, apps, ents, live, since
  <2> HIDE DEF top
  <2> QED BY <2>5, <2>6
<1> HIDE DEF top
<1>4. \A s \in Sections : Keyed(secs[s].top)
  <2> HIDE DEF q
  <2>1. \A s \in Sections : secs[s].top = top(s)
    BY <1>2 DEF PageInv, SectionsInv, SectionInv, SectionFields
  <2> QED BY <1>3, <2>1
<1> HIDE DEF secs
<1>5. new.pc = "counts" /\ new.secs = secs /\ new.at = q.at /\ new.cards = q.cards
  BY <1>2 DEF PageInv, PageFields
<1> HIDE DEF new, q
<1>6. PageFed(new, pulls, now)
  BY <1>1, <1>2, <1>4, <1>5 DEF PageFed, Asks
<1> QED BY <1>1, <1>6, LookFed

LEMMA FedEarlier ==
  ASSUME NEW P, NEW s, NEW sec, NEW since \in Int, NEW from \in Int, NEW before \in Int, before <= from,
         NEW t \in Nat, Fed(P, s, sec, since, from, t)
  PROVE  Fed(P, s, sec, since, before, t)
<1>1. /\ Held("rows", sec.log, since, from, t) => Held("rows", sec.log, since, before, t)
      /\ Held("keys", sec.keys, 0, from, t) => Held("keys", sec.keys, 0, before, t)
  <2>1. t <= t /\ t \in Int /\ "rows" \in Kinds /\ "keys" \in Kinds
    BY DEF Kinds
  <2> HIDE DEF Held
  <2> QED BY <2>1, HeldLater
<1> HIDE DEF Held
<1> QED BY <1>1 DEF Fed

LEMMA CountsFed ==
  ASSUME NullIsNoObject, Unbounded, DashInv, WaitInv, KeptInv, FedInv, NEW r \in Request, Counts(r)
  PROVE  FedInv'
<1> DEFINE q == reqs[r]
           cards(s) == [i \in DOMAIN q.secs[s].top |->
                          DailyCounts(rows, By(s), q.secs[s].top[i].key, HeatSince(r))]
           counted == [s \in Sections |-> [q.secs[s] EXCEPT !.counts = cards(s)]]
           Asked(x, s) == IF q.secs[s].top = <<>> THEN x ELSE Fetch(x, s, LoadSince(q.dash, q.at))
           a0 == InFlight(counted)
           a1 == Asked(a0, "apps")
           a2 == Asked(a1, "users")
           secs == IF q.llm THEN a2.secs ELSE counted
           new == [q EXCEPT !.pc = "overlay", !.secs = secs]
           since == LoadOf(q)
           from == now - CacheTtl - Timeout
           empty(s) == q.secs[s].top = <<>>
<1>1. /\ reqs' = [reqs EXCEPT ![r] = new]
      /\ pulls' = IF q.llm THEN a2.c.pulls ELSE pulls
      /\ q.pc = "counts"
  BY ZenonT(60) DEF Counts
<1>21. now' = now
  BY ZenonT(60) DEF Counts
<1>2. /\ PageInv(q) /\ PageFed(q, pulls, now)
      /\ \A s \in Sections : q.secs[s].wait \subseteq Flights(pulls)
  BY DEF DashInv, FedInv, WaitInv
<1>3. now \in Clock /\ now \in Nat /\ q.at \in Nat /\ q.at <= now
  BY <1>2, DashboardAssumption DEF KeptInv, PageFed
<1>4. since \in Int /\ from \in Int /\ OldestPull(q) \in Int /\ OldestPull(q) <= from
  <2>1. since \in Int /\ OldestPull(q) \in Int
    BY <1>3, WindowsAre
  <2>2. from \in Int /\ OldestPull(q) <= from
    <3> HIDE DEF q
    <3> QED BY <1>3, DashboardAssumption DEF OldestPull
  <2> QED BY <2>1, <2>2
<1> HIDE DEF cards
<1>5. /\ SectionsInv(counted)
      /\ \A t \in Sections : /\ Sound(counted[t]) /\ counted[t].wait \subseteq Flights(pulls)
                             /\ counted[t].top = q.secs[t].top
  <2> HIDE DEF q
  <2> QED BY <1>1, <1>2 DEF PageInv, SectionsInv, SectionInv, SectionFields, Sound
<1>6. \A s \in Sections : Keyed(q.secs[s].top) /\ q.cards[s] = <<>>
  BY <1>1, <1>2 DEF PageFed
<1>7. a1 = IF empty("apps") THEN a0 ELSE Fetch(a0, "apps", since)
  BY DEF LoadOf
<1>8. a2 = IF empty("users") THEN a1 ELSE Fetch(a1, "users", since)
  BY DEF LoadOf
<1> HIDE DEF counted, a1, a2
<1>9. Feeding(a0) /\ a0.secs = counted
  BY <1>5, InFlightFeeds
<1> HIDE DEF a0, since, from
<1>10. /\ Feeding(a2) /\ \A t \in Sections : a2.secs[t].top = a0.secs[t].top
       /\ a1 = Fetch(a0, "apps", since) /\ On("apps") => Fed(a2.c.pulls, "apps", a2.secs["apps"], since, from, now)
       /\ a2 = Fetch(a1, "users", since) /\ On("users") => Fed(a2.c.pulls, "users", a2.secs["users"], since, from, now)
  <2>1. a1 \in {a0, Fetch(a0, "apps", since)} /\ a2 \in {a1, Fetch(a1, "users", since)}
    BY <1>7, <1>8
  <2> QED BY <1>3, <1>4, <1>9, <2>1, BothFeed DEF from
<1>11. \A s \in Sections : On(s) /\ ~ empty(s) => Fed(a2.c.pulls, s, a2.secs[s], since, OldestPull(q), now)
  <2>1. \A s \in Sections : On(s) /\ ~ empty(s) => Fed(a2.c.pulls, s, a2.secs[s], since, from, now)
    <3> HIDE DEF empty
    <3> QED BY <1>7, <1>8, <1>10 DEF Sections
  <2> HIDE DEF empty, q
  <2>2. ASSUME NEW s \in Sections, Fed(a2.c.pulls, s, a2.secs[s], since, from, now)
        PROVE  Fed(a2.c.pulls, s, a2.secs[s], since, OldestPull(q), now)
    BY <1>3, <1>4, <2>2, FedEarlier
  <2> QED BY <2>1, <2>2
<1>12. \A s \in Sections : secs[s].top = q.secs[s].top
  <2> HIDE DEF q
  <2> QED BY <1>5, <1>9, <1>10
<1>13. q.llm => secs = a2.secs /\ pulls' = a2.c.pulls
  BY <1>1
<1>14. Lasting(pulls, pulls')
  <2>1. Lasting(pulls, pulls) /\ Lasting(pulls, a2.c.pulls)
    BY <1>10 DEF Lasting, Feeding
  <2>2. pulls' \in {pulls, a2.c.pulls}
    BY <1>1
  <2> QED BY <2>1, <2>2
<1> HIDE DEF secs
<1>15. /\ new.pc = "overlay" /\ new.secs = secs /\ new.at = q.at /\ new.cards = q.cards
       /\ new.llm = q.llm /\ new.dash = q.dash
  BY <1>2 DEF PageInv, PageFields
<1> HIDE DEF new
<1>16. LoadOf(new) = since /\ OldestPull(new) = OldestPull(q)
  BY <1>15 DEF LoadOf, OldestPull, since
<1>17. \A s \in Sections : Asks(new, s) => Fed(pulls', s, new.secs[s], LoadOf(new), OldestPull(new), now)
  <2> SUFFICES ASSUME NEW s \in Sections, Asks(new, s)
               PROVE  Fed(pulls', s, new.secs[s], LoadOf(new), OldestPull(new), now)
    OBVIOUS
  <2>1. q.llm /\ On(s) /\ ~ empty(s)
    BY <1>12, <1>15 DEF Asks
  <2> HIDE DEF q, empty
  <2>2. Fed(a2.c.pulls, s, a2.secs[s], since, OldestPull(q), now)
    BY <1>11, <2>1
  <2> QED BY <1>13, <1>15, <1>16, <2>1, <2>2
<1>18. \A s \in Sections : Keyed(new.secs[s].top) /\ new.cards[s] = <<>>
  <2> HIDE DEF q
  <2> QED BY <1>6, <1>12, <1>15
<1>19. new.at \in Nat /\ new.at <= now
  BY <1>3, <1>15
<1>20. PageFed(new, pulls', now)
  BY <1>15, <1>17, <1>18, <1>19 DEF PageFed
<1> HIDE DEF q
<1>22. reqs' = [reqs EXCEPT ![r] = new]
  BY <1>1
<1> QED BY <1>14, <1>20, <1>21, <1>22, OnePageFed, ZenonT(60)

(* What a card must and may show is a matter of the page's kind and instant.*)
LEMMA SameSums ==
  ASSUME NEW q, NEW new, new.at = q.at, new.dash = q.dash
  PROVE  /\ LoadOf(new) = LoadOf(q) /\ OldestPull(new) = OldestPull(q)
         /\ \A t : Quietly(new, t) <=> Quietly(q, t)
         /\ \A s, k, t : Least(new, s, k, t) = Least(q, s, k, t) /\ Most(new, s, k, t) = Most(q, s, k, t)
<1>1. LoadOf(new) = LoadOf(q) /\ OldestPull(new) = OldestPull(q) /\ FirstDay(new) = FirstDay(q)
  BY DEF LoadOf, OldestPull, FirstDay
<1>2. \A t : (Quietly(new, t) <=> Quietly(q, t)) /\ SureKeys(new, t) = SureKeys(q, t)
  BY <1>1 DEF Quietly, SureKeys
<1>3. ASSUME NEW s, NEW k, NEW t
      PROVE  MustShow(new, s, k, t) = MustShow(q, s, k, t) /\ MayShow(new, s, k, t) = MayShow(q, s, k, t)
  BY <1>1, <1>2 DEF MustShow, MayShow
<1> QED BY <1>1, <1>2, <1>3 DEF Least, Most

LEMMA RenderFed ==
  ASSUME NullIsNoObject, DashInv, WaitInv, KeptInv, FedInv, NEW r \in Request, Render(r)
  PROVE  FedInv'
<1> DEFINE q == reqs[r]
           cards == [s \in Sections |-> Cards(r, s)]
           secs == [s \in Sections |-> [Section EXCEPT !.fails = q.secs[s].fails]]
           warning == q.warning \/ \E s \in Sections : ~ q.secs[s].ok
           new == [q EXCEPT !.pc = "done", !.cards = cards, !.secs = secs, !.warning = warning]
<1>1. reqs' = [reqs EXCEPT ![r] = new] /\ pulls' = pulls /\ now' = now
      /\ q.pc = "overlay" /\ \A s \in Sections : q.secs[s].wait = {}
  BY DEF Render, Waiting
<1>2. PageInv(q) /\ PageFed(q, pulls, now) /\ now \in Nat /\ q.at \in Nat /\ q.at <= now
  BY DashboardAssumption DEF DashInv, FedInv, KeptInv, PageFed
<1>3. ASSUME NEW s \in Sections, NEW i \in DOMAIN cards[s]
      PROVE  LET card == cards[s][i]  x == ShownOf(card.llm) IN
             /\ card.key # Null /\ x \in Nat
             /\ Quietly(q, now) => x <= Most(q, s, card.key, now)
             /\ q.llm /\ On(s) /\ q.secs[s].ok => Least(q, s, card.key, now) <= x
  <2> DEFINE sec == q.secs[s]
             card == cards[s][i]
             k == card.key
             K == Range(sec.keys)
             daily == Daily(r, s, i)
  <2>1. /\ i \in DOMAIN sec.top /\ k = sec.top[i].key
        /\ card.llm = LlmScore(daily, RankSince(r), FirstDay(q))
    <3> DEFINE top == sec.top
    <3>1. cards[s] = Cards(r, s)
      OBVIOUS
    <3>2. DOMAIN Cards(r, s) = DOMAIN top
      BY ZenonT(60) DEF Cards
    <3>3. Cards(r, s)[i].key = top[i].key
      BY <1>3, <3>1, <3>2, ZenonT(60) DEF Cards
    <3>4. Cards(r, s)[i].llm = LlmScore(daily, RankSince(r), HeatSince(r))
      BY <1>3, <3>1, <3>2, ZenonT(60) DEF Cards
    <3>5. HeatSince(r) = FirstDay(q)
      BY DEF HeatSince, FirstDay
    <3> HIDE DEF cards, q, daily
    <3> QED BY <1>3, <3>1, <3>2, <3>3, <3>4, <3>5
  <2>2. sec.top[i].llmKey = k /\ k \in Int
    BY <1>2, <2>1 DEF PageFed, Keyed
  <2>5. k # Null
    BY <2>2, ActivityAssumption
  <2>3. CASE q.llm /\ On(s) /\ sec.ok
    <3>1. Asks(q, s)
      BY <1>1, <2>1, <2>3 DEF Asks
    <3>2. Held("rows", sec.log, LoadOf(q), OldestPull(q), now) /\ HasKeys(q, s, sec.keys, now)
      <4>1. Fed(pulls, s, sec, LoadOf(q), OldestPull(q), now) /\ sec.wait = {}
        BY <1>1, <1>2, <3>1 DEF PageFed
      <4> HIDE DEF sec, Held
      <4> QED BY <2>3, <4>1 DEF Fed, WaitsFor, HasKeys
    <3>3. daily = FetchDaily(sec.log, MineIn(s, sec.log, K, k), FirstDay(q))
      BY <2>2, <2>3 DEF Daily, MineIn, HeatSince, FirstDay
    <3>4. card.llm = OverlayOf(q, s, sec.log, K, k, RankSince(r))
      <4> HIDE DEF card, daily, q, k, sec, K
      <4> QED BY <2>1, <3>3 DEF OverlayOf
    <3>5. LET x == ShownOf(OverlayOf(q, s, sec.log, K, k, RankSince(r))) IN
          x \in Nat /\ Least(q, s, k, now) <= x /\ (Quietly(q, now) => x <= Most(q, s, k, now))
      <4> HIDE DEF card, daily, q, k, sec, Held, HasKeys
      <4> QED BY <1>2, <2>5, <3>2, OverlayIsWhole
    <3> HIDE DEF cards, q
    <3> QED BY <2>5, <3>4, <3>5
  <2>4. CASE ~ (q.llm /\ On(s) /\ sec.ok)
    <3>1. daily = Null
      BY <2>4 DEF Daily
    <3>2. ShownOf(card.llm) = 0
      BY <2>1, <3>1 DEF LlmScore, ShownOf
    <3>3. Most(q, s, k, now) \in Nat
      <4>1. now <= now
        BY <1>2
      <4> QED BY <1>2, <4>1, MostGrows
    <3> HIDE DEF cards, q
    <3> QED BY <2>4, <2>5, <3>2, <3>3
  <2> QED BY <2>3, <2>4
<1> HIDE DEF cards
<1>4. \A s \in Sections : secs[s].top = <<>>
  BY DEF Section
<1> HIDE DEF secs
<1>5. /\ new.pc = "done" /\ new.secs = secs /\ new.cards = cards /\ new.warning = warning
      /\ new.at = q.at /\ new.llm = q.llm /\ new.dash = q.dash
  BY <1>2 DEF PageInv, PageFields
<1>6. ~ warning => \A s \in Sections : q.secs[s].ok
  OBVIOUS
<1> HIDE DEF new, q, warning
<1>7. /\ Quietly(new, now) <=> Quietly(q, now)
      /\ \A s, k : Least(new, s, k, now) = Least(q, s, k, now) /\ Most(new, s, k, now) = Most(q, s, k, now)
  BY <1>5, SameSums
<1>8. ASSUME NEW s \in Sections, NEW i \in DOMAIN new.cards[s] PROVE Whole(new, s, new.cards[s][i], now)
  <2> DEFINE card == cards[s][i]
             x == ShownOf(card.llm)
             least == Least(q, s, card.key, now)
             most == Most(q, s, card.key, now)
  <2>1. new.cards[s][i] = card /\ i \in DOMAIN cards[s]
    BY <1>5, <1>8
  <2>2. card.key # Null /\ x \in Nat /\ (Quietly(q, now) => x <= most)
        /\ (q.llm /\ On(s) /\ q.secs[s].ok => least <= x)
    BY <1>3, <2>1
  <2>3. Least(new, s, card.key, now) = least /\ Most(new, s, card.key, now) = most
    BY <1>7
  <2> HIDE DEF card
  <2>4. x >= least <=> least <= x
    OBVIOUS
  <2> HIDE DEF x, least, most
  <2>5. q.llm /\ On(s) /\ ~ warning => x >= least
    BY <1>6, <2>2, <2>4
  <2> QED BY <1>5, <1>7, <2>1, <2>2, <2>3, <2>5 DEF Whole, x
<1>9. PageFed(new, pulls, now)
  <2>1. \A s \in Sections : Keyed(new.secs[s].top)
    BY <1>4, <1>5 DEF Keyed
  <2> QED BY <1>2, <1>5, <1>8, <2>1 DEF PageFed, Asks
<1> QED BY <1>1, <1>9, LookFed

------------------------------------------------------------------------------
(* A pull is answered.                                                      *)

Reads(p, ok, value) ==
  ok => Held(pulls[p].key[1], value, pulls[p].key[2], now - Timeout, now)

(* A section that hears of a pull has its rows and keys, or waits for those *)
(* that are still in flight, or is down.                                    *)
LEMMA HeardFed ==
  ASSUME NEW p \in PullId, NEW ok \in BOOLEAN, NEW value, Reads(p, ok, value), NEW s, NEW sec, SectionInv(sec),
         now \in Nat, NEW since \in Int, NEW from \in Int, from <= now - Timeout,
         Fed(pulls, s, sec, since, from, now), NEW P, \A x \in sec.wait : x # p => P[x].key = pulls[x].key
  PROVE  Fed(P, s, Heard(sec, p, ok, value), since, from, now)
<1> DEFINE log == IF pulls[p].key[1] = "rows" THEN value ELSE sec.log
           keys == IF pulls[p].key[1] = "keys" THEN value ELSE sec.keys
           heard == Heard(sec, p, ok, value)
           R == <<"rows", since>>
           Q == <<"keys", 0>>
<1>1. heard = IF p \notin sec.wait THEN sec
              ELSE IF ~ ok THEN [sec EXCEPT !.wait = {}, !.ok = FALSE, !.fails = sec.fails + 1]
              ELSE [sec EXCEPT !.wait = sec.wait \ {p}, !.log = log, !.keys = keys]
  BY DEF Heard
<1> HIDE DEF log, keys, heard
<1>2. DOMAIN sec = SectionFields
  BY DEF SectionInv
<1>3. CASE p \notin sec.wait
  <2>1. heard = sec /\ \A x \in sec.wait : P[x].key = pulls[x].key
    BY <1>1, <1>3
  <2> QED BY <2>1, FedKept DEF heard
<1>4. CASE p \in sec.wait /\ ~ ok
  <2>1. heard.wait = {} /\ heard.ok = FALSE
    BY <1>1, <1>2, <1>4 DEF SectionFields
  <2> QED BY <2>1 DEF Fed, heard
<1>5. CASE p \in sec.wait /\ ok
  <2>1. heard.wait = sec.wait \ {p} /\ heard.ok = sec.ok /\ heard.log = log /\ heard.keys = keys
    BY <1>1, <1>2, <1>5 DEF SectionFields
  <2>2. /\ \A x \in sec.wait : pulls[x].key \in {R, Q}
        /\ sec.ok => WaitsFor(pulls, sec, R) \/ Held("rows", sec.log, since, from, now)
        /\ sec.ok /\ s = "apps" => WaitsFor(pulls, sec, Q) \/ Held("keys", sec.keys, 0, from, now)
    BY DEF Fed
  <2>3. R[1] = "rows" /\ R[2] = since /\ Q[1] = "keys" /\ Q[2] = 0
    OBVIOUS
  <2> HIDE DEF R, Q
  <2>4. \A x \in heard.wait : P[x].key = pulls[x].key /\ P[x].key \in {R, Q} /\ x \in sec.wait
    BY <2>1, <2>2
  <2>5. \A kind \in Kinds : Held(kind, value, pulls[p].key[2], now - Timeout, now)
                              => Held(kind, value, pulls[p].key[2], from, now)
    <3>1. now - Timeout \in Int /\ now \in Int /\ now <= now
      BY DashboardAssumption
    <3> HIDE DEF Held
    <3> QED BY <3>1, HeldLater
  <2>6. "rows" \in Kinds /\ "keys" \in Kinds /\ "rows" # "keys"
    BY DEF Kinds
  <2>7. Held(pulls[p].key[1], value, pulls[p].key[2], now - Timeout, now)
    BY <1>5 DEF Reads
  <2> HIDE DEF Held
  <2>8. sec.ok => WaitsFor(P, heard, R) \/ Held("rows", log, since, from, now)
    <3>1. CASE pulls[p].key = R
      BY <2>3, <2>5, <2>6, <2>7, <3>1 DEF log
    <3>2. CASE pulls[p].key # R
      <4>1. log = sec.log
        <5>1. pulls[p].key = Q
          BY <1>5, <2>2, <3>2
        <5> QED BY <2>3, <2>6, <5>1 DEF log
      <4>2. WaitsFor(pulls, sec, R) => WaitsFor(P, heard, R)
        BY <2>1, <2>4, <3>2 DEF WaitsFor
      <4> QED BY <2>2, <4>1, <4>2
    <3> QED BY <3>1, <3>2
  <2>9. sec.ok /\ s = "apps" => WaitsFor(P, heard, Q) \/ Held("keys", keys, 0, from, now)
    <3>1. CASE pulls[p].key = Q
      BY <2>3, <2>5, <2>6, <2>7, <3>1 DEF keys
    <3>2. CASE pulls[p].key # Q
      <4>1. keys = sec.keys
        <5>1. pulls[p].key = R
          BY <1>5, <2>2, <3>2
        <5> QED BY <2>3, <2>6, <5>1 DEF keys
      <4>2. WaitsFor(pulls, sec, Q) => WaitsFor(P, heard, Q)
        BY <2>1, <2>4, <3>2 DEF WaitsFor
      <4> QED BY <2>2, <4>1, <4>2
    <3> QED BY <3>1, <3>2
  <2> QED BY <2>1, <2>4, <2>8, <2>9 DEF Fed, heard, R, Q
<1> QED BY <1>3, <1>4, <1>5

LEMMA SettleFed ==
  ASSUME DashInv, WaitInv, KeptInv, FedInv, NEW p \in PullId, NEW ok \in BOOLEAN, NEW value,
         Settle(p, ok, value), now' = now, Reads(p, ok, value)
  PROVE  FedInv'
<1>1. /\ pulls' = [pulls EXCEPT ![p] = Null]
      /\ reqs' = [r \in Request |->
                    [reqs[r] EXCEPT !.secs = [s \in Sections |-> Heard(reqs[r].secs[s], p, ok, value)]]]
  BY DEF Settle
<1>2. DOMAIN pulls = PullId /\ now \in Nat
  BY DashboardAssumption DEF DashInv, Shared, KeptInv
<1>3. \A x \in PullId : x # p => pulls'[x] = pulls[x]
  BY <1>1, <1>2
<1>4. ASSUME NEW r \in Request PROVE PageFed(reqs'[r], pulls', now)
  <2> DEFINE q == reqs[r]
             secs == [s \in Sections |-> Heard(q.secs[s], p, ok, value)]
             new == [q EXCEPT !.secs = secs]
  <2>1. PageInv(q) /\ PageFed(q, pulls, now) /\ q.at \in Nat /\ q.at <= now
        /\ \A s \in Sections : q.secs[s].wait \subseteq Flights(pulls)
    BY DEF DashInv, FedInv, WaitInv, PageFed
  <2>2. LoadOf(q) \in Int /\ OldestPull(q) \in Int /\ OldestPull(q) <= now - Timeout
    <3>1. LoadOf(q) \in Int /\ OldestPull(q) \in Int
      BY <2>1, WindowsAre
    <3>2. OldestPull(q) <= now - Timeout
      <4> HIDE DEF q
      <4> QED BY <1>2, <2>1, DashboardAssumption DEF OldestPull
    <3> QED BY <3>1, <3>2
  <2>3. reqs'[r] = new
    BY <1>1
  <2> HIDE DEF q
  <2>4. ASSUME NEW s \in Sections, Fed(pulls, s, q.secs[s], LoadOf(q), OldestPull(q), now)
        PROVE  Fed(pulls', s, secs[s], LoadOf(q), OldestPull(q), now)
    <3>1. SectionInv(q.secs[s]) /\ \A x \in q.secs[s].wait : x # p => pulls'[x].key = pulls[x].key
      BY <1>3, <2>1 DEF PageInv, SectionsInv, Flights
    <3>2. secs[s] = Heard(q.secs[s], p, ok, value)
      OBVIOUS
    <3> HIDE DEF secs
    <3> QED BY <1>2, <2>2, <2>4, <3>1, <3>2, HeardFed
  <2>5. \A s \in Sections : secs[s].top = q.secs[s].top
    <3> SUFFICES ASSUME NEW s \in Sections PROVE Heard(q.secs[s], p, ok, value).top = q.secs[s].top
      OBVIOUS
    <3> DEFINE sec == q.secs[s]
    <3>1. DOMAIN sec = SectionFields
      BY <2>1 DEF PageInv, SectionsInv, SectionInv
    <3> HIDE DEF sec
    <3>2. Heard(sec, p, ok, value).top = sec.top
      BY <3>1 DEF Heard, SectionFields
    <3> QED BY <3>2 DEF sec
  <2> HIDE DEF secs
  <2>6. /\ new.secs = secs /\ new.pc = q.pc /\ new.at = q.at /\ new.llm = q.llm /\ new.dash = q.dash
        /\ new.cards = q.cards /\ new.totals = q.totals /\ new.warning = q.warning
    BY <2>1 DEF PageInv, PageFields
  <2> HIDE DEF new
  <2>7. /\ LoadOf(new) = LoadOf(q) /\ OldestPull(new) = OldestPull(q)
        /\ Quietly(new, now) <=> Quietly(q, now)
        /\ \A s, k : Least(new, s, k, now) = Least(q, s, k, now) /\ Most(new, s, k, now) = Most(q, s, k, now)
    BY <2>6, SameSums
  <2>8. \A s \in Sections : Asks(new, s) => Asks(q, s)
    BY <2>5, <2>6 DEF Asks
  <2>9. \A s \in Sections : Asks(new, s) => Fed(pulls', s, new.secs[s], LoadOf(new), OldestPull(new), now)
    BY <2>1, <2>4, <2>6, <2>7, <2>8 DEF PageFed
  <2>10. q.pc = "done" => \A s \in Sections : \A i \in DOMAIN q.cards[s] : Whole(new, s, q.cards[s][i], now)
    <3>1. ASSUME NEW s, NEW card, Whole(q, s, card, now) PROVE Whole(new, s, card, now)
      BY <2>6, <2>7, <3>1 DEF Whole
    <3> QED BY <2>1, <2>6, <3>1 DEF PageFed
  <2>11. PageFed(new, pulls', now)
    BY <2>1, <2>5, <2>6, <2>9, <2>10 DEF PageFed
  <2> QED BY <2>3, <2>11
<1>5. \A r \in Request : PageFed(reqs'[r], pulls', now')
  BY <1>4
<1> QED BY <1>5 DEF FedInv

LEMMA AnswerReads ==
  ASSUME DashInv, KeptInv, NEW p \in PullId, Answer(p)
  PROVE  \/ \E got : GoesOn(p, got)
         \/ \E ok \in BOOLEAN : \E value : Settle(p, ok, value) /\ Reads(p, ok, value)
<1> DEFINE pull == pulls[p]
           got == Got(pull)
<1>1. pull # Null /\ now' = now
  BY DEF Answer
<1>2. CASE Fail(p)
  <2>1. Settle(p, FALSE, <<>>) /\ Reads(p, FALSE, <<>>)
    BY <1>2 DEF Fail, Reads
  <2> QED BY <2>1
<1>3. CASE Page(p)
  <2>1. /\ now <= pull.deadline
        /\ Continues(pull) => GoesOn(p, got)
        /\ ~ Continues(pull) => Settle(p, TRUE, got)
    BY <1>3, PageIs
  <2>2. PullOk(pull, now) /\ now \in Nat
    BY <1>1, DashboardAssumption DEF KeptInv, PullsOk
  <2>3. ~ Continues(pull) => Held(pull.key[1], got, pull.key[2], now - Timeout, now)
    BY <2>1, <2>2, PullEnds
  <2>4. ~ Continues(pull) => Reads(p, TRUE, got)
    BY <2>3 DEF Reads
  <2> HIDE DEF got
  <2> QED BY <2>1, <2>4
<1> QED BY <1>2, <1>3 DEF Answer

LEMMA AnswerFed ==
  ASSUME DashInv, WaitInv, KeptInv, FedInv, NEW p \in PullId, Answer(p)
  PROVE  FedInv'
<1>1. now' = now /\ pulls[p] # Null
  BY DEF Answer
<1>2. ASSUME NEW got, GoesOn(p, got) PROVE FedInv'
  <2> DEFINE more == More(pulls[p], got)
  <2>1. DOMAIN pulls = PullId /\ DOMAIN pulls[p] = PullFields
    BY <1>1 DEF DashInv, Shared
  <2>2. more.key = pulls[p].key
    BY <2>1 DEF More, PullFields
  <2>3. pulls' = [pulls EXCEPT ![p] = more] /\ reqs' = reqs
    BY <1>2 DEF GoesOn
  <2> HIDE DEF more
  <2>4. \A x \in PullId : pulls'[x].key = pulls[x].key
    BY <2>1, <2>2, <2>3
  <2>5. ASSUME NEW r \in Request PROVE PageFed(reqs[r], pulls', now)
    <3>1. \A s \in Sections : \A x \in reqs[r].secs[s].wait : pulls'[x].key = pulls[x].key
      BY <2>4 DEF WaitInv, Flights
    <3>2. PageFed(reqs[r], pulls, now)
      BY DEF FedInv
    <3> QED BY <3>1, <3>2, PageKept
  <2>6. \A r \in Request : PageFed(reqs'[r], pulls', now')
    BY <1>1, <2>3, <2>5
  <2> QED BY <2>6 DEF FedInv
<1>3. ASSUME NEW ok \in BOOLEAN, NEW value, Settle(p, ok, value), Reads(p, ok, value) PROVE FedInv'
  BY <1>1, <1>3, SettleFed
<1> QED BY <1>2, <1>3, AnswerReads

LEMMA AdvanceFed ==
  ASSUME KeptInv, FedInv, Advance
  PROVE  FedInv'
<1>1. now' \in Clock /\ now' > now /\ pulls' = pulls /\ reqs' = reqs
  BY DEF Advance
<1>2. now \in Nat /\ now' \in Nat /\ now <= now'
  BY <1>1, DashboardAssumption DEF KeptInv
<1>3. ASSUME NEW r \in Request PROVE PageFed(reqs[r], pulls, now')
  <2>1. PageFed(reqs[r], pulls, now)
    BY DEF FedInv
  <2> QED BY <1>2, <2>1, PageLater
<1>4. \A r \in Request : PageFed(reqs'[r], pulls', now')
  BY <1>1, <1>3
<1> QED BY <1>4 DEF FedInv

LEMMA FedInit == Init => FedInv
<1> SUFFICES ASSUME Init PROVE FedInv
  OBVIOUS
<1>1. now \in Nat /\ reqs = [r \in Request |-> NoPage]
  BY FirstInstant, DashboardAssumption DEF Init
<1>2. /\ NoPage.at = 0 /\ NoPage.pc = "idle" /\ NoPage.cards = [s \in Sections |-> <<>>]
      /\ \A s \in Sections : NoPage.secs[s].top = <<>>
  BY DEF NoPage, Section
<1>3. PageFed(NoPage, pulls, now)
  BY <1>1, <1>2 DEF PageFed, Asks, Keyed
<1> QED BY <1>1, <1>3 DEF FedInv

LEMMA FedNext ==
  ASSUME NullIsNoObject, Unbounded, DashInv, WaitInv, KeptInv, RowsInv, FedInv, [Next]_vars
  PROVE  FedInv'
<1> HIDE DEF DashInv, WaitInv, KeptInv, RowsInv
<1>1. CASE UNCHANGED <<now, pulls, reqs>>
  <2>1. \A r \in Request : PageFed(reqs[r], pulls, now)
    BY DEF FedInv
  <2>2. now' = now /\ pulls' = pulls /\ reqs' = reqs
    BY <1>1
  <2>3. \A r \in Request : PageFed(reqs'[r], pulls', now')
    BY <2>1, <2>2
  <2> QED BY <2>3 DEF FedInv
<1>2. CASE Advance
  BY <1>2, AdvanceFed
<1>3. ASSUME NEW u \in User, DeleteUser(u) \/ DropUsage(u) \/ \E a \in App : RecordUse(u, a)
      PROVE  FedInv'
  BY <1>1, <1>3 DEF DeleteUser, DropUsage, RecordUse
<1>4. ASSUME NEW p \in PullId, Answer(p) PROVE FedInv'
  BY <1>4, AnswerFed
<1>5. ASSUME NEW r \in Request, Serve(r) PROVE FedInv'
  BY <1>5, TotalsArriveFed, RankFed, CountsFed, RenderFed DEF Serve
<1>6. ASSUME NEW r \in Request, NEW w \in Wanted, w.of = "all", Open(r, w.llm) PROVE FedInv'
  BY <1>6, OpenFed
<1>7. ASSUME NEW r \in Request, NEW w \in Wanted, w.of \in Sections, OpenCard(r, w.of, w.key, w.llm)
      PROVE  FedInv'
  <2>1. w.key \in Int
    BY DashboardAssumption
  <2> QED BY <1>7, <2>1, OpenCardFed
<1>8. CASE UNCHANGED vars
  BY <1>1, <1>8 DEF vars
<1> QED BY <1>2, <1>3, <1>4, <1>5, <1>6, <1>7, <1>8 DEF Next

LEMMA FedShowsAll == FedInv => NoSilentLoss
<1> SUFFICES ASSUME FedInv, NEW r \in Request, NEW s \in Sections, NEW i \in DOMAIN reqs[r].cards[s]
             PROVE  LET q == reqs[r]  card == q.cards[s][i]
                        least == SumOf([j \in Needed(q, s, card.key) |-> Log[j].spend])
                        most  == SumOf([j \in Allowed(q, s, card.key) |-> Log[j].spend])
                        shown == IF card.llm = Null THEN 0 ELSE card.llm.full.spend
                    IN /\ q.llm /\ On(s) /\ ~ q.warning => shown >= least
                       /\ StoodStill(q) => shown <= most
  BY DEF NoSilentLoss
<1> DEFINE q == reqs[r]
           card == q.cards[s][i]
           k == card.key
<1>1. PageFed(q, pulls, now)
  BY DEF FedInv
<1>2. q.pc = "done"
  BY <1>1 DEF PageFed
<1>3. Whole(q, s, card, now)
  BY <1>1, <1>2 DEF PageFed
<1>4. Needed(q, s, k) = MustShow(q, s, k, now) /\ Allowed(q, s, k) = MayShow(q, s, k, now)
  BY DEF Needed, MustShow, Allowed, MayShow, LoadOf, FirstDay, SureKeys
<1>5. StoodStill(q) => Quietly(q, now)
  BY DEF StoodStill, Quietly, Stood, LoadOf, Entry, Source
<1> DEFINE shown == IF card.llm = Null THEN 0 ELSE card.llm.full.spend
           least == SumOf([j \in Needed(q, s, k) |-> Log[j].spend])
           most == SumOf([j \in Allowed(q, s, k) |-> Log[j].spend])
<1>6. shown = ShownOf(card.llm)
  BY DEF ShownOf
<1>7. least = Least(q, s, k, now) /\ most = Most(q, s, k, now)
  BY <1>4 DEF Least, Most
<1>8. /\ q.llm /\ On(s) /\ ~ q.warning => ShownOf(card.llm) >= Least(q, s, k, now)
      /\ Quietly(q, now) => ShownOf(card.llm) <= Most(q, s, k, now)
  BY <1>3 DEF Whole
<1>9. (q.llm /\ On(s) /\ ~ q.warning => shown >= least) /\ (StoodStill(q) => shown <= most)
  <2> HIDE DEF shown, least, most, q, card, k
  <2> QED BY <1>5, <1>6, <1>7, <1>8
<1> QED BY <1>9

(* admin.ts: "A proxy failure degrades to activity-only with an inline      *)
(* warning".  Whatever pulls fail, time out, are shared or come from the    *)
(* cache, in whatever order the proxy lists its rows and keys and however   *)
(* they grow between two pages, a page without a warning counts on every    *)
(* card each row that those pulls were sure to read, of a key that they     *)
(* were sure to read; and unless rows came meanwhile, no more than there is.*)
THEOREM NothingIsLostSilently ==
  ASSUME NullIsNoObject, Unbounded
  PROVE  Spec => []NoSilentLoss
<1>1. WaitInv /\ DashInv /\ [Next]_vars => WaitInv'
  BY WaitNext
<1>2. DashInv /\ WaitInv /\ KeptInv /\ RowsInv /\ FedInv /\ [Next]_vars => FedInv'
  BY FedNext
<1> QED BY <1>1, <1>2, WaitInit, FedInit, FedShowsAll, DashboardInvariant, KeptInvariant, RowsInvariant, PTL DEF Spec
=============================================================================
