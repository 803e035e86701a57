------------------------------ MODULE Gateway -------------------------------
(***************************************************************************)
(* The ForwardAuth hot path: a request to an app asks /gateway/verify       *)
(* (src/src/routes/gateway.ts) after loadUser (src/src/middleware/auth.ts), *)
(* and both read the registry through three in-process TTL caches           *)
(* (src/src/decide.ts, src/src/ttl-cache.ts): users, apps and decisions.    *)
(* The administrators' handlers of module Registry run at the same time and *)
(* evict entries at the end of their programs.                              *)
(*                                                                          *)
(* A cache fill is three steps - the look-up that misses, the store's read, *)
(* the write to the cache - and a handler may change the store and evict    *)
(* between any two of them.                                                 *)
(***************************************************************************)
EXTENDS Registry, Integers

CONSTANTS
  Request,      \* verify requests that may be in flight at once
  UserTtl,      \* config.userCacheTtlMs, in ticks
  AppTtl,       \* config.appCacheTtlMs
  DecisionTtl,  \* config.decisionCacheTtlMs
  MaxRequest,   \* ticks a request may take, from its arrival to its response
  MaxTime,      \* bound of the clock
  SameProcess,  \* server-all.ts: the handlers evict from these caches;
                \* FALSE: server-gateway.ts, the verifier in a process of its own
  Serial        \* no handler runs while a request does

ASSUME GatewayAssumption ==
  /\ UserTtl \in Nat \ {0}
  /\ AppTtl \in Nat \ {0}
  /\ DecisionTtl \in Nat \ {0}
  /\ MaxRequest \in Nat
  /\ MaxTime \in Nat
  /\ SameProcess \in BOOLEAN
  /\ Serial \in BOOLEAN

VARIABLES
  now,            \* Date.now()
  userCache,      \* userCache[u]: Null, or a value and the time it was set
  appCache,       \* appCache[a]
  decisionCache,  \* decisionCache[u, a]
  reqs,           \* the requests in flight
  response,       \* the response this step gave, if it gave one
  \* History: the last time each fact an access rests on was true in the store.
  lastEntitled,   \* [u, a]: u active, without a deny, with an allow, for a
  lastEligible,   \* [u, k, a]: u active, without a deny for a, holding role k
  lastActive,     \* [u]: u active
  lastGranting,   \* [k, a]: role k grants a
  lastServing,    \* [a, s]: a active, with proxy secret s
  lastOpen        \* [a]: a active, its public paths open the requests' path

caches  == <<userCache, appCache, decisionCache>>
history == <<lastEntitled, lastEligible, lastActive, lastGranting, lastServing, lastOpen>>
gvars   == <<rvars, now, caches, reqs, response, history>>

Entry(value) == [value |-> value, at |-> now]

(* A mutant of Live: an entry of exactly the TTL's age is still returned.   *)
LiveOneTickMore(entry, ttl) == entry # Null /\ now - entry.at <= ttl

(* ttlCache.get: an entry is returned until its age reaches the TTL.        *)
Live(entry, ttl) == entry # Null /\ now - entry.at < ttl

------------------------------------------------------------------------------
(* The facts, of a document.                                                *)

Entitled(user, a) ==
  ActiveUser(user) /\ ~ HasOverride(user, a, "deny") /\ HasOverride(user, a, "allow")
Eligible(user, k, a) ==
  ActiveUser(user) /\ ~ HasOverride(user, a, "deny") /\ k \in user.roles
Granting(role, a) == role # Null /\ a \in role.grants
Serving(app, s)   == ActiveApp(app) /\ app.secret = s
Open(app)         == ActiveApp(app) /\ app.public

(* Every step notes the facts that are true when it ends.                   *)
Observe ==
  /\ lastEntitled' = [x \in User \X AppKey |->
       IF Entitled(users'[x[1]], x[2]) THEN now' ELSE lastEntitled[x]]
  /\ lastEligible' = [x \in User \X RoleKey \X AppKey |->
       IF Eligible(users'[x[1]], x[2], x[3]) THEN now' ELSE lastEligible[x]]
  /\ lastActive' = [u \in User |-> IF ActiveUser(users'[u]) THEN now' ELSE lastActive[u]]
  /\ lastGranting' = [x \in RoleKey \X AppKey |->
       IF Granting(roles'[x[1]], x[2]) THEN now' ELSE lastGranting[x]]
  /\ lastServing' = [x \in AppKey \X Secret |->
       IF Serving(apps'[x[1]], x[2]) THEN now' ELSE lastServing[x]]
  /\ lastOpen' = [a \in AppKey |-> IF Open(apps'[a]) THEN now' ELSE lastOpen[a]]

------------------------------------------------------------------------------
(* A request in flight: where it is, whose session and which app it is for, *)
(* when it arrived, the document the store just returned (doc), req.user,   *)
(* the app verify resolved, the app decide resolved (dapp) and the roles it *)
(* found to grant it (unread: Null).  phase tells the two look-ups of the   *)
(* app apart.  quiet is history: no handler was in flight when the request  *)
(* arrived.                                                                 *)

NoRequest == [pc |-> "idle", phase |-> "verify", u |-> Null, a |-> Null, started |-> 0,
              doc |-> Null, user |-> Null, app |-> Null, dapp |-> Null, granting |-> Null,
              quiet |-> FALSE]
NoResponse == [verdict |-> "none", reason |-> "none", u |-> Null, a |-> Null, secret |-> Null,
               started |-> 0, at |-> 0, quiet |-> FALSE]

Step(r, pc) == reqs[r].pc = pc
Become(r, req) == reqs' = [reqs EXCEPT ![r] = req]
NoAnswer       == response' = NoResponse

(* The session's user asks for app a.  touchSession reads the session: with *)
(* none the request goes on without a user.  (Its expiry is module          *)
(* Sessions.)                                                               *)
Arrive(r, u, a) ==
  /\ Step(r, "idle")
  /\ Serial => Quiet
  /\ Become(r, [NoRequest EXCEPT !.pc = IF u \in sessions THEN "user" ELSE "app",
                                 !.u = u, !.a = a, !.started = now, !.quiet = Quiet])
  /\ NoAnswer /\ UNCHANGED <<rvars, now, caches>>

(* loadUser attaches the user only when it is active.                       *)
Attach(req, user) ==
  [req EXCEPT !.pc = "app", !.user = IF ActiveUser(user) THEN user ELSE Null, !.doc = Null]

(* A mutant of LookupUser: a hit starts the entry's TTL again.              *)
LookupUserSliding(r) ==
  LET u == reqs[r].u  hit == userCache[u] IN
  /\ Step(r, "user")
  /\ IF Live(hit, UserTtl)
     THEN Become(r, Attach(reqs[r], hit.value))
          /\ userCache' = [userCache EXCEPT ![u] = Entry(hit.value)]
     ELSE Become(r, [reqs[r] EXCEPT !.pc = "userRead"])
          /\ userCache' = [userCache EXCEPT ![u] = Null]
  /\ NoAnswer /\ UNCHANGED <<rvars, now, appCache, decisionCache>>

(* userCached: get, and on a miss the store's read and the set.             *)
LookupUser(r) ==
  LET u == reqs[r].u  hit == userCache[u] IN
  /\ Step(r, "user")
  /\ IF Live(hit, UserTtl)
     THEN Become(r, Attach(reqs[r], hit.value)) /\ UNCHANGED userCache
     ELSE Become(r, [reqs[r] EXCEPT !.pc = "userRead"])
          /\ userCache' = [userCache EXCEPT ![u] = Null]
  /\ NoAnswer /\ UNCHANGED <<rvars, now, appCache, decisionCache>>

ReadUser(r) ==
  /\ Step(r, "userRead")
  /\ Become(r, [reqs[r] EXCEPT !.pc = "userFill", !.doc = users[reqs[r].u]])
  /\ NoAnswer /\ UNCHANGED <<rvars, now, caches>>

FillUser(r) ==
  /\ Step(r, "userFill")
  /\ userCache' = [userCache EXCEPT ![reqs[r].u] = Entry(reqs[r].doc)]
  /\ Become(r, Attach(reqs[r], reqs[r].doc))
  /\ NoAnswer /\ UNCHANGED <<rvars, now, appCache, decisionCache>>

(* appCached, called by verify and again by decide: where the document goes.*)
Resolve(req, app) ==
  IF req.phase = "verify" THEN [req EXCEPT !.pc = "ready", !.app = app, !.doc = Null]
                          ELSE [req EXCEPT !.pc = "ready", !.dapp = app, !.doc = Null]

LookApp(req) ==
  IF Live(appCache[req.a], AppTtl) THEN Resolve(req, appCache[req.a].value)
                                   ELSE [req EXCEPT !.pc = "appRead"]
ExpireApp(a) ==
  appCache' = [appCache EXCEPT ![a] = IF Live(@, AppTtl) THEN @ ELSE Null]

LookupApp(r) ==
  /\ Step(r, "app")
  /\ Become(r, LookApp(reqs[r]))
  /\ ExpireApp(reqs[r].a)
  /\ NoAnswer /\ UNCHANGED <<rvars, now, userCache, decisionCache>>

ReadApp(r) ==
  /\ Step(r, "appRead")
  /\ Become(r, [reqs[r] EXCEPT !.pc = "appFill", !.doc = apps[reqs[r].a]])
  /\ NoAnswer /\ UNCHANGED <<rvars, now, caches>>

FillApp(r) ==
  /\ Step(r, "appFill")
  /\ appCache' = [appCache EXCEPT ![reqs[r].a] = Entry(reqs[r].doc)]
  /\ Become(r, Resolve(reqs[r], reqs[r].doc))
  /\ NoAnswer /\ UNCHANGED <<rvars, now, userCache, decisionCache>>

------------------------------------------------------------------------------
(* The verdict.  With `allowed` go the identity headers and the secret of   *)
(* the app document resolved first.                                         *)

Respond(r, verdict, reason) ==
  /\ response' = [verdict |-> verdict, reason |-> reason, u |-> reqs[r].u, a |-> reqs[r].a,
                  secret |-> IF verdict = "allowed" THEN reqs[r].app.secret ELSE Null,
                  started |-> reqs[r].started, at |-> now, quiet |-> reqs[r].quiet]
  /\ Become(r, NoRequest)

RespondDecision(r, reason) ==
  Respond(r, IF Allowed(reason) THEN "allowed" ELSE "forbidden", reason)

(* verify once its app is resolved, up to the first await of decide, which  *)
(* looks the app up again and asks for the roles.                           *)
Verify(r) ==
  LET req == reqs[r]  key == <<req.u, req.a>>  hit == decisionCache[key] IN
  /\ Step(r, "ready") /\ req.phase = "verify"
  /\ UNCHANGED <<rvars, now, userCache>>
  /\ \/ /\ ~ ActiveApp(req.app)
        /\ Respond(r, "unknown_app", "none")
        /\ UNCHANGED <<appCache, decisionCache>>
     \/ /\ ActiveApp(req.app) /\ req.app.public
        /\ Respond(r, "public", "none")
        /\ UNCHANGED <<appCache, decisionCache>>
     \/ /\ ActiveApp(req.app) /\ ~ req.app.public /\ req.user = Null
        /\ Respond(r, "unauthenticated", "none")
        /\ UNCHANGED <<appCache, decisionCache>>
     \/ /\ ActiveApp(req.app) /\ ~ req.app.public /\ req.user # Null
        /\ IF Live(hit, DecisionTtl)
           THEN /\ RespondDecision(r, hit.value)
                /\ UNCHANGED <<appCache, decisionCache>>
           ELSE /\ decisionCache' = [decisionCache EXCEPT ![key] = Null]
                /\ Become(r, LookApp([req EXCEPT !.phase = "decide"]))
                /\ ExpireApp(req.a)
                /\ NoAnswer

(* decide's roles.find, awaited together with its app look-up.              *)
ReadRoles(r) ==
  /\ reqs[r].pc # "idle" /\ reqs[r].phase = "decide" /\ reqs[r].granting = Null
  /\ Become(r, [reqs[r] EXCEPT !.granting = GrantingRoles(reqs[r].user, reqs[r].a, roles)])
  /\ NoAnswer /\ UNCHANGED <<rvars, now, caches>>

(* A mutant of Decide: the verdict is cached, and not its reason.           *)
DecideCachesVerdict(r) ==
  LET req == reqs[r]
      reason == DecideFrom(req.user, req.a, req.dapp, req.granting)
  IN /\ Step(r, "ready") /\ req.phase = "decide" /\ req.granting # Null
     /\ decisionCache' = [decisionCache EXCEPT ![<<req.u, req.a>>] = 
                           Entry(IF Allowed(reason) THEN "allowed" ELSE "forbidden")]
     /\ RespondDecision(r, reason)
     /\ UNCHANGED <<rvars, now, userCache, appCache>>

(* decide has both answers: the decision is cached and answered.            *)
Decide(r) ==
  LET req == reqs[r]
      reason == DecideFrom(req.user, req.a, req.dapp, req.granting)
  IN /\ Step(r, "ready") /\ req.phase = "decide" /\ req.granting # Null
     /\ decisionCache' = [decisionCache EXCEPT ![<<req.u, req.a>>] = Entry(reason)]
     /\ RespondDecision(r, reason)
     /\ UNCHANGED <<rvars, now, userCache, appCache>>

------------------------------------------------------------------------------
(* The administrators' side.                                                *)

HandlerMayRun == Serial => \A r \in Request : reqs[r].pc = "idle"

Handler(p) ==
  /\ HandlerMayRun
  /\ StoreStep(p)
  /\ NoAnswer /\ UNCHANGED <<now, caches, reqs, torn>>

(* Mutants of the evictions: evictUser forgets the user's decisions,        *)
(* evictAll the apps.                                                       *)
EvictUserDocument(p) ==
  /\ HandlerMayRun
  /\ EvictUser(p)
  /\ userCache' = IF SameProcess THEN [userCache EXCEPT ![c(p).u] = Null] ELSE userCache
  /\ NoAnswer /\ UNCHANGED <<now, appCache, decisionCache, reqs, torn>>

EvictDecisions(p) ==
  /\ HandlerMayRun
  /\ EvictAll(p)
  /\ decisionCache' = IF SameProcess THEN [x \in User \X AppKey |-> Null] ELSE decisionCache
  /\ NoAnswer /\ UNCHANGED <<now, userCache, appCache, reqs, torn>>

(* evictUser: the user's decisions and document.                            *)
EvictUserEntries(p) ==
  /\ HandlerMayRun
  /\ EvictUser(p)
  /\ IF SameProcess
     THEN /\ decisionCache' = [x \in User \X AppKey |->
                IF x[1] = c(p).u THEN Null ELSE decisionCache[x]]
          /\ userCache' = [userCache EXCEPT ![c(p).u] = Null]
     ELSE UNCHANGED <<decisionCache, userCache>>
  /\ NoAnswer /\ UNCHANGED <<now, appCache, reqs, torn>>

(* evictAll: every decision and every app; the users stay.                  *)
EvictAllEntries(p) ==
  /\ HandlerMayRun
  /\ EvictAll(p)
  /\ IF SameProcess
     THEN /\ decisionCache' = [x \in User \X AppKey |-> Null]
          /\ appCache' = [a \in AppKey |-> Null]
     ELSE UNCHANGED <<decisionCache, appCache>>
  /\ NoAnswer /\ UNCHANGED <<now, userCache, reqs, torn>>

(* Time passes, up to the bound; a request takes MaxRequest ticks at most.  *)
Tick ==
  /\ now < MaxTime
  /\ \A r \in Request : reqs[r].pc # "idle" => now - reqs[r].started < MaxRequest
  /\ now' = now + 1
  /\ NoAnswer /\ UNCHANGED <<rvars, caches, reqs>>

(* The verifier's process stops and starts again: its caches and requests   *)
(* are gone, and when it is the portal's too, so are the handlers.          *)
Restart ==
  /\ userCache' = [u \in User |-> Null]
  /\ appCache' = [a \in AppKey |-> Null]
  /\ decisionCache' = [x \in User \X AppKey |-> Null]
  /\ reqs' = [r \in Request |-> NoRequest]
  /\ IF SameProcess THEN RestartPortal ELSE UNCHANGED rvars
  /\ NoAnswer /\ UNCHANGED now

(* The portal's process alone, when the verifier has its own.               *)
RestartWeb ==
  /\ ~ SameProcess
  /\ RestartPortal
  /\ NoAnswer /\ UNCHANGED <<now, caches, reqs>>

------------------------------------------------------------------------------
(* How stale the facts behind an answer can be, in ticks.                   *)
UserBound   == DecisionTtl + UserTtl + 2 * MaxRequest - 2
ActiveBound == UserTtl + 2 * MaxRequest - 1
RoleBound   == DecisionTtl + MaxRequest - 1
AppBound    == AppTtl + 2 * MaxRequest - 1

(* A time before every bound: the fact was never seen.                      *)
Never == -1 - UserBound - AppBound

Init ==
  /\ RInit
  /\ now = 0
  /\ userCache = [u \in User |-> Null]
  /\ appCache = [a \in AppKey |-> Null]
  /\ decisionCache = [x \in User \X AppKey |-> Null]
  /\ reqs = [r \in Request |-> NoRequest]
  /\ response = NoResponse
  /\ lastEntitled = [x \in User \X AppKey |->
       IF Entitled(users[x[1]], x[2]) THEN 0 ELSE Never]
  /\ lastEligible = [x \in User \X RoleKey \X AppKey |->
       IF Eligible(users[x[1]], x[2], x[3]) THEN 0 ELSE Never]
  /\ lastActive = [u \in User |-> IF ActiveUser(users[u]) THEN 0 ELSE Never]
  /\ lastGranting = [x \in RoleKey \X AppKey |->
       IF Granting(roles[x[1]], x[2]) THEN 0 ELSE Never]
  /\ lastServing = [x \in AppKey \X Secret |->
       IF Serving(apps[x[1]], x[2]) THEN 0 ELSE Never]
  /\ lastOpen = [a \in AppKey |-> IF Open(apps[a]) THEN 0 ELSE Never]

Next ==
  /\ \/ \E p \in Proc : Handler(p) \/ EvictUserEntries(p) \/ EvictAllEntries(p)
     \/ \E r \in Request :
          \/ \E u \in User, a \in AppKey : Arrive(r, u, a)
          \/ LookupUser(r) \/ ReadUser(r) \/ FillUser(r)
          \/ LookupApp(r) \/ ReadApp(r) \/ FillApp(r)
          \/ Verify(r) \/ ReadRoles(r) \/ Decide(r)
     \/ Tick
     \/ Restart \/ RestartWeb
  /\ Observe

Spec == Init /\ [][Next]_gvars

------------------------------------------------------------------------------
(* Properties.                                                              *)

(* Types of the verifier's state.                                           *)
UserOrNull == UserDoc \cup {Null}
AppOrNull  == AppDoc \cup {Null}
CacheEntry(values) == [value : values, at : Nat]
ReqType ==
  [pc : {"user", "userRead", "userFill", "app", "appRead", "appFill", "ready"},
   phase : {"verify", "decide"}, u : User, a : AppKey, started : Nat,
   doc : UserOrNull \cup AppOrNull, user : UserOrNull, app : AppOrNull, dapp : AppOrNull,
   granting : (SUBSET RoleKey) \cup {Null}, quiet : BOOLEAN]
ResponseType ==
  [verdict : {"unknown_app", "public", "unauthenticated", "allowed", "forbidden"},
   reason : Reason \cup {"none"}, u : User, a : AppKey, secret : Secret \cup {Null},
   started : Nat, at : Nat, quiet : BOOLEAN]

GatewayTypeOK ==
  /\ now \in Nat
  /\ userCache \in [User -> CacheEntry(UserOrNull) \cup {Null}]
  /\ appCache \in [AppKey -> CacheEntry(AppOrNull) \cup {Null}]
  /\ decisionCache \in [User \X AppKey -> CacheEntry(Reason) \cup {Null}]
  /\ reqs \in [Request -> ReqType \cup {NoRequest}]
  /\ response \in ResponseType \cup {NoResponse}
  /\ lastEntitled \in [User \X AppKey -> Int]
  /\ lastEligible \in [User \X RoleKey \X AppKey -> Int]
  /\ lastActive \in [User -> Int]
  /\ lastGranting \in [RoleKey \X AppKey -> Int]
  /\ lastServing \in [AppKey \X Secret -> Int]
  /\ lastOpen \in [AppKey -> Int]

(* The facts an allow rests on were true in the store: the user's since tu, *)
(* the role's grant since tr, the app's (with the secret handed out) since  *)
(* ta.                                                                      *)
UserJustifies(u, a, tu, tr) ==
  \/ lastEntitled[<<u, a>>] >= tu
  \/ \E k \in RoleKey : lastEligible[<<u, k, a>>] >= tu /\ lastGranting[<<k, a>>] >= tr
Justified(u, a, s, tu, tr, ta) ==
  UserJustifies(u, a, tu, tr) /\ lastServing[<<a, s>>] >= ta

Allows == response.verdict = "allowed"

(* Whatever the handlers do and wherever they are interrupted, whatever     *)
(* fills and evictions cross, and with or without evictions: a request is   *)
(* let in only when the user had an allow, or held a role that granted the  *)
(* app, and no deny, within the bounds the TTLs compose to, and the app     *)
(* doc it is served from was active with the secret handed out.             *)
AllowIsJustified ==
  Allows => Justified(response.u, response.a, response.secret,
                      response.at - UserBound, response.at - RoleBound,
                      response.at - AppBound)

(* The account itself is looked up for every request, outside the decision  *)
(* cache: its TTL does not add to the user cache's.  A disabled or deleted  *)
(* user is let in for one user TTL at most, evictions or none.              *)
DisabledWithinUserTtl ==
  Allows => lastActive[response.u] >= response.at - ActiveBound

(* An anonymous pass-through was allowed by the app's public paths.         *)
PublicIsJustified ==
  response.verdict = "public" => lastOpen[response.a] >= response.at - AppBound

(* A request that arrives when no handler is in flight is let in only on    *)
(* facts that are true then or become true before it is answered: evictUser *)
(* and evictAll make a finished change effective on the very next request.  *)
NextRequestSeesDenial ==
  Allows /\ response.quiet =>
    UserJustifies(response.u, response.a, response.started, response.started)

(* The same for the app: a request that arrives when no handler is in       *)
(* flight gets the secret and the status the app has from then on.          *)
NextRequestSeesApp ==
  Allows /\ response.quiet =>
    lastServing[<<response.a, response.secret>>] >= response.started
==============================================================================
