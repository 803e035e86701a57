---------------------------- MODULE GatewayProofs ----------------------------
(***************************************************************************)
(* Module Gateway, for every number of users, apps, requests and handlers,  *)
(* every TTL and every bound of the clock: the types, and how stale the     *)
(* facts behind an answer can be.                                           *)
(*                                                                          *)
(* The argument: a fact in the store is at most as old as now (History);    *)
(* each place a document passes through - the cache, the request, the       *)
(* cached decision - adds its own delay to the age of the facts it carries, *)
(* and the invariant GInv states the sum at every place.                    *)
(*                                                                          *)
(* Then the evictions: when requests and handlers do not overlap, what a    *)
(* handler did holds from the next request on.  Here time is no part of the *)
(* argument: a copy in a cache is true still, or a handler in flight is     *)
(* bound to evict it (AppSide, UserSide).                                   *)
(***************************************************************************)
EXTENDS Gateway, RegistryProofs

------------------------------------------------------------------------------
(* What a document, an app or a set of granting roles says was true at t.   *)

UserSince(user, u, t) ==
  /\ ActiveUser(user) => lastActive[u] >= t
  /\ \A a \in AppKey : Entitled(user, a) => lastEntitled[<<u, a>>] >= t
  /\ \A k \in RoleKey, a \in AppKey : Eligible(user, k, a) => lastEligible[<<u, k, a>>] >= t

AppSince(app, a, t) ==
  /\ \A s \in Secret : Serving(app, s) => lastServing[<<a, s>>] >= t
  /\ Open(app) => lastOpen[a] >= t

RolesSince(ks, a, t) == \A k \in ks : lastGranting[<<k, a>>] >= t

HistoryTypes ==
  /\ now \in Nat
  /\ lastEntitled \in [User \X AppKey -> Int]
  /\ lastEligible \in [User \X RoleKey \X AppKey -> Int]
  /\ lastActive \in [User -> Int]
  /\ lastGranting \in [RoleKey \X AppKey -> Int]
  /\ lastServing \in [AppKey \X Secret -> Int]
  /\ lastOpen \in [AppKey -> Int]

HistoryPast ==
  /\ \A u \in User, a \in AppKey : lastEntitled[<<u, a>>] <= now
  /\ \A u \in User, k \in RoleKey, a \in AppKey : lastEligible[<<u, k, a>>] <= now
  /\ \A u \in User : lastActive[u] <= now
  /\ \A k \in RoleKey, a \in AppKey : lastGranting[<<k, a>>] <= now
  /\ \A a \in AppKey, s \in Secret : lastServing[<<a, s>>] <= now
  /\ \A a \in AppKey : lastOpen[a] <= now

(* What the store says now is not in the past.                              *)
StoreIsNow ==
  /\ \A u \in User : UserSince(users[u], u, now)
  /\ \A a \in AppKey : AppSince(apps[a], a, now)
  /\ \A k \in RoleKey, a \in AppKey : Granting(roles[k], a) => lastGranting[<<k, a>>] >= now

History == HistoryTypes /\ HistoryPast /\ StoreIsNow

(* No step takes back what was seen.                                        *)
Grown ==
  /\ \A u \in User, a \in AppKey : lastEntitled'[<<u, a>>] >= lastEntitled[<<u, a>>]
  /\ \A u \in User, k \in RoleKey, a \in AppKey :
       lastEligible'[<<u, k, a>>] >= lastEligible[<<u, k, a>>]
  /\ \A u \in User : lastActive'[u] >= lastActive[u]
  /\ \A k \in RoleKey, a \in AppKey : lastGranting'[<<k, a>>] >= lastGranting[<<k, a>>]
  /\ \A a \in AppKey, s \in Secret : lastServing'[<<a, s>>] >= lastServing[<<a, s>>]
  /\ \A a \in AppKey : lastOpen'[a] >= lastOpen[a]

(* Time does not go back, and the step notes what it leaves true.           *)
LEMMA HistoryKept ==
  ASSUME History, Observe, now' \in Nat, now' >= now
  PROVE  History' /\ Grown
<1>1. HistoryTypes /\ HistoryPast
  BY DEF History
<1>2. HistoryTypes'
  <2>1. lastEntitled' \in [User \X AppKey -> Int]
    BY <1>1 DEF Observe, HistoryTypes
  <2>2. lastEligible' \in [User \X RoleKey \X AppKey -> Int]
    BY <1>1 DEF Observe, HistoryTypes
  <2>3. lastActive' \in [User -> Int]
    BY <1>1 DEF Observe, HistoryTypes
  <2>4. lastGranting' \in [RoleKey \X AppKey -> Int]
    BY <1>1 DEF Observe, HistoryTypes
  <2>5. lastServing' \in [AppKey \X Secret -> Int]
    BY <1>1 DEF Observe, HistoryTypes
  <2>6. lastOpen' \in [AppKey -> Int]
    BY <1>1 DEF Observe, HistoryTypes
  <2> QED BY <2>1, <2>2, <2>3, <2>4, <2>5, <2>6 DEF HistoryTypes
<1>3. \A u \in User, a \in AppKey :
        /\ lastEntitled'[<<u, a>>] = IF Entitled(users'[u], a) THEN now' ELSE lastEntitled[<<u, a>>]
        /\ lastEntitled[<<u, a>>] \in Int
  BY <1>1 DEF Observe, HistoryTypes
<1>4. \A u \in User, k \in RoleKey, a \in AppKey :
        /\ lastEligible'[<<u, k, a>>] =
             IF Eligible(users'[u], k, a) THEN now' ELSE lastEligible[<<u, k, a>>]
        /\ lastEligible[<<u, k, a>>] \in Int
  BY <1>1 DEF Observe, HistoryTypes
<1>5. \A u \in User :
        /\ lastActive'[u] = IF ActiveUser(users'[u]) THEN now' ELSE lastActive[u]
        /\ lastActive[u] \in Int
  BY <1>1 DEF Observe, HistoryTypes
<1>6. \A k \in RoleKey, a \in AppKey :
        /\ lastGranting'[<<k, a>>] = IF Granting(roles'[k], a) THEN now' ELSE lastGranting[<<k, a>>]
        /\ lastGranting[<<k, a>>] \in Int
  BY <1>1 DEF Observe, HistoryTypes
<1>7. \A a \in AppKey, s \in Secret :
        /\ lastServing'[<<a, s>>] = IF Serving(apps'[a], s) THEN now' ELSE lastServing[<<a, s>>]
        /\ lastServing[<<a, s>>] \in Int
  BY <1>1 DEF Observe, HistoryTypes
<1>8. \A a \in AppKey :
        /\ lastOpen'[a] = IF Open(apps'[a]) THEN now' ELSE lastOpen[a]
        /\ lastOpen[a] \in Int
  BY <1>1 DEF Observe, HistoryTypes
<1>9. now \in Int /\ now' \in Int
  BY <1>1 DEF HistoryTypes
<1>10. Grown
  BY <1>1, <1>3, <1>4, <1>5, <1>6, <1>7, <1>8, <1>9 DEF HistoryPast, Grown
<1>11. HistoryPast'
  BY <1>1, <1>3, <1>4, <1>5, <1>6, <1>7, <1>8, <1>9 DEF HistoryPast
<1>12. StoreIsNow'
  <2>1. \A u \in User : UserSince(users[u], u, now)'
    BY <1>3, <1>4, <1>5, <1>9 DEF UserSince
  <2>2. \A a \in AppKey : AppSince(apps[a], a, now)'
    BY <1>7, <1>8, <1>9 DEF AppSince
  <2> QED BY <1>6, <1>9, <2>1, <2>2 DEF StoreIsNow
<1> QED BY <1>2, <1>10, <1>11, <1>12 DEF History

------------------------------------------------------------------------------
(* How old the facts in each place are.                                     *)

(* A document was read at most MaxRequest before it was cached.             *)
UserEntryOK(e, u) ==
  e # Null => /\ e \in CacheEntry(UserOrNull) /\ e.at <= now
              /\ UserSince(e.value, u, e.at - MaxRequest)
AppEntryOK(e, a) ==
  e # Null => /\ e \in CacheEntry(AppOrNull) /\ e.at <= now
              /\ AppSince(e.value, a, e.at - MaxRequest)

(* A decision was taken by a request that had looked its user up, perhaps   *)
(* in the cache, and read the roles itself.                                 *)
DecidedSince(reason, u, a, t) ==
  Allowed(reason) => UserJustifies(u, a, t - UserTtl - 2 * MaxRequest + 1, t - MaxRequest)
DecisionEntryOK(e, u, a) ==
  e # Null => /\ e \in CacheEntry(Reason) /\ e.at <= now
              /\ DecidedSince(e.value, u, a, e.at)

(* What a request has in hand: a document it read itself was read after it  *)
(* arrived, one it found in a cache was still alive then.                   *)
ReqOK(req) ==
  req # NoRequest =>
    /\ req \in ReqType
    /\ req.started <= now /\ now <= req.started + MaxRequest
    /\ req.pc \in {"user", "userRead", "userFill"} => req.phase = "verify" /\ req.granting = Null
    /\ req.pc = "userFill" => req.doc \in UserOrNull /\ UserSince(req.doc, req.u, req.started)
    /\ req.pc = "appFill"  => req.doc \in AppOrNull /\ AppSince(req.doc, req.a, req.started)
    /\ req.user # Null => /\ ActiveUser(req.user)
                          /\ UserSince(req.user, req.u, req.started - UserTtl + 1 - MaxRequest)
    /\ AppSince(req.app, req.a, req.started - AppTtl + 1 - MaxRequest)
    /\ req.phase = "decide" => req.user # Null /\ ActiveApp(req.app)
    /\ req.granting # Null => /\ req.user # Null /\ req.granting \subseteq req.user.roles
                              /\ RolesSince(req.granting, req.a, req.started)

ResponseOK(resp) ==
  resp # NoResponse =>
    /\ resp \in ResponseType
    /\ resp.verdict = "allowed" =>
         /\ resp.secret \in Secret
         /\ Justified(resp.u, resp.a, resp.secret,
                      resp.at - UserBound, resp.at - RoleBound, resp.at - AppBound)
         /\ lastActive[resp.u] >= resp.at - ActiveBound
    /\ resp.verdict = "public" => lastOpen[resp.a] >= resp.at - AppBound

UsersOK(cache) ==
  /\ cache \in [User -> CacheEntry(UserOrNull) \cup {Null}]
  /\ \A u \in User : UserEntryOK(cache[u], u)
AppsOK(cache) ==
  /\ cache \in [AppKey -> CacheEntry(AppOrNull) \cup {Null}]
  /\ \A a \in AppKey : AppEntryOK(cache[a], a)
DecisionsOK(cache) ==
  /\ cache \in [User \X AppKey -> CacheEntry(Reason) \cup {Null}]
  /\ \A u \in User, a \in AppKey : DecisionEntryOK(cache[<<u, a>>], u, a)
CachesOK == UsersOK(userCache) /\ AppsOK(appCache) /\ DecisionsOK(decisionCache)

ReqsOK ==
  /\ reqs \in [Request -> ReqType \cup {NoRequest}]
  /\ \A r \in Request : ReqOK(reqs[r])

GInv == RInv /\ History /\ CachesOK /\ ReqsOK /\ ResponseOK(response)

------------------------------------------------------------------------------
(* What is justified stays justified: the histories only grow.              *)

LEMMA UserSinceKept ==
  ASSUME Grown, HistoryTypes, HistoryTypes', NEW user, NEW u \in User, NEW t \in Int,
         UserSince(user, u, t)
  PROVE  UserSince(user, u, t)'
<1>1. ActiveUser(user) => lastActive'[u] >= t
  BY DEF UserSince, Grown, HistoryTypes
<1>2. \A a \in AppKey : Entitled(user, a) => lastEntitled'[<<u, a>>] >= t
  BY DEF UserSince, Grown, HistoryTypes
<1>3. \A k \in RoleKey, a \in AppKey : Eligible(user, k, a) => lastEligible'[<<u, k, a>>] >= t
  BY DEF UserSince, Grown, HistoryTypes
<1> QED BY <1>1, <1>2, <1>3 DEF UserSince

LEMMA AppSinceKept ==
  ASSUME Grown, HistoryTypes, HistoryTypes', NEW app, NEW a \in AppKey, NEW t \in Int,
         AppSince(app, a, t)
  PROVE  AppSince(app, a, t)'
BY DEF AppSince, Grown, HistoryTypes

LEMMA RolesSinceKept ==
  ASSUME Grown, HistoryTypes, HistoryTypes', NEW ks \in SUBSET RoleKey, NEW a \in AppKey,
         NEW t \in Int, RolesSince(ks, a, t)
  PROVE  RolesSince(ks, a, t)'
BY DEF RolesSince, Grown, HistoryTypes

LEMMA UserJustifiesKept ==
  ASSUME Grown, HistoryTypes, HistoryTypes', NEW u \in User, NEW a \in AppKey,
         NEW tu \in Int, NEW tr \in Int, UserJustifies(u, a, tu, tr)
  PROVE  UserJustifies(u, a, tu, tr)'
<1>1. CASE lastEntitled[<<u, a>>] >= tu
  <2>1. lastEntitled'[<<u, a>>] >= tu
    BY <1>1 DEF Grown, HistoryTypes
  <2> QED BY <2>1 DEF UserJustifies
<1>2. CASE \E k \in RoleKey : lastEligible[<<u, k, a>>] >= tu /\ lastGranting[<<k, a>>] >= tr
  <2>1. PICK k \in RoleKey : lastEligible[<<u, k, a>>] >= tu /\ lastGranting[<<k, a>>] >= tr
    BY <1>2
  <2>2. lastEligible'[<<u, k, a>>] >= tu /\ lastGranting'[<<k, a>>] >= tr
    BY <2>1 DEF Grown, HistoryTypes
  <2> QED BY <2>2 DEF UserJustifies
<1> QED BY <1>1, <1>2 DEF UserJustifies

(* A later time asks for more.                                              *)
LEMMA UserSinceEarlier ==
  ASSUME HistoryTypes, NEW user, NEW u \in User, NEW t \in Int, NEW t2 \in Int, t2 <= t,
         UserSince(user, u, t)
  PROVE  UserSince(user, u, t2)
BY DEF UserSince, HistoryTypes

LEMMA AppSinceEarlier ==
  ASSUME HistoryTypes, NEW app, NEW a \in AppKey, NEW t \in Int, NEW t2 \in Int, t2 <= t,
         AppSince(app, a, t)
  PROVE  AppSince(app, a, t2)
BY DEF AppSince, HistoryTypes

LEMMA EntriesKept ==
  ASSUME Grown, HistoryTypes, HistoryTypes', now' >= now, NEW e
  PROVE  /\ \A u \in User : UserEntryOK(e, u) => UserEntryOK(e, u)'
         /\ \A a \in AppKey : AppEntryOK(e, a) => AppEntryOK(e, a)'
         /\ \A u \in User, a \in AppKey : DecisionEntryOK(e, u, a) => DecisionEntryOK(e, u, a)'
<1>1. now \in Int /\ now' \in Int /\ MaxRequest \in Nat /\ UserTtl \in Nat
  BY GatewayAssumption DEF HistoryTypes
<1>2. ASSUME NEW u \in User, UserEntryOK(e, u) PROVE UserEntryOK(e, u)'
  <2> SUFFICES ASSUME e # Null PROVE UserEntryOK(e, u)'
    BY DEF UserEntryOK
  <2>1. e \in CacheEntry(UserOrNull) /\ e.at <= now /\ UserSince(e.value, u, e.at - MaxRequest)
    BY <1>2 DEF UserEntryOK
  <2>2. e.at \in Nat
    BY <2>1 DEF CacheEntry
  <2>3. UserSince(e.value, u, e.at - MaxRequest)'
    BY <1>1, <2>1, <2>2, UserSinceKept
  <2> QED BY <1>1, <2>1, <2>2, <2>3 DEF UserEntryOK
<1>3. ASSUME NEW a \in AppKey, AppEntryOK(e, a) PROVE AppEntryOK(e, a)'
  <2> SUFFICES ASSUME e # Null PROVE AppEntryOK(e, a)'
    BY DEF AppEntryOK
  <2>1. e \in CacheEntry(AppOrNull) /\ e.at <= now /\ AppSince(e.value, a, e.at - MaxRequest)
    BY <1>3 DEF AppEntryOK
  <2>2. e.at \in Nat
    BY <2>1 DEF CacheEntry
  <2>3. AppSince(e.value, a, e.at - MaxRequest)'
    BY <1>1, <2>1, <2>2, AppSinceKept
  <2> QED BY <1>1, <2>1, <2>2, <2>3 DEF AppEntryOK
<1>4. ASSUME NEW u \in User, NEW a \in AppKey, DecisionEntryOK(e, u, a)
      PROVE  DecisionEntryOK(e, u, a)'
  <2> SUFFICES ASSUME e # Null PROVE DecisionEntryOK(e, u, a)'
    BY DEF DecisionEntryOK
  <2>1. e \in CacheEntry(Reason) /\ e.at <= now /\ DecidedSince(e.value, u, a, e.at)
    BY <1>4 DEF DecisionEntryOK
  <2>2. e.at \in Nat
    BY <2>1 DEF CacheEntry
  <2>3. e.at - UserTtl - 2 * MaxRequest + 1 \in Int /\ e.at - MaxRequest \in Int
    BY <1>1, <2>2
  <2>4. ASSUME Allowed(e.value)
        PROVE  UserJustifies(u, a, e.at - UserTtl - 2 * MaxRequest + 1, e.at - MaxRequest)'
    BY <2>1, <2>3, <2>4, UserJustifiesKept DEF DecidedSince
  <2> QED BY <1>1, <2>1, <2>2, <2>4 DEF DecisionEntryOK, DecidedSince
<1> QED BY <1>2, <1>3, <1>4

(* A request carries on, as long as it may still take the time that passes. *)
LEMMA ReqKept ==
  ASSUME Grown, HistoryTypes, HistoryTypes', NEW req, ReqOK(req), now' >= now,
         req # NoRequest => now' <= req.started + MaxRequest
  PROVE  ReqOK(req)'
<1> SUFFICES ASSUME req # NoRequest PROVE ReqOK(req)'
  BY DEF ReqOK
<1>1. /\ now \in Int /\ now' \in Int /\ MaxRequest \in Nat /\ UserTtl \in Nat /\ AppTtl \in Nat
  BY GatewayAssumption DEF HistoryTypes
<1>2. /\ req \in ReqType /\ req.started <= now
      /\ req.pc \in {"user", "userRead", "userFill"} => req.phase = "verify" /\ req.granting = Null
      /\ req.pc = "userFill" => req.doc \in UserOrNull /\ UserSince(req.doc, req.u, req.started)
      /\ req.pc = "appFill"  => req.doc \in AppOrNull /\ AppSince(req.doc, req.a, req.started)
      /\ req.user # Null => /\ ActiveUser(req.user)
                            /\ UserSince(req.user, req.u, req.started - UserTtl + 1 - MaxRequest)
      /\ AppSince(req.app, req.a, req.started - AppTtl + 1 - MaxRequest)
      /\ req.phase = "decide" => req.user # Null /\ ActiveApp(req.app)
      /\ req.granting # Null => /\ req.user # Null /\ req.granting \subseteq req.user.roles
                                /\ RolesSince(req.granting, req.a, req.started)
  BY DEF ReqOK
<1>3. /\ req.u \in User /\ req.a \in AppKey /\ req.started \in Nat
      /\ req.granting # Null => req.granting \in SUBSET RoleKey
  BY <1>2 DEF ReqType
<1>4. /\ req.started - UserTtl + 1 - MaxRequest \in Int
      /\ req.started - AppTtl + 1 - MaxRequest \in Int
      /\ req.started \in Int
  BY <1>1, <1>3
<1>5. req.pc = "userFill" => UserSince(req.doc, req.u, req.started)'
  BY <1>2, <1>3, <1>4, UserSinceKept
<1>6. req.pc = "appFill" => AppSince(req.doc, req.a, req.started)'
  BY <1>2, <1>3, <1>4, AppSinceKept
<1>7. req.user # Null => UserSince(req.user, req.u, req.started - UserTtl + 1 - MaxRequest)'
  BY <1>2, <1>3, <1>4, UserSinceKept
<1>8. AppSince(req.app, req.a, req.started - AppTtl + 1 - MaxRequest)'
  BY <1>2, <1>3, <1>4, AppSinceKept
<1>9. req.granting # Null => RolesSince(req.granting, req.a, req.started)'
  BY <1>2, <1>3, <1>4, RolesSinceKept
<1>10. req.started <= now'
  BY <1>1, <1>2, <1>3
<1> QED BY <1>2, <1>5, <1>6, <1>7, <1>8, <1>9, <1>10 DEF ReqOK

LEMMA ResponseKept ==
  ASSUME Grown, HistoryTypes, HistoryTypes', NEW resp, ResponseOK(resp)
  PROVE  ResponseOK(resp)'
<1> SUFFICES ASSUME resp # NoResponse PROVE ResponseOK(resp)'
  BY DEF ResponseOK
<1>1. resp \in ResponseType /\ UserBound \in Int /\ RoleBound \in Int /\ AppBound \in Int
      /\ ActiveBound \in Int
  BY GatewayAssumption DEF ResponseOK, UserBound, RoleBound, AppBound, ActiveBound
<1>2. resp.u \in User /\ resp.a \in AppKey /\ resp.at \in Int
  BY <1>1 DEF ResponseType
<1>3. ASSUME resp.verdict = "allowed"
      PROVE  /\ Justified(resp.u, resp.a, resp.secret,
                          resp.at - UserBound, resp.at - RoleBound, resp.at - AppBound)'
             /\ lastActive'[resp.u] >= resp.at - ActiveBound
  <2>1. /\ UserJustifies(resp.u, resp.a, resp.at - UserBound, resp.at - RoleBound)
        /\ lastServing[<<resp.a, resp.secret>>] >= resp.at - AppBound
        /\ lastActive[resp.u] >= resp.at - ActiveBound
        /\ resp.secret \in Secret
    BY <1>3 DEF ResponseOK, Justified
  <2>2. UserJustifies(resp.u, resp.a, resp.at - UserBound, resp.at - RoleBound)'
    BY <1>1, <1>2, <2>1, UserJustifiesKept DEF UserBound, RoleBound
  <2>3. lastServing'[<<resp.a, resp.secret>>] >= resp.at - AppBound
        /\ lastActive'[resp.u] >= resp.at - ActiveBound
    BY <1>1, <1>2, <2>1 DEF Grown, HistoryTypes
  <2> QED BY <2>2, <2>3 DEF Justified, UserBound, RoleBound, AppBound
<1>4. resp.verdict = "public" => lastOpen'[resp.a] >= resp.at - AppBound
  BY <1>1, <1>2 DEF ResponseOK, Grown, HistoryTypes
<1> QED BY <1>1, <1>3, <1>4 DEF ResponseOK, UserBound, RoleBound, AppBound, ActiveBound

------------------------------------------------------------------------------
(* The caches after a set or an eviction.                                   *)

LEMMA UserSet ==
  ASSUME UsersOK(userCache), NEW u \in User, NEW e \in CacheEntry(UserOrNull) \cup {Null},
         UserEntryOK(e, u)
  PROVE  UsersOK([userCache EXCEPT ![u] = e])
BY DEF UsersOK

LEMMA AppSet ==
  ASSUME AppsOK(appCache), NEW a \in AppKey, NEW e \in CacheEntry(AppOrNull) \cup {Null},
         AppEntryOK(e, a)
  PROVE  AppsOK([appCache EXCEPT ![a] = e])
BY DEF AppsOK

LEMMA DecisionSet ==
  ASSUME DecisionsOK(decisionCache), NEW u \in User, NEW a \in AppKey,
         NEW e \in CacheEntry(Reason) \cup {Null}, DecisionEntryOK(e, u, a)
  PROVE  DecisionsOK([decisionCache EXCEPT ![<<u, a>>] = e])
<1> DEFINE new == [decisionCache EXCEPT ![<<u, a>>] = e]
<1>1. new \in [User \X AppKey -> CacheEntry(Reason) \cup {Null}]
  BY DEF DecisionsOK
<1>2. \A v \in User, b \in AppKey : DecisionEntryOK(new[<<v, b>>], v, b)
  <2> SUFFICES ASSUME NEW v \in User, NEW b \in AppKey PROVE DecisionEntryOK(new[<<v, b>>], v, b)
    OBVIOUS
  <2>1. CASE v = u /\ b = a
    BY <2>1 DEF DecisionsOK
  <2>2. CASE ~ (v = u /\ b = a)
    <3>1. <<v, b>> # <<u, a>>
      BY <2>2
    <3>2. new[<<v, b>>] = decisionCache[<<v, b>>]
      BY <3>1 DEF DecisionsOK
    <3> QED BY <3>2 DEF DecisionsOK
  <2> QED BY <2>1, <2>2
<1> QED BY <1>1, <1>2 DEF DecisionsOK

LEMMA ExpireAppOK ==
  ASSUME AppsOK(appCache), NEW a \in AppKey, ExpireApp(a)
  PROVE  AppsOK(appCache')
<1>1. CASE Live(appCache[a], AppTtl)
  <2>1. appCache' = appCache
    BY <1>1 DEF ExpireApp, AppsOK
  <2> QED BY <2>1
<1>2. CASE ~ Live(appCache[a], AppTtl)
  <2>1. appCache' = [appCache EXCEPT ![a] = Null]
    BY <1>2 DEF ExpireApp
  <2>2. AppEntryOK(Null, a)
    BY DEF AppEntryOK
  <2> QED BY <2>1, <2>2, AppSet
<1> QED BY <1>1, <1>2

(* After a step in which time stands still, or passes within the requests'  *)
(* limits, what the step leaves in every place is justified still.          *)
LEMMA StepOK ==
  ASSUME GInv, Observe, RInv', now' \in Nat, now' >= now,
         UsersOK(userCache'), AppsOK(appCache'), DecisionsOK(decisionCache'),
         reqs' \in [Request -> ReqType \cup {NoRequest}],
         \A r \in Request : /\ ReqOK(reqs'[r])
                            /\ reqs'[r] # NoRequest => now' <= reqs'[r].started + MaxRequest,
         ResponseOK(response')
  PROVE  GInv'
<1>1. History' /\ Grown /\ HistoryTypes /\ HistoryTypes'
  BY HistoryKept DEF GInv, History
<1>2. UsersOK(userCache)'
  BY <1>1, EntriesKept DEF UsersOK
<1>3. AppsOK(appCache)'
  BY <1>1, EntriesKept DEF AppsOK
<1>4. DecisionsOK(decisionCache)'
  BY <1>1, EntriesKept DEF DecisionsOK
<1>5. ReqsOK'
  BY <1>1, ReqKept DEF ReqsOK
<1>6. ResponseOK(response)'
  BY <1>1, ResponseKept
<1> QED BY <1>1, <1>2, <1>3, <1>4, <1>5, <1>6 DEF GInv, CachesOK

LEMMA RInvKept == ASSUME RInv, UNCHANGED rvars PROVE RInv'
BY DEF rvars, RInv, StoreOK, OpsOK, OpOK, Planned

LEMMA NoAnswerOK == ASSUME NoAnswer PROVE ResponseOK(response')
BY DEF NoAnswer, ResponseOK

(* The steps of a request: one request becomes another.                     *)
LEMMA RequestStep ==
  ASSUME GInv, Observe, UNCHANGED <<rvars, now>>, NEW r \in Request,
         NEW new \in ReqType \cup {NoRequest}, ReqOK(new), Become(r, new),
         UsersOK(userCache'), AppsOK(appCache'), DecisionsOK(decisionCache'),
         ResponseOK(response')
  PROVE  GInv'
<1>1. RInv'
  BY RInvKept DEF GInv
<1>2. now' = now /\ now \in Nat
  BY DEF GInv, History, HistoryTypes
<1>3. /\ reqs' \in [Request -> ReqType \cup {NoRequest}]
      /\ \A q \in Request : ReqOK(reqs'[q])
  BY DEF Become, GInv, ReqsOK
<1>4. \A q \in Request : reqs'[q] # NoRequest => now' <= reqs'[q].started + MaxRequest
  BY <1>2, <1>3 DEF ReqOK
<1> QED BY <1>1, <1>2, <1>3, <1>4, StepOK

------------------------------------------------------------------------------
(* What a request in flight has in hand.                                    *)

Timed ==
  /\ now \in Int /\ MaxRequest \in Nat
  /\ UserTtl \in Nat /\ AppTtl \in Nat /\ DecisionTtl \in Nat
  /\ UserTtl >= 1 /\ AppTtl >= 1 /\ DecisionTtl >= 1

LEMMA TimedHolds == ASSUME GInv PROVE Timed
BY GatewayAssumption DEF Timed, GInv, History, HistoryTypes

LEMMA InFlight ==
  ASSUME GInv, NEW r \in Request, reqs[r].pc # "idle"
  PROVE  /\ reqs[r] # NoRequest /\ reqs[r] \in ReqType /\ ReqOK(reqs[r])
         /\ reqs[r].u \in User /\ reqs[r].a \in AppKey /\ reqs[r].started \in Nat
         /\ reqs[r].started <= now /\ now <= reqs[r].started + MaxRequest
<1>1. reqs[r] # NoRequest /\ reqs[r] \in ReqType /\ ReqOK(reqs[r])
  BY DEF GInv, ReqsOK, NoRequest
<1> QED BY <1>1 DEF ReqOK, ReqType

(* Facts a cache returns: the entry is younger than the TTL.                *)
LEMMA UserHit ==
  ASSUME GInv, NEW u \in User, Live(userCache[u], UserTtl)
  PROVE  userCache[u].value \in UserOrNull
         /\ UserSince(userCache[u].value, u, now - UserTtl + 1 - MaxRequest)
<1> DEFINE e == userCache[u]
<1>1. e # Null /\ now - e.at < UserTtl
  BY DEF Live
<1>2. e \in CacheEntry(UserOrNull) /\ UserSince(e.value, u, e.at - MaxRequest)
  BY <1>1 DEF GInv, CachesOK, UsersOK, UserEntryOK
<1>3. e.at \in Nat /\ e.value \in UserOrNull
  BY <1>2 DEF CacheEntry
<1> HIDE DEF e
<1>4. /\ now - UserTtl + 1 - MaxRequest \in Int /\ e.at - MaxRequest \in Int
      /\ now - UserTtl + 1 - MaxRequest <= e.at - MaxRequest
  BY <1>1, <1>3, TimedHolds DEF Timed
<1>5. UserSince(e.value, u, now - UserTtl + 1 - MaxRequest)
  BY <1>2, <1>4, UserSinceEarlier DEF GInv, History
<1> QED BY <1>3, <1>5 DEF e

LEMMA AppHit ==
  ASSUME GInv, NEW a \in AppKey, Live(appCache[a], AppTtl)
  PROVE  appCache[a].value \in AppOrNull
         /\ AppSince(appCache[a].value, a, now - AppTtl + 1 - MaxRequest)
<1> DEFINE e == appCache[a]
<1>1. e # Null /\ now - e.at < AppTtl
  BY DEF Live
<1>2. e \in CacheEntry(AppOrNull) /\ AppSince(e.value, a, e.at - MaxRequest)
  BY <1>1 DEF GInv, CachesOK, AppsOK, AppEntryOK
<1>3. e.at \in Nat /\ e.value \in AppOrNull
  BY <1>2 DEF CacheEntry
<1> HIDE DEF e
<1>4. /\ now - AppTtl + 1 - MaxRequest \in Int /\ e.at - MaxRequest \in Int
      /\ now - AppTtl + 1 - MaxRequest <= e.at - MaxRequest
  BY <1>1, <1>3, TimedHolds DEF Timed
<1>5. AppSince(e.value, a, now - AppTtl + 1 - MaxRequest)
  BY <1>2, <1>4, AppSinceEarlier DEF GInv, History
<1> QED BY <1>3, <1>5 DEF e

(* A document a request read is set in the cache, at most MaxRequest later. *)
LEMMA UserFillEntry ==
  ASSUME GInv, NEW u \in User, NEW doc \in UserOrNull, NEW t \in Nat,
         now <= t + MaxRequest, UserSince(doc, u, t)
  PROVE  Entry(doc) \in CacheEntry(UserOrNull) /\ UserEntryOK(Entry(doc), u)
<1>1. now \in Nat /\ now - MaxRequest \in Int /\ now - MaxRequest <= t
  BY TimedHolds DEF Timed, GInv, History, HistoryTypes
<1>2. UserSince(doc, u, now - MaxRequest)
  BY <1>1, UserSinceEarlier DEF GInv, History
<1>3. Entry(doc) \in CacheEntry(UserOrNull) /\ Entry(doc).value = doc /\ Entry(doc).at = now
  BY <1>1 DEF Entry, CacheEntry
<1> QED BY <1>1, <1>2, <1>3 DEF UserEntryOK

LEMMA AppFillEntry ==
  ASSUME GInv, NEW a \in AppKey, NEW doc \in AppOrNull, NEW t \in Nat,
         now <= t + MaxRequest, AppSince(doc, a, t)
  PROVE  Entry(doc) \in CacheEntry(AppOrNull) /\ AppEntryOK(Entry(doc), a)
<1>1. now \in Nat /\ now - MaxRequest \in Int /\ now - MaxRequest <= t
  BY TimedHolds DEF Timed, GInv, History, HistoryTypes
<1>2. AppSince(doc, a, now - MaxRequest)
  BY <1>1, AppSinceEarlier DEF GInv, History
<1>3. Entry(doc) \in CacheEntry(AppOrNull) /\ Entry(doc).value = doc /\ Entry(doc).at = now
  BY <1>1 DEF Entry, CacheEntry
<1> QED BY <1>1, <1>2, <1>3 DEF AppEntryOK

(* The user a request attaches.                                             *)
LEMMA AttachOK ==
  ASSUME GInv, NEW req \in ReqType, ReqOK(req), req # NoRequest, NEW user \in UserOrNull,
         UserSince(user, req.u, req.started - UserTtl + 1 - MaxRequest),
         req.phase = "verify", req.granting = Null
  PROVE  Attach(req, user) \in ReqType /\ ReqOK(Attach(req, user))
<1> DEFINE new == Attach(req, user)
           att == IF ActiveUser(user) THEN user ELSE Null
<1>1. new = [req EXCEPT !.pc = "app", !.user = att, !.doc = Null]
  BY DEF Attach
<1>2. att \in UserOrNull /\ (att # Null => ActiveUser(att) /\ att = user)
  BY DEF UserOrNull
<1> HIDE DEF att
<1>3. Null \in UserOrNull
  BY DEF UserOrNull
<1>4. new \in ReqType
  BY <1>1, <1>2, <1>3 DEF ReqType
<1>5. /\ new.pc = "app" /\ new.user = att /\ new.u = req.u /\ new.a = req.a
      /\ new.started = req.started /\ new.app = req.app /\ new.phase = "verify"
      /\ new.granting = Null
  BY <1>1 DEF ReqType
<1>6. /\ req.started <= now /\ now <= req.started + MaxRequest
      /\ AppSince(req.app, req.a, req.started - AppTtl + 1 - MaxRequest)
  BY DEF ReqOK
<1> HIDE DEF new
<1>7. ReqOK(new)
  BY <1>2, <1>4, <1>5, <1>6 DEF ReqOK
<1> QED BY <1>4, <1>7 DEF new

(* The app document a request goes on with, from the cache or the store.    *)
LEMMA ResolveOK ==
  ASSUME GInv, NEW req \in ReqType, ReqOK(req), req # NoRequest, NEW app \in AppOrNull,
         AppSince(app, req.a, req.started - AppTtl + 1 - MaxRequest)
  PROVE  Resolve(req, app) \in ReqType /\ ReqOK(Resolve(req, app))
<1> DEFINE new == Resolve(req, app)
<1>1. Null \in UserOrNull \cup AppOrNull
  BY DEF UserOrNull
<1>2. /\ req.started <= now /\ now <= req.started + MaxRequest
      /\ req.user # Null => /\ ActiveUser(req.user)
                            /\ UserSince(req.user, req.u, req.started - UserTtl + 1 - MaxRequest)
      /\ AppSince(req.app, req.a, req.started - AppTtl + 1 - MaxRequest)
      /\ req.phase = "decide" => req.user # Null /\ ActiveApp(req.app)
      /\ req.granting # Null => /\ req.user # Null /\ req.granting \subseteq req.user.roles
                                /\ RolesSince(req.granting, req.a, req.started)
  BY DEF ReqOK
<1>3. CASE req.phase = "verify"
  <2>1. new = [req EXCEPT !.pc = "ready", !.app = app, !.doc = Null]
    BY <1>3 DEF Resolve
  <2>2. new \in ReqType
    BY <1>1, <2>1 DEF ReqType
  <2>3. /\ new.pc = "ready" /\ new.user = req.user /\ new.u = req.u /\ new.a = req.a
        /\ new.started = req.started /\ new.app = app /\ new.phase = "verify"
        /\ new.granting = req.granting
    BY <1>3, <2>1 DEF ReqType
  <2> HIDE DEF new
  <2>4. ReqOK(new)
    BY <1>2, <2>2, <2>3 DEF ReqOK
  <2> QED BY <2>2, <2>4 DEF new
<1>4. CASE req.phase # "verify"
  <2>1. new = [req EXCEPT !.pc = "ready", !.dapp = app, !.doc = Null]
    BY <1>4 DEF Resolve
  <2>2. new \in ReqType
    BY <1>1, <2>1 DEF ReqType
  <2>3. /\ new.pc = "ready" /\ new.user = req.user /\ new.u = req.u /\ new.a = req.a
        /\ new.started = req.started /\ new.app = req.app /\ new.phase = req.phase
        /\ new.granting = req.granting
    BY <2>1 DEF ReqType
  <2> HIDE DEF new
  <2>4. ReqOK(new)
    BY <1>2, <2>2, <2>3 DEF ReqOK
  <2> QED BY <2>2, <2>4 DEF new
<1> QED BY <1>3, <1>4

(* The look-up of the app: a hit, or a read to come.                        *)
LEMMA LookAppOK ==
  ASSUME GInv, NEW req \in ReqType, ReqOK(req), req # NoRequest
  PROVE  LookApp(req) \in ReqType /\ ReqOK(LookApp(req))
<1>1. req.a \in AppKey /\ req.started \in Nat /\ req.started <= now
  BY DEF ReqType, ReqOK
<1>2. CASE Live(appCache[req.a], AppTtl)
  <2>1. /\ appCache[req.a].value \in AppOrNull
        /\ AppSince(appCache[req.a].value, req.a, now - AppTtl + 1 - MaxRequest)
    BY <1>1, <1>2, AppHit
  <2>2. /\ now - AppTtl + 1 - MaxRequest \in Int /\ req.started - AppTtl + 1 - MaxRequest \in Int
        /\ req.started - AppTtl + 1 - MaxRequest <= now - AppTtl + 1 - MaxRequest
    BY <1>1, TimedHolds DEF Timed
  <2>3. AppSince(appCache[req.a].value, req.a, req.started - AppTtl + 1 - MaxRequest)
    BY <1>1, <2>1, <2>2, AppSinceEarlier DEF GInv, History
  <2>4. LookApp(req) = Resolve(req, appCache[req.a].value)
    BY <1>2 DEF LookApp
  <2> QED BY <2>1, <2>3, <2>4, ResolveOK
<1>3. CASE ~ Live(appCache[req.a], AppTtl)
  <2> DEFINE new == [req EXCEPT !.pc = "appRead"]
  <2>1. LookApp(req) = new
    BY <1>3 DEF LookApp
  <2>2. /\ new \in ReqType /\ new.pc = "appRead" /\ new.user = req.user /\ new.u = req.u
        /\ new.a = req.a /\ new.started = req.started /\ new.app = req.app
        /\ new.phase = req.phase /\ new.granting = req.granting
    BY DEF ReqType
  <2> HIDE DEF new
  <2>3. ReqOK(new)
    BY <2>2 DEF ReqOK
  <2> QED BY <2>1, <2>2, <2>3
<1> QED BY <1>2, <1>3

------------------------------------------------------------------------------
(* The steps of a request up to its app.                                    *)

LEMMA ArriveStep ==
  ASSUME GInv, Observe, NEW r \in Request, NEW u \in User, NEW a \in AppKey, Arrive(r, u, a)
  PROVE  GInv'
<1> DEFINE pc  == IF u \in sessions THEN "user" ELSE "app"
           new == [NoRequest EXCEPT !.pc = pc, !.u = u, !.a = a, !.started = now, !.quiet = Quiet]
<1>1. now \in Nat /\ Quiet \in BOOLEAN /\ pc \in {"user", "app"}
  BY DEF GInv, History, HistoryTypes, Quiet
<1> HIDE DEF pc
<1>2. /\ new.pc = pc /\ new.phase = "verify" /\ new.u = u /\ new.a = a /\ new.started = now
      /\ new.user = Null /\ new.app = Null /\ new.granting = Null
      /\ new \in ReqType
  BY <1>1 DEF NoRequest, ReqType, UserOrNull, AppOrNull
<1>3. AppSince(Null, a, now - AppTtl + 1 - MaxRequest)
  BY DEF AppSince, Serving, Open, ActiveApp
<1>4. Become(r, new)
  BY DEF Arrive, pc
<1> HIDE DEF new
<1>5. ReqOK(new)
  BY <1>1, <1>2, <1>3, TimedHolds DEF ReqOK, Timed
<1> QED BY <1>2, <1>4, <1>5, RequestStep, NoAnswerOK DEF Arrive, GInv, CachesOK, caches

LEMMA LookupUserStep ==
  ASSUME GInv, Observe, NEW r \in Request, LookupUser(r)
  PROVE  GInv'
<1> DEFINE u   == reqs[r].u
           hit == userCache[u]
<1>1. /\ reqs[r] # NoRequest /\ reqs[r] \in ReqType /\ ReqOK(reqs[r])
      /\ u \in User /\ reqs[r].started \in Nat /\ reqs[r].started <= now
      /\ reqs[r].pc = "user"
  BY InFlight DEF LookupUser, Step
<1>2. reqs[r].phase = "verify" /\ reqs[r].granting = Null
  BY <1>1 DEF ReqOK
<1>3. CASE Live(hit, UserTtl)
  <2>1. hit.value \in UserOrNull /\ UserSince(hit.value, u, now - UserTtl + 1 - MaxRequest)
    BY <1>1, <1>3, UserHit
  <2>2. /\ now - UserTtl + 1 - MaxRequest \in Int
        /\ reqs[r].started - UserTtl + 1 - MaxRequest \in Int
        /\ reqs[r].started - UserTtl + 1 - MaxRequest <= now - UserTtl + 1 - MaxRequest
    BY <1>1, TimedHolds DEF Timed
  <2>3. UserSince(hit.value, u, reqs[r].started - UserTtl + 1 - MaxRequest)
    BY <1>1, <2>1, <2>2, UserSinceEarlier DEF GInv, History
  <2>4. Attach(reqs[r], hit.value) \in ReqType /\ ReqOK(Attach(reqs[r], hit.value))
    BY <1>1, <1>2, <2>1, <2>3, AttachOK
  <2>5. Become(r, Attach(reqs[r], hit.value)) /\ userCache' = userCache
    BY <1>3 DEF LookupUser
  <2> QED BY <2>4, <2>5, RequestStep, NoAnswerOK DEF LookupUser, GInv, CachesOK
<1>4. CASE ~ Live(hit, UserTtl)
  <2> DEFINE new == [reqs[r] EXCEPT !.pc = "userRead"]
  <2>1. Become(r, new) /\ userCache' = [userCache EXCEPT ![u] = Null]
    BY <1>4 DEF LookupUser
  <2>2. /\ new \in ReqType /\ new.pc = "userRead" /\ new.user = reqs[r].user /\ new.u = reqs[r].u
        /\ new.a = reqs[r].a /\ new.started = reqs[r].started /\ new.app = reqs[r].app
        /\ new.phase = "verify" /\ new.granting = Null
    BY <1>1, <1>2 DEF ReqType
  <2> HIDE DEF new
  <2>3. ReqOK(new)
    BY <1>1, <1>2, <2>2 DEF ReqOK
  <2>4. UserEntryOK(Null, u)
    BY DEF UserEntryOK
  <2>5. UsersOK(userCache')
    BY <1>1, <2>1, <2>4, UserSet DEF GInv, CachesOK
  <2> QED BY <2>1, <2>2, <2>3, <2>5, RequestStep, NoAnswerOK DEF LookupUser, GInv, CachesOK
<1> QED BY <1>3, <1>4

LEMMA ReadUserStep ==
  ASSUME GInv, Observe, NEW r \in Request, ReadUser(r)
  PROVE  GInv'
<1> DEFINE doc == users[reqs[r].u]
           new == [reqs[r] EXCEPT !.pc = "userFill", !.doc = doc]
<1>1. /\ reqs[r] # NoRequest /\ reqs[r] \in ReqType /\ ReqOK(reqs[r])
      /\ reqs[r].u \in User /\ reqs[r].started \in Nat /\ reqs[r].started <= now
      /\ reqs[r].pc = "userRead"
  BY InFlight DEF ReadUser, Step
<1>2. reqs[r].phase = "verify" /\ reqs[r].granting = Null
  BY <1>1 DEF ReqOK
<1>3. doc \in UserOrNull /\ UserSince(doc, reqs[r].u, now)
  BY <1>1 DEF GInv, RInv, StoreOK, History, StoreIsNow, UserOrNull
<1>4. UserSince(doc, reqs[r].u, reqs[r].started)
  BY <1>1, <1>3, TimedHolds, UserSinceEarlier DEF GInv, History, Timed
<1> HIDE DEF doc
<1>5. /\ new \in ReqType /\ new.pc = "userFill" /\ new.doc = doc /\ new.user = reqs[r].user
      /\ new.u = reqs[r].u /\ new.a = reqs[r].a /\ new.started = reqs[r].started
      /\ new.app = reqs[r].app /\ new.phase = "verify" /\ new.granting = Null
  BY <1>1, <1>2, <1>3 DEF ReqType
<1>6. Become(r, new)
  BY DEF ReadUser, doc
<1> HIDE DEF new
<1>7. ReqOK(new)
  BY <1>1, <1>3, <1>4, <1>5 DEF ReqOK
<1> QED BY <1>5, <1>6, <1>7, RequestStep, NoAnswerOK DEF ReadUser, GInv, CachesOK, caches

LEMMA FillUserStep ==
  ASSUME GInv, Observe, NEW r \in Request, FillUser(r)
  PROVE  GInv'
<1> DEFINE u   == reqs[r].u
           doc == reqs[r].doc
<1>1. /\ reqs[r] # NoRequest /\ reqs[r] \in ReqType /\ ReqOK(reqs[r])
      /\ u \in User /\ reqs[r].started \in Nat
      /\ reqs[r].started <= now /\ now <= reqs[r].started + MaxRequest
      /\ reqs[r].pc = "userFill"
  BY InFlight DEF FillUser, Step
<1>2. /\ reqs[r].phase = "verify" /\ reqs[r].granting = Null
      /\ doc \in UserOrNull /\ UserSince(doc, u, reqs[r].started)
  BY <1>1 DEF ReqOK
<1>3. /\ reqs[r].started - UserTtl + 1 - MaxRequest \in Int
      /\ reqs[r].started - UserTtl + 1 - MaxRequest <= reqs[r].started
  BY <1>1, TimedHolds DEF Timed
<1>4. UserSince(doc, u, reqs[r].started - UserTtl + 1 - MaxRequest)
  BY <1>1, <1>2, <1>3, UserSinceEarlier DEF GInv, History
<1>5. Attach(reqs[r], doc) \in ReqType /\ ReqOK(Attach(reqs[r], doc))
  BY <1>1, <1>2, <1>4, AttachOK
<1>6. Entry(doc) \in CacheEntry(UserOrNull) /\ UserEntryOK(Entry(doc), u)
  BY <1>1, <1>2, UserFillEntry
<1>7. UsersOK(userCache')
  BY <1>1, <1>6, UserSet DEF FillUser, GInv, CachesOK
<1> QED BY <1>5, <1>7, RequestStep, NoAnswerOK DEF FillUser, GInv, CachesOK

LEMMA LookupAppStep ==
  ASSUME GInv, Observe, NEW r \in Request, LookupApp(r)
  PROVE  GInv'
<1>1. reqs[r] # NoRequest /\ reqs[r] \in ReqType /\ ReqOK(reqs[r]) /\ reqs[r].a \in AppKey
  BY InFlight DEF LookupApp, Step
<1>2. LookApp(reqs[r]) \in ReqType /\ ReqOK(LookApp(reqs[r]))
  BY <1>1, LookAppOK
<1>3. AppsOK(appCache')
  BY <1>1, ExpireAppOK DEF LookupApp, GInv, CachesOK
<1> QED BY <1>2, <1>3, RequestStep, NoAnswerOK DEF LookupApp, GInv, CachesOK

LEMMA ReadAppStep ==
  ASSUME GInv, Observe, NEW r \in Request, ReadApp(r)
  PROVE  GInv'
<1> DEFINE doc == apps[reqs[r].a]
           new == [reqs[r] EXCEPT !.pc = "appFill", !.doc = doc]
<1>1. /\ reqs[r] # NoRequest /\ reqs[r] \in ReqType /\ ReqOK(reqs[r])
      /\ reqs[r].a \in AppKey /\ reqs[r].started \in Nat /\ reqs[r].started <= now
      /\ reqs[r].pc = "appRead"
  BY InFlight DEF ReadApp, Step
<1>2. doc \in AppOrNull /\ AppSince(doc, reqs[r].a, now)
  BY <1>1 DEF GInv, RInv, StoreOK, History, StoreIsNow, AppOrNull
<1>3. AppSince(doc, reqs[r].a, reqs[r].started)
  BY <1>1, <1>2, TimedHolds, AppSinceEarlier DEF GInv, History, Timed
<1> HIDE DEF doc
<1>4. /\ new \in ReqType /\ new.pc = "appFill" /\ new.doc = doc /\ new.user = reqs[r].user
      /\ new.u = reqs[r].u /\ new.a = reqs[r].a /\ new.started = reqs[r].started
      /\ new.app = reqs[r].app /\ new.phase = reqs[r].phase /\ new.granting = reqs[r].granting
  BY <1>1, <1>2 DEF ReqType
<1>5. Become(r, new)
  BY DEF ReadApp, doc
<1> HIDE DEF new
<1>6. ReqOK(new)
  BY <1>1, <1>2, <1>3, <1>4 DEF ReqOK
<1> QED BY <1>4, <1>5, <1>6, RequestStep, NoAnswerOK DEF ReadApp, GInv, CachesOK, caches

LEMMA FillAppStep ==
  ASSUME GInv, Observe, NEW r \in Request, FillApp(r)
  PROVE  GInv'
<1> DEFINE a   == reqs[r].a
           doc == reqs[r].doc
<1>1. /\ reqs[r] # NoRequest /\ reqs[r] \in ReqType /\ ReqOK(reqs[r])
      /\ a \in AppKey /\ reqs[r].started \in Nat
      /\ reqs[r].started <= now /\ now <= reqs[r].started + MaxRequest
      /\ reqs[r].pc = "appFill"
  BY InFlight DEF FillApp, Step
<1>2. doc \in AppOrNull /\ AppSince(doc, a, reqs[r].started)
  BY <1>1 DEF ReqOK
<1>3. /\ reqs[r].started - AppTtl + 1 - MaxRequest \in Int
      /\ reqs[r].started - AppTtl + 1 - MaxRequest <= reqs[r].started
  BY <1>1, TimedHolds DEF Timed
<1>4. AppSince(doc, a, reqs[r].started - AppTtl + 1 - MaxRequest)
  BY <1>1, <1>2, <1>3, AppSinceEarlier DEF GInv, History
<1>5. Resolve(reqs[r], doc) \in ReqType /\ ReqOK(Resolve(reqs[r], doc))
  BY <1>1, <1>2, <1>4, ResolveOK
<1>6. Entry(doc) \in CacheEntry(AppOrNull) /\ AppEntryOK(Entry(doc), a)
  BY <1>1, <1>2, AppFillEntry
<1>7. AppsOK(appCache')
  BY <1>1, <1>6, AppSet DEF FillApp, GInv, CachesOK
<1> QED BY <1>5, <1>7, RequestStep, NoAnswerOK DEF FillApp, GInv, CachesOK

------------------------------------------------------------------------------
(* The verdict.                                                             *)

(* decideFrom lets nobody in but on an allow or on a role's grant, and only *)
(* an active user without a deny.                                           *)
LEMMA DecideFromJustified ==
  ASSUME NEW user, NEW a, NEW app, NEW ks, ks \subseteq user.roles,
         Allowed(DecideFrom(user, a, app, ks))
  PROVE  Entitled(user, a) \/ \E k \in ks : Eligible(user, k, a)
BY DEF DecideFrom, Allowed, Entitled, Eligible, ActiveUser

(* The decision a request takes itself: the age of its facts.               *)
LEMMA DecisionTaken ==
  ASSUME GInv, NEW r \in Request, reqs[r].pc # "idle", reqs[r].granting # Null, NEW app
  PROVE  DecidedSince(DecideFrom(reqs[r].user, reqs[r].a, app, reqs[r].granting),
                      reqs[r].u, reqs[r].a, now)
<1> DEFINE req == reqs[r]
           tu  == now - UserTtl - 2 * MaxRequest + 1
           tr  == now - MaxRequest
           t   == req.started - UserTtl + 1 - MaxRequest
<1> SUFFICES ASSUME Allowed(DecideFrom(req.user, req.a, app, req.granting))
             PROVE  UserJustifies(req.u, req.a, tu, tr)
  BY DEF DecidedSince
<1>1. /\ req \in ReqType /\ ReqOK(req) /\ req # NoRequest
      /\ req.u \in User /\ req.a \in AppKey /\ req.started \in Nat
      /\ req.started <= now /\ now <= req.started + MaxRequest
  BY InFlight
<1>2. /\ req.user # Null /\ req.granting \subseteq req.user.roles
      /\ RolesSince(req.granting, req.a, req.started)
      /\ UserSince(req.user, req.u, t)
      /\ req.granting \subseteq RoleKey
  BY <1>1 DEF ReqOK, ReqType
<1>3. tu \in Int /\ t \in Int /\ tr \in Int /\ tu <= t /\ tr <= req.started
  BY <1>1, TimedHolds DEF Timed
<1>4. HistoryTypes
  BY DEF GInv, History
<1> HIDE DEF tu, tr, t
<1>5. CASE Entitled(req.user, req.a)
  <2>1. lastEntitled[<<req.u, req.a>>] >= t
    BY <1>1, <1>2, <1>5 DEF UserSince
  <2>2. lastEntitled[<<req.u, req.a>>] >= tu
    BY <1>1, <1>3, <1>4, <2>1 DEF HistoryTypes
  <2> QED BY <2>2 DEF UserJustifies
<1>6. CASE \E k \in req.granting : Eligible(req.user, k, req.a)
  <2>1. PICK k \in req.granting : Eligible(req.user, k, req.a)
    BY <1>6
  <2>2. k \in RoleKey /\ lastEligible[<<req.u, k, req.a>>] >= t
        /\ lastGranting[<<k, req.a>>] >= req.started
    BY <1>1, <1>2, <2>1 DEF UserSince, RolesSince
  <2>3. lastEligible[<<req.u, k, req.a>>] >= tu /\ lastGranting[<<k, req.a>>] >= tr
    BY <1>1, <1>3, <1>4, <2>2 DEF HistoryTypes
  <2> QED BY <2>2, <2>3 DEF UserJustifies
<1> QED BY <1>2, <1>5, <1>6, DecideFromJustified

(* An answer from a decision taken at t, not longer ago than its TTL.       *)
LEMMA DecisionAnswered ==
  ASSUME GInv, NEW r \in Request, reqs[r].pc # "idle", reqs[r].phase = "decide" \/
           (reqs[r].user # Null /\ ActiveApp(reqs[r].app)),
         NEW reason \in Reason, NEW t \in Nat, now - t < DecisionTtl,
         DecidedSince(reason, reqs[r].u, reqs[r].a, t), RespondDecision(r, reason)
  PROVE  Become(r, NoRequest) /\ ResponseOK(response')
<1> DEFINE req == reqs[r]
           resp == response'
<1>1. /\ req \in ReqType /\ ReqOK(req) /\ req # NoRequest
      /\ req.u \in User /\ req.a \in AppKey /\ req.started \in Nat
      /\ req.started <= now /\ now <= req.started + MaxRequest
  BY InFlight
<1>2. /\ req.user # Null /\ ActiveApp(req.app) /\ ActiveUser(req.user)
      /\ UserSince(req.user, req.u, req.started - UserTtl + 1 - MaxRequest)
      /\ AppSince(req.app, req.a, req.started - AppTtl + 1 - MaxRequest)
  BY <1>1 DEF ReqOK
<1>3. req.app.secret \in Secret /\ req.quiet \in BOOLEAN
  BY <1>1, <1>2 DEF ReqType, AppOrNull, AppDoc, ActiveApp
<1>4. /\ response' = [verdict |-> IF Allowed(reason) THEN "allowed" ELSE "forbidden",
                      reason |-> reason, u |-> req.u, a |-> req.a,
                      secret |-> IF Allowed(reason) THEN req.app.secret ELSE Null,
                      started |-> req.started, at |-> now, quiet |-> req.quiet]
      /\ Become(r, NoRequest)
  BY DEF RespondDecision, Respond
<1>5. /\ resp \in ResponseType /\ resp.u = req.u /\ resp.a = req.a /\ resp.at = now
      /\ resp.verdict # "public"
      /\ resp.verdict = "allowed" => Allowed(reason) /\ resp.secret = req.app.secret
  BY <1>1, <1>3, <1>4, TimedHolds DEF ResponseType, GInv, History, HistoryTypes
<1>6. ASSUME Allowed(reason)
      PROVE  /\ UserJustifies(req.u, req.a, now - UserBound, now - RoleBound)
             /\ lastServing[<<req.a, req.app.secret>>] >= now - AppBound
             /\ lastActive[req.u] >= now - ActiveBound
  <2> DEFINE tu == t - UserTtl - 2 * MaxRequest + 1
             tr == t - MaxRequest
  <2>1. UserJustifies(req.u, req.a, tu, tr)
    BY <1>6 DEF DecidedSince
  <2>2. tu \in Int /\ tr \in Int /\ now - UserBound \in Int /\ now - RoleBound \in Int
        /\ now - UserBound <= tu /\ now - RoleBound <= tr
    BY TimedHolds DEF Timed, UserBound, RoleBound
  <2>3. HistoryTypes
    BY DEF GInv, History
  <2> HIDE DEF tu, tr
  <2>4. UserJustifies(req.u, req.a, now - UserBound, now - RoleBound)
    <3>1. CASE lastEntitled[<<req.u, req.a>>] >= tu
      <4>1. lastEntitled[<<req.u, req.a>>] >= now - UserBound
        BY <1>1, <2>2, <2>3, <3>1 DEF HistoryTypes
      <4> QED BY <4>1 DEF UserJustifies
    <3>2. CASE \E k \in RoleKey : lastEligible[<<req.u, k, req.a>>] >= tu
                                  /\ lastGranting[<<k, req.a>>] >= tr
      <4>1. PICK k \in RoleKey : lastEligible[<<req.u, k, req.a>>] >= tu
                                 /\ lastGranting[<<k, req.a>>] >= tr
        BY <3>2
      <4>2. lastEligible[<<req.u, k, req.a>>] >= now - UserBound
            /\ lastGranting[<<k, req.a>>] >= now - RoleBound
        BY <1>1, <2>2, <2>3, <4>1 DEF HistoryTypes
      <4> QED BY <4>2 DEF UserJustifies
    <3> QED BY <2>1, <3>1, <3>2 DEF UserJustifies
  <2>5. lastServing[<<req.a, req.app.secret>>] >= req.started - AppTtl + 1 - MaxRequest
    BY <1>2, <1>3 DEF AppSince, Serving
  <2>6. lastServing[<<req.a, req.app.secret>>] >= now - AppBound
    BY <1>1, <1>3, <2>3, <2>5, TimedHolds DEF HistoryTypes, Timed, AppBound
  <2>7. lastActive[req.u] >= req.started - UserTtl + 1 - MaxRequest
    BY <1>2 DEF UserSince
  <2>8. lastActive[req.u] >= now - ActiveBound
    BY <1>1, <2>3, <2>7, TimedHolds DEF HistoryTypes, Timed, ActiveBound
  <2> QED BY <2>4, <2>6, <2>8
<1> HIDE DEF resp
<1>7. ResponseOK(resp)
  BY <1>3, <1>5, <1>6 DEF ResponseOK, Justified
<1> QED BY <1>4, <1>7 DEF resp

(* The answers that need no decision.                                       *)
LEMMA PlainAnswered ==
  ASSUME GInv, NEW r \in Request, reqs[r].pc # "idle",
         \/ Respond(r, "unknown_app", "none") \/ Respond(r, "unauthenticated", "none")
         \/ Respond(r, "public", "none") /\ Open(reqs[r].app)
  PROVE  Become(r, NoRequest) /\ ResponseOK(response')
<1> DEFINE req == reqs[r]
           resp == response'
<1>1. /\ req \in ReqType /\ ReqOK(req) /\ req # NoRequest
      /\ req.u \in User /\ req.a \in AppKey /\ req.started \in Nat
      /\ req.started <= now /\ now <= req.started + MaxRequest
  BY InFlight
<1>2. AppSince(req.app, req.a, req.started - AppTtl + 1 - MaxRequest) /\ req.quiet \in BOOLEAN
  BY <1>1 DEF ReqOK, ReqType
<1>3. /\ resp \in ResponseType /\ resp.a = req.a /\ resp.at = now
      /\ resp.verdict # "allowed" /\ (resp.verdict = "public" => Open(req.app))
  BY <1>1, <1>2 DEF Respond, ResponseType, GInv, History, HistoryTypes
<1>4. Open(req.app) => lastOpen[req.a] >= req.started - AppTtl + 1 - MaxRequest
  BY <1>2 DEF AppSince
<1>5. Open(req.app) => lastOpen[req.a] >= now - AppBound
  BY <1>1, <1>4, TimedHolds DEF GInv, History, HistoryTypes, Timed, AppBound
<1> HIDE DEF resp
<1>6. ResponseOK(resp)
  BY <1>3, <1>5 DEF ResponseOK
<1> QED BY <1>6 DEF Respond, resp

LEMMA NoRequestOK == NoRequest \in ReqType \cup {NoRequest} /\ ReqOK(NoRequest)
BY DEF ReqOK

LEMMA VerifyStep ==
  ASSUME GInv, Observe, NEW r \in Request, Verify(r)
  PROVE  GInv'
<1> DEFINE req == reqs[r]
           key == <<req.u, req.a>>
           hit == decisionCache[key]
<1>1. /\ req \in ReqType /\ ReqOK(req) /\ req # NoRequest /\ req.pc = "ready"
      /\ req.u \in User /\ req.a \in AppKey /\ req.started \in Nat /\ req.phase = "verify"
  BY InFlight DEF Verify, Step
<1>2. req.pc # "idle" /\ UNCHANGED <<rvars, now>> /\ userCache' = userCache
  BY <1>1 DEF Verify
<1>3. CASE ~ (ActiveApp(req.app) /\ ~ req.app.public /\ req.user # Null)
  <2>1. /\ UNCHANGED <<appCache, decisionCache>>
        /\ \/ Respond(r, "unknown_app", "none") \/ Respond(r, "unauthenticated", "none")
           \/ Respond(r, "public", "none") /\ Open(req.app)
    BY <1>3 DEF Verify, Open
  <2>2. Become(r, NoRequest) /\ ResponseOK(response')
    BY <1>2, <2>1, PlainAnswered
  <2> QED BY <1>2, <2>1, <2>2, NoRequestOK, RequestStep DEF GInv, CachesOK
<1>4. CASE ActiveApp(req.app) /\ ~ req.app.public /\ req.user # Null /\ Live(hit, DecisionTtl)
  <2>1. RespondDecision(r, hit.value) /\ UNCHANGED <<appCache, decisionCache>>
    BY <1>4 DEF Verify
  <2>2. hit # Null /\ now - hit.at < DecisionTtl
    BY <1>4 DEF Live
  <2>3. DecisionEntryOK(hit, req.u, req.a)
    BY <1>1 DEF GInv, CachesOK, DecisionsOK
  <2>4. hit \in CacheEntry(Reason) /\ DecidedSince(hit.value, req.u, req.a, hit.at)
    BY <2>2, <2>3 DEF DecisionEntryOK
  <2>5. hit.at \in Nat /\ hit.value \in Reason
    BY <2>4 DEF CacheEntry
  <2> HIDE DEF hit
  <2>6. Become(r, NoRequest) /\ ResponseOK(response')
    BY <1>2, <1>4, <2>1, <2>2, <2>4, <2>5, DecisionAnswered
  <2> QED BY <1>2, <2>1, <2>6, NoRequestOK, RequestStep DEF GInv, CachesOK
<1>5. CASE ActiveApp(req.app) /\ ~ req.app.public /\ req.user # Null /\ ~ Live(hit, DecisionTtl)
  <2> DEFINE new == [req EXCEPT !.phase = "decide"]
  <2>1. /\ decisionCache' = [decisionCache EXCEPT ![key] = Null]
        /\ Become(r, LookApp(new)) /\ ExpireApp(req.a) /\ NoAnswer
    BY <1>5 DEF Verify
  <2>2. /\ new \in ReqType /\ new.pc = "ready" /\ new.user = req.user /\ new.u = req.u
        /\ new.a = req.a /\ new.started = req.started /\ new.app = req.app
        /\ new.phase = "decide" /\ new.granting = req.granting
    BY <1>1 DEF ReqType
  <2>3. new # NoRequest
    BY <2>2 DEF NoRequest
  <2> HIDE DEF new
  <2>4. ReqOK(new)
    BY <1>1, <1>5, <2>2 DEF ReqOK
  <2>5. LookApp(new) \in ReqType /\ ReqOK(LookApp(new))
    BY <2>2, <2>3, <2>4, LookAppOK
  <2>6. AppsOK(appCache')
    BY <1>1, <2>1, ExpireAppOK DEF GInv, CachesOK
  <2>7. DecisionEntryOK(Null, req.u, req.a)
    BY DEF DecisionEntryOK
  <2>8. DecisionsOK(decisionCache')
    BY <1>1, <2>1, <2>7, DecisionSet DEF GInv, CachesOK
  <2> QED BY <1>2, <2>1, <2>5, <2>6, <2>8, NoAnswerOK, RequestStep DEF GInv, CachesOK
<1> QED BY <1>3, <1>4, <1>5

LEMMA ReadRolesStep ==
  ASSUME GInv, Observe, NEW r \in Request, ReadRoles(r)
  PROVE  GInv'
<1> DEFINE req == reqs[r]
           ks  == GrantingRoles(req.user, req.a, roles)
           new == [req EXCEPT !.granting = ks]
<1>1. /\ req \in ReqType /\ ReqOK(req) /\ req # NoRequest /\ req.phase = "decide"
      /\ req.u \in User /\ req.a \in AppKey /\ req.started \in Nat /\ req.started <= now
  BY InFlight DEF ReadRoles
<1>2. req.user # Null /\ req.user \in UserDoc
  BY <1>1 DEF ReqOK, ReqType, UserOrNull
<1>3. ks \subseteq req.user.roles /\ ks \in SUBSET RoleKey
  BY <1>2 DEF GrantingRoles, UserDoc
<1>4. \A k \in ks : Granting(roles[k], req.a)
  BY DEF GrantingRoles, Granting
<1>5. RolesSince(ks, req.a, req.started)
  <2>1. \A k \in ks : lastGranting[<<k, req.a>>] >= now /\ lastGranting[<<k, req.a>>] \in Int
    BY <1>1, <1>3, <1>4 DEF GInv, History, HistoryTypes, StoreIsNow
  <2> QED BY <1>1, <2>1, TimedHolds DEF RolesSince, Timed
<1> HIDE DEF ks
<1>6. /\ new \in ReqType /\ new.pc = req.pc /\ new.user = req.user /\ new.u = req.u
      /\ new.a = req.a /\ new.started = req.started /\ new.app = req.app
      /\ new.phase = "decide" /\ new.granting = ks /\ new.doc = req.doc
  BY <1>1, <1>3 DEF ReqType
<1>7. Become(r, new)
  BY DEF ReadRoles, ks
<1> HIDE DEF new
<1>8. ReqOK(new)
  BY <1>1, <1>2, <1>3, <1>5, <1>6 DEF ReqOK
<1> QED BY <1>6, <1>7, <1>8, RequestStep, NoAnswerOK DEF ReadRoles, GInv, CachesOK, caches

LEMMA DecideStep ==
  ASSUME GInv, Observe, NEW r \in Request, Decide(r)
  PROVE  GInv'
<1> DEFINE req == reqs[r]
           reason == DecideFrom(req.user, req.a, req.dapp, req.granting)
<1>1. /\ req \in ReqType /\ ReqOK(req) /\ req # NoRequest /\ req.pc # "idle"
      /\ req.u \in User /\ req.a \in AppKey /\ req.phase = "decide" /\ req.granting # Null
  BY InFlight DEF Decide, Step
<1>2. reason \in Reason
  BY DEF DecideFrom, Reason
<1>3. DecidedSince(reason, req.u, req.a, now)
  BY <1>1, DecisionTaken
<1> HIDE DEF reason
<1>4. now \in Nat /\ now - now < DecisionTtl
  BY TimedHolds DEF Timed, GInv, History, HistoryTypes
<1>5. RespondDecision(r, reason)
      /\ decisionCache' = [decisionCache EXCEPT ![<<req.u, req.a>>] = Entry(reason)]
      /\ UNCHANGED <<rvars, now, userCache, appCache>>
  BY DEF Decide, reason
<1>6. Become(r, NoRequest) /\ ResponseOK(response')
  BY <1>1, <1>2, <1>3, <1>4, <1>5, DecisionAnswered
<1>7. /\ Entry(reason) \in CacheEntry(Reason)
      /\ Entry(reason).value = reason /\ Entry(reason).at = now
  BY <1>2, <1>4 DEF Entry, CacheEntry
<1>8. DecisionEntryOK(Entry(reason), req.u, req.a)
  BY <1>3, <1>4, <1>7 DEF DecisionEntryOK
<1>9. DecisionsOK(decisionCache')
  BY <1>1, <1>5, <1>7, <1>8, DecisionSet DEF GInv, CachesOK
<1> QED BY <1>5, <1>6, <1>9, NoRequestOK, RequestStep DEF GInv, CachesOK

------------------------------------------------------------------------------
(* The handlers, the clock and the restart.                                 *)

(* Steps in which no request moves.                                         *)
LEMMA OtherStep ==
  ASSUME GInv, Observe, RInv', UNCHANGED <<now, reqs>>, NoAnswer,
         UsersOK(userCache'), AppsOK(appCache'), DecisionsOK(decisionCache')
  PROVE  GInv'
<1>1. now' \in Nat /\ now' >= now
  BY DEF GInv, History, HistoryTypes
<1>2. /\ reqs' \in [Request -> ReqType \cup {NoRequest}]
      /\ \A r \in Request : /\ ReqOK(reqs'[r])
                            /\ reqs'[r] # NoRequest => now' <= reqs'[r].started + MaxRequest
  BY DEF GInv, ReqsOK, ReqOK
<1> QED BY <1>1, <1>2, NoAnswerOK, StepOK

LEMMA HandlerStep ==
  ASSUME GInv, Observe, NEW p \in Proc, Handler(p)
  PROVE  GInv'
<1>1. RInv'
  BY StoreStepKeepsRInv DEF Handler, GInv
<1> QED BY <1>1, OtherStep DEF Handler, GInv, CachesOK, caches

LEMMA EmptyCaches ==
  ASSUME GInv
  PROVE  /\ UsersOK([u \in User |-> Null])
         /\ AppsOK([a \in AppKey |-> Null])
         /\ DecisionsOK([x \in User \X AppKey |-> Null])
BY DEF UsersOK, AppsOK, DecisionsOK, UserEntryOK, AppEntryOK, DecisionEntryOK

LEMMA EvictUserStep ==
  ASSUME GInv, Observe, NEW p \in Proc, EvictUserEntries(p)
  PROVE  GInv'
<1>1. RInv'
  BY ReadStep DEF EvictUserEntries, GInv
<1>2. CASE SameProcess
  <2>1. /\ decisionCache' = [x \in User \X AppKey |->
              IF x[1] = c(p).u THEN Null ELSE decisionCache[x]]
        /\ userCache' = [userCache EXCEPT ![c(p).u] = Null]
        /\ appCache' = appCache
    BY <1>2 DEF EvictUserEntries
  <2>2. c(p).u \in User
    BY CallOK DEF EvictUserEntries, EvictUser, Done, GInv, Call
  <2>3. UserEntryOK(Null, c(p).u)
    BY DEF UserEntryOK
  <2>4. UsersOK(userCache')
    BY <2>1, <2>2, <2>3, UserSet DEF GInv, CachesOK
  <2>5. \A u \in User, a \in AppKey : decisionCache'[<<u, a>>] \in {Null, decisionCache[<<u, a>>]}
    BY <2>1
  <2>6. decisionCache' \in [User \X AppKey -> CacheEntry(Reason) \cup {Null}]
    BY <2>1 DEF GInv, CachesOK, DecisionsOK
  <2>7. \A u \in User, a \in AppKey : DecisionEntryOK(decisionCache'[<<u, a>>], u, a)
    BY <2>5 DEF GInv, CachesOK, DecisionsOK, DecisionEntryOK
  <2>8. DecisionsOK(decisionCache')
    BY <2>6, <2>7 DEF DecisionsOK
  <2> QED BY <1>1, <2>1, <2>4, <2>8, OtherStep DEF EvictUserEntries, GInv, CachesOK
<1>3. CASE ~ SameProcess
  BY <1>1, <1>3, OtherStep DEF EvictUserEntries, GInv, CachesOK
<1> QED BY <1>2, <1>3

LEMMA EvictAllStep ==
  ASSUME GInv, Observe, NEW p \in Proc, EvictAllEntries(p)
  PROVE  GInv'
<1>1. RInv'
  BY ReadStep DEF EvictAllEntries, GInv
<1>2. UsersOK(userCache') /\ AppsOK(appCache') /\ DecisionsOK(decisionCache')
  BY EmptyCaches DEF EvictAllEntries, GInv, CachesOK
<1> QED BY <1>1, <1>2, OtherStep DEF EvictAllEntries

LEMMA TickStep ==
  ASSUME GInv, Observe, Tick
  PROVE  GInv'
<1>1. RInv' /\ now \in Nat /\ now' = now + 1
  BY RInvKept DEF Tick, GInv, History, HistoryTypes
<1>2. now' \in Nat /\ now' >= now
  BY <1>1
<1>3. ASSUME NEW r \in Request, reqs[r] # NoRequest
      PROVE  now' <= reqs[r].started + MaxRequest
  <2>1. reqs[r] \in ReqType
    BY <1>3 DEF GInv, ReqsOK
  <2>2. reqs[r].pc # "idle" /\ reqs[r].started \in Nat
    BY <2>1 DEF ReqType
  <2>3. now - reqs[r].started < MaxRequest
    BY <2>2 DEF Tick
  <2> QED BY <1>1, <2>2, <2>3, TimedHolds DEF Timed
<1>4. UNCHANGED <<userCache, appCache, decisionCache, reqs>> /\ NoAnswer
  BY DEF Tick, caches
<1> QED BY <1>1, <1>2, <1>3, <1>4, StepOK, NoAnswerOK DEF GInv, CachesOK, ReqsOK

LEMMA RestartStep ==
  ASSUME GInv, Observe, Restart
  PROVE  GInv'
<1>1. RInv'
  BY RestartPortalStep, RInvKept DEF Restart, GInv
<1>2. now' \in Nat /\ now' >= now
  BY DEF Restart, GInv, History, HistoryTypes
<1>3. UsersOK(userCache') /\ AppsOK(appCache') /\ DecisionsOK(decisionCache')
  BY EmptyCaches DEF Restart
<1>4. reqs' = [r \in Request |-> NoRequest] /\ NoAnswer
  BY DEF Restart
<1> QED BY <1>1, <1>2, <1>3, <1>4, StepOK, NoAnswerOK, NoRequestOK

LEMMA RestartWebStep ==
  ASSUME GInv, Observe, RestartWeb
  PROVE  GInv'
<1>1. RInv'
  BY RestartPortalStep DEF RestartWeb, GInv
<1> QED BY <1>1, OtherStep DEF RestartWeb, GInv, CachesOK, caches

------------------------------------------------------------------------------
(* The invariant, and the theorems.                                         *)

LEMMA InitGInv == Init => GInv
<1> SUFFICES ASSUME Init PROVE GInv
  OBVIOUS
<1>1. RInv
  BY RInitRInv DEF Init
<1>2. now = 0 /\ Never \in Int /\ Never <= 0
  BY GatewayAssumption DEF Init, Never, UserBound, AppBound
<1>3. HistoryTypes
  <2>1. lastEntitled \in [User \X AppKey -> Int]
    BY <1>2 DEF Init
  <2>2. lastEligible \in [User \X RoleKey \X AppKey -> Int]
    BY <1>2 DEF Init
  <2>3. lastActive \in [User -> Int]
    BY <1>2 DEF Init
  <2>4. lastGranting \in [RoleKey \X AppKey -> Int]
    BY <1>2 DEF Init
  <2>5. lastServing \in [AppKey \X Secret -> Int]
    BY <1>2 DEF Init
  <2>6. lastOpen \in [AppKey -> Int]
    BY <1>2 DEF Init
  <2> QED BY <1>2, <2>1, <2>2, <2>3, <2>4, <2>5, <2>6 DEF HistoryTypes
<1>4. HistoryPast
  <2>1. \A u \in User, a \in AppKey : lastEntitled[<<u, a>>] <= now
    BY <1>2 DEF Init
  <2>2. ASSUME NEW u \in User, NEW k \in RoleKey, NEW a \in AppKey
        PROVE  lastEligible[<<u, k, a>>] <= now
    <3>1. <<u, k, a>> \in User \X RoleKey \X AppKey
      OBVIOUS
    <3>2. lastEligible[<<u, k, a>>] = IF Eligible(users[u], k, a) THEN 0 ELSE Never
      BY <3>1 DEF Init
    <3> QED BY <3>2, <1>2
  <2>3. ASSUME NEW u \in User
        PROVE  lastActive[u] <= now
    <3>1. lastActive[u] = IF ActiveUser(users[u]) THEN 0 ELSE Never
      BY DEF Init
    <3> QED BY <3>1, <1>2
  <2>4. ASSUME NEW k \in RoleKey, NEW a \in AppKey
        PROVE  lastGranting[<<k, a>>] <= now
    <3>1. lastGranting[<<k, a>>] = IF Granting(roles[k], a) THEN 0 ELSE Never
      BY DEF Init
    <3> QED BY <3>1, <1>2
  <2>5. ASSUME NEW a \in AppKey, NEW s \in Secret
        PROVE  lastServing[<<a, s>>] <= now
    <3>1. lastServing[<<a, s>>] = IF Serving(apps[a], s) THEN 0 ELSE Never
      BY DEF Init
    <3> QED BY <3>1, <1>2
  <2>6. ASSUME NEW a \in AppKey
        PROVE  lastOpen[a] <= now
    <3>1. lastOpen[a] = IF Open(apps[a]) THEN 0 ELSE Never
      BY DEF Init
    <3> QED BY <3>1, <1>2
  <2> QED BY <2>1, <2>2, <2>3, <2>4, <2>5, <2>6 DEF HistoryPast
<1>8. StoreIsNow
  <2>1. ASSUME NEW u \in User
        PROVE  UserSince(users[u], u, now)
    <3>1. ActiveUser(users[u]) => lastActive[u] >= now
      BY <1>2 DEF Init
    <3>2. \A a \in AppKey : Entitled(users[u], a) => lastEntitled[<<u, a>>] >= now
      BY <1>2 DEF Init
    <3>3. \A k \in RoleKey, a \in AppKey :
            Eligible(users[u], k, a) => lastEligible[<<u, k, a>>] >= now
      BY <1>2 DEF Init
    <3> QED BY <3>1, <3>2, <3>3 DEF UserSince
  <2>2. ASSUME NEW a \in AppKey
        PROVE  AppSince(apps[a], a, now)
    <3>1. \A s \in Secret : Serving(apps[a], s) => lastServing[<<a, s>>] >= now
      BY <1>2 DEF Init
    <3>2. Open(apps[a]) => lastOpen[a] >= now
      BY <1>2 DEF Init
    <3> QED BY <3>1, <3>2 DEF AppSince
  <2>3. \A k \in RoleKey, a \in AppKey : Granting(roles[k], a) => lastGranting[<<k, a>>] >= now
    BY <1>2 DEF Init
  <2> QED BY <2>1, <2>2, <2>3 DEF StoreIsNow
<1>5. CachesOK
  BY DEF Init, CachesOK, UsersOK, AppsOK, DecisionsOK, UserEntryOK, AppEntryOK, DecisionEntryOK
<1>6. ReqsOK
  BY NoRequestOK DEF Init, ReqsOK
<1>7. ResponseOK(response)
  BY DEF Init, ResponseOK
<1> QED BY <1>1, <1>3, <1>4, <1>5, <1>6, <1>7, <1>8 DEF GInv, History

LEMMA NextGInv == GInv /\ [Next]_gvars => GInv'
<1> SUFFICES ASSUME GInv, [Next]_gvars PROVE GInv'
  OBVIOUS
<1>1. ASSUME Observe, NEW p \in Proc, Handler(p) \/ EvictUserEntries(p) \/ EvictAllEntries(p)
      PROVE  GInv'
  BY <1>1, HandlerStep, EvictUserStep, EvictAllStep
<1>2. ASSUME Observe, NEW r \in Request, NEW u \in User, NEW a \in AppKey, Arrive(r, u, a)
      PROVE  GInv'
  BY <1>2, ArriveStep
<1>3. ASSUME Observe, NEW r \in Request,
             \/ LookupUser(r) \/ ReadUser(r) \/ FillUser(r)
             \/ LookupApp(r) \/ ReadApp(r) \/ FillApp(r)
             \/ Verify(r) \/ ReadRoles(r) \/ Decide(r)
      PROVE  GInv'
  BY <1>3, LookupUserStep, ReadUserStep, FillUserStep, LookupAppStep, ReadAppStep, FillAppStep,
     VerifyStep, ReadRolesStep, DecideStep
<1>4. ASSUME Observe, Tick \/ Restart \/ RestartWeb PROVE GInv'
  BY <1>4, TickStep, RestartStep, RestartWebStep
<1>5. CASE UNCHANGED gvars
  <2>1. RInv'
    BY <1>5, RInvKept DEF gvars, GInv
  <2>2. UNCHANGED <<users, roles, apps, now, caches, reqs, response, history>>
    BY <1>5 DEF gvars, rvars
  <2>3. History'
    BY <2>2 DEF history, GInv, History, HistoryTypes, HistoryPast, StoreIsNow, UserSince, AppSince
  <2>4. CachesOK'
    BY <2>2 DEF caches, history, GInv, CachesOK, UsersOK, AppsOK, DecisionsOK, UserEntryOK,
          AppEntryOK, DecisionEntryOK, DecidedSince, UserJustifies, UserSince, AppSince
  <2>5. ReqsOK'
    BY <2>2 DEF history, GInv, ReqsOK, ReqOK, RolesSince, UserSince, AppSince
  <2>6. ResponseOK(response)'
    BY <2>2 DEF history, GInv, ResponseOK, Justified, UserJustifies
  <2> QED BY <2>1, <2>3, <2>4, <2>5, <2>6 DEF GInv
<1> QED BY <1>1, <1>2, <1>3, <1>4, <1>5 DEF Next

THEOREM GatewayInvariant == Spec => []GInv
BY InitGInv, NextGInv, PTL DEF Spec

(* Every document, entry and answer keeps its type, whatever crosses.       *)
THEOREM GatewayTypeCorrect == Spec => []GatewayTypeOK
<1>1. GInv => GatewayTypeOK
  BY DEF GInv, History, HistoryTypes, CachesOK, UsersOK, AppsOK, DecisionsOK, ReqsOK, ResponseOK,
         GatewayTypeOK
<1> QED BY <1>1, GatewayInvariant, PTL

(* Nobody is let in on facts older than the TTLs compose to: for every TTL, *)
(* any number of users, apps, requests and overlapping handlers, with the   *)
(* handlers in this process or in another, and across restarts.             *)
THEOREM AccessIsJustified == Spec => []AllowIsJustified
<1>1. GInv => AllowIsJustified
  BY DEF GInv, ResponseOK, AllowIsJustified, Allows, NoResponse
<1> QED BY <1>1, GatewayInvariant, PTL

(* A disabled or deleted account is out within one user TTL (and the time   *)
(* two requests take): the decision TTL does not add to it.                 *)
THEOREM DisablingIsBounded == Spec => []DisabledWithinUserTtl
<1>1. GInv => DisabledWithinUserTtl
  BY DEF GInv, ResponseOK, DisabledWithinUserTtl, Allows, NoResponse
<1> QED BY <1>1, GatewayInvariant, PTL

(* Anonymous access rests on public paths not older than the app TTL.       *)
THEOREM PublicAccessIsJustified == Spec => []PublicIsJustified
<1>1. GInv => PublicIsJustified
  BY DEF GInv, ResponseOK, PublicIsJustified, NoResponse
<1> QED BY <1>1, GatewayInvariant, PTL

------------------------------------------------------------------------------
(* The next request.  Requests and handlers do not overlap, and both are of *)
(* one process: what a handler that has returned took away is in no cache.  *)
(* A cached copy witnesses facts that the store still has, unless a handler *)
(* in flight has yet to evict it.  What the code does not keep up with, the *)
(* theorems exclude: a new secret evicts nothing; a rename of an app        *)
(* rewrites the overrides of users and does not evict the users, and it may *)
(* throw before it evicts the apps; and a user's cached document outlives a *)
(* role or an app that goes, which does no harm until another is made of    *)
(* its key.                                                                 *)

NoAppRename == \A call \in Calls : call.name # "renameApp"
NoNewSecret == \A call \in Calls : call.name # "regenerateSecret"
FreedRoles  == {call.k : call \in {x \in Calls : x.name \in {"deleteRole", "renameRole"}}}
FreedApps   == {call.a : call \in {x \in Calls : x.name = "deleteApp"}}
KeysStay ==
  \A call \in Calls : /\ call.name \in {"createRole", "renameRole"} => call.k2 \notin FreedRoles
                      /\ call.name = "createApp" => call.a2 \notin FreedApps

(* Handlers that have written and cannot throw before they evict.           *)
MustEvictUser(n, left) ==
  \/ n \in {"setRoles", "deleteOverride"} /\ left = 1
  \/ n \in {"setOverride", "disableUser"} /\ left \in {1, 2}
MustEvictAll(n, left) ==
  \/ n \in {"deleteGrant", "updateApp"} /\ left = 1
  \/ n \in {"addGrant", "renameRole", "deleteRole"} /\ left \in {1, 2}
  \/ n = "deleteApp" /\ left \in {1, 2, 3, 4}
UserOwed(u) == \E p \in Proc : Busy(p) /\ c(p).u = u /\ MustEvictUser(c(p).name, Left(p))
AllOwed     == \E p \in Proc : Busy(p) /\ MustEvictAll(c(p).name, Left(p))

(* A key whose role or app is gone for good, or about to go.                *)
RoleLeaves(p, k) == Busy(p) /\ c(p).name = "deleteRole" /\ c(p).k = k /\ Left(p) = 2
AppLeaves(p, a)  == Busy(p) /\ c(p).name = "deleteApp" /\ c(p).a = a /\ Left(p) \in {3, 4}
RoleGone(k) == k \in FreedRoles /\ (roles[k] = Null \/ \E p \in Proc : RoleLeaves(p, k))
AppGone(a)  == a \in FreedApps /\ (apps[a] = Null \/ \E p \in Proc : AppLeaves(p, a))

(* Where the programs take something away, where they evict and where they  *)
(* may throw.                                                               *)
Throwing  == {"findUser", "findActive", "findRole", "findNoRole", "findApp", "findNoApp", "idpDelete",
              "insertRole", "moveRole", "insertApp", "moveApp", "moveUsage"}
UserTakes == {"writeRoles", "writeDisabled", "pullOverride", "pushOverride"}
AllTakes  == {"moveRole", "moveHolders", "stripHolders", "removeRole", "pullGrant", "writeApp",
              "removeApp", "dropGrants", "dropOverrides"}
PlaceOfEvictions(n, left, s) ==
  /\ s \in UserTakes => MustEvictUser(n, left - 1)
  /\ s \in AllTakes => MustEvictAll(n, left - 1)
  /\ s \in {"dropGrants", "dropOverrides"} => MustEvictAll(n, left)
  /\ MustEvictUser(n, left) => s \notin Throwing /\ (left = 1 => s = "evictUser")
  /\ MustEvictAll(n, left) => s \notin Throwing /\ (left = 1 => s = "evictAll")
  /\ n = "deleteUser" /\ left = 4 => s = "evictUser"
  /\ n = "deleteRole" /\ left = 2 => s = "removeRole"
  /\ n = "deleteApp" /\ left = 3 => s = "removeApp"
  /\ n = "deleteApp" /\ left = 4 => s \in {"dropGrants", "dropOverrides"}

LEMMA EvictionTable ==
  ASSUME NEW n \in DOMAIN Program, NEW i \in 1..Len(Program[n]), NEW s \in Program[n][i]
  PROVE  PlaceOfEvictions(n, Len(Program[n]) + 1 - i, s)
<1> USE DEF PlaceOfEvictions, MustEvictUser, MustEvictAll, Throwing, UserTakes, AllTakes
<1>1. CASE n = "setRoles"
  BY <1>1 DEF Program, SetRoles
<1>2. CASE n = "setOverride"
  BY <1>2 DEF Program, SetOverride
<1>3. CASE n = "deleteOverride"
  BY <1>3 DEF Program, DeleteOverride
<1>4. CASE n = "disableUser"
  BY <1>4 DEF Program, DisableUser
<1>5. CASE n = "enableUser"
  BY <1>5 DEF Program, EnableUser
<1>6. CASE n = "deleteUser"
  BY <1>6 DEF Program, DeleteUser
<1>7. CASE n = "createRole"
  BY <1>7 DEF Program, CreateRole
<1>8. CASE n = "renameRole"
  BY <1>8 DEF Program, RenameRole
<1>9. CASE n = "addGrant"
  BY <1>9 DEF Program, AddGrant
<1>10. CASE n = "deleteGrant"
  BY <1>10 DEF Program, DeleteGrant
<1>11. CASE n = "deleteRole"
  BY <1>11 DEF Program, DeleteRole
<1>12. CASE n = "createApp"
  BY <1>12 DEF Program, CreateApp
<1>13. CASE n = "updateApp"
  BY <1>13 DEF Program, UpdateApp
<1>14. CASE n = "renameApp"
  BY <1>14 DEF Program, RenameApp
<1>15. CASE n = "deleteApp"
  BY <1>15 DEF Program, DeleteApp
<1>16. CASE n = "regenerateSecret"
  BY <1>16 DEF Program, RegenerateSecret
<1>17. CASE n = "signIn"
  BY <1>17 DEF Program, SignIn
<1> QED BY <1>1, <1>2, <1>3, <1>4, <1>5, <1>6, <1>7, <1>8, <1>9, <1>10, <1>11,
           <1>12, <1>13, <1>14, <1>15, <1>16, <1>17 DEF Program

LEMMA StepIndex ==
  ASSUME ControlInv, NEW p \in Proc, NEW s, At(p, s)
  PROVE  PlaceOfEvictions(c(p).name, Left(p), s)
<1>1. RInv /\ Follows(ops[p])
  BY DEF ControlInv
<1>2. Busy(p) /\ Left(p) \in Nat \ {0} /\ c(p).name \in DOMAIN Program
      /\ Head(ops[p].todo) = ops[p].todo[1]
  BY <1>1, OpShape DEF At, Busy
<1> DEFINE program == Program[c(p).name]
           i       == Len(program) - Left(p) + 1
<1>3. Len(program) - Left(p) \in Nat /\ ops[p].todo[1] \subseteq program[i]
  BY <1>1, <1>2 DEF Follows, Busy, Left, c
<1>4. Len(program) \in Nat
  BY <1>2, ProgramFull
<1>5. i \in 1..Len(program) /\ Len(program) + 1 - i = Left(p)
  <2> HIDE DEF program
  <2>1. Len(program) \in Nat /\ Left(p) \in Nat \ {0} /\ Len(program) - Left(p) \in Nat
    BY <1>2, <1>3, <1>4
  <2> QED BY <2>1
<1>6. s \in program[i]
  BY <1>2, <1>3 DEF At
<1> HIDE DEF i
<1>7. PlaceOfEvictions(c(p).name, Len(program) + 1 - i, s)
  BY <1>2, <1>5, <1>6, EvictionTable
<1> QED BY <1>5, <1>7

(* A handler goes on, ends, or throws where a handler may.                  *)
Runs(p, s) == Moves(p, s) \/ (Halts(p, s) /\ s \in Throwing)

LEMMA RunsOn ==
  ASSUME ControlInv, ControlInv', NEW p \in Proc, NEW s, Runs(p, s)
  PROVE  /\ At(p, s) /\ Others(p) /\ Busy(p) /\ Left(p) \in Nat \ {0}
         /\ PlaceOfEvictions(c(p).name, Left(p), s)
         /\ \/ /\ Busy(p)' /\ c(p)' = c(p) /\ Left(p)' \in Nat \ {0}
               /\ \/ Left(p)' = Left(p) - 1
                  \/ Left(p)' = Left(p) /\ \E pair \in Pairs : s \in pair
            \/ ~ Busy(p)' /\ Moves(p, s) /\ Left(p) = 1
            \/ ~ Busy(p)' /\ s \in Throwing /\ UNCHANGED store
<1>1. At(p, s) /\ Others(p) /\ RInv /\ RInv'
  BY DEF Runs, Moves, Halts, ControlInv
<1>2. /\ Busy(p) /\ Left(p) \in Nat \ {0} /\ PlaceOfEvictions(c(p).name, Left(p), s)
      /\ ops[p].todo[1] = {s} \/ \E pair \in Pairs : s \in pair
  BY <1>1, Where, StepIndex
<1>3. Left(p)' \in Nat /\ (Busy(p)' <=> Left(p)' # 0)
  <2>1. ops'[p].todo \in Seq(SUBSET StepName)
    BY <1>1 DEF RInv, OpsOK, Op
  <2> QED BY <2>1 DEF Left, Busy
<1>4. CASE Goes(p, s)
  <2>1. /\ c(p)' = c(p)
        /\ \/ ops[p].todo[1] = {s} /\ Left(p)' = Left(p) - 1
           \/ ops[p].todo[1] # {s} /\ Left(p)' = Left(p) /\ Busy(p)'
    BY <1>1, <1>4, GoesOn
  <2>2. CASE Busy(p)'
    BY <1>1, <1>2, <1>3, <2>1, <2>2
  <2>3. CASE ~ Busy(p)'
    <3>1. Left(p)' = Left(p) - 1 /\ Left(p)' = 0
      BY <1>3, <2>1, <2>3
    <3>2. Left(p) = 1
      BY <1>2, <3>1
    <3>3. Moves(p, s)
      BY <1>1, <1>4 DEF Moves
    <3> QED BY <1>1, <1>2, <2>3, <3>2, <3>3
  <2> QED BY <2>2, <2>3
<1>5. CASE ~ Goes(p, s) /\ Moves(p, s)
  BY <1>1, <1>2, <1>5 DEF Moves, Stops, Busy
<1>6. CASE Halts(p, s) /\ s \in Throwing
  BY <1>1, <1>2, <1>6 DEF Halts, Stops, Busy
<1> QED BY <1>4, <1>5, <1>6 DEF Runs

(* What is owed stays owed until it is done; and what a step takes is owed. *)
LEMMA StillOwed ==
  ASSUME ControlInv, ControlInv', NEW p \in Proc, NEW s, Runs(p, s)
  PROVE  /\ s # "evictUser" => \A u : UserOwed(u) => UserOwed(u)'
         /\ \A u : u # c(p).u /\ UserOwed(u) => UserOwed(u)'
         /\ s # "evictAll" /\ AllOwed => AllOwed'
         /\ s \in UserTakes /\ Moves(p, s) => \A u : u = c(p).u => UserOwed(u)'
         /\ s \in AllTakes /\ Moves(p, s) => AllOwed'
<1>1. /\ Others(p) /\ Busy(p) /\ Left(p) \in Nat \ {0}
      /\ PlaceOfEvictions(c(p).name, Left(p), s)
      /\ \/ /\ Busy(p)' /\ c(p)' = c(p) /\ Left(p)' \in Nat \ {0}
            /\ \/ Left(p)' = Left(p) - 1
               \/ Left(p)' = Left(p) /\ \E pair \in Pairs : s \in pair
         \/ ~ Busy(p)' /\ Moves(p, s) /\ Left(p) = 1
         \/ ~ Busy(p)' /\ s \in Throwing /\ UNCHANGED store
  BY RunsOn
<1>2. \A q \in Proc : q # p => (Busy(q)' <=> Busy(q)) /\ c(q)' = c(q) /\ Left(q)' = Left(q)
  BY <1>1 DEF Others, Busy, c, Left
<1>3. MustEvictUser(c(p).name, Left(p)) /\ s # "evictUser"
        => /\ Busy(p)' /\ c(p)' = c(p)
           /\ MustEvictUser(c(p).name, Left(p)')
  BY <1>1 DEF PlaceOfEvictions, MustEvictUser
<1>4. MustEvictAll(c(p).name, Left(p)) /\ s # "evictAll"
        => /\ Busy(p)' /\ c(p)' = c(p)
           /\ MustEvictAll(c(p).name, Left(p)')
  BY <1>1 DEF PlaceOfEvictions, MustEvictAll
<1>5. s \in UserTakes /\ Moves(p, s)
        => /\ Busy(p)' /\ c(p)' = c(p)
           /\ MustEvictUser(c(p).name, Left(p)')
  BY <1>1 DEF PlaceOfEvictions, MustEvictUser, UserTakes, Pairs, Throwing
<1>6. s \in AllTakes /\ Moves(p, s)
        => /\ Busy(p)' /\ c(p)' = c(p)
           /\ MustEvictAll(c(p).name, Left(p)')
  <2> SUFFICES ASSUME s \in AllTakes, Moves(p, s)
               PROVE  Busy(p)' /\ c(p)' = c(p) /\ MustEvictAll(c(p).name, Left(p)')
    OBVIOUS
  <2>1. MustEvictAll(c(p).name, Left(p) - 1)
    BY <1>1 DEF PlaceOfEvictions
  <2>2. Left(p) # 1
    BY <2>1 DEF MustEvictAll
  <2>3. Busy(p)'
    <3>1. Goes(p, s)
      BY <2>2 DEF Moves
    <3>2. Left(p)' \in Nat /\ (Busy(p)' <=> Left(p)' # 0)
      <4>1. ops'[p].todo \in Seq(SUBSET StepName)
        BY DEF ControlInv, RInv, OpsOK, Op
      <4> QED BY <4>1 DEF Left, Busy
    <3>3. Left(p)' \in {Left(p), Left(p) - 1}
      BY <3>1, GoesOn DEF Moves
    <3> QED BY <1>1, <2>2, <3>2, <3>3
  <2>4. c(p)' = c(p) /\ (Left(p)' = Left(p) - 1 \/ (Left(p)' = Left(p) /\ \E pair \in Pairs : s \in pair))
    BY <1>1, <2>3
  <2>5. (\E pair \in Pairs : s \in pair) => s \in {"dropGrants", "dropOverrides"}
    BY DEF Pairs, AllTakes
  <2> QED BY <1>1, <2>1, <2>3, <2>4, <2>5 DEF PlaceOfEvictions
<1>7. \A u : UserOwed(u) /\ (s # "evictUser" \/ u # c(p).u) => UserOwed(u)'
  BY <1>2, <1>3 DEF UserOwed
<1>8. s # "evictAll" /\ AllOwed => AllOwed'
  BY <1>2, <1>4 DEF AllOwed
<1> QED BY <1>5, <1>6, <1>7, <1>8 DEF UserOwed, AllOwed

------------------------------------------------------------------------------
(* The steps of a handler: those that leave the documents the verifier      *)
(* reads, and the writes of each collection, with the call they make.       *)

Mild == {"findUser", "findActive", "findRole", "findNoRole", "findApp", "findNoApp", "idpDelete",
         "moveUsage", "dropUsage", "dropSessions", "openSession"}
UserWrite(p, s) ==
  \/ s = "writeRoles" /\ WriteRoles(p)
  \/ s = "writeDisabled" /\ WriteDisabled(p)
  \/ s = "writeActive" /\ WriteActive(p)
  \/ s = "pullOverride" /\ PullOverride(p)
  \/ s = "pushOverride" /\ PushOverride(p)
  \/ s = "removeUser" /\ RemoveUser(p)
  \/ s = "moveHolders" /\ MoveHolders(p)
  \/ s = "stripHolders" /\ StripHolders(p)
  \/ s = "moveOverrides" /\ MoveOverrides(p)
  \/ s = "dropOverrides" /\ DropOverrides(p)
RoleWrite(p, s) ==
  \/ s = "insertRole" /\ InsertRole(p)
  \/ s = "pullGrant" /\ PullGrant(p)
  \/ s = "pushGrant" /\ PushGrant(p)
  \/ s = "removeRole" /\ RemoveRole(p)
  \/ s = "moveRole" /\ MoveRole(p)
  \/ s = "moveGrants" /\ MoveGrants(p)
  \/ s = "dropGrants" /\ DropGrants(p)
AppWrite(p, s) ==
  \/ s = "insertApp" /\ InsertApp(p)
  \/ s = "writeApp" /\ WriteApp(p)
  \/ s = "writeSecret" /\ WriteSecret(p)
  \/ s = "removeApp" /\ RemoveApp(p)
  \/ s = "moveApp" /\ MoveApp(p)
Makes(p, s) ==
  \/ Halts(p, s) /\ s \in Throwing
  \/ Moves(p, s) /\ s \in Mild /\ UNCHANGED <<users, roles, apps>>
  \/ Moves(p, s) /\ UserWrite(p, s) /\ UNCHANGED <<roles, apps>>
  \/ Moves(p, s) /\ RoleWrite(p, s) /\ UNCHANGED <<users, apps>>
  \/ Moves(p, s) /\ AppWrite(p, s) /\ UNCHANGED <<users, roles>>

LEMMA StoreStepKinds ==
  ASSUME RInv, NEW p \in Proc, StoreStep(p)
  PROVE  Start(p) \/ \E s : Makes(p, s)
<1>1. ASSUME NEW s \in Mild, Done(p, s), UNCHANGED <<users, roles, apps>>
      PROVE  Makes(p, s)
  BY <1>1, DoneMoves DEF Makes
<1>2. ASSUME NEW s \in Throwing, Throw(p, s)
      PROVE  Makes(p, s)
  BY <1>2, ThrowHalts DEF Makes
<1>3. ASSUME NEW s \in Throwing \cap Mild, NEW found, Check(p, s, found)
      PROVE  Makes(p, s)
  BY <1>1, <1>2, <1>3 DEF Check, store
<1>4. CASE FindUser(p)
  BY <1>3, <1>4 DEF FindUser, Throwing, Mild
<1>5. CASE FindActive(p) \/ FindRole(p)
  BY <1>3, <1>5 DEF FindActive, FindRole, Throwing, Mild
<1>6. CASE FindNoRole(p) \/ FindNoApp(p)
  BY <1>3, <1>6 DEF FindNoRole, FindNoApp, Throwing, Mild
<1>7. CASE FindApp(p)
  <2>1. "findApp" \in Throwing /\ "findApp" \in Mild
    BY DEF Throwing, Mild
  <2> QED BY <1>7, <2>1, FindAppMoves DEF Makes, store
<1>8. CASE IdpDelete(p) \/ MoveUsage(p)
  <2>1. {"idpDelete", "moveUsage"} \subseteq Throwing /\ {"idpDelete", "moveUsage"} \subseteq Mild
    BY DEF Throwing, Mild
  <2> QED BY <1>1, <1>2, <1>8, <2>1 DEF IdpDelete, MoveUsage, store
<1>9. CASE DropUsage(p) \/ DropSessions(p) \/ OpenSession(p)
  <2>1. {"dropUsage", "dropSessions", "openSession"} \subseteq Mild
    BY DEF Mild
  <2> QED BY <1>1, <1>9, <2>1 DEF DropUsage, DropSessions, OpenSession, store
<1>10. CASE \/ WriteRoles(p) \/ WriteDisabled(p) \/ WriteActive(p)
            \/ PullOverride(p) \/ PushOverride(p)
  BY <1>10, DoneMoves DEF WriteRoles, WriteDisabled, WriteActive, PullOverride, PushOverride,
     PatchUser, UserWrite, Makes
<1>11. CASE \/ RemoveUser(p) \/ MoveHolders(p) \/ StripHolders(p)
            \/ MoveOverrides(p) \/ DropOverrides(p)
  BY <1>11, DoneMoves DEF RemoveUser, MoveHolders, StripHolders, MoveOverrides, DropOverrides,
     UserWrite, Makes
<1>12. CASE PullGrant(p) \/ PushGrant(p) \/ RemoveRole(p) \/ MoveGrants(p) \/ DropGrants(p)
  BY <1>12, DoneMoves DEF PullGrant, PushGrant, RemoveRole, MoveGrants, DropGrants, PatchRole,
     RoleWrite, Makes
<1>13. CASE InsertRole(p)
  <2>1. CASE Throw(p, "insertRole")
    BY <1>2, <2>1 DEF Throwing
  <2>2. CASE ~ Throw(p, "insertRole")
    BY <1>13, <2>2, DoneMoves DEF InsertRole, RoleWrite, Makes
  <2> QED BY <2>1, <2>2
<1>14. CASE MoveRole(p)
  <2>1. CASE Throw(p, "moveRole")
    BY <1>2, <2>1 DEF Throwing
  <2>2. CASE ~ Throw(p, "moveRole")
    BY <1>14, <2>2, DoneMoves DEF MoveRole, RoleWrite, Makes
  <2> QED BY <2>1, <2>2
<1>15. CASE WriteApp(p) \/ WriteSecret(p) \/ RemoveApp(p)
  BY <1>15, DoneMoves DEF WriteApp, WriteSecret, RemoveApp, AppWrite, Makes
<1>16. CASE InsertApp(p)
  <2>1. CASE Throw(p, "insertApp")
    BY <1>2, <2>1 DEF Throwing
  <2>2. CASE ~ Throw(p, "insertApp")
    BY <1>16, <2>2, DoneMoves DEF InsertApp, AppWrite, Makes
  <2> QED BY <2>1, <2>2
<1>17. CASE MoveApp(p)
  <2>1. CASE Throw(p, "moveApp")
    BY <1>2, <2>1 DEF Throwing
  <2>2. CASE ~ Throw(p, "moveApp")
    BY <1>17, <2>2, DoneMoves DEF MoveApp, AppWrite, Makes
  <2> QED BY <2>1, <2>2
<1> QED BY <1>4, <1>5, <1>6, <1>7, <1>8, <1>9, <1>10, <1>11, <1>12, <1>13, <1>14, <1>15, <1>16,
           <1>17 DEF StoreStep

LEMMA MakesRuns ==
  ASSUME NEW p, NEW s, Makes(p, s)
  PROVE  Runs(p, s) /\ s \notin {"evictUser", "evictAll"}
BY DEF Makes, Runs, Throwing, Mild, UserWrite, RoleWrite, AppWrite

(* The handlers in flight make calls of this instance; a handler that is to *)
(* move the holders of a role has moved the role.                           *)
CallsKnown == \A p \in Proc : Busy(p) => c(p) \in Calls
Emptied    == \A p \in Proc : At(p, "moveHolders") => roles[c(p).k] = Null

(* What a step leaves true of users, roles and apps.                        *)
UserKeeps(u) ==
  /\ \A a \in AppKey : Entitled(users[u], a) => Entitled(users'[u], a)
  /\ \A k \in RoleKey, a \in AppKey : Eligible(users[u], k, a) => Eligible(users'[u], k, a)
UserLosesGone(u) ==
  /\ \A a \in AppKey : Entitled(users[u], a) => Entitled(users'[u], a) \/ AppGone(a)'
  /\ \A k \in RoleKey, a \in AppKey :
       Eligible(users[u], k, a) => Eligible(users'[u], k, a) \/ RoleGone(k)'
RolesKeep ==
  \A k \in RoleKey, a \in AppKey : Granting(roles[k], a) => Granting(roles'[k], a)
AppKeeps(a) ==
  ActiveApp(apps[a]) => ActiveApp(apps'[a]) /\ (NoNewSecret => apps'[a].secret = apps[a].secret)

LEMMA PatchedKeeps ==
  ASSUME NEW w \in User, NEW new, PatchUser(w, new), users \in [User -> UserDoc \cup {Null}],
         NEW u \in User, u # w
  PROVE  UserKeeps(u)
BY DEF PatchUser, UserKeeps

LEMMA ActiveKeeps ==
  ASSUME RInv, NEW p \in Proc, WriteActive(p), NEW u \in User
  PROVE  UserKeeps(u)
<1>1. c(p).u \in User /\ users \in [User -> UserDoc \cup {Null}]
  BY CallOK DEF WriteActive, Done, Call, RInv, StoreOK
<1>2. CASE u # c(p).u
  BY <1>1, <1>2, PatchedKeeps DEF WriteActive
<1>3. CASE u = c(p).u
  <2>1. users'[u] = IF users[u] = Null THEN Null ELSE [users[u] EXCEPT !.status = "active"]
    BY <1>1, <1>3 DEF WriteActive, PatchUser
  <2>2. CASE users[u] = Null
    BY <2>1, <2>2 DEF UserKeeps
  <2>3. CASE users[u] # Null
    <3>1. users[u] \in UserDoc /\ users'[u] \in UserDoc /\ users'[u].status = "active"
          /\ users'[u].roles = users[u].roles /\ users'[u].overrides = users[u].overrides
      BY <1>1, <2>1, <2>3 DEF UserDoc
    <3>2. users'[u] # Null
      BY <3>1, NullAssumption
    <3> QED BY <3>1, <3>2 DEF UserKeeps, Entitled, Eligible, ActiveUser, HasOverride
  <2> QED BY <2>2, <2>3
<1> QED BY <1>2, <1>3

(* The holders' slots: who loses the key, and nothing else.                 *)
LEMMA HoldersLose ==
  ASSUME RInv, NEW p \in Proc, MoveHolders(p) \/ StripHolders(p), NEW u \in User
  PROVE  /\ \A a \in AppKey : Entitled(users[u], a) => Entitled(users'[u], a)
         /\ \A k \in RoleKey, a \in AppKey :
              Eligible(users[u], k, a) => Eligible(users'[u], k, a) \/ k = c(p).k
<1>1. users[u] \in UserDoc \cup {Null}
  BY DEF RInv, StoreOK
<1>2. CASE ~ Holds(users[u], c(p).k)
  <2>1. users'[u] = users[u]
    BY <1>2 DEF MoveHolders, StripHolders
  <2> QED BY <2>1
<1>3. CASE Holds(users[u], c(p).k)
  <2>1. users[u] # Null /\ users[u] \in UserDoc
    BY <1>1, <1>3 DEF Holds
  <2>2. c(p).k \in RoleKey /\ c(p).k2 \in RoleKey
    BY CallOK DEF MoveHolders, StripHolders, Done, Call
  <2>3. \E new \in SUBSET RoleKey : /\ users'[u] = [users[u] EXCEPT !.roles = new]
                                    /\ users[u].roles \ {c(p).k} \subseteq new
    <3>1. CASE MoveHolders(p)
      <4>1. users'[u] = [users[u] EXCEPT !.roles = (users[u].roles \ {c(p).k}) \cup {c(p).k2}]
        BY <1>3, <3>1 DEF MoveHolders
      <4> QED BY <2>1, <2>2, <4>1 DEF UserDoc
    <3>2. CASE StripHolders(p)
      <4>1. users'[u] = [users[u] EXCEPT !.roles = users[u].roles \ {c(p).k}]
        BY <1>3, <3>2 DEF StripHolders
      <4> QED BY <2>1, <2>2, <4>1 DEF UserDoc
    <3> QED BY <3>1, <3>2
  <2>4. PICK new \in SUBSET RoleKey : /\ users'[u] = [users[u] EXCEPT !.roles = new]
                                      /\ users[u].roles \ {c(p).k} \subseteq new
    BY <2>3
  <2>5. users'[u] \in UserDoc /\ users'[u].status = users[u].status /\ users'[u].roles = new
        /\ users'[u].overrides = users[u].overrides
    BY <2>1, <2>4 DEF UserDoc
  <2>6. users'[u] # Null
    BY <2>5, NullAssumption
  <2> QED BY <2>4, <2>5, <2>6 DEF Entitled, Eligible, ActiveUser, HasOverride
<1> QED BY <1>2, <1>3

LEMMA OverridesLose ==
  ASSUME RInv, NEW p \in Proc, DropOverrides(p), NEW u \in User
  PROVE  /\ \A a \in AppKey : Entitled(users[u], a) => Entitled(users'[u], a) \/ a = c(p).a
         /\ \A k \in RoleKey, a \in AppKey : Eligible(users[u], k, a) => Eligible(users'[u], k, a)
<1>1. users[u] \in UserDoc \cup {Null}
  BY DEF RInv, StoreOK
<1>2. CASE users[u] = Null
  BY <1>2 DEF Entitled, Eligible, ActiveUser
<1>3. CASE users[u] # Null
  <2>1. /\ users[u] \in UserDoc
        /\ users'[u] = [users[u] EXCEPT !.overrides = {o \in users[u].overrides : o.app # c(p).a}]
    BY <1>1, <1>3 DEF DropOverrides
  <2>2. users'[u] \in UserDoc /\ users'[u].status = users[u].status
        /\ users'[u].roles = users[u].roles
        /\ users'[u].overrides = {o \in users[u].overrides : o.app # c(p).a}
    BY <2>1 DEF UserDoc
  <2>3. users'[u] # Null
    BY <2>2, NullAssumption
  <2>4. \A a \in AppKey : HasOverride(users'[u], a, "deny") => HasOverride(users[u], a, "deny")
    BY <2>2 DEF HasOverride
  <2>5. \A a \in AppKey : a # c(p).a /\ HasOverride(users[u], a, "allow")
                            => HasOverride(users'[u], a, "allow")
    BY <2>2 DEF HasOverride
  <2> QED BY <2>2, <2>3, <2>4, <2>5 DEF Entitled, Eligible, ActiveUser
<1> QED BY <1>2, <1>3

(* A key that is gone stays gone: nothing that could make it is called.     *)
LEMMA FreedStays ==
  ASSUME ControlInv, CallsKnown, NoAppRename, KeysStay, NEW p \in Proc, NEW s, Makes(p, s)
  PROVE  /\ \A k \in FreedRoles : k \in RoleKey /\ roles[k] = Null => roles'[k] = Null
         /\ \A a \in FreedApps : a \in AppKey /\ apps[a] = Null => apps'[a] = Null
<1>1. /\ At(p, s) /\ Busy(p) /\ c(p) \in Calls /\ c(p) \in Call
      /\ PlaceOfReads(c(p).name, Left(p), s) /\ Place(c(p).name, Left(p), s)
  BY MakesRuns, Where DEF Runs, Moves, Halts, CallsKnown
<1>2. /\ s = "insertRole" \/ s = "moveRole" => c(p).k2 \notin FreedRoles
      /\ s = "insertApp" => c(p).a2 \notin FreedApps
      /\ s # "moveApp"
  BY <1>1 DEF PlaceOfReads, Place, KeysStay, NoAppRename
<1>3. c(p).k2 \in RoleKey /\ c(p).a2 \in AppKey /\ c(p).k \in RoleKey /\ c(p).a \in AppKey
  BY <1>1 DEF Call
<1>4. roles \in [RoleKey -> RoleDoc \cup {Null}] /\ apps \in [AppKey -> AppDoc \cup {Null}]
  BY DEF ControlInv, RInv, StoreOK
<1>5. CASE Halts(p, s)
  BY <1>5 DEF Halts, store
<1>6. CASE UNCHANGED <<roles, apps>>
  BY <1>6
<1>7. CASE RoleWrite(p, s) /\ UNCHANGED <<users, apps>>
  <2>1. ASSUME NEW k \in RoleKey, k \in FreedRoles, roles[k] = Null
        PROVE  roles'[k] = Null
    <3>1. CASE s = "insertRole"
      BY <1>2, <1>4, <1>7, <2>1, <3>1 DEF RoleWrite, InsertRole, Throw, store
    <3>2. CASE s = "moveRole"
      <4>1. roles' = roles \/ roles' = [roles EXCEPT ![c(p).k2] = roles[c(p).k], ![c(p).k] = Null]
        BY <1>7, <3>2 DEF RoleWrite, MoveRole, Throw, store
      <4> QED BY <1>2, <1>4, <2>1, <3>2, <4>1
    <3>3. CASE PullGrant(p) \/ PushGrant(p) \/ RemoveRole(p)
      BY <1>3, <1>4, <2>1, <3>3 DEF PullGrant, PushGrant, RemoveRole, PatchRole
    <3>4. CASE MoveGrants(p) \/ DropGrants(p)
      BY <2>1, <3>4 DEF MoveGrants, DropGrants
    <3> QED BY <1>7, <3>1, <3>2, <3>3, <3>4 DEF RoleWrite
  <2> QED BY <1>7, <2>1
<1>8. CASE AppWrite(p, s) /\ UNCHANGED <<users, roles>>
  <2>1. ASSUME NEW a \in AppKey, a \in FreedApps, apps[a] = Null
        PROVE  apps'[a] = Null
    <3>1. CASE s = "insertApp"
      BY <1>2, <1>4, <1>8, <2>1, <3>1 DEF AppWrite, InsertApp, Throw, store
    <3>2. CASE WriteApp(p) \/ RemoveApp(p)
      BY <1>3, <1>4, <2>1, <3>2 DEF WriteApp, RemoveApp
    <3>3. CASE WriteSecret(p)
      BY <1>3, <1>4, <2>1, <3>3 DEF WriteSecret
    <3> QED BY <1>2, <1>8, <3>1, <3>2, <3>3 DEF AppWrite
  <2> QED BY <1>8, <2>1
<1> QED BY <1>5, <1>6, <1>7, <1>8 DEF Makes

LEMMA GoneStays ==
  ASSUME ControlInv, ControlInv', CallsKnown, NoAppRename, KeysStay, NEW p \in Proc, NEW s,
         Makes(p, s)
  PROVE  /\ \A k \in RoleKey : RoleGone(k) => RoleGone(k)'
         /\ \A a \in AppKey : AppGone(a) => AppGone(a)'
<1>1. /\ Others(p) /\ Busy(p) /\ Left(p) \in Nat \ {0}
      /\ PlaceOfEvictions(c(p).name, Left(p), s)
      /\ \/ /\ Busy(p)' /\ c(p)' = c(p) /\ Left(p)' \in Nat \ {0}
            /\ \/ Left(p)' = Left(p) - 1
               \/ Left(p)' = Left(p) /\ \E pair \in Pairs : s \in pair
         \/ ~ Busy(p)' /\ Moves(p, s) /\ Left(p) = 1
         \/ ~ Busy(p)' /\ s \in Throwing /\ UNCHANGED store
  BY MakesRuns, RunsOn
<1>2. \A q \in Proc : q # p => (Busy(q)' <=> Busy(q)) /\ c(q)' = c(q) /\ Left(q)' = Left(q)
  BY <1>1 DEF Others, Busy, c, Left
<1>3. roles \in [RoleKey -> RoleDoc \cup {Null}] /\ apps \in [AppKey -> AppDoc \cup {Null}]
  BY DEF ControlInv, RInv, StoreOK
<1>4. ASSUME NEW k \in RoleKey, RoleLeaves(p, k)
      PROVE  roles'[k] = Null
  <2>1. s = "removeRole"
    BY <1>1, <1>4 DEF PlaceOfEvictions, RoleLeaves
  <2>2. RemoveRole(p)
    BY <2>1 DEF Makes, RoleWrite, UserWrite, AppWrite, Mild, Throwing
  <2> QED BY <1>3, <1>4, <2>2 DEF RemoveRole, RoleLeaves
<1>5. ASSUME NEW a \in AppKey, AppLeaves(p, a)
      PROVE  AppLeaves(p, a)' \/ apps'[a] = Null
  <2>1. CASE Left(p) = 3
    <3>1. s = "removeApp"
      BY <1>1, <1>5, <2>1 DEF PlaceOfEvictions, AppLeaves
    <3>2. RemoveApp(p)
      BY <3>1 DEF Makes, RoleWrite, UserWrite, AppWrite, Mild, Throwing
    <3> QED BY <1>3, <1>5, <3>2 DEF RemoveApp, AppLeaves
  <2>2. CASE Left(p) = 4
    <3>1. s \in {"dropGrants", "dropOverrides"}
      BY <1>1, <1>5, <2>2 DEF PlaceOfEvictions, AppLeaves
    <3>2. Busy(p)' /\ c(p)' = c(p) /\ Left(p)' \in {3, 4}
      BY <1>1, <2>2, <3>1 DEF Throwing
    <3> QED BY <1>5, <3>2 DEF AppLeaves
  <2> QED BY <1>5, <2>1, <2>2 DEF AppLeaves
<1>6. \A q \in Proc : q # p => \A x : /\ RoleLeaves(q, x) => RoleLeaves(q, x)'
                                      /\ AppLeaves(q, x) => AppLeaves(q, x)'
  BY <1>2 DEF RoleLeaves, AppLeaves
<1>7. ASSUME NEW k \in RoleKey, RoleGone(k) PROVE RoleGone(k)'
  BY <1>4, <1>6, <1>7, FreedStays DEF RoleGone
<1>8. ASSUME NEW a \in AppKey, AppGone(a) PROVE AppGone(a)'
  BY <1>5, <1>6, <1>8, FreedStays DEF AppGone
<1> QED BY <1>7, <1>8

(* What a step takes from anybody, an eviction to come makes good.          *)
LEMMA OwedForRoles ==
  ASSUME ControlInv, ControlInv', CallsKnown, NoAppRename, NEW p \in Proc, NEW s, Makes(p, s)
  PROVE  RolesKeep \/ AllOwed'
<1>1. /\ At(p, s) /\ Busy(p) /\ c(p) \in Calls /\ c(p) \in Call
      /\ Place(c(p).name, Left(p), s)
  BY MakesRuns, Where DEF Runs, Moves, Halts, CallsKnown
<1>2. Runs(p, s)
  BY MakesRuns
<1>3. roles \in [RoleKey -> RoleDoc \cup {Null}] /\ c(p).k2 \in RoleKey /\ c(p).k \in RoleKey
      /\ c(p).a \in AppKey
  BY <1>1 DEF ControlInv, RInv, StoreOK, Call
<1>4. CASE UNCHANGED roles
  BY <1>4 DEF RolesKeep
<1>5. CASE s \in AllTakes /\ Moves(p, s)
  BY <1>2, <1>5, StillOwed
<1>6. CASE RoleWrite(p, s) /\ s \notin AllTakes /\ Moves(p, s)
  <2>1. s \in {"insertRole", "pushGrant"}
    BY <1>1, <1>6 DEF RoleWrite, AllTakes, Place, NoAppRename
  <2>2. CASE s = "insertRole"
    <3>1. roles' = roles \/ (roles[c(p).k2] = Null /\ roles' = [roles EXCEPT ![c(p).k2] = [grants |-> {}]])
      BY <1>6, <2>2 DEF RoleWrite, InsertRole, Throw, store
    <3> QED BY <1>3, <3>1 DEF RolesKeep, Granting
  <2>3. CASE s = "pushGrant"
    <3> DEFINE k   == c(p).k
               new == [roles[k] EXCEPT !.grants = @ \cup {c(p).a}]
    <3>1. roles' = [roles EXCEPT ![k] = IF @ = Null THEN Null ELSE new]
      BY <1>6, <2>3 DEF RoleWrite, PushGrant, PatchRole
    <3>2. CASE roles[k] = Null
      <4>1. roles' = roles
        BY <1>3, <3>1, <3>2
      <4> QED BY <4>1 DEF RolesKeep
    <3>3. CASE roles[k] # Null
      <4>1. roles[k] \in RoleDoc /\ new \in RoleDoc /\ roles[k].grants \subseteq new.grants
        BY <1>3, <3>3 DEF RoleDoc
      <4>2. new # Null
        BY <4>1, NullAssumption
      <4>3. roles' = [roles EXCEPT ![k] = new]
        BY <3>1, <3>3
      <4> HIDE DEF new
      <4> QED BY <1>3, <4>1, <4>2, <4>3 DEF RolesKeep, Granting
    <3> QED BY <3>2, <3>3
  <2> QED BY <2>1, <2>2, <2>3
<1> QED BY <1>4, <1>5, <1>6 DEF Makes, Halts, store

LEMMA OwedForApps ==
  ASSUME ControlInv, ControlInv', CallsKnown, NoAppRename, NEW p \in Proc, NEW s, Makes(p, s)
  PROVE  (\A a \in AppKey : AppKeeps(a)) \/ AllOwed'
<1>1. /\ At(p, s) /\ Busy(p) /\ c(p) \in Calls /\ c(p) \in Call
      /\ Place(c(p).name, Left(p), s) /\ PlaceOfReads(c(p).name, Left(p), s)
  BY MakesRuns, Where DEF Runs, Moves, Halts, CallsKnown
<1>2. Runs(p, s)
  BY MakesRuns
<1>3. apps \in [AppKey -> AppDoc \cup {Null}] /\ c(p).a2 \in AppKey /\ c(p).a \in AppKey
  BY <1>1 DEF ControlInv, RInv, StoreOK, Call
<1>4. CASE UNCHANGED apps
  BY <1>4 DEF AppKeeps
<1>5. CASE s \in AllTakes /\ Moves(p, s)
  BY <1>2, <1>5, StillOwed
<1>6. CASE AppWrite(p, s) /\ s \notin AllTakes /\ Moves(p, s)
  <2>1. s \in {"insertApp", "writeSecret"}
    BY <1>1, <1>6 DEF AppWrite, AllTakes, Place, NoAppRename
  <2>2. CASE s = "insertApp"
    <3>1. apps' = apps \/ (apps[c(p).a2] = Null /\ \E new : apps' = [apps EXCEPT ![c(p).a2] = new])
      BY <1>6, <2>2 DEF AppWrite, InsertApp, Throw, store
    <3> QED BY <1>3, <3>1 DEF AppKeeps, ActiveApp
  <2>3. CASE s = "writeSecret"
    <3>1. ~ NoNewSecret
      BY <1>1, <2>3 DEF PlaceOfReads, NoNewSecret
    <3>2. PICK new \in Secret :
            apps' = [apps EXCEPT ![c(p).a] = IF @ = Null THEN Null ELSE [@ EXCEPT !.secret = new]]
      BY <1>6, <2>3 DEF AppWrite, WriteSecret
    <3>3. ASSUME NEW a \in AppKey, ActiveApp(apps[a]) PROVE ActiveApp(apps'[a])
      <4>1. apps[a] \in AppDoc /\ apps[a].status = "active"
        BY <1>3, <3>3 DEF ActiveApp
      <4>2. apps'[a] = apps[a] \/ apps'[a] = [apps[a] EXCEPT !.secret = new]
        BY <1>3, <3>2, <3>3 DEF ActiveApp
      <4>3. apps'[a] \in AppDoc /\ apps'[a].status = "active"
        BY <4>1, <4>2 DEF AppDoc
      <4> QED BY <4>3, NullAssumption DEF ActiveApp
    <3> QED BY <3>1, <3>3 DEF AppKeeps
  <2> QED BY <2>1, <2>2, <2>3
<1> QED BY <1>4, <1>5, <1>6 DEF Makes, Halts, store

LEMMA OwedForUsers ==
  ASSUME ControlInv, ControlInv', CallsKnown, Emptied, NoAppRename, NEW p \in Proc, NEW s,
         Makes(p, s), NEW u \in User
  PROVE  \/ UserKeeps(u)
         \/ u = c(p).u /\ UserOwed(u)'
         \/ u = c(p).u /\ c(p).name = "deleteUser" /\ Left(p) = 2
         \/ AllOwed' /\ UserLosesGone(u)
<1>1. /\ At(p, s) /\ Busy(p) /\ c(p) \in Calls /\ c(p) \in Call
      /\ Place(c(p).name, Left(p), s) /\ PlaceOfReads(c(p).name, Left(p), s)
      /\ Left(p) \in Nat \ {0}
  BY MakesRuns, Where DEF Runs, Moves, Halts, CallsKnown
<1>2. /\ Runs(p, s) /\ RInv
      /\ \/ /\ Busy(p)' /\ c(p)' = c(p) /\ Left(p)' \in Nat \ {0}
            /\ \/ Left(p)' = Left(p) - 1
               \/ Left(p)' = Left(p) /\ \E pair \in Pairs : s \in pair
         \/ ~ Busy(p)' /\ Moves(p, s) /\ Left(p) = 1
         \/ ~ Busy(p)' /\ s \in Throwing /\ UNCHANGED store
  BY MakesRuns, RunsOn DEF ControlInv
<1>3. users \in [User -> UserDoc \cup {Null}] /\ c(p).u \in User
  BY <1>1, <1>2 DEF RInv, StoreOK, Call
<1>4. CASE UNCHANGED users
  BY <1>4 DEF UserKeeps
<1>5. CASE s \in UserTakes /\ Moves(p, s) /\ UserWrite(p, s)
  <2>1. u = c(p).u => UserOwed(u)'
    BY <1>2, <1>5, StillOwed
  <2>2. u # c(p).u => UserKeeps(u)
    BY <1>3, <1>5, PatchedKeeps DEF UserWrite, UserTakes, WriteRoles, WriteDisabled, PullOverride,
       PushOverride
  <2> QED BY <2>1, <2>2
<1>6. CASE UserWrite(p, s) /\ s = "writeActive"
  BY <1>2, <1>6, ActiveKeeps DEF UserWrite
<1>7. CASE UserWrite(p, s) /\ s = "removeUser"
  <2>1. c(p).name = "deleteUser" /\ Left(p) = 2
    BY <1>1, <1>7 DEF Place
  <2>2. u # c(p).u => UserKeeps(u)
    BY <1>3, <1>7 DEF UserWrite, RemoveUser, UserKeeps
  <2> QED BY <2>1, <2>2
<1>8. CASE UserWrite(p, s) /\ s \in {"moveHolders", "stripHolders"} /\ Moves(p, s) /\ UNCHANGED roles
  <2>1. AllOwed'
    BY <1>2, <1>8, StillOwed DEF AllTakes
  <2>2. c(p).k \in FreedRoles
    BY <1>1, <1>8 DEF Place, FreedRoles
  <2>3. \A k : k = c(p).k => RoleGone(k)'
    <3>1. CASE s = "moveHolders"
      BY <1>1, <1>8, <2>2, <3>1 DEF Emptied, RoleGone
    <3>2. CASE s = "stripHolders"
      <4>1. c(p).name = "deleteRole" /\ Left(p) = 3
        BY <1>1, <3>2 DEF Place
      <4>2. Busy(p)' /\ c(p)' = c(p) /\ Left(p)' = 2
        BY <1>2, <3>2, <4>1 DEF Throwing, Pairs
      <4>3. \A k : k = c(p).k => RoleLeaves(p, k)'
        BY <4>1, <4>2 DEF RoleLeaves
      <4> QED BY <2>2, <4>3 DEF RoleGone
    <3> QED BY <1>8, <3>1, <3>2
  <2>4. MoveHolders(p) \/ StripHolders(p)
    BY <1>8 DEF UserWrite
  <2> QED BY <1>2, <2>1, <2>3, <2>4, HoldersLose DEF UserLosesGone
<1>9. CASE UserWrite(p, s) /\ s = "dropOverrides" /\ Moves(p, s)
  <2>1. AllOwed'
    BY <1>2, <1>9, StillOwed DEF AllTakes
  <2>2. c(p).name = "deleteApp" /\ Left(p) = 4
    BY <1>1, <1>9 DEF Place
  <2>3. c(p).a \in FreedApps
    BY <1>1, <2>2 DEF FreedApps
  <2>4. Busy(p)' /\ c(p)' = c(p) /\ Left(p)' \in {3, 4}
    BY <1>2, <1>9, <2>2 DEF Throwing
  <2>5. \A a : a = c(p).a => AppGone(a)'
    BY <2>2, <2>3, <2>4 DEF AppGone, AppLeaves
  <2>6. DropOverrides(p)
    BY <1>9 DEF UserWrite
  <2> QED BY <1>2, <2>1, <2>5, <2>6, OverridesLose DEF UserLosesGone
<1>10. s # "moveOverrides"
  BY <1>1 DEF Place, NoAppRename
<1> QED BY <1>4, <1>5, <1>6, <1>7, <1>8, <1>9, <1>10 DEF Makes, UserWrite, UserTakes, Halts, store

------------------------------------------------------------------------------
(* What the caches and the requests in flight have in hand is true still,   *)
(* or a handler in flight is going to evict it.                             *)

LetsIn(u, a) ==
  \/ Entitled(users[u], a)
  \/ \E k \in RoleKey : Eligible(users[u], k, a) /\ Granting(roles[k], a)
AppStands(app, a) ==
  ActiveApp(app) => ActiveApp(apps[a]) /\ (NoNewSecret => app.secret = apps[a].secret)
UserStands(user, u) ==
  /\ \A a \in AppKey : Entitled(user, a) => Entitled(users[u], a) \/ AppGone(a)
  /\ \A k \in RoleKey, a \in AppKey :
       Eligible(user, k, a) => Eligible(users[u], k, a) \/ RoleGone(k)

AppsFresh ==
  \A a \in AppKey : appCache[a] # Null => AppStands(appCache[a].value, a) \/ AllOwed
UsersFresh ==
  \A u \in User : userCache[u] # Null => UserStands(userCache[u].value, u) \/ UserOwed(u)
DecisionsFresh ==
  \A u \in User, a \in AppKey :
    decisionCache[<<u, a>>] # Null /\ Allowed(decisionCache[<<u, a>>].value)
      => LetsIn(u, a) \/ UserOwed(u) \/ AllOwed

(* deleteUser evicts before it removes the user: nothing is cached again.   *)
Forgotten ==
  \A p \in Proc : Busy(p) /\ c(p).name = "deleteUser" /\ Left(p) <= 3 =>
    \A u \in User : u = c(p).u =>
      userCache[u] = Null /\ \A a \in AppKey : decisionCache[<<u, a>>] = Null

AppInHand(req) ==
  /\ AppStands(req.app, req.a)
  /\ req.pc = "appFill" => req.doc = apps[req.a]
UserInHand(req) ==
  /\ req.user # Null => UserStands(req.user, req.u)
  /\ req.pc = "userFill" => req.doc = users[req.u]
  /\ req.granting # Null => \A k \in req.granting : Granting(roles[k], req.a)

AppSide ==
  /\ CallsKnown /\ AppsFresh
  /\ \A r \in Request : reqs[r].pc # "idle" => Quiet /\ AppInHand(reqs[r])
UserSide ==
  /\ Emptied /\ UsersFresh /\ DecisionsFresh /\ Forgotten
  /\ \A r \in Request : reqs[r].pc # "idle" => UserInHand(reqs[r])
Sound == ControlInv /\ GInv

LEMMA QuietOwes ==
  ASSUME Quiet
  PROVE  /\ ~ AllOwed /\ \A u : ~ UserOwed(u)
         /\ \A k : RoleGone(k) => roles[k] = Null
         /\ \A a : AppGone(a) => apps[a] = Null
BY DEF Quiet, Busy, AllOwed, UserOwed, RoleGone, RoleLeaves, AppGone, AppLeaves

LEMMA StoreStands ==
  ASSUME UNCHANGED rvars
  PROVE  /\ AllOwed' <=> AllOwed
         /\ \A u : UserOwed(u)' <=> UserOwed(u)
         /\ \A k : RoleGone(k)' <=> RoleGone(k)
         /\ \A a : AppGone(a)' <=> AppGone(a)
         /\ Quiet' <=> Quiet
         /\ CallsKnown' <=> CallsKnown
         /\ Emptied' <=> Emptied
         /\ \A user, u : UserStands(user, u)' <=> UserStands(user, u)
         /\ \A app, a : AppStands(app, a)' <=> AppStands(app, a)
         /\ \A u, a : LetsIn(u, a)' <=> LetsIn(u, a)
<1>1. UNCHANGED <<users, roles, apps, ops>>
  BY DEF rvars
<1>2. \A p : /\ Busy(p)' <=> Busy(p)
             /\ c(p)' = c(p) /\ Left(p)' = Left(p)
             /\ \A s : At(p, s)' <=> At(p, s)
  BY <1>1 DEF Busy, c, Left, At
<1>3. (AllOwed' <=> AllOwed) /\ (\A u : UserOwed(u)' <=> UserOwed(u))
  BY <1>2 DEF AllOwed, UserOwed
<1>4. (\A k : RoleGone(k)' <=> RoleGone(k)) /\ (\A a : AppGone(a)' <=> AppGone(a))
  BY <1>1, <1>2 DEF RoleGone, RoleLeaves, AppGone, AppLeaves
<1>5. (Quiet' <=> Quiet) /\ (CallsKnown' <=> CallsKnown) /\ (Emptied' <=> Emptied)
  BY <1>1, <1>2 DEF Quiet, CallsKnown, Emptied
<1>6. \A user, u : UserStands(user, u)' <=> UserStands(user, u)
  BY <1>1, <1>4 DEF UserStands
<1>7. /\ \A app, a : AppStands(app, a)' <=> AppStands(app, a)
      /\ \A u, a : LetsIn(u, a)' <=> LetsIn(u, a)
  BY <1>1 DEF AppStands, LetsIn
<1> QED BY <1>3, <1>4, <1>5, <1>6, <1>7

(* A handler that starts takes nothing yet.                                 *)
LEMMA StartOwes ==
  ASSUME RInv, NEW p \in Proc, Start(p), CallsKnown
  PROVE  /\ AllOwed => AllOwed'
         /\ \A u : UserOwed(u) => UserOwed(u)'
         /\ \A k : RoleGone(k) => RoleGone(k)'
         /\ \A a : AppGone(a) => AppGone(a)'
         /\ CallsKnown' /\ UNCHANGED <<users, roles, apps>>
<1>1. ~ Busy(p) /\ Others(p) /\ UNCHANGED store /\ c(p)' \in Calls
  BY StartMoves
<1>2. \A q \in Proc : q # p => (Busy(q)' <=> Busy(q)) /\ c(q)' = c(q) /\ Left(q)' = Left(q)
  BY <1>1 DEF Others, Busy, c, Left
<1>3. (AllOwed => AllOwed') /\ (\A u : UserOwed(u) => UserOwed(u)')
  BY <1>1, <1>2 DEF AllOwed, UserOwed
<1>4. (\A k : RoleGone(k) => RoleGone(k)') /\ (\A a : AppGone(a) => AppGone(a)')
  BY <1>1, <1>2 DEF RoleGone, RoleLeaves, AppGone, AppLeaves, store
<1>5. CallsKnown'
  BY <1>1, <1>2 DEF CallsKnown
<1> QED BY <1>1, <1>3, <1>4, <1>5 DEF store

LEMMA CallsStayKnown ==
  ASSUME ControlInv, ControlInv', CallsKnown, NEW p \in Proc, NEW s, Runs(p, s)
  PROVE  CallsKnown'
<1>1. Others(p) /\ Busy(p) /\ (Busy(p)' => c(p)' = c(p))
  BY RunsOn
<1>2. \A q \in Proc : q # p => (Busy(q)' <=> Busy(q)) /\ c(q)' = c(q)
  BY <1>1 DEF Others, Busy, c
<1> QED BY <1>1, <1>2 DEF CallsKnown

LEMMA NextRegistry == [Next]_gvars => [RNext]_rvars
<1> SUFFICES ASSUME [Next]_gvars PROVE [RNext]_rvars
  OBVIOUS
<1>1. ASSUME NEW p \in Proc, Handler(p) \/ EvictUserEntries(p) \/ EvictAllEntries(p)
      PROVE  RNext
  BY <1>1 DEF Handler, EvictUserEntries, EvictAllEntries, RNext
<1>2. ASSUME NEW r \in Request, NEW u \in User, NEW a \in AppKey, Arrive(r, u, a)
      PROVE  UNCHANGED rvars
  BY <1>2 DEF Arrive
<1>3. ASSUME NEW r \in Request,
             \/ LookupUser(r) \/ ReadUser(r) \/ FillUser(r)
             \/ LookupApp(r) \/ ReadApp(r) \/ FillApp(r)
             \/ Verify(r) \/ ReadRoles(r) \/ Decide(r)
      PROVE  UNCHANGED rvars
  BY <1>3 DEF LookupUser, ReadUser, FillUser, LookupApp, ReadApp, FillApp, Verify, ReadRoles, Decide
<1>4. ASSUME Tick \/ Restart \/ RestartWeb PROVE [RNext]_rvars
  BY <1>4 DEF Tick, Restart, RestartWeb, RNext
<1> QED BY <1>1, <1>2, <1>3, <1>4 DEF Next, gvars

------------------------------------------------------------------------------
(* The shapes of what a request becomes.                                    *)

LEMMA ResolveShape ==
  ASSUME NEW req \in ReqType, NEW app
  PROVE  LET new == Resolve(req, app) IN
         /\ new.pc = "ready" /\ new.u = req.u /\ new.a = req.a /\ new.user = req.user
         /\ new.granting = req.granting /\ new.app \in {req.app, app}
BY DEF Resolve, ReqType

LEMMA AttachShape ==
  ASSUME NEW req \in ReqType, NEW user
  PROVE  LET new == Attach(req, user) IN
         /\ new.pc = "app" /\ new.u = req.u /\ new.a = req.a /\ new.app = req.app
         /\ new.granting = req.granting /\ new.user \in {Null, user}
BY DEF Attach, ReqType

(* A request goes on with an app that stands: from the cache, when nothing  *)
(* is owed to it.                                                           *)
LEMMA LookAppInHand ==
  ASSUME AppSide, Quiet, NEW req \in ReqType, AppInHand(req)
  PROVE  LET new == LookApp(req) IN
         /\ new.pc \in {"ready", "appRead"} /\ new.u = req.u /\ new.a = req.a
         /\ new.user = req.user /\ new.granting = req.granting /\ AppInHand(new)
<1>1. CASE Live(appCache[req.a], AppTtl)
  <2> DEFINE app == appCache[req.a].value
             new == Resolve(req, app)
  <2>1. LookApp(req) = new
    BY <1>1 DEF LookApp
  <2>2. req.a \in AppKey /\ appCache[req.a] # Null
    BY <1>1 DEF Live, ReqType
  <2>3. AppStands(app, req.a)
    BY <2>2, QuietOwes DEF AppSide, AppsFresh
  <2>4. /\ new.pc = "ready" /\ new.u = req.u /\ new.a = req.a /\ new.user = req.user
        /\ new.granting = req.granting /\ new.app \in {req.app, app}
    BY ResolveShape
  <2> HIDE DEF new, app
  <2>5. AppInHand(new)
    BY <2>3, <2>4 DEF AppInHand
  <2> QED BY <2>1, <2>4, <2>5
<1>2. CASE ~ Live(appCache[req.a], AppTtl)
  <2> DEFINE new == [req EXCEPT !.pc = "appRead"]
  <2>1. LookApp(req) = new
    BY <1>2 DEF LookApp
  <2>2. /\ new.pc = "appRead" /\ new.u = req.u /\ new.a = req.a /\ new.user = req.user
        /\ new.granting = req.granting /\ new.app = req.app
    BY DEF ReqType
  <2> HIDE DEF new
  <2>3. AppInHand(new)
    BY <2>2 DEF AppInHand
  <2> QED BY <2>1, <2>2, <2>3
<1> QED BY <1>1, <1>2

LEMMA ExpireAppOnly ==
  ASSUME GInv, NEW a \in AppKey, ExpireApp(a)
  PROVE  \A b \in AppKey : appCache'[b] \in {Null, appCache[b]}
BY DEF ExpireApp, GInv, CachesOK, AppsOK

(* A step of a request keeps the app's side, if what the request becomes    *)
(* and what it puts in the cache do.                                        *)
LEMMA RequestKeepsApps ==
  ASSUME GInv, AppSide, UNCHANGED rvars, NEW r \in Request, NEW new, Become(r, new),
         new.pc # "idle" => Quiet /\ AppInHand(new),
         \A a \in AppKey : \/ appCache'[a] \in {Null, appCache[a]}
                           \/ AppStands(appCache'[a].value, a)
  PROVE  AppSide'
<1>1. CallsKnown' /\ (Quiet' <=> Quiet) /\ (AllOwed' <=> AllOwed)
  BY StoreStands DEF AppSide
<1>2. \A app, a : AppStands(app, a)' <=> AppStands(app, a)
  BY StoreStands
<1>3. AppsFresh'
  BY <1>1, <1>2 DEF AppSide, AppsFresh
<1>4. \A req : AppInHand(req)' <=> AppInHand(req)
  BY <1>2 DEF AppInHand, rvars
<1>5. \A q \in Request : reqs'[q] = IF q = r THEN new ELSE reqs[q]
  BY DEF Become, GInv, ReqsOK
<1> QED BY <1>1, <1>3, <1>4, <1>5 DEF AppSide

LEMMA IdleInHand == NoRequest.pc = "idle"
BY DEF NoRequest

LEMMA RequestStepsKeepApps ==
  ASSUME GInv, AppSide, Serial, NEW r \in Request,
         \/ \E u \in User, a \in AppKey : Arrive(r, u, a)
         \/ LookupUser(r) \/ ReadUser(r) \/ FillUser(r)
         \/ LookupApp(r) \/ ReadApp(r) \/ FillApp(r)
         \/ Verify(r) \/ ReadRoles(r) \/ Decide(r)
  PROVE  AppSide'
<1> DEFINE req == reqs[r]
<1>1. ASSUME req.pc # "idle"
      PROVE  req \in ReqType /\ req.a \in AppKey /\ Quiet /\ AppInHand(req) /\ ReqOK(req)
             /\ req # NoRequest
  BY <1>1, InFlight DEF AppSide
<1>2. CASE \E u \in User, a \in AppKey : Arrive(r, u, a)
  <2>1. PICK u \in User, a \in AppKey : Arrive(r, u, a)
    BY <1>2
  <2> DEFINE pc  == IF u \in sessions THEN "user" ELSE "app"
             new == [NoRequest EXCEPT !.pc = pc, !.u = u, !.a = a, !.started = now, !.quiet = Quiet]
  <2>2. Become(r, new) /\ Quiet /\ UNCHANGED <<rvars, caches>>
    BY <2>1 DEF Arrive
  <2>3. new.pc = pc /\ pc \in {"user", "app"} /\ new.app = Null
    BY DEF NoRequest
  <2> HIDE DEF new, pc
  <2>4. AppInHand(new)
    BY <2>3 DEF AppInHand, AppStands, ActiveApp
  <2> QED BY <2>2, <2>4, RequestKeepsApps DEF caches
<1>3. CASE LookupUser(r)
  <2> DEFINE new == IF Live(userCache[req.u], UserTtl) THEN Attach(req, userCache[req.u].value)
                                                       ELSE [req EXCEPT !.pc = "userRead"]
  <2>1. Become(r, new) /\ req.pc # "idle" /\ UNCHANGED <<rvars, appCache>>
    BY <1>3 DEF LookupUser, Step
  <2>2. new.pc \in {"app", "userRead"} /\ new.a = req.a /\ new.app = req.app
    BY <1>1, <2>1, AttachShape DEF ReqType
  <2> HIDE DEF new
  <2>3. AppInHand(new)
    BY <1>1, <2>1, <2>2 DEF AppInHand
  <2> QED BY <1>1, <2>1, <2>3, RequestKeepsApps
<1>4. CASE ReadUser(r)
  <2> DEFINE new == [req EXCEPT !.pc = "userFill", !.doc = users[req.u]]
  <2>1. Become(r, new) /\ req.pc # "idle" /\ UNCHANGED <<rvars, appCache>>
    BY <1>4 DEF ReadUser, Step, caches
  <2>2. new.pc = "userFill" /\ new.a = req.a /\ new.app = req.app
    BY <1>1, <2>1 DEF ReqType
  <2> HIDE DEF new
  <2>3. AppInHand(new)
    BY <1>1, <2>1, <2>2 DEF AppInHand
  <2> QED BY <1>1, <2>1, <2>3, RequestKeepsApps
<1>5. CASE FillUser(r)
  <2> DEFINE new == Attach(req, req.doc)
  <2>1. Become(r, new) /\ req.pc # "idle" /\ UNCHANGED <<rvars, appCache>>
    BY <1>5 DEF FillUser, Step
  <2>2. new.pc = "app" /\ new.a = req.a /\ new.app = req.app
    BY <1>1, <2>1, AttachShape
  <2> HIDE DEF new
  <2>3. AppInHand(new)
    BY <1>1, <2>1, <2>2 DEF AppInHand
  <2> QED BY <1>1, <2>1, <2>3, RequestKeepsApps
<1>6. CASE LookupApp(r)
  <2>1. Become(r, LookApp(req)) /\ req.pc # "idle" /\ UNCHANGED rvars /\ ExpireApp(req.a)
    BY <1>6 DEF LookupApp, Step
  <2>2. AppInHand(LookApp(req))
    BY <1>1, <2>1, LookAppInHand
  <2>3. \A b \in AppKey : appCache'[b] \in {Null, appCache[b]}
    BY <1>1, <2>1, ExpireAppOnly
  <2> QED BY <1>1, <2>1, <2>2, <2>3, RequestKeepsApps
<1>7. CASE ReadApp(r)
  <2> DEFINE new == [req EXCEPT !.pc = "appFill", !.doc = apps[req.a]]
  <2>1. Become(r, new) /\ req.pc # "idle" /\ UNCHANGED <<rvars, appCache>>
    BY <1>7 DEF ReadApp, Step, caches
  <2>2. new.doc = apps[req.a] /\ new.a = req.a /\ new.app = req.app
    BY <1>1, <2>1 DEF ReqType
  <2> HIDE DEF new
  <2>3. AppInHand(new)
    BY <1>1, <2>1, <2>2 DEF AppInHand
  <2> QED BY <1>1, <2>1, <2>3, RequestKeepsApps
<1>8. CASE FillApp(r)
  <2> DEFINE new == Resolve(req, req.doc)
  <2>1. /\ Become(r, new) /\ req.pc = "appFill" /\ UNCHANGED rvars
        /\ appCache' = [appCache EXCEPT ![req.a] = Entry(req.doc)]
    BY <1>8 DEF FillApp, Step
  <2>2. req.doc = apps[req.a]
    BY <1>1, <2>1 DEF AppInHand
  <2>3. AppStands(req.doc, req.a)
    BY <2>2 DEF AppStands
  <2>4. new.pc = "ready" /\ new.a = req.a /\ new.app \in {req.app, req.doc}
    BY <1>1, <2>1, ResolveShape
  <2> HIDE DEF new
  <2>5. AppInHand(new)
    BY <1>1, <2>1, <2>3, <2>4 DEF AppInHand
  <2>6. \A a \in AppKey : \/ appCache'[a] \in {Null, appCache[a]}
                          \/ AppStands(appCache'[a].value, a)
    BY <2>1, <2>3 DEF Entry, GInv, CachesOK, AppsOK
  <2> QED BY <1>1, <2>1, <2>5, <2>6, RequestKeepsApps
<1>9. CASE Verify(r)
  <2>1. req.pc # "idle" /\ req.pc # "appFill" /\ UNCHANGED rvars
    BY <1>9 DEF Verify, Step
  <2>2. CASE Become(r, NoRequest) /\ UNCHANGED appCache
    BY <2>1, <2>2, IdleInHand, RequestKeepsApps
  <2>3. CASE Become(r, LookApp([req EXCEPT !.phase = "decide"])) /\ ExpireApp(req.a)
    <3> DEFINE new == [req EXCEPT !.phase = "decide"]
    <3>1. new \in ReqType /\ new.app = req.app /\ new.a = req.a /\ new.pc = req.pc
      BY <1>1, <2>1 DEF ReqType
    <3>2. Become(r, LookApp(new))
      BY <2>3
    <3> HIDE DEF new
    <3>3. AppInHand(new)
      BY <1>1, <2>1, <3>1 DEF AppInHand
    <3>4. AppInHand(LookApp(new))
      BY <1>1, <2>1, <3>1, <3>3, LookAppInHand
    <3>5. \A b \in AppKey : appCache'[b] \in {Null, appCache[b]}
      BY <1>1, <2>1, <2>3, ExpireAppOnly
    <3> QED BY <1>1, <2>1, <3>2, <3>4, <3>5, RequestKeepsApps
  <2> QED BY <1>9, <2>2, <2>3 DEF Verify, RespondDecision, Respond
<1>10. CASE ReadRoles(r)
  <2> DEFINE ks  == GrantingRoles(req.user, req.a, roles)
             new == [req EXCEPT !.granting = ks]
  <2>1. Become(r, new) /\ req.pc # "idle" /\ UNCHANGED <<rvars, appCache>>
    BY <1>10 DEF ReadRoles, caches
  <2>2. new.pc = req.pc /\ new.doc = req.doc /\ new.a = req.a /\ new.app = req.app
    BY <1>1, <2>1 DEF ReqType
  <2> HIDE DEF new
  <2>3. AppInHand(new)
    BY <1>1, <2>1, <2>2 DEF AppInHand
  <2> QED BY <1>1, <2>1, <2>3, RequestKeepsApps
<1>11. CASE Decide(r)
  <2>1. Become(r, NoRequest) /\ UNCHANGED <<rvars, appCache>>
    BY <1>11 DEF Decide, RespondDecision, Respond
  <2> QED BY <2>1, IdleInHand, RequestKeepsApps
<1> QED BY <1>2, <1>3, <1>4, <1>5, <1>6, <1>7, <1>8, <1>9, <1>10, <1>11

(* The handlers' steps, when no request is in flight.                       *)
LEMMA HandlerKeepsApps ==
  ASSUME ControlInv, ControlInv', AppSide, Serial, NoAppRename, NEW p \in Proc, Handler(p)
  PROVE  AppSide'
<1>1. HandlerMayRun /\ StoreStep(p) /\ UNCHANGED <<caches, reqs>> /\ RInv
  BY DEF Handler, ControlInv
<1>2. \A r \in Request : reqs'[r].pc = "idle"
  BY <1>1 DEF HandlerMayRun
<1>3. CASE Start(p)
  <2>1. CallsKnown' /\ UNCHANGED apps /\ (AllOwed => AllOwed')
    BY <1>1, <1>3, StartOwes DEF AppSide
  <2>2. AppsFresh'
    BY <1>1, <2>1 DEF AppSide, AppsFresh, AppStands, caches
  <2> QED BY <1>2, <2>1, <2>2 DEF AppSide
<1>4. CASE \E s : Makes(p, s)
  <2>1. PICK s : Makes(p, s)
    BY <1>4
  <2>2. Runs(p, s) /\ s # "evictAll" /\ CallsKnown
    BY <2>1, MakesRuns DEF AppSide
  <2>3. CallsKnown' /\ (AllOwed => AllOwed')
    BY <2>2, CallsStayKnown, StillOwed
  <2>4. (\A a \in AppKey : AppKeeps(a)) \/ AllOwed'
    BY <2>1, <2>2, OwedForApps
  <2>5. AppsFresh'
    BY <1>1, <2>3, <2>4 DEF AppSide, AppsFresh, AppStands, AppKeeps, caches
  <2> QED BY <1>2, <2>3, <2>5 DEF AppSide
<1> QED BY <1>1, <1>3, <1>4, StoreStepKinds

LEMMA EvictionRuns ==
  ASSUME RInv, NEW p \in Proc
  PROVE  /\ EvictUser(p) => Runs(p, "evictUser") /\ UNCHANGED store
         /\ EvictAll(p) => Runs(p, "evictAll") /\ UNCHANGED store
BY DoneMoves DEF EvictUser, EvictAll, Runs

LEMMA EvictionsKeepApps ==
  ASSUME ControlInv, ControlInv', GInv, AppSide, Serial, SameProcess, NEW p \in Proc,
         EvictUserEntries(p) \/ EvictAllEntries(p)
  PROVE  AppSide'
<1>1. HandlerMayRun /\ UNCHANGED reqs /\ RInv /\ CallsKnown
  BY DEF EvictUserEntries, EvictAllEntries, ControlInv, AppSide
<1>2. \A r \in Request : reqs'[r].pc = "idle"
  BY <1>1 DEF HandlerMayRun
<1>3. CASE EvictUserEntries(p)
  <2>1. Runs(p, "evictUser") /\ UNCHANGED <<apps, appCache>>
    BY <1>1, <1>3, EvictionRuns DEF EvictUserEntries, store
  <2>2. CallsKnown' /\ (AllOwed => AllOwed')
    BY <1>1, <2>1, CallsStayKnown, StillOwed
  <2>3. AppsFresh'
    BY <2>1, <2>2 DEF AppSide, AppsFresh, AppStands
  <2> QED BY <1>2, <2>2, <2>3 DEF AppSide
<1>4. CASE EvictAllEntries(p)
  <2>1. Runs(p, "evictAll") /\ appCache' = [a \in AppKey |-> Null]
    BY <1>1, <1>4, EvictionRuns DEF EvictAllEntries
  <2>2. CallsKnown'
    BY <1>1, <2>1, CallsStayKnown
  <2>3. AppsFresh'
    BY <2>1 DEF AppsFresh
  <2> QED BY <1>2, <2>2, <2>3 DEF AppSide
<1> QED BY <1>3, <1>4

LEMMA RestartIsIdle ==
  ASSUME Restart, SameProcess
  PROVE  /\ \A p \in Proc : ~ Busy(p)' /\ \A s : ~ At(p, s)'
         /\ \A r \in Request : reqs'[r].pc = "idle"
         /\ \A u \in User, a \in AppKey :
              userCache'[u] = Null /\ appCache'[a] = Null /\ decisionCache'[<<u, a>>] = Null
<1>1. ops' = [p \in Proc |-> Idle]
  BY DEF Restart, RestartPortal
<1>2. \A p \in Proc : ~ Busy(p)' /\ \A s : ~ At(p, s)'
  BY <1>1 DEF Busy, At, Idle
<1>3. \A r \in Request : reqs'[r].pc = "idle"
  BY IdleInHand DEF Restart
<1> QED BY <1>2, <1>3 DEF Restart

LEMMA OthersKeepApps ==
  ASSUME GInv, AppSide, SameProcess, Tick \/ Restart \/ RestartWeb \/ UNCHANGED gvars
  PROVE  AppSide'
<1>1. CASE Tick \/ UNCHANGED gvars
  <2>1. UNCHANGED <<rvars, appCache, reqs>>
    BY <1>1 DEF Tick, gvars, caches
  <2>2. AppsFresh' /\ CallsKnown' /\ (Quiet' <=> Quiet)
    BY <2>1, StoreStands DEF AppSide, AppsFresh
  <2>3. \A req : AppInHand(req)' <=> AppInHand(req)
    BY <2>1, StoreStands DEF AppInHand, rvars
  <2> QED BY <2>1, <2>2, <2>3 DEF AppSide
<1>2. CASE Restart
  <2>1. /\ \A p \in Proc : ~ Busy(p)'
        /\ \A r \in Request : reqs'[r].pc = "idle"
        /\ \A a \in AppKey : appCache'[a] = Null
    BY <1>2, RestartIsIdle DEF Restart
  <2> QED BY <2>1 DEF AppSide, AppsFresh, CallsKnown
<1> QED BY <1>1, <1>2 DEF RestartWeb

LEMMA NextKeepsApps ==
  ASSUME Sound, ControlInv', AppSide, Serial, SameProcess, NoAppRename, [Next]_gvars
  PROVE  AppSide'
<1>1. ControlInv /\ GInv
  BY DEF Sound
<1>2. ASSUME NEW p \in Proc, Handler(p) \/ EvictUserEntries(p) \/ EvictAllEntries(p)
      PROVE  AppSide'
  BY <1>1, <1>2, HandlerKeepsApps, EvictionsKeepApps
<1>3. ASSUME NEW r \in Request,
             \/ \E u \in User, a \in AppKey : Arrive(r, u, a)
             \/ LookupUser(r) \/ ReadUser(r) \/ FillUser(r)
             \/ LookupApp(r) \/ ReadApp(r) \/ FillApp(r)
             \/ Verify(r) \/ ReadRoles(r) \/ Decide(r)
      PROVE  AppSide'
  BY <1>1, <1>3, RequestStepsKeepApps
<1> QED BY <1>1, <1>2, <1>3, OthersKeepApps DEF Next

------------------------------------------------------------------------------
(* Who lets a request in: a decision that was cached, or one just taken.    *)

Decided(r, reason) ==
  /\ Allowed(reason)
  /\ LET req == reqs[r]  hit == decisionCache[<<req.u, req.a>>] IN
     \/ hit # Null /\ reason = hit.value
     \/ req.granting # Null /\ reason = DecideFrom(req.user, req.a, req.dapp, req.granting)

LEMMA AllowedBy ==
  ASSUME GInv, Next, response'.verdict = "allowed"
  PROVE  \E r \in Request :
           LET req == reqs[r] IN
           /\ req.pc # "idle" /\ UNCHANGED <<rvars, now>>
           /\ req.user # Null /\ ActiveApp(req.app) /\ \E reason : Decided(r, reason)
           /\ response'.u = req.u /\ response'.a = req.a /\ response'.started = req.started
           /\ response'.secret = req.app.secret
<1>1. ~ NoAnswer
  BY DEF NoAnswer, NoResponse
<1>2. PICK r \in Request : Verify(r) \/ Decide(r)
  BY <1>1 DEF Next, Handler, EvictUserEntries, EvictAllEntries, Arrive, LookupUser, ReadUser, FillUser,
     LookupApp, ReadApp, FillApp, ReadRoles, Tick, Restart, RestartWeb
<1> DEFINE req == reqs[r]
<1>3. req.pc # "idle" /\ UNCHANGED <<rvars, now>>
  BY <1>2 DEF Verify, Decide, Step
<1>4. ASSUME NEW reason, RespondDecision(r, reason)
      PROVE  /\ Allowed(reason)
             /\ response'.u = req.u /\ response'.a = req.a /\ response'.started = req.started
             /\ response'.secret = req.app.secret
  BY <1>4 DEF RespondDecision, Respond
<1>5. CASE Verify(r)
  <2>1. ~ Respond(r, "unknown_app", "none") /\ ~ Respond(r, "public", "none")
        /\ ~ Respond(r, "unauthenticated", "none")
    BY DEF Respond
  <2>2. /\ ActiveApp(req.app) /\ req.user # Null
        /\ Live(decisionCache[<<req.u, req.a>>], DecisionTtl)
        /\ RespondDecision(r, decisionCache[<<req.u, req.a>>].value)
    BY <1>1, <1>5, <2>1 DEF Verify
  <2>3. Decided(r, decisionCache[<<req.u, req.a>>].value)
    BY <1>4, <2>2 DEF Decided, Live
  <2> QED BY <1>3, <1>4, <2>2, <2>3
<1>6. CASE Decide(r)
  <2> DEFINE reason == DecideFrom(req.user, req.a, req.dapp, req.granting)
  <2>1. RespondDecision(r, reason) /\ req.phase = "decide" /\ req.granting # Null
    BY <1>6 DEF Decide
  <2>2. ReqOK(req) /\ req # NoRequest
    BY <1>3, InFlight
  <2>3. req.user # Null /\ ActiveApp(req.app)
    BY <2>1, <2>2 DEF ReqOK
  <2> HIDE DEF reason
  <2>4. Decided(r, reason)
    BY <1>4, <2>1 DEF Decided, reason
  <2> QED BY <1>3, <1>4, <2>1, <2>3, <2>4
<1> QED BY <1>2, <1>5, <1>6

LEMMA AppAnswered ==
  ASSUME Sound, GInv', AppSide, NoNewSecret, Next
  PROVE  NextRequestSeesApp'
<1> SUFFICES ASSUME Allows' PROVE (lastServing[<<response.a, response.secret>>] >= response.started)'
  BY DEF NextRequestSeesApp
<1>1. GInv /\ response'.verdict = "allowed"
  BY DEF Sound, Allows
<1>2. PICK r \in Request :
        LET req == reqs[r] IN
        /\ req.pc # "idle" /\ UNCHANGED <<rvars, now>>
        /\ req.user # Null /\ ActiveApp(req.app) /\ \E reason : Decided(r, reason)
        /\ response'.u = req.u /\ response'.a = req.a /\ response'.started = req.started
        /\ response'.secret = req.app.secret
  BY <1>1, AllowedBy
<1> DEFINE req == reqs[r]
<1>3. /\ req \in ReqType /\ req.a \in AppKey /\ req.started \in Nat /\ req.started <= now
      /\ AppStands(req.app, req.a)
  BY <1>1, <1>2, InFlight DEF AppSide, AppInHand
<1>4. ActiveApp(apps[req.a]) /\ req.app.secret = apps[req.a].secret
  BY <1>2, <1>3 DEF AppStands
<1>5. Serving(apps'[req.a], req.app.secret) /\ now' = now
  BY <1>2, <1>4 DEF Serving, rvars
<1>6. req.app.secret \in Secret
  BY <1>2, <1>3 DEF ReqType, AppOrNull, AppDoc, ActiveApp
<1>7. lastServing'[<<req.a, req.app.secret>>] >= now' /\ lastServing'[<<req.a, req.app.secret>>] \in Int
  BY <1>3, <1>5, <1>6 DEF GInv, History, StoreIsNow, AppSince, HistoryTypes
<1>8. now \in Nat
  BY <1>1 DEF GInv, History, HistoryTypes
<1>9. lastServing'[<<req.a, req.app.secret>>] >= req.started
  <2> DEFINE t == lastServing'[<<req.a, req.app.secret>>]
  <2>1. t >= now /\ t \in Int
    BY <1>5, <1>7
  <2> HIDE DEF t
  <2>2. t >= req.started
    BY <1>3, <1>8, <2>1
  <2> QED BY <2>2 DEF t
<1> QED BY <1>2, <1>9

LEMMA SoundStep == ASSUME Sound, [Next]_gvars PROVE Sound'
BY NextGInv, NextRegistry, NextControl DEF Sound

LEMMA SoundStart ==
  ASSUME Init
  PROVE  /\ Sound /\ AppSide /\ NextRequestSeesApp
         /\ \A p \in Proc : ~ Busy(p) /\ \A s : ~ At(p, s)
         /\ \A r \in Request : reqs[r].pc = "idle"
<1>1. ops = [p \in Proc |-> Idle] /\ RInit
  BY DEF Init, RInit
<1>2. \A p \in Proc : ~ Busy(p) /\ \A s : ~ At(p, s)
  BY <1>1 DEF Busy, At, Idle
<1>3. \A r \in Request : reqs[r].pc = "idle"
  BY IdleInHand DEF Init
<1>4. AppSide
  BY <1>2, <1>3 DEF AppSide, CallsKnown, AppsFresh, Init
<1>5. NextRequestSeesApp
  BY DEF NextRequestSeesApp, Allows, Init, NoResponse
<1> QED BY <1>1, <1>2, <1>3, <1>4, <1>5, InitGInv, InitControl DEF Sound

(* When requests and handlers do not overlap, the next request after a      *)
(* handler gets the app as the handler left it, its status and its secret:  *)
(* for every number of users, apps, handlers and requests, every TTL and    *)
(* wherever a handler throws or a restart cuts it off.  A rename may throw  *)
(* before it evicts, and a new secret evicts nothing: the instance makes    *)
(* neither call.                                                            *)
THEOREM NextRequestIsServed ==
  ASSUME SameProcess, Serial, NoAppRename, NoNewSecret
  PROVE  Spec => []NextRequestSeesApp
<1> DEFINE Inv == Sound /\ AppSide /\ NextRequestSeesApp
<1>1. Init => Inv
  BY SoundStart
<1>2. Inv /\ [Next]_gvars => Inv'
  <2> SUFFICES ASSUME Inv, [Next]_gvars PROVE Inv'
    OBVIOUS
  <2>1. Sound' /\ AppSide'
    BY SoundStep, NextKeepsApps DEF Sound
  <2>2. CASE Next
    BY <2>1, <2>2, AppAnswered DEF Sound
  <2>3. CASE UNCHANGED gvars
    BY <2>1, <2>3 DEF NextRequestSeesApp, Allows, gvars, history
  <2> QED BY <2>1, <2>2, <2>3
<1>3. Inv => NextRequestSeesApp
  OBVIOUS
<1> QED BY <1>1, <1>2, <1>3, PTL DEF Spec

------------------------------------------------------------------------------
(* The user's side of a request.                                            *)

LEMMA RequestKeepsUsers ==
  ASSUME GInv, UserSide, UNCHANGED rvars, NEW r \in Request, reqs[r].pc # "idle" \/ Quiet, AppSide,
         NEW new, Become(r, new), new.pc # "idle" => UserInHand(new),
         \A u \in User : \/ userCache'[u] \in {Null, userCache[u]}
                         \/ UserStands(userCache'[u].value, u),
         \A u \in User, a \in AppKey :
           \/ decisionCache'[<<u, a>>] \in {Null, decisionCache[<<u, a>>]}
           \/ Allowed(decisionCache'[<<u, a>>].value) => LetsIn(u, a)
  PROVE  UserSide'
<1>1. /\ Emptied' /\ (AllOwed' <=> AllOwed)
      /\ \A u : UserOwed(u)' <=> UserOwed(u)
  BY StoreStands DEF UserSide
<1>2. /\ \A user, u : UserStands(user, u)' <=> UserStands(user, u)
      /\ \A u, a : LetsIn(u, a)' <=> LetsIn(u, a)
  BY StoreStands
<1>3. UsersFresh'
  BY <1>1, <1>2 DEF UserSide, UsersFresh
<1>4. DecisionsFresh'
  BY <1>1, <1>2 DEF UserSide, DecisionsFresh
<1>5. Quiet
  BY DEF AppSide
<1>6. Forgotten'
  <2>1. \A p \in Proc : ~ Busy(p)'
    BY <1>5 DEF Quiet, Busy, rvars
  <2> QED BY <2>1 DEF Forgotten
<1>7. \A req : UserInHand(req)' <=> UserInHand(req)
  BY <1>2 DEF UserInHand, rvars
<1>8. \A q \in Request : reqs'[q] = IF q = r THEN new ELSE reqs[q]
  BY DEF Become, GInv, ReqsOK
<1> QED BY <1>1, <1>3, <1>4, <1>6, <1>7, <1>8 DEF UserSide

LEMMA DecisionSetOnly ==
  ASSUME GInv, NEW u \in User, NEW a \in AppKey, NEW e,
         decisionCache' = [decisionCache EXCEPT ![<<u, a>>] = e]
  PROVE  \A v \in User, b \in AppKey :
           decisionCache'[<<v, b>>] = IF v = u /\ b = a THEN e ELSE decisionCache[<<v, b>>]
<1> SUFFICES ASSUME NEW v \in User, NEW b \in AppKey
             PROVE  decisionCache'[<<v, b>>] = IF v = u /\ b = a THEN e ELSE decisionCache[<<v, b>>]
  OBVIOUS
<1>1. decisionCache \in [User \X AppKey -> CacheEntry(Reason) \cup {Null}]
  BY DEF GInv, CachesOK, DecisionsOK
<1>2. CASE v = u /\ b = a
  BY <1>1, <1>2
<1>3. CASE ~ (v = u /\ b = a)
  <2>1. <<v, b>> # <<u, a>>
    BY <1>3
  <2> QED BY <1>1, <1>3, <2>1
<1> QED BY <1>2, <1>3

LEMMA DecisionFilled ==
  ASSUME GInv, NEW u \in User, NEW a \in AppKey, NEW reason, Allowed(reason) => LetsIn(u, a),
         decisionCache' = [decisionCache EXCEPT ![<<u, a>>] = Entry(reason)]
  PROVE  \A v \in User, b \in AppKey :
           \/ decisionCache'[<<v, b>>] \in {Null, decisionCache[<<v, b>>]}
           \/ Allowed(decisionCache'[<<v, b>>].value) => LetsIn(v, b)
<1> SUFFICES ASSUME NEW v \in User, NEW b \in AppKey
             PROVE  \/ decisionCache'[<<v, b>>] \in {Null, decisionCache[<<v, b>>]}
                    \/ Allowed(decisionCache'[<<v, b>>].value) => LetsIn(v, b)
  OBVIOUS
<1>1. decisionCache \in [User \X AppKey -> CacheEntry(Reason) \cup {Null}]
  BY DEF GInv, CachesOK, DecisionsOK
<1>2. CASE v = u /\ b = a
  <2>1. decisionCache'[<<v, b>>] = Entry(reason)
    BY <1>1, <1>2
  <2> QED BY <1>2, <2>1 DEF Entry
<1>3. CASE ~ (v = u /\ b = a)
  <2>1. <<v, b>> # <<u, a>>
    BY <1>3
  <2> QED BY <1>1, <1>3, <2>1
<1> QED BY <1>2, <1>3

(* A decision taken on what stands lets in whom the store lets in.          *)
LEMMA DecidedLetsIn ==
  ASSUME GInv, Quiet, NEW req, ReqOK(req), req # NoRequest, AppInHand(req), UserInHand(req),
         ActiveApp(req.app), req.granting # Null, NEW app,
         Allowed(DecideFrom(req.user, req.a, app, req.granting))
  PROVE  LetsIn(req.u, req.a)
<1>1. /\ req \in ReqType /\ req.user # Null /\ req.granting \subseteq req.user.roles
      /\ req.granting \subseteq RoleKey
  BY DEF ReqOK, ReqType
<1>2. req.a \in AppKey /\ req.u \in User
  BY <1>1 DEF ReqType
<1>3. UserStands(req.user, req.u) /\ \A k \in req.granting : Granting(roles[k], req.a)
  BY <1>1 DEF UserInHand
<1>4. ~ AppGone(req.a)
  BY <1>1, QuietOwes DEF AppInHand, AppStands, ActiveApp
<1>5. CASE Entitled(req.user, req.a)
  BY <1>2, <1>3, <1>4, <1>5 DEF UserStands, LetsIn
<1>6. CASE \E k \in req.granting : Eligible(req.user, k, req.a)
  <2>1. PICK k \in req.granting : Eligible(req.user, k, req.a)
    BY <1>6
  <2>2. k \in RoleKey /\ Granting(roles[k], req.a)
    BY <1>1, <1>3
  <2>3. ~ RoleGone(k)
    BY <2>2, QuietOwes DEF Granting
  <2> QED BY <1>2, <1>3, <2>1, <2>2, <2>3 DEF UserStands, LetsIn
<1> QED BY <1>1, <1>5, <1>6, DecideFromJustified

LEMMA RequestStepsKeepUsers ==
  ASSUME GInv, AppSide, UserSide, Serial, NEW r \in Request,
         \/ \E u \in User, a \in AppKey : Arrive(r, u, a)
         \/ LookupUser(r) \/ ReadUser(r) \/ FillUser(r)
         \/ LookupApp(r) \/ ReadApp(r) \/ FillApp(r)
         \/ Verify(r) \/ ReadRoles(r) \/ Decide(r)
  PROVE  UserSide'
<1> DEFINE req == reqs[r]
<1>1. ASSUME req.pc # "idle"
      PROVE  /\ req \in ReqType /\ req.u \in User /\ req.a \in AppKey /\ Quiet
             /\ AppInHand(req) /\ UserInHand(req) /\ ReqOK(req) /\ req # NoRequest
  BY <1>1, InFlight DEF AppSide, UserSide
<1>2. CASE \E u \in User, a \in AppKey : Arrive(r, u, a)
  <2>1. PICK u \in User, a \in AppKey : Arrive(r, u, a)
    BY <1>2
  <2> DEFINE pc  == IF u \in sessions THEN "user" ELSE "app"
             new == [NoRequest EXCEPT !.pc = pc, !.u = u, !.a = a, !.started = now, !.quiet = Quiet]
  <2>2. Become(r, new) /\ Quiet /\ UNCHANGED <<rvars, caches>>
    BY <2>1 DEF Arrive
  <2>3. new.pc = pc /\ pc \in {"user", "app"} /\ new.user = Null /\ new.granting = Null
    BY DEF NoRequest
  <2> HIDE DEF new, pc
  <2>4. UserInHand(new)
    BY <2>3 DEF UserInHand
  <2> QED BY <2>2, <2>4, RequestKeepsUsers DEF caches
<1>3. CASE LookupUser(r)
  <2>1. req.pc = "user" /\ UNCHANGED <<rvars, decisionCache>>
    BY <1>3 DEF LookupUser, Step
  <2>2. req.granting = Null
    BY <1>1, <2>1 DEF ReqOK
  <2>3. CASE Live(userCache[req.u], UserTtl)
    <3> DEFINE user == userCache[req.u].value
               new  == Attach(req, user)
    <3>1. Become(r, new) /\ UNCHANGED userCache
      BY <1>3, <2>3 DEF LookupUser
    <3>2. UserStands(user, req.u)
      BY <1>1, <2>1, <2>3, QuietOwes DEF UserSide, UsersFresh, Live
    <3>3. new.pc = "app" /\ new.u = req.u /\ new.granting = Null /\ new.user \in {Null, user}
      BY <1>1, <2>1, <2>2, AttachShape
    <3> HIDE DEF new, user
    <3>4. UserInHand(new)
      BY <3>2, <3>3 DEF UserInHand
    <3> QED BY <1>1, <2>1, <3>1, <3>4, RequestKeepsUsers
  <2>4. CASE ~ Live(userCache[req.u], UserTtl)
    <3> DEFINE new == [req EXCEPT !.pc = "userRead"]
    <3>1. Become(r, new) /\ userCache' = [userCache EXCEPT ![req.u] = Null]
      BY <1>3, <2>4 DEF LookupUser
    <3>2. new.pc = "userRead" /\ new.u = req.u /\ new.granting = Null /\ new.user = req.user
      BY <1>1, <2>1, <2>2 DEF ReqType
    <3> HIDE DEF new
    <3>3. UserInHand(new)
      BY <1>1, <2>1, <3>2 DEF UserInHand
    <3>4. \A u \in User : userCache'[u] \in {Null, userCache[u]}
      BY <3>1 DEF GInv, CachesOK, UsersOK
    <3> QED BY <1>1, <2>1, <3>1, <3>3, <3>4, RequestKeepsUsers
  <2> QED BY <2>3, <2>4
<1>4. CASE ReadUser(r)
  <2> DEFINE new == [req EXCEPT !.pc = "userFill", !.doc = users[req.u]]
  <2>1. Become(r, new) /\ req.pc = "userRead" /\ UNCHANGED <<rvars, userCache, decisionCache>>
    BY <1>4 DEF ReadUser, Step, caches
  <2>2. /\ new.pc = "userFill" /\ new.doc = users[req.u] /\ new.u = req.u /\ new.a = req.a
        /\ new.user = req.user /\ new.granting = req.granting
    BY <1>1, <2>1 DEF ReqType
  <2> HIDE DEF new
  <2>3. UserInHand(new)
    BY <1>1, <2>1, <2>2 DEF UserInHand
  <2> QED BY <1>1, <2>1, <2>3, RequestKeepsUsers
<1>5. CASE FillUser(r)
  <2> DEFINE new == Attach(req, req.doc)
  <2>1. /\ Become(r, new) /\ req.pc = "userFill" /\ UNCHANGED <<rvars, decisionCache>>
        /\ userCache' = [userCache EXCEPT ![req.u] = Entry(req.doc)]
    BY <1>5 DEF FillUser, Step
  <2>2. req.granting = Null /\ req.doc = users[req.u]
    BY <1>1, <2>1 DEF ReqOK, UserInHand
  <2>3. UserStands(req.doc, req.u)
    BY <2>2 DEF UserStands
  <2>4. new.pc = "app" /\ new.u = req.u /\ new.granting = Null /\ new.user \in {Null, req.doc}
    BY <1>1, <2>1, <2>2, AttachShape
  <2> HIDE DEF new
  <2>5. UserInHand(new)
    BY <2>3, <2>4 DEF UserInHand
  <2>6. \A u \in User : \/ userCache'[u] \in {Null, userCache[u]}
                        \/ UserStands(userCache'[u].value, u)
    BY <2>1, <2>3 DEF Entry, GInv, CachesOK, UsersOK
  <2> QED BY <1>1, <2>1, <2>5, <2>6, RequestKeepsUsers
<1>6. CASE LookupApp(r)
  <2> DEFINE new == LookApp(req)
  <2>1. Become(r, new) /\ req.pc # "idle" /\ UNCHANGED <<rvars, userCache, decisionCache>>
    BY <1>6 DEF LookupApp, Step
  <2>2. /\ new.pc \in {"ready", "appRead"} /\ new.u = req.u /\ new.a = req.a
        /\ new.user = req.user /\ new.granting = req.granting
    BY <1>1, <2>1, LookAppInHand
  <2> HIDE DEF new
  <2>3. UserInHand(new)
    BY <1>1, <2>1, <2>2 DEF UserInHand
  <2> QED BY <1>1, <2>1, <2>3, RequestKeepsUsers
<1>7. CASE ReadApp(r)
  <2> DEFINE new == [req EXCEPT !.pc = "appFill", !.doc = apps[req.a]]
  <2>1. Become(r, new) /\ req.pc # "idle" /\ UNCHANGED <<rvars, userCache, decisionCache>>
    BY <1>7 DEF ReadApp, Step, caches
  <2>2. /\ new.pc = "appFill" /\ new.u = req.u /\ new.a = req.a
        /\ new.user = req.user /\ new.granting = req.granting
    BY <1>1, <2>1 DEF ReqType
  <2> HIDE DEF new
  <2>3. UserInHand(new)
    BY <1>1, <2>1, <2>2 DEF UserInHand
  <2> QED BY <1>1, <2>1, <2>3, RequestKeepsUsers
<1>8. CASE FillApp(r)
  <2> DEFINE new == Resolve(req, req.doc)
  <2>1. Become(r, new) /\ req.pc # "idle" /\ UNCHANGED <<rvars, userCache, decisionCache>>
    BY <1>8 DEF FillApp, Step
  <2>2. /\ new.pc = "ready" /\ new.u = req.u /\ new.a = req.a
        /\ new.user = req.user /\ new.granting = req.granting
    BY <1>1, <2>1, ResolveShape
  <2> HIDE DEF new
  <2>3. UserInHand(new)
    BY <1>1, <2>1, <2>2 DEF UserInHand
  <2> QED BY <1>1, <2>1, <2>3, RequestKeepsUsers
<1>9. CASE Verify(r)
  <2>1. req.pc = "ready" /\ UNCHANGED <<rvars, userCache>>
    BY <1>9 DEF Verify, Step
  <2>2. CASE Become(r, NoRequest) /\ UNCHANGED decisionCache
    BY <1>1, <2>1, <2>2, IdleInHand, RequestKeepsUsers
  <2>3. CASE /\ Become(r, LookApp([req EXCEPT !.phase = "decide"]))
             /\ decisionCache' = [decisionCache EXCEPT ![<<req.u, req.a>>] = Null]
    <3> DEFINE look == [req EXCEPT !.phase = "decide"]
               new  == LookApp(look)
    <3>1. /\ look \in ReqType /\ look.app = req.app /\ look.a = req.a /\ look.pc = req.pc
          /\ look.u = req.u /\ look.user = req.user /\ look.granting = req.granting
      BY <1>1, <2>1 DEF ReqType
    <3>2. AppInHand(look) /\ Become(r, new)
      BY <1>1, <2>1, <2>3, <3>1 DEF AppInHand
    <3> HIDE DEF look
    <3>3. /\ new.pc \in {"ready", "appRead"} /\ new.u = look.u /\ new.a = look.a
          /\ new.user = look.user /\ new.granting = look.granting
      BY <1>1, <2>1, <3>1, <3>2, LookAppInHand
    <3> HIDE DEF new
    <3>4. UserInHand(new)
      BY <1>1, <2>1, <3>1, <3>3 DEF UserInHand
    <3>5. \A u \in User, a \in AppKey :
            decisionCache'[<<u, a>>] \in {Null, decisionCache[<<u, a>>]}
      BY <1>1, <2>1, <2>3, DecisionSetOnly
    <3> QED BY <1>1, <2>1, <3>2, <3>4, <3>5, RequestKeepsUsers
  <2> QED BY <1>9, <2>2, <2>3 DEF Verify, RespondDecision, Respond
<1>10. CASE ReadRoles(r)
  <2> DEFINE ks  == GrantingRoles(req.user, req.a, roles)
             new == [req EXCEPT !.granting = ks]
  <2>1. Become(r, new) /\ req.pc # "idle" /\ UNCHANGED <<rvars, userCache, decisionCache>>
    BY <1>10 DEF ReadRoles, caches
  <2>2. \A k \in ks : Granting(roles[k], req.a)
    BY DEF GrantingRoles, Granting
  <2> HIDE DEF ks
  <2>3. /\ new.pc = req.pc /\ new.doc = req.doc /\ new.u = req.u /\ new.a = req.a
        /\ new.user = req.user /\ new.granting = ks
    BY <1>1, <2>1 DEF ReqType
  <2> HIDE DEF new
  <2>4. UserInHand(new)
    BY <1>1, <2>1, <2>2, <2>3 DEF UserInHand
  <2> QED BY <1>1, <2>1, <2>4, RequestKeepsUsers
<1>11. CASE Decide(r)
  <2> DEFINE reason == DecideFrom(req.user, req.a, req.dapp, req.granting)
  <2>1. /\ Become(r, NoRequest) /\ UNCHANGED <<rvars, userCache>> /\ req.pc # "idle"
        /\ req.phase = "decide" /\ req.granting # Null
        /\ decisionCache' = [decisionCache EXCEPT ![<<req.u, req.a>>] = Entry(reason)]
    BY <1>11 DEF Decide, RespondDecision, Respond, Step
  <2>2. Allowed(reason) => LetsIn(req.u, req.a)
    <3>1. ActiveApp(req.app)
      BY <1>1, <2>1 DEF ReqOK
    <3> QED BY <1>1, <2>1, <3>1, DecidedLetsIn
  <2> HIDE DEF reason
  <2>3. \A u \in User, a \in AppKey :
          \/ decisionCache'[<<u, a>>] \in {Null, decisionCache[<<u, a>>]}
          \/ Allowed(decisionCache'[<<u, a>>].value) => LetsIn(u, a)
    BY <1>1, <2>1, <2>2, DecisionFilled
  <2> QED BY <1>1, <2>1, <2>3, IdleInHand, RequestKeepsUsers
<1> QED BY <1>2, <1>3, <1>4, <1>5, <1>6, <1>7, <1>8, <1>9, <1>10, <1>11

(* The user's side of a handler's step, when no request is in flight.       *)

LEMMA EmptiedKept ==
  ASSUME ControlInv, ControlInv', CallsKnown, Emptied, NEW p \in Proc, NEW s, Runs(p, s),
         \A k \in FreedRoles : k \in RoleKey /\ roles[k] = Null => roles'[k] = Null,
         s = "moveRole" /\ ~ Halts(p, s) => MoveRole(p)
  PROVE  Emptied'
<1>1. At(p, s) /\ Others(p) /\ Busy(p) /\ c(p) \in Call
  BY RunsOn, Where
<1>2. ASSUME NEW q \in Proc, q # p, At(q, "moveHolders")'
      PROVE  roles'[c(q)'.k] = Null
  <2>1. At(q, "moveHolders") /\ c(q)' = c(q)
    BY <1>1, <1>2 DEF Others, At, c
  <2>2. Busy(q) /\ c(q) \in Call /\ Place(c(q).name, Left(q), "moveHolders")
    BY <2>1, Where
  <2>3. c(q).k \in RoleKey /\ c(q).k \in FreedRoles
    BY <2>2 DEF Place, Call, CallsKnown, FreedRoles
  <2> QED BY <2>1, <2>3 DEF Emptied
<1>3. ASSUME At(p, "moveHolders")'
      PROVE  roles'[c(p)'.k] = Null
  <2>1. Goes(p, s)
    BY <1>3 DEF Runs, Moves, Halts, Stops, At
  <2>2. /\ Place(c(p).name, Left(p)', "moveHolders") /\ c(p)' = c(p) /\ Left(p) \in Nat \ {0}
        /\ \/ Left(p)' = Left(p) - 1
           \/ At(p, "moveHolders") /\ "moveHolders" # s /\ Left(p)' = Left(p)
    BY <1>1, <1>3, <2>1, WhereNext, RunsOn DEF Goes, c
  <2>3. c(p).name = "renameRole" /\ Left(p)' = 2
    BY <2>2 DEF Place
  <2>4. Left(p) = 3 /\ s = "moveRole"
    BY <1>1, <2>2, <2>3, Turn
  <2>5. MoveRole(p) /\ ~ Throw(p, "moveRole")
    <3>1. ops'[p].todo # <<>>
      BY <1>3 DEF At
    <3>2. ASSUME Throw(p, "moveRole") PROVE FALSE
      <4>1. ops \in [Proc -> Op] /\ ops' = [ops EXCEPT ![p] = Idle]
        BY <3>2 DEF Throw, ControlInv, RInv, OpsOK
      <4> QED BY <3>1, <4>1 DEF Idle
    <3>3. ~ Halts(p, s)
      BY <3>1 DEF Halts, Stops
    <3> QED BY <2>4, <3>2, <3>3
  <2>6. roles' = IF roles[c(p).k] = Null THEN roles
                 ELSE [roles EXCEPT ![c(p).k2] = roles[c(p).k], ![c(p).k] = Null]
    BY <2>5 DEF MoveRole
  <2>7. roles \in [RoleKey -> RoleDoc \cup {Null}] /\ c(p).k \in RoleKey
    BY <1>1 DEF ControlInv, RInv, StoreOK, Call
  <2> QED BY <2>2, <2>6, <2>7
<1> QED BY <1>2, <1>3 DEF Emptied

LEMMA ForgottenKept ==
  ASSUME ControlInv, ControlInv', Forgotten, NEW p \in Proc, NEW s, Runs(p, s),
         \A u \in User : /\ userCache'[u] \in {Null, userCache[u]}
                         /\ \A a \in AppKey :
                              decisionCache'[<<u, a>>] \in {Null, decisionCache[<<u, a>>]}
                         /\ s = "evictUser" /\ u = c(p).u =>
                              /\ userCache'[u] = Null
                              /\ \A a \in AppKey : decisionCache'[<<u, a>>] = Null
  PROVE  Forgotten'
<1>1. /\ At(p, s) /\ Others(p) /\ Busy(p) /\ Left(p) \in Nat \ {0}
      /\ PlaceOfEvictions(c(p).name, Left(p), s)
      /\ Busy(p)' => c(p)' = c(p) /\ (Left(p)' = Left(p) - 1 \/ Left(p)' = Left(p))
  BY RunsOn
<1>2. \A q \in Proc : q # p => (Busy(q)' <=> Busy(q)) /\ c(q)' = c(q) /\ Left(q)' = Left(q)
  BY <1>1 DEF Others, Busy, c, Left
<1>3. Busy(p)' /\ c(p)'.name = "deleteUser" /\ Left(p)' <= 3
        => c(p)' = c(p) /\ (Left(p) <= 3 \/ s = "evictUser")
  BY <1>1 DEF PlaceOfEvictions
<1>4. ASSUME NEW q \in Proc, Busy(q)', c(q)'.name = "deleteUser", Left(q)' <= 3,
             NEW u \in User, u = c(q)'.u
      PROVE  userCache'[u] = Null /\ \A a \in AppKey : decisionCache'[<<u, a>>] = Null
  <2>1. CASE q # p
    BY <1>2, <1>4, <2>1 DEF Forgotten
  <2>2. CASE q = p
    <3>1. c(p)' = c(p) /\ (Left(p) <= 3 \/ s = "evictUser")
      BY <1>3, <1>4, <2>2
    <3> QED BY <1>1, <1>4, <2>2, <3>1 DEF Forgotten
  <2> QED BY <2>1, <2>2
<1> QED BY <1>4 DEF Forgotten

LEMMA StartKeepsUsers ==
  ASSUME RInv, UserSide, CallsKnown, NEW p \in Proc, Start(p), UNCHANGED caches,
         \A r \in Request : reqs'[r].pc = "idle"
  PROVE  UserSide'
<1>1. /\ AllOwed => AllOwed'
      /\ \A u : UserOwed(u) => UserOwed(u)'
      /\ \A k : RoleGone(k) => RoleGone(k)'
      /\ \A a : AppGone(a) => AppGone(a)'
      /\ UNCHANGED <<users, roles, apps>>
  BY StartOwes
<1>2. UNCHANGED <<userCache, decisionCache>>
  BY DEF caches
<1>3. UsersFresh'
  BY <1>1, <1>2 DEF UserSide, UsersFresh, UserStands
<1>4. DecisionsFresh'
  BY <1>1, <1>2 DEF UserSide, DecisionsFresh, LetsIn
<1>5. Others(p) /\ c(p)' \in Call /\ ops'[p].todo = Program[c(p)'.name]
  BY StartMoves
<1>6. \A q \in Proc : q # p => /\ (Busy(q)' <=> Busy(q)) /\ c(q)' = c(q) /\ Left(q)' = Left(q)
                               /\ \A s : At(q, s)' <=> At(q, s)
  BY <1>5 DEF Others, Busy, c, Left, At
<1>7. /\ c(p)'.name = "deleteUser" => Left(p)' = 6
      /\ c(p)'.name = "renameRole" => Left(p)' = 5
  BY <1>5, Lengths DEF Left
<1>8. Forgotten'
  BY <1>2, <1>6, <1>7 DEF UserSide, Forgotten
<1>9. ~ At(p, "moveHolders")'
  BY <1>7, WhereStarts DEF Place
<1>10. Emptied'
  BY <1>1, <1>6, <1>9 DEF UserSide, Emptied
<1> QED BY <1>3, <1>4, <1>8, <1>10 DEF UserSide

(* What a step of a handler leaves in the caches is true still, or owed.    *)
LEMMA MakesKeepsUsers ==
  ASSUME ControlInv, ControlInv', CallsKnown, UserSide, NoAppRename, KeysStay,
         NEW p \in Proc, NEW s, Makes(p, s), UNCHANGED caches,
         \A r \in Request : reqs'[r].pc = "idle"
  PROVE  UserSide'
<1>1. Runs(p, s) /\ s \notin {"evictUser", "evictAll"}
  BY MakesRuns
<1>2. UNCHANGED <<userCache, decisionCache>>
  BY DEF caches
<1>3. /\ AllOwed => AllOwed'
      /\ \A u : UserOwed(u) => UserOwed(u)'
  BY <1>1, StillOwed
<1>4. /\ \A k \in RoleKey : RoleGone(k) => RoleGone(k)'
      /\ \A a \in AppKey : AppGone(a) => AppGone(a)'
  BY GoneStays
<1>5. RolesKeep \/ AllOwed'
  BY OwedForRoles
<1>6. ASSUME NEW u \in User, userCache[u] # Null \/ \E a \in AppKey : decisionCache[<<u, a>>] # Null
      PROVE  UserKeeps(u) \/ UserOwed(u)' \/ (AllOwed' /\ UserLosesGone(u))
  <2>1. Busy(p) /\ ~ (u = c(p).u /\ c(p).name = "deleteUser" /\ Left(p) = 2)
    <3>1. Busy(p)
      BY <1>1, RunsOn
    <3>2. CASE u = c(p).u /\ c(p).name = "deleteUser" /\ Left(p) = 2
      <4>1. Left(p) <= 3
        BY <3>2
      <4>2. userCache[u] = Null /\ \A a \in AppKey : decisionCache[<<u, a>>] = Null
        BY <3>1, <3>2, <4>1 DEF UserSide, Forgotten
      <4> QED BY <1>6, <4>2
    <3> QED BY <3>1, <3>2
  <2> QED BY <2>1, OwedForUsers DEF UserSide
<1>7. UsersFresh'
  <2>1. ASSUME NEW u \in User, userCache[u] # Null
        PROVE  \A v : v = userCache[u].value => UserStands(v, u)' \/ UserOwed(u)'
    <3> SUFFICES ASSUME NEW v, v = userCache[u].value
                 PROVE  UserStands(v, u)' \/ UserOwed(u)'
      OBVIOUS
    <3>1. UserStands(v, u) \/ UserOwed(u)
      BY <2>1 DEF UserSide, UsersFresh
    <3>2. CASE UserStands(v, u) /\ UserKeeps(u)
      BY <1>4, <3>2 DEF UserStands, UserKeeps
    <3>3. CASE UserStands(v, u) /\ UserLosesGone(u)
      BY <1>4, <3>3 DEF UserStands, UserLosesGone
    <3> QED BY <1>3, <1>6, <2>1, <3>1, <3>2, <3>3
  <2> QED BY <1>2, <2>1 DEF UsersFresh
<1>8. DecisionsFresh'
  <2> SUFFICES ASSUME NEW u \in User, NEW a \in AppKey, decisionCache[<<u, a>>] # Null,
                      Allowed(decisionCache[<<u, a>>].value)
               PROVE  LetsIn(u, a)' \/ UserOwed(u)' \/ AllOwed'
    BY <1>2 DEF DecisionsFresh
  <2>1. LetsIn(u, a) \/ UserOwed(u) \/ AllOwed
    BY DEF UserSide, DecisionsFresh
  <2>2. CASE LetsIn(u, a) /\ UserKeeps(u) /\ RolesKeep
    BY <2>2 DEF LetsIn, UserKeeps, RolesKeep
  <2> QED BY <1>3, <1>5, <1>6, <2>1, <2>2
<1>9. Forgotten'
  BY <1>1, <1>2, ForgottenKept DEF UserSide
<1>10. s = "moveRole" /\ ~ Halts(p, s) => MoveRole(p)
  BY DEF Makes, UserWrite, RoleWrite, AppWrite, Mild
<1>11. Emptied'
  BY <1>1, <1>10, FreedStays, EmptiedKept DEF UserSide
<1> QED BY <1>7, <1>8, <1>9, <1>11 DEF UserSide

LEMMA HandlerKeepsUsers ==
  ASSUME ControlInv, ControlInv', CallsKnown, UserSide, Serial, NoAppRename, KeysStay,
         NEW p \in Proc, Handler(p)
  PROVE  UserSide'
<1>1. HandlerMayRun /\ StoreStep(p) /\ UNCHANGED <<caches, reqs>> /\ RInv
  BY DEF Handler, ControlInv
<1>2. \A r \in Request : reqs'[r].pc = "idle"
  BY <1>1 DEF HandlerMayRun
<1>3. CASE Start(p)
  BY <1>1, <1>2, <1>3, StartKeepsUsers
<1>4. CASE \E s : Makes(p, s)
  BY <1>1, <1>2, <1>4, MakesKeepsUsers
<1> QED BY <1>1, <1>3, <1>4, StoreStepKinds

LEMMA EvictionsKeepGone ==
  ASSUME ControlInv, ControlInv', NEW p \in Proc, NEW s, s \in {"evictUser", "evictAll"}, Runs(p, s),
         UNCHANGED store
  PROVE  /\ \A k : RoleGone(k) => RoleGone(k)'
         /\ \A a : AppGone(a) => AppGone(a)'
         /\ UNCHANGED <<users, roles, apps>>
<1>1. Others(p) /\ PlaceOfEvictions(c(p).name, Left(p), s)
  BY RunsOn
<1>2. \A q \in Proc : q # p => (Busy(q)' <=> Busy(q)) /\ c(q)' = c(q) /\ Left(q)' = Left(q)
  BY <1>1 DEF Others, Busy, c, Left
<1>3. \A x : ~ RoleLeaves(p, x) /\ ~ AppLeaves(p, x)
  BY <1>1 DEF PlaceOfEvictions, RoleLeaves, AppLeaves
<1>4. \A q \in Proc : \A x : /\ RoleLeaves(q, x) => RoleLeaves(q, x)'
                             /\ AppLeaves(q, x) => AppLeaves(q, x)'
  BY <1>2, <1>3 DEF RoleLeaves, AppLeaves
<1>5. UNCHANGED <<users, roles, apps>>
  BY DEF store
<1> QED BY <1>4, <1>5 DEF RoleGone, AppGone

LEMMA EvictUserKeepsUsers ==
  ASSUME ControlInv, ControlInv', GInv, CallsKnown, UserSide, Serial, SameProcess,
         NEW p \in Proc, EvictUserEntries(p)
  PROVE  UserSide'
<1>1. /\ HandlerMayRun /\ UNCHANGED reqs /\ EvictUser(p)
      /\ decisionCache' = [x \in User \X AppKey |-> IF x[1] = c(p).u THEN Null ELSE decisionCache[x]]
      /\ userCache' = [userCache EXCEPT ![c(p).u] = Null]
  BY DEF EvictUserEntries
<1>2. \A r \in Request : reqs'[r].pc = "idle"
  BY <1>1 DEF HandlerMayRun
<1>3. Runs(p, "evictUser") /\ UNCHANGED store
  BY <1>1, EvictionRuns DEF ControlInv
<1>4. /\ \A k : RoleGone(k) => RoleGone(k)'
      /\ \A a : AppGone(a) => AppGone(a)'
      /\ UNCHANGED <<users, roles, apps>>
  BY <1>3, EvictionsKeepGone
<1>5. /\ AllOwed => AllOwed'
      /\ \A u : u # c(p).u /\ UserOwed(u) => UserOwed(u)'
  BY <1>3, StillOwed
<1>6. \A u \in User : userCache'[u] = IF u = c(p).u THEN Null ELSE userCache[u]
  BY <1>1 DEF GInv, CachesOK, UsersOK
<1>7. \A u \in User, a \in AppKey :
        decisionCache'[<<u, a>>] = IF u = c(p).u THEN Null ELSE decisionCache[<<u, a>>]
  BY <1>1
<1>8. UsersFresh'
  BY <1>4, <1>5, <1>6 DEF UserSide, UsersFresh, UserStands
<1>9. DecisionsFresh'
  BY <1>4, <1>5, <1>7 DEF UserSide, DecisionsFresh, LetsIn
<1>10. Forgotten'
  BY <1>3, <1>6, <1>7, ForgottenKept DEF UserSide
<1>11. Emptied'
  BY <1>3, <1>4, EmptiedKept DEF UserSide
<1> QED BY <1>2, <1>8, <1>9, <1>10, <1>11 DEF UserSide

LEMMA EvictAllKeepsUsers ==
  ASSUME ControlInv, ControlInv', GInv, CallsKnown, UserSide, Serial, SameProcess,
         NEW p \in Proc, EvictAllEntries(p)
  PROVE  UserSide'
<1>1. /\ HandlerMayRun /\ UNCHANGED <<reqs, userCache>> /\ EvictAll(p)
      /\ decisionCache' = [x \in User \X AppKey |-> Null]
  BY DEF EvictAllEntries
<1>2. \A r \in Request : reqs'[r].pc = "idle"
  BY <1>1 DEF HandlerMayRun
<1>3. Runs(p, "evictAll") /\ UNCHANGED store
  BY <1>1, EvictionRuns DEF ControlInv
<1>4. /\ \A k : RoleGone(k) => RoleGone(k)'
      /\ \A a : AppGone(a) => AppGone(a)'
      /\ UNCHANGED <<users, roles, apps>>
  BY <1>3, EvictionsKeepGone
<1>5. \A u : UserOwed(u) => UserOwed(u)'
  BY <1>3, StillOwed
<1>6. \A u \in User, a \in AppKey : decisionCache'[<<u, a>>] = Null
  BY <1>1
<1>7. UsersFresh'
  BY <1>1, <1>4, <1>5 DEF UserSide, UsersFresh, UserStands
<1>8. DecisionsFresh'
  BY <1>6 DEF DecisionsFresh
<1>9. Forgotten'
  BY <1>1, <1>3, <1>6, ForgottenKept DEF UserSide
<1>10. Emptied'
  BY <1>3, <1>4, EmptiedKept DEF UserSide
<1> QED BY <1>2, <1>7, <1>8, <1>9, <1>10 DEF UserSide

LEMMA OthersKeepUsers ==
  ASSUME GInv, UserSide, SameProcess, Tick \/ Restart \/ RestartWeb \/ UNCHANGED gvars
  PROVE  UserSide'
<1>1. CASE Tick \/ UNCHANGED gvars
  <2>1. UNCHANGED <<rvars, userCache, decisionCache, reqs>>
    BY <1>1 DEF Tick, gvars, caches
  <2>2. /\ Emptied' /\ (AllOwed' <=> AllOwed)
        /\ \A u : UserOwed(u)' <=> UserOwed(u)
    BY <2>1, StoreStands DEF UserSide
  <2>3. /\ \A user, u : UserStands(user, u)' <=> UserStands(user, u)
        /\ \A u, a : LetsIn(u, a)' <=> LetsIn(u, a)
    BY <2>1, StoreStands
  <2>4. UsersFresh' /\ DecisionsFresh'
    BY <2>1, <2>2, <2>3 DEF UserSide, UsersFresh, DecisionsFresh
  <2>5. Forgotten'
    BY <2>1 DEF UserSide, Forgotten, rvars, Busy, c, Left
  <2>6. \A req : UserInHand(req)' <=> UserInHand(req)
    BY <2>1, <2>3 DEF UserInHand, rvars
  <2> QED BY <2>1, <2>2, <2>4, <2>5, <2>6 DEF UserSide
<1>2. CASE Restart
  <2>1. /\ \A p \in Proc : ~ Busy(p)' /\ \A s : ~ At(p, s)'
        /\ \A r \in Request : reqs'[r].pc = "idle"
        /\ \A u \in User : userCache'[u] = Null
    BY <1>2, RestartIsIdle DEF Restart
  <2>2. \A u \in User, a \in AppKey : decisionCache'[<<u, a>>] = Null
    BY <1>2 DEF Restart
  <2> QED BY <2>1, <2>2 DEF UserSide, UsersFresh, DecisionsFresh, Emptied, Forgotten
<1> QED BY <1>1, <1>2 DEF RestartWeb

LEMMA NextKeepsUsers ==
  ASSUME Sound, ControlInv', AppSide, UserSide, Serial, SameProcess, NoAppRename, KeysStay,
         [Next]_gvars
  PROVE  UserSide'
<1>1. ControlInv /\ GInv /\ CallsKnown
  BY DEF Sound, AppSide
<1>2. ASSUME NEW p \in Proc, Handler(p) \/ EvictUserEntries(p) \/ EvictAllEntries(p)
      PROVE  UserSide'
  BY <1>1, <1>2, HandlerKeepsUsers, EvictUserKeepsUsers, EvictAllKeepsUsers
<1>3. ASSUME NEW r \in Request,
             \/ \E u \in User, a \in AppKey : Arrive(r, u, a)
             \/ LookupUser(r) \/ ReadUser(r) \/ FillUser(r)
             \/ LookupApp(r) \/ ReadApp(r) \/ FillApp(r)
             \/ Verify(r) \/ ReadRoles(r) \/ Decide(r)
      PROVE  UserSide'
  BY <1>1, <1>3, RequestStepsKeepUsers
<1> QED BY <1>1, <1>2, <1>3, OthersKeepUsers DEF Next

------------------------------------------------------------------------------
(* Who is let in, the store lets in.                                        *)

LEMMA UserAnswered ==
  ASSUME Sound, GInv', AppSide, UserSide, Next
  PROVE  NextRequestSeesDenial'
<1> SUFFICES ASSUME Allows'
             PROVE  UserJustifies(response.u, response.a, response.started, response.started)'
  BY DEF NextRequestSeesDenial
<1>1. GInv /\ response'.verdict = "allowed"
  BY DEF Sound, Allows
<1>2. PICK r \in Request :
        LET req == reqs[r] IN
        /\ req.pc # "idle" /\ UNCHANGED <<rvars, now>>
        /\ req.user # Null /\ ActiveApp(req.app) /\ \E reason : Decided(r, reason)
        /\ response'.u = req.u /\ response'.a = req.a /\ response'.started = req.started
        /\ response'.secret = req.app.secret
  BY <1>1, AllowedBy
<1> DEFINE req == reqs[r]
<1>3. /\ req # NoRequest /\ req \in ReqType /\ ReqOK(req) /\ req.u \in User /\ req.a \in AppKey
      /\ req.started \in Nat /\ req.started <= now
      /\ Quiet /\ AppInHand(req) /\ UserInHand(req)
  BY <1>1, <1>2, InFlight DEF AppSide, UserSide
<1>4. PICK reason : Decided(r, reason)
  BY <1>2
<1>5. LetsIn(req.u, req.a)
  <2>1. CASE /\ decisionCache[<<req.u, req.a>>] # Null
             /\ reason = decisionCache[<<req.u, req.a>>].value
    BY <1>3, <1>4, <2>1, QuietOwes DEF Decided, UserSide, DecisionsFresh
  <2>2. CASE /\ req.granting # Null
             /\ reason = DecideFrom(req.user, req.a, req.dapp, req.granting)
    <3>1. Allowed(DecideFrom(req.user, req.a, req.dapp, req.granting))
      BY <1>4, <2>2 DEF Decided
    <3> QED BY <1>1, <1>2, <1>3, <2>2, <3>1, DecidedLetsIn
  <2> QED BY <1>4, <2>1, <2>2 DEF Decided
<1>6. UNCHANGED <<users, roles, now>>
  BY <1>2 DEF rvars
<1>7. /\ now \in Nat /\ lastEntitled' \in [User \X AppKey -> Int]
      /\ lastEligible' \in [User \X RoleKey \X AppKey -> Int]
      /\ lastGranting' \in [RoleKey \X AppKey -> Int]
  BY <1>1 DEF GInv, History, HistoryTypes
<1>8. /\ Entitled(users'[req.u], req.a) => lastEntitled'[<<req.u, req.a>>] >= now'
      /\ \A k \in RoleKey :
           /\ Eligible(users'[req.u], k, req.a) => lastEligible'[<<req.u, k, req.a>>] >= now'
           /\ Granting(roles'[k], req.a) => lastGranting'[<<k, req.a>>] >= now'
  BY <1>3 DEF GInv, History, StoreIsNow, UserSince
<1>9. CASE Entitled(users[req.u], req.a)
  <2>1. lastEntitled'[<<req.u, req.a>>] >= now
    BY <1>6, <1>8, <1>9
  <2>2. lastEntitled'[<<req.u, req.a>>] >= req.started
    BY <1>3, <1>7, <2>1
  <2> QED BY <1>2, <2>2 DEF UserJustifies
<1>10. CASE \E k \in RoleKey : Eligible(users[req.u], k, req.a) /\ Granting(roles[k], req.a)
  <2>1. PICK k \in RoleKey : Eligible(users[req.u], k, req.a) /\ Granting(roles[k], req.a)
    BY <1>10
  <2>2. lastEligible'[<<req.u, k, req.a>>] >= now /\ lastGranting'[<<k, req.a>>] >= now
    BY <1>6, <1>8, <2>1
  <2>3. /\ lastEligible'[<<req.u, k, req.a>>] >= req.started
        /\ lastGranting'[<<k, req.a>>] >= req.started
    BY <1>3, <1>7, <2>2
  <2> QED BY <1>2, <2>3 DEF UserJustifies
<1> QED BY <1>5, <1>9, <1>10 DEF LetsIn

(* When requests and handlers do not overlap, a deny, a disabling or a role *)
(* or a grant taken away holds from the next request on: whoever is let in  *)
(* is somebody the store lets in while the request is served.  It rests on  *)
(* the order in which every handler writes and evicts, and on deleteUser    *)
(* evicting before it removes the user, which is sound only because nothing *)
(* fills the caches in between.  A rename of an app leaves the users' cache *)
(* with its old overrides, and a key that is freed and made again finds a   *)
(* cached user who held it: the instance renames no app, and makes no key   *)
(* that one of its calls frees.                                             *)
THEOREM NextRequestIsDenied ==
  ASSUME SameProcess, Serial, NoAppRename, KeysStay
  PROVE  Spec => []NextRequestSeesDenial
<1> DEFINE Inv == Sound /\ AppSide /\ UserSide /\ NextRequestSeesDenial
<1>1. Init => Inv
  <2> SUFFICES ASSUME Init PROVE Inv
    OBVIOUS
  <2>1. /\ Sound /\ AppSide
        /\ \A p \in Proc : ~ Busy(p) /\ \A s : ~ At(p, s)
        /\ \A r \in Request : reqs[r].pc = "idle"
    BY SoundStart
  <2>2. /\ \A u \in User : userCache[u] = Null
        /\ \A u \in User, a \in AppKey : decisionCache[<<u, a>>] = Null
    BY DEF Init
  <2>3. UserSide
    BY <2>1, <2>2 DEF UserSide, Emptied, UsersFresh, DecisionsFresh, Forgotten
  <2>4. NextRequestSeesDenial
    BY DEF NextRequestSeesDenial, Allows, Init, NoResponse
  <2> QED BY <2>1, <2>3, <2>4
<1>2. Inv /\ [Next]_gvars => Inv'
  <2> SUFFICES ASSUME Inv, [Next]_gvars PROVE Inv'
    OBVIOUS
  <2>1. Sound' /\ AppSide' /\ UserSide'
    BY SoundStep, NextKeepsApps, NextKeepsUsers DEF Sound
  <2>2. CASE Next
    BY <2>1, <2>2, UserAnswered DEF Sound
  <2>3. CASE UNCHANGED gvars
    BY <2>1, <2>3 DEF NextRequestSeesDenial, Allows, UserJustifies, gvars, history
  <2> QED BY <2>1, <2>2, <2>3
<1>3. Inv => NextRequestSeesDenial
  OBVIOUS
<1> QED BY <1>1, <1>2, <1>3, PTL DEF Spec
==============================================================================
