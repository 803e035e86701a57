------------------------------ MODULE MCGateway ------------------------------
(***************************************************************************)
(* Instances of Gateway.  One user, who starts with a role that grants the  *)
(* app and with a session.  Which calls the handlers make, and whether they *)
(* overlap with requests, is what the runs differ in.                       *)
(***************************************************************************)
EXTENDS Gateway

CONSTANTS ada, staff, sysadm, wiki, wiki2, s1, s2

App(st)  == [status |-> st, public |-> FALSE, secret |-> s1]
Ada(es)  == [status |-> "active", roles |-> {staff},
             overrides |-> {[app |-> wiki, effect |-> e] : e \in es}]
Store(es) ==
  [users |-> [u \in User |-> Ada(es)],
   roles |-> [k \in RoleKey |-> [grants |-> IF k = staff THEN {wiki} ELSE {}]],
   apps |-> [a \in AppKey |-> IF a = wiki THEN App("active") ELSE Null],
   sessions |-> {ada}]

MCStores     == {Store({})}
MCStoresDeny == {Store({"deny"})}

\* wiki2 is a key to rename to, in the instance that has it.
Base == [name |-> "signIn", u |-> ada, k |-> staff, k2 |-> staff, a |-> wiki, a2 |-> wiki,
         effect |-> "deny", roles |-> {}, status |-> "keep", public |-> FALSE]
Named(names) == {[Base EXCEPT !.name = n] : n \in names}

\* A change of each kind of document the verifier reads: the app opens its paths,
\* and it is closed.
MCBounds ==
  Named({"disableUser", "deleteGrant"})
  \cup {[Base EXCEPT !.name = "updateApp", !.status = "active", !.public = TRUE],
        [Base EXCEPT !.name = "updateApp", !.status = "disabled"]}

\* Every handler that may give or take access, but for the renames, of which
\* renameApp has an instance of its own, and regenerateSecret, which evicts
\* nothing.
MCChanges ==
  Named({"setRoles", "disableUser", "enableUser", "deleteUser", "signIn", "deleteOverride",
         "addGrant", "deleteGrant", "deleteRole", "deleteApp"})
  \cup {[Base EXCEPT !.name = "setOverride", !.effect = e] : e \in Effect}
  \cup {[Base EXCEPT !.name = "setRoles", !.roles = {staff}]}
  \cup {[Base EXCEPT !.name = "updateApp", !.status = st, !.public = b] :
          st \in {"active", "disabled"}, b \in BOOLEAN}

MCDeny   == Named({"setOverride"})
MCRename == {[Base EXCEPT !.name = "renameApp", !.a2 = wiki2]}

\* What tells two states apart: how long ago things were, an expired entry being
\* as good as none and a fact older than every bound as good as one that was never
\* seen.  No step and no property reads the clock otherwise, so MaxTime bounds
\* nothing in a search of fewer levels than that.  The comparison with itself makes
\* TLC evaluate the functions it would leave lazy.
Aged(cache, ttl) ==
  [x \in DOMAIN cache |-> IF Live(cache[x], ttl) THEN <<cache[x].value, now - cache[x].at>>
                                                 ELSE <<>>]
Since(last, bound) == [x \in DOMAIN last |-> IF last[x] >= now - bound THEN now - last[x] ELSE -1]
Age(req) == IF req.pc = "idle" THEN 0 ELSE now - req.started
View(userBound, activeBound, roleBound, appBound) ==
  <<store, ops, <<caches, history>> = <<caches, history>>,
    [r \in Request |-> [reqs[r] EXCEPT !.started = Age(reqs[r])]],
    [response EXCEPT !.started = response.at - @, !.at = 0],
    Aged(userCache, UserTtl), Aged(appCache, AppTtl), Aged(decisionCache, DecisionTtl),
    Since(lastEntitled, userBound), Since(lastEligible, userBound), Since(lastActive, activeBound),
    Since(lastGranting, roleBound), Since(lastServing, appBound), Since(lastOpen, appBound)>>
\* The properties of one kind read no bounds, those of the other neither what was
\* quiet nor when an answered request had arrived.
MCSerialView == View(MaxRequest, MaxRequest, MaxRequest, MaxRequest)
MCBoundsView ==
  [View(UserBound, ActiveBound, RoleBound, AppBound) EXCEPT
     ![4] = [r \in Request |-> [reqs[r] EXCEPT !.started = Age(reqs[r]), !.quiet = FALSE]],
     ![5] = [response EXCEPT !.started = 0, !.at = 0, !.quiet = FALSE]]
==============================================================================
