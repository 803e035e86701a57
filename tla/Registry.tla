------------------------------ MODULE Registry ------------------------------
(***************************************************************************)
(* The access registry of the portal - users, roles, apps and who has a     *)
(* session - and the administrators' handlers that change it                *)
(* (src/src/services/{users,roles,apps}.ts), with the sign-in that opens a  *)
(* session (src/src/routes/auth.ts).                                        *)
(*                                                                          *)
(* The store has no transactions: each call a handler awaits is atomic, and *)
(* any other handler may run between two of them.  A handler is therefore a *)
(* program: a sequence of sets of store calls, where the calls of one set   *)
(* are awaited together (Promise.all) and may take effect in either order.  *)
(* The cache evictions are steps of the programs too; here they change      *)
(* nothing, module Gateway gives them their effect.                         *)
(***************************************************************************)
EXTENDS AccessPolicy, Sequences

CONSTANTS
  Proc,           \* handlers that may be in flight at once
  Calls,          \* the calls (handler and arguments) this instance makes
  ProtectedRole,  \* PROTECTED_ROLE: its key is structural
  DemoApp,        \* the app a fresh install is seeded with
  SuperAdmin,     \* the users isSuperadmin recognises by their email
  Stores          \* the stores an instance may start from

VARIABLES
  users,     \* the users collection, by id
  roles,     \* the roles collection, by its unique key
  apps,      \* the apps collection, by its unique key
  sessions,  \* the users who have a session document
  ops,       \* the handlers in flight
  torn       \* history: the handlers a restart cut off while they owed a cascade

store == <<users, roles, apps, sessions>>
rvars == <<users, roles, apps, sessions, ops, torn>>

------------------------------------------------------------------------------
(* The handlers.                                                            *)

StepName ==
  {"findUser", "findActive", "findRole", "findNoRole", "findApp", "findNoApp",
   "writeRoles", "writeDisabled", "writeActive", "pullOverride", "pushOverride",
   "removeUser", "dropSessions", "openSession", "idpDelete",
   "insertRole", "pullGrant", "pushGrant", "removeRole", "moveRole", "moveHolders",
   "stripHolders", "insertApp", "writeApp", "writeSecret", "removeApp", "moveApp",
   "moveGrants", "moveOverrides", "dropGrants", "dropOverrides", "moveUsage", "dropUsage",
   "evictUser", "evictAll"}

(* Mutants of the programs below, for the properties at the end: the old    *)
(* override is not pulled; the sessions stay; the holders keep the old key; *)
(* the overrides stay behind; the app goes before its references.           *)
SetOverrideNoPull   == << {"findUser"}, {"findApp"}, {"pushOverride"}, {"evictUser"} >>
DisableKeepsSession == << {"findUser"}, {"writeDisabled"}, {"evictUser"} >>
RenameRoleOnly      == << {"findRole"}, {"findNoRole"}, {"moveRole"}, {"evictAll"} >>
RenameAppGrantsOnly == << {"findApp"}, {"findNoApp"}, {"moveApp"}, {"moveGrants"},
                          {"moveUsage"}, {"evictAll"} >>
DeleteAppFirst      == << {"findApp"}, {"removeApp"}, {"dropGrants", "dropOverrides"},
                          {"dropUsage"}, {"evictAll"} >>

SetRoles       == << {"findUser"}, {"writeRoles"}, {"evictUser"} >>
SetOverride    == << {"findUser"}, {"findApp"}, {"pullOverride"},
                     {"pushOverride"}, {"evictUser"} >>
DeleteOverride == << {"pullOverride"}, {"evictUser"} >>
DisableUser    == << {"findUser"}, {"writeDisabled"}, {"dropSessions"}, {"evictUser"} >>
EnableUser     == << {"findUser"}, {"writeActive"} >>
DeleteUser     == << {"findUser"}, {"dropSessions"}, {"evictUser"},
                     {"idpDelete"}, {"removeUser"}, {"dropUsage"} >>
CreateRole     == << {"findNoRole"}, {"insertRole"} >>
RenameRole     == << {"findRole"}, {"findNoRole"}, {"moveRole"}, {"moveHolders"}, {"evictAll"} >>
AddGrant       == << {"findRole"}, {"findApp"}, {"pullGrant"}, {"pushGrant"}, {"evictAll"} >>
DeleteGrant    == << {"findRole"}, {"pullGrant"}, {"evictAll"} >>
DeleteRole     == << {"findRole"}, {"stripHolders"}, {"removeRole"}, {"evictAll"} >>
CreateApp      == << {"findNoApp"}, {"insertApp"} >>
UpdateApp      == << {"findApp"}, {"writeApp"}, {"evictAll"} >>
RenameApp      == << {"findApp"}, {"findNoApp"}, {"moveApp"},
                     {"moveGrants", "moveOverrides"}, {"moveUsage"}, {"evictAll"} >>
DeleteApp      == << {"findApp"}, {"dropGrants", "dropOverrides"}, {"removeApp"},
                     {"dropUsage"}, {"evictAll"} >>
RegenerateSecret == << {"findApp"}, {"writeSecret"} >>
SignIn         == << {"findActive"}, {"openSession"} >>

Program ==
  [setRoles |-> SetRoles, setOverride |-> SetOverride,
   deleteOverride |-> DeleteOverride, disableUser |-> DisableUser,
   enableUser |-> EnableUser, deleteUser |-> DeleteUser,
   createRole |-> CreateRole, renameRole |-> RenameRole, addGrant |-> AddGrant,
   deleteGrant |-> DeleteGrant, deleteRole |-> DeleteRole,
   createApp |-> CreateApp, updateApp |-> UpdateApp, renameApp |-> RenameApp,
   deleteApp |-> DeleteApp, regenerateSecret |-> RegenerateSecret,
   signIn |-> SignIn]

(* The arguments of a call: the user, role and app it names, the new role   *)
(* and app keys of a creation or a rename, the override's effect, the roles *)
(* to set, the app's new status ("keep": not sent, or not a status) and     *)
(* whether the new public_paths open the app's paths.  A handler reads the  *)
(* arguments it has.                                                        *)
Call == [name : DOMAIN Program, u : User, k : RoleKey, k2 : RoleKey,
         a : AppKey, a2 : AppKey, effect : Effect, roles : SUBSET RoleKey,
         status : AppStatus \cup {"keep"}, public : BOOLEAN]

(* A handler in flight: the call, the steps still to make and the app       *)
(* document it read (updateApp takes the status from it).  The rest is      *)
(* history, for the properties: of a rename or a role's deletion that       *)
(* returned the call stays, with nothing left to do; let0 are the users the *)
(* store let into app a when a renameApp started, held0 those who held role *)
(* k or k2 when a renameRole did.                                           *)
Idle == [call |-> Null, todo |-> <<>>, app |-> Null, let0 |-> {}, held0 |-> {}]
Remembered == {"renameApp", "renameRole", "deleteRole"}

ASSUME RegistryAssumption ==
  /\ Calls \subseteq Call
  /\ ProtectedRole \in RoleKey
  /\ SuperAdmin \subseteq User
  /\ Stores \subseteq [users : [User -> UserDoc \cup {Null}],
                       roles : [RoleKey -> RoleDoc \cup {Null}],
                       apps : [AppKey -> AppDoc \cup {Null}],
                       sessions : SUBSET User]
  /\ DemoApp \in AppKey

(* No portal listens before its bootstrap has run (server-all, server-web). *)
ASSUME BootstrapAssumption ==
  \A s \in Stores : /\ \A u \in SuperAdmin : ActiveUser(s.users[u])
                    /\ s.roles[ProtectedRole] # Null

(* A registry is empty when it is installed, and later what the handlers    *)
(* left: no reference to an app dangles, nobody has two overrides for one   *)
(* app, and sessions are of active users.                                   *)
ASSUME StoresAssumption ==
  \A s \in Stores :
    /\ \A k \in RoleKey : s.roles[k] # Null => \A a \in s.roles[k].grants : s.apps[a] # Null
    /\ \A u \in User : s.users[u] # Null =>
         /\ \A o \in s.users[u].overrides : s.apps[o.app] # Null
         /\ \A o1, o2 \in s.users[u].overrides : o1.app = o2.app => o1 = o2
    /\ \A u \in s.sessions : ActiveUser(s.users[u])

------------------------------------------------------------------------------
(* What the store itself says, at this moment.                              *)

StoreDecision(u, a) == DecideFrom(users[u], a, apps[a], 
                         IF users[u] = Null THEN {} ELSE GrantingRoles(users[u], a, roles))
StoreAllows(u, a)   == Allowed(StoreDecision(u, a))
Holds(user, k)      == user # Null /\ k \in user.roles
Quiet               == \A p \in Proc : ops[p].todo = <<>>

------------------------------------------------------------------------------
(* Running a program.                                                       *)

At(p, s) == ops[p].todo # <<>> /\ s \in Head(ops[p].todo)
c(p)     == ops[p].call

(* What remains of `todo` when step s of its first set is done.             *)
Rest(todo, s) ==
  IF Head(todo) = {s} THEN Tail(todo) ELSE <<Head(todo) \ {s}>> \o Tail(todo)

Advance(op, s) ==
  IF Rest(op.todo, s) = <<>> /\ op.call.name \notin Remembered
  THEN Idle ELSE [op EXCEPT !.todo = Rest(@, s)]

Done(p, s) == At(p, s) /\ ops' = [ops EXCEPT ![p] = Advance(@, s)]

(* A precondition fails and the handler throws: nothing after it happens.   *)
Throw(p, s) ==
  /\ At(p, s)
  /\ ops' = [ops EXCEPT ![p] = Idle]
  /\ UNCHANGED store

(* A read that finds what the handler needs, or makes it throw.             *)
Check(p, s, found) ==
  /\ At(p, s)
  /\ IF found THEN Done(p, s) /\ UNCHANGED store ELSE Throw(p, s)

Start(p) ==
  /\ ops[p].todo = <<>>
  /\ \E call \in Calls :
       ops' = [ops EXCEPT ![p] =
                 [call |-> call, todo |-> Program[call.name], app |-> Null,
                  let0 |-> IF call.name = "renameApp"
                           THEN {u \in User : StoreAllows(u, call.a)} ELSE {},
                  held0 |-> IF call.name = "renameRole"
                            THEN {u \in User : \E k \in {call.k, call.k2} : Holds(users[u], k)}
                            ELSE {}]]
  /\ UNCHANGED store

------------------------------------------------------------------------------
(* Reads.                                                                   *)

(* A mutant of FindUser: the configured superadmin is not protected.        *)
FindUserUnguarded(p) == Check(p, "findUser", users[c(p).u] # Null)

FindUser(p) ==
  Check(p, "findUser",
        /\ users[c(p).u] # Null
        /\ c(p).name \in {"disableUser", "deleteUser"} => c(p).u \notin SuperAdmin)

FindActive(p) == Check(p, "findActive", ActiveUser(users[c(p).u]))

FindRole(p) ==
  Check(p, "findRole",
        /\ roles[c(p).k] # Null
        /\ c(p).name \in {"renameRole", "deleteRole"} => c(p).k # ProtectedRole)

FindNoRole(p) == Check(p, "findNoRole", roles[c(p).k2] = Null)

FindNoApp(p) == Check(p, "findNoApp", apps[c(p).a2] = Null)

(* updateApp keeps the document it read and uses it when it writes.         *)
FindApp(p) ==
  LET a == c(p).a IN
  /\ At(p, "findApp")
  /\ \/ /\ apps[a] # Null
        /\ ops' = [ops EXCEPT ![p] =
                      [Advance(@, "findApp") EXCEPT
                         !.app = IF c(p).name = "updateApp" THEN apps[a] ELSE Null]]
        /\ UNCHANGED store
     \/ apps[a] = Null /\ Throw(p, "findApp")

------------------------------------------------------------------------------
(* Writes.  An update that matches no document changes nothing.             *)

(* The users document of u becomes `new`, if there is one.                  *)
PatchUser(u, new) ==
  /\ users' = [users EXCEPT ![u] = IF @ = Null THEN Null ELSE new]
  /\ UNCHANGED <<roles, apps, sessions>>

WriteRoles(p) ==
  /\ Done(p, "writeRoles")
  /\ PatchUser(c(p).u, [users[c(p).u] EXCEPT !.roles = c(p).roles])

WriteDisabled(p) ==
  /\ Done(p, "writeDisabled")
  /\ PatchUser(c(p).u, [users[c(p).u] EXCEPT !.status = "disabled"])

WriteActive(p) ==
  /\ Done(p, "writeActive")
  /\ PatchUser(c(p).u, [users[c(p).u] EXCEPT !.status = "active"])

(* $pull and $push of a user's overrides: two store calls.                  *)
PullOverride(p) ==
  /\ Done(p, "pullOverride")
  /\ PatchUser(c(p).u,
       [users[c(p).u] EXCEPT !.overrides = {o \in @ : o.app # c(p).a}])

PushOverride(p) ==
  /\ Done(p, "pushOverride")
  /\ PatchUser(c(p).u,
       [users[c(p).u] EXCEPT !.overrides = @ \cup {[app |-> c(p).a, effect |-> c(p).effect]}])

RemoveUser(p) ==
  /\ Done(p, "removeUser")
  /\ users' = [users EXCEPT ![c(p).u] = Null]
  /\ UNCHANGED <<roles, apps, sessions>>

DropSessions(p) ==
  /\ Done(p, "dropSessions")
  /\ sessions' = sessions \ {c(p).u}
  /\ UNCHANGED <<users, roles, apps>>

OpenSession(p) ==
  /\ Done(p, "openSession")
  /\ sessions' = sessions \cup {c(p).u}
  /\ UNCHANGED <<users, roles, apps>>

(* The identity provider's answer to deleteUser: it may refuse.             *)
IdpDelete(p) ==
  \/ Done(p, "idpDelete") /\ UNCHANGED store
  \/ Throw(p, "idpDelete")

------------------------------------------------------------------------------
(* Roles.                                                                   *)

PatchRole(k, new) ==
  /\ roles' = [roles EXCEPT ![k] = IF @ = Null THEN Null ELSE new]
  /\ UNCHANGED <<users, apps, sessions>>

InsertRole(p) ==
  /\ At(p, "insertRole")
  /\ \/ /\ roles[c(p).k2] = Null
        /\ Done(p, "insertRole")
        /\ roles' = [roles EXCEPT ![c(p).k2] = [grants |-> {}]]
        /\ UNCHANGED <<users, apps, sessions>>
     \/ roles[c(p).k2] # Null /\ Throw(p, "insertRole")  \* unique index on key

PullGrant(p) ==
  /\ Done(p, "pullGrant")
  /\ PatchRole(c(p).k, [roles[c(p).k] EXCEPT !.grants = @ \ {c(p).a}])

PushGrant(p) ==
  /\ Done(p, "pushGrant")
  /\ PatchRole(c(p).k, [roles[c(p).k] EXCEPT !.grants = @ \cup {c(p).a}])

RemoveRole(p) ==
  /\ Done(p, "removeRole")
  /\ roles' = [roles EXCEPT ![c(p).k] = Null]
  /\ UNCHANGED <<users, apps, sessions>>

(* renameRole: the key of the document, then of every holder's slot.        *)
MoveRole(p) ==
  LET k == c(p).k  k2 == c(p).k2 IN
  /\ At(p, "moveRole")
  /\ \/ /\ roles[k2] = Null \/ roles[k] = Null
        /\ Done(p, "moveRole")
        /\ roles' = IF roles[k] = Null THEN roles
                    ELSE [roles EXCEPT ![k2] = roles[k], ![k] = Null]
        /\ UNCHANGED <<users, apps, sessions>>
     \/ /\ roles[k2] # Null /\ roles[k] # Null
        /\ Throw(p, "moveRole")                        \* unique index on key

MoveHolders(p) ==
  /\ Done(p, "moveHolders")
  /\ users' = [u \in User |->
       IF Holds(users[u], c(p).k)
       THEN [users[u] EXCEPT !.roles = (@ \ {c(p).k}) \cup {c(p).k2}]
       ELSE users[u]]
  /\ UNCHANGED <<roles, apps, sessions>>

StripHolders(p) ==
  /\ Done(p, "stripHolders")
  /\ users' = [u \in User |->
       IF Holds(users[u], c(p).k) THEN [users[u] EXCEPT !.roles = @ \ {c(p).k}]
       ELSE users[u]]
  /\ UNCHANGED <<roles, apps, sessions>>

------------------------------------------------------------------------------
(* Apps.                                                                    *)

(* A new app, or a new secret: genSecret returns one not in use.            *)
InsertApp(p) ==
  LET a == c(p).a2 IN
  /\ At(p, "insertApp")
  /\ \/ /\ apps[a] = Null
        /\ Done(p, "insertApp")
        /\ \E s \in Secret :
             apps' = [apps EXCEPT ![a] = [status |-> "active", public |-> FALSE, secret |-> s]]
        /\ UNCHANGED <<users, roles, sessions>>
     \/ apps[a] # Null /\ Throw(p, "insertApp")        \* unique index on key

(* A mutant of WriteApp: the status sent is written whatever it is.         *)
WriteAppAsSent(p) ==
  /\ Done(p, "writeApp")
  /\ apps' = [apps EXCEPT ![c(p).a] =
                IF @ = Null THEN Null
                ELSE [@ EXCEPT !.status = c(p).status, !.public = c(p).public]]
  /\ UNCHANGED <<users, roles, sessions>>

(* status falls back to the document read at the start; public_paths does   *)
(* not: an update that leaves it out empties it.                            *)
WriteApp(p) ==
  LET a == c(p).a
      status == IF c(p).status = "keep" THEN ops[p].app.status ELSE c(p).status
  IN /\ Done(p, "writeApp")
     /\ apps' = [apps EXCEPT ![a] =
                   IF @ = Null THEN Null
                   ELSE [@ EXCEPT !.status = status, !.public = c(p).public]]
     /\ UNCHANGED <<users, roles, sessions>>

WriteSecret(p) ==
  LET a == c(p).a IN
  /\ Done(p, "writeSecret")
  /\ \E s \in Secret :
       /\ apps[a] # Null => s # apps[a].secret
       /\ apps' = [apps EXCEPT ![a] = IF @ = Null THEN Null ELSE [@ EXCEPT !.secret = s]]
  /\ UNCHANGED <<users, roles, sessions>>

RemoveApp(p) ==
  /\ Done(p, "removeApp")
  /\ apps' = [apps EXCEPT ![c(p).a] = Null]
  /\ UNCHANGED <<users, roles, sessions>>

MoveApp(p) ==
  LET a == c(p).a  a2 == c(p).a2 IN
  /\ At(p, "moveApp")
  /\ \/ /\ apps[a2] = Null \/ apps[a] = Null
        /\ Done(p, "moveApp")
        /\ apps' = IF apps[a] = Null THEN apps
                   ELSE [apps EXCEPT ![a2] = apps[a], ![a] = Null]
        /\ UNCHANGED <<users, roles, sessions>>
     \/ /\ apps[a2] # Null /\ apps[a] # Null
        /\ Throw(p, "moveApp")                         \* unique index on key

(* The references to app a become references to a2, or go.                  *)
Rename(key, a, a2) == IF key = a THEN a2 ELSE key

MoveGrants(p) ==
  /\ Done(p, "moveGrants")
  /\ roles' = [k \in RoleKey |->
       IF roles[k] = Null THEN Null
       ELSE [roles[k] EXCEPT !.grants = {Rename(a, c(p).a, c(p).a2) : a \in @}]]
  /\ UNCHANGED <<users, apps, sessions>>

MoveOverrides(p) ==
  /\ Done(p, "moveOverrides")
  /\ users' = [u \in User |->
       IF users[u] = Null THEN Null
       ELSE [users[u] EXCEPT !.overrides =
               {[o EXCEPT !.app = Rename(o.app, c(p).a, c(p).a2)] : o \in @}]]
  /\ UNCHANGED <<roles, apps, sessions>>

DropGrants(p) ==
  /\ Done(p, "dropGrants")
  /\ roles' = [k \in RoleKey |->
       IF roles[k] = Null THEN Null ELSE [roles[k] EXCEPT !.grants = @ \ {c(p).a}]]
  /\ UNCHANGED <<users, apps, sessions>>

DropOverrides(p) ==
  /\ Done(p, "dropOverrides")
  /\ users' = [u \in User |->
       IF users[u] = Null THEN Null
       ELSE [users[u] EXCEPT !.overrides = {o \in @ : o.app # c(p).a}]]
  /\ UNCHANGED <<roles, apps, sessions>>

(* The usage rows move too (module Usage); when a row of the new key exists *)
(* for the same user and day the unique index makes the call throw,         *)
(* after the cascades and before evictAll.                                  *)
MoveUsage(p) ==
  \/ Done(p, "moveUsage") /\ UNCHANGED store
  \/ Throw(p, "moveUsage")
DropUsage(p) == Done(p, "dropUsage") /\ UNCHANGED store

------------------------------------------------------------------------------
EvictUser(p) == Done(p, "evictUser") /\ UNCHANGED store
EvictAll(p)  == Done(p, "evictAll") /\ UNCHANGED store

(* The steps that do not touch the caches of module Gateway.                *)
StoreStep(p) ==
  \/ Start(p)
  \/ FindUser(p) \/ FindActive(p) \/ FindRole(p) \/ FindNoRole(p) \/ FindApp(p) \/ FindNoApp(p)
  \/ WriteRoles(p) \/ WriteDisabled(p) \/ WriteActive(p)
  \/ PullOverride(p) \/ PushOverride(p) \/ RemoveUser(p) \/ IdpDelete(p)
  \/ DropSessions(p) \/ OpenSession(p)
  \/ InsertRole(p) \/ PullGrant(p) \/ PushGrant(p) \/ RemoveRole(p)
  \/ MoveRole(p) \/ MoveHolders(p) \/ StripHolders(p)
  \/ InsertApp(p) \/ WriteApp(p) \/ WriteSecret(p) \/ RemoveApp(p)
  \/ MoveApp(p) \/ MoveGrants(p) \/ MoveOverrides(p) \/ DropGrants(p) \/ DropOverrides(p)
  \/ MoveUsage(p) \/ DropUsage(p)

------------------------------------------------------------------------------
(* The portal's process stops and starts again: the handlers in flight are  *)
(* gone, wherever they were, and what they had written stays.  Bootstrap    *)
(* then restores the superadmin and, in an empty registry, seeds the demo   *)
(* app, before the portal listens.                                          *)

Restored(user) ==
  IF user = Null THEN [status |-> "active", roles |-> {ProtectedRole}, overrides |-> {}]
  ELSE [user EXCEPT !.status = "active", !.roles = @ \cup {ProtectedRole}]

EnsureSuperadmin ==
  /\ users' = [u \in User |-> IF u \in SuperAdmin THEN Restored(users[u]) ELSE users[u]]
  /\ roles' = [roles EXCEPT ![ProtectedRole] = IF @ = Null THEN [grants |-> {}] ELSE @]

EmptyRegistry == \A a \in AppKey : apps[a] = Null
WithDemo(user) ==
  [user EXCEPT !.overrides = @ \cup {[app |-> DemoApp, effect |-> "allow"]}]

EnsureDemoApp ==
  /\ users' = [u \in User |->
       IF u \in SuperAdmin THEN WithDemo(Restored(users[u])) ELSE users[u]]
  /\ roles' = [roles EXCEPT ![ProtectedRole] = IF @ = Null THEN [grants |-> {}] ELSE @]
  /\ \E s \in Secret, b \in BOOLEAN :
       apps' = [apps EXCEPT ![DemoApp] = [status |-> "active", public |-> b, secret |-> s]]

Bootstrap ==
  /\ \/ ~ EmptyRegistry /\ EnsureSuperadmin /\ UNCHANGED apps
     \/ EmptyRegistry /\ EnsureDemoApp
  /\ UNCHANGED sessions

(* A rename that has moved the app owes the references; a disabling that    *)
(* has written the status owes the sessions.                                *)
Owes(p) ==
  \/ At(p, "moveGrants") \/ At(p, "moveOverrides")
  \/ At(p, "dropSessions") /\ c(p).name = "disableUser"

RestartPortal ==
  /\ ops' = [p \in Proc |-> Idle]
  /\ torn' = torn \cup {c(p).name : p \in {q \in Proc : Owes(q)}}
  /\ Bootstrap

------------------------------------------------------------------------------
RInit ==
  /\ \E s \in Stores :
       users = s.users /\ roles = s.roles /\ apps = s.apps /\ sessions = s.sessions
  /\ ops = [p \in Proc |-> Idle]
  /\ torn = {}

RNext ==
  \/ \E p \in Proc : (StoreStep(p) \/ EvictUser(p) \/ EvictAll(p)) /\ UNCHANGED torn
  \/ RestartPortal

RSpec == RInit /\ [][RNext]_rvars
------------------------------------------------------------------------------
(* Properties.                                                              *)

(* Types of the collections and of the handlers in flight.                  *)
Op == [call : Call \cup {Null}, todo : Seq(SUBSET StepName), app : AppDoc \cup {Null},
       let0 : SUBSET User, held0 : SUBSET User]

RegistryTypeOK ==
  /\ users \in [User -> UserDoc \cup {Null}]
  /\ roles \in [RoleKey -> RoleDoc \cup {Null}]
  /\ apps \in [AppKey -> AppDoc \cup {Null}]
  /\ sessions \subseteq User
  /\ ops \in [Proc -> Op]
  /\ torn \subseteq DOMAIN Program

(* No reference dangles: every grant and every override names an app that   *)
(* exists (addGrant and setOverride ask first, deleteApp and renameApp      *)
(* cascade).  It holds inside the handlers and across restarts too:         *)
(* deleteApp drops the references before the app, so that stopping half way *)
(* does no harm.  Only a rename moves the app before its references, and    *)
(* one cut off there leaves them behind for good.                           *)
Renaming(p) == ops[p].todo # <<>> /\ c(p).name = "renameApp"

NoDanglingApp ==
  "renameApp" \notin torn /\ (\A p \in Proc : ~ Renaming(p)) =>
    /\ \A k \in RoleKey : roles[k] # Null => \A a \in roles[k].grants : apps[a] # Null
    /\ \A u \in User : users[u] # Null => \A o \in users[u].overrides : apps[o.app] # Null

(* A user has one override for an app at most, at any time (setOverride     *)
(* pulls before it pushes; the cascades of renameApp must not merge two).   *)
OneOverridePerApp ==
  "renameApp" \notin torn =>
    \A u \in User : users[u] # Null =>
      \A o1, o2 \in users[u].overrides : o1.app = o2.app => o1 = o2

(* A rename of an app that returns lets exactly the users in under the new  *)
(* key that it let in under the old one: the grants, the denies and the     *)
(* allows all moved with it.                                                *)
AppRenameKeepsAccess ==
  "renameApp" \notin torn =>
    \A p \in Proc :
      Quiet /\ c(p) # Null /\ c(p).name = "renameApp" =>
        {u \in User : StoreAllows(u, c(p).a2)} = ops[p].let0

(* A rename of a role that returns leaves the new key, now an existing      *)
(* role, to those who held the old one (and to those who already had the    *)
(* new key: setRoles does not ask that a role exist); after a rename or a   *)
(* deletion nobody holds the old key.  A rename that a restart cut off is   *)
(* made good by the next one.                                               *)
RoleChangeReachesHolders ==
  \A p \in Proc :
    Quiet /\ c(p) # Null =>
      /\ c(p).name = "renameRole" =>
           {u \in User : Holds(users[u], c(p).k2)} = ops[p].held0 /\ roles[c(p).k2] # Null
      /\ c(p).name \in {"renameRole", "deleteRole"} =>
           ~ \E u \in User : Holds(users[u], c(p).k)

(* Between handlers a user who is not active has no session: disableUser    *)
(* and deleteUser destroy them and sign-in opens none.  A deletion may be   *)
(* cut off anywhere; a disabling not before it destroyed them.              *)
InactiveHasNoSession ==
  "disableUser" \notin torn /\ Quiet => \A u \in sessions : ActiveUser(users[u])

(* "Deleting/disabling them could lock everyone out, so they are protected" *)
(* (services/common.ts): whatever handlers overlap and wherever a restart   *)
(* cuts them off, the superadmin is active and the structural role exists.  *)
NoLockout ==
  /\ \A u \in SuperAdmin : ActiveUser(users[u])
  /\ roles[ProtectedRole] # Null

==============================================================================
