----------------------------- MODULE MCRegistry -----------------------------
(***************************************************************************)
(* Instances of Registry: two users (one of them the superadmin), roles    *)
(* and apps of which one key each is free at the start, so that             *)
(* every handler has something to rename, delete or create.                 *)
(***************************************************************************)
EXTENDS Registry

CONSTANTS ada, root, staff, crew, sysadm, wiki, wiki2, s1, s2

MCUser == {ada, root}
MCRoleKey == {staff, crew, sysadm}
MCAppKey == {wiki, wiki2}
MCSecret == {s1, s2}
MCSuperAdmin == {root}

Overrides(es) == {[app |-> wiki, effect |-> e] : e \in es}

(* ada may hold the role, have no override, a deny or an allow; the role    *)
(* may grant the app or not.                                                *)
MCStores ==
  { [users |-> [u \in MCUser |->
                  IF u = ada
                  THEN [status |-> "active", roles |-> rs, overrides |-> Overrides(es)]
                  ELSE [status |-> "active", roles |-> {sysadm}, overrides |-> {}]],
     roles |-> [k \in MCRoleKey |-> CASE k = staff -> [grants |-> gs]
                                [] k = crew -> Null
                                [] k = sysadm -> [grants |-> {}]],
     apps |-> [a \in MCAppKey |-> IF a = wiki
                                  THEN [status |-> "active", public |-> FALSE, secret |-> s1]
                                  ELSE Null],
     sessions |-> {ada}] :
    rs \in {{}, {staff}}, es \in {{}, {"deny"}, {"allow"}}, gs \in {{}, {wiki}} }

Base == [name |-> "signIn", u |-> ada, k |-> staff, k2 |-> crew, a |-> wiki, a2 |-> wiki2,
         effect |-> "deny", roles |-> {staff}, status |-> "keep", public |-> FALSE]
\* No property reads the secrets, and none but NoDanglingApp and the renames the
\* app documents: two stores that differ in their secrets or public paths only
\* are one.
Plain(app) == IF app = Null THEN Null ELSE [app EXCEPT !.secret = s1, !.public = FALSE]
MCView == <<users, roles, [a \in AppKey |-> Plain(apps[a])], sessions, torn,
            [p \in Proc |-> [ops[p] EXCEPT !.app = Plain(@)]]>>

Named(names) == {[Base EXCEPT !.name = n] : n \in names}
Back(call) == [call EXCEPT !.k = crew, !.k2 = staff, !.a = wiki2, !.a2 = wiki]

(* The handlers that move or remove a key in both directions, the others    *)
(* with each argument.  The app's status never changes here: the instances  *)
(* of Gateway change it.                                                    *)
MCCalls ==
  LET keyed == Named({"renameRole", "deleteRole", "renameApp", "deleteApp"})
  IN keyed \cup {Back(call) : call \in keyed}
     \cup Named({"createRole", "createApp", "addGrant", "deleteGrant", "signIn", "setRoles",
                "deleteOverride", "enableUser", "deleteUser", "updateApp", "regenerateSecret"})
     \cup {[Base EXCEPT !.name = "setOverride", !.effect = e] : e \in Effect}
     \cup {[Base EXCEPT !.name = "disableUser", !.u = u] : u \in MCUser}
     \cup {[Base EXCEPT !.name = n, !.k = sysadm] : n \in {"renameRole", "deleteRole"}}

(* For handlers that overlap: the overrides of one user.                    *)
MCOverrideCalls == {[Base EXCEPT !.name = "setOverride", !.effect = e] : e \in Effect}
==============================================================================
