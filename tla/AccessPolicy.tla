---------------------------- MODULE AccessPolicy ----------------------------
(***************************************************************************)
(* The single authorization decision of the portal (src/src/decide.ts,      *)
(* decideFrom) and the shapes of the documents it reads.  Pure: there are   *)
(* no variables.  Every other module that speaks of access uses these       *)
(* operators, on a document it has just read, on a cached one, or on the    *)
(* store itself.                                                            *)
(*                                                                          *)
(* A document that does not exist is Null, the null the store's findOne     *)
(* returns.  An array of overrides or of grants is a set: the code only     *)
(* asks whether `some` element matches.                                     *)
(***************************************************************************)
CONSTANTS
  User,     \* user ids
  RoleKey,  \* keys a role may have
  AppKey,   \* keys an app may have
  Secret,   \* values of an app's proxy_secret
  Null      \* "no document"

Effect    == {"deny", "allow"}
Override  == [app : AppKey, effect : Effect]
AppStatus == {"active", "disabled", "planned"}

UserDoc == [status : {"active", "disabled"},
            roles : SUBSET RoleKey,
            overrides : SUBSET Override]
RoleDoc == [grants : SUBSET AppKey]
AppDoc  == [status : AppStatus, public : BOOLEAN, secret : Secret]

ASSUME NullAssumption == Null \notin UserDoc \cup RoleDoc \cup AppDoc

------------------------------------------------------------------------------
(* loadUser and decide both let only an active user document through.       *)
ActiveUser(user) == user # Null /\ user.status = "active"

(* The status gate of decideFrom, and the first check of /gateway/verify.   *)
ActiveApp(app) == app # Null /\ app.status = "active"

HasOverride(user, key, effect) == [app |-> key, effect |-> effect] \in user.overrides

(* The roles of `user` whose documents grant the app: what the loop of      *)
(* decideFrom looks for in the role documents it is given.  A role key      *)
(* without a document is not among them: roles.find does not return it.     *)
GrantingRoles(user, key, roles) ==
  {k \in user.roles : roles[k] # Null /\ key \in roles[k].grants}

(* decideFrom, in the code's order of precedence: status gates, the user's  *)
(* deny, the user's allow, a role's grant, default deny.                    *)
DecideFrom(user, key, app, granting) ==
  IF user = Null THEN "no_user"
  ELSE IF user.status # "active" THEN "inactive"
  ELSE IF ~ ActiveApp(app) THEN "unknown_app"
  ELSE IF HasOverride(user, key, "deny") THEN "deny_user"
  ELSE IF HasOverride(user, key, "allow") THEN "allow_user"
  ELSE IF granting # {} THEN "allow_role"
  ELSE "no_grant"

Reason == {"no_user", "inactive", "unknown_app", "deny_user",
           "allow_user", "allow_role", "no_grant"}
Allowed(reason) == reason \in {"allow_user", "allow_role"}
==============================================================================
