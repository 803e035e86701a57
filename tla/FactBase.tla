------------------------------ MODULE FactBase ------------------------------
(***************************************************************************)
(* What the other modules take a store call to be: one step on a set of     *)
(* facts, the step its name says, or none when the call is refused.  A user *)
(* holds a role or has an override, a role exists and grants an app, a user *)
(* used an app on a day, a key of an owner exists and is revoked.           *)
(***************************************************************************)
CONSTANTS Name,    \* of users, roles, apps and keys
          Effects, \* of an override
          Days

VARIABLES
  facts,
  call    \* the call of the last step: its name, and the names it is about

Call(name, x, y, new) == call' = <<name, x, y>> /\ facts' = new
If(guard, new)        == IF guard THEN new ELSE facts

Renamed(kind, i, x, y) ==
  {IF f[1] = kind /\ f[i] = x THEN [f EXCEPT ![i] = y] ELSE f : f \in facts}
Without(kind, i, x) == {f \in facts : ~ (f[1] = kind /\ f[i] = x)}

OnUsers(x, y) ==
  \/ Call("moveHolders", x, y, Renamed("holds", 3, x, y))
  \/ Call("stripHolders", x, x, Without("holds", 3, x))
  \/ \E ks \in SUBSET Name :
       Call("setRoles", x, x, If(<<"user", x>> \in facts,
                                 Without("holds", 2, x) \cup {<<"holds", x, k>> : k \in ks}))
  \/ Call("grantRole", x, y, If(<<"user", x>> \in facts, facts \cup {<<"holds", x, y>>}))
  \/ Call("pullOverride", x, y, {f \in facts : ~ (f[1] = "override" /\ f[2] = x /\ f[3] = y)})
  \/ \E e \in Effects :
       Call("pushOverride", x, y, If(<<"user", x>> \in facts,
                                     facts \cup {<<"override", x, y, e>>}))
  \/ Call("moveOverrides", x, y, Renamed("override", 3, x, y))
  \/ Call("dropOverrides", x, x, Without("override", 3, x))

OnRoles(x, y) ==
  \/ Call("insertRole", x, x, facts \cup {<<"role", x>>})
  \/ \E as \in SUBSET Name :
       Call("seedRole", x, x, Without("grants", 2, x)
                              \cup {<<"role", x>>} \cup {<<"grants", x, a>> : a \in as})
  \/ Call("moveRole", x, y,
          If(<<"role", y>> \notin facts,
             {IF f[1] \in {"role", "grants"} /\ f[2] = x THEN [f EXCEPT ![2] = y] ELSE f :
                f \in facts}))
  \/ Call("pushGrant", x, y, If(<<"role", x>> \in facts, facts \cup {<<"grants", x, y>>}))
  \/ Call("pullGrant", x, y, facts \ {<<"grants", x, y>>})
  \/ Call("moveGrants", x, y, Renamed("grants", 3, x, y))
  \/ Call("dropGrants", x, x, Without("grants", 3, x))
  \/ Call("removeRole", x, x, {f \in facts : ~ (f[1] \in {"role", "grants"} /\ f[2] = x)})

(* A row of the new key in the way of one: nothing moves, the call throws.  *)
OnUsage(x, y) ==
  \/ \E d \in Days : Call("record", x, y, facts \cup {<<"used", x, y, d>>})
  \/ Call("moveUsage", x, y,
          If(\A f \in facts : f[3] = x => <<"used", f[2], y, f[4]>> \notin facts,
             Renamed("used", 3, x, y)))
  \/ Call("dropAppUsage", x, x, Without("used", 3, x))
  \/ Call("dropUserUsage", x, x, Without("used", 2, x))

(* A key is its owner's alone to revoke; a stamp says nothing.              *)
OnKeys(x, y) ==
  \/ Call("createKey", x, y, If(\A f \in facts : f[2] # x, facts \cup {<<"key", x, y>>}))
  \/ Call("revokeKey", x, y, If(<<"key", x, y>> \in facts, facts \cup {<<"revoked", x>>}))
  \/ Call("touchKey", x, x, facts)

FactNext == \E x, y \in Name : OnUsers(x, y) \/ OnRoles(x, y) \/ OnUsage(x, y) \/ OnKeys(x, y)
FactSpec == [][FactNext]_<<facts, call>>
==============================================================================
