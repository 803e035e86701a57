-------------------------------- MODULE Store --------------------------------
(***************************************************************************)
(* The calls that services/, usage.ts, bootstrap.ts and apiKeys.ts make,    *)
(* each a filter and an update of module Documents, run on the rows of      *)
(* their collection.  A call is about one collection, so a behaviour stays  *)
(* in one (name).  The handlers these calls are made by are module          *)
(* Registry's; here they come in any order, with any arguments.             *)
(***************************************************************************)
EXTENDS Documents

CONSTANTS
  Name,      \* the names (emails, keys, ids) in use, integers
  Effects,
  Days,
  Times,     \* of stamps
  Interval,  \* touchLastUsed: minIntervalMs
  MaxArray,  \* bound: members of an array of a document
  MaxRows    \* bound: rows of a collection

ASSUME StoreAssumption ==
  /\ Name \subseteq Int /\ Days \subseteq Int /\ Times \subseteq Int /\ Null \notin Int
  /\ IsFiniteSet(Name) /\ MaxRows \in Nat

VARIABLES
  name,     \* the collection
  rows,     \* its documents
  call,     \* the last call
  touched   \* history: when a key was last presented and stamped

vars == <<name, rows, call, touched>>

(* The columns a filter can use, and the fields of the unique index.        *)
Columns ==
  [users |-> {"_id", "email", "logto_user_id"}, roles |-> {"_id", "key"},
   usageDaily |-> {"_id", "user_id", "app_key", "day"},
   apiKeys |-> {"_id", "token_hash", "user_id"}]
Index ==
  [users |-> {"email"}, roles |-> {"key"},
   usageDaily |-> {"user_id", "app_key", "day"}, apiKeys |-> {"token_hash"}]

(* The calls of the code, by what they do to the collection.                *)
Call(c, x, y, new) ==
  call' = <<c, x, y>> /\ rows' = new /\ UNCHANGED <<name, touched>>
Patch(filter, us)     == Update(rows, Columns[name], Index[name], filter, us, FALSE, FALSE).rows
PatchMany(filter, us) == Update(rows, Columns[name], Index[name], filter, us, TRUE, FALSE).rows
Upsert(filter, us)    == Update(rows, Columns[name], Index[name], filter, us, FALSE, TRUE).rows
Insert(doc)           == InsertOne(rows, Index[name], doc).rows
Room                  == Len(rows) < MaxRows
RoomIn(f)             == \A i \in DOMAIN rows : Len(Elements(rows[i], f)) < MaxArray
Arrays                == UNION {[1..n -> Name] : n \in 0..MaxArray}
Has(f, sub, x)        == Clause(<<f, sub>>, "eq", x)

------------------------------------------------------------------------------
(* The users.  setRoles stores the array as it was sent, duplicates too.    *)

OnUsers(x, y) ==
  \/ Call("moveHolders", x, y, PatchMany(<<Is("roles", x)>>, <<Op("setAt", "roles", y)>>))
  \/ Call("stripHolders", x, x, PatchMany(<<Is("roles", x)>>, <<Op("pull", "roles", x)>>))
  \/ \E s \in Arrays : Call("setRoles", x, x, Patch(<<Is("email", x)>>, <<Set("roles", Many(s))>>))
  \/ /\ RoomIn("roles")
     /\ Call("grantRole", x, y, Patch(<<Is("email", x)>>, <<Op("addToSet", "roles", y)>>))
  \/ Call("pullOverride", x, y,
          Patch(<<Is("email", x)>>, <<Op("pullWhere", "app_overrides", [app |-> y])>>))
  \/ \E e \in Effects :
       /\ RoomIn("app_overrides")
       /\ Call("pushOverride", x, y,
               Patch(<<Is("email", x)>>, <<Op("push", "app_overrides", [app |-> y, effect |-> e])>>))
  \/ Call("moveOverrides", x, y,
          PatchMany(<<Has("app_overrides", "app", x)>>,
                    <<SetEach("app_overrides", [app |-> x], [app |-> y])>>))
  \/ Call("dropOverrides", x, x,
          PatchMany(<<Has("app_overrides", "app", x)>>,
                    <<Op("pullWhere", "app_overrides", [app |-> x])>>))

(* The roles; seedRole is seedDemo's and the bootstrap's upsert.            *)
OnRoles(x, y) ==
  \/ /\ Room
     /\ Call("insertRole", x, x, Insert(Put(Put(<<>>, "key", One(x)), "grants", Many(<<>>))))
  \/ \E s \in Arrays :
       /\ Room
       /\ Call("seedRole", x, x,
               Upsert(<<Is("key", x)>>,
                      <<Set("grants", Many([i \in DOMAIN s |-> [app |-> s[i]]])),
                        Op("setOnInsert", "key", One(x))>>))
  \/ Call("moveRole", x, y, Patch(<<Is("key", x)>>, <<Set("key", One(y))>>))
  \/ /\ RoomIn("grants")
     /\ Call("pushGrant", x, y, Patch(<<Is("key", x)>>, <<Op("push", "grants", [app |-> y])>>))
  \/ Call("pullGrant", x, y, Patch(<<Is("key", x)>>, <<Op("pullWhere", "grants", [app |-> y])>>))
  \/ Call("moveGrants", x, y,
          PatchMany(<<Has("grants", "app", x)>>, <<SetEach("grants", [app |-> x], [app |-> y])>>))
  \/ Call("dropGrants", x, x,
          PatchMany(<<Has("grants", "app", x)>>, <<Op("pullWhere", "grants", [app |-> x])>>))
  \/ Call("removeRole", x, x, Delete(rows, Columns[name], <<Is("key", x)>>, FALSE))

(* The usage rows.                                                          *)
RecordUpdates(x, y, d, t) ==
  <<Op("setOnInsert", "user_id", One(x)), Op("setOnInsert", "app_key", One(y)),
    Op("setOnInsert", "day", One(d)), Op("setOnInsert", "first_at", One(t)), Set("last_at", One(t))>>

OnUsage(x, y) ==
  \/ \E d \in Days, t \in Times :
       /\ Room
       /\ Call("record", x, y,
               Upsert(<<Is("user_id", x), Is("app_key", y), Is("day", d)>>,
                      RecordUpdates(x, y, d, t)))
  \/ Call("moveUsage", x, y, PatchMany(<<Is("app_key", x)>>, <<Set("app_key", One(y))>>))
  \/ Call("dropAppUsage", x, x, Delete(rows, Columns[name], <<Is("app_key", x)>>, TRUE))
  \/ Call("dropUserUsage", x, x, Delete(rows, Columns[name], <<Is("user_id", x)>>, TRUE))

------------------------------------------------------------------------------
(* The API keys: _id and hash are one name.                                 *)

KeyDoc(h, u) ==
  [f \in {"_id", "token_hash", "user_id", "last_used_at", "revoked_at"} |->
     One(CASE f \in {"_id", "token_hash"} -> h [] f = "user_id" -> u [] OTHER -> Null)]

(* touchLastUsed: never stamped, or stamped long enough ago.                *)
StaleStamp(t) ==
  Clause(<<"$or">>, "eq", <<<<Is("last_used_at", Null)>>,
                            <<Clause(<<"last_used_at">>, "lt", t - Interval)>>>>)
TouchLastUsed(h, t) == Patch(<<Is("_id", h), StaleStamp(t)>>, <<Set("last_used_at", One(t))>>)

(* requireApiKey: findLiveKeyByHash finds the key presented, then the stamp.*)
LiveKey(h) == \E doc \in Range(SelectMatching(rows, Columns[name],
                                              <<Is("token_hash", h), Is("revoked_at", Null)>>)) : TRUE

Revoke(h, u) ==
  Patch(<<Is("_id", h), Is("user_id", u), Is("revoked_at", Null)>>, <<Set("revoked_at", One(0))>>)

OnKeys(x, y) ==
  \/ Room /\ Call("createKey", x, y, Insert(KeyDoc(x, y)))
  \/ Call("revokeKey", x, y, Revoke(x, y))
  \/ \E t \in Times :
       /\ LiveKey(x)
       /\ call' = <<"touchKey", x, x>> /\ rows' = TouchLastUsed(x, t)
       /\ touched' = touched \cup {x} /\ UNCHANGED name

------------------------------------------------------------------------------
User(u) == Put(Put(Put(<<>>, "email", One(u)), "roles", Many(<<>>)), "app_overrides", Many(<<>>))

Init ==
  /\ name \in DOMAIN Columns
  /\ rows = IF name = "users" THEN SetToSeq({User(u) : u \in Name}) ELSE <<>>
  /\ call = <<>> /\ touched = {}

Next ==
  \E x, y \in Name :
    \/ name = "users" /\ OnUsers(x, y)
    \/ name = "roles" /\ OnRoles(x, y)
    \/ name = "usageDaily" /\ OnUsage(x, y)
    \/ name = "apiKeys" /\ OnKeys(x, y)

Spec == Init /\ [][Next]_vars
------------------------------------------------------------------------------
(* Properties.                                                              *)

(* Documents hold tagged values, and as many rows as the bound lets.        *)
StoreTypeOK ==
  /\ name \in DOMAIN Columns /\ Len(rows) <= MaxRows + Cardinality(Name)
  /\ \A i \in DOMAIN rows : \A f \in DOMAIN rows[i] :
       rows[i][f].array \in BOOLEAN /\ (~ rows[i][f].array => Len(rows[i][f].of) = 1)

(* Every document has a value of its own for the unique index: no upsert    *)
(* or rename makes a second document of a user, a role or a day, in the way *)
(* an index that ignores NULL would let pass (usage.ts: "the unique index   *)
(* makes the upsert idempotent").                                           *)
OneRowPerKey ==
  \A i, j \in DOMAIN rows :
    /\ \A f \in Index[name] : Get(rows[i], f) # Null
    /\ (\A f \in Index[name] : Get(rows[i], f) = Get(rows[j], f)) => i = j

(* The SQL condition only saves work: whatever a filter of the code asks    *)
(* for, it keeps every row that matches (sqlite.ts: "correctness still      *)
(* comes from the JS matches() applied to the returned rows").              *)
Sound(q) ==
  \A i \in DOMAIN rows : Matches(rows[i], q) => Selected(rows[i], Columns[name], q)
PrefilterKeepsMatches ==
  \A x \in Name :
    /\ \A f \in {"_id", "email", "key", "roles", "user_id", "app_key", "token_hash"} :
         /\ Sound(<<Is(f, x), Is("revoked_at", Null)>>)
         /\ \A d \in Days : Sound(<<Is(f, x), Clause(<<"day">>, "gte", d)>>)
    /\ \A f \in {"grants", "app_overrides"} : Sound(<<Has(f, "app", x)>>)
    /\ \A f \in {"_id", "key"}, s \in SUBSET Name : Sound(<<Clause(<<f>>, "in", s)>>)

(* What the rows say.                                                       *)
Said(doc) ==
  CASE name = "users" ->
         {<<"user", Get(doc, "email")>>}
         \cup {<<"holds", Get(doc, "email"), k>> : k \in Range(Elements(doc, "roles"))}
         \cup {<<"override", Get(doc, "email"), o.app, o.effect>> : o \in Range(Elements(doc, "app_overrides"))}
    [] name = "roles" ->
         {<<"role", Get(doc, "key")>>}
         \cup {<<"grants", Get(doc, "key"), g.app>> : g \in Range(Elements(doc, "grants"))}
    [] name = "usageDaily" -> {<<"used", Get(doc, "user_id"), Get(doc, "app_key"), Get(doc, "day")>>}
    [] name = "apiKeys" ->
         {<<"key", Get(doc, "_id"), Get(doc, "user_id")>>}
         \cup (IF Get(doc, "revoked_at") = Null THEN {} ELSE {<<"revoked", Get(doc, "_id")>>})

F == INSTANCE FactBase WITH facts <- UNION {Said(rows[i]) : i \in DOMAIN rows}, call <- call

(* Every call of the code changes the facts as its name says and nothing    *)
(* else: a cascade reaches every holder, every grant and every override,    *)
(* duplicates included, a refused write leaves no trace, a key is revoked   *)
(* by its owner only.  It is what Registry takes each of its writes to do.  *)
ImplementsFacts == F!FactSpec

(* apiKeys.ts: "Throttled last-used stamp: only writes when the recorded    *)
(* time is older"; so a key that was presented has a stamp.                 *)
PresentedKeyIsStamped ==
  \A i \in DOMAIN rows :
    name = "apiKeys" /\ Get(rows[i], "_id") \in touched => Get(rows[i], "last_used_at") # Null
==============================================================================
